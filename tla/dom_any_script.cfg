CONSTANTS
  MaxNodes = 4
  Disciplined = FALSE
  Fragments <- ParsedFragments
SPECIFICATION Spec
INVARIANT Acyclic
