CONSTANTS
  MaxNodes = 5
  Disciplined = TRUE
  Fragments <- ParsedFragments
SPECIFICATION Spec
INVARIANTS TypeOK LinksAgree ChildrenComplete Acyclic SiblingsEnd
PROPERTY ImplementsTree
