CONSTANTS
  TableWord = {"table", "p", "td"}
  MarkupWord = {"head", "title", "doctype", "br"}
  MarkupMark <- MCMarkupMark
  MaxTokens = 4
  MaxRun = 4
  StyledPages <- MCPages
  SelectorDoc = 5
  Longhand = {"color", "direction", "text-align", "width", "margin-left", "position", "content", "opacity", "filter", "animation", "animation-duration"}
  Viewports = {"wide", "narrow"}
  Hovers <- MCHovers
  LaidPages <- MCLaidPages
  ViewportWidth = 240
  GLYPH = 12
  LINE = 12
  Control = {"t", "d", "l", "f", "g"}
  Role <- MCRole
  Form = {"t"}
  Sandboxed = {"g"}
  MaxTyped = 1
  MaxEvents = 4
  Hearer = {"a", "b"}
  HearerParent <- MCHearerParent
  Popover = {"b"}
  Dialog = {"b"}
  MutationObserver = {"o", "p"}
  Watched = {"s", "t"}
  Kind = {"k"}
  MaxRecords = 2
  MaxWatches = 1
  LayoutObserver = {1, 2}
  thresholds <- MCthresholds
  FULL = 1
  MaxChunks = 2
  MaxReads = 2
  MaxStreams = 3
  MaxSignals = 3
  MaxListeners = 1
  MaxSends = 3
  MaxDepth = 3
  Options <- MCOptions
  TickOptions <- MCTickOptions
  Rates = {1, 2}
  MaxAnimations = 2
  MaxPromises = 2
  MaxTime = 3
  FADE = 2
  MaxMedia = 3
  MaxCodecs = 1
  MaxData = 2
  Video = {"v"}
  MaxBuffers = 2
  MaxAppends = 3
  MaxCalls = 2
  MaxEncoders = 2
  MaxPasses = 2
  MaxCommands = 2
  Size = {1}
  Source = {"s", "x"}
  Broken = {"x"}
  FormPages <- MCFormPages
  FormTexts <- MCFormTexts
  MatchedPages <- MCMatchedPages
  MatchedTexts <- MCMatchedTexts
  MatchedPatterns <- MCMatchedPatterns
  NumberOf <- MCNumberOf
  Message = {"wrong"}
SPECIFICATION Spec
INVARIANTS TypeOK ShownAsDefined HeardWhole OutcomesTold
PROPERTY PauseKeepsTime
CHECK_DEADLOCK FALSE
