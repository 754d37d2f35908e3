\* One hook of each kind over two subjects; two programmes and the registry's
\* walk, one slot short of what blocks the reader; two links.
SPECIFICATION Spec
CONSTANTS
  Parts = {"hook", "link", "session"}
  Subjects = {"alice", "bob"}
  NoSubject = "nobody"
  Kinds = {"contract", "indexed", "chain"}
  MaxVersion = 1
  MaxGeneration = 3
  Linkable = {"ours", "theirs"}
  Registered = {"ours"}
  DemoProgramme = "demo"
  NoParam = "absent"
  Malformed = "malformed"
  MaxAttempts = 2
  Programmes = {p1, p2}
  AnchorReads <- Phase
  FigureReads <- TotalAndConfig
  WalkLength = 1
  MAX_CONCURRENT = 4
\* An unmounted hook with nothing in flight does nothing more.
CHECK_DEADLOCK FALSE
INVARIANTS HooksShowNow NothingForgotten LinkedIsRegistered
PROPERTIES DataIsOfNewestRead SpinnerEnds CardsSettle
