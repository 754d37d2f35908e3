\* Three programmes and the registry's walk are as many composite reads as there
\* are slots.
SPECIFICATION Spec
CONSTANTS
  Parts = {"session"}
  Subjects = {"alice"}
  NoSubject = "nobody"
  Kinds = {"contract"}
  MaxVersion = 0
  MaxGeneration = 1
  Linkable = {"ours"}
  Registered = {"ours"}
  DemoProgramme = "demo"
  NoParam = "absent"
  Malformed = "malformed"
  MaxAttempts = 1
  Programmes = {p1, p2, p3}
  AnchorReads <- Phase
  FigureReads <- Config
  WalkLength = 1
  MAX_CONCURRENT = 4
CHECK_DEADLOCK FALSE
PROPERTIES CardsSettle
