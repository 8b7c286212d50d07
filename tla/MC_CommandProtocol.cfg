SPECIFICATION FairSpec
CONSTANTS
  Clients = {c1, c2}
  Words <- MC_Words
  Lines <- MC_Lines
  Newline = Newline
  Empty = Empty
  None = None
  RecvSize = 3
  MaxBuffer = 5
  Window = 1
  MaxLines = 3
CHECK_DEADLOCK FALSE
INVARIANTS
  TypeOK
  OnlyOverlongLinesDisconnect
  SurvivesDepartedClients
  AnsweredWritesAreLogged
PROPERTIES
  ImplementsKVService
  EveryLineIsAnswered
