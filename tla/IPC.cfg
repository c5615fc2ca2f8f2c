\* Late answers, interrupts and restarts; two shells.
SPECIFICATION FairSpec
CONSTANTS
  c1 = c1
  c2 = c2
  c3 = c3
  p1 = p1
  p2 = p2
  Client = {c1, c2, c3}
  Pid = {p1, p2}
  Shell <- ThreeClients
  NoClient = NoClient
  Signals = {"int"}
  Late = TRUE
  QLen = 1
  MaxStarts = 2
CHECK_DEADLOCK FALSE
INVARIANTS TypeOK RepliesStayInShell NoStaleSocket
PROPERTY ClientsEnd
