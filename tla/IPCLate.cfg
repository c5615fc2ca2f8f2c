\* An answer that comes after the client gave up.
SPECIFICATION Spec
CONSTANTS
  c1 = c1
  c2 = c2
  c3 = c3
  p1 = p1
  p2 = p2
  Client = {c1, c2, c3}
  Pid = {p1, p2}
  Shell <- OneShell
  NoClient = NoClient
  Signals = {}
  Late = TRUE
  QLen = 2
  MaxStarts = 2
CHECK_DEADLOCK FALSE
INVARIANT ReplyIsMine
