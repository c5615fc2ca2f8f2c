\* What the reader does to a line whose name holds a '='.
SPECIFICATION Spec
CONSTANTS
  a = a
  ab = ab
  d1 = d1
  d2 = d2
  junk = junk
  Pid = {s1}
  NoArgs = NoArgs
  Word <- MCWord
  Path <- MCPath
  Junk <- junk
  ReadAs <- MangledRead
  ArgLists <- AllArgs
  InitialFiles <- PlainFiles
  Faults <- NoFault
  MaxActions = 1
PROPERTY LoadVerifiesPaths
