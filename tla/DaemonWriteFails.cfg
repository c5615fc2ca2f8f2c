\* The tag file cannot be opened for writing.
SPECIFICATION Spec
CONSTANTS
  a = a
  ab = ab
  d1 = d1
  d2 = d2
  junk = junk
  Pid = {s1}
  NoArgs = NoArgs
  Word <- MCWord
  Path <- MCPath
  Junk <- junk
  ReadAs <- PlainRead
  ArgLists <- AllArgs
  InitialFiles <- Empty
  Faults <- WriteFault
  MaxActions = 1
PROPERTY OkMeansOnDisk
