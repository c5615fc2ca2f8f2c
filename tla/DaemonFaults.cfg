\* Directories come and go, opens for reading and allocations fail.
SPECIFICATION Spec
CONSTANTS
  a = a
  ab = ab
  d1 = d1
  d2 = d2
  junk = junk
  Pid = {s1}
  NoArgs = NoArgs
  Word <- MCWord
  Path <- MCPath
  Junk <- junk
  ReadAs <- PlainRead
  ArgLists <- AllArgs
  InitialFiles <- EditedFiles
  Faults <- EnvFaults
  MaxActions = 3
INVARIANTS TagsAreOnDisk UniqueTags NoImmediateRepeat StacksOfRegisteredOnly
