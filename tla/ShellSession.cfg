\* One shell at a time with a reused pid; late answers, Ctrl-C, kills, restarts.
SPECIFICATION FairSession
CONSTANTS
  a = a
  b = b
  f1 = f1
  d1 = d1
  d2 = d2
  spaced = spaced
  rest = rest
  minus = minus
  s1 = s1
  Pid = {s1}
  NoArgs = NoArgs
  Word <- MCWord
  Path <- MCPath
  Dir <- MCDir
  Text <- MCText
  Dashes = rest
  Options = {minus}
  Job <- MCJob
  Junk <- rest
  ReadAs <- PlainRead
  ArgLists = {}
  InitialFiles <- TwoTags
  Faults = {}
  Upsets <- AllUpsets
  MaxActions = 2
  MaxQueue = 1
INVARIANTS SessionTypeOK StackIsMine NothingLeftBehind BackUndoes NavNeverCrashes
PROPERTIES NavReturns LeavingUnregisters
