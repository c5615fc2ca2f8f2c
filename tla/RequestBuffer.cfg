\* Every order of requests of different lengths.
SPECIFICATION Spec
CONSTANTS
  s = s
  r = r
  g = g
  a = a
  p = p
  x = x
  y = y
  Space = Space
  Nul = Nul
  Size = 12
  Letter <- MCLetter
  Requests <- MCRequests
  Cuts <- MCCuts
  Peeks <- MCPeeks
INVARIANTS TypeOK CommandIsSent ArgsStartWithRequest LongestSoFarIsExact
