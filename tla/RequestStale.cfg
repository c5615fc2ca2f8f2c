\* What a handler sees besides the request's own words.
SPECIFICATION Spec
CONSTANTS
  s = s
  r = r
  g = g
  a = a
  p = p
  x = x
  y = y
  Space = Space
  Nul = Nul
  Size = 12
  Letter <- MCLetter
  Requests <- MCRequests
  Cuts <- MCCuts
  Peeks <- MCPeeks
INVARIANT HandlerSeesRequest
