\* A unit and a second daemon; two ends from outside.
SPECIFICATION FairSpec
CONSTANTS
  d1 = d1
  d2 = d2
  a = a
  b = b
  Daemon = {d1, d2}
  Unit = d1
  NoOne = NoOne
  Tag = {a, b}
  Blank = Blank
  Op <- Changes
  MaxEnds = 2
INVARIANTS TypeOK LastCloseWins ServesTheFile SoleDaemonIsReached
PROPERTY FailedUnitServesAgain
