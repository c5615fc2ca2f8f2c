\* Two shells, two tags, two directories, no failure of the environment.
SPECIFICATION Spec
CONSTANTS
  a = a
  ab = ab
  d1 = d1
  d2 = d2
  junk = junk
  Pid = {s1, s2}
  NoArgs = NoArgs
  Word <- MCWord
  Path <- MCPath
  Junk <- junk
  ReadAs <- PlainRead
  ArgLists <- AllArgs
  InitialFiles <- PlainFiles
  Faults <- NoFault
  MaxActions = 2
INVARIANTS TypeOK FileMirrorsTags
PROPERTIES ShellIsolation ImplementsService
SYMMETRY Shells
