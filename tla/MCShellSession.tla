---------------------------- MODULE MCShellSession ----------------------------
(***************************************************************************)
(* ShellSession with a tag for a directory, one for a file that cd refuses *)
(* to enter, and a directory whose name holds a space, of which only the   *)
(* first word is pushed, which happens to be another directory.  The user  *)
(* asks for a tag, for an option in its place, for nothing, and to go      *)
(* back; -- alone, which ends the daemon, is left to the theorems.         *)
(***************************************************************************)
EXTENDS ShellSession, TLC

CONSTANTS a, b, d1, d2, f1, spaced, rest, minus, s1

MCWord == {a, b, d1, d2, f1, rest, minus}
MCPath == {d1, d2, f1}
MCDir == {d1, d2, spaced}
MCText == (d1 :> <<d1>>) @@ (d2 :> <<d2>>) @@ (spaced :> <<d1, rest>>)

PlainRead == [n \in MCWord |-> [name |-> n, whole |-> TRUE]]
TwoTags == {<<Entry(a, d2), Entry(b, f1)>>}

MCJob ==
  [cmd : {"get"}, argv : {<< <<a>> >>, << <<b>> >>, << <<minus>> >>, <<>>}]
    \union [cmd : {"pop", "reset"}, argv : {<<>>}]

AllUpsets == {"late", "int", "kill", "taken"}
=============================================================================
