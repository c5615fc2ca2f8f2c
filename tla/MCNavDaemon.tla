------------------------------ MODULE MCNavDaemon ------------------------------
(***************************************************************************)
(* NavDaemon on small instances: two tag names, of which "ab" stands for a *)
(* name like "a=b" when names may be mangled, two directories and the word *)
(* a mangled path turns into.                                              *)
(***************************************************************************)
EXTENDS NavRefinement, TLC

CONSTANTS a, ab, d1, d2, junk

(* Two shells can be exchanged: no definition tells them apart.            *)
Shells == Permutations(Pid)

MCWord == {a, ab, d1, d2, junk}
MCPath == {d1, d2}

(* Names without '='; names of which one is read back as the other.        *)
PlainRead == [n \in MCWord |-> [name |-> n, whole |-> TRUE]]
MangledRead == [PlainRead EXCEPT ![ab] = [name |-> a, whole |-> FALSE]]

(* Every shape of argument list a handler tells apart: missing, blank, a   *)
(* lone name or path, a name with a path or with a word that is no path,   *)
(* and one word too many.                                                  *)
TagArgs == {<<n>> : n \in {a, ab}} \union {<<n, d>> : n \in {a, ab}, d \in MCPath}
OddArgs == {NoArgs, <<>>, <<a, junk>>, <<a, d1, d2>>}
AllArgs == TagArgs \union OddArgs \union {<<d>> : d \in MCPath}
StackArgs == {NoArgs, <<>>, <<junk>>} \union {<<d>> : d \in MCPath}

Empty == {<<>>}
PlainFiles == {<<>>, <<Entry(a, d1)>>, <<Entry(ab, d2), Entry(a, d1)>>}

(* A tag file edited by hand may list a name twice or name a missing path. *)
EditedFiles ==
  PlainFiles \union {<<Entry(a, d1), Entry(a, d2)>>,
                     <<Entry(ab, junk), Entry(a, d1)>>}

NoFault == {}
EnvFaults == {"fs", "read", "alloc"}
AllFaults == {"fs", "read", "write", "alloc"}
WriteFault == {"write"}
=============================================================================
