------------------------------ MODULE NavService ------------------------------
(***************************************************************************)
(* What nav promises its user, without lists, files and processes: a map   *)
(* from tag names to directories that outlives the daemon, and for each    *)
(* open shell a stack of directories to go back to, which does not.        *)
(* NavDaemon implements this specification (see MCNavDaemon).              *)
(***************************************************************************)
EXTENDS Naturals, Sequences

CONSTANTS Pid, Name, Dir

VARIABLES
  store,   \* the tag map, a function whose domain is the set of known names
  open,    \* the shells that have a session
  trail,   \* the directories each shell can go back to, latest first
  answer   \* what the last step told a shell: none or one answer

svars == <<store, open, trail, answer>>

Say(p, asked, kind, body) ==
  answer' = <<[to |-> p, asked |-> asked, kind |-> kind, body |-> body]>>

Init ==
  /\ \E known \in SUBSET Name : store \in [known -> Dir]
  /\ open = {}
  /\ trail = [p \in Pid |-> <<>>]
  /\ answer = <<>>

Open(p) ==
  /\ Say(p, <<"register">>, "OK", {})
  /\ open' = open \union {p}
  /\ UNCHANGED <<store, trail>>

Close(p) ==
  /\ p \in open
  /\ Say(p, <<"unregister">>, "OK", {})
  /\ open' = open \ {p}
  /\ trail' = [trail EXCEPT ![p] = <<>>]
  /\ UNCHANGED store

Remember(p, n, d) ==
  /\ p \in open
  /\ Say(p, <<"add", n, d>>, "OK", {})
  /\ store' = [k \in DOMAIN store \union {n} |-> IF k = n THEN d ELSE store[k]]
  /\ UNCHANGED <<open, trail>>

Forget(p, n) ==
  /\ p \in open
  /\ Say(p, <<"delete", n>>, "OK", {})
  /\ n \in DOMAIN store
  /\ store' = [k \in DOMAIN store \ {n} |-> store[k]]
  /\ UNCHANGED <<open, trail>>

Lookup(p, n) ==
  /\ p \in open
  /\ n \in DOMAIN store
  /\ Say(p, <<"get", n>>, "path", {store[n]})
  /\ UNCHANGED <<store, open, trail>>

Names(p) ==
  /\ p \in open
  /\ Say(p, <<"list">>, "list", DOMAIN store)
  /\ UNCHANGED <<store, open, trail>>

Entries(p) ==
  /\ p \in open
  /\ Say(p, <<"show">>, "show",
         {[tag |-> n, path |-> store[n]] : n \in DOMAIN store})
  /\ UNCHANGED <<store, open, trail>>

(* Leaving d twice in a row is remembered once.                            *)
Leave(p, d) ==
  /\ p \in open
  /\ Say(p, <<"push", d>>, "OK", {})
  /\ trail' = IF trail[p] # <<>> /\ Head(trail[p]) = d
                THEN trail
                ELSE [trail EXCEPT ![p] = <<d>> \o @]
  /\ UNCHANGED <<store, open>>

Back(p) ==
  /\ p \in open
  /\ trail[p] # <<>>
  /\ Say(p, <<"pop">>, "path", {Head(trail[p])})
  /\ trail' = [trail EXCEPT ![p] = Tail(@)]
  /\ UNCHANGED <<store, open>>

Trail(p) ==
  /\ p \in open
  /\ Say(p, <<"actions">>, "actions",
         {<<i, trail[p][i]>> : i \in 1..Len(trail[p])})
  /\ UNCHANGED <<store, open, trail>>

Clear(p) ==
  /\ p \in open
  /\ Say(p, <<"reset">>, "OK", {})
  /\ trail' = [trail EXCEPT ![p] = <<>>]
  /\ UNCHANGED <<store, open>>

(* A request is refused, and changes nothing, when there is no such tag,   *)
(* when there is nowhere to go back to, or when a directory or the memory  *)
(* is missing.                                                             *)
Refuse(p, asked) ==
  /\ p \in open
  /\ Say(p, asked, "BAD", {})
  /\ UNCHANGED <<store, open, trail>>

NotKnown(p, n) ==
  /\ Refuse(p, <<"get", n>>) \/ Refuse(p, <<"delete", n>>)
  /\ n \notin DOMAIN store

NoWayBack(p) == trail[p] = <<>> /\ Refuse(p, <<"pop">>)

NotPossible(p) == Refuse(p, <<"add">>) \/ Refuse(p, <<"push">>)

(* A shell without a session, or a malformed request, gets no answer.      *)
Ignore == answer' = <<>> /\ UNCHANGED <<store, open, trail>>

(* The sessions and their trails end with the daemon, the tags do not.     *)
EndSessions ==
  /\ open' = {}
  /\ trail' = [p \in Pid |-> <<>>]
  /\ answer' = <<>>
  /\ UNCHANGED store

Next ==
  \/ Ignore
  \/ EndSessions
  \/ \E p \in Pid :
       \/ Open(p) \/ Close(p) \/ NoWayBack(p) \/ NotPossible(p)
       \/ Names(p) \/ Entries(p) \/ Trail(p)
       \/ Back(p) \/ Clear(p)
  \/ \E p \in Pid, n \in Name : Forget(p, n) \/ Lookup(p, n) \/ NotKnown(p, n)
  \/ \E p \in Pid, d \in Dir : Leave(p, d)
  \/ \E p \in Pid, n \in Name, d \in Dir : Remember(p, n, d)

Spec == Init /\ [][Next]_svars
=============================================================================
