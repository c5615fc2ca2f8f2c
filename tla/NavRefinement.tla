---------------------------- MODULE NavRefinement ----------------------------
(***************************************************************************)
(* NavDaemon seen as NavService: the tag map is what the tag file says, a  *)
(* shell's trail is its action stack, and an answer that lists something   *)
(* is the set of what it lists (a stack keeps its order).                  *)
(***************************************************************************)
EXTENDS NavDaemon

TagsOf(l) == {l[i].tag : i \in 1..Len(l)}
StoreOf(l) == [n \in TagsOf(l) |-> l[FirstIndex(l, n)].path]

Items(l) == {l[i] : i \in 1..Len(l)}

AnswerOf(r) ==
  [to |-> r.to, asked |-> <<r.cmd>> \o r.args, kind |-> r.kind,
   body |-> IF r.kind = "actions"
              THEN {<<i, r.body[i]>> : i \in 1..Len(r.body)}
              ELSE Items(r.body)]

Store == StoreOf(file)
Said == [i \in 1..Len(sent) |-> AnswerOf(sent[i])]

Service == INSTANCE NavService WITH
  Name <- Word,
  Dir <- Path,
  store <- Store,
  open <- shells,
  trail <- actions,
  answer <- Said

(* The daemon, its list, its file and its restarts behave as one map from  *)
(* names to directories that no restart changes, and one stack per shell:  *)
(* every answer to get, list, show, pop and actions is the one that map    *)
(* and that stack give.                                                    *)
ImplementsService == Service!Spec
=============================================================================
