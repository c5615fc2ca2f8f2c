----------------------------- MODULE DaemonProcess -----------------------------
(***************************************************************************)
(* Daemon processes (daemon/main.c): how one sets itself up, takes the     *)
(* path nav.sock, changes its tag list, writes the tag file and ends; at   *)
(* every step it may be signalled or killed.  Nothing keeps a second       *)
(* daemon from being started while one runs: both use the one path and the *)
(* one tag file.  The service manager starts its unit again after a        *)
(* failure (README.md, Restart=on-failure) and not after a clean end.      *)
(*                                                                         *)
(* NavDaemon has the commands and their answers and writes the file in one *)
(* step; here a command is add or delete of a tag (with its path, one      *)
(* value) and the write is what write_tag_file makes of it: fopen empties  *)
(* the file, what is printed stays in stdio's buffer, fclose puts it at    *)
(* the start of the file.  Tag lists are short enough for that buffer.     *)
(***************************************************************************)
EXTENDS Naturals, Sequences, FiniteSets

CONSTANTS
  Daemon,     \* daemon processes that may run at the same time
  Unit,       \* the one the service manager looks after
  NoOne,      \* no socket file at nav.sock
  Tag,        \* tags, each with its path
  Blank,      \* the empty line that ends the list in the file
  Op,         \* the changes that clients may ask for
  MaxEnds     \* bound on the ends that come from outside (model bound)

ASSUME UnitAssumption == Unit \in Daemon /\ NoOne \notin Daemon
ASSUME BlankAssumption == Blank \notin Tag
ASSUME OpAssumption == Op \subseteq [do : {"add", "delete"}, tag : Tag]
ASSUME EndsAssumption == MaxEnds \in Nat

VARIABLES
  stage,    \* where each process is
  tags,     \* its tag list
  inbox,    \* the request in its socket: none or one
  ended,    \* how the last process of that name ended
  path,     \* whose socket is at nav.sock, running or not
  file,     \* the lines of the tag file
  ends,     \* how many ends came from outside
  last,     \* history: the list that reached the file last
  behind,   \* history: whether another daemon wrote since this one read
            \* or wrote the whole file
  alone     \* history: whether no other ran since this one was started

process == <<stage, tags, inbox, ended>>
history == <<last, behind, alone>>
vars == <<process, path, file, ends, history>>

Stage == {"none", "loading", "loaded", "unlinked", "bound", "serving",
          "changing", "changed", "writing"}

(* register_signal_handlers has been called.                               *)
Commanded == {"changing", "changed", "writing"}
Handling == {"serving"} \union Commanded

(* Its socket exists: at nav.sock, unless another has taken the path.      *)
Listening == {"bound"} \union Handling

List == {l \in Seq(Tag) : \A i, j \in 1..Len(l) : l[i] = l[j] => i = j}

Running(d) == stage[d] # "none"
At(d, s) == stage[d] = s
Go(d, s) == stage' = [stage EXCEPT ![d] = s]

Init ==
  /\ stage = [d \in Daemon |-> "none"]
  /\ tags = [d \in Daemon |-> <<>>]
  /\ inbox = [d \in Daemon |-> <<>>]
  /\ ended = [d \in Daemon |-> "clean"]
  /\ path = NoOne
  /\ file = <<>>
  /\ ends = 0
  /\ last = <<>>
  /\ behind = [d \in Daemon |-> FALSE]
  /\ alone = [d \in Daemon |-> FALSE]
-----------------------------------------------------------------------------
(* The tag file.                                                           *)
(*                                                                         *)
(* LinesUnended, AddAgain, KeepOldPath, UnlinkLate, ChangeUnwritten are    *)
(* slips the code could have made; they are no part of Next.               *)

Has(l, t) == \E i \in 1..Len(l) : l[i] = t
Position(l, t) == CHOOSE i \in 1..Len(l) : l[i] = t

(* read_tag_file stops at an empty line.  No tag is twice before it.       *)
ReadBack(f) ==
  IF Has(f, Blank)
    THEN SubSeq(f, 1, (CHOOSE i \in 1..Len(f) :
                         f[i] = Blank /\ \A j \in 1..(i-1) : f[j] # Blank) - 1)
    ELSE f

LinesUnended(l) == l
Lines(l) == Append(l, Blank)

(* Writing n lines at the start of a file leaves what is behind them.      *)
Over(f, lines) == lines \o SubSeq(f, Len(lines) + 1, Len(f))

AddAgain(l, op) ==
  IF op.do = "add" THEN Append(l, op.tag) ELSE l

Applied(l, op) ==
  IF op.do = "add"
    THEN IF Has(l, op.tag) THEN l ELSE Append(l, op.tag)
    ELSE SubSeq(l, 1, Position(l, op.tag) - 1)
           \o SubSeq(l, Position(l, op.tag) + 1, Len(l))

(* A delete of an unknown tag is answered BAD and writes nothing.          *)
Accepted(l, op) == op.do = "add" \/ Has(l, op.tag)

-----------------------------------------------------------------------------
(* Setting up.                                                             *)

Begin(d) ==
  /\ At(d, "none")
  /\ Go(d, "loading")
  /\ alone' = [e \in Daemon |->
                 IF e = d THEN \A o \in Daemon \ {d} : ~Running(o) ELSE FALSE]
  /\ UNCHANGED <<tags, inbox, ended, path, file, ends, last, behind>>

StartedByHand(d) == Begin(d)

Restarted == ended[Unit] = "failed" /\ Begin(Unit)

Load(d) ==
  /\ At(d, "loading")
  /\ tags' = [tags EXCEPT ![d] = ReadBack(file)]
  /\ behind' = [behind EXCEPT ![d] = FALSE]
  /\ Go(d, "loaded")
  /\ UNCHANGED <<inbox, ended, path, file, ends, last, alone>>

KeepOldPath(d) ==
  /\ At(d, "loaded")
  /\ Go(d, "unlinked")
  /\ UNCHANGED <<tags, inbox, ended, path, file, ends, history>>

(* setup_socket: whatever is at the path goes.                             *)
UnlinkOld(d) ==
  /\ At(d, "loaded")
  /\ path' = NoOne
  /\ Go(d, "unlinked")
  /\ UNCHANGED <<tags, inbox, ended, file, ends, history>>

Bind(d) ==
  /\ At(d, "unlinked")
  /\ path = NoOne
  /\ path' = d
  /\ Go(d, "bound")
  /\ UNCHANGED <<tags, inbox, ended, file, ends, history>>

UnlinkLate(d) ==
  /\ At(d, "bound")
  /\ path' = NoOne
  /\ Go(d, "serving")
  /\ UNCHANGED <<tags, inbox, ended, file, ends, history>>

Install(d) ==
  /\ At(d, "bound")
  /\ Go(d, "serving")
  /\ UNCHANGED <<tags, inbox, ended, path, file, ends, history>>
-----------------------------------------------------------------------------
(* Ending.                                                                 *)

(* The process is gone, its memory and its socket with it.                 *)
Gone(d, how) ==
  /\ Go(d, "none")
  /\ ended' = [ended EXCEPT ![d] = how]
  /\ tags' = [tags EXCEPT ![d] = <<>>]
  /\ inbox' = [inbox EXCEPT ![d] = <<>>]
  /\ behind' = [behind EXCEPT ![d] = FALSE]
  /\ alone' = [alone EXCEPT ![d] = FALSE]
  /\ UNCHANGED <<file, last>>

(* Another daemon has bound the path between unlink and bind.              *)
BindFails(d) ==
  /\ At(d, "unlinked")
  /\ path # NoOne
  /\ Gone(d, "failed")
  /\ UNCHANGED <<path, ends>>

FromOutside == ends < MaxEnds /\ ends' = ends + 1

(* SIGINT or SIGTERM.  handler unlinks the path, whoever is bound there,   *)
(* frees the lists and leaves with _exit: stdio's buffer is not written.   *)
(* While a command runs it may free what the command is freeing or reach   *)
(* malloc in the middle of a step, and abort.  Before the handlers are     *)
(* installed the process just dies.                                        *)
Signal(d) ==
  /\ Running(d)
  /\ FromOutside
  /\ path' = IF stage[d] \in Handling THEN NoOne ELSE path
  /\ \/ Gone(d, "clean")
     \/ stage[d] \in Commanded /\ Gone(d, "failed")

(* A signal that cannot be handled, a request that crashes the daemon, or  *)
(* a set-up that exits (no user name, no directory, no socket).            *)
Kill(d) ==
  /\ Running(d)
  /\ FromOutside
  /\ Gone(d, "failed")
  /\ UNCHANGED path

(* loop breaks on a pid out of range, and main returns 0.                  *)
Return(d) ==
  /\ At(d, "serving")
  /\ FromOutside
  /\ path' = NoOne
  /\ Gone(d, "clean")
-----------------------------------------------------------------------------
(* Serving.                                                                *)

(* A client finds the daemon by the path; the request waits in its socket. *)
Ask(d, op) ==
  /\ path = d
  /\ stage[d] \in Listening
  /\ inbox[d] = <<>>
  /\ inbox' = [inbox EXCEPT ![d] = <<op>>]
  /\ UNCHANGED <<stage, tags, ended, path, file, ends, history>>

(* The request is received; from here on the list is being changed.        *)
Receive(d) ==
  /\ At(d, "serving")
  /\ inbox[d] # <<>>
  /\ Go(d, "changing")
  /\ UNCHANGED <<tags, inbox, ended, path, file, ends, history>>

ChangeUnwritten(d) ==
  /\ At(d, "changing")
  /\ inbox' = [inbox EXCEPT ![d] = <<>>]
  /\ LET op == inbox[d][1]
     IN  tags' = [tags EXCEPT ![d] =
                    IF Accepted(@, op) THEN Applied(@, op) ELSE @]
  /\ Go(d, "serving")
  /\ UNCHANGED <<ended, path, file, ends, history>>

Change(d) ==
  /\ At(d, "changing")
  /\ inbox' = [inbox EXCEPT ![d] = <<>>]
  /\ LET op == inbox[d][1]
     IN  \/ /\ Accepted(tags[d], op)
            /\ tags' = [tags EXCEPT ![d] = Applied(@, op)]
            /\ Go(d, "changed")
         \/ /\ ~Accepted(tags[d], op)
            /\ Go(d, "serving")
            /\ UNCHANGED tags
  /\ UNCHANGED <<ended, path, file, ends, history>>

(* fopen(path, "w")                                                        *)
OpenFile(d) ==
  /\ At(d, "changed")
  /\ file' = <<>>
  /\ last' = <<>>
  /\ behind' = [e \in Daemon |-> behind[e] \/ e # d]
  /\ Go(d, "writing")
  /\ UNCHANGED <<tags, inbox, ended, path, ends, alone>>

(* The lines, the empty line, fclose, and the reply.                       *)
CloseFile(d) ==
  /\ At(d, "writing")
  /\ file' = Over(file, Lines(tags[d]))
  /\ last' = tags[d]
  /\ behind' = [e \in Daemon |-> e # d]
  /\ Go(d, "serving")
  /\ UNCHANGED <<tags, inbox, ended, path, ends, alone>>
-----------------------------------------------------------------------------
SetUp(d) == Load(d) \/ UnlinkOld(d) \/ Bind(d) \/ BindFails(d) \/ Install(d)

Work(d) == Receive(d) \/ Change(d) \/ OpenFile(d) \/ CloseFile(d)

Next ==
  \/ \E d \in Daemon : StartedByHand(d) \/ SetUp(d) \/ Work(d)
  \/ \E d \in Daemon : Signal(d) \/ Kill(d) \/ Return(d)
  \/ \E d \in Daemon, op \in Op : Ask(d, op)
  \/ Restarted

Spec == Init /\ [][Next]_vars

(* A process that runs keeps running, and the service manager does what    *)
(* its unit file says.  Nothing makes anyone start a daemon by hand.       *)
FairSpec ==
  Spec /\ WF_vars(Restarted)
       /\ \A d \in Daemon : WF_vars(SetUp(d)) /\ WF_vars(Work(d))
-----------------------------------------------------------------------------
(* Properties.                                                             *)

TypeOK ==
  /\ stage \in [Daemon -> Stage]
  /\ tags \in [Daemon -> List]
  /\ inbox \in [Daemon -> Seq(Op)] /\ \A d \in Daemon : Len(inbox[d]) <= 1
  /\ ended \in [Daemon -> {"clean", "failed"}]
  /\ path \in Daemon \union {NoOne}
  /\ file \in Seq(Tag \union {Blank})
  /\ ends \in 0..MaxEnds
  /\ last \in List
  /\ behind \in [Daemon -> BOOLEAN]
  /\ alone \in [Daemon -> BOOLEAN]
  /\ \A d \in Daemon : At(d, "changing") => inbox[d] # <<>>

(* Whatever is killed and however the writes of two daemons overlap, the   *)
(* file reads back as the list that was closed last, whole, or as nothing  *)
(* at all when a write was begun since and has not come to its end: never  *)
(* as a mixture, and never as a list older than that.  The empty line at   *)
(* the end is what keeps a reader out of the rest of a longer list.        *)
LastCloseWins == ReadBack(file) = last

(* Between requests, a daemon answers from a list that is what the file    *)
(* says, through kills in the middle of a write, restarts and stale        *)
(* sockets; only a second daemon that writes the same file can make the    *)
(* two differ.                                                             *)
ServesTheFile ==
  \A d \in Daemon :
    At(d, "serving") => behind[d] \/ tags[d] = ReadBack(file)

(* A daemon that is the only one running is the one at nav.sock, whatever  *)
(* an earlier one left there; clients reach it until it ends.  A second    *)
(* daemon takes the path, and the end of either unlinks it for both.       *)
SoleDaemonIsReached ==
  \A d \in Daemon : alone[d] /\ stage[d] \in Listening => path = d

(* A unit that failed, by a kill, a crash or because another daemon was    *)
(* quicker to bind, is serving again in the end, unless someone ends it    *)
(* cleanly first: a socket left at nav.sock does not keep it out.          *)
UnitIs(s, how) == At(Unit, s) /\ ended[Unit] = how
FailedUnitServesAgain ==
  UnitIs("none", "failed") ~> At(Unit, "serving") \/ UnitIs("none", "clean")
=============================================================================
