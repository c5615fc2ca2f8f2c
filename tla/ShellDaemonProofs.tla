--------------------------- MODULE ShellDaemonProofs ---------------------------
(***************************************************************************)
(* The shells and the daemon together.  Every step of ShellSession is a    *)
(* step of the daemon with some arguments, or none of its business, so     *)
(* what NavDaemonProofs and the modules behind it prove of such steps      *)
(* holds between any number of shells as well; and what a shell finds in   *)
(* the daemon at its prompt is its own history.                            *)
(***************************************************************************)
EXTENDS ShellSessionProofs, NavRefinementProofs

(***************************************************************************)
(* What the daemon does in a step of the shells and the daemon.            *)
(***************************************************************************)
LEMMA SilenceIsElsewhere == Silence => Elsewhere
BY DEF Silence, Silent, daemon, Elsewhere, Idle

(* What happens to one shell and its client.                               *)
ShellStep(p) ==
  User(p) \/ Client(p) \/ FindsPathTaken(p) \/ Interrupt(p) \/ Kill(p)

LEMMA ShellsAreElsewhere ==
  ASSUME NEW p \in Pid, ShellStep(p)
  PROVE  Elsewhere
<1>1. Silence
  BY DEF ShellStep, User, Open, Wander, Nav, Complete, Leave, Client, Hear,
         SendRequest, FindsNoDaemon, FindsPathTaken, GivesNothing, GiveUp,
         Interrupt, Kill
<1> QED BY <1>1, SilenceIsElsewhere

LEMMA SessionIsAnyStep == Sound /\ [SessionNext]_all => AnyStep
<1> SUFFICES ASSUME Sound, [SessionNext]_all PROVE AnyStep
  OBVIOUS
<1>1. ASSUME NEW p \in Pid, ShellStep(p) PROVE AnyStep
  BY <1>1, ShellsAreElsewhere DEF AnyStep
<1>2. CASE Answer
  <2>1. PICK r \in Request : r = Head(queue)
    BY <1>2, Taken DEF Answer, Sound
  <2>2. /\ r.from \in Pid /\ r.args \in AnyArgs
        /\ \/ Dispatch(r.from, r.cmd, r.args)
           \/ NullArgs(r.from, r.args)
    BY <1>2, <2>1, RequestFields DEF Answer, AnyArgs
  <2>3. Command(r.from) \/ CommandWith(r.from, r.args)
    BY <2>2 DEF Dispatch, Command, CommandWith
  <2> QED BY <2>2, <2>3 DEF AnyStep
<1>3. CASE Stop \/ Background
  BY <1>3 DEF Stop, Background, Process, AnyStep
<1>4. CASE UNCHANGED all
  BY <1>4 DEF all, vars, Elsewhere, Idle, memory, AnyStep
<1> QED BY <1>1, <1>2, <1>3, <1>4 DEF SessionNext, ShellStep
-----------------------------------------------------------------------------
(* The daemon's own invariants, with shells as its clients.                *)

LEMMA DaemonTypeAlways == SessionSpec => []TypeOK
<1>1. SessionInit => TypeOK
  BY TypeOKInit DEF SessionInit
<1> QED
  BY <1>1, TypeOKStep, SessionIsAnyStep, SoundAlways, PTL DEF SessionSpec
-----------------------------------------------------------------------------
(* What a shell holds.                                                     *)

(* A client has printed one thing, or has yet to end.                      *)
Outputs == {<<>>} \union {<<out>> : out \in Printed}

ShellsTyped ==
  /\ dir \in [Pid -> Printed]
  /\ heard \in [Pid -> Outputs]
  /\ \A p \in Pid : heard[p] # <<>> => p \in alive /\ step[p] # "prompt"
  /\ Len(queue) <= MaxQueue
  /\ trail \in [Pid -> Seq(Dir)]
  /\ astray \in [Pid -> BOOLEAN]

LEMMA NothingPrinted ==
  /\ Nothing \in Printed /\ <<Nothing>> \in Outputs
  /\ Usage \in Printed /\ <<Usage>> \in Outputs
<1>1. <<>> \in Seq(Word)
  OBVIOUS
<1>2. Nothing \in Printed /\ Usage \in Printed
  BY <1>1 DEF Nothing, Usage, Printed
<1> QED BY <1>2 DEF Outputs

(* What was printed, when something was.                                   *)
LEMMA HeardIsPrinted ==
  ASSUME NEW h \in Outputs, h # <<>> PROVE h[1] \in Printed
BY DEF Outputs

LEMMA TrailsTyped ==
  ASSUME Sound, ShellsTyped, NEW p \in Pid
  PROVE  Departed(p) \in Seq(Dir) /\ Returned(p) \in Seq(Dir)
<1>1. cwd[p] \in Dir /\ trail[p] \in Seq(Dir)
  BY DEF Sound, Typed, ShellsTyped
<1>2. <<cwd[p]>> \in Seq(Dir)
  BY <1>1
<1>3. <<cwd[p]>> \o trail[p] \in Seq(Dir)
  BY <1>1, <1>2, ConcatProperties
<1>4. trail[p] # <<>> => Tail(trail[p]) \in Seq(Dir)
  BY <1>1, HeadTailProperties
<1> QED BY <1>1, <1>3, <1>4 DEF Departed, Returned

(* A client was started, or has ended without a datagram.                  *)
LEMMA HeardTyped ==
  ASSUME Sound, ShellsTyped, NEW p \in Pid, NEW h \in Outputs,
         heard' = [heard EXCEPT ![p] = h],
         h # <<>> => p \in alive /\ step'[p] # "prompt",
         \A q \in Pid \ {p} : step'[q] = step[q],
         UNCHANGED <<alive, queue, trail, astray>>, dir' \in [Pid -> Printed]
  PROVE  ShellsTyped'
<1>1. heard' \in [Pid -> Outputs]
  BY DEF ShellsTyped
<1>2. ASSUME NEW q \in Pid, heard'[q] # <<>>
      PROVE  q \in alive /\ step'[q] # "prompt"
  <2>1. CASE q = p
    BY <1>2, <2>1 DEF ShellsTyped
  <2>2. CASE q # p
    BY <1>2, <2>2 DEF ShellsTyped
  <2> QED BY <2>1, <2>2
<1> QED BY <1>1, <1>2 DEF ShellsTyped

LEMMA CallTyped ==
  ASSUME Sound, ShellsTyped, NEW p \in Pid, NEW s, NEW cmd, NEW args,
         Call(p, s, cmd, args),
         UNCHANGED <<alive, trail, astray>>, dir' \in [Pid -> Printed]
  PROVE  ShellsTyped'
<1>1. /\ heard' = [heard EXCEPT ![p] = <<>>] /\ <<>> \in Outputs
      /\ \A q \in Pid \ {p} : step'[q] = step[q]
      /\ queue' = queue
  BY DEF Call, Sound, Typed, Outputs
<1> QED BY <1>1, HeardTyped

LEMMA PromptTyped ==
  ASSUME Sound, ShellsTyped, NEW p \in Pid, Prompt(p),
         alive' \in {alive, alive \ {p}},
         trail' \in [Pid -> Seq(Dir)], astray' \in [Pid -> BOOLEAN]
  PROVE  ShellsTyped'
<1>1. heard' \in [Pid -> Outputs] /\ dir' \in [Pid -> Printed]
  BY NothingPrinted DEF Prompt, ShellsTyped, Outputs
<1>2. \A q \in Pid : heard'[q] # <<>> =>
        q # p /\ heard[q] # <<>> /\ step'[q] = step[q]
  BY DEF Prompt, ShellsTyped, Sound, Typed
<1> QED BY <1>1, <1>2 DEF Prompt, ShellsTyped

LEMMA CdTyped ==
  ASSUME Sound, ShellsTyped, NEW p \in Pid, NEW out,
         NEW left \in Seq(Dir), NEW lost \in BOOLEAN,
         Cd(p, out, left, lost), UNCHANGED alive
  PROVE  ShellsTyped'
<1>1. trail' \in [Pid -> Seq(Dir)] /\ astray' \in [Pid -> BOOLEAN]
  BY DEF Cd, ShellsTyped
<1> QED BY <1>1, PromptTyped DEF Cd

LEMMA UserTyped ==
  ASSUME Sound, ShellsTyped, NEW p \in Pid, User(p) PROVE ShellsTyped'
<1>1. CASE Open(p)
  <2>1. trail' \in [Pid -> Seq(Dir)] /\ astray' \in [Pid -> BOOLEAN]
    <3>1. heir[p] \in BOOLEAN /\ Pending(p) \in BOOLEAN
      BY DEF Sound, Typed, Pending
    <3>2. <<>> \in Seq(Dir)
      OBVIOUS
    <3> QED BY <1>1, <3>1, <3>2 DEF Open, ShellsTyped
  <2> QED BY <1>1, <2>1 DEF Open, ShellsTyped
<1>2. ASSUME NEW d \in Dir, Wander(p, d) PROVE ShellsTyped'
  BY <1>2 DEF Wander, ShellsTyped
<1>3. ASSUME NEW j \in Job, Nav(p, j) PROVE ShellsTyped'
  BY <1>3, CallTyped DEF Nav, Waits, history, ShellsTyped
<1>4. CASE Complete(p)
  BY <1>4, CallTyped DEF Complete, Waits, history, ShellsTyped
<1>5. CASE Leave(p)
  BY <1>5, CallTyped DEF Leave, Waits, history, ShellsTyped
<1> QED BY <1>1, <1>2, <1>3, <1>4, <1>5 DEF User

LEMMA HearTyped ==
  ASSUME Sound, ShellsTyped, NEW p \in Pid, Hear(p) PROVE ShellsTyped'
<1> DEFINE out == heard[p][1]
<1>o. out \in Printed
  BY HeardIsPrinted DEF Hear, ShellsTyped
<1>t. /\ dir \in [Pid -> Printed] /\ trail \in [Pid -> Seq(Dir)]
      /\ astray \in [Pid -> BOOLEAN] /\ <<>> \in Seq(Dir)
  BY DEF ShellsTyped
<1> HIDE DEF out
<1>1. CASE AfterRegister(p, out)
  <2>1. p \in alive /\ UNCHANGED <<alive, trail, astray>>
    BY <1>1 DEF AfterRegister, Waits
  <2>2. CASE Prompt(p)
    BY <1>t, <2>1, <2>2, PromptTyped
  <2>3. CASE Call(p, "ask", job[p].cmd, ArgsOf(job[p].argv)) /\ UNCHANGED dir
    BY <1>t, <2>1, <2>3, CallTyped
  <2>4. CASE PrintsUsage(p, "ask") /\ UNCHANGED dir
    <3>1. /\ heard' = [heard EXCEPT ![p] = <<Usage>>] /\ queue' = queue
          /\ step'[p] # "prompt"
          /\ \A q \in Pid \ {p} : step'[q] = step[q]
      BY <2>4 DEF PrintsUsage, Sound, Typed
    <3> QED BY <1>t, <2>1, <2>4, <3>1, NothingPrinted, HeardTyped
  <2> QED BY <1>1, <2>2, <2>3, <2>4 DEF AfterRegister
<1>2. CASE AfterGet(p, out)
  <2>1. p \in alive /\ UNCHANGED <<alive, trail, astray>>
    BY <1>2 DEF AfterGet, Waits
  <2>2. CASE Prompt(p)
    BY <1>t, <2>1, <2>2, PromptTyped
  <2>3. CASE Call(p, "push", "push", Text[cwd[p]])
             /\ dir' = [dir EXCEPT ![p] = out]
    <3>1. dir' \in [Pid -> Printed]
      BY <1>o, <1>t, <2>3
    <3> QED BY <2>1, <2>3, <3>1, CallTyped
  <2> QED BY <1>2, <2>2, <2>3 DEF AfterGet
<1>3. CASE AfterPush(p, out) \/ AfterPop(p, out)
  <2>1. UNCHANGED alive
    BY <1>3 DEF AfterPush, AfterPop
  <2>2. CASE Prompt(p) /\ UNCHANGED <<trail, astray>>
    BY <1>t, <2>1, <2>2, PromptTyped
  <2>3. CASE \/ Cd(p, dir[p], Departed(p), cwd[p] \notin Path)
             \/ Cd(p, out, Returned(p), FALSE)
    <3>1. (cwd[p] \notin Path) \in BOOLEAN /\ FALSE \in BOOLEAN
      OBVIOUS
    <3> QED BY <2>1, <2>3, <3>1, TrailsTyped, CdTyped
  <2> QED BY <1>3, <2>2, <2>3 DEF AfterPush, AfterPop
<1>4. CASE AfterReset(p, out) \/ AfterOther(p, out)
  <2>1. /\ Prompt(p) /\ UNCHANGED alive
        /\ trail' \in [Pid -> Seq(Dir)] /\ astray' \in [Pid -> BOOLEAN]
    BY <1>t, <1>4 DEF AfterReset, AfterOther
  <2> QED BY <2>1, PromptTyped
<1>5. CASE AfterUnregister(p, out)
  <2>1. trail' \in [Pid -> Seq(Dir)] /\ astray' \in [Pid -> BOOLEAN]
    BY <1>t, <1>5 DEF AfterUnregister, Gone
  <2> QED BY <1>5, <2>1, PromptTyped DEF AfterUnregister, Gone
<1> QED BY <1>1, <1>2, <1>3, <1>4, <1>5 DEF Hear, Proceed, out

LEMMA WaitTyped ==
  ASSUME Sound, ShellsTyped, NEW p \in Pid,
         GiveUp(p) \/ Interrupt(p) \/ Kill(p)
  PROVE  ShellsTyped'
<1>1. CASE GiveUp(p) \/ Interrupt(p)
  <2>1. /\ p \in alive /\ step[p] # "prompt"
        /\ heard' = [heard EXCEPT ![p] = <<Nothing>>]
        /\ UNCHANGED <<alive, step, dir, queue, trail>>
    BY <1>1 DEF GiveUp, Interrupt, shell
  <2>2. astray' \in [Pid -> BOOLEAN]
    <3>1. Pending(p) \in BOOLEAN
      BY DEF Pending
    <3> QED BY <1>1, <3>1 DEF GiveUp, Interrupt, ShellsTyped
  <2>3. heard' \in [Pid -> Outputs]
        /\ \A q \in Pid : heard'[q] # <<>> => heard[q] # <<>> \/ q = p
    BY <2>1, NothingPrinted DEF ShellsTyped
  <2> QED BY <2>1, <2>2, <2>3 DEF ShellsTyped
<1>2. CASE Kill(p)
  <2>1. trail' \in [Pid -> Seq(Dir)] /\ astray' \in [Pid -> BOOLEAN]
    BY <1>2 DEF Kill, Gone, ShellsTyped
  <2> QED BY <1>2, <2>1, PromptTyped DEF Kill, Gone
<1> QED BY <1>1, <1>2

LEMMA ClientTyped ==
  ASSUME Sound, ShellsTyped, InStep, NEW p \in Pid,
         SendRequest(p) \/ FindsNoDaemon(p) \/ FindsPathTaken(p)
  PROVE  ShellsTyped'
<1>1. CASE SendRequest(p)
  <2>1. call[p] \in Hands /\ call[p] # <<>>
    BY <1>1 DEF SendRequest, Sound, Typed
  <2>2. PICK r \in Request : r = call[p][1]
    BY <2>1, InHand
  <2>3. Len(queue') = Len(queue) + 1 /\ Len(queue) \in Nat
    BY <1>1, <2>2, Appended DEF SendRequest, Sound
  <2>4. Len(queue') <= MaxQueue
    BY <1>1, <2>3, QueueAssumption DEF SendRequest
  <2> QED BY <1>1, <2>4 DEF SendRequest, shell, ShellsTyped
<1>2. CASE FindsNoDaemon(p) \/ FindsPathTaken(p)
  <2>1. GivesNothing(p)
    BY <1>2 DEF FindsNoDaemon, FindsPathTaken
  <2>2. CASE p \in alive
    <3>1. /\ heard' = [heard EXCEPT ![p] = <<Nothing>>]
          /\ UNCHANGED <<alive, step, dir, queue, trail, astray>>
          /\ step[p] # "prompt"
      BY <2>1, <2>2 DEF GivesNothing, shell, InStep
    <3>2. dir' \in [Pid -> Printed] /\ step' = step
      BY <3>1 DEF ShellsTyped
    <3> QED BY <2>2, <3>1, <3>2, NothingPrinted, HeardTyped
  <2>3. CASE p \notin alive
    BY <2>1, <2>3 DEF GivesNothing, shell, ShellsTyped
  <2> QED BY <2>2, <2>3
<1> QED BY <1>1, <1>2

(* A reply reaches a shell that waits, and is well formed.                 *)
LEMMA AnswerTyped ==
  ASSUME Sound, ShellsTyped, TypeOK', Answer PROVE ShellsTyped'
<1>1. PICK r \in Request : r = Head(queue)
  BY Taken DEF Answer, Sound
<1>2. CASE Deliver(r.from) /\ queue' = Tail(queue)
           /\ UNCHANGED <<shell, history>>
  <2>1. Len(queue') <= MaxQueue
    BY <1>2, Taken, QueueAssumption DEF Answer, Sound, ShellsTyped
  <2>2. r.from \in Pid
    BY RequestFields
  <2>3. CASE UNCHANGED heard
    BY <1>2, <2>1, <2>3 DEF shell, history, ShellsTyped
  <2>4. CASE /\ r.from \in alive /\ step[r.from] # "prompt" /\ sent' # <<>>
             /\ heard' = [heard EXCEPT ![r.from] = <<[kind |-> sent'[1].kind,
                                                     body |-> sent'[1].body]>>]
    <3>1. sent'[1] \in Reply
      BY <2>4, EmptySeq, ElementOfSeq DEF TypeOK
    <3>2. PICK out \in Printed : out = [kind |-> sent'[1].kind,
                                        body |-> sent'[1].body]
      BY <3>1 DEF Reply, Printed
    <3>3. heard' = [heard EXCEPT ![r.from] = <<out>>] /\ <<out>> \in Outputs
      BY <2>4, <3>2 DEF Outputs
    <3>4. heard' \in [Pid -> Outputs]
          /\ \A q \in Pid : heard'[q] # <<>> => heard[q] # <<>> \/ q = r.from
      BY <2>2, <3>3 DEF ShellsTyped
    <3> QED BY <1>2, <2>1, <2>4, <3>4 DEF shell, history, ShellsTyped
  <2> QED BY <1>2, <2>3, <2>4 DEF Deliver
<1>3. CASE Ended
  BY <1>3, QueueAssumption DEF Ended, shell, ShellsTyped
<1> QED BY <1>1, <1>2, <1>3 DEF Answer

LEMMA ShellsTypedStep ==
  Sound /\ TypeOK' /\ ShellsTyped /\ InStep /\ [SessionNext]_all => ShellsTyped'
<1> SUFFICES ASSUME Sound, TypeOK', ShellsTyped, InStep, [SessionNext]_all
             PROVE  ShellsTyped'
  OBVIOUS
<1>1. ASSUME NEW p \in Pid, ShellStep(p) PROVE ShellsTyped'
  BY <1>1, UserTyped, HearTyped, WaitTyped, ClientTyped DEF ShellStep, Client
<1>2. CASE Answer
  BY <1>2, AnswerTyped
<1>3. CASE Stop
  BY <1>3, QueueAssumption DEF Stop, Ended, shell, ShellsTyped
<1>4. CASE Background \/ UNCHANGED all
  BY <1>4 DEF Background, all, shell, history, ShellsTyped
<1> QED BY <1>1, <1>2, <1>3, <1>4 DEF SessionNext, ShellStep

LEMMA ShellsTypedAlways == SessionSpec => []ShellsTyped
<1>1. SessionInit => ShellsTyped
  BY NothingPrinted, QueueAssumption DEF SessionInit, ShellsTyped, Outputs
<1> QED
  BY <1>1, ShellsTypedStep, DaemonTypeAlways, InStepAlways, SoundAlways, PTL
     DEF SessionSpec

(***************************************************************************)
(* Every variable of the shells, of their clients and of the daemon keeps  *)
(* its type; in particular a client prints at most once per call, and only *)
(* to a shell that waits for it.                                           *)
(***************************************************************************)
THEOREM SessionTypeCorrect == SessionSpec => []SessionTypeOK
<1>1. Sound /\ TypeOK /\ ShellsTyped => SessionTypeOK
  <2> SUFFICES ASSUME Sound, TypeOK, ShellsTyped PROVE SessionTypeOK
    OBVIOUS
  <2>1. \A h \in Outputs : h \in Seq(Printed) /\ Len(h) <= 1
    <3>1. ASSUME NEW out \in Printed
          PROVE  <<out>> \in Seq(Printed) /\ Len(<<out>>) <= 1
      OBVIOUS
    <3>2. <<>> \in Seq(Printed) /\ Len(<<>>) <= 1
      OBVIOUS
    <3> QED BY <3>1, <3>2 DEF Outputs
  <2>2. heard \in [Pid -> Seq(Printed)] /\ \A p \in Pid : Len(heard[p]) <= 1
    BY <2>1 DEF ShellsTyped
  <2>3. job \in [Pid -> [cmd : CommandName, argv : Seq(Seq(Word))]]
    <3>1. \A j \in Doing : j \in [cmd : CommandName, argv : Seq(Seq(Word))]
      <4> SUFFICES ASSUME NEW j \in Doing
                   PROVE  j \in [cmd : CommandName, argv : Seq(Seq(Word))]
        OBVIOUS
      <4>1. CASE j \in Job
        BY <4>1, JobAssumption DEF NavCommand, CommandName
      <4>2. CASE j \in {NoJob, Asking("list")}
        <5>1. <<>> \in Seq(Seq(Word))
          OBVIOUS
        <5>2. {"register", "list"} \subseteq CommandName
          BY DEF CommandName
        <5>3. PICK c \in {"register", "list"} : j = [cmd |-> c, argv |-> <<>>]
          BY <4>2 DEF NoJob, Asking
        <5> QED BY <5>1, <5>2, <5>3
      <4> QED BY <4>1, <4>2 DEF Doing
    <3> QED BY <3>1 DEF Sound, Typed
  <2>4. call \in [Pid -> Seq(Request)] /\ \A p \in Pid : Len(call[p]) <= 1
    <3>1. \A c \in Hands : c \in Seq(Request) /\ Len(c) <= 1
      <4>1. ASSUME NEW r \in Request
            PROVE  <<r>> \in Seq(Request) /\ Len(<<r>>) <= 1
        OBVIOUS
      <4>2. <<>> \in Seq(Request) /\ Len(<<>>) <= 1
        OBVIOUS
      <4> QED BY <4>1, <4>2 DEF Hands
    <3> QED BY <3>1 DEF Sound, Typed
  <2> QED BY <2>2, <2>3, <2>4 DEF Sound, Typed, ShellsTyped, SessionTypeOK
<1> QED BY <1>1, SoundAlways, DaemonTypeAlways, ShellsTypedAlways, PTL
-----------------------------------------------------------------------------
(* What a shell finds in the daemon.                                       *)

Begins(s, t) == Len(s) <= Len(t) /\ \A i \in 1..Len(s) : s[i] = t[i]

LEMMA EmptyBegins == ASSUME NEW t \in Seq(Dir) PROVE Begins(<<>>, t)
<1>1. Len(t) \in Nat /\ Len(<<>>) = 0
  BY LenProperties
<1> QED BY <1>1 DEF Begins

LEMMA BackBegins ==
  ASSUME NEW s \in Seq(Word), NEW t \in Seq(Dir), s # <<>>, Begins(s, t)
  PROVE  t # <<>> /\ Head(s) = Head(t) /\ Begins(Tail(s), Tail(t))
<1>1. Len(s) \in Nat \ {0} /\ Len(t) \in Nat
  BY EmptySeq, LenProperties
<1>2. t # <<>>
  BY <1>1 DEF Begins
<1>3. /\ Head(s) = s[1] /\ Head(t) = t[1]
      /\ Len(Tail(s)) = Len(s) - 1 /\ Len(Tail(t)) = Len(t) - 1
      /\ \A i \in 1..Len(Tail(s)) : Tail(s)[i] = s[i+1]
      /\ \A i \in 1..Len(Tail(t)) : Tail(t)[i] = t[i+1]
  BY <1>2, HeadTailProperties
<1> QED BY <1>1, <1>2, <1>3 DEF Begins

LEMMA PushBegins ==
  ASSUME NEW s \in Seq(Word), NEW t \in Seq(Dir), NEW d \in Word, d \in Dir,
         Begins(s, t)
  PROVE  Begins(<<d>> \o s, <<d>> \o t)
<1>1. /\ <<d>> \in Seq(Word) /\ <<d>> \in Seq(Dir)
      /\ Len(<<d>>) = 1 /\ <<d>>[1] = d
      /\ Len(s) \in Nat /\ Len(t) \in Nat
  BY LenProperties
<1>2. /\ Len(<<d>> \o s) = 1 + Len(s)
      /\ \A i \in 1..(1 + Len(s)) :
           (<<d>> \o s)[i] = IF i <= 1 THEN d ELSE s[i - 1]
  BY <1>1, ConcatProperties
<1>3. /\ Len(<<d>> \o t) = 1 + Len(t)
      /\ \A i \in 1..(1 + Len(t)) :
           (<<d>> \o t)[i] = IF i <= 1 THEN d ELSE t[i - 1]
  BY <1>1, ConcatProperties
<1>4. \A i \in 1..(1 + Len(s)) : (<<d>> \o s)[i] = (<<d>> \o t)[i]
  <2> SUFFICES ASSUME NEW i \in 1..(1 + Len(s))
               PROVE  (<<d>> \o s)[i] = (<<d>> \o t)[i]
    OBVIOUS
  <2>1. i \in 1..(1 + Len(t))
    BY <1>1 DEF Begins
  <2>2. i > 1 => i - 1 \in 1..Len(s) /\ s[i - 1] = t[i - 1]
    BY <1>1 DEF Begins
  <2> QED BY <1>1, <1>2, <1>3, <2>1, <2>2
<1> QED BY <1>1, <1>2, <1>3, <1>4 DEF Begins

(* The request r is the call that p is making.                             *)
Called(p, r) ==
  /\ step[p] = "register" => r.cmd = "register"
  /\ step[p] = "ask" => r.cmd = job[p].cmd
  /\ step[p] = "push" => r.cmd = "push" /\ r.args = Text[cwd[p]]
  /\ step[p] = "unregister" => r.cmd = "unregister"

(* It is the only one, in the client's hands or in the queue, and has not  *)
(* been answered.                                                          *)
OneCall(p) ==
  /\ call[p] # <<>> => heard[p] = <<>>
  /\ \A i \in 1..Len(queue) : queue[i].from = p =>
       /\ heard[p] = <<>> /\ step[p] # "prompt" /\ call[p] = <<>>
       /\ Called(p, queue[i])
       /\ \A j \in 1..Len(queue) : queue[j].from = p => j = i

InHandIsCalled(p) ==
  call[p] # <<>> => step[p] # "prompt" /\ Called(p, call[p][1])

(* What the shell will know of its history once it has taken in the answer *)
(* it was given.                                                           *)
Pushed(p) == heard[p] # <<>> /\ step[p] = "push" /\ Says(heard[p][1], "OK")
Popped(p) ==
  /\ heard[p] # <<>> /\ Says(heard[p][1], "path")
  /\ step[p] = "ask" /\ job[p].cmd = "pop"
Due(p) ==
  IF Pushed(p) THEN Departed(p) ELSE IF Popped(p) THEN Returned(p) ELSE trail[p]

(* The stack is the latest part of that, unless the name of the directory  *)
(* that is being left has a space: nav then goes astray.                   *)
Follows(p) ==
  Begins(actions[p], Due(p)) \/ (Pushed(p) /\ cwd[p] \notin Path)

(* A reset that waits in the queue is the shell's latest request; one that *)
(* has been read has emptied the stack; and one that was not sent, or not  *)
(* answered, is not taken for an OK.                                       *)
ResetAt(p, i) ==
  /\ queue[i].from = p /\ queue[i].cmd = "reset"
  /\ \A j \in (i+1)..Len(queue) : queue[j].from # p
Cleared(p) ==
  \/ ~Pending(p) /\ actions[p] = <<>>
  \/ \E i \in 1..Len(queue) : ResetAt(p, i)
NotOk(p) == heard[p] # <<>> /\ ~Says(heard[p][1], "OK")

(* BackUndoes speaks of shells at their prompt.  It rests on what is true  *)
(* in the middle of a call: one request at most is under way, it is the    *)
(* one the shell waits for, and an answer is the difference between the    *)
(* stack and the history.  A shell that is astray has no such claim, but   *)
(* must get it back with a reset.                                          *)
Tracked(p) ==
  p \in alive =>
    /\ InHandIsCalled(p)
    /\ ~astray[p] => OneCall(p) /\ Follows(p)
    /\ step[p] = "ask" /\ job[p].cmd = "reset" =>
         call[p] # <<>> \/ NotOk(p) \/ Cleared(p)

(* The queue changes behind p's back: a request of another shell comes in  *)
(* or goes out, and p's own are k places nearer the head.                  *)
Shifted(p, k) ==
  /\ \A i \in 1..Len(queue') : queue'[i].from = p =>
       i + k \in 1..Len(queue) /\ queue'[i] = queue[i + k]
  /\ \A i \in 1..Len(queue) : queue[i].from = p =>
       i - k \in 1..Len(queue') /\ queue'[i - k] = queue[i]

LEMMA ShiftedSame == ASSUME Sound, queue' = queue, NEW p PROVE Shifted(p, 0)
BY LenProperties DEF Sound, Shifted

LEMMA ShiftedAppend ==
  ASSUME Sound, NEW r \in Request, queue' = Append(queue, r),
         NEW p, r.from # p
  PROVE  Shifted(p, 0)
<1>1. /\ Len(queue') = Len(queue) + 1 /\ Len(queue) \in Nat
      /\ \A i \in 1..Len(queue) : queue'[i] = queue[i]
      /\ queue'[Len(queue) + 1] = r
  BY Appended DEF Sound
<1>2. ASSUME NEW i \in 1..Len(queue'), queue'[i].from = p
      PROVE  i \in 1..Len(queue)
  BY <1>1, <1>2
<1> QED BY <1>1, <1>2 DEF Shifted

LEMMA ShiftedTail ==
  ASSUME Sound, queue # <<>>, queue' = Tail(queue), NEW p, queue[1].from # p
  PROVE  Shifted(p, 1)
<1>1. /\ Len(queue) \in Nat /\ Len(queue') = Len(queue) - 1
      /\ \A i \in 1..Len(queue') : queue'[i] = queue[i + 1]
  BY Taken DEF Sound
<1>2. ASSUME NEW i \in 1..Len(queue), queue[i].from = p
      PROVE  i - 1 \in 1..Len(queue') /\ queue'[i - 1] = queue[i]
  <2>1. i # 1
    BY <1>2
  <2>2. i - 1 \in 1..Len(queue') /\ (i - 1) + 1 = i
    BY <1>1, <2>1
  <2> QED BY <1>1, <2>2
<1> QED BY <1>1, <1>2 DEF Shifted

(* It is nothing to p when none of its own state moves.                    *)
Untouched(p) ==
  /\ p \in alive' <=> p \in alive
  /\ step'[p] = step[p] /\ job'[p] = job[p] /\ cwd'[p] = cwd[p]
  /\ call'[p] = call[p]
  /\ heard'[p] = heard[p] /\ trail'[p] = trail[p] /\ astray'[p] = astray[p]
  /\ actions'[p] = actions[p]

LEMMA OthersTracked ==
  ASSUME NEW p \in Pid, NEW k \in {0, 1}, Shifted(p, k), Untouched(p),
         Tracked(p)
  PROVE  Tracked(p)'
<1>1. /\ Follows(p) => Follows(p)'
      /\ InHandIsCalled(p) => InHandIsCalled(p)'
      /\ NotOk(p) => NotOk(p)'
  BY DEF Untouched, Follows, Due, Pushed, Popped, Says, Departed, Returned,
         InHandIsCalled, Called, NotOk
<1>2. Pending(p)' <=> Pending(p)
  BY DEF Shifted, Pending
<1>3. ASSUME OneCall(p) PROVE OneCall(p)'
  <2> SUFFICES ASSUME NEW i \in 1..Len(queue'), queue'[i].from = p
               PROVE  /\ heard'[p] = <<>> /\ step'[p] # "prompt"
                      /\ call'[p] = <<>> /\ Called(p, queue[i])'
                      /\ \A j \in 1..Len(queue') : queue'[j].from = p => j = i
    BY <1>3 DEF OneCall, Called, Untouched
  <2>1. i + k \in 1..Len(queue) /\ queue'[i] = queue[i + k]
    BY DEF Shifted
  <2>2. /\ heard[p] = <<>> /\ step[p] # "prompt" /\ call[p] = <<>>
        /\ Called(p, queue'[i])
    BY <1>3, <2>1 DEF OneCall
  <2>3. ASSUME NEW j \in 1..Len(queue'), queue'[j].from = p PROVE j = i
    <3>1. j + k \in 1..Len(queue) /\ queue'[j] = queue[j + k]
      BY <2>3 DEF Shifted
    <3>2. j + k = i + k
      BY <1>3, <2>1, <2>3, <3>1 DEF OneCall
    <3> QED BY <3>2
  <2> QED BY <2>2, <2>3 DEF Untouched, Called
<1>4. ASSUME NEW i \in 1..Len(queue), ResetAt(p, i) PROVE Cleared(p)'
  <2>1. PICK m \in 1..Len(queue') : m = i - k /\ queue'[m] = queue[i]
    BY <1>4 DEF Shifted, ResetAt
  <2>2. ASSUME NEW j \in (m+1)..Len(queue'), queue'[j].from = p PROVE FALSE
    <3>1. j + k \in 1..Len(queue) /\ queue'[j] = queue[j + k]
      BY <2>1, <2>2 DEF Shifted
    <3>2. j + k \in (i+1)..Len(queue)
      BY <2>1, <3>1
    <3> QED BY <1>4, <2>2, <3>1, <3>2 DEF ResetAt
  <2> QED BY <1>4, <2>1, <2>2 DEF ResetAt, Cleared
<1>5. Cleared(p) => Cleared(p)'
  BY <1>2, <1>4 DEF Cleared, Untouched
<1> QED BY <1>1, <1>3, <1>5 DEF Tracked, Untouched

(* A shell's step leaves the stacks and the other shells alone.            *)
Alone(p) ==
  /\ UNCHANGED actions
  /\ \A q \in Pid \ {p} : Untouched(q)
  /\ \/ queue' = queue
     \/ \E r \in Request : r.from = p /\ queue' = Append(queue, r)

LEMMA AloneTracked ==
  ASSUME Sound, NEW p \in Pid, Alone(p), NEW q \in Pid \ {p}, Tracked(q)
  PROVE  Tracked(q)'
<1>1. Untouched(q)
  BY DEF Alone
<1>2. Shifted(q, 0)
  BY ShiftedSame, ShiftedAppend DEF Alone
<1> QED BY <1>1, <1>2, OthersTracked

(* nav returns to its prompt, where the history is what was due.           *)
LEMMA PromptTracked ==
  ASSUME Sound, ShellsTyped, NEW p \in Pid, Prompt(p), UNCHANGED actions,
         call[p] = <<>>, UNCHANGED <<alive, call>>,
         \A q \in Pid \ {p} : /\ cwd'[q] = cwd[q] /\ trail'[q] = trail[q]
                              /\ astray'[q] = astray[q],
         ~astray'[p] => Begins(actions[p], trail'[p]) /\ ~Pending(p)
  PROVE  Alone(p) /\ Tracked(p)'
<1>1. Alone(p)
  BY DEF Sound, Typed, ShellsTyped, Prompt, Alone, Untouched
<1>2. step'[p] = "prompt" /\ queue' = queue
  BY DEF Prompt, Sound, Typed
<1>3. Due(p)' = trail'[p]
  BY <1>2 DEF Due, Pushed, Popped
<1>4. ~astray'[p] => OneCall(p)' /\ Follows(p)'
  BY <1>2, <1>3 DEF Pending, OneCall, Follows
<1> QED BY <1>1, <1>2, <1>4 DEF Tracked, InHandIsCalled

(* It starts the client with nothing under way.                            *)
LEMMA CallTracked ==
  ASSUME Sound, ShellsTyped, NEW p \in Pid, NEW s \in Step \ {"prompt"},
         NEW cmd \in CommandName, NEW args \in Seq(Word) \union {NoArgs},
         p \in alive, Call(p, s, cmd, args),
         UNCHANGED <<actions, alive, cwd, trail, astray>>,
         \A q \in Pid \ {p} : job'[q] = job[q],
         ~astray[p] => Begins(actions[p], trail[p]) /\ ~Pending(p),
         s = "register" => cmd = "register",
         s = "ask" => cmd = job'[p].cmd,
         s = "push" => cmd = "push" /\ args = Text[cwd[p]],
         s = "unregister" => cmd = "unregister"
  PROVE  Alone(p) /\ Tracked(p)'
<1>0. PICK r \in Request : r = [from |-> p, cmd |-> cmd, args |-> args]
  BY DEF Request
<1>1. Alone(p)
  BY DEF Sound, Typed, ShellsTyped, Call, Alone, Untouched
<1>2. step'[p] = s /\ heard'[p] = <<>> /\ call'[p] = <<r>> /\ queue' = queue
  BY <1>0 DEF Call, Sound, Typed, ShellsTyped
<1>3. Due(p)' = trail[p]
  BY <1>2 DEF Due, Pushed, Popped
<1>4. Called(p, r)' /\ <<r>>[1] = r /\ <<r>> # <<>>
  BY <1>0, <1>2 DEF Called
<1>5. InHandIsCalled(p)'
  BY <1>2, <1>4 DEF InHandIsCalled, Called
<1>6. ~astray'[p] => OneCall(p)' /\ Follows(p)'
  BY <1>2, <1>3 DEF Pending, OneCall, Follows
<1> QED BY <1>1, <1>2, <1>4, <1>5, <1>6 DEF Tracked

(* At its prompt.                                                          *)
LEMMA AtPrompt ==
  ASSUME NEW p, step[p] = "prompt", p \in alive, Tracked(p), ~astray[p]
  PROVE  Begins(actions[p], trail[p]) /\ ~Pending(p)
BY DEF Tracked, Follows, Due, Pushed, Popped, OneCall, Pending

LEMMA UserTracked ==
  ASSUME Sound, ShellsTyped, Leaving, NEW p \in Pid, User(p), Tracked(p)
  PROVE  Alone(p) /\ Tracked(p)'
<1>1. CASE Open(p)
  <2>1. /\ UNCHANGED <<actions, shells, step, job, call, heard, queue>>
        /\ alive' = alive \union {p} /\ call[p] = <<>>
    BY <1>1 DEF Open, Silence, daemon, memory
  <2>2. Alone(p)
    BY <1>1, <2>1 DEF Sound, Typed, ShellsTyped, Open, Alone, Untouched
  <2>3. step'[p] = "prompt" /\ trail'[p] = <<>>
        /\ astray'[p] = (heir[p] \/ Pending(p))
    BY <1>1, <2>1 DEF Open, Leaving, LeavingOf, ShellsTyped
  <2>4. ASSUME ~astray'[p] PROVE actions'[p] = <<>> /\ ~Pending(p)
    <3>1. ~heir[p] /\ ~Pending(p)
      BY <2>3, <2>4
    <3>2. Settled(p)
      BY <1>1, <3>1 DEF Open, Leaving, LeavingOf
    <3>3. p \notin shells
      BY <3>1, <3>2 DEF Settled, FarewellAt, Pending
    <3> QED BY <2>1, <3>1, <3>3 DEF Sound, StacksOfRegisteredOnly
  <2>5. Due(p)' = <<>>
    BY <2>3 DEF Due, Pushed, Popped
  <2>6. Begins(<<>>, <<>>)
    BY DEF Begins
  <2>7. ~astray'[p] => OneCall(p)' /\ Follows(p)'
    BY <2>1, <2>4, <2>5, <2>6 DEF OneCall, Pending, Follows
  <2> QED BY <2>1, <2>2, <2>3, <2>7 DEF Tracked, InHandIsCalled
<1>2. ASSUME NEW d \in Dir, Wander(p, d) PROVE Alone(p) /\ Tracked(p)'
  <2>1. /\ p \in alive /\ step[p] = "prompt"
        /\ UNCHANGED <<actions, alive, step, job, call, heard, queue, trail,
                       astray>>
        /\ cwd' = [cwd EXCEPT ![p] = d]
    BY <1>2 DEF Wander, Waits, Enter, Silence, daemon, memory
  <2>2. Alone(p)
    BY <2>1 DEF Sound, Typed, ShellsTyped, Alone, Untouched
  <2>3. call[p] = <<>>
    BY <2>1 DEF Tracked, InHandIsCalled
  <2>4. Due(p)' = trail[p] /\ (~Pending(p) => OneCall(p)')
    BY <2>1, <2>3 DEF Due, Pushed, Popped, OneCall, Pending
  <2>5. ~astray'[p] => OneCall(p)' /\ Follows(p)'
    BY <2>1, <2>4, AtPrompt DEF Follows
  <2> QED BY <2>1, <2>2, <2>3, <2>5 DEF Tracked, InHandIsCalled
<1>3. ASSUME NEW j \in Job, Nav(p, j) PROVE Alone(p) /\ Tracked(p)'
  <2>1. /\ p \in alive /\ step[p] = "prompt"
        /\ Call(p, "register", "register", NoArgs)
        /\ job' = [job EXCEPT ![p] = j]
        /\ UNCHANGED <<actions, alive, cwd, trail, astray>>
    BY <1>3 DEF Nav, Waits, Silence, daemon, memory, history
  <2> QED BY <2>1, AtPrompt, CallTracked DEF Sound, Typed, Step, CommandName
<1>4. CASE Complete(p)
  <2>1. /\ p \in alive /\ step[p] = "prompt"
        /\ Call(p, "ask", "list", NoArgs)
        /\ job' = [job EXCEPT ![p] = Asking("list")]
        /\ UNCHANGED <<actions, alive, cwd, trail, astray>>
    BY <1>4 DEF Complete, Waits, Silence, daemon, memory, history
  <2>2. job'[p].cmd = "list"
    BY <2>1 DEF Sound, Typed, Asking
  <2> QED BY <2>1, <2>2, AtPrompt, CallTracked
          DEF Sound, Typed, Step, CommandName
<1>5. CASE Leave(p)
  <2>1. /\ p \in alive /\ step[p] = "prompt"
        /\ Call(p, "unregister", "unregister", NoArgs)
        /\ UNCHANGED <<actions, alive, job, cwd, trail, astray>>
    BY <1>5 DEF Leave, Waits, Silence, daemon, memory, history
  <2> QED BY <2>1, AtPrompt, CallTracked DEF Step, CommandName
<1> QED BY <1>1, <1>2, <1>3, <1>4, <1>5 DEF User

(* A call has ended: nothing of the shell's is under way.                  *)
LEMMA NoneUnderWay ==
  ASSUME NEW p, p \in alive, Tracked(p), heard[p] # <<>>, ~astray[p]
  PROVE  Follows(p) /\ ~Pending(p)
BY DEF Tracked, OneCall, Pending

(* cd takes the shell to where the history says, or astray.                *)
LEMMA CdTracked ==
  ASSUME Sound, ShellsTyped, NEW p \in Pid, NEW out, NEW left \in Seq(Dir),
         NEW lost \in BOOLEAN, Cd(p, out, left, lost),
         UNCHANGED <<actions, alive>>, call[p] = <<>>,
         ~astray[p] => ~Pending(p),
         ~astray[p] /\ CanEnter(out) => lost \/ Begins(actions[p], left)
  PROVE  Alone(p) /\ Tracked(p)'
<1>1. \A q \in Pid \ {p} : /\ cwd'[q] = cwd[q] /\ trail'[q] = trail[q]
                          /\ astray'[q] = astray[q]
  BY DEF Sound, Typed, ShellsTyped, Cd, Enter
<1>2. ~astray'[p] => /\ ~astray[p] /\ ~lost /\ CanEnter(out)
                     /\ trail' = [trail EXCEPT ![p] = left]
  BY DEF ShellsTyped, Cd
<1>3. ~astray'[p] => Begins(actions[p], trail'[p]) /\ ~Pending(p)
  BY <1>2 DEF ShellsTyped
<1>4. UNCHANGED <<alive, call>>
  BY DEF Cd
<1> QED BY <1>1, <1>3, <1>4, PromptTracked DEF Cd

LEMMA HearTracked ==
  ASSUME Sound, ShellsTyped, NEW p \in Pid, Hear(p), Tracked(p)
  PROVE  Alone(p) /\ Tracked(p)'
<1> DEFINE out == heard[p][1]
<1>h. UNCHANGED actions /\ heard[p] # <<>> /\ call[p] = <<>>
  BY DEF Hear, Silence, daemon, memory
<1>n. p \in alive /\ ~astray[p] => Follows(p) /\ ~Pending(p)
  BY <1>h, NoneUnderWay
<1>d. /\ Pushed(p) <=> step[p] = "push" /\ Says(out, "OK")
      /\ Popped(p) <=> /\ Says(out, "path")
                       /\ step[p] = "ask" /\ job[p].cmd = "pop"
      /\ NotOk(p) <=> ~Says(out, "OK")
  BY <1>h DEF Pushed, Popped, NotOk
<1>s. UNCHANGED <<cwd, trail, astray>> =>
        \A q \in Pid : /\ cwd'[q] = cwd[q] /\ trail'[q] = trail[q]
                       /\ astray'[q] = astray[q]
  OBVIOUS
<1> HIDE DEF out
(* Where the answer makes no difference to the history.                    *)
<1>f. ASSUME p \in alive, ~Pushed(p), ~Popped(p)
      PROVE  ~astray[p] => Begins(actions[p], trail[p]) /\ ~Pending(p)
  BY <1>f, <1>n DEF Follows, Due
<1>p. ASSUME p \in alive, ~Pushed(p), ~Popped(p), Prompt(p),
             UNCHANGED <<alive, call, cwd, trail, astray>>
      PROVE  Alone(p) /\ Tracked(p)'
  <2>1. ~astray'[p] => Begins(actions[p], trail'[p]) /\ ~Pending(p)
    BY <1>f, <1>p
  <2> QED BY <1>h, <1>p, <1>s, <2>1, PromptTracked
<1>1. CASE AfterRegister(p, out)
  <2>1. p \in alive /\ step[p] = "register"
        /\ UNCHANGED <<alive, cwd, trail, astray>>
    BY <1>1 DEF AfterRegister, Waits
  <2>2. ~Pushed(p) /\ ~Popped(p)
    BY <1>d, <2>1
  <2>3. CASE Prompt(p) /\ UNCHANGED call
    BY <1>p, <2>1, <2>2, <2>3
  <2>4. CASE Call(p, "ask", job[p].cmd, ArgsOf(job[p].argv)) /\ UNCHANGED job
    <3>1. job[p].cmd \in CommandName
          /\ ArgsOf(job[p].argv) \in Seq(Word) \union {NoArgs}
      BY KeptArgs DEF Sound, Typed
    <3> QED BY <1>h, <1>f, <2>1, <2>2, <2>4, <3>1, CallTracked DEF Step
  <2>5. CASE PrintsUsage(p, "ask") /\ UNCHANGED <<job, dir>>
    <3>1. /\ step'[p] = "ask" /\ heard'[p] = <<Usage>> /\ queue' = queue
          /\ call' = call
      BY <2>5 DEF PrintsUsage, Sound, Typed, ShellsTyped
    <3>2. ~Says(Usage, "OK") /\ ~Says(Usage, "path")
          /\ <<Usage>>[1] = Usage /\ <<Usage>> # <<>>
      BY DEF Says, Usage
    <3>3. Alone(p)
      BY <1>h, <1>s, <2>1, <2>5
         DEF PrintsUsage, Sound, Typed, ShellsTyped, Alone, Untouched
    <3>4. Due(p)' = trail[p] /\ NotOk(p)'
      BY <2>1, <3>1, <3>2 DEF Due, Pushed, Popped, NotOk, Says
    <3>5. ~astray'[p] => OneCall(p)' /\ Follows(p)'
      BY <1>h, <1>f, <2>1, <2>2, <3>1, <3>4 DEF OneCall, Follows, Pending
    <3> QED BY <1>h, <2>1, <3>1, <3>3, <3>4, <3>5 DEF Tracked, InHandIsCalled
  <2> QED BY <1>1, <2>3, <2>4, <2>5 DEF AfterRegister
<1>2. CASE AfterGet(p, out)
  <2>1. p \in alive /\ step[p] = "ask" /\ job[p].cmd = "get"
        /\ UNCHANGED <<alive, cwd, trail, astray>>
    BY <1>2 DEF AfterGet, Waits
  <2>2. ~Pushed(p) /\ ~Popped(p)
    BY <1>d, <2>1
  <2>3. CASE Prompt(p) /\ UNCHANGED call
    BY <1>p, <2>1, <2>2, <2>3
  <2>4. CASE Call(p, "push", "push", Text[cwd[p]]) /\ UNCHANGED job
    <3>1. Text[cwd[p]] \in Seq(Word) \union {NoArgs}
      BY WordsOf DEF Sound, Typed
    <3> QED BY <1>h, <1>f, <2>1, <2>2, <2>4, <3>1, CallTracked
            DEF Step, CommandName
  <2> QED BY <1>2, <2>3, <2>4 DEF AfterGet
<1>3. CASE AfterPush(p, out)
  <2>1. p \in alive /\ step[p] = "push" /\ UNCHANGED alive
    BY <1>3 DEF AfterPush, Waits
  <2>2. CASE ~Says(out, "OK") /\ Prompt(p)
             /\ UNCHANGED <<call, cwd, trail, astray>>
    <3>1. ~Pushed(p) /\ ~Popped(p)
      BY <1>d, <2>1, <2>2
    <3> QED BY <1>p, <2>1, <2>2, <3>1
  <2>3. CASE /\ Says(out, "OK")
             /\ Cd(p, dir[p], Departed(p), cwd[p] \notin Path)
    <3>1. PICK lost \in BOOLEAN : lost = (cwd[p] \notin Path)
      OBVIOUS
    <3>2. ~astray[p] => lost \/ Begins(actions[p], Departed(p))
      BY <1>d, <1>n, <2>1, <2>3, <3>1 DEF Follows, Due
    <3>3. Cd(p, dir[p], Departed(p), lost)
      BY <2>3, <3>1
    <3> QED BY <1>h, <1>n, <2>1, <3>2, <3>3, TrailsTyped, CdTracked
  <2> QED BY <1>3, <2>2, <2>3 DEF AfterPush
<1>4. CASE AfterPop(p, out)
  <2>1. p \in alive /\ step[p] = "ask" /\ job[p].cmd = "pop"
        /\ UNCHANGED alive
    BY <1>4 DEF AfterPop, Waits
  <2>2. CASE NoGood(out) /\ Prompt(p) /\ UNCHANGED <<call, cwd, trail, astray>>
    <3>1. ~Pushed(p) /\ ~Popped(p)
      BY <1>d, <2>1, <2>2 DEF NoGood, Blank, Says
    <3> QED BY <1>p, <2>1, <2>2, <3>1
  <2>3. CASE Cd(p, out, Returned(p), FALSE)
    <3>1. ~astray[p] /\ CanEnter(out) => Begins(actions[p], Returned(p))
      BY <1>d, <1>n, <2>1 DEF Follows, Due, CanEnter
    <3> QED BY <1>h, <1>n, <2>1, <2>3, <3>1, TrailsTyped, CdTracked
  <2> QED BY <1>4, <2>2, <2>3 DEF AfterPop
<1>5. CASE AfterReset(p, out)
  <2>1. /\ p \in alive /\ step[p] = "ask" /\ job[p].cmd = "reset"
        /\ Prompt(p) /\ UNCHANGED <<alive, call, cwd>>
    BY <1>5 DEF AfterReset, Waits
  <2>2. CASE /\ Says(out, "OK") /\ ~Pending(p)
             /\ trail' = [trail EXCEPT ![p] = <<>>]
             /\ astray' = [astray EXCEPT ![p] = FALSE]
    <3>1. actions[p] = <<>>
      BY <1>d, <1>h, <2>1, <2>2 DEF Tracked, Cleared, ResetAt, Pending
    <3>2. /\ Begins(actions[p], trail'[p])
          /\ \A q \in Pid \ {p} : /\ cwd'[q] = cwd[q] /\ trail'[q] = trail[q]
                                 /\ astray'[q] = astray[q]
      BY <2>1, <2>2, <3>1 DEF ShellsTyped, Begins
    <3> QED BY <1>h, <2>1, <2>2, <3>2, PromptTracked
  <2>3. CASE UNCHANGED <<trail, astray>>
    <3>1. ~Pushed(p) /\ ~Popped(p)
      BY <1>d, <2>1
    <3> QED BY <1>p, <2>1, <2>3, <3>1
  <2> QED BY <1>5, <2>2, <2>3 DEF AfterReset
<1>6. CASE AfterOther(p, out)
  <2>1. /\ p \in alive /\ step[p] = "ask" /\ job[p].cmd # "pop"
        /\ Prompt(p) /\ UNCHANGED <<alive, call, cwd, trail, astray>>
    BY <1>6 DEF AfterOther, Waits
  <2>2. ~Pushed(p) /\ ~Popped(p)
    BY <1>d, <2>1
  <2> QED BY <1>p, <2>1, <2>2
<1>7. CASE AfterUnregister(p, out)
  BY <1>h, <1>7
     DEF AfterUnregister, Gone, Prompt, Sound, Typed, ShellsTyped, Alone,
         Untouched, Tracked
<1> QED BY <1>1, <1>2, <1>3, <1>4, <1>5, <1>6, <1>7 DEF Hear, Proceed, out

(* The client ends with nothing: it timed out, was interrupted, or failed  *)
(* before it sent the request.                                             *)
LEMMA NothingTracked ==
  ASSUME Sound, ShellsTyped, NEW p \in Pid, p \in alive, Tracked(p),
         UNCHANGED <<actions, alive, step, job, cwd, queue, trail>>,
         call' = [call EXCEPT ![p] = <<>>],
         heard' = [heard EXCEPT ![p] = <<Nothing>>],
         \A q \in Pid \ {p} : astray'[q] = astray[q],
         ~astray'[p] => ~astray[p] /\ ~Pending(p) /\ heard[p] = <<>>
  PROVE  Alone(p) /\ Tracked(p)'
<1>1. Alone(p)
  BY DEF Sound, Typed, ShellsTyped, Alone, Untouched
<1>2. heard'[p] = <<Nothing>> /\ call'[p] = <<>>
  BY DEF Sound, Typed, ShellsTyped
<1>3. Due(p)' = trail[p] /\ NotOk(p)'
  BY <1>2 DEF Due, Pushed, Popped, NotOk, Says, Nothing
<1>4. ~astray'[p] => Begins(actions[p], trail[p])
  BY DEF Tracked, Follows, Due, Pushed, Popped
<1>5. ~astray'[p] => OneCall(p)' /\ Follows(p)'
  BY <1>2, <1>3, <1>4 DEF OneCall, Pending, Follows
<1> QED BY <1>1, <1>2, <1>3, <1>5 DEF Tracked, InHandIsCalled

LEMMA WaitTracked ==
  ASSUME Sound, ShellsTyped, NEW p \in Pid, Tracked(p),
         GiveUp(p) \/ Interrupt(p) \/ Kill(p)
  PROVE  Alone(p) /\ Tracked(p)'
<1>1. CASE GiveUp(p) \/ Interrupt(p)
  <2>1. /\ p \in alive
        /\ heard' = [heard EXCEPT ![p] = <<Nothing>>]
        /\ UNCHANGED <<actions, alive, step, job, cwd, queue, trail>>
    BY <1>1 DEF GiveUp, Interrupt, shell, Silence, daemon, memory
  <2>2. /\ \A q \in Pid \ {p} : astray'[q] = astray[q]
        /\ ~astray'[p] => ~astray[p] /\ ~Pending(p) /\ heard[p] = <<>>
    <3>1. Pending(p) \in BOOLEAN
      BY DEF Pending
    <3> QED BY <1>1, <3>1 DEF GiveUp, Interrupt, ShellsTyped
  <2>3. call' = [call EXCEPT ![p] = <<>>]
    BY <1>1 DEF GiveUp, Interrupt, Sound, Typed
  <2> QED BY <2>1, <2>2, <2>3, NothingTracked
<1>2. CASE Kill(p)
  <2>1. \A q \in Pid \ {p} : call'[q] = call[q]
    BY <1>2 DEF Kill, Sound, Typed
  <2> QED BY <1>2, <2>1
          DEF Kill, Gone, Prompt, Silence, daemon, memory, Sound, Typed,
              ShellsTyped, Alone, Untouched, Tracked
<1> QED BY <1>1, <1>2

LEMMA ClientTracked ==
  ASSUME Sound, ShellsTyped, NEW p \in Pid, Tracked(p),
         SendRequest(p) \/ FindsNoDaemon(p) \/ FindsPathTaken(p)
  PROVE  Alone(p) /\ Tracked(p)'
<1>1. CASE SendRequest(p)
  <2>1. call[p] \in Hands /\ call[p] # <<>> /\ call[p][1].from = p
    BY <1>1 DEF SendRequest, Sound, Typed
  <2>2. PICK r \in Request : r = call[p][1] /\ r.from = p
    BY <2>1, InHand
  <2>3. /\ UNCHANGED <<actions, alive, step, job, cwd, heard, trail, astray>>
        /\ call' = [call EXCEPT ![p] = <<>>] /\ queue' = Append(queue, r)
    BY <1>1, <2>2 DEF SendRequest, shell, Silence, daemon, memory
  <2>4. Alone(p)
    BY <2>2, <2>3 DEF Sound, Typed, Alone, Untouched
  <2>5. /\ Len(queue') = Len(queue) + 1 /\ Len(queue) \in Nat
        /\ \A i \in 1..Len(queue) : queue'[i] = queue[i]
        /\ queue'[Len(queue) + 1] = r
    BY <2>3, Appended DEF Sound
  <2>6. call'[p] = <<>>
    BY <2>3 DEF Sound, Typed
  <2>7. ASSUME p \in alive, ~astray[p] PROVE OneCall(p)' /\ Follows(p)'
    <3>1. OneCall(p) /\ Follows(p) /\ step[p] # "prompt" /\ Called(p, r)
      BY <2>1, <2>2, <2>7 DEF Tracked, InHandIsCalled
    <3>2. heard[p] = <<>> /\ \A i \in 1..Len(queue) : queue[i].from # p
      BY <2>1, <3>1 DEF OneCall
    <3>3. \A i \in 1..Len(queue') : queue'[i].from = p =>
            i = Len(queue) + 1 /\ queue'[i] = r
      BY <2>5, <3>2
    <3>4. OneCall(p)'
      BY <2>3, <2>6, <3>1, <3>2, <3>3 DEF OneCall, Called
    <3>5. Follows(p)'
      BY <2>3, <3>1
         DEF Follows, Due, Pushed, Popped, Says, Departed, Returned
    <3> QED BY <3>4, <3>5
  <2>8. ASSUME p \in alive, step[p] = "ask", job[p].cmd = "reset"
        PROVE  Cleared(p)'
    <3>1. r.cmd = "reset"
      BY <2>1, <2>2, <2>8 DEF Tracked, InHandIsCalled, Called
    <3>2. PICK k \in 1..Len(queue') : k = Len(queue) + 1 /\ k = Len(queue')
      BY <2>5
    <3>3. \A j \in (k+1)..Len(queue') : queue'[j].from # p
      BY <2>5, <3>2
    <3>4. queue'[k].from = p /\ queue'[k].cmd = "reset"
      BY <2>2, <2>5, <3>1, <3>2
    <3>5. ResetAt(p, k)'
      BY <3>3, <3>4 DEF ResetAt
    <3>6. \E i \in 1..Len(queue') : ResetAt(p, i)'
      BY <3>5
    <3> QED BY <3>6 DEF Cleared
  <2> QED BY <2>3, <2>4, <2>6, <2>7, <2>8 DEF Tracked, InHandIsCalled
<1>2. CASE FindsNoDaemon(p) \/ FindsPathTaken(p)
  <2>1. /\ UNCHANGED <<actions, alive, step, job, cwd, queue, trail, astray>>
        /\ call[p] # <<>> /\ call' = [call EXCEPT ![p] = <<>>]
        /\ heard' = IF p \in alive THEN [heard EXCEPT ![p] = <<Nothing>>]
                                   ELSE heard
    BY <1>2 DEF FindsNoDaemon, FindsPathTaken, GivesNothing, shell, Silence,
                daemon, memory
  <2>2. CASE p \in alive
    <3>1. ~astray[p] => ~Pending(p) /\ heard[p] = <<>>
      BY <2>1, <2>2 DEF Tracked, OneCall, Pending
    <3> QED BY <2>1, <2>2, <3>1, NothingTracked
  <2>3. CASE p \notin alive
    BY <2>1, <2>3 DEF Sound, Typed, ShellsTyped, Alone, Untouched, Tracked
  <2> QED BY <2>2, <2>3
<1> QED BY <1>1, <1>2

(* The answer to a request and what it has done to the stack of the shell. *)
Told(kind) == sent' # <<>> /\ sent'[1].kind = kind

Effect(p, cmd, args) ==
  /\ \/ sent' = <<>> /\ actions'[p] = actions[p]
     \/ Told("BAD") /\ actions'[p] = actions[p]
     \/ /\ cmd = "push" /\ Told("OK")
        /\ actions'[p] = IF Repeats(p, args[1]) THEN actions[p]
                                                ELSE <<args[1]>> \o actions[p]
     \/ /\ cmd = "pop" /\ Told("path")
        /\ actions[p] # <<>> /\ actions'[p] = Tail(actions[p])
     \/ /\ cmd \notin {"push", "pop"}
        /\ sent' # <<>> /\ actions'[p] \in {actions[p], <<>>}
  /\ cmd = "reset" => actions'[p] = <<>>

LEMMA SendTells ==
  ASSUME NEW p, NEW cmd, NEW args, NEW kind, NEW body,
         Send(p, cmd, args, kind, body)
  PROVE  Told(kind) /\ sent' # <<>>
<1>1. sent' = <<[to |-> p, cmd |-> cmd, args |-> args, kind |-> kind,
                 body |-> body]>>
  BY DEF Send
<1>2. sent'[1].kind = kind
  BY <1>1
<1> QED BY <1>1, <1>2 DEF Told

LEMMA Replies ==
  ASSUME NEW p, NEW cmd, NEW args
  PROVE  /\ Ok(p, cmd, args) => Told("OK") /\ sent' # <<>>
         /\ Bad(p, cmd, args) => Told("BAD") /\ sent' # <<>>
BY SendTells DEF Ok, Bad

LEMMA DispatchEffect ==
  ASSUME Sound, NEW p \in Pid, NEW cmd, NEW args, Dispatch(p, cmd, args)
  PROVE  Effect(p, cmd, args)
<1>s. /\ actions \in [Pid -> Seq(Word)]
      /\ p \notin shells => actions[p] = <<>>
  BY DEF Sound, StacksOfRegisteredOnly
<1>1. ASSUME cmd \notin {"push", "pop"}, sent' # <<>>,
             actions' = actions \/ actions' = [actions EXCEPT ![p] = <<>>],
             cmd = "reset" => actions' = [actions EXCEPT ![p] = <<>>]
      PROVE  Effect(p, cmd, args)
  BY <1>s, <1>1 DEF Effect
<1>2. CASE cmd = "register" /\ CmdRegister(p)
  BY <1>1, <1>2, Replies DEF CmdRegister, Silent, Effect
<1>3. CASE \/ cmd = "unregister" /\ CmdUnregister(p)
           \/ cmd = "reset" /\ CmdReset(p)
  BY <1>1, <1>3, Replies DEF CmdUnregister, CmdReset
<1>4. CASE \/ cmd = "show" /\ CmdShow(p)
           \/ cmd = "list" /\ CmdList(p)
           \/ cmd = "actions" /\ CmdActions(p)
  BY <1>1, <1>4, SendTells DEF CmdShow, CmdList, CmdActions, Idle, memory
<1>5. CASE \/ cmd = "add" /\ CmdAdd(p, args)
           \/ cmd = "delete" /\ CmdDelete(p, args)
  BY <1>1, <1>5, Replies DEF CmdAdd, CmdDelete
<1>6. CASE cmd = "get" /\ CmdGet(p, args)
  BY <1>1, <1>6, Replies, SendTells DEF CmdGet, Idle, memory
<1>7. CASE cmd = "pop" /\ CmdPop(p)
  BY <1>s, <1>7, Replies, SendTells DEF CmdPop, Effect
<1>8. CASE cmd = "push" /\ CmdPush(p, args)
  <2>1. CASE Repeats(p, args[1]) /\ UNCHANGED actions /\ Told("OK")
    BY <1>8, <2>1 DEF Effect
  <2>2. CASE /\ ~Repeats(p, args[1])
             /\ actions' = [actions EXCEPT ![p] = <<args[1]>> \o @]
             /\ Told("OK")
    <3>1. actions'[p] = <<args[1]>> \o actions[p]
      BY <1>s, <2>2
    <3> QED BY <1>8, <2>2, <3>1 DEF Effect
  <2>3. CASE UNCHANGED actions /\ Told("BAD")
    BY <1>8, <2>3 DEF Effect
  <2> QED BY <1>8, <2>1, <2>2, <2>3, Replies DEF CmdPush
<1>9. CASE /\ Ignored(p, args)
           /\ \/ p \notin shells
              \/ cmd \in {"get", "delete"}
  BY <1>s, <1>9 DEF Ignored, Silent, Idle, memory, Effect
<1> QED BY <1>2, <1>3, <1>4, <1>5, <1>6, <1>7, <1>8, <1>9 DEF Dispatch

(* The handler's effect on the stack is what its answer makes due.         *)
LEMMA EffectIsDue ==
  ASSUME Sound, ShellsTyped, NEW p \in Pid, NEW r \in Request, r.from = p,
         Effect(p, r.cmd, r.args), Deliver(p),
         UNCHANGED <<alive, step, job, cwd, trail>>,
         p \in alive, step[p] # "prompt", heard[p] = <<>>, call[p] = <<>>,
         Called(p, r), Begins(actions[p], trail[p])
  PROVE  Follows(p)'
<1>t. /\ actions[p] \in Seq(Word) /\ trail[p] \in Seq(Dir)
      /\ cwd[p] \in Dir /\ heard \in [Pid -> Outputs]
  BY DEF Sound, Typed, ShellsTyped
<1>b. Begins(actions'[p], Due(p)') => Follows(p)'
  BY DEF Follows
<1>2. ASSUME sent' # <<>>
      PROVE  heard'[p] # <<>> /\ heard'[p][1].kind = sent'[1].kind
  <2> DEFINE o == [kind |-> sent'[1].kind, body |-> sent'[1].body]
  <2>1. heard'[p] = <<o>>
    BY <1>t, <1>2 DEF Deliver
  <2>2. <<o>> # <<>> /\ <<o>>[1] = o /\ o.kind = sent'[1].kind
    OBVIOUS
  <2> QED BY <2>1, <2>2
<1>1. CASE (sent' = <<>> \/ Told("BAD")) /\ actions'[p] = actions[p]
  <2>1. actions'[p] = actions[p]
    BY <1>1
  <2>2. heard'[p] = <<>> \/ heard'[p][1].kind = "BAD"
    BY <1>1, <1>2 DEF Deliver, Told
  <2>3. Due(p)' = trail[p]
    BY <2>2 DEF Due, Pushed, Popped, Says
  <2> QED BY <1>b, <2>1, <2>3
<1>3. CASE r.cmd = "push" /\ Told("OK") /\ ~Told("BAD")
  <2>1. step[p] = "push" /\ r.args = Text[cwd[p]]
    <3>1. job[p].cmd # "push" /\ step[p] \in Step
      BY KeptArgs DEF Sound, Typed
    <3> QED BY <1>3, <3>1 DEF Called, Step
  <2>p. heard'[p] # <<>> /\ Says(heard'[p][1], "OK")
    BY <1>2, <1>3 DEF Told, Says
  <2>0. CASE cwd[p] \notin Path
    BY <2>0, <2>1, <2>p DEF Follows, Pushed
  <2>n. CASE cwd[p] \in Path
    <3> DEFINE d == cwd[p]
    <3>d. d \in Dir /\ d \in Word /\ r.args[1] = d
      BY <1>t, <2>1, <2>n, WordsOf
    <3>2. Due(p)' = IF trail[p] # <<>> /\ Head(trail[p]) = d
                      THEN trail[p] ELSE <<d>> \o trail[p]
      BY <2>1, <2>p DEF Due, Pushed, Departed
    <3>3. actions'[p] = IF Repeats(p, d) THEN actions[p] ELSE <<d>> \o actions[p]
      BY <1>3, <3>d DEF Effect, Told
    <3>4. actions[p] # <<>> =>
            trail[p] # <<>> /\ Head(actions[p]) = Head(trail[p])
      BY <1>t, BackBegins
    <3> HIDE DEF d
    <3>5. CASE Repeats(p, d)
      BY <1>b, <3>2, <3>3, <3>4, <3>5 DEF Repeats
    <3>6. CASE ~Repeats(p, d) /\ actions[p] = <<>>
               /\ trail[p] # <<>> /\ Head(trail[p]) = d
      <4>1. trail[p][1] = d /\ Len(trail[p]) \in Nat \ {0}
        BY <1>t, <3>6, EmptySeq
      <4>2. <<d>> \in Seq(Word)
        BY <3>d
      <4>3. <<d>> \o <<>> = <<d>>
        BY <4>2, ConcatEmptySeq
      <4>4. Begins(<<d>>, trail[p])
        BY <4>1 DEF Begins
      <4> QED BY <1>b, <3>2, <3>3, <3>6, <4>3, <4>4
    <3>7. CASE ~Repeats(p, d) /\ ~(trail[p] # <<>> /\ Head(trail[p]) = d)
      <4>1. Begins(<<d>> \o actions[p], <<d>> \o trail[p])
        BY <1>t, <3>d, PushBegins
      <4> QED BY <1>b, <3>2, <3>3, <3>7, <4>1
    <3> QED BY <3>4, <3>5, <3>6, <3>7 DEF Repeats
  <2> QED BY <2>0, <2>n
<1>4. CASE r.cmd = "pop" /\ Told("path")
  <2>1. step[p] = "ask" /\ job[p].cmd = "pop"
    <3>1. step[p] \in Step
      BY DEF Sound, Typed
    <3> QED BY <1>4, <3>1 DEF Called, Step
  <2>2. Due(p)' = IF trail[p] = <<>> THEN <<>> ELSE Tail(trail[p])
    BY <1>2, <1>4, <2>1 DEF Told, Due, Pushed, Popped, Says, Returned
  <2>3. actions[p] # <<>> /\ actions'[p] = Tail(actions[p])
    BY <1>4 DEF Effect, Told
  <2> QED BY <1>b, <1>t, <2>2, <2>3, BackBegins
<1>5. CASE r.cmd \notin {"push", "pop"}
  <2>1. actions'[p] \in {actions[p], <<>>}
    BY <1>5 DEF Effect
  <2>2. Due(p)' = trail[p]
    BY <1>5 DEF Due, Pushed, Popped, Called
  <2> QED BY <1>b, <1>t, <2>1, <2>2, EmptyBegins
<1> QED BY <1>1, <1>3, <1>4, <1>5 DEF Effect, Told

LEMMA HandlerTracked ==
  ASSUME Sound, ShellsTyped, NEW r \in Request, queue # <<>>, r = Head(queue),
         Dispatch(r.from, r.cmd, r.args), Deliver(r.from),
         queue' = Tail(queue), UNCHANGED <<shell, call, history>>,
         NEW p \in Pid, Tracked(p)
  PROVE  Tracked(p)'
<1>r. /\ r.from \in Pid /\ r.cmd \in CommandName
      /\ r.args \in Seq(Word) \union {NoArgs}
  BY RequestFields
<1>q. /\ r = queue[1] /\ Len(queue) \in Nat /\ Len(queue) >= 1
      /\ Len(queue') = Len(queue) - 1
      /\ \A i \in 1..Len(queue') : queue'[i] = queue[i + 1]
  BY Taken DEF Sound
<1>u. UNCHANGED <<alive, step, job, cwd, call, trail, astray>>
  BY DEF shell, history
<1>1. CASE r.from # p
  <2>1. actions'[p] = actions[p]
    BY <1>r, <1>1, DispatchHandles DEF Handles
  <2>2. heard'[p] = heard[p]
    BY <1>1, <1>r DEF Deliver, ShellsTyped
  <2>3. Shifted(p, 1)
    BY <1>q, <1>1, ShiftedTail
  <2>4. Untouched(p)
    BY <1>u, <2>1, <2>2 DEF Untouched
  <2> QED BY <2>3, <2>4, OthersTracked
<1>2. CASE r.from = p
  <2>e. Effect(p, r.cmd, r.args)
    BY <1>r, <1>2, DispatchEffect
  <2>h. 1 \in 1..Len(queue) /\ queue[1].from = p /\ Pending(p)
    BY <1>q, <1>2 DEF Pending
  <2>1. ASSUME p \in alive, ~astray[p]
        PROVE  Follows(p)' /\ OneCall(p)'
    <3>1. /\ heard[p] = <<>> /\ step[p] # "prompt" /\ call[p] = <<>>
          /\ Called(p, r)
          /\ \A j \in 1..Len(queue) : queue[j].from = p => j = 1
          /\ Follows(p)
      BY <1>q, <2>1, <2>h DEF Tracked, OneCall
    <3>2. Begins(actions[p], trail[p])
      BY <3>1 DEF Follows, Due, Pushed, Popped
    <3>3. Follows(p)'
      BY <1>2, <1>u, <2>1, <2>e, <3>1, <3>2, EffectIsDue
    <3>4. \A i \in 1..Len(queue') : queue'[i].from # p
      <4> SUFFICES ASSUME NEW i \in 1..Len(queue'), queue'[i].from = p
                   PROVE  FALSE
        OBVIOUS
      <4>1. i + 1 \in 1..Len(queue) /\ queue'[i] = queue[i + 1]
        BY <1>q
      <4> QED BY <3>1, <4>1
    <3> QED BY <1>u, <3>1, <3>3, <3>4 DEF OneCall
  <2>3. InHandIsCalled(p) => InHandIsCalled(p)'
    BY <1>u DEF InHandIsCalled, Called
  <2>4. NotOk(p) => NotOk(p)'
    BY <1>2 DEF NotOk, Deliver
  <2>2. ASSUME p \in alive, step[p] = "ask", job[p].cmd = "reset",
               call[p] = <<>>, ~NotOk(p)
        PROVE  Cleared(p)'
    <3>1. PICK i \in 1..Len(queue) : ResetAt(p, i)
      BY <2>2, <2>h DEF Tracked, Cleared
    <3>2. \A j \in i..Len(queue') : queue'[j].from # p
      <4> SUFFICES ASSUME NEW j \in i..Len(queue') PROVE queue'[j].from # p
        OBVIOUS
      <4>1. j + 1 \in (i+1)..Len(queue) /\ queue'[j] = queue[j + 1]
        BY <1>q
      <4> QED BY <3>1, <4>1 DEF ResetAt
    <3>3. CASE i = 1
      <4>1. r.cmd = "reset"
        BY <1>q, <3>1, <3>3 DEF ResetAt
      <4>2. actions'[p] = <<>>
        BY <2>e, <4>1 DEF Effect
      <4> QED BY <3>2, <3>3, <4>2 DEF Cleared, Pending
    <3>4. CASE i > 1
      <4>1. PICK k \in 1..Len(queue') : k = i - 1 /\ queue'[k] = queue[i]
        BY <1>q, <3>4
      <4>2. ResetAt(p, k)'
        BY <3>1, <3>2, <4>1 DEF ResetAt
      <4> QED BY <4>2 DEF Cleared
    <3> QED BY <3>3, <3>4
  <2> QED BY <1>u, <2>1, <2>2, <2>3, <2>4 DEF Tracked
<1> QED BY <1>1, <1>2

(* The end of the daemon empties every stack and the queue.                *)
LEMMA EndedTracked ==
  ASSUME Sound, ShellsTyped, TypeOK', NEW how, LoseMemory(how), Ended,
         NEW p \in Pid, Tracked(p)
  PROVE  Tracked(p)'
<1>1. /\ actions'[p] = <<>> /\ queue' = <<>>
      /\ UNCHANGED <<alive, step, job, cwd, heard, trail, astray>>
  BY DEF LoseMemory, EmptyStacks, Ended, shell
<1>2. call'[p] \in {call[p], <<>>}
  BY EndedCalls
<1>3. Due(p)' = Due(p)
  BY <1>1 DEF Due, Pushed, Popped, Says, Departed, Returned
<1>4. Due(p) \in Seq(Dir)
  BY TrailsTyped DEF Due, ShellsTyped
<1>5. Follows(p)'
  BY <1>1, <1>3, <1>4, EmptyBegins DEF Follows
<1>6. Cleared(p)'
  BY <1>1 DEF Cleared, Pending
<1>7. OneCall(p) => OneCall(p)'
  BY <1>1, <1>2 DEF OneCall
<1>8. InHandIsCalled(p) => InHandIsCalled(p)'
  BY <1>1, <1>2 DEF InHandIsCalled, Called
<1> QED BY <1>1, <1>5, <1>6, <1>7, <1>8 DEF Tracked

LEMMA TrackedStep ==
  Sound /\ ShellsTyped /\ Leaving /\ TypeOK' /\ (\A p \in Pid : Tracked(p))
    /\ [SessionNext]_all => (\A p \in Pid : Tracked(p))'
<1> SUFFICES ASSUME Sound, ShellsTyped, Leaving, TypeOK', [SessionNext]_all,
                    \A q \in Pid : Tracked(q), NEW p \in Pid
             PROVE  Tracked(p)'
  OBVIOUS
<1>1. ASSUME NEW q \in Pid, ShellStep(q) PROVE Tracked(p)'
  <2>1. Alone(q) /\ Tracked(q)'
    BY <1>1, UserTracked, HearTracked, WaitTracked, ClientTracked
       DEF ShellStep, Client
  <2> QED BY <2>1, AloneTracked
<1>2. CASE Answer
  <2>1. PICK r \in Request : r = Head(queue)
    BY <1>2, Taken DEF Answer, Sound
  <2>2. CASE /\ Dispatch(r.from, r.cmd, r.args) /\ Deliver(r.from)
             /\ queue' = Tail(queue) /\ UNCHANGED <<shell, call, history>>
    BY <1>2, <2>1, <2>2, HandlerTracked DEF Answer
  <2>3. CASE NullArgs(r.from, r.args) /\ Ended
    BY <2>3, EndedTracked DEF NullArgs
  <2> QED BY <1>2, <2>1, <2>2, <2>3 DEF Answer
<1>3. CASE Stop
  BY <1>3, EndedTracked DEF Stop, Terminate
<1>4. CASE Background \/ UNCHANGED all
  <2>1. UNCHANGED <<actions, shell, call, heard, queue, history>>
    BY <1>4 DEF Background, Start, ReadLine, Serve, FsChange, memory, all, vars
  <2>2. Untouched(p) /\ Shifted(p, 0)
    BY <2>1, ShiftedSame DEF shell, history, Untouched
  <2> QED BY <2>2, OthersTracked
<1> QED BY <1>1, <1>2, <1>3, <1>4 DEF SessionNext, ShellStep

(***************************************************************************)
(* At its prompt, a shell whose calls were never cut short, whose cd never *)
(* failed and that left no directory with a space in its name finds in the *)
(* daemon the latest part of its own history, directory by directory and   *)
(* in order: for any number of shells and directories, queues and stacks   *)
(* of every length, and whatever happens to the daemon in between.         *)
(***************************************************************************)
THEOREM BackUndoesTheLatest == SessionSpec => []BackUndoes
<1> DEFINE AllTracked == \A p \in Pid : Tracked(p)
<1>1. SessionInit => AllTracked
  BY DEF SessionInit, Tracked
<1>2. Sound /\ AllTracked => BackUndoes
  <2> SUFFICES ASSUME AllTracked, NEW p \in alive, p \in Pid,
                      step[p] = "prompt", ~astray[p]
               PROVE  Begins(actions[p], trail[p])
    BY DEF BackUndoes, Begins, Sound, Typed
  <2> QED BY AtPrompt
<1>3. Sound /\ ShellsTyped /\ Leaving /\ TypeOK' /\ AllTracked
        /\ [SessionNext]_all => AllTracked'
  BY TrackedStep
<1> HIDE DEF AllTracked
<1> QED
  BY <1>1, <1>2, <1>3, SoundAlways, ShellsTypedAlways, LeavingAlways,
     DaemonTypeAlways, PTL DEF SessionSpec
-----------------------------------------------------------------------------
(* What the daemon promises to one client after another it keeps with      *)
(* shells that call, wait, give up, are interrupted and die as they do.    *)

(***************************************************************************)
(* Shells that add and delete in any interleaving, through requests that   *)
(* their clients no longer wait for too, leave no name twice in the list.  *)
(***************************************************************************)
THEOREM ShellsKeepTagsUnique == SessionSpec => []UniqueTags
<1>1. SessionInit => UniqueTags
  BY DEF SessionInit, Init, UniqueTags, Distinct
<1> QED
  BY <1>1, TagStepNext, UniqueTagsStep, SessionIsAnyStep, SoundAlways,
     DaemonTypeAlways, PTL DEF SessionSpec

(***************************************************************************)
(* However shells wander, push and go back, and whatever late requests of  *)
(* a dead shell reach its heir, no stack has two equal neighbours: nav     *)
(* back twice in a row never names the same directory.                     *)
(***************************************************************************)
THEOREM ShellsNoStepTwice == SessionSpec => []NoImmediateRepeat
<1>1. SessionInit => NoImmediateRepeat
  BY DEF SessionInit, Init, EmptyStacks, NoImmediateRepeat
<1> QED
  BY <1>1, BackMovesStep, SessionIsAnyStep, SoundAlways, DaemonTypeAlways,
     PTL DEF SessionSpec

(***************************************************************************)
(* One shell's requests, late ones included, never reach the stack of      *)
(* another: a stack that changes is that of the shell the daemon answers,  *)
(* or the daemon has ended.                                                *)
(***************************************************************************)
THEOREM ShellsAreIsolated == SessionSpec => ShellIsolation
<1>1. TypeOK /\ AnyStep =>
        [\A p \in Pid : actions'[p] # actions[p] =>
           phase' = "down" \/ (sent' # <<>> /\ sent'[1].to = p)]_vars
  BY StackStepNext DEF StackStep, Answers
<1> QED
  BY <1>1, SessionIsAnyStep, SoundAlways, DaemonTypeAlways, PTL
     DEF SessionSpec, ShellIsolation

(***************************************************************************)
(* With plain names and a disk that takes every write, each tag the daemon *)
(* answers any shell for is in the file with its path, for any number of   *)
(* shells and with directories, allocations and reads that fail.           *)
(***************************************************************************)
THEOREM ShellsTagsSurvive ==
  ASSUME PlainNames, WritesSucceed
  PROVE  SessionSpec => []TagsAreOnDisk
<1>1. SessionInit => DiskInv
  BY DEF SessionInit, Init, DiskInv, OnDisk
<1>2. TypeOK /\ DiskInv /\ AnyStep => DiskInv'
  BY DiskInvStep
<1>3. DiskInv => TagsAreOnDisk
  BY DEF DiskInv, OnDisk, TagsAreOnDisk
<1> QED
  BY <1>1, <1>2, <1>3, SessionIsAnyStep, SoundAlways, DaemonTypeAlways, PTL
     DEF SessionSpec

(***************************************************************************)
(* What a shell's nav commands are answered is what one map of tags and    *)
(* one stack per shell give: the daemon among its shells is the service,   *)
(* with clients that give up on an answer, queues of requests and shells   *)
(* killed with a request on its way.                                       *)
(***************************************************************************)
THEOREM ShellsSeeTheService ==
  ASSUME PlainNames, NoFaults, CleanFiles
  PROVE  SessionSpec => ImplementsService
<1>1. SessionInit => Service!Init
  BY InitMaps DEF SessionInit
<1>2. SessionInit => MirrorInv
  BY DEF SessionInit, Init, CleanFiles, MirrorInv, FileMirrorsTags
<1>3. TypeOK /\ TypeOK' /\ UniqueTags' /\ MirrorInv /\ AnyStep => MirrorInv'
  BY MirrorStep
<1>4. TypeOK /\ UniqueTags /\ MirrorInv /\ AnyStep
        => [Service!Next]_(Service!svars)
  BY StepMaps
<1> QED
  BY <1>1, <1>2, <1>3, <1>4, ShellsKeepTagsUnique, SessionIsAnyStep, SoundAlways,
     DaemonTypeAlways, PTL DEF SessionSpec, ImplementsService, Service!Spec
=============================================================================
