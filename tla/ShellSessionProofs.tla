-------------------------- MODULE ShellSessionProofs --------------------------
(***************************************************************************)
(* What a shell that runs nav can rely on, for any number of shells, any   *)
(* directories and jobs, and queues of every length: nav does not end the  *)
(* daemon unless it is given -- alone, a shell that has said farewell      *)
(* leaves nothing, and a stack holds only where its own shell has been.    *)
(*                                                                         *)
(* The steps are first reduced to what they do to the daemon's stacks, the *)
(* queue and one shell; each invariant is then kept by every such step.    *)
(***************************************************************************)
EXTENDS ShellSession, SequenceTheorems, TLAPS

(* What a client has in its hands, and what nav may be doing.              *)
Hands == {<<>>} \union {<<r>> : r \in Request}
Doing == Job \union {NoJob, Asking("list")}

Typed ==
  /\ alive \subseteq Pid
  /\ step \in [Pid -> Step]
  /\ job \in [Pid -> Doing]
  /\ cwd \in [Pid -> Dir]
  /\ call \in [Pid -> Hands]
  /\ \A p \in Pid : call[p] # <<>> => call[p][1].from = p
  /\ been \in [Pid -> SUBSET Dir]
  /\ heir \in [Pid -> BOOLEAN]

Sound ==
  /\ Typed
  /\ queue \in Seq(Request)
  /\ actions \in [Pid -> Seq(Word)]
  /\ shells \subseteq Pid
  /\ phase # "serving" => queue = <<>> /\ shells = {}
  /\ StacksOfRegisteredOnly

-----------------------------------------------------------------------------
(* Queues.                                                                 *)

LEMMA Appended ==
  ASSUME NEW q \in Seq(Request), NEW r \in Request
  PROVE  /\ Append(q, r) \in Seq(Request)
         /\ Len(Append(q, r)) = Len(q) + 1 /\ Len(q) \in Nat
         /\ \A i \in 1..Len(q) : Append(q, r)[i] = q[i]
         /\ Append(q, r)[Len(q) + 1] = r
BY AppendProperties, LenProperties

LEMMA Taken ==
  ASSUME NEW q \in Seq(Request), q # <<>>
  PROVE  /\ Head(q) \in Request /\ Head(q) = q[1]
         /\ Tail(q) \in Seq(Request)
         /\ Len(q) \in Nat /\ Len(q) >= 1 /\ Len(Tail(q)) = Len(q) - 1
         /\ \A i \in 1..Len(Tail(q)) : Tail(q)[i] = q[i+1]
<1>1. Len(q) \in Nat \ {0}
  BY EmptySeq
<1> QED BY <1>1, HeadTailProperties

LEMMA InHand ==
  ASSUME NEW c \in Hands, c # <<>>
  PROVE  c[1] \in Request /\ c = <<c[1]>>
BY DEF Hands

LEMMA RequestFields ==
  ASSUME NEW r \in Request
  PROVE  /\ r.from \in Pid /\ r.cmd \in CommandName
         /\ r.args \in Seq(Word) \union {NoArgs}
BY DEF Request
-----------------------------------------------------------------------------
(* What a handler does to the stacks and sessions.                         *)

Handles(p, cmd, args) ==
  /\ phase = "serving" /\ phase' = "serving" /\ ending' = ending
  /\ \A q \in Pid \ {p} :
       actions'[q] = actions[q] /\ (q \in shells' <=> q \in shells)
  /\ actions' \in [Pid -> Seq(Word)]
  /\ shells' \subseteq Pid
  /\ \/ actions'[p] \in {actions[p], <<>>}
     \/ actions[p] # <<>> /\ actions'[p] = Tail(actions[p])
     \/ /\ cmd = "push" /\ args \in Seq(Word) \ {<<>>}
        /\ actions'[p] = <<args[1]>> \o actions[p]
  /\ p \notin shells' => actions'[p] = <<>>
  /\ cmd = "unregister" => p \notin shells'

LEMMA DispatchHandles ==
  ASSUME Sound, NEW p \in Pid, NEW cmd \in CommandName,
         NEW args \in Seq(Word) \union {NoArgs}, Dispatch(p, cmd, args)
  PROVE  Handles(p, cmd, args)
<1>s. /\ actions \in [Pid -> Seq(Word)] /\ shells \subseteq Pid
      /\ p \notin shells => actions[p] = <<>>
  BY DEF Sound, StacksOfRegisteredOnly
<1>1. CASE cmd = "register" /\ CmdRegister(p)
  BY <1>s, <1>1 DEF CmdRegister, Handles
<1>2. CASE cmd = "unregister" /\ CmdUnregister(p)
  BY <1>s, <1>2 DEF CmdUnregister, Known, Handles
<1>3. CASE \/ cmd = "show" /\ CmdShow(p)
           \/ cmd = "list" /\ CmdList(p)
           \/ cmd = "actions" /\ CmdActions(p)
           \/ cmd = "get" /\ CmdGet(p, args)
  BY <1>s, <1>3
     DEF CmdShow, CmdList, CmdActions, CmdGet, Known, Idle, memory, Handles
<1>4. CASE cmd = "pop" /\ CmdPop(p)
  <2>1. CASE actions[p] = <<>>
    BY <1>s, <1>4, <2>1 DEF CmdPop, Known, Handles
  <2>2. CASE actions[p] # <<>>
    <3>1. Tail(actions[p]) \in Seq(Word)
      BY <1>s, <2>2, HeadTailProperties
    <3> QED BY <1>s, <1>4, <2>2, <3>1 DEF CmdPop, Known, Handles
  <2> QED BY <2>1, <2>2
<1>5. CASE cmd = "reset" /\ CmdReset(p)
  BY <1>s, <1>5 DEF CmdReset, Known, Handles
<1>6. CASE \/ cmd = "add" /\ CmdAdd(p, args)
           \/ cmd = "delete" /\ CmdDelete(p, args)
  BY <1>s, <1>6 DEF CmdAdd, CmdDelete, Known, Handles
<1>7. CASE cmd = "push" /\ CmdPush(p, args)
  <2>1. CASE UNCHANGED actions
    BY <1>s, <1>7, <2>1 DEF CmdPush, Known, Handles
  <2>2. CASE /\ PushAccepted(args)
             /\ actions' = [actions EXCEPT ![p] = <<args[1]>> \o @]
    <3>1. args \in Seq(Word) /\ args # <<>>
      BY <1>7, <2>2 DEF CmdPush, PushAccepted
    <3>2. args[1] \in Word
      BY <3>1, EmptySeq, ElementOfSeq
    <3>3. <<args[1]>> \in Seq(Word)
      BY <3>2
    <3>4. <<args[1]>> \o actions[p] \in Seq(Word)
      BY <1>s, <3>3, ConcatProperties
    <3> QED BY <1>s, <1>7, <2>2, <3>1, <3>4 DEF CmdPush, Known, Handles
  <2> QED BY <1>7, <2>1, <2>2 DEF CmdPush
<1>8. CASE /\ Ignored(p, args)
           /\ \/ cmd # "register" /\ p \notin shells
              \/ cmd \in {"get", "delete"}
  BY <1>s, <1>8 DEF Ignored, Idle, memory, Handles
<1> QED BY <1>1, <1>2, <1>3, <1>4, <1>5, <1>6, <1>7, <1>8 DEF Dispatch
-----------------------------------------------------------------------------
(* What a shell's own step does.                                           *)

(* The daemon's side is untouched, and so is every other shell.            *)
Apart(p) ==
  /\ UNCHANGED <<phase, shells, actions, ending>>
  /\ \A q \in Pid \ {p} :
       /\ q \in alive' <=> q \in alive
       /\ step'[q] = step[q] /\ cwd'[q] = cwd[q] /\ call'[q] = call[q]
       /\ been'[q] = been[q] /\ heir'[q] = heir[q]

Opens(p) ==
  /\ Apart(p)
  /\ p \notin alive /\ p \in alive'
  /\ step'[p] = step[p] /\ heir'[p] = heir[p]
  /\ call[p] = <<>> /\ call'[p] = <<>>
  /\ been'[p] = {cwd'[p]}
  /\ queue' = queue

(* It goes on without calling a client, to its prompt at most.             *)
Goes(p) ==
  /\ Apart(p)
  /\ p \in alive /\ p \in alive' /\ heir'[p] = heir[p]
  /\ \/ cwd'[p] = cwd[p] /\ been'[p] = been[p]
     \/ been'[p] = been[p] \union {cwd'[p]}
  /\ \/ step'[p] = step[p]
     \/ /\ step[p] # "unregister" /\ step'[p] # "unregister"
        /\ call[p] = <<>>
  /\ call'[p] = call[p]
  /\ queue' = queue

(* It starts the client.                                                   *)
Starts(p, cmd, args) ==
  /\ Apart(p)
  /\ p \in alive /\ p \in alive' /\ heir'[p] = heir[p]
  /\ cwd'[p] = cwd[p] /\ been'[p] = been[p]
  /\ step[p] # "unregister"
  /\ step'[p] = "unregister" <=> cmd = "unregister"
  /\ step'[p] # "prompt"
  /\ \/ cmd \in Needy => args # NoArgs
     \/ \E j \in Job : DashesAlone(j)
  /\ cmd = "push" => args = Text[cwd[p]]
  /\ call'[p] = <<[from |-> p, cmd |-> cmd, args |-> args]>>
  /\ queue' = queue

(* The client sends the request.                                           *)
Sends(p) ==
  /\ Apart(p)
  /\ p \in alive' <=> p \in alive
  /\ UNCHANGED <<step, cwd, been>>
  /\ heir'[p] = (heir[p] /\ ~Farewell(p))
  /\ call[p] # <<>> /\ call'[p] = <<>>
  /\ phase = "serving"
  /\ queue' = Append(queue, call[p][1])

(* The client ends with the request unsent, because there is no daemon or  *)
(* for another reason.                                                     *)
Drops(p) ==
  /\ Apart(p)
  /\ p \in alive' <=> p \in alive
  /\ UNCHANGED <<step, cwd, been>>
  /\ \/ heir'[p] = (heir[p] \/ Farewell(p))
     \/ phase # "serving" /\ heir'[p] = (heir[p] /\ ~Farewell(p))
  /\ call'[p] = <<>>
  /\ queue' = queue

Ends(p) ==
  /\ Apart(p)
  /\ p \in alive /\ p \notin alive'
  /\ step'[p] = "prompt"
  /\ heir'[p] = (heir[p] \/ ~Parting(p))
  /\ call'[p] \in {call[p], <<>>}
  /\ queue' = queue

ShellMoves(p) ==
  /\ Typed'
  /\ \/ Opens(p) \/ Goes(p) \/ Sends(p) \/ Drops(p) \/ Ends(p)
     \/ \E cmd \in CommandName, args \in Seq(Word) \union {NoArgs} :
          Starts(p, cmd, args)

LEMMA WordsOf ==
  ASSUME NEW d \in Dir
  PROVE  /\ Text[d] \in Seq(Word) /\ Text[d] # <<>> /\ Text[d][1] \in Word
         /\ d \in Path => Text[d][1] = d
<1>1. Text[d] \in Seq(Word) /\ Text[d] # <<>>
  BY DirAssumption
<1>2. d \in Path => Text[d] = <<d>>
  BY DirAssumption
<1> QED BY <1>1, <1>2, EmptySeq, ElementOfSeq

(* The arguments that the client keeps.                                    *)
LEMMA KeptArgs ==
  ASSUME NEW j \in Doing
  PROVE  /\ j.cmd \in CommandName \ {"push", "unregister"}
         /\ ArgsOf(j.argv) \in Seq(Word) \union {NoArgs}
         /\ Given(j) /\ j.cmd \in Needy /\ ~DashesAlone(j)
              => j \in Job /\ ArgsOf(j.argv) # NoArgs
<1>1. /\ j.cmd \in NavCommand \union {"register"}
      /\ j.argv \in Seq(Seq(Word)) /\ Len(j.argv) <= Most(j.cmd)
  <2>1. CASE j \in Job
    BY <2>1, JobAssumption
  <2>2. CASE j \in {NoJob, Asking("list")}
    <3>1. <<>> \in Seq(Seq(Word)) /\ Len(<<>>) = 0
      OBVIOUS
    <3>2. j.argv = <<>> /\ j.cmd \in {"register", "list"}
      BY <2>2 DEF NoJob, Asking
    <3>3. Most(j.cmd) = 0
      BY <3>2 DEF Most, Needy
    <3> QED BY <3>1, <3>2, <3>3 DEF NavCommand
  <2> QED BY <2>1, <2>2 DEF Doing
<1> DEFINE v == j.argv
<1>2. /\ v \in Seq(Seq(Word)) /\ Len(v) \in Nat /\ DOMAIN v = 1..Len(v)
      /\ \A i \in 1..Len(v) : v[i] \in Seq(Word)
  BY <1>1, LenProperties, ElementOfSeq
<1>3. ArgsOf(v) \in Seq(Word) \union {NoArgs}
  <2>1. \A i : Part(v, i) \in Seq(Word)
    BY <1>2 DEF Part, Kept
  <2>2. Part(v, 1) \o Part(v, 2) \in Seq(Word)
    BY <2>1, ConcatProperties
  <2> QED BY <2>2 DEF ArgsOf
<1>4. ASSUME Given(j), j.cmd \in Needy, ~DashesAlone(j)
      PROVE  j \in Job /\ ArgsOf(v) # NoArgs
  <2>1. j \in Job
    BY <1>4 DEF Doing, NoJob, Asking, Needy
  <2>2. Len(v) = Most(j.cmd)
    BY <1>1, <1>2, <1>4 DEF Given, Most, Needy
  <2>3. Kept(v) # {}
    <3>1. CASE j.cmd = "add"
      <4>1. 1 \in DOMAIN v /\ 2 \in DOMAIN v
        BY <1>2, <2>2, <3>1 DEF Most
      <4>2. CASE v[1] = <<Dashes>>
        BY <4>1, <4>2 DEF Kept, Dropped
      <4>3. CASE v[1] # <<Dashes>>
        BY <4>1, <4>3 DEF Kept, Dropped
      <4> QED BY <4>2, <4>3
    <3>2. CASE j.cmd \in {"get", "delete"}
      <4>1. Len(v) = 1
        BY <2>2, <3>2 DEF Most, Needy
      <4>2. v = <<v[1]>>
        <5>1. v \in Seq(Seq(Word)) /\ v[1] \in Seq(Word)
          BY <1>2, <4>1
        <5>2. <<v[1]>> \in Seq(Seq(Word)) /\ Len(<<v[1]>>) = 1
              /\ <<v[1]>>[1] = v[1]
          BY <5>1
        <5> QED BY <4>1, <5>1, <5>2, SeqEqual
      <4>3. v[1] # <<Dashes>>
        BY <1>4, <3>2, <4>2 DEF DashesAlone
      <4> QED BY <1>2, <4>1, <4>3 DEF Kept, Dropped
    <3> QED BY <1>4, <3>1, <3>2 DEF Needy
  <2>4. Part(v, 1) \o Part(v, 2) # NoArgs
    <3>1. \A i : Part(v, i) \in Seq(Word)
      BY <1>2 DEF Part, Kept
    <3> QED BY <3>1, ConcatProperties, ArgAssumption
  <2> QED BY <2>1, <2>3, <2>4 DEF ArgsOf
<1> QED BY <1>1, <1>3, <1>4 DEF NavCommand, CommandName

(* A shell that starts the client.                                         *)
LEMMA CallMoves ==
  ASSUME Sound, NEW p \in Pid, NEW s \in Step \ {"prompt"}, NEW cmd \in CommandName,
         NEW args \in Seq(Word) \union {NoArgs},
         p \in alive, step[p] # "unregister", Call(p, s, cmd, args), Silence,
         job' \in [Pid -> Doing], UNCHANGED <<alive, cwd, been, heir>>,
         s = "unregister" <=> cmd = "unregister",
         \/ cmd \in Needy => args # NoArgs
         \/ \E j \in Job : DashesAlone(j),
         cmd = "push" => args = Text[cwd[p]]
  PROVE  ShellMoves(p)
<1>t. Typed
  BY DEF Sound
<1>0. PICK r \in Request : r = [from |-> p, cmd |-> cmd, args |-> args]
  BY DEF Request
<1>1. <<r>> \in Hands /\ <<r>>[1].from = p
  BY <1>0 DEF Hands
<1>2. /\ step' = [step EXCEPT ![p] = s] /\ call' = [call EXCEPT ![p] = <<r>>]
      /\ queue' = queue
  BY <1>0 DEF Call
<1>3. Typed'
  BY <1>t, <1>1, <1>2 DEF Typed
<1>4. Apart(p)
  BY <1>t, <1>2 DEF Silence, daemon, memory, Apart, Typed
<1>5. step'[p] = s /\ call'[p] = <<r>>
  BY <1>t, <1>2 DEF Typed
<1>6. Starts(p, cmd, args)
  BY <1>0, <1>2, <1>4, <1>5 DEF Starts
<1> QED BY <1>3, <1>6 DEF ShellMoves

LEMMA UserMoves ==
  ASSUME Sound, NEW p \in Pid, User(p) PROVE ShellMoves(p)
<1>t. Typed
  BY DEF Sound
<1>1. CASE Open(p)
  <2>1. PICK d \in Dir : /\ cwd' = [cwd EXCEPT ![p] = d]
                         /\ been' = [been EXCEPT ![p] = {d}]
    BY <1>1 DEF Open
  <2>2. cwd'[p] = d /\ been'[p] = {d}
    BY <1>t, <2>1 DEF Typed
  <2>3. Typed'
    BY <1>t, <1>1, <2>1 DEF Open, Typed
  <2>4. Opens(p)
    BY <1>t, <1>1, <2>1, <2>2
       DEF Open, Silence, daemon, memory, Opens, Apart, Typed
  <2> QED BY <2>3, <2>4 DEF ShellMoves
<1>2. ASSUME NEW d \in Dir, Wander(p, d) PROVE ShellMoves(p)
  <2>1. Typed'
    BY <1>t, <1>2 DEF Wander, Enter, Typed
  <2>2. Goes(p)
    BY <1>t, <1>2
       DEF Wander, Waits, Enter, Silence, daemon, memory, Goes, Apart, Typed
  <2> QED BY <2>1, <2>2 DEF ShellMoves
<1>3. ASSUME NEW j \in Job, Nav(p, j) PROVE ShellMoves(p)
  <2>1. job' \in [Pid -> Doing] /\ UNCHANGED <<alive, cwd, been, heir>>
    BY <1>t, <1>3 DEF Nav, Typed, Doing, history
  <2>2. Waits(p, "prompt") /\ Call(p, "register", "register", NoArgs) /\ Silence
    BY <1>3 DEF Nav
  <2> QED BY <2>1, <2>2, CallMoves DEF Needy, CommandName, Step, Waits
<1>4. CASE Complete(p)
  <2>1. job' \in [Pid -> Doing] /\ UNCHANGED <<alive, cwd, been, heir>>
    BY <1>t, <1>4 DEF Complete, Typed, Doing, history
  <2>2. Waits(p, "prompt") /\ Call(p, "ask", "list", NoArgs) /\ Silence
    BY <1>4 DEF Complete
  <2> QED BY <2>1, <2>2, CallMoves DEF Needy, CommandName, Step, Waits
<1>5. CASE Leave(p)
  <2>1. job' \in [Pid -> Doing] /\ UNCHANGED <<alive, cwd, been, heir>>
    BY <1>t, <1>5 DEF Leave, Typed, history
  <2>2. /\ Waits(p, "prompt") /\ Call(p, "unregister", "unregister", NoArgs)
        /\ Silence
    BY <1>5 DEF Leave
  <2> QED BY <2>1, <2>2, CallMoves DEF Needy, CommandName, Step, Waits
<1> QED BY <1>1, <1>2, <1>3, <1>4, <1>5 DEF User

LEMMA KillMoves == ASSUME Sound, NEW p \in Pid, Kill(p) PROVE ShellMoves(p)
<1>t. Typed
  BY DEF Sound
<1>0. /\ p \in alive /\ Gone(p) /\ Silence
      /\ call' \in {call, [call EXCEPT ![p] = <<>>]}
      /\ heir' = [heir EXCEPT ![p] = @ \/ ~Parting(p)]
  BY DEF Kill
<1>1. call' \in [Pid -> Hands] /\ \A q \in Pid : call'[q] \in {call[q], <<>>}
  BY <1>t, <1>0 DEF Typed, Hands
<1>2. Typed'
  <2>1. /\ alive' \subseteq Pid /\ step' \in [Pid -> Step]
        /\ job' \in [Pid -> Doing] /\ cwd' \in [Pid -> Dir]
        /\ been' \in [Pid -> SUBSET Dir]
    BY <1>t, <1>0 DEF Gone, Prompt, Doing, Step, Typed
  <2>2. heir' \in [Pid -> BOOLEAN]
    BY <1>t, <1>0 DEF Typed, Parting, Waits
  <2> QED BY <1>t, <1>1, <2>1, <2>2 DEF Typed
<1>3. Ends(p)
  <2>1. heir'[p] = (heir[p] \/ ~Parting(p))
    BY <1>t, <1>0 DEF Typed
  <2> QED BY <1>t, <1>0, <1>1, <2>1
          DEF Gone, Prompt, Silence, daemon, memory, Ends, Apart, Typed
<1> QED BY <1>2, <1>3 DEF ShellMoves

LEMMA WaitMoves ==
  ASSUME Sound, NEW p \in Pid, GiveUp(p) PROVE ShellMoves(p)
<1>t. Typed
  BY DEF Sound
<1>1. Typed'
  BY <1>t DEF GiveUp, shell, Typed
<1>2. Goes(p)
  BY <1>t DEF GiveUp, shell, Silence, daemon, memory, Goes, Apart, Typed
<1> QED BY <1>1, <1>2 DEF ShellMoves

(* The client's request is lost, or sent.                                  *)
LEMMA HandMoves ==
  ASSUME Sound, NEW p \in Pid, Silence, UNCHANGED <<shell, been>>,
         call' = [call EXCEPT ![p] = <<>>],
         NEW h \in BOOLEAN, heir' = [heir EXCEPT ![p] = h]
  PROVE  /\ Typed' /\ Apart(p) /\ (p \in alive' <=> p \in alive)
         /\ UNCHANGED <<step, cwd, been>>
         /\ call'[p] = <<>> /\ heir'[p] = h
<1>t. Typed
  BY DEF Sound
<1>1. <<>> \in Hands
  BY DEF Hands
<1> QED BY <1>t, <1>1 DEF shell, Silence, daemon, memory, Apart, Typed

LEMMA ClientMoves ==
  ASSUME Sound, NEW p \in Pid,
         \/ SendRequest(p) \/ FindsNoDaemon(p)
         \/ FindsPathTaken(p) \/ Interrupt(p)
  PROVE  ShellMoves(p)
<1>t. heir[p] \in BOOLEAN /\ Farewell(p) \in BOOLEAN
  BY DEF Sound, Typed, Farewell
<1>1. CASE SendRequest(p)
  <2>1. PICK h \in BOOLEAN : h = (heir[p] /\ ~Farewell(p))
    BY <1>t
  <2>2. heir' = [heir EXCEPT ![p] = h]
    BY <1>1, <2>1 DEF SendRequest
  <2>3. /\ Silence /\ UNCHANGED <<shell, been>>
        /\ call' = [call EXCEPT ![p] = <<>>]
        /\ call[p] # <<>> /\ phase = "serving"
        /\ queue' = Append(queue, call[p][1])
    BY <1>1 DEF SendRequest
  <2>4. /\ Typed' /\ Apart(p) /\ (p \in alive' <=> p \in alive)
        /\ UNCHANGED <<step, cwd, been>> /\ call'[p] = <<>> /\ heir'[p] = h
    BY <2>2, <2>3, HandMoves
  <2> QED BY <2>1, <2>3, <2>4 DEF ShellMoves, Sends
<1>2. CASE FindsNoDaemon(p)
  <2>1. PICK h \in BOOLEAN : h = (heir[p] /\ ~Farewell(p))
    BY <1>t
  <2>2. heir' = [heir EXCEPT ![p] = h]
    BY <1>2, <2>1 DEF FindsNoDaemon
  <2>3. /\ Silence /\ UNCHANGED <<shell, been, queue>>
        /\ call' = [call EXCEPT ![p] = <<>>]
        /\ phase # "serving"
    BY <1>2 DEF FindsNoDaemon, GivesNothing
  <2>4. /\ Typed' /\ Apart(p) /\ (p \in alive' <=> p \in alive)
        /\ UNCHANGED <<step, cwd, been>> /\ call'[p] = <<>> /\ heir'[p] = h
    BY <2>2, <2>3, HandMoves
  <2> QED BY <2>1, <2>3, <2>4 DEF ShellMoves, Drops
<1>3. CASE FindsPathTaken(p) \/ Interrupt(p)
  <2>1. PICK h \in BOOLEAN : h = (heir[p] \/ Farewell(p))
    BY <1>t
  <2>2. heir' = [heir EXCEPT ![p] = h]
    BY <1>3, <2>1 DEF FindsPathTaken, Interrupt
  <2>3. /\ Silence /\ UNCHANGED <<shell, been, queue>>
        /\ call' = [call EXCEPT ![p] = <<>>]
    BY <1>3 DEF FindsPathTaken, Interrupt, GivesNothing
  <2>4. /\ Typed' /\ Apart(p) /\ (p \in alive' <=> p \in alive)
        /\ UNCHANGED <<step, cwd, been>> /\ call'[p] = <<>> /\ heir'[p] = h
    BY <2>2, <2>3, HandMoves
  <2> QED BY <2>1, <2>3, <2>4 DEF ShellMoves, Drops
<1> QED BY <1>1, <1>2, <1>3

(* The end of a call at which nav returns, changing directory at most.     *)
LEMMA CdGoes ==
  ASSUME Sound, NEW p \in Pid, NEW out, NEW left, NEW lost,
         p \in alive, step[p] # "unregister", call[p] = <<>>, Silence,
         Cd(p, out, left, lost), UNCHANGED <<alive, heir>>
  PROVE  ShellMoves(p)
<1>t. Typed
  BY DEF Sound
<1>1. CASE CanEnter(out) /\ Enter(p, out.body[1])
  <2>1. PICK d \in Dir : d = out.body[1]
    BY <1>1 DEF CanEnter
  <2>2. /\ cwd' = [cwd EXCEPT ![p] = d]
        /\ been' = [been EXCEPT ![p] = @ \union {d}]
    BY <1>1, <2>1 DEF Enter
  <2>3. Typed'
    BY <1>t, <2>2 DEF Cd, Prompt, Doing, Step, Typed
  <2>4. Goes(p)
    BY <1>t, <2>2 DEF Cd, Prompt, Silence, daemon, memory, Goes, Apart, Typed
  <2> QED BY <2>3, <2>4 DEF ShellMoves
<1>2. CASE UNCHANGED <<cwd, been>>
  <2>1. Typed'
    BY <1>t, <1>2 DEF Cd, Prompt, Doing, Step, Typed
  <2>2. Goes(p)
    BY <1>t, <1>2 DEF Cd, Prompt, Silence, daemon, memory, Goes, Apart, Typed
  <2> QED BY <2>1, <2>2 DEF ShellMoves
<1> QED BY <1>1, <1>2 DEF Cd

LEMMA PromptGoes ==
  ASSUME Sound, NEW p \in Pid, p \in alive, step[p] # "unregister",
         call[p] = <<>>, Prompt(p), Silence, UNCHANGED <<alive, cwd, call, been, heir>>
  PROVE  ShellMoves(p)
<1>t. Typed
  BY DEF Sound
<1>1. Typed'
  BY <1>t DEF Prompt, Doing, Step, Typed
<1>2. Goes(p)
  BY <1>t DEF Prompt, Silence, daemon, memory, Goes, Apart, Typed
<1> QED BY <1>1, <1>2 DEF ShellMoves

LEMMA HearMoves == ASSUME Sound, NEW p \in Pid, Hear(p) PROVE ShellMoves(p)
<1>t. Typed
  BY DEF Sound
<1> DEFINE out == heard[p][1]
<1>h. Silence /\ call[p] = <<>>
  BY DEF Hear
<1>1. CASE AfterRegister(p, out)
  <2>1. p \in alive /\ step[p] = "register"
        /\ UNCHANGED <<alive, cwd, been, heir>>
    BY <1>1 DEF AfterRegister, Waits
  <2>2. CASE Prompt(p) /\ UNCHANGED call
    BY <1>h, <2>1, <2>2, PromptGoes
  <2>3. CASE PrintsUsage(p, "ask") /\ UNCHANGED job
    <3>1. Typed'
      BY <1>t, <2>1, <2>3 DEF PrintsUsage, Step, Typed
    <3>2. Goes(p)
      BY <1>t, <1>h, <2>1, <2>3
         DEF PrintsUsage, Silence, daemon, memory, Goes, Apart, Typed
    <3> QED BY <3>1, <3>2 DEF ShellMoves
  <2>4. CASE /\ Given(job[p])
             /\ Call(p, "ask", job[p].cmd, ArgsOf(job[p].argv))
             /\ UNCHANGED job
    <3>1. job[p] \in Doing
      BY <1>t DEF Typed
    <3>2. /\ job[p].cmd \in CommandName /\ job[p].cmd \notin {"push", "unregister"}
          /\ ArgsOf(job[p].argv) \in Seq(Word) \union {NoArgs}
      BY <3>1, KeptArgs
    <3>3. \/ job[p].cmd \in Needy => ArgsOf(job[p].argv) # NoArgs
          \/ \E j \in Job : DashesAlone(j)
      BY <2>4, <3>1, KeptArgs DEF Doing, NoJob, Asking, DashesAlone
    <3>4. job' \in [Pid -> Doing] /\ "ask" \in Step \ {"prompt", "unregister"}
      BY <1>t, <2>4 DEF Typed, Step
    <3> QED BY <1>h, <2>1, <2>4, <3>2, <3>3, <3>4, CallMoves
  <2> QED BY <1>1, <2>2, <2>3, <2>4 DEF AfterRegister
<1>2. CASE AfterGet(p, out)
  <2>1. p \in alive /\ step[p] = "ask"
        /\ UNCHANGED <<alive, cwd, been, heir>>
    BY <1>2 DEF AfterGet, Waits
  <2>2. CASE Prompt(p) /\ UNCHANGED call
    BY <1>h, <2>1, <2>2, PromptGoes
  <2>3. CASE Call(p, "push", "push", Text[cwd[p]]) /\ UNCHANGED job
    <3>1. Text[cwd[p]] \in Seq(Word) \union {NoArgs}
      BY <1>t, WordsOf DEF Typed
    <3>2. "push" \in CommandName /\ "push" \notin Needy
          /\ "push" \in Step \ {"prompt", "unregister"}
      BY DEF CommandName, Needy, Step
    <3>3. job' \in [Pid -> Doing]
      BY <1>t, <2>3 DEF Typed
    <3> QED BY <1>h, <2>1, <2>3, <3>1, <3>2, <3>3, CallMoves
  <2> QED BY <1>2, <2>2, <2>3 DEF AfterGet
<1>3. CASE AfterPush(p, out) \/ AfterPop(p, out)
  <2>1. p \in alive /\ step[p] # "unregister" /\ UNCHANGED <<alive, heir>>
    BY <1>3 DEF AfterPush, AfterPop, Waits
  <2>2. CASE Prompt(p) /\ UNCHANGED <<call, cwd, been>>
    BY <1>h, <2>1, <2>2, PromptGoes
  <2>3. CASE \E d, left, lost : Cd(p, d, left, lost)
    BY <1>h, <2>1, <2>3, CdGoes
  <2> QED BY <1>3, <2>2, <2>3 DEF AfterPush, AfterPop
<1>4. CASE AfterReset(p, out) \/ AfterOther(p, out)
  <2>1. p \in alive /\ step[p] = "ask" /\ Prompt(p)
        /\ UNCHANGED <<alive, call, cwd, been, heir>>
    BY <1>4 DEF AfterReset, AfterOther, Waits
  <2> QED BY <1>h, <2>1, PromptGoes
<1>5. CASE AfterUnregister(p, out)
  <2>1. Typed'
    BY <1>t, <1>5 DEF AfterUnregister, Gone, Prompt, Doing, Step, Typed
  <2>2. Parting(p)
    BY <1>h, <1>5 DEF AfterUnregister, Waits, Parting
  <2>3. heir'[p] = (heir[p] \/ ~Parting(p))
    BY <1>t, <1>5, <2>2 DEF AfterUnregister, Typed
  <2>4. Ends(p)
    BY <1>t, <1>h, <1>5, <2>3
       DEF AfterUnregister, Waits, Gone, Prompt, Silence, daemon, memory, Ends,
           Apart, Typed
  <2> QED BY <2>1, <2>4 DEF ShellMoves
<1> QED BY <1>1, <1>2, <1>3, <1>4, <1>5 DEF Hear, Proceed

(* Every step is one shell's, a handler's, the end of the daemon, or one   *)
(* of its other steps.                                                     *)
DaemonEnds ==
  /\ phase' # "serving" /\ queue' = <<>> /\ shells' = {}
  /\ actions' = EmptyStacks
  /\ \/ ending' = "signal"
     \/ /\ queue # <<>> /\ Head(queue).cmd \in Needy
        /\ Head(queue).args = NoArgs
  /\ call' \in [Pid -> Hands]
  /\ \A p \in Pid : call'[p] \in {call[p], <<>>}
  /\ heir' = [p \in Pid |-> heir[p] /\ p \notin alive /\ call'[p] # <<>>]
  /\ UNCHANGED <<shell, been>>

DaemonHandles ==
  /\ queue # <<>>
  /\ LET r == Head(queue) IN Handles(r.from, r.cmd, r.args)
  /\ queue' = Tail(queue)
  /\ UNCHANGED <<shell, call, been, heir>>

DaemonStays ==
  /\ phase' # "serving" => phase # "serving"
  /\ UNCHANGED <<queue, shells, actions, ending, shell, call, been, heir>>

LEMMA EndedCalls ==
  ASSUME Sound, Ended
  PROVE  call' \in [Pid -> Hands] /\ \A p \in Pid : call'[p] \in {call[p], <<>>}
<1>1. PICK C : call' = [p \in Pid |-> IF p \in C THEN <<>> ELSE call[p]]
  BY DEF Ended
<1>2. call \in [Pid -> Hands] /\ <<>> \in Hands
  BY DEF Sound, Typed, Hands
<1> QED BY <1>1, <1>2

LEMMA Moves ==
  ASSUME Sound, [SessionNext]_all
  PROVE  \/ \E p \in Pid : ShellMoves(p)
         \/ DaemonEnds \/ DaemonHandles \/ DaemonStays
<1>1. ASSUME NEW p \in Pid,
             User(p) \/ Client(p) \/ FindsPathTaken(p) \/ Interrupt(p) \/ Kill(p)
      PROVE  ShellMoves(p)
  BY <1>1, UserMoves, HearMoves, WaitMoves, ClientMoves, KillMoves DEF Client
<1>2. CASE Answer
  <2>1. PICK r \in Request : r = Head(queue)
    BY <1>2, Taken DEF Answer, Sound
  <2>2. /\ r.from \in Pid /\ r.cmd \in CommandName
        /\ r.args \in Seq(Word) \union {NoArgs}
    BY RequestFields
  <2>3. CASE Dispatch(r.from, r.cmd, r.args) /\ queue' = Tail(queue)
             /\ UNCHANGED <<shell, call, history>>
    <3>1. Handles(r.from, r.cmd, r.args)
      BY <2>2, <2>3, DispatchHandles
    <3> QED BY <1>2, <2>1, <2>3, <3>1 DEF Answer, DaemonHandles, history
  <2>4. CASE r.cmd \in Needy /\ NullArgs(r.from, r.args) /\ Ended
    <3>1. call' \in [Pid -> Hands]
          /\ \A p \in Pid : call'[p] \in {call[p], <<>>}
      BY <2>4, EndedCalls
    <3>2. phase' # "serving" /\ shells' = {} /\ actions' = EmptyStacks
          /\ r.args = NoArgs
      BY <2>4 DEF NullArgs, LoseMemory
    <3> QED BY <1>2, <2>1, <2>4, <3>1, <3>2 DEF Answer, Ended, DaemonEnds
  <2> QED BY <1>2, <2>1, <2>3, <2>4 DEF Answer
<1>3. CASE Stop
  <2>1. call' \in [Pid -> Hands]
        /\ \A p \in Pid : call'[p] \in {call[p], <<>>}
    BY <1>3, EndedCalls DEF Stop
  <2> QED BY <1>3, <2>1 DEF Stop, Terminate, LoseMemory, Ended, DaemonEnds
<1>4. CASE Background
  BY <1>4 DEF Background, Start, ReadLine, Serve, FsChange, memory, history,
              DaemonStays
<1>5. CASE UNCHANGED all
  BY <1>5 DEF all, vars, history, DaemonStays
<1> QED BY <1>1, <1>2, <1>3, <1>4, <1>5 DEF SessionNext

LEMMA SoundInit == SessionInit => Sound
<1> SUFFICES ASSUME SessionInit PROVE Sound
  OBVIOUS
<1>1. <<>> \in Seq(Request) /\ Len(<<>>) = 0 /\ <<>> \in Seq(Word)
  OBVIOUS
<1>2. Typed
  BY DEF SessionInit, Typed, Step, Doing, Hands
<1> QED BY <1>1, <1>2 DEF SessionInit, Init, EmptyStacks, Sound,
                         StacksOfRegisteredOnly

LEMMA SoundStep == Sound /\ [SessionNext]_all => Sound'
<1> SUFFICES ASSUME Sound, [SessionNext]_all PROVE Sound'
  OBVIOUS
<1>1. ASSUME NEW p \in Pid, ShellMoves(p) PROVE Sound'
  <2>1. Typed' /\ Apart(p)
    BY <1>1 DEF ShellMoves, Opens, Goes, Sends, Drops, Ends, Starts
  <2>2. CASE queue' = queue
    BY <2>1, <2>2 DEF Apart, Sound, StacksOfRegisteredOnly
  <2>3. CASE Sends(p)
    <3>1. call[p] \in Hands /\ call[p] # <<>>
      BY <2>3 DEF Sends, Sound, Typed
    <3>2. queue' \in Seq(Request)
      BY <2>3, <3>1, InHand, Appended DEF Sends, Sound
    <3> QED BY <2>1, <2>3, <3>2 DEF Sends, Apart, Sound, StacksOfRegisteredOnly
  <2> QED BY <1>1, <2>2, <2>3
          DEF ShellMoves, Opens, Goes, Drops, Ends, Starts
<1>2. CASE DaemonEnds
  <2>1. <<>> \in Seq(Request) /\ Len(<<>>) = 0 /\ <<>> \in Seq(Word)
    OBVIOUS
  <2>2. Typed'
    <3>1. heir' \in [Pid -> BOOLEAN]
      BY <1>2 DEF DaemonEnds
    <3>2. \A p \in Pid : call'[p] # <<>> => call'[p][1].from = p
      BY <1>2 DEF DaemonEnds, Sound, Typed
    <3> QED BY <1>2, <3>1, <3>2 DEF DaemonEnds, shell, Sound, Typed
  <2> QED BY <1>2, <2>1, <2>2 DEF DaemonEnds, EmptyStacks, Sound,
                                 StacksOfRegisteredOnly
<1>3. CASE DaemonHandles
  <2>1. PICK r \in Request : r = Head(queue) /\ Handles(r.from, r.cmd, r.args)
    BY <1>3, Taken DEF DaemonHandles, Sound
  <2>2. queue' \in Seq(Request)
    BY <1>3, Taken DEF DaemonHandles, Sound
  <2>3. StacksOfRegisteredOnly'
    BY <2>1 DEF Handles, Sound, StacksOfRegisteredOnly
  <2>4. Typed'
    BY <1>3 DEF DaemonHandles, shell, Sound, Typed
  <2> QED BY <2>1, <2>2, <2>3, <2>4 DEF Handles, Sound
<1>4. CASE DaemonStays
  BY <1>4 DEF DaemonStays, shell, Sound, Typed, StacksOfRegisteredOnly
<1> QED BY <1>1, <1>2, <1>3, <1>4, Moves

LEMMA SoundAlways == SessionSpec => []Sound
BY SoundInit, SoundStep, PTL DEF SessionSpec

(* A shell is not at its prompt while its client has a request to send.    *)
InStep == \A p \in alive : call[p] # <<>> => step[p] # "prompt"

LEMMA InStepAlways == SessionSpec => []InStep
<1>1. SessionInit => InStep
  BY DEF SessionInit, InStep
<1>2. Sound /\ InStep /\ [SessionNext]_all => InStep'
  <2> SUFFICES ASSUME Sound, InStep, [SessionNext]_all PROVE InStep'
    OBVIOUS
  <2>1. ASSUME NEW p \in Pid, ShellMoves(p) PROVE InStep'
    <3> SUFFICES ASSUME NEW q \in alive', call'[q] # <<>>
                 PROVE  step'[q] # "prompt"
      BY DEF InStep
    <3>1. q \in Pid
      BY <2>1 DEF ShellMoves, Typed
    <3>2. CASE q # p
      BY <2>1, <3>1, <3>2
         DEF ShellMoves, Opens, Goes, Sends, Drops, Ends, Starts, Apart, InStep
    <3>3. CASE q = p
      BY <2>1, <3>3
         DEF ShellMoves, Opens, Goes, Sends, Drops, Ends, Starts, InStep
    <3> QED BY <3>2, <3>3
  <2>2. CASE DaemonEnds
    BY <2>2 DEF DaemonEnds, shell, InStep, Sound, Typed
  <2>3. CASE DaemonHandles \/ DaemonStays
    BY <2>3 DEF DaemonHandles, DaemonStays, shell, InStep
  <2> QED BY <2>1, <2>2, <2>3, Moves
<1> QED BY <1>1, <1>2, SoundAlways, PTL DEF SessionSpec
-----------------------------------------------------------------------------
(* What is asked of the daemon.                                            *)

Dashed == \E j \in Job : DashesAlone(j)
Provided(r) == r.cmd \in Needy => r.args # NoArgs

(* NavNeverCrashes is not inductive: what is to end the daemon waits in    *)
(* its queue first, and before that in a client's hands.                   *)
Served ==
  \/ Dashed
  \/ /\ ending # "crash"
     /\ \A i \in 1..Len(queue) : Provided(queue[i])
     /\ \A p \in Pid : call[p] # <<>> => Provided(call[p][1])

LEMMA ServedStep == Sound /\ Served /\ [SessionNext]_all => Served'
<1> SUFFICES ASSUME Sound, Served, ~Dashed, [SessionNext]_all PROVE Served'
  BY DEF Served, Dashed, DashesAlone
<1>s. /\ ending # "crash"
      /\ \A i \in 1..Len(queue) : Provided(queue[i])
      /\ \A p \in Pid : call[p] # <<>> => Provided(call[p][1])
  BY DEF Served
<1>1. ASSUME NEW p \in Pid, ShellMoves(p) PROVE Served'
  <2>1. /\ ending' # "crash"
        /\ \A q \in Pid \ {p} : call'[q] = call[q]
    BY <1>1, <1>s
       DEF ShellMoves, Opens, Goes, Sends, Drops, Ends, Starts, Apart
  <2>2. call'[p] # <<>> => Provided(call'[p][1])
    <3>1. CASE call'[p] \in {call[p], <<>>}
      BY <1>s, <3>1
    <3>2. ASSUME NEW cmd \in CommandName,
                 NEW args \in Seq(Word) \union {NoArgs}, Starts(p, cmd, args)
          PROVE  Provided(call'[p][1])
      BY <3>2 DEF Starts, Dashed, Provided
    <3> QED BY <1>1, <3>1, <3>2
            DEF ShellMoves, Opens, Goes, Sends, Drops, Ends
  <2>3. \A q \in Pid : call'[q] # <<>> => Provided(call'[q][1])
    BY <1>s, <2>1, <2>2
  <2>4. CASE queue' = queue
    BY <1>s, <2>1, <2>3, <2>4 DEF Served, Provided
  <2>5. CASE Sends(p)
    <3>1. call[p] \in Hands /\ call[p] # <<>>
      BY <2>5 DEF Sends, Sound, Typed
    <3>2. PICK r \in Request : r = call[p][1]
      BY <3>1, InHand
    <3>3. /\ Len(queue') = Len(queue) + 1 /\ Len(queue) \in Nat
          /\ \A i \in 1..Len(queue) : queue'[i] = queue[i]
          /\ queue'[Len(queue) + 1] = r
      BY <2>5, <3>2, Appended DEF Sends, Sound
    <3>4. Provided(r)
      BY <1>s, <3>1, <3>2
    <3>5. ASSUME NEW i \in 1..Len(queue') PROVE Provided(queue'[i])
      <4>1. CASE i = Len(queue) + 1
        BY <3>3, <3>4, <4>1
      <4>2. CASE i # Len(queue) + 1
        <5>1. i \in 1..Len(queue)
          BY <3>3, <4>2
        <5> QED BY <1>s, <3>3, <5>1
      <4> QED BY <4>1, <4>2
    <3> QED BY <2>1, <2>3, <3>5 DEF Served, Provided
  <2> QED BY <1>1, <2>4, <2>5 DEF ShellMoves, Opens, Goes, Drops, Ends, Starts
<1>2. CASE DaemonEnds
  <2>1. ending' = "signal"
    <3> SUFFICES ASSUME queue # <<>>, ~Provided(Head(queue)) PROVE FALSE
      BY <1>2 DEF DaemonEnds, Provided
    <3>1. Head(queue) = queue[1] /\ 1 \in 1..Len(queue)
      BY Taken DEF Sound
    <3> QED BY <1>s, <3>1
  <2>2. \A p \in Pid : call'[p] # <<>> => Provided(call'[p][1])
    BY <1>s, <1>2 DEF DaemonEnds
  <2> QED BY <1>2, <2>1, <2>2 DEF DaemonEnds, Served, Provided
<1>3. CASE DaemonHandles
  <2>1. ending' = ending
    BY <1>3 DEF DaemonHandles, Handles
  <2>2. /\ Len(queue) \in Nat /\ Len(queue') = Len(queue) - 1
        /\ \A i \in 1..Len(queue') : queue'[i] = queue[i+1]
    BY <1>3, Taken DEF DaemonHandles, Sound
  <2>3. ASSUME NEW i \in 1..Len(queue') PROVE Provided(queue'[i])
    <3>1. i + 1 \in 1..Len(queue) /\ queue'[i] = queue[i+1]
      BY <2>2
    <3> QED BY <1>s, <3>1
  <2> QED BY <1>s, <1>3, <2>1, <2>3 DEF DaemonHandles, Served, Provided
<1>4. CASE DaemonStays
  BY <1>s, <1>4 DEF DaemonStays, Served, Provided
<1> QED BY <1>1, <1>2, <1>3, <1>4, Moves

(* Whatever is typed, interrupted, late or killed, no request of nav ends  *)
(* the daemon, unless the user may type -- alone as a tag or as what to    *)
(* delete.                                                                 *)
THEOREM NavIsNeverTheCrash == SessionSpec => []NavNeverCrashes
<1>1. SessionInit => Served
  BY DEF SessionInit, Init, Served
<1>2. Served => NavNeverCrashes
  BY DEF Served, Dashed, NavNeverCrashes
<1> QED BY <1>1, <1>2, ServedStep, SoundAlways, PTL DEF SessionSpec
-----------------------------------------------------------------------------
(* Leaving.                                                                *)

(* The shell's latest request is its unregister.                           *)
FarewellAt(p, i) ==
  /\ queue[i].from = p /\ queue[i].cmd = "unregister"
  /\ \A j \in (i+1)..Len(queue) : queue[j].from # p

Settled(p) ==
  \/ \E i \in 1..Len(queue) : FarewellAt(p, i)
  \/ ~Pending(p) /\ p \notin shells

(* NothingLeftBehind is not inductive: a shell that has left may still     *)
(* have requests in the queue, of which the last must be its unregister,   *)
(* and that is settled, or the shell is known to part without a farewell,  *)
(* while it still waits for its client.  A client that goes on after its   *)
(* shell was killed has one to answer for.                                 *)
LeavingOf(p) ==
  /\ p \notin alive =>
       /\ step[p] = "prompt"
       /\ heir[p] \/ (Settled(p) /\ call[p] = <<>>)
  /\ step[p] = "unregister" =>
       IF call[p] = <<>> THEN heir[p] \/ Settled(p) ELSE Farewell(p)
Leaving == \A p \in Pid : LeavingOf(p)

LEMMA SettledSame ==
  ASSUME UNCHANGED <<queue, shells>>, NEW p, Settled(p) PROVE Settled(p)'
BY DEF Settled, FarewellAt, Pending

(* Another shell's request behind them changes nothing; one's own          *)
(* unregister settles.                                                     *)
LEMMA SettledAppend ==
  ASSUME Sound, UNCHANGED shells, NEW r \in Request, queue' = Append(queue, r),
         NEW p, IF r.from = p THEN r.cmd = "unregister" ELSE Settled(p)
  PROVE  Settled(p)'
<1>1. /\ Len(queue') = Len(queue) + 1 /\ Len(queue) \in Nat
      /\ \A i \in 1..Len(queue) : queue'[i] = queue[i]
      /\ queue'[Len(queue) + 1] = r
  BY Appended DEF Sound
<1>2. CASE r.from = p
  <2>0. PICK k \in Nat : k = Len(queue) + 1
    BY <1>1
  <2>1. FarewellAt(p, k)'
    BY <1>1, <1>2, <2>0 DEF FarewellAt
  <2>2. k \in 1..Len(queue')
    BY <1>1, <2>0
  <2>3. \E i \in 1..Len(queue') : FarewellAt(p, i)'
    BY <2>1, <2>2
  <2> QED BY <2>3 DEF Settled
<1>3. ASSUME r.from # p, NEW i \in 1..Len(queue), FarewellAt(p, i)
      PROVE  Settled(p)'
  <2>1. i \in 1..Len(queue') /\ queue'[i] = queue[i]
    BY <1>1
  <2>2. \A j \in (i+1)..Len(queue') : queue'[j].from # p
    <3> SUFFICES ASSUME NEW j \in (i+1)..Len(queue') PROVE queue'[j].from # p
      OBVIOUS
    <3>1. CASE j = Len(queue) + 1
      BY <1>1, <1>3, <3>1
    <3>2. CASE j # Len(queue) + 1
      <4>1. j \in (i+1)..Len(queue) /\ j \in 1..Len(queue)
        BY <1>1, <3>2
      <4> QED BY <1>1, <1>3, <4>1 DEF FarewellAt
    <3> QED BY <3>1, <3>2
  <2>3. FarewellAt(p, i)'
    BY <1>3, <2>1, <2>2 DEF FarewellAt
  <2> QED BY <2>1, <2>3 DEF Settled
<1>4. CASE r.from # p /\ ~Pending(p) /\ p \notin shells
  <2>1. ~Pending(p)'
    <3> SUFFICES ASSUME NEW i \in 1..Len(queue') PROVE queue'[i].from # p
      BY DEF Pending
    <3>1. CASE i = Len(queue) + 1
      BY <1>1, <1>4, <3>1
    <3>2. CASE i # Len(queue) + 1
      <4>1. i \in 1..Len(queue)
        BY <1>1, <3>2
      <4> QED BY <1>1, <1>4, <4>1 DEF Pending
    <3> QED BY <3>1, <3>2
  <2> QED BY <1>4, <2>1 DEF Settled
<1> QED BY <1>2, <1>3, <1>4 DEF Settled

(* The handler of the first request.                                       *)
LEMMA SettledHandles ==
  ASSUME Sound, DaemonHandles, NEW p \in Pid, Settled(p) PROVE Settled(p)'
<1>1. PICK r \in Request : r = queue[1] /\ Handles(r.from, r.cmd, r.args)
  BY Taken DEF DaemonHandles, Sound
<1>2. /\ Len(queue) \in Nat /\ Len(queue) >= 1
      /\ Len(queue') = Len(queue) - 1
      /\ \A i \in 1..Len(queue') : queue'[i] = queue[i+1]
  BY Taken DEF DaemonHandles, Sound
<1>3. ASSUME NEW i \in 1..Len(queue), FarewellAt(p, i), i > 1
      PROVE  Settled(p)'
  <2>1. i - 1 \in 1..Len(queue') /\ queue'[i - 1] = queue[i]
    BY <1>2, <1>3
  <2>2. \A j \in ((i-1)+1)..Len(queue') : queue'[j].from # p
    <3> SUFFICES ASSUME NEW j \in ((i-1)+1)..Len(queue')
                 PROVE  queue'[j].from # p
      OBVIOUS
    <3>1. j + 1 \in (i+1)..Len(queue) /\ queue'[j] = queue[j+1]
      BY <1>2
    <3> QED BY <1>3, <3>1 DEF FarewellAt
  <2>3. FarewellAt(p, i - 1)'
    BY <1>3, <2>1, <2>2 DEF FarewellAt
  <2>4. \E k \in 1..Len(queue') : FarewellAt(p, k)'
    BY <2>1, <2>3
  <2> QED BY <2>4 DEF Settled
<1>4. CASE \A i \in 2..Len(queue) : queue[i].from # p
  <2>1. ~Pending(p)'
    <3> SUFFICES ASSUME NEW i \in 1..Len(queue') PROVE queue'[i].from # p
      BY DEF Pending
    <3>1. i + 1 \in 2..Len(queue) /\ queue'[i] = queue[i+1]
      BY <1>2
    <3> QED BY <1>4, <3>1
  <2>2. CASE FarewellAt(p, 1)
    <3>1. p \notin shells'
      BY <1>1, <2>2 DEF FarewellAt, Handles
    <3> QED BY <2>1, <3>1 DEF Settled
  <2>3. CASE ~Pending(p) /\ p \notin shells
    <3>1. 1 \in 1..Len(queue)
      BY <1>2
    <3>2. r.from # p
      BY <1>1, <2>3, <3>1 DEF Pending
    <3>3. p \notin shells'
      BY <1>1, <2>3, <3>2 DEF Handles
    <3> QED BY <2>1, <3>3 DEF Settled
  <2>4. ASSUME NEW i \in 1..Len(queue), FarewellAt(p, i) PROVE i = 1
    BY <1>2, <1>4, <2>4 DEF FarewellAt
  <2> QED BY <2>2, <2>3, <2>4 DEF Settled
<1>5. CASE FarewellAt(p, 1)
  <2>1. \A i \in 2..Len(queue) : queue[i].from # p
    BY <1>5 DEF FarewellAt
  <2> QED BY <1>4, <2>1
<1>6. CASE ~Pending(p)
  <2>1. \A i \in 2..Len(queue) : queue[i].from # p
    BY <1>2, <1>6 DEF Pending
  <2> QED BY <1>4, <2>1
<1> QED BY <1>2, <1>3, <1>5, <1>6 DEF Settled

LEMMA SettledEmpty ==
  ASSUME queue' = <<>>, shells' = {}, NEW p PROVE Settled(p)'
BY DEF Settled, Pending

LEMMA LeavingStep == Sound /\ Leaving /\ [SessionNext]_all => Leaving'
<1> SUFFICES ASSUME Sound, Leaving, [SessionNext]_all PROVE Leaving'
  OBVIOUS
<1>1. ASSUME NEW p \in Pid, ShellMoves(p) PROVE Leaving'
  <2>1. /\ Apart(p) /\ shells' = shells
        /\ \A q \in Pid \ {p} :
             /\ q \in alive' <=> q \in alive
             /\ step'[q] = step[q] /\ heir'[q] = heir[q] /\ call'[q] = call[q]
    BY <1>1 DEF ShellMoves, Opens, Goes, Sends, Drops, Ends, Starts, Apart
  <2>2. ASSUME NEW q \in Pid \ {p}, Settled(q) PROVE Settled(q)'
    <3>1. CASE queue' = queue
      BY <2>1, <2>2, <3>1, SettledSame
    <3>2. CASE Sends(p)
      <4>1. call[p] \in Hands /\ call[p] # <<>> /\ call[p][1].from = p
        BY <3>2 DEF Sends, Sound, Typed
      <4>2. PICK r \in Request : r = call[p][1]
        BY <4>1, InHand
      <4> QED BY <2>1, <2>2, <3>2, <4>1, <4>2, SettledAppend DEF Sends
    <3> QED BY <1>1, <3>1, <3>2
            DEF ShellMoves, Opens, Goes, Drops, Ends, Starts
  <2>3. ASSUME NEW q \in Pid \ {p}, LeavingOf(q) PROVE LeavingOf(q)'
    BY <2>1, <2>2, <2>3 DEF LeavingOf, Farewell
  <2>4. LeavingOf(p)
    BY DEF Leaving
  <2>5. queue' = queue /\ Settled(p) => Settled(p)'
    BY <2>1, SettledSame
  <2>6. LeavingOf(p)'
    <3>1. CASE Opens(p)
      <4>1. step'[p] = "prompt" /\ p \in alive'
        BY <2>4, <3>1 DEF Opens, LeavingOf
      <4> QED BY <4>1 DEF LeavingOf
    <3>2. CASE Goes(p)
      BY <2>4, <2>5, <3>2 DEF Goes, LeavingOf, Farewell
    <3>3. CASE Sends(p)
      <4>1. call[p] \in Hands /\ call[p] # <<>> /\ call[p][1].from = p
        BY <3>3 DEF Sends, Sound, Typed
      <4>2. PICK r \in Request : r = call[p][1]
        BY <4>1, InHand
      <4>3. Farewell(p) => Settled(p)'
        BY <2>1, <3>3, <4>1, <4>2, SettledAppend DEF Sends, Farewell
      <4> QED BY <2>4, <3>3, <4>3 DEF Sends, LeavingOf, Farewell
    <3>4. CASE Drops(p)
      <4>1. CASE phase # "serving"
        <5>1. queue' = <<>> /\ shells' = {}
          BY <2>1, <3>4, <4>1 DEF Drops, Sound
        <5>2. Settled(p)'
          BY <5>1, SettledEmpty
        <5> QED BY <2>4, <3>4, <5>2 DEF Drops, LeavingOf
      <4>2. CASE heir'[p] = (heir[p] \/ Farewell(p))
        BY <2>4, <2>5, <3>4, <4>2 DEF Drops, LeavingOf, Farewell
      <4> QED BY <3>4, <4>1, <4>2 DEF Drops
    <3>5. CASE Ends(p)
      BY <2>4, <2>5, <3>5 DEF Ends, Parting, Waits, LeavingOf, Farewell
    <3>6. ASSUME NEW cmd \in CommandName,
                 NEW args \in Seq(Word) \union {NoArgs}, Starts(p, cmd, args)
          PROVE  LeavingOf(p)'
      BY <3>6 DEF Starts, LeavingOf, Farewell
    <3> QED BY <1>1, <3>1, <3>2, <3>3, <3>4, <3>5, <3>6 DEF ShellMoves
  <2> QED BY <2>3, <2>6 DEF Leaving
<1>2. CASE DaemonEnds
  <2> SUFFICES ASSUME NEW p \in Pid PROVE LeavingOf(p)'
    BY DEF Leaving
  <2>1. Settled(p)'
    BY <1>2, SettledEmpty DEF DaemonEnds
  <2>2. /\ UNCHANGED <<alive, step>> /\ call'[p] \in {call[p], <<>>}
        /\ heir'[p] = (heir[p] /\ p \notin alive /\ call'[p] # <<>>)
    BY <1>2 DEF DaemonEnds, shell
  <2>3. LeavingOf(p)
    BY DEF Leaving
  <2> QED BY <2>1, <2>2, <2>3 DEF LeavingOf, Farewell
<1>3. CASE DaemonHandles
  <2>1. \A p \in Pid : Settled(p) => Settled(p)'
    BY <1>3, SettledHandles
  <2> QED BY <1>3, <2>1 DEF DaemonHandles, shell, Leaving, LeavingOf, Farewell
<1>4. CASE DaemonStays
  <2>1. \A p : Settled(p) => Settled(p)'
    BY <1>4, SettledSame DEF DaemonStays
  <2> QED BY <1>4, <2>1 DEF DaemonStays, shell, Leaving, LeavingOf, Farewell
<1> QED BY <1>1, <1>2, <1>3, <1>4, Moves

LEMMA LeavingAlways == SessionSpec => []Leaving
<1>1. SessionInit => Leaving
  <2> SUFFICES ASSUME SessionInit, NEW p \in Pid PROVE LeavingOf(p)
    BY DEF Leaving
  <2>1. /\ queue = <<>> /\ shells = {} /\ alive = {} /\ step[p] = "prompt"
        /\ call[p] = <<>>
    BY DEF SessionInit, Init
  <2> QED BY <2>1 DEF LeavingOf, Settled, Pending
<1> QED BY <1>1, LeavingStep, SoundAlways, PTL DEF SessionSpec

(* A shell that has left, whatever answers it missed, leaves neither a     *)
(* session nor a stack once its requests have been read, unless it could   *)
(* not say farewell.                                                       *)
THEOREM LeavingLeavesNothing == SessionSpec => []NothingLeftBehind
<1>1. Sound /\ Leaving => NothingLeftBehind
  <2> SUFFICES ASSUME Sound, Leaving, NEW p \in Pid \ alive,
                      ~heir[p], ~Pending(p)
               PROVE  p \notin shells /\ actions[p] = <<>>
    BY DEF NothingLeftBehind
  <2>1. p \notin shells
    BY DEF Leaving, LeavingOf, Settled, FarewellAt, Pending
  <2> QED BY <2>1 DEF Sound, StacksOfRegisteredOnly
<1> QED BY <1>1, LeavingAlways, SoundAlways, PTL
-----------------------------------------------------------------------------
(* Whose stack it is.                                                      *)

(* What CameFrom asks for.                                                 *)
Names(p) == been[p] \union {Text[d][1] : d \in been[p] \ Path}

OwnStack(p) == \A k \in 1..Len(actions[p]) : actions[p][k] \in Names(p)

(* The pushes behind the first i requests are of where the shell has been. *)
Pushes(r, p) == r.from = p /\ r.cmd = "push" /\ r.args \in Seq(Word) \ {<<>>}
OwnFrom(p, i) ==
  \A j \in (i+1)..Len(queue) :
    Pushes(queue[j], p) => queue[j].args[1] \in Names(p)
OwnCall(p) ==
  call[p] # <<>> /\ Pushes(call[p][1], p) => call[p][1].args[1] \in Names(p)

(* StackIsMine is not inductive: what a client holds or is still in the    *)
(* queue will be on the stack, and an unregister in the queue, the farewell of the shell that   *)
(* had the pid before, will empty the stack first.                         *)
Mine(p) ==
  \/ OwnStack(p) /\ OwnFrom(p, 0)
  \/ \E i \in 1..Len(queue) :
       queue[i].from = p /\ queue[i].cmd = "unregister" /\ OwnFrom(p, i)

Owned ==
  \A p \in alive :
    cwd[p] \in been[p] /\ OwnCall(p) /\ (heir[p] \/ Mine(p))

LEMMA MoreNames ==
  ASSUME NEW p, been[p] \subseteq been'[p] PROVE Names(p) \subseteq Names(p)'
BY DEF Names

LEMMA NameOf ==
  ASSUME NEW p, NEW d \in Dir, d \in been[p] PROVE Text[d][1] \in Names(p)
BY WordsOf DEF Names

LEMMA MineGrows ==
  ASSUME UNCHANGED queue, NEW p, actions'[p] = actions[p],
         been[p] \subseteq been'[p], Mine(p)
  PROVE  Mine(p)'
BY MoreNames DEF Mine, OwnStack, OwnFrom, Pushes

LEMMA MineAppend ==
  ASSUME Sound, NEW r \in Request, queue' = Append(queue, r), NEW p,
         actions'[p] = actions[p], been'[p] = been[p],
         Pushes(r, p) => r.args[1] \in Names(p),
         Mine(p)
  PROVE  Mine(p)'
<1>1. /\ Len(queue') = Len(queue) + 1 /\ Len(queue) \in Nat
      /\ \A i \in 1..Len(queue) : queue'[i] = queue[i]
      /\ queue'[Len(queue) + 1] = r
  BY Appended DEF Sound
<1>2. ASSUME NEW i \in 0..Len(queue), OwnFrom(p, i) PROVE OwnFrom(p, i)'
  <2> SUFFICES ASSUME NEW j \in (i+1)..Len(queue'), Pushes(queue'[j], p)
               PROVE  queue'[j].args[1] \in Names(p)
    BY DEF OwnFrom, Pushes, Names
  <2>1. CASE j = Len(queue) + 1
    BY <1>1, <2>1
  <2>2. CASE j # Len(queue) + 1
    <3>1. j \in (i+1)..Len(queue) /\ queue'[j] = queue[j]
      BY <1>1, <2>2
    <3> QED BY <1>2, <3>1 DEF OwnFrom
  <2> QED BY <2>1, <2>2
<1>3. CASE OwnStack(p) /\ OwnFrom(p, 0)
  <2>1. OwnStack(p)'
    BY <1>3 DEF OwnStack, Names
  <2>2. OwnFrom(p, 0)'
    BY <1>1, <1>2, <1>3
  <2> QED BY <2>1, <2>2 DEF Mine
<1>4. ASSUME NEW i \in 1..Len(queue), queue[i].from = p,
             queue[i].cmd = "unregister", OwnFrom(p, i)
      PROVE  Mine(p)'
  <2>1. OwnFrom(p, i)'
    BY <1>1, <1>2, <1>4
  <2>2. i \in 1..Len(queue') /\ queue'[i] = queue[i]
    BY <1>1
  <2> QED BY <1>4, <2>1, <2>2 DEF Mine
<1> QED BY <1>3, <1>4 DEF Mine

LEMMA PushedStack ==
  ASSUME NEW d \in Word, NEW t \in Seq(Word), NEW S,
         d \in S, \A k \in 1..Len(t) : t[k] \in S
  PROVE  \A k \in 1..Len(<<d>> \o t) : (<<d>> \o t)[k] \in S
<1>1. <<d>> \in Seq(Word) /\ Len(<<d>>) = 1 /\ <<d>>[1] = d /\ Len(t) \in Nat
  BY LenProperties
<1>2. /\ Len(<<d>> \o t) = 1 + Len(t)
      /\ \A k \in 1..(1 + Len(t)) :
           (<<d>> \o t)[k] = IF k <= 1 THEN d ELSE t[k - 1]
  BY <1>1, ConcatProperties
<1>3. \A k \in 1..(1 + Len(t)) : k > 1 => k - 1 \in 1..Len(t)
  BY <1>1
<1> QED BY <1>1, <1>2, <1>3

LEMMA MineHandles ==
  ASSUME Sound, DaemonHandles, NEW p \in Pid, Mine(p) PROVE Mine(p)'
<1>1. PICK r \in Request : r = queue[1] /\ Handles(r.from, r.cmd, r.args)
  BY Taken DEF DaemonHandles, Sound
<1>2. /\ Len(queue) \in Nat /\ Len(queue) >= 1
      /\ Len(queue') = Len(queue) - 1
      /\ \A i \in 1..Len(queue') : queue'[i] = queue[i+1]
      /\ been' = been
  BY Taken DEF DaemonHandles, Sound
<1>3. ASSUME NEW i \in 1..Len(queue), OwnFrom(p, i), NEW m \in Nat, m = i - 1
      PROVE  OwnFrom(p, m)'
  <2> SUFFICES ASSUME NEW j \in (m+1)..Len(queue'), Pushes(queue'[j], p)
               PROVE  queue'[j].args[1] \in Names(p)
    BY <1>2 DEF OwnFrom, Pushes, Names
  <2>1. j + 1 \in (i+1)..Len(queue) /\ queue'[j] = queue[j+1]
    BY <1>2, <1>3
  <2> QED BY <1>3, <2>1 DEF OwnFrom
<1>4. ASSUME NEW i \in 1..Len(queue), queue[i].from = p,
             queue[i].cmd = "unregister", OwnFrom(p, i), i > 1
      PROVE  Mine(p)'
  <2>1. PICK m \in Nat : m = i - 1
    BY <1>4
  <2>2. m \in 1..Len(queue') /\ queue'[m] = queue[i] /\ OwnFrom(p, m)'
    BY <1>2, <1>3, <1>4, <2>1
  <2> QED BY <1>4, <2>2 DEF Mine
<1>5. CASE queue[1].from = p /\ queue[1].cmd = "unregister" /\ OwnFrom(p, 1)
  <2>1. actions'[p] = <<>>
    BY <1>1, <1>5 DEF Handles
  <2>2. OwnStack(p)'
    BY <2>1 DEF OwnStack, Names
  <2>3. OwnFrom(p, 0)'
    BY <1>2, <1>3, <1>5
  <2> QED BY <2>2, <2>3 DEF Mine
<1>6. CASE OwnStack(p) /\ OwnFrom(p, 0)
  <2>1. OwnFrom(p, 1)
    BY <1>2, <1>6 DEF OwnFrom
  <2>2. OwnFrom(p, 0)'
    BY <1>2, <1>3, <2>1
  <2>3. actions[p] \in Seq(Word)
    BY DEF Sound
  <2>4. OwnStack(p)'
    <3>1. CASE actions'[p] \in {actions[p], <<>>}
      BY <1>2, <1>6, <3>1 DEF OwnStack, Names
    <3>2. CASE actions[p] # <<>> /\ actions'[p] = Tail(actions[p])
      <4>1. /\ Len(Tail(actions[p])) = Len(actions[p]) - 1
            /\ Len(actions[p]) \in Nat
            /\ \A k \in 1..Len(Tail(actions[p])) :
                 Tail(actions[p])[k] = actions[p][k+1]
        BY <2>3, <3>2, HeadTailProperties, LenProperties
      <4>2. \A k \in 1..Len(Tail(actions[p])) : k + 1 \in 1..Len(actions[p])
        BY <4>1
      <4> QED BY <1>2, <1>6, <3>2, <4>1, <4>2 DEF OwnStack, Names
    <3>3. CASE /\ r.from = p /\ r.cmd = "push" /\ r.args \in Seq(Word) \ {<<>>}
               /\ actions'[p] = <<r.args[1]>> \o actions[p]
      <4>1. r.args[1] \in Word
        BY <3>3, EmptySeq, ElementOfSeq
      <4>2. r.args[1] \in Names(p)
        <5>1. 1 \in (0+1)..Len(queue)
          BY <1>2
        <5> QED BY <1>1, <1>6, <3>3, <5>1 DEF OwnFrom, Pushes
      <4>3. \A k \in 1..Len(<<r.args[1]>> \o actions[p]) :
              (<<r.args[1]>> \o actions[p])[k] \in Names(p)
        BY <1>6, <2>3, <4>1, <4>2, PushedStack DEF OwnStack
      <4> QED BY <1>2, <3>3, <4>3 DEF OwnStack, Names
    <3> QED BY <1>1, <3>1, <3>2, <3>3 DEF Handles
  <2> QED BY <2>2, <2>4 DEF Mine
<1> QED BY <1>2, <1>4, <1>5, <1>6 DEF Mine

LEMMA OwnedStep == Sound /\ Leaving /\ Owned /\ [SessionNext]_all => Owned'
<1> SUFFICES ASSUME Sound, Leaving, Owned, [SessionNext]_all PROVE Owned'
  OBVIOUS
<1>a. alive \subseteq Pid
  BY DEF Sound, Typed
<1>1. ASSUME NEW p \in Pid, ShellMoves(p) PROVE Owned'
  <2>1. /\ Apart(p) /\ actions' = actions /\ Typed'
        /\ \A q \in Pid \ {p} :
             /\ q \in alive' <=> q \in alive
             /\ cwd'[q] = cwd[q] /\ been'[q] = been[q]
             /\ call'[q] = call[q] /\ heir'[q] = heir[q]
    BY <1>1 DEF ShellMoves, Opens, Goes, Sends, Drops, Ends, Starts, Apart
  <2>2. ASSUME NEW q \in Pid \ {p}, OwnCall(q) PROVE OwnCall(q)'
    BY <2>1, <2>2 DEF OwnCall, Pushes, Names
  <2>3. ASSUME queue' = queue
        PROVE  \A q \in Pid : been[q] \subseteq been'[q] /\ Mine(q) => Mine(q)'
    BY <2>1, <2>3, MineGrows
  <2>4. ASSUME queue' = queue,
               p \in alive' => /\ cwd'[p] \in been'[p] /\ OwnCall(p)'
                               /\ heir'[p] \/ Mine(p)'
        PROVE  Owned'
    <3> SUFFICES ASSUME NEW q \in alive', q # p
                 PROVE  /\ cwd'[q] \in been'[q] /\ OwnCall(q)'
                        /\ heir'[q] \/ Mine(q)'
      BY <2>4 DEF Owned
    <3>1. q \in Pid \ {p} /\ q \in alive
      BY <2>1 DEF Typed
    <3> QED BY <2>1, <2>2, <2>3, <2>4, <3>1 DEF Owned
  <2>5. CASE Opens(p)
    <3>1. heir[p] \/ Mine(p)'
      <4>1. CASE heir[p]
        BY <4>1
      <4>2. ASSUME NEW i \in 1..Len(queue), FarewellAt(p, i) PROVE Mine(p)'
        BY <2>5, <4>2 DEF Opens, FarewellAt, Mine, OwnFrom, Pushes
      <4>3. CASE ~Pending(p) /\ p \notin shells
        <5>1. actions'[p] = <<>>
          BY <2>1, <4>3 DEF Sound, StacksOfRegisteredOnly
        <5>2. OwnStack(p)'
          BY <5>1 DEF OwnStack
        <5>3. OwnFrom(p, 0)'
          BY <2>5, <4>3 DEF Opens, Pending, OwnFrom, Pushes
        <5> QED BY <5>2, <5>3 DEF Mine
      <4> QED BY <2>5, <4>1, <4>2, <4>3 DEF Opens, Leaving, LeavingOf, Settled
    <3>2. OwnCall(p)'
      BY <2>5 DEF Opens, OwnCall
    <3> QED BY <2>4, <2>5, <3>1, <3>2 DEF Opens
  <2>6. CASE Goes(p)
    <3>1. cwd[p] \in been[p] /\ OwnCall(p) /\ (heir[p] \/ Mine(p))
      BY <2>6 DEF Goes, Owned
    <3>2. been[p] \subseteq been'[p] /\ cwd'[p] \in been'[p]
      BY <2>6, <3>1 DEF Goes
    <3>3. OwnCall(p)'
      BY <2>6, <3>1, <3>2, MoreNames DEF Goes, OwnCall, Pushes
    <3> QED BY <2>3, <2>4, <2>6, <3>1, <3>2, <3>3 DEF Goes
  <2>7. CASE Ends(p)
    BY <2>4, <2>7 DEF Ends
  <2>8. CASE Drops(p)
    <3>1. OwnCall(p)' /\ queue' = queue /\ been' = been /\ cwd' = cwd
          /\ (p \in alive' => p \in alive)
      BY <2>8 DEF Drops, OwnCall
    <3>2. CASE heir'[p] = (heir[p] \/ Farewell(p))
      BY <2>3, <2>4, <3>1, <3>2 DEF Owned
    <3>3. CASE phase # "serving"
      <4>1. queue' = <<>> /\ actions'[p] = <<>>
        BY <2>1, <3>1, <3>3 DEF Sound, StacksOfRegisteredOnly
      <4>2. Mine(p)'
        BY <4>1 DEF Mine, OwnStack, OwnFrom
      <4> QED BY <2>4, <3>1, <4>2 DEF Owned
    <3> QED BY <2>8, <3>2, <3>3 DEF Drops
  <2>9. ASSUME NEW cmd \in CommandName, NEW args \in Seq(Word) \union {NoArgs},
               Starts(p, cmd, args)
        PROVE  Owned'
    <3>1. /\ p \in alive /\ p \in alive' /\ heir'[p] = heir[p]
          /\ cwd'[p] = cwd[p] /\ been'[p] = been[p] /\ queue' = queue
          /\ cwd[p] \in been[p] /\ cwd[p] \in Dir
      BY <2>9 DEF Starts, Owned, Sound, Typed
    <3>2. Text[cwd[p]][1] \in Names(p)'
      BY <3>1, NameOf DEF Names
    <3>3. OwnCall(p)'
      <4>1. PICK r \in Request : r = [from |-> p, cmd |-> cmd, args |-> args]
        BY DEF Request
      <4>2. /\ call'[p] = <<r>> /\ call'[p][1] = r
            /\ r.cmd = "push" => r.args = Text[cwd[p]]
        BY <2>9, <4>1 DEF Starts
      <4> QED BY <3>2, <4>2 DEF OwnCall, Pushes
    <3> QED BY <2>3, <2>4, <3>1, <3>3 DEF Owned
  <2>10. CASE Sends(p)
    <3>1. call[p] \in Hands /\ call[p] # <<>> /\ call[p][1].from = p
      BY <2>10 DEF Sends, Sound, Typed
    <3>2. PICK r \in Request : r = call[p][1]
      BY <3>1, InHand
    <3>3. /\ queue' = Append(queue, r) /\ been' = been /\ cwd' = cwd
          /\ p \in alive' <=> p \in alive
          /\ heir'[p] = (heir[p] /\ ~Farewell(p)) /\ call'[p] = <<>>
      BY <2>10, <3>2 DEF Sends
    <3>4. ASSUME NEW q \in alive, Mine(q) PROVE Mine(q)'
      <4>1. Pushes(r, q) => r.args[1] \in Names(q)
        <5> SUFFICES ASSUME q = p, Pushes(r, p) PROVE r.args[1] \in Names(p)
          BY <3>1, <3>2 DEF Pushes
        <5> QED BY <3>1, <3>2 DEF Owned, OwnCall
      <4> QED BY <2>1, <3>3, <3>4, <4>1, MineAppend
    <3>5. Farewell(p) => Mine(p)'
      <4> SUFFICES ASSUME r.cmd = "unregister" PROVE Mine(p)'
        BY <3>2 DEF Farewell
      <4>1. /\ Len(queue') = Len(queue) + 1 /\ Len(queue) \in Nat
            /\ queue'[Len(queue) + 1] = r
        BY <3>3, Appended DEF Sound
      <4>2. PICK k \in Nat : k = Len(queue')
        BY <4>1
      <4>3. k \in 1..Len(queue') /\ queue'[k] = r /\ r.from = p
        BY <3>1, <3>2, <4>1, <4>2
      <4>4. OwnFrom(p, k)'
        BY <4>1, <4>2 DEF OwnFrom
      <4> QED BY <4>3, <4>4 DEF Mine
    <3>6. \A q \in Pid \ {p} : OwnCall(q) => OwnCall(q)'
      BY <2>2
    <3>7. OwnCall(p)'
      BY <3>3 DEF OwnCall
    <3> SUFFICES ASSUME NEW q \in alive'
                 PROVE  /\ cwd'[q] \in been'[q] /\ OwnCall(q)'
                        /\ heir'[q] \/ Mine(q)'
      BY DEF Owned
    <3>8. q \in alive /\ q \in Pid
      BY <2>1, <3>3 DEF Typed
    <3>9. CASE q = p
      BY <3>3, <3>4, <3>5, <3>7, <3>8, <3>9 DEF Owned
    <3>10. CASE q # p
      BY <2>1, <3>4, <3>6, <3>8, <3>10 DEF Owned
    <3> QED BY <3>9, <3>10
  <2> QED BY <1>1, <2>5, <2>6, <2>7, <2>8, <2>9, <2>10 DEF ShellMoves
<1>2. CASE DaemonEnds
  <2>1. \A p \in Pid : actions'[p] = <<>>
    BY <1>2 DEF DaemonEnds, EmptyStacks
  <2>2. \A p \in Pid : Mine(p)'
    BY <1>2, <2>1 DEF DaemonEnds, Mine, OwnStack, OwnFrom
  <2>3. \A p \in Pid : OwnCall(p) => OwnCall(p)'
    BY <1>2 DEF DaemonEnds, OwnCall, Pushes, Names
  <2> QED BY <1>a, <1>2, <2>2, <2>3 DEF DaemonEnds, shell, Owned
<1>3. CASE DaemonHandles
  <2>1. \A p \in Pid : Mine(p) => Mine(p)'
    BY <1>3, MineHandles
  <2>2. \A p \in Pid : OwnCall(p) => OwnCall(p)'
    BY <1>3 DEF DaemonHandles, OwnCall, Pushes, Names
  <2> QED BY <1>a, <1>3, <2>1, <2>2 DEF DaemonHandles, shell, Owned
<1>4. CASE DaemonStays
  <2>1. \A p \in Pid : Mine(p) => Mine(p)'
    BY <1>4, MineGrows DEF DaemonStays
  <2>2. \A p \in Pid : OwnCall(p) => OwnCall(p)'
    BY <1>4 DEF DaemonStays, OwnCall, Pushes, Names
  <2> QED BY <1>a, <1>4, <2>1, <2>2 DEF DaemonStays, shell, Owned
<1> QED BY <1>1, <1>2, <1>3, <1>4, Moves

(* An entry of a stack is a directory its own shell has been in, or the    *)
(* first word of the name of one with a space in it, but for a shell whose *)
(* predecessor with the same pid could not say farewell, and until the     *)
(* farewell of the one before it has been read.                            *)
THEOREM StacksStayWithTheirShell == SessionSpec => []StackIsMine
<1>1. SessionInit => Owned
  BY DEF SessionInit, Owned
<1>2. Owned => StackIsMine
  BY DEF Owned, Mine, OwnStack, Names, CameFrom, StackIsMine, Asks
<1> QED
  BY <1>1, <1>2, OwnedStep, LeavingAlways, SoundAlways, PTL DEF SessionSpec
=============================================================================
