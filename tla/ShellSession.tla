----------------------------- MODULE ShellSession -----------------------------
(***************************************************************************)
(* Shells that run the nav function (scripts/nav-bash.sh, nav-zsh.sh), and *)
(* the daemon they talk to: NavDaemon's handlers, fed from one queue of    *)
(* requests.                                                               *)
(*                                                                         *)
(* A shell makes one call of the client at a time and goes on when the     *)
(* client ends: with what it printed, or with nothing.  A client that was  *)
(* started has not sent anything yet: it may be interrupted first, or find *)
(* its path taken.  A reply goes to the client that runs under the shell's *)
(* pid when the daemon gets to answer, whichever request it answers;       *)
(* nobody is there, and it is lost (module NavIPC has the sockets).        *)
(* `nav tag` is register, get, push, cd; `nav back` is register, pop, cd;  *)
(* everything else is register and one request; leaving the shell is       *)
(* unregister.  Between any two of these the daemon may stop or start,     *)
(* directories may go, and the user may interrupt.                         *)
(***************************************************************************)
EXTENDS NavDaemon, FiniteSets

CONSTANTS
  Dir,       \* the directories a shell can be in
  Text,      \* the words that pwd prints for a directory
  Dashes,    \* the word --
  Options,   \* the other words that getopt takes for options
  Job,       \* what the user may ask of nav
  Upsets,    \* "late" answers, "int"errupted calls, "kill"ed shells, "taken"
             \* socket paths
  MaxQueue   \* bound on the requests that wait in nav.sock (model bound)

(* A directory named by one word is what that word names as a path; the    *)
(* name of any other has a space.  What is in Path and not in Dir is a     *)
(* file that is no directory.                                              *)
ASSUME DirAssumption ==
  /\ Text \in [Dir -> Seq(Word) \ {<<>>}]
  /\ \A d \in Dir : d \in Path => Text[d] = <<d>>
ASSUME OptionAssumption == Dashes \in Word /\ Options \subseteq Word \ {Dashes}

(* What nav has a case for; push, register and unregister are not the      *)
(* user's to ask for.  argv holds the user's own arguments, those that are *)
(* not empty, each as the words in it: nav passes one on with a get and a  *)
(* delete, two with an add, and none with anything else.                   *)
NavCommand == {"get", "pop", "add", "delete", "show", "list", "actions", "reset"}
Needy == {"get", "add", "delete"}
Most(cmd) == IF cmd = "add" THEN 2 ELSE IF cmd \in Needy THEN 1 ELSE 0
ASSUME JobAssumption ==
  /\ Job \subseteq [cmd : NavCommand, argv : Seq(Seq(Word))]
  /\ \A j \in Job : Len(j.argv) <= Most(j.cmd)
ASSUME UpsetAssumption == Upsets \subseteq {"late", "int", "kill", "taken"}
ASSUME QueueAssumption == MaxQueue \in Nat

VARIABLES
  alive,    \* the pids that are running shells
  step,     \* which call of the client a shell is in
  job,      \* what it was asked, and is doing unless it is at its prompt
  dir,      \* the shell variable dir: what get printed
  cwd,      \* its working directory
  call,     \* the request its client has yet to send, if one runs
  heard,    \* what its client received, or printed once it has ended
  queue,    \* the requests in the daemon's socket
  been,     \* history: the directories this shell has been in
  trail,    \* history: the directories left by nav and not gone back to
  astray,   \* history: whether a call was cut short, a cd failed or nav left
            \* a directory whose name has a space
  heir      \* history: whether a shell of this pid has gone, or is going,
            \* without a farewell to the daemon, and none has come since

shell == <<alive, step, job, dir, cwd>>
history == <<been, trail, astray, heir>>
all == <<vars, shell, call, heard, queue, history>>
daemon == <<memory, file, exists>>

Step == {"prompt", "register", "ask", "push", "unregister"}

Request == [from : Pid, cmd : CommandName, args : Seq(Word) \union {NoArgs}]

Asking(cmd) == [cmd |-> cmd, argv |-> <<>>]
NoJob == Asking("register")

(* The output of a client: the body of a datagram, its usage or version,   *)
(* or nothing at all.                                                      *)
Printed == [kind : ReplyKind \union {"usage", "nothing"},
            body : Seq(Word) \union Seq(Line)]
Usage == [kind |-> "usage", body |-> <<>>]
Nothing == [kind |-> "nothing", body |-> <<>>]

SessionInit ==
  /\ Init
  /\ alive = {}
  /\ step = [p \in Pid |-> "prompt"]
  /\ job = [p \in Pid |-> NoJob]
  /\ dir = [p \in Pid |-> Nothing]
  /\ cwd \in [Pid -> Dir]
  /\ call = [p \in Pid |-> <<>>]
  /\ heard = [p \in Pid |-> <<>>]
  /\ queue = <<>>
  /\ been = [p \in Pid |-> {}]
  /\ trail = [p \in Pid |-> <<>>]
  /\ astray = [p \in Pid |-> FALSE]
  /\ heir = [p \in Pid |-> FALSE]
-----------------------------------------------------------------------------
(* What a client printed, as the shell's tests see it.                     *)
(*                                                                         *)
(* LeaveSilently, GiveArgs, PushTarget, NeverGiveUp and DeliverUnasked are *)
(* slips the code could have made; they are no part of SessionNext.        *)

Says(out, kind) == out.kind = kind

(* [ -z "$output" ]: no datagram, or one that lists nothing.               *)
Blank(out) ==
  out.body = <<>> /\ out.kind \in {"nothing", "show", "list", "actions"}

NoGood(out) == Blank(out) \/ Says(out, "BAD")

Waits(p, s) == p \in alive /\ step[p] = s

(* Its EXIT trap has sent the unregister, or has found no daemon.          *)
Parting(p) == Waits(p, "unregister") /\ call[p] = <<>>
Pending(p) == \E i \in 1..Len(queue) : queue[i].from = p

(* Calling the client: it runs, and has yet to send its request.  The pid, *)
(* the command and what pwd prints never begin with a hyphen.              *)
Call(p, s, cmd, args) ==
  /\ step' = [step EXCEPT ![p] = s]
  /\ call' = [call EXCEPT ![p] = <<[from |-> p, cmd |-> cmd, args |-> args]>>]
  /\ heard' = [heard EXCEPT ![p] = <<>>]
  /\ UNCHANGED queue

(* getopt drops the first argument that is -- and takes every one before   *)
(* it that begins with a hyphen for an option, of which the client knows   *)
(* none that does more than print.                                         *)
Dropped(argv) ==
  {i \in DOMAIN argv : /\ argv[i] = <<Dashes>>
                       /\ \A j \in 1..(i-1) : argv[j] # <<Dashes>>}
HasOption(argv) ==
  \E i \in DOMAIN argv :
    /\ argv[i] # <<>> /\ argv[i][1] \in Options \union {Dashes}
    /\ \A j \in 1..i : argv[j] # <<Dashes>>

(* What is sent of them: NULL when nothing is left.                        *)
Kept(argv) == DOMAIN argv \ Dropped(argv)
Part(argv, i) == IF i \in Kept(argv) THEN argv[i] ELSE <<>>
ArgsOf(argv) ==
  IF Kept(argv) = {} THEN NoArgs ELSE Part(argv, 1) \o Part(argv, 2)

(* The client prints its usage, or its version, and calls nobody.          *)
PrintsUsage(p, s) ==
  /\ step' = [step EXCEPT ![p] = s]
  /\ heard' = [heard EXCEPT ![p] = <<Usage>>]
  /\ UNCHANGED <<call, queue>>

(* nav returns.                                                            *)
Prompt(p) ==
  /\ step' = [step EXCEPT ![p] = "prompt"]
  /\ job' = [job EXCEPT ![p] = NoJob]
  /\ dir' = [dir EXCEPT ![p] = Nothing]
  /\ heard' = [heard EXCEPT ![p] = <<>>]
  /\ UNCHANGED queue

CanEnter(out) == Says(out, "path") /\ out.body[1] \in Dir \cap exists

Enter(p, d) ==
  /\ cwd' = [cwd EXCEPT ![p] = d]
  /\ been' = [been EXCEPT ![p] = @ \union {d}]

(* cd "$dir" || _nav_error                                                 *)
Cd(p, out, left, lost) ==
  /\ Prompt(p)
  /\ UNCHANGED call
  /\ \/ /\ CanEnter(out)
        /\ Enter(p, out.body[1])
        /\ trail' = [trail EXCEPT ![p] = left]
        /\ astray' = [astray EXCEPT ![p] = @ \/ lost]
     \/ /\ ~CanEnter(out)
        /\ astray' = [astray EXCEPT ![p] = TRUE]
        /\ UNCHANGED <<cwd, been, trail>>

(* What the user expects to go back to: an immediate repeat is one step    *)
(* back.                                                                   *)
Departed(p) ==
  IF trail[p] # <<>> /\ Head(trail[p]) = cwd[p]
    THEN trail[p] ELSE <<cwd[p]>> \o trail[p]
Returned(p) == IF trail[p] = <<>> THEN <<>> ELSE Tail(trail[p])
-----------------------------------------------------------------------------
(* The shell at its prompt.                                                *)

Silence == Silent /\ UNCHANGED daemon

(* A new shell with a free pid, sourcing the script.  It starts astray when *)
(* an earlier shell of that pid has left something in the daemon's way.  A *)
(* client that outlives its shell ends before the pid is taken again.      *)
Open(p) ==
  /\ p \notin alive
  /\ call[p] = <<>>
  /\ alive' = alive \union {p}
  /\ \E d \in Dir : cwd' = [cwd EXCEPT ![p] = d]
                      /\ been' = [been EXCEPT ![p] = {d}]
  /\ trail' = [trail EXCEPT ![p] = <<>>]
  /\ astray' = [astray EXCEPT ![p] = heir[p] \/ Pending(p)]
  /\ Silence
  /\ UNCHANGED <<step, job, dir, call, heard, queue, heir>>

(* The user changes directory without nav.                                 *)
Wander(p, d) ==
  /\ Waits(p, "prompt")
  /\ d \in Path => d \in exists
  /\ Enter(p, d)
  /\ Silence
  /\ UNCHANGED <<alive, step, job, dir, call, heard, queue, trail, astray, heir>>

(* Keeps the stacks in the model's bound: a push that was asked for will   *)
(* find room.                                                              *)
Room(p) ==
  LET asked == {i \in 1..Len(queue) : queue[i].from = p /\ queue[i].cmd = "push"}
  IN  /\ \A n \in 1..MaxQueue :
           Cardinality(asked) = n => Len(actions[p]) + n < MaxActions
      /\ Len(actions[p]) < MaxActions
      /\ Len(trail[p]) < MaxActions

(* nav, and bash's completion: first of all register.                      *)
Nav(p, j) ==
  /\ Waits(p, "prompt")
  /\ j.cmd = "get" => Room(p)
  /\ Call(p, "register", "register", NoArgs)
  /\ job' = [job EXCEPT ![p] = j]
  /\ Silence
  /\ UNCHANGED <<alive, dir, cwd, history>>

(* zsh's completion asks for the list without registering.                 *)
Complete(p) ==
  /\ Waits(p, "prompt")
  /\ Call(p, "ask", "list", NoArgs)
  /\ job' = [job EXCEPT ![p] = Asking("list")]
  /\ Silence
  /\ UNCHANGED <<alive, dir, cwd, history>>

LeaveSilently(p) ==
  /\ Waits(p, "prompt")
  /\ Call(p, "unregister", "list", NoArgs)
  /\ Silence
  /\ UNCHANGED <<alive, job, dir, cwd, history>>

(* The shell exits: its EXIT trap unregisters.                             *)
Leave(p) ==
  /\ Waits(p, "prompt")
  /\ Call(p, "unregister", "unregister", NoArgs)
  /\ Silence
  /\ UNCHANGED <<alive, job, dir, cwd, history>>

(* The shell is gone, and what it knew with it.                            *)
Gone(p) ==
  /\ alive' = alive \ {p}
  /\ Prompt(p)
  /\ been' = [been EXCEPT ![p] = {}]
  /\ trail' = [trail EXCEPT ![p] = <<>>]
  /\ astray' = [astray EXCEPT ![p] = FALSE]
  /\ UNCHANGED cwd

(* It is killed: no trap.  Its client, if it has one, dies too or goes on  *)
(* unheard.                                                                *)
Kill(p) ==
  /\ "kill" \in Upsets
  /\ p \in alive
  /\ Gone(p)
  /\ call' \in {call, [call EXCEPT ![p] = <<>>]}
  /\ heir' = [heir EXCEPT ![p] = @ \/ ~Parting(p)]
  /\ Silence
-----------------------------------------------------------------------------
(* The shell when a call of the client has ended with out.                 *)

GiveArgs(j) == TRUE

(* [ -z "$tag" ] || [ -z "$path" ]: nav with too few arguments prints its  *)
(* usage.                                                                  *)
Given(j) == Len(j.argv) >= Most(j.cmd)

AfterRegister(p, out) ==
  /\ Waits(p, "register")
  /\ \/ /\ Blank(out) \/ ~Given(job[p])
        /\ Prompt(p)
        /\ UNCHANGED call
     \/ /\ ~Blank(out) /\ Given(job[p])
        /\ \/ HasOption(job[p].argv) /\ PrintsUsage(p, "ask")
           \/ /\ ~HasOption(job[p].argv)
              /\ Call(p, "ask", job[p].cmd, ArgsOf(job[p].argv))
        /\ UNCHANGED <<job, dir>>
  /\ UNCHANGED <<alive, cwd, been, trail, astray, heir>>

PushTarget(p, out) ==
  /\ Waits(p, "ask") /\ job[p].cmd = "get"
  /\ \/ NoGood(out) /\ Prompt(p) /\ UNCHANGED call
     \/ /\ ~NoGood(out)
        /\ Call(p, "push", "push", out.body)
        /\ dir' = [dir EXCEPT ![p] = out]
        /\ UNCHANGED job
  /\ UNCHANGED <<alive, cwd, been, trail, astray, heir>>

AfterGet(p, out) ==
  /\ Waits(p, "ask") /\ job[p].cmd = "get"
  /\ \/ NoGood(out) /\ Prompt(p) /\ UNCHANGED call
     \/ /\ ~NoGood(out)
        /\ Call(p, "push", "push", Text[cwd[p]])
        /\ dir' = [dir EXCEPT ![p] = out]
        /\ UNCHANGED job
  /\ UNCHANGED <<alive, cwd, been, trail, astray, heir>>

AfterPush(p, out) ==
  /\ Waits(p, "push")
  /\ \/ /\ ~Says(out, "OK")
        /\ Prompt(p)
        /\ UNCHANGED <<call, cwd, been, trail, astray>>
     \/ Says(out, "OK") /\ Cd(p, dir[p], Departed(p), cwd[p] \notin Path)
  /\ UNCHANGED <<alive, heir>>

AfterPop(p, out) ==
  /\ Waits(p, "ask") /\ job[p].cmd = "pop"
  /\ \/ NoGood(out) /\ Prompt(p) /\ UNCHANGED <<call, cwd, been, trail, astray>>
     \/ ~NoGood(out) /\ Cd(p, out, Returned(p), FALSE)
  /\ UNCHANGED <<alive, heir>>

(* Once every request of the shell is dealt with, an OK to reset says that *)
(* nothing is left to go back to.                                          *)
AfterReset(p, out) ==
  /\ Waits(p, "ask") /\ job[p].cmd = "reset"
  /\ Prompt(p)
  /\ \/ /\ Says(out, "OK") /\ ~Pending(p)
        /\ trail' = [trail EXCEPT ![p] = <<>>]
        /\ astray' = [astray EXCEPT ![p] = FALSE]
     \/ ~(Says(out, "OK") /\ ~Pending(p)) /\ UNCHANGED <<trail, astray>>
  /\ UNCHANGED <<alive, call, cwd, been, heir>>

(* add, delete, show, actions and list only print.                         *)
AfterOther(p, out) ==
  /\ Waits(p, "ask") /\ job[p].cmd \notin {"get", "pop", "reset"}
  /\ Prompt(p)
  /\ UNCHANGED <<alive, call, cwd, been, trail, astray, heir>>

AfterUnregister(p, out) ==
  /\ Waits(p, "unregister")
  /\ Gone(p)
  /\ UNCHANGED <<call, heir>>

Proceed(p, out) ==
  \/ AfterRegister(p, out)
  \/ AfterGet(p, out) \/ AfterPush(p, out) \/ AfterPop(p, out)
  \/ AfterReset(p, out) \/ AfterOther(p, out)
  \/ AfterUnregister(p, out)

Hear(p) ==
  /\ call[p] = <<>>
  /\ heard[p] # <<>>
  /\ Proceed(p, heard[p][1])
  /\ Silence
-----------------------------------------------------------------------------
(* The client while it runs, also after its shell was killed.              *)

Farewell(p) == call[p] # <<>> /\ call[p][1].cmd = "unregister"

(* The request is sent: it waits in the daemon's socket, for which send    *)
(* waits while that is full.                                               *)
SendRequest(p) ==
  /\ call[p] # <<>>
  /\ phase = "serving"
  /\ Len(queue) < MaxQueue
  /\ queue' = Append(queue, call[p][1])
  /\ call' = [call EXCEPT ![p] = <<>>]
  /\ heir' = [heir EXCEPT ![p] = @ /\ ~Farewell(p)]
  /\ Silence
  /\ UNCHANGED <<shell, heard, been, trail, astray>>

(* The client ends before it has sent anything.                            *)
GivesNothing(p) ==
  /\ call[p] # <<>>
  /\ call' = [call EXCEPT ![p] = <<>>]
  /\ heard' = IF p \in alive THEN [heard EXCEPT ![p] = <<Nothing>>] ELSE heard
  /\ Silence
  /\ UNCHANGED <<shell, queue, been, trail, astray>>

(* connect fails: nobody listens at nav.sock, and no session is left.      *)
FindsNoDaemon(p) ==
  /\ phase # "serving"
  /\ GivesNothing(p)
  /\ heir' = [heir EXCEPT ![p] = @ /\ ~Farewell(p)]

(* bind fails: at <pid>.sock is a file that a killed client has left, or   *)
(* the socket of a client that runs in the background of this shell.       *)
FindsPathTaken(p) ==
  /\ "taken" \in Upsets
  /\ heard[p] = <<>>
  /\ GivesNothing(p)
  /\ heir' = [heir EXCEPT ![p] = @ \/ Farewell(p)]

NeverGiveUp(p) == FALSE

(* The client ends without a datagram after 50 ms.  Unless answers may be  *)
(* late, that does not happen to a request the daemon has yet to look at.  *)
GiveUp(p) ==
  /\ p \in alive /\ step[p] # "prompt"
  /\ call[p] = <<>> /\ heard[p] = <<>>
  /\ "late" \in Upsets \/ ~Pending(p)
  /\ heard' = [heard EXCEPT ![p] = <<Nothing>>]
  /\ astray' = [astray EXCEPT ![p] = @ \/ Pending(p)]
  /\ Silence
  /\ UNCHANGED <<shell, call, queue, been, trail, heir>>

(* Ctrl-C: the client's handler exits, with its request unsent or sent, or *)
(* what it printed goes unused; in every step nav returns as it does when  *)
(* the output is empty.                                                    *)
Interrupt(p) ==
  /\ "int" \in Upsets
  /\ p \in alive /\ step[p] # "prompt"
  /\ call' = [call EXCEPT ![p] = <<>>]
  /\ heard' = [heard EXCEPT ![p] = <<Nothing>>]
  /\ astray' = [astray EXCEPT ![p] = TRUE]
  /\ heir' = [heir EXCEPT ![p] = @ \/ Farewell(p)]
  /\ Silence
  /\ UNCHANGED <<shell, queue, been, trail>>
-----------------------------------------------------------------------------
(* The daemon: NavDaemon's handlers on the requests in its socket.         *)

(* dispatch_command.  A shell that is not registered is ignored; so are a  *)
(* get and a delete of a blank name.                                       *)
Dispatch(p, cmd, args) ==
  \/ cmd = "register" /\ CmdRegister(p)
  \/ cmd = "unregister" /\ CmdUnregister(p)
  \/ cmd = "show" /\ CmdShow(p)
  \/ cmd = "list" /\ CmdList(p)
  \/ cmd = "pop" /\ CmdPop(p)
  \/ cmd = "actions" /\ CmdActions(p)
  \/ cmd = "reset" /\ CmdReset(p)
  \/ cmd = "add" /\ CmdAdd(p, args)
  \/ cmd = "delete" /\ CmdDelete(p, args)
  \/ cmd = "get" /\ CmdGet(p, args)
  \/ cmd = "push" /\ CmdPush(p, args)
  \/ cmd # "register" /\ p \notin shells /\ Ignored(p, args)
  \/ cmd \in {"get", "delete"} /\ args = <<>> /\ Ignored(p, args)

DeliverUnasked(p) ==
  IF p \in alive /\ heard[p] = <<>> /\ sent' # <<>>
    THEN heard' = [heard EXCEPT ![p] = <<[kind |-> sent'[1].kind,
                                          body |-> sent'[1].body]>>]
    ELSE UNCHANGED heard

(* The reply reaches the client that runs under that pid, if one does: one *)
(* that waits for it, or one that has bound the path and not sent yet.     *)
Deliver(p) ==
  \/ /\ p \in alive /\ step[p] # "prompt" /\ heard[p] = <<>> /\ sent' # <<>>
     /\ heard' = [heard EXCEPT ![p] = <<[kind |-> sent'[1].kind,
                                         body |-> sent'[1].body]>>]
  \/ /\ \/ p \notin alive \/ step[p] = "prompt" \/ heard[p] # <<>> \/ sent' = <<>>
        \/ call[p] # <<>>
     /\ UNCHANGED heard

(* The end of the daemon takes the requests in its socket with it, and     *)
(* every stack, a killed shell's included.  A client that has connected    *)
(* and not sent yet will send to nobody; another may tell the next daemon, *)
(* also of a shell that was killed.                                        *)
Ended ==
  /\ queue' = <<>>
  /\ \E connected \in SUBSET Pid :
       call' = [p \in Pid |-> IF p \in connected THEN <<>> ELSE call[p]]
  /\ heir' = [p \in Pid |-> heir[p] /\ p \notin alive /\ call'[p] # <<>>]
  /\ UNCHANGED <<shell, heard, been, trail, astray>>

(* One turn of loop.  A get, add or delete without arguments is its last.  *)
Answer ==
  /\ queue # <<>>
  /\ LET r == Head(queue)
     IN  \/ /\ Dispatch(r.from, r.cmd, r.args)
            /\ Deliver(r.from)
            /\ queue' = Tail(queue)
            /\ UNCHANGED <<shell, call, history>>
         \/ /\ r.cmd \in Needy
            /\ NullArgs(r.from, r.args)
            /\ Ended

Stop == Terminate /\ Ended

Background ==
  /\ Start \/ ReadLine \/ Serve \/ FsChange
  /\ UNCHANGED <<shell, call, heard, queue, history>>
-----------------------------------------------------------------------------
Client(p) == SendRequest(p) \/ FindsNoDaemon(p) \/ GiveUp(p) \/ Hear(p)

User(p) ==
  \/ Open(p)
  \/ \E d \in Dir : Wander(p, d)
  \/ \E j \in Job : Nav(p, j)
  \/ Complete(p)
  \/ Leave(p)

SessionNext ==
  \/ \E p \in Pid :
       User(p) \/ Client(p) \/ FindsPathTaken(p) \/ Interrupt(p) \/ Kill(p)
  \/ Answer \/ Stop \/ Background

SessionSpec == SessionInit /\ [][SessionNext]_all

(* A client that was started sends, fails or ends by its timeout, and the  *)
(* shell goes on; the daemon takes the next request while it runs.         *)
(* Nothing makes the user act, or the daemon start.                        *)
FairSession ==
  SessionSpec /\ WF_all(Answer) /\ \A p \in Pid : WF_all(Client(p))
-----------------------------------------------------------------------------
(* Properties.                                                             *)

SessionTypeOK ==
  /\ TypeOK
  /\ alive \subseteq Pid
  /\ step \in [Pid -> Step]
  /\ job \in [Pid -> [cmd : CommandName, argv : Seq(Seq(Word))]]
  /\ dir \in [Pid -> Printed]
  /\ cwd \in [Pid -> Dir]
  /\ call \in [Pid -> Seq(Request)] /\ \A p \in Pid : Len(call[p]) <= 1
  /\ \A p \in Pid : call[p] # <<>> => call[p][1].from = p
  /\ heard \in [Pid -> Seq(Printed)] /\ \A p \in Pid : Len(heard[p]) <= 1
  /\ \A p \in Pid : heard[p] # <<>> => p \in alive /\ step[p] # "prompt"
  /\ queue \in Seq(Request) /\ Len(queue) <= MaxQueue
  /\ been \in [Pid -> SUBSET Dir]
  /\ trail \in [Pid -> Seq(Dir)]
  /\ astray \in [Pid -> BOOLEAN]
  /\ heir \in [Pid -> BOOLEAN]

Asks(p, cmd) == \E i \in 1..Len(queue) : queue[i].from = p /\ queue[i].cmd = cmd

(* Where an entry of a stack comes from: the daemon is told a directory by *)
(* what pwd prints, and keeps the first word of that.                      *)
CameFrom(p, w) ==
  w \in been[p] \/ \E d \in been[p] \ Path : Text[d][1] = w

(* Late answers, interrupts, restarts and directories that go: still every *)
(* entry of a shell's stack is a directory this shell has been in, or the  *)
(* first word of the name of one that has a space in its name (cmd_push    *)
(* cuts it there, and may so name another directory); never where another  *)
(* shell has been, nor the shell that had the pid before, once the         *)
(* farewell of that one has been read.  The one exception is a shell whose *)
(* predecessor sent no farewell: it was killed, or its EXIT trap's client  *)
(* was interrupted before the send or found its path taken, and            *)
(* cmd_register greets the next shell of that pid as already registered.   *)
StackIsMine ==
  \A p \in alive :
    heir[p] \/ Asks(p, "unregister")
      \/ \A i \in 1..Len(actions[p]) : CameFrom(p, actions[p][i])

(* A shell that has left leaves neither a session nor a stack once its     *)
(* requests have been read, whatever answers it missed while it lived,     *)
(* and whatever it was doing when it left: a request of an interrupted nav *)
(* is read before the farewell.  The exception is a shell that could not   *)
(* say farewell: killed, or its EXIT trap's client interrupted before the  *)
(* send or refused by bind.                                                *)
NothingLeftBehind ==
  \A p \in Pid \ alive :
    heir[p] \/ Pending(p) \/ (p \notin shells /\ actions[p] = <<>>)

(* At its prompt, a shell whose calls were never cut short, whose cd never *)
(* failed and that left no directory with a space in its name finds in the *)
(* daemon the latest part of its own history, directory by directory and   *)
(* in order: `nav back` undoes the latest navigation that is not undone    *)
(* yet, and after a restart of the daemon there is less to go back to,     *)
(* never something else.                                                   *)
BackUndoes ==
  \A p \in alive :
    step[p] = "prompt" /\ ~astray[p] =>
      /\ Len(actions[p]) <= Len(trail[p])
      /\ \A i \in 1..Len(actions[p]) : actions[p][i] = trail[p][i]

(* The one thing to type that ends the daemon is -- alone, as a tag or as  *)
(* what to delete: getopt drops it, and the request goes out without the   *)
(* argument nav has checked for.  Whatever else a user types, nav sends    *)
(* every handler the arguments it needs.                                   *)
DashesAlone(j) == j.cmd \in {"get", "delete"} /\ j.argv = <<<<Dashes>>>>
NavNeverCrashes == ending = "crash" => \E j \in Job : DashesAlone(j)

(* nav always comes back to the prompt, and a shell that exits is gone,    *)
(* also when the daemon never answers: an unknown shell's request, a late  *)
(* answer, a daemon that has ended, a client that never gets to send.      *)
NavReturns == \A p \in Pid : step[p] # "prompt" ~> step[p] = "prompt"

(* A shell whose farewell got to the daemon's socket, or found no daemon   *)
(* to tell, is unregistered in the end, also when it is answered late or   *)
(* not at all.                                                             *)
LeavingUnregisters ==
  \A p \in Pid : Parting(p) /\ ~heir[p] ~> p \notin shells
=============================================================================
