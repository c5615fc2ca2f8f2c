-------------------------------- MODULE NavIPC --------------------------------
(***************************************************************************)
(* Client processes and the daemon on their Unix datagram sockets.         *)
(*                                                                         *)
(* A client (client/main.c) is a process that makes one request: it binds  *)
(* <pid>.sock, where pid is the shell it is called for and not its own,    *)
(* connects to nav.sock, sends one datagram, waits at most 50 ms for one   *)
(* datagram, closes its socket and unlinks the path.  The daemon takes the *)
(* datagrams in the order they came and sends the reply to the path of the *)
(* shell, to whichever socket is bound there at that moment.  What a       *)
(* request asks is NavDaemon's business: here it is ignored, or carried    *)
(* out and then answered, and the daemon may end between the two.          *)
(*                                                                         *)
(* The socket calls are Linux's: a datagram is delivered when it is sent;  *)
(* a socket that is connected receives from its peer only; the path of a   *)
(* closed socket stays until it is unlinked, and cannot be bound again.    *)
(***************************************************************************)
EXTENDS Naturals, Sequences

CONSTANTS
  Client,     \* client processes
  Pid,        \* shells
  Shell,      \* the shell each client is called for
  NoClient,   \* no socket file
  Signals,    \* signals a client may get: "int" (SIGINT), "kill" (others)
  Late,       \* whether an answer may come after the client gave up
  QLen,       \* datagrams the daemon's socket holds before a send blocks
  MaxStarts   \* bound on the daemon's incarnations (model bound)

ASSUME ShellAssumption == Shell \in [Client -> Pid]
ASSUME NoClientAssumption == NoClient \notin Client
ASSUME SignalAssumption == Signals \subseteq {"int", "kill"} /\ Late \in BOOLEAN
ASSUME BoundAssumption == QLen \in Nat \ {0} /\ MaxStarts \in Nat

VARIABLES
  pc,       \* where each client is
  result,   \* how each client ended
  got,      \* whose request the reply a client printed answers
  bound,    \* per shell: the client whose socket is at <pid>.sock, or NoClient
  inbox,    \* datagrams in each client's socket
  peer,     \* the daemon incarnation a client is connected to, 0: none
  daemon,   \* the latest incarnation of the daemon
  up,       \* whether it runs
  queue,    \* the requests in the daemon's socket, by client
  working,  \* whose request is carried out and not yet answered, or NoClient
  carried,  \* the clients whose request was carried out
  cut       \* those of them whose daemon ended before it answered

clients == <<pc, result, got, peer>>
server == <<daemon, up, queue, working, carried, cut>>
vars == <<clients, server, bound, inbox>>

Stage == {"idle", "named", "refused", "bound", "connected", "waiting",
          "closing", "closed", "unlinked", "exited"}

(* The stages in which the client's socket is open and bound.              *)
Open == {"bound", "connected", "waiting", "closing"}

Init ==
  /\ pc = [c \in Client |-> "idle"]
  /\ result = [c \in Client |-> "none"]
  /\ got = [c \in Client |-> NoClient]
  /\ bound = [p \in Pid |-> NoClient]
  /\ inbox = [c \in Client |-> <<>>]
  /\ peer = [c \in Client |-> 0]
  /\ daemon = 0
  /\ up = FALSE
  /\ queue = <<>>
  /\ working = NoClient
  /\ carried = {}
  /\ cut = {}
-----------------------------------------------------------------------------
(* A client.                                                               *)
(*                                                                         *)
(* BindOver, BindFailsAndUnlinks, ConnectGivesUp, NoTimeout,               *)
(* TimeoutUnnoticed and DeliverToFirst are slips the code could have made; *)
(* they are no part of Next.                                               *)

At(c, stage) == pc[c] = stage
Go(c, stage) == pc' = [pc EXCEPT ![c] = stage]
End(c, how) == result' = [result EXCEPT ![c] = how]
Unlink(c) == bound' = [bound EXCEPT ![Shell[c]] = NoClient]

(* The signal handler is installed, then my_addr gets its path: from here  *)
(* on the handler has a path to unlink.                                    *)
Begin(c) ==
  /\ At(c, "idle")
  /\ Go(c, "named")
  /\ UNCHANGED <<result, got, peer, server, bound, inbox>>

BindOver(c) ==
  /\ At(c, "named")
  /\ bound' = [bound EXCEPT ![Shell[c]] = c]
  /\ Go(c, "bound")
  /\ UNCHANGED <<result, got, peer, server, inbox>>

Bind(c) ==
  /\ At(c, "named")
  /\ bound[Shell[c]] = NoClient
  /\ bound' = [bound EXCEPT ![Shell[c]] = c]
  /\ Go(c, "bound")
  /\ UNCHANGED <<result, got, peer, server, inbox>>

BindFailsAndUnlinks(c) ==
  /\ At(c, "named")
  /\ bound[Shell[c]] # NoClient
  /\ Go(c, "closing")
  /\ End(c, "failed")
  /\ UNCHANGED <<got, peer, server, bound, inbox>>

(* Any file at the path, a stale one too, makes bind fail; the client      *)
(* closes its socket and leaves the path alone.                            *)
BindFails(c) ==
  /\ At(c, "named")
  /\ bound[Shell[c]] # NoClient
  /\ Go(c, "refused")
  /\ End(c, "failed")
  /\ UNCHANGED <<got, peer, server, bound, inbox>>

Connect(c) ==
  /\ At(c, "bound")
  /\ up
  /\ peer' = [peer EXCEPT ![c] = daemon]
  /\ Go(c, "connected")
  /\ UNCHANGED <<result, got, server, bound, inbox>>

ConnectGivesUp(c) ==
  /\ At(c, "bound")
  /\ ~up
  /\ Go(c, "refused")
  /\ End(c, "failed")
  /\ UNCHANGED <<got, peer, server, bound, inbox>>

ConnectFails(c) ==
  /\ At(c, "bound")
  /\ ~up
  /\ Go(c, "closing")
  /\ End(c, "failed")
  /\ UNCHANGED <<got, peer, server, bound, inbox>>

(* send blocks while the daemon's queue is full.                           *)
Reaches(c) == up /\ peer[c] = daemon

SendRequest(c) ==
  /\ At(c, "connected")
  /\ Reaches(c)
  /\ Len(queue) < QLen
  /\ queue' = Append(queue, c)
  /\ Go(c, "waiting")
  /\ UNCHANGED <<result, got, peer, daemon, up, working, carried, cut,
                 bound, inbox>>

(* The daemon it connected to is gone: the kernel drops the connection,    *)
(* the client does not look at send's result and waits for a reply.        *)
SendFails(c) ==
  /\ At(c, "connected")
  /\ ~Reaches(c)
  /\ peer' = [peer EXCEPT ![c] = 0]
  /\ Go(c, "waiting")
  /\ UNCHANGED <<result, got, server, bound, inbox>>

Recv(c) ==
  /\ At(c, "waiting")
  /\ inbox[c] # <<>>
  /\ got' = [got EXCEPT ![c] = Head(inbox[c])]
  /\ inbox' = [inbox EXCEPT ![c] = Tail(@)]
  /\ End(c, "ok")
  /\ Go(c, "closing")
  /\ UNCHANGED <<peer, server, bound>>

(* The daemon has the request: in its socket, or at work on it.            *)
Pending(c) == working = c \/ \E i \in 1..Len(queue) : queue[i] = c

NoTimeout(c) == FALSE

TimeoutUnnoticed(c) ==
  /\ At(c, "waiting")
  /\ inbox[c] = <<>>
  /\ Late \/ ~Pending(c)
  /\ End(c, "ok")
  /\ Go(c, "closing")
  /\ UNCHANGED <<got, peer, server, bound, inbox>>

(* 50 ms without a datagram.  Unless Late, that does not happen to a       *)
(* request the daemon has yet to look at, or has in hand.                  *)
Timeout(c) ==
  /\ At(c, "waiting")
  /\ inbox[c] = <<>>
  /\ Late \/ ~Pending(c)
  /\ End(c, "failed")
  /\ Go(c, "closing")
  /\ UNCHANGED <<got, peer, server, bound, inbox>>

Close(c) ==
  /\ At(c, "closing")
  /\ Go(c, "closed")
  /\ inbox' = [inbox EXCEPT ![c] = <<>>]
  /\ UNCHANGED <<result, got, peer, server, bound>>

UnlinkPath(c) ==
  /\ At(c, "closed")
  /\ Unlink(c)
  /\ Go(c, "unlinked")
  /\ UNCHANGED <<result, got, peer, server, inbox>>

Exit(c) ==
  /\ pc[c] \in {"unlinked", "refused"}
  /\ Go(c, "exited")
  /\ UNCHANGED <<result, got, peer, server, bound, inbox>>

(* sigint_handler, anywhere after my_addr got its path: it unlinks the     *)
(* path, whoever is bound there, and exits.                                *)
Interrupt(c) ==
  /\ "int" \in Signals
  /\ pc[c] \notin {"idle", "exited"}
  /\ Unlink(c)
  /\ Go(c, "exited")
  /\ End(c, "interrupted")
  /\ inbox' = [inbox EXCEPT ![c] = <<>>]
  /\ UNCHANGED <<got, peer, server>>

(* A signal without a handler ends the client and leaves its path.         *)
Kill(c) ==
  /\ "kill" \in Signals
  /\ pc[c] \notin {"idle", "exited"}
  /\ Go(c, "exited")
  /\ End(c, "killed")
  /\ inbox' = [inbox EXCEPT ![c] = <<>>]
  /\ UNCHANGED <<got, peer, server, bound>>
-----------------------------------------------------------------------------
(* The daemon.                                                             *)

DaemonStart ==
  /\ ~up
  /\ daemon < MaxStarts
  /\ daemon' = daemon + 1
  /\ up' = TRUE
  /\ UNCHANGED <<clients, queue, working, carried, cut, bound, inbox>>

(* A signal ends it wherever it is, between a handler's effect and its     *)
(* reply too.  Its socket, and what is queued there, goes with it.         *)
DaemonStop ==
  /\ up
  /\ up' = FALSE
  /\ queue' = <<>>
  /\ working' = NoClient
  /\ cut' = cut \union ({working} \ {NoClient})
  /\ UNCHANGED <<clients, daemon, carried, bound, inbox>>

DeliverToFirst(p, c) ==
  LET at == bound[CHOOSE q \in Pid : TRUE]
  IN  inbox' = IF at # NoClient /\ pc[at] \in Open
                 THEN [inbox EXCEPT ![at] = Append(@, c)]
                 ELSE inbox

(* sendto the shell's path: nothing arrives when nobody is bound there,    *)
(* when the socket is closed, or when it is connected to another daemon.   *)
Deliver(p, c) ==
  LET at == bound[p]
  IN  inbox' = IF at # NoClient /\ pc[at] \in Open /\ peer[at] \in {0, daemon}
                 THEN [inbox EXCEPT ![at] = Append(@, c)]
                 ELSE inbox

(* The loop takes a request and its handler does what it asks for, which   *)
(* for an add or a delete ends with the tag file ...                       *)
Carry ==
  /\ up
  /\ working = NoClient
  /\ queue # <<>>
  /\ working' = Head(queue)
  /\ carried' = carried \union {Head(queue)}
  /\ queue' = Tail(queue)
  /\ UNCHANGED <<clients, daemon, up, cut, bound, inbox>>

(* ... and answers.                                                        *)
Reply ==
  /\ up
  /\ working # NoClient
  /\ Deliver(Shell[working], working)
  /\ working' = NoClient
  /\ UNCHANGED <<clients, daemon, up, queue, carried, cut, bound>>

(* An unknown command, an unregistered shell, missing arguments.           *)
Ignore ==
  /\ up
  /\ working = NoClient
  /\ queue # <<>>
  /\ queue' = Tail(queue)
  /\ UNCHANGED <<clients, daemon, up, working, carried, cut, bound, inbox>>
-----------------------------------------------------------------------------
Run(c) ==
  \/ Bind(c) \/ BindFails(c)
  \/ Connect(c) \/ ConnectFails(c)
  \/ SendRequest(c) \/ SendFails(c)
  \/ Recv(c) \/ Timeout(c)
  \/ Close(c) \/ UnlinkPath(c) \/ Exit(c)

Loop == Carry \/ Reply \/ Ignore

Next ==
  \/ \E c \in Client : Begin(c) \/ Run(c) \/ Interrupt(c) \/ Kill(c)
  \/ Loop \/ DaemonStart \/ DaemonStop

Spec == Init /\ [][Next]_vars

(* A client that was started keeps running (its recv has a timeout), and   *)
(* so does the daemon's loop while the daemon lives.  Nothing makes anyone *)
(* start a client, a daemon, or send a signal.                             *)
FairSpec == Spec /\ WF_vars(Loop) /\ \A c \in Client : WF_vars(Run(c))
-----------------------------------------------------------------------------
(* Properties.                                                             *)

Ending == {"none", "ok", "failed", "interrupted", "killed"}

TypeOK ==
  /\ pc \in [Client -> Stage]
  /\ result \in [Client -> Ending]
  /\ got \in [Client -> Client \union {NoClient}]
  /\ bound \in [Pid -> Client \union {NoClient}]
  /\ inbox \in [Client -> Seq(Client)]
  /\ peer \in [Client -> 0..MaxStarts]
  /\ daemon \in 0..MaxStarts
  /\ up \in BOOLEAN
  /\ queue \in Seq(Client) /\ Len(queue) <= QLen
  /\ working \in carried \union {NoClient}
  /\ carried \subseteq Client /\ cut \subseteq carried
  /\ \A c \in Client : result[c] = "ok" => got[c] # NoClient

(* Whatever is late, interrupted or restarted, no reply ever reaches a     *)
(* client of another shell: the reply goes to the path of the shell named  *)
(* in the request.                                                         *)
RepliesStayInShell ==
  \A c \in Client :
    /\ got[c] # NoClient => Shell[got[c]] = Shell[c]
    /\ \A i \in 1..Len(inbox[c]) : Shell[inbox[c][i]] = Shell[c]

(* Every way a client ends by itself, SIGINT included, leaves no socket    *)
(* file without a process: such a file would make every later client of    *)
(* that shell fail to bind.                                                *)
NoStaleSocket ==
  \A p \in Pid : bound[p] # NoClient => pc[bound[p]] # "exited"

(* A started client ends, whether it is answered, ignored or refused, with *)
(* the daemon's queue full, and when the daemon dies under it.             *)
ClientsEnd == \A c \in Client : pc[c] = "named" ~> pc[c] = "exited"

(* Without SIGINT, a client's path is its own from bind to unlink, so that *)
(* no second client of the shell can be bound meanwhile: the clients that  *)
(* are refused, fail to connect or give up do not touch another's path.    *)
PathIsMine ==
  \A c \in Client : pc[c] \in Open \union {"closed"} => bound[Shell[c]] = c

(* While answers come in time, a client prints the reply to the request it *)
(* made, also when clients of the same shell overlap and the daemon is     *)
(* restarted between them ("pop  Get the last action from the action       *)
(* stack.", client/main.c:131).                                            *)
ReplyIsMine == \A c \in Client : got[c] # NoClient => got[c] = c

(* While answers come in time, a request whose client reports a failure    *)
(* was not carried out and may be made again, with one exception: a signal *)
(* that ends the daemon between a handler's last write and its reply       *)
(* leaves the work done and the client without an answer.  A request that  *)
(* is only queued when the daemon ends is never such a one.                *)
FailedMeansNotDone ==
  \A c \in Client : result[c] = "failed" /\ c \in carried => c \in cut
=============================================================================
