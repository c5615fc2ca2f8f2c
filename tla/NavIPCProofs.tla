----------------------------- MODULE NavIPCProofs -----------------------------
(***************************************************************************)
(* Theorems about NavIPC, for any number of shells, clients, daemon        *)
(* restarts and queue lengths: types; no reply crosses from one shell to   *)
(* another; without kills no socket file is left behind; without SIGINT a  *)
(* client's path is its own; and when answers also come in time, a client  *)
(* prints its own answer, and what failed was not done, but where the      *)
(* daemon ended before it could say so.                                    *)
(***************************************************************************)
EXTENDS NavIPC, SequenceTheorems, TLAPS

NoKill == "kill" \notin Signals
NoInterrupt == "int" \notin Signals
Prompt == NoInterrupt /\ ~Late

-----------------------------------------------------------------------------
(* Queues.                                                                 *)

In(c, q) == \E i \in 1..Len(q) : q[i] = c
Once(q) == \A i, j \in 1..Len(q) : q[i] = q[j] => i = j

LEMMA TailOf ==
  ASSUME NEW q \in Seq(Client), q # <<>>
  PROVE  /\ Head(q) \in Client /\ Tail(q) \in Seq(Client)
         /\ Len(Tail(q)) = Len(q) - 1 /\ Len(q) \in Nat \ {0}
         /\ In(Head(q), q)
         /\ \A c : In(c, Tail(q)) => In(c, q)
         /\ Once(q) => Once(Tail(q)) /\ ~In(Head(q), Tail(q))
<1>1. /\ Head(q) \in Client /\ Tail(q) \in Seq(Client)
      /\ Len(Tail(q)) = Len(q) - 1
      /\ \A i \in 1..Len(Tail(q)) : Tail(q)[i] = q[i + 1]
  BY HeadTailProperties
<1>2. Len(q) \in Nat \ {0} /\ Head(q) = q[1]
  BY EmptySeq
<1>3. In(Head(q), q)
  BY <1>2 DEF In
<1>4. \A c : In(c, Tail(q)) => In(c, q)
  BY <1>1, <1>2 DEF In
<1>5. Once(q) => Once(Tail(q)) /\ ~In(Head(q), Tail(q))
  BY <1>1, <1>2 DEF In, Once
<1> QED BY <1>1, <1>2, <1>3, <1>4, <1>5

LEMMA AppendTo ==
  ASSUME NEW q \in Seq(Client), NEW c \in Client
  PROVE  /\ Append(q, c) \in Seq(Client) /\ Append(q, c) # <<>>
         /\ Len(Append(q, c)) = Len(q) + 1 /\ Len(q) \in Nat
         /\ \A e : In(e, Append(q, c)) <=> In(e, q) \/ e = c
         /\ Once(q) /\ ~In(c, q) => Once(Append(q, c))
<1>1. /\ Append(q, c) \in Seq(Client) /\ Append(q, c) # <<>>
      /\ Len(Append(q, c)) = Len(q) + 1
      /\ \A i \in 1..Len(q) : Append(q, c)[i] = q[i]
      /\ Append(q, c)[Len(q) + 1] = c
  BY AppendProperties
<1>2. Len(q) \in Nat
  BY LenProperties
<1>3. \A e : In(e, Append(q, c)) <=> In(e, q) \/ e = c
  BY <1>1, <1>2 DEF In
<1>4. Once(q) /\ ~In(c, q) => Once(Append(q, c))
  BY <1>1, <1>2 DEF In, Once
<1> QED BY <1>1, <1>2, <1>3, <1>4

LEMMA EmptyQueue ==
  <<>> \in Seq(Client) /\ Len(<<>>) = 0 /\ Once(<<>>) /\ \A c : ~In(c, <<>>)
BY EmptySeq DEF In, Once

(* A reply goes to at most one socket, the one at the path, and to none    *)
(* that is closed or connected to another daemon.                          *)
Accepts(e, p) ==
  e = bound[p] /\ e # NoClient /\ pc[e] \in Open /\ peer[e] \in {0, daemon}

LEMMA Delivery ==
  ASSUME TypeOK, NEW p \in Pid, NEW c \in Client, Deliver(p, c)
  PROVE  /\ inbox' \in [Client -> Seq(Client)]
         /\ \A e \in Client :
              inbox'[e] = IF Accepts(e, p) THEN Append(inbox[e], c) ELSE inbox[e]
<1>1. bound[p] \in Client \union {NoClient} /\ inbox \in [Client -> Seq(Client)]
  BY DEF TypeOK
<1>2. \A e \in Client : Append(inbox[e], c) \in Seq(Client)
  BY <1>1, AppendTo
<1> QED BY <1>1, <1>2 DEF Deliver, Accepts
-----------------------------------------------------------------------------
(* Types.                                                                  *)

LEMMA TypeStep ==
  ASSUME TypeOK, [Next]_vars
  PROVE  TypeOK'
<1> USE DEF At, Go, End
<1>e. /\ <<>> \in Seq(Client) /\ Len(<<>>) = 0
      /\ QLen \in Nat \ {0} /\ MaxStarts \in Nat
      /\ Shell \in [Client -> Pid] /\ NoClient \notin Client
  BY EmptyQueue, BoundAssumption, ShellAssumption, NoClientAssumption
<1>1. ASSUME NEW c \in Client,
             Begin(c) \/ BindFails(c) \/ ConnectFails(c) \/ Timeout(c) \/ Exit(c)
      PROVE  TypeOK'
  BY <1>1 DEF Begin, BindFails, ConnectFails, Timeout, Exit, server,
              TypeOK, Stage, Ending
<1>2. ASSUME NEW c \in Client, Bind(c) \/ UnlinkPath(c) PROVE TypeOK'
  <2>1. bound' \in [Pid -> Client \union {NoClient}]
    <3>1. \/ bound' = [bound EXCEPT ![Shell[c]] = c]
          \/ bound' = [bound EXCEPT ![Shell[c]] = NoClient]
      BY <1>2 DEF Bind, UnlinkPath, Unlink
    <3>2. bound \in [Pid -> Client \union {NoClient}]
      BY DEF TypeOK
    <3> QED BY <1>e, <3>1, <3>2
  <2>2. pc' \in [Client -> Stage]
    BY <1>2 DEF Bind, UnlinkPath, TypeOK, Stage
  <2> QED BY <1>2, <2>1, <2>2 DEF Bind, UnlinkPath, server, TypeOK
<1>3. ASSUME NEW c \in Client, Connect(c) \/ SendFails(c) PROVE TypeOK'
  <2>1. 0 \in 0..MaxStarts
    BY <1>e
  <2>2. peer' \in [Client -> 0..MaxStarts]
    BY <1>3, <2>1 DEF Connect, SendFails, TypeOK
  <2>3. pc' \in [Client -> Stage]
    BY <1>3 DEF Connect, SendFails, TypeOK, Stage
  <2> QED BY <1>3, <2>2, <2>3 DEF Connect, SendFails, server, TypeOK
<1>4. ASSUME NEW c \in Client, SendRequest(c) PROVE TypeOK'
  <2>1. /\ Append(queue, c) \in Seq(Client)
        /\ Len(Append(queue, c)) = Len(queue) + 1 /\ Len(queue) \in Nat
    BY AppendTo DEF TypeOK
  <2>2. queue' \in Seq(Client) /\ Len(queue') <= QLen
    BY <1>e, <1>4, <2>1 DEF SendRequest
  <2> QED BY <1>4, <2>2 DEF SendRequest, TypeOK, Stage
<1>5. ASSUME NEW c \in Client, Recv(c) PROVE TypeOK'
  <2>1. Head(inbox[c]) \in Client /\ Tail(inbox[c]) \in Seq(Client)
    BY <1>5, TailOf DEF Recv, TypeOK
  <2> QED BY <1>e, <1>5, <2>1 DEF Recv, server, TypeOK, Stage, Ending
<1>6. ASSUME NEW c \in Client, Close(c) PROVE TypeOK'
  BY <1>e, <1>6 DEF Close, server, TypeOK, Stage
<1>7. ASSUME NEW c \in Client, Interrupt(c) \/ Kill(c) PROVE TypeOK'
  <2>1. bound' \in [Pid -> Client \union {NoClient}]
    BY <1>e, <1>7 DEF Interrupt, Kill, Unlink, TypeOK
  <2>2. pc' \in [Client -> Stage] /\ inbox' \in [Client -> Seq(Client)]
    <3>1. pc' = [pc EXCEPT ![c] = "exited"] /\ inbox' = [inbox EXCEPT ![c] = <<>>]
      BY <1>7 DEF Interrupt, Kill
    <3>2. pc \in [Client -> Stage] /\ inbox \in [Client -> Seq(Client)]
      BY DEF TypeOK
    <3>3. "exited" \in Stage
      BY DEF Stage
    <3> QED BY <1>e, <3>1, <3>2, <3>3
  <2>3. /\ result' \in [Client -> Ending]
        /\ \A e \in Client : result'[e] = "ok" => result[e] = "ok"
    BY <1>7 DEF Interrupt, Kill, TypeOK, Ending
  <2> QED BY <1>7, <2>1, <2>2, <2>3 DEF Interrupt, Kill, server, TypeOK
<1>8. ASSUME DaemonStart \/ DaemonStop PROVE TypeOK'
  <2>1. daemon' \in 0..MaxStarts
    BY <1>e, <1>8 DEF DaemonStart, DaemonStop, TypeOK
  <2>2. up' \in BOOLEAN
    BY <1>8 DEF DaemonStart, DaemonStop
  <2>3. queue' \in Seq(Client) /\ Len(queue') <= QLen
    <3>1. CASE queue' = queue
      BY <3>1 DEF TypeOK
    <3>2. CASE queue' = <<>>
      <4>1. 0 <= QLen
        BY <1>e
      <4> QED BY <1>e, <3>2, <4>1
    <3> QED BY <1>8, <3>1, <3>2 DEF DaemonStart, DaemonStop
  <2>4. /\ working' \in carried' \union {NoClient}
        /\ carried' \subseteq Client /\ cut' \subseteq carried'
    BY <1>8 DEF DaemonStart, DaemonStop, TypeOK
  <2> QED BY <1>8, <2>1, <2>2, <2>3, <2>4
          DEF DaemonStart, DaemonStop, clients, TypeOK
<1>9. ASSUME Carry \/ Ignore PROVE TypeOK'
  <2>1. /\ Head(queue) \in Client /\ Tail(queue) \in Seq(Client)
        /\ Len(Tail(queue)) = Len(queue) - 1 /\ Len(queue) \in Nat \ {0}
    BY <1>9, TailOf DEF Carry, Ignore, TypeOK
  <2>2. queue' \in Seq(Client) /\ Len(queue') <= QLen
    <3>1. queue' = Tail(queue) /\ Len(queue) <= QLen
      BY <1>9 DEF Carry, Ignore, TypeOK
    <3> QED BY <1>e, <2>1, <3>1
  <2>3. inbox' \in [Client -> Seq(Client)]
    BY <1>9 DEF Carry, Ignore, TypeOK
  <2>4. /\ working' \in carried' \union {NoClient}
        /\ carried' \subseteq Client /\ cut' \subseteq carried'
    BY <1>9, <2>1 DEF Carry, Ignore, TypeOK
  <2> QED BY <1>9, <2>2, <2>3, <2>4 DEF Carry, Ignore, clients, TypeOK
<1>11. ASSUME Reply PROVE TypeOK'
  <2>1. working \in Client /\ Shell[working] \in Pid
    BY <1>e, <1>11 DEF Reply, TypeOK
  <2>2. inbox' \in [Client -> Seq(Client)]
    BY <1>11, <2>1, Delivery DEF Reply
  <2>3. working' = NoClient
    BY <1>11 DEF Reply
  <2> QED BY <1>11, <2>2, <2>3 DEF Reply, clients, TypeOK
<1>10. CASE UNCHANGED vars
  BY <1>10 DEF vars, clients, server, TypeOK
<1> QED
  BY <1>1, <1>2, <1>3, <1>4, <1>5, <1>6, <1>7, <1>8, <1>9, <1>10, <1>11
     DEF Next, Run, Loop

(* Every variable keeps its type; a client that prints a reply has one,    *)
(* and the daemon's queue stays within its length.                         *)
THEOREM TypeCorrect == Spec => []TypeOK
<1>1. Init => TypeOK
  <2>1. /\ <<>> \in Seq(Client) /\ Len(<<>>) <= QLen /\ 0 \in 0..MaxStarts
    BY EmptyQueue, BoundAssumption
  <2> QED BY <2>1 DEF Init, TypeOK, Stage, Ending
<1> QED BY <1>1, TypeStep, PTL DEF Spec
-----------------------------------------------------------------------------
(* The steps there are, one case each.                                     *)
LEMMA Steps ==
  ASSUME [Next]_vars
  PROVE  \/ \E c \in Client :
              \/ Begin(c) \/ BindFails(c) \/ ConnectFails(c) \/ Timeout(c)
              \/ Exit(c) \/ Connect(c) \/ SendFails(c) \/ SendRequest(c)
              \/ Bind(c) \/ Recv(c) \/ Close(c) \/ UnlinkPath(c)
              \/ Interrupt(c) \/ Kill(c)
         \/ DaemonStart \/ DaemonStop \/ Carry \/ Reply \/ Ignore
         \/ UNCHANGED vars
BY DEF Next, Run, Loop

(* No reply crosses.  What makes it inductive: a socket bound at a shell's *)
(* path belongs to a client of that shell.                                 *)
BoundHome == \A p \in Pid : bound[p] # NoClient => Shell[bound[p]] = p
Sorted ==
  \A c \in Client :
    /\ got[c] # NoClient => Shell[got[c]] = Shell[c]
    /\ \A e \in Client : In(e, inbox[c]) => Shell[e] = Shell[c]
ShellInv == BoundHome /\ Sorted

LEMMA SortedReplies ==
  ASSUME TypeOK, Sorted
  PROVE  RepliesStayInShell
<1> SUFFICES ASSUME NEW c \in Client, NEW i \in 1..Len(inbox[c])
             PROVE  Shell[inbox[c][i]] = Shell[c]
  BY DEF Sorted, RepliesStayInShell
<1>1. inbox[c] \in Seq(Client)
  BY DEF TypeOK
<1>2. inbox[c][i] \in Client
  BY <1>1, ElementOfSeq
<1> QED BY <1>2 DEF Sorted, In

LEMMA ShellStep ==
  ASSUME TypeOK, ShellInv, [Next]_vars
  PROVE  ShellInv'
<1> USE DEF At, Go, End, ShellInv, BoundHome, Sorted
<1>e. /\ \A c \in Client : ~In(c, <<>>)
      /\ Shell \in [Client -> Pid] /\ NoClient \notin Client
      /\ bound \in [Pid -> Client \union {NoClient}]
      /\ inbox \in [Client -> Seq(Client)]
      /\ got \in [Client -> Client \union {NoClient}]
  BY EmptyQueue, ShellAssumption, NoClientAssumption DEF TypeOK
<1>1. ASSUME NEW c \in Client,
             \/ Begin(c) \/ BindFails(c) \/ ConnectFails(c) \/ Timeout(c)
             \/ Exit(c) \/ Connect(c) \/ SendFails(c) \/ SendRequest(c)
      PROVE  ShellInv'
  <2>1. got' = got /\ bound' = bound /\ inbox' = inbox
    BY <1>1 DEF Begin, BindFails, ConnectFails, Timeout, Exit, Connect,
                SendFails, SendRequest
  <2> QED BY <2>1
<1>2. ASSUME NEW c \in Client, Bind(c) \/ UnlinkPath(c) PROVE ShellInv'
  <2>1. /\ got' = got /\ inbox' = inbox
        /\ \/ bound' = [bound EXCEPT ![Shell[c]] = c]
           \/ bound' = [bound EXCEPT ![Shell[c]] = NoClient]
    BY <1>2 DEF Bind, UnlinkPath, Unlink
  <2>2. BoundHome'
    BY <1>e, <2>1
  <2>3. Sorted'
    BY <2>1
  <2> QED BY <2>2, <2>3
<1>3. ASSUME NEW c \in Client, Recv(c) PROVE ShellInv'
  <2>1. /\ Head(inbox[c]) \in Client /\ In(Head(inbox[c]), inbox[c])
        /\ \A e : In(e, Tail(inbox[c])) => In(e, inbox[c])
    BY <1>e, <1>3, TailOf DEF Recv
  <2>2. /\ got' = [got EXCEPT ![c] = Head(inbox[c])]
        /\ inbox' = [inbox EXCEPT ![c] = Tail(inbox[c])]
        /\ bound' = bound
    BY <1>3 DEF Recv
  <2> QED BY <1>e, <2>1, <2>2
<1>4. ASSUME NEW c \in Client, Close(c) \/ Interrupt(c) \/ Kill(c)
      PROVE  ShellInv'
  <2>1. /\ inbox' = [inbox EXCEPT ![c] = <<>>] /\ got' = got
        /\ \/ bound' = bound
           \/ bound' = [bound EXCEPT ![Shell[c]] = NoClient]
    BY <1>4 DEF Close, Interrupt, Kill, Unlink
  <2> QED BY <1>e, <2>1
<1>5. ASSUME Reply PROVE ShellInv'
  <2> DEFINE h == working
  <2>1. h \in Client /\ Shell[h] \in Pid
    BY <1>e, <1>5 DEF Reply, TypeOK
  <2>2. \A e \in Client :
          inbox'[e] = IF Accepts(e, Shell[h]) THEN Append(inbox[e], h)
                      ELSE inbox[e]
    BY <1>5, <2>1, Delivery DEF Reply
  <2>3. got' = got /\ bound' = bound
    BY <1>5 DEF Reply, clients
  <2>4. ASSUME NEW c \in Client, NEW e \in Client, In(e, inbox'[c])
        PROVE  Shell[e] = Shell[c]
    <3>1. CASE Accepts(c, Shell[h])
      <4>1. In(e, inbox[c]) \/ e = h
        BY <1>e, <2>1, <2>2, <2>4, <3>1, AppendTo
      <4>2. Shell[c] = Shell[h]
        BY <2>1, <3>1 DEF Accepts
      <4> QED BY <4>1, <4>2
    <3>2. CASE ~Accepts(c, Shell[h])
      BY <2>2, <2>4, <3>2
    <3> QED BY <3>1, <3>2
  <2> QED BY <2>3, <2>4
<1>6. ASSUME DaemonStart \/ DaemonStop \/ Carry \/ Ignore \/ UNCHANGED vars
      PROVE  ShellInv'
  BY <1>6 DEF DaemonStart, DaemonStop, Carry, Ignore, vars, clients
<1> QED BY <1>1, <1>2, <1>3, <1>4, <1>5, <1>6, Steps

(* Late, interrupted, killed or restarted: no reply reaches a client of    *)
(* another shell, in its socket or on its output.                          *)
THEOREM RepliesNeverCross == Spec => []RepliesStayInShell
<1>1. Init => ShellInv
  BY EmptyQueue DEF Init, ShellInv, BoundHome, Sorted
<1>2. TypeOK /\ ShellInv /\ [Next]_vars => ShellInv'
  BY ShellStep
<1>3. TypeOK /\ ShellInv => RepliesStayInShell
  BY SortedReplies DEF ShellInv
<1> QED BY <1>1, <1>2, <1>3, TypeCorrect, PTL DEF Spec
-----------------------------------------------------------------------------
(* No file is left.  A path that is bound is bound by a client of that     *)
(* shell that has yet to come to its unlink.                               *)
OwnersLive ==
  \A p \in Pid :
    bound[p] # NoClient =>
      Shell[bound[p]] = p /\ pc[bound[p]] \in Open \union {"closed"}

LEMMA OwnersStep ==
  ASSUME NoKill, TypeOK, OwnersLive, [Next]_vars
  PROVE  OwnersLive'
<1> USE DEF At, Go, OwnersLive, Open
<1>e. /\ Shell \in [Client -> Pid] /\ NoClient \notin Client
      /\ bound \in [Pid -> Client \union {NoClient}]
      /\ pc \in [Client -> Stage]
  BY ShellAssumption, NoClientAssumption DEF TypeOK
<1>1. ASSUME NEW c \in Client,
             \/ Begin(c) \/ BindFails(c) \/ Exit(c)
             \/ ConnectFails(c) \/ Timeout(c) \/ Connect(c) \/ SendFails(c)
             \/ SendRequest(c) \/ Recv(c) \/ Close(c)
      PROVE  OwnersLive'
  <2>1. bound' = bound
    BY <1>1 DEF Begin, BindFails, Exit, ConnectFails, Timeout, Connect,
                SendFails, SendRequest, Recv, Close
  <2>2. /\ \A e \in Client \ {c} : pc'[e] = pc[e]
        /\ pc[c] \in Open \union {"closed"} => pc'[c] \in Open \union {"closed"}
    BY <1>e, <1>1 DEF Begin, BindFails, Exit, ConnectFails, Timeout, Connect,
                SendFails, SendRequest, Recv, Close
  <2> QED BY <1>e, <2>1, <2>2
<1>2. ASSUME NEW c \in Client, Bind(c) PROVE OwnersLive'
  BY <1>e, <1>2 DEF Bind
<1>3. ASSUME NEW c \in Client, UnlinkPath(c) \/ Interrupt(c)
      PROVE  OwnersLive'
  <2>1. /\ bound' = [bound EXCEPT ![Shell[c]] = NoClient]
        /\ \A e \in Client \ {c} : pc'[e] = pc[e]
    BY <1>e, <1>3 DEF UnlinkPath, Interrupt, Unlink
  <2> QED BY <1>e, <2>1
<1>4. ASSUME NEW c \in Client, Kill(c) PROVE FALSE
  BY <1>4 DEF Kill, NoKill
<1>5. ASSUME \/ DaemonStart \/ DaemonStop \/ Carry \/ Reply \/ Ignore
             \/ UNCHANGED vars
      PROVE  OwnersLive'
  BY <1>5 DEF DaemonStart, DaemonStop, Carry, Reply, Ignore, vars, clients
<1> QED BY <1>1, <1>2, <1>3, <1>4, <1>5, Steps

(* Without kills no socket file stays behind, whenever SIGINT strikes.     *)
THEOREM NothingIsLeftBound == ASSUME NoKill PROVE Spec => []NoStaleSocket
<1>1. Init => OwnersLive
  BY DEF Init, OwnersLive
<1>2. TypeOK /\ OwnersLive /\ [Next]_vars => OwnersLive'
  BY OwnersStep
<1>3. OwnersLive => NoStaleSocket
  BY DEF OwnersLive, NoStaleSocket, Open
<1> QED BY <1>1, <1>2, <1>3, TypeCorrect, PTL DEF Spec
-----------------------------------------------------------------------------
(* A client's path is its own.  The property is inductive as it stands: a  *)
(* client binds a path nobody has, and unlinks it when it is its own.      *)
LEMMA PathStep ==
  ASSUME NoInterrupt, TypeOK, PathIsMine, [Next]_vars
  PROVE  PathIsMine'
<1> USE DEF At, Go, PathIsMine, Open
<1>e. /\ Shell \in [Client -> Pid] /\ NoClient \notin Client
      /\ bound \in [Pid -> Client \union {NoClient}]
      /\ pc \in [Client -> Stage]
  BY ShellAssumption, NoClientAssumption DEF TypeOK
<1>1. ASSUME NEW c \in Client,
             \/ Begin(c) \/ BindFails(c) \/ Exit(c) \/ Kill(c)
             \/ ConnectFails(c) \/ Timeout(c) \/ Connect(c) \/ SendFails(c)
             \/ SendRequest(c) \/ Recv(c) \/ Close(c)
      PROVE  PathIsMine'
  <2>1. bound' = bound
    BY <1>1 DEF Begin, BindFails, Exit, Kill, ConnectFails, Timeout, Connect,
                SendFails, SendRequest, Recv, Close
  <2>2. /\ \A e \in Client \ {c} : pc'[e] = pc[e]
        /\ pc'[c] \in Open \union {"closed"} => pc[c] \in Open \union {"closed"}
    BY <1>e, <1>1 DEF Begin, BindFails, Exit, Kill, ConnectFails, Timeout,
                Connect, SendFails, SendRequest, Recv, Close
  <2> QED BY <1>e, <2>1, <2>2
<1>2. ASSUME NEW c \in Client, Bind(c) PROVE PathIsMine'
  BY <1>e, <1>2 DEF Bind
<1>3. ASSUME NEW c \in Client, UnlinkPath(c) PROVE PathIsMine'
  BY <1>e, <1>3 DEF UnlinkPath, Unlink
<1>4. ASSUME NEW c \in Client, Interrupt(c) PROVE FALSE
  BY <1>4 DEF Interrupt, NoInterrupt
<1>5. ASSUME \/ DaemonStart \/ DaemonStop \/ Carry \/ Reply \/ Ignore
             \/ UNCHANGED vars
      PROVE  PathIsMine'
  BY <1>5 DEF DaemonStart, DaemonStop, Carry, Reply, Ignore, vars, clients
<1> QED BY <1>1, <1>2, <1>3, <1>4, <1>5, Steps

(* Without SIGINT, and with kills, restarts and late answers, a client's   *)
(* path is its own until it unlinks it.                                    *)
THEOREM PathStaysMine == ASSUME NoInterrupt PROVE Spec => []PathIsMine
<1>1. Init => PathIsMine
  BY DEF Init, PathIsMine, Open
<1>2. TypeOK /\ PathIsMine /\ [Next]_vars => PathIsMine'
  BY PathStep
<1> QED BY <1>1, <1>2, TypeCorrect, PTL DEF Spec
-----------------------------------------------------------------------------
(* Answers in time.  A request in the queue, or in the daemon's hands, is  *)
(* its client's only one; the client waits for it, unanswered, or was      *)
(* killed, and in both cases the path is still the client's: nobody else   *)
(* gets the answer.  An answer is in the socket of the client it is for    *)
(* until that one reads it.                                                *)
Asked(c) ==
  /\ pc[c] \in {"waiting", "exited"}
  /\ bound[Shell[c]] = c
  /\ inbox[c] = <<>>
  /\ peer[c] = daemon
  /\ result[c] # "failed"

Own(c) ==
  /\ got[c] # NoClient => got[c] = c
  /\ \A e \in Client : In(e, inbox[c]) => e = c
  /\ inbox[c] # <<>> => pc[c] \in {"waiting", "closing"}
  /\ pc[c] \in {"idle", "named", "bound", "connected", "waiting"} =>
       result[c] = "none"

Done(c) ==
  /\ pc[c] \in {"waiting", "closing", "closed", "unlinked", "exited"}
  /\ pc[c] = "waiting" => inbox[c] # <<>>
  /\ result[c] # "failed"

Held(c) == In(c, queue) \/ working = c

Tracked(c) ==
  /\ Held(c) => Asked(c)
  /\ Own(c)
  /\ c \in carried => working = c \/ c \in cut \/ Done(c)

PromptInv ==
  /\ Once(queue)
  /\ ~up => queue = <<>> /\ working = NoClient
  /\ ~In(working, queue)
  /\ \A c \in Client : Tracked(c)

(* A client's own step that leaves the queue and the paths alone.          *)
LEMMA OwnStep ==
  ASSUME PromptInv, NEW c \in Client,
         UNCHANGED <<server, bound>>,
         \A e \in Client \ {c} :
           /\ pc'[e] = pc[e] /\ result'[e] = result[e] /\ got'[e] = got[e]
           /\ inbox'[e] = inbox[e] /\ peer'[e] = peer[e],
         Held(c) => Asked(c)', Own(c)', c \in carried \ cut => working = c \/ Done(c)'
  PROVE  PromptInv'
<1>1. /\ queue' = queue /\ up' = up /\ daemon' = daemon /\ working' = working
      /\ carried' = carried /\ cut' = cut /\ bound' = bound
  BY DEF server
<1>2. ASSUME NEW e \in Client, e # c PROVE Tracked(e)'
  <2>1. /\ pc'[e] = pc[e] /\ result'[e] = result[e] /\ got'[e] = got[e]
        /\ inbox'[e] = inbox[e] /\ peer'[e] = peer[e]
    BY <1>2
  <2> QED BY <1>1, <2>1 DEF PromptInv, Tracked, Held, Asked, Own, Done
<1>3. Tracked(c)'
  BY <1>1 DEF Tracked, Held
<1> QED BY <1>1, <1>2, <1>3 DEF PromptInv

LEMMA PromptStep ==
  ASSUME Prompt, TypeOK, PathIsMine, PromptInv, [Next]_vars
  PROVE  PromptInv'
<1> USE DEF At, Go, End
<1>e. /\ Shell \in [Client -> Pid] /\ NoClient \notin Client
      /\ bound \in [Pid -> Client \union {NoClient}]
      /\ pc \in [Client -> Stage]
      /\ result \in [Client -> Ending]
      /\ got \in [Client -> Client \union {NoClient}]
      /\ inbox \in [Client -> Seq(Client)]
      /\ peer \in [Client -> 0..MaxStarts]
      /\ queue \in Seq(Client)
  BY ShellAssumption, NoClientAssumption DEF TypeOK
<1>p. \A c \in Client :
        /\ Held(c) => Asked(c)
        /\ Own(c)
        /\ c \in carried => working = c \/ c \in cut \/ Done(c)
  BY DEF PromptInv, Tracked
<1>n. \A c : ~In(c, <<>>)
  BY EmptyQueue
<1>1. ASSUME NEW c \in Client,
             Begin(c) \/ BindFails(c) \/ ConnectFails(c) \/ Connect(c)
               \/ SendFails(c)
      PROVE  PromptInv'
  <2>1. pc[c] \in {"idle", "named", "bound", "connected"}
    BY <1>1 DEF Begin, BindFails, ConnectFails, Connect, SendFails
  <2>2. ~Held(c) /\ c \notin carried \ cut /\ inbox[c] = <<>>
    BY <1>p, <2>1 DEF Held, Asked, Own, Done
  <2>3. /\ UNCHANGED <<server, bound>> /\ got' = got /\ inbox' = inbox
        /\ \A e \in Client \ {c} :
             pc'[e] = pc[e] /\ result'[e] = result[e] /\ peer'[e] = peer[e]
        /\ pc'[c] \in {"idle", "named", "bound", "connected", "waiting"} =>
             result'[c] = result[c]
    BY <1>e, <1>1 DEF Begin, BindFails, ConnectFails, Connect, SendFails
  <2>4. Own(c)'
    BY <1>p, <1>n, <2>1, <2>2, <2>3 DEF Own
  <2> QED BY <2>2, <2>3, <2>4, OwnStep
<1>2. ASSUME NEW c \in Client, Timeout(c) PROVE PromptInv'
  <2>1. ~Held(c) /\ inbox[c] = <<>> /\ pc[c] = "waiting"
    BY <1>2 DEF Timeout, Prompt, Pending, Held, In
  <2>2. c \notin carried \ cut
    BY <1>p, <2>1 DEF Held, Done
  <2>3. /\ UNCHANGED <<server, bound>> /\ got' = got /\ inbox' = inbox
        /\ peer' = peer /\ pc'[c] = "closing"
        /\ \A e \in Client \ {c} : pc'[e] = pc[e] /\ result'[e] = result[e]
    BY <1>e, <1>2 DEF Timeout
  <2>4. Own(c)'
    BY <1>p, <1>n, <2>1, <2>3 DEF Own
  <2> QED BY <2>1, <2>2, <2>3, <2>4, OwnStep
<1>3. ASSUME NEW c \in Client, Recv(c) PROVE PromptInv'
  <2>1. /\ pc[c] = "waiting" /\ inbox[c] # <<>>
        /\ UNCHANGED <<server, bound>> /\ peer' = peer
        /\ pc'[c] = "closing" /\ result'[c] = "ok"
        /\ got'[c] = Head(inbox[c]) /\ inbox'[c] = Tail(inbox[c])
        /\ \A e \in Client \ {c} :
             /\ pc'[e] = pc[e] /\ result'[e] = result[e] /\ got'[e] = got[e]
             /\ inbox'[e] = inbox[e]
    BY <1>e, <1>3 DEF Recv
  <2>2. ~Held(c)
    BY <1>p, <2>1 DEF Asked
  <2>3. /\ Head(inbox[c]) = c
        /\ \A e \in Client : In(e, Tail(inbox[c])) => e = c
    <3>1. /\ Head(inbox[c]) \in Client /\ In(Head(inbox[c]), inbox[c])
          /\ \A e : In(e, Tail(inbox[c])) => In(e, inbox[c])
      BY <1>e, <2>1, TailOf
    <3> QED BY <1>p, <3>1 DEF Own
  <2>4. Own(c)' /\ Done(c)'
    BY <2>1, <2>3 DEF Own, Done
  <2> QED BY <2>1, <2>2, <2>4, OwnStep
<1>4. ASSUME NEW c \in Client, Close(c) \/ Exit(c) PROVE PromptInv'
  <2>1. /\ pc[c] \in {"closing", "unlinked", "refused"}
        /\ pc'[c] \in {"closed", "exited"}
        /\ UNCHANGED <<server, bound>> /\ peer' = peer /\ got' = got
        /\ result' = result
        /\ inbox'[c] = <<>> \/ (inbox'[c] = inbox[c] /\ pc[c] # "closing")
        /\ \A e \in Client \ {c} : pc'[e] = pc[e] /\ inbox'[e] = inbox[e]
    BY <1>e, <1>4 DEF Close, Exit
  <2>2. ~Held(c) /\ inbox'[c] = <<>>
    BY <1>p, <2>1 DEF Asked, Own
  <2>3. Own(c)' /\ (c \in carried \ cut => Done(c)')
    BY <1>p, <1>n, <2>1, <2>2 DEF Held, Own, Done
  <2> QED BY <2>1, <2>2, <2>3, OwnStep
<1>5. ASSUME NEW c \in Client, Kill(c) PROVE PromptInv'
  <2>1. /\ pc'[c] = "exited" /\ result'[c] = "killed" /\ inbox'[c] = <<>>
        /\ UNCHANGED <<server, bound>> /\ peer' = peer /\ got' = got
        /\ \A e \in Client \ {c} :
             pc'[e] = pc[e] /\ result'[e] = result[e] /\ inbox'[e] = inbox[e]
    BY <1>e, <1>5 DEF Kill
  <2>2. Held(c) => Asked(c)'
    BY <1>p, <2>1 DEF Asked, server
  <2>3. Own(c)' /\ Done(c)'
    BY <1>p, <1>n, <2>1 DEF Own, Done
  <2> QED BY <2>1, <2>2, <2>3, OwnStep
<1>6. ASSUME NEW c \in Client, Bind(c) \/ UnlinkPath(c) PROVE PromptInv'
  <2>1. /\ pc[c] \in {"named", "closed"} /\ pc'[c] \in {"bound", "unlinked"}
        /\ pc'[c] = "bound" <=> pc[c] = "named"
        /\ bound[Shell[c]] \in {c, NoClient}
        /\ \A e \in Client : Shell[e] # Shell[c] => bound'[Shell[e]] = bound[Shell[e]]
        /\ UNCHANGED server /\ got' = got /\ inbox' = inbox /\ peer' = peer
        /\ result' = result
        /\ \A e \in Client \ {c} : pc'[e] = pc[e]
    BY <1>e, <1>6 DEF Bind, UnlinkPath, Unlink, PathIsMine
  <2>2. /\ queue' = queue /\ up' = up /\ daemon' = daemon
        /\ working' = working /\ carried' = carried /\ cut' = cut
    BY <2>1 DEF server
  <2>3. ~Held(c) /\ inbox[c] = <<>>
    BY <1>p, <2>1 DEF Asked, Own
  <2>4. Own(c)' /\ (c \in carried \ cut => Done(c)')
    BY <1>p, <1>n, <2>1, <2>3 DEF Held, Own, Done
  <2>5. Tracked(c)'
    BY <2>2, <2>3, <2>4 DEF Tracked, Held
  <2>6. ASSUME NEW e \in Client, e # c PROVE Tracked(e)'
    <3>1. Held(e) => Shell[e] # Shell[c]
      BY <1>e, <1>p, <2>1, <2>6 DEF Asked
    <3>2. pc'[e] = pc[e]
      BY <2>1, <2>6
    <3> QED BY <1>p, <2>1, <2>2, <3>1, <3>2 DEF Tracked, Held, Asked, Own, Done
  <2> QED BY <2>2, <2>5, <2>6 DEF PromptInv
<1>7. ASSUME NEW c \in Client, SendRequest(c) PROVE PromptInv'
  <2>1. /\ pc[c] = "connected" /\ pc'[c] = "waiting" /\ peer[c] = daemon /\ up
        /\ queue' = Append(queue, c)
        /\ UNCHANGED <<result, got, peer, daemon, up, working, carried, cut,
                       bound, inbox>>
        /\ \A e \in Client \ {c} : pc'[e] = pc[e]
    BY <1>e, <1>7 DEF SendRequest, Reaches
  <2>2. /\ ~In(c, queue) /\ working # c /\ c \notin carried \ cut
        /\ inbox[c] = <<>> /\ result[c] = "none"
    BY <1>p, <2>1 DEF Held, Asked, Own, Done
  <2>3. bound[Shell[c]] = c
    BY <2>1 DEF PathIsMine, Open
  <2>4. /\ \A e : In(e, queue') <=> In(e, queue) \/ e = c
        /\ Once(queue')
    BY <1>e, <2>1, <2>2, AppendTo DEF PromptInv
  <2>5. Asked(c)' /\ Own(c)'
    BY <1>p, <1>n, <2>1, <2>2, <2>3 DEF Asked, Own
  <2>6. Tracked(c)'
    BY <2>1, <2>2, <2>5 DEF Tracked
  <2>7. ASSUME NEW e \in Client, e # c PROVE Tracked(e)'
    <3>1. pc'[e] = pc[e]
      BY <2>1, <2>7
    <3>2. Held(e)' => Held(e)
      BY <2>1, <2>4, <2>7 DEF Held
    <3> QED BY <1>p, <2>1, <3>1, <3>2 DEF Tracked, Asked, Own, Done
  <2>8. ~In(working, queue)'
    BY <2>1, <2>2, <2>4 DEF PromptInv
  <2> QED BY <2>1, <2>4, <2>6, <2>7, <2>8 DEF PromptInv
<1>8. ASSUME DaemonStart \/ DaemonStop PROVE PromptInv'
  <2>1. /\ queue' = <<>> /\ working' = NoClient /\ carried' = carried
        /\ cut' = cut \union ({working} \ {NoClient})
        /\ pc' = pc /\ result' = result /\ got' = got /\ inbox' = inbox
    BY <1>8 DEF DaemonStart, DaemonStop, clients, PromptInv
  <2>2. ASSUME NEW c \in Client PROVE Tracked(c)'
    <3>1. ~Held(c)'
      BY <1>e, <1>n, <2>1 DEF Held
    <3>2. c \in carried' => c \in cut' \/ Done(c)'
      BY <1>e, <1>p, <2>1 DEF Done
    <3> QED BY <1>p, <2>1, <3>1, <3>2 DEF Tracked, Own
  <2> QED BY <2>1, <2>2, EmptyQueue DEF PromptInv
<1>9. ASSUME Ignore PROVE PromptInv'
  <2>1. queue # <<>> /\ queue' = Tail(queue) /\ up /\ up' = up
        /\ daemon' = daemon /\ working' = working /\ carried' = carried
        /\ cut' = cut /\ bound' = bound
        /\ pc' = pc /\ result' = result /\ got' = got /\ inbox' = inbox
        /\ peer' = peer
    BY <1>9 DEF Ignore, clients
  <2>2. Once(queue') /\ \A c : In(c, queue') => In(c, queue)
    BY <1>e, <2>1, TailOf DEF PromptInv
  <2>3. ASSUME NEW c \in Client PROVE Tracked(c)'
    BY <1>p, <2>1, <2>2 DEF Tracked, Held, Asked, Own, Done
  <2> QED BY <2>1, <2>2, <2>3 DEF PromptInv
<1>13. ASSUME Carry PROVE PromptInv'
  <2>0. queue # <<>> /\ Head(queue) \in Client
    BY <1>e, <1>13, TailOf DEF Carry
  <2>h. PICK h \in Client : h = Head(queue)
    BY <2>0
  <2>1. /\ queue # <<>> /\ queue' = Tail(queue) /\ up /\ up' = up
        /\ daemon' = daemon /\ bound' = bound /\ inbox' = inbox
        /\ working = NoClient /\ working' = h
        /\ carried' = carried \union {h} /\ cut' = cut
        /\ pc' = pc /\ result' = result /\ got' = got /\ peer' = peer
    BY <1>13, <2>h DEF Carry, clients
  <2>2. /\ In(h, queue) /\ Once(queue') /\ ~In(h, queue')
        /\ \A c : In(c, queue') => In(c, queue)
    BY <1>e, <2>h, <2>1, TailOf DEF PromptInv
  <2>3. ASSUME NEW c \in Client PROVE Tracked(c)'
    <3>1. Held(c)' => Held(c)
      BY <2>1, <2>2 DEF Held
    <3>2. c \in carried' => working' = c \/ c \in carried
      BY <2>1
    <3> QED BY <1>e, <1>p, <2>1, <3>1, <3>2 DEF Tracked, Asked, Own, Done
  <2> QED BY <2>1, <2>2, <2>3 DEF PromptInv
<1>10. ASSUME Reply PROVE PromptInv'
  <2>0. working \in Client
    BY <1>10 DEF Reply, TypeOK
  <2>h. PICK h \in Client : h = working
    BY <2>0
  <2>1. /\ queue' = queue /\ up /\ up' = up
        /\ daemon' = daemon /\ bound' = bound /\ Deliver(Shell[h], h)
        /\ working' = NoClient /\ carried' = carried /\ cut' = cut
        /\ pc' = pc /\ result' = result /\ got' = got /\ peer' = peer
    BY <1>10, <2>h DEF Reply, clients
  <2>2. h \in Client /\ Held(h) /\ ~In(h, queue)
    BY <2>h DEF PromptInv, Held
  <2>3. Asked(h) /\ Own(h) /\ Shell[h] \in Pid
    BY <1>e, <1>p, <2>2
  <2>4. \A e \in Client :
          inbox'[e] = IF Accepts(e, Shell[h]) THEN Append(inbox[e], h)
                      ELSE inbox[e]
    BY <2>1, <2>2, <2>3, Delivery
  <2>5. /\ \A e \in Client : Accepts(e, Shell[h]) => e = h
        /\ pc[h] = "waiting" => Accepts(h, Shell[h])
        /\ pc[h] = "exited" => ~Accepts(h, Shell[h])
    BY <1>e, <2>2, <2>3 DEF Asked, Accepts, Open
  <2>6. Own(h)' /\ Done(h)'
    <3>1. CASE pc[h] = "waiting"
      <4>1. inbox'[h] = Append(<<>>, h)
        BY <2>2, <2>3, <2>4, <2>5, <3>1 DEF Asked
      <4>2. inbox'[h] # <<>> /\ \A e : In(e, inbox'[h]) => e = h
        <5>1. <<>> \in Seq(Client)
          OBVIOUS
        <5>2. /\ Append(<<>>, h) # <<>>
              /\ \A e : In(e, Append(<<>>, h)) <=> In(e, <<>>) \/ e = h
          BY <2>2, <5>1, AppendTo
        <5>3. \A e : In(e, inbox'[h]) <=> In(e, <<>>) \/ e = h
          BY <4>1, <5>2
        <5> QED BY <4>1, <5>2, <5>3, EmptyQueue
      <4> QED BY <2>1, <2>3, <3>1, <4>2 DEF Asked, Own, Done
    <3>2. CASE pc[h] = "exited"
      <4>1. inbox'[h] = inbox[h]
        BY <2>2, <2>4, <2>5, <3>2
      <4> QED BY <2>1, <2>3, <3>2, <4>1 DEF Asked, Own, Done
    <3> QED BY <2>3, <3>1, <3>2 DEF Asked
  <2>7. Tracked(h)'
    BY <1>e, <2>1, <2>2, <2>6 DEF Tracked, Held
  <2>8. ASSUME NEW e \in Client, e # h PROVE Tracked(e)'
    <3>1. inbox'[e] = inbox[e]
      BY <2>4, <2>5, <2>8
    <3>2. Held(e)' => Held(e)
      BY <1>e, <2>1 DEF Held
    <3> QED BY <1>p, <2>h, <2>1, <2>8, <3>1, <3>2
            DEF Tracked, Asked, Own, Done
  <2>9. ~In(working', queue')
    <3>1. ASSUME NEW i \in 1..Len(queue) PROVE queue[i] # NoClient
      BY <1>e, ElementOfSeq
    <3> QED BY <2>1, <3>1 DEF In
  <2> QED BY <2>1, <2>7, <2>8, <2>9 DEF PromptInv
<1>11. ASSUME NEW c \in Client, Interrupt(c) PROVE FALSE
  BY <1>11 DEF Interrupt, Prompt, NoInterrupt
<1>12. CASE UNCHANGED vars
  BY <1>12 DEF vars, clients, server, PromptInv, Tracked, Held, Asked, Own, Done
<1> QED
  BY <1>1, <1>2, <1>3, <1>4, <1>5, <1>6, <1>7, <1>8, <1>9, <1>10, <1>11,
     <1>12, <1>13, Steps

LEMMA PromptAlways == ASSUME Prompt PROVE Spec => []PromptInv
<1>1. Init => PromptInv
  BY EmptyQueue, NoClientAssumption
     DEF Init, PromptInv, Tracked, Held, Asked, Own, Done
<1>2. TypeOK /\ PathIsMine /\ PromptInv /\ [Next]_vars => PromptInv'
  BY PromptStep
<1>3. Spec => []PathIsMine
  BY PathStaysMine DEF Prompt
<1> QED BY <1>1, <1>2, <1>3, TypeCorrect, PTL DEF Spec

(* While answers come in time and SIGINT stays away, a client prints the   *)
(* answer to its own request, whoever overlaps and whoever is killed.      *)
THEOREM ReplyStaysMine == ASSUME Prompt PROVE Spec => []ReplyIsMine
<1>1. PromptInv => ReplyIsMine
  BY DEF PromptInv, Tracked, Own, ReplyIsMine
<1> QED BY <1>1, PromptAlways, PTL

(* ... and what it reports as failed was not carried out, unless a signal  *)
(* ended the daemon between doing it and saying so.                        *)
THEOREM FailureIsHonest == ASSUME Prompt PROVE Spec => []FailedMeansNotDone
<1>1. TypeOK /\ PromptInv => FailedMeansNotDone
  <2> SUFFICES ASSUME TypeOK, PromptInv, NEW c \in Client,
                      result[c] = "failed", c \in carried
               PROVE  c \in cut
    BY DEF FailedMeansNotDone
  <2>1. Tracked(c)
    BY DEF PromptInv
  <2> QED BY <2>1 DEF Tracked, Held, Asked, Done
<1> QED BY <1>1, PromptAlways, TypeCorrect, PTL
=============================================================================
