-------------------------- MODULE DaemonProcessProofs --------------------------
(***************************************************************************)
(* Theorems about DaemonProcess, for any number of daemons, tags and ends  *)
(* from outside: types, what the tag file reads back as, which daemons     *)
(* answer from it, and who is at nav.sock.                                 *)
(***************************************************************************)
EXTENDS DaemonProcess, SequenceTheorems, TLAPS

Line == Tag \union {Blank}

-----------------------------------------------------------------------------
(* Lists and files.                                                        *)

(* A part of a sequence.                                                   *)
LEMMA PartOfSeq ==
  ASSUME NEW S, NEW s \in Seq(S), NEW m \in Nat \ {0}, NEW n \in 0..Len(s)
  PROVE  /\ SubSeq(s, m, n) \in Seq(S)
         /\ Len(SubSeq(s, m, n)) = IF m <= n THEN n - m + 1 ELSE 0
         /\ \A i \in 1..(n - m + 1) : SubSeq(s, m, n)[i] = s[m + i - 1]
<1>1. Len(s) \in Nat
  BY LenProperties
<1>2. \A i \in m..n : s[i] \in S
  <2> SUFFICES ASSUME NEW i \in m..n PROVE s[i] \in S
    OBVIOUS
  <2>1. i \in 1..Len(s)
    BY <1>1
  <2> QED BY <2>1, ElementOfSeq
<1>3. m \in Int /\ n \in Int
  BY <1>1
<1> QED BY <1>2, <1>3, SubSeqProperties

(* The reader finds exactly what was printed before the first empty line,  *)
(* whatever lies behind it: that is why write_tag_file ends with one.      *)
LEMMA WrittenIsReadBack ==
  ASSUME NEW l \in Seq(Tag), NEW f \in Seq(Line)
  PROVE  /\ Over(f, Lines(l)) \in Seq(Line)
         /\ ReadBack(Over(f, Lines(l))) = l
<1> DEFINE n == Len(l) + 1
           w == Append(l, Blank)
           r == SubSeq(f, n + 1, Len(f))
           g == w \o r
<1>1. /\ l \in Seq(Line) /\ Blank \in Line
      /\ Len(l) \in Nat /\ Len(f) \in Nat
  BY SeqMonotonic, LenProperties DEF Line
<1>2. /\ w \in Seq(Line) /\ Len(w) = n
      /\ \A i \in 1..Len(l) : w[i] = l[i]
      /\ w[n] = Blank
  BY <1>1, AppendProperties
<1>3. r \in Seq(Line) /\ Len(r) \in Nat
  <2>1. n + 1 \in Nat \ {0} /\ Len(f) \in 0..Len(f)
    BY <1>1
  <2>2. r \in Seq(Line)
    BY <2>1, PartOfSeq
  <2> QED BY <2>2, LenProperties
<1>4. Over(f, Lines(l)) = g
  BY <1>2 DEF Over, Lines
<1> HIDE DEF w, r
<1>5. /\ g \in Seq(Line) /\ Len(g) = n + Len(r)
      /\ \A i \in 1..n : g[i] = w[i]
  <2>1. /\ g \in Seq(Line) /\ Len(g) = Len(w) + Len(r)
        /\ \A i \in 1..(Len(w) + Len(r)) :
             g[i] = IF i <= Len(w) THEN w[i] ELSE r[i - Len(w)]
    BY <1>2, <1>3, ConcatProperties
  <2> HIDE DEF g
  <2> QED BY <2>1, <1>1, <1>2, <1>3
<1> HIDE DEF g
<1>6. \A i \in 1..Len(l) : g[i] = l[i] /\ g[i] # Blank
  <2> SUFFICES ASSUME NEW i \in 1..Len(l) PROVE g[i] = l[i] /\ g[i] # Blank
    OBVIOUS
  <2>1. l[i] \in Tag
    BY ElementOfSeq
  <2>2. g[i] = l[i]
    BY <1>1, <1>2, <1>5
  <2> QED BY <2>1, <2>2, BlankAssumption
<1>7. n \in 1..Len(g) /\ g[n] = Blank
  BY <1>1, <1>2, <1>3, <1>5
<1>8. (CHOOSE i \in 1..Len(g) :
         g[i] = Blank /\ \A j \in 1..(i-1) : g[j] # Blank) = n
  <2>1. g[n] = Blank /\ \A j \in 1..(n-1) : g[j] # Blank
    BY <1>1, <1>6, <1>7
  <2>2. ASSUME NEW i \in 1..Len(g),
               g[i] = Blank, \A j \in 1..(i-1) : g[j] # Blank
        PROVE  i = n
    <3>1. i \notin 1..Len(l)
      BY <1>6, <2>2
    <3>2. n \notin 1..(i-1)
      BY <1>7, <2>2
    <3>3. i \in Nat /\ i >= 1 /\ Len(l) \in Nat
      BY <1>1, LenProperties, <1>5
    <3> QED BY <3>1, <3>2, <3>3
  <2> HIDE DEF n
  <2> QED BY <2>1, <2>2, <1>7
<1>9. ReadBack(g) = SubSeq(g, 1, n - 1)
  <2>1. Has(g, Blank)
    BY <1>7 DEF Has
  <2> HIDE DEF n
  <2> QED BY <2>1, <1>8 DEF ReadBack
<1>10. SubSeq(g, 1, n - 1) = l
  <2> DEFINE b == SubSeq(g, 1, n - 1)
  <2>1. /\ b \in Seq(Line) /\ Len(b) = Len(l)
        /\ \A i \in 1..Len(l) : b[i] = g[i]
    <3>1. n - 1 \in 0..Len(g) /\ n - 1 = Len(l)
      BY <1>1, <1>3, <1>5
    <3>2. /\ b \in Seq(Line)
          /\ Len(b) = IF 1 <= n - 1 THEN (n - 1) - 1 + 1 ELSE 0
          /\ \A i \in 1..((n - 1) - 1 + 1) : b[i] = g[1 + i - 1]
      BY <3>1, <1>5, PartOfSeq
    <3> HIDE DEF b
    <3> QED BY <3>1, <3>2, <1>1
  <2>2. \A i \in 1..Len(b) : b[i] = l[i]
    BY <2>1, <1>6
  <2> HIDE DEF b
  <2>3. b = l
    BY <2>1, <2>2, <1>1, SeqEqual
  <2> QED BY <2>3 DEF b
<1> QED BY <1>4, <1>5, <1>9, <1>10

(* An emptied file reads back as no tag at all.                            *)
LEMMA EmptyReadsBack == ReadBack(<<>>) = <<>>
BY EmptySeq DEF ReadBack, Has

(* A change that cmd_add or cmd_delete makes keeps every tag once.         *)
LEMMA AppliedIsList ==
  ASSUME NEW l \in List, NEW op \in Op, Accepted(l, op)
  PROVE  Applied(l, op) \in List
<1>1. l \in Seq(Tag) /\ \A i, j \in 1..Len(l) : l[i] = l[j] => i = j
  BY DEF List
<1>2. op.tag \in Tag /\ op.do \in {"add", "delete"}
  BY OpAssumption
<1>3. Len(l) \in Nat
  BY <1>1, LenProperties
<1>4. CASE op.do = "add" /\ Has(l, op.tag)
  BY <1>4 DEF Applied
<1>5. CASE op.do = "add" /\ ~Has(l, op.tag)
  <2> DEFINE m == Append(l, op.tag)
  <2>1. /\ m \in Seq(Tag) /\ Len(m) = Len(l) + 1
        /\ \A i \in 1..Len(l) : m[i] = l[i] /\ m[i] # op.tag
        /\ m[Len(l) + 1] = op.tag
    BY <1>1, <1>2, <1>5, AppendProperties DEF Has
  <2> HIDE DEF m
  <2>2. \A i, j \in 1..Len(m) : m[i] = m[j] => i = j
    BY <2>1, <1>1, <1>3
  <2>3. m \in List
    BY <2>1, <2>2 DEF List
  <2> QED BY <1>5, <2>3 DEF Applied, m
<1>6. CASE op.do = "delete"
  <2> DEFINE p == Position(l, op.tag)
             s == SubSeq(l, 1, p - 1)
             t == SubSeq(l, p + 1, Len(l))
  <2>1. p \in 1..Len(l)
    BY <1>6 DEF Accepted, Has, Position
  <2> HIDE DEF p
  <2>2. /\ s \in Seq(Tag) /\ Len(s) = p - 1
        /\ \A i \in 1..(p-1) : s[i] = l[i]
    <3>1. p - 1 \in 0..Len(l) /\ 1 \in Nat \ {0}
      BY <2>1, <1>3
    <3>2. /\ s \in Seq(Tag)
          /\ Len(s) = IF 1 <= p - 1 THEN (p - 1) - 1 + 1 ELSE 0
          /\ \A i \in 1..((p - 1) - 1 + 1) : s[i] = l[1 + i - 1]
      BY <3>1, <1>1, PartOfSeq
    <3> HIDE DEF s
    <3> QED BY <3>2, <2>1, <1>3
  <2>3. /\ t \in Seq(Tag) /\ Len(t) = Len(l) - p
        /\ \A i \in 1..(Len(l) - p) : t[i] = l[p + i]
    <3>1. p + 1 \in Nat \ {0} /\ Len(l) \in 0..Len(l)
      BY <2>1, <1>3
    <3>2. /\ t \in Seq(Tag)
          /\ Len(t) = IF p + 1 <= Len(l) THEN Len(l) - (p + 1) + 1 ELSE 0
          /\ \A i \in 1..(Len(l) - (p + 1) + 1) : t[i] = l[(p + 1) + i - 1]
      BY <3>1, <1>1, PartOfSeq
    <3> HIDE DEF t
    <3> QED BY <3>2, <2>1, <1>3
  <2> HIDE DEF s, t
  <2>4. /\ s \o t \in Seq(Tag) /\ Len(s \o t) = Len(s) + Len(t)
        /\ \A i \in 1..(Len(s) + Len(t)) :
             (s \o t)[i] = IF i <= Len(s) THEN s[i] ELSE t[i - Len(s)]
    BY <2>2, <2>3, ConcatProperties
  <2> DEFINE m == s \o t
  <2>5. Len(m) = Len(l) - 1
    BY <2>1, <2>2, <2>3, <2>4, <1>3
  <2> HIDE DEF m
  <2>6. \A i \in 1..Len(m) : m[i] = l[IF i < p THEN i ELSE i + 1]
    BY <2>1, <2>2, <2>3, <2>4, <2>5, <1>3 DEF m
  <2>7. \A i, j \in 1..Len(m) : m[i] = m[j] => i = j
    BY <2>1, <2>5, <2>6, <1>1, <1>3
  <2>8. m \in List
    BY <2>4, <2>7 DEF List, m
  <2> QED BY <1>6, <2>8 DEF Applied, m, s, t, p
<1> QED BY <1>2, <1>4, <1>5, <1>6
-----------------------------------------------------------------------------
(* The steps a daemon can make, one case each.                             *)
LEMMA Steps ==
  ASSUME [Next]_vars
  PROVE  \/ \E d \in Daemon :
              \/ Begin(d) \/ Load(d) \/ UnlinkOld(d) \/ Bind(d) \/ Install(d)
              \/ Receive(d) \/ Change(d) \/ OpenFile(d) \/ CloseFile(d)
              \/ BindFails(d) \/ Signal(d) \/ Kill(d) \/ Return(d)
              \/ \E op \in Op : Ask(d, op)
         \/ UNCHANGED vars
BY UnitAssumption DEF Next, StartedByHand, Restarted, SetUp, Work

(* However a process ends, it is Gone, and leaves the path or clears it.   *)
LEMMA Endings ==
  ASSUME NEW d \in Daemon, BindFails(d) \/ Signal(d) \/ Kill(d) \/ Return(d)
  PROVE  /\ \E how \in {"clean", "failed"} : Gone(d, how)
         /\ path' \in {path, NoOne}
         /\ ends' = ends \/ (ends < MaxEnds /\ ends' = ends + 1)
         /\ Running(d)
BY DEF BindFails, Signal, Kill, Return, FromOutside, Running, At

(* Types, and what the file reads back as.  Neither is inductive alone: a  *)
(* daemon loads what the file reads back as, and it must be a list.        *)
FileInv == TypeOK /\ LastCloseWins

LEMMA InitFile == Init => FileInv
<1> SUFFICES ASSUME Init PROVE FileInv
  OBVIOUS
<1>1. /\ <<>> \in Seq(Tag) /\ <<>> \in Seq(Tag \union {Blank})
      /\ <<>> \in Seq(Op) /\ Len(<<>>) = 0
  BY EmptySeq
<1>2. <<>> \in List
  BY <1>1 DEF List
<1>3. LastCloseWins
  BY EmptyReadsBack DEF Init, LastCloseWins
<1>4. TypeOK
  BY <1>1, <1>2, UnitAssumption, EndsAssumption DEF Init, TypeOK, Stage, At
<1> QED BY <1>3, <1>4 DEF FileInv

(* The request that waits is one a client may send.                        *)
LEMMA Waiting ==
  ASSUME TypeOK, NEW d \in Daemon, inbox[d] # <<>>
  PROVE  inbox[d][1] \in Op
<1>1. inbox[d] \in Seq(Op) /\ Len(inbox[d]) \in Nat \ {0}
  BY EmptySeq DEF TypeOK
<1>2. 1 \in 1..Len(inbox[d])
  BY <1>1
<1> QED BY <1>1, <1>2, ElementOfSeq

LEMMA FileStep ==
  ASSUME FileInv, [Next]_vars
  PROVE  FileInv'
<1> USE DEF At, Go
<1>0. TypeOK /\ LastCloseWins
  BY DEF FileInv
<1>e. <<>> \in List /\ <<>> \in Seq(Tag \union {Blank})
      /\ <<>> \in Seq(Op) /\ Len(<<>>) = 0
  BY EmptySeq DEF List
<1>1. ASSUME NEW d \in Daemon, Begin(d) PROVE FileInv'
  <2>1. TypeOK'
    BY <1>0, <1>1 DEF Begin, TypeOK, Stage
  <2> QED BY <1>0, <1>1, <2>1 DEF Begin, FileInv, LastCloseWins
<1>2. ASSUME NEW d \in Daemon, Load(d) PROVE FileInv'
  <2>1. ReadBack(file) \in List
    BY <1>0 DEF LastCloseWins, TypeOK
  <2>2. TypeOK'
    BY <1>0, <1>2, <2>1 DEF Load, TypeOK, Stage
  <2> QED BY <1>0, <1>2, <2>2 DEF Load, FileInv, LastCloseWins
<1>3. ASSUME NEW d \in Daemon, UnlinkOld(d) \/ Bind(d) \/ Install(d)
      PROVE  FileInv'
  <2>1. TypeOK'
    BY <1>0, <1>3 DEF UnlinkOld, Bind, Install, history, TypeOK, Stage
  <2> QED BY <1>0, <1>3, <2>1
          DEF UnlinkOld, Bind, Install, history, FileInv, LastCloseWins
<1>4. ASSUME NEW d \in Daemon, NEW op \in Op, Ask(d, op) PROVE FileInv'
  <2>1. <<op>> \in Seq(Op) /\ Len(<<op>>) = 1 /\ <<op>> # <<>>
    OBVIOUS
  <2>2. TypeOK'
    BY <1>0, <1>4, <2>1 DEF Ask, history, TypeOK
  <2> QED BY <1>0, <1>4, <2>2 DEF Ask, history, FileInv, LastCloseWins
<1>5. ASSUME NEW d \in Daemon, Receive(d) PROVE FileInv'
  <2>1. TypeOK'
    BY <1>0, <1>5 DEF Receive, history, TypeOK, Stage
  <2> QED BY <1>0, <1>5, <2>1 DEF Receive, history, FileInv, LastCloseWins
<1>6. ASSUME NEW d \in Daemon, Change(d) PROVE FileInv'
  <2>1. inbox[d][1] \in Op
    BY <1>0, <1>6, Waiting DEF Change, TypeOK
  <2>2. Accepted(tags[d], inbox[d][1]) => Applied(tags[d], inbox[d][1]) \in List
    BY <1>0, <2>1, AppliedIsList DEF TypeOK
  <2>3. /\ stage' \in [Daemon -> Stage] /\ tags' \in [Daemon -> List]
        /\ stage'[d] # "changing"
        /\ \A e \in Daemon \ {d} : stage'[e] = stage[e]
    BY <1>0, <1>6, <2>2 DEF Change, TypeOK, Stage
  <2>4. TypeOK'
    BY <1>0, <1>6, <1>e, <2>3 DEF Change, history, TypeOK
  <2> QED BY <1>0, <1>6, <2>4 DEF Change, history, FileInv, LastCloseWins
<1>7. ASSUME NEW d \in Daemon, OpenFile(d) PROVE FileInv'
  <2>1. TypeOK'
    BY <1>0, <1>7, <1>e DEF OpenFile, TypeOK, Stage
  <2> QED BY <1>7, <2>1, EmptyReadsBack DEF OpenFile, FileInv, LastCloseWins
<1>8. ASSUME NEW d \in Daemon, CloseFile(d) PROVE FileInv'
  <2>1. tags[d] \in Seq(Tag) /\ tags[d] \in List /\ file \in Seq(Line)
    BY <1>0 DEF TypeOK, List, Line
  <2>2. /\ Over(file, Lines(tags[d])) \in Seq(Line)
        /\ ReadBack(Over(file, Lines(tags[d]))) = tags[d]
    BY <2>1, WrittenIsReadBack
  <2>3. TypeOK'
    BY <1>0, <1>8, <2>1, <2>2 DEF CloseFile, TypeOK, Stage, Line
  <2> QED BY <1>8, <2>2, <2>3 DEF CloseFile, FileInv, LastCloseWins
<1>9. ASSUME NEW d \in Daemon,
             BindFails(d) \/ Signal(d) \/ Kill(d) \/ Return(d)
      PROVE  FileInv'
  <2>1. PICK how \in {"clean", "failed"} : Gone(d, how)
    BY <1>9, Endings
  <2>2. path' \in Daemon \union {NoOne} /\ ends' \in 0..MaxEnds
    <3>1. /\ path' \in {path, NoOne}
          /\ ends' = ends \/ (ends < MaxEnds /\ ends' = ends + 1)
      BY <1>9, Endings
    <3>2. path \in Daemon \union {NoOne} /\ ends \in 0..MaxEnds
      BY <1>0 DEF TypeOK
    <3>3. ends' \in 0..MaxEnds
      BY <3>1, <3>2, EndsAssumption
    <3> QED BY <3>1, <3>2, <3>3
  <2>3. TypeOK'
    BY <1>0, <1>e, <2>1, <2>2 DEF Gone, TypeOK, Stage
  <2> QED BY <1>0, <2>1, <2>3 DEF Gone, FileInv, LastCloseWins
<1>10. CASE UNCHANGED vars
  BY <1>0, <1>10 DEF vars, process, history, FileInv, TypeOK, LastCloseWins
<1> QED
  BY <1>1, <1>2, <1>3, <1>4, <1>5, <1>6, <1>7, <1>8, <1>9, <1>10, Steps

LEMMA FileInvAlways == Spec => []FileInv
<1>1. FileInv /\ [Next]_vars => FileInv'
  BY FileStep
<1> QED BY <1>1, InitFile, PTL DEF Spec

(* A daemon's stage, list, inbox and the rest are what they should be, for *)
(* every list that a tag file left by another daemon, whole or cut short,  *)
(* can make it load.                                                       *)
THEOREM TypeCorrect == Spec => []TypeOK
<1>1. FileInv => TypeOK
  BY DEF FileInv
<1> QED BY <1>1, FileInvAlways, PTL

(* What is in the tag file is the list that was closed last: a kill in a   *)
(* write leaves nothing, and two writes at once leave one of the two lists.*)
THEOREM FileIsSound == Spec => []LastCloseWins
<1>1. FileInv => LastCloseWins
  BY DEF FileInv
<1> QED BY <1>1, FileInvAlways, PTL
-----------------------------------------------------------------------------
(* Serving what the file says.  Alone it is not inductive: the list must   *)
(* have been the file's since it was loaded.                               *)
Faithful(d) ==
  stage[d] \in {"loaded", "unlinked", "bound", "serving", "changing"} =>
    behind[d] \/ tags[d] = last

ServeInv == \A d \in Daemon : Faithful(d)

LEMMA ServeStep ==
  ASSUME FileInv, ServeInv, [Next]_vars
  PROVE  ServeInv'
<1> USE DEF At, Go, ServeInv, Faithful
<1>0. TypeOK /\ LastCloseWins
  BY DEF FileInv
<1>1. ASSUME NEW d \in Daemon, Begin(d) PROVE ServeInv'
  BY <1>0, <1>1 DEF Begin, TypeOK
<1>2. ASSUME NEW d \in Daemon, Load(d) PROVE ServeInv'
  BY <1>0, <1>2 DEF Load, TypeOK, LastCloseWins
<1>3. ASSUME NEW d \in Daemon, UnlinkOld(d) \/ Bind(d) \/ Install(d)
      PROVE  ServeInv'
  BY <1>0, <1>3 DEF UnlinkOld, Bind, Install, history, TypeOK
<1>4. ASSUME NEW d \in Daemon, NEW op \in Op, Ask(d, op) PROVE ServeInv'
  BY <1>4 DEF Ask, history
<1>5. ASSUME NEW d \in Daemon, Receive(d) PROVE ServeInv'
  BY <1>0, <1>5 DEF Receive, history, TypeOK
<1>6. ASSUME NEW d \in Daemon, Change(d) PROVE ServeInv'
  <2>1. \/ stage'[d] = "changed"
        \/ stage'[d] = "serving" /\ tags' = tags
    BY <1>0, <1>6 DEF Change, TypeOK
  <2>2. \A e \in Daemon \ {d} : stage'[e] = stage[e] /\ tags'[e] = tags[e]
    BY <1>0, <1>6 DEF Change, TypeOK
  <2>3. behind' = behind /\ last' = last /\ stage[d] = "changing"
    BY <1>6 DEF Change, history
  <2> QED BY <2>1, <2>2, <2>3
<1>7. ASSUME NEW d \in Daemon, OpenFile(d) PROVE ServeInv'
  BY <1>0, <1>7 DEF OpenFile, TypeOK
<1>8. ASSUME NEW d \in Daemon, CloseFile(d) PROVE ServeInv'
  BY <1>0, <1>8 DEF CloseFile, TypeOK
<1>9. ASSUME NEW d \in Daemon,
             BindFails(d) \/ Signal(d) \/ Kill(d) \/ Return(d)
      PROVE  ServeInv'
  <2>1. PICK how \in {"clean", "failed"} : Gone(d, how)
    BY <1>9, Endings
  <2> QED BY <1>0, <2>1 DEF Gone, TypeOK
<1>10. CASE UNCHANGED vars
  BY <1>10 DEF vars, process, history
<1> QED
  BY <1>1, <1>2, <1>3, <1>4, <1>5, <1>6, <1>7, <1>8, <1>9, <1>10, Steps

(* Between requests a daemon's list is the one in the file, through kills  *)
(* in a write and restarts, unless another daemon has written since.       *)
THEOREM DaemonServesTheFile == Spec => []ServesTheFile
<1>1. Init => ServeInv
  BY DEF Init, ServeInv, Faithful
<1>2. FileInv /\ ServeInv /\ [Next]_vars => ServeInv'
  BY ServeStep
<1>3. FileInv /\ ServeInv => ServesTheFile
  BY DEF FileInv, LastCloseWins, ServeInv, Faithful, ServesTheFile, At
<1> QED BY <1>1, <1>2, <1>3, FileInvAlways, PTL DEF Spec
-----------------------------------------------------------------------------
(* Who is at nav.sock.  To find the path free when it binds, a daemon that *)
(* is alone must have cleared it, and nobody may bind in between.          *)
Sole(d) ==
  alone[d] =>
    /\ \A o \in Daemon \ {d} : stage[o] = "none"
    /\ stage[d] = "unlinked" => path = NoOne
    /\ stage[d] \in Listening => path = d

SoleInv == \A d \in Daemon : Sole(d)

LEMMA SoleStep ==
  ASSUME TypeOK, SoleInv, [Next]_vars
  PROVE  SoleInv'
<1> USE DEF At, Go, SoleInv, Sole, Listening, Handling, Commanded
<1>1. ASSUME NEW d \in Daemon, Begin(d) PROVE SoleInv'
  BY <1>1 DEF Begin, TypeOK, Running
<1>2. ASSUME NEW d \in Daemon, Load(d) PROVE SoleInv'
  BY <1>2 DEF Load, TypeOK
<1>3. ASSUME NEW d \in Daemon, UnlinkOld(d) PROVE SoleInv'
  BY <1>3 DEF UnlinkOld, history, TypeOK
<1>4. ASSUME NEW d \in Daemon, Bind(d) PROVE SoleInv'
  BY <1>4 DEF Bind, history, TypeOK
<1>5. ASSUME NEW d \in Daemon, Install(d) \/ Receive(d) PROVE SoleInv'
  BY <1>5 DEF Install, Receive, history, TypeOK
<1>6. ASSUME NEW d \in Daemon, NEW op \in Op, Ask(d, op) PROVE SoleInv'
  BY <1>6 DEF Ask, history
<1>7. ASSUME NEW d \in Daemon, Change(d) PROVE SoleInv'
  <2>1. /\ stage[d] = "changing" /\ stage'[d] \in {"changed", "serving"}
        /\ \A e \in Daemon \ {d} : stage'[e] = stage[e]
        /\ alone' = alone /\ path' = path
    BY <1>7 DEF Change, history, TypeOK
  <2> QED BY <2>1
<1>8. ASSUME NEW d \in Daemon, OpenFile(d) \/ CloseFile(d) PROVE SoleInv'
  BY <1>8 DEF OpenFile, CloseFile, TypeOK
<1>9. ASSUME NEW d \in Daemon,
             BindFails(d) \/ Signal(d) \/ Kill(d) \/ Return(d)
      PROVE  SoleInv'
  <2>1. PICK how \in {"clean", "failed"} : Gone(d, how)
    BY <1>9, Endings
  <2>2. \A e \in Daemon \ {d} : ~alone[e]
    BY <1>9, Endings DEF Running
  <2> QED BY <2>1, <2>2 DEF Gone, TypeOK
<1>10. CASE UNCHANGED vars
  BY <1>10 DEF vars, process, history
<1> QED
  BY <1>1, <1>2, <1>3, <1>4, <1>5, <1>6, <1>7, <1>8, <1>9, <1>10, Steps

(* Whatever socket an earlier daemon left at the path, a daemon that is    *)
(* the only one running is the one that clients reach.                     *)
THEOREM SoleDaemonHasThePath == Spec => []SoleDaemonIsReached
<1>1. Init => SoleInv
  BY DEF Init, SoleInv, Sole
<1>2. TypeOK /\ SoleInv /\ [Next]_vars => SoleInv'
  BY SoleStep
<1>3. SoleInv => SoleDaemonIsReached
  BY DEF SoleInv, Sole, SoleDaemonIsReached
<1> QED BY <1>1, <1>2, <1>3, TypeCorrect, PTL DEF Spec
=============================================================================
