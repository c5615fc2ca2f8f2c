--------------------------- MODULE NavDaemonProofs ---------------------------
(***************************************************************************)
(* What NavDaemon's properties rest on, for every set of shells, words,    *)
(* paths and tag files, and every way names may be read back.              *)
(*                                                                         *)
(* The lemmas on list.c's operations come first; then type correctness,    *)
(* on which the other invariants are built one after the other.            *)
(***************************************************************************)
EXTENDS NavDaemon, SequenceTheorems, WellFoundedInduction, TLAPS

(***************************************************************************)
(* The steps of a daemon whose requests carry any arguments at all, and    *)
(* between two of which anything may happen that is none of the daemon's   *)
(* business: Next allows no more, and neither do the shells that run nav   *)
(* (ShellDaemonProofs).  The invariants hold for all of these.             *)
(***************************************************************************)
AnyArgs == Seq(Word) \union {NoArgs}

Elsewhere == Idle /\ sent' \in {sent, <<>>}

AnyStep ==
  \/ Process
  \/ FsChange
  \/ \E p \in Pid : Command(p)
  \/ \E p \in Pid, args \in AnyArgs : CommandWith(p, args)
  \/ Elsewhere

LEMMA NextIsAnyStep == [Next]_vars => AnyStep
BY ArgAssumption DEF Next, vars, Elsewhere, Idle, memory, AnyStep, AnyArgs

(***************************************************************************)
(* list_get_node finds the first of the matches, when there is one.        *)
(***************************************************************************)
LEMMA FirstIndexIsFirst ==
  ASSUME NEW l \in Seq(Line), NEW n, HasTag(l, n)
  PROVE  /\ FirstIndex(l, n) \in 1..Len(l)
         /\ l[FirstIndex(l, n)].tag = n
         /\ \A j \in 1..(FirstIndex(l, n) - 1) : l[j].tag # n
<1> DEFINE M == {i \in 1..Len(l) : l[i].tag = n}
<1>1. M \subseteq Nat /\ M # {}
  BY LenProperties DEF HasTag
<1>2. PICK i \in M : \A j \in M : <<j, i>> \notin OpToRel(<, Nat)
  <2> HIDE DEF M
  <2> QED  BY <1>1, NatLessThanWellFounded, WFMin
<1>3. \A j \in M : ~(j < i)
  BY <1>1, <1>2 DEF OpToRel
<1>4. l[i].tag = n /\ \A j \in 1..(i-1) : l[j].tag # n
  BY <1>3, LenProperties
<1> QED  BY <1>4 DEF FirstIndex

LEMMA LineFields ==
  ASSUME NEW l \in Seq(Line), NEW i \in 1..Len(l)
  PROVE  l[i] \in Line /\ l[i].tag \in Word /\ l[i].path \in Word
<1>1. l[i] \in Line
  BY ElementOfSeq
<1> QED  BY <1>1 DEF Line

(***************************************************************************)
(* The three ways a list of tags changes keep it a list of lines ...       *)
(***************************************************************************)
LEMMA AppendTagType ==
  ASSUME NEW l \in Seq(Line), NEW n \in Word, NEW d \in Word
  PROVE  AppendTag(l, n, d) \in Seq(Line)
BY DEF AppendTag, Entry, Line

LEMMA SetPathShape ==
  ASSUME NEW l \in Seq(Line), NEW n \in Word, NEW d \in Word, HasTag(l, n)
  PROVE  /\ SetPath(l, n, d) \in Seq(Line)
         /\ Len(SetPath(l, n, d)) = Len(l)
         /\ \A i \in 1..Len(l) :
              SetPath(l, n, d)[i] = IF i = FirstIndex(l, n) THEN Entry(n, d) ELSE l[i]
<1> DEFINE k == FirstIndex(l, n)
<1>1. k \in 1..Len(l) /\ l[k].tag = n
  BY FirstIndexIsFirst
<1>2. l[k] \in Line
  BY <1>1, ElementOfSeq
<1>3. [l[k] EXCEPT !.path = d] = Entry(n, d) /\ Entry(n, d) \in Line
  BY <1>1, <1>2 DEF Entry, Line
<1>4. SetPath(l, n, d) = [l EXCEPT ![k] = Entry(n, d)]
  BY <1>1, <1>3, LenProperties DEF SetPath
<1> HIDE DEF k
<1>5. QED  BY <1>1, <1>3, <1>4, ExceptSeq DEF k

LEMMA WithoutShape ==
  ASSUME NEW l \in Seq(Line), NEW k \in 1..Len(l)
  PROVE  /\ Without(l, k) \in Seq(Line)
         /\ Len(Without(l, k)) = Len(l) - 1
         /\ \A i \in 1..(Len(l) - 1) :
              Without(l, k)[i] = IF i < k THEN l[i] ELSE l[i+1]
<1> DEFINE s == SubSeq(l, 1, k-1)
           t == SubSeq(l, k+1, Len(l))
<1>1. Len(l) \in Nat /\ \A i \in 1..Len(l) : l[i] \in Line
  BY LenProperties, ElementOfSeq
<1>2. /\ s \in Seq(Line) /\ Len(s) = k - 1
      /\ \A i \in 1..(k-1) : s[i] = l[i]
  BY <1>1, SubSeqProperties
<1>3. /\ t \in Seq(Line) /\ Len(t) = Len(l) - k
      /\ \A i \in 1..(Len(l) - k) : t[i] = l[k + i]
  BY <1>1, SubSeqProperties
<1> HIDE DEF s, t
<1>4. /\ s \o t \in Seq(Line)
      /\ Len(s \o t) = Len(s) + Len(t)
      /\ \A i \in 1 .. Len(s) + Len(t) :
           (s \o t)[i] = IF i <= Len(s) THEN s[i] ELSE t[i - Len(s)]
  BY <1>2, <1>3, ConcatProperties
<1>5. \A i \in 1..(Len(l) - 1) : i > k - 1 => t[i - (k-1)] = l[i+1]
  BY <1>1, <1>3
<1>6. \A i \in 1..(Len(l) - 1) : (s \o t)[i] = IF i < k THEN l[i] ELSE l[i+1]
  BY <1>1, <1>2, <1>3, <1>4, <1>5
<1>7. Without(l, k) = s \o t
  BY DEF Without, s, t
<1>8. Len(s \o t) = Len(l) - 1
  BY <1>1, <1>2, <1>3, <1>4
<1>9. QED  BY <1>4, <1>6, <1>7, <1>8, Zenon

(***************************************************************************)
(* ... and keep its names distinct.                                        *)
(***************************************************************************)
LEMMA AppendTagDistinct ==
  ASSUME NEW l \in Seq(Line), NEW n \in Word, NEW d \in Word,
         Distinct(l), ~HasTag(l, n)
  PROVE  Distinct(AppendTag(l, n, d))
<1>1. Entry(n, d) \in Line /\ Entry(n, d).tag = n
  BY DEF Entry, Line
<1>2. /\ Len(AppendTag(l, n, d)) = Len(l) + 1
      /\ \A i \in 1..Len(l) : AppendTag(l, n, d)[i] = l[i]
      /\ AppendTag(l, n, d)[Len(l) + 1] = Entry(n, d)
      /\ Len(l) \in Nat
  BY <1>1, AppendProperties, LenProperties DEF AppendTag
<1> QED  BY <1>1, <1>2 DEF Distinct, HasTag

LEMMA SetPathDistinct ==
  ASSUME NEW l \in Seq(Line), NEW n \in Word, NEW d \in Word,
         Distinct(l), HasTag(l, n)
  PROVE  Distinct(SetPath(l, n, d))
<1>1. l[FirstIndex(l, n)].tag = n
  BY FirstIndexIsFirst
<1>2. Entry(n, d).tag = n
  BY DEF Entry
<1>3. /\ Len(SetPath(l, n, d)) = Len(l)
      /\ \A i \in 1..Len(l) :
           SetPath(l, n, d)[i] = IF i = FirstIndex(l, n) THEN Entry(n, d) ELSE l[i]
  BY SetPathShape
<1>4. \A i \in 1..Len(l) : SetPath(l, n, d)[i].tag = l[i].tag
  BY <1>1, <1>2, <1>3
<1> QED  BY <1>3, <1>4 DEF Distinct

LEMMA DeleteTagDistinct ==
  ASSUME NEW l \in Seq(Line), NEW n, Distinct(l), HasTag(l, n)
  PROVE  DeleteTag(l, n) \in Seq(Line) /\ Distinct(DeleteTag(l, n))
<1> DEFINE k == FirstIndex(l, n)
<1>1. k \in 1..Len(l)
  BY FirstIndexIsFirst
<1> HIDE DEF k
<1>2. /\ Without(l, k) \in Seq(Line)
      /\ Len(Without(l, k)) = Len(l) - 1
      /\ \A i \in 1..(Len(l) - 1) : Without(l, k)[i] = IF i < k THEN l[i] ELSE l[i+1]
  BY <1>1, WithoutShape
<1>3. Len(l) \in Nat
  BY LenProperties
<1>4. Distinct(Without(l, k))
  BY <1>1, <1>2, <1>3 DEF Distinct
<1> QED  BY <1>2, <1>4 DEF DeleteTag, k
-----------------------------------------------------------------------------
(* Type correctness.                                                       *)

SentOK == sent \in Seq(Reply) /\ Len(sent) <= 1

(***************************************************************************)
(* A step sends one well-formed reply or none.                             *)
(***************************************************************************)
LEMMA SendOK ==
  ASSUME NEW p \in Pid, NEW cmd \in CommandName, NEW args \in Seq(Word),
         NEW kind \in ReplyKind, NEW body \in Seq(Word) \union Seq(Line),
         Send(p, cmd, args, kind, body)
  PROVE  SentOK'
<1>1. [to |-> p, cmd |-> cmd, args |-> args, kind |-> kind, body |-> body] \in Reply
  BY DEF Reply
<1> QED  BY <1>1 DEF Send, SentOK

LEMMA SilentOK == Silent => SentOK'
BY DEF Silent, SentOK

LEMMA OkBadOK ==
  ASSUME NEW p \in Pid, NEW cmd \in CommandName, NEW args \in Seq(Word),
         Ok(p, cmd, args) \/ Bad(p, cmd, args)
  PROVE  SentOK'
<1>1. <<>> \in Seq(Word) /\ {"OK", "BAD"} \subseteq ReplyKind
  BY DEF ReplyKind
<1>2. CASE Ok(p, cmd, args)
  BY <1>1, <1>2, SendOK DEF Ok
<1>3. CASE Bad(p, cmd, args)
  BY <1>1, <1>3, SendOK DEF Bad
<1> QED  BY <1>2, <1>3

(* The names of the commands, and the request that acts on no word.        *)
LEMMA NoWords ==
  /\ <<>> \in Seq(Word)
  /\ {"register", "unregister", "add", "delete", "get", "show",
      "list", "push", "pop", "actions", "reset"} \subseteq CommandName
BY DEF CommandName

(***************************************************************************)
(* The tag file after a write is the list that was written, or untouched.  *)
(***************************************************************************)
LEMMA WriteOK ==
  ASSUME TypeOK, NEW l \in Seq(Line), WriteTagFile(l)
  PROVE  file' \in Seq(Line)
BY DEF TypeOK, WriteTagFile

LEMMA LoseMemoryOK ==
  ASSUME TypeOK, NEW how \in Ending, LoseMemory(how)
  PROVE  TypeOK'
<1>1. EmptyStacks \in [Pid -> Seq(Path)]
  BY DEF EmptyStacks
<1>2. SentOK'
  BY SilentOK DEF LoseMemory
<1> QED  BY <1>1, <1>2 DEF LoseMemory, TypeOK, SentOK

LEMMA TypeOKInit == Init => TypeOK
<1> SUFFICES ASSUME Init PROVE TypeOK
  OBVIOUS
<1>1. EmptyStacks \in [Pid -> Seq(Path)]
  BY DEF EmptyStacks
<1>2. file \in Seq(Line)
  BY FileAssumption DEF Init
<1> QED  BY <1>1, <1>2 DEF Init, TypeOK, Ending

(* Starting, reading, ending: the steps of the process itself.             *)
LEMMA TypeOKProcess == TypeOK /\ (Process \/ FsChange) => TypeOK'
<1> SUFFICES ASSUME TypeOK, Process \/ FsChange PROVE TypeOK'
  OBVIOUS
<1>1. CASE Start
  <2>1. SentOK'
    BY <1>1, SilentOK DEF Start
  <2>2. pending' \in Seq(Line)
    BY <1>1, EmptySeq DEF Start, TypeOK
  <2> QED  BY <1>1, <2>1, <2>2 DEF Start, TypeOK, SentOK
<1>2. CASE ReadLine
  <2> DEFINE line == Head(pending)
             name == ReadAs[line.tag].name
             dir  == IF ReadAs[line.tag].whole THEN line.path ELSE Junk
  <2>1. SentOK'
    BY <1>2, SilentOK DEF ReadLine
  <2>2. line \in Line /\ Tail(pending) \in Seq(Line)
    BY <1>2, HeadTailProperties DEF ReadLine, TypeOK
  <2>3. name \in Word /\ dir \in Word
    BY <2>2, WordAssumption DEF Line
  <2>4. tags \in Seq(Line)
    BY DEF TypeOK
  <2>5. \/ HasTag(tags, name) /\ tags' = SetPath(tags, name, dir)
        \/ tags' = AppendTag(tags, name, dir)
        \/ tags' = tags
    BY <1>2 DEF ReadLine
  <2> HIDE DEF line, name, dir
  <2>6. tags' \in Seq(Line)
    BY <2>3, <2>4, <2>5, SetPathShape, AppendTagType
  <2> QED  BY <1>2, <2>1, <2>2, <2>6 DEF ReadLine, TypeOK, SentOK
<1>3. CASE Serve
  <2>1. SentOK'
    BY <1>3, SilentOK DEF Serve
  <2> QED  BY <1>3, <2>1 DEF Serve, TypeOK, SentOK
<1>4. CASE Terminate
  BY <1>4, LoseMemoryOK DEF Terminate, Ending
<1>5. CASE PidOutOfRange
  BY <1>5, LoseMemoryOK DEF PidOutOfRange, Ending
<1>6. CASE FsChange
  <2>1. SentOK'
    BY <1>6, SilentOK DEF FsChange
  <2>2. exists' \subseteq Path
    BY <1>6 DEF FsChange, TypeOK
  <2> QED  BY <1>6, <2>1, <2>2 DEF FsChange, memory, TypeOK, SentOK
<1> QED  BY <1>1, <1>2, <1>3, <1>4, <1>5, <1>6 DEF Process

(* The argument lists a handler sees.                                      *)
LEMMA ArgWords ==
  ASSUME NEW args \in AnyArgs, args # NoArgs
  PROVE  /\ args \in Seq(Word)
         /\ \A i \in 1..Len(args) : args[i] \in Word
         /\ args # <<>> => 1 \in 1..Len(args)
<1>1. args \in Seq(Word)
  BY DEF AnyArgs
<1>2. args # <<>> => Len(args) \in Nat \ {0}
  BY <1>1, EmptySeq
<1> QED  BY <1>1, <1>2, ElementOfSeq

LEMMA FirstWord ==
  ASSUME NEW args \in AnyArgs, args \notin {NoArgs, <<>>}
  PROVE  <<args[1]>> \in Seq(Word)
<1>1. args[1] \in Word
  BY ArgWords
<1> QED  BY <1>1

(* The commands that take no words.                                        *)
LEMMA TypeOKCommand ==
  ASSUME TypeOK, NEW p \in Pid, Command(p)
  PROVE  TypeOK'
<1>1. CASE CmdRegister(p)
  <2>1. SentOK'
    BY <1>1, NoWords, OkBadOK, SilentOK DEF CmdRegister
  <2>2. shells' \subseteq Pid
    BY <1>1 DEF CmdRegister, TypeOK
  <2> QED  BY <1>1, <2>1, <2>2 DEF CmdRegister, TypeOK, SentOK
<1>2. CASE CmdUnregister(p)
  <2>1. SentOK'
    BY <1>2, NoWords, OkBadOK DEF CmdUnregister
  <2>2. actions' \in [Pid -> Seq(Path)]
    BY <1>2 DEF CmdUnregister, TypeOK
  <2> QED  BY <1>2, <2>1, <2>2 DEF CmdUnregister, TypeOK, SentOK
<1>3. CASE CmdShow(p)
  <2>1. tags \in Seq(Word) \union Seq(Line) /\ "show" \in ReplyKind
    BY DEF TypeOK, ReplyKind
  <2>2. SentOK'
    BY <1>3, <2>1, NoWords, SendOK DEF CmdShow
  <2> QED  BY <1>3, <2>2 DEF CmdShow, Idle, memory, TypeOK, SentOK
<1>4. CASE CmdList(p)
  <2> DEFINE names == [i \in 1..Len(tags) |-> tags[i].tag]
  <2>1. tags \in Seq(Line) /\ Len(tags) \in Nat
    BY LenProperties DEF TypeOK
  <2>2. \A i \in 1..Len(tags) : tags[i].tag \in Word
    BY <2>1, LineFields
  <2>3. names \in Seq(Word)
    BY <2>1, <2>2
  <2>4. Send(p, "list", <<>>, "list", names)
    BY <1>4 DEF CmdList
  <2> HIDE DEF names
  <2>5. SentOK'
    BY <2>3, <2>4, NoWords, SendOK DEF ReplyKind
  <2> QED  BY <1>4, <2>5 DEF CmdList, Idle, memory, TypeOK, SentOK
<1>5. CASE CmdPop(p)
  <2>1. actions[p] \in Seq(Path) /\ Path \subseteq Word
    BY WordAssumption DEF TypeOK
  <2>2. CASE actions[p] # <<>>
    <3>1. Head(actions[p]) \in Path /\ Tail(actions[p]) \in Seq(Path)
      BY <2>1, <2>2, HeadTailProperties
    <3>2. <<Head(actions[p])>> \in Seq(Word)
      BY <2>1, <3>1
    <3>3. SentOK'
      BY <1>5, <2>2, <3>2, NoWords, SendOK DEF CmdPop, ReplyKind
    <3>4. actions' \in [Pid -> Seq(Path)]
      BY <1>5, <2>2, <3>1 DEF CmdPop, TypeOK
    <3> QED  BY <1>5, <3>3, <3>4 DEF CmdPop, TypeOK, SentOK
  <2>3. CASE actions[p] = <<>>
    <3>1. SentOK' /\ UNCHANGED actions
      BY <1>5, <2>3, NoWords, OkBadOK DEF CmdPop
    <3> QED  BY <1>5, <3>1 DEF CmdPop, TypeOK, SentOK
  <2> QED  BY <2>2, <2>3
<1>6. CASE CmdActions(p)
  <2>1. actions[p] \in Seq(Path)
    BY DEF TypeOK
  <2>2. actions[p] \in Seq(Word)
    BY <2>1, WordAssumption, SeqMonotonic
  <2>3. SentOK'
    BY <1>6, <2>2, NoWords, SendOK DEF CmdActions, ReplyKind
  <2> QED  BY <1>6, <2>3 DEF CmdActions, Idle, memory, TypeOK, SentOK
<1>7. CASE CmdReset(p)
  <2>1. SentOK'
    BY <1>7, NoWords, OkBadOK DEF CmdReset
  <2>2. actions' \in [Pid -> Seq(Path)]
    BY <1>7 DEF CmdReset, TypeOK
  <2> QED  BY <1>7, <2>1, <2>2 DEF CmdReset, TypeOK, SentOK
<1> QED  BY <1>1, <1>2, <1>3, <1>4, <1>5, <1>6, <1>7 DEF Command

(* The commands that take words.                                           *)
LEMMA TypeOKCommandWith ==
  ASSUME TypeOK, NEW p \in Pid, NEW args \in AnyArgs, CommandWith(p, args)
  PROVE  TypeOK'
<1>1. CASE Ignored(p, args)
  <2>1. SentOK'
    BY <1>1, SilentOK DEF Ignored
  <2> QED  BY <1>1, <2>1 DEF Ignored, Idle, memory, TypeOK, SentOK
<1>2. CASE NullArgs(p, args)
  BY <1>2, LoseMemoryOK DEF NullArgs, Ending
<1>3. CASE CmdAdd(p, args)
  <2>1. SentOK'
    <3>1. CASE Ok(p, "add", args)
      <4>1. args \in Seq(Word)
        BY <1>3, ArgWords DEF CmdAdd
      <4> QED  BY <3>1, <4>1, NoWords, OkBadOK
    <3>2. CASE Bad(p, "add", <<>>)
      BY <3>2, NoWords, OkBadOK
    <3> QED  BY <1>3, <3>1, <3>2 DEF CmdAdd
  <2>2. tags' \in Seq(Line) /\ file' \in Seq(Line)
    <3>1. CASE UNCHANGED <<tags, file>>
      BY <3>1 DEF TypeOK
    <3>2. CASE AddAccepted(args) /\ WriteTagFile(tags')
               /\ tags' = IF HasTag(tags, args[1])
                            THEN SetPath(tags, args[1], args[2])
                            ELSE AppendTag(tags, args[1], args[2])
      <4>1. args[1] \in Word /\ args[2] \in Word /\ tags \in Seq(Line)
        <5>1. args \in Seq(Word) /\ Len(args) = 2
          BY <1>3, <3>2, ArgWords DEF CmdAdd, AddAccepted
        <5>2. 1 \in 1..Len(args) /\ 2 \in 1..Len(args)
          BY <5>1
        <5> QED  BY <5>1, <5>2, ElementOfSeq DEF TypeOK
      <4>2. tags' \in Seq(Line)
        BY <3>2, <4>1, SetPathShape, AppendTagType
      <4> QED  BY <3>2, <4>2, WriteOK
    <3> QED  BY <1>3, <3>1, <3>2 DEF CmdAdd
  <2> QED  BY <1>3, <2>1, <2>2 DEF CmdAdd, TypeOK, SentOK
<1>4. CASE CmdDelete(p, args)
  <2>1. SentOK'
    <3>1. <<args[1]>> \in Seq(Word)
      BY <1>4, FirstWord DEF CmdDelete
    <3> QED  BY <1>4, <3>1, NoWords, OkBadOK DEF CmdDelete
  <2>2. tags' \in Seq(Line) /\ file' \in Seq(Line)
    <3>1. CASE UNCHANGED <<tags, file>>
      BY <3>1 DEF TypeOK
    <3>2. CASE HasTag(tags, args[1]) /\ tags' = DeleteTag(tags, args[1])
               /\ WriteTagFile(tags')
      <4>1. tags \in Seq(Line)
        BY DEF TypeOK
      <4>2. tags' \in Seq(Line)
        BY <3>2, <4>1, FirstIndexIsFirst, WithoutShape DEF DeleteTag
      <4> QED  BY <3>2, <4>2, WriteOK
    <3> QED  BY <1>4, <3>1, <3>2 DEF CmdDelete
  <2> QED  BY <1>4, <2>1, <2>2 DEF CmdDelete, TypeOK, SentOK
<1>5. CASE CmdGet(p, args)
  <2>1. SentOK'
    <3>1. <<args[1]>> \in Seq(Word)
      BY <1>5, FirstWord DEF CmdGet
    <3>2. CASE Bad(p, "get", <<args[1]>>)
      BY <3>1, <3>2, NoWords, OkBadOK
    <3>3. CASE HasTag(tags, args[1])
               /\ Send(p, "get", <<args[1]>>, "path",
                       <<tags[FirstIndex(tags, args[1])].path>>)
      <4> DEFINE d == tags[FirstIndex(tags, args[1])].path
      <4>1. tags \in Seq(Line)
        BY DEF TypeOK
      <4>2. d \in Word
        <5>1. FirstIndex(tags, args[1]) \in 1..Len(tags)
          BY <3>3, <4>1, FirstIndexIsFirst
        <5> QED  BY <4>1, <5>1, LineFields
      <4> HIDE DEF d
      <4>3. <<d>> \in Seq(Word) /\ "path" \in ReplyKind
        BY <4>2 DEF ReplyKind
      <4>4. Send(p, "get", <<args[1]>>, "path", <<d>>)
        BY <3>3 DEF d
      <4> QED  BY <3>1, <4>3, <4>4, NoWords, SendOK
    <3> QED  BY <1>5, <3>2, <3>3 DEF CmdGet
  <2> QED  BY <1>5, <2>1 DEF CmdGet, Idle, memory, TypeOK, SentOK
<1>6. CASE CmdPush(p, args)
  <2>1. SentOK'
    <3>1. CASE Bad(p, "push", <<>>)
      BY <3>1, NoWords, OkBadOK
    <3>2. CASE PushAccepted(args) /\ Ok(p, "push", <<args[1]>>)
      <4>1. <<args[1]>> \in Seq(Word)
        BY <1>6, <3>2, FirstWord DEF CmdPush, PushAccepted
      <4> QED  BY <3>2, <4>1, NoWords, OkBadOK
    <3> QED  BY <1>6, <3>1, <3>2 DEF CmdPush
  <2>2. actions' \in [Pid -> Seq(Path)]
    <3>1. CASE UNCHANGED actions
      BY <3>1 DEF TypeOK
    <3>2. CASE PushAccepted(args)
               /\ actions' = [actions EXCEPT ![p] = <<args[1]>> \o @]
      <4>1. args[1] \in Path /\ actions[p] \in Seq(Path)
        BY <3>2 DEF PushAccepted, ValidPath, TypeOK
      <4>2. <<args[1]>> \o actions[p] \in Seq(Path)
        BY <4>1
      <4> QED  BY <3>2, <4>2 DEF TypeOK
    <3> QED  BY <1>6, <3>1, <3>2 DEF CmdPush
  <2> QED  BY <1>6, <2>1, <2>2 DEF CmdPush, TypeOK, SentOK
<1> QED  BY <1>1, <1>2, <1>3, <1>4, <1>5, <1>6 DEF CommandWith

LEMMA TypeOKStep == TypeOK /\ AnyStep => TypeOK'
<1> SUFFICES ASSUME TypeOK, AnyStep PROVE TypeOK'
  OBVIOUS
<1>1. CASE Process \/ FsChange
  BY <1>1, TypeOKProcess
<1>2. ASSUME NEW p \in Pid, Command(p) PROVE TypeOK'
  BY <1>2, TypeOKCommand
<1>3. ASSUME NEW p \in Pid, NEW args \in AnyArgs, CommandWith(p, args)
      PROVE  TypeOK'
  BY <1>3, TypeOKCommandWith
<1>4. CASE Elsewhere
  <2>1. SentOK'
    <3>1. SentOK /\ (sent' = sent \/ Silent)
      BY <1>4 DEF Elsewhere, TypeOK, SentOK, Silent
    <3> QED  BY <3>1, SilentOK DEF SentOK
  <2> QED  BY <1>4, <2>1 DEF Elsewhere, Idle, memory, TypeOK, SentOK
<1> QED  BY <1>1, <1>2, <1>3, <1>4 DEF AnyStep

(***************************************************************************)
(* Every variable keeps its type; in particular an action stack only ever  *)
(* holds words that were accepted as paths, and a step sends at most one   *)
(* reply.                                                                  *)
(***************************************************************************)
THEOREM TypeCorrect == Spec => []TypeOK
BY TypeOKInit, TypeOKStep, NextIsAnyStep, PTL DEF Spec
-----------------------------------------------------------------------------
(* The tag list.                                                           *)

(***************************************************************************)
(* Everything a step can do to the tag list: nothing, lose it with the     *)
(* process, or one of the three list operations under the condition the    *)
(* code puts on it.                                                        *)
(***************************************************************************)
TagStep ==
  \/ tags' = tags
  \/ tags' = <<>>
  \/ \E n, d \in Word : HasTag(tags, n) /\ tags' = SetPath(tags, n, d)
  \/ \E n, d \in Word : ~HasTag(tags, n) /\ tags' = AppendTag(tags, n, d)
  \/ \E n \in Word : HasTag(tags, n) /\ tags' = DeleteTag(tags, n)

LEMMA TagStepProcess ==
  ASSUME TypeOK, Process \/ FsChange
  PROVE  TagStep
<1>1. CASE ReadLine
  <2> DEFINE line == Head(pending)
             name == ReadAs[line.tag].name
             dir  == IF ReadAs[line.tag].whole THEN line.path ELSE Junk
  <2>1. line \in Line
    BY <1>1, HeadTailProperties DEF ReadLine, TypeOK
  <2>2. name \in Word /\ dir \in Word
    BY <2>1, WordAssumption DEF Line
  <2>3. \/ HasTag(tags, name) /\ tags' = SetPath(tags, name, dir)
        \/ ~HasTag(tags, name) /\ tags' = AppendTag(tags, name, dir)
        \/ tags' = tags
    BY <1>1 DEF ReadLine
  <2> HIDE DEF line, name, dir
  <2> QED  BY <2>2, <2>3 DEF TagStep
<1>2. CASE Start \/ Serve
  BY <1>2 DEF Start, Serve, TagStep
<1>3. CASE Terminate \/ PidOutOfRange
  BY <1>3 DEF Terminate, PidOutOfRange, LoseMemory, TagStep
<1>4. CASE FsChange
  BY <1>4 DEF FsChange, memory, TagStep
<1> QED  BY <1>1, <1>2, <1>3, <1>4 DEF Process

(* The words of an accepted add, and of an accepted delete.                *)
LEMMA AddWords ==
  ASSUME NEW args \in AnyArgs, args # NoArgs, AddAccepted(args)
  PROVE  args[1] \in Word /\ args[2] \in Word
<1>1. args \in Seq(Word) /\ Len(args) = 2
  BY ArgWords DEF AddAccepted
<1>2. 1 \in 1..Len(args) /\ 2 \in 1..Len(args)
  BY <1>1
<1> QED  BY <1>1, <1>2, ElementOfSeq

LEMMA TagStepCommandWith ==
  ASSUME TypeOK, NEW p \in Pid, NEW args \in AnyArgs, CommandWith(p, args)
  PROVE  TagStep
<1>1. CASE Ignored(p, args) \/ CmdGet(p, args) \/ CmdPush(p, args)
  BY <1>1 DEF Ignored, CmdGet, CmdPush, Idle, memory, TagStep
<1>2. CASE NullArgs(p, args)
  BY <1>2 DEF NullArgs, LoseMemory, TagStep
<1>3. CASE CmdAdd(p, args)
  <2>1. CASE tags' = tags
    BY <2>1 DEF TagStep
  <2>2. CASE AddAccepted(args)
             /\ tags' = IF HasTag(tags, args[1])
                          THEN SetPath(tags, args[1], args[2])
                          ELSE AppendTag(tags, args[1], args[2])
    <3>1. args[1] \in Word /\ args[2] \in Word
      BY <1>3, <2>2, AddWords DEF CmdAdd
    <3> QED  BY <2>2, <3>1 DEF TagStep
  <2> QED  BY <1>3, <2>1, <2>2 DEF CmdAdd
<1>4. CASE CmdDelete(p, args)
  <2>1. args[1] \in Word
    BY <1>4, ArgWords DEF CmdDelete
  <2> QED  BY <1>4, <2>1 DEF CmdDelete, TagStep
<1> QED  BY <1>1, <1>2, <1>3, <1>4 DEF CommandWith

LEMMA TagStepNext == TypeOK /\ AnyStep => TagStep
<1> SUFFICES ASSUME TypeOK, AnyStep PROVE TagStep
  OBVIOUS
<1>1. CASE Process \/ FsChange
  BY <1>1, TagStepProcess
<1>2. ASSUME NEW p \in Pid, Command(p) PROVE TagStep
  BY <1>2 DEF Command, CmdRegister, CmdUnregister, CmdShow, CmdList, CmdPop,
              CmdActions, CmdReset, Idle, memory, TagStep
<1>3. ASSUME NEW p \in Pid, NEW args \in AnyArgs, CommandWith(p, args)
      PROVE  TagStep
  BY <1>3, TagStepCommandWith
<1>4. CASE Elsewhere
  BY <1>4 DEF Elsewhere, Idle, memory, TagStep
<1> QED  BY <1>1, <1>2, <1>3, <1>4 DEF AnyStep

LEMMA UniqueTagsStep == TypeOK /\ UniqueTags /\ TagStep => UniqueTags'
<1> SUFFICES ASSUME TypeOK, UniqueTags, TagStep PROVE UniqueTags'
  OBVIOUS
<1>1. tags \in Seq(Line) /\ Distinct(tags)
  BY DEF TypeOK, UniqueTags
<1>2. Distinct(<<>>)
  BY DEF Distinct
<1>3. Distinct(tags')
  BY <1>1, <1>2, SetPathDistinct, AppendTagDistinct, DeleteTagDistinct DEF TagStep
<1> QED  BY <1>3 DEF UniqueTags

(***************************************************************************)
(* No name is ever twice in the tag list, whatever the tag file holds,     *)
(* however names come back from it, and whatever fails.                    *)
(***************************************************************************)
THEOREM TagsStayUnique == Spec => []UniqueTags
<1>1. Init => UniqueTags
  BY DEF Init, UniqueTags, Distinct
<1> QED
  BY <1>1, TypeCorrect, TagStepNext, UniqueTagsStep, NextIsAnyStep, PTL
     DEF Spec
-----------------------------------------------------------------------------
(* The action stacks.                                                      *)

Answers(q) == sent' # <<>> /\ sent'[1].to = q

(***************************************************************************)
(* Everything a step can do to the stack of shell q.                       *)
(***************************************************************************)
StackStep(q) ==
  \/ actions'[q] = actions[q] /\ (q \in shells => q \in shells' \/ actions[q] = <<>>)
  \/ actions'[q] = <<>> /\ (phase' = "down" \/ Answers(q))
  \/ /\ actions[q] # <<>>
     /\ actions'[q] = Tail(actions[q])
     /\ q \in shells'
     /\ Answers(q)
  \/ /\ \E d \in Path : ~Repeats(q, d) /\ actions'[q] = <<d>> \o actions[q]
     /\ q \in shells'
     /\ Answers(q)

LEMMA SendAnswers ==
  ASSUME NEW p \in Pid, NEW cmd, NEW args,
         Ok(p, cmd, args) \/ \E body : Send(p, cmd, args, "path", body)
  PROVE  Answers(p)
BY DEF Ok, Send, Answers

(* A step that leaves stacks and sessions alone, and one that ends the     *)
(* process.                                                                *)
LEMMA StackStepSame ==
  ASSUME UNCHANGED <<actions, shells>> PROVE \A q \in Pid : StackStep(q)
BY DEF StackStep

LEMMA StackStepLose ==
  ASSUME NEW how, LoseMemory(how) PROVE \A q \in Pid : StackStep(q)
BY DEF LoseMemory, EmptyStacks, StackStep

LEMMA StackStepCommand ==
  ASSUME TypeOK, NEW p \in Pid, Command(p), NEW q \in Pid
  PROVE  StackStep(q)
<1>1. CASE CmdShow(p) \/ CmdList(p) \/ CmdActions(p)
  BY <1>1, StackStepSame DEF CmdShow, CmdList, CmdActions, Idle, memory
<1>2. CASE CmdRegister(p)
  BY <1>2 DEF CmdRegister, StackStep
<1>3. CASE CmdUnregister(p)
  <2>1. Answers(p)
    BY <1>3, SendAnswers DEF CmdUnregister
  <2> QED  BY <1>3, <2>1 DEF CmdUnregister, StackStep, TypeOK
<1>4. CASE CmdReset(p)
  <2>1. Answers(p)
    BY <1>4, SendAnswers DEF CmdReset
  <2> QED  BY <1>4, <2>1 DEF CmdReset, StackStep, TypeOK
<1>5. CASE CmdPop(p)
  <2>1. CASE actions[p] = <<>>
    BY <1>5, <2>1, StackStepSame DEF CmdPop
  <2>2. CASE actions[p] # <<>>
    <3>1. Answers(p)
      BY <1>5, <2>2, SendAnswers DEF CmdPop
    <3> QED  BY <1>5, <2>2, <3>1 DEF CmdPop, Known, StackStep, TypeOK
  <2> QED  BY <2>1, <2>2
<1> QED  BY <1>1, <1>2, <1>3, <1>4, <1>5 DEF Command

LEMMA StackStepCommandWith ==
  ASSUME TypeOK, NEW p \in Pid, NEW args \in AnyArgs, CommandWith(p, args),
         NEW q \in Pid
  PROVE  StackStep(q)
<1>1. CASE Ignored(p, args) \/ CmdAdd(p, args) \/ CmdDelete(p, args) \/ CmdGet(p, args)
  BY <1>1, StackStepSame DEF Ignored, CmdAdd, CmdDelete, CmdGet, Idle, memory
<1>2. CASE NullArgs(p, args)
  BY <1>2, StackStepLose DEF NullArgs
<1>3. CASE CmdPush(p, args)
  <2>1. CASE UNCHANGED actions
    BY <1>3, <2>1, StackStepSame DEF CmdPush
  <2>2. CASE PushAccepted(args) /\ ~Repeats(p, args[1])
               /\ Ok(p, "push", <<args[1]>>)
             /\ actions' = [actions EXCEPT ![p] = <<args[1]>> \o @]
    <3>1. Answers(p)
      BY <2>2, SendAnswers
    <3>2. args[1] \in Path /\ p \in shells'
      BY <1>3, <2>2 DEF CmdPush, Known, PushAccepted, ValidPath, TypeOK
    <3>3. q = p => actions'[q] = <<args[1]>> \o actions[q]
      BY <2>2 DEF TypeOK
    <3>4. q # p => actions'[q] = actions[q] /\ UNCHANGED shells
      BY <1>3, <2>2 DEF CmdPush, TypeOK
    <3> QED  BY <2>2, <3>1, <3>2, <3>3, <3>4 DEF StackStep
  <2> QED  BY <1>3, <2>1, <2>2 DEF CmdPush
<1> QED  BY <1>1, <1>2, <1>3 DEF CommandWith

LEMMA StackStepNext == TypeOK /\ AnyStep => \A q \in Pid : StackStep(q)
<1> SUFFICES ASSUME TypeOK, AnyStep PROVE \A q \in Pid : StackStep(q)
  OBVIOUS
<1>1. CASE Start \/ ReadLine \/ Serve \/ FsChange \/ Elsewhere
  BY <1>1, StackStepSame DEF Start, ReadLine, Serve, FsChange,
                               Elsewhere, Idle, memory
<1>2. CASE Terminate \/ PidOutOfRange
  BY <1>2, StackStepLose DEF Terminate, PidOutOfRange
<1>3. ASSUME NEW p \in Pid, Command(p) PROVE \A q \in Pid : StackStep(q)
  BY <1>3, StackStepCommand
<1>4. ASSUME NEW p \in Pid, NEW args \in AnyArgs, CommandWith(p, args)
      PROVE  \A q \in Pid : StackStep(q)
  BY <1>4, StackStepCommandWith
<1> QED  BY <1>1, <1>2, <1>3, <1>4 DEF AnyStep, Process

(***************************************************************************)
(* A step changes the stack of one shell at most, the one it answers,      *)
(* unless it is the daemon's last: for every number of shells.             *)
(***************************************************************************)
THEOREM StacksAreIsolated == Spec => ShellIsolation
<1>1. TypeOK /\ AnyStep =>
        [\A p \in Pid : actions'[p] # actions[p] =>
           phase' = "down" \/ (sent' # <<>> /\ sent'[1].to = p)]_vars
  BY StackStepNext DEF StackStep, Answers
<1> QED  BY <1>1, TypeCorrect, NextIsAnyStep, PTL DEF Spec, ShellIsolation

LEMMA StacksNeedSessionsStep ==
  TypeOK /\ StacksOfRegisteredOnly /\ AnyStep => StacksOfRegisteredOnly'
BY StackStepNext DEF StackStep, StacksOfRegisteredOnly

(***************************************************************************)
(* A shell without a session has no stack: it starts every session with    *)
(* an empty one.                                                           *)
(***************************************************************************)
THEOREM StacksNeedSessions == Spec => []StacksOfRegisteredOnly
<1>1. Init => StacksOfRegisteredOnly
  BY DEF Init, EmptyStacks, StacksOfRegisteredOnly
<1> QED
  BY <1>1, StacksNeedSessionsStep, TypeCorrect, NextIsAnyStep, PTL DEF Spec

(* No two neighbours of a stack are equal.                                 *)
NoRepeat(s) == \A i \in 1..(Len(s) - 1) : s[i] # s[i+1]

LEMMA PushNoRepeat ==
  ASSUME NEW s \in Seq(Path), NEW d \in Path, NoRepeat(s),
         ~(s # <<>> /\ Head(s) = d)
  PROVE  NoRepeat(<<d>> \o s)
<1> DEFINE t == <<d>> \o s
<1>1. <<d>> \in Seq(Path) /\ Len(<<d>>) = 1 /\ <<d>>[1] = d /\ Len(s) \in Nat
  BY LenProperties
<1>2. /\ Len(t) = Len(s) + 1
      /\ \A i \in 1..(Len(s) + 1) : t[i] = IF i <= 1 THEN <<d>>[i] ELSE s[i-1]
  <2>1. /\ Len(<<d>> \o s) = Len(<<d>>) + Len(s)
        /\ \A i \in 1 .. Len(<<d>>) + Len(s) : (<<d>> \o s)[i] =
             IF i <= Len(<<d>>) THEN <<d>>[i] ELSE s[i - Len(<<d>>)]
    BY <1>1, ConcatProperties
  <2> QED  BY <1>1, <2>1
<1> HIDE DEF t
<1>3. s # <<>> => s[1] # d
  BY DEF NoRepeat
<1>4. ASSUME NEW i \in 1..(Len(t) - 1) PROVE t[i] # t[i+1]
  <2>1. CASE i = 1
    BY <1>1, <1>2, <1>3, <2>1
  <2>2. CASE i > 1
    BY <1>1, <1>2, <2>2 DEF NoRepeat
  <2> QED  BY <1>1, <1>2, <2>1, <2>2
<1> QED  BY <1>4 DEF NoRepeat, t

LEMMA PopNoRepeat ==
  ASSUME NEW s \in Seq(Path), s # <<>>, NoRepeat(s)
  PROVE  NoRepeat(Tail(s))
<1>1. /\ Len(Tail(s)) = Len(s) - 1 /\ Len(s) \in Nat
      /\ \A i \in 1..Len(Tail(s)) : Tail(s)[i] = s[i+1]
  BY HeadTailProperties, LenProperties
<1> QED  BY <1>1 DEF NoRepeat

LEMMA BackMovesStep ==
  TypeOK /\ NoImmediateRepeat /\ AnyStep => NoImmediateRepeat'
<1> SUFFICES ASSUME TypeOK, NoImmediateRepeat, AnyStep, NEW q \in Pid
             PROVE  NoRepeat(actions'[q])
  BY DEF NoImmediateRepeat, NoRepeat
<1>1. actions[q] \in Seq(Path) /\ NoRepeat(actions[q])
  BY DEF TypeOK, NoImmediateRepeat, NoRepeat
<1>2. StackStep(q)
  BY StackStepNext
<1>3. CASE actions'[q] \in {actions[q], <<>>}
  BY <1>1, <1>3 DEF NoRepeat
<1>4. CASE actions[q] # <<>> /\ actions'[q] = Tail(actions[q])
  BY <1>1, <1>4, PopNoRepeat
<1>5. CASE \E d \in Path : ~Repeats(q, d) /\ actions'[q] = <<d>> \o actions[q]
  BY <1>1, <1>5, PushNoRepeat DEF Repeats
<1> QED  BY <1>2, <1>3, <1>4, <1>5 DEF StackStep

(***************************************************************************)
(* Two steps back in a row never name the same directory, for stacks of    *)
(* every length.                                                           *)
(***************************************************************************)
THEOREM NoStepTwice == Spec => []NoImmediateRepeat
<1>1. Init => NoImmediateRepeat
  BY DEF Init, EmptyStacks, NoImmediateRepeat
<1> QED
  BY <1>1, BackMovesStep, TypeCorrect, NextIsAnyStep, PTL DEF Spec
=============================================================================
