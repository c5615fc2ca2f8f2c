-------------------------- MODULE NavRefinementProofs --------------------------
(***************************************************************************)
(* NavDaemon implements NavService, for every set of shells, names, paths  *)
(* and clean tag files, as long as names are plain and nothing fails.      *)
(***************************************************************************)
EXTENDS NavRefinement, NavTagFileProofs

-----------------------------------------------------------------------------
(* The tag map of a list without repeated names.                           *)

LEMMA OnlyIndex ==
  ASSUME NEW l \in Seq(Line), Distinct(l), NEW i \in 1..Len(l)
  PROVE  FirstIndex(l, l[i].tag) = i
<1>1. HasTag(l, l[i].tag)
  BY DEF HasTag
<1>2. /\ FirstIndex(l, l[i].tag) \in 1..Len(l)
      /\ l[FirstIndex(l, l[i].tag)].tag = l[i].tag
  BY <1>1, FirstIndexIsFirst
<1> QED BY <1>2 DEF Distinct

LEMMA StoreAt ==
  ASSUME NEW l \in Seq(Line), Distinct(l)
  PROVE  /\ DOMAIN StoreOf(l) = TagsOf(l)
         /\ \A n : n \in TagsOf(l) <=> HasTag(l, n)
         /\ \A i \in 1..Len(l) : StoreOf(l)[l[i].tag] = l[i].path
         /\ \A n \in TagsOf(l) : StoreOf(l)[n] = l[FirstIndex(l, n)].path
<1>1. \A i \in 1..Len(l) : l[i].tag \in TagsOf(l)
  BY DEF TagsOf
<1>2. \A i \in 1..Len(l) : FirstIndex(l, l[i].tag) = i
  BY OnlyIndex
<1>3. \A n : n \in TagsOf(l) <=> HasTag(l, n)
  BY DEF TagsOf, HasTag
<1> QED BY <1>1, <1>2, <1>3 DEF StoreOf

(* A function that agrees with every line is the map.                      *)
LEMMA StoreIs ==
  ASSUME NEW l \in Seq(Line), Distinct(l), NEW f \in [TagsOf(l) -> Word],
         \A i \in 1..Len(l) : f[l[i].tag] = l[i].path
  PROVE  StoreOf(l) = f
<1>1. \A n \in TagsOf(l) : l[FirstIndex(l, n)].path = f[n]
  <2> SUFFICES ASSUME NEW n \in TagsOf(l)
               PROVE  l[FirstIndex(l, n)].path = f[n]
    OBVIOUS
  <2>1. PICK i \in 1..Len(l) : l[i].tag = n
    BY DEF TagsOf
  <2>2. FirstIndex(l, n) = i
    BY <2>1, OnlyIndex
  <2> QED BY <2>1, <2>2
<1> QED BY <1>1 DEF StoreOf

LEMMA StoreType ==
  ASSUME NEW l \in Seq(Line), Distinct(l), NEW ds, PathsIn(l, ds)
  PROVE  TagsOf(l) \subseteq Word /\ StoreOf(l) \in [TagsOf(l) -> ds]
<1>1. \A i \in 1..Len(l) : l[i].tag \in Word
  BY LineFields
<1>2. \A n \in TagsOf(l) : FirstIndex(l, n) \in 1..Len(l)
  BY StoreAt, FirstIndexIsFirst
<1> QED BY <1>1, <1>2 DEF TagsOf, StoreOf, PathsIn

(* What add and delete do to the list, they do to the map.                 *)
LEMMA SetPathStore ==
  ASSUME NEW l \in Seq(Line), Distinct(l), PathsIn(l, Word),
         NEW n \in Word, NEW d \in Word, HasTag(l, n)
  PROVE  StoreOf(SetPath(l, n, d)) =
           [k \in DOMAIN StoreOf(l) \union {n} |->
              IF k = n THEN d ELSE StoreOf(l)[k]]
<1> DEFINE s == SetPath(l, n, d)
           h == FirstIndex(l, n)
           f == [k \in DOMAIN StoreOf(l) \union {n} |->
                   IF k = n THEN d ELSE StoreOf(l)[k]]
<1>1. /\ s \in Seq(Line) /\ Len(s) = Len(l)
      /\ \A i \in 1..Len(l) : s[i] = IF i = h THEN Entry(n, d) ELSE l[i]
  BY SetPathShape
<1>2. h \in 1..Len(l) /\ l[h].tag = n
  BY FirstIndexIsFirst
<1>3. Distinct(s)
  BY SetPathDistinct
<1>4. Entry(n, d).tag = n /\ Entry(n, d).path = d
  BY DEF Entry
<1> HIDE DEF s, h
<1>5. \A i \in 1..Len(l) : s[i].tag = l[i].tag
  BY <1>1, <1>2, <1>4
<1>6. TagsOf(s) = TagsOf(l) /\ n \in TagsOf(l)
  BY <1>1, <1>2, <1>5 DEF TagsOf
<1>7. StoreOf(l) \in [TagsOf(l) -> Word]
  BY StoreType
<1>8. f \in [TagsOf(s) -> Word]
  BY <1>6, <1>7
<1>9. \A i \in 1..Len(s) : f[s[i].tag] = s[i].path
  <2> SUFFICES ASSUME NEW i \in 1..Len(l) PROVE f[s[i].tag] = s[i].path
    BY <1>1
  <2>1. s[i].tag = l[i].tag /\ l[i].tag \in TagsOf(l)
    BY <1>5 DEF TagsOf
  <2>2. CASE i = h
    BY <1>1, <1>2, <1>4, <2>1, <2>2
  <2>3. CASE i # h
    <3>1. l[i].tag # n /\ s[i] = l[i]
      BY <1>1, <1>2, <2>3 DEF Distinct
    <3>2. StoreOf(l)[l[i].tag] = l[i].path
      BY StoreAt
    <3> QED BY <1>7, <2>1, <3>1, <3>2
  <2> QED BY <2>2, <2>3
<1> HIDE DEF f
<1>10. StoreOf(s) = f
  BY <1>1, <1>3, <1>8, <1>9, StoreIs
<1> QED BY <1>10 DEF s, f

LEMMA AppendTagStore ==
  ASSUME NEW l \in Seq(Line), Distinct(l), PathsIn(l, Word),
         NEW n \in Word, NEW d \in Word, ~HasTag(l, n)
  PROVE  StoreOf(AppendTag(l, n, d)) =
           [k \in DOMAIN StoreOf(l) \union {n} |->
              IF k = n THEN d ELSE StoreOf(l)[k]]
<1> DEFINE s == AppendTag(l, n, d)
           f == [k \in DOMAIN StoreOf(l) \union {n} |->
                   IF k = n THEN d ELSE StoreOf(l)[k]]
<1>1. Entry(n, d) \in Line /\ Entry(n, d).tag = n /\ Entry(n, d).path = d
  BY DEF Entry, Line
<1>2. /\ s \in Seq(Line) /\ Len(s) = Len(l) + 1 /\ Len(l) \in Nat
      /\ \A i \in 1..Len(l) : s[i] = l[i]
      /\ s[Len(l) + 1] = Entry(n, d)
  BY <1>1, AppendProperties, LenProperties DEF AppendTag
<1>3. Distinct(s)
  BY AppendTagDistinct
<1> HIDE DEF s
<1>4. TagsOf(s) = TagsOf(l) \union {n}
  <2>1. \A k \in TagsOf(s) : k \in TagsOf(l) \/ k = n
    BY <1>1, <1>2 DEF TagsOf
  <2>2. \A k \in TagsOf(l) : k \in TagsOf(s)
    BY <1>2 DEF TagsOf
  <2>3. n \in TagsOf(s)
    BY <1>1, <1>2 DEF TagsOf
  <2> QED BY <2>1, <2>2, <2>3
<1>5. StoreOf(l) \in [TagsOf(l) -> Word] /\ n \notin TagsOf(l)
  BY StoreType, StoreAt
<1>6. f \in [TagsOf(s) -> Word]
  BY <1>4, <1>5
<1>7. \A i \in 1..Len(s) : f[s[i].tag] = s[i].path
  <2> SUFFICES ASSUME NEW i \in 1..Len(s) PROVE f[s[i].tag] = s[i].path
    OBVIOUS
  <2>1. CASE i = Len(l) + 1
    BY <1>1, <1>2, <2>1
  <2>2. CASE i # Len(l) + 1
    <3>1. i \in 1..Len(l) /\ s[i] = l[i]
      BY <1>2, <2>2
    <3>2. l[i].tag \in TagsOf(l) /\ StoreOf(l)[l[i].tag] = l[i].path
      BY <3>1, StoreAt DEF TagsOf
    <3> QED BY <1>5, <3>1, <3>2
  <2> QED BY <2>1, <2>2
<1> HIDE DEF f
<1>8. StoreOf(s) = f
  BY <1>2, <1>3, <1>6, <1>7, StoreIs
<1> QED BY <1>8 DEF s, f

LEMMA DeleteTagStore ==
  ASSUME NEW l \in Seq(Line), Distinct(l), PathsIn(l, Word),
         NEW n \in Word, HasTag(l, n)
  PROVE  StoreOf(DeleteTag(l, n)) =
           [k \in DOMAIN StoreOf(l) \ {n} |-> StoreOf(l)[k]]
<1> DEFINE s == DeleteTag(l, n)
           h == FirstIndex(l, n)
           f == [k \in DOMAIN StoreOf(l) \ {n} |-> StoreOf(l)[k]]
<1>1. h \in 1..Len(l) /\ l[h].tag = n /\ Len(l) \in Nat
  BY FirstIndexIsFirst, LenProperties
<1>2. /\ s \in Seq(Line) /\ Len(s) = Len(l) - 1
      /\ \A i \in 1..(Len(l) - 1) : s[i] = IF i < h THEN l[i] ELSE l[i+1]
  BY <1>1, WithoutShape DEF DeleteTag
<1>3. Distinct(s)
  BY DeleteTagDistinct
<1> HIDE DEF s, h
<1>4. \A i \in 1..Len(s) : \E j \in 1..Len(l) : j # h /\ s[i] = l[j]
  BY <1>1, <1>2
<1>5. \A j \in 1..Len(l) : j # h => \E i \in 1..Len(s) : s[i] = l[j]
  <2> SUFFICES ASSUME NEW j \in 1..Len(l), j # h
               PROVE  \E i \in 1..Len(s) : s[i] = l[j]
    OBVIOUS
  <2>1. CASE j < h
    BY <1>1, <1>2, <2>1
  <2>2. CASE j > h
    <3>1. j - 1 \in 1..(Len(l) - 1) /\ ~(j - 1 < h) /\ (j - 1) + 1 = j
      BY <1>1, <2>2
    <3>2. s[j - 1] = l[j]
      BY <1>2, <3>1
    <3> QED BY <1>2, <3>1, <3>2
  <2> QED BY <1>1, <2>1, <2>2
<1>6. \A j \in 1..Len(l) : l[j].tag = n <=> j = h
  BY <1>1 DEF Distinct
<1>7. TagsOf(s) = TagsOf(l) \ {n}
  <2>1. \A k \in TagsOf(s) : k \in TagsOf(l) \ {n}
    BY <1>4, <1>6 DEF TagsOf
  <2>2. \A k \in TagsOf(l) \ {n} : k \in TagsOf(s)
    BY <1>5, <1>6 DEF TagsOf
  <2> QED BY <2>1, <2>2
<1>8. StoreOf(l) \in [TagsOf(l) -> Word]
  BY StoreType
<1>9. f \in [TagsOf(s) -> Word]
  BY <1>7, <1>8
<1>10. \A i \in 1..Len(s) : f[s[i].tag] = s[i].path
  <2> SUFFICES ASSUME NEW i \in 1..Len(s) PROVE f[s[i].tag] = s[i].path
    OBVIOUS
  <2>1. PICK j \in 1..Len(l) : j # h /\ s[i] = l[j]
    BY <1>4
  <2>2. l[j].tag \in TagsOf(l) \ {n} /\ StoreOf(l)[l[j].tag] = l[j].path
    BY <1>6, <2>1, StoreAt DEF TagsOf
  <2> QED BY <1>8, <2>1, <2>2
<1> HIDE DEF f
<1>11. StoreOf(s) = f
  BY <1>2, <1>3, <1>9, <1>10, StoreIs
<1> QED BY <1>11 DEF s, f
-----------------------------------------------------------------------------
(* Said.                                                                *)

LEMMA NoAnswer == Silent => Said' = <<>>
BY DEF Silent, Said

LEMMA OneAnswer ==
  ASSUME NEW r, sent' = <<r>>
  PROVE  Said' = <<AnswerOf(r)>>
<1>1. Said' = [i \in 1..1 |-> AnswerOf(<<r>>[i])]
  BY DEF Said
<1> HIDE DEF AnswerOf
<1> QED BY <1>1

(* The words of a request behind its command.                              *)
LEMMA Asked ==
  ASSUME NEW cmd
  PROVE  /\ <<cmd>> \o <<>> = <<cmd>>
         /\ \A n \in Word : <<cmd>> \o <<n>> = <<cmd, n>>
         /\ \A args \in Seq(Word) : Len(args) = 2 =>
              <<cmd>> \o args = <<cmd, args[1], args[2]>>
<1> DEFINE W == Word \union {cmd}
<1>1. <<cmd>> \in Seq(W) /\ Len(<<cmd>>) = 1
  OBVIOUS
<1>2. <<cmd>> \o <<>> = <<cmd>>
  BY <1>1, ConcatEmptySeq
<1>3. ASSUME NEW n \in Word PROVE <<cmd>> \o <<n>> = <<cmd, n>>
  <2>1. <<n>> \in Seq(W) /\ <<cmd, n>> \in Seq(W)
    OBVIOUS
  <2>2. /\ <<cmd>> \o <<n>> \in Seq(W)
        /\ Len(<<cmd>> \o <<n>>) = 2
        /\ (<<cmd>> \o <<n>>)[1] = cmd /\ (<<cmd>> \o <<n>>)[2] = n
    <3> HIDE DEF W
    <3> QED BY <1>1, <2>1, ConcatProperties
  <2>3. \A i \in 1..2 : (<<cmd>> \o <<n>>)[i] = <<cmd, n>>[i]
    BY <2>2
  <2> HIDE DEF W
  <2> QED BY <2>1, <2>2, <2>3, SeqEqual
<1>4. ASSUME NEW args \in Seq(Word), Len(args) = 2
      PROVE  <<cmd>> \o args = <<cmd, args[1], args[2]>>
  <2>1. args[1] \in Word /\ args[2] \in Word
    BY <1>4, ElementOfSeq
  <2>2. args \in Seq(W)
    <3> Word \subseteq W
      OBVIOUS
    <3> HIDE DEF W
    <3> QED BY <1>4, LenProperties
  <2>3. <<cmd, args[1], args[2]>> \in Seq(W)
    BY <2>1
  <2>4. LET s == <<cmd>> \o args
        IN  /\ s \in Seq(W) /\ Len(s) = 3
            /\ s[1] = cmd /\ s[2] = args[1] /\ s[3] = args[2]
    <3> HIDE DEF W
    <3> QED BY <1>1, <1>4, <2>2, ConcatProperties
  <2>5. \A i \in 1..3 :
          (<<cmd>> \o args)[i] = <<cmd, args[1], args[2]>>[i]
    BY <2>4
  <2> HIDE DEF W
  <2> QED BY <2>3, <2>4, <2>5, SeqEqual
<1> QED BY <1>2, <1>3, <1>4

LEMMA ItemsOf ==
  /\ Items(<<>>) = {}
  /\ \A x : Items(<<x>>) = {x}
BY DEF Items
LEMMA SaysThat ==
  ASSUME NEW p, NEW cmd, NEW args, NEW kind, NEW body,
         Send(p, cmd, args, kind, body), kind # "actions"
  PROVE  Service!Say(p, <<cmd>> \o args, kind, Items(body))
<1> DEFINE r == [to |-> p, cmd |-> cmd, args |-> args, kind |-> kind,
                 body |-> body]
<1>1. Said' = <<AnswerOf(r)>>
  BY OneAnswer DEF Send
<1>2. AnswerOf(r) = [to |-> p, asked |-> <<cmd>> \o args, kind |-> kind,
                     body |-> Items(body)]
  BY DEF AnswerOf
<1> QED BY <1>1, <1>2 DEF Service!Say

LEMMA SaysTrail ==
  ASSUME NEW p, NEW body, Send(p, "actions", <<>>, "actions", body)
  PROVE  Service!Say(p, <<"actions">>, "actions",
                     {<<i, body[i]>> : i \in 1..Len(body)})
<1> DEFINE r == [to |-> p, cmd |-> "actions", args |-> <<>>,
                 kind |-> "actions", body |-> body]
<1>1. Said' = <<AnswerOf(r)>>
  BY OneAnswer DEF Send
<1>2. AnswerOf(r) = [to |-> p, asked |-> <<"actions">>,
                     kind |-> "actions",
                     body |-> {<<i, body[i]>> : i \in 1..Len(body)}]
  BY Asked DEF AnswerOf
<1> QED BY <1>1, <1>2 DEF Service!Say

(* The three shapes of a request: no word, one word, two words.            *)
LEMMA SaysBare ==
  ASSUME NEW p, NEW cmd, NEW kind, NEW body, kind # "actions",
         Send(p, cmd, <<>>, kind, body)
  PROVE  Service!Say(p, <<cmd>>, kind, Items(body))
<1>1. Service!Say(p, <<cmd>> \o <<>>, kind, Items(body))
  BY SaysThat
<1>2. <<cmd>> \o <<>> = <<cmd>>
  BY Asked
<1> QED BY <1>1, <1>2

LEMMA SaysWord ==
  ASSUME NEW p, NEW cmd, NEW n \in Word, NEW kind, NEW body,
         kind # "actions", Send(p, cmd, <<n>>, kind, body)
  PROVE  Service!Say(p, <<cmd, n>>, kind, Items(body))
<1>1. Service!Say(p, <<cmd>> \o <<n>>, kind, Items(body))
  BY SaysThat
<1>2. <<cmd>> \o <<n>> = <<cmd, n>>
  BY Asked
<1> QED BY <1>1, <1>2

LEMMA SaysWords ==
  ASSUME NEW p, NEW cmd, NEW args \in Seq(Word), Len(args) = 2, NEW kind,
         NEW body, kind # "actions", Send(p, cmd, args, kind, body)
  PROVE  Service!Say(p, <<cmd, args[1], args[2]>>, kind, Items(body))
<1>1. Service!Say(p, <<cmd>> \o args, kind, Items(body))
  BY SaysThat
<1>2. <<cmd>> \o args = <<cmd, args[1], args[2]>>
  BY Asked
<1> QED BY <1>1, <1>2

LEMMA SaysNoMore ==
  ASSUME NEW p, NEW cmd, NEW kind, kind # "actions",
         Send(p, cmd, <<>>, kind, <<>>)
  PROVE  Service!Say(p, <<cmd>>, kind, {})
<1>1. Service!Say(p, <<cmd>>, kind, Items(<<>>))
  BY SaysBare
<1>2. Items(<<>>) = {}
  BY ItemsOf
<1> QED BY <1>1, <1>2

-----------------------------------------------------------------------------
(* Each step of the daemon is a step of the service.                       *)

(* What is not a request's own doing.                                      *)
LEMMA ProcessMaps ==
  ASSUME Start \/ ReadLine \/ Serve PROVE Service!Ignore
<1>1. Silent /\ UNCHANGED <<file, shells, actions>>
  BY DEF Start, ReadLine, Serve
<1> QED BY <1>1, NoAnswer DEF Service!Ignore, Store

LEMMA EndMaps ==
  ASSUME NEW how, LoseMemory(how) PROVE Service!EndSessions
BY NoAnswer DEF LoseMemory, EmptyStacks, Service!EndSessions, Store

(* A daemon that serves answers from the map it has on disk.               *)
LEMMA Serves ==
  ASSUME TypeOK, UniqueTags, MirrorInv, phase = "serving"
  PROVE  /\ tags \in Seq(Line) /\ Distinct(tags) /\ PathsIn(tags, Word)
         /\ Store = StoreOf(tags)
         /\ \A n : n \in DOMAIN Store <=> HasTag(tags, n)
         /\ \A n : HasTag(tags, n) => Store[n] = tags[FirstIndex(tags, n)].path
<1>1. tags \in Seq(Line) /\ Distinct(tags) /\ file = tags
  BY DEF TypeOK, UniqueTags, MirrorInv, FileMirrorsTags
<1>2. PathsIn(tags, Word)
  BY <1>1, LineFields DEF PathsIn
<1> QED BY <1>1, <1>2, StoreAt DEF Store

LEMMA CommandMaps ==
  ASSUME NoFaults, TypeOK, UniqueTags, MirrorInv, NEW p \in Pid, Command(p)
  PROVE  Service!Next
<1>k. /\ actions \in [Pid -> Seq(Path)]
      /\ \A q \in Pid : actions[q] # <<>> => Head(actions[q]) \in Path
  BY HeadTailProperties DEF TypeOK
<1>f. file' = file => Store' = Store
  BY DEF Store
<1>1. CASE CmdRegister(p)
  <2>1. Send(p, "register", <<>>, "OK", <<>>) /\ shells' = shells \union {p}
        /\ UNCHANGED <<actions, file>>
    BY <1>1 DEF CmdRegister, NoFaults, Ok
  <2>2. Service!Say(p, <<"register">>, "OK", {})
    BY <2>1, SaysNoMore
  <2> QED BY <1>f, <2>1, <2>2 DEF Service!Open, Service!Next
<1>2. CASE CmdUnregister(p)
  <2>1. Send(p, "unregister", <<>>, "OK", <<>>) /\ p \in shells
        /\ shells' = shells \ {p} /\ UNCHANGED file
        /\ actions' = [actions EXCEPT ![p] = <<>>]
    BY <1>2 DEF CmdUnregister, Known, Ok
  <2>2. Service!Say(p, <<"unregister">>, "OK", {})
    BY <2>1, SaysNoMore
  <2> QED BY <1>f, <2>1, <2>2 DEF Service!Close, Service!Next
<1>3. CASE CmdShow(p)
  <2>1. Send(p, "show", <<>>, "show", tags) /\ phase = "serving" /\ p \in shells
        /\ UNCHANGED <<shells, actions, file>>
    BY <1>3 DEF CmdShow, Known, Idle, memory
  <2>2. Service!Say(p, <<"show">>, "show", Items(tags))
    BY <2>1, SaysBare
  <2>3. Items(tags) = {[tag |-> n, path |-> Store[n]] : n \in DOMAIN Store}
    <3>1. /\ tags \in Seq(Line) /\ Distinct(tags) /\ Store = StoreOf(tags)
          /\ DOMAIN Store = TagsOf(tags)
      BY <2>1, Serves, StoreAt
    <3>2. \A i \in 1..Len(tags) :
            tags[i] = [tag |-> tags[i].tag, path |-> Store[tags[i].tag]]
      <4> SUFFICES ASSUME NEW i \in 1..Len(tags)
                   PROVE  tags[i] = [tag |-> tags[i].tag,
                                     path |-> Store[tags[i].tag]]
        OBVIOUS
      <4>1. tags[i] \in Line
        BY <3>1, LineFields
      <4>2. Store[tags[i].tag] = tags[i].path
        BY <3>1, StoreAt
      <4> QED BY <4>1, <4>2 DEF Line
    <3>3. /\ Items(tags) = {tags[i] : i \in 1..Len(tags)}
          /\ DOMAIN Store = {tags[i].tag : i \in 1..Len(tags)}
      BY <3>1 DEF Items, TagsOf
    <3>4. \A x : x \in Items(tags)
                 <=> x \in {[tag |-> n, path |-> Store[n]] : n \in DOMAIN Store}
      <4>1. ASSUME NEW i \in 1..Len(tags)
            PROVE  tags[i] \in {[tag |-> n, path |-> Store[n]] : n \in DOMAIN Store}
        BY <3>2, <3>3
      <4>2. ASSUME NEW n \in DOMAIN Store
            PROVE  [tag |-> n, path |-> Store[n]] \in Items(tags)
        <5>1. PICK i \in 1..Len(tags) : tags[i].tag = n
          BY <3>3
        <5> QED BY <3>2, <3>3, <5>1
      <4> QED BY <3>3, <4>1, <4>2
    <3> QED BY <3>4
  <2> QED BY <1>f, <2>1, <2>2, <2>3 DEF Service!Entries, Service!Next
<1>4. CASE CmdList(p)
  <2> DEFINE names == [i \in 1..Len(tags) |-> tags[i].tag]
  <2>1. Send(p, "list", <<>>, "list", names) /\ phase = "serving" /\ p \in shells
        /\ UNCHANGED <<shells, actions, file>>
    BY <1>4 DEF CmdList, Known, Idle, memory
  <2>2. tags \in Seq(Line) /\ DOMAIN Store = TagsOf(tags)
    BY <2>1, Serves, StoreAt
  <2>3. Items(names) = TagsOf(tags)
    <3>1. Len(names) = Len(tags)
      BY <2>2, LenProperties
    <3> QED BY <3>1 DEF Items, TagsOf
  <2> HIDE DEF names
  <2>4. Service!Say(p, <<"list">>, "list", Items(names))
    BY <2>1, SaysBare
  <2> QED BY <1>f, <2>1, <2>2, <2>3, <2>4 DEF Service!Names, Service!Next
<1>5. CASE CmdPop(p)
  <2>1. p \in shells /\ UNCHANGED <<shells, file>>
    BY <1>5 DEF CmdPop, Known
  <2>2. CASE actions[p] # <<>>
    <3>1. Send(p, "pop", <<>>, "path", <<Head(actions[p])>>)
          /\ actions' = [actions EXCEPT ![p] = Tail(@)]
      BY <1>5, <2>2 DEF CmdPop
    <3>2. Service!Say(p, <<"pop">>, "path", {Head(actions[p])})
      <4>1. Service!Say(p, <<"pop">>, "path", Items(<<Head(actions[p])>>))
        BY <3>1, SaysBare
      <4>2. Items(<<Head(actions[p])>>) = {Head(actions[p])}
        BY ItemsOf
      <4> QED BY <4>1, <4>2
    <3> QED BY <1>f, <2>1, <2>2, <3>1, <3>2 DEF Service!Back, Service!Next
  <2>3. CASE actions[p] = <<>>
    <3>1. Send(p, "pop", <<>>, "BAD", <<>>) /\ UNCHANGED actions
      BY <1>5, <2>3 DEF CmdPop, Bad
    <3>2. Service!Say(p, <<"pop">>, "BAD", {})
      BY <3>1, SaysNoMore
    <3> QED
      BY <1>f, <2>1, <2>3, <3>1, <3>2
         DEF Service!NoWayBack, Service!Refuse, Service!Next
  <2> QED BY <2>2, <2>3
<1>6. CASE CmdActions(p)
  <2>1. Send(p, "actions", <<>>, "actions", actions[p]) /\ p \in shells
        /\ UNCHANGED <<shells, actions, file>>
    BY <1>6 DEF CmdActions, Known, Idle, memory
  <2>2. Service!Say(p, <<"actions">>, "actions",
                    {<<i, actions[p][i]>> : i \in 1..Len(actions[p])})
    BY <2>1, SaysTrail
  <2> QED BY <1>f, <2>1, <2>2 DEF Service!Trail, Service!Next
<1>7. CASE CmdReset(p)
  <2>1. Send(p, "reset", <<>>, "OK", <<>>) /\ p \in shells
        /\ UNCHANGED <<shells, file>>
        /\ actions' = [actions EXCEPT ![p] = <<>>]
    BY <1>7 DEF CmdReset, Known, Ok
  <2>2. Service!Say(p, <<"reset">>, "OK", {})
    BY <2>1, SaysNoMore
  <2> QED BY <1>f, <2>1, <2>2 DEF Service!Clear, Service!Next
<1> QED BY <1>1, <1>2, <1>3, <1>4, <1>5, <1>6, <1>7 DEF Command

LEMMA AddMaps ==
  ASSUME NoFaults, TypeOK, UniqueTags, MirrorInv,
         NEW p \in Pid, NEW args \in AnyArgs, CmdAdd(p, args)
  PROVE  Service!Next
<1>1. /\ phase = "serving" /\ p \in shells /\ args \in Seq(Word)
      /\ UNCHANGED <<shells, actions>>
  BY ArgWords DEF CmdAdd, Known
<1>2. CASE /\ AddAccepted(args)
           /\ tags' = IF HasTag(tags, args[1])
                        THEN SetPath(tags, args[1], args[2])
                        ELSE AppendTag(tags, args[1], args[2])
           /\ WriteTagFile(tags')
           /\ Ok(p, "add", args)
  <2>1. PICK n \in Word, d \in Path : n = args[1] /\ d = args[2]
    <3>1. args[1] \in Word /\ args[2] \in exists
      BY <1>1, <1>2, AddWords DEF CmdAdd, AddAccepted, ValidPath
    <3> QED BY <3>1 DEF TypeOK
  <2>2. Service!Say(p, <<"add", n, d>>, "OK", {})
    <3>1. Send(p, "add", args, "OK", <<>>) /\ Len(args) = 2
      BY <1>2 DEF Ok, AddAccepted
    <3>2. Service!Say(p, <<"add", args[1], args[2]>>, "OK", Items(<<>>))
      BY <1>1, <3>1, SaysWords
    <3> QED BY <2>1, <3>2, ItemsOf
  <2>3. /\ tags \in Seq(Line) /\ Distinct(tags) /\ PathsIn(tags, Word)
        /\ Store = StoreOf(tags) /\ d \in Word
    BY <1>1, Serves, WordAssumption
  <2>4. StoreOf(tags') = [k \in DOMAIN StoreOf(tags) \union {n} |->
                            IF k = n THEN d ELSE StoreOf(tags)[k]]
    <3>1. CASE HasTag(tags, n)
      BY <1>2, <2>1, <2>3, <3>1, SetPathStore
    <3>2. CASE ~HasTag(tags, n)
      BY <1>2, <2>1, <2>3, <3>2, AppendTagStore
    <3> QED BY <3>1, <3>2
  <2>5. Store' = StoreOf(tags')
    BY <1>2 DEF WriteTagFile, NoFaults, Store
  <2>6. Service!Remember(p, n, d)
    BY <1>1, <2>2, <2>3, <2>4, <2>5 DEF Service!Remember
  <2> QED BY <2>6 DEF Service!Next
<1>3. CASE UNCHANGED file /\ Bad(p, "add", <<>>)
  <2>1. Service!Say(p, <<"add">>, "BAD", {})
    BY <1>3, SaysNoMore DEF Bad
  <2> QED BY <1>1, <1>3, <2>1
        DEF Store, Service!Refuse, Service!NotPossible, Service!Next
<1> QED BY <1>2, <1>3 DEF CmdAdd

LEMMA DeleteMaps ==
  ASSUME NoFaults, TypeOK, UniqueTags, MirrorInv,
         NEW p \in Pid, NEW args \in AnyArgs, CmdDelete(p, args)
  PROVE  Service!Next
<1>1. /\ phase = "serving" /\ p \in shells /\ UNCHANGED <<shells, actions>>
      /\ args \notin {NoArgs, <<>>}
  BY DEF CmdDelete, Known
<1>2. PICK n \in Word : n = args[1]
  BY <1>1, ArgWords
<1>3. /\ tags \in Seq(Line) /\ Distinct(tags) /\ PathsIn(tags, Word)
      /\ Store = StoreOf(tags)
      /\ n \in DOMAIN Store <=> HasTag(tags, n)
  BY <1>1, Serves
<1>4. CASE /\ HasTag(tags, n) /\ tags' = DeleteTag(tags, n)
           /\ WriteTagFile(tags') /\ Ok(p, "delete", <<n>>)
  <2>1. Service!Say(p, <<"delete", n>>, "OK", {})
    <3>1. Service!Say(p, <<"delete", n>>, "OK", Items(<<>>))
      BY <1>4, SaysWord DEF Ok
    <3> QED BY <3>1, ItemsOf
  <2>2. StoreOf(tags') = [k \in DOMAIN StoreOf(tags) \ {n} |-> StoreOf(tags)[k]]
    BY <1>3, <1>4, DeleteTagStore
  <2>3. Store' = StoreOf(tags')
    BY <1>4 DEF WriteTagFile, NoFaults, Store
  <2>4. Service!Forget(p, n)
    BY <1>1, <1>3, <1>4, <2>1, <2>2, <2>3 DEF Service!Forget
  <2> QED BY <2>4 DEF Service!Next
<1>5. CASE ~HasTag(tags, n) /\ UNCHANGED file /\ Bad(p, "delete", <<n>>)
  <2>1. Service!Say(p, <<"delete", n>>, "BAD", {})
    <3>1. Service!Say(p, <<"delete", n>>, "BAD", Items(<<>>))
      BY <1>5, SaysWord DEF Bad
    <3> QED BY <3>1, ItemsOf
  <2>2. Service!NotKnown(p, n)
    BY <1>1, <1>3, <1>5, <2>1 DEF Store, Service!Refuse, Service!NotKnown
  <2> QED BY <2>2 DEF Service!Next
<1> QED BY <1>2, <1>4, <1>5 DEF CmdDelete

LEMMA GetMaps ==
  ASSUME TypeOK, UniqueTags, MirrorInv,
         NEW p \in Pid, NEW args \in AnyArgs, CmdGet(p, args)
  PROVE  Service!Next
<1>1. /\ phase = "serving" /\ p \in shells
      /\ UNCHANGED <<shells, actions, file>>
      /\ args \notin {NoArgs, <<>>}
  BY DEF CmdGet, Known, Idle, memory
<1>2. PICK n \in Word : n = args[1]
  BY <1>1, ArgWords
<1>3. /\ n \in DOMAIN Store <=> HasTag(tags, n)
      /\ HasTag(tags, n) => Store[n] = tags[FirstIndex(tags, n)].path
      /\ Store' = Store
  BY <1>1, Serves DEF Store
<1>4. CASE /\ HasTag(tags, n)
           /\ Send(p, "get", <<n>>, "path", <<tags[FirstIndex(tags, n)].path>>)
  <2> DEFINE d == tags[FirstIndex(tags, n)].path
  <2>1. Service!Say(p, <<"get", n>>, "path", Items(<<d>>))
    BY <1>4, SaysWord
  <2>2. Items(<<d>>) = {Store[n]}
    BY <1>3, <1>4, ItemsOf
  <2>3. Service!Lookup(p, n)
    BY <1>1, <1>3, <1>4, <2>1, <2>2 DEF Service!Lookup
  <2> QED BY <2>3 DEF Service!Next
<1>5. CASE ~HasTag(tags, n) /\ Bad(p, "get", <<n>>)
  <2>1. Service!Say(p, <<"get", n>>, "BAD", {})
    <3>1. Service!Say(p, <<"get", n>>, "BAD", Items(<<>>))
      BY <1>5, SaysWord DEF Bad
    <3> QED BY <3>1, ItemsOf
  <2>2. Service!NotKnown(p, n)
    BY <1>1, <1>3, <1>5, <2>1 DEF Service!Refuse, Service!NotKnown
  <2> QED BY <2>2 DEF Service!Next
<1> QED BY <1>2, <1>4, <1>5 DEF CmdGet

LEMMA PushMaps ==
  ASSUME NoFaults, TypeOK, NEW p \in Pid, NEW args \in AnyArgs, CmdPush(p, args)
  PROVE  Service!Next
<1>1. p \in shells /\ UNCHANGED <<shells, file>> /\ Store' = Store
  BY DEF CmdPush, Known, Store
<1>2. CASE PushAccepted(args) /\ Ok(p, "push", <<args[1]>>)
  <2>1. PICK d \in Path : d = args[1]
    BY <1>2 DEF PushAccepted, ValidPath, TypeOK
  <2>2. Service!Say(p, <<"push", d>>, "OK", {})
    <3>1. d \in Word
      BY WordAssumption
    <3>2. Service!Say(p, <<"push", d>>, "OK", Items(<<>>))
      BY <1>2, <2>1, <3>1, SaysWord DEF Ok
    <3> QED BY <3>2, ItemsOf
  <2>3. actions' = IF actions[p] # <<>> /\ Head(actions[p]) = d
                     THEN actions ELSE [actions EXCEPT ![p] = <<d>> \o @]
    BY <1>2, <2>1 DEF CmdPush, Repeats, Bad, Ok, Send, NoFaults
  <2>4. Service!Leave(p, d)
    BY <1>1, <2>2, <2>3 DEF Service!Leave
  <2> QED BY <2>4 DEF Service!Next
<1>3. CASE UNCHANGED actions /\ Bad(p, "push", <<>>)
  <2>1. Service!Say(p, <<"push">>, "BAD", {})
    BY <1>3, SaysNoMore DEF Bad
  <2> QED BY <1>1, <1>3, <2>1
        DEF Service!Refuse, Service!NotPossible, Service!Next
<1> QED BY <1>2, <1>3 DEF CmdPush

LEMMA StepMaps ==
  ASSUME NoFaults, TypeOK, UniqueTags, MirrorInv, AnyStep
  PROVE  [Service!Next]_(Service!svars)
<1>1. CASE Start \/ ReadLine \/ Serve
  BY <1>1, ProcessMaps DEF Service!Next
<1>2. CASE Terminate \/ PidOutOfRange
  <2>1. PICK how : LoseMemory(how)
    BY <1>2 DEF Terminate, PidOutOfRange
  <2> QED BY <2>1, EndMaps DEF Service!Next
<1>3. CASE FsChange
  BY <1>3 DEF FsChange, NoFaults
<1>4. ASSUME NEW p \in Pid, Command(p) PROVE Service!Next
  BY <1>4, CommandMaps
<1>5. ASSUME NEW p \in Pid, NEW args \in AnyArgs, CommandWith(p, args)
      PROVE  Service!Next
  <2>1. CASE Ignored(p, args)
    BY <2>1, NoAnswer
       DEF Ignored, Idle, memory, Store, Service!Ignore, Service!Next
  <2>2. CASE NullArgs(p, args)
    BY <2>2, EndMaps DEF NullArgs, Service!Next
  <2>3. CASE CmdAdd(p, args)
    BY <2>3, AddMaps
  <2>4. CASE CmdDelete(p, args)
    BY <2>4, DeleteMaps
  <2>5. CASE CmdGet(p, args)
    BY <2>5, GetMaps
  <2>6. CASE CmdPush(p, args)
    BY <2>6, PushMaps
  <2> QED BY <1>5, <2>1, <2>2, <2>3, <2>4, <2>5, <2>6 DEF CommandWith
<1>6. CASE Elsewhere
  <2>1. CASE sent' = sent
    BY <1>6, <2>1 DEF Elsewhere, Idle, memory, Service!svars, Store, Said
  <2>2. CASE Silent
    BY <1>6, <2>2, NoAnswer
       DEF Elsewhere, Idle, memory, Store, Service!Ignore, Service!Next
  <2> QED BY <1>6, <2>1, <2>2 DEF Elsewhere, Silent
<1> QED BY <1>1, <1>2, <1>3, <1>4, <1>5, <1>6 DEF AnyStep, Process

LEMMA InitMaps == ASSUME CleanFiles, Init PROVE Service!Init
<1>1. file \in Seq(Line) /\ Distinct(file) /\ PathsIn(file, Path)
  BY FileAssumption DEF CleanFiles, Init
<1>2. TagsOf(file) \in SUBSET Word /\ Store \in [TagsOf(file) -> Path]
  BY <1>1, StoreType DEF Store
<1>3. Said = <<>>
  BY DEF Init, Said
<1> QED BY <1>2, <1>3 DEF Init, EmptyStacks, Service!Init

(***************************************************************************)
(* With plain names, clean tag files and no failure of the environment,    *)
(* the daemon, its list, its file and its restarts are the service: one    *)
(* map that no restart changes and one stack per shell, for any number of  *)
(* shells and tags.                                                        *)
(***************************************************************************)
THEOREM DaemonImplementsService ==
  ASSUME PlainNames, NoFaults, CleanFiles
  PROVE  Spec => ImplementsService
<1>1. Init => Service!Init
  BY InitMaps
<1>2. TypeOK /\ UniqueTags /\ MirrorInv /\ AnyStep
        => [Service!Next]_(Service!svars)
  BY StepMaps
<1>3. Spec => []MirrorInv
  BY MirrorAlways
<1> QED
  BY <1>1, <1>2, <1>3, TypeCorrect, TagsStayUnique, NextIsAnyStep,
     PTL DEF Spec, ImplementsService, Service!Spec
=============================================================================
