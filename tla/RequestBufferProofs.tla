-------------------------- MODULE RequestBufferProofs --------------------------
(***************************************************************************)
(* For requests of any words, in an array of any size that is longer than  *)
(* each of them: the pid, the command and the handler's own words are read *)
(* from the request whatever the array held before, and stale words can    *)
(* follow them only when a longer datagram came earlier.                   *)
(*                                                                         *)
(* The proof goes from the bytes up.  Encode lays the words out at known   *)
(* places (Layout); strtok_r, called where a word begins, takes that word  *)
(* and saves the place of the next (NextWord); so the calls of a loop take *)
(* the words one after the other (CutRequest).  None of them writes        *)
(* anything but a Nul, so what lies behind the longest datagram stays Nul  *)
(* (Inv).                                                                  *)
(***************************************************************************)
EXTENDS RequestBuffer, SequenceTheorems, WellFoundedInduction, TLAPS

(***************************************************************************)
(* The least number of a set, and with it induction over the calls of a    *)
(* loop or the words of a request: a set that holds 0 and, with each       *)
(* number up to n, the next one.                                           *)
(***************************************************************************)
LEMMA Least ==
  ASSUME NEW M, M \subseteq Nat, M # {}
  PROVE  \E m \in M : \A j \in M : m <= j
<1>1. PICK m \in M : \A j \in M : <<j, m>> \notin OpToRel(<, Nat)
  BY NatLessThanWellFounded, WFMin
<1>2. \A j \in M : ~(j < m)
  BY <1>1 DEF OpToRel
<1> QED BY <1>2

LEMMA Induction ==
  ASSUME NEW n \in Nat, NEW P, 0 \in P,
         \A k \in 1..n : k - 1 \in P => k \in P
  PROVE  0..n \subseteq P
<1> DEFINE Bad == (0..n) \ P
<1> SUFFICES ASSUME Bad # {} PROVE FALSE
  OBVIOUS
<1>1. Bad \subseteq Nat
  OBVIOUS
<1>2. PICK m \in Bad : \A j \in Bad : m <= j
  <2> HIDE DEF Bad
  <2> QED BY <1>1, Least
<1>3. m \in 0..n /\ m \notin P
  BY <1>2
<1>4. m # 0
  BY <1>3
<1>5. m \in 1..n /\ m - 1 \in 0..n
  BY <1>3, <1>4
<1>6. m - 1 \notin Bad
  BY <1>2, <1>5
<1> QED BY <1>3, <1>5, <1>6

(* A recursive function on 0..n exists: step[k] makes its k-th value of    *)
(* the one before.                                                         *)
StepsOn(step, n, S) == step \in [1..n -> [S -> S]]

Iterates(g, step, s0, n, S) ==
  /\ g \in [0..n -> S]
  /\ g[0] = s0
  /\ \A k \in 1..n : g[k] = step[k][g[k-1]]

LEMMA Recursion ==
  ASSUME NEW n \in Nat, NEW S, NEW s0 \in S, NEW f, StepsOn(f, n, S)
  PROVE  \E g : Iterates(g, f, s0, n, S)
<1>f. f \in [1..n -> [S -> S]]
  BY DEF StepsOn
<1> DEFINE Solves(g, m) ==
             g[0] = s0 /\ \A k \in 1..m : g[k] = f[k][g[k-1]]
           P == {m \in 0..n : \E g \in [0..m -> S] : Solves(g, m)}
<1>1. 0 \in P
  <2> DEFINE g == [k \in 0..0 |-> s0]
  <2>1. g \in [0..0 -> S] /\ Solves(g, 0)
    OBVIOUS
  <2> HIDE DEF g, Solves
  <2> QED BY <2>1
<1>2. ASSUME NEW m \in 1..n, m - 1 \in P PROVE m \in P
  <2>1. PICK g \in [0..(m-1) -> S] : Solves(g, m - 1)
    BY <1>2
  <2> DEFINE h == [k \in 0..m |-> IF k < m THEN g[k] ELSE f[m][g[m-1]]]
  <2>2. g[m-1] \in S /\ f[m][g[m-1]] \in S
    BY <1>f, <2>1
  <2>3. h \in [0..m -> S]
    BY <2>1, <2>2
  <2>4. \A k \in 0..(m-1) : h[k] = g[k]
    OBVIOUS
  <2>5. h[m] = f[m][g[m-1]]
    OBVIOUS
  <2> HIDE DEF h
  <2>6. ASSUME NEW k \in 1..m PROVE h[k] = f[k][h[k-1]]
    <3>1. h[k-1] = g[k-1]
      BY <2>4
    <3>2. CASE k < m
      BY <2>1, <2>4, <3>1, <3>2
    <3>3. CASE k = m
      BY <2>5, <3>1, <3>3
    <3> QED BY <3>2, <3>3
  <2>7. Solves(h, m)
    BY <2>1, <2>4, <2>6
  <2> HIDE DEF Solves
  <2> QED BY <2>3, <2>7
<1>3. n \in P
  <2> HIDE DEF P
  <2>1. 0..n \subseteq P
    BY <1>1, <1>2, Induction
  <2> QED BY <2>1
<1> QED BY <1>3 DEF Iterates
-----------------------------------------------------------------------------
(* The datagram.                                                           *)

Sent == Letter \union {Space}

LEMMA WordFields ==
  ASSUME NEW words \in Seq(Word), NEW k \in 1..Len(words)
  PROVE  /\ words[k] \in Seq(Letter) /\ words[k] # <<>>
         /\ Len(words[k]) \in Nat \ {0}
         /\ \A j \in 1..Len(words[k]) : words[k][j] \in Letter
<1>1. words[k] \in Word
  BY ElementOfSeq
<1>2. words[k] \in Seq(Letter) /\ words[k] # <<>>
  BY <1>1 DEF Word
<1>3. Len(words[k]) \in Nat \ {0}
  BY <1>2, EmptySeq
<1>4. \A j \in 1..Len(words[k]) : words[k][j] \in Letter
  BY <1>2, ElementOfSeq
<1> QED BY <1>2, <1>3, <1>4

(* sent[k] is what the client has written after k of its words.            *)
Writing(words, sent) ==
  [k \in 0..Len(words) |->
     IF k = 0 THEN <<>> ELSE sent[k-1] \o words[k] \o <<Space>>]

Writes(words, sent) ==
  /\ sent[0] = <<>>
  /\ \A k \in 1..Len(words) : sent[k] = sent[k-1] \o words[k] \o <<Space>>

LEMMA WritingWrites ==
  ASSUME NEW words, Len(words) \in Nat, NEW sent, sent = Writing(words, sent)
  PROVE  Writes(words, sent) /\ sent = [k \in 0..Len(words) |-> sent[k]]
<1> DEFINE n == Len(words)
<1>n. n \in Nat
  OBVIOUS
<1> HIDE DEF n
<1>1. sent = [k \in 0..n |->
                IF k = 0 THEN <<>> ELSE sent[k-1] \o words[k] \o <<Space>>]
  BY DEF Writing, n
<1>2. sent[0] = <<>>
  BY <1>n, <1>1
<1>3. ASSUME NEW k \in 1..n
      PROVE  sent[k] = sent[k-1] \o words[k] \o <<Space>>
  <2>1. k \in 0..n /\ k # 0
    BY <1>n
  <2> QED BY <1>1, <2>1
<1>4. sent = [k \in 0..n |-> sent[k]]
  BY <1>1
<1> QED BY <1>2, <1>3, <1>4 DEF Writes, n

LEMMA SomeWriting ==
  ASSUME NEW words \in Seq(Word)
  PROVE  \E sent : sent = Writing(words, sent)
<1> DEFINE n == Len(words)
           S == Seq(Sent)
           f == [k \in 1..n |-> [s \in S |-> s \o words[k] \o <<Space>>]]
<1>n. n \in Nat /\ <<>> \in S
  BY LenProperties, EmptySeq
<1>1. ASSUME NEW k \in 1..n, NEW s \in S
      PROVE  s \o words[k] \o <<Space>> \in S
  BY WordFields, ConcatProperties DEF Sent
<1>2. StepsOn(f, n, S)
  BY <1>1 DEF StepsOn
<1>3. \A k \in 1..n, s \in S : f[k][s] = s \o words[k] \o <<Space>>
  OBVIOUS
<1> HIDE DEF f, n, S
<1>4. PICK g : Iterates(g, f, <<>>, n, S)
  BY <1>n, <1>2, Recursion
<1>5. ASSUME NEW k \in 0..n
      PROVE  g[k] = IF k = 0 THEN <<>> ELSE g[k-1] \o words[k] \o <<Space>>
  <2>1. CASE k = 0
    BY <1>4, <2>1 DEF Iterates
  <2>2. CASE k # 0
    <3>1. k \in 1..n /\ g[k-1] \in S
      BY <1>n, <1>4, <2>2 DEF Iterates
    <3>2. g[k] = f[k][g[k-1]]
      BY <1>4, <3>1 DEF Iterates
    <3> QED BY <1>3, <2>2, <3>1, <3>2
  <2> QED BY <2>1, <2>2
<1>6. g = Writing(words, g)
  BY <1>4, <1>5 DEF Iterates, Writing, n
<1> QED BY <1>6

LEMMA Written ==
  ASSUME NEW words \in Seq(Word)
  PROVE  \E sent \in [0..Len(words) -> Seq(Sent)] :
           Writes(words, sent) /\ Encode(words) = sent[Len(words)]
<1> DEFINE n == Len(words)
           sent == CHOOSE g : g = Writing(words, g)
<1>n. n \in Nat
  BY LenProperties
<1>1. sent = Writing(words, sent)
  BY SomeWriting
<1>2. Encode(words) = sent[n]
  BY DEF Encode, Writing
<1> HIDE DEF sent
<1>3. Writes(words, sent) /\ sent = [k \in 0..n |-> sent[k]]
  BY <1>n, <1>1, WritingWrites
<1> DEFINE P == {k \in 0..n : sent[k] \in Seq(Sent)}
<1>4. 0..n \subseteq P
  <2>1. 0 \in P
    BY <1>n, <1>3 DEF Writes
  <2>2. ASSUME NEW k \in 1..n, k - 1 \in P PROVE k \in P
    <3>1. sent[k] = sent[k-1] \o words[k] \o <<Space>>
      BY <1>3 DEF Writes
    <3>2. sent[k-1] \in Seq(Sent) /\ words[k] \in Seq(Sent)
          /\ <<Space>> \in Seq(Sent)
      BY <2>2, WordFields DEF Sent
    <3>3. sent[k] \in Seq(Sent)
      BY <3>1, <3>2, ConcatProperties
    <3> QED BY <3>3
  <2> HIDE DEF P
  <2> QED BY <1>n, <2>1, <2>2, Induction
<1>5. \A k \in 0..n : sent[k] \in Seq(Sent)
  BY <1>4
<1>6. sent \in [0..n -> Seq(Sent)]
  BY <1>3, <1>5
<1> QED BY <1>2, <1>3, <1>6

(* Where a datagram holds what: at[k] is where the space after the k-th    *)
(* word is.                                                                *)
LaidOut(words, at) ==
  /\ at \in [0..Len(words) -> Nat]
  /\ at[0] = 0
  /\ at[Len(words)] = Len(Encode(words))
  /\ \A k \in 1..Len(words) :
       /\ at[k] = at[k-1] + Len(words[k]) + 1
       /\ at[k] <= Len(Encode(words))
       /\ Encode(words)[at[k]] = Space
       /\ \A j \in 1..Len(words[k]) :
            Encode(words)[at[k-1] + j] = words[k][j]

OneMore(s, w, t) ==
  /\ Len(t) = Len(s) + Len(w) + 1
  /\ Len(t) \in 1..Len(t) /\ t[Len(t)] = Space
  /\ \A i \in 1..Len(s) : i \in 1..Len(t) /\ t[i] = s[i]
  /\ \A j \in 1..Len(w) :
       Len(s) + j \in 1..Len(t) /\ t[Len(s) + j] = w[j]

LEMMA OneMoreWord ==
  ASSUME NEW s \in Seq(Sent), NEW w \in Seq(Letter)
  PROVE  OneMore(s, w, s \o w \o <<Space>>)
<1> DEFINE t == s \o w \o <<Space>>
<1>1. w \in Seq(Sent) /\ <<Space>> \in Seq(Sent)
      /\ Len(<<Space>>) = 1 /\ <<Space>>[1] = Space
  BY DEF Sent
<1>2. /\ s \o w \in Seq(Sent) /\ Len(s \o w) = Len(s) + Len(w)
      /\ \A i \in 1..(Len(s) + Len(w)) :
           (s \o w)[i] = IF i <= Len(s) THEN s[i] ELSE w[i - Len(s)]
      /\ Len(s) \in Nat /\ Len(w) \in Nat
  BY <1>1, ConcatProperties, LenProperties
<1>3. /\ Len(t) = Len(s \o w) + 1
      /\ \A i \in 1..(Len(s \o w) + 1) :
           t[i] = IF i <= Len(s \o w) THEN (s \o w)[i]
                  ELSE <<Space>>[i - Len(s \o w)]
  BY <1>1, <1>2, ConcatProperties
<1> HIDE DEF t
<1>4. ASSUME NEW i \in 1..Len(s) PROVE i \in 1..Len(t) /\ t[i] = s[i]
  BY <1>2, <1>3
<1>5. ASSUME NEW j \in 1..Len(w)
      PROVE  Len(s) + j \in 1..Len(t) /\ t[Len(s) + j] = w[j]
  <2>1. /\ Len(s) + j \in 1..(Len(s) + Len(w)) /\ ~(Len(s) + j <= Len(s))
        /\ (Len(s) + j) - Len(s) = j
    BY <1>2
  <2>2. (s \o w)[Len(s) + j] = w[(Len(s) + j) - Len(s)]
    BY <1>2, <2>1
  <2> QED BY <1>2, <1>3, <2>1, <2>2
<1>6. Len(t) \in 1..Len(t) /\ t[Len(t)] = Space
  BY <1>1, <1>2, <1>3
<1>7. Len(t) = Len(s) + Len(w) + 1
  BY <1>2, <1>3
<1> QED BY <1>4, <1>5, <1>6, <1>7 DEF OneMore, t

LEMMA Layout ==
  ASSUME NEW words \in Seq(Word)
  PROVE  Encode(words) \in Seq(Sent) /\ \E at : LaidOut(words, at)
<1> DEFINE n == Len(words)
<1>n. n \in Nat
  BY LenProperties
<1>1. PICK sent \in [0..n -> Seq(Sent)] :
        Writes(words, sent) /\ Encode(words) = sent[n]
  BY Written
<1> DEFINE at == [k \in 0..n |-> Len(sent[k])]
           Extends(k, m) == \A i \in 1..Len(sent[m]) :
                              i \in 1..Len(sent[k]) /\ sent[k][i] = sent[m][i]
           P == {k \in 0..n : \A m \in 0..k : Extends(k, m)}
<1> HIDE DEF n
<1>2. ASSUME NEW k \in 1..n
      PROVE  k - 1 \in 0..n /\ OneMore(sent[k-1], words[k], sent[k])
  <2>1. k \in 0..n /\ k - 1 \in 0..n /\ sent[k-1] \in Seq(Sent)
    BY <1>n, <1>1
  <2>2. words[k] \in Seq(Letter)
    BY WordFields DEF n
  <2>3. sent[k] = sent[k-1] \o words[k] \o <<Space>>
    BY <1>1 DEF Writes, n
  <2> QED BY <2>1, <2>2, <2>3, OneMoreWord
<1>3. 0..n \subseteq P
  <2>1. 0 \in P
    BY <1>n
  <2>2. ASSUME NEW k \in 1..n, k - 1 \in P PROVE k \in P
    <3> SUFFICES ASSUME NEW m \in 0..k PROVE Extends(k, m)
      BY <1>n
    <3>1. CASE m = k
      BY <3>1
    <3>2. CASE m \in 0..(k-1)
      <4>1. Extends(k - 1, m)
        BY <2>2, <3>2
      <4> QED BY <1>2, <4>1 DEF OneMore
    <3> QED BY <1>n, <3>1, <3>2
  <2> HIDE DEF P
  <2> QED BY <1>n, <2>1, <2>2, Induction
<1>4. \A m \in 0..n : Extends(n, m)
  BY <1>n, <1>3
<1>5. at \in [0..n -> Nat] /\ at[0] = 0 /\ at[n] = Len(Encode(words))
      /\ \A k \in 0..n : at[k] = Len(sent[k])
  <2>1. \A k \in 0..n : Len(sent[k]) \in Nat
    BY <1>1, LenProperties
  <2>2. Len(sent[0]) = 0
    BY <1>1, EmptySeq DEF Writes
  <2> QED BY <1>n, <1>1, <2>1, <2>2
<1> HIDE DEF at
<1>6. ASSUME NEW k \in 1..n
      PROVE  /\ at[k] = at[k-1] + Len(words[k]) + 1
             /\ at[k] <= Len(Encode(words))
             /\ Encode(words)[at[k]] = Space
             /\ \A j \in 1..Len(words[k]) :
                  Encode(words)[at[k-1] + j] = words[k][j]
  <2>1. /\ k \in 0..n /\ k - 1 \in 0..n
        /\ at[k] = Len(sent[k]) /\ at[k-1] = Len(sent[k-1])
    BY <1>2, <1>5
  <2>2. Extends(n, k) /\ OneMore(sent[k-1], words[k], sent[k])
    BY <1>2, <1>4, <2>1
  <2>3. Len(sent[k]) \in 1..Len(sent[k]) /\ sent[k][Len(sent[k])] = Space
    BY <2>2 DEF OneMore
  <2>4. at[k] \in 1..at[n] /\ Encode(words)[at[k]] = Space
    BY <1>1, <1>5, <2>1, <2>2, <2>3
  <2>5. ASSUME NEW j \in 1..Len(words[k])
        PROVE  Encode(words)[at[k-1] + j] = words[k][j]
    BY <1>1, <2>1, <2>2 DEF OneMore
  <2>6. at[k] = at[k-1] + Len(words[k]) + 1
    BY <2>1, <2>2 DEF OneMore
  <2> QED BY <1>5, <2>4, <2>5, <2>6
<1>7. LaidOut(words, at)
  BY <1>5, <1>6 DEF LaidOut, n
<1> QED BY <1>n, <1>1, <1>7
-----------------------------------------------------------------------------
(* The array and the functions that scan it.                               *)

Array == {b \in [1..Size -> Byte] : b[Size] = Nul}

LEMMA LetterByte ==
  /\ Size \in Nat \ {0} /\ Space # Nul
  /\ Space \notin Letter /\ Nul \notin Letter
  /\ \A x \in Byte : x \notin {Space, Nul} => x \in Letter
BY ByteAssumption, SizeAssumption DEF Byte

LEMMA ScanToStops ==
  ASSUME NEW b \in Array, NEW i \in 1..Size, NEW stops, Nul \in stops
  PROVE  /\ ScanTo(b, i, stops) \in i..Size
         /\ b[ScanTo(b, i, stops)] \in stops
         /\ \A k \in i..(ScanTo(b, i, stops) - 1) : b[k] \notin stops
<1> DEFINE M == {j \in i..Size : b[j] \in stops}
<1>1. M \subseteq Nat /\ M # {}
  BY LetterByte DEF Array
<1>2. PICK m \in M : \A j \in M : m <= j
  <2> HIDE DEF M
  <2> QED BY <1>1, Least
<1>3. m \in i..Size /\ b[m] \in stops
  BY <1>2
<1>4. \A k \in i..(m-1) : b[k] \notin stops
  BY <1>2, LetterByte
<1> QED BY <1>3, <1>4 DEF ScanTo

LEMMA ScanToIs ==
  ASSUME NEW b, NEW i \in 1..Size, NEW stops, NEW j \in i..Size,
         b[j] \in stops, \A k \in i..(j-1) : b[k] \notin stops
  PROVE  ScanTo(b, i, stops) = j
<1>1. ASSUME NEW m \in i..Size, b[m] \in stops,
             \A k \in i..(m-1) : b[k] \notin stops
      PROVE  m = j
  <2>1. ~(m < j)
    BY <1>1, LetterByte
  <2>2. ~(j < m)
    BY <1>1, LetterByte
  <2> QED BY <2>1, <2>2, LetterByte
<1> QED BY <1>1 DEF ScanTo

LEMMA SkipSpacesStops ==
  ASSUME NEW b \in Array, NEW i \in 1..Size
  PROVE  /\ SkipSpaces(b, i) \in i..Size
         /\ b[SkipSpaces(b, i)] # Space
<1> DEFINE M == {j \in i..Size : b[j] # Space}
<1>1. M \subseteq Nat /\ M # {}
  BY LetterByte DEF Array
<1>2. PICK m \in M : \A j \in M : m <= j
  <2> HIDE DEF M
  <2> QED BY <1>1, Least
<1>3. m \in i..Size /\ b[m] # Space
  BY <1>2
<1>4. \A k \in i..(m-1) : b[k] = Space
  BY <1>2, LetterByte
<1> QED BY <1>3, <1>4 DEF SkipSpaces

LEMMA SkipSpacesStays ==
  ASSUME NEW b, NEW i \in 1..Size, b[i] # Space
  PROVE  SkipSpaces(b, i) = i
<1>1. ASSUME NEW m \in i..Size, \A k \in i..(m-1) : b[k] = Space
      PROVE  m = i
  BY <1>1, LetterByte
<1>2. i \in i..Size /\ \A k \in i..(i-1) : b[k] = Space
  BY LetterByte
<1> QED BY <1>1, <1>2 DEF SkipSpaces

(* What a call of strtok_r makes of the array, wherever it is called.      *)
LEMMA StrtokTyped ==
  ASSUME NEW b \in Array, NEW i \in 1..Size
  PROVE  /\ Strtok(b, i).word \in Seq(Letter)
         /\ Strtok(b, i).b \in Array
         /\ \A k \in 1..Size : Strtok(b, i).b[k] \in {b[k], Nul}
         /\ Strtok(b, i).next \in i..Size
<1> DEFINE start == SkipSpaces(b, i)
           end   == ScanTo(b, start, {Space, Nul})
<1>1. start \in i..Size
  BY SkipSpacesStops
<1>2. start \in 1..Size
  BY <1>1, LetterByte
<1>3. /\ end \in start..Size /\ b[end] \in {Space, Nul}
      /\ \A k \in start..(end-1) : b[k] \notin {Space, Nul}
  <2> HIDE DEF start
  <2> QED BY <1>2, ScanToStops
<1>4. Strtok(b, i) = [word |-> SubSeq(b, start, end - 1),
                      b    |-> [b EXCEPT ![end] = Nul],
                      next |-> IF b[end] = Nul THEN end ELSE end + 1]
  BY DEF Strtok
<1> HIDE DEF start, end
<1>5. SubSeq(b, start, end - 1) \in Seq(Letter)
  <2>1. start \in Int /\ end - 1 \in Int
    BY <1>2, <1>3, LetterByte
  <2>2. \A k \in start..(end-1) : b[k] \in Letter
    BY <1>2, <1>3, LetterByte DEF Array
  <2> QED BY <2>1, <2>2, SubSeqProperties
<1>6. end # Size => end + 1 \in i..Size
  BY <1>1, <1>3, LetterByte
<1>7. b[end] # Nul => end # Size
  BY DEF Array
<1>8. [b EXCEPT ![end] = Nul] \in Array
  BY <1>2, <1>3, LetterByte DEF Array, Byte
<1>9. \A k \in 1..Size : [b EXCEPT ![end] = Nul][k] \in {b[k], Nul}
  BY DEF Array
<1>10. end \in i..Size
  BY <1>1, <1>3, LetterByte
<1> QED BY <1>4, <1>5, <1>6, <1>7, <1>8, <1>9, <1>10

(* A word with a space behind it is found whole.                           *)
LEMMA StrtokFinds ==
  ASSUME NEW b \in Array, NEW i \in 1..Size, NEW e \in (i+1)..Size,
         b[e] = Space, \A k \in i..(e-1) : b[k] \in Letter
  PROVE  /\ Strtok(b, i) = [word |-> SubSeq(b, i, e - 1),
                            b |-> [b EXCEPT ![e] = Nul], next |-> e + 1]
         /\ e + 1 \in 1..Size
<1>1. SkipSpaces(b, i) = i
  <2>1. b[i] # Space
    BY LetterByte
  <2> QED BY <2>1, SkipSpacesStays
<1>2. ScanTo(b, i, {Space, Nul}) = e
  <2>1. e \in i..Size /\ \A k \in i..(e-1) : b[k] \notin {Space, Nul}
    BY LetterByte
  <2> QED BY <2>1, ScanToIs
<1>3. b[e] # Nul /\ e # Size
  BY LetterByte DEF Array
<1>4. e + 1 \in 1..Size
  BY <1>3, LetterByte
<1> QED BY <1>1, <1>2, <1>3, <1>4 DEF Strtok

(* Where the array has ended there is none.                                *)
LEMMA StrtokFindsNone ==
  ASSUME NEW b \in Array, NEW i \in 1..Size, b[i] = Nul
  PROVE  Strtok(b, i).word = <<>>
<1>1. SkipSpaces(b, i) = i
  BY SkipSpacesStays, LetterByte
<1>2. ScanTo(b, i, {Space, Nul}) = i
  <2>1. i \in i..Size /\ \A k \in i..(i-1) : b[k] \notin {Space, Nul}
    BY LetterByte
  <2> QED BY <2>1, ScanToIs
<1>3. SubSeq(b, i, i - 1) = <<>>
  BY SubSeqEmpty
<1> QED BY <1>1, <1>2, <1>3 DEF Strtok

LEMMA MinOfTwo ==
  ASSUME NEW a \in Nat, NEW c \in Nat
  PROVE  Min({a, c}) = IF a <= c THEN a ELSE c
<1>1. ASSUME NEW m \in {a, c}, \A y \in {a, c} : m <= y
      PROVE  m = IF a <= c THEN a ELSE c
  BY <1>1
<1>2. \E m \in {a, c} : \A y \in {a, c} : m <= y
  OBVIOUS
<1> QED BY <1>1, <1>2 DEF Min

LEMMA MaxOfTwo ==
  ASSUME NEW a \in Nat, NEW c \in Nat
  PROVE  Max({a, c}) = IF a >= c THEN a ELSE c
<1>1. ASSUME NEW m \in {a, c}, \A y \in {a, c} : m >= y
      PROVE  m = IF a >= c THEN a ELSE c
  BY <1>1
<1>2. \E m \in {a, c} : \A y \in {a, c} : m >= y
  OBVIOUS
<1> QED BY <1>1, <1>2 DEF Max
-----------------------------------------------------------------------------
(* A request in the array.                                                 *)

(* From here on the array holds what is left of the datagram m ...         *)
Agrees(b, m, from) == \A j \in 1..Len(m) : j > from => b[j] = m[j]

(* ... and from here on nothing at all.                                    *)
Clean(b, from) == \A j \in 1..Size : j > from => b[j] = Nul

LEMMA RequestLaidOut ==
  ASSUME NEW words \in Requests
  PROVE  /\ words \in Seq(Word) /\ Len(words) \in Nat \ {0}
         /\ Encode(words) \in Seq(Sent) /\ \E at : LaidOut(words, at)
         /\ Len(Encode(words)) \in 0..(Size - 1)
<1>1. words \in Seq(Word) /\ words # <<>>
  BY RequestAssumption
<1>2. Encode(words) \in Seq(Sent) /\ \E at : LaidOut(words, at)
  BY <1>1, Layout
<1>3. Len(words) \in Nat \ {0}
  BY <1>1, EmptySeq
<1>4. Len(Encode(words)) \in 0..(Size - 1)
  BY <1>2, SizeAssumption, LenProperties
<1> QED BY <1>1, <1>2, <1>3, <1>4

(* A call of strtok_r where a word of the request begins cuts that word.   *)
LEMMA NextWord ==
  ASSUME NEW words \in Requests, NEW at, LaidOut(words, at),
         NEW b \in Array, NEW k \in 1..Len(words),
         Agrees(b, Encode(words), at[k-1])
  PROVE  /\ at[k-1] + 1 \in 1..Size
         /\ Strtok(b, at[k-1] + 1).word = words[k]
         /\ Strtok(b, at[k-1] + 1).next = at[k] + 1
         /\ at[k] + 1 \in 1..Size
         /\ Strtok(b, at[k-1] + 1).b \in Array
         /\ Agrees(Strtok(b, at[k-1] + 1).b, Encode(words), at[k])
<1> DEFINE m == Encode(words)
           w == words[k]
           p == at[k-1]
           i == p + 1
           e == at[k]
<1>1. /\ words \in Seq(Word) /\ Len(words) \in Nat \ {0}
      /\ Len(m) \in 0..(Size - 1) /\ Size \in Nat
  BY RequestLaidOut, LetterByte
<1>2. w \in Seq(Letter) /\ Len(w) \in Nat \ {0}
      /\ \A j \in 1..Len(w) : w[j] \in Letter
  BY <1>1, WordFields
<1>0. k \in 0..Len(words) /\ k - 1 \in 0..Len(words)
  BY <1>1
<1>3. /\ p \in Nat /\ e \in Nat
      /\ e = p + Len(w) + 1
      /\ e <= Len(m) /\ m[e] = Space
      /\ \A j \in 1..Len(w) : m[p + j] = w[j]
  BY <1>0 DEF LaidOut
<1>a. Agrees(b, m, p)
  OBVIOUS
<1> HIDE DEF m, w, e, p
<1>4. i \in 1..Size /\ e \in (i+1)..Size /\ e \in 1..Len(m)
  BY <1>1, <1>2, <1>3
<1>5. b[e] = Space
  BY <1>a, <1>2, <1>3, <1>4 DEF Agrees
<1>6. ASSUME NEW j \in 1..Len(w)
      PROVE  b[p + j] = w[j]
  <2>1. p + j \in 1..Len(m) /\ p + j > p
    BY <1>1, <1>2, <1>3
  <2> QED BY <1>a, <1>3, <2>1 DEF Agrees
<1>7. ASSUME NEW j \in i..(e-1) PROVE b[j] \in Letter
  <2>1. j - p \in 1..Len(w) /\ j = p + (j - p)
    BY <1>2, <1>3
  <2> QED BY <1>2, <1>6, <2>1
<1>8. Strtok(b, i) = [word |-> SubSeq(b, i, e - 1),
                      b |-> [b EXCEPT ![e] = Nul], next |-> e + 1]
      /\ e + 1 \in 1..Size
  BY <1>4, <1>5, <1>7, StrtokFinds
<1>9. SubSeq(b, i, e - 1) = w
  <2> DEFINE s == SubSeq(b, i, e - 1)
  <2>1. i \in Int /\ e - 1 \in Int /\ i <= e - 1 /\ (e - 1) - i + 1 = Len(w)
    BY <1>2, <1>3
  <2>2. s \in Seq(Letter) /\ Len(s) = Len(w)
        /\ \A j \in 1..Len(w) : s[j] = b[i + j - 1]
    BY <1>7, <2>1, SubSeqProperties
  <2> HIDE DEF s
  <2>3. ASSUME NEW j \in 1..Len(w) PROVE s[j] = w[j]
    <3>1. i + j - 1 = p + j
      BY <1>2, <1>3
    <3> QED BY <1>6, <2>2, <3>1
  <2> QED BY <1>2, <2>2, <2>3, SeqEqual DEF s
<1>10. Agrees([b EXCEPT ![e] = Nul], m, e)
  <2> SUFFICES ASSUME NEW j \in 1..Len(m), j > e
               PROVE  [b EXCEPT ![e] = Nul][j] = m[j]
    BY DEF Agrees
  <2>1. j \in 1..Size /\ j # e /\ j > p
    BY <1>1, <1>2, <1>3
  <2>2. b[j] = m[j]
    BY <1>a, <2>1 DEF Agrees
  <2> QED BY <2>1, <2>2 DEF Array
<1>11. Strtok(b, i).b \in Array
  BY <1>4, StrtokTyped
<1>12. /\ Strtok(b, i).word = w /\ Strtok(b, i).next = e + 1
       /\ Agrees(Strtok(b, i).b, m, e)
  <2> DEFINE s == SubSeq(b, i, e - 1)
             c == [b EXCEPT ![e] = Nul]
  <2>1. Strtok(b, i) = [word |-> s, b |-> c, next |-> e + 1]
    BY <1>8
  <2>2. s = w /\ Agrees(c, m, e)
    BY <1>9, <1>10
  <2> HIDE DEF s, c
  <2> QED BY <2>1, <2>2
<1> QED BY <1>4, <1>8, <1>11, <1>12 DEF m, w, e, p

(* A call of strtok_r only ever writes a NUL.                              *)
LEMMA StrtokKeepsClean ==
  ASSUME NEW b \in Array, NEW i \in 1..Size, NEW from, Clean(b, from)
  PROVE  Clean(Strtok(b, i).b, from)
BY StrtokTyped DEF Clean
-----------------------------------------------------------------------------
(* The calls of a handler's loop.                                          *)

Cut == [words : Seq(Seq(Letter)), b : Array, next : 1..Size]

LEMMA CutNextTyped ==
  ASSUME NEW cut \in Cut
  PROVE  /\ CutNext(cut) \in Cut
         /\ \/ CutNext(cut) = cut
            \/ \E w \in Seq(Letter) :
                 CutNext(cut).words = Append(cut.words, w)
         /\ \A from : Clean(cut.b, from) => Clean(CutNext(cut).b, from)
<1> DEFINE t == Strtok(cut.b, cut.next)
           more == [words |-> Append(cut.words, t.word), b |-> t.b,
                    next |-> t.next]
<1>1. /\ cut.words \in Seq(Seq(Letter)) /\ cut.b \in Array
      /\ cut.next \in 1..Size
  BY DEF Cut
<1>2. /\ t.word \in Seq(Letter) /\ t.b \in Array
      /\ t.next \in 1..Size
      /\ \A from : Clean(cut.b, from) => Clean(t.b, from)
  BY <1>1, StrtokTyped, StrtokKeepsClean, LetterByte
<1>3. CutNext(cut) = IF t.word = <<>> THEN cut ELSE more
  BY DEF CutNext
<1> HIDE DEF t
<1>4. Append(cut.words, t.word) \in Seq(Seq(Letter))
  BY <1>1, <1>2, AppendProperties
<1>5. more \in Cut
  BY <1>2, <1>4 DEF Cut
<1>6. more.words = Append(cut.words, t.word) /\ more.b = t.b
  OBVIOUS
<1> HIDE DEF more
<1> QED BY <1>1, <1>2, <1>3, <1>5, <1>6

(* cut[k] is what k calls have made of it.                                 *)
Cutting(b, i, n, cut) ==
  /\ cut \in [0..n -> Cut]
  /\ cut[0] = [words |-> <<>>, b |-> b, next |-> i]
  /\ \A k \in 1..n : cut[k] = CutNext(cut[k-1])

CutFrom(b, i, n, cut) ==
  [k \in 0..n |-> IF k = 0 THEN [words |-> <<>>, b |-> b, next |-> i]
                  ELSE CutNext(cut[k-1])]

LEMMA CutFromCuts ==
  ASSUME NEW n \in Nat, NEW b \in Array, NEW i \in 1..Size,
         NEW cut, cut = CutFrom(b, i, n, cut)
  PROVE  Cutting(b, i, n, cut)
<1> DEFINE c0 == [words |-> <<>>, b |-> b, next |-> i]
           P == {k \in 0..n : cut[k] \in Cut}
<1>1. c0 \in Cut
  BY EmptySeq DEF Cut
<1> HIDE DEF c0
<1>2. cut = [k \in 0..n |-> IF k = 0 THEN c0 ELSE CutNext(cut[k-1])]
  BY DEF CutFrom, c0
<1>3. cut[0] = c0
  BY <1>2
<1>4. \A k \in 1..n : cut[k] = CutNext(cut[k-1])
  BY <1>2
<1>5. 0..n \subseteq P
  <2>1. 0 \in P
    BY <1>1, <1>3
  <2>2. \A k \in 1..n : k - 1 \in P => k \in P
    BY <1>4, CutNextTyped
  <2> HIDE DEF P
  <2> QED BY <2>1, <2>2, Induction
<1>6. cut = [k \in 0..n |-> cut[k]] /\ \A k \in 0..n : cut[k] \in Cut
  BY <1>2, <1>5
<1>7. cut \in [0..n -> Cut]
  BY <1>6
<1> QED BY <1>3, <1>4, <1>7 DEF Cutting, c0

LEMMA CutWordsCuts ==
  ASSUME NEW n \in Nat, NEW b \in Array, NEW i \in 1..Size
  PROVE  \E cut : Cutting(b, i, n, cut) /\ CutWords(b, i, n) = cut[n]
<1> DEFINE c0 == [words |-> <<>>, b |-> b, next |-> i]
           f == [k \in 1..n |-> [c \in Cut |-> CutNext(c)]]
           cut == CHOOSE c : c = CutFrom(b, i, n, c)
<1>1. c0 \in Cut
  BY EmptySeq DEF Cut
<1>2. StepsOn(f, n, Cut) /\ \A k \in 1..n, c \in Cut : f[k][c] = CutNext(c)
  BY CutNextTyped DEF StepsOn
<1> HIDE DEF f, c0
<1>3. PICK g : Iterates(g, f, c0, n, Cut)
  BY <1>1, <1>2, Recursion
<1>4. ASSUME NEW k \in 0..n
      PROVE  g[k] = IF k = 0 THEN c0 ELSE CutNext(g[k-1])
  <2>1. CASE k = 0
    BY <1>3, <2>1 DEF Iterates
  <2>2. CASE k \in 1..n
    BY <1>2, <1>3, <2>2 DEF Iterates
  <2> QED BY <2>1, <2>2
<1>5. g = [k \in 0..n |-> IF k = 0 THEN c0 ELSE CutNext(g[k-1])]
  BY <1>3, <1>4 DEF Iterates
<1>6. g = CutFrom(b, i, n, g)
  BY <1>5 DEF CutFrom, c0
<1>7. cut = CutFrom(b, i, n, cut)
  BY <1>6
<1>8. CutWords(b, i, n) = cut[n]
  BY DEF CutWords, CutFrom
<1> HIDE DEF cut
<1> QED BY <1>7, <1>8, CutFromCuts

Starts(s, t) == Len(s) <= Len(t) /\ \A i \in 1..Len(s) : t[i] = s[i]

LEMMA StartsIsPrefix ==
  ASSUME NEW S, NEW s \in Seq(S), NEW t \in Seq(S), Starts(s, t)
  PROVE  IsPrefix(s, t)
<1> DEFINE n == Len(s)
<1>1. n \in Nat /\ Len(t) \in Nat /\ n <= Len(t)
  BY LenProperties DEF Starts
<1>2. \A i \in 1..n : t[i] = s[i] /\ s[i] \in S
  BY ElementOfSeq DEF Starts
<1>3. SubSeq(s, 1, n) = s
  BY SubSeqFull
<1>4. SubSeq(t, 1, n) \in Seq(S) /\ Len(SubSeq(t, 1, n)) = n
      /\ \A i \in 1..n : SubSeq(t, 1, n)[i] = t[i]
  <2> HIDE DEF n
  <2>1. \A i \in 1..n : t[i] \in S
    BY <1>2
  <2>2. /\ SubSeq(t, 1, n) \in Seq(S)
        /\ Len(SubSeq(t, 1, n)) = IF 1 <= n THEN n - 1 + 1 ELSE 0
        /\ \A i \in 1..(n - 1 + 1) : SubSeq(t, 1, n)[i] = t[1 + i - 1]
    BY <1>1, <2>1, SubSeqProperties
  <2>3. Len(SubSeq(t, 1, n)) = n
    BY <1>1, <2>2
  <2>4. \A i \in 1..n : 1 + i - 1 = i
    BY <1>1
  <2> QED BY <1>1, <2>2, <2>3, <2>4
<1>5. SubSeq(t, 1, n) = s
  BY <1>2, <1>4, SeqEqual
<1> QED BY <1>1, <1>3, <1>5 DEF IsPrefix

LEMMA StartsItself ==
  ASSUME NEW S, NEW s \in Seq(S) PROVE Starts(s, s)
BY LenProperties DEF Starts

LEMMA StartsLonger ==
  ASSUME NEW S, NEW s \in Seq(S), NEW t \in Seq(S), NEW e \in S, Starts(s, t)
  PROVE  Starts(s, Append(t, e))
<1>1. /\ Len(Append(t, e)) = Len(t) + 1
      /\ \A i \in 1..Len(t) : Append(t, e)[i] = t[i]
  BY AppendProperties
<1>2. Len(s) \in Nat /\ Len(t) \in Nat
  BY LenProperties
<1> QED BY <1>1, <1>2 DEF Starts

(* The words from the third on, one by one.                                *)
LEMMA WordsFrom3 ==
  ASSUME NEW words \in Seq(Word), NEW k \in 2..Len(words)
  PROVE  /\ SubSeq(words, 3, k) \in Seq(Seq(Letter))
         /\ k = 2 => SubSeq(words, 3, k) = <<>>
         /\ k > 2 => SubSeq(words, 3, k) =
                       Append(SubSeq(words, 3, k - 1), words[k])
<1>1. Len(words) \in Nat
  BY LenProperties
<1>2. ASSUME NEW j \in 2..Len(words)
      PROVE  SubSeq(words, 3, j) \in Seq(Seq(Letter))
  <2>1. \A i \in 3..j : words[i] \in Seq(Letter)
    BY <1>1, WordFields
  <2> QED BY <1>1, <2>1, SubSeqProperties
<1>3. k = 2 => SubSeq(words, 3, k) = <<>>
  BY SubSeqEmpty
<1>4. ASSUME k > 2
      PROVE  SubSeq(words, 3, k) = Append(SubSeq(words, 3, k - 1), words[k])
  <2>1. k \in 3..Len(words) /\ 3 \in 1..Len(words) /\ k - 1 \in 2..Len(words)
    BY <1>1, <1>4
  <2>2. SubSeq(words, 3, k) = SubSeq(words, 3, k - 1) \o <<words[k]>>
    BY <2>1, SubSeqRecursiveSecond
  <2>3. SubSeq(words, 3, k - 1) \in Seq(Seq(Letter))
        /\ words[k] \in Seq(Letter)
    BY <1>1, <1>2, <2>1, WordFields
  <2> QED BY <2>2, <2>3
<1> QED BY <1>2, <1>3, <1>4

(* A call takes the next word of the request while there is one.           *)
LEMMA CutNextWord ==
  ASSUME NEW words \in Requests, NEW at, LaidOut(words, at),
         NEW cut \in Cut, NEW k \in 1..Len(words),
         cut.next = at[k-1] + 1, Agrees(cut.b, Encode(words), at[k-1])
  PROVE  /\ CutNext(cut).words = Append(cut.words, words[k])
         /\ CutNext(cut).next = at[k] + 1
         /\ Agrees(CutNext(cut).b, Encode(words), at[k])
<1> DEFINE t == Strtok(cut.b, cut.next)
<1>1. cut.b \in Array /\ words[k] # <<>>
  BY RequestLaidOut, WordFields DEF Cut
<1>2. /\ t.word = words[k] /\ t.next = at[k] + 1
      /\ Agrees(t.b, Encode(words), at[k])
  BY <1>1, NextWord
<1>3. CutNext(cut) = [words |-> Append(cut.words, t.word), b |-> t.b,
                      next |-> t.next]
  BY <1>1, <1>2 DEF CutNext
<1> HIDE DEF t
<1> QED BY <1>2, <1>3

(* What a handler that asks for n words makes of the request in b.         *)
Sees(words, n, b, seen) ==
  /\ IsPrefix(SubSeq(words, 3, Min({Len(words), n + 2})), seen)
  /\ Clean(b, Len(Encode(words))) =>
       seen = SubSeq(words, 3, Min({Len(words), n + 2}))

(* A handler's loop that begins behind the command: the request's own      *)
(* words come first and in order, and when nothing is left in the array    *)
(* behind them they are all it finds.                                      *)
LEMMA CutRequest ==
  ASSUME NEW words \in Requests, NEW at, LaidOut(words, at),
         Len(words) >= 2, NEW b \in Array, Agrees(b, Encode(words), at[2]),
         at[2] + 1 \in 1..Size, NEW n \in Nat
  PROVE  Sees(words, n, b, CutWords(b, at[2] + 1, n).words)
<1> DEFINE N   == Len(words)
           m   == Encode(words)
           L   == Len(m)
           own == SubSeq(words, 3, N)
<1>1. /\ words \in Seq(Word) /\ N \in Nat /\ N >= 2
      /\ L \in 0..(Size - 1) /\ at[N] = L /\ Size \in Nat
  BY RequestLaidOut, LetterByte DEF LaidOut
<1>2. PICK cut : Cutting(b, at[2] + 1, n, cut)
                 /\ CutWords(b, at[2] + 1, n) = cut[n]
  BY CutWordsCuts
<1>3. /\ \A k \in 0..n : cut[k] \in Cut
      /\ cut[0].words = <<>> /\ cut[0].b = b /\ cut[0].next = at[2] + 1
      /\ \A k \in 1..n : cut[k] = CutNext(cut[k-1])
  BY <1>2 DEF Cutting
<1> DEFINE Within(k) == k + 2 <= N =>
                          /\ cut[k].words = SubSeq(words, 3, k + 2)
                          /\ cut[k].next = at[k+2] + 1
                          /\ Agrees(cut[k].b, m, at[k+2])
           Beyond(k) == k + 2 >= N => Starts(own, cut[k].words)
           Exact(k)  == k + 2 >= N /\ Clean(b, L) =>
                          cut[k].words = own /\ cut[k].next = L + 1
           Kept(k)   == Clean(b, L) => Clean(cut[k].b, L)
           P == {k \in 0..n : Within(k) /\ Beyond(k) /\ Exact(k) /\ Kept(k)}
<1>o. own \in Seq(Seq(Letter))
  BY <1>1, WordsFrom3
<1> HIDE DEF N, m, L, own
(* With the last word of the request, all of it has been taken.            *)
<1>4. ASSUME NEW k \in 0..n, Within(k), k + 2 = N
      PROVE  Beyond(k) /\ Exact(k)
  <2>1. cut[k].words = own
    BY <1>4 DEF own
  <2>2. cut[k].next = L + 1
    <3>1. k + 2 <= N
      BY <1>1, <1>4
    <3> QED BY <1>1, <1>4, <3>1
  <2>3. Starts(own, cut[k].words)
    BY <1>o, <2>1, StartsItself
  <2> QED BY <2>1, <2>2, <2>3
<1>5. ASSUME NEW k \in 0..n, k + 2 < N PROVE Beyond(k) /\ Exact(k)
  BY <1>1, <1>5
<1>6. 0 \in P
  <2>1. Within(0)
    <3>1. SubSeq(words, 3, 2) = <<>>
      BY SubSeqEmpty
    <3> QED BY <1>3, <3>1 DEF m
  <2>2. Beyond(0) /\ Exact(0)
    <3>1. 0 \in 0..n /\ (0 + 2 = N \/ 0 + 2 < N)
      BY <1>1
    <3> HIDE DEF Within, Beyond, Exact
    <3> QED BY <1>4, <1>5, <2>1, <3>1
  <2>3. Kept(0)
    BY <1>3
  <2> QED BY <2>1, <2>2, <2>3
<1>7. ASSUME NEW k \in 1..n, k - 1 \in P PROVE k \in P
  <2>1. /\ Within(k-1) /\ Beyond(k-1) /\ Exact(k-1) /\ Kept(k-1)
        /\ cut[k-1] \in Cut /\ cut[k] = CutNext(cut[k-1]) /\ k \in 0..n
    BY <1>3, <1>7
  <2>2. Kept(k)
    BY <2>1, CutNextTyped
  <2>3. CASE k + 2 <= N
    <3>1. k + 2 \in 1..N /\ (k - 1) + 2 <= N /\ (k + 2) - 1 = (k - 1) + 2
      BY <1>1, <2>3
    <3>2. /\ cut[k-1].words = SubSeq(words, 3, (k + 2) - 1)
          /\ cut[k-1].next = at[(k + 2) - 1] + 1
          /\ Agrees(cut[k-1].b, m, at[(k + 2) - 1])
      BY <2>1, <3>1
    <3>3. /\ cut[k].words = Append(cut[k-1].words, words[k+2])
          /\ cut[k].next = at[k+2] + 1
          /\ Agrees(cut[k].b, m, at[k+2])
      <4> DEFINE j == k + 2
                 c == cut[k-1]
      <4>1. /\ j \in 1..Len(words) /\ c.next = at[j-1] + 1
            /\ Agrees(c.b, Encode(words), at[j-1])
            /\ c \in Cut /\ cut[k] = CutNext(c)
        BY <2>1, <3>1, <3>2 DEF m, N
      <4> HIDE DEF j, c
      <4>2. /\ cut[k].words = Append(c.words, words[j])
            /\ cut[k].next = at[j] + 1
            /\ Agrees(cut[k].b, Encode(words), at[j])
        <5>1. /\ CutNext(c).words = Append(c.words, words[j])
              /\ CutNext(c).next = at[j] + 1
              /\ Agrees(CutNext(c).b, Encode(words), at[j])
          BY ONLY <4>1, CutNextWord, LaidOut(words, at), words \in Requests
        <5> QED BY <4>1, <5>1
      <4> QED BY <4>2 DEF j, c, m
    <3>4. SubSeq(words, 3, k + 2) =
            Append(SubSeq(words, 3, (k + 2) - 1), words[k+2])
      BY <1>1, <3>1, WordsFrom3 DEF N
    <3>5. Within(k)
      BY <3>2, <3>3, <3>4
    <3>6. Beyond(k) /\ Exact(k)
      BY <1>1, <1>4, <1>5, <2>1, <2>3, <3>5
    <3> QED BY <2>1, <2>2, <3>5, <3>6
  <2>4. CASE k + 2 > N
    <3>1. (k - 1) + 2 >= N /\ Starts(own, cut[k-1].words)
      BY <1>1, <2>1, <2>4
    <3>2. Within(k)
      BY <1>1, <2>4
    <3>3. Beyond(k)
      <4>1. CASE cut[k] = cut[k-1]
        BY <3>1, <4>1
      <4>2. ASSUME NEW w \in Seq(Letter),
                   cut[k].words = Append(cut[k-1].words, w)
            PROVE  Beyond(k)
        <5>1. cut[k-1].words \in Seq(Seq(Letter))
          BY <2>1 DEF Cut
        <5> QED BY <1>o, <3>1, <4>2, <5>1, StartsLonger
      <4> QED BY <2>1, <4>1, <4>2, CutNextTyped
    <3>4. ASSUME Clean(b, L) PROVE cut[k] = cut[k-1]
      <4>1. cut[k-1].b \in Array /\ cut[k-1].next = L + 1
            /\ L + 1 \in 1..Size /\ L + 1 > L
        BY <1>1, <2>1, <3>1, <3>4 DEF Cut
      <4>2. cut[k-1].b[L+1] = Nul
        BY <2>1, <3>4, <4>1 DEF Clean
      <4>3. Strtok(cut[k-1].b, cut[k-1].next).word = <<>>
        BY <4>1, <4>2, StrtokFindsNone
      <4> QED BY <2>1, <4>3 DEF CutNext
    <3>5. Exact(k)
      BY <2>1, <3>1, <3>4
    <3> QED BY <2>1, <2>2, <3>2, <3>3, <3>5
  <2> QED BY <1>1, <2>3, <2>4
<1>8. Within(n) /\ Beyond(n) /\ Exact(n) /\ cut[n] \in Cut
  <2>1. n \in P
    <3> HIDE DEF P
    <3>1. 0..n \subseteq P
      BY <1>6, <1>7, Induction
    <3> QED BY <3>1
  <2> QED BY <1>3, <2>1
<1>9. CASE n + 2 < N
  <2>1. Min({N, n + 2}) = n + 2
    BY <1>1, <1>9, MinOfTwo
  <2>2. cut[n].words = SubSeq(words, 3, n + 2)
    <3>1. n + 2 <= N
      BY <1>1, <1>9
    <3> QED BY <1>8, <3>1
  <2>3. SubSeq(words, 3, n + 2) \in Seq(Seq(Letter))
    BY <1>1, <1>9, WordsFrom3 DEF N
  <2>4. IsPrefix(SubSeq(words, 3, n + 2), cut[n].words)
    BY <2>2, <2>3, StartsItself, StartsIsPrefix
  <2> QED BY <1>2, <2>1, <2>2, <2>4 DEF N, Sees
<1>10. CASE n + 2 >= N
  <2>1. Min({N, n + 2}) = N
    BY <1>1, <1>10, MinOfTwo
  <2>2. cut[n].words \in Seq(Seq(Letter))
    BY <1>8 DEF Cut
  <2>3. IsPrefix(own, cut[n].words)
    BY <1>o, <1>8, <1>10, <2>2, StartsIsPrefix
  <2>4. Clean(b, L) => cut[n].words = own
    BY <1>8, <1>10
  <2> DEFINE mine == SubSeq(words, 3, Min({Len(words), n + 2}))
  <2>5. mine = own
    BY <2>1 DEF N, own
  <2> HIDE DEF mine
  <2>6. /\ IsPrefix(mine, cut[n].words)
        /\ Clean(b, Len(Encode(words))) => cut[n].words = mine
    BY <2>3, <2>4, <2>5 DEF L, m
  <2> QED BY <1>2, <2>6 DEF mine, Sees
<1>11. n + 2 < N \/ n + 2 >= N
  BY <1>1
<1> QED BY <1>9, <1>10, <1>11

LEMMA CutWordsTyped ==
  ASSUME NEW n \in Nat, NEW b \in Array, NEW i \in 1..Size
  PROVE  /\ CutWords(b, i, n) \in Cut
         /\ \A from : Clean(b, from) => Clean(CutWords(b, i, n).b, from)
<1>1. PICK cut : Cutting(b, i, n, cut) /\ CutWords(b, i, n) = cut[n]
  BY CutWordsCuts
<1>2. /\ \A k \in 0..n : cut[k] \in Cut
      /\ cut[0].b = b
      /\ \A k \in 1..n : cut[k] = CutNext(cut[k-1])
  BY <1>1 DEF Cutting
<1>3. ASSUME NEW from, Clean(b, from) PROVE Clean(cut[n].b, from)
  <2> DEFINE P == {k \in 0..n : Clean(cut[k].b, from)}
  <2>1. 0 \in P
    BY <1>2, <1>3
  <2>2. ASSUME NEW k \in 1..n, k - 1 \in P PROVE k \in P
    <3>1. cut[k-1] \in Cut /\ Clean(cut[k-1].b, from)
          /\ cut[k] = CutNext(cut[k-1]) /\ k \in 0..n
      BY <1>2, <2>2
    <3> QED BY <3>1, CutNextTyped
  <2>3. n \in P
    <3> HIDE DEF P
    <3>1. 0..n \subseteq P
      BY <2>1, <2>2, Induction
    <3> QED BY <3>1
  <2> QED BY <2>3
<1> QED BY <1>1, <1>2, <1>3
-----------------------------------------------------------------------------
(* A handler that peeks: where no space comes first, it takes the word     *)
(* that a call of strtok_r would.                                          *)
(* Whatever get_trailing_whitespace counts behind the Nul, strndup stops.  *)
LEMMA PeekStops ==
  ASSUME NEW b \in Array, NEW i \in 1..Size
  PROVE  Min({ScanTo(b, i, {Nul}), i + TrailingWhitespace(b, i)})
           = ScanTo(b, i, {Space, Nul})
<1> DEFINE nul == ScanTo(b, i, {Nul})
           end == ScanTo(b, i, {Space, Nul})
           n == TrailingWhitespace(b, i)
<1>1. /\ nul \in i..Size /\ b[nul] = Nul
      /\ \A k \in i..(nul-1) : b[k] # Nul
  BY ScanToStops
<1>2. /\ end \in i..Size /\ b[end] \in {Space, Nul}
      /\ \A k \in i..(end-1) : b[k] \notin {Space, Nul}
  BY ScanToStops
<1>3. end <= nul /\ Size \in Nat /\ (b[end] = Nul => end = nul)
  BY <1>1, <1>2, LetterByte
<1>4. CASE \E j \in i..Size : b[j] = Space
  <2> DEFINE M == {j \in i..Size : b[j] = Space}
  <2>1. M \subseteq Nat /\ M # {}
    BY <1>4, LetterByte
  <2>2. PICK m \in M : \A j \in M : m <= j
    <3> HIDE DEF M
    <3> QED BY <2>1, Least
  <2>3. /\ m \in i..Size /\ b[m] = Space
        /\ \A k \in i..(m-1) : b[k] # Space
    BY <2>2, LetterByte
  <2>4. ScanTo(b, i, {Space}) = m
    BY <2>3, ScanToIs
  <2>5. n = m - i
    BY <1>4, <2>4 DEF TrailingWhitespace
  <2>6. n \in Nat /\ i + n = m
    BY <2>3, <2>5, LetterByte
  <2>8. end <= m
    BY <1>2, <2>3, LetterByte
  <2>7. ASSUME b[end] = Space PROVE end = m
    <3> HIDE DEF end, M
    <3>1. ~(end < m)
      BY <1>2, <2>3, <2>7, LetterByte
    <3> QED BY <1>2, <2>3, <2>8, <3>1, LetterByte
  <2> HIDE DEF nul, end, n, M
  <2>9. Min({nul, m}) = IF nul <= m THEN nul ELSE m
    BY <1>1, <2>3, LetterByte, MinOfTwo
  <2>10. Min({nul, i + n}) = end
    BY <1>1, <1>2, <1>3, <2>3, <2>6, <2>7, <2>8, <2>9, LetterByte
  <2> QED BY <2>10 DEF nul, end, n
<1>5. CASE ~\E j \in i..Size : b[j] = Space
  <2>1. n = Size + 1 - i
    BY <1>5 DEF TrailingWhitespace
  <2>2. i + n = Size + 1
    BY <2>1, LetterByte
  <2>3. end = nul
    BY <1>2, <1>3, <1>5
  <2> HIDE DEF nul, end, n
  <2>4. Min({nul, Size + 1}) = nul
    BY <1>1, LetterByte, MinOfTwo
  <2>5. Min({nul, i + n}) = end
    BY <2>2, <2>3, <2>4
  <2> QED BY <2>5 DEF nul, end, n
<1> QED BY <1>4, <1>5

LEMMA PeekTakesTheWord ==
  ASSUME NEW b \in Array, NEW i \in 1..Size, b[i] # Space
  PROVE  /\ PeekWord(b, i) = <<>> \/ PeekWord(b, i) = <<Strtok(b, i).word>>
         /\ Strtok(b, i).word # <<>> => PeekWord(b, i) # <<>>
         /\ b[i] = Nul => PeekWord(b, i) = <<>>
<1> DEFINE end == ScanTo(b, i, {Space, Nul})
<1>1. SkipSpaces(b, i) = i
  BY SkipSpacesStays
<1>2. Strtok(b, i).word = SubSeq(b, i, end - 1)
  BY <1>1 DEF Strtok
<1>3. end \in i..Size /\ Size \in Nat
  BY ScanToStops, LetterByte
<1>4. PeekWord(b, i) = IF end = i THEN <<>> ELSE <<SubSeq(b, i, end - 1)>>
  BY PeekStops DEF PeekWord
<1>5. end = i => SubSeq(b, i, end - 1) = <<>>
  BY <1>3, SubSeqEmpty
<1>6. b[i] = Nul => end = i
  BY <1>3, ScanToIs
<1> HIDE DEF end
<1> QED BY <1>2, <1>4, <1>5, <1>6

LEMMA PeekRequest ==
  ASSUME NEW words \in Requests, NEW at, LaidOut(words, at),
         Len(words) >= 2, NEW b \in Array, Agrees(b, Encode(words), at[2]),
         at[2] + 1 \in 1..Size
  PROVE  Sees(words, 1, b, PeekWord(b, at[2] + 1))
<1> DEFINE N == Len(words)
           m == Encode(words)
           L == Len(m)
           i == at[2] + 1
           mine == SubSeq(words, 3, Min({N, 3}))
<1>1. /\ words \in Seq(Word) /\ N \in Nat /\ N >= 2
      /\ L \in 0..(Size - 1) /\ at[N] = L /\ Size \in Nat
  BY RequestLaidOut, LetterByte DEF LaidOut
<1>2. 1 + 2 = 3 /\ Min({N, 3}) = IF N <= 3 THEN N ELSE 3
  BY <1>1, MinOfTwo
<1>3. CASE N = 2
  <2>1. mine = <<>>
    BY <1>1, <1>2, <1>3, SubSeqEmpty
  <2>2. ASSUME Clean(b, L) PROVE PeekWord(b, i) = <<>>
    <3>1. i = L + 1 /\ i \in 1..Size /\ i > L
      BY <1>1, <1>3
    <3>2. b[i] = Nul
      BY <2>2, <3>1 DEF Clean
    <3> QED BY <3>1, <3>2, LetterByte, PeekTakesTheWord
  <2>3. IsPrefix(<<>>, PeekWord(b, i))
    <3> DEFINE s == PeekWord(b, i)
    <3>1. PICK w : s = <<>> \/ s = <<w>>
      BY DEF PeekWord
    <3> HIDE DEF s
    <3>2. s \in Seq({w}) /\ <<>> \in Seq({w})
      <4>1. <<>> \in Seq({w})
        BY EmptySeq
      <4>2. <<w>> \in Seq({w})
        OBVIOUS
      <4> QED BY <3>1, <4>1, <4>2
    <3>3. Starts(<<>>, s)
      BY <3>1 DEF Starts
    <3> QED BY <3>2, <3>3, StartsIsPrefix DEF s
  <2> HIDE DEF mine
  <2>4. /\ IsPrefix(mine, PeekWord(b, i))
        /\ Clean(b, L) => PeekWord(b, i) = mine
    BY <2>1, <2>2, <2>3
  <2> QED BY <1>2, <2>4 DEF Sees, mine
<1>4. CASE N >= 3
  <2>1. 3 \in 1..N /\ 3 - 1 = 2
    BY <1>1, <1>4
  <2>2. Strtok(b, i).word = words[3] /\ words[3] # <<>>
        /\ words[3] \in Seq(Letter)
    BY <1>1, <2>1, NextWord, WordFields
  <2>3. b[i] # Space
    <3>1. /\ m[at[2] + 1] = words[3][1] /\ words[3][1] \in Letter
          /\ at[3] <= L /\ at[2] \in Nat /\ at[3] = at[2] + Len(words[3]) + 1
          /\ Len(words[3]) \in Nat \ {0}
      <4> HIDE DEF m
      <4>0. /\ at[2] \in Nat
            /\ \A k \in 1..N :
                 /\ at[k] = at[k-1] + Len(words[k]) + 1 /\ at[k] <= L
                 /\ \A j \in 1..Len(words[k]) : m[at[k-1] + j] = words[k][j]
        BY <1>1 DEF LaidOut, m
      <4>1. /\ at[2] \in Nat
            /\ at[3] = at[2] + Len(words[3]) + 1 /\ at[3] <= L
            /\ \A j \in 1..Len(words[3]) : m[at[2] + j] = words[3][j]
        <5>1. /\ at[3] = at[3-1] + Len(words[3]) + 1 /\ at[3] <= L
              /\ \A j \in 1..Len(words[3]) : m[at[3-1] + j] = words[3][j]
          BY ONLY <2>1, <4>0
        <5> QED BY <2>1, <4>0, <5>1
      <4>2. Len(words[3]) \in Nat \ {0}
            /\ \A j \in 1..Len(words[3]) : words[3][j] \in Letter
        BY <1>1, <2>1, WordFields
      <4> QED BY <4>1, <4>2
    <3>2. i \in 1..L /\ i > at[2]
      BY <1>1, <3>1
    <3>3. b[i] = m[i]
      BY <3>2 DEF Agrees
    <3> QED BY <3>1, <3>3, LetterByte
  <2>4. PeekWord(b, i) = <<words[3]>>
    BY <2>2, <2>3, PeekTakesTheWord
  <2>5. mine = <<words[3]>>
    <3>1. Min({N, 3}) = 3
      BY <1>1, <1>2, <1>4
    <3>2. SubSeq(words, 3, 3) = Append(SubSeq(words, 3, 2), words[3])
          /\ SubSeq(words, 3, 2) = <<>>
      BY <1>1, <2>1, WordsFrom3, SubSeqEmpty
    <3>3. SubSeq(words, 3, 3) = Append(<<>>, words[3])
      BY <3>2
    <3>4. mine = SubSeq(words, 3, 3)
      BY <3>1
    <3> HIDE DEF mine
    <3> DEFINE w == words[3]
    <3>5. mine = Append(<<>>, w)
      BY <3>3, <3>4
    <3> HIDE DEF w
    <3>6. mine = <<w>>
      BY <3>5
    <3> QED BY <3>6 DEF w
  <2>6. IsPrefix(mine, mine)
    <3> DEFINE w == words[3]
    <3>0. w \in Seq(Letter) /\ mine = <<w>>
      BY <2>2, <2>5
    <3> HIDE DEF w, mine
    <3>1. mine \in Seq(Seq(Letter))
      BY <3>0
    <3> QED BY <3>1, StartsItself, StartsIsPrefix
  <2>7. mine = SubSeq(words, 3, Min({Len(words), 1 + 2}))
    BY <1>2
  <2> HIDE DEF mine
  <2>8. PeekWord(b, i) = mine
    BY <2>4, <2>5
  <2> HIDE DEF i
  <2>9. IsPrefix(mine, PeekWord(b, i)) /\ PeekWord(b, i) = mine
    BY <2>6, <2>8
  <2>10. /\ IsPrefix(SubSeq(words, 3, Min({Len(words), 1 + 2})), PeekWord(b, i))
         /\ PeekWord(b, i) = SubSeq(words, 3, Min({Len(words), 1 + 2}))
    BY ONLY <2>7, <2>9
  <2>11. Sees(words, 1, b, PeekWord(b, i))
    BY ONLY <2>10 DEF Sees
  <2> QED BY <2>11 DEF i
<1>5. N = 2 \/ N >= 3
  <2> HIDE DEF N, L
  <2> QED BY <1>1
<1> QED BY <1>3, <1>4, <1>5
-----------------------------------------------------------------------------
(* One datagram.  Pid and Command are the two calls of strtok_r the loop   *)
(* makes before it dispatches.                                             *)

Pid(words)     == Strtok(Received(Encode(words)), 1)
Command(words) == Strtok(Pid(words).b, Pid(words).next)

LEMMA ReceivedTyped ==
  ASSUME NEW words \in Requests, buf \in Array
  PROVE  /\ Received(Encode(words)) \in Array
         /\ Agrees(Received(Encode(words)), Encode(words), 0)
         /\ \A from \in Nat : Clean(buf, from) /\ from >= Len(Encode(words)) =>
              Clean(Received(Encode(words)), from)
<1> DEFINE m == Encode(words)
           L == Len(m)
<1>1. L \in 0..(Size - 1) /\ m \in Seq(Sent) /\ Size \in Nat \ {0}
  BY RequestLaidOut, LetterByte
<1>2. \A j \in 1..L : m[j] \in Byte
  BY <1>1, ElementOfSeq DEF Sent, Byte
<1>3. \A i \in 1..Size : buf[i] \in Byte /\ buf[Size] = Nul
  BY DEF Array
<1>4. Received(m) = [i \in 1..Size |-> IF i <= L THEN m[i] ELSE buf[i]]
  BY DEF Received
<1> HIDE DEF L
<1>5. Received(m) \in Array
  <2>1. \A i \in 1..Size : (IF i <= L THEN m[i] ELSE buf[i]) \in Byte
    BY <1>1, <1>2, <1>3
  <2>2. Received(m) \in [1..Size -> Byte]
    BY <1>4, <2>1
  <2>3. Received(m)[Size] = Nul
    BY <1>1, <1>3, <1>4
  <2> QED BY <2>2, <2>3 DEF Array
<1>6. Agrees(Received(m), m, 0)
  <2>1. \A j \in 1..L : Received(m)[j] = m[j]
    BY <1>1, <1>4
  <2> QED BY <2>1 DEF Agrees, L
<1>7. ASSUME NEW from \in Nat, Clean(buf, from), from >= L
      PROVE  Clean(Received(m), from)
  BY <1>1, <1>4, <1>7 DEF Clean
<1> QED BY <1>5, <1>6, <1>7 DEF L

(* The pid and the command word are read from the request itself, wherever *)
(* the array holds more than the request.                                  *)
LEMMA CommandRead ==
  ASSUME NEW words \in Requests, buf \in Array
  PROVE  /\ Command(words).b \in Array /\ Command(words).next \in 1..Size
         /\ \A from \in Nat : Clean(buf, from) /\ from >= Len(Encode(words)) =>
              Clean(Command(words).b, from)
         /\ Len(words) >= 2 =>
              /\ Command(words).word = words[2]
              /\ \E at : /\ LaidOut(words, at)
                         /\ Command(words).next = at[2] + 1
                         /\ Agrees(Command(words).b, Encode(words), at[2])
         /\ Len(words) = 1 /\ Clean(buf, Len(Encode(words))) =>
              Command(words).word = <<>>
<1> DEFINE m == Encode(words)
           b == Received(m)
           p == Pid(words)
           c == Command(words)
           N == Len(words)
<1>1. /\ b \in Array /\ Agrees(b, m, 0)
      /\ \A from \in Nat : Clean(buf, from) /\ from >= Len(m) => Clean(b, from)
  BY ReceivedTyped
<1>2. 1 \in 1..Size /\ Size \in Nat
  BY LetterByte
<1>3. p = Strtok(b, 1) /\ c = Strtok(p.b, p.next)
  BY DEF Pid, Command
<1> HIDE DEF b, p, c
<1>4. p.b \in Array /\ p.next \in 1..Size
  BY <1>1, <1>2, <1>3, StrtokTyped
<1>5. c.b \in Array /\ c.next \in 1..Size
  BY <1>3, <1>4, StrtokTyped
<1>6. \A from : Clean(b, from) => Clean(c.b, from)
  BY <1>1, <1>2, <1>3, <1>4, StrtokKeepsClean
<1>7. ASSUME N >= 2
      PROVE  /\ c.word = words[2]
             /\ \E at : LaidOut(words, at) /\ c.next = at[2] + 1
                        /\ Agrees(c.b, m, at[2])
  <2>1. PICK at : LaidOut(words, at)
    BY RequestLaidOut
  <2>2. at[0] = 0 /\ N \in Nat
    BY <2>1, RequestLaidOut DEF LaidOut
  <2> HIDE DEF N
  <2>3. 1 \in 1..N /\ 2 \in 1..N /\ 1 - 1 = 0 /\ 2 - 1 = 1 /\ 0 + 1 = 1
    BY <1>7, <2>2
  <2>4. Agrees(b, Encode(words), at[1-1]) /\ at[1-1] + 1 = 1
    BY <1>1, <2>2, <2>3
  <2>5. p.next = at[1] + 1 /\ Agrees(p.b, Encode(words), at[1])
    BY <1>1, <1>3, <2>1, <2>3, <2>4, NextWord DEF N
  <2>6. Agrees(p.b, Encode(words), at[2-1]) /\ at[2-1] + 1 = p.next
    BY <2>3, <2>5
  <2>7. /\ c.word = words[2] /\ c.next = at[2] + 1
        /\ Agrees(c.b, Encode(words), at[2])
    BY <1>3, <1>4, <2>1, <2>3, <2>6, NextWord DEF N
  <2> QED BY <2>1, <2>7
<1>8. ASSUME N = 1, Clean(buf, Len(m)) PROVE c.word = <<>>
  <2> DEFINE L == Len(m)
  <2>1. PICK at : LaidOut(words, at)
    BY RequestLaidOut
  <2>2. at[0] = 0 /\ at[N] = Len(m) /\ L \in 0..(Size - 1)
    BY <2>1, RequestLaidOut DEF LaidOut
  <2> HIDE DEF L
  <2>3. 1 \in 1..N /\ 1 - 1 = 0 /\ 0 + 1 = 1
    BY <1>8
  <2>4. Agrees(b, Encode(words), at[1-1]) /\ at[1-1] + 1 = 1
    BY <1>1, <2>2, <2>3
  <2>5. p.next = at[1] + 1
    BY <1>1, <1>3, <2>1, <2>3, <2>4, NextWord
  <2>6. p.next = L + 1
    BY <1>8, <2>2, <2>5 DEF L
  <2>7. Clean(p.b, L)
    BY <1>1, <1>2, <1>3, <1>8, <2>2, StrtokKeepsClean DEF L
  <2>8. p.b[p.next] = Nul
    BY <1>2, <1>4, <2>2, <2>6, <2>7 DEF Clean
  <2> QED BY <1>3, <1>4, <2>8, StrtokFindsNone
<1> QED BY <1>1, <1>5, <1>6, <1>7, <1>8 DEF c

(* What Handle does, by what the handler is: it takes nothing, peeks, or   *)
(* cuts.                                                                   *)
Asked(name) == Cuts[CHOOSE c \in name : TRUE]

LEMMA HandleCases ==
  ASSUME NEW words, NEW early \in BOOLEAN, Handle(words, early)
  PROVE  LET cmd  == Command(words)
             name == Dispatched(cmd.word)
             cut  == CutWords(cmd.b, cmd.next, Asked(name))
         IN  \/ /\ name = {} \/ early
                /\ unread' = TRUE /\ buf' = cmd.b
                /\ command' = IF name = {} THEN <<>> ELSE cmd.word
             \/ /\ name # {} /\ name \subseteq Peeks
                /\ unread' = FALSE /\ buf' = cmd.b /\ command' = cmd.word
                /\ args' = PeekWord(cmd.b, cmd.next)
             \/ /\ name # {} /\ ~(name \subseteq Peeks)
                /\ unread' = FALSE /\ buf' = cut.b /\ command' = cmd.word
                /\ args' = cut.words
BY DEF Handle, Command, Pid, Asked

LEMMA AskedTyped ==
  ASSUME NEW word, Dispatched(word) # {} PROVE Asked(Dispatched(word)) \in Nat
<1>1. (CHOOSE c \in Dispatched(word) : TRUE) \in Dispatched(word)
  OBVIOUS
<1>2. Dispatched(word) \subseteq DOMAIN Cuts
  BY DEF Dispatched
<1> QED BY <1>1, <1>2, CutsAssumption DEF Asked
-----------------------------------------------------------------------------
(***************************************************************************)
(* The invariant: behind the longest datagram received so far the array    *)
(* holds nothing but Nul.  What the properties say of a request is not     *)
(* inductive without it: it bounds what a shorter request can expose.      *)
(***************************************************************************)
Longest == Max({longest, Len(Encode(request))})

Inv == TypeOK /\ Clean(buf, Longest)

LEMMA EncodeNothing == Len(Encode(<<>>)) = 0
<1>1. <<>> \in Seq(Word) /\ Len(<<>>) = 0
  BY EmptySeq
<1>2. PICK at : LaidOut(<<>>, at)
  BY <1>1, Layout
<1> QED BY <1>1, <1>2 DEF LaidOut

LEMMA LongestTyped ==
  ASSUME TypeOK
  PROVE  Longest \in 0..(Size - 1) /\ Longest >= longest
<1> DEFINE L == Len(Encode(request))
<1>1. L \in 0..(Size - 1)
  BY EncodeNothing, RequestLaidOut, LetterByte DEF TypeOK
<1>2. longest \in 0..(Size - 1) /\ Size \in Nat
  BY LetterByte DEF TypeOK
<1> HIDE DEF L
<1>3. Max({longest, L}) = IF longest >= L THEN longest ELSE L
  BY <1>1, <1>2, MaxOfTwo
<1> QED BY <1>1, <1>2, <1>3 DEF Longest, L

LEMMA InitInv == Init => Inv
<1> SUFFICES ASSUME Init PROVE Inv
  OBVIOUS
<1>1. buf = [i \in 1..Size |-> Nul] /\ Unused /\ Size \in Nat \ {0}
  BY LetterByte DEF Init
<1>2. TypeOK
  BY <1>1 DEF TypeOK, Unused, Byte
<1>3. Clean(buf, Longest)
  BY <1>1 DEF Clean
<1> QED BY <1>2, <1>3 DEF Inv

(* What one datagram leaves, and what its handler makes of it.             *)
LEMMA ReceiveStep ==
  ASSUME Inv, NEW words \in Requests, NEW early \in BOOLEAN,
         Receive(words, early)
  PROVE  Inv' /\ CommandIsSent' /\ ArgsStartWithRequest'
         /\ LongestSoFarIsExact'
<1> DEFINE m    == Encode(words)
           L    == Len(m)
           cmd  == Command(words)
           name == Dispatched(cmd.word)
           cut  == CutWords(cmd.b, cmd.next, Asked(name))
<1>1. /\ buf \in Array /\ TypeOK /\ Clean(buf, Longest)
      /\ request' = words /\ longest' = Longest
  BY DEF Inv, TypeOK, Array, Receive, Longest
<1>2. Longest \in 0..(Size - 1) /\ L \in 0..(Size - 1) /\ Size \in Nat
  BY <1>1, LongestTyped, RequestLaidOut, LetterByte
<1>3. /\ cmd.b \in Array /\ cmd.next \in 1..Size
      /\ \A from \in Nat : Clean(buf, from) /\ from >= L => Clean(cmd.b, from)
      /\ Len(words) >= 2 =>
           /\ cmd.word = words[2]
           /\ \E at : LaidOut(words, at) /\ cmd.next = at[2] + 1
                      /\ Agrees(cmd.b, m, at[2])
      /\ Len(words) = 1 /\ Clean(buf, L) => cmd.word = <<>>
  BY <1>1, CommandRead
<1>4. \/ /\ name = {} \/ early
         /\ unread' = TRUE /\ buf' = cmd.b
         /\ command' = IF name = {} THEN <<>> ELSE cmd.word
      \/ /\ name # {} /\ name \subseteq Peeks
         /\ unread' = FALSE /\ buf' = cmd.b /\ command' = cmd.word
         /\ args' = PeekWord(cmd.b, cmd.next)
      \/ /\ name # {} /\ ~(name \subseteq Peeks)
         /\ unread' = FALSE /\ buf' = cut.b /\ command' = cmd.word
         /\ args' = cut.words
  BY HandleCases DEF Receive
<1> HIDE DEF cmd
<1>5. name # {} =>
        /\ Asked(name) \in Nat /\ cut \in Cut
        /\ \A from : Clean(cmd.b, from) => Clean(cut.b, from)
  BY <1>3, AskedTyped, CutWordsTyped
<1>6. buf' \in Array /\ unread' \in BOOLEAN
      /\ \A from : Clean(cmd.b, from) => Clean(buf', from)
  BY <1>3, <1>4, <1>5 DEF Cut
<1>7. TypeOK'
  BY <1>1, <1>2, <1>6 DEF TypeOK, Array
<1> HIDE DEF m, L, name, cut
<1>8. Clean(buf, Longest) /\ Longest \in Nat /\ L \in Nat
  BY <1>1, <1>2
(* The array holds nothing behind the longest datagram.                    *)
<1>9. Clean(buf, Longest)'
  <2> DEFINE top == IF Longest >= L THEN Longest ELSE L
  <2>1. Longest' = top
    <3>1. Longest' = Max({longest', Len(Encode(request'))})
      BY DEF Longest
    <3>2. Max({Longest, L}) = top
      BY <1>8, MaxOfTwo
    <3> QED BY <1>1, <3>1, <3>2 DEF L, m
  <2>2. top \in Nat /\ top >= L /\ top >= Longest
    BY <1>8
  <2> HIDE DEF top
  <2>3. Clean(buf, top)
    BY <1>1, <1>2, <1>8, <2>2 DEF Clean
  <2>4. Clean(buf', top)
    BY <1>3, <1>6, <2>2, <2>3
  <2> QED BY <2>1, <2>4
(* A request with a second word is dispatched as what that word names.     *)
<1>10. Len(words) >= 2 =>
         /\ cmd.word = words[2] /\ (Named' <=> name # {})
         /\ command' = IF Named' THEN words[2] ELSE <<>>
  <2>1. Len(words) >= 2 => (Named' <=> Dispatched(words[2]) # {})
    BY <1>1 DEF Named
  <2>2. Len(words) >= 2 => cmd.word = words[2]
    BY <1>3
  <2>3. Len(words) >= 2 => (Named' <=> name # {})
    BY <2>1, <2>2 DEF name
  <2> HIDE DEF name
  <2>4. command' = IF name = {} THEN <<>> ELSE cmd.word
    BY <1>4
  <2> QED BY <2>2, <2>3, <2>4
<1>11. CommandIsSent' /\ (Named' => Len(words) >= 2)
  BY <1>1, <1>10 DEF CommandIsSent, Named
(* Its own words come first; they are all when nothing longer came before. *)
<1>12. ASSUME Named', ~unread'
       PROVE  /\ IsPrefix(Wanted', args')
              /\ Clean(cmd.b, L) => args' = Wanted'
  <2> DEFINE n == IF name \subseteq Peeks THEN 1 ELSE Asked(name)
  <2>1. /\ Len(words) >= 2 /\ name = Dispatched(words[2]) /\ name # {}
        /\ cmd.word = words[2]
    BY <1>10, <1>11, <1>12 DEF name
  <2>2. Wanted' = SubSeq(words, 3, Min({Len(words), n + 2}))
    BY <1>1, <2>1 DEF Wanted, Asked
  <2>3. PICK at : LaidOut(words, at) /\ cmd.next = at[2] + 1
                  /\ Agrees(cmd.b, Encode(words), at[2])
    BY <1>3, <2>1 DEF m
  <2>4. at[2] + 1 \in 1..Size
    BY <1>3, <2>3
  <2>5. CASE name \subseteq Peeks
    <3>1. args' = PeekWord(cmd.b, at[2] + 1) /\ n = 1
      BY <1>4, <1>12, <2>1, <2>3, <2>5
    <3>2. Sees(words, 1, cmd.b, PeekWord(cmd.b, at[2] + 1))
      BY <1>3, <2>1, <2>3, <2>4, PeekRequest
    <3> QED BY <2>2, <3>1, <3>2 DEF Sees, L, m
  <2>6. CASE ~(name \subseteq Peeks)
    <3>1. args' = CutWords(cmd.b, at[2] + 1, n).words /\ n \in Nat
      BY <1>4, <1>5, <1>12, <2>1, <2>3, <2>6 DEF cut
    <3> HIDE DEF n
    <3>2. Sees(words, n, cmd.b, CutWords(cmd.b, at[2] + 1, n).words)
      BY <1>3, <2>1, <2>3, <2>4, <3>1, CutRequest
    <3> QED BY <2>2, <3>1, <3>2 DEF Sees, L, m
  <2> QED BY <2>5, <2>6
<1>13. ArgsStartWithRequest'
  BY <1>12 DEF ArgsStartWithRequest
<1>14. LongestSoFarIsExact'
  <2>1. L >= Longest => Clean(cmd.b, L)
    <3>1. L >= Longest => Clean(buf, L)
      BY <1>1, <1>2, <1>8 DEF Clean
    <3> QED BY <1>3, <1>8, <3>1
  <2>2. Len(Encode(request'))= L /\ longest' = Longest
    BY <1>1 DEF L, m
  <2>3. ASSUME ~Named', Clean(buf, L) PROVE command' = <<>>
    <3>1. CASE Len(words) = 1
      BY <1>3, <1>4, <2>3, <3>1 DEF L, m
    <3>2. CASE Len(words) >= 2
      BY <1>10, <2>3, <3>2
    <3>3. Len(words) = 1 \/ Len(words) >= 2
      <4> DEFINE N == Len(words)
      <4>1. N \in Nat \ {0}
        BY RequestLaidOut
      <4> HIDE DEF N
      <4>2. N = 1 \/ N >= 2
        BY <4>1
      <4> QED BY <4>2 DEF N
    <3> QED BY <3>1, <3>2, <3>3
  <2>4. L >= Longest => Clean(buf, L)
    BY <1>1, <1>2, <1>8 DEF Clean
  <2> QED BY <1>12, <2>1, <2>2, <2>3, <2>4 DEF LongestSoFarIsExact
<1> QED BY <1>7, <1>9, <1>11, <1>13, <1>14 DEF Inv

LEMMA StutterStep ==
  ASSUME Inv, UNCHANGED vars
  PROVE  /\ Inv'
         /\ CommandIsSent => CommandIsSent'
         /\ ArgsStartWithRequest => ArgsStartWithRequest'
         /\ LongestSoFarIsExact => LongestSoFarIsExact'
BY DEF Inv, TypeOK, Longest, vars, CommandIsSent, ArgsStartWithRequest,
       LongestSoFarIsExact, Named, Wanted
-----------------------------------------------------------------------------
(* Before the first request there is none that could be misread.           *)
LEMMA InitProperties ==
  Init => CommandIsSent /\ ArgsStartWithRequest /\ LongestSoFarIsExact
<1>1. Len(<<>>) = 0 /\ ~(0 >= 2)
  BY EmptySeq
<1> QED BY <1>1 DEF Init, Unused, CommandIsSent, ArgsStartWithRequest,
       LongestSoFarIsExact, Named

LEMMA NextStep ==
  ASSUME Inv, Next
  PROVE  Inv' /\ CommandIsSent' /\ ArgsStartWithRequest'
         /\ LongestSoFarIsExact'
BY ReceiveStep DEF Next

LEMMA Invariance == Spec => []Inv
<1>1. Inv /\ [Next]_vars => Inv'
  BY NextStep, StutterStep
<1> QED BY <1>1, InitInv, PTL DEF Spec

(* Every value keeps its type, and the array a Nul at its end, so that no  *)
(* scan leaves it, while datagrams are shorter than the array (main.c:57   *)
(* does not see to it: recv may fill the array).                           *)
THEOREM TypeCorrect == Spec => []TypeOK
BY Invariance, PTL DEF Inv

(* Whatever earlier requests left in the array, a request that names a     *)
(* command is dispatched as that command (main.c:57-100).                  *)
THEOREM CommandsAreNotMisread == Spec => []CommandIsSent
<1>1. Inv /\ CommandIsSent /\ [Next]_vars => CommandIsSent'
  BY NextStep, StutterStep
<1> QED BY <1>1, InitProperties, Invariance, PTL DEF Spec

(* The words a handler takes begin with those of the request, in order and *)
(* whole; stale bytes can only add words behind them (commands.c:220-235). *)
THEOREM OwnArgumentsComeFirst == Spec => []ArgsStartWithRequest
<1>1. Inv /\ ArgsStartWithRequest /\ [Next]_vars => ArgsStartWithRequest'
  BY NextStep, StutterStep
<1> QED BY <1>1, InitProperties, Invariance, PTL DEF Spec

(* A request at least as long as every one before it is seen exactly: a    *)
(* stale word was sent earlier, in a longer datagram.                      *)
THEOREM NothingStaleBehindTheLongest == Spec => []LongestSoFarIsExact
<1>1. Inv /\ LongestSoFarIsExact /\ [Next]_vars => LongestSoFarIsExact'
  BY NextStep, StutterStep
<1> QED BY <1>1, InitProperties, Invariance, PTL DEF Spec
=============================================================================
