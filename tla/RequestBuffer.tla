----------------------------- MODULE RequestBuffer -----------------------------
(***************************************************************************)
(* From the words a client sends to the words a handler sees.              *)
(*                                                                         *)
(* The daemon's loop receives every datagram into the same array, which it *)
(* never clears; a datagram carries no terminating NUL.  strtok_r, called  *)
(* by the loop and by the handlers, cuts the array in place.  The state of *)
(* this module is that array; one action receives one datagram and lets    *)
(* the command's handler cut its arguments.                                *)
(*                                                                         *)
(* A word is a sequence of letters; the array holds letters, Space and     *)
(* Nul.  Requests is kept shorter than the array (the client does not      *)
(* bound them): the scan of a full array would leave it.                   *)
(***************************************************************************)
EXTENDS Naturals, SequencesExt

CONSTANTS
  Size,      \* bytes of the receive buffer
  Letter,    \* what words are made of
  Requests,  \* the requests clients send: sequences of words, pid first
  Cuts,      \* for each command word: how many words its handler cuts
  Peeks,     \* commands whose handler takes args up to its first space
  Space, Nul

VARIABLES
  buf,      \* the receive buffer
  request,  \* the words of the request just handled
  command,  \* the command word dispatched, or <<>>
  unread,   \* whether the handler returned before it looked at args
  args,     \* the words its handler took from args
  longest   \* history: the length of the longest datagram before this one

vars == <<buf, request, command, unread, args, longest>>

(* Variations.  An operator named for a slip in the code stands before the *)
(* definition it varies; no specification uses it.                         *)
SeparateWords(words) ==
  LET sent[k \in 0..Len(words)] ==
        IF k = 0 THEN <<>>
        ELSE IF k = 1 THEN words[1]
        ELSE sent[k-1] \o <<Space>> \o words[k]
  IN  sent[Len(words)]

(* The client: sprintf("%s ") for each word, so every word, the last one   *)
(* included, is followed by a space; no NUL is sent.                       *)
Encode(words) ==
  LET sent[k \in 0..Len(words)] ==
        IF k = 0 THEN <<>> ELSE sent[k-1] \o words[k] \o <<Space>>
  IN  sent[Len(words)]

Word == Seq(Letter) \ {<<>>}
Byte == Letter \union {Space, Nul}

ASSUME ByteAssumption == Space # Nul /\ {Space, Nul} \intersect Letter = {}
ASSUME RequestAssumption == Requests \subseteq Seq(Word) \ {<<>>}
ASSUME SizeAssumption ==
  Size \in Nat \ {0} /\ \A r \in Requests : Len(Encode(r)) < Size
ASSUME CutsAssumption == Cuts \in [DOMAIN Cuts -> Nat]
-----------------------------------------------------------------------------
(* String functions on the array.  The array ends with a Nul, so strtok_r, *)
(* which stops at one, stays inside it.                                    *)

ScanTo(b, i, stops) ==
  CHOOSE j \in i..Size :
    b[j] \in stops /\ \A k \in i..(j-1) : b[k] \notin stops

SkipSpaces(b, i) ==
  CHOOSE j \in i..Size : b[j] # Space /\ \A k \in i..(j-1) : b[k] = Space

(* strtok_r(.., " ", ..) from position i on: the word found (<<>> for      *)
(* NULL), the array with the word cut off, and the position saved.         *)
Strtok(b, i) ==
  LET start == SkipSpaces(b, i)
      end   == ScanTo(b, start, {Space, Nul})
  IN  [word |-> SubSeq(b, start, end - 1),
       b    |-> [b EXCEPT ![end] = Nul],
       next |-> IF b[end] = Nul THEN end ELSE end + 1]

(* One call in a handler's loop, which ends at NULL.                       *)
CutNext(cut) ==
  LET t == Strtok(cut.b, cut.next)
  IN  IF t.word = <<>> THEN cut
      ELSE [words |-> Append(cut.words, t.word), b |-> t.b, next |-> t.next]

(* n calls in a row.                                                       *)
CutWords(b, i, n) ==
  LET cut[k \in 0..n] ==
        IF k = 0 THEN [words |-> <<>>, b |-> b, next |-> i]
        ELSE CutNext(cut[k-1])
  IN  cut[n]

PeekToTheEnd(b, i) ==
  LET end == ScanTo(b, i, {Nul})
  IN  IF end = i THEN <<>> ELSE <<SubSeq(b, i, end - 1)>>

(* get_trailing_whitespace counts up to the first space (the text has no   *)
(* newline), past any Nul: without a space ahead it reads on behind the    *)
(* array, and its count is whatever it finds there, at least this.         *)
TrailingWhitespace(b, i) ==
  IF \E j \in i..Size : b[j] = Space
    THEN ScanTo(b, i, {Space}) - i
    ELSE Size + 1 - i

(* strndup(args, get_trailing_whitespace(args)): strndup does stop at Nul. *)
PeekWord(b, i) ==
  LET end == Min({ScanTo(b, i, {Nul}), i + TrailingWhitespace(b, i)})
  IN  IF end = i THEN <<>> ELSE <<SubSeq(b, i, end - 1)>>

(* dispatch_command: strncmp over the length of the table's name.          *)
Dispatched(word) ==
  {c \in DOMAIN Cuts : Len(c) <= Len(word) /\ SubSeq(word, 1, Len(c)) = c}
-----------------------------------------------------------------------------
(* An array declared without its initialiser: with a NUL somewhere behind  *)
(* the garbage, or with none.                                              *)
Garbage(n) ==
  \E r \in Requests : buf = [i \in 1..Size |-> IF i < n THEN r[1][1] ELSE Nul]

Unused ==
  /\ request = <<>>
  /\ command = <<>>
  /\ unread = TRUE
  /\ args = <<>>
  /\ longest = 0

UnclearedInit == Garbage(Size) /\ Unused
UnterminatedInit == Garbage(Size + 1) /\ Unused

Init == buf = [i \in 1..Size |-> Nul] /\ Unused

(* recv overwrites the front of the array and no more.                     *)
Received(msg) == [i \in 1..Size |-> IF i <= Len(msg) THEN msg[i] ELSE buf[i]]

(* The loop cuts the pid and the command; the handler, unless it returns   *)
(* before it looks at args (its shell is not registered), cuts or peeks    *)
(* its arguments.                                                          *)
Handle(words, early) ==
  LET pid  == Strtok(Received(Encode(words)), 1)
      cmd  == Strtok(pid.b, pid.next)
      name == Dispatched(cmd.word)
      cut  == CutWords(cmd.b, cmd.next, Cuts[CHOOSE c \in name : TRUE])
  IN  /\ unread' = (early \/ name = {})
      /\ \/ /\ name = {}
            /\ command' = <<>>
            /\ args' = <<>>
            /\ buf' = cmd.b
         \/ /\ name # {}
            /\ early \/ name \subseteq Peeks
            /\ command' = cmd.word
            /\ args' = IF early THEN <<>> ELSE PeekWord(cmd.b, cmd.next)
            /\ buf' = cmd.b
         \/ /\ name # {}
            /\ ~early /\ ~(name \subseteq Peeks)
            /\ command' = cmd.word
            /\ args' = cut.words
            /\ buf' = cut.b

Receive(words, early) ==
  /\ Handle(words, early)
  /\ request' = words
  /\ longest' = Max({longest, Len(Encode(request))})

Next == \E r \in Requests, early \in BOOLEAN : Receive(r, early)

Spec == Init /\ [][Next]_vars
-----------------------------------------------------------------------------
(* Properties.                                                             *)

TypeOK ==
  /\ buf \in [1..Size -> Byte]
  /\ buf[Size] = Nul
  /\ request \in Requests \union {<<>>}
  /\ unread \in BOOLEAN
  /\ longest \in 0..(Size - 1)

(* The words after the command that its handler takes when it sees nothing *)
(* but the request.                                                        *)
Wanted ==
  LET name == Dispatched(request[2])
      n    == IF name \subseteq Peeks THEN 1 ELSE Cuts[CHOOSE c \in name : TRUE]
  IN  SubSeq(request, 3, Min({Len(request), n + 2}))

Named == Len(request) >= 2 /\ Dispatched(request[2]) # {}

(* Whatever earlier requests left in the array, a request with a second    *)
(* word is dispatched as the command that word names, or not at all: no    *)
(* stale byte is taken for a part of it.  It rests on the space the client *)
(* puts after every word.                                                  *)
CommandIsSent ==
  Len(request) >= 2 => command = IF Named THEN request[2] ELSE <<>>

(* The request's own arguments come first and whole, whatever is stale     *)
(* behind them: a stale byte can only show as a further word.              *)
ArgsStartWithRequest == Named /\ ~unread => IsPrefix(Wanted, args)

(* A request at least as long as every one before it is seen exactly: what *)
(* a handler wrongly sees, or a pid alone wrongly runs (main.c:73), was    *)
(* sent earlier, in a longer request.                                      *)
LongestSoFarIsExact ==
  Len(Encode(request)) >= longest =>
    /\ ~Named => command = <<>>
    /\ Named /\ ~unread => args = Wanted

(* commands.h:19-20 says "The `args` parameter contains the remaining      *)
(* arguments after the command string": a handler sees the words of the    *)
(* request it handles, and no others.                                      *)
HandlerSeesRequest == Named /\ ~unread => args = Wanted
=============================================================================
