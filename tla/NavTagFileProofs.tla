--------------------------- MODULE NavTagFileProofs ---------------------------
(***************************************************************************)
(* The tag list and the tag file.  The theorems here hold under conditions *)
(* on the environment, which are named and assumed where they are needed.  *)
(***************************************************************************)
EXTENDS NavDaemonProofs

(* No name holds a '=': a line is read back as it was written.             *)
PlainNames == \A w \in Word : ReadAs[w] = [name |-> w, whole |-> TRUE]

(* The tag file can always be opened for writing.                          *)
WritesSucceed == "write" \notin Faults

(***************************************************************************)
(* With plain names, one step of the reader appends the line it reads,     *)
(* puts its path in the place of an older one, or skips it.                *)
(***************************************************************************)
LEMMA ReadLinePlain ==
  ASSUME PlainNames, TypeOK, ReadLine
  PROVE  LET line == Head(pending)
         IN  /\ line \in Line /\ line = pending[1]
             /\ Entry(line.tag, line.path) = line
             /\ \/ HasTag(tags, line.tag) /\ tags' = SetPath(tags, line.tag, line.path)
                \/ ~HasTag(tags, line.tag) /\ tags' = AppendTag(tags, line.tag, line.path)
                \/ /\ tags' = tags
                   /\ ~HasTag(tags, line.tag)
                   /\ line.path \notin exists \/ "alloc" \in Faults
<1> DEFINE line == Head(pending)
<1>1. line \in Line /\ line = pending[1]
  BY HeadTailProperties DEF ReadLine, TypeOK
<1>2. line.tag \in Word /\ Entry(line.tag, line.path) = line
  BY <1>1 DEF Line, Entry
<1>3. ReadAs[line.tag].name = line.tag /\ ReadAs[line.tag].whole = TRUE
  <2>1. ReadAs[line.tag] = [name |-> line.tag, whole |-> TRUE]
    BY <1>2 DEF PlainNames
  <2> HIDE DEF line
  <2> QED  BY <2>1
<1>4. \/ HasTag(tags, line.tag) /\ tags' = SetPath(tags, line.tag, line.path)
      \/ ~HasTag(tags, line.tag) /\ tags' = AppendTag(tags, line.tag, line.path)
      \/ /\ tags' = tags
         /\ ~HasTag(tags, line.tag)
         /\ line.path \notin exists \/ "alloc" \in Faults
  <2> DEFINE name == ReadAs[line.tag].name
             dir  == IF ReadAs[line.tag].whole THEN line.path ELSE Junk
  <2>1. \/ HasTag(tags, name) /\ tags' = SetPath(tags, name, dir)
        \/ ~HasTag(tags, name) /\ tags' = AppendTag(tags, name, dir)
        \/ tags' = tags /\ ~HasTag(tags, name) /\ (dir \notin exists \/ "alloc" \in Faults)
    BY DEF ReadLine, ValidPath
  <2>2. name = line.tag /\ dir = line.path
    BY <1>3
  <2> HIDE DEF name, dir
  <2> QED  BY <2>1, <2>2
<1> QED  BY <1>1, <1>2, <1>4

(***************************************************************************)
(* What a step does to the file: a handler that changes the tag list       *)
(* writes the list it leaves; nothing else touches the file.               *)
(***************************************************************************)
FileStep ==
  \/ UNCHANGED file /\ phase' = "down" /\ tags' = <<>>
  \/ UNCHANGED <<file, tags, phase, pending>>
  \/ /\ UNCHANGED <<file, tags>>
     /\ phase = "down" /\ phase' = "loading"
     /\ pending' = file \/ ("read" \in Faults /\ pending' = <<>>)
  \/ /\ UNCHANGED <<file, tags, pending>>
     /\ phase = "loading" /\ pending = <<>>
     /\ phase' = "serving"
  \/ ReadLine
  \/ phase = "serving" /\ phase' = "serving" /\ file' = tags'

LEMMA FileStepCommand ==
  ASSUME WritesSucceed, NEW p \in Pid, NEW args \in AnyArgs,
         Command(p) \/ CommandWith(p, args)
  PROVE  FileStep
<1>1. CASE Command(p)
  BY <1>1 DEF Command, CmdRegister, CmdUnregister, CmdShow, CmdList, CmdPop,
              CmdActions, CmdReset, Idle, memory, FileStep
<1>2. CASE Ignored(p, args) \/ CmdGet(p, args) \/ CmdPush(p, args)
  BY <1>2 DEF Ignored, CmdGet, CmdPush, Idle, memory, FileStep
<1>3. CASE NullArgs(p, args)
  BY <1>3 DEF NullArgs, LoseMemory, FileStep
<1>4. CASE CmdAdd(p, args)
  <2>1. CASE UNCHANGED <<tags, file>>
    BY <1>4, <2>1 DEF CmdAdd, FileStep
  <2>2. CASE WriteTagFile(tags')
    BY <1>4, <2>2 DEF WriteTagFile, WritesSucceed, CmdAdd, Known, FileStep
  <2> QED  BY <1>4, <2>1, <2>2 DEF CmdAdd
<1>5. CASE CmdDelete(p, args)
  <2>1. CASE UNCHANGED <<tags, file>>
    BY <1>5, <2>1 DEF CmdDelete, FileStep
  <2>2. CASE WriteTagFile(tags')
    BY <1>5, <2>2 DEF WriteTagFile, WritesSucceed, CmdDelete, Known, FileStep
  <2> QED  BY <1>5, <2>1, <2>2 DEF CmdDelete
<1> QED  BY <1>1, <1>2, <1>3, <1>4, <1>5 DEF CommandWith

LEMMA FileStepNext ==
  ASSUME WritesSucceed, AnyStep
  PROVE  FileStep
<1>1. CASE Elsewhere
  BY <1>1 DEF Elsewhere, Idle, memory, FileStep
<1>2. CASE Process
  <2>1. CASE Start
    BY <2>1 DEF Start, FileStep
  <2>2. CASE ReadLine
    BY <2>2 DEF FileStep
  <2>3. CASE Serve
    BY <2>3 DEF Serve, FileStep
  <2>4. CASE Terminate \/ PidOutOfRange
    BY <2>4 DEF Terminate, PidOutOfRange, LoseMemory, FileStep
  <2> QED  BY <1>2, <2>1, <2>2, <2>3, <2>4 DEF Process
<1>3. CASE FsChange
  BY <1>3 DEF FsChange, memory, FileStep
<1>4. ASSUME NEW p \in Pid, Command(p) PROVE FileStep
  BY <1>4 DEF Command, CmdRegister, CmdUnregister, CmdShow, CmdList, CmdPop,
              CmdActions, CmdReset, Idle, memory, FileStep
<1>5. ASSUME NEW p \in Pid, NEW args \in AnyArgs, CommandWith(p, args)
      PROVE  FileStep
  BY <1>5, FileStepCommand
<1> QED  BY <1>1, <1>2, <1>3, <1>4, <1>5 DEF AnyStep
-----------------------------------------------------------------------------
(* Every tag the daemon answers for is on disk.                            *)

OnDisk(l) == \A i \in 1..Len(l) : \E j \in 1..Len(file) : file[j] = l[i]

DiskInv == OnDisk(tags) /\ (phase = "loading" => OnDisk(pending))

LEMMA DiskInvReadLine ==
  ASSUME PlainNames, TypeOK, DiskInv, ReadLine
  PROVE  DiskInv'
<1> DEFINE line == Head(pending)
<1>1. /\ line \in Line /\ line = pending[1]
      /\ Entry(line.tag, line.path) = line
      /\ \/ HasTag(tags, line.tag) /\ tags' = SetPath(tags, line.tag, line.path)
         \/ ~HasTag(tags, line.tag) /\ tags' = AppendTag(tags, line.tag, line.path)
         \/ tags' = tags
  BY ReadLinePlain
<1>2. /\ pending \in Seq(Line) /\ pending # <<>> /\ tags \in Seq(Line)
      /\ pending' = Tail(pending) /\ UNCHANGED file /\ OnDisk(pending)
  BY DEF ReadLine, TypeOK, DiskInv
<1> HIDE DEF line
<1>3. \E j \in 1..Len(file) : file[j] = line
  <2>1. 1 \in 1..Len(pending)
    <3>1. Len(pending) \in Nat \ {0}
      BY <1>2, EmptySeq
    <3> QED  BY <3>1
  <2> QED  BY <1>1, <1>2, <2>1 DEF OnDisk
<1>4. \A i \in 1..Len(tags') : tags'[i] = line \/ \E k \in 1..Len(tags) : tags'[i] = tags[k]
  <2>1. line.tag \in Word /\ line.path \in Word
    BY <1>1 DEF Line
  <2>2. CASE HasTag(tags, line.tag) /\ tags' = SetPath(tags, line.tag, line.path)
    <3>1. /\ Len(tags') = Len(tags)
          /\ \A i \in 1..Len(tags) : tags'[i] = IF i = FirstIndex(tags, line.tag)
                                                 THEN line ELSE tags[i]
      BY <1>1, <1>2, <2>1, <2>2, SetPathShape
    <3> QED  BY <3>1
  <2>3. CASE tags' = AppendTag(tags, line.tag, line.path)
    <3>1. tags' = Append(tags, line)
      BY <1>1, <2>3 DEF AppendTag
    <3> QED  BY <1>1, <1>2, <3>1, AppendProperties, LenProperties
  <2>4. CASE tags' = tags
    BY <2>4
  <2> QED  BY <1>1, <2>2, <2>3, <2>4
<1>5. \A i \in 1..Len(Tail(pending)) :
        i + 1 \in 1..Len(pending) /\ Tail(pending)[i] = pending[i+1]
  BY <1>2, HeadTailProperties, LenProperties
<1>6. \A i \in 1..Len(tags') : \E j \in 1..Len(file) : file[j] = tags'[i]
  BY <1>3, <1>4 DEF DiskInv, OnDisk
<1>7. \A i \in 1..Len(pending') : \E j \in 1..Len(file) : file[j] = pending'[i]
  BY <1>2, <1>5 DEF OnDisk
<1> QED  BY <1>2, <1>6, <1>7 DEF DiskInv, OnDisk

LEMMA DiskInvStep ==
  ASSUME PlainNames, WritesSucceed, TypeOK, DiskInv, AnyStep
  PROVE  DiskInv'
<1>1. FileStep
  BY FileStepNext
<1>2. CASE ReadLine
  BY <1>2, DiskInvReadLine
<1>3. CASE UNCHANGED file /\ tags' \in {<<>>, tags} /\ phase' # "loading"
  <2>1. CASE tags' = <<>>
    BY <1>3, <2>1 DEF DiskInv, OnDisk
  <2>2. CASE tags' = tags
    BY <1>3, <2>2 DEF DiskInv, OnDisk
  <2> QED  BY <1>3, <2>1, <2>2
<1>4. CASE UNCHANGED <<file, tags, phase, pending>>
  BY <1>4 DEF DiskInv, OnDisk
<1>5. CASE UNCHANGED <<file, tags>> /\ pending' \in {<<>>, file}
  BY <1>5 DEF DiskInv, OnDisk
<1>6. CASE phase' = "serving" /\ file' = tags'
  BY <1>6 DEF DiskInv, OnDisk
<1> QED  BY <1>1, <1>2, <1>3, <1>4, <1>5, <1>6 DEF FileStep

(***************************************************************************)
(* While names are plain and writes succeed, all that the daemon holds is  *)
(* in the file with its path, whatever else fails and whichever            *)
(* directories come and go.                                                *)
(***************************************************************************)
THEOREM TagsSurvive ==
  ASSUME PlainNames, WritesSucceed
  PROVE  Spec => []TagsAreOnDisk
<1>1. Init => DiskInv
  BY DEF Init, DiskInv, OnDisk
<1>2. TypeOK /\ DiskInv /\ AnyStep => DiskInv'
  BY DiskInvStep
<1>3. DiskInv => TagsAreOnDisk
  BY DEF DiskInv, OnDisk, TagsAreOnDisk
<1> QED  BY <1>1, <1>2, <1>3, TypeCorrect, NextIsAnyStep, PTL DEF Spec
-----------------------------------------------------------------------------
(* The tag file is the tag list.                                           *)

NoFaults == Faults = {}

PathsIn(l, ds) == \A i \in 1..Len(l) : l[i].path \in ds

(* A tag file nav itself could have written while its directories existed. *)
CleanFiles == \A f \in InitialFiles : Distinct(f) /\ PathsIn(f, Path)

LEMMA ShiftHead ==
  ASSUME NEW s \in Seq(Line), NEW t \in Seq(Line), t # <<>>
  PROVE  s \o t = Append(s, Head(t)) \o Tail(t)
<1>1. Head(t) \in Line /\ Tail(t) \in Seq(Line)
  BY HeadTailProperties
<1>2. t = <<Head(t)>> \o Tail(t)
  <2>1. Len(t) \in Nat \ {0} /\ Head(t) = t[1]
    BY EmptySeq
  <2>2. t = SubSeq(t, 1, Len(t)) /\ Tail(t) = SubSeq(t, 2, Len(t))
    BY SubSeqFull, TailIsSubSeq
  <2>3. SubSeq(t, 1, Len(t)) = <<t[1]>> \o SubSeq(t, 1 + 1, Len(t))
    <3>1. 1 \in 1..Len(t) /\ Len(t) \in 1..Len(t)
      BY <2>1
    <3> QED  BY <3>1, SubSeqRecursiveFirst
  <2> QED  BY <2>1, <2>2, <2>3
<1>3. Append(s, Head(t)) = s \o <<Head(t)>>
  BY <1>1, AppendIsConcat
<1>4. <<Head(t)>> \in Seq(Line)
  BY <1>1
<1>5. (s \o <<Head(t)>>) \o Tail(t) = s \o (<<Head(t)>> \o Tail(t))
  BY <1>1, <1>4, ConcatAssociative
<1> QED  BY <1>2, <1>3, <1>5, Zenon

LEMMA ExistsStep ==
  ASSUME NoFaults, AnyStep
  PROVE  exists' = exists
<1>1. CASE Elsewhere
  BY <1>1 DEF Elsewhere, Idle
<1>2. CASE Process
  BY <1>2 DEF Process, Start, ReadLine, Serve, Terminate, PidOutOfRange, LoseMemory
<1>3. CASE FsChange
  BY <1>3 DEF FsChange, NoFaults
<1>4. ASSUME NEW p \in Pid, Command(p) PROVE exists' = exists
  BY <1>4 DEF Command, CmdRegister, CmdUnregister, CmdShow, CmdList, CmdPop,
              CmdActions, CmdReset, Idle
<1>5. ASSUME NEW p \in Pid, NEW args \in AnyArgs, CommandWith(p, args)
      PROVE  exists' = exists
  BY <1>5 DEF CommandWith, Ignored, NullArgs, CmdAdd, CmdDelete, CmdGet, CmdPush,
              LoseMemory, Idle
<1> QED  BY <1>1, <1>2, <1>3, <1>4, <1>5 DEF AnyStep

(***************************************************************************)
(* A command puts no path into the list that does not exist: the paths of  *)
(* the new list were there, or exist now.                                  *)
(***************************************************************************)
LEMMA CommandPaths ==
  ASSUME TypeOK, phase = "serving", AnyStep,
         NEW ds, exists \subseteq ds, PathsIn(tags, ds)
  PROVE  PathsIn(tags', ds)
<1>1. tags \in Seq(Line)
  BY DEF TypeOK
<1>2. CASE tags' \in {tags, <<>>}
  BY <1>2 DEF PathsIn
<1>3. ASSUME NEW n \in Word, NEW d \in Word, d \in exists,
             \/ HasTag(tags, n) /\ tags' = SetPath(tags, n, d)
             \/ tags' = AppendTag(tags, n, d)
      PROVE  PathsIn(tags', ds)
  <2>1. Entry(n, d) \in Line /\ Entry(n, d).path = d
    BY DEF Entry, Line
  <2>2. CASE HasTag(tags, n) /\ tags' = SetPath(tags, n, d)
    <3>1. /\ Len(tags') = Len(tags)
          /\ \A i \in 1..Len(tags) :
               tags'[i] = IF i = FirstIndex(tags, n) THEN Entry(n, d) ELSE tags[i]
      BY <1>1, <2>2, SetPathShape
    <3> QED  BY <1>3, <2>1, <3>1 DEF PathsIn
  <2>3. CASE tags' = AppendTag(tags, n, d)
    <3>1. /\ Len(tags') = Len(tags) + 1
          /\ \A i \in 1..Len(tags) : tags'[i] = tags[i]
          /\ tags'[Len(tags) + 1] = Entry(n, d)
          /\ Len(tags) \in Nat
      BY <1>1, <2>1, <2>3, AppendProperties, LenProperties DEF AppendTag
    <3> QED  BY <1>3, <2>1, <3>1 DEF PathsIn
  <2> QED  BY <1>3, <2>2, <2>3
<1>4. ASSUME NEW n \in Word, HasTag(tags, n), tags' = DeleteTag(tags, n)
      PROVE  PathsIn(tags', ds)
  <2> DEFINE k == FirstIndex(tags, n)
  <2>1. k \in 1..Len(tags) /\ tags' = Without(tags, k)
    BY <1>1, <1>4, FirstIndexIsFirst DEF DeleteTag
  <2> HIDE DEF k
  <2>2. /\ Len(tags') = Len(tags) - 1
        /\ \A i \in 1..(Len(tags) - 1) :
             tags'[i] = IF i < k THEN tags[i] ELSE tags[i+1]
        /\ Len(tags) \in Nat
    BY <1>1, <2>1, WithoutShape, LenProperties
  <2> QED  BY <2>1, <2>2 DEF PathsIn
<1>5. CASE Elsewhere \/ Process \/ FsChange
  BY <1>2, <1>5 DEF Elsewhere, Idle, Process, Start, ReadLine, Serve, Terminate,
                    PidOutOfRange, LoseMemory, FsChange, memory
<1>6. ASSUME NEW p \in Pid, Command(p) PROVE tags' = tags
  BY <1>6 DEF Command, CmdRegister, CmdUnregister, CmdShow, CmdList, CmdPop,
              CmdActions, CmdReset, Idle, memory
<1>7. ASSUME NEW p \in Pid, NEW args \in AnyArgs, CommandWith(p, args)
      PROVE  PathsIn(tags', ds)
  <2>1. CASE Ignored(p, args) \/ NullArgs(p, args) \/ CmdGet(p, args) \/ CmdPush(p, args)
    BY <1>2, <2>1 DEF Ignored, NullArgs, LoseMemory, CmdGet, CmdPush, Idle, memory
  <2>2. CASE CmdAdd(p, args)
    <3>1. CASE tags' = tags
      BY <1>2, <3>1
    <3>2. CASE AddAccepted(args)
               /\ tags' = IF HasTag(tags, args[1])
                            THEN SetPath(tags, args[1], args[2])
                            ELSE AppendTag(tags, args[1], args[2])
      <4>1. args[1] \in Word /\ args[2] \in Word /\ args[2] \in exists
        BY <2>2, <3>2, AddWords DEF CmdAdd, AddAccepted, ValidPath
      <4> QED  BY <1>3, <3>2, <4>1
    <3> QED  BY <2>2, <3>1, <3>2 DEF CmdAdd
  <2>3. CASE CmdDelete(p, args)
    <3>1. args[1] \in Word
      BY <2>3, ArgWords DEF CmdDelete
    <3> QED  BY <1>2, <1>4, <2>3, <3>1 DEF CmdDelete
  <2> QED  BY <1>7, <2>1, <2>2, <2>3 DEF CommandWith
<1> QED  BY <1>2, <1>5, <1>6, <1>7 DEF AnyStep

(***************************************************************************)
(* FileMirrorsTags is not inductive alone: reading a line appends it only  *)
(* because its name is not yet in the list and its path exists, which are  *)
(* facts about the file, kept by the commands that rewrite it.             *)
(***************************************************************************)
MirrorInv ==
  /\ exists = Path
  /\ Distinct(file)
  /\ PathsIn(file, Path)
  /\ phase = "down" => tags = <<>>
  /\ FileMirrorsTags

LEMMA MirrorReadLine ==
  ASSUME PlainNames, NoFaults, TypeOK, MirrorInv, ReadLine
  PROVE  file = tags' \o pending'
<1> DEFINE line == Head(pending)
<1>1. /\ pending \in Seq(Line) /\ pending # <<>> /\ tags \in Seq(Line)
      /\ file = tags \o pending /\ pending' = Tail(pending)
  BY DEF ReadLine, TypeOK, MirrorInv, FileMirrorsTags
<1>2. /\ line \in Line /\ line = pending[1]
      /\ Entry(line.tag, line.path) = line
      /\ \/ HasTag(tags, line.tag) /\ tags' = SetPath(tags, line.tag, line.path)
         \/ ~HasTag(tags, line.tag) /\ tags' = AppendTag(tags, line.tag, line.path)
         \/ line.path \notin exists
  BY ReadLinePlain DEF NoFaults
<1> HIDE DEF line
<1>3. Len(tags) \in Nat /\ Len(pending) \in Nat \ {0}
  BY <1>1, LenProperties, EmptySeq
<1>4. /\ Len(file) = Len(tags) + Len(pending)
      /\ \A i \in 1 .. Len(tags) + Len(pending) :
           file[i] = IF i <= Len(tags) THEN tags[i] ELSE pending[i - Len(tags)]
  BY <1>1, ConcatProperties
<1>5. Len(tags) + 1 \in 1..Len(file) /\ file[Len(tags) + 1] = line
  BY <1>2, <1>3, <1>4
<1>6. line.path \in exists
  BY <1>5 DEF MirrorInv, PathsIn
<1>7. ~HasTag(tags, line.tag)
  <2> SUFFICES ASSUME NEW i \in 1..Len(tags), tags[i].tag = line.tag PROVE FALSE
    BY DEF HasTag
  <2>1. i \in 1..Len(file) /\ file[i] = tags[i] /\ i # Len(tags) + 1
    BY <1>3, <1>4
  <2> QED  BY <1>5, <2>1 DEF MirrorInv, Distinct
<1>8. tags' = Append(tags, line)
  BY <1>2, <1>6, <1>7 DEF AppendTag
<1> QED  BY <1>1, <1>8, ShiftHead DEF line

LEMMA MirrorStep ==
  ASSUME PlainNames, NoFaults, TypeOK, TypeOK', UniqueTags', MirrorInv, AnyStep
  PROVE  MirrorInv'
<1>1. FileStep /\ exists' = exists
  BY FileStepNext, ExistsStep DEF WritesSucceed, NoFaults
<1>2. tags \in Seq(Line) /\ file \in Seq(Line)
  BY DEF TypeOK
<1>3. CASE UNCHANGED file /\ phase' = "down" /\ tags' = <<>>
  BY <1>1, <1>3 DEF MirrorInv, FileMirrorsTags
<1>4. CASE UNCHANGED <<file, tags, phase, pending>>
  BY <1>1, <1>4 DEF MirrorInv, FileMirrorsTags
<1>5. CASE /\ UNCHANGED <<file, tags>>
           /\ phase = "down" /\ phase' = "loading"
           /\ pending' = file
  <2>1. file = <<>> \o file
    BY <1>2, ConcatEmptySeq
  <2> QED  BY <1>1, <1>5, <2>1 DEF MirrorInv, FileMirrorsTags
<1>6. CASE /\ UNCHANGED <<file, tags, pending>>
           /\ phase = "loading" /\ pending = <<>>
           /\ phase' = "serving"
  <2>1. tags \o <<>> = tags
    BY <1>2, ConcatEmptySeq
  <2> QED  BY <1>1, <1>6, <2>1 DEF MirrorInv, FileMirrorsTags
<1>7. CASE ReadLine
  <2>1. file = tags' \o pending'
    BY <1>7, MirrorReadLine
  <2>2. UNCHANGED <<file, phase>> /\ phase = "loading"
    BY <1>7 DEF ReadLine
  <2> QED  BY <1>1, <2>1, <2>2 DEF MirrorInv, FileMirrorsTags
<1>8. CASE phase = "serving" /\ phase' = "serving" /\ file' = tags'
  <2>1. PathsIn(tags, Path) /\ exists \subseteq Path
    BY <1>8 DEF MirrorInv, FileMirrorsTags
  <2>2. PathsIn(tags', Path)
    BY <1>8, <2>1, CommandPaths
  <2> QED  BY <1>1, <1>8, <2>2 DEF MirrorInv, FileMirrorsTags, UniqueTags, PathsIn, Distinct
<1> QED  BY <1>1, <1>3, <1>4, <1>5, <1>6, <1>7, <1>8 DEF FileStep, NoFaults

LEMMA MirrorAlways ==
  ASSUME PlainNames, NoFaults, CleanFiles
  PROVE  Spec => []MirrorInv
<1>1. Init => MirrorInv
  BY DEF Init, CleanFiles, MirrorInv, FileMirrorsTags
<1>2. TypeOK /\ TypeOK' /\ UniqueTags' /\ MirrorInv /\ AnyStep => MirrorInv'
  BY MirrorStep
<1> QED
  BY <1>1, <1>2, TypeCorrect, TagsStayUnique, NextIsAnyStep, PTL DEF Spec

(***************************************************************************)
(* Without failures, a restart reads back exactly the list the daemon had, *)
(* in the same order, for tag files of every length.                       *)
(***************************************************************************)
THEOREM RestartReadsBack ==
  ASSUME PlainNames, NoFaults, CleanFiles
  PROVE  Spec => []FileMirrorsTags
<1>1. MirrorInv => FileMirrorsTags
  BY DEF MirrorInv
<1> QED  BY <1>1, MirrorAlways, PTL
=============================================================================
