------------------------------ MODULE NavDaemon ------------------------------
(***************************************************************************)
(* The nav daemon: its state (state.c), its eleven command handlers        *)
(* (commands.c), the per-shell action stacks (shell.c) and the tag file    *)
(* (tag.c).  A handler runs to completion before the next datagram is      *)
(* received (main.c, loop), so each handler is one action, its write of    *)
(* the tag file and its reply included.  Reading the tag file at startup   *)
(* is one action per line, as read_tag_file's loop is.                     *)
(*                                                                         *)
(* Words.  A handler receives `args`: NoArgs (the C NULL) or the sequence  *)
(* of space-separated words strtok_r finds in it.  Names of tags and paths *)
(* are both words; Path is the set of words that can name something in the *)
(* filesystem (fstatat is given an absolute path).                         *)
(*                                                                         *)
(* The tag file is a sequence of "name=path" lines.  The reader splits a   *)
(* line at '=' with strtok_r, so a name that itself contains '=' does not  *)
(* come back as it was written: ReadAs[n] says which name is read from a   *)
(* line written for n and whether the path is still whole ("a=b=/tmp" is   *)
(* read as name "a" and path "b=/tmp", a word no file has: Junk).          *)
(***************************************************************************)
EXTENDS Naturals, Sequences

CONSTANTS
  Pid,          \* shells, by process id
  Word,         \* the words a request is made of
  Path,         \* the words that may exist in the filesystem
  Junk,         \* what is left of a path when the name held a '='
  ReadAs,       \* how a line written for a name is split when read back
  NoArgs,       \* args = NULL
  ArgLists,     \* the argument lists a request may carry, NoArgs included
  InitialFiles, \* tag files the daemon may find when it first starts
  Faults,       \* failures of the environment that may happen
  MaxActions    \* bound on the length of an action stack (model bound)

Line == [tag : Word, path : Word]

ASSUME WordAssumption ==
  /\ Path \subseteq Word
  /\ Junk \in Word \ Path
  /\ ReadAs \in [Word -> [name : Word, whole : BOOLEAN]]
ASSUME ArgAssumption ==
  /\ NoArgs \notin Seq(Word)
  /\ ArgLists \subseteq Seq(Word) \union {NoArgs}
ASSUME FileAssumption == InitialFiles \subseteq Seq(Line)
ASSUME BoundAssumption == MaxActions \in Nat

(* "read"/"write": fopen of the tag file fails; "alloc": malloc fails;     *)
(* "fs": a directory appears or disappears.                                *)
ASSUME FaultAssumption == Faults \subseteq {"read", "write", "alloc", "fs"}

VARIABLES
  phase,    \* "down", "loading" (in read_tag_file) or "serving" (in loop)
  pending,  \* lines of the tag file not read yet
  shells,   \* state->shells, by pid
  actions,  \* the action stack of each shell, head of the list first
  tags,     \* state->tags, in list order
  file,     \* the tag file
  exists,   \* the paths that exist at the moment
  sent,     \* the datagrams the last step sent: none or one
  ending    \* how the last daemon process ended

vars == <<phase, pending, shells, actions, tags, file, exists, sent, ending>>
memory == <<phase, pending, shells, actions, tags, ending>>

Ending == {"none", "signal", "return", "crash"}

CommandName == {"register", "unregister", "add", "delete", "get", "show",
                "list", "push", "pop", "actions", "reset"}
ReplyKind == {"OK", "BAD", "path", "show", "list", "actions"}

(* A datagram has a kind and a body; cmd and args, which are not sent, say *)
(* which command it answers and the words that were acted on, so that a    *)
(* property can relate the answer to the request.                          *)
Reply == [to : Pid, cmd : CommandName, args : Seq(Word),
          kind : ReplyKind, body : Seq(Word) \union Seq(Line)]
-----------------------------------------------------------------------------
(* list.c, on the tag list: list_get_node finds the first node whose name  *)
(* matches, list_append_node adds at the end, list_delete_node unlinks the *)
(* first match.                                                            *)

(* Here and below, an operator named for a slip in the code (DeleteHead,   *)
(* WriteAllButLast, ...) stands before the definition it varies; it is no  *)
(* part of Next.                                                           *)
HasTagAfterHead(l, n) == \E i \in 2..Len(l) : l[i].tag = n

HasTag(l, n) == \E i \in 1..Len(l) : l[i].tag = n

FirstIndex(l, n) ==
  CHOOSE i \in 1..Len(l) : l[i].tag = n /\ \A j \in 1..(i-1) : l[j].tag # n

Without(l, i) == SubSeq(l, 1, i-1) \o SubSeq(l, i+1, Len(l))

Entry(n, d) == [tag |-> n, path |-> d]

SetPath(l, n, d) == [l EXCEPT ![FirstIndex(l, n)].path = d]
AppendTag(l, n, d) == Append(l, Entry(n, d))
DeleteHead(l, n) == Tail(l)
DeleteTag(l, n) == Without(l, FirstIndex(l, n))

ValidPath(d) == d \in exists

EmptyStacks == [p \in Pid |-> <<>>]
-----------------------------------------------------------------------------
(* What a step sends, and what it leaves of the disk.                      *)

Send(p, cmd, args, kind, body) ==
  sent' = <<[to |-> p, cmd |-> cmd, args |-> args, kind |-> kind, body |-> body]>>
Ok(p, cmd, args)  == Send(p, cmd, args, "OK", <<>>)
Bad(p, cmd, args) == Send(p, cmd, args, "BAD", <<>>)
Silent == sent' = <<>>

WriteAllButLast(l) == file' = SubSeq(l, 1, Len(l) - 1)

(* write_tag_file: the whole list, or nothing when fopen fails.  Its       *)
(* return value is not looked at by any caller.                            *)
WriteTagFile(l) ==
  \/ file' = l
  \/ "write" \in Faults /\ UNCHANGED file

Idle == UNCHANGED <<memory, file, exists>>
-----------------------------------------------------------------------------
Init ==
  /\ phase = "down"
  /\ pending = <<>>
  /\ shells = {}
  /\ actions = EmptyStacks
  /\ tags = <<>>
  /\ file \in InitialFiles
  /\ exists = Path
  /\ sent = <<>>
  /\ ending = "none"

(* init_state and setup_initial_state, up to the fopen of read_tag_file.   *)
(* A tag file that cannot be opened leaves the list empty and the daemon   *)
(* carries on.                                                             *)
Start ==
  /\ phase = "down"
  /\ phase' = "loading"
  /\ \/ pending' = file
     \/ "read" \in Faults /\ pending' = <<>>
  /\ Silent
  /\ UNCHANGED <<shells, actions, tags, file, exists, ending>>

(* One iteration of read_tag_file's loop.  A name that is already in the   *)
(* list takes the new path as it is; only a new name has its path checked. *)
ReadLine ==
  /\ phase = "loading"
  /\ pending # <<>>
  /\ LET line == Head(pending)
         name == ReadAs[line.tag].name
         dir  == IF ReadAs[line.tag].whole THEN line.path ELSE Junk
     IN  \/ /\ HasTag(tags, name)
            /\ tags' = SetPath(tags, name, dir)
         \/ /\ ~HasTag(tags, name)
            /\ ValidPath(dir)
            /\ \/ tags' = AppendTag(tags, name, dir)
               \/ "alloc" \in Faults /\ UNCHANGED tags
         \/ /\ ~HasTag(tags, name)
            /\ ~ValidPath(dir)
            /\ UNCHANGED tags
  /\ pending' = Tail(pending)
  /\ Silent
  /\ UNCHANGED <<phase, shells, actions, file, exists, ending>>

(* setup_socket succeeds and main enters loop.                             *)
Serve ==
  /\ phase = "loading"
  /\ pending = <<>>
  /\ phase' = "serving"
  /\ Silent
  /\ UNCHANGED <<pending, shells, actions, tags, file, exists, ending>>

(* The process ends and its memory with it.                                *)
LoseMemory(how) ==
  /\ ending' = how
  /\ phase' = "down"
  /\ pending' = <<>>
  /\ shells' = {}
  /\ actions' = EmptyStacks
  /\ tags' = <<>>
  /\ Silent
  /\ UNCHANGED <<file, exists>>

(* SIGINT or SIGTERM between two requests, or a kill at any point of the   *)
(* startup.                                                                *)
Terminate == phase # "down" /\ LoseMemory("signal")

(* A pid that does not fit in a long makes strtol set errno: loop breaks   *)
(* and main returns.                                                       *)
PidOutOfRange == phase = "serving" /\ LoseMemory("return")

(* A directory is created, removed, mounted or unmounted.                  *)
FsChange ==
  /\ "fs" \in Faults
  /\ \E d \in Path : exists' = IF d \in exists THEN exists \ {d}
                                               ELSE exists \union {d}
  /\ Silent
  /\ UNCHANGED <<memory, file>>
-----------------------------------------------------------------------------
(* The commands.                                                           *)

Known(p) == phase = "serving" /\ p \in shells

(* An unknown command, a command of a shell that is not registered, a push *)
(* without args, a delete or a get whose args hold no word: the handler    *)
(* returns early, nothing changes and no reply is sent.                    *)
Ignored(p, args) ==
  /\ phase = "serving"
  /\ p \notin shells \/ args = NoArgs \/ args = <<>>
  /\ Silent
  /\ Idle

(* add, delete and get hand args = NULL to strtok_r with a NULL saveptr,   *)
(* which dereferences it: the process dies.                                *)
NullArgs(p, args) ==
  /\ Known(p)
  /\ args = NoArgs
  /\ LoseMemory("crash")

CmdRegister(p) ==
  /\ phase = "serving"
  /\ \/ /\ shells' = shells \union {p}
        /\ Ok(p, "register", <<>>)
     \/ /\ "alloc" \in Faults
        /\ p \notin shells
        /\ UNCHANGED shells
        /\ Silent
  /\ UNCHANGED <<phase, pending, actions, tags, file, exists, ending>>

UnregisterKeepsStack(p) ==
  /\ Known(p)
  /\ shells' = shells \ {p}
  /\ Ok(p, "unregister", <<>>)
  /\ UNCHANGED <<phase, pending, actions, tags, file, exists, ending>>

CmdUnregister(p) ==
  /\ Known(p)
  /\ shells' = shells \ {p}
  /\ actions' = [actions EXCEPT ![p] = <<>>]
  /\ Ok(p, "unregister", <<>>)
  /\ UNCHANGED <<phase, pending, tags, file, exists, ending>>

(* The checks of cmd_add: exactly two words, the second an existing path.  *)
AddAccepted(args) == Len(args) = 2 /\ ValidPath(args[2])

CmdAdd(p, args) ==
  /\ Known(p)
  /\ args # NoArgs
  /\ \/ /\ AddAccepted(args)
        /\ tags' = IF HasTag(tags, args[1])
                     THEN SetPath(tags, args[1], args[2])
                     ELSE AppendTag(tags, args[1], args[2])
        /\ WriteTagFile(tags')
        /\ Ok(p, "add", args)
     \/ /\ AddAccepted(args) => "alloc" \in Faults /\ ~HasTag(tags, args[1])
        /\ UNCHANGED <<tags, file>>
        /\ Bad(p, "add", <<>>)
  /\ UNCHANGED <<phase, pending, shells, actions, exists, ending>>

CmdDelete(p, args) ==
  /\ Known(p)
  /\ args \notin {NoArgs, <<>>}
  /\ \/ /\ HasTag(tags, args[1])
        /\ tags' = DeleteTag(tags, args[1])
        /\ WriteTagFile(tags')
        /\ Ok(p, "delete", <<args[1]>>)
     \/ /\ ~HasTag(tags, args[1])
        /\ UNCHANGED <<tags, file>>
        /\ Bad(p, "delete", <<args[1]>>)
  /\ UNCHANGED <<phase, pending, shells, actions, exists, ending>>

CmdGet(p, args) ==
  /\ Known(p)
  /\ args \notin {NoArgs, <<>>}
  /\ \/ /\ HasTag(tags, args[1])
        /\ Send(p, "get", <<args[1]>>, "path",
                <<tags[FirstIndex(tags, args[1])].path>>)
     \/ /\ ~HasTag(tags, args[1])
        /\ Bad(p, "get", <<args[1]>>)
  /\ Idle

CmdShow(p) == Known(p) /\ Send(p, "show", <<>>, "show", tags) /\ Idle

CmdList(p) ==
  /\ Known(p)
  /\ Send(p, "list", <<>>, "list", [i \in 1..Len(tags) |-> tags[i].tag])
  /\ Idle

PushUnchecked(args) == args # <<>>

(* The path is the part of args before its first space.                    *)
PushAccepted(args) == args # <<>> /\ ValidPath(args[1])

RepeatsOldest(p, d) == actions[p] # <<>> /\ actions[p][Len(actions[p])] = d

(* An immediate duplicate is acknowledged and not pushed.                  *)
Repeats(p, d) == actions[p] # <<>> /\ Head(actions[p]) = d

CmdPush(p, args) ==
  /\ Known(p)
  /\ args # NoArgs
  /\ \/ /\ PushAccepted(args)
        /\ Repeats(p, args[1])
        /\ UNCHANGED actions
        /\ Ok(p, "push", <<args[1]>>)
     \/ /\ PushAccepted(args)
        /\ ~Repeats(p, args[1])
        /\ Len(actions[p]) < MaxActions
        /\ actions' = [actions EXCEPT ![p] = <<args[1]>> \o @]
        /\ Ok(p, "push", <<args[1]>>)
     \/ /\ PushAccepted(args) => "alloc" \in Faults /\ ~Repeats(p, args[1])
        /\ UNCHANGED actions
        /\ Bad(p, "push", <<>>)
  /\ UNCHANGED <<phase, pending, shells, tags, file, exists, ending>>

(* The head's own path is the key of the list_delete_node that follows the *)
(* reply: the first item matches, so it is the head that goes.             *)
CmdPop(p) ==
  /\ Known(p)
  /\ \/ /\ actions[p] # <<>>
        /\ Send(p, "pop", <<>>, "path", <<Head(actions[p])>>)
        /\ actions' = [actions EXCEPT ![p] = Tail(@)]
     \/ /\ actions[p] = <<>>
        /\ Bad(p, "pop", <<>>)
        /\ UNCHANGED actions
  /\ UNCHANGED <<phase, pending, shells, tags, file, exists, ending>>

CmdActions(p) ==
  Known(p) /\ Send(p, "actions", <<>>, "actions", actions[p]) /\ Idle

ResetEveryStack(p) ==
  /\ Known(p)
  /\ actions' = EmptyStacks
  /\ Ok(p, "reset", <<>>)
  /\ UNCHANGED <<phase, pending, shells, tags, file, exists, ending>>

CmdReset(p) ==
  /\ Known(p)
  /\ actions' = [actions EXCEPT ![p] = <<>>]
  /\ Ok(p, "reset", <<>>)
  /\ UNCHANGED <<phase, pending, shells, tags, file, exists, ending>>
-----------------------------------------------------------------------------
Process == Start \/ ReadLine \/ Serve \/ Terminate \/ PidOutOfRange

Command(p) ==
  \/ CmdRegister(p)
  \/ CmdUnregister(p)
  \/ CmdShow(p)
  \/ CmdList(p)
  \/ CmdPop(p)
  \/ CmdActions(p)
  \/ CmdReset(p)

CommandWith(p, args) ==
  \/ Ignored(p, args)
  \/ NullArgs(p, args)
  \/ CmdAdd(p, args)
  \/ CmdDelete(p, args)
  \/ CmdGet(p, args)
  \/ CmdPush(p, args)

Next ==
  \/ Process
  \/ FsChange
  \/ \E p \in Pid : Command(p)
  \/ \E p \in Pid, args \in ArgLists : CommandWith(p, args)

Spec == Init /\ [][Next]_vars
-----------------------------------------------------------------------------
(* Properties.                                                             *)

TypeOK ==
  /\ phase \in {"down", "loading", "serving"}
  /\ pending \in Seq(Line)
  /\ shells \subseteq Pid
  /\ actions \in [Pid -> Seq(Path)]
  /\ tags \in Seq(Line)
  /\ file \in Seq(Line)
  /\ exists \subseteq Path
  /\ sent \in Seq(Reply) /\ Len(sent) <= 1
  /\ ending \in Ending

Distinct(l) == \A i, j \in 1..Len(l) : l[i].tag = l[j].tag => i = j

(* No name is twice in the tag list, whatever the tag file held, however   *)
(* names were mangled on the way through it, and in whatever order add,    *)
(* delete and restarts come.  list_get_node and list_delete_node look at   *)
(* the first match only: a second one would answer again after a delete.   *)
UniqueTags == Distinct(tags)

(* Two steps back in a row never name the same directory: no two           *)
(* neighbours of an action stack are equal, although a push compares with  *)
(* the head only and pops, resets and re-registrations come in between     *)
(* ("Reject immediate duplicate actions", cmd_push).                       *)
NoImmediateRepeat ==
  \A p \in Pid : \A i \in 1..(Len(actions[p]) - 1) :
    actions[p][i] # actions[p][i+1]

(* A shell that is not registered has no stack left behind: unregister,    *)
(* and every way the daemon ends, free it (cleanup_shell).                 *)
StacksOfRegisteredOnly ==
  \A p \in Pid \ shells : actions[p] = <<>>

(* A stack changes only by a request of its own shell (the step answers    *)
(* that shell) or when the daemon ends; one shell's pop, reset or          *)
(* unregister never reaches another shell's stack.                         *)
ShellIsolation ==
  [][\A p \in Pid : actions'[p] # actions[p] =>
       phase' = "down" \/ (sent' # <<>> /\ sent'[1].to = p)]_vars

(* With names free of '=' and no failure of the environment, the tag file  *)
(* is the tag list: whenever the daemon stops and starts again it reads    *)
(* back exactly what it had, and at every point of the reading what is     *)
(* read and what is pending make up the file.                              *)
FileMirrorsTags ==
  /\ phase = "loading" => file = tags \o pending
  /\ phase = "serving" => file = tags

(* Directories come and go, reads and allocations fail, the file may have  *)
(* been edited: still every tag the daemon answers for is in the file with *)
(* the same path at every moment, while the file is read and after each    *)
(* write.  The other direction does not hold: what a failed read, a failed *)
(* allocation or a missing path kept out of the list is in the file until  *)
(* the next write drops it.                                                *)
TagsAreOnDisk ==
  \A i \in 1..Len(tags) : \E j \in 1..Len(file) : file[j] = tags[i]

(* tag.h says of read_tag_file that it "verifies the path, and adds each   *)
(* unique tag-path pair": what a reading step puts into the list exists.   *)
LoadVerifiesPaths ==
  [][phase = "loading" =>
       \A i \in 1..Len(tags') :
         \/ tags'[i].path \in exists
         \/ i \in 1..Len(tags) /\ tags'[i] = tags[i]]_vars

(* The tests look into the tag file as soon as add or delete has answered  *)
(* OK and find the change there.                                           *)
OkMeansOnDisk ==
  [][phase = "serving" /\ phase' = "serving" /\ tags' # tags
       => file' = tags']_vars

(* A request with too few words is an error the handlers log ("Too few     *)
(* tokens"); it does not end the daemon, and with it every shell's stack.  *)
NoCrash == ending # "crash"
=============================================================================
