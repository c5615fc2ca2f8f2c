# A specification of nav

nav lets a shell remember directories under short names ("tags") and go back
to where it was. One daemon per user keeps the tags and, for every open shell,
a stack of directories; a short-lived client process carries one request of a
shell function to it over Unix datagram sockets.

This directory holds TLA+ modules translated from the C sources, TLC
configurations that check them on small instances, and theorems checked by
TLAPS. Paths below are relative to the repository (`src/daemon/main.c` and so
on); `PROJECT.json` maps every definition to the lines it stands for.

## 1. The system

| Part | State | Operations | Talks to |
|---|---|---|---|
| Command handlers, `src/daemon/commands.c` | none of their own | register, unregister, add, delete, get, show, list, push, pop, actions, reset; `dispatch_command` | change the lists, call `write_tag_file`, send one reply or none |
| Tag store, `tag.c` | list of (tag, path); the file `<config>/tags` | `read_tag_file` at startup, `write_tag_file` after add and delete | file system |
| Shells, `shell.c` | list of registered pids, one action stack each | create, look up, clean up | – |
| Linked list, `list.c` | singly linked nodes, a counter, compare and cleanup callbacks | append, prepend, find first, delete first match, delete all | – |
| Daemon process, `main.c`, `state.c` | the state above, the socket `nav.sock`, the receive buffer | set-up, receive loop, signal handler | clients |
| Client, `src/client/main.c` | its socket `<pid>.sock`, named after the *shell* | bind, connect, send, recv with a 50 ms timeout, unlink; SIGINT handler | daemon |
| Wrappers, `scripts/nav-bash.sh`, `nav-zsh.sh` | the shell's working directory | `nav <tag>` = get, push, cd; `nav back` = pop, cd; ... | run the client |
| Utilities, logging, build, tests | none | `valid_path`, word splitting, ... | – |

The daemon is one thread: a handler runs to its end before the next datagram
is received. What interleaves is the rest: clients with each other (also
clients of the same shell, which share a socket path), clients with the
daemon, signals with all of them, and the file system with everything.

What is hard here, and what makes each part correct:

* **Tag store.** A name is in the list once (lookups and deletes see the first
  match only); what the daemon answers for is on disk, so a restart does not
  change it; reading the file back gives the list that was written.
* **Stacks.** One shell's requests never touch another's stack; a stack ends
  with its session; two steps back in a row never name the same directory.
* **Request parsing.** One array receives every datagram and is never cleared,
  and the string functions cut it in place: a handler may see an earlier
  request behind its own.
* **Client and sockets.** A reply goes to a *path*: who is bound there when it
  arrives decides who reads it. Timeouts, overlapping clients, SIGINT and
  daemon restarts all move that binding; a file left behind locks a shell out.
* **Process life cycle.** The daemon ends by a signal, by a pid that does not
  fit a `long`, and by a crash; the tag file survives, the stacks do not. The
  file is emptied before it is written, a second daemon takes the first one's
  socket path, and the service manager starts a failed daemon again.
* **Wrappers.** `nav tag` is three calls of the client and a `cd`. Each call may
  be interrupted before or after its request is sent, find its path taken, time
  out, have its words taken for options, or be answered with the reply to an
  earlier call; the stack has to stay the history of this shell, and nothing
  may stay in the daemon when the shell has left and could say so.

`PROJECT.json` lists 40 hazards, each at its line with the properties aimed at
it, or with the reason none covers it yet.

## 2. Modules

| Module | Models |
|---|---|
| `NavDaemon` | the daemon's state, its eleven handlers, start, end and restart, the tag file |
| `NavService` | what the daemon promises: a persistent map and one stack per open shell |
| `NavRefinement` | the mapping under which `NavDaemon` implements `NavService` |
| `MCNavDaemon` | instances of `NavDaemon` |
| `RequestBuffer`, `MCRequestBuffer` | a request's way from the client's words to a handler's words |
| `NavIPC`, `MCNavIPC` | client processes, socket files, datagram queues and the daemon's loop |
| `ShellSession`, `MCShellSession` | shells running the nav function, composed with `NavDaemon`'s handlers through one queue |
| `DaemonProcess`, `MCDaemonProcess` | several daemon processes: set-up, the socket path, the write of the tag file, signals, the service manager |
| `NavDaemonProofs` | theorems about `NavDaemon`: types, unique names, stacks |
| `NavTagFileProofs` | theorems about the tag file |
| `NavRefinementProofs` | the refinement of `NavService` by `NavDaemon` |
| `NavIPCProofs` | theorems about clients and sockets |
| `ShellSessionProofs` | theorems about shells and their sessions |
| `ShellDaemonProofs` | theorems about shells and the daemon together: a shell's history, and what of `NavDaemon` holds under the shells' requests |
| `DaemonProcessProofs` | theorems about daemon processes |
| `RequestBufferProofs` | theorems about the receive buffer and how it is cut |

Operators that no specification uses and that are named for a slip
(`DeleteHead`, `BindOver`, `LeaveSilently`, ...) are variations: each states a
bug the definition after it could have had, and the property it is meant for is
violated when it takes that definition's place. `PROJECT.json` pairs them.

### NavDaemon

One action per handler, from its first check to its reply. `shells`,
`actions`, `tags` are the lists of `struct state`; `actions[p]` has the list's
head first. `file` is the tag file, a sequence of lines. `sent` is the
datagram the last step sent, with the request it answers, so that answers are
part of behaviours and can be held against what was asked.
`phase` tells a daemon that is down from one that reads its tag file (one
action per line, as the loop of `read_tag_file`) and one that serves.

* Arguments are `NoArgs` (the C null pointer) or the words `strtok_r` finds.
  `Ignored` collects the handlers' silent returns; `NullArgs` the dereference
  in `strtok_r` when get, add or delete come without any argument.
* `ReadAs` says how a line written for a name is split when it is read: a
  name with `=` in it comes back as another name, with a path (`Junk`) that
  nothing in the file system has. With plain names it is the identity on
  every name, which is what splitting at the first `=` does to them.
* `Faults` switches on failures of the environment: the tag file cannot be
  opened for reading or for writing, `malloc` fails, directories come and go.
* `Terminate`, `PidOutOfRange` and `NullArgs` end the process; `Start` begins
  the next one from whatever the file holds.
* `MaxActions` bounds the stacks for TLC; the theorems do not depend on its
  value.

### NavService

The abstract specification: `store` is a function from known names to
directories, `open` the set of sessions, `trail` a stack per shell and `answer`
what a shell was told and what it had asked: OK to `delete n` has removed n and
nothing else, BAD to `get n` means that n is not known, BAD to `pop` that there
is nowhere to go back to. A session may end at any time with the daemon
(`EndSessions`); `store` never changes but by `Remember` and `Forget`. The
mapping in `NavRefinement` takes `store` from the tag *file*, so that the
refinement says three things at once: each add and delete reaches the disk, the
answers of get, list and show, computed from the list, agree with the disk, and
no restart changes either.

### RequestBuffer

The state is the receive array. One action receives one datagram (`recv`
overwrites the front of the array), lets the loop cut pid and command, and
lets the handler cut or peek at its arguments. Words are sequences of letters,
the array has 12 places instead of 100; what matters is which request is
longer than which, and where its spaces fall. `args` is what the handler took.
`TrailingWhitespace` counts up to the first space, past any Nul, and where no
space is left in the array the code reads on behind it: the model has the least
count this can give, and `strndup`, which stops at the Nul, makes every larger
one the same.
Words hold at least one letter and no space. On the wire nothing tells a word
with a space in it from two words, so `request` has it as two; empty words
are left out, as the scripts test for them before they call the client.

### NavIPC

A client walks through `idle`, `named` (its address is filled in and its
SIGINT handler is in place), `bound`, `connected`, `waiting`, `closing`,
`closed`, `unlinked`, `exited`; `refused` is the way out when `bind` fails,
which does not unlink. `bound[p]` is the file `<p>.sock`: the client whose
socket was bound there, whether it still lives or not. The kernel's part
(delivery at send time, connected sockets hearing their peer only, paths that
outlive sockets, a send that blocks on a full queue) is modelled from the
calls the code makes.

The daemon carries a request out (`Carry`: the handler up to and including the
write of the tag file), then answers it (`Reply`); `Ignore` is a handler that
returns without either. `DaemonStop` may strike between the two. `carried` are
the requests that were carried out, `cut` those of them whose daemon ended
before it answered.

* `Late` says whether an answer may come after the client's 50 ms. When it is
  FALSE, a client does not give up while its request is in the daemon's queue
  or in its hands. That is an assumption on the machine; the code does not
  ensure it, so each claim that needs it has a run of its own, and `ipc_late`
  shows what happens without it.
* `Signals` says which signals clients may get. SIGINT runs the handler,
  which unlinks whatever is at the path; any other signal leaves the path.

### ShellSession

A shell makes one call of the client at a time: `step[p]` is the call it is
in, `job[p]` what the user asked for, `dir[p]` the variable of the script that
holds what get printed. `Call` starts the client: `call[p]` is the request it
has yet to send. It sends it (`SendRequest`), finds no daemon
(`FindsNoDaemon`) or its path taken (`FindsPathTaken`), or is interrupted first
(`Interrupt`). `heard[p]` is what it received, or printed once it has ended.
`Proceed` has one action per call that returns (`AfterRegister`, `AfterGet`,
`AfterPush`, `AfterPop`, `AfterReset`, `AfterOther`, `AfterUnregister`), each
with the tests the scripts make on the output; `Blank` is `[ -z "$output" ]`,
which also holds for a reply that lists nothing. bash and zsh differ in one
transition: zsh's completion asks for the list without registering first
(`Complete`).

* What the user types is a sequence of phrases of words, and goes through the
  client's getopt: the first `--` is dropped (`Dropped`), and a phrase before it
  that begins with a hyphen makes the client print its usage or version on
  stdout, where the script takes it for an answer (`PrintsUsage`). A request
  that is left without any argument is sent as such (`ArgsOf`).
* The other side of `queue` is the daemon: `Answer` takes the first request
  and runs `NavDaemon`'s own handler on it (`Dispatch`). This is the
  composition of the two: whatever the handlers answer is what the shell goes
  on with. A reply reaches the client that runs under the pid when it is sent,
  whichever call it belongs to and whether that client has sent its own request
  or not; `NavIPC` has the sockets that make it so.
* `Upsets` switches on late answers, Ctrl-C, taken paths and killed shells. The
  daemon may stop and start between any two steps, directories may go
  (`Faults`).
* A pid may be used again by a later shell (`Open` after `Leave` or `Kill`).
* A shell is in a directory (`Dir`); `Text` is the words that `pwd` prints for
  it. Of a name with a space in it the daemon pushes the first word only, which
  may name another directory.
* `been`, `trail`, `astray` and `heir` are history, in directories and not in
  words: where the shell has been, what its user expects to go back to, whether
  a call was cut short, a `cd` failed or nav left a directory with a space in
  its name, and whether a shell of this pid went without its farewell: killed,
  or its EXIT trap's client interrupted before the send or refused by bind.

### DaemonProcess

`stage[d]` walks through `loading`, `loaded`, `unlinked`, `bound`, `serving`,
and for a command through `changing`, `changed`, `writing`. `path` is whose
socket is at `nav.sock`; `UnlinkOld` removes it whoever it belongs to, `Bind`
takes it, and the signal handler and `loop`'s return unlink it again. The file
is a sequence of lines: `fopen` empties it, the lines and the closing empty
line reach it with `fclose` (`Over`: written from the start of the file over
what another daemon put there), and `ReadBack` stops at the empty line. A
command is add or delete of one tag; its reply is in `NavDaemon`.

* `Signal` ends a process cleanly at any point, without writing stdio's buffer;
  while a command runs it may abort instead, because the handler frees what
  the command uses (undefined behaviour, as the choice between its outcomes).
  `Kill` is everything else that ends a process with a failure.
* `Restarted` is the service manager of README.md, `Restart=on-failure`.
* A failed `fopen` is a fault of `NavDaemon` and not repeated here.

### How the modules fit together

`ShellSession` extends `NavDaemon` and drives its handlers from shells;
`NavRefinement` shows `NavDaemon` as `NavService`. The other three are the
same program at other grains, sharing no variable with it. `NavIPC` carries a
request as the identity of its client, where `ShellSession` has one queue and
"the client that waits under that pid": `NavIPC`'s `Deliver` goes to the shell
of the request, as `NavDaemon`'s `Send` does, and its theorem
`RepliesNeverCross` is what allows `ShellSession` to hear under a pid nothing
but answers to that pid. `RequestBuffer` says which words a handler gets, which
`NavDaemon` takes as they were sent. `DaemonProcess` splits into steps what
`NavDaemon` does in one (the write of the file, the start) and adds a second
daemon; `FileIsSound` and `DaemonServesTheFile` are what allow `NavDaemon` to
write in one step while one daemon runs and is not killed.

## 3. What the runs show

| Run | Instance | States | Shows |
|---|---|---|---|
| `daemon` | 2 shells (symmetric), 2 names, 2 directories, stacks up to 2, no faults | 27,231 | `ShellIsolation`, `FileMirrorsTags`, and the refinement `ImplementsService` |
| `daemon_faults` | 1 shell, stacks up to 3, edited tag files; reads, allocations and directories fail | 72,776 | `TagsAreOnDisk`: what the daemon answers for is in the file with its path at every moment. The other direction is false and not claimed: a failed read or allocation, or a directory that is missing at startup, keeps a tag out of the list, and the next write drops it. `UniqueTags`, `NoImmediateRepeat` and `StacksOfRegisteredOnly` |
| `daemon_mangled_load` | names with `=`, no faults | – | **violated**: `LoadVerifiesPaths` |
| `daemon_write_fails` | the tag file cannot be opened for writing | – | **violated**: `OkMeansOnDisk` |
| `daemon_null_args` | every shape of arguments | – | **violated**: `NoCrash` |
| `request_buffer` | 14 requests, words of 1 to 3 letters, 12 bytes | 4,724 | what stale bytes cannot do: change the command, precede or cut the request's own words, or show in a request at least as long as all before it, a pid alone among them |
| `request_stale` | the same | – | **violated**: `HandlerSeesRequest` |
| `ipc` | 3 clients of 2 shells, SIGINT, late answers, a queue of 1, 2 daemons in a row | 474,412 | `RepliesStayInShell`, `NoStaleSocket`, and `ClientsEnd` under fairness |
| `ipc_prompt` | 3 clients of one shell, kills, answers in time | 103,585 | `PathIsMine`, `ReplyIsMine`, `FailedMeansNotDone` |
| `ipc_late` | the same, answers may be late | – | **violated**: `ReplyIsMine` |
| `shell_session` | shells in turn with one pid; late answers, Ctrl-C, taken paths, kills, restarts; 3 directories, one with a space in its name whose first word is another; tags for a directory and for a file cd refuses; get with each tag, with an option word and with nothing, pop, reset; stacks up to 2, 1 waiting request | 324,929 | `StackIsMine`, `NothingLeftBehind`, `BackUndoes`, `NavNeverCrashes`, and `NavReturns` and `LeavingUnregisters` under fairness |
| `daemon_process` | the unit and one daemon started by hand; add of two tags, delete of one; 2 ends from outside | 905,734 | `LastCloseWins`, `ServesTheFile`, `SoleDaemonIsReached`, and `FailedUnitServesAgain` under fairness |

Names with `=` are in `daemon_mangled_load`; that they never put a name in the
list twice is the theorem `TagsStayUnique`, which assumes nothing about how
names come back from the file.

**Why the bounds are enough.** Handlers compare names and paths for equality
only, so two names and two directories give every case (same name with another
path, other name, the path of another tag). Two shells are needed for
isolation, one is enough for the tag list, which they share; no definition
tells two shells apart, so `daemon` is checked up to their exchange. A stack of
three (`daemon_faults`) lets a push repeat the head, repeat an older entry, and
follow a pop of either. Tag files of up to two lines give a duplicate, a
missing path and a clean list in both orders; after that the commands build the
lists. In `RequestBuffer` every request is shorter than the array and there are
pairs that are shorter, equal and longer with spaces in other places; TLC
reaches every array these requests can leave, in any number of steps. In
`NavIPC` three clients of one shell give the case of a client overlapping one
that has given up while a third is refused; a queue of one makes a send block
behind one request; two incarnations of the daemon put a restart at every step
of a client. The bound on incarnations is the only one that stops the system
(after which nothing may be enabled), which is why the NavIPC runs do not check
deadlock; in the other runs the system never stops and deadlock is checked.

In `ShellSession` shells with different pids meet in the daemon only, where
`ShellIsolation` (proved) keeps them apart, and in the queue, where they delay
each other, which `late` covers; one pid used again and again is the case that
is left. With one waiting request (`MaxQueue`) a call that was given up is
answered before, during and after the next one, whose send blocks as long as it
waits; a longer queue holds more late requests of the same kind, and the
theorems about shells hold for every `MaxQueue`. Directories do not go in this
run (they do in `daemon_faults`); a `cd` fails on the tagged file and on the
usage text. `--` alone is not typed, which is what `NavNeverCrashes` is about;
the theorems cover a user who types it. Two steps back
(`MaxActions`) tell the latest navigation from an earlier one; `Room` keeps
the user from asking for a push that would not fit. add, delete, show, list
and actions return through `AfterOther`, which zsh's completion fires in the
run; the theorems cover them for every argument. In `DaemonProcess` two daemons
give every overlap of two writes, and a third would be another of the same; two
tags make a shorter list over a longer one, and two ends from outside
(`MaxEnds`) allow a kill in the middle of a write and another after the
restart.

**Fairness** (`NavIPC!FairSpec`). Weak fairness of each started client's own
steps: the scheduler runs it, and its only wait for a message, `recv`, has a
timeout. Weak fairness of the daemon's loop: while the daemon lives it takes
the next datagram. None for starting a client or a daemon, stopping a daemon,
or sending a signal, which nothing in the code makes happen. A send that
blocks on a full queue ends because the loop takes a datagram or because the
daemon stops.

`ShellSession!FairSession`: weak fairness of `Answer` (the daemon's loop) and
of each shell's `Client`: a client that was started sends, fails to connect or
ends by its 50 ms, and the script goes on when the client has ended. A client
that is refused or interrupted is nobody's duty. None for the user, the service
manager or the daemon's start. So `NavReturns` holds also when the daemon is
down or does not answer, and `LeavingUnregisters` also when nobody waits for
the answer, for each farewell that was sent.

`DaemonProcess!FairSpec`: weak fairness of each process's own steps (`SetUp`,
`Work`), of which none waits for anything but a request, and of `Restarted`,
which is what `Restart=on-failure` asks of systemd. Ends from outside are
bounded, so a unit is not killed for ever; systemd's own limit on the rate of
starts is not modelled. `FailedUnitServesAgain` needs the bound: a unit that
keeps being killed never serves.

**Disagreements met on the way** (`findings` in `PROJECT.json`, each confirmed
on the built program before it was modelled):

1. `read_tag_file` takes a path for a known name without looking whether it
   exists; `tag.h` says it verifies the path. With a name holding `=`, one tag
   silently takes another's place after a restart.
2. add and delete ignore the result of `write_tag_file` and answer OK.
3. get, add and delete without arguments end the daemon; the handlers mean to
   log "Too few tokens".
4. A handler sees words of earlier, longer requests: `commands.h` says `args`
   holds the remaining arguments.
5. A reply that comes after 50 ms is read by the shell's next client as its
   own.

## 4. What is proved

For every value of the constants: any number of shells, clients, daemons,
words and tags, any initial tag file, stacks and queues of any length. The
theorems rest on the named assumptions of the modules they are about, which
say what the constants are: words and paths, arguments, tag files, bounds.
What a theorem assumes beyond these is in the last column.

| Theorem | States | Further assumptions |
|---|---|---|
| *NavDaemonProofs* `TypeCorrect` | `[]TypeOK` | – |
| `TagsStayUnique` | `[]UniqueTags` | – |
| `StacksAreIsolated` | `ShellIsolation` | – |
| `StacksNeedSessions` | `[]StacksOfRegisteredOnly` | – |
| `NoStepTwice` | `[]NoImmediateRepeat` | – |
| *NavTagFileProofs* `TagsSurvive` | `[]TagsAreOnDisk` | `PlainNames`, `WritesSucceed` |
| `RestartReadsBack` | `[]FileMirrorsTags` | `PlainNames`, `NoFaults`, `CleanFiles` |
| *NavRefinementProofs* `DaemonImplementsService` | `ImplementsService` | `PlainNames`, `NoFaults`, `CleanFiles` |
| *NavIPCProofs* `TypeCorrect` | `[]TypeOK` | – |
| `RepliesNeverCross` | `[]RepliesStayInShell` | – |
| `NothingIsLeftBound` | `[]NoStaleSocket` | `NoKill`: no killing signal |
| `PathStaysMine` | `[]PathIsMine` | `NoInterrupt`: no SIGINT |
| `ReplyStaysMine` | `[]ReplyIsMine` | `Prompt`: `NoInterrupt`, answers in time |
| `FailureIsHonest` | `[]FailedMeansNotDone` | `Prompt` |
| *ShellSessionProofs* `NavIsNeverTheCrash` | `[]NavNeverCrashes` | – |
| `LeavingLeavesNothing` | `[]NothingLeftBehind` | – |
| `StacksStayWithTheirShell` | `[]StackIsMine` | – |
| *ShellDaemonProofs* `SessionTypeCorrect` | `[]SessionTypeOK` | – |
| `BackUndoesTheLatest` | `[]BackUndoes` | – |
| `ShellsKeepTagsUnique` | `[]UniqueTags` under `SessionSpec` | – |
| `ShellsNoStepTwice` | `[]NoImmediateRepeat` under `SessionSpec` | – |
| `ShellsAreIsolated` | `ShellIsolation` under `SessionSpec` | – |
| `ShellsTagsSurvive` | `[]TagsAreOnDisk` under `SessionSpec` | `PlainNames`, `WritesSucceed` |
| `ShellsSeeTheService` | `ImplementsService` under `SessionSpec` | `PlainNames`, `NoFaults`, `CleanFiles` |
| *RequestBufferProofs* `TypeCorrect` | `[]TypeOK` | – |
| `CommandsAreNotMisread` | `[]CommandIsSent` | – |
| `OwnArgumentsComeFirst` | `[]ArgsStartWithRequest` | – |
| `NothingStaleBehindTheLongest` | `[]LongestSoFarIsExact` | – |
| *DaemonProcessProofs* `TypeCorrect` | `[]TypeOK` | – |
| `FileIsSound` | `[]LastCloseWins` | – |
| `DaemonServesTheFile` | `[]ServesTheFile` | – |
| `SoleDaemonHasThePath` | `[]SoleDaemonIsReached` | – |

None of the assumptions is for convenience: for each there is a run or a hazard
that shows the property fail without it (`daemon_mangled_load` for
`PlainNames`, `daemon_write_fails` for `WritesSucceed`, `ipc_late` for answers
in time, the handlers of `client/main.c` for `NoInterrupt` and `NoKill`; what
`NoFaults` and `CleanFiles` are for is said below).

The arguments:

* **The list.** `TagStepNext` says what any step can do to the tag list:
  nothing, empty it, set the path of the first match, append a name that is
  not there, remove the first match. Each keeps names distinct (`SetPathShape`,
  `AppendTagDistinct`, `WithoutShape`, `DeleteTagDistinct`). That the first
  match exists (`FirstIndexIsFirst`) comes from the least element of a set of
  naturals.
* **The stacks.** `StackStepNext` is the same for one stack: unchanged, emptied
  with an answer to its shell or with the daemon, popped or pushed with an
  answer to its shell. Isolation, sessions and `NoImmediateRepeat` (via
  `PushNoRepeat`, `PopNoRepeat`) all follow from it. `NoImmediateRepeat` is
  inductive although a push looks at the head only, because it says something
  of the whole stack: whatever a pop uncovers was already free of repeats.
* **`TagsSurvive`.** `TagsAreOnDisk` alone is not inductive: a reading step
  adds a line that was pending, so `DiskInv` adds that while loading the
  pending lines are in the file as well. `PlainNames` is needed because a line
  with `=` in its name is not read as it stands, `WritesSucceed` because an
  accepted add is in the list even when the file was not written.
* **`RestartReadsBack`.** `MirrorInv` adds to `FileMirrorsTags` that all paths
  exist, that the file's names are distinct and its paths exist (otherwise the
  reader would skip or merge lines), and that a daemon that is down has an
  empty list. `UniqueTags`, proved before, shows that the next pending name is
  new, and that what a command writes has distinct names. `CleanFiles` asks
  the same of the first file; `NoFaults` is needed because a directory that
  disappears makes the reader drop a line, a failed allocation too.
* **`DaemonImplementsService`.** With `MirrorInv` the file is the list while
  the daemon serves. Three lemmas say what an operation on the list is to the
  map it stands for (`SetPathStore`, `AppendTagStore`, `DeleteTagStore`), a
  family of `Says...` lemmas what a reply is to an answer, and there is one
  lemma per handler that its step is the service's. A daemon that starts and
  reads stutters; one that ends closes every session and keeps the map.
* **`NavIPC`.** `RepliesNeverCross` needs `ShellInv`: what is bound to a path
  was bound by a client of that shell, also when it is a dead one's.
  `NothingIsLeftBound` rests on `OwnersLive`: whoever is bound still has its
  unlink before it; `PathIsMine` is inductive as it stands once SIGINT
  is away. `PromptInv` says, for each client and stage, where its one request
  is: not sent, in the queue, or answered into its own inbox, by the daemon it
  is connected to, or cut short by that daemon's end; both claims about answers
  in time follow from it.
* **`ShellSession`.** `Sound` types what the handlers and the scripts use. The
  proofs do not go through every action again: they look at `Moves`: what a
  step is to one shell and its client (`ShellMoves`) or to the daemon
  (`DaemonEnds`, `DaemonHandles`, `DaemonStays`). `NavNeverCrashes` holds
  because a request that waits in a client or in the queue always has what its
  handler needs (`Served`), which `KeptArgs` shows of what getopt leaves of the
  words typed. For `NothingLeftBehind`, `Leaving` says that a shell which
  leaves has its unregister in its client's hands or as the last of its
  requests in the queue (`FarewellAt`), or is not registered and has nothing in
  the queue, or is known to have gone without a farewell. `Owned` (every stack
  entry, every push still to be sent and every push waiting `Names` a directory
  the shell has been in) gives `StackIsMine`, with an unread farewell ahead of
  what a new shell of the same pid has sent.
* **`BackUndoes`.** It speaks of shells at their prompt, and is not inductive:
  what the stack will be there depends on a push or a pop that is still on its
  way. `Tracked` says, for a shell in the middle of anything, that the stack
  begins its history as it will be once the answer it was given is taken in
  (`Due`), that at most one request of its pid is in its client's hands or in
  the queue and it is the one the shell waits for (`OneCall`), and that a shell
  whose history was cut gets its claim back with a reset only when the stack
  has been emptied or the reset is the last it sent (`Cleared`). Each step is
  one shell's (`Alone`: the others' requests keep their order, whatever places
  they move by), the daemon's, or its end.
* **Shells on the daemon.** `NavDaemon`'s theorems were proved for any step
  that is a handler called with arguments of their types, an own step of the
  daemon, or one that leaves the daemon alone (`AnyStep`), not for `Next`
  only. A step of `SessionSpec` is one of these, so the same lemmas give the
  `Shells...` theorems, the refinement of `NavService` among them: a queue of
  requests nobody waits for any more does not weaken what the daemon promises.
* **`RequestBuffer`.** The invariant is that the array holds nothing but Nul
  behind the longest datagram received (`Inv`), which the calls of `strtok_r`
  keep because they only write Nul. The rest is about one request. `Layout`
  gives the place of each word in what the client sends, `NextWord` that a call
  of `strtok_r` where a word begins takes this word and stops where the next
  begins, whatever follows the request, `CutRequest` and `PeekRequest` that
  the handlers' loops therefore take the request's own words in order, and
  nothing more when the array is clean behind them. A pid alone with a clean
  array behind it finds Nul where the command would be. The words of a
  request and the calls of a loop are recursive functions: `Recursion` shows
  that they exist and `Induction` what follows for each index; both come from
  the least element of a *set* of naturals, which the provers can use where
  they cannot use an induction theorem over formulas.
* **`DaemonProcess`.** `WrittenIsReadBack` is the heart: a list written from
  the start of any file, with the empty line behind it, reads back as that
  list. `FileInv` adds that every daemon's list has each tag once. `ServeInv`
  follows a daemon's list from the load on, `SoleInv` the path from the unlink
  on.

**Only model-checked.**

* Liveness under fairness (`ClientsEnd`, `NavReturns`, `LeavingUnregisters`,
  `FailedUnitServesAgain`), which is out of the proof system's reach, as is
  anything about `ENABLED` or `RECURSIVE` operators (no module declares one).

## 5. What is not modelled

* Logging, `get_username` and the installation of the scripts.
* Tag lists longer than stdio's buffer: their first part would reach the file
  before `fclose`, and a kill could leave a part of a list. `DaemonProcess`
  writes at `fclose` only.
* What the signal handler does to memory when it strikes inside a handler or
  inside `malloc`: the model has its outcomes, an abort or a clean end, not
  the heap. A second signal inside the handler is left out.
* The cells of the linked list, its counter and who frees its data. While a
  handler runs to its end nothing tells them from the sequences `NavDaemon`
  uses.
* A third daemon's socket, `nav.sock` taken by something that is no daemon of
  nav, and systemd's limit on the rate of starts.
* Lengths in bytes: the 100 bytes of the receive array against longer
  requests, the fixed reply arrays of list, show and actions, paths and tags
  of 255 bytes and more. A model that says what lies behind an array would
  be a guess; the hazards name the lines.
* `NavDaemon`'s handlers are one step each. A daemon that ends in the middle of
  one is in `DaemonProcess` (the list, the file) and in `NavIPC` (done and not
  answered), and not under `ShellSession`'s shells.
* Stale words of the receive buffer under `ShellSession`'s shells: a request
  sent without arguments has none there, where in the code it may find words of
  an earlier request (`RequestBuffer`) and then does not end the daemon. A bare
  get right after the register of the same pid, for one, sees the rest of that
  word.
* Clients of a shell's background jobs and subshells: `ShellSession` has them as
  a path that is taken; `NavIPC` has them overlap.
* A pid that is taken again while a client of the shell before it still runs,
  and a phrase that begins with a space.
* Lines of the tag file that nav does not write: a blank line in the middle
  (the reader stops there) and a line without `=` or without a path (it is
  skipped).
* Lists of words that no handler tells apart: a further word after those a
  handler looks at is left out, except for add, which counts them.
* The parsing of numbers (a pid is a value of a set) and the text of replies.

## 6. Plan

Done, in this order: `NavDaemon` with `NavService`, `RequestBuffer`, `NavIPC`
and their runs; the proofs about `NavDaemon` and the tag file; `ShellSession`;
`DaemonProcess` (the write of the tag file and two daemons, planned as two
modules, are one); the proofs about the processes, the clients, the
refinement, the sessions, shells and daemon together, and the receive buffer.

What is left, most important first:

1. `LinkedList`: nodes and pointers of `list.c`, shown to implement the
   sequence operations `NavDaemon` uses; freed nodes are never read; the
   counter is the length; the signal handler in the middle of an operation.
2. `NavIPC` under `ShellSession`: the queue and `heard` of `ShellSession` as
   what the sockets of `NavIPC` come to, by a mapping.
