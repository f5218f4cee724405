# A TLA+ model of the programs of CS111

The repository holds a dozen small, independent C and Python programs written for
an operating systems course.  What they have in common is what this project is
about: several threads on one data structure, several processes around pipes and
sockets, interrupts, buffers that are cut into commands, and rows that can be read in any
order.  The TLA+ modules here model the programs where that happens, TLC checks them on small instances,
and TLAPS proves the most important results for every size.

## 1. Inventory

| component | state | operations | what makes it hard |
|---|---|---|---|
| `lab2a/lab2_add.c` | one `long long counter`, a mutex, a spin lock, the loop index of each thread | `add`, `add_mutex`, `add_spin`, `add_cas`, thread creation, joining, the report | every load and store is a place to be preempted; the spin lock and the CAS loop are hand-made |
| `lab2a/SortedList.c`, `lab2b/SortedList.c` (one file twice) | circular doubly linked list: `next`, `prev`, `key` of each element; locals `temp`, `nextnode` of each caller | insert, delete, lookup, length | pointers are published before they are all set; no operation locks anything |
| `lab2a/lab2_list.c` | the list, its lock, the nodes of the threads | a thread takes the lock, inserts its nodes, takes the length, deletes the same nodes, releases | deletion is by address: the nodes must be there |
| `lab2b/lab2_list.c` | an array of sublists and of locks; nodes dealt to sublists by a hash of the key | per node: lock, insert, unlock; per sublist: lock, length, unlock; per key: lock, lookup, delete, unlock | threads look keys up, and so delete each other's nodes when keys repeat; the right lock for the right sublist |
| `lab1a/lab1a.c` | terminal mode, two pipes, the shell, `shell_status` | `poll` loop: keys are echoed and forwarded, output is shown; `^C`, `^D`, EOT, hang-up; exit report | pipes fill, the shell ends at any moment, three places notice its end |
| `lab1b/lab1b-client.c`, `lab1b-server.c` | a TCP connection between the two, a zlib stream each way with `--compress`, the server's pipes and shell, the client's log | the client sends keys and shows output, the server forwards both ways | either end can go first; data in flight when it does; fixed buffers around zlib; each exit path |
| `lab4b/lab4b.c` | 256-byte command buffer with two indices; `scale`, `period`, `run_flag`; log and output; sensors | poll, receive, cut commands out, obey, sample, print, log, sleep; button interrupt | commands arrive in arbitrary pieces; the button handler is another thread |
| `lab4c/lab4c_tcp.c`, `lab4c_tls.c` | as lab4b, plus the connection | as lab4b, over TCP or TLS in place of standard input and output | TLS buffers records that `poll` does not see; the server can go away; the button is armed before there is a connection |
| `lab3b/lab3b.py` | dictionaries of blocks, inodes and links filled row by row | one audit rule per kind of row | verdicts depend on the order of the rows |
| `lab3a/lab3a.c` | a disk image, read only | superblock, groups, bitmaps, inodes, directories, indirect blocks | the depth of the indirect blocks; what is read is not checked |
| `lab0/lab0.c` | none | byte copy, `--segfault`, `--catch` | none |
| `lab4a`, Makefiles, scripts, plots, csv | | | no program logic |

The programs do not call each other.  Inside a program the components interact
through shared memory (lab2: threads on the counter and the lists; lab4b: `main`
and the interrupt thread on the globals, the log and the sensors; lab4c: also the
socket and the SSL connection), through pipes
and signals (lab1a, the server of lab1b), and through a socket (lab1b, lab4c).
lab3b reads what lab3a has printed.

What makes each of them correct:

* **counter** - the adds of all threads have their full effect, and `main` reads
  the counter when they are over;
* **lists** - no node is lost or misplaced, each locked operation is atomic, each
  lookup finds its key, every walk ends, the lists end empty;
* **relay** - keys and output arrive once and in order, the end of the shell is
  noticed exactly once and from then on nothing is sent to it, the program ends
  with the terminal restored;
* **remote shell** - the same across the connection, and whichever end goes first
  takes the other one down, after what it had sent has been shown;
* **command buffer** - the commands are the lines that were sent, whatever the
  pieces they arrive in; the buffer never overflows and never gets stuck;
* **sensor nodes** - the log is a true account of what was asked and measured, OFF
  and the button end the program, SHUTDOWN is the last line, and a node does not
  go on for a server that has left;
* **summary and audit** - what is reported of an image is so, what is wrong with
  it is reported, and the exit status says which.

## 2. Modules

| module | models | extends / instantiates |
|---|---|---|
| `AtomicAdd` | what the counter promises: each add at one instant | |
| `AddCounter` | `lab2_add.c`, step by step | instantiates `AtomicAdd` |
| `AddCounter_proofs` | theorems about it | |
| `PartitionedSet` | what the locked lists of lab2b promise: atomic insert and lookup-and-delete on one set of keyed nodes | |
| `InductionLemmas` | no code: induction stated with sets, and lemmas about sequences put together part by part | |
| `ThreadSizes` | `--threads` and `--iterations` of the list programs | |
| `SortedList` | the four list operations, over a heap of cells | extends `ThreadSizes` |
| `ListPartition`, `MCListPartition` | `lab2b/lab2_list.c`, and the instance that is checked | extends `SortedList`, instantiates `PartitionedSet` |
| `ListPartition_proofs` | theorems about it and about `PartitionedSet`: types, locks, the shape of the sublists, that it implements the set | extends `ListPartition`, `InductionLemmas` |
| `ListWhole` | `lab2a/lab2_list.c` | extends `SortedList` |
| `ListWhole_proofs` | theorems about it | extends `ListWhole`, instantiates `ListPartition_proofs` |
| `ShellProcess` | the shell and its pipes, as the relay programs use them (external) | |
| `TerminalRelay` | `lab1a.c` | extends `ShellProcess` |
| `TerminalRelay_proofs` | theorems about it | extends `TerminalRelay`, `InductionLemmas` |
| `RemoteShell`, `MCRemoteShell` | `lab1b-client.c` and `lab1b-server.c`, and what is typed in the instance | extends `ShellProcess` |
| `RemoteShell_proofs` | theorems about it | extends `RemoteShell`, `InductionLemmas` |
| `CommandBuffer` | the input buffer of lab4b (lab4c has the same code) | |
| `SensorNode` | `lab4b.c` | extends `CommandBuffer` |
| `NetworkNode` | `lab4c_tcp.c`, `lab4c_tls.c`, and `lab4b.c` beside them | extends `SensorNode` |
| `NetworkNode_proofs` | theorems about the command buffer and about the three nodes | extends `NetworkNode`, `InductionLemmas` |
| `Ext2Summary` | `lab3a.c`: the rows of an image, as operators | |
| `Audit`, `MCAudit` | `lab3b.py` reading those rows, and the images that are checked | extends `Ext2Summary` |
| `Audit_proofs` | theorems about the rows of lab3a and the audit of lab3b | extends `Audit`, `InductionLemmas` |

Definitions keep the names of the source where TLA+ allows it.  In a module the
state is declared first, then one action for each step of the code, the
next-state relation, and the properties.  An operator that begins with the
comment `Mutant:` is not part of the model: it is the definition that follows it
(or a neighbour) with a plausible mistake in it, and is there to make sure that
a property can fail.  PROJECT.json says which mutant breaks which property.
`TypeOK` of `ListPartition`, `ListWhole` and `RemoteShell` is no question of a run: they are
proved (`TypeCorrect`, `TypesCorrect`).

### How the state corresponds to the code

**AddCounter.**  `counter`, `lock`, `i`, `value`, `loaded` are the variables of
the same names (`loaded` is the register or the local `oldval` that an add has
read into); `pc[t]` says where thread *t* is in `runThread`; `mainpc` and `mi`
where `main` is.  A lock operation, the load, the store and the CAS are one step
each.  `opt_yield` only calls `sched_yield()` between the load and the store: it
adds no behaviour that preemption does not have.  The added value `1` then `-1`
is `value`, and the end of an add (`Return`) is part of the step that ends it.

**SortedList.**  The heap is the three functions `next`, `prev`, `key` on
`Cells`: the nodes, numbered as in `nodelist`, then the heads.  Uninitialised
pointers of fresh nodes are `NULL` or `Wild`, an address that faults.  A step is a
C expression or a store: `DeleteCheck` reads the two or four links that one
condition compares in one step, and the four stores of an insertion are four
steps.  Keys are numbers in the order `strcmp` gives them.  The count that
`SortedList_length` returns is not carried: its callers only test it for 0 or -1.

**ListPartition, ListWhole.**  `pc` goes on from the list operation to the lock
operations; `phase` is the loop of `runThread`; `i` its index.  A failed lookup or
delete, and a fault, is `Die`: the process ends.  The head that `Lock` takes is
`listindex(t)`.  The final `SortedList_length` of `main` walks freed nodes if the
list is not empty, and then finds a length that is not 0 or faults.

**ShellProcess.**  The program of `--shell` is anything that reads its input in
order and writes bytes: it may write, end with a status, and becomes a zombie
some time after its pipes have closed.  The pipes are sequences with `PipeSize`
places; a write to a full one waits, a write to a shell that has gone raises
SIGPIPE.

**TerminalRelay.**  One round of the loop: `Poll` (with the answers kept in
`revents`, so that they can go stale), `ReadKeyboard`, one step per key (echo,
then the blocking write to the pipe), `ReadShell`, one step per byte shown,
`CheckHangup`.  `LoseShell` is `getShellExitStatus`, with `waitpid(WNOHANG)`: the
status it reports is the shell's if it is dead and 0 if it is not yet.

**RemoteShell.**  Client and server are two such loops with the connection
(`up`, `down`) between them.  `Outcomes` is what can become of a send to an end
that has gone: it is lost and answered by a reset, and after a reset, which a process
that ends with something unread causes, too, it fails (`send()` is -1) or kills the
sender with SIGPIPE.  Which of these depends on what the other end did first, and on
whether the shell, which inherits the server's socket, still holds it; it is left open.
A client whose send fails restores the terminal and exits with 1, whatever it has
not read yet; a server that compresses reports the shell and exits with 1, and one that
does not compress does not look at the result.  What the connection holds are tokens:
without `--compress` a byte each, with it what zlib makes of a call of
`deflate()`: one token for all the bytes, or a header and one for each, so that
what is typed can become shorter or longer.  `keyStream` and `shellStream` are the
two zlib streams, seen from both ends: `pending` is what did not fit the 256 bytes
of the compressed buffer, `held` what did not fit the 500 of `decomp_buff`, and
`broken` says that `inflate()` was called with less than it has to see, because
input that it had not come to was overwritten by the next read.  `logged` is what
the client's log says was SENT and RECEIVED, as the bytes it stands for.  The
`z_stream`s that are ended at every exit were never initialised without
`--compress`, and on the server not completely with it, so these exits may fault
(`EndStreams`).

**CommandBuffer, SensorNode.**  `inputbuff` is the valid part of the array and
`validPtr` its length; `commandPtr` is kept as it is.  `stream` is all that will
ever be typed, in pieces that `Arrive` and `Receive` cut at will.  `chunks` is a
history variable: what was taken out of the buffer, and why.  A keyword is one
symbol; a line is symbols up to a newline.  `pc` has two threads, `main` and the
interrupt thread `isr`; `buttonPress` is the four steps both of them can be in.

**NetworkNode.**  The same machine with `link` for which program it is.  `peer` is
the server's end: it can close the connection, after which the first send gets a
reset (`reset`) and the next fails or raises SIGPIPE, or abort it at once.  A read
of 0 bytes is not looked at by the code, so `main` goes on sampling until a send
fails.  Over TLS, `records` are the records that are in the socket, each with its bytes,
and `inssl` the bytes left inside SSL of the last: `Ready` looks at the first only,
as `poll` does, and `Available` at the second first, as `SSL_read` does; `Fetched` and
`Unfetched` are what a read makes of the two.  The
button is armed before `connect`, so `Send` may find no connection (`Connected`),
and two threads may be inside SSL at once (`Overlap`): such a call may fail or
crash.  `log` is what is written to `logfd`, which is descriptor 0 without `--log`.

**Ext2Summary, Audit.**  An image is a record: the free bits, the inodes, the
pointers and entries in each block, and what is found where nothing is read: lab3a
does not see that a block number leads past the end of the image, and goes on with
what its buffer holds (`stack`, for the pointers of an indirect block, and `stale`,
for the entries of a directory, which are then all alike).  Rows are records with the fields that the audit reads.  In `Audit` one row
is one step (`ReadSuperblock` to `ReadDirent`), then one block of `blocklist` is one
step, then each final loop.  `order` permutes the four groups of rows, because
lab3b.py:52 does not know in which order they come.  What Python's strings do is
kept: a mode is never equal to 0, and the level of an INDIRECT row cannot be used
as an index (`level = "string"`), which ends the program with status 1 (`Raise`).
`Inconsistencies` is the reference: it follows the pointers of the image by paths
and does not look at the rows.

## 3. Runs

Each passing run also shows that its bounds reach the interesting cases: for
every property there is a mutant that the same bounds refute.

| run | instance | what is asked |
|---|---|---|
| `add` | 3 threads, 2 rounds, all four `--sync` | `CounterAccounted`: the counter is at all times the number of threads between their two adds, unless several threads run unsynchronised; `LossBounded`: even then it stays within what was added; `LockProtects`; `ReportsZero`; `ImplementsAtomicAdd`; `Terminates` |
| `list_partition` | 2 threads, 2 nodes each, 3 keys, 2 sublists, no lock and mutex | `ImplementsPartitionedSet`: locked pointer manipulations are atomic set operations; `KeysBalance`: threads that delete each other's nodes always leave one for each lookup to come; `FreeListsSound`, `OneThreadPerList`, `EndsWell`; `SublistsApart`: even without locks sublists do not mix |
| `list_whole` | 2 threads, 2 nodes each, 2 keys, no lock and spin lock | `OwnNodesOnly`, `DeletesWhatItInserted`, `EndsWell` |
| `relay` | up to 3 keys of 4 kinds; 2 bytes of output, of two kinds that can be told apart and EOT; two-byte pipes and reads | `KeysReachShell`, `OutputInOrder`, `OneExitReport`, `ReadsDoNotBlock`, `EofEndsProgram` |
| `remote` | four sequences of up to 3 keys, with different keys among them; output of two kinds and EOT; 3 keys and bytes together, two-byte pipes, reads and `decomp_buff`, `--compress` and not | `KeysReachShell`, `AllSentIsShown`, `LogMatchesTraffic`, `OneEndEndsBoth` |
| `command_buffer` | all streams of up to 5 symbols (2 letters and newline), a buffer of 3 | `BytesConserved`, `RoomToRead`, `LinesProcessed`, `LinesLeaveTheBuffer` |
| `nodes` | lab4b and both of lab4c; streams of two lines, of a line after an empty one or after one that fills the buffer, of 4 keywords; a buffer of 2, a button | `NetTypeOK`, `LogTellsTheTruth`, `OffThenShutdown`, `OffIsObeyed`, `ButtonEndsProgram`, `PeerGoneEndsSampling` |
| `audit` | 295 images of 19 blocks and 6 inodes with blocks at all depths: 3 sound ones, and each with one thing damaged; their rows in the 24 orders of the groups | `ReportsAreTrue`, `NothingMissed`, `StatusExplained`, `FirstOffsetsTrue` |
| `empty_line` | violated | `ReadsToEndOfCommand` (lab4b.c:181) |
| `sensor_final` | violated | `ShutdownIsFinal` (lab4b.c:38) |
| `relay_status` | violated | `ReportsTheStatus` (lab1a.c:264) |
| `audit_status` | violated | `InconsistencyIsStatus2` (lab3b.py:7) |

Why the bounds are enough to be interesting:

* *add*: with three threads one of them can be between its adds, one holding a
  stale value and one changing the counter under it; with two rounds a CAS can
  meet a counter that has changed and changed back.
* *lists*: with four nodes and two or three keys, keys repeat in one thread and
  across threads, a node is inserted at the front, at the end and between two
  others, and a lookup can find the node of another thread.  A key hashes to
  `key % num_lists`, so a sublist can have two different keys, and either can be
  empty.  A third thread on a locked list would only wait.  `MCListPartition`
  starts from one of each two assignments of keys that differ by swapping the
  threads, which are alike; without locks the nodes of each thread have the keys
  0 and 0, or 0 and 1, the same for both.
* *relay*: with pipes of two bytes every write can block, every buffer of two keys
  can be stuck in the middle, and the shell can end between any two steps.
  Two keys and two bytes of output are passed on as different bytes (a, CR; x, y), so that
  a change of their order would be seen.
  Bounds: `TypedLength`, `ShellOutput`, `PipeSize`, `BuffSize`.
* *remote*: three keys are more than a read takes and more than `inflate()` has
  room for; what deflates to a header and a token each is more than fits; so
  streams with something pending, held back and broken are all reached, on both
  sides.  Here, too, an a before, between or after returns, and x and y, show the order
  (`MCRemoteShell` lets the shell write its first x before its first y: the two are alike).
  The server can go at any point of the client's loop, also with output behind it that the
  client has not read when its next send fails.  Bounds: `Exchanged` keys and bytes of output together, `Typed`.
  `BothPipesFull` is not reached with them (it is in `relay`).
* *command_buffer*, *nodes*: a buffer of two or three is overfilled by lines of
  that many symbols, holds one command with the beginning of the next, and is
  exactly filled by a command.  A TLS record of more than two symbols leaves some
  inside SSL.  `StreamLength` and `Streams` bound the input; `MaxSamples` bounds the
  samples that `out` and `log` keep (further ones are printed and not recorded).
* *audit*: a block of two pointers, inodes of two direct pointers and the three
  indirect ones: each depth has a first entry and another.  A pointer is damaged
  to every kind of number there is: none, negative, reserved, in use, free, the
  last block, and the two behind it; so is the block of the root directory, with an entry in
  `dir_entry` from an earlier read and with none.

`CHECK_DEADLOCK FALSE` stands in `relay` only: there the program and its shell
really can wait for each other, each with a full pipe that the other does not
read (`BothPipesFull`).  Everywhere else a state without successor would be
reported; the end of a program is the explicit step `Ended`, and in the nodes so
is the sleep of 136 years that a negative PERIOD asks for.

### Fairness

Safety is checked without using any fairness.  Liveness uses weak fairness of each
thread and process of a program: the kernel schedules what can run.  Locks need
no more, since every thread takes a lock a bounded number of times and so the last
one waiting gets it; neither does the CAS loop, which fails only when another
thread's add has succeeded.  In the shell modules it is also assumed that the
shell goes on reading its input unless it ends (`ShellMust`), that what is typed
reaches the terminal, and nothing else: whether the shell writes, ends or when,
and whether the terminal hangs up, is `ShellMay` and `UserChoice`, without
fairness.  In the nodes `main` and the interrupt thread are scheduled and what is
sent arrives; the button is never assumed to be pressed, nor the server to leave.
The audit is sequential and has no liveness property.

### What the violated runs show

* `empty_line`: after a command, `commandPtr = 0` is followed by the `commandPtr++`
  of the loop, so that the first byte of the rest is never compared with the
  newline.  An empty line there becomes the first byte of the next command, which
  is then not recognised.  `LinesProcessed` shows that this is all that happens.
* `sensor_final`: the interrupt thread prints SHUTDOWN and goes on to close and
  exit while `main` prints and logs a sample, or shuts down itself.
* `relay_status`: `waitpid(WNOHANG)` may find the shell not dead yet although its
  pipe has hung up; its result 0 is not looked at and status 0 is reported.
* `audit_status`: lab3b.py:6-7 keeps status 1 for bad parameters and failing system calls
  and promises 2 for inconsistencies.  The level of a block that an INDIRECT row names is
  a string, which the reports of an invalid, reserved or duplicate block use as an
  index (lab3b.py:130-147): the audit of a file system with such a block ends in an
  exception, with status 1 and the rest unreported.  (Status 0 is wrong in another case, which has no run
  of its own: a `..` of the root that is not the root is printed, but `error_flag` is not
  set as it is for `.`, lab3b.py:112-115.  `StatusExplained` excepts it.)

What the passing runs had to say more weakly than one would wish is in the
properties themselves: an OFF line can stay inside SSL until another record comes
(`OffIsObeyed`); a burst of typing or of output can break a compressed stream, and
a compressed `^D` can wait for the next key (`KeysReachShell`, `OneEndEndsBoth`); the
audit overlooks the block number one past the end, a lost last inode, and, when
the free lists come late, inodes on them (`Overlooked`), and what it says of an image
is true only where lab3a has read what it prints (`Auditable`); logical offsets
are true only below first entries (`FirstOffsetsTrue`).  A client that sends keys to a server
that has gone may end before it has read the server's last output (`AllSentIsShown`).
At POLLHUP the relay and the server drop what the shell wrote beyond one read of 256
bytes: `OutputInOrder` and `AllSentIsShown` are about what is not dropped.

Two more statements of the repository do not hold of the unsynchronised programs
and have no run of their own: `SortedList.h:46-47` (deletion checks that both
neighbours point to the node; the code compares them with each other) and
`SortedList.h:71-76` (length checks all links; the code follows `next` only).

## 4. Proofs

Every theorem is about all values of the constants that the assumptions allow:
any number of threads, nodes, lists and keys, buffers and pipes of any size,
streams of any length.  The assumptions stand beside the constants they are about
and say what the code provides: counts are naturals and at least one thread runs
(`CountsAssumption`, `SizesAssumption`, `ListSizesAssumption`), `NULL` and
uninitialised memory are not cells (`PointersAssumption`), a buffer has room for two
bytes and a pipe for one (`BufferAssumption`, `BoundsAssumption`), and symbols that
stand for different bytes differ (`KeysAssumption`, `NodeAssumption`);
`SyncAssumption` and `LinksAssumption` list the variants of a program.  Each invariant
below was first checked by TLC on a small instance.

`InductionLemmas` is what the proofs share.  The induction theorems of the library
take an operator as a parameter, which the provers cannot instantiate; stated with
a set, `SetInduction` (from `NatLessThanWellFounded`) can be cited.  With it
`FlattenSeq`, a recursive function behind a CHOOSE, is shown to have its defining
equations, to append its last element and to keep types; so is `Rolled`, the parts of
a loop one after the other.  `Enumerates(s, P, g)` says that the sequence `s` has exactly
one element for each place in the set `P`, namely `g` of it, and is kept by
concatenation when the places are apart: it is how a sequence that a
recursion prints is compared with a set.

### The counter

`AddCounter_proofs`, for any subset of the `--sync` options:

* `TypeCorrect`, `MutualExclusion`, `NoUpdateLost`, `ReportIsZero`: `TypeOK`,
  `LockProtects`, `CounterAccounted`, `ReportsZero` always hold;
* `Refinement`: `ImplementsAtomicAdd`, the simulation of `AtomicAdd`;
* `LossesAreBounded`: `LossBounded`.

None of the invariants but `TypeOK` is inductive.  `CounterAccounted` needs
`LockProtects`, because a store writes back what was loaded earlier: `PcInv` says
that where no update can be lost a thread about to store still holds the value of
the counter, which is true because whoever else could store is kept out by the
lock or is not there.  `JoinInv` says that the threads `main` has joined are over
and those it has not created have done nothing; with it `Added` is empty at the
report.  `IInv` is the conjunction.  The steps of a thread are first reduced
(`ThreadEffect`) to what they do to the counter - add one, take one back, or
nothing - so that the invariant and the refinement share one case analysis, in
which cardinalities appear only once.

Without synchronisation a thread may hold a value from long ago.  `LossInv` bounds
it, and the counter, by the additions (`Ups`) and the subtractions (`Downs`) that
have been made so far, each a set of pairs of thread and turn.  What makes it
inductive is the small print: a counter that was never added to is 0, one that was
is above minus the number of subtractions, and a thread that is about to subtract
has added once and not taken that back (`LastLoss`).

### The lists

`ListPartition_proofs`, for every number of threads and nodes and every set of
keys.  First about the set, that is about any behaviour of `PartitionedSet` that the lists
can show, of which nothing else is used:

* `KeysAlwaysBalance`: for each key, as many nodes with it are on the lists as
  lookups of it are to come.  Its inductive strengthening adds that only nodes
  whose threads have inserted them are on the lists.  A lookup takes one node with
  the key from the lists and one (possibly another) from `Owed` (`ToCome`).
* `AtomicListsNeverFail`: hence no lookup misses, and the lists end empty.

then about the program with its pointers:

* `TypeCorrect`: `TypeOK`, by `Control` (each thread is at a label of its loop and at
  one of its own nodes, or at a sublist) and `Apart`;
* `OneAtATime`: `OneThreadPerList`, with `LocksTyped`;
* `NeverMixed`: `SublistsApart`, with and without locks.  `Apart` says that a link in a
  cell, and a local of a thread, never leads out of the sublist to which the cell,
  or the thread's key, hashes.  It is not about reachability, and so every store
  keeps it; that `Walk` stays in the sublist follows by induction along the path;
* `FreeListsAreSound`: `FreeListsSound`.  The invariant, `Shaped`, is that of each
  sublist there is a chain `c[0]` to `c[n + 1]`, from the head through cells with keys
  in order and back, in which every link is what it should be except for those
  the holder of the lock is working on: its label says which of the stores of its
  insertion or deletion at position *p* are done.  The stores at which the node
  joins or leaves the chain are the third of an insertion and the second of a deletion.  `StillRaw` says that nodes not
  inserted yet are untouched, so that an insertion finds no link to its node.

and, with both:

* `LocksMakeItAtomic`: `ImplementsPartitionedSet`.  With `Shaped`, every step of the
  program is an insertion, a lookup with its deletion, a miss, the final report, a
  failure, or nothing, seen from the set: an insertion is at its
  third store, by which a neighbour points back at the node (`empty3`, `link3`), a
  deletion at its second (`unlink2`), by which none does any more (`Linked`), and a thread that would end the process at `fail` has missed.
  `Joined` says that `main` looks at the lists when all threads are over.
* `KeysStayBalanced`, `NeverDiesOfCorruption`: so what has been proved of
  the set is true of the program.  With locks no lookup and no delete fails, no bad
  pointer is followed, and the lists are empty in the end.

`ListWhole_proofs`, about the program of lab2a:

* `TypesCorrect`: `TypeOK`;
* `NobodyElseInTheList`: `OwnNodesOnly`; `FindsWhatItInserted`: `DeletesWhatItInserted`;
* `NeverDiesOfCorruption`: the safety half of `EndsWell`.  With the lock the status is never 2,
  and a program whose threads have all been joined ends with 0: no deletion
  fails, because the list of the holder is linked both ways around the node (`HolderIsSafe`), and
  when all are done the lock is free and so the list empty (`AllDone`, `NoDeath`).

What the stores of an insertion or a deletion do to a list has been proved already,
of lab2b.  So a thread of lab2a is seen as one of lab2b with one sublist (`Part`, an
instance in which a deletion's argument is what a lookup has found): each of its list
steps is a list step there (`StepIsStep`), and the lemmas about `Working` and `RelinksIn`
apply.  What is different is the rest of the invariant, `Alone`: the holder of the
lock, which keeps it for all its calls, has in the list its own nodes up to the one it is
inserting or from the one it is deleting (`InList`), and a free lock means an empty list.

### The relay

`TerminalRelay_proofs`, for pipes and reads of any size, whatever is typed and
whenever the shell ends:

* `TypesCorrect`: `TypeOK`; `NoReadBlocks`: `ReadsDoNotBlock`;
* `ReportedOnce`: `OneExitReport`, at most one report, and one before every normal exit of a
  program with a shell.  It does not say that the shell has ended: after `^D`, EOT or a
  hang-up `waitpid(WNOHANG)` may find it running, and 0 is reported (`relay_status`);
* `OutputIsShown`: `OutputInOrder`, which leaves the echo of what is typed out of the display;
  `KeysAreSent`: `KeysReachShell`.

The invariant is in parts: `Loop` says which buffer is in use at which label;
`Answers` that what `poll()` has seen is still there, because only the relay takes
from these ends; `Ending` relates the
report to the shell's state, in the three places that notice its end.  `Shows` and
`Sends` say of the two directions where every byte is.  `Shows`: what has been shown, what is
in the buffer and what is in the pipe is what the shell wrote.  `Sends`: as long as the shell is
believed to be there, what was typed is a part that is processed, for which the right
bytes are in the pipe or read, and the part that is not; afterwards what was sent is
a prefix of what should have been.
`KeysAssumption` says that the bytes of the shell can be told from the echo of keys,
except for line ends and EOT; it is there so that the display can be read as two streams.

### The remote shell

`RemoteShell_proofs`, for buffers, pipes and compressed buffers of any size, whatever is
typed, with and without `--compress`, and whichever of the two programs, the shell and
the terminal goes when:

* `TypesCorrect`: `TypeOK`, and with it that a read never passes the end of `decomp_buff`;
* `LogMatchesTrafficAlways`: `LogMatchesTraffic`;
* `KeysReachShellAlways`: `KeysReachShell`;
* `AllSentIsShownAlways`: `AllSentIsShown`.  A client that ends by itself, neither at an EOT nor
  with its terminal, has read everything, or was about to send to a server that had gone.

None of them is inductive.  `SessionIsAccountedFor` is the invariant that is, `IInv`, in parts.
`Loop` says which buffers are in use at which label, `Answers` that what a `poll()`
has seen is still there, `Ends` with what unread a client can end, and at which label.  The others are
equations of sequences, each of which says of one stretch of the way where every byte is:
`LogSent` from the keyboard to the socket, `LogReceived` from the server to the client,
`Reaches` from the socket through `keyStream` to the pipe, `Shows` from the server through
`shellStream` to the terminal.  A step moves bytes from one place of an equation to the next,
and the proof that it is kept regroups a concatenation.  The difficult places are the two
calls of `inflate()`: what a call gives out is what was held and what came, or the
first part of it while the rest is held (`InflateEffect`); and a stream can only be `broken` by
a burst that is larger than the room of `inflate()` (`KeyBursts`, `ShellBursts`), which is
why the properties may except exactly those sessions.  Once a program has ended, the
equation of its side becomes that of a prefix.  `Uncompressed`, `Fits` and `Typing` are what the
types need beyond that: without `--compress` a token is a byte and nothing is held, so that a read
of 256 tokens does fit.

`KeysAssumption` says that keys are typed, and that the bytes of the shell can be told from
the echo; `RoomAssumption` that `decomp_buff`, of 500 bytes, takes one full read of 256
and not two.

### The command buffer and the nodes

`NetworkNode_proofs`, of the command buffer by itself, for every size from 2 and every stream:

* `RoomIsThere`: `RoomToRead` always holds, and so does `Fits`, that no read passes
  the end of the buffer.  The invariant is the two of them with the types of the
  sequences: a read takes what fits, taking a command out makes the rest shorter,
  and only `EndScan`, which empties a full buffer, goes back to `poll()`;
* `NoByteIsLost`: `BytesConserved`, the stream is what was taken out (`FlattenSeq` of the
  chunks), what is in the buffer, what has arrived and what has not;
* `CommandsAreLines`: `LinesProcessed`.  The invariant, `LinesInv`, adds what has been
  looked at (`Looked`: there is no newline before `commandPtr` but possibly the first
  byte, the one `empty_line` is about) and that, in a plain stream, the buffer begins
  where a line begins (`AtLineStart`).

They are proved of `BufferNext`, in which a read may return less than it could, so
that they are true of a buffer that is filled from TLS, too.

and of the three programs, for any stream and any moment at which the button
is pressed or the server leaves:

* `NodesAreTyped`: `NetTypeOK`, which says over TLS that the bytes inside SSL and the
  records behind them are what has arrived and was not read (`InSsl`);
* `NodesKeepTheBytes`: each step of a program is a step of the buffer or none
  (`BufferSteps`), so what is proved of the buffer is true in the programs;
* `LogIsTrue`: `LogTellsTheTruth`.  The log alone is not enough to go by: the
  invariant, `Story`, is that its last SCALE and its last STOP or START agree with
  `scale` and `run_flag`, and that `main` obeys nothing while it has a sample in hand.
  The button only adds SHUTDOWN, at any place;
* `OffIsTheEnd`: `OffThenShutdown`.  `Quiet` says, for every label of `main`, where ID,
  OFF and SHUTDOWN stand as long as the button has not been pressed; afterwards
  the property asks nothing of the lines.

### The summary and the audit

`Audit_proofs`, for devices, inode tables, directories and blocks of any size, any numbers in
their pointers, and every order of the groups of rows:

* `FirstOffsetsAlwaysTrue`: `FirstOffsetsTrue`;
* `ReportsAlwaysTrue`: `ReportsAreTrue`, nothing is reported that is not wrong;
* `NothingIsMissed`: `NothingMissed`, nothing that is wrong is left out but what is `Overlooked`;
* `StatusAlwaysExplained`: `StatusExplained`: status 2 comes with a report, 0 without one but for
  the wrong `..`, and an image with nothing wrong, with its rows as lab3a prints them, gets 0.

The first half is about lab3a and has no steps: it shows what the file is.  A place is the
kind of a row, an inode or number, and the path to a pointer or entry; `Places` is the
set of the places of an image, without any order.  `RowsListed` is the
lemma everything rests on: the rows of a file enumerate the places of its image, each
once, and the groups are in their order.  For `recurse_inode()` this is an induction
over three levels (`BlockListsBelow`, `RecursionListsBelow`), in which what lies below a pointer is
apart from what lies below its neighbours because the paths differ (`BelowInOneStep`), whatever
the pointers are - the same block may be reached twice, or a block may contain itself.
`ReferencesAre`, `BlocksListed` and `EntriesListed` carry this over to what the audit counts:
for an auditable image the `blocklist` of all rows enumerates `References`, which follows
the pointers and knows nothing of rows, and `direct_references` the entries.  So
a block occurs twice in the list of the audit exactly if two paths lead to it.

The second half is about the steps of lab3b.  None of the three properties is inductive,
as they speak of the end.  `IInv` has these parts:

* `FileGiven`: the file is that of the image, in that order, all the time;
* `Control`: where the audit is, and that the tables are exactly what the rows up to there
  say (`TablesUpto`): for the free inodes that is what makes an order matter;
* `StatusSound`: `error_flag` is set exactly by reports other than `DOTDOT`;
* for auditable images `Sound`, each report is one of the `Inconsistencies`; `Raised`, that no
  exception ends the audit of an image with nothing wrong, its rows in the usual order; and `Complete`, that what is wrong with the
  rows, blocks and tables that have been gone through is reported or overlooked.

`InconsistenciesAre` splits the inconsistencies of an image by the place at which the code can see
them (`RowFindings`, `BlockFindings`, `Unreferenced`, `Unallocated`, `Links`), and each
step is shown to report those of its place and no others (`RowStep` to `LinksStep`).

`ImageAssumption` says what mke2fs provides: the table of inodes is full and on the device, and
there are no more inodes than blocks, because lab3a prints both bitmaps up to the number of blocks.
`ImagesAssumption` is that an image has the fields that an image has; the numbers in it are arbitrary.

Proving this showed mistakes in an earlier form of the model that the images of the run had not:
`Auditable` did not exclude directories with entries behind an empty one, of
which lab3a shows only the first, and `LogicalOffset` was a CASE with overlapping guards, which
chooses any of them.

### What is only model-checked

* All liveness (`Terminates`, `EndsWell`, `EofEndsProgram`, `OneEndEndsBoth`,
  `LinesLeaveTheBuffer`, `OffIsObeyed`, `ButtonEndsProgram`, `PeerGoneEndsSampling`):
  fairness and ENABLED are out of the prover's reach.
* The four statements of the repository that do not hold, by the counterexamples of their runs.

Every safety property of the passing runs is a theorem.

## 5. What is abstracted, and what is left out

* Memory is sequentially consistent: the programs' races are modelled as
  interleavings of loads and stores, not as what a weak memory may add.
* Command lines, timing, the csv lines, the wording of messages and the failures
  of calls that the programs answer by exiting at start-up (`malloc`, `tcgetattr`,
  `socket`, mraa initialisation) are left out.  Failing `pthread_create` is not:
  it ends the process in the middle of the others' work.
* Writes to the display do not fail and do not block.  What the conversions of
  keys do is kept: a return or a newline is shown as both (`Shown`) and reaches the
  shell as a newline (`Forwarded`).
* Client and server are on one host, so what one sends the other can read, in
  order; the socket does not fill up.  Bytes that have arrived can be read after a reset, too.
* The contents of a zlib stream are the bytes that the tokens stand for.  A
  `deflate()` that is so far behind that it takes no more input, which needs some
  twenty full buffers in a row that do not compress, is left out, and so is a
  `--compress` that only one side is given.
* The times of day in samples, the temperature itself, times, owners and sizes in
  the rows, and the offsets in the reports of the audit are left out.

Not modelled:

* `lab0`: a byte copy with a signal handler; sequential, without state.
* `lab4a` and the build files have no logic.
* lab4c: a TLS record that arrives in pieces (`SSL_read` waits for its rest), a full
  socket, a connection that is closed in one direction only; that descriptor 0 is
  what is written to without `--log`.
* lab2: the bytes behind the keys, which `strcmp` reads because keys have no
  terminator.
* lab3: more than one block group (the code has none), a csv file that lab3a does
  not write; a `rec_len` of 0 in an entry of a directory, with which lab3a prints the same row for ever, and
  block numbers from 2^22 on, whose offset wraps around.

## 6. Plan

Done, in this order: the counter and its proofs; the set and the lists; the
command buffer and the sensor node; the shell, the relay and the remote shell;
`--compress` and the client's log; the network nodes; the summary and the audit;
then the proofs: the locks and the shape of the sublists and their refinement of the
set, the whole list of lab2a, the relay, the command buffer, the nodes, the bounds of
the unsynchronised counter, the remote shell, the summary and the audit.  Nothing of the
plan is left; what is not modelled, and why, is in section 5.
