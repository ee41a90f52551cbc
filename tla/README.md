# Models of the ossification programs

`src/` holds the programs of an operating-systems course: a table of dining
philosophers on POSIX threads, a MINIX character driver that keeps a secret, a
cooperative thread library, a replacement for malloc, readers of MINIX file
systems and a two-process pipeline. They do not talk to each other, so each has
a module of its own, an abstract specification where one is worth stating,
model-checking runs and proofs. The one exception are the
readers of MINIX file systems, of which there are two generations for the same
disks: `MinReaders` composes them.

## Inventory

| Component | State | Operations | What is hard | What makes it correct |
|---|---|---|---|---|
| **Dining philosophers** `assignments/program3/dining.c` | one mutex per fork, `stateChangeLock`, the array `philosophers[]`, a thread per philosopher | `snatchFork`, `dropForks`, `eat`, `think`, `printStateChange`, `main`'s create / join / cleanup | every interleaving; a mutex taken in one function and released in another, eight call sites away; writes of the array outside its mutex | neighbours exclude each other, no circular wait on any ring, no thread takes or loses a mutex that another one holds, although `main` releases one it never took, none is destroyed in use, the printed row does not change while it is printed, everybody is fed and the program ends |
| **Secret keeper** `assignments/secrets/secrets.c` | the buffer, its size, owner, the readers' place, their count, EMPTY / BEING_WRITTEN / FULL | open, close, read, write, ioctl, live update, restart | several descriptors opened in one state and closed in another; copies that fail half-way; a restart between any two requests | state, size, place, count and contents agree; the bytes of two writers are only mixed by a copy that failed; a wiped secret is gone |
| **Lightweight processes** `assignments/assignments/program2/lwp_main.c`, `magic64.S` | a library list and a scheduler list linked through the same structures, the scheduler in charge, two flags that pass between a thread and `lwp_start` | `lwp_create`, `lwp_exit`, `lwp_yield`, `lwp_start`, `lwp_stop`, `lwp_set_scheduler`, `tid2thread`, the default scheduler | structures freed and handed out again while lists may point to them; schedulers replaced at any time, which empty their pools or leave links of their own in the threads | the library's list holds exactly the live threads, the scheduler in charge no others, and all of them until a pool was emptied; the default scheduler is a round-robin queue; nobody starves |
| **Memory allocator** `assignments/assignments/program1/malloc.c` | the block list in the heap, the break, `availableMemoryInChunk` | `malloc`, `calloc`, `free`, `realloc` | long sequences of merging, cutting and growing the same blocks; sizes whose sum is not their span; the end of the heap | the list stays in order and coalesced; a client's range is never given to another, until `free` takes a client's bytes for a header; blocks lie below the break |
| **MINIX readers** `assignments/my_program5/` (`min_common.c`, `minls.c`, `minget.c`) | where the partition starts, the current inode, the tokens left of the path, how much of a directory or file was read, the output | find the partition, read the superblock, walk the path, read a directory, list it, copy a file | boundaries between direct, indirect and double-indirect zones; holes at each of them; deleted entries; two loops and one function called in two ways that hand on one count; a buffer whose bound is never looked at | what the path names through live entries is listed or copied, once and in order, and nothing else is |
| **Earlier minls** `assignments/assignments/program5/minls.c` | the same for a listing, in one function that calls itself | the same, without indirect zones | written a second time in another way | it lists what the later one lists, within a reach that has to be stated |
| **Pipeline** `assignments/assignments/lab1/main.c` | a pipe and who holds which end of it, two children, a file | `pipe`, `fork`, `close`, `exec`, `wait` | a full pipe, a copy of its end left open, a child that fails at any call | nobody waits for ever, and the parent's status is that of the whole |
| **Hello drivers** `assignments/hello/`, `HELLO/` | a counter of opens that only a log message reads | the course's sample driver, as handed out | none beyond the message | |

The rest of `src/` is project files of an editor, disk images, logs and
binaries handed out with the course.

The hazards, each at its line, are listed in `PROJECT.json` with the properties
that would catch them.

## Modules

| Module | Stands for |
|---|---|
| `Dining` | every thread of `dining.c`, and `main` |
| `DiningTable` | abstract: diners owed a number of meals, of whom neighbours never eat together |
| `DiningInv` | the inductive invariant of `Dining` |
| `DiningProofs` | theorems about `Dining` |
| `Secrets`, `SecretsProofs` | the driver; theorems about it |
| `Lwp`, `LwpProofs` | the library and its default scheduler; theorems about them |
| `LwpQueue` | abstract: a queue of thread ids that rotates |
| `Malloc`, `MallocProofs` | the block list and the break; theorems about them |
| `Allocator` | abstract: ranges handed out never overlap |
| `MinFs` | MINIX disks, and the reference: what a path names, what a file or directory holds |
| `MinCommon` | `min_common.c`: from the arguments to the inode, and the reader of directories |
| `MinTools` | `minls.c` and `minget.c` of `my_program5` |
| `EarlierLs` | `minls.c` of `program5` |
| `MinReaders` | the composition of both generations, and their properties |
| `MinReadersProofs`, `MinGetProofs`, `EarlierLsProofs` | theorems about what the later readers answer, what minget writes, and the earlier minls |
| `Pipeline`, `PipelineProofs` | parent, ls, sort and the pipe; theorems about them |
| `MC...` | the instances for TLC |

Some operators are introduced by a comment that calls them a *slip*. They are
no part of the specification: each is one definition as a plausible mistake
would have written it, and `PROJECT.json` ("mutants") says which property
fails when it takes that definition's place. So every property is known to be
able to fail.

### Dining

A step of a thread is what it does between two calls of pthread_mutex_lock or
_unlock (and the writes of the array between them), the grain at which the
C program's threads can observe each other. `pc[p]` names the point in
`philosophize` and the functions it calls: `lockLeft`/`lockRight` is
`snatchFork`, a label `say...` is the `safe_lock(&stateChangeLock)` and the
assignment after it, the label `show...` that follows is `printStateChange`,
which releases the mutex. `mainPc` does the same for `main`. `Even` is the test
`id % 2 == 0` on which the order of the forks depends. `NumCycles` is the
program's argument, `N` its NUM_PHILOSOPHERS. Not modelled: the random `dawdle`
(every delay is allowed anyway), the text of a row (`Cell` says what can be
told apart in it), the argument parser, and failures of pthread calls, which
are assumed to succeed.

### Secrets

The driver is single-threaded and serves one request at a time, so each
callback is one action. The buffer's bytes name the writer that put them there.
VFS is external: it reads only on descriptors opened for reading and closes
what it opened. Every copy between address spaces can fail (`Faults`), and one
from a writer that fails may leave any part of the request in the buffer
(`CopyFrom`), while `do_write` sets size and state all the same. `lastCopy`
remembers how the last one ended. A live
update (`lu_state_save` and `lu_state_restore`) or a restart can come between
any two requests. `open_for_reading`'s successful open of an EMPTY device is
not counted, as in the code.

### Lwp

One processor, so a call of the library is a step, and `where` says who has the
processor: `main`, the `currentThread`, or the loop of `lwp_start`. A structure
is an address; `free` leaves its fields as they were and `calloc` may hand the
address out again, so a dangling pointer shows. `Chain` is what a walk of a
list meets. The register file, the stack that `lwp_create` prepares and
`swap_rfiles` are abstracted to the change of `where`. Schedulers that a
program plugs in are external: a set of threads, `pool`, out of which `next`
picks any. `lwp.h` lets them do three things that the library has to live with,
and a constant says which schedulers do each: `shutdown()` empties the pool
(`Resets`), `init()` empties it (`Inits`), and the threads are linked through
`sched_one` (`Links`), so that each thread given back has a link to one of them or
none. `lwp_set_scheduler` calls the old one's `shutdown()` before it takes the
threads over, and the new one's `init()` after it has admitted them: `PlugIn`,
`Unplug` and `Replug` do the same. `defaultScheduler_admit` does not clear the link
of what it admits, so the last thread taken over may keep one behind the tail.
What the default list holds is therefore read up to its tail (`Listed`), while
the searches and the rotation follow the links as the code does. `dropped` is a
history of whether a pool with threads was ever emptied, `handed` of whether the
default list is as it was taken over. Three things end in states of their own:
`lwp_set_scheduler` of the scheduler already in charge, with threads in it
("crashed" for the default one, "hung" for any other), and `lwp_exit` of a thread
that `defaultScheduler_remove` searches for along a link from the tail back into
the list (`SearchForExited`, "hung").

### Malloc

Addresses and sizes are the code's numbers. `mem` maps the address of each
header of the list to the header; a walk of the list is the least set of blocks
that has the first and, from each at which it does not end, the next (`Met`).
Bytes that are no header are not tracked, except for one question: `free` reads
an `isFree` behind the last block. `touched` is the highest byte that was ever
part of a block; at or above it the heap is zero as `sbrk` left it, below it the
byte may be anything. If it is not zero the step does what the code does: it
merges the bytes as a header, whose numbers are any in `Garbage`, and so makes
them the last block's size and link (`FreedIntoGarbage`). `status` is "corrupt"
from then on, and calls may return any place or take away any pointer (`Stray`):
they walk along clients' bytes, and what they write there is not followed. A
header, a cleared or a copied byte beyond the break ends in "fault". `sbrk` may
refuse whenever it is called. Clients pass NULL or pointers they hold;
`free(NULL)` changes nothing and is left out, and `realloc(NULL, n)` is
`malloc(n)`.

### MINIX readers

The readers have no concurrency: what is hard is the data. So a run starts from
every disk and every command of a family (`Inputs`), executes the program and
compares what comes out with a reference in `MinFs` that is written from the
format of the disk rather than from the program: `ZoneOf` says which zone holds
part k of a file, `Contents` and `LiveEntries` what a file and a directory hold,
`Steps` and `Resolve` where a path leads, `Sectors` and `Partition` where a file
system starts.

`pc` is the point in the program and its variables are the code's: `base` is
`base_offset`, `ino` `curr_inode_num`, `rest` what `strtok` has still to
deliver, `i`, `k` and `total` the counters of the loops over zones, `done` the
`total_read` of `handle_indirect_zone`, which is another variable than the one
of its caller. `get_partition_offset` is `FindPartition`, one step per table;
`get_inode_from_path` is `Descend` and `MatchToken`;
`directory_entries_from_inode` is `StartDirectory`, `ReadDirectoryZone` and
`ReadIndirectDirectory`, one step per zone, and `OverrunBuffer` where the zone does
not fit the buffer any more, which the code does not ask; `output_file_contents` is
`OutputFileContents`, `CopyDirectZone` and `LeaveDirect`, and the calls of
`handle_indirect_zone` are `CallHandler`, `CopyIndirectZone` and
`ReturnFromHandler`. Each `exit(EXIT_FAILURE)` is an `Exit(1)`. What a
program does after it has written behind a buffer, or with memory it never set,
is undefined: `GoAstray` and `RunAstray` end it with either status and anything
printed (`Garbled`).

A zone of the file system is data or a table of zone numbers, depending on who
reads it, so a zone is a row of words (numbers) and a file's size is counted in
words; a directory's is counted in entries. Zone 0 is the boot block, readable
like any other, so reading a hole's number as a zone's shows. `EarlierLs` runs
after the later program, on the same disk with the same command; nothing is
shared but the disk, which neither writes. A command's `plain` and `apart` say
how it was typed: as `minls` without a directory, and with its numbers as words
of their own, as the usage texts show. `getopt` reads both forms; the earlier
program reads a number only when it is glued to its flag (`NumberRead`), and may
take the separate one for the image (`ImageMistaken`). Where the image is too
short for a superblock it goes on without one (`MissSuperblock`), and its
buffer, of half as many entries, is overrun by large zones and directories
(`Overfill`).

Taken from the world outside `src/`: a file system on the image is complete (the
reads of its zones and inodes are never short) and no read fails; the only path
of slashes alone is `/`. Byte offsets are `uint32_t` in the code and wrap at 4
GiB; the model counts sectors and zones and has no such end, so it stands for
images below that size. What else a disk and a command have to be is `SoundDisk`
and `SoundArguments` in `MinFs`, which `InputsAssumption` asks of every start of
a run and of a proof: a partition number is one of 0..3; entries lead to inodes,
and the root is a directory that is its own "."; a directory has all its zones
and each name once, and may be larger than the buffer; a file is no larger than
its tables allow, and each of them is on the disk or a hole. Inode 0, to which
the name of a deleted entry leads, is read from the end of the zone bitmap,
where a nearly full disk could show any mode; a directory there is ruled out.
Zone 0 may hold anything as long as what it names as a zone lies on the disk.
`BufferAssumption` says that the buffer of 1024 entries is overrun before a
directory needs its double-indirect zone, which the code skips. It is so for all
zones of a power of two of 512 bytes and more (with 512: 8 entries to a zone, 7
direct zones and 128 in the table make 1080 entries); MINIX blocks have 1024
bytes at least. It says nothing of the directories, and does not ask that zones
divide the buffer or fit it.

### Pipeline

`pc`, `result`, `readers` and `writers` are per process: where it is, how it
ended, and whether it holds `pipeFileDescriptors[0]` and `[1]`. The parent is
`main`, `doParentProcess` and `waitForMyKids`; a child runs `doLSProcess` or
`doSortProcess` up to its exec, and then `ls` or `sort`, which are external and
modelled from how the program uses them: `ls` writes lines to the pipe and is
killed when nobody can read them, `sort` reads until nobody can write, then
writes the file. A line is a count. Every call whose result the code looks at
may fail; `dup2` and `close`, whose results it ignores, succeed.

## Runs

Bounds are the constants of each `.cfg`.

| Run | Bounds | Shows |
|---|---|---|
| `DiningFive` | the program's own five philosophers, one round each | neighbours never eat together, no thread takes or loses a mutex that another holds, `main`'s release of one it does not hold finds it free, mutexes are destroyed unused, no gridlock, a stable row, and a fork shown in two hands is about to be dropped by one of them (2.05 million states) |
| `DiningLive` | three philosophers (the smallest odd ring), two rounds, fair threads | the program ends, the hungry eat, `Dining` implements `DiningTable` |
| `Secrets` | three descriptors, two users, a buffer of three bytes, faults | state, size, place, count and contents agree, also after copies that fail in any place; descriptors are interchangeable (379,520 states) |
| `SecretsWipe` | two descriptors, a buffer of two bytes, no faults | fails: the last reader's close does not always wipe |
| `SecretsUpdate` | the same | fails: a live update loses the secret's bytes |
| `LwpPlugged` | three structures, three pluggable schedulers (one empties its pool in `shutdown` and in `init`, two leave links of their own), ids up to 6 | the library's list holds exactly the live threads; the scheduler in charge no freed one, and all of them until one has emptied a pool; the default list ends at its tail; the current thread lives (281,939 states) |
| `LwpDefault` | three structures, ids up to 6, default scheduler, cooperation | everybody gets a turn, the list implements `LwpQueue` |
| `Malloc` | sizes 0, 20, 60, 100, four blocks, a heap of three chunks of 112 bytes | the list is in order and coalesced, pointers keep their blocks, `Malloc` implements `Allocator`; all of it until `free` takes a client's bytes for a header (179,836 states) |
| `MallocBreak` | the real sizes of a chunk and a header | fails: a block lies across the break after two calls |
| `MinReaders` | three direct zones, tables of two words, files of 0 to 18 words with every pattern of holes, directories of 2 to 10 entries with every set of deleted ones, of which those of 9 and 10 do not fit the buffer, every path of up to three names, two levels of partitions with numbers typed in both ways, images of 0 to 3 sectors | the buffer is overrun by the directories that do not fit and by no others; without one the tools succeed exactly for what is named, list it, start their copy with the file and end small files where they end, and the earlier program within its reach agrees (387,358 states) |
| `MinGetLong` | the same disks, files without holes of 7 to 10 words | fails: what needs the indirect zone is not copied as it is |
| `Pipeline` | four lines through a pipe of two, every failure | success is real, the end of the pipe is the end of the listing, nobody hangs, all end |

Why the bounds are enough. *Dining*: a philosopher interacts with two neighbours
and `main`; three make the smallest odd ring, five the program's. A second round
only matters to liveness and to what is left over from the first, which the run
with three covers; safety for all N and NumCycles is proved. *Secrets*: a stale
writer, an uncounted reader and a counted one are three descriptors; the owner
and somebody else are two users; three bytes give a partial read, and a request
longer than the buffer is among the sizes. *Lwp*: a list's removal cases are
first, middle, last and only, and a link behind the tail leads to the first, to
the middle or to the last itself: three structures. Ids up to six let freed
structures be handed out again while others live. A scheduler that empties pools
and two that keep links allow every change between the kinds, and one between
two of the same kind. *Malloc*: merging on both sides of a block takes three
blocks, with one beside them; two of the sizes fit each other's blocks without a
margin, the largest leaves one when it is cut. The chunk is scaled down so that
the heap's end is within reach of those calls; header and alignment are the real
ones. *MINIX readers*: the code tells zones apart by the loop that reads them,
and has a boundary between every two of these loops, another within the
double-indirect zone, and one in the middle of a last zone. With three direct
zones and tables of two, a file of nine zones crosses them all, and every
pattern of holes puts a hole on each side of each; the largest directory that
fits the buffer uses one of its two indirect zones, the next larger ones overrun
it at the second (that a list goes on over any number of indirect zones is
proved). A path of three names has a first, a middle and a last. *Pipeline*: a
pipe that holds fewer lines than there are fills up and is emptied again; that
its sizes do not matter otherwise is proved.

Deadlock is checked in the Dining and Secrets runs (`Ended` tells the end of
the process from a deadlock). In the Lwp and Malloc runs it is not: `main` may
just make no more calls, a program at the bound of ids or blocks stops, and a
fault ends it. Nor is it in the runs of the readers and the pipeline, whose
programs end; `NobodyHangs` is what the check would have said of the pipeline,
and more, since it does not take the end for an excuse while anyone is left.

### Fairness

`Dining!FairSpec`: weak fairness of `main` and of each thread, the operating
system runs every thread that can run. A mutex may be granted to any thread
that waits for it, in any order; weak fairness does not promise that a thread
ever gets a mutex that is taken and released again and again. That the
hungry eat all the same follows from the number of rounds being finite: the
neighbours run out of meals. `Lwp!FairSpec`: threads are cooperative, so a turn
is only promised when the running thread some time calls `lwp_yield`,
`lwp_stop` or `lwp_exit` (a thread that loops for ever starves the others, in
the code as well) and the loop of `lwp_start` goes on. `EveryThreadGetsATurn`
makes an exception for `lwp_stop`, after which the threads rest until the next
`lwp_start`. `Pipeline!FairSpec`: weak fairness of each of the three processes,
which the operating system schedules and which do nothing but go on; it says
nothing of which failures occur.

## Proofs

The proofs use the assumptions on the constants that the modules state:
at least two philosophers, a natural number of cycles; a finite set of
descriptors, a buffer of at least one byte; a natural number of lines, a pipe
that holds at least one; finitely many addresses of thread structures; sizes
that are natural numbers, a header at least as large as the alignment, and a
heap that starts below its limit; sound disks and arguments, zones of at least
one word and one entry, an entry buffer that is overrun before a directory needs its
double-indirect zone.

`DiningProofs` proves for every N and NumCycles that `IInv` is inductive
(`Invariance`), with a lemma per action (`...Keeps`). None of the safety
properties is inductive by itself. `NeighboursNeverEatTogether` speaks of the
array, which the mutexes protect only because of where each thread is between
its lock and its unlock: `ForkInv` ties the owner of a fork to the labels,
`ArrayLockInv` the owner of `stateChangeLock` to the printing thread, `HandInv`
and `StateInv` the array's fields to the labels (a hand shows its fork from the
assignment after the lock to the one after the unlock, and at no other time),
`CycleInv` the rounds and `MainInv` the life of the threads to `main`'s loops.
From `IInv` follow `TypeCorrect`, `NeighboursSafe`, `UnlocksSafe`,
`CleanupSafe`, `RowStable`, `TwoHandsSafe` and `Gridlock`. The last is the
argument about the order of the forks: on a ring where neighbours of different
parity take their common fork in the same position (both first or both second),
a philosopher that waits for its second fork waits for one who has it as a
second fork, too, and therefore can go on; on an odd ring the one pair of equal
parity does not close a circle. `TableSafety` is the safety part of
`ImplementsTable`: every step is a step of `DiningTable` or leaves it unchanged.
`UnlocksSafe` includes `main`: it prints the first row before any thread is created,
and the mutex it releases without having taken it is then free.

`SecretsProofs` proves the same way, for any number of descriptors and users
and any buffer, that the driver's state properties are together inductive, and
from it `TypeCorrect`, `PlaceSafe`, `WipeComplete`, `OnePiece`, `CountBounded`
and the action property `Frozen`. The count of readers is compared with the
cardinality of the open ones, which needs lemmas about opening
and closing one of a finite set (`ReaderOpened`, `ReaderClosed`).

`PipelineProofs` proves for any number of lines and any pipe that `IInv` is
inductive: `ReadersInv` and `WritersInv` say who holds which end of the pipe at
which label, `BirthInv` that children are born in order and the parent does not
wait before, `ResultInv` what each process has done by the time it ended well.
From it follow `SuccessReal`, `EndReal` and `HangFree`. The last is the argument
about the pipe: if ls waits for room, then somebody holds a read end, which once
the parent has closed its own can only be sort, and sort can read; if sort waits
with an empty pipe, a write end is held by ls, which can write or end, or by
the parent, which is on its way to closing it.

`LwpProofs` proves for any number of structures, ids and schedulers that `IInv`
is inductive. `QueueInv` says that the default scheduler's list is a queue, with
one predecessor at most for each thread and its tail as the only one that none
follows; `LibInv` that the library's list is linked and holds the live threads.
`QueueInv` speaks of the list up to its tail (`Ended`), and of the link behind
the tail only once the list is no longer as a plugged-in scheduler has handed it
over: rotation and admission write over that link before it counts
(`RotateWritesOver`, `AdmitWritesOver`), and a removal, when its search ends at
all, takes it over or leaves it behind (`RemoveEnded`). What a list holds is
`Chain`, the least set that has the head and is closed under the links, so that
admission, removal and rotation become lemmas about sets: what they leave is
closed, and nothing smaller is (`Prepended`, `Beheaded`, `Bypassed`;
`AdmitKeeps`, `RemoveKeeps`, `RotateKeeps`). `TidInv` says that no id is in use
twice and none is beyond the counter, `PoolInv` and `SchedInv` where the threads
are kept when a scheduler is in charge and when none is, with `dropped` for what
a `shutdown` or an `init` may have emptied; `FlagsInv` that a thread leaves one
message at most. From `IInv` follow `TypeCorrect`, `NobodyForgotten`,
`ListCloses`, `LiveThreadsFound` and `CurrentFit`, for schedulers of every kind.
The induction over the threads that `lwp_set_scheduler(NULL)` hands to the
default scheduler one after the other goes by a least counterexample
(`LeastNumber`, `QueueUpMakes`).

`TakesTurns` is the whole refinement of `LwpQueue`, which has no fairness, for
programs that plug in no scheduler of their own. `Chain` says what a list holds
and not in which order, so `IInv` is carried along with `InOrder`: nothing was
emptied or handed over (`Plain`), and there is a
`q`, from places to threads, in which each links to the next (`Follows`). An
admission puts one at its end (`AdmitFollows`), `defaultScheduler_next` moves its
first there (`RotateFollows`), a removal closes the gap wherever it is, at the
head, where no predecessor is found, or behind a predecessor, which takes over
the link (`RemoveFollows`). What a walk along the list meets is then `q`
(`WalkFollows`, `IdsFollow`), so the queue of ids before and after each call is
known, and the call a step of the queue (`CreateSpawns`, `DispatchChooses`,
`ExitLeaves`) or, with `swap_rfiles` and the flags, no step of it.

`MallocProofs` proves for any sizes, any chunk, any heap and any bytes of
clients (`Garbage`) that `Inv` is inductive: types, and `IInv` until `free` has
merged a header that clients' bytes spell (`NoFalseHeader`). Of what follows
that step nothing is claimed. `IsList` says that the headers are in address
order: the link of a block leads past its data and never past another header,
and only the highest is the last. `Apart` keeps free blocks from lying side by
side, `Holds` gives each pointer a block in use that is large enough for it, and
`Untouched` says that before the first chunk nothing is available and the break
has not moved. Address order is what the walks of the code are replaced by: a
walk finds the least block at which it may end (`WalkFinds`), so that
`findOwnerBlock` finds the block whose data a pointer is (`OwnerFinds`), in
whatever list. Then each thing that a call does to the list has a lemma: a block
is appended (`AppendKeeps`), the last one expanded (`ExpandKeeps`), a block cut
to size (`ReuseKeeps`), marked as free and merged to both sides (`AbsorbKeeps`,
`FreedKeeps`), joined with the one behind it (`JoinedKeeps`). The least obvious
of them is the cut that `realloc` makes in place: if the block behind is free
and was not joined all the same, then it is empty and this one has exactly the
size asked for, so that no free rest comes to lie in front of a free block. From
`IInv` follow `TypeCorrect`, `ListInOrder`, `PointersOwned` and
`FreeBlocksApart`; and `Implements`, the refinement of `Allocator`, which has no
fairness, for the steps up to and including the call that takes garbage for a
header: blocks in address order cannot overlap (`Disjoint`), so neither can what
two pointers give access to. The one induction, that a walk in address order
arrives, goes by a least counterexample.

`MinReadersProofs` proves for any sound disk, any arguments and any sizes of
zones and tables that `Inv` is inductive. It says of each label where the
program is: `Locating` that `get_partition_offset` has followed the numbers but
those left, `Walking` that `get_inode_from_path` has followed the names but
those left and stands at the inode they lead to, `Reading` that the buffer is
the beginning of the directory's list of entries, `Serving` and `Listing` that
what is copied or shown is what the path names. `AnswersWhatIsNamed` only speaks
of the end, so all of this is needed to get there. Of the reference it takes
that no name leads on from where there is nothing (`NoWay`), that a scan of the
live entries finds what `Child` names, which is at one place only (`ChildIs`),
and that a zone more of the directory in the buffer is the next part of the list
(`TakeZoneKeeps`); from the code, that the "." it puts in the place of an empty
path leads to the root (`WalkedLeads`). That the recursive functions of the
reference exist is proved, too (`StepsExist`, `SectorsExist`), as all inductions
are, by a least counterexample. That the buffer is overrun by the directories that
do not fit, and by no others, takes both directions: a zone is only read when
there are entries left, so what is read are no more zones than the directory has
(`ZonesCover`), and the directory is one of those the path leads through
(`WayThere`). From `Inv` follow `TypeCorrect`, `BufferHolds`, `AnswersRight` and
`ListsRight`, the last two for paths whose directories fit: after an overrun the
program may answer anything.

`MinGetProofs` adds `CopyInv`: what is written agrees with the file, and is as
long as the parts before the one that is read next, or longer than the file. The
code counts by other variables in each loop, and by fewer than it has written
after the first call of `handle_indirect_zone`; so the invariant keeps these
counts below what is written, and reads the next part off the label and the loop
counters instead. That the part a loop reads is the one at that place of the
file is `ZoneRead`. In this way `CopyStartsWithFile` holds in spite of the
dropped count. For it to be enough, the double-indirect zone must come to an end
behind the file: this is where a file may be no larger than its tables allow.
`SmallInv` does not need the tables, since a file in direct zones leaves no
other; `SmallFilesAreWhole` follows.

`EarlierLsProofs` proves `ListingsAgree`. Two programs that run one after the
other cannot be compared step by step; but what they have to print depends on
the disk and the arguments only (`Answer`), the later one prints it by `Inv`,
and the earlier one is on its way to it: `FindingPart` says that `initialize`,
within the reach of its assumption on equal partitions, is at the sector the
numbers lead to, `FindingFile` that `findActualFile` is at the inode the names
lead to, with the first zones of its directory read. The theorem speaks of the
commands and disks in `WithinReach` and no others: numbers glued to their flags, or
none given, since the earlier program reads no other number; a superblock on the
image, and zones that fit its buffer, since it fails to ask for either.

Only model-checked: all liveness (`Termination`, `HungryEats`,
`EveryThreadGetsATurn`, `AllEnd`, and the fairness of `ImplementsTable`), which is
out of this prover's reach. The violated properties are shown by their runs.

## Where code and comments disagree

* `secrets.c:168-172`: "there's nobody left reading us" is decided by a count
  that an open of the empty device does not raise and every close of a FULL
  one lowers (`SecretsWipe`).
* `secrets.c:324-335`: the state that a live update saves lacks the secret
  (`SecretsUpdate`).
* `malloc.c:312-337`: what is available is miscomputed (`MallocBreak`).
* `minget.c:126`: the count that the first call of `handle_indirect_zone`
  returns, "the total bytes read so far", is dropped (`MinGetLong`). Everything
  behind the direct zones is written again, from the double-indirect zone, where
  there is none from zone 0. The program, compiled and run on the images of the
  repository, writes 53,248 bytes of `Files/0010_Zones`, which has 40,960.

No run of their own have these, because a property above describes or uses what
the code does, or the disagreement is a plain one:

* `dining.c:107-109`: "how everybody's doing" can show a fork twice, since it is
  released before the hand is emptied. `ForkInTwoHandsIsBeingDropped` says when.
* `dining.c:56-57`: the mutex "for changing the philosophers[] array" is not
  held for `cyclesLeft` and the final state. `RowStable` proves that it does not
  show.
* `dining.c:375`: `main` calls `printStateChange`, which releases
  `stateChangeLock` (line 153), without having taken it. For a default mutex of
  POSIX threads that is undefined. `NobodyLosesAMutex` says that nobody holds it.
* `secrets.c:257-268`: after a failed copy size and state are set all the same, so a
  secret may consist of a part of one writer's bytes in front of another's.
  `SecretIsOnePiece` says that no copy that succeeds leaves such a mix.
* `lwp_main.c:296-305`: `shutdown()`, which `lwp.h:56` has "tear down any
  structures", is called before the threads are transferred: one that does loses
  all but the first.
* `lwp_main.c:325-327`: `init()`, which `lwp.h:55` has "initialize any structures",
  is called after the threads were admitted: one that starts with an empty pool
  loses all. `EveryThreadScheduled` says that only these two do.
* `lwp_main.c:70-79`: a thread admitted to the default list keeps the link that
  another scheduler may have left in `sched_one`, which `lwp.h` gives it to use. If
  the tail's leads back into the list, the search of
  `defaultScheduler_remove` (lines 92-95) for a thread that is not in it never ends.
* `lwp_main.c:84`: "One left, kill it" empties the list also when the thread that
  exits is not the one left, but one that a `shutdown()` has made the list lose.
* `malloc.c:130-134`: behind the last block `free` takes for a header whatever lies
  there. With `malloc(20)` twice, the second block filled with 0xFF, both freed,
  `malloc(20)`, and that `realloc`ed to 60 and freed, these are a client's bytes,
  which become the link and the size of the last block. The properties hold up to
  that step.
* `min_common.c:288-335`: the buffer's 1024 entries are no bound of the loop that
  fills it, and a zone may be larger than the buffer. `BufferHoldsDirectory` says
  which directories are written behind its end.
* `program5/minls.c:516-525`: the usage text (line 471) has `-p part`, but the
  number is read from behind the flag in the same word. `-p 1 image` reads partition
  0 of a file called "1", `-p 1 image path` partition 0 of the image.
* `program5/minls.c:203-205` and `223-225`: where the superblock cannot be read the
  program says so and goes on with one that was never set.
* `program5/minls.c`: the n-th partition is taken to start n sizes of the first
  one behind it, whatever its own entry says; a path through a regular file
  lists the file, which `images/Notes` says "minget and minls should refuse"; a
  name that is not found gives exit status 0, and one failure is `exit(256)`,
  which is 0 as well; a directory with more than 512 entries, as
  `BigIndirectDirs` has, or a large file on a disk with zones of more than 4k,
  is read beyond the end of the entry buffer; names are copied to memory one
  byte too short for them (lines 527, 533); started without a directory in its
  name, the program takes the path for the image. `EarlierAgrees` says where
  these cannot show (`WithinReach`).

## Not modelled, and the plan

* The hello drivers keep nothing but a counter of opens, which no decision
  depends on and only the text of a log message shows. There is nothing to state
  about it but its increment.
* The parts of the modelled programs that only parse options, print or format
  (`-v` output, permission strings, argument errors), and the failures of calls
  whose results the code does not look at.
* Every safety property of the passing runs is proved, and so are the steps of
  all refinements. Worth proving next: how long what `minget` writes can get
  (`MinGetLong` shows that it is longer than the file, no property says how
  much), and that the default scheduler stays a queue between two changes of
  schedulers, of which `TakesTurns` is the case without any.
