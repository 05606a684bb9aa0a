# A TLA+ development for gamecube-port

`src/sdk_port` is a host-side port of the GameCube SDK: C code that keeps the
SDK's structures big-endian in an emulated memory (`gc_mem.c`) and runs the SDK's
algorithms on them, so that tests can compare it bit by bit with oracles. This
directory models the parts of it that carry protocols, checks them with TLC and
proves what matters most with TLAPS. Paths below are relative to the repository.

    tlc -workers 2 -config mutex.cfg MCMutex.tla         one run
    tlapm ARQProofs.tla                                  the proofs of one module

## 1. Inventory

| Part | State | Operations | What makes it hard |
|---|---|---|---|
| Threads, `os/osthread.c` | current thread, 32 run queues with a bit set and a hint, scheduler-disable depth; per thread state, suspend count, base and effective priority, queue and links | create, resume, suspend, sleep, wake, yield, cancel, exit, join, disable and enable | every call may switch threads in its middle; suspension is orthogonal to sleeping |
| Mutexes, same file | owner, depth, sleepers; the mutexes a thread owns and the one it wants | lock, try-lock, unlock, release at death | priority inheritance along chains of owners that change while they are followed |
| Conditions, same file | sleepers; mutex and depth saved in the sleeper | wait, signal | release, sleep and re-lock are three steps of two calls |
| Message queues, same file | circular buffer, two queues of sleepers | send, jam, receive | wrap-around at both ends, who is woken |
| ARAM requests, `ar/arq.c` | two request queues, one pending request of each priority, callback flags | post, interrupt service routine | posts race the DMA interrupt; high requests cut low ones into pieces |
| ARAM allocator, `ar/ar.c` | stack pointer, array of block lengths | init, alloc, free | nothing is checked, addresses wrap |
| Alarms, `os/OSAlarm.c` | doubly linked list in order of due times | create, set, set periodic, cancel, fire | handlers come late; periodic alarms re-insert themselves while firing |
| DVD queue, `dvd/dvdqueue.c` | four circular lists with sentinels | push, pop, dequeue | dequeue works on the block's own, possibly stale, links |
| DVD files, `dvd/DVD.c` | file table of the disc, current directory, open file | path to entry and back, change directory, open, read | a table that is walked by spans of entries; callbacks run inside the call |
| Heap, `os/OSAlloc.c`, `OSArena.c`, `OSInit.c` | arena limits, heap descriptors, free and allocated cell lists | init, create, add, alloc, free, destroy, check | splitting and merging over long sequences, areas that adjoin |
| SRAM, `os/OSRtc.c` | lock, copy in RAM, dirty offset, sync flag | lock and unlock of either half, with or without commit | failed commits, two views of one lock |
| Card files, `card/card_fat.c`, `card_dir.c` | block table with counts and checksums, directory | allocate, free, look up, seek | the free count changes before the search; walks along chains |
| Card check, `card/CARDCheck.c` | two copies each of directory and table with update counters | verify | which copy is newer, pointers of an earlier mount |
| Card image, `card/memcard_backend.c` | bytes of the card, dirty flag, host file | insert, eject, read, write, flush | files that fail half way |
| Card mount, `card/CARDMount.c`, `card_bios.c` | control block: result, step, what is being read | mount in steps, unmount, probe, take and put the control block | callbacks that call back into the mount; every step may fail |
| EXI bus, `exi/EXI.c` | lock, selected device, transfer, attachment, IMM register | lock, select, transfer, sync, attach | shared with other drivers, each call may be refused |
| Video callbacks, `vi/VI.c` | two callbacks with tokens, retrace count | set, wait for retrace | callbacks that replace themselves |
| Modules, `os/OSModule.c` | doubly linked list in memory | link, unlink | what is linked is guessed from the links |
| Calendar and sticks, `os/OSTime.c`, `pad/PAD.c` | none | ticks to dates, `PADClamp` | signed divisions and narrow types at their edges |
| `si`, `ai`, mode registers of `vi`, other `os` files, `gx`, `mtx` | register images, single flags | | little: see section 8 |

The parts meet in few places. Messages and conditions are built on sleep and
wake-up. A mount uses everything the card has: it attaches and locks the EXI
channel, sends its commands over it, takes the SRAM lock to look up or to store
the flash ID of the card, and reads the system blocks segment by segment, each
with a lock of the channel of its own. Other users of the channel and of the
SRAM may hold them at any time between calls.

The port has no interrupts and no context switch. *A blocking call puts the
current thread to sleep and returns*, and the driver runs
`port_ProcessPendingLocks` after each call to finish the lock of a thread that
became current (`tests/sdk/os/osthread/property/osthread_oracle.h:14-18`).
Interrupts are calls made by the driver: `port_ARQInterruptServiceRoutine`,
`OSAlarmFireHead`. Transfers of the EXI bus and reads of a disc call back before
they return.

## 2. Modules

| Module | Models | Uses |
|---|---|---|
| `Scheduler` | the static helpers of `osthread.c`: run queues, dispatch, sleep, wake-up, priority arithmetic, as operators on a record | |
| `OSThread` | the thread, mutex and condition API, one action per function | `Scheduler` |
| `OSThreadProps`, `MCOSThread`, `MCMutex` | its properties; TLC instances for mutexes | `OSThread` |
| `OSMessage` | the message queue API | `OSThread` |
| `Mailbox` | what a message queue promises: a bounded sequence | |
| `OSMessageProps`, `MCOSMessage` | properties and refinement; TLC instance of messages, and of threads without mutexes | `OSMessage`, `Mailbox` |
| `ARQ` | `arq.c` | |
| `ARQService` | what the request queue promises: two lines, each request leaving once | |
| `ARQProps` | properties, refinement mapping | `ARQ`, `ARQService` |
| `OSHeap` | arena and heaps | |
| `OSHeapProps`, `MCOSHeap` | properties; TLC instance | `OSHeap` |
| `DVDQueue` | the command queues, with the refinement of `PriorityLines` | `PriorityLines` |
| `PriorityLines` | what they promise: a line per priority | |
| `DVDFs`, `DVDFsProps` | file table, paths, open and read; properties | |
| `MCDisc` | TLC instance of the DVD parts | `DVDQueue`, `DVDFsProps` |
| `EXI` | a channel of the bus, a call as an operator on a channel | |
| `Sram` | the SRAM's control block, a call as an operator on it | |
| `CardMount` | probe, mount, unmount, control block, beside clients of bus and SRAM | `EXI`, `Sram` |
| `CardFat` | block table, directory look-up, seek | |
| `CardCheck` | the check of the stored copies, and the image file | |
| `CardResults` | the result codes of the card library | |
| `MCCard` | TLC instance of the card: mount, files, check and image | `CardMount`, `CardFat`, `CardCheck` |
| `OSAlarm` | the alarm queue, with the refinement of `AlarmClock` | `AlarmClock` |
| `AlarmClock` | what it promises: a line in the order of due times | |
| `ARAM`, `OSModule`, `Video`, `Calendar`, `PadClamp` | the small parts of those names | |
| `Bookkeeping` | modules beside video callbacks, with their property | `OSModule`, `Video` |
| `MCDevices` | TLC instance of alarms and small parts | these seven |
| `SequenceFacts` | induction over numbers, iterations, and facts about lists; all the proofs but those of requests use it | |
| `OSThreadProofs`, `PriorityProofs` | theorems about threads and mutexes, with what each helper of the scheduler leaves behind; about inheritance and preemption | `OSThreadProps` |
| `OSMessageProofs` | theorems about message queues, with the refinement | `OSMessageProps`, `OSThreadProofs` |
| `ARQProofs` | theorems about the ARAM requests, with the refinement | `ARQProps` |
| `OSHeapProofs` | theorems about the heaps | `OSHeapProps` |
| `CardProofs` | theorems about mounts (SRAM, bus, answers) and about the files of a card | `CardMount`, `CardFat` |
| `DeviceProofs` | theorems about the ARAM allocator, the check and the image of a card, DVD queues and reads, modules, video callbacks and alarms | `ARAM`, `CardCheck`, `DVDQueue`, `DVDFsProps`, `Bookkeeping`, `OSAlarm` |

`MCDisc`, `MCCard` and `MCDevices` put parts side by side that share no state a
model of one needs of the other, `MCMutex` and `MCOSMessage` two kinds of
programs each. Their variable
`part` chooses one for a whole behaviour, so that a run is the sum of its parts
and not their product.

### How the threads correspond to the code

A linked list is a sequence of threads; a queue is named by what it belongs to
(a run queue by its priority, a mutex or condition by the object). The record
`sched` holds `port_OSThreadState` and the thread fields the scheduler moves.
The other variables are the mutex fields (`owner`, `count`), the owned-mutex
lists (`owned`), `PORT_THREAD_MUTEX` (`waiting`), `PORT_THREAD_VAL` (`val`, read
as an `s32`), the detach attributes and the active list. The list of active
threads is a set: its order is never read.

Each API function is one action, with everything it calls: a cancel removes the
thread from its queue, updates priorities, releases its mutexes one after
another with a reschedule after each, and reschedules at the end. A turn of the
loop in `ProcessPendingLocks` is an action of its own, and no call comes between
two turns (`Settled`), which is what the driver does; the turns are separate so
that `LoopEnds` can speak about them.

The guards `Program` and `MayBlock` are the discipline of the property tests
(`osthread_property_test.c:584-591, 664-668`): a program calls from a thread
that really runs, and does not block while the scheduler is disabled. The default
thread is not cancelled and does not exit, as in those tests. A NULL pointer the
code would follow sets `fault`, after which nothing happens: the process is dead.

A chain of owners is followed for at most twice the number of threads
(`ChainBound`). Each round of the code's loop either stops or changes a
priority to the wished one, so it cannot go round a cycle more than once more.

### How the request queue corresponds to the code

`arq` is `port_ARQState` with its NEXT lists as sequences and the request
structures of the clients. The code logs transfers in `dma_log`; the model keeps
those started and not completed, which is what the hardware behind
`ARStartDMA` sees. Completion of a transfer and the interrupt are one action.
`job` and `moved` are history variables: what the client asked for and how many
of its bytes have moved. u32 arithmetic wraps at `Word`. A client does not post
a request that is outstanding and asks for ranges that lie in memory.

### How heap, disc and alarms correspond to the code

Here the links are what may go wrong, so they are kept as the code keeps them.
`OSHeap` has memory: `cells` maps every aligned address to the header that would
be read there, and lists are walked from the descriptors. Programs write over
the blocks they hold (`Fill`), so a header that is read inside a block is
garbage. Addresses and sizes are words: sums wrap at 2^32 and
`OSAllocFromHeap` compares sizes as signed numbers (`S32`). Memory begins at
`MemBase`; where there is none a load reads zero and a store is dropped, as
`gc_mem_ptr` has it. `areas` and `blocks` are history: what each heap was made
of, what the program holds. Programs make heaps of areas that are disjoint and inside the
arena, and free a block once and to the heap it came from; the code checks
neither. A call that finds nothing to do is no step.

`DVDQueue` keeps `next` and `prev` of blocks and sentinels; a block that left a
queue keeps its links, as `dvdqueue.c:118` does. The driver queues only blocks
that do not wait, and dequeues only blocks that do: it asks
`DVDIsBlockInWaitingQueue` first, as the property test does. A second dequeue of
a block, which would follow stale links, is not modelled.

`DVDFs` keeps the table of the disc by entries: a directory has its parent and
the entry behind its last one, a file its place and length. A path is a
sequence of names, slashes and dots. The table comes with the disc; without one
the path list of the tests stands in for it. Reads come from the test files in
both cases, as in the code. `read` is history: the last read.

`OSAlarm` keeps handler, times and links in the alarms. A program creates an
alarm before it uses it, and sets it only while it is not set (the property test
does the same). `PassTime` is the clock; `OSAlarmFireHead` may come any time
later.

### How the card corresponds to the code

A mount is one call: the callbacks run before the call that starts them
returns, and each is the last thing its caller does. So `pc` names the function
that runs next and the result it is given, and calls from outside wait for it to
be idle (`Quiet`). Each question to the card (identity, status, probe, whether a
transfer works) is a fresh choice, so the card may be pulled or exchanged at
every point. `client` and `sramUser` are other drivers of the bus and users of
the SRAM: they use what they hold in any order, and give it back when they like.
`area` and `call` are history: what was read into the work area, and how the
last accepted mount was answered.

Two paths of the code end in a card that is busy for ever, and the model shows
them as they are (`waits`): a mount that finds the channel locked returns READY
and waits for a callback that `EXI.c` never calls, and the unlock that the stub
of `__CARDUnlock` does not start keeps card and channel. A third follows a NULL
that the SRAM lock returned (`fault`), which happens only while a client holds
that lock.
Not reachable, and not modelled: the vendor check (`IsCard` refuses `0x80000004`
before it) and the result UNLOCKED.

`CardFat` is the block table with its counters and checksums. What writes the
directory is not in `src/`: its callers appear as `CreateFile`, `DeleteFile`,
`OpenFile`, `CloseFile`. `CardCheck` is the check at a mount; writing the copies
is also not in `src/`, so `WriteCopy` is external: a console writes the copy
that is not the newest and may be switched off before it is whole.

The image has a file that may open neither for reading nor for writing, of which
`fread` may get only a part, of which `fwrite` may accept only a part, and whose
last bytes may not have arrived when `fclose` returns. Of these the code notices
the first and the third. `lost` is history: the last reading or
writing of the file failed and the code did not notice.

## 3. Runs

| Run | Question | Distinct states |
|---|---|---|
| `threads` | Do queues, run bits, hint and current thread agree after every call, do equals take turns? Is the circular buffer with its sleepers the mailbox? | 222,027 |
| `mutex` | Over two mutexes: do ownership, sleepers and death agree, is inheritance right, what does a wait on a condition do to it, and does nobody with a better claim miss the processor, also while the scheduler is disabled for a time? | 321,954 |
| `cond` | Do release, sleep and re-lock on a condition keep depth and ownership, and does the re-lock loop end? | 888,724 |
| `arq` | Do post and interrupt keep the engine busy with the right bytes, does the queue implement the service, does every request complete? | 39,253 |
| `heap` | Do the cells always divide the memory of the heaps exactly, and does the code's own check agree? | 42,149 |
| `disc` | Do the command queues implement a line per priority, does every path lead to the entry it spells and back, do reads stay in their file? | 12,790 |
| `card` | How is every mount answered, what does it leave locked, what has the SRAM saved? Do files keep their blocks, does a mount work with the newest whole copy, is a clean image saved? | 684,017 |
| `devices` | Do alarms implement the line of due times, do audio blocks, modules and callbacks stay in order, is the arithmetic right at every value? | 172,204 |
| `count` | (violation) Does an owned mutex have a positive count? | |
| `joinval` | (violation) Is what a join returns an exit value? | |
| `overrated` | (violation) Is a thread's priority its effective one? | |
| `large` | (violation) Does a heap give away only memory that is there? | |

Deadlock is checked except where the system may stop: in `mutex`, `cond` and
`card` a fault is the end of the process (what may lead there is
`NoNullDereference` and a part of `SramKept`); in `heap` a program may have
nothing left to do.

### Properties

*Scheduler.* `RunQueuesExact`: one queue per thread, exactly while it sleeps or
could run, and run bits, hint and current thread agree with the queues.
`TurnsInOrder`: first come, first served within a priority, but for the turn that
the death of an owner of several mutexes can cost (see section 4; the threads of
the run `threads` own none, so there nobody loses a turn, and the exception is the
proof's).

*Mutexes.* `OwnershipOK`: the owner field, the owners' lists and, for a free
mutex, the depth agree.
`NoOrphanMutex`, `NoLostWakeup`: no death or release leaves a mutex to the dead
or its sleepers asleep. `PriorityIsEffective`: a thread that is not suspended never
has less than the better of its own priority and those of the sleepers it
blocks, has its own when it owns nothing, and has exactly what it has a right to
where no program waits on a condition. `InheritanceExact`: where programs do,
the only way to more than that is a thread that owns a mutex and sleeps on a
condition. (The run `mutex` has a condition, so there exactness is checked through
`InheritanceExact`; that it holds without conditions is proved.) `PlacesFollowPriority`:
whoever inherits, is suspended or resumed while it is linked is where its new
priority puts it, in the run queue of that priority with the bits to match, or
among sleepers in order, which is what lets the code look at the first one only.
`NoNullDereference` states the two
situations in which the code follows a NULL pointer: cancelling a thread in a
cycle of waits (a wait on a condition counted as one for the mutex to be locked
again), and suspending, resuming or cancelling a sleeper of
`OSWaitCond` while its mutex is free. `NoMissedPreemption`: with the scheduler
enabled no call creates a better waiting thread, unless its caller gave up a
priority it had no right to (see section 4). `TypeOK` is the type invariant.

*Conditions.* `RelockRestoresDepth`: the depth survives the wait.
`LoopEnds`: each turn of `ProcessPendingLocks` leaves fewer threads with a lock
to try, so `while (1)` ends.

*Messages.* `ImplementsMailbox`, `NobodySleepsInVain`.

*Requests.* `OneTransfer`, `NeverStalls`, `CallbackOfServed`, `NextPart`,
`HighPreempts`, `ImplementsService`, and the liveness of both priorities.

*Heap.* `Partitioned`: free cells and the blocks held cover the heap without
overlap, and a block is larger than was asked for by less than a small cell.
`CheckHeapExact`: `OSCheckHeap` never finds a fault and its sum is that of
maximal gaps, so neighbours always merge. `BlocksUntouched`: no call writes into
a block that is held.

*Disc.* `QueuesAreLines`: the four lists implement `PriorityLines`, also with
stale links. `PathsMeanEntries`: a path leads to the entry it names and to none
other, the path of the current directory leads back to it and is cut just when
the room is too small. `ReadsInside`: a read stays in its file.

*Card.* `MountsAnswered`: exactly one answer per mount, and READY only with the
whole work area. `BusReturned`: however a mount ends, the channel is as its
clients know it. `SramKept`: a commit that failed is made up by the next one, of
either half.

*Card files.* `FilesKeepBlocks`: chains, free blocks, free count, checksums,
open files and look-ups agree. `NewestSurvives`: a mount works with whole copies
only and with the newest; its one exception, the wrap of the counter, is stated
in it. `CleanMeansSaved`: an image that is not dirty is the file, unless the code
overlooked a failure (see section 4).

*Devices.* `ImplementsAlarmClock`: the linked list is the line of due times.
`AramStacked`: blocks lie end to end whatever wraps. `BookkeepingExact`: the
module list is what was linked, tokens tell callbacks apart. `ArithmeticExact`:
dates follow the calendar, times add up, sticks stay in the octagon.

### Bounds

*Threads.* Three threads are the default one and two that are created, of equal
standing (symmetry over them, and over the mutexes, is used for safety runs only): enough for an owner, a
sleeper and a third that overtakes, suspends or kills, and for a chain and a cycle of
two owners. `mutex` has two parts. With two mutexes and three priorities, one
thread of each, a promotion has somewhere to propagate; threads are suspended
and resumed there at every point. Then a condition joins the two mutexes, which
is what a priority needs to go to an owner nobody sleeps for; here nobody is
suspended again, two priorities are enough, the default thread only signals
(`cond` lets it wait), and the scheduler is disabled and enabled at any point.
`MaxSuspend` 2 (`threads`) distinguishes the last resume from others,
`MaxDisable` 1 (`threads`, `mutex`) the disabled scheduler, `MaxCount` 2 (`cond`)
a recursive lock. `threads` has two parts: every call without messages, and
messages with threads that are suspended once and die. In `cond` programs use
mutexes and the condition only. Two message slots make `first` wrap both ways with one and two messages.

*Requests.* Chunks of 2 in a word of 8 with lengths 0, 2, 5 give an empty
request, one of exactly one chunk, and one of three transfers whose last one
wraps the length below zero and the source beyond the word. Three requests allow
one in service, one interrupted and one waiting.

*Heap.* `Align` is 4 instead of 32 and words have eight bits, with memory in their
upper half (`Half` and `MemBase` are 128). Two heaps over areas of four, two and two
units, of which the first two adjoin, with limits that are not aligned: heaps can be made,
extended across the seam, destroyed and made again, cells split and merge on
either side. Sizes 4 and 5 need one unit or two behind the header, 200 is negative
and refused; the run `large` asks for 124, which rounds up to 128.

*Disc.* Three blocks in two of the four queues give a block with neighbours on
both sides and stale links to either queue. All tables of three entries and some
of four reach two levels of directories with files before, in and behind them;
paths have up to five pieces. `U32` 8 lets the end of a read wrap.

*Card.* Two segments a block instead of 16, with all the blocks. The six ids are
two cards, and ids with a bad low part, a size that is none, a sector too large for
the size and a set upper half. `cBlock` 8 leaves three data blocks, fewer than two
files of two need, and enough for one whose blocks do not adjoin; 16-bit values are taken modulo 16 (`Word`) and 8 (`Half`
is 4), and `MaxSerial` 10 lets the counter wrap. Images of one and two bytes may
be taken out and put in again with the other size.

*Devices.* Three alarms give a middle one; `MaxTime` 5 spans two periods of 2 and
one of 3; starts lie before, at and after the present. Four array entries and
lengths 0, 3, 7 from base 5 wrap at 16. Four modules have a first, a last and two
between. Two numbers for three functions of the host make the table overflow.
The arithmetic is checked for every stick position, 65536 days (1890-2069) and
65536 moments (1935-2064). `MCView` leaves out what is never read of an alarm
that is not set, and the start of an alarm without period; alarms and modules
are symmetric, and no liveness is checked here.

### Fairness

Only `ARQInterruptServiceRoutine` is fair (`FairSpec`): the hardware completes a
transfer it was given. Clients are not fair, they need never post.
`LowServed` assumes that the high line is empty again and again: the code serves
high requests first without bound, so a low one may otherwise wait for ever.
Nothing else has fairness: the port has no clock, and calls, the firing of
alarms and the giving back of locks come from outside. That a mount comes to an
end needs none, it is one call.

## 4. Findings

* `count`: after an ordinary contended lock that `ProcessPendingLocks` completes,
  the mutex has count -1. `saved_count > 0` at `osthread.c:971` is also true of
  the default value `0xFFFFFFFF` of `val`. The unlock then counts to -2 and never
  frees the mutex. The oracle contains the same lines, so comparison does not
  show it; its own `oracle_OSCheckMutex` (`osthread_oracle.h:868-870`) would,
  but the test that calls it locks only free mutexes.
* `joinval`: a non-detached thread cancelled in `OSWaitCond` is joined with its
  lock depth for an exit value; `osthread_oracle.h:798-800` says this cannot be.
* `overrated`: a thread can run at a priority nobody passed on to it. The walk
  along the owners takes a thread that sleeps on a condition for a sleeper of the
  mutex it will lock again (`osthread.c:292-296`), because `OSWaitCond` sets the
  same field. `osthread.h:29` calls the field the effective priority. When such
  a thread unlocks and loses the priority, no dispatch follows either.

* `large`: a size from 0x7FFFFFC1 to 0x7FFFFFFF passes the first check of
  `OSAllocFromHeap`, is 0x80000000 or more with its header rounded up, and is
  compared as a signed number (`OSAlloc.c:258, 269-275`): it fits the first free
  cell, whatever that has. The cell is cut at cell + 0x80000000, outside memory,
  and the program gets a block of a few bytes. The oracle refuses at the same
  point (`osalloc_oracle_offsets.h:305`), and the test's README (line 100) asks
  the port to refuse where the oracle does; the test never asks for such a size.

Everything else holds in the model of the code as it is; the properties are
stated so that they are true of it: `PriorityIsEffective` holds also in states
with a negative count, and `OwnershipOK` asks for the depth of free mutexes only. Where the code does
something a reader may not expect, and no text of the repository says otherwise,
the property states it as an exception:

* A thread that has more than it has a right to (finding `overrated`) is the
  exception of `PriorityIsEffective`, `InheritanceExact` and
  `NoMissedPreemption`.
* A thread that dies with several mutexes wakes the sleepers of each and
  dispatches after each (`osthread.c:402-412`). Who is dispatched after one
  release and loses the processor to a better thread woken by the next is the last
  of its run queue, though it was the first and has not run (`ReleasesSeveral` in
  `TurnsInOrder`). `OSExitThread` and `OSCancelThread` only: no other call
  dispatches twice.
* The update counters of the stored copies are compared as plain signed numbers
  (`CARDCheck.c:148`): when the counter wraps, the last update is lost
  (`Wrapped` in `NewestSurvives`).
* A mount clears `current_dir` and `current_fat`, which nothing reads, and not
  `current_dir_ptr` and `current_fat_ptr`: after an earlier mount the copies are
  not brought to the newest state (`fresh` in `NewestSurvives`).
* The two ways to a card that is busy for ever (`waits` in `MountsAnswered` and
  `BusReturned`), and `OSGetProgressiveMode` reading through NULL (`SramKept`).
* `gc_memcard_flush` returns 0 and clears the dirty flag when `fwrite` accepted all
  bytes, without a look at what `fclose` returned (`memcard_backend.c:123-126`),
  and `gc_memcard_insert` takes a failing `fread` for the end of the file and fills
  the card up with 0xFF, clean (lines 41-46): the next flush writes that to the
  file. Its `fclose` goes unchecked too (line 37). These failures are `lost` in
  `CleanMeansSaved`; the header promises "best-effort".
* A periodic alarm that fires at its own start instant is due again at once: a
  start equal to the present counts as a beat (`NextBeat` in `AlarmClock`).

## 5. Proofs

### Threads

`OSThreadProofs` proves, for any threads, priorities, queues, mutexes,
conditions and bounds, every safety invariant of the threads but
`PriorityIsEffective`: `TypeOK`, `RunQueuesExact`, `PlacesFollowPriority`,
`OwnershipOK`, `NoOrphanMutex`, `NoLostWakeup`; and the action properties
`RelockRestoresDepth`, `LoopEnds` and `TurnsInOrder`.

That and the depth of a free mutex need nothing of the scheduler. The
strengthening is `WantsAnothers`: nobody owns the mutex it has still to lock.
Without it a re-lock could be a recursive lock, and the count not start from
zero.

The others are inductive only together (`ThreadInv`). The lists stay exact only
if a thread that is taken from a queue was in it; an unlock wakes all sleepers
only if owner and lists agree; and a death frees what it should only if the
owned list names every mutex of the thread. `ThreadInv` says these, and two
things of its own: bits, membership and queue fields in a form that speaks of
members and not of places (`Exact`), and that a current thread that does not run
has the hint set (`Hinted`).

Handlers take threads out of queues, walk and put them back, so the lists are
not exact inside a call. `Exact(s, off)` says that they are but for the threads
in `off`, which belong into a queue and are in none. The first part proves of
each helper what it does to `Exact`, to the hint and to what it must leave
alone; the handlers of `OSThread` are then chains of such facts. A walk along
a chain of owners keeps everything but priorities and places (`SameThreads`),
through any number of links and round any cycle.

Walks and the waking of a queue are iterations, so these proofs need induction
over data. The library's induction theorems take an operator as a parameter,
which the provers cannot instantiate. They can instantiate a set:
`SequenceFacts` derives from the library's facts on finite sets that a set of
numbers which contains 0 and is closed under successor is all of `Nat`
(`SetInduction`, and `BoundedInduction` for a range), and each proof says of
which set.

A turn of the loop in `ProcessPendingLocks` that gets the lock takes its thread out of
those with a lock to try; one that does not puts it to sleep. It wakes nobody:
whoever slept sleeps on, so no thread comes to them, and a finite set that lost
an element has fewer (`LoopEnds`).

`TurnsInOrder` compares places in the run queues before and after a whole call, and
inside a call they are not in order: a walk takes threads out and puts them back
at the end. What holds at each point is `InTurn(s0, s, robbed)`, between the state
s0 before the call and the present one: of two threads that wait in s for a
priority, one that waited for it in s0 is before one that did not, or was behind
it (`Ordered`); nobody runs whom one of his priority preceded (`Unjumped`); and
nobody sleeps who waited (`Drowsy`), so that a wakeup puts only newcomers behind
the others. A walk ends at the first runnable thread whose priority it changes, so
it moves one at most, to the end of another queue. A dispatch keeps
`InTurn` if nobody has got the processor since s0 (`Fresh`): whom it preempts ran
before the call and was in no queue. A second dispatch can undo the first. Where
it comes after one that left nobody better waiting and nothing has happened since
(`Calm`), it does nothing; where more has been woken in between, the thread it
preempts may have been the first of its queue, and `robbed` says so. Only the
release of several mutexes at once is such a sequence. The attempt to prove the
property without that exception found it.

### Priority inheritance

`PriorityProofs` proves `PriorityIsEffective`, through any chain or cycle of
owners. `PriorityInv` adds to `ThreadInv` and `WantsAnothers` that a sleeper of
a mutex says that it wants it, and a suspended sleeper has the lowest priority
(`SleepersKnown`), and that everybody who counts is right (`Fair`): has no less
than it has a right to, and no more without a reason.

The property breaks and is repaired inside one call, so the proof is about the
walk. What a thread has a right to depends on its *situation*: base priority,
heirs (the sleepers of its mutexes), whether it counts, whether it is *loose*
(it may have more, because programs wait on conditions). No walk changes the
situation; it is a sequence of functions from threads to priorities, one point
of which changes at a turn. Before each turn all threads but the next are right.
A change that raised a priority (`Rising`) moves the next thread to the same
priority b, and each such turn adds to the threads that have b or better; one
that lowered it (`Falling`) takes from those that have exactly the old one.
Either count is bounded by the number of threads, so the walk is over within
`ChainBound` turns and everybody is right, or it has come to a suspended thread
or to the end of the chain. That a walk goes to those who inherit is `Links` and
`Straight`; where they do not, the thread is loose. The handlers are then
compared before and after the walk: who is not touched stays right
(`AlikeRight`).

### Preemption

The last part of `PriorityProofs` proves `NoMissedPreemption`. *Missed* means
that somebody better than the current thread waits to run (`Missed`); inside a
call that is allowed as long as the hint is set (`Alert`). `OSThreadProofs`
proves of each helper that it heeds this: a state in which nobody better waits,
or the hint is set, is led to such a state (`Heeds`), and what moves a thread
into a run queue sets the hint. A dispatch with the scheduler enabled leaves
nobody better waiting, because it takes the first of the best queue
(`BestIsLeast`). So each handler that ends in a dispatch is done, whatever came
before.

The argument needs `PriorityInv` at one place. `OSUnlockMutex` may lower the
priority of its caller and does not dispatch for that; it dispatches if it woke
somebody. If the priority it falls back to is worse than the one it had, and
the thread had a right to the old one, it had it from a sleeper of the mutex
that it releases. That sleeper is not suspended, so its wakeup moves it into a
run queue and sets the hint. A thread without a right to its priority (finding
`overrated`) is the exception that the property names.

### The NULL thread

`NoNullDereference` is proved next to it. Three facts make it up.

A new priority kills only a sleeper that is in no queue (`SetEffectiveFault`):
the code unlinks it from the queue that it has not. Between calls there is none;
inside a call it is the one that `OSCancelThread` has taken out.

A walk goes from a thread to the one it waits for. If it dies, it came to the
thread taken out, from where it started: the owner that this thread waits for.
The threads on the way are a set each of which but the last waits for another of
the set (`Leads`, a set in the place of a path, so that no induction over
sequences is needed); with the cancelled thread's own wait it is a cycle
(`Deadlocked`).

An owner to be told is NULL only if the sleeper wants a mutex that nobody owns.
A sleeper in the queue of a mutex wants an owned one, because no free mutex has
sleepers (`NoLostWakeup`); one that sleeps for neither mutex nor condition wants
none, which `SleepersKnown` adds to `PriorityInv`. So it sleeps on a condition
(`FreeSleeper`).

### Messages

`OSMessageProofs` proves `NobodySleepsInVain` and that the message queues
implement `Mailbox`, for any number of queues and slots. `MessageInv` is
`ThreadInv` with the types of the buffer: calls that block are calls of the
scheduler, and the only thing they need of it is that a woken queue is empty
(`WakeSleepersExact`) and that no other call puts threads to sleep on it. The
refinement maps a queue to its `used` slots from `first` on, modulo the size
(`Buffer`); that a send behind the last and a jam before the first are what
`Mailbox` calls them is the arithmetic of `Wraps`.

### Heaps

`OSHeapProofs` proves `Partitioned`, `BlocksUntouched` and `CheckHeapExact`, for
any arena, number of heaps and areas, and `FreeCellsApart`: two free cells never
adjoin. They are stated for programs that ask for no size that is positive and
rounds up to 2^31 or more with its header (`SizesFit`); the code does not ensure
that, and without it they are false (finding `large`). Under it a cell that fits
as a signed number fits: cells are smaller than memory, memory is less than half
of what a word addresses, and so are the sizes (`CellFits`, `AllocIs`). The other
sums do not wrap then either.

The properties walk the lists, so the proof needs to know what a walk finds. A
list is described without its places: by the set of its cells and a rank of
each, such that `next` and `prev` lead to the cell of the set with the next
higher and lower rank (`Chain`). The rank of a free cell is its address, which
says in one stroke that the free list is sorted; that of an allocated cell says
how late it was added. Removing and entering a cell are then facts about two
neighbours (`ChainRemove`, `ChainAdd`), without induction, and one lemma
(`WalkIs`) says that a walk visits the set in the order of ranks.

`HeapIInv` says of each heap that its free and allocated lists are chains, that
their cells tile exactly the units of the areas the heap was given (`Tiles`),
that no free cell ends where another begins (`Apart`), and that the allocated
cells are the headers of the blocks held (`BlocksHeld`), each large enough for
what was asked (`BlockSizes`). It is inductive only with `AreasOwned`, that an
area is in no two live heaps: so the heaps' memories (`Room`) are disjoint, and a
call on one heap leaves the cells of the others as they are. `Apart` is needed
for a step of its own proof, because `DLInsert` merges with the next cell without
a look at the one behind: only since free cells are apart does one merge to each
side restore it.

A block is untouched because all stores of a call go to headers, and headers are
cells of the tiling that are not inside a block. What programs write into their
blocks changes no header for the same reason.

`CheckHeapExact` needs two things more. `Counted` says that a descriptor's size is
that of the heap's areas and that they are in the arena. `OSCheckHeap` also takes
any cell of less than 0x40 bytes for a fault; that there is none cannot be said of
single cells, since whether a leftover is large enough depends on the gap it is
cut from. `GapsWide` says it of memory instead: in the part of a heap that no block
holds, each unit has a neighbour. An allocation leaves nothing or two units of a
gap (`Splits`), a free adds a block of two units or more, and as free cells are
apart, each is a whole gap and inherits the width (`GapsAre`). An area that
rounds to a single unit is a cell that `OSCheckHeap` refuses from the start, so
the theorem assumes that the program gives none (`AreasWide`); the other theorems
do not. What the lists add up to is compared with the units they take cell by
cell (`SizeOfIs`): cells share no memory, and a cell has one unit for each 32
bytes (`CellUnits`).

### DVD queues

`DeviceProofs` proves that the DVD queues implement `PriorityLines`, for any
priorities and any finite set of blocks. `QueueIInv` says that there is, for
each sentinel, a line of blocks such that `next` leads from the sentinel along
the line and back and `prev` the other way (`Strung`, where the sentinel is at
both ends of the line: `Place`), and that no block is in two lines (`Rings`).
Blocks outside keep the links they had; a push overwrites them. A walk from the
sentinel returns the line (`WalkIs`), which is the refinement mapping, so
push is an append, pop takes the head of the first line that is not empty, and
dequeue removes the block where it stands.

### Alarms and modules

Alarms and modules are lists that are linked both ways and end in a mark on
either side. `SequenceFacts` says once what that is: `Linked` holds of two
functions, a head, a tail and a line when each element has its neighbours in the
line beside it (`Beside`). Entering before a place and leaving from one are two
lemmas about such lists (`LinkedInsert`, `LinkedRemove`), which the proofs of
both queues cite.

`DeviceProofs` proves that the alarms implement `AlarmClock`, for any finite set
of alarms, any delays and any periods. `AlarmIInv` says that there is a line of
exactly the alarms that are set, that the list is linked as that line, and that
no alarm of it fires after a later one (`Holds`). The order is what makes the
search of the code right: it divides the line into those that fire no later than
the new one and those that do (`Splits`), the search stops at the first of the
second kind (`LaterIs`), and their number is the place that `AlarmClock` names
(`PlacedIs`). The walk from the head, which is the refinement mapping, meets the
line (`AlarmsOfIs`). A handler that fires late takes the head out and puts it
back in one call; its new time is the first multiple of the period after the
present (`BeatIs`, arithmetic of quotients).

`BookkeepingExact` is proved from the same lemmas for the modules. What the code
takes for "linked" is a guess from the links of a module (`OSModule.c:24`); the
invariant says what it rests on, that a module outside the list has no links.
For the callbacks it says that each installed one is itself, a number of the table
of functions seen, or the mark of one that came when the table was full
(`Known`), and that the table names no function twice.

### Card files

`CardProofs` proves `FilesKeepBlocks` for any size of card and of block, any
directory, names and file sizes. `FatIInv` says that the table is sound, and that there is for each entry a
chain of blocks, the empty one for an entry without file, such that the links
lead from the entry's start along the chain and end there (`Chained`), chains have
no block in common, and the blocks in use are those of the chains (`Holding`).
An open file stands in the block of its offset (`Standing`); an entry is empty or
a file with a name of its own (`DirOk`).

The search for free blocks finds as many as it is asked for because the free
count is exact, and it comes round to each block once (`FoundIs`,
`CircleIs`), so the branch that leaves a table with a wrong count is not reached.
Freeing follows the chain and meets its end before its steps run out
(`FreeStepIs`, `FreedIs`). A seek counts blocks by the block number of its target
and so arrives there whatever offset it started from (`SeekIs`). Each of these
loops is a recursive function, that is the choice of a function with a property:
the proofs first show that one exists (`Iterates`, `Recurs` of `SequenceFacts`),
then say what every such function computes, by induction over the steps.

### Requests, card and devices

`ARQProofs` proves for all constants that satisfy `ARQAssumption` (a chunk below
the word, addresses and lengths that are u32 values; any set of requests):
`TypeOK`, `OneTransfer`, `NeverStalls`, `CallbackOfServed`, `NextPart`,
`HighPreempts`, and that `ARQ` implements `ARQService`.

None of the invariants is inductive alone: that the callback flag matches the
last transfer depends on the length field of the request, whose value depends on
how often it was advanced. `IInv` therefore says, for the request in every place
it can be, how its fields relate to the client's job: a queued one is untouched
(`QueuedFresh`), a low one interrupted between chunks is exactly `moved` bytes
into its job (`OnTrack`), one in flight has its next part in the engine
(`InFlightHi`, `InFlightLo`), and no request is in two places (`Distinct`). Both
operations end in `Serve`. The proof splits each into "reach a state between two
transfers" (`Between`) and one lemma that `Serve` leads from there to `IInv`. The
refinement maps each line to the pending request followed by its queue; a post
is `Post`, an interrupt `Slice` or `Finish`.

`DeviceProofs` proves `AramStacked` for any word size, base, array and lengths. The
invariant adds types only; the argument is that subtraction undoes an addition
that may have wrapped (`MinusPlus`).

`CardProofs` proves `SramKept` of the whole of `CardMount`, mounts and clients
included. `SramInv` says what is known while the lock is held: a half is on the
chip or in the dirty range, and the settings in RAM match their checksum, except
for a half that the holder has changed. The second part is needed because a
commit of the flash ID may have to write the settings too. One lemma
(`CommitKeeps`) is about commits, the others show that every step of a mount
leaves the lock as it found it.

It proves `BusReturned` for any set of ids and any number of segments.
`BusInv` follows the channel through a mount: the mount holds it locked, with no
transfer, until the flash ID was checked (`HoldsBus`); after that it is free
between segments and locked and selected during one. It starts with one lemma
per call of the bus and one per command of the card, so that the lemmas about
the steps need no definition of `EXI`. That a client may have left a device
selected runs through the proof: the card's commands are then refused, and the
mount ends through its error label.

And it proves `MountsAnswered` on top of `BusInv`, which says that no one
else has the channel between two segments, so that a mount never waits for it.
`AnswerInv` follows the mount's history: until its end it has no answer and its
caller waits for one (`Unanswered`), and the work area holds exactly the segments
before the card's block and segment (`Reads`, `Before`), with as many left to
read as `Counts` says.

`DeviceProofs` also proves `NewestSurvives` for counters of any width and any number of
writes, whole or torn. `CheckInv` adds that the serial numbers of the two copies
differ by one (`InTurn`), torn copies included. So the remainders that are the
counters differ however often they wrapped (`RemaindersDiffer`, the arithmetic
core), and their order is wrong only where one wraps (`OlderIsOlder`).

It proves `ReadsInside` for any table of a disc, whatever paths and entries
programs open. The invariant adds types only; the argument is that the sum that the
code compares with the size does not wrap, because both terms are below half the
word once the negative ones are refused.

It proves `CleanMeansSaved` for images of any size and any bytes, and any failure
to open, read, write or close the file, those that the code overlooks named by
`lost`. Its invariant adds types only; the argument is what a file that was cut to
the card or filled up gives (`LoadedTyped`), step by step.

All rest on the assumptions on constants named in the modules and on nothing else:
that the objects named by different constants differ (`NullAssumption`,
`QueuesAssumption`, `MessageAssumption`), that threads, alarms and the blocks of the DVD
queue are finitely many (`FiniteAssumption`, `AlarmAssumption`,
`QueueAssumption`; their loops are bounded by that number) and so are the arena limits (`HeapAssumption`), that the
areas programs make heaps of hold a unit, are disjoint and lie in memory (`AreasAssumption`),
that memory takes less than half of the addresses of a word (`MemoryAssumption`),
that names hold no zero and the game's code does not begin with 255, the mark of
an empty entry (`FatAssumption`), and ranges of numbers (`PrioritiesAssumption`
and the like). TLC evaluates each of them in the run of its module.

## 6. Only model-checked

* Liveness (`HighServed`, `LowServed`): fairness and ENABLED are out of the
  prover's reach.
* `InheritanceExact`: the proof of `PriorityIsEffective` counts every owner as
  loose once programs wait on conditions; this property needs to know which.
* `PathsMeanEntries`: a path is followed by a recursion over its pieces inside
  which the search is a recursion over entries, and it is compared with a fold;
  what they compute for every table is induction over data.
* `ArithmeticExact`: the arithmetic is evaluated, every value, by TLC.

## 7. What is left

1. *Proofs*: `InheritanceExact`.
2. *Serial interface and pads*: the transfer slots of `SI.c` and the pad masks of
   `PAD.c`. In the port they replay what a trace seeds; there is no hardware
   behind them that could be late. Two places would deserve a property:
   `SITransfer` may overwrite a packet that waits (`SI.c:192`), and `PADReset`
   overwrites the channel being reset.
3. *Video modes*: `VIConfigure` ends with interrupts enabled whatever its caller
   had (`VI.c:252`); it matters once interrupts are more than calls.

## 8. Not modelled

* `gx/GX.c` packs arguments into register images: one call, one store, no
  protocol. It is more than a quarter of the implementation.
* `mtx` is floating-point arithmetic, out of reach of TLC and TLAPS.
* The transfer slots and responses of `si/SI.c` and the pad commands of
  `pad/PAD.c` (section 7), the mode and pan registers of `vi/VI.c`, the
  registers of `ai/ai.c` and the shims of `ar/ar_hw.c`: stores and counters.
* `OSStopwatch.c`: sums of a counter that counts its own calls. The calendar of
  the clock chip in `OSRtc.c`: arithmetic like that of `Calendar`.
* `card_unlock.c`: bit mixing that nothing in `src/` calls; the outcomes of the
  `__CARDUnlock` stub are in `CardMount`.
* Interrupt, cache, font, error and system shims, `sdk_state.h`, `gc_mem.c`:
  single assignments, and the address translation under everything else, which
  is modelled by the values it stores; only `OSHeap` has addresses that it refuses.
* The test knob of `OSRtc.c:121`: `__OSLockSram` overwrites the flags of the
  settings with a variable of the host.
* In modelled files: call counters, and `__CARDSync`, which sleeps on a queue
  that nothing wakes.

The directories under `external/` are empty in this repository;
`src/game_workload` and the tests are drivers of the code, used here only to
learn how it is called. PROJECT.json lists every part with its status, and every
definition with the lines it models.
