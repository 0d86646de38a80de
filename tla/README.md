# chodOS: a TLA+ verification project

chodOS is an x86_64 kernel in Rust (`src/kernel/src`) for one working core. A
timer interrupt preempts kernel threads; a *policy engine* that runs inside that
interrupt watches them and changes the system underneath them: the time slice,
priorities, core affinity, and shared-memory channels for pairs of processes that
exchange many messages. Above it, user programs run one at a time on a single
kernel thread and switch only inside system calls. This project models the parts
where that design is hard to get right, checks them with TLC and proves the central
invariants with TLAPS.

`PROJECT.json` lists components, hazards, runs, mutants, theorems, findings and,
for every definition, the source lines it stands for. Paths below are relative to
`src/kernel/src`.

## 1. The system

| Part | State it keeps | Operations | Interacts with |
|---|---|---|---|
| scheduler (`process/scheduler.rs`, `process/mod.rs`) | `processes`, `current`, `remaining_quanta`, `SCHED_MODE` | `preempt`, `switch_to_next(_cfs)`, `spawn`, `kill`, `exit_current`, `reap_dead`, `request_sleep`, boosts | timer and keyboard interrupts, `policy::on_switch` |
| timer and traps (`interrupts/handlers.rs`) | `TICK` | timer, `int 0x40`, faults, keyboard | scheduler, policy engine |
| messages (`process/ipc*.rs`) | queues, `FAST_CHANNELS`, `SHARED_BUFFERS`, `SW_DOORBELLS` | `send`, `recv`, `ensure_channel_cap`, `drop_channel` | frame allocator, policy engine |
| frame allocator (`memory/frame.rs`) | `BITMAP`, `FREE_FRAMES` | `alloc_frame`, `alloc_contiguous`, `free_frame` | paging, channels |
| policy engine (`policy/mod.rs`) | `ipc_table`, `evict_table`, statistics, ladders | `on_switch`, `observe_*`, `adapt_and_report` | all of the above, from the interrupt |
| user processes, signals (`process/userproc.rs`, `signal.rs`) | 16 slots, `CURRENT_UPROC`, masks, pending sets | fork, clone, wait4, exit, exec, futex, delivery, sigreturn | paging, areas, loader |
| memory areas, paging (`process/vma.rs`, `paging/mod.rs`) | `VMA_TABLE`, page tables | insert, remove, protect, fault, clone | frame allocator |
| handles, descriptors, pipes (`process/handle.rs`, `syscall/fd.rs`, `syscall/pipe.rs`) | handle table, one pipe ring | insert, get, dup, close, read, write, select, epoll | file system, keyboard |
| file system (`vfs/`) | tmpfs tree over ext4 | lookup, create, rename, unlink | descriptors, disk |
| virtio, network (`virtio/`, `net/`) | split rings, ARP table | request with timeout, transmit, poll | devices |
| input (`kbd.rs`, `mouse.rs`, `input_direct.rs`, `wm.rs`) | rings, pointer, windows, drag | push in the interrupt, pop in a thread or a call | handlers, select |
| loader (`elf.rs`, `dynlink.rs`, `paging/mod.rs`) | loaded modules, symbol map, next slot | load program, interpreter, libraries; relocate; dlopen | file system, frame allocator |
| the rest | none, or written once | boot, PCI, serial, frame buffer, drawing, benchmarks | |

What makes it hard: threads are preempted anywhere, and most shared state is
`static mut` without a lock or behind spin locks taken with interrupts on; the
policy engine reuses those structures from inside the interrupt; every table has
a fixed size and replaces something when it is full; messages have two paths;
sleeping takes two steps. User programs share one table of areas, one table of open
files, one pipe and one epoll list; the file system has two layers; devices answer
after the driver has given up; rings are filled by interrupts between the loads and
stores that empty them. The `hazards` of `PROJECT.json` name each place.

What makes each part correct: one running process and none that is dead, no
starvation, no shortened sleep (scheduler); nothing lost, doubled or misattributed
(messages, rings, pipe, receive queue); one owner per frame and none lost (allocator);
no lock the interrupt can wait for (locks); every channel can still be reclaimed,
opened at a limited rate and not before its cooldown, priorities that do not thrash
(policy engine); who runs is who is current, and a child is reported once to its own
parent (user processes); pages that are private, usable and clean (memory); no call
that disturbs a path or an open file it is not about (files); a program and its
libraries whole, apart and linked (loader); an answer to one's own question (disk,
network).

## 2. Modules

**Scheduler** (`MCScheduler`, `SchedulerProofs`). One variable per field of
`Process`, as a function of the slot, plus the scheduler's own fields. Slots from
`count` on are processes not yet spawned. The actions: `TimerTick` (the tick, the
slice test, the keyboard flag and, when the slice ends, `preempt`), `Yield` (`int
0x40`), `exit_current`, `keyboard_boost`, `request_sleep`, `ReturnFromIsr` (end of
`policy::on_switch`, until which the interrupt flag is off), and the calls of
`kernel_main` and of the policy engine. `switch_to_next` is one operator over the
intermediate values of a switch: wake the sleepers that are due, keep the
current process while it has quanta, choose, dispatch. `TICK` never appears as
such: the code uses only differences and remainders of it, so waiting times (which
saturate at the floor), remaining sleeps and a phase are kept instead. That is
exact as long as the threshold comparisons are all below the saturation value,
which the configurations respect. The choice is stated declaratively (`PickWP`,
`PickCfs`) and also as the two loops of the code (`ScanWP`, `ScanCfs`);
`sched_safety` shows them equal. `promise` is history: the ticks the
last `sleep_ticks` still owes its caller. `exit_current` is one step, from the mark Dead
to the switch away, and `DeadStaysDead` asks that the caller is Dead at its end too.

**Mailbox**, **Ipc** (`MCIpc`). Mailbox is the abstract promise of `send` and `recv`.
Ipc has one receiver and several senders in the steps between which a thread may be
preempted: look-up of the channel, fetch of its address, wait for the doorbell,
write, ring; poll, read, clear, queue. The policy engine's `ensure_channel_cap` and
`drop_channel` are single steps because they run inside the interrupt. Frames are
numbers taken lowest-first, as in the allocator; contents are message identities.
`ImplementsMailbox` is the refinement: a message is in flight from the step that
makes it visible (push or ring) to the step that consumes it. `EverySendArrives` is about
senders that come to rest (`SendersRest`).

**FrameAllocator** (`MCFrameAllocator`, `FrameAllocatorProofs`). The loops of the
three operations word by word and frame by frame, with the loaded word kept
between load and store. `Preemptive` says whether contexts interleave inside an
operation: FALSE is what the code's comment assumes, TRUE what the policy engine
makes of it.

**IrqLocks** (`MCIrqLocks`, `IrqLocksProofs`). Every operation as the sequence of locks it takes and
releases, including the temporaries Rust keeps alive to the end of an `if let`;
threads interleave, the interrupt runs a report to its end.

**ChannelPolicy**. `ipc_table`, `evict_table`, the affinity table and a report window
as one step: decay, promotion of the top pairs, cooldown, rate limit. Which pairs the
learned models call hot is left open, so the results do not depend on their scores.

**Learner**. Those scores, for one pair and with the code's integer arithmetic: the
Bayesian counters, the four trees, the threshold that the reinforcement learner's
action moves, spikes, decay. The learner explores with at least 5%, so its next
action is a free choice. What depends on the other pairs and on the engine is one free
input of a report, `offer`: the pair is among the top three, the engine is on and the
window's limit on channels is not reached. `offered` remembers it.

**Tuning**. The rest of a report: per-process averages, class and cooldown, the
ladders of the report interval (ST-1), of alpha (ST-2), of the slice range (ST-3) and
the workload profile (ST-4), the table of memory pressure, and the priorities that
PIN_PUSH raises for both ends of a pair (`pushed`). Processes are born,
die, change behaviour and map memory between reports; the engine may be switched off.

**Signals**, **UserProc**. Signals has the operators on the signal part of one process,
UserProc the table and one action per system call that changes it. User programs
switch only inside calls, so a call is one step, up to the `iretq` that starts whoever
runs next; every call ends in `syscall_dispatch`, which delivers signals. An exit that
finds nobody to resume goes back to the kernel, which launches the next program
(`after_user_demo`). History: `ring3` (whose code really runs), `exitOf`, `report`, and
`overflowed` once a search for a slot came up empty.

**Vfs**, **Files**. Vfs has the operators on the tree of nodes over the image; a node
lives while a name or an open file refers to it. The image is a function from paths to
contents and a set of empty directories, such as the `lost+found` of `mke2fs`. Files has the table of handles and
one action per file call. `strayPaths` and `strayHandles` are history: what the last
call changed although it was not about it.

**Memory**. `VMA_TABLE` and `MMAP_TABLE`, which all programs share, page tables per
program, frames with whose data they hold, and the cursors of `brk` and `mmap`.
Addresses are page numbers. Actions: the five kinds of `mmap`, `munmap`, `brk`, loads
and stores (which may fault), `fork`, `exec`, exit and the launch of the next program.
`given` and `lost` are history: pages a call granted, MAP_FIXED over older areas included,
and of those the pages that the code itself took away; a new grant takes a page out of `lost`.

**Loader** (`MCLoader`). `exec` in steps: the program, its interpreter, one name of the
needed lists per step (the recursion is the stack `pending`), the relocation of
everything, and `dlopen` afterwards, which uses up its part of the `mmap` area also when it
fails (`dl_slots`). A file is a record of segments, words, symbols
and relocations; memory is a function from addresses to words, so that "the bytes
arrive" can be said. The two ways to fill a page, `SoPage` and `StaticPage`, are
translated separately, because they differ.

**Virtio**, **Net**. The block request with its deadline, the receive queue with
indices that wrap, and on top of it ARP, ping and UDP. The devices and the network are
external: they finish a request when they like, with success or an error, and lose, delay,
repeat and reorder.

**InputRing**, **Keyboard**, **Desktop**. Rings in the loads and stores of `push_event`,
`pop_event` and `try_pop`; scan codes, shift and caps lock; the blocking read; mouse
packets byte by byte, the pointer and the windows it drags. `intr_on` is the interrupt
flag inside a call: `int 0x80` is a trap gate and keeps it (`idt.rs:126-129`), the
`syscall` instruction clears it (FMASK, `interrupts/mod.rs:41`) and nothing in
`syscall_entry` sets it again. Interrupts, and the waking of a `hlt`, need it. The desktop's
button is `PREV_BTN`, what the driver read in the last packet it processed.

**WatchList**, **Pipes**. WatchList is the abstract promise of `epoll_ctl`; Pipes has the
one ring, the readiness tests, `poll`, `select` and the epoll arrays over Keyboard; a waiting
call tests, halts and wakes in separate steps. An event is its words by offset, and
`EntryOf` is what `epoll_ctl` reads of them, or its defaults for a null pointer.
`EpollIsAWatchList` is the refinement, with each call mapped to the abstract one.

**Input** puts Pipes and Desktop together: interrupts, the tasks of the event ring and
the program's calls in any order. It is part of what `io` runs and `IoProofs` is about.

**SchedulerProofs**, **FrameAllocatorProofs**, **IrqLocksProofs**, **IpcProofs**,
**PolicyProofs** (Tuning and Learner), **IoProofs** (Virtio, Net and Input),
**ProgramsProofs** (UserProc and Files) and **MemoryProofs** (Memory, Loader and ChannelPolicy)
hold the theorems, section 4.

**MCMessages**, **MCPrograms**, **MCMemory**, **MCIo** compose them for TLC. A variable
`focus`, chosen in the initial state, says which part moves; the state spaces then add
up instead of multiplying. In MCIo one focus has the event ring alone, under keys, clicks and
moves at any time (`RingIrq`), another the keyboard with its reader. Parts that really share state (Net over Virtio, Pipes over
Keyboard over InputRing, UserProc over Signals, Files over Vfs) move together.

How they rest on each other: Ipc takes `NoStarvation` of Scheduler as the fairness of
its threads, FrameAllocator's `OneOwner` as the atomicity of its frames and
ChannelPolicy as the source of its channel steps; ChannelPolicy takes any decision
Learner could make; Memory takes frames as FrameAllocator gives them and Loader's
images as pages; Scheduler takes any priority and slice Tuning could set; IrqLocks
covers the waiting that Ipc and ChannelPolicy leave out. Where a lower module fails
when preempted (`frame_irq`), the upper one describes the system between such accidents.

## 3. Runs

| Run | Parts | Shows |
|---|---|---|
| `sched_safety` | Scheduler | three processes that sleep, exit, are killed and boosted, in weighted and CFS mode: one runner, only the dead are reaped, a sleep that has begun is served out, and the candidate loops choose what the ordering calls best |
| `sched_live` | Scheduler | weighted mode with sleeping, exits, priority changes and endless key presses, whose boost outlasts the tick that spends one: whoever is Ready or asleep runs again; the dead stay dead, and whoever exits is |
| `irq_locks` | IrqLocks | threads never wait for each other in a circle; a report that interrupts no holder of a lock returns |
| `messages` | Ipc, Tuning, Learner | two senders and channels that appear at any time implement Mailbox, only a channel overtakes the queue, and once the senders rest every wait ends and every message has arrived; after a class change a priority is not lowered for two windows, a boost is earned by mapping memory or is a push of PIN_PUSH, slots belong to the living, build mode needs a surplus of three; a channel needs two windows with messages, and after six steady windows the first offer gives one |
| `programs` | UserProc with Signals, Files with Vfs | the code that runs is that of the current slot, with the thread pointer that the slot records, the exited never run again, a zombie is reported once, to its parent, with its code; directories form a tree, listings agree with existence but for the image's empty directories, links are counted, and no call changes a path or an open file it is not about |
| `memory` | FrameAllocator, ChannelPolicy, Memory, Loader | one owner per frame, no leak, `None` only when there is nothing; channels tracked, pinned, rate limited and cooled down; user frames private, granted pages usable unless the code takes them (`lost`), no foreign data; modules apart, the closure of needed libraries loaded once, imports agree, bytes arrive, the program starts at its entry |
| `io` | Ipc, Virtio, Net, Keyboard with InputRing, Pipes, Desktop | only the reclaiming of its channel loses a message; a successful disk request did its own work, also where others fail; frames, keys, events and pipe bytes in order and once; a ping matches its reply, the ARP cache is what was last heard, calls return; with interrupts on a key ends `read`, `poll` and `epoll_wait`; epoll is a watch list of what `epoll_ctl` read; a drag follows the pointer and ends when the driver reads the button released |

A property that several parts make up is one definition with named conjuncts:
`RunsAsItself`, `TreeIsSound`, `ChannelsAccounted`, `ProgramsIsolated`, `LinkedImage`,
`RingsReadRight`, `AnswersAreGenuine`, `InputInOrder`,
`BlockedCallsReturn`, and the type invariants of the composed runs.

Five runs check a statement of a doc or comment that the code does not keep;
`findings` quotes it:

| Run | What happens |
|---|---|
| `sched_sleep_race` | a tick between `request_sleep` and `int 0x40` uses up the request: `sleep_ticks` returns early |
| `ipc_stale` | a sender that waited for the doorbell writes through the address of a reclaimed channel into a frame of somebody else |
| `frame_irq` | an interrupted `alloc_frame` gives a frame out twice |
| `irq_deadlock` | the report spins inside the interrupt on a lock of the thread it interrupted |
| `static_loader` | a segment of a static program that starts inside a page loses bytes where it crosses into the next |

### Where the passing properties end

The passing runs stay inside limits that the code does not enforce, or state what
the code keeps beside what it does not:

- Ipc with `SwSlots = 1`: two channels share a doorbell and `recv` names the wrong
  sender. With `Lens = {0}`: an empty message never arrives, its length is the
  doorbell's empty value. With `MaxIncoming = 1`: senders behind the polled channels are
  not heard. With `AllowDrop = TRUE` in `messages`: a message is lost with its channel
  and a sender that waits for its doorbell waits for ever. `LostOnlyByReclaim` is about one
  sender: the stale write of `ipc_stale` can hit a frame that is another sender's by then.
  `recv` polls the channels first (`ipc.rs:43`), so a channel that never falls silent starves
  the queue and the channels behind it: `EverySendArrives` asks for senders that rest.
- ChannelPolicy with a third pair and tables of two: a pair pushed out of `ipc_table`
  keeps its channel for ever, and a full `evict_table` forgets a cooldown.
- Scheduler with `SchedModes = {"Cfs"}` in `sched_live`: key presses starve the others.
  A process pinned to another core starves (`PolicyCpus = {1}`), but `least_loaded_cpu`
  always returns 0. If kernel_main slept, a process that exits could find nobody Ready and
  be made Running again (`scheduler.rs:482`); `sleep_ticks` is called by the drawing task and
  by `key_gen` only, and nothing calls `exit_current` yet, so `DeadStaysDead` is about a
  kernel_main that does not sleep.
- Learner: the traffic of a channel is not observed, so a busy channel is reclaimed
  after two windows like a silent one. A steady pair that is never among the top three, or
  always behind the window's limit, gets no channel: the property waits for an offer.
- Tuning: memory boosts and PIN_PUSH go past the cooldown, so the rest after a
  change is about demotions; a process born into a full table of statistics is never watched; with
  two processes the truncated average never reaches the threshold of build mode.
- UserProc, once `overflowed`: fork returns a pid without a slot. A forked child records
  thread pointer 0 (`userproc.rs:282`), and `iretq_to_frame` then loads none: it runs with
  the FS_BASE of whoever ran last, so the thread pointer is checked for the slots that
  record one. A joiner is not
  woken by the exit of its thread (the count is -1 as `i64`); a signal frame saves the
  mask with the signal already in it; `wait4` looks at the first matching child only.
- Memory: `munmap` leaves the area, so an unmapped page comes back on the next access;
  a full table drops the smallest area; `exec` empties the table for every program; a file's or
  fixed mapping of one program stands in the way of another's pages. An anonymous
  MAP_FIXED on the tail of a file's mapping, as `ld.so` makes it for bss, is granted, but
  `find` meets the file's area first and the access ends in SIGSEGV.
  `lost` names these pages. A stack frame is not cleared, so `NoForeignData` leaves the
  stack out.
- Files: removing a copied-up file shows the image's again; a directory renamed into
  its own child is cut off (it still has one name); link counts never go down. An empty
  directory of the image is listed by `getdents64`, and `exists_any` denies it.
- Loader: a needed name with a directory is loaded again; nothing compares a library
  with its slot's size (`SO_SLOT_SIZE` is large enough in the run); an interpreter that
  is not ELF leaves the entry at `EXEC_LOAD_BASE`.
- Virtio, once `late`: the driver stays one completion behind. Net with `ARP_MAX = 1`: that a
  host is in the cache once is trivial in the run, the proof has it for every size. InputRing, once `torn`:
  a handler's push inside that of `key_gen` loses an event or brings one back.
- Keyboard and Pipes: a call that halts after the `syscall` instruction, as musl makes it,
  does so with interrupts off and never wakes; the repository's own programs use `int 0x80`.
  `KeyEndsRead` and `KeyEndsWait` are about calls with interrupts on. `select` never finds
  anything, so it is not in `KeyEndsWait`; a second pipe empties the first. `epoll_ctl`
  reads the data of an event at offset 8 (`pipe.rs:232`), `epoll_wait` writes it packed, at
  offset 4 (306): a program gets back the upper half of its data and the word behind it.
- Desktop: a release in a packet with an overflow bit is dropped before `PREV_BTN`
  (`mouse.rs:179`) and a movement byte out of step is read as buttons (158), so a window can
  be dragged with the mouse's button up, until the next packet in step.

### Bounds

- Scheduler: three slots (kernel_main, the process looked at, a rival), thresholds
  of one and two ticks in the order the code has them
  (`NormalThreshold <= LowThreshold <= FairnessFloor`), so that waiting passes every
  threshold; vruntime saturates at a small value that runs reach. A key press boosts for
  two switches in `sched_live` (eight in the code): one is spent before the choice, the next
  wins it.
- Ipc: two or three messages per sender (one in the queue, one in the channel, one
  after a reclaim), two capability ids; `SwSlots` is 3 so that they do not collide,
  `MaxIncoming` the code's 8.
- FrameAllocator: two words of three bits with a hole: runs across the words, of every
  length up to three, and of length 0.
- ChannelPolicy: two pairs with a common sender, tables just large enough; a cooldown
  longer than the two cold windows that end a channel.
- IrqLocks: three threads, so that circles of three can exist; a report takes one
  decision of every kind, and as it holds nothing between decisions one is enough.
- Tuning: four processes on three slots, so that one is born into a full table; one
  memory slot, so that it changes hands; seven windows, enough for a ladder's end and
  back and for two cooldowns; PIN_PUSH for one pair. Learner: seven windows, one more than a steady pair needs;
  window counts on both sides of the thresholds 5 and 200.
- UserProc: three slots and process ids (a parent, a child, a thread, a relaunch and an
  overflow), one futex, one signal; handlers and masks are changed by the first process
  only (`Tuners`). Files: two names, depth two, three nodes, one file in a directory and
  one empty directory of the image, two handles.
- Memory: two area slots, so that the table overflows; seven frames, so that they run
  out; three calls about memory between any number of accesses. Loader: pages of two
  words, three libraries, lists with cycles, diamonds and directories; frames for
  everything or too few, two calls of `dlopen`.
- Virtio: rings of two with indices modulo 4, five requests, so that they wrap twice.
  Net: two hosts, one of which changes its address, a cache of one, two pings.
- Rings and pipe: three cells, so that two entries have an order, fill them and wrap; epoll
  of two entries and three descriptors, words of two values. Desktop: a screen of four columns, one window with
  its title bar and button, and the bytes of a press, a move either way, a release
  and an overflow.

### Fairness

- Scheduler: strong fairness of `TimerTick`, because the interrupt controller keeps
  a tick pending while interrupts are off; weak fairness of `ReturnFromIsr`, because
  a handler has no loop that waits. Nothing is assumed of processes, keys or the
  policy engine.
- Ipc: weak fairness of the receiver's steps and of a send that has begun (not of
  starting one, and none that makes senders rest): both threads get the core, by `NoStarvation`. The receiver is
  assumed to keep calling `recv`.
- IrqLocks: weak fairness of the interrupt's own steps only.
- `io`: weak fairness of the reader inside `read_key_blocking` and of the caller inside a
  polling loop (they own the processor, and the timer wakes the halt if the call came by
  `int 0x80`, which `ReadWake` and `WaitWake` have as a guard), of the network calls' loops,
  which kernel_main runs with interrupts on, and of the timer. None of keys, devices or the network.

Deadlock is checked where the system cannot stop. `messages`, `memory` and `io` switch it
off because their bounds on windows, calls and requests end a behaviour.

## 4. Proofs

*SchedulerProofs*, for every number of processes, thresholds, boosts, sleeps,
slices and modes:

- `TypeCorrect`, `OneRunner`, `ReapsOnlyDead` from `SafeInv` = `TypeOK`,
  `SoleRunner`, `ReapedAreDead` and `AbsentFresh` (slots not yet spawned are Ready
  and not reaped; without it `spawn` could add a second Running process). The
  central lemma `SwitchSafe` says what `switch_to_next` makes of a state in which
  nobody is Running; `PreemptSafe` and `StepSafe` reduce each action to it.
- `NoSleepCutShort` from `SleepInv`: what a process is owed is at most what it
  waits for, while Blocked, and at most what is pending, while it has asked.
- `NoResurrection` assumes that kernel_main does not sleep if tasks exit. The
  assumption is needed: `exit_current` marks the process Dead and a switch that
  finds nobody Ready makes the current process Running again. It rests on
  `MainInv`, that kernel_main is always there to be switched to, from which `ExitEnds`
  has that an exit leaves its caller Dead.
- `ScansFindTheBest`: the scans of `switch_to_next`, which keep the best candidate so far
  while they go round the slots, pick exactly the process the ordering puts first.
  `ScanOrder` turns the round-robin index into a distance, `LoopFindsBest` is the
  induction over the rounds, for both modes at once.

*FrameAllocatorProofs*, for every bitmap, memory map and set of contexts, as long as
operations do not interleave: `FramesHaveOneOwner`, `NoFrameLost` and
`AllocGivesUpOnlyWhenFull`, from `FrameInv`.
`OneOwner` alone is not inductive: `Knows` says what a context in the middle of an
operation knows of the bitmap (the word it loaded is still the word, the run it
counted is still free), `OneBusy` that nobody else is inside to change it,
`Accounted` that a frame is free, held or just being freed, and the last part that
`FREE_FRAMES` is the number of free frames. For `None` only when there is nothing, the
words and the runs that a scan has left behind are shown to be full, or too short, still.
`frame_irq` shows that the assumption cannot be dropped.

*IrqLocksProofs*, for every number of threads, every choice among the operations of the
code and every report. `LockInv` says that whoever is inside an operation holds exactly
the locks that the rest of its sequence will release; that rest takes locks in one order
(`Rank`: channels and pins, then shared buffers, then tracer and heap), which is a fact about the code's sequences that is checked
once for each of them. `ThreadsNeverDeadlock`: the thread that holds the highest lock does
not wait. `ReportNeverStopsItself`: a report, which has its own sequence, never finds a
lock that it holds itself in its way; that it may find one of a thread's is what
`irq_deadlock` shows.

*IpcProofs*, for every number of senders, messages, capabilities, frames and polled
channels, assuming `Reliable`: channels are not reclaimed, no two of them share a
doorbell, and no message is empty. Each part is needed: section 3 says what happens
without it. `MailboxIsReliable` is the refinement of Mailbox, step by step: a push and a
ring are `Post`, the end of a receive is `Deliver`, all else stutters.
`OnlyChannelsOvertake` follows from the same `IpcInv`, whose heart is what the two sides
may rely on while preempted: what a sender looked up is still so, and from the end of its
wait to its ring the frame is its own (`SendersSound`); what the receiver copies stays in
the frame until it clears the doorbell (`ReceiverSound`); a rung frame holds one accepted
message, younger than those of its sender in the queue and nowhere else (`RungSound`,
`QueueSound`, `AcceptedSound`).

*PolicyProofs*, for every size of the tables, set of processes, set of volumes and number
of windows. Tuning: `SlotsFollowTheLiving`, `TuneTypes`, `ProfileNeedsThree` and
`PrioritiesMoveWithCause` from `TuneInv`. It ties each slot's cooldown to the windows
since the last change (`CooldownSound`), the memory table's two counters to the calls a
process made in the window (`MemSound`), and bounds the average of the surplus: with at
most two it stays above -1.7, because of the truncating division (`BiasSound`). Learner:
`SteadyPairsAreServed`, for a window that offers, and `ChannelsAreEarned` from `LearnInv`, where `Counted` bounds
the Bayesian counters and the trees' inputs by the windows a pair was watched for. That
six windows suffice, and one does not, is arithmetic on those bounds.

*IoProofs*, first Virtio and Net, for every size of the rings, modulus of the indices (a multiple of the ring's
size, and at least twice it, as 2^16 is), number of hosts, cache entries and frames on the
way. `BlockAnswers` from `BlkInv`: without a late answer the four indices are
equal between requests, and during one the device is before, at or after its
work, or has reported an error without doing it (`BlkFail`). `RingsAreReadRight` and `StackBelievesTheGenuine` from `NetInv`: every receive
buffer is at exactly one place of the ring, counted from the driver's index, and the used ones
hold what arrived in that order (`Circulating`); whatever is on the wire answers something
asked (`WireSound`). `MaxPings < SEQ_MOD` is assumed: the 16-bit sequence number has not
wrapped, after which an old reply would pass for a new one.

Then Input, for every size of the rings, screen, set of windows and set of watched
descriptors. `InputComesInOrder` from `RingsInv`: the cells from head to tail hold what
is owed, and a reader stopped between load and store still holds the oldest
(`KeysSound`, `EventsSound`); the lemmas on `Gap` and `Wrap` do the modular arithmetic
once for all three rings. For the events it ends where `torn` begins.
`WindowsFollowThePointer` from `DesktopInv`: windows never leave the screen, therefore
taking hold of one does not move it; the button is the driver's. `EpollKeepsItsList` from `EpollInv`, that the entries
in use are those of different watched descriptors: a removal that moves the last entry
then removes one and loses none; `EntryRead` has that what `epoll_ctl` reads is an entry.

*ProgramsProofs*. Processes, for every size of the table, set of signals, thread pointers and futex
words: `ProcessesTyped`, `ProgramsRunAsThemselves` and `ExitsAreFinal` from `UPInv`. It says,
while no search for a slot has come up empty: pids are handed out once and a child's is
larger than its parent's (`Numbered`); a slot whose code is not in ring 3 waits and has not
exited, or is a zombie that keeps its code, or was left by a program of the kernel
(`Settled`); the slot of the running code is Running, has not exited and has the
thread pointer it records, if any, loaded (`InRing3`); and no live process has a signal pending that would kill it at
the end of a call (`Harmless`), because SIGSEGV is raised only on the way to exit. Each call
is followed in the order of the code: the lemmas on `sys_exit_impl`, on the choice of who
is resumed and on `syscall_dispatch` are shared by all of them.

Files, for every image, empty directories included, set of names, depth, number of nodes and of handles:
`TreeStaysSound` and `CallsKeepContents` from `FilesInv`. Its part `GoodTree` says that the
root is a directory without a name, no entry dangles, a directory has one name and a file
at most as many as its link count. From it a path to a directory is the only one
(`UniquePath`), and therefore a change of an entry moves only the paths at or below it
(`Beside`): that is what unlink, rmdir, rename and link may change. `TreeIsSound` alone is not
inductive, since it allows an entry that dangles: the next node made there would have a
name more than it should. The rest of
`FilesInv` is that handles hold live nodes and have numbers below `next_id`, so a new handle
replaces none. `ensure_parent_dirs` makes directories where nothing was, therefore no path
reads anything else, and needs no more nodes than the path is long (`Grown`). `Collect`
keeps a set with the root and the held nodes that is closed under entries (`Swept`):
`Below` adds a level `MaxNodes` times, and a set that grew each time would be larger than
the nodes there are (`BelowFacts`).

*MemoryProofs*, for every number of frames, areas, pages, programs and calls: `MemoryTyped`,
`MemoryIsolates` and `GrantsAreKept` from `MemInv`. `ProgramsIsolated` is not inductive: it
speaks of the living, and an exited program's frames stay in its page table, so `Isolated`
says the same of every program ever started. `Remap` is its one step: a page table of
pages the program had and of frames nobody used keeps everybody apart; `FreshFrames` shows
that the frames of an allocation are free and one for each page, by counting ranks.
`GrantedPagesUsable` asks that the *first* area over a page be lazy; `Usable` asks it of
every area over a page that is neither present nor lost (a MAP_FIXED that an older area
shadows adds its pages to `lost`), and `InsertShape` shows that
`insert` only leaves areas that were there, the new one, or the tail of the one it
replaces. `Counted` has that no program is its own parent, without which an exit could
resume the program that ended.

The linker, for all files, lists and interpreters: `LinkerLoadsTheClosure` from
`ClosureInv`. What was loaded came from a list that was followed, in an order in which
only a name with a directory repeats (`ModulesOk`), and what a followed list names is
loaded, absent, or still to come on the stack of lists (`ListsOk`); at the end the stack is
empty and the loaded ones are closed. The proof corrected the property: an interpreter
that a list names with a directory is loaded again, and then its own list is followed,
which the property had ruled out and no list of the run had shown; `MCLoader` has one now.

`ModulesLieApart` is the first part of `LinkedImage` for all files that fit the layout of
`dynlink.rs` (`ImagesFit`: slots start on pages, a library fits its slot, the program ends
below the area of `mmap`, what `dlopen` takes of it below the libraries; the code checks none
of this, and the constants of the run satisfy it). `LayoutInv` adds to `ModulesApart` that
the slots still to be given out, that of the interpreter and those of `dlopen` are free. It
holds while the slots end below the interpreter (`SlotsLeft`): the code does not stop there,
and a file that is not ELF takes a slot too, so the number of modules does not bound them.

The channels of the policy engine, for all pairs that fit into its two tables (`PairsFit`;
section 3 says what happens if they do not): `EngineKeepsAccount` and
`EngineOpensSparingly` from `EngineInv`. `ChannelsAccounted` is kept by every round of the
promotion loop (`Promoting`) and of the decay loop (`Decaying`); that `observe_ipc` takes
nobody's slot is counting. For the cooldown, `Resting` ties the ticks since a pair lost its
channel to its entry in `evict_table`; `expire_evictions` fills a hole with the last entry and looks at it
again, and `Outlasting` is what its loop keeps: nobody who has time left is lost.

Loops and recursive functions: a recursive definition is a choice of a function that
satisfies its equation, so that one exists is proved first (`LoopRuns`); what the loop
keeps follows by induction over the rounds, stated for a set of numbers (`UpTo`).

Assumptions are the ASSUMEs of the modules and those named above: the constants have
their types, every slice length divides `SliceCycle`, the windows fit on the screen,
there are frames for the first program.

Only model-checked:

- liveness (`NoStarvation`, `EverySendArrives`, `IsrReturns`, `BlockedCallsReturn`), which
  needs fairness;
- the bytes, relocations and entry of the loaded image (the rest of `LinkedImage`), which are
  folds over the segments and relocations of a file;
- `LostOnlyByReclaim`, which holds for one sender only (section 3);
- the type invariants of the composed runs, whose parts for UserProc and Memory are
  proved.

## 5. What is not modelled

- Registers, stacks, layout and text: the models keep who runs, who owns and what is
  in flight.
- A tick inside an operation on a `VecDeque` or on the scheduler's `Vec`: both are
  changed without a lock, as the bitmap of FrameAllocator is.
- Liveness in CFS mode: its state space with priorities and sleeps is too large here.
- `alloc_shared`, `send_cap` and `recv_cap`, the Vec-backed capabilities; and the
  branch of `recv` for a sentinel message that no code sends any more.
- The receiver's mapping of a channel frame, which a reclaim leaves in place.
- `ipc_peer_counts` has eight slots per process; ChannelPolicy counts every pair.
- Benchmarks and `main.rs` create channels without the policy engine; the
  properties of ChannelPolicy are about the engine's own.
- The Q table of the learner and the power table: the first is a free choice, the second
  is printed only.
- The rights of handles and the handle tables of kernel processes, which no system call
  uses; `kill`, whose bit nobody reads; sockets and `dup`, which are stubs.
- The transmit queue of the network card and discovery of devices; the parser of ext4
  and of ELF headers; drawing.
- Other cores: they are started and halt; nothing is scheduled on them.
- The components with status `not_modelled` in `PROJECT.json`, with the reason there.

## 6. Plan

Modelled: the parts of the table in section 1. Left, in this order:

1. Proofs: the relocations of Loader.
2. The steps of a push to the scheduler's `Vec`, and the receiver's mapping of channels
   with its stale reads.
3. The rights of handles, and the package calls over the file system.
