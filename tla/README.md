# A verification of mushroom

mushroom runs unmodified Linux workloads in a confidential VM (AMD SEV-SNP or
Intel TDX) and attests their output. This directory holds TLA+ models of its
parts, the TLC configurations that check them on small instances, and TLAPS
proofs of main properties for every value of the constants. Every definition is
translated from the Rust source; `map` in `PROJECT.json` gives the lines.

## The system and its parts

| part | source | what it does |
|---|---|---|
| workload kernel | `tee/kernel` | runs the processes: an async executor on all vCPUs, simulated time, memory, files, signals, futexes, system calls |
| supervisors | `tee/supervisor-snp`, `tee/supervisor-tdx` | stand between the kernel and the host: memory hot-plug, start of the vCPUs, input, output and attestation |
| host | `host/mushroom` | the VMM: runs the vCPUs as threads on KVM, provides memory slots, collects the output and the profile; its "insecure" mode plays the supervisor itself |
| services | `common/supervisor-services` | the shared memory between kernel and supervisor: command buffer, allocation buffer, notification buffer |
| verification | `host/mushroom-verify`, `common/loader` | recompute the measurement and check the report |

How they interact: the kernel's vCPUs poll tasks from one queue. When the queue
is empty a vCPU clears its bit in the scheduler and halts; whoever wakes a task
picks a halted vCPU (or has a new one started), sets its bit and asks the
supervisor to wake it. All requests go through the command buffer: start a
vCPU, hand out or take back a 2 MiB slot, append to the output, finish it. A
vCPU that finds the buffer full, or no memory in the allocation buffer, arms its
bit in the notification buffer and executes HLT. How HLT, waking and "kicking"
the supervisor work differs: with SNP and in insecure mode the supervisor is one
thread and waiting is a thread's park token; with TDX the halting vCPU itself
becomes the supervisor and waiting ends with an interrupt. A thread of the
workload is a task: it runs user code and system calls until it waits, for a
`Notify`, a oneshot channel, a timeout or a signal. The slots feed the frame
allocator, frames become page tables, page contents and file buffers.

## Modules

The platform:

| module | code | state and actions |
|---|---|---|
| `CommandBuffer` | `command_buffer.rs` | `pending_index`, `completed_index` and the bytes of the ring; `push` and `handle` with one step per access to shared memory |
| `CommandQueue` | - | the abstract promise: a FIFO of whole commands, which `CommandBuffer` implements (`ImplementsQueue`) |
| `Executor` | `rt.rs`, `supervisor.rs` (Scheduler), `user.rs`, `main.rs` | `Task::state`, the queue, the scheduler's `bits`, `launched`, `is_launching`; wake, poll, pick_any, halt, resume, launch, skipping time. What a future does while polled (wake others, sleep, finish) is arbitrary |
| `KernelServices` | `supervisor.rs`, `allocation_buffer.rs`, `notification_buffer.rs` | the kernel's side of the services: background and asynchronous pushes, arm, kick, allocate and release, schedule, halt, commit. The command buffer is the queue of `CommandQueue`, bounded by `CAPACITY` |
| `HostServices` | `supervisor-snp/services.rs`, `ap.rs`, `host/snp.rs`, `host/insecure.rs` | `KernelServices` with a supervisor thread (drain, fill, reset, kick, park) and vCPU threads with park tokens |
| `TdxServices` | `supervisor-tdx/services.rs`, `vcpu.rs`, `exception.rs`, `tdcall.rs` | `KernelServices` with the supervisor executed by whichever vCPU gets `HANDLER`, WAKEUP interrupts and HLT, which the interrupt of a flush ends as well |
| `TlbShootdown` | `supervisor-tdx/tlb.rs`, `vcpu.rs` | `GUARD`, `COUNTER`, `RAN`, `pending_flushes`; flush, its interrupt handler and the entry loop, in which an entry may return at once for a pending interrupt |
| `HostAllocator` | `supervisor-snp/dynamic.rs`, `host/snp.rs` | the slot bitmap with its search, `SlotIndex`, and the host's table of enabled slots |
| `Attestation` | `common/loader`, `host/mushroom`, `supervisor-*/input.rs`, `output.rs`, `mushroom-verify` | from program headers and inputs to load commands, launch measurement, the supervisor's check of the input, the output hash, the report and its verification. A page of the input is copied out, converted, copied back and hashed in separate steps, and may change while it is shared. A report has every field that the verifier looks at. Hashes are injective tags |
| `Profiler` | kernel and host `profiler.rs` | the double buffer of a vCPU, flush, the polling thread and the collectors |
| `RwLock` | `spin/rwlock.rs` | the lock's signed counter; every atomic operation of readers, writers and `reload` |
| `Time` | `time.rs`, `oneshot.rs` | the two offsets, the binary heap of timeouts (as an array), refresh, sleep, cancel, skip |

The kernel's memory:

| module | code | state and actions |
|---|---|---|
| `FrameAllocator` | `memory/frame.rs` | three levels of metadata, private and shared counters, claim, drop, allocate, free on any CPU, hot-plug; one step per atomic access |
| `PageTable` | `memory/pagetable.rs` | reference-counted tables; walks that take and drop guards, build a table (store, flush, zero, publish) and free one (clear, flush, deallocate), one step per atomic access; the tables whose old translation a CPU may still have |
| `Pcid` | `memory/pagetable.rs` | page tables on CPUs, PCIDs and what is cached under them; new, activate, drop, flush |
| `AddressSpace` | `user/process/memory.rs`, `memory/page` | mappings, page table entries and reference counters of page contents; mmap, munmap, mprotect, madvise, brk, fork, faults in two steps |
| `Buffer`, `AbstractFile` | `memory/page/buffer.rs` | a file's length and pages with leftovers behind the length; the abstract file of bytes it implements (`BufferIsFile`) |

What the kernel keeps for the workload:

| module | code | state and actions |
|---|---|---|
| `Streams` | `fs/fd/stream_buffer.rs`, `seq_packet.rs`, `eventfd.rs`, `epoll.rs`, `rt/notify.rs`, `syscall.rs` | both ends of a pipe, socket pair or eventfd; blocking and non-blocking reads and writes, poll, select, epoll_wait, close |
| `NamedPipe` | `fs/fd/pipe/named.rs` | strong and weak references to the halves, openers that wait for a partner |
| `FileLock` | `fs/fd.rs` | flock: the shared counter, what each description holds, waiters |
| `OpenFile`, `OpenDir` | `fs/fd/file.rs`, `dir.rs` | shared cursors, read, write, truncate, sendfile, splice, copy_file_range; directory listings |
| `FdTable` | `fs/fd.rs`, `syscall.rs` | shared and copied tables; open, dup, fcntl, pipe2 and socketpair with their undo, one step per operation under the table's lock, with the limit as the call found it; clone, execve, prlimit |
| `Tree` | `fs/node.rs`, `directory.rs`, `tmpfs.rs`, `procfs.rs` | entries, locations, links, mounts; lookups one segment at a time, then create, link, unlink, rmdir, rename, exchange, chdir or getcwd on what was found, with the locks of directories where one is held while another is awaited |
| `Processes` | `process.rs`, `thread.rs`, `running_state.rs` | clone, exit, exit_group, execve, wait4, under the three spin locks of the life cycle |
| `Signals` | `thread.rs`, `process.rs`, `syscall.rs` | queues, masks, handlers and saved contexts (saving one may fail), interruptable calls, alarms, the stopped state |
| `Futex` | `process/futex.rs` | the word, the table of waiters, waits with deadline and bits, wake, exit |
| `Credentials` | `thread.rs`, `syscall.rs`, `fs/node` | ids, process groups, permissions of a file and the calls that check them |

Composition. `KernelServices` is where the platform's parts meet: `HostServices`
and `TdxServices` extend it, use the queue that `CommandBuffer` is shown to
implement, and deliver the wake-ups that `Executor` takes as given (its
`notified` set). In the other direction `KernelServices` lets the kernel call its
operations in any order, which covers whatever the executor does. The parts of
the workload's kernel rest on `Executor` (a notified task is polled) and on
`FrameAllocator` and `HostAllocator` only through "a frame or slot is free".

`MCMemory`, `MCFiles`, `MCWorkload`, `MCPlatform` and `MCFlush` each check
several parts in one run: `subject`, chosen initially and kept, says which part a
behaviour is about, and the other parts do not move. This multiplies nothing: the
states are the sum of those of the parts. Parts that never move together may
share variables (`v1`, `v2`, ...). A component that theorems are about is
extended rather than instantiated there, with its own variables, so that the run
and the theorem are about the same definition (`LockSound`, `SlotsAgree`,
`PcidsSound`, `FifoConnects`, `LocksExclude`, `WaitersWoken`, `IdsKept`).

Names follow the source. A definition named like another with a suffix
(`ArmForgets`, `LaunchableOffByOne`) is the mutated form of the definition below
it: the same code with a plausible mistake, kept to show that the property in
question notices.

## Runs

Passing runs:

| run | parts and instance | shows |
|---|---|---|
| `command_buffer` | ring of 7 bytes, commands of 1, 2 and 4 bytes | `BufferSound`: push never overwrites unread bytes, handle never reads a torn command; `ImplementsQueue`; `EveryCommandHandled`: every published command is dispatched |
| `executor` | 2 vCPUs, 2 tasks | `TasksHeld`, `NoLostWake`: no wake lost, no task polled twice at a time; `VcpusServe`: a queued task has a vCPU that will look; `TimeSkipsOnlyWhenIdle`; `WokenTaskPolled` |
| `insecure_services` | 2 vCPUs, 1 slot, 1 entry, 1 command, everything called | `ServicesSound`: no slot lost or shared, the scheduled vCPU is the one started; `NothingStranded`: no command and no wake-up slept over; `FirstVerdictStands`: the host gets the verdict that was pushed first; no deadlock |
| `snp_live` | the same, three smaller workloads | `WaitEnds`, `PickedRuns`, `VerdictReached` |
| `flushes` | shootdown: 2 vCPUs, both flush; profiler: 2 vCPUs, 2 collectors, 4 entries | `ShootdownSound`: a finished flush is complete, every bit waited for is answered; `ProfilerSound`: the trace is what was published, kernel and host use different halves; `SpinsEnd` |
| `platform` | launch: 3 programs, 6 lists of inputs, 3 back ends; TDX services: 2 vCPUs; slots: 4 bytes of 2 bits; clock: 2 sleepers, heap of 4; lock: 4 users | `ReportsTruthful`, `HonestRunsAccepted`, `ProgramsLoaded`; `ServicesSound` for TDX; `SlotsAgree`; `TimeKept`; `LockSound` |
| `memory` | frames: 2 CPUs, 1 group of 2 chunks of 2 frames; page tables: 2 CPUs, 4 pages; 3 address spaces and 3 PCIDs on 2 CPUs; 2 address spaces of 3 pages; a file of up to 4 bytes in pages of 2 | `FramesSound`, `TablesSound`, `PcidsSound`, `MappingsSound`, `BufferIsFile` |
| `files` | 2 threads on a pipe, socket or eventfd of capacity 3; 3 openers of a named pipe; 2 lockers of 2 descriptions; shared cursors; listings of 3 names; 2 threads with tables of at most 3 descriptors | `StreamsAwake`, `StreamsIntact`, `FifoConnects`, `LocksExclude`, `EachOnce`, `NumbersLowest` |
| `workload` | 2 threads in trees of up to 4 directories, a file, a link and mounts; 3 threads of 2 processes; 2 threads and 6 signals; 3 threads on a futex; 2 processes with 3 user ids | `TreeAgrees`, `ProcessesSound`, `SignalsDelivered`, `WaitersWoken`, `IdsKept` |

Sizes range from 14,000 (`executor`) to 1.6 million states (`insecure_services`).
Symmetry is used in `memory`, `files` and `workload`, which check safety only.

The bounds. A command buffer of one command and one allocation entry make "full"
and "empty" the normal case, and the second vCPU is enough for every pair of
steps to race. The ring of 7 bytes holds one long and one short command and is
prime to their lengths, so that commands wrap around at every place. Three
PCIDs are the boot tables' and one for each of two of the three address spaces,
so a PCID must be reused; three openers are two that meet and one that comes
between. In
`time_skip` three sleepers are the fewest for which the heap's array is not
sorted while all of them sleep; in `platform` two sleepers fill a heap of four
with the timeouts they cancelled. The clock starts at 0, since only differences
matter. `LIMIT = 4` stands for 2^62 and is
the smallest value that `RwLockAssumption` (no more users than `LIMIT`) allows.
Capacities (3 bytes, 3 descriptors, 2 frames) are such that limits are reached in
a few steps. Counters of calls and events (`MaxCalls`, `MaxEvents`, `MaxExec`,
`MaxDisturb`, ...) are in the guards; they bound how often something is done, not
the order. Two bounds restrict what overlaps: in `FdTable` only calls on one
table do (`Starts`), and `Tree` starts from one of five `Scenes`, each with the
nodes, the paths and the number of calls per thread that its cases need. One has
three directories below the root in two branches, the fewest with which two
renames between different pairs of directories can move each below the other.
Where a theorem is listed below, the run's bound does not limit the property.

A workload (`Workloads`) is the set of operations the kernel calls together with
the size of its cache of slots; it is chosen in the initial state and kept.

Runs that show a disagreement between the code and what it says (`findings`):

- `tdx_wait`: `WaitEnds` fails for TDX. A vCPU arms itself; another one drains
  the buffer, resets the notifications and sends the interrupt while the first is
  still running its kernel. The handler does nothing, and the later HLT has
  nobody to end it. In the same way `VerdictReached` fails for TDX: `handle`
  returns when `try_lock` fails, and the holder may have looked at the buffer for
  the last time. On SNP both hold (`snp_live`), because a park token is kept.
- `time_skip`: `advance_to_next_timeout` takes the first valid timeout of the
  heap's array, which is only the earliest if the root is still valid.
- `group_exit`: `terminate` takes a thread's running state and then the thread's
  lock, `ThreadGuard::exit` takes them the other way round.

## Fairness

- `CommandBuffer`: the reader keeps reading (`WF`).
- `Executor`: every vCPU keeps executing (`WF`). A stay in `Task::poll` ends
  (`SF` on leaving it): the code polls a task again at once when it was woken
  meanwhile (`rt.rs:83`), so a task woken in every poll keeps its vCPU for ever.
  Firing the expired timeouts ends.
- `HostServices`: the host schedules its threads and vCPUs get through
  `supervisor.rs` (`WF`). The supervisor sees an empty buffer now and then (`SF`
  on `Drained`): notifications are only sent after it does (`services.rs:29`), so
  vCPUs that refill the buffer for ever just in time would starve the others.
  `TdxServices` assumes the same.
- `TlbShootdown`: vCPUs run and leave the guest (`WF`); interrupts arrive, the
  spin lock is granted and `COUNTER` is not refilled for ever just before it is
  looked at (`SF`).
- `Profiler`: vCPUs, the polling thread and the collectors keep running (`WF`).
- `Processes` (only for `group_exit`): every task that can run does (`WF`), which
  is what `Executor` gives it.

Which operation a workload calls, or whether it calls any, is never assumed.

## Proofs

The theorems hold for every value of the constants that the named assumption of
the module allows. The scheme is always the same: an invariant (`IInv`, or one
named after the component) holds initially and is preserved by every action, and
what is claimed follows from it.

| theorem | states | assumption |
|---|---|---|
| `CommandBufferProofs!RingSound` | `BufferSound` | `BufferAssumption`: any ring size, any commands |
| `CommandBufferProofs!RingIsAQueue` | `ImplementsQueue`, the refinement | the same |
| `ExecutorProofs!TasksAreHeld`, `WakesAreKept`, `VcpusAreServing`, `SkipsWhenIdle` | `TasksHeld`, `NoLostWake`, `VcpusServe`, `TimeSkipsOnlyWhenIdle` | `ExecutorAssumption`: any number of vCPUs and tasks |
| `HostServicesProofs!ServicesAreSound`, `NothingIsStranded`, `FirstVerdictIsKept` | `ServicesSound`, `NothingStranded`, `FirstVerdictStands` | `ServicesAssumption`: any vCPUs numbered from 0, any slots, any size of both buffers and of the cache |
| `VcpuProofs!ShootdownIsSound` | `ShootdownSound` | `TlbAssumption`: any number of vCPUs and flushers |
| `VcpuProofs!LockIsSound` | `LockSound` | `RwLockAssumption`: at most `LIMIT` users |
| `VcpuProofs!PcidsAreSound` | `PcidsSound` | `PcidAssumption`: at least one PCID, any CPUs and address spaces |
| `VcpuProofs!SlotsAreAgreed` | `SlotsAgree` | `SlotAssumption`: any size of the bitmap and of its bytes |
| `FileProofs!LocksAreExclusive` | `LocksExclude` | `LockAssumption`: finitely many descriptions, any threads |
| `FileProofs!FifosConnect` | `FifoConnects` | `PipeAssumption`: any openers, any number of buffers made |
| `TaskProofs!WaitersAreWoken` | `WaitersWoken` | `FutexAssumption`: any threads, values that include 0, any bit sets, any bound of the table |
| `TaskProofs!IdsAreKept` | `IdsKept` | `IdsAssumption`: any processes and ids, 0 and a separate "unchanged" among them |

- `CommandBufferProofs`. The unreleased bytes are exactly those between the two
  indices (`UnreadIntact`) and form whole commands (`Framed`); the push in
  progress lies behind them and will fit (`WriterInv`); what the reader has is a
  prefix of the oldest command (`ReaderInv`). For the refinement, `pushed` records
  the commands pushed and not yet released, and `QueueInv` says that the unreleased
  bytes encode `pushed` command by command. Publishing a command then is the
  queue's `Push`, executing one its `Dispatch` (the abstract queue is `pushed`
  without a command that was executed and not yet released), and every other step
  stutters.
- `ExecutorProofs`. A task is held once and polled once, a wake is never lost, a
  bit stands for a vCPU on its way (`BitsHonoured`), only a halted or absent vCPU
  lacks its bit (`RunningHasBit`), launches are under way one at a time
  (`Launching`), and while one vCPU skips time all the others are idle
  (`OnlyOneLeft`). The last three make the claims about vCPUs and about skipping
  inductive.
- `HostMemoryProofs`, `HostKernelProofs` and `HostServicesProofs` are one proof in
  three modules: the invariant with the kernel's steps that move slots, the
  kernel's other steps, and the supervisor's steps with the theorems.
  `IInv` has four parts. `TypeInv`: types; `AllocateMemory` stays first in the
  buffer while the supervisor fills the allocation buffer; a notified vCPU has an
  index. `SlotInv`: no kind of owner has a slot twice, and exactly one kind of
  owner has it. `StartInv`: vCPUs below `started` were started, all of them but the
  last are launched, and only launched ones are armed, kicked or notified; at most
  one `StartNextAp` is wanted, queued or being carried out, and its vCPU's bit is
  set. That one-at-a-time clause is what makes "the vCPU the supervisor counts up
  to is the one that was scheduled" inductive. `WakeInv`: whoever waits has a
  token, an entry in the list to be kicked, an armed bit or somebody about to
  notify it, and a command in the buffer has somebody who will drain it.
  `FirstVerdictStands` compares what the host got with `asked`, the history of
  pushes: until the host has a verdict, the one asked for first comes before any
  other in the buffer (`VerdictInv`).
- `VcpuProofs`, shootdown. Whoever may hold translations has its bit in `RAN`, in
  a mask on its way or in `COUNTER`, or will drop them before it runs the guest
  (`CachedTracked`); what the watched flush is about can only be in its own mask or
  in `COUNTER` once it has taken `RAN` (`StaleTracked`). The watched flush is any
  one vCPU's, so the theorem is about every flush.
- `VcpuProofs`, lock. A write-locked state has drifted by no more than the number of
  readers still in `reload` (`Drift`).
- `VcpuProofs`, PCIDs. Live page tables have PCIDs of their own (`PcidsDistinct`),
  and what a CPU still refers to is live: the page tables in CR3, and those of
  every translation it caches, also of page tables it does not run any more
  (`CachedLive`). That the search for a free PCID ends at one rests on the least
  number principle.
- `VcpuProofs`, slots. `SlotsAgree` is inductive as it is. What has to be shown is
  that the search from `start_offset` finds a clear bit of the bitmap, and that
  the byte and the bit of a slot give the slot back.
- `FileProofs`, flock. Giving up the old lock and trying the new one are two steps,
  with a notification between them. The thread has the mutex of the description's
  state meanwhile (`GuardHeld`), so the description still holds nothing at the
  second (`Released`). That is what makes the counter's honesty inductive.
- `FileProofs`, named pipes. The references to a half are those of the openers that
  opened its side (`UsersMatch`), and a new buffer is one that no half has, dying
  ones included (`BuffersMade`). The assertion of `make_read_half` and
  `make_write_half` excludes that a half is made next to a dying one of its side
  (`SoleMeansNoDying`).
- `TaskProofs`, futexes. A thread has at most one open entry, a sleeper has one, and
  only sleepers and threads about to give up do (`OneEntry`, `SleeperListed`,
  `OthersUnlisted`). `wake` rebuilds the list from the entries it leaves, so its
  step needs that these are numbered without a gap (`RankOnto`); a wake for
  everyone leaves no entry (`AllAreTaken`).
- `TaskProofs`, credentials. What a process had when it gave up user 0 does not
  contain 0 and bounds its ids from then on (`HeldBounds`): without the first part
  a call as super user could add any id. What it may signal, renice or open follows
  from its ids in every such state (`ReachesOwn`).

Only model-checked:

- liveness (`WokenTaskPolled`, `EveryCommandHandled`, `WaitEnds`, `PickedRuns`,
  `VerdictReached`, `SpinsEnd`), which depends on fairness and is out of the
  prover's reach;
- `TimeKept` and `TreeAgrees`: what a heap operation or a path lookup computes is
  recursive, and induction over data is out of reach as well;
- `ReportsTruthful`, `HonestRunsAccepted` and `ProgramsLoaded`: they are about folds
  over load commands, so the same applies;
- `ServicesSound` for TDX, `FramesSound`, `TablesSound`, `MappingsSound`,
  `BufferIsFile`, `ProfilerSound`, `StreamsAwake`, `StreamsIntact`, `EachOnce`,
  `NumbersLowest`, `ProcessesSound` and `SignalsDelivered`: no proof has been
  written.

## What the models record besides

Behaviour that the models reproduce because the code has it, and that the
properties take into account. No document of the repository says otherwise, or
only in passing, so these are not findings:

- slots: the bitmap of `dynamic.rs:56` has 2^15 slots, `SlotIndex` accepts
  indices below (2^16 - 1) / 2, so the allocation that reaches the last slot
  panics (`HostAgrees` allows for it);
- lock: the comment of `rwlock.rs` describes a reload "once it's no longer
  sufficiently large", but the code reloads while the state is still close to
  `i64::MIN` and stops when it has drifted; exclusion does not suffer, as proved;
- frames: the condition at `frame.rs:513` is the opposite of the comment at
  `frame.rs:511`. A group has fewer free frames than a wholly free chunk only while
  a deallocation is between its two counters; then the subtraction at
  `frame.rs:521` underflows, and the kernel, built with overflow checks, panics. So
  hot-unplug never succeeds;
- mappings: `unmap` stops at a gap (`memory.rs:653`), so a range that begins in one
  keeps its mappings, and a mapping made there afterwards overlaps them or panics;
- launch: files of init and of the inputs that are too long for their regions are
  cut (`init.rs:37`); for the inputs the supervisor then panics;
- streams: a writer that waits for an event counter is not notified
  (`eventfd.rs:64`); a sequenced packet is lost when the copy to the user faults or
  the peer has closed (`seq_packet.rs:250`); `epoll_wait` holds the spin lock of its
  interest list while it waits (`epoll.rs:55`), so that an `epoll_ctl` of another
  thread spins until an event arrives, and panics if the list is empty
  (`epoll.rs:64`); sendfile and splice lose the chunk they have read when the write
  fails;
- named pipes: an `O_RDWR` open notifies nobody; the assertion at
  `stream_buffer.rs:139` fails when a half is made while the last one of its side is
  being dropped, which is where the model stops;
- flock: the test of `non_blocking` is inverted (`fd.rs:611`, `fd.rs:633`). A call
  with `LOCK_NB` waits, one without fails with `EAGAIN`;
- descriptors: the undo of a failing pipe2 or socketpair closes by number and may
  close what another thread has put there meanwhile (`syscall.rs:3859`);
- tree: an exchange leaves the locations of directories behind (`tmpfs.rs:606`). Two
  renames between directories that overlap can put two directories inside each
  other, out of reach of the root; the run gets there. From then on a later rename's
  walk up (`tmpfs.rs:517`) and `Directory::path` (`directory.rs:140`) need not end.
  `TreeSound` makes no claim about paths after an overlap; link counts, the one
  entry of a directory and its location hold throughout. What is created in or
  renamed to a directory that was removed after it was looked up is lost;
- locks of directories: a rename that replaces a directory takes its lock while it
  holds those of both parents (`tmpfs.rs:455`). If that directory is the parent the
  entry comes from, the rename waits for itself; with an rmdir, which locks from
  above, each may wait for the other. No other pair of calls does, since `lock_two`
  waits holding nothing;
- processes: an assertion or `unwrap` of `process.rs` and `running_state.rs` can
  fail when exits overlap (`panicked` in the model, where it stops); a cloned thread
  is not in the list before its first poll; a clone that fails after the new process
  was made (`syscall.rs:1438`) leaves its parent a child without threads, for which
  wait4 waits for ever, as it does for a process that is no child; CLONE_VFORK with
  CLONE_THREAD keeps the caller's lock until the new thread is done;
- signals: KILL is put first in its own queue only (`thread.rs:839`), so one for
  the process waits behind signals of the thread; the default action of ALRM is not
  implemented (`thread.rs:643`); a signal stack that cannot be written makes the
  kernel panic (`thread.rs:221`); an rt_sigreturn that fails half-way keeps the
  handler's mask;
- futexes: a wake may be counted for a waiter that is just giving up
  (`futex.rs:80`);
- credentials: setreuid stores the effective id as the real one; setuid sets only
  the real id; tgkill, prlimit64 and futimesat do not compare ids with those of what
  they act on. `IdsKept` is about the calls that do, and says so;
- time: `TimeKept` says that nobody wakes early, that no expired timeout stays in
  the heap and that the clock does not go back. It does not say how late a sleeper
  wakes, since a skip may go past its deadline (`time_skip`).

`hazards` in `PROJECT.json` lists where interleavings, failures and limits bite,
with the properties that watch over them.

## Assumptions and limits

- Memory is sequentially consistent. The code uses relaxed orderings in places
  (`rwlock.rs`, the notification buffer); reordering is not modelled.
- Critical sections of a mutex are one step, except where the lock itself is the
  subject (`TlbShootdown`, `HANDLER`, `RwLock`, `Processes`, the directories of
  `Tree`, flock's state) or is held across an await (`Streams`).
- The hardware does what the code relies on: in particular, entering a guest
  with the flush requested drops its translations, also when the entry returns at
  once for a pending interrupt (`vcpu.rs:176`, `EnterPending`): the request is not
  made again.
- In `HostServices` the exchange of a slot with the host (`MEMORY_PORT`) is part
  of the supervisor's step; `HostAllocator` models it in detail.
- In `Attestation` hashes are injective and signatures verify. The permissions that
  the supervisor sets protect private pages only, so nothing is claimed of its
  shared segments. KASAN's shadow mappings are left out; `main.rs:296` refuses
  them on TDX, where the verifier does not expect them. Pages of the header
  are compared as headers: the rest of such a page is not looked at by the code
  either.
- The parts of a composite run do not interact there; what one relies on from
  another is stated in its module and is a property of that other module.

## Not modelled, and why

`PROJECT.json` lists every part with its status. Left out: byte formats and
layouts (ELF headers and the initial stack, CPU structures, GHCB and TDCALL
encodings, signal frames), the heap (its state is the memory itself), the
dispatch of system calls and calls that only copy constants or statistics, logging,
compile-time code, start-up of the machine, and clients of network services.
