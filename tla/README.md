# OutRun OS: a TLA+ verification development

OutRun OS is an x86-64 kernel written as one C translation unit
(`src/metal/kernel/kernel64.c`, which includes `files.c`, `mm.c` and
`mm_impl.c`), with small parts in Rust and C++, ring-3 programs under
`src/metal/user` and GUI applications under `src/apps`.  This directory models
the system's concurrent, crash-exposed and stateful parts in TLA+, model-checks
them with TLC, and proves theorems about the content store, the lock, the directory
journal, the run queues, the page tables and the descriptor tables with TLAPS.  Line
numbers below are lines of `kernel64.c` unless a file is named.

Contents: [1 Inventory](#1-inventory) · [2 Plan](#2-plan) ·
[3 Modules](#3-modules) · [4 Runs](#4-runs-and-bounds) ·
[5 Fairness](#5-fairness) · [6 Proofs](#6-proofs) ·
[7 Where the code departs from its documentation](#7-where-the-code-departs-from-its-documentation) ·
[8 What is not modelled](#8-what-is-not-modelled)

## 1 Inventory

### 1.1 The parts, their state and operations

| Part | Lines | State | Operations | Module | What makes it correct |
|---|---|---|---|---|---|
| Content-addressed store | 6672–8177 | index slots (hash, block, length) on disk; bitmap and superblock on disk and in RAM; one-transaction redo journal; block reference counts in RAM | `cas_put`, `cas_free`, retain (9460), `cas_mount`, `cas_format`, `cas_journal_recover`, `cas_refs_rebuild` | `CasStore` | after any power loss the mounted index, bitmap and superblock agree; a chunk a directory names exists |
| Ranked spinlocks | 3701–4553 | gate `v`, reader count `rdrs`, per-lock rank record, rank stacks per core, thread and process | `klock_acquire`, `klock_release`, `klock_read_acquire`, `klock_read_release` | `KLock` | exclusion, readers drain, no false or missing rank report |
| Directory journal | 9044–9376 | `g_dir`, home region, shadow slots, header, slot table, deferred list | `vfs_journal_commit_idx`, `_multi`, `_lazy`, `_flush_lazy`, `_apply` | `VfsJournal` | a committed change survives a power loss; a commit is all or nothing |
| File contents | 9378–10340 | chunk maps: direct, indirect, doubly indirect | write, append, write-at, truncate, unlink | `FileMap` | a file is a sequence of bytes; a failed step leaves it as it was |
| Page cache | 1476–1530, 10411–10580, 15941–16020 | dirty pages, mappings, table entries | faults, msync, munmap, write-back | `PageCache` | a store through a mapping is not forgotten |
| tmp files | 10890–11175, 11841–11905 | slots with owner and length | open, read, write, truncate, unlink | `TmpFiles` | no user reads another's bytes through a reused slot |
| User database | 8619–9040, 10666–10841 | accounts, two images with sequence numbers, lock-out | create, log in, save | `UserDb` | the newer whole image wins; guesses are bounded |
| Disk | 4570–4664, 5496–5738 | request slots, used ring, parked threads | submit, drain, wait | `VirtioBlk` | each request gets its own answer, and an answer |
| Run queues, SMP dispatch, futexes | 15554–15744, 16930–18260, 19741–20110 | a ring per core, affinity, isolation, `wait_key`, `wake_pending`, `parked`, `wait_deadline` | push, pop, steal, park, wake, `SYS_SET_AFFINITY`, `SYS_CORE_PIN`, migrate | `Sched` | a task is at one place; wakes are not lost |
| Frames and page tables | 1065–1783, 15911–16057, 25020–25125 | `g_frame_ref`, page tables with PRESENT, ZFOD, COW bits, TLBs | fault, fork, sbrk, mmap, munmap, mprotect, teardown, shootdown | `Vm` | an owner per count; no write reaches a shared frame; no use of a freed one |
| Buddy allocator | `mm.c`, `mm_impl.c` | free lists per order, frame marks, physmap | note, init, alloc, free | `Buddy` | a partition of the frames, coalesced |
| Shared memory | 2819–2911, 12472–12604, 20938–21050, 23441–23502 | frames sent with messages, segments, attach counts | send, receive, refuse, map, leave | `Shm` | a frame has the references it is owed |
| SMP start, jobs | 17571–17599, 18125–18678; `apboot.asm` | mailbox, job word, flags, cursor | start, storm, probe, shared job | `Smp` | each unit once; a core to a stack |
| Kernel threads | 3474–3688, 16757–16874 | slots, `g_cur`, saved contexts | create, switch, block, wake, exit | `Threads` | a thread runs in its own context |
| Process table | 2487–3160, 15744–15851 | slots, pids, groups, parents, exit log | spawn, exec, exit, wait, join, reap | `Procs` | a pid names one process |
| exec, ids, loader | 22505–22644, 23657–23727, 30963–31075 | the staging buffer, the loaded pages, argument block, six ids per leader and their mirrors, set-id bits | `SYS_EXECVE`, ELF loader, `setuid` …, chmod, chown | `Exec` | a process runs what its own execve read; root given up does not return |
| Signals, timers, CPU time | 1992–2304, 15137–15536, 16047–16092, 17783–17886, 23990–24069 | pending, masks, frames; deadlines; accounts | kill, deliver, return, arm, scan, fold | `Signals`, `Clock` | no recursion, no double expiry, time is charged once |
| Clock | 779–788, 4816–5121 | ticks, ACPI stamp, TSC anchor | tick, renew, read | `Clock` | time does not go back |
| Descriptors, pipes, eventfds, epoll, messages | 2058–2480, 11271–12395, 19385, 19920–20040; `files.c` | tables, `g_ofiles`, rings, counters, watch lists, queues | open, close, install, grow, fork, exit, redirect, `epoll_ctl`, send, receive | `Fds` | `nref` is the numbers plus messages; EOF exactly when the last end is gone |
| Offsets of open descriptions | 20547–20720, 24070–24229 | `off`, append flag, shared through fork and threads | read, write, seek, truncate, open | `Offsets` | a position is what the calls add up to; appended bytes stay |
| TCP | 13809–14781, 21433–21796 | sockets, send and receive buffers, early segments, timers | connect, listen, accept, send, receive, timer, reset | `Tcp` | a stream: in order, whole, acknowledged when it arrived |
| Datagrams | 13783–14153, 21679–21821 | sockets, queues, sessions | bind, connect, listen, accept, send, receive | `Dgram` | each datagram once, at its session |
| Network driver, ARP, DHCP | 5770–6547 | rings, cache, lease, waiters | receive, send, resolve, lease, reset | `NetDev` | a frame goes to who announced the address |
| Windows, desktop, surfaces, canvas | 3250–3288, 14783–15114, 20843–20934, 21822–22169, 31895–33162, 37494–38077 | window table, focus, widgets, buffers, springs, camera | input, layout, flip, draw | `Wm`, `Desk`, `Surfaces`, `Canvas` | ids mean one owner; no torn frame; motion ends |
| Passthrough | 3050–3324, 5155–5493, 16117–16820, 24489–24695 | claims, IOMMU domains, grants | claim, release, attach, exit | `Passthru` | a dead owner's device reaches no memory |
| GPU, sound | 12879–13038, 13525–13764, 21242–21430 | command slot, fences, resources, stream | submit, wait, attach, flush, exit | `Media` | frames stay while the host uses them |
| virtio bring-up | 5521–5653, 6169–6262, 12793–12877, 13553–13666, 16226–16464 | status, features, queues | probe, quiesce | `Probe` | used only after a whole handshake |
| USB, PS/2 keyboards | 557–654, 13079–13473, 22981–23020 | rings of TRBs, reports, characters | enumerate, poll, type | `Input` | order kept, a key typed once |
| C compiler | `user/occ.c` | tokens, code, patches | compile, run | `Occ` | the code means what the program says |
| Browser | `apps/outrun_web.c` | tabs, transfer, picture pool | load, redirect, draw, close | `Web` | pictures have one owner; https is not left |
| Boot, interrupts, self tests, shell, other programs | rest | – | – | – | – |

### 1.2 How they interact

A system call enters `syscall_dispatch` (20453) on the calling task's core with
interrupts off, and takes klocks in rank order: `g_ofile_lock`, `g_vfs_lock`,
`g_cas_lock`, the block device.  A file write goes down that path: the file
layer puts and retains chunks (CAS), then commits a directory entry (journal),
both by synchronous sector writes.  A call that must wait arms a wait on a key,
unwinds out of the kernel and restarts when woken: pipes, eventfds, epoll,
messages, `thread_join` and futexes all sleep through the same primitive.
Memory is shared between processes by fork (COW), between threads by
`tg_leader`, and by segments and message pages; freeing a frame involves every
core that may cache a translation.  Exit is where most parts meet: descriptors,
sockets, surfaces, windows, GPU resources, claims, grants, shared pages and the
address space are given back one after another, each under its own lock; the
modules of those parts each have the share of exit that is theirs.

### 1.3 What is hard

* Interleaving of two cores between two locked sections of one call (descriptor
  install, COW break, wait and wake, directed migration, a claim and its
  attachment, a flip and the compositor).
* Power loss between two sector writes, between two layers' transactions, and in
  the middle of an image.
* Accesses without the lock (`SYS_CHMOD`'s commit, `SYS_CLOSE`'s test of the
  deferred count, `g_cpu_isolated`, the clocks, processor time, USB polling).
* Slots and ids that are recycled while somebody still names them: processes,
  sockets, windows, tmp files, disk requests.
* Answers out of order or twice: TCP segments, disk requests, GPU commands.
* Counters that must return to zero, and things that must eventually happen: a
  drain, a woken task, an announced EOF, a disk answer.

`PROJECT.json` lists these as hazards, each at its line, with the properties that
would catch them.  Further hazards no property covers: two cores with interrupts off that wait
for each other's shootdown (17535); a thread's `SYS_BRK` on a break of its own
(22890); open claiming an entry after it released the lock (12057); an
edge-triggered watch (19952); a number looked up in one section and used in the
next (11688); a commit over a pending slot (9109, section 7); a ring that is full
when a task is pushed (19634).

## 2 Plan

| Step | Modules | Abstract specification | State |
|---|---|---|---|
| 1 | `CasStore`, `CasStoreProofs` | `ContentStore` (refinement checked and proved) | done, proved |
| 2 | `KLock`, `KLockProofs` | – | done, proved |
| 3 | `VfsJournal`, `Sched`, `Vm`, `Fds` | `Spaces` for `Vm` (refinement checked and proved) | done |
| 3a | `VfsJournalProofs`, `SchedProofs`, `VmProofs`, `FdsProofs` | – | proved |
| 4 | `FileMap`, `TmpFiles`, `PageCache`, `UserDb`, `VirtioBlk`, `Offsets` | `ByteFiles` for the first two (refinement checked) | done |
| 5 | `Buddy`, `Shm`, `Smp`, `Threads`, `Procs`, `Exec`, `Signals`, `Clock` | – | done |
| 6 | `Tcp`, `Dgram`, `NetDev` | stream order as an invariant over what each end read | done |
| 7 | `Wm`, `Desk`, `Surfaces`, `Canvas`, `Passthru`, `Media`, `Probe`, `Input` | – | done |
| 8 | `Occ`, `Web` | `Occ`: a reference meaning of programs | done |
| 9 | the capability table, the C++ ring, edge-triggered watches, the time stream | a bounded queue | left |
| 10 | compositions: exit as one procedure over `Fds`, `Shm`, `Passthru`, `Media`, `Surfaces`; `FileMap` over `CasStore` | – | left |

Theorems: `CasStore`'s invariants and its refinement of `ContentStore`, `KLock`'s
four invariants, `VfsJournal`'s invariants and action properties, `Sched`'s invariant
and the two action properties of its dispatcher, `Vm`'s invariants and its refinement
of `Spaces`, and `Fds`' invariants are proved (section 6).  Next in order: `Buddy`'s
`Partition` and `Counted`; `Shm`'s `Exact`; `VirtioBlk`'s `OwnAnswer`; `Exec`'s
`NoReturn`.  `Tcp` and `Occ` declare RECURSIVE operators and are out of the prover's
reach.

## 3 Modules

Each module has its parameters as CONSTANTS, with a named assumption where one is
needed, one action per operation or per locked section, `Next`, `Spec`, and its
properties at the end; the invariants one run checks together are conjuncts of
one definition (`StoreSound`, `VmSound`, …).  Where a module serves several
programs (four disks, four workloads), it takes a set `Settings` and a variable
`setting` holds the member chosen in `Init`; it never changes.  This is how one
run covers several configurations, and how an interval in which a known defect
shows is opened for one run and closed in another.

An `MC…` module gives the constants small values.  `CasStore`, `Vm` and
`KLock` need none: the volumes `CasStore` and the programs `Vm` are checked on are
their last sections, and the configuration of `KLock` takes the file path's locks
with the ranks the code gives them.  All four of them are benches: they extend one
module and instantiate several more that share no state, over variables `x1`, `x2`,
…; the variable `part`, chosen in `MCInit` from `Parts`, says which of them a
behaviour runs, and the others' variables are constant.  One run so covers them all,
at the sum of their costs and not the product.

Next to some definitions stands a variant that no action uses (`RecheckBlind`
by `Recheck`, `SlotAlways` by `SlotFor`): the definition as it would be after a
plausible bug.  `PROJECT.json` lists them as mutants; each property is violated
by one.  Some properties stand in a module although no passing run checks them:
they are what a comment of the code claims and the code does not keep
(section 7).

`map` in `PROJECT.json` has a row per operation, and per helper with lines of its
own; a helper whose lines lie inside an operation's row is covered by that row.

### 3.1 CasStore, ContentStore

`CasStore` has the disk (`dSb`, `dBm`, `dIx`, the journal header `jHdr` and
shadows `jSb`, `jBm`, `jIx`), the RAM copies (`bm`, `dirty`, `refs`, the
superblock), the operation under way (`step`, `txn`) and its client.  Every
sector write is a step, and `Crash` may come between any two.

| Action | Code |
|---|---|
| `Mount`, `ReplaySb`, `ReplayBm`, `ReplayIx`, `ReplayClear`, `Load`, `FormatIndex` | `cas_mount` 8121, `cas_journal_recover` 7603, `cas_format` 8036, `cas_refs_rebuild` 9623 |
| `PutDedup`, `PutVolumeFull`, `PutData`, `PutStage`, `PutIndexFull` | the returns of `cas_put` 7758–7890 |
| `Retain`, `FreeRefused`, `FreeShared`, `FreeLast` | `vfs_map_ref_one` 9460, `cas_free` 7895 |
| `JournalHeader` … `HomeIndex`, `FlushSb`, `FlushBm`, `JournalClear` | `cas_journal_write` 7527, `cas_flush_meta` 7136, `cas_journal_clear` 7541 |
| `BeginWrite`, `BeginRawPut`, `Commit` | the order in `vfs_write_locked` 9741 and unlink: put, retain, release, commit |

`CrashSound` says that what a mount would recover is sound at every moment, but
for the interval the finding `CasShadow` is about: the superblock counts the
bitmap, no block is allocated without an entry, no two entries share a block, and
every entry is where its probe looks and names a block with its content.
`RecoveryLands` and `RamAgrees` say the same of the disk once replay has ended,
and of the RAM copies between operations.  `RefsMatchNames` and `RefsAllocated`
relate the RAM counts to the directory; `NamesResolve` says that what the
committed directory names is found by the next mount, but for the one name an
unfinished delete has freed.
`StoreSound` is the conjunction of these and `TypeOK`.  `ImplementsStore` maps the detailed store to `ContentStore`, a set of present
contents and the committed names, in which a named content is never reclaimed.

Abstractions: two contents with one hash are one chunk, as for the code; data
blocks carry no bytes; formatting's zeroing is one step; the generation table
(7265) and statistics are left out; the −2 duplicate path of `cas_index_stage`
cannot be reached under the lock `cas_put` holds.  Writes become durable in the
order issued: the driver waits for each.

Two intervals in which power may fail are `windows` of a setting: `"shadow"`
(between the journal's header and its shadows) and `"undir"` (between `cas_free`
and the directory commit).  The first breaks `CrashSound`, so the passing run
leaves it closed and `CasShadow` opens it.  The second is open in one of the
passing settings (`Undirected`), where `CrashSound`, `RecoveryLands`, `RamAgrees`
and `RefsAllocated` hold all the same; what depends on it (`RefsMatchNames`,
`NamesResolve`, the refinement) is claimed for the other settings, and
`CasUndirNames` shows what breaks.

### 3.2 KLock

The gate, the reader count, and each context's position in the acquire.  An
exclusive acquirer wins the test-and-set and waits for the readers
(`TestAndSet`, `Drained`); a shared one looks, counts in, looks again and backs
off (`SeesOpen`, `CountIn`, `Recheck`, `BackOff`); `Release` pops the rank where
it was pushed (`rank_st`, `rank_spp`, `rank_idx`, 4342–4357, 4383–4440).
`Switch` is `rank_ctx`'s answer (4131) changing between acquire and release, the
reason the release must not resolve it again.  The acquires are of strictly
higher rank, releases in LIFO order, as the callers' rule says.  Rank checks and
pushes mask interrupts, so each is one step.

`Exclusion`: an exclusive holder is alone.  `DrainExact`: `rdrs` is the number of
contexts that have counted themselves in.  `ReportsSound`: no rank is reported out
of order when it is not, an acquire out of order on a stack that holds all of a
context's ranks and no one else's would be (`InversionSeen`), and none stays recorded
in a storage whose context holds nothing.  `DrainEnds`: who waits for readers to drain stops waiting.

### 3.3 VfsJournal

`home`, `shadow`, `hdr` are the disk; `dir`, `slotOf`, `count`, `lazy`, `lazyN`
the RAM; `lock` is `g_vfs_lock`; `op` each process' position.  A setting says which
processes close files, which make the other calls, which of those call `SYS_CHMOD`
or `SYS_CHOWN`, and which further intervals power may be lost in.  A commit takes a
slot and writes its shadow (`StageBlock`), carries the deferred entries along
(`StageDeferred`, 9183) and writes the header (`Publish`); `Sync` and `Mount`
apply the journal block by block and clear the header.  `Chmod` commits holding
no lock (23826); `CloseSees` and `CloseFlush` are the two halves of close
(20784).  A dirent is a name and a version bit, so that "which version survived"
can be told; one dirent per block in the run.  Taking a slot and writing its
shadow are one step; torn reads of a dirent by the unlocked commit are not
modelled.

`CommittedSurvives`: between commits, what a mount would recover is the directory
in RAM, but for the deferred entries.  `UniqueNames`: it has no name twice.
`NeverOlder`: no step, replay and interrupted replay included, takes an entry of it
anywhere but to what RAM holds.  `WriteCarriesDeferred`: a commit of one entry
publishes every deferred one with it.  `NoForgottenAppend`: the count `SYS_CLOSE`
reads without the lock is not zero while something is deferred.  The state
properties make up `DirectorySound`, the other two `JournalMoves`.

### 3.4 Sched

`rq`, `core`, `wait`, `due`, `iso`, `aff`, `pin`, `mig` are the code's fields;
`held` says whether the awaited condition holds.  `Pop`, `Steal`, `Scan`,
`Park`, `Requeue`, `Push`, `Preempt` are the executor (17601–18001); `Wait`,
`Arm`, `Post`, `Wake`, `Consume` the blocking primitive; `SetAffinity`,
`CorePin`, `Direct` the placement calls; `Create` and `Exit` the ends of a task.
A section under a run-queue lock or `g_futex_lock` is a step.  A wake collects
tasks under the lock and pushes them one at a time after it, so a core may die,
be isolated or be asked to wake again meanwhile.

`OnePlace`: a live task is in exactly one ring, on one core, in one hand or
parked.  `NoLostWake`: a futex or join waiter whose condition holds is asleep only
while the wake that follows the change is still to come (stated where every wake
is for all waiters: one that frees fewer leaves the rest asleep by design).
`MovesRespectMask`: a task that is preempted, requeued, stolen or migrated starts
only on a core of its mask (programs that neither wait, join nor create: a wake and
a creation push on the caller's core without looking at the mask, section 7).  `PinHome`: a task directed to a core starts next on that core.
`Rescued`: when every live task is parked, a deadline frees one.  `RunSound` and
`DispatchSound` collect them.

Slots are not recycled, return values and signals are left out, idle cores poll
instead of being pinged.

### 3.5 Vm, Spaces

A core is in ring 3, idle, or at a step of a fault, call or teardown (`op`).
`Walk`, `Store` are ring 3's accesses through the TLB; `Fault`, `NoFrame`,
`ZeroFill`, `CowCheck`, `CowTake`, `CowCopy` the page-fault engine; `BrkGrow`,
`BrkShrink`, `Mmap`, `Munmap`, `Mprotect` the calls; `Fork`, `ForkPage`,
`ForkDone`, `ThreadCreate` the clones; `Exit`, `TearPage`, `TearDone` the
teardown; `Drop`, `Push` the two ends of freeing; `Post`, `Ack`, `Acked` the
shootdown.  A core acknowledges only where it has interrupts on.

`OwnersCounted`: a frame's count, plus one, is its mappings and the calls that are
about to let it go.  `WriteAlone`: a frame an entry may write through is mapped by
that entry alone.  `HeapUsable`: every page below the break is there and may be
written, perhaps after a copy.  `FreeUnreachable` and `TlbSound`: no
core can reach a free frame through its tables or its TLB.  `ImplementsSpaces`:
as seen by programs, `Vm` is `Spaces` – private memories that fork copies and
stores change one at a time.  The invariants make up `VmSound`.

Programs keep to these rules: two threads of one process do not work on the same
page at once (`Quiet`); the break is moved by the leader only (`MayBrk`); a
threaded process neither unmaps nor forks; a process that forks does not change
protections (except in `VmProtect`).  Section 7 says what happens otherwise; the last
two rules are `Orderly` of `VmProofs`.  `NoFrame` is the failed allocation the fault
engine tests for (15989).  When memory is exhausted for good `alloc_frame` halts the
machine instead of returning (1107–1112, reached from 1322), from there and from
`map_page`, which needs frames for tables: a stop is no step of the model, so it
breaks none of these invariants, and nothing here says that it cannot happen.

### 3.6 Fds

`of`, `tab`, `size`, `hint`, `pipe`, `ep`, `evfd`, `redir`, `mail` are the code's
tables; a section under `g_ofile_lock` is a step.  `Open`, `Create`, `Pipe`,
`EpollCreate`, `Eventfd` claim; `Install`, `Full`, `Grow`, `Undo`, `Unpipe`,
`Mark` number, grow and undo; `Close`, `Exit`, `Unlink`, `Orphan` release;
`Deref`, `Read`, `Write`, `Console` use; `Redirect`, `CtlAdd`, `CtlDel`, `Fork`,
`Heir`, `Send`, `Drop`, `Post`, `Receive`, `Reject` share.  A pipe's buffer and
an eventfd's counter are abstracted to whether there is something to read.

`RefsExact`: `nref` is the number of table slots that name the description.
`PipeEndsExact`: a finished pipe's counts are the numbers that name its ends.
`NothingLeaks`: a description in use has a number or is about to, a pipe or
instance in use has a description, and a dead process holds nothing.
`NoDangling`: no watch outlives its description, no redirection its number.
`TransferHeld`: a descriptor being sent is in use, and the sender's, until the
recipient has it.  `Announced`: a step that makes a watched description readable,
by data or by end of file, leaves its author about to notify the watchers.  The invariants make up `FdsSound`.

Closed in the passing run: a sibling that closes or forks a number another
thread's `pipe`, redirect or send has in hand (`InHand`); a recipient that exits
while a descriptor is being sent to it; an unlink or create of an entry that has
an open, an unlink or a description (`Undisturbed`).  The run's programs are `Orderly`
besides, as `FdsProofs` (6.6) has it.

### 3.7 FileMap, TmpFiles, Offsets, ByteFiles

`FileMap` is a volume of files whose bytes lie in stored chunks: the entry's own
(`Direct`), a single-indirect block and two double ones, each an object of the
store with a count.  `WriteAppend`, `LookWrite` and `FinishWrite` (a positional
write looks at the length first, in a section of its own), `Truncate`, `NewFile`,
`Unlink`; each builds the new map, retains it, releases the old one, and undoes
what it did when the volume is full (`cap`).  `RefsCover`: no object a file
needs has fewer references than the maps hold; `RefsExact`: exactly as many on a
volume that never filled; `IdentityExact`: a file's identity is that of its
bytes, whichever path wrote them; together `MapSound`.  `TmpFiles` is the RAM-only volume: a call
looks its descriptor up (`Lookup`) and acts on the slot later, when the slot may
be another file's.  `Private`: a file holds bytes of its owner and of root only,
and no other user reads them.  Both implement `ByteFiles`, in which a file is a
sequence of bytes: writes replace and fill gaps with zeroes, truncation keeps a
prefix, a refused call changes nothing.

`Offsets` is the position of an open description that threads and forked
processes share: `Take` reads it in one section of `g_ofile_lock`, `In` or `Out`
moves the bytes under the file layer's lock, `Store` puts it back in a third; a
seek looks its number up twice (`Resolve`, `Set`); an append takes the end of the
file in the section that writes (`AppendAt`).  `Reckoned`: a description that never
had two calls at once is where its callers' answers add up to.  `AppendsStay`: bytes
appended stay, however many append at once.  Closed: a number that a sibling closes
under a call (`Overlap`).

### 3.8 PageCache

One file, two processes that map it: `FaultHit`, `FaultMiss` and `FaultInstall`
(the fill reads the file with no lock held), `FaultWrite`, `FaultPrivate`,
`Store`, `SysWrite`; a flush is `FlushStart`, `FlushRead`, `FlushOverlay`,
`FlushWrite`, `FlushClear`, then `Protect` or `Unmap`.  A page carries the number
of the last store in it.  `OneFrame`: every holder of a frame is counted and
shared mappings map one frame.  `StoresKept`: a store is written back or its page
is still marked.

### 3.9 UserDb

Accounts, the two images with sequence numbers, the busy flag of a save and the
static buffer of scrypt, in which overlapping derivations come out as anything.
`AuthLook`, `AuthDerived`, `AuthRecord`, `UpgradeEnd`; `AddBegin`, `AddEnd`;
`SaveBegin`, `SaveSerialize`, `SaveWrite`, `SaveSkip`; `PowerLoss` may tear the
image being written.  `Survives`: every account whose creation was reported can
be read back.  `GuessBound`: wrong guesses compared between two successes are at
most the limit plus one per other caller that was already deriving.

### 3.10 VirtioBlk

Request slots under `g_vblk_lock`, the published requests, the device, which
answers in any order, the bottom half with its three stores, threads of the boot
core that park and threads of others that poll.  `OwnAnswer`: a request gets the
answer the device gave it.  `ParkedOnPending`: nobody parks for an answer already
given.  `Answered`: every waiter comes back.

### 3.11 Buddy

`mm_note_usable` (ragged ranges, the table that fills), `mm_init` (physmap, the
frames left to the older pool, release to the buddy), `alloc_pages` with its
locked part and its finish (`Got`), `free_pages` with its unlocked check
(`Check`).  `Partition`: the frames released are exactly covered by aligned
blocks, free or handed out.  `Coalesced`: no two free halves stay apart.
`Counted`: the count of free pages.  `Reachable`: what is handed out is mapped.

### 3.12 Shm

Pages sent with messages (`SendTo`, `Grant`, `GrantFrame`, `SendMap`, `SendPush`,
`Recv`) and segments (`ShmCreate`, `ShmMap`), with an exit in its parts (`Leave`,
`LeavePage`, `DropPage`, `LeaveSegs`, `LeaveTree`, `Reuse`).  `Exact`: a frame has the
references it is owed.  `Held`: who maps a page holds its entry.  `Counted`: an
entry in use has a holder; a segment counts its attached processes.

### 3.13 Smp, Threads

`Smp` starts the processors of a table (`Start`, `Again`, `CountIt`, `GiveUp`; on
the other side `Climb`, `Announce`) and hands them jobs (`Reset`, `ClearFlags`,
`Publish`, `Share`, `Gather`, `Barrier`; `ReadMode`, `Enter`, `Work`, `Claim`,
`FoldUnit`, `Leave`).  `OwnStack`, `EachUnitOnce`, `StormCounted`, and for the
shared job `NoneSkips`: a core that says it is finished worked on this job.
`Threads` is the boot core's round robin: `Yield`, `Tick`, `Preemption`,
`Exchange`, `Block`, `thread_wake`, `Exit`, `uthread_exit`, `Resume`, `Enter`, and
creation in three steps.  `ContextsHeld`: the core is in the running thread's
context, and what is kept of a waiting one is its own.  `OneRunning`.

### 3.14 Procs, Exec

Slots that are claimed, reset, filled and published; threads that share their
leader's space; exit in its two halves; exec; the readers.  Each core executes one
call's steps (`Step`).  `SpaceHeld`: nobody's page tree is freed while a member is
inside.  `ParentExact`: a parent link is the parent's or nobody's.  `StatusExact`:
what waitpid or join answers is what that member left with.

`Exec` is what a process runs and as whom.  An execve copies its arguments
(`Exec`), takes the one staging buffer (`TakeBuf`), reads the file into it
(`Fetch`), loads it or refuses it (`Load`, `Refuse`) and commits (`Commit`: set-id
bits, mirrors); other calls run between these.  `SetId` is the six calls that move
ids, `Fork`, `Thread`, `Exit` what children and threads get; `Chmod`, `Chown`,
`Rewrite`, `Unlink` change the program under it.  `ImageMine`: a process runs the
image its own execve read, byte for byte and zero beyond, whatever others load
through the buffer.  `NoReturn`, `Reversible`: root given up for good does not come
back, and nothing else takes the way back from a process born root.  `Mirrored`: a
thread's ids are its leader's.  `ArgsMine` holds when one execve runs at a time: the
arguments are one static copy, filled before the buffer is taken.

### 3.15 Signals, Clock

`Signals`: `Kill`, `KillPg`, `SetPgid`, `SigAction`, `SigProcMask`, `Pick` and
`Deliver` (two steps), `SigReturn`, `Fault`, `Exit`, `Exec`; timers with `SetTimer`
and its three stores, and each core's scan (`ScanRead`, `ScanClaim`, `ScanRaise`).
`NoRecursion`: no handler is entered for a signal that is being handled.
`FiresOnce`: a deadline raises once, however many cores see it.

`Clock` has two behaviours.  `ClockSpec`: the tick handler's stores one by one, and
readers that retry.  `BootForward`: on the boot core no clock goes back.  `ChargeSpec`
takes the fine clock as exact and charges a process by it: the ways in and out of
ring 3 and of a sleep, each store a step, and a reader on another core.  `FoldExact`:
between excursions the total is what was used; `TotalSound`: a reader never sees more.

### 3.16 Tcp, Dgram, NetDev

`Tcp` is the socket table, the state machine and the calls on stream sockets.  On
loopback `Output` and `Input` call each other under the lock; to another machine,
segments join `wire`, from which they are taken late, twice or never.  Sequence
numbers wrap at `W`.  `StreamOrder`: what is read is, in order and without a gap,
what the other end wrote.  `AckedArrived`: a byte leaves the retransmission buffer
when the other end has it.  `EndExact`: end of stream comes after the last byte.
`Dgram`: datagrams on loopback and from the wire, listeners whose sessions are
accepted.  A call that makes a socket is the four locked sections it has in the code
(`Socket` or `Accept`, `Claim`, `Tie`, `Mark`).  `OncePlaced`, `SessionFirst`; `Named`
holds as long as no number is closed before the call that makes it returns (`early`).  `NetDev`: rings, bottom half,
cache (two stores per entry), next hop, the lease and the threads that wait.
`WellAddressed`: a frame goes to the hardware address its next hop announced
last.  `GatewayOnLink`, `NoSleepOverFrame`, `OnePerAddress`.

### 3.17 Wm, Desk, Surfaces, Canvas

`Wm` is the window table under `g_wm_lock`: a window is made in two sections
(`Claim`, `Publish`), the compositor copies the table and draws after
(`Snapshot`, `DrawWindow`, `Flip`).  `FocusSound`, `InputSound` (no event or
widget of an id's earlier owner), `HalfFrameHidden` (where owners share the
compositor's core: `MCDevices` has an instance of either kind).  `Desk` is where one window lies: drag, resize, maximise,
restore, a desktop that changes, springs.  `Reachable`, `SpringRests`,
`MenuShown`.  `Surfaces`: `Create`, `Flip` with its wait and its own swap, the
compositor's pass.  `NoTear`, `Private`, `OwnEvents`.  `Canvas` is the loop in
16.16 fixed point: a mouse and a keyboard, camera and windows moved by ticks.
`ZoomAtCursor`, `ComesToRest`, `InSurface`, `FitShows`.

### 3.18 Passthru, Media, Probe, Input

`Passthru`: the scan's table, claims and their attachment after the lock
(`Claim`, `ClaimAttach`), release, grants, exit in its parts, the hand-over of
the random device.  `NoCorpse`: no device points into a freed table, unless it
changed hands while its owner was leaving (section 7).  `GrantsReach`,
`KernelsOwn`, `RingHeld`.  `Media`: one command slot per queue, whose completion
is taken by whoever looks first.  `OneInFlight`, `FenceKept`, `GivenBack`,
`Backed`, `Tuned`.  `Probe`: each probe as the script of its register accesses; a
device that takes time to reset, refuses features or was left running.
`ReadyIsLive`, `RingsHeld`, `NoBlindQueue`, `ClaimableIsIdle`.  `Input`: rings of
TRBs with cycle bits, enumeration, reports, the PS/2 handler and the ring of
characters.  `InOrder`, `OwnEvents`, `TypedOnce`, `NothingLost`.

### 3.19 Web

The browser's loop: a user event if there is one, else a step of the transfer.
What servers answer is the environment's choice.  `PoolExact`: a taken picture
slot belongs to one document.  `JobOwned`: a transfer belongs to an open tab.
`StaysSecure`: a transfer that reached https never leaves it.  `HistorySound`.

### 3.20 Occ

The one-pass compiler and the machine its code runs on.  A program is a tree
(`MCDevices` has a few hundred); `Build` turns it into tokens, preprocesses,
compiles and patches; `Step` runs an instruction.  `CompiledRight`: exactly the
programs the language has are accepted, and an accepted one returns what
`Meaning`, the language's semantics over the tree, says; every push is popped.

## 4 Runs and bounds

| Run | Bounds | Distinct states | Shows |
|---|---|---|---|
| `CasStore` | 2 bitmap blocks × 2 bits, 2 index blocks × 2 slots, 3 hashes, two of them colliding; pin at 3; four volumes | 481,166 | everything of 3.1 holds outside the `"shadow"` interval |
| `KLock` | 2 contexts, 3 locks, rank stacks of one slot, 3 storages | 42,448 | 3.2, and that drains end |
| `Storage` | journal: 2 blocks of one dirent, 2 names, 2 deferred entries, one process that does everything or two without attribute changes; files: chunks of 2 bytes, 1 direct chunk, indirect blocks of 2, 2 calls on volumes of 5 and 9 objects; pages: 2 pages, 2 frames, 2 processes, one of which writes; tmp: 3 users, 1 slot, 4 calls; offsets: 2 threads and a process they fork, 2 descriptions, 2 numbers, 3 calls; users: 2 names, 2 passwords, 2 threads, one power loss; disk: 2 slots, 3 requests, 3 threads | 815,675 | 3.3, 3.7–3.10, two refinements, every disk request answered |
| `Memory` | 2 cores, 3 frames, 2 pages, 2 or 3 slots, three programs | 440,600 | 3.5 with the refinement |
| `Tasks` | dispatch: 2 cores, 3 tasks, rings of 2, four programs; signals: a shell, a job and its thread, 4 signals, 3 calls; timers: 2 cores, 2 kinds; processor time: 2 threads; processes: 2 slots, 2 cores, 4 creations; exec: 3 slots, 2 programs, five images of which three are refused, ids 0 and 5, 3 calls, or 4 with execves at once; clock: an ACPI timer that wraps at 8, a TSC slower or faster than found | 704,573 | 3.4, 3.14, 3.15, with liveness |
| `Comms` | descriptors: 2 slots, 3 descriptions, tables of 2 growing to 4, one object of each kind, four programs (a pipeline, a watch over fork, two threads of one process, a descriptor that is sent); TCP: sequence numbers modulo 16 that begin at 14, buffers of 2 bytes, one early segment, one retry; net: a ring of 2, a cache of 2 of 2 addresses, a question, two answers and an offer that arrive, one lease, one reset; datagrams: 3 sockets, queues of 1 | 608,459 | 3.6, 3.16 |
| `Devices` | some hundred programs; 2 windows, 2 widgets, 2 processes, once beside the compositor and once on its core; desktops 4 and 6 wide; 2 surfaces; canvas of 2 windows, 2 inputs of 14, 32 ticks; 3 functions, 2 claims; GPU with 3 calls of 2 processes; five drivers; a ring of 5 TRBs; a browser of 2 tabs, 1 picture, 1 redirection; buddy: blocks of up to 8 frames, 4 ragged ranges for a table of 3, 2 users, 6 calls; shared: 2 processes, 2 entries, 1 segment, 3 frames, 4 calls; jobs: 5 processors of which one never answers, one is disabled and one is beyond the maximum; threads: 4 slots, 3 creations, 2 excursions | 1,209,865 | 3.11–3.13, 3.17–3.20 |
| `CasShadow`, `CasUndirNames`, `VfsChmod`, `VmProtect`, `FdOrphan` | as above, one setting | – | a counterexample each; section 7 |

Why these are enough for the cases that matter: a full disk, a full index and a
pinned count need two to four blocks and slots; a chain with a tombstone in it
needs two colliding hashes and a third behind them.  The lock protocol's races
are between one writer and one reader; three locks make two of them held while
one is awaited, and a one-slot stack makes the second hold overflow.  Two
directory blocks are what a rename needs to be torn.  With indirect blocks of two
entries, files of 8 and 14 bytes need the first and the second double block, and
volumes of 5 and 9 objects fill in the middle of building one.  Two cores and a
third task give a queue that is stolen from while a wake pushes to it.  Three
frames and three slots let a grandchild share a frame, a copy fail for want of
memory and a teardown race with a break of the sharing.  A table of two growing to
four fills, grows and fills again.  A sequence number that starts at 14 of 16
wraps in each connection, and a queue of one early segment overflows with the
second.  A ring of five TRBs has its link within reach of two transfers.  One slot
that two owners use in turn shows whatever depends on reuse.  Larger instances
repeat these situations; what they do not show (three-core interleavings, a chain
of replays over several headers, two independent losses in one connection) is
where proofs are meant to reach.

Deadlock is checked in `CasStore`, `KLock` and `Vm`.  In the benches it is not: every
task may have exited, a program ends, and the instances with a bounded number
of calls stop when it is used up.

## 5 Fairness

* `KLock.FairSpec`: weak fairness of each context's own steps – a spinning
  processor does execute its next instruction – and strong fairness of leaving a
  critical section at each nesting level: sections are finite and inner ones do
  not repeat for ever.  Nobody is promised to win a test-and-set (with three
  contexts an inner lock can be starved, as in the code); `DrainEnds` is
  therefore only about the acquirer that has won it.
* `MCTasks.MCSpec` (as `Sched.FairSpec`): weak fairness of each core's kernel
  steps, which include the slice tick that takes a task out of ring 3, and of a
  deadline passing.  Programs are not assumed to make any call.
* `MCStorage.MCSpec` (as `VirtioBlk.Fair`): the device answers what was
  published, the bottom half runs when its interrupt is pending, and a thread that
  polls or was woken runs.  Nobody is assumed to submit.
* The other specifications are safety only.

## 6 Proofs

Six modules hold theorems.  Each is about every value of the constants that the
module's ASSUME allows, each rests on an invariant that is inductive, and each
proof has one lemma per action of the specification.

### 6.1 The lock: KLockProofs

From `KLockAssumption` (finitely many contexts; distinct ranks; a storage set per
context):

* `Inductive`: `Spec => []IInv`, the invariant
  `TypeOK`, `Ordered` (the locks a context holds climb in rank), `Climbing` (one it
  waits for is above all of them), `GateHeld` (an exclusive holder or a drainer has
  `v` set), `GateOwned` (one owner of the gate), `Exclusion`, `DrainExact`.
* `TypeCorrect`, `MutualExclusion`, `DrainCounter`: `Spec => []TypeOK`,
  `[]Exclusion`, `[]DrainExact`.
* `ReportsRight`: `Spec /\ []StoresApart => []ReportsSound`, where `StoresApart` says
  that no context is in an acquire that records on a stack where another's rank is.
* `ReportsRightApart`: `Spec => []ReportsSound` when each context's storages are its
  own; `StoresApart` is then proved (`OwnStores`).

`Exclusion` is not inductive alone: a reader between its count-in and its
re-check is no holder, and what keeps it out is the gate the drainer owns, and
what keeps the drainer out is that reader's count.  `DrainExact` ties the count to
the set of such readers – `CountZero` turns a zero count into "there is none" –
and needs `Climbing`, for without it a context could hold a lock twice and be
counted once.

`ReportsRight` needs to know what is on the stacks: a hold that was recorded is
found at its slot with its rank (`Recorded`), the ranks on one stack are one
context's (`Alone`), later holds of a context are above its earlier ones there
(`Stacked`), and every slot below the top is some hold's (`Owned`).  Then the check
compares a context with its own highest recorded lock, and a pop truncates nothing
that is still held.  `InversionSeen`, the third part of `ReportsSound`, follows from
the same facts (`InversionFound`): where all of a context's holds are on the stack
`rank_ctx` answers and no one else's are, the top is its highest rank, and what is
not above that is reported.  On a stack that overflowed, or that the context was
moved away from, an inversion can go unreported, and nothing is claimed.  The storage
may change between any acquire and its release, and holds that found no room are in
the argument too.

`rank_ctx` (4131–4149) gives a core, a boot thread and a process a storage each and
keys a process' on the leader of its thread group (4137).  Kernel threads, APs and
processes of one thread are therefore under `ReportsRightApart`.  Threads of one
process share a stack.  `ReportsRight` covers them while their locked sections do not
overlap; two that hold locks in the kernel on two cores at once break `StoresApart`,
and the code may then report an inversion that did not happen, or leave one out.

### 6.2 The directory journal: VfsJournalProofs

From `VfsJournalAssumption` and `Orderly`: nobody commits without `g_vfs_lock`
while another process is there (chmod and chown do, so where they are called one
process makes every call), and power is not lost between the two stagings of a
rename.  Both are departures the code has (section 7); without them the properties
are false, as the run `VfsChmod` and the setting `OnlyMixing` show.

* `JournalInductive`: `Spec => []JInv`.
* `CommitsSurvive`: `Spec => []DirectorySound`.
* `JournalNeverBack`: `Spec => JournalMoves`.

`CommittedSurvives` speaks of the moments between commits and of what the header
vouches for; the steps of a commit, of a replay and of a replay that is interrupted
lie between.  `JInv` follows them.  `OneBusy`, `Off`, `Phases` and `Steps` say who
works on the journal and what is left of the call.  `Slots` and `HeaderSound` relate
the slot table, the count and the header: slots 0 … count − 1 are each of one block,
the header names a prefix of them, and all of them between commits.  `Fresh`: a slot
the header does not name yet holds its block as RAM has it, so the write of the
header publishes RAM.  `Durable` and `NamesDurable`: every dirent is in the journal,
deferred, or queued by the commit under way, and the deferred ones keep their names;
`UniqueNames` follows through `DirUnique`.  `Copied` says how far a replay has copied
the slots home, which is why to start it again changes nothing.  `LazyBound` keeps
the deferred list within its limit.  That a free slot exists when a block without one
is staged is a pigeonhole over the blocks (`FS_Injection`).  `JInv` was checked by
TLC, as an invariant of the journal with each of its settings, before it was proved.

### 6.3 The run queues: SchedProofs

From the assumptions of `Sched`.  `rq_push_any` may find no ring: `RQ_LEN` gives
room for 31 entries (263), `MAX_KPROC` is 64 (2443), and the task is then dropped
(17628, 17657, 19634).  `PushLands` says that the push a core is about to make finds a
ring, and the theorems that follow a task through a push assume it at all times.

* `SchedInductive`: `Spec /\ []PushLands => []SInv`.
* `TasksKept`: `Spec /\ []PushLands => []RunSound`: a live task is at one place, and
  no posted wake is lost.
* `TasksKeptWithRoom`: `Spec /\ []FewLive => []RunSound`, where `FewLive` says that
  no more tasks are live than one ring holds, 31 in the code: no push fails then,
  whatever masks and isolation leave (`RoomLeft`: the ring of an open core cannot be
  full while one of the live tasks is in a core's hand).  With 32 to 64 live tasks a
  mask that leaves one core open can lose one.
* `TasksKeptUnmasked`: where no program sets a mask or isolates a core and
  `NTask <= NCore * QLen`, `Spec => []RunSound`.  A push then looks at every ring, and
  the rings cannot all be full of other tasks (`RoomSomewhere`, an injection of the
  entries into the task table).  With 64 slots and rings of 31 that is three cores or
  more; `BareKeeps` shows that masks stay empty through every step, inherited ones
  included.
* `MasksRespected`: `Spec /\ []PushLands => MovesRespectMask`.
* `PinsHonoured`: `Spec /\ []PushLands /\ []HomeLands => PinHome`, where `HomeLands`
  says that the ring of the core a directed task is pushed to has room and is open to
  it.  A push that lands elsewhere leaves `pin` as it is, and the core that takes the
  task does not look at it.

`OnePlace` counts a task's places; the invariant says where they are.  `Single`: a
live task is in the ring, on the core or in the hand of one core, or parked, and a
parked one is nowhere else; a task that is not live is nowhere.  It needs `Rings` (no
task twice in one ring, else the head could leave and stay), `Shapes` (what a core's
position says of its other fields: only a pushing core has something in its hand) and
`iso # Core`.  `NoLostWake` is inductive with these: between the check and the arming
the core is in one step, a wake for all reaches every waiter (`FewBefore`: no waiter
has as many before it as there are tasks), and the wake's own core is what `Coming`
names.  `MasksRespected` adds that rings and hands hold only tasks that may be there
(`MaskInv`), `PinsHonoured` that a pinned task is in the ring of its home or on its
way there (`PinInv`).

### 6.4 The content store: CasStoreProofs

From `CasAssumption` (finitely many segments and offsets; a probe order for each
setting that visits each of its slots once; the marks for "none", "empty" and "dead"
are no hash or entry) and `Safe`: power is not lost between the journal's header and
its shadows.  That interval is a departure of the code (section 7); the run
`CasShadow` shows what is false without it.

* `StoreInductive`: `Safe => (Spec => []CInv)`.
* `SoundAlways`: `Safe => (Spec => []StoreSound)`.
* `NamesAlwaysResolve`: when power is not lost between `cas_free` and the directory
  commit either (no `"undir"` window), `Spec => []DirectoryResolves`.  The run
  `CasUndirNames` refutes it without that.
* `StoreRefines`: `Safe => (Spec => ImplementsStore)`.

The argument is about one thing, the *image*: the count, bitmap and index that a
mount would recover from the disk as it is at this moment (`ImageSb`, `ImageBm`,
`MountIx`).  No write changes it but one, the write of the index shadow
(`JournalIx`), which replaces it by what the transaction staged (`Target`); replays,
interrupted replays, home writes and the clearing of the header leave it alone.  So
`CInv` says what the image is and, for each step of an operation, how far the disk,
the journal and the RAM copies are on the way from one image to the next.

`Volume` is what an image has to be for `cas_index_find` to work on it at the next
boot: an entry is reached from its probe start over slots that are not empty
(`Reach`), a block is in one slot (`OneSlot`), an entry's block holds the content of
its hash (`Contents`), and the bitmap is exactly the blocks that have an entry.  From
it `Lookup` derives that a probe finds what the index holds, and nothing else;
`Insert` and `Delete` that an entry put in the first free or dead slot, and a
tombstone put over an entry, leave a volume – which is why a delete writes a
tombstone and no empty slot, and why the insert may reuse one.  `Patch` and `PatchOne`
say that one bitmap sector on the disk is enough for one block, `CountOne` that the
superblock follows.

The conjuncts: `BootOk` and `BlankOk` (a replay under way, an unformatted disk),
`ImageOk` and `Counted`, `QuietOk` (between operations RAM is the disk), `StageOk`
(a block taken, nothing written), `OpenOk` with `PutOk` or `FreeOk` (the journal is
being written), `LandOk` (the home writes, each of which the journal would redo),
`FlushOk` (a bitmap flush without a transaction), `ClientOk` (what the file
operation that called is between), `RefsOk` (a count in RAM is what the committed names
and that operation owe) and `NamesOk`.  The refinement follows: `JournalIx`
is `Deliver` or `Reclaim`, and it reclaims only what no name but the one about to go
needs; `Commit` is `Name`; every other step, the crashes and mounts among them,
leaves the abstract store as it is.

`CInv` was checked by TLC as an invariant on each of the settings before it was
proved.

### 6.5 Frames and page tables: VmProofs

From `VmAssumption` (finitely many cores, slots and frames; a free frame's link is no
value) and `Orderly`: no program both forks and changes protections, and one with
threads neither unmaps nor forks.  Each part excludes a departure of the code (section
7); TLC finds `VmSound` violated by a program of each kind, the first in the run
`VmProtect`.  The programs of `Memory` are orderly.

* `MemoryInductive`: `Orderly => (Spec => []VInv)`.
* `FramesSound`: `Orderly => (Spec => []VmSound)`.
* `MemoryRefines`: `Orderly => (Spec => ImplementsSpaces)`.

None of the properties is inductive: between two locked sections, and between the read of an
entry and its write-back, a core relies on what it saw.  `OpOk` says what that is and why it
still holds.  `FaultOk`: the entry is the one the fault read, and a count read as zero
without the lock is still zero, because the only mapping is the faulting core's own and no fork
of its process can run.  `FreeingOk`, `ShrinkOk`, `ShootingOk`: a page taken out of the
tables is out until the call ends, and its frame is owed.  `ForkOk`: the child has the
parent's pages below the place the clone has reached, and neither may write them.
`TearOk`: nobody is left in a process that is torn down, and the entry whose frame
is being let go still names it.  `ApartOk` keeps two cores from one page, child or
dead process.

`OwnersCounted` counts entries and owing calls; the steps are followed by
two lemmas on how one changed entry (`MapsChange`) or one changed operation
(`OweChange`) changes the two counts.  From the counts `SoleOwner` derives what the other
conjuncts need: a free frame is in no entry, and one whose count is zero is in
one entry or is owed once, not both.

`TlbOk` has three cases for a translation a core holds: it is what the entry says
(`Match`); another core of the process changed the entry and has still to be answered
(`Stale`); or the core itself is between its change and its invalidation (`Own`).  In
the second case the frame is owed or still mapped, so it is not free: this is
`FreeUnreachable`, and the reason why brk frees after the shootdown.  A copy-on-write
fault flushes its own core only, which is enough because no other core runs a process
that forks (`MarkedAlone`) – what threads would break.

The refinement adds one invariant, `DataOk`: a mapped frame holds a value and not the
link of the free list.  A zero fill shows the zero the promise showed; a copy shows what the
original does; the clone of a page changes nothing the parent sees, and the child is
not there before `ForkDone`, which is `Fork`; a teardown is of a process nobody
sees; the link that `Push` writes goes to a frame no entry names.  A store through a stale
translation either reaches the page of the process, which is `Store`, or a frame that is
owed and that nobody sees.

`VInv` and `DataOk` were checked by TLC as invariants, with two frames and the programs
of `Memory`, before they were proved.

### 6.6 Descriptors: FdsProofs

From `FdsAssumption` (the sizes of the tables) and `Orderly`: no program unlinks what
is open, a thread's leader leads itself, and a process of several threads neither
forks, sends, receives nor redirects.  Everything else threads may do with the table they
share – open, pipe, epoll, eventfd, close, read, write, unlink, exit – and processes of
one thread do all of it.  Each part excludes programs for which `FdsSound` is false
(section 7), and TLC finds each: the run `FdOrphan`; a sibling that forks or sends a half
of a `pipe` another thread is making (`PipeEndsExact`); one that redirects to it while
it is being undone (`NoDangling`); one that rejects a message whose number was closed and
is another thread's half pipe by then (`NothingLeaks`).  The programs of `Comms` are
orderly.

* `FdsInductive`: `Orderly => (Spec => []FInv)`.
* `DescriptorsSound`: `Orderly => (Spec => []FdsSound)`.

A count and the numbers it counts change in one section, but a call goes on between
sections with what it holds, and none of the properties is inductive without that.
`Calls1` is about it.  `OpsOk` relates the fields of a call's record to its position.
`ClaimsOk`: a description claimed and not numbered yet is as it was claimed, and
one call's alone.  `MakingOk` and `HalvesOk`: a pipe being made counts no end and is
nobody's object, and the numbers its maker has installed name descriptions of one
reference that are no end yet, so that undoing them touches nothing else and marking
them adds one end each.

`Tables` relates the tables: `RefsExact` and `PipeEndsExact`; `Kept`, `EndsOk`,
`PipesOk` and `InstancesOk`, which say the other way round that what is in use is
reachable – a description from a number or a call, a pipe from an end or its maker, an
instance from its one description.  `Sides` is what other tables remember (watches,
redirections, an unlink's entry between its sections, the number a redirection or a transfer has in
hand).  `Lives`: who runs in a process that is not live (nobody), who may fill its table
(one fork), and which calls only a process of one thread makes.

A step does one of three things to the tables.  It leaves them alone (`Keeps`); it adds
numbers of one table (`Gains`, from `Installs`: a number, or the copy of a fork); or it
takes numbers of one table (`Drops`, from `Releases`: a close, an undone pipe, a
transfer's second half, a teardown).  The counts follow from what a row of numbers adds
to or takes from a set of pairs (`RowAdded`, `RowTaken`), description by description and
end by end; a release that empties a count clears the pipe's side, the instance and the
watches with it.  For the two kinds there is one lemma per conjunct, and each operation
shows only that it is a case of them.

`FInv` was checked by TLC as an invariant before it was proved, with the programs of
`Comms` and with two threads that make pipes, with pipes, instances and redirections that
are sent.  `Announced` is not proved: a transfer tells nobody of the end of file it
causes (section 7), so it holds of the programs of the run and not of all orderly ones.

### 6.7 Only model-checked

Liveness (`DrainEnds`, `Answered`, `Rescued`, the last conjunct of `DispatchSound`):
the prover has no reasoning for fairness.  The refinement `ImplementsBytes` and the
invariants of the other modules: not yet attempted, but for `Tcp` and `Occ`, whose RECURSIVE operators the prover
cannot read.  What a commit without the lock and a loss of power inside a rename may
leave, what a full ring loses and what programs that are not orderly do to page tables
is outside the theorems because the properties do not hold there.

## 7 Where the code departs from its documentation

Five runs show a departure (`findings` in `PROJECT.json` quotes the lines):

1. `CasShadow` – the journal header is written before the shadows it vouches for
   (7534); a power loss between makes replay copy an older transaction, or blanks.
2. `CasUndirNames` – chunks are freed before the directory stops naming them
   (9160 says no such state exists).
3. `VfsChmod` – chmod and chown commit outside the lock (23826).
4. `VmProtect` – mprotect to read-only, fork, mprotect back: a shared frame becomes
   writable (25111).
5. `FdOrphan` – exiting after unlinking an open file halts the machine (12266,
   `files.c` 221).

Others can be seen by giving a bench another setting or constant, or by checking a
property that is in the module and in no passing run.  The name of it is in
brackets.

*Storage.*
* A commit over a pending slot rewrites the slot in place, so the old header
  replays half of the new transaction (9109, against 9137) [`Settings <-
  OnlyMixing`, `DirectorySound`].
* `cas_refs_rebuild` after a power loss leaves index entries no file names (9623);
  a failed append (10013) may leave what it retained retained.
* Two positional writes of one file: the second works with the length the first
  looked at, and shrinks the file it raced (20387–20392 says it cannot) [`FileMap`
  with two processes, `ImplementsBytes`].
* Writeback clears the marks of pages another process wrote again during it
  (10513) [`PageCache`, `Writers <- {1, 2}`, `StoresKept`].
* scrypt's scratch is shared by derivations that overlap (8813, 8952); a guess in
  flight is compared after the lock-out (8946–8949); a failed save uses up a
  generation (10757–10760, 8688); a first save that is torn leaves none.

*Dispatch and processes.*
* `rq_push_any` ignores the affinity mask on the preferred core (17657) though 2161
  and the check at 25714 say otherwise; a task pushed by a core that read the
  isolated set before it changed, or queued there already, still runs on an
  isolated core (17654, 17683); deadlines are only looked at by cores that found
  nothing to run (18204); `SYS_CORE_PIN` called by a thread confines the group's
  leader, not the caller (24766).
* SIGKILL to a thread's number kills one thread (25168–25172); a process has one
  `sigframe_sp`, so two threads in handlers restore each other's; a fault in a
  thread ignores the leader's handler; a process whose leader exited cannot be
  signalled; the alarm gate drifts when two cores claim and re-arm at once
  [`GateOpen`]; `setitimer` for virtual and profiling time uses the thread's slot;
  two threads may deliver one signal; waitpid loses a status, and answers when only
  the leader exited; kill of a group is not atomic.
* User time computed on another core can exceed what was used (15365–15375)
  [`UserSound`].
* The last member of a group may tear it down while another still releases its
  stack and join entry (15538–15544, 15793–15796) [`Procs`, `Overlap <- TRUE`,
  `LastOutTearsDown`]; exec in a threaded process leaves its siblings running;
  `spawn_thread` and a failed thread creation leak a slot; a waiter may be told of
  a recycled slot.
* On a core other than the boot core both clocks may step back (5065–5069,
  783–788, 4910–4912) [`Clock`, an AP, `Forward`].

*Memory and cores.*
* `mprotect` to read-only of a COW page keeps its mark, so a later write fault
  makes it writable (16027, 23976); an anonymous MAP_SHARED page becomes private
  at first touch (15945, 23533); fork does not inherit untouched promises of zero
  pages (25070, against 19513 and 25046); a shootdown names at most 64 pages
  (17490); two cores with interrupts off wait for each other up to 100 ticks
  (17494–17535); `SYS_MUNMAP` frees before it shoots down (23943, against 17484 and
  23917) and so does a thread's stack release (15801); a thread's `SYS_BRK` moves a
  break of its own (22890, 2819); a copy-on-write fault drops the page's translation
  on its own core only (16042), so another thread of the process goes on reading the
  frame it gave up [`Settings <- {Workload({"brk", "fork", "thread"}, Slots)}`,
  `VmSound`]; two threads that fault one page may both
  allocate, or free the old frame twice (15944, 16027); `vm_touch` gives a zero
  page for an untouched file mapping (1595).
* execve frees a message page others still map (22638, 22694, against 12427–12434)
  [`Shm`, `Execs`]; a refused receive clears the last holder without freeing
  (21033–21038) [`Refuses`]; a message is delivered to the next process in the slot
  (12518–12521, 20946) [`Addressed`]; a segment made and never mapped is never
  freed; a full mailbox (20994) leaves the grant; between grant and store the
  entry's frame is 0.
* `cmd_smp` has no barrier as at 18604–18607, so a core that read the mode late
  joins the next job [`NoneSkips`]; a core that answers after its wait shares the
  next one's mailbox [`OwnStack`, `Late`]; a core that creates threads races the
  boot core for `g_cur` (16780–16782) [`Threads`, `Remote`]; the double-free check
  of the buddy looks at a block's first frame only.

*Descriptors and network.*
* `pipe` sets its counts after its ends are visible (11801), so a sibling's fork is
  not counted and EOF comes early, and the branch that "cannot happen" (11797)
  leaves the pipe slot claimed; a recipient that exits while a descriptor is sent
  to it is left with it in a dead table (12413); a send releases the sender's number
  without a look for ends of file (20979), so one that gives away the last write
  end to a recipient that has closed it already tells no reader [`Announced`, programs
  that make and send pipes]; a redirection stores a number it looked up without a lock
  (23098–23104), and a refused message closes a number the program may have closed and
  reused (21027–21031), which for threads leaves a dangling redirection or half a pipe
  [`NoDangling`, `NothingLeaks`, settings with two threads]; open claims after releasing
  `g_vfs_lock` (12057) and unlink's second section (12263) may meet a reissued
  entry; after an unlink a stale number resolves to whatever the description is
  reused for (12142); watches are not purged by unlink; a full queue is noticed
  after the descriptor moved (20994); the loss of a pipe's last reader, and reads
  that make room, notify nobody (11643); an edge-triggered watch misses an event
  consumed and posted again between two waits (19952, against 11347 and 19988);
  adding a ready target does not wake a waiter; the number returned is not always
  the lowest free one (`files.c` 161, 2087); a table grown by a sibling between two
  sections gives a spurious EMFILE.
* A reader that makes room does not announce it (14240–14246, 14305–14311)
  [`WindowReopens`]; a healthy end may be closed with an error (21556, 14263)
  [`HealthyStaysUp`]; a listener's queue may hold a child that was reused (14769)
  [`QueueHolds`]; a release right after one FIN wipes the slot; a lost SYN|ACK is
  never repeated; a child's remote address is always loopback (14338); with three
  segments lost the resend takes wrong bytes (14517–14523); connecting a reset
  socket keeps old state.
* A number closed before `socket` or `accept` has returned it leaves the slot used
  until its process exits (21460–21475), and if the number is reused meanwhile the
  late stores give it the old slot [`Named` without `early`].
* A datagram of another peer may land in a session (14097–14101) [`OnlyItsPeer`];
  a second session for one peer (13795–13806); an unbound loopback datagram goes
  out on the wire (21735–21743).
* The one transmit buffer is overwritten while the device sends (6083–6087)
  [`SentAsHanded`]; the cache's two stores may be seen apart [`Apart`]; a client
  that blocks twice cannot be woken (6356, 6513) [`RunCanWake`]; the receive ring
  may be left empty [`CanReceive`].

*Devices and desktop.*
* An exit does not detach every device (3207–3210; 16814, 24538) [`AlwaysDetached`];
  `SYS_RELEASE_PCI_DEVICE` detaches after the lock (24585–24587); a second claim
  loses its flags; a grant survives a release; `SYS_HW_PASSTHROUGH` and MAP_BAR do
  not look at the claim; frames that were unmapped stay in the IOMMU's table; a
  release keeps the interrupt's owner.
* A GPU submitter may read another's answer (12942–12948) [`OwnAnswer`]; a second
  flush without a wait spins for ever (12952–12954) [`GateOpens`]; two processes
  may both get the stream (13525–13528) [`OneOwner`]; a failed attach leaks frames
  (21277–21283).
* A device slower than 100 ms to reset is set up before it is ready (5576)
  [`Probe`, `Late`]; a function a driver declined is still marked bound
  (16431–16455); a queue of size 0 is accepted by four of five drivers.
* Two callers poll the USB ring without a lock (23008, 13165–13169) [`Hasty`]; USB
  and PS/2 together lose a character; a stalled endpoint is never reset.
* A surface made again during a pass is drawn with the old one's size
  (37957–37959) [`Again`, `Restart`, `Several`]; a window is created in two
  sections (21895–21902) and an id's frames may be mapped by its next owner;
  windows that overlap never rest (31939–31941); a tile command that fits before it
  tiles (37746–37749); a press goes to the first window under it, a pick to another
  (37657–37659, 37603); a resize while the desktop shrinks uses the old place.

*Programs.*
* `outrun_web.c`: an image may be taken for a page (1437–1440; 1127, 1441, 1451)
  [`ImageIsNoPage`]; the secure mark outlives the page (same place) [`MarkHonest`]; a link is
  resolved against the address being loaded; one failed picture stops the others;
  closing the last tab loses bookmarks and restoring rolls them back; a document
  keeps 64 of its 256 links (1205); Stop does not stop pictures.
* `occ.c`: a store through a pointer, `*p = v`, goes to the wrong address (922–925,
  1534) [`Programs <- MCStores`, `StoresThrough`]; `a[f()]` calls `f` twice
  (1532–1548); code beyond `OCC_MAXTEXT` is dropped silently (60–66); an undeclared
  variable is the first word of data; u16 and u32 elements take 8 bytes; `*p` loads
  8 signed bytes whatever `p` points to; the signedness of `&&` and `||`.

## 8 What is not modelled

See `components` in `PROJECT.json`.  In short:

* hardware bring-up (boot assembly, descriptor tables, LAPIC calibration, PCI
  configuration, AC97 and HDA registers), whose other side is not in the
  repository;
* drawing, fonts, HTML layout, the lexer, ELF output, checksums, packet layout,
  certificates and hash functions: pure functions of their input, abstracted to
  what the rest tells apart;
* the capability table and the C++ ring, small and lock-protected or unused;
  edge-triggered watches, edge cases of ICMP and DNS, the mouse, the time stream;
* the self tests, the kernel shell, `init` and its test programs, which are read as
  documentation of what the kernel promises, and the small desktop applications;
* compositions across benches: the parts of one bench share no state in the models.
  Where they do in the code (exit, which calls the teardown of each; file writes,
  which use the store and the journal), each module has its own share, and the
  order of the shares is that of `proc_exit_current` (16809–16833).
