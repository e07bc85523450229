------------------------------- MODULE MCTasks -------------------------------
(***************************************************************************)
(* Tasks.  Sched has two cores and up to three tasks: a leader, its thread *)
(* and another process.  The other parts are independent of it and of each *)
(* other: a behaviour runs one part, chosen at the start, so that one run  *)
(* covers them all and the parts share the variables x1, x2, ...           *)
(***************************************************************************)
EXTENDS Sched, TLC

CONSTANTS Parts, W, P

VARIABLES part, x1, x2, x3, x4, x5, x6, x7, x8, x9, x10, x11, x12, x13, x14, x15, x16, x17
xvars == <<x1, x2, x3, x4, x5, x6, x7, x8, x9, x10, x11, x12, x13, x14, x15, x16, x17>>
benchVars == <<part, xvars, vars>>

Group == (0 :> 0) @@ (1 :> 0) @@ (2 :> 2)

\* Two processes and a thread; wakes of one and of all.
Waiting == [boot |-> <<0, 2>>, born |-> {1}, keys |-> {W, P}, quotas |-> {1, 3},
            masks |-> {}, pins |-> {}, movable |-> {}]
\* Every wake is for all.
Broadcast == [Waiting EXCEPT !.quotas = {3}]
\* Two processes that restrict themselves to core 1; one is migrated.
Moving == [Waiting EXCEPT !.born = {}, !.keys = {}, !.masks = {{}, {1}},
                          !.movable = {0}]
\* Two processes that isolate core 1 and restrict themselves to it.
Isolating == [Moving EXCEPT !.pins = {{}, {1}}, !.keys = {W}, !.movable = {}]

Programs == {Waiting, Broadcast, Moving, Isolating}

\* A shell, its job and the job's thread.
Leaders == [sh |-> "sh", job |-> "job", thr |-> "job"]
Parents == [sh |-> None, job |-> "sh"]
Orphan  == [sh |-> None, job |-> None]

G == INSTANCE Signals WITH
    Task <- {"job", "thr", "sh"}, LeaderOf <- Leaders, ParentOf <- Parents, Depth <- 2,
    Core <- {}, Sig <- {2, 9, 11, 17}, Catches <- {11}, Kinds <- {}, Spans <- {0},
    Periods <- {0}, MaxTime <- 1, MaxCalls <- 3, MaxRaises <- 2, dead <- x1, handler <- x2,
    pending <- x3, mask <- x4, frames <- x5, framesp <- x6, group <- x7, fg <- x8, dl <- x9,
    iv <- x10, armed <- x11, clock <- x12, at <- x13, due <- x14, fired <- x15, calls <- x16,
    raises <- x17
I == INSTANCE Signals WITH
    Task <- {"job"}, LeaderOf <- Leaders, ParentOf <- Orphan, Depth <- 2,
    Core <- {"c1", "c2"}, Sig <- {14, 26}, Catches <- {}, Kinds <- {"real", "virt"},
    Spans <- {0, 1}, Periods <- {1}, MaxTime <- 3, MaxCalls <- 2, MaxRaises <- 0, dead <- x1,
    handler <- x2, pending <- x3, mask <- x4, frames <- x5, framesp <- x6, group <- x7,
    fg <- x8, dl <- x9, iv <- x10, armed <- x11, clock <- x12, at <- x13, due <- x14,
    fired <- x15, calls <- x16, raises <- x17
R == INSTANCE Procs WITH
    Slots <- {1, 2}, Core <- {"c1", "c2"}, ThrMax <- 2, Code <- {1}, LogSize <- 1,
    MaxMade <- 4, LoneExec <- TRUE, Overlap <- FALSE, k <- x1, n <- x2, spaces <- x3,
    made <- x4, on <- x5, pc <- x6, arg <- x7, log <- x8, ended <- x9, parent <- x10

\* An image: a code segment off the page boundary and a data segment with zeroes behind.
Segment(type, off, filesz, memsz, vaddr, w, x) ==
    [type |-> type, off |-> off, filesz |-> filesz, memsz |-> memsz, vaddr |-> vaddr,
     w |-> w, x |-> x]
Image(id, segs) ==
    [id |-> id, elf64 |-> TRUE, table |-> TRUE, entry |-> 4, size |-> 6, segs |-> segs]
Straddles == Image(1, <<Segment("load", 0, 3, 4, 3, FALSE, TRUE),
                        Segment("load", 3, 2, 5, 8, TRUE, FALSE)>>)
Meets == Image(2, <<Segment("load", 1, 3, 3, 4, FALSE, TRUE),
                    Segment("load", 4, 1, 2, 7, TRUE, FALSE), Segment("note", 0, 1, 1, 2, FALSE, FALSE)>>)
Writable == Image(3, <<Segment("load", 0, 2, 2, 4, TRUE, TRUE)>>)
Dynamic == Image(4, <<Segment("interp", 0, 1, 1, 2, FALSE, FALSE), Segment("load", 0, 2, 2, 4, FALSE, TRUE)>>)
Short == Image(5, <<Segment("load", 5, 2, 2, 4, FALSE, TRUE)>>)
Modes == [own : {{"r", "w"}}, grp : {{}, {"r", "w"}}, oth : {{}}, suid : {TRUE}, sgid : {FALSE}]
Entry(u, s, h) ==
    [uid |-> u, gid |-> u, mode |-> [own |-> {"r", "w"}, grp |-> {"r"}, oth |-> {"r"},
     suid |-> s, sgid |-> s], image |-> h]
Directory == [su |-> Entry(5, TRUE, Straddles), sh |-> Entry(0, TRUE, Meets)]

U == INSTANCE Exec WITH
    Slot <- {1, 2, 3}, Boot <- 1, Id <- {0, 5}, Prog <- {"su", "sh"}, Installed <- Directory,
    Images <- {Writable, Dynamic, Short, Meets}, Modes <- Modes, PageLen <- 2, UserMin <- 2,
    UserMax <- 16, SegMax <- 6, Alone <- TRUE, MaxCalls <- 3, leader <- x1, cred <- x2,
    dent <- x3, buf <- x4, kargv <- x5, ex <- x6, space <- x7, args <- x8, ran <- x9,
    gone <- x10, calls <- x11
V == INSTANCE Exec WITH
    Slot <- {1, 2, 3}, Boot <- 1, Id <- {0, 5}, Prog <- {"su", "sh"}, Installed <- Directory,
    Images <- {Short}, Modes <- {}, PageLen <- 2, UserMin <- 2,
    UserMax <- 16, SegMax <- 6, Alone <- FALSE, MaxCalls <- 4, leader <- x1, cred <- x2,
    dent <- x3, buf <- x4, kargv <- x5, ex <- x6, space <- x7, args <- x8, ran <- x9,
    gone <- x10, calls <- x11
\* The clocks and the charges are two behaviours that share the time alone.
K == INSTANCE Clock WITH
    Core <- {"bsp"}, BootCore <- "bsp", TickLen <- 2, Second <- 2, Wrap <- 8, Khz <- 2,
    Rates <- {1, 3}, MaxNow <- 5, Thread <- {1, 2}, Main <- 1, MaxSpan <- 2, MaxCalls <- 1,
    Chunk <- 1, now <- x1,
    tsc <- x2, ticks <- x3, tickPm <- x4, anchor <- x5, isr <- x6, rd <- x7, out <- x8,
    pc <- x2, run <- x3, enter <- x4, excl <- x5, stime <- x6, kept <- x7, grp <- x8,
    scan <- x9, spent <- x10, calls <- x11

-----------------------------------------------------------------------------
MCInit ==
    /\ part \in Parts
    /\ Init /\ (part # "sched" => setting = CHOOSE s \in Settings : TRUE)
    /\ \/ /\ part = "sched"
          /\ x1 = 0 /\ x2 = 0 /\ x3 = 0 /\ x4 = 0 /\ x5 = 0 /\ x6 = 0 /\ x7 = 0 /\ x8 = 0 /\ x9 = 0 /\ x10 = 0 /\
            x11 = 0 /\ x12 = 0 /\ x13 = 0 /\ x14 = 0 /\ x15 = 0 /\ x16 = 0 /\ x17 = 0
       \/ part = "signals" /\ G!Init
       \/ part = "timers" /\ I!Init
       \/ part = "cputime" /\ K!ChargeInit /\ x12 = 0 /\ x13 = 0 /\ x14 = 0 /\ x15 = 0 /\ x16 = 0 /\ x17 = 0
       \/ part = "procs" /\ R!Init /\ x11 = 0 /\ x12 = 0 /\ x13 = 0 /\ x14 = 0 /\ x15 = 0 /\ x16 = 0 /\ x17 = 0
       \/ part = "exec" /\ U!Init /\ x12 = 0 /\ x13 = 0 /\ x14 = 0 /\ x15 = 0 /\ x16 = 0 /\ x17 = 0
       \/ part = "execs" /\ V!Init /\ x12 = 0 /\ x13 = 0 /\ x14 = 0 /\ x15 = 0 /\ x16 = 0 /\ x17 = 0
       \/ part = "clock" /\ K!ClockInit /\ x9 = 0 /\ x10 = 0 /\ x11 = 0 /\ x12 = 0 /\ x13 = 0 /\ x14 = 0 /\ x15 = 0 /\ x16 = 0 /\ x17 = 0

SchedStep == part = "sched" /\ Next /\ UNCHANGED <<part, xvars>>
SignalsStep == part = "signals" /\ G!Next /\ UNCHANGED <<part, vars>>
TimersStep == part = "timers" /\ I!Next /\ UNCHANGED <<part, vars>>
CputimeStep == part = "cputime" /\ K!ChargeNext /\ UNCHANGED <<part, x12, x13, x14, x15, x16, x17, vars>>
ProcsStep == part = "procs" /\ R!Next /\ UNCHANGED <<part, x11, x12, x13, x14, x15, x16, x17, vars>>
ExecStep == part = "exec" /\ U!Next /\ UNCHANGED <<part, x12, x13, x14, x15, x16, x17, vars>>
ExecsStep == part = "execs" /\ V!Next /\ UNCHANGED <<part, x12, x13, x14, x15, x16, x17, vars>>
ClockStep == part = "clock" /\ K!ClockNext /\ UNCHANGED <<part, x9, x10, x11, x12, x13, x14, x15, x16, x17, vars>>

MCNext == SchedStep \/ SignalsStep \/ TimersStep \/ CputimeStep \/ ProcsStep \/ ExecStep \/ ExecsStep \/ ClockStep
\* The fairness of FairSpec in Sched: the kernel's steps go on, time passes.
MCSpec ==
    /\ MCInit /\ [][MCNext]_benchVars
    /\ \A c \in Core : WF_vars(part = "sched" /\ Kernel(c))
    /\ \A t \in Task : WF_vars(part = "sched" /\ Expire(t))

-----------------------------------------------------------------------------
ASSUME Instances == K!MainAssumption /\ K!ChunkAssumption /\ R!ProcsAssumption
\* No signal interrupts its own handler and no deadline is raised twice: see Signals.
SignalsSound == (part = "signals" => G!SignalsSound) /\ (part = "timers" => I!SignalsSound)
\* Processor time is charged once and never too early: see Clock.
CpuSound == part = "cputime" => K!CpuSound
\* Slots, spaces, parents and statuses stay those of one process, and so do its
\* image, arguments and ids: see Procs and Exec.
MembersSafe ==
    /\ part = "procs" => R!MembersSafe
    /\ part = "exec" => U!ExecSound
    /\ part = "execs" => V!ExecSound
\* On the boot core no clock goes back: see Clock.
BootForward == [][part = "clock" => K!Later("bsp")]_benchVars
=============================================================================
