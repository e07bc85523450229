\* Two cores, up to three tasks; the other parts bounded in MCTasks.
SPECIFICATION MCSpec
CHECK_DEADLOCK FALSE
CONSTANTS
    W = W
    P = P
    Word = W
    Poll = P
    None = None
    NCore = 2
    NTask = 3
    LeaderOf <- Group
    QLen = 2
    Settings <- Programs
    Parts = {"sched", "signals", "timers", "cputime", "procs", "exec", "execs", "clock"}
INVARIANTS RunSound SignalsSound CpuSound MembersSafe
PROPERTIES DispatchSound BootForward
