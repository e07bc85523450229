\* The second process calls SYS_CHMOD, whose commit holds no lock.
SPECIFICATION MCSpec
CONSTANTS
    p1 = p1
    p2 = p2
    f1 = f1
    f2 = f2
    None = None
    Torn = Torn
    Proc = {p1, p2}
    NBlk = 2
    PerBlk = 1
    Name = {f1, f2}
    LazyMax = 2
    Settings <- OnlyChanging
    Parts = {"journal"}
INVARIANTS CommittedSurvives
