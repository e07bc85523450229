\* Two directory blocks, power loss anywhere; the other parts bounded in MCStorage.
SPECIFICATION MCSpec
CONSTANTS
    p1 = p1
    p2 = p2
    f1 = f1
    f2 = f2
    None = None
    Torn = Torn
    Proc = {p1, p2}
    NBlk = 2
    PerBlk = 1
    Name = {f1, f2}
    LazyMax = 2
    Settings <- Safe
    Parts = {"journal", "files", "pages", "tmp", "offsets", "users", "disk"}
\* The other parts end when their bounds are used up.
CHECK_DEADLOCK FALSE
INVARIANTS DirectorySound FilesSound AccountsSound AnswersSound
PROPERTIES JournalMoves ImplementsBytes Answered
