\* Processes may unlink a file they have open.
SPECIFICATION MCSpec
CONSTANTS
    afile = afile
    None = None
    NSlot = 2
    NOfile = 3
    Inline = 2
    FdMax = 4
    NPipe = 1
    NEp = 1
    NEv = 1
    MaxWatch = 1
    QLen = 1
    File = {afile}
    Settings <- Orphans
    Parts = {"fds"}
\* Every process may have exited.
CHECK_DEADLOCK FALSE
INVARIANTS TeardownEmpties
