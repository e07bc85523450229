\* Two processes or threads over descriptors; sockets and the driver bounded in MCComms.
SPECIFICATION MCSpec
CONSTANTS
    afile = afile
    None = None
    NSlot = 2
    NOfile = 3
    Inline = 2
    FdMax = 4
    NPipe = 1
    NEp = 1
    NEv = 1
    MaxWatch = 1
    QLen = 1
    File = {afile}
    Settings <- Sound
    Parts = {"fds", "wire", "loop", "child", "net", "far", "near"}
\* Every process may have exited, and every bound be used up.
CHECK_DEADLOCK FALSE
INVARIANTS FdsSound TcpSound NetDevSound DgramSound
PROPERTIES Announced
