------------------------------- MODULE MCComms -------------------------------
(***************************************************************************)
(* Descriptors, sockets and the network driver.  Fds has two slots: two    *)
(* processes, or two threads of one.  The other parts are independent of   *)
(* it and of each other: a behaviour runs one part, chosen at the start,   *)
(* so that one run covers them all and the parts share the variables x1,   *)
(* x2, ...  Sequence numbers wrap at 16, early in every connection.        *)
(***************************************************************************)
EXTENDS Fds, TLC

CONSTANTS Parts, afile

VARIABLES part, x1, x2, x3, x4, x5, x6, x7, x8, x9, x10, x11, x12, x13, x14, x15
xvars == <<x1, x2, x3, x4, x5, x6, x7, x8, x9, x10, x11, x12, x13, x14, x15>>
benchVars == <<part, xvars, vars>>

\* A process each, or two threads of process 0.
Own  == [s \in 0 .. NSlot - 1 |-> s]
Shared == [s \in 0 .. NSlot - 1 |-> 0]

Program(leader, boot, ops) ==
    [leader |-> leader, boot |-> boot, ops |-> ops, orphan |-> FALSE]

Both(ops) == [s \in 0 .. NSlot - 1 |-> ops]
Pipeline == Program(Own, {0}, Both({"pipe", "fork", "close", "read", "write", "redirect", "exit"}))
Events   == Program(Own, {0}, 0 :> {"pipe", "epoll", "fork", "close"}
                           @@ 1 :> {"write", "close", "exit"})
Threads  == Program(Shared, {0}, 0 :> {"pipe", "epoll", "close"}
                              @@ 1 :> {"evfd", "read", "write"})
Passing  == Program(Own, {0, 1}, 0 :> {"open", "unlink", "send", "close", "exit"}
                              @@ 1 :> {"receive", "exit"})
Sound == {Pipeline, Events, Threads, Passing}
Orphans == {[Program(Own, {0}, Both({"open", "unlink", "close", "exit"})) EXCEPT !.orphan = TRUE]}

\* A server, the worker it forks and a client.
ProcessOf == [s |-> 1, c |-> 2, w |-> 3]

\* A neighbour's question, two different answers about the gateway, an offer.
Arp(what, ip, mac) == [kind |-> "arp", op |-> what, ip |-> ip, mac |-> mac]
Lease == [ip |-> 5, mask |-> 2, gw |-> 7]
Arriving == {Arp("ask", 6, 13), Arp("tell", 3, 12), Arp("tell", 3, 11),
             [kind |-> "dhcp", op |-> "offer", ip |-> 5, mac |-> Lease]}
BuiltIn == [ip |-> 2, mask |-> 4, gw |-> 3]

X == INSTANCE Tcp WITH
    NSock <- 1, Descs <- {1}, Threads <- {"c"}, Born <- 0, Served <- 0, Clients <- {2},
    Ports <- {1}, Mss <- 2, Remote <- {"far"}, RemBytes <- 3, MaxBytes <- 1, MaxDrop <- 0,
    MaxScans <- 2, ProcOf <- ProcessOf, W <- 16, Iss <- 14, Buf <- 2, Backlog <- 1,
    OooMax <- 1, Rto <- 1, Retries <- 1, TimeWait <- 1, Syns <- 1, MaxOpen <- 1,
    MaxAgain <- 0, sock <- x1, desc <- x2, at <- x3, wire <- x4, rem <- x5, drop <- x6,
    left <- x7
L == INSTANCE Tcp WITH
    NSock <- 3, Descs <- {1, 2, 3}, Threads <- {"s", "c"}, Born <- 0, Served <- 1,
    Clients <- {2}, Ports <- {1, 2}, Mss <- 1, Remote <- {}, RemBytes <- 0, MaxBytes <- 2,
    MaxDrop <- 1, MaxScans <- 1, ProcOf <- ProcessOf, W <- 16, Iss <- 14, Buf <- 2,
    Backlog <- 1, OooMax <- 1, Rto <- 1, Retries <- 1, TimeWait <- 1, Syns <- 1,
    MaxOpen <- 1, MaxAgain <- 0, sock <- x1, desc <- x2, at <- x3, wire <- x4, rem <- x5,
    drop <- x6, left <- x7
C == INSTANCE Tcp WITH
    NSock <- 3, Descs <- {1, 2}, Threads <- {"s", "w", "c"}, Born <- 3, Served <- 1,
    Clients <- {2}, Ports <- {1, 2}, Mss <- 1, Remote <- {}, RemBytes <- 0, MaxBytes <- 1,
    MaxDrop <- 0, MaxScans <- 0, ProcOf <- ProcessOf, W <- 16, Iss <- 14, Buf <- 2,
    Backlog <- 1, OooMax <- 1, Rto <- 1, Retries <- 1, TimeWait <- 1, Syns <- 1,
    MaxOpen <- 1, MaxAgain <- 0, sock <- x1, desc <- x2, at <- x3, wire <- x4, rem <- x5,
    drop <- x6, left <- x7
N == INSTANCE NetDev WITH
    Addr <- {3, 6}, Frames <- Arriving, Ring <- 2, Slots <- 1, Cache <- 2,
    Default <- BuiltIn, Prompt <- TRUE, Apart <- FALSE, MaxRuns <- 1, MaxSends <- 1,
    MaxResets <- 1, rx <- x1, tx <- x2, arp <- x3, half <- x4, said <- x5, bad <- x6,
    cfg <- x7, lease <- x8, netd <- x9, pending <- x10, udp <- x11, dhcp <- x12,
    clock <- x13, sends <- x14, resets <- x15
D == INSTANCE Dgram WITH
    Thread <- {1}, Port <- {1}, Far <- {7, 8}, NSock <- 3, Desc <- {1, 2}, Depth <- 1,
    Backlog <- 2, MaxSent <- 3, MaxOpens <- 1, sock <- x1, desc <- x2, pc <- x3, sent <- x4,
    got <- x5, lost <- x6, opens <- x7, early <- x8
E == INSTANCE Dgram WITH
    Thread <- {1, 2}, Port <- {1, 2}, Far <- {}, NSock <- 3, Desc <- {1, 2}, Depth <- 1,
    Backlog <- 2, MaxSent <- 3, MaxOpens <- 1, sock <- x1, desc <- x2, pc <- x3, sent <- x4,
    got <- x5, lost <- x6, opens <- x7, early <- x8

-----------------------------------------------------------------------------
MCInit ==
    /\ part \in Parts
    /\ Init /\ (part # "fds" => setting = CHOOSE s \in Settings : TRUE)
    /\ \/ /\ part = "fds"
          /\ x1 = 0 /\ x2 = 0 /\ x3 = 0 /\ x4 = 0 /\ x5 = 0 /\ x6 = 0 /\ x7 = 0 /\ x8 = 0 /\ x9 = 0 /\ x10 = 0 /\
            x11 = 0 /\ x12 = 0 /\ x13 = 0 /\ x14 = 0 /\ x15 = 0
       \/ part = "wire" /\ X!Init /\ x8 = 0 /\ x9 = 0 /\ x10 = 0 /\ x11 = 0 /\ x12 = 0 /\ x13 = 0 /\ x14 = 0 /\ x15 = 0
       \/ part = "loop" /\ L!Init /\ x8 = 0 /\ x9 = 0 /\ x10 = 0 /\ x11 = 0 /\ x12 = 0 /\ x13 = 0 /\ x14 = 0 /\ x15 = 0
       \/ part = "child" /\ C!Init /\ x8 = 0 /\ x9 = 0 /\ x10 = 0 /\ x11 = 0 /\ x12 = 0 /\ x13 = 0 /\ x14 = 0 /\ x15 = 0
       \/ part = "net" /\ N!Init
       \/ part = "far" /\ D!Init /\ x9 = 0 /\ x10 = 0 /\ x11 = 0 /\ x12 = 0 /\ x13 = 0 /\ x14 = 0 /\ x15 = 0
       \/ part = "near" /\ E!Init /\ x9 = 0 /\ x10 = 0 /\ x11 = 0 /\ x12 = 0 /\ x13 = 0 /\ x14 = 0 /\ x15 = 0

FdsStep == part = "fds" /\ Next /\ UNCHANGED <<part, xvars>>
WireStep == part = "wire" /\ X!Next /\ UNCHANGED <<part, x8, x9, x10, x11, x12, x13, x14, x15, vars>>
LoopStep == part = "loop" /\ L!Next /\ UNCHANGED <<part, x8, x9, x10, x11, x12, x13, x14, x15, vars>>
ChildStep == part = "child" /\ C!Next /\ UNCHANGED <<part, x8, x9, x10, x11, x12, x13, x14, x15, vars>>
NetStep == part = "net" /\ N!Next /\ UNCHANGED <<part, vars>>
FarStep == part = "far" /\ D!Next /\ UNCHANGED <<part, x9, x10, x11, x12, x13, x14, x15, vars>>
NearStep == part = "near" /\ E!Next /\ UNCHANGED <<part, x9, x10, x11, x12, x13, x14, x15, vars>>

MCNext == FdsStep \/ WireStep \/ LoopStep \/ ChildStep \/ NetStep \/ FarStep \/ NearStep
MCSpec == MCInit /\ [][MCNext]_benchVars

-----------------------------------------------------------------------------
\* A stream arrives in order, whole and acknowledged only when it has: see Tcp.
TcpSound ==
    /\ part = "wire" => X!TcpSound
    /\ part = "loop" => L!TcpSound
    /\ part = "child" => C!TcpSound
\* tcp_input: a stalled sender is told when the reader has made room: see Tcp.
WindowReopens == part = "loop" => L!WindowReopens
\* Buffers, addresses and the lease of the network driver: see NetDev.
NetDevSound == part = "net" => N!NetDevSound
\* Datagrams reach the socket they were meant for, with their descriptors: see Dgram.
DgramSound == (part = "far" => D!DgramSound) /\ (part = "near" => E!DgramSound)
=============================================================================
