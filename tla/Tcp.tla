---------------------------------- MODULE Tcp ----------------------------------
(* Stream sockets (metal/kernel/kernel64.c): the socket table g_sock, the       *)
(* descriptions that name its slots, the TCP state machine over loopback and    *)
(* over the wire, and the system calls 35-39, 81 and 82 on a stream socket.     *)
(*                                                                              *)
(* On loopback tcp_output calls the peer's tcp_input before it returns, so one  *)
(* call runs a whole exchange under g_net_lock: Output and Input call each      *)
(* other as the code does.  A segment for another machine joins `wire', from    *)
(* which the remote end may take it late, twice or never.  A byte is its        *)
(* sender and its position in the sender's stream; a sequence number wraps      *)
(* at W.  A system call looks its number up in one section (Resolve) and works  *)
(* on the slot in the next, where sock_fd_still_ours compares descriptions.     *)
EXTENDS Integers, Sequences, FiniteSets, SequencesExt

CONSTANTS
    NSock,        \* slots of g_sock (16)
    Descs,        \* descriptions that can name sockets
    Threads,      \* threads that make system calls
    ProcOf,       \* [Threads -> process]: the thread group of each
    Born,         \* the process that a fork makes (or 0)
    Clients,      \* the processes that make sockets of their own
    Served,       \* the process that listens in the initial state
    Ports,        \* local ports (a subset of 1..)
    W,            \* sequence numbers are taken modulo W (2^32)
    Iss,          \* the initial sequence number of every connection
    Buf,          \* TCP_BUFSZ, in units
    Mss,          \* TCP_MSS = SOCK_DGRAM_MAX, in units
    Backlog,      \* SOCK_BACKLOG
    OooMax,       \* TCP_OOO_MAX
    Rto, Retries, \* TCP_RTO_TICKS, TCP_MAX_RETRIES
    TimeWait,     \* TCP_TIMEWAIT_TICKS
    Syns,         \* turns of the loop of a blocking connect (64)
    Remote,       \* addresses: {} when only loopback is explored
    RemBytes,     \* the length of the other machine's stream
    MaxOpen, MaxBytes, MaxDrop, MaxScans, MaxAgain \* bounds of the exploration

VARIABLES
    sock,     \* g_sock
    desc,     \* which slot a description names, and which processes hold it
    at,       \* what each thread is doing
    wire,     \* segments sent to another machine, lost or not
    rem,      \* the other machine's end
    drop,     \* g_tcp_drop: the next segments that are discarded
    left      \* what is left of the bounds

vars == <<sock, desc, at, wire, rem, drop, left>>

Loop == "loopback"
Nil == 0
Slots == 1 .. NSock
Procs == {ProcOf[t] : t \in Threads}
Plus(a, b) == (a + b) % W
Minus(a, b) == (a - b) % W
SeqLt(a, b) == Minus(a, b) >= W \div 2

SeqLe(a, b) == a = b \/ SeqLt(a, b)
Least(a, b) == IF a < b THEN a ELSE b
Synced == {"ESTAB", "FIN_WAIT1", "FIN_WAIT2", "CLOSE_WAIT", "CLOSING", "LAST_ACK", "TIME_WAIT"}

Empty(gen) ==
    [used |-> FALSE, owner |-> Nil, oi |-> Nil, gen |-> gen, lport |-> 0, listening |-> FALSE,
     connected |-> FALSE, raddr |-> Loop, rport |-> 0, st |-> "CLOSED", una |-> 0, nxt |-> 0,
     rcv |-> 0, sbuf |-> <<>>, rbuf |-> <<>>, finS |-> FALSE, finR |-> FALSE, rto |-> 0, tries |-> 0,
     wnd |-> 0, tw |-> 0, ooo |-> {}, aq |-> <<>>, parent |-> Nil, err |-> FALSE, hup |-> FALSE,
     out |-> 0, read |-> 0]
Wiped(s) == Empty(s.gen + 1)

\* What the recursive part works on: the table, the wire and the injected loss.
Now == [sock |-> sock, wire |-> wire, drop |-> drop]
Free(S) == {i \in Slots : ~S[i].used}
Bound(S, port) == {i \in Slots : S[i].used /\ S[i].lport = port /\ port # 0}
First(I) == CHOOSE i \in I : \A j \in I : i <= j

-----------------------------------------------------------------------------
(* The state machine.                                                        *)

\* An established end of this conversation before a listener; 0 is nobody.
Lookup(S, dport, saddr, sport) ==
    LET here  == {i \in Bound(S, dport) : TRUE}
        peers == {i \in here : S[i].st # "LISTEN" /\ S[i].raddr = saddr /\ S[i].rport = sport}
        doors == {i \in here : S[i].st = "LISTEN"}
    IN  IF peers # {} THEN First(peers) ELSE IF doors # {} THEN First(doors) ELSE Nil

RECURSIVE Input(_, _, _)

Output(T, i, flags, data) ==
    LET s == T.sock[i]
        g == [seq |-> s.nxt, ack |-> s.rcv, flags |-> flags, data |-> data, sport |-> s.lport,
              dport |-> s.rport, win |-> Buf - Len(s.rbuf)]
        p == Lookup(T.sock, s.rport, Loop, s.lport)
    IN  IF T.drop > 0 THEN [T EXCEPT !.drop = @ - 1]
        ELSE IF s.raddr # Loop THEN [T EXCEPT !.wire = @ \cup {[g EXCEPT !.ack = 0, !.win = 0]}]
        ELSE IF p = Nil THEN T ELSE Input(T, p, g)

AckUpto(s, ack) ==
    IF ~SeqLt(s.una, ack) THEN s
    ELSE LET n == Least(Minus(ack, s.una), Len(s.sbuf))
         IN  [s EXCEPT !.sbuf = SubSeq(@, n + 1, Len(@)), !.una = ack,
                       !.rto = IF Len(s.sbuf) = n THEN 0 ELSE @]

\* A SYN at a listener makes a socket of its own, in SYN_RCVD.
Admit(T, i, g) ==
    LET s  == T.sock[i]
        ci == First(Free(T.sock))
        c  == [Wiped(T.sock[ci]) EXCEPT !.used = TRUE, !.owner = s.owner, !.lport = s.lport,
                  !.rport = g.sport, !.connected = TRUE, !.parent = i, !.rcv = Plus(g.seq, 1),
                  !.una = Iss, !.nxt = Iss, !.wnd = IF g.win = 0 THEN Mss ELSE g.win, !.st = "SYN_RCVD"]
        T1 == Output([T EXCEPT !.sock[ci] = c], ci, {"SYN", "ACK"}, <<>>)
    IN  IF "SYN" \notin g.flags \/ Len(s.aq) >= Backlog \/ Free(T.sock) = {} THEN T
        ELSE [T1 EXCEPT !.sock[ci].nxt = Plus(@, 1)]

Answered(T, i, g) ==
    IF {"SYN", "ACK"} \subseteq g.flags
    THEN LET s == AckUpto([T.sock[i] EXCEPT !.rcv = Plus(g.seq, 1)], g.ack)
         IN  Output([T EXCEPT !.sock[i] = [s EXCEPT !.st = "ESTAB"]], i, {"ACK"}, <<>>)
    ELSE T

\* The acknowledgement of a SYN|ACK: the child joins its listener's queue.
Establish(T, i, g) ==
    LET s == T.sock[i]
        L == s.parent
        T1 == [T EXCEPT !.sock[i].st = "ESTAB"]
    IN  IF s.st # "SYN_RCVD" \/ "ACK" \notin g.flags THEN T
        ELSE IF L # Nil /\ T.sock[L].used /\ Len(T.sock[L].aq) < Backlog
             THEN [T1 EXCEPT !.sock[L].aq = Append(@, i)] ELSE T1

\* Mutant: what does not fit is acknowledged all the same
KeepSome(s, data) ==
    [s EXCEPT !.rbuf = @ \o SubSeq(data, 1, Least(Len(data), Buf - Len(s.rbuf))), !.rcv = Plus(@, Len(data))]
Keep(s, data) ==
    LET n == Least(Len(data), Buf - Len(s.rbuf))
    IN  [s EXCEPT !.rbuf = @ \o SubSeq(data, 1, n), !.rcv = Plus(@, n)]

\* Queued segments that have become the next ones, until there is none.
RECURSIVE Merge(_)
Merge(s) ==
    IF \E o \in s.ooo : o.seq = s.rcv
    THEN LET o == CHOOSE o \in s.ooo : o.seq = s.rcv
         IN  Merge(Keep([s EXCEPT !.ooo = @ \ {o}], o.data))
    ELSE s

Park(s, g) ==
    IF Cardinality(s.ooo) < OooMax /\ \A o \in s.ooo : o.seq # g.seq
    THEN [s EXCEPT !.ooo = @ \cup {[seq |-> g.seq, data |-> g.data]}] ELSE s

TakeData(T, i, g) ==
    LET s == T.sock[i]
    IN  IF g.data = <<>> \/ s.st \notin Synced THEN T
        ELSE IF g.seq = s.rcv
             THEN Output([T EXCEPT !.sock[i] = Merge(Keep(s, g.data))], i, {"ACK"}, <<>>)
        ELSE IF SeqLt(s.rcv, g.seq)
             THEN Output([T EXCEPT !.sock[i] = Park(s, g)], i, {"ACK"}, <<>>)
        ELSE T

AfterFin(s) ==
    CASE s.st = "ESTAB"     -> [s EXCEPT !.st = "CLOSE_WAIT"]
      [] s.st = "FIN_WAIT1" -> [s EXCEPT !.st = "CLOSING"]
      [] s.st = "FIN_WAIT2" -> [s EXCEPT !.st = "TIME_WAIT", !.tw = TimeWait]
      [] OTHER -> s

TakeFin(T, i, g) ==
    LET s  == T.sock[i]
        T1 == Output([T EXCEPT !.sock[i].finR = TRUE, !.sock[i].rcv = Plus(@, 1)], i, {"ACK"}, <<>>)
    IN  IF "FIN" \in g.flags /\ Plus(g.seq, Len(g.data)) = s.rcv /\ ~s.finR
        THEN [T1 EXCEPT !.sock[i] = AfterFin(@)] ELSE T

FinAcked(T, i, g) ==
    LET s == T.sock[i]
    IN  IF ~s.finS \/ ~SeqLe(s.nxt, g.ack) THEN T
        ELSE [T EXCEPT !.sock[i] =
                CASE s.st = "FIN_WAIT1" -> [s EXCEPT !.st = "FIN_WAIT2"]
                  [] s.st = "CLOSING"   -> [s EXCEPT !.st = "TIME_WAIT", !.tw = TimeWait]
                  [] s.st = "LAST_ACK"  -> [s EXCEPT !.st = "CLOSED"]
                  [] OTHER -> s]

Reset(T, i) == [T EXCEPT !.sock[i].st = "CLOSED", !.sock[i].err = TRUE, !.sock[i].hup = TRUE]

Stages(T, i, g) ==
    LET T1 == IF "ACK" \in g.flags THEN [T EXCEPT !.sock[i] = AckUpto(@, g.ack)] ELSE T
        T2 == Establish(T1, i, g)
        T3 == TakeData(T2, i, g)
        T4 == TakeFin(T3, i, g)
    IN  FinAcked(T4, i, g)

Input(T, i, g) ==
    LET T1 == [T EXCEPT !.sock[i].wnd = g.win]
    IN  IF "RST" \in g.flags THEN Reset(T, i)
        ELSE IF T.sock[i].st = "LISTEN" THEN Admit(T1, i, g)
        ELSE IF T.sock[i].st = "SYN_SENT" THEN Answered(T1, i, g)
        ELSE Stages(T1, i, g)

-----------------------------------------------------------------------------
(* Sending, the retransmission timer and the release of a slot.              *)

Inflight(s) == Minus(s.nxt, s.una)
Room(s) == IF s.wnd > Inflight(s) THEN s.wnd - Inflight(s) ELSE 0
Accepts(s, len) == Least(Least(len, Buf - Len(s.sbuf)), Room(s))
Fresh(i, s, n) == [k \in 1 .. n |-> <<i, s.gen, s.out + k>>]

\* SYS_SEND takes at most SOCK_DGRAM_MAX = TCP_MSS bytes: one segment.
SendData(T, i, len) ==
    LET s  == T.sock[i]
        n  == Accepts(s, len)
        d  == Fresh(i, s, n)
        T1 == Output([T EXCEPT !.sock[i].sbuf = @ \o d, !.sock[i].out = @ + n], i, {"ACK"}, d)
    IN  IF n = 0 THEN T
        ELSE [T1 EXCEPT !.sock[i].nxt = Plus(@, n), !.sock[i].rto = Rto, !.sock[i].tries = 0]

RECURSIVE Resend(_, _, _)
Resend(T, i, off) ==
    LET s  == T.sock[i]
        d  == SubSeq(s.sbuf, off + 1, Least(off + Mss, Len(s.sbuf)))
        T1 == Output(T, i, {"ACK"}, d)
    IN  IF off >= Len(s.sbuf) THEN T
        ELSE Resend([T1 EXCEPT !.sock[i].nxt = Plus(@, Len(d))], i, off + Len(d))

\* What is sent again: the SYN, or all of the buffer and then the FIN.
Repeated(T, i) ==
    LET s == T.sock[i]
    IN  IF s.st \in {"SYN_SENT", "SYN_RCVD"}
        THEN Output(T, i, IF s.st = "SYN_SENT" THEN {"SYN"} ELSE {"SYN", "ACK"}, <<>>)
        ELSE Resend(T, i, 0)

Refin(T, i) ==
    LET s == T.sock[i]
    IN  IF s.st \notin {"SYN_SENT", "SYN_RCVD"} /\ s.finS /\ s.sbuf = <<>>
        THEN Output(T, i, {"FIN", "ACK"}, <<>>) ELSE T

Retransmit(T, i) ==
    LET s  == T.sock[i]
        T1 == [T EXCEPT !.sock[i].tries = @ + 1, !.sock[i].nxt = s.una]
    IN  [Refin(Repeated(T1, i), i) EXCEPT
            !.sock[i].nxt = IF SeqLt(@, s.nxt) THEN s.nxt ELSE @, !.sock[i].rto = Rto]

\* One slot of tcp_timer_scan.
Scan(T, i) ==
    LET s == T.sock[i]
    IN  IF ~s.used THEN T
        ELSE IF s.tw > 0
             THEN IF s.tw = 1 THEN [T EXCEPT !.sock[i].tw = 0, !.sock[i].st = "CLOSED", !.sock[i].hup = TRUE]
                  ELSE [T EXCEPT !.sock[i].tw = @ - 1]
        ELSE IF s.rto = 0 THEN T
        ELSE IF s.rto > 1 THEN [T EXCEPT !.sock[i].rto = @ - 1]
        ELSE IF s.tries >= Retries
             THEN LET T1 == Reset(T, i) IN [T1 EXCEPT !.sock[i].rto = 0]
        ELSE Retransmit([T EXCEPT !.sock[i].rto = 0], i)

\* net_sock_release_locked: an end that is open says FIN, then the slot is wiped.
Farewell(T, i) ==
    LET s == T.sock[i]
    IN  IF s.finS \/ s.st \notin {"ESTAB", "CLOSE_WAIT"} THEN T
        ELSE Output([T EXCEPT !.sock[i].finS = TRUE], i, {"FIN", "ACK"}, <<>>)

\* What is bound to a listener's port is hung up with it.
Wipe(S, i) ==
    [j \in Slots |->
        IF j = i THEN Wiped(S[i])
        ELSE IF S[i].listening /\ ~S[j].listening /\ j \in Bound(S, S[i].lport)
             THEN [S[j] EXCEPT !.hup = TRUE] ELSE S[j]]

Release(T, i) ==
    IF ~T.sock[i].used THEN T
    ELSE [Farewell(T, i) EXCEPT !.sock = Wipe(@, i)]

-----------------------------------------------------------------------------
(* System calls.  Each looks its number up first (Resolve) and then works    *)
(* under g_net_lock on the slot it found.                                    *)

Idle == [op |-> "idle", si |-> Nil, oi |-> Nil, gen |-> 0, n |-> 0]
Becomes(T) == sock' = T.sock /\ wire' = T.wire /\ drop' = T.drop
Return(t) == at' = [at EXCEPT ![t] = Idle]
Holds(t, d) == ProcOf[t] \in desc[d].h
StillOurs(a) == a.oi # Nil /\ sock[a.si].used /\ sock[a.si].oi = a.oi
Going(t) == at[t].op = "go" /\ StillOurs(at[t])
Quiet == UNCHANGED <<rem, left>>
\* A socket that had a peer may be given another address pair a bounded number of times.
Again(i) == IF sock[i].connected THEN left.again > 0 /\ left' = [left EXCEPT !.again = @ - 1] ELSE UNCHANGED left

Socket(t) ==
    LET i == First(Free(sock))
    IN  /\ at[t].op = "idle" /\ Free(sock) # {} /\ left.open > 0 /\ ProcOf[t] \in Clients
        /\ sock' = [sock EXCEPT ![i] = [Wiped(@) EXCEPT !.used = TRUE, !.owner = ProcOf[t]]]
        /\ at' = [at EXCEPT ![t] = [Idle EXCEPT !.op = "name", !.si = i]]
        /\ left' = [left EXCEPT !.open = @ - 1]
        /\ UNCHANGED <<desc, wire, rem, drop>>

\* ofile_claim: a description and a number, or the slot goes back.
Claim(t) ==
    LET free == {d \in Descs : desc[d].h = {}}
        d == First(free)
    IN  /\ at[t].op = "name" /\ Quiet
        /\ IF free = {}
           THEN Becomes(Release(Now, at[t].si)) /\ Return(t) /\ UNCHANGED desc
           ELSE /\ desc' = [desc EXCEPT ![d] = [s |-> at[t].si, h |-> {ProcOf[t]}]]
                /\ at' = [at EXCEPT ![t].op = "mark", ![t].oi = d]
                /\ UNCHANGED <<sock, wire, drop>>

\* The slot's back pointer, written in a section of its own.
Mark(t) ==
    /\ at[t].op = "mark" /\ Quiet /\ Return(t)
    /\ \E oi \in {at[t].oi} \cup (IF Holds(t, at[t].oi) THEN {} ELSE {Nil}) :
          sock' = [sock EXCEPT ![at[t].si].oi = oi]
    /\ UNCHANGED <<desc, wire, drop>>

Resolve(t, d) ==
    /\ at[t].op = "idle" /\ Holds(t, d) /\ Quiet
    /\ at' = [at EXCEPT ![t] = [Idle EXCEPT !.op = "go", !.si = desc[d].s, !.oi = d]]
    /\ UNCHANGED <<sock, desc, wire, drop>>

\* EBADF for a slot that changed hands, and every other error return.
Fail(t) == at[t].op = "go" /\ Return(t) /\ Quiet /\ UNCHANGED <<sock, desc, wire, drop>>

Bind(t, port) ==
    LET i == at[t].si
        taken == Bound(sock, port)
    IN  /\ Going(t) /\ Return(t) /\ Again(i)
        /\ \A j \in taken : i \in taken /\ i <= j
        /\ sock' = [sock EXCEPT ![i].lport = port]
        /\ UNCHANGED <<desc, wire, rem, drop>>

Listen(t) ==
    LET i == at[t].si
    IN  /\ Going(t) /\ Return(t) /\ Quiet
        /\ sock[i].lport # 0 /\ ~sock[i].connected
        /\ sock' = [sock EXCEPT ![i].listening = TRUE, ![i].st = "LISTEN"]
        /\ UNCHANGED <<desc, wire, drop>>

\* The SYN goes out, and a call that may block stays to repeat it.
Connect(t, addr, port, nonblock) ==
    LET i  == at[t].si
        s  == sock[i]
    IN  /\ Going(t) /\ ~s.listening /\ s.st = "CLOSED" /\ Again(i) /\ UNCHANGED <<desc, rem>>
        /\ \E lp \in IF s.lport # 0 THEN {s.lport} ELSE {p \in Ports : Bound(sock, p) = {}} :
             LET c  == [s EXCEPT !.lport = lp, !.raddr = addr, !.rport = port, !.connected = TRUE,
                            !.una = Iss, !.nxt = Iss, !.wnd = Mss, !.st = "SYN_SENT"]
                 T1 == Output([Now EXCEPT !.sock[i] = c], i, {"SYN"}, <<>>)
                 T2 == [T1 EXCEPT !.sock[i].nxt = Plus(@, 1), !.sock[i].rto = Rto, !.sock[i].tries = 0]
             IN  /\ Becomes(T2)
                 /\ at' = [at EXCEPT ![t] =
                       IF nonblock \/ T2.sock[i].st = "ESTAB" THEN Idle
                       ELSE [Idle EXCEPT !.op = "conn", !.si = i, !.oi = at[t].oi, !.gen = s.gen]]

Retry(t) ==
    LET a  == at[t]
        T1 == Output([Now EXCEPT !.sock[a.si].nxt = Iss], a.si, {"SYN"}, <<>>)
        more == StillOurs(a) /\ sock[a.si].gen = a.gen /\ sock[a.si].st = "SYN_SENT" /\ a.n < Syns
    IN  /\ a.op = "conn" /\ Quiet /\ UNCHANGED desc
        /\ IF more
           THEN /\ Becomes([T1 EXCEPT !.sock[a.si].nxt = Plus(Iss, 1)])
                /\ at' = [at EXCEPT ![t].n = @ + 1]
           ELSE Return(t) /\ UNCHANGED <<sock, wire, drop>>

Send(t, len) ==
    LET i == at[t].si
    IN  /\ Going(t) /\ Return(t)
        /\ sock[i].connected /\ ~sock[i].listening /\ sock[i].st \in {"ESTAB", "CLOSE_WAIT"}
        /\ sock[i].out + len <= MaxBytes
        /\ Becomes(SendData(Now, i, len))
        /\ UNCHANGED <<desc, rem, left>>

Recv(t) ==
    LET i == at[t].si
    IN  /\ Going(t) /\ Return(t) /\ Quiet
        /\ ~sock[i].listening /\ sock[i].rbuf # <<>>
        /\ sock' = [sock EXCEPT ![i].rbuf = Tail(@), ![i].read = @ + 1]
        /\ UNCHANGED <<desc, wire, drop>>

Accept(t) ==
    LET i == at[t].si
        ci == Head(sock[i].aq)
    IN  /\ Going(t) /\ sock[i].st = "LISTEN" /\ sock[i].aq # <<>> /\ Quiet
        /\ sock' = [sock EXCEPT ![i].aq = Tail(@), ![ci].owner = ProcOf[t]]
        /\ at' = [at EXCEPT ![t] = [Idle EXCEPT !.op = "name", !.si = ci]]
        /\ UNCHANGED <<desc, wire, drop>>

\* The last holder of a description releases its socket (ofile_last_drop_locked).
Dropped(T, D, d, p) ==
    LET h == D[d].h \ {p}
    IN  [T |-> IF h = {} /\ p \in D[d].h THEN Release(T, D[d].s) ELSE T,
         D |-> [D EXCEPT ![d] = IF h = {} THEN [s |-> Nil, h |-> {}] ELSE [@ EXCEPT !.h = h]]]

Close(t, d) ==
    LET r == Dropped(Now, desc, d, ProcOf[t])
    IN  /\ at[t].op = "idle" /\ Holds(t, d) /\ Quiet
        /\ Becomes(r.T) /\ desc' = r.D /\ UNCHANGED at

Fork(t, u) ==
    /\ at[t].op = "idle" /\ at[u].op = "unborn" /\ Quiet
    /\ desc' = [d \in Descs |-> IF Holds(t, d) THEN [desc[d] EXCEPT !.h = @ \cup {ProcOf[u]}] ELSE desc[d]]
    /\ at' = [at EXCEPT ![u] = Idle]
    /\ UNCHANGED <<sock, wire, drop>>

\* net_teardown_kproc, the first hook of an exit: sockets no description names.
ExitNet(p) ==
    LET all == {t \in Threads : ProcOf[t] = p}
        Undescribed(T, i) == IF T.sock[i].used /\ T.sock[i].oi = Nil /\ T.sock[i].owner = p THEN Release(T, i) ELSE T
    IN  /\ \A t \in all : at[t].op = "idle"
        /\ Becomes(FoldLeft(Undescribed, Now, [i \in Slots |-> i]))
        /\ at' = [t \in Threads |-> IF t \in all THEN [Idle EXCEPT !.op = "dying"] ELSE at[t]]
        /\ Quiet /\ UNCHANGED desc

\* descriptor_teardown_kproc, a later one: every number of the process.
ExitFds(p) ==
    LET all == {t \in Threads : ProcOf[t] = p}
        Drop(r, d) == Dropped(r.T, r.D, d, p)
        r == FoldLeft(Drop, [T |-> Now, D |-> desc], SetToSeq(Descs))
    IN  /\ \A t \in all : at[t].op = "dying"
        /\ Becomes(r.T) /\ desc' = r.D
        /\ at' = [t \in Threads |-> IF t \in all THEN [Idle EXCEPT !.op = "gone"] ELSE at[t]]
        /\ Quiet

\* A pass over the timers, from a core that has nothing to run.
TimerScan ==
    /\ left.scans > 0 /\ left' = [left EXCEPT !.scans = @ - 1]
    /\ Becomes(FoldLeft(Scan, Now, [i \in Slots |-> i]))
    /\ UNCHANGED <<desc, at, rem>>

\* The loss that a test injects.
Lose == left.lose > 0 /\ drop' = drop + 1 /\ left' = [left EXCEPT !.lose = @ - 1] /\ UNCHANGED <<sock, desc, at, wire, rem>>

-----------------------------------------------------------------------------
(* Another machine, and the network between.                                 *)

RemByte(k) == <<0, 0, k>>
RemStream == [k \in 1 .. RemBytes |-> RemByte(k)]

RemTakes(g) ==
    /\ \/ /\ "SYN" \in g.flags /\ ~rem.on
          /\ rem' = [rem EXCEPT !.on = TRUE, !.rcv = Plus(g.seq, 1), !.port = g.sport, !.own = g.dport]
       \/ /\ rem.on /\ g.seq = rem.rcv /\ g.data # <<>>
          /\ rem' = [rem EXCEPT !.rcv = Plus(@, Len(g.data)), !.got = @ \o g.data]
    /\ UNCHANGED <<sock, desc, at, wire, drop, left>>

RemSegments ==
    LET acks == {Plus(Iss, k) : k \in 1 .. Len(rem.got) + 1}
        Seg(flags, seq, data, ack) == [seq |-> seq, ack |-> ack, flags |-> flags, data |-> data,
                                       sport |-> rem.own, dport |-> rem.port, win |-> Buf]
    IN  {Seg({"SYN", "ACK"}, Iss, <<>>, Plus(Iss, 1)), Seg({"RST"}, Iss, <<>>, rem.rcv)}
        \cup {Seg({"ACK"}, Plus(Iss, k), SubSeq(RemStream, k, Least(k + n - 1, RemBytes)), a) :
                 k \in 1 .. RemBytes, n \in 1 .. Mss, a \in acks}
        \cup {Seg({"ACK"}, Plus(Iss, 1), <<>>, a) : a \in acks}
        \cup {Seg({"FIN", "ACK"}, Plus(Iss, RemBytes + 1), <<>>, a) : a \in acks}

\* net_rx_tcp: anything the other end ever sent may arrive, in any order.
Deliver ==
    /\ rem.on /\ UNCHANGED <<desc, at, rem, left>>
    /\ \E g \in RemSegments :
         LET i == Lookup(sock, g.dport, CHOOSE r \in Remote : TRUE, g.sport)
         IN  i # Nil /\ Becomes(Input(Now, i, g))

Init ==
    /\ sock = [i \in Slots |-> IF Served = Nil \/ i # 1 THEN Empty(0)
                              ELSE [Empty(1) EXCEPT !.used = TRUE, !.owner = Served, !.oi = 1, !.lport = 1,
                                                    !.listening = TRUE, !.st = "LISTEN"]]
    /\ desc = [d \in Descs |-> IF Served = Nil \/ d # 1 THEN [s |-> Nil, h |-> {}] ELSE [s |-> 1, h |-> {Served}]]
    /\ at = [t \in Threads |-> IF ProcOf[t] = Born THEN [Idle EXCEPT !.op = "unborn"] ELSE Idle]
    /\ wire = {} /\ drop = 0
    /\ rem = [on |-> FALSE, rcv |-> 0, port |-> 0, own |-> 0, got |-> <<>>]
    /\ left = [open |-> MaxOpen, lose |-> MaxDrop, scans |-> MaxScans, again |-> MaxAgain]

Next ==
    \/ \E t \in Threads : \/ Socket(t) \/ Claim(t) \/ Mark(t) \/ Fail(t) \/ Listen(t) \/ Recv(t) \/ Accept(t) \/ Retry(t)
                          \/ \E d \in Descs : Resolve(t, d) \/ Close(t, d)
                          \/ \E p \in Ports : Bind(t, p)
                          \/ \E a \in {Loop} \cup Remote, p \in Ports, nb \in BOOLEAN : Connect(t, a, p, nb)
                          \/ \E n \in 1 .. Mss : Send(t, n)
                          \/ \E u \in Threads : Fork(t, u)
    \/ \E p \in Procs : ExitNet(p) \/ ExitFds(p)
    \/ TimerScan \/ Lose \/ Deliver
    \/ \E g \in wire : RemTakes(g)

Spec == Init /\ [][Next]_vars

-----------------------------------------------------------------------------
(* Properties.                                                               *)

\* What an application reads is, in order and without a gap, what one sender
\* wrote, and the sender is the other end of this conversation (tcp_input's
\* in-order rule and its queue of early segments, the retransmission from
\* snd_una, sock_fd_still_ours, the check of gen in a blocking connect).
StreamOrder ==
    /\ \A i \in Slots : \A k \in 1 .. Len(sock[i].rbuf) :
          LET b == sock[i].rbuf[k]
              a == sock[i].rbuf[1]
          IN  /\ b[1] = a[1] /\ b[2] = a[2] /\ b[3] = sock[i].read + k
              /\ b[1] # 0 /\ sock[b[1]].gen = b[2] =>
                    sock[b[1]].rport = sock[i].lport /\ sock[b[1]].lport = sock[i].rport
    /\ \A k \in 1 .. Len(rem.got) : rem.got[k][3] = k

\* A byte leaves the retransmission buffer only when the other end has it.
AckedArrived ==
    \A i \in Slots :
        LET s == sock[i]
            j == Lookup(sock, s.rport, Loop, s.lport)
            have == IF s.raddr # Loop THEN Len(rem.got) ELSE sock[j].read + Len(sock[j].rbuf)
        IN  s.st = "ESTAB" /\ (s.raddr # Loop \/ (j # Nil /\ sock[j].st = "ESTAB")) =>
                s.out - Len(s.sbuf) <= have

\* End of stream is reported after the last byte, never before it.
EndExact == \A i \in Slots : sock[i].finR /\ sock[i].raddr # Loop =>
                sock[i].read + Len(sock[i].rbuf) = RemBytes

\* All three, for every loss, duplicate, reordering, reset, fork and exit within the bounds.
TcpSound == StreamOrder /\ AckedArrived /\ EndExact

\* tcp_timer_scan: "A connection that cannot be reached is an ERROR": an end is
\* closed with an error only while something it sent is unanswered.
HealthyStaysUp ==
    \A i \in Slots : sock[i].err /\ sock[i].raddr = Loop => sock[i].una # sock[i].nxt

\* tcp_input: a stalled sender is told when the reader has made room.
WindowReopens ==
    \A i \in Slots :
        LET s == sock[i]
            j == Lookup(sock, s.rport, Loop, s.lport)
        IN  s.st = "ESTAB" /\ s.raddr = Loop /\ j # Nil /\ Room(s) = 0 /\ s.sbuf = <<>> /\ sock[j].st = "ESTAB" =>
                sock[j].rbuf # <<>>

\* accept hands out a connection to this listener that nobody else has.
QueueHolds ==
    \A i \in Slots : \A k \in 1 .. Len(sock[i].aq) :
        LET c == sock[sock[i].aq[k]] IN c.used /\ c.oi = Nil /\ c.parent = i

=============================================================================
