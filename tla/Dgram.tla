------------------------------- MODULE Dgram --------------------------------
(***************************************************************************)
(* Datagram sockets: bind, connect, listen, accept, send, recv and close,  *)
(* loopback delivery and delivery from the wire. A listening socket queues *)
(* the first datagram of a new peer; accept turns it into a session socket *)
(* of its own. A call looks its descriptor up in one section and works on  *)
(* the socket in the next; one that makes a socket takes the slot, then a  *)
(* number, then ties the two together, each in a section of its own.       *)
(*                                                                         *)
(* A datagram is its number, in the order of sending, and who sent it; a   *)
(* peer is the port it sends from, ports above Port being remote hosts'.   *)
(***************************************************************************)
EXTENDS Naturals, Sequences, FiniteSets, SequencesExt

CONSTANTS NSock,   \* NSOCK
          Desc,    \* descriptors the processes may hold
          Thread,  \* threads that make calls
          Port,    \* local ports
          Far,     \* remote peers
          Depth,   \* SOCK_QDEPTH
          Backlog, \* SOCK_BACKLOG
          MaxSent, \* bound: datagrams sent
          MaxOpens \* bound: sockets made

VARIABLES sock, \* the table g_sock
          desc, \* the socket each descriptor names, Nil for a free one, Bare before it has one
          pc,   \* what each thread is about to do with which socket
          sent, \* datagrams accepted for delivery so far (history)
          got,  \* datagrams read (history)
          lost, \* datagrams that went with a closed socket (history)
          opens,
          early \* was a number closed before the call that makes it was through? (history)
vars == <<sock, desc, pc, sent, got, lost, opens, early>>

Index == 1..NSock
Nil == 0
Bare == NSock + 1
Idle == <<"idle">>
Free == [used |-> FALSE, port |-> Nil, listening |-> FALSE, peer |-> Nil,
         q |-> <<>>, pend |-> <<>>, hup |-> FALSE, oi |-> Nil, since |-> 0]
Msg(from) == [id |-> sent + 1, from |-> from]

FreeSlots == {i \in Index : ~sock[i].used}
FirstOf(S) == CHOOSE i \in S : \A j \in S : i <= j
StillOurs(i, d) == sock[i].used /\ sock[i].oi = d
Ids(q) == {q[k].id : k \in 1..Len(q)}
Held(i) == Ids(sock[i].q) \cup Ids(sock[i].pend)

Init == /\ sock = [i \in Index |-> Free]
        /\ desc = [d \in Desc |-> Nil]
        /\ pc = [t \in Thread |-> Idle]
        /\ sent = 0 /\ got = {} /\ lost = {} /\ opens = 0 /\ early = FALSE

At(t, op) == pc[t][1] = op
Done(t) == pc' = [pc EXCEPT ![t] = Idle]
Making(d) == \E t \in Thread : pc[t][1] \in {"tie", "mark"} /\ pc[t][3] = d

------------------------------------------------------------------------------
(* Opening and closing. *)

Socket(t) ==
    /\ pc[t] = Idle /\ opens < MaxOpens
    /\ FreeSlots # {}
    /\ LET i == FirstOf(FreeSlots)
       IN /\ sock' = [sock EXCEPT ![i] = [Free EXCEPT !.used = TRUE]]
          /\ pc' = [pc EXCEPT ![t] = <<"claim", i, Nil>>]
    /\ opens' = opens + 1
    /\ UNCHANGED <<desc, sent, got, lost, early>>

\* A listener that goes away hangs up on every socket bound to its port.
Released(i) ==
    [j \in Index |-> IF j = i THEN Free
                     ELSE IF /\ sock[i].listening /\ sock[j].used /\ ~sock[j].listening
                             /\ sock[j].port # Nil /\ sock[j].port = sock[i].port
                     THEN [sock[j] EXCEPT !.hup = TRUE] ELSE sock[j]]

\* socket and accept: a number, or the slot goes back, its datagram with it.
Claim(t) ==
    /\ At(t, "claim")
    /\ LET c == pc[t][2]
           open == {d \in Desc : desc[d] = Nil}
       IN IF open = {}
          THEN /\ sock' = Released(c) /\ lost' = lost \cup Held(c)
               /\ Done(t) /\ UNCHANGED desc
          ELSE \E d \in open : /\ desc' = [desc EXCEPT ![d] = Bare]
                               /\ pc' = [pc EXCEPT ![t] = <<"tie", c, d>>]
                               /\ UNCHANGED <<sock, lost>>
    /\ UNCHANGED <<sent, got, opens, early>>

\* The number gets its socket, whatever it names by now.
Tie(t) ==
    /\ At(t, "tie")
    /\ LET c == pc[t][2]  d == pc[t][3]
       IN IF desc[d] = Nil
          THEN pc' = [pc EXCEPT ![t] = <<"mark", c, Nil>>] /\ UNCHANGED desc
          ELSE pc' = [pc EXCEPT ![t] = <<"mark", c, d>>] /\ desc' = [desc EXCEPT ![d] = c]
    /\ UNCHANGED <<sock, sent, got, lost, opens, early>>

\* The slot gets its way back, whoever has it by now.
Mark(t) ==
    /\ At(t, "mark") /\ Done(t)
    /\ sock' = [sock EXCEPT ![pc[t][2]].oi = pc[t][3]]
    /\ UNCHANGED <<desc, sent, got, lost, opens, early>>

\* A number that has no socket yet leaves the slot behind.
Close(d) ==
    /\ desc[d] # Nil
    /\ IF desc[d] = Bare THEN UNCHANGED <<sock, lost>>
       ELSE sock' = Released(desc[d]) /\ lost' = lost \cup Held(desc[d])
    /\ desc' = [desc EXCEPT ![d] = Nil]
    /\ early' = (early \/ Making(d))
    /\ UNCHANGED <<pc, sent, got, opens>>

------------------------------------------------------------------------------
(* A call: the descriptor first, its socket in a section of its own. *)

Find(t, op, d) ==
    /\ pc[t] = Idle /\ desc[d] \in Index
    /\ pc' = [pc EXCEPT ![t] = <<op, desc[d], d>>]
    /\ UNCHANGED <<sock, desc, sent, got, lost, opens, early>>

Mine(t) == StillOurs(pc[t][2], pc[t][3])

Bind(t) ==
    /\ At(t, "bind")
    /\ LET i == pc[t][2]
       IN \E p \in Port :
             sock' = IF Mine(t) /\ \A j \in Index \ {i} : ~(sock[j].used /\ sock[j].port = p)
                     THEN [sock EXCEPT ![i].port = p] ELSE sock
    /\ Done(t)
    /\ UNCHANGED <<desc, sent, got, lost, opens, early>>

Connect(t) ==
    /\ At(t, "connect")
    /\ \E p \in Port \cup Far :
          sock' = IF Mine(t) /\ ~sock[pc[t][2]].listening
                  THEN [sock EXCEPT ![pc[t][2]].peer = p, ![pc[t][2]].since = sent] ELSE sock
    /\ Done(t)
    /\ UNCHANGED <<desc, sent, got, lost, opens, early>>

Listen(t) ==
    /\ At(t, "listen")
    /\ LET s == sock[pc[t][2]]
       IN sock' = IF Mine(t) /\ s.port # Nil /\ s.peer = Nil
                  THEN [sock EXCEPT ![pc[t][2]].listening = TRUE] ELSE sock
    /\ Done(t)
    /\ UNCHANGED <<desc, sent, got, lost, opens, early>>

\* accept makes the session before it has a descriptor for it.
Accept(t) ==
    /\ At(t, "accept")
    /\ LET i == pc[t][2]
           first == Head(sock[i].pend)
       IN IF ~Mine(t) \/ ~sock[i].listening \/ sock[i].pend = <<>> \/ FreeSlots = {}
          THEN Done(t) /\ UNCHANGED sock
          ELSE LET c == FirstOf(FreeSlots)
               IN /\ sock' = [sock EXCEPT
                                ![i].pend = Tail(@),
                                ![c] = [Free EXCEPT !.used = TRUE, !.port = sock[i].port,
                                                    !.peer = first.from, !.q = <<first>>,
                                                    !.since = sent]]
                  /\ pc' = [pc EXCEPT ![t] = <<"claim", c, Nil>>]
    /\ UNCHANGED <<desc, sent, got, lost, opens, early>>

------------------------------------------------------------------------------
(* Delivery. *)

Bound(p) == {i \in Index : sock[i].used /\ sock[i].port = p}
Listeners(p) == {i \in Bound(p) : sock[i].listening}
Sessions(p, from) == {i \in Bound(p) : ~sock[i].listening /\ sock[i].peer = from}
Plain(p) == {i \in Bound(p) : ~sock[i].listening}

\* The order of routing: the peer's session, the listener, any other socket.
\* Mutant: the listener comes before the peer's session.
ListenerFirst(p, from) == IF Listeners(p) # {} THEN Listeners(p)
                          ELSE IF Sessions(p, from) # {} THEN Sessions(p, from) ELSE Plain(p)
Route(p, from) == IF Sessions(p, from) # {} THEN Sessions(p, from)
                  ELSE IF Listeners(p) # {} THEN Listeners(p) ELSE Plain(p)

HasRoom(i) == IF sock[i].listening THEN Len(sock[i].pend) < Backlog
              ELSE Len(sock[i].q) < Depth

Stored(s, m) == IF s.listening
                THEN [s EXCEPT !.pend = IF Len(@) < Backlog THEN Append(@, m) ELSE @]
                ELSE [s EXCEPT !.q = IF Len(@) < Depth THEN Append(@, m) ELSE @]

\* A datagram is stored, or refused and not counted as sent.
Deliver(p, from) ==
    LET r == Route(p, from)
    IN IF r # {} /\ HasRoom(FirstOf(r))
       THEN /\ sock' = [sock EXCEPT ![FirstOf(r)] = Stored(@, Msg(from))]
            /\ sent' = sent + 1
       ELSE UNCHANGED <<sock, sent>>

Send(t) ==
    /\ At(t, "send")
    /\ LET s == sock[pc[t][2]]
       IN IF /\ Mine(t) /\ ~s.listening /\ s.peer \in Port
             /\ s.port # Nil /\ sent < MaxSent
          THEN Deliver(s.peer, s.port)
          ELSE UNCHANGED <<sock, sent>>
    /\ Done(t)
    /\ UNCHANGED <<desc, got, lost, opens, early>>

FromWire(p, from) ==
    /\ sent < MaxSent
    /\ Deliver(p, from)
    /\ UNCHANGED <<desc, pc, got, lost, opens, early>>

\* A blocking read of an empty socket tries again; a hang-up ends it.
Recv(t) ==
    /\ At(t, "recv")
    /\ LET i == pc[t][2]
       IN IF Mine(t) /\ ~sock[i].listening /\ sock[i].q # <<>>
          THEN /\ sock' = [sock EXCEPT ![i].q = Tail(@)]
               /\ got' = got \cup {Head(sock[i].q).id}
          ELSE UNCHANGED <<sock, got>>
    /\ Done(t)
    /\ UNCHANGED <<desc, sent, lost, opens, early>>

Next ==
    \/ \E t \in Thread :
          \/ Socket(t) \/ Bind(t) \/ Connect(t) \/ Listen(t) \/ Accept(t)
          \/ Claim(t) \/ Tie(t) \/ Mark(t) \/ Send(t) \/ Recv(t)
          \/ \E d \in Desc, op \in {"bind", "connect", "listen", "accept", "send", "recv"} :
                Find(t, op, d)
    \/ \E d \in Desc : Close(d)
    \/ \E p \in Port, f \in Far : FromWire(p, f)

Spec == Init /\ [][Next]_vars

------------------------------------------------------------------------------
\* Every datagram accepted for delivery waits in one queue, was read once, or
\* went with the socket it waited in.
OncePlaced ==
    \A id \in 1..sent :
        Cardinality({i \in Index : id \in Held(i)})
          + Cardinality({s \in {got, lost} : id \in s}) <= 1
        /\ (id \in got \cup lost \/ \E i \in Index : id \in Held(i))

\* A peer that has a session never queues at the listener again, and a queue
\* keeps the order of sending.
SessionFirst ==
    /\ \A i, c \in Index : \A k \in 1..Len(sock[i].pend) :
          sock[i].listening /\ sock[c].used /\ ~sock[c].listening /\ c # i
            /\ sock[c].port = sock[i].port /\ sock[c].peer = sock[i].pend[k].from
              => sock[i].pend[k].id <= sock[c].since
    /\ \A i \in Index : \A k \in 2..Len(sock[i].q) : sock[i].q[k-1].id < sock[i].q[k].id

\* A descriptor whose call is through names a socket in use that names it back, as long as no
\* number was closed while it was being made.
Named == \A d \in Desc : desc[d] # Nil /\ ~Making(d) /\ ~early => StillOurs(desc[d], d)

DgramSound == OncePlaced /\ SessionFirst /\ Named

\* "a second client's packets would land in the first client's socket. Resolve
\* by peer identity first": what waits in a session came from its peer.
OnlyItsPeer == \A i \in Index : \A k \in 1..Len(sock[i].q) :
                  sock[i].peer # Nil /\ sock[i].q[k].id > sock[i].since
                      => sock[i].q[k].from = sock[i].peer
=============================================================================
