------------------------------- MODULE Input -------------------------------
(***************************************************************************)
(* Keyboards: the xHCI driver of kernel64.c, its rings of TRBs, the        *)
(* enumeration of the one USB device it drives and the polling of its      *)
(* reports; the interrupt handler of the PS/2 keyboard; and the ring of    *)
(* characters both feed, which the canvas loop and SYS_TTY_READ drain.     *)
(*                                                                         *)
(* A ring is an array whose entries carry a cycle bit: an entry belongs to *)
(* the consumer when its bit is the consumer's.  Transfer rings end in a   *)
(* link that flips the producer's bit, the event ring wraps by itself.     *)
(* The driver pushes the entries of a transfer one by one, rings the       *)
(* doorbell and polls the event ring; nothing locks any of it.             *)
(***************************************************************************)
EXTENDS Integers, Sequences, FiniteSets, SequencesExt

CONSTANTS Callers,   \* who may poll: "canvas" is the boot thread; others are cores in SYS_TTY_READ
          Size,      \* XHCI_RING_LEN
          Cap,       \* the size of kbd_ring
          Keys,      \* the keys of the USB keyboard
          Ps2,       \* the keys of the PS/2 keyboard
          Stalls,    \* may the device answer with an error?
          Hasty,     \* may a wait end before an event that will come?
          MaxPolls, MaxPress, MaxPort   \* bounds on polls, key presses, port events

\* What the constants have to satisfy.
InputAssumption == /\ Size \in Nat \ {0, 1} /\ Cap \in Nat \ {0} /\ "canvas" \in Callers
                   /\ Stalls \in BOOLEAN /\ Hasty \in BOOLEAN
                   /\ MaxPolls \in Nat /\ MaxPress \in Nat /\ MaxPort \in Nat

Rings == {"cmd", "ep0"}

VARIABLES ring,    \* the driver's side of the transfer rings: entries, position, cycle bit
          hc,      \* the controller's side: position, cycle bit, the last entry executed, halted
          bell,    \* the rings whose doorbell was rung
          evt,     \* the event ring, with the controller's and the driver's position and bit
          setup,   \* how far the enumeration has come, 0 when it has given up
          call,    \* per caller: its transfer
          keys,    \* the keys held down
          report,  \* the static report buffer
          prev,    \* g_xhci_hid_prev
          kbd,     \* kbd_ring, kbd_w, kbd_r
          ctrl,    \* ctrl_down
          held,    \* g_key_held
          typed,   \* the characters put into kbd_ring, from the first
          taken,   \* the characters taken out of it
          got,     \* the characters SYS_TTY_READ delivered and the interrupts it raised
          presses, \* per key: how often it went down
          n        \* polls and port events made
vars == <<ring, hc, bell, evt, setup, call, keys, report, prev, kbd, ctrl, held, typed, taken, got, presses, n>>
usb  == <<ring, hc, bell, evt, setup>>
board == <<keys, report, prev, presses>>
chars == <<kbd, ctrl, held, typed, taken>>

NoTrb   == [cyc |-> 0, seq |-> 0, kind |-> "none", by |-> 0]
NoEvent == [cyc |-> 0, ring |-> "none", by |-> 0, code |-> 0]
NoCall  == [pc |-> "idle", xfer |-> <<>>, by |-> 0, waits |-> 0, first |-> TRUE, got |-> FALSE, code |-> 0,
            todo |-> {}, tmp |-> 0]

\* xhci_ring_init for both rings, and xhci_probe's event ring
Init == /\ ring = [x \in Rings |-> [trb |-> [i \in 0..(Size - 1) |-> NoTrb], enq |-> 0, cyc |-> 1, n |-> 0]]
        /\ hc = [x \in Rings |-> [deq |-> 0, cyc |-> 1, done |-> 0, halted |-> FALSE]]
        /\ bell = {}
        /\ evt = [trb |-> [i \in 0..(Size - 1) |-> NoEvent], enq |-> 0, cyc |-> 1, deq |-> 0, dcyc |-> 1]
        /\ setup = 1 /\ call = [c \in Callers |-> NoCall]
        /\ keys = {} /\ report = {} /\ prev = {} /\ presses = [k \in Keys |-> 0]
        /\ kbd = [w |-> 0, r |-> 0, cell |-> [i \in 0..(Cap - 1) |-> "none"]]
        /\ ctrl = FALSE /\ held = [k \in Ps2 |-> "none"] /\ typed = <<>> /\ taken = <<>>
        /\ got = [read |-> 0, intr |-> 0]
        /\ n = [polls |-> 0, ports |-> 0]
----------------------------------------------------------------------------
(* Transfers *)

Data    == <<"setup", "data", "status">>
NoData  == <<"setup", "status">>
Command == <<"command">>
\* xhci_enumerate_device and xhci_configure_hid: enable a slot, address the device, read its
\* descriptor and twice its configuration, select the configuration and the boot protocol.
Script  == <<Command, Command, Data, Data, Data, NoData, NoData>>
Polling == Len(Script) + 1
Calls   == n.polls + setup

Starts(c, x) == call' = [call EXCEPT ![c] = [NoCall EXCEPT !.pc = "push", !.xfer = x, !.by = Calls,
                                                           !.waits = IF x = Data THEN 2 ELSE 1]]
Enumerate ==
  /\ setup \in 1..Len(Script) /\ call["canvas"].pc = "idle"
  /\ Starts("canvas", Script[setup])
  /\ UNCHANGED <<usb, board, chars, n>>

\* xhci_poll_hid, the calls that its throttle lets through
PollHid(c) ==
  /\ setup = Polling /\ call[c].pc = "idle" /\ n.polls < MaxPolls
  /\ n' = [n EXCEPT !.polls = @ + 1]
  /\ Starts(c, Data)
  /\ UNCHANGED <<usb, board, chars>>

\* xhci_ring_push onto the last entry before the link
Wrapped(q, t) == [q EXCEPT !.trb[q.enq] = t, !.trb[Size - 1] = [NoTrb EXCEPT !.cyc = q.cyc, !.kind = "link"],
                           !.enq = 0, !.cyc = 1 - @, !.n = @ + 1]

Pushed(q, kind, by) ==
  LET t == [cyc |-> q.cyc, seq |-> q.n + 1, kind |-> kind, by |-> by] IN
  IF q.enq = Size - 2 THEN Wrapped(q, t)
  ELSE [q EXCEPT !.trb[q.enq] = t, !.enq = @ + 1, !.n = @ + 1]

\* xhci_ep0_control and the commands: the pushes, then the doorbell
Push(c) ==
  /\ call[c].pc = "push" /\ call[c].xfer # <<>>
  /\ LET x == IF Head(call[c].xfer) = "command" THEN "cmd" ELSE "ep0"
         last == Len(call[c].xfer) = 1 IN
     /\ ring' = [ring EXCEPT ![x] = Pushed(@, Head(call[c].xfer), call[c].by)]
     /\ call' = [call EXCEPT ![c].xfer = IF last THEN <<x>> ELSE Tail(@),
                             ![c].pc = IF last THEN "bell" ELSE @]
  /\ UNCHANGED <<hc, bell, evt, setup, board, chars, n>>

Doorbell(c) ==
  /\ call[c].pc = "bell"
  /\ bell' = bell \cup {call[c].xfer[1]}
  /\ call' = [call EXCEPT ![c].pc = "wait"]
  /\ UNCHANGED <<ring, hc, evt, setup, board, chars, n>>

\* xhci_evt_pop
There == evt.trb[evt.deq].cyc = evt.dcyc
Popped == [evt EXCEPT !.deq = (@ + 1) % Size, !.dcyc = IF evt.deq = Size - 1 THEN 1 - @ ELSE @]

\* Mutant: the wait takes the first event it finds.
AnyEvent(e, x) == TRUE

Awaited(e, x) == e.ring = x

\* One wait of the transfer is over.
Waited(c) == [call[c] EXCEPT !.waits = @ - 1, !.first = FALSE,
                             !.pc = IF call[c].waits = 1 THEN "end" ELSE @]

\* xhci_wait_cmd_completion and xhci_wait_transfer_event: one turn that finds an event
Pop(c) ==
  /\ call[c].pc = "wait" /\ There
  /\ evt' = Popped
  /\ LET e == evt.trb[evt.deq] IN
     call' = IF Awaited(e, call[c].xfer[1])
             THEN [call EXCEPT ![c] = [Waited(c) EXCEPT !.got = @ \/ call[c].first, !.code = e.code]]
             ELSE call
  /\ UNCHANGED <<ring, hc, bell, setup, board, chars, n>>

\* ... and the turn after the last one
Coming(x) == There \/ (x \in bell /\ ~hc[x].halted)
GiveUp(c) ==
  /\ call[c].pc = "wait" /\ (Hasty \/ ~Coming(call[c].xfer[1]))
  /\ call' = [call EXCEPT ![c] = Waited(c)]
  /\ UNCHANGED <<usb, board, chars, n>>

Worked(c) == call[c].got /\ call[c].code = 1

\* The end of a step of the enumeration: the last two transfers' answers are not looked at.
Enumerated ==
  /\ setup \in 1..Len(Script) /\ call["canvas"].pc = "end"
  /\ setup' = IF Worked("canvas") \/ setup >= Len(Script) - 1 THEN setup + 1 ELSE 0
  /\ call' = [call EXCEPT !["canvas"] = NoCall]
  /\ UNCHANGED <<ring, hc, bell, evt, board, chars, n>>
----------------------------------------------------------------------------
(* What the driver makes of a report, and the ring of characters. *)

NewlyDown(r, p) == r \ p

Reported(c) ==
  /\ setup = Polling /\ call[c].pc = "end"
  /\ call' = [call EXCEPT ![c] = IF Worked(c) THEN [NoCall EXCEPT !.pc = "type", !.todo = NewlyDown(report, prev)]
                                 ELSE NoCall]
  /\ UNCHANGED <<usb, board, chars, n>>

HasRoom == kbd.w - kbd.r < Cap
Cell(i) == i % Cap

\* kbd_ring[kbd_w++ % 64] = c in xhci_poll_hid: the load,
PutLoad(c) ==
  /\ call[c].pc = "type" /\ call[c].todo # {}
  /\ call' = IF HasRoom THEN [call EXCEPT ![c].pc = "put", ![c].tmp = kbd.w]
             ELSE [call EXCEPT ![c].todo = {}]
  /\ UNCHANGED <<usb, board, chars, n>>

\* and the stores
PutStore(c) ==
  /\ call[c].pc = "put"
  /\ LET k == CHOOSE x \in call[c].todo : TRUE IN
     /\ kbd' = [kbd EXCEPT !.w = call[c].tmp + 1, !.cell[Cell(call[c].tmp)] = k]
     /\ typed' = Append(typed, k)
     /\ call' = [call EXCEPT ![c].pc = "type", ![c].todo = @ \ {k}]
  /\ UNCHANGED <<usb, board, ctrl, held, taken, n>>

\* The report becomes the previous one.
Remember(c) ==
  /\ call[c].pc = "type" /\ call[c].todo = {}
  /\ prev' = report /\ call' = [call EXCEPT ![c] = NoCall]
  /\ UNCHANGED <<usb, keys, report, presses, chars, n>>

\* kbd_getc_nonblock
Oldest == kbd.cell[Cell(kbd.r)]
Get(c) ==
  /\ call[c].pc = "idle" /\ kbd.r # kbd.w
  /\ kbd' = [kbd EXCEPT !.r = @ + 1]
  /\ taken' = Append(taken, Oldest)
  /\ UNCHANGED <<usb, call, board, ctrl, held, typed, n>>

\* SYS_TTY_READ, whose every turn polls and takes one character: the interrupt character goes to
\* the foreground process group (tty_intr), the others to the reader
TtyRead(c) == Get(c) /\ got' = IF Oldest = "^c" THEN [got EXCEPT !.intr = @ + 1]
                                ELSE [got EXCEPT !.read = @ + 1]

\* keyboard_irq: a character key, with or without control; digits make no control character
CharOf(k) == IF ~ctrl THEN k ELSE IF k = "1" THEN "none" ELSE "^" \o k
IrqDown(k) ==
  /\ Len(typed) < MaxPress
  /\ held' = [held EXCEPT ![k] = CharOf(k)]
  /\ IF CharOf(k) # "none" /\ HasRoom
     THEN /\ kbd' = [kbd EXCEPT !.w = @ + 1, !.cell[Cell(kbd.w)] = CharOf(k)]
          /\ typed' = Append(typed, CharOf(k))
     ELSE UNCHANGED <<kbd, typed>>
  /\ UNCHANGED <<usb, call, board, ctrl, taken, n>>
IrqUp(k) == held[k] # "none" /\ held' = [held EXCEPT ![k] = "none"]
            /\ UNCHANGED <<usb, call, board, kbd, ctrl, typed, taken, n>>
IrqCtrl  == Ps2 # {} /\ ctrl' = ~ctrl /\ UNCHANGED <<usb, call, board, kbd, held, typed, taken, n>>
----------------------------------------------------------------------------
(* The controller and the device. *)

EventRoom == (evt.enq + 1) % Size # evt.deq
Event(e) == [evt EXCEPT !.trb[evt.enq] = [e EXCEPT !.cyc = evt.cyc], !.enq = (@ + 1) % Size,
                        !.cyc = IF evt.enq = Size - 1 THEN 1 - @ ELSE @]

\* The controller goes through a ring from the doorbell to the first entry that is not its own.
Follow(x) ==
  /\ x \in bell /\ ~hc[x].halted
  /\ ring[x].trb[hc[x].deq].cyc = hc[x].cyc /\ ring[x].trb[hc[x].deq].kind = "link"
  /\ hc' = [hc EXCEPT ![x].deq = 0, ![x].cyc = 1 - @]
  /\ UNCHANGED <<ring, bell, evt, setup, call, board, chars, n>>

Rest(x) ==
  /\ x \in bell /\ ring[x].trb[hc[x].deq].cyc # hc[x].cyc
  /\ bell' = bell \ {x}
  /\ UNCHANGED <<ring, hc, evt, setup, call, board, chars, n>>

Run(x) ==
  /\ x \in bell /\ ~hc[x].halted /\ EventRoom
  /\ LET t == ring[x].trb[hc[x].deq] IN
     /\ t.cyc = hc[x].cyc /\ t.kind # "link"
     /\ \E code \in IF Stalls THEN {1, 6} ELSE {1} :
          /\ hc' = [hc EXCEPT ![x].deq = @ + 1, ![x].done = t.seq, ![x].halted = code = 6 /\ x = "ep0"]
          /\ evt' = IF code = 6 \/ t.kind # "setup"
                    THEN Event([cyc |-> 0, ring |-> x, by |-> t.by, code |-> code]) ELSE evt
          /\ report' = IF t.kind = "data" /\ code = 1 THEN keys ELSE report
  /\ UNCHANGED <<ring, bell, setup, call, keys, prev, presses, chars, n>>

\* A port changes: an event that the driver drops.
Port == /\ n.ports < MaxPort /\ EventRoom
        /\ n' = [n EXCEPT !.ports = @ + 1]
        /\ evt' = Event([NoEvent EXCEPT !.ring = "port"])
        /\ UNCHANGED <<ring, hc, bell, setup, call, board, chars>>

KeyDown(k) == /\ setup = Polling /\ k \notin keys /\ presses[k] < MaxPress
              /\ keys' = keys \cup {k} /\ presses' = [presses EXCEPT ![k] = @ + 1]
              /\ UNCHANGED <<usb, call, report, prev, chars, n>>
KeyUp(k)   == /\ k \in keys /\ keys' = keys \ {k}
              /\ UNCHANGED <<usb, call, report, prev, presses, chars, n>>

Step == \/ Enumerate \/ Enumerated \/ Port \/ IrqCtrl
        \/ \E c \in Callers : \/ PollHid(c) \/ Push(c) \/ Doorbell(c) \/ Pop(c) \/ GiveUp(c)
                              \/ Reported(c) \/ PutLoad(c) \/ PutStore(c) \/ Remember(c)
        \/ \E x \in Rings : Follow(x) \/ Rest(x) \/ Run(x)
        \/ \E k \in Keys : KeyDown(k) \/ KeyUp(k)
        \/ \E k \in Ps2 : IrqDown(k) \/ IrqUp(k)
Next == \/ (Step \/ Get("canvas")) /\ UNCHANGED got
        \/ \E c \in Callers \ {"canvas"} : TtyRead(c)
Spec == Init /\ [][Next]_vars
----------------------------------------------------------------------------
\* The controller executes the entries of a ring in the order in which they were pushed, each once,
\* over every wrap: the link carries the producer's bit before the producer's bit flips.
InOrder == \A x \in Rings : LET t == ring[x].trb[hc[x].deq] IN
             ~hc[x].halted /\ t.cyc = hc[x].cyc /\ t.kind # "link" => t.seq = hc[x].done + 1

\* An event taken for a transfer belongs to it: no event of an earlier one is left over.
OwnEvents == \A c \in Callers : call[c].pc = "wait" /\ There /\ ~hc["ep0"].halted =>
               LET e == evt.trb[evt.deq] IN Awaited(e, call[c].xfer[1]) => e.by = call[c].by

\* A press of a USB key is typed at most once, however many reports show it.
TypedOnce == \A k \in Keys : Cardinality({i \in DOMAIN typed : typed[i] = k}) <= presses[k]

\* What is taken out of kbd_ring is what was put in, in order, without a gap.
NothingLost == taken \o [i \in 1..(kbd.w - kbd.r) |-> kbd.cell[Cell(kbd.r + i - 1)]] = typed

InputSound == InOrder /\ OwnEvents /\ TypedOnce /\ NothingLost
=============================================================================
