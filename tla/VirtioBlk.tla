----------------------------- MODULE VirtioBlk -----------------------------
(***************************************************************************)
(* The virtio disk of metal/kernel/kernel64.c: request slots handed out    *)
(* under g_vblk_lock, completed by the device in any order, drained by the *)
(* bottom half on the boot core.  A thread of the boot core parks until    *)
(* its own request is done; a thread of another core has no scheduler to   *)
(* park in and polls.  The bottom half takes three stores for a request,   *)
(* and the other cores act in between; the boot core runs nothing else     *)
(* until it is over.                                                       *)
(*                                                                         *)
(* A request is numbered; the status and the data the device leaves in a   *)
(* slot carry the number of the request they answer.                       *)
(***************************************************************************)
EXTENDS Naturals, Sequences, FiniteSets, TLC

CONSTANTS
    Boot,        \* threads of the boot core
    Aps,         \* threads of the other cores
    NSlots,      \* VBLK_MAXREQ, or a third of the queue the device offers
    MaxRequests, \* bound on the requests of a run
    None

VARIABLES
    ready,     \* g_vblk_ready
    req,       \* g_vreq
    stats,     \* the status bytes the device writes
    published, \* chains the device has not taken
    held,      \* requests the device is working on
    used,      \* used ring entries not yet drained
    irq,       \* the interrupt line, and g_softirq_pending
    bh,        \* where the bottom half is: None or a slot and its next store
    inflight,  \* g_inflight
    thread,    \* thread -> its scheduler state
    at,        \* thread -> where it is in virtio_blk_request
    last       \* requests so far

vars == <<ready, req, stats, published, held, used, irq, bh, inflight, thread, at, last>>
Thread == Boot \cup Aps
Slots == 0 .. NSlots - 1
Idle == [at |-> "user"]
Free == [inUse |-> FALSE, waiter |-> None, done |-> FALSE, status |-> None]

Init ==
    /\ ready = FALSE
    /\ req = [s \in Slots |-> Free]
    /\ stats = [s \in Slots |-> None]
    /\ published = <<>> /\ held = {} /\ used = <<>>
    /\ irq = FALSE /\ bh = None /\ inflight = 0
    /\ thread = [t \in Boot |-> "run"]
    /\ at = [t \in Thread |-> Idle]
    /\ last = 0

\* The boot core is not in its bottom half.
Runs(t) == t \in Boot => bh = None /\ thread[t] = "run"

\* The probe: the device accepts the driver's features, or there is no disk.
Probe ==
    /\ ~ready /\ last = 0 /\ \A t \in Thread : at[t] = Idle
    /\ ready' = TRUE
    /\ UNCHANGED <<req, stats, published, held, used, irq, bh, inflight, thread, at, last>>

\* vblk_alloc_slot: the first free slot.
Available(s) == ~req[s].inUse /\ \A r \in Slots : r < s => req[r].inUse

\* Mutant: the mark of the last request stays
StaleMark(s, t) == [req EXCEPT ![s].inUse = TRUE]
Claimed(s, t) ==
    [req EXCEPT ![s] = [inUse |-> TRUE, waiter |-> IF t \in Boot THEN t ELSE None,
                        done |-> FALSE, status |-> @.status]]

\* One section of g_vblk_lock; without a slot the caller backs off and tries again.
Submit(t) ==
    /\ Runs(t) /\ at[t] = Idle /\ ready /\ last < MaxRequests
    /\ \E s \in Slots :
          /\ Available(s)
          /\ req' = Claimed(s, t)
          /\ stats' = [stats EXCEPT ![s] = None]
          /\ published' = Append(published, [slot |-> s, id |-> last + 1])
          /\ at' = [at EXCEPT ![t] = [at |-> "wait", slot |-> s, id |-> last + 1]]
    /\ inflight' = inflight + 1
    /\ last' = last + 1
    /\ UNCHANGED <<ready, held, used, irq, bh, thread>>

(* The device. *)

Take ==
    /\ published # <<>>
    /\ held' = held \cup {Head(published)}
    /\ published' = Tail(published)
    /\ UNCHANGED <<ready, req, stats, used, irq, bh, inflight, thread, at, last>>

\* Any request may be the next to be answered, well or with an error.
Complete ==
    /\ \E r \in held, ok \in BOOLEAN :
          /\ held' = held \ {r}
          /\ stats' = [stats EXCEPT ![r.slot] = [id |-> r.id, ok |-> ok]]
          /\ used' = Append(used, r.slot)
    /\ irq' = TRUE
    /\ UNCHANGED <<ready, req, published, bh, inflight, thread, at, last>>

(* The interrupt and its bottom half, on the boot core. *)

\* Top half, and the softirq on the way out; entries that arrive during the
\* drain are taken by it too.
Interrupt ==
    /\ irq /\ bh = None
    /\ irq' = FALSE
    /\ bh' = IF used = <<>> THEN None ELSE [slot |-> Head(used), next |-> "status"]
    /\ UNCHANGED <<ready, req, stats, published, held, used, inflight, thread, at, last>>

BhStatus ==
    /\ bh # None /\ bh.next = "status"
    /\ req' = [req EXCEPT ![bh.slot].status = stats[bh.slot]]
    /\ bh' = [bh EXCEPT !.next = "done"]
    /\ UNCHANGED <<ready, stats, published, held, used, irq, inflight, thread, at, last>>

BhDone ==
    /\ bh # None /\ bh.next = "done"
    /\ req' = [req EXCEPT ![bh.slot].done = TRUE]
    /\ bh' = [bh EXCEPT !.next = "wake"]
    /\ UNCHANGED <<ready, stats, published, held, used, irq, inflight, thread, at, last>>

\* The waiter is read now: a polling owner may have given the slot back and
\* another thread have it already.
\* Mutant: only a waiter that is running is looked for
Nobody(w) == thread
Woken(w) == [t \in Boot |-> IF t = w /\ thread[t] = "blocked" THEN "run" ELSE thread[t]]

BhWake ==
    /\ bh # None /\ bh.next = "wake"
    /\ thread' = Woken(req[bh.slot].waiter)
    /\ inflight' = IF inflight > 0 THEN inflight - 1 ELSE 0
    /\ used' = Tail(used)
    /\ bh' = IF Len(used) > 1 THEN [slot |-> used[2], next |-> "status"] ELSE None
    /\ UNCHANGED <<ready, req, stats, published, held, irq, at, last>>

(* vblk_wait. *)

\* On the boot core: with interrupts off, not done, so park.
Park(t) ==
    /\ t \in Boot /\ Runs(t) /\ at[t].at = "wait" /\ ~req[at[t].slot].done
    /\ thread' = [thread EXCEPT ![t] = "blocked"]
    /\ req' = [req EXCEPT ![at[t].slot].waiter = t]
    /\ UNCHANGED <<ready, stats, published, held, used, irq, bh, inflight, at, last>>

\* Done: the status is read, then the slot given back.
Read(t) ==
    /\ Runs(t) /\ at[t].at = "wait" /\ req[at[t].slot].done
    /\ at' = [at EXCEPT ![t] = [@ EXCEPT !.at = "release"]
                                @@ [answer |-> req[at[t].slot].status]]
    /\ UNCHANGED <<ready, req, stats, published, held, used, irq, bh, inflight, thread, last>>

Release(t) ==
    /\ Runs(t) /\ at[t].at = "release"
    /\ req' = [req EXCEPT ![at[t].slot].inUse = FALSE]
    /\ at' = [at EXCEPT ![t] = Idle]
    /\ UNCHANGED <<ready, stats, published, held, used, irq, bh, inflight, thread, last>>

Device == Take \/ Complete
Bottom == Interrupt \/ BhStatus \/ BhDone \/ BhWake
Wait(t) == Park(t) \/ Read(t) \/ Release(t)
Next == Probe \/ Device \/ Bottom \/ \E t \in Thread : Submit(t) \/ Wait(t)

\* The device answers what it was given, the interrupt is delivered and the
\* threads run; nobody is made to read the disk.
Fair == WF_vars(Device) /\ WF_vars(Bottom) /\ \A t \in Thread : WF_vars(Wait(t))
Spec == Init /\ [][Next]_vars /\ Fair

(* Properties. *)

\* Whatever the order of the answers and however soon a slot is used again,
\* a request is given the answer the device gave it, and no other.
OwnAnswer ==
    \A t \in Thread : at[t].at = "release" =>
        at[t].answer # None /\ at[t].answer.id = at[t].id

\* The count of outstanding requests is exact, and a parked thread waits for a
\* request whose answer is still to come.
ParkedOnPending ==
    /\ inflight = Len(published) + Cardinality(held) + Len(used)
    /\ \A t \in Boot : thread[t] = "blocked" =>
          ~req[at[t].slot].done \/ (bh # None /\ bh.slot = at[t].slot /\ bh.next = "wake")

\* Every request comes back: to the caller, and the slot to the next one.
Waits(t) == at[t].at = "wait"
Answered == \A t \in Thread : Waits(t) ~> at[t] = Idle

\* Each request gets its own answer, and nobody parks for an answer that has been given.
AnswersSound == OwnAnswer /\ ParkedOnPending
=============================================================================
