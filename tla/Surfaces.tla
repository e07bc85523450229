------------------------------ MODULE Surfaces ------------------------------
(***************************************************************************)
(* Pixel surfaces: SYS_SURFACE_CREATE, SYS_SURFACE_FLIP,                   *)
(* SYS_SURFACE_POLL, surfaces_reclaim and the compositor that blits them.  *)
(*                                                                         *)
(* A surface is a slot with two buffers in one chunk of frames; its owner  *)
(* sees both and draws into the one the last flip gave it, the compositor  *)
(* blits the front one.  A flip marks the slot and waits for the           *)
(* compositor to swap at a frame boundary, as long as a compositor has     *)
(* registered as the slot's consumer; without one it swaps by itself.      *)
(*                                                                         *)
(* The test of a flip that waits and its own swap are two steps.  Again: a *)
(* surface may be created in place of another while a pass is running;     *)
(* Several: a process may own several; Restart: a pass may start between   *)
(* the two steps of a flip.                                                *)
(***************************************************************************)
EXTENDS Naturals, Sequences, FiniteSets, FiniteSetsExt, SequencesExt

CONSTANTS Slot,       \* slots of g_surf
          Proc,       \* processes
          Sizes,      \* pages a surface may take
          FreeMax,    \* entries of the recycle list
          QueueMax,   \* events a surface's queue holds
          Again, Several, Restart,
          MaxMade,    \* bound: surfaces created
          MaxFlips,   \* bound: flips begun
          MaxPasses,  \* bound: compositor passes
          MaxEvents   \* bound: events routed

VARIABLES surf,       \* per slot: [used, owner, chunk, pages, front, pending, consumer]
          queue,      \* per slot: routed events not yet polled
          recycled,   \* g_surf_free: [chunk, pages], oldest first
          maps,       \* per process: page number -> [chunk, page] mapped there
          target,     \* per slot: the buffer its owner draws into
          flip,       \* per process: [pc, slot]
          comp,       \* [pc, slot, buf]: the compositor
          alive,      \* processes that have not exited
          chunks,     \* chunks allocated so far
          n           \* counts: [made, flips, passes, events]

vars == <<surf, queue, recycled, maps, target, flip, comp, alive, chunks, n>>

-----------------------------------------------------------------------------
Nobody == "nobody"
Empty == [used |-> FALSE, owner |-> Nobody, chunk |-> 0, pages |-> 0, front |-> 0,
          pending |-> FALSE, consumer |-> FALSE]
Still == [pc |-> "idle", slot |-> CHOOSE s \in Slot : TRUE]
Off == [pc |-> "off", slot |-> CHOOSE s \in Slot : TRUE, buf |-> 0]

Init ==
  /\ surf = [s \in Slot |-> Empty]
  /\ queue = [s \in Slot |-> <<>>]
  /\ recycled = <<>>
  /\ maps = [p \in Proc |-> <<>>]
  /\ target = [s \in Slot |-> 1]
  /\ flip = [p \in Proc |-> Still]
  /\ comp = Off
  /\ alive = Proc
  /\ chunks = 0
  /\ n = [made |-> 0, flips |-> 0, passes |-> 0, events |-> 0]

-----------------------------------------------------------------------------
Owned(p) == {s \in Slot : surf[s].used /\ surf[s].owner = p}

\* surfaces_reclaim: every surface of p is emptied and its chunk, counted with
\* the pages it was last used for, goes to the recycle list while that has room.
Reclaimed(p) ==
  FoldLeft(LAMBDA list, s :
             IF Len(list) < FreeMax
             THEN Append(list, [chunk |-> surf[s].chunk, pages |-> surf[s].pages])
             ELSE list,
           recycled, SetToSortSeq(Owned(p), <))

Without(p) == [s \in Slot |-> IF s \in Owned(p) THEN Empty ELSE surf[s]]

Emptied(p) == [s \in Slot |-> IF s \in Owned(p) THEN <<>> ELSE queue[s]]

\* The newest recycled chunk that is large enough, or 0.
Fitting(list, pages) ==
  LET ok == {i \in DOMAIN list : list[i].pages >= pages}
  IN  IF ok = {} THEN 0 ELSE Max(ok)

\* The entry is taken out by moving the last one into its place.
TakenOut(list, i) == Front([list EXCEPT ![i] = list[Len(list)]])

\* The new surface's pages are mapped at the one address surfaces have; what was
\* mapped beyond them stays.
Mapped(old, chunk, pages) ==
  [i \in 1 .. Max({pages, Len(old)}) |->
     IF i <= pages THEN [chunk |-> chunk, page |-> i] ELSE old[i]]

\* SYS_SURFACE_CREATE, under the surface lock: a slot held by another living
\* process is refused; one held by the caller or by a process that has exited is
\* taken back first, with everything that owner has.
Create(p, s, pages) ==
  LET ow == surf[s].owner
      list == IF surf[s].used THEN Reclaimed(ow) ELSE recycled
      base == IF surf[s].used THEN Without(ow) ELSE surf
      f == Fitting(list, pages)
      c == IF f = 0 THEN chunks + 1 ELSE list[f].chunk
  IN
  /\ p \in alive /\ flip[p].pc = "idle" /\ n.made < MaxMade
  /\ surf[s].used => ow = p \/ ow \notin alive
  /\ Again \/ ~surf[s].used \/ comp.pc = "off"
  /\ Several \/ Owned(p) \ {s} = {}
  /\ surf' = [base EXCEPT ![s] = [@ EXCEPT !.used = TRUE, !.owner = p, !.chunk = c,
                                           !.pages = pages, !.front = 0,
                                           !.pending = FALSE]]
  /\ queue' = [IF surf[s].used THEN Emptied(ow) ELSE queue EXCEPT ![s] = <<>>]
  /\ recycled' = IF f = 0 THEN list ELSE TakenOut(list, f)
  /\ chunks' = IF f = 0 THEN chunks + 1 ELSE chunks
  /\ maps' = [maps EXCEPT ![p] = Mapped(@, c, pages)]
  /\ target' = [target EXCEPT ![s] = 1]
  /\ n' = [n EXCEPT !.made = @ + 1]
  /\ UNCHANGED <<flip, comp, alive>>

\* A process ends: its surfaces are reclaimed and its address space goes.
Exit(p) ==
  /\ p \in alive /\ flip[p].pc = "idle"
  /\ Again \/ comp.pc = "off"
  /\ alive' = alive \ {p}
  /\ surf' = Without(p)
  /\ queue' = Emptied(p)
  /\ recycled' = Reclaimed(p)
  /\ maps' = [maps EXCEPT ![p] = <<>>]
  /\ UNCHANGED <<target, flip, comp, chunks, n>>

-----------------------------------------------------------------------------
(* Flips. *)

Flip(p, s) ==
  /\ p \in alive /\ flip[p].pc = "idle" /\ s \in Owned(p) /\ n.flips < MaxFlips
  /\ surf' = [surf EXCEPT ![s].pending = TRUE]
  /\ flip' = [flip EXCEPT ![p] = [pc |-> "wait", slot |-> s]]
  /\ n' = [n EXCEPT !.flips = @ + 1]
  /\ UNCHANGED <<queue, recycled, maps, target, comp, alive, chunks>>

Swapped(x) == [x EXCEPT !.front = 1 - @, !.pending = FALSE]

\* The call returns the address of the buffer that is not in front.
Returns(p, s) ==
  /\ target' = [target EXCEPT ![s] = 1 - surf'[s].front]
  /\ flip' = [flip EXCEPT ![p] = Still]

Awaited(p) ==
  /\ flip[p].pc = "wait" /\ ~surf[flip[p].slot].pending
  /\ surf' = surf
  /\ Returns(p, flip[p].slot)
  /\ UNCHANGED <<queue, recycled, maps, comp, alive, chunks, n>>

\* Mutant: the flip swaps by itself under a compositor as well.
Impatient(s) == surf[s].pending

Alone(s) == surf[s].pending /\ ~surf[s].consumer

Decides(p) ==
  /\ flip[p].pc = "wait" /\ Alone(flip[p].slot)
  /\ flip' = [flip EXCEPT ![p].pc = "swap"]
  /\ UNCHANGED <<surf, queue, recycled, maps, target, comp, alive, chunks, n>>

\* A flip nobody consumes swaps by itself.
SwapsItself(p) ==
  /\ flip[p].pc = "swap"
  /\ surf' = [surf EXCEPT ![flip[p].slot] = Swapped(@)]
  /\ Returns(p, flip[p].slot)
  /\ UNCHANGED <<queue, recycled, maps, comp, alive, chunks, n>>

-----------------------------------------------------------------------------
(* The compositor: a pass is a number of frames; a frame consumes the flips and
   then blits slot after slot. *)

fixed == <<queue, recycled, maps, target, flip, alive, chunks>>

PassBegins ==
  /\ comp.pc = "off" /\ n.passes < MaxPasses
  /\ Restart \/ \A p \in Proc : flip[p].pc # "swap"
  /\ surf' = [s \in Slot |-> [surf[s] EXCEPT !.consumer = TRUE]]
  /\ comp' = [comp EXCEPT !.pc = "pass"]
  /\ n' = [n EXCEPT !.passes = @ + 1]
  /\ UNCHANGED fixed

Consumed(s) == IF surf[s].used /\ surf[s].pending THEN Swapped(surf[s]) ELSE surf[s]

FrameBegins ==
  /\ comp.pc = "pass"
  /\ surf' = [s \in Slot |-> Consumed(s)]
  /\ comp' = [comp EXCEPT !.pc = "frame"]
  /\ UNCHANGED <<fixed, n>>

BlitBegins(s) ==
  /\ comp.pc = "frame" /\ surf[s].used
  /\ comp' = [pc |-> "blit", slot |-> s, buf |-> surf[s].front]
  /\ UNCHANGED <<surf, fixed, n>>

BlitEnds ==
  /\ comp.pc = "blit"
  /\ comp' = [Off EXCEPT !.pc = "frame"]
  /\ UNCHANGED <<surf, fixed, n>>

FrameEnds ==
  /\ comp.pc = "frame"
  /\ comp' = [Off EXCEPT !.pc = "pass"]
  /\ UNCHANGED <<surf, fixed, n>>

PassEnds ==
  /\ comp.pc = "pass"
  /\ surf' = [s \in Slot |-> [surf[s] EXCEPT !.consumer = FALSE]]
  /\ comp' = Off
  /\ UNCHANGED <<fixed, n>>

-----------------------------------------------------------------------------
(* Events: a click or a key goes to the queue of the surface while it has room,
   and SYS_SURFACE_POLL hands the owner the oldest. *)

Route(s) ==
  /\ comp.pc = "pass" /\ surf[s].used /\ n.events < MaxEvents
  /\ queue' = IF Len(queue[s]) < QueueMax
              THEN [queue EXCEPT ![s] = Append(@, [for |-> surf[s].owner, id |-> n.events])]
              ELSE queue
  /\ n' = [n EXCEPT !.events = @ + 1]
  /\ UNCHANGED <<surf, recycled, maps, target, flip, comp, alive, chunks>>

Poll(p, s) ==
  /\ p \in alive /\ s \in Owned(p) /\ queue[s] # <<>>
  /\ queue' = [queue EXCEPT ![s] = Tail(@)]
  /\ UNCHANGED <<surf, recycled, maps, target, flip, comp, alive, chunks, n>>

Next ==
  \/ PassBegins \/ FrameBegins \/ BlitEnds \/ FrameEnds \/ PassEnds
  \/ \E s \in Slot : BlitBegins(s) \/ Route(s)
  \/ \E p \in Proc : Exit(p) \/ Awaited(p) \/ Decides(p) \/ SwapsItself(p)
  \/ \E p \in Proc, s \in Slot : Flip(p, s) \/ Poll(p, s)
  \/ \E p \in Proc, s \in Slot, z \in Sizes : Create(p, s, z)

Spec == Init /\ [][Next]_vars

-----------------------------------------------------------------------------
\* While the compositor blits a surface, its owner is not drawing into the
\* buffer that is read, and the buffers do not change places: no frame shows
\* half of one picture and half of the next.
NoTear ==
  comp.pc = "blit" /\ surf[comp.slot].used =>
    /\ surf[comp.slot].front = comp.buf
    /\ flip[surf[comp.slot].owner].pc = "idle" => target[comp.slot] # comp.buf

\* A living process can reach no page of another's surface, and no two surfaces
\* share a chunk.
Private ==
  /\ \A s \in Slot, p \in alive :
       surf[s].used /\ surf[s].owner # p =>
         \A i \in DOMAIN maps[p] :
           ~(maps[p][i].chunk = surf[s].chunk /\ maps[p][i].page <= surf[s].pages)
  /\ \A s, t \in Slot : s # t /\ surf[s].used /\ surf[t].used => surf[s].chunk # surf[t].chunk
  /\ \A s \in Slot, i \in DOMAIN recycled : surf[s].used => recycled[i].chunk # surf[s].chunk

\* What a queue holds was routed to the surface's present owner, in order.
OwnEvents ==
  \A s \in Slot : \A i \in DOMAIN queue[s] :
    queue[s][i].for = surf[s].owner /\ (i > 1 => queue[s][i - 1].id < queue[s][i].id)

SurfacesSound == NoTear /\ Private /\ OwnEvents
=============================================================================
