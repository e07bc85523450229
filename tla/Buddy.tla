------------------------------- MODULE Buddy -------------------------------
(***************************************************************************)
(* The buddy allocator of metal/kernel/mm.c and mm_impl.c: the usable      *)
(* ranges recorded at boot, the physmap built over them, the frames        *)
(* released to the buddy and the ones kept by the older pool, and          *)
(* alloc_pages / free_pages.                                               *)
(*                                                                         *)
(* A frame number counts pages.  A free block is its first frame on the    *)
(* list of its order; a list is the set of its blocks with the order       *)
(* blocks are taken in.  The zone lock makes the list work of a call one   *)
(* step; free_pages checks the frame's marks before it takes the lock, and *)
(* alloc_pages finishes the frame after it has released it.                *)
(***************************************************************************)
EXTENDS Naturals, Sequences, FiniteSets, FiniteSetsExt, SequencesExt

CONSTANTS Ranges,     \* usable ranges in bytes, in the order reported: [base, len]
          MaxRanges,  \* MM_MAX_RANGES
          PageSize,   \* bytes of a page
          Large,      \* pages a large page of the physmap covers
          LegacyLow,  \* FRAME_POOL_BASE in pages
          LegacyHigh, \* IDENT_MAP_LIMIT in pages
          MaxOrder,   \* MAX_ORDER
          User,       \* callers
          MaxCalls    \* bound: calls

VARIABLES usable,     \* g_usable: the recorded ranges in pages: [base, end]
          mapped,     \* frames the physmap reaches
          mark,       \* per frame: "reserved", "legacy", "free" (PG_FREE) or "none"
          order,      \* per frame: the order noted in its struct page
          area,       \* per order: the free list, newest first
          nr_free,    \* g_zone.nr_free
          held,       \* the blocks handed out: [pfn, order]
          call,       \* per caller: [pc, pfn, order]
          calls,      \* calls started
          booted      \* ranges reported so far; more than all of them once built

vars == <<usable, mapped, mark, order, area, nr_free, held, call, calls, booted>>

-----------------------------------------------------------------------------
Orders == 0 .. MaxOrder - 1
EndOf(r) == (r.base + r.len) \div PageSize
MaxPfn == Max({EndOf(Ranges[i]) : i \in DOMAIN Ranges})
Pfns == 0 .. MaxPfn - 1
Block(p, o) == p .. p + 2^o - 1

Idle == [pc |-> "idle", pfn |-> 0, order |-> 0]

Init ==
  /\ usable = <<>>
  /\ mapped = {}
  /\ mark = [f \in Pfns |-> "reserved"]
  /\ order = [f \in Pfns |-> 0]
  /\ area = [o \in Orders |-> <<>>]
  /\ nr_free = 0
  /\ held = {}
  /\ call = [u \in User |-> Idle]
  /\ calls = 0
  /\ booted = 0

-----------------------------------------------------------------------------
(* Boot. *)

\* A range is kept with its ends moved in to whole pages; an empty one and any
\* beyond the table are dropped.
Inward(r) == [base |-> (r.base + PageSize - 1) \div PageSize, end |-> EndOf(r)]

mm_note_usable ==
  /\ booted < Len(Ranges)
  /\ LET r == Inward(Ranges[booted + 1]) IN
       usable' = IF Len(usable) < MaxRanges /\ r.base < r.end
                 THEN Append(usable, r) ELSE usable
  /\ booted' = booted + 1
  /\ UNCHANGED <<mapped, mark, order, area, nr_free, held, call, calls>>

\* The physmap covers a range with large pages, rounded out.
physmap_map_range(r) ==
  ((r.base \div Large) * Large) .. (((r.end + Large - 1) \div Large) * Large) - 1

\* A zone's lists, marks and count as one record.
Zone == [mark |-> mark, order |-> order, area |-> area, n |-> nr_free]

Buddy(p, o) == IF (p \div 2^o) % 2 = 0 THEN p + 2^o ELSE p - 2^o

\* The buddy can be merged with: it heads a free block of the same order.
Mergeable(z, b, o) == b < MaxPfn /\ z.mark[b] = "free" /\ z.order[b] = o

\* The merged block's first frame and order, and the zone without the blocks
\* merged into it.
Merge(z, pfn, ord) ==
  LET step[k \in 0 .. MaxOrder] ==
        IF k = 0 THEN [z |-> z, p |-> pfn, o |-> ord, go |-> TRUE]
        ELSE LET s == step[k - 1]
                 b == Buddy(s.p, s.o)
             IN IF ~s.go \/ s.o >= MaxOrder - 1 \/ ~Mergeable(s.z, b, s.o)
                   \/ ~Contains(s.z.area[s.o], b)
                THEN [s EXCEPT !.go = FALSE]
                ELSE [s EXCEPT !.z = [@ EXCEPT !.area[s.o] = Remove(@, b),
                                               !.n = @ - 2^s.o,
                                               !.mark[b] = "none",
                                               !.order[b] = 0],
                               !.p = IF b < @ THEN b ELSE @,
                               !.o = @ + 1]
  IN  step[MaxOrder]

buddy_free_locked(z, pfn, ord) ==
  LET m == Merge(z, pfn, ord)
  IN  [m.z EXCEPT !.mark[m.p] = "free", !.order[m.p] = m.o,
                  !.area[m.o] = <<m.p>> \o @, !.n = @ + 2^m.o]

\* mm_init: a usable frame in the older pool's window is that pool's, one below
\* it stays reserved, every other one is released to the buddy.
Released(f) == f >= LegacyHigh
Legacy(f) == f >= LegacyLow /\ f < LegacyHigh

mm_init ==
  /\ booted = Len(Ranges) /\ usable # <<>>
  /\ LET all == FlattenSeq([i \in DOMAIN usable |->
                              [k \in 1 .. usable[i].end - usable[i].base |->
                                 usable[i].base + k - 1]])
         marks == [f \in Pfns |->
                     IF Contains(all, f) /\ Legacy(f) THEN "legacy"
                     ELSE IF Contains(all, f) /\ Released(f) THEN "none" ELSE "reserved"]
         list == SelectSeq(all, Released)
         freed[i \in 0 .. Len(list)] ==
             IF i = 0 THEN {[Zone EXCEPT !.mark = marks]}
             ELSE {buddy_free_locked(z, list[i], 0) : z \in freed[i - 1]}
     IN  /\ mapped' = UNION {physmap_map_range(usable[i]) : i \in DOMAIN usable}
         /\ \E z \in freed[Len(list)] :
               mark' = z.mark /\ order' = z.order /\ area' = z.area /\ nr_free' = z.n
  /\ booted' = booted + 1
  /\ UNCHANGED <<usable, held, call, calls>>

-----------------------------------------------------------------------------
(* Allocation. *)

Smallest(o) == {k \in Orders : k >= o /\ area[k] # <<>>}

\* Mutant: the upper half of a split is not put back.
LoseHalf(z, p, o, to) == z

\* Splitting p from order o down to order `to` puts each upper half on its list.
Split(z, p, o, to) ==
  FoldLeft(LAMBDA acc, k :
             LET h == p + 2^(o - k) IN
             [acc EXCEPT !.mark[h] = "free", !.order[h] = o - k,
                         !.area[o - k] = <<h>> \o @],
           z, [k \in 1 .. o - to |-> k])

Begin(u, c) ==
  /\ booted > Len(Ranges) /\ call[u] = Idle /\ calls < MaxCalls
  /\ calls' = calls + 1
  /\ call' = [call EXCEPT ![u] = c]

\* buddy_alloc_locked under the lock; none left is answered with nothing.
alloc_pages(u, o) ==
  LET fits == Smallest(o) IN
  /\ IF fits = {}
     THEN Begin(u, Idle) /\ UNCHANGED <<mark, order, area, nr_free>>
     ELSE LET k == Min(fits)
              p == Head(area[k])
              z == Split([Zone EXCEPT !.mark[p] = "none", !.area[k] = Tail(@)], p, k, o)
          IN  /\ Begin(u, [pc |-> "got", pfn |-> p, order |-> o])
              /\ mark' = z.mark /\ order' = [z.order EXCEPT ![p] = 0]
              /\ area' = z.area /\ nr_free' = z.n - 2^o
  /\ UNCHANGED <<usable, mapped, held, booted>>

\* The frames are cleared and the caller has them.
Got(u) ==
  /\ call[u].pc = "got"
  /\ held' = held \cup {[pfn |-> call[u].pfn, order |-> call[u].order]}
  /\ call' = [call EXCEPT ![u] = Idle]
  /\ UNCHANGED <<usable, mapped, mark, order, area, nr_free, calls, booted>>

\* free_pages looks at the frame's marks: a frame of the older pool or one that
\* is already free stops the machine.
Check(u, h) ==
  /\ mark[h.pfn] \notin {"legacy", "free"}
  /\ Begin(u, [pc |-> "free", pfn |-> h.pfn, order |-> h.order])
  /\ held' = held \ {h}
  /\ UNCHANGED <<usable, mapped, mark, order, area, nr_free, booted>>

free_pages(u) ==
  /\ call[u].pc = "free"
  /\ LET z == buddy_free_locked(Zone, call[u].pfn, call[u].order) IN
       mark' = z.mark /\ order' = z.order /\ area' = z.area /\ nr_free' = z.n
  /\ call' = [call EXCEPT ![u] = Idle]
  /\ UNCHANGED <<usable, mapped, held, calls, booted>>

Next ==
  \/ mm_note_usable \/ mm_init
  \/ \E u \in User : \/ \E o \in Orders : alloc_pages(u, o)
                     \/ \E h \in held : Check(u, h)
                     \/ Got(u) \/ free_pages(u)

Spec == Init /\ [][Next]_vars

-----------------------------------------------------------------------------
FreeBlocks == {[pfn |-> area[o][i], order |-> o] :
                 <<o, i>> \in {x \in Orders \X (1 .. MaxPfn) : x[2] \in DOMAIN area[x[1]]}}

InFlight == {[pfn |-> call[u].pfn, order |-> call[u].order] :
               u \in {v \in User : call[v].pc # "idle"}}

Of(B) == UNION {Block(b.pfn, b.order) : b \in B}

\* Every frame the buddy owns is in exactly one block, free or handed out; the
\* blocks are aligned to their size; and none is in the older pool's window, in
\* the reserved low memory or outside what the machine reported usable.
Partition ==
  LET all == FreeBlocks \cup held \cup InFlight
      mine == {f \in Pfns : f >= LegacyHigh
                              /\ \E i \in DOMAIN usable : f >= usable[i].base /\ f < usable[i].end}
  IN  booted > Len(Ranges) =>
        /\ Of(all) = mine
        /\ FoldSet(LAMBDA b, n : n + 2^b.order, 0, all) = Cardinality(mine)
        /\ \A b \in all : b.pfn % 2^b.order = 0

\* Two free halves of one block are never left apart, below the largest order:
\* what has been freed can be handed out again in one piece.
Coalesced ==
  \A b \in FreeBlocks : b.order < MaxOrder - 1 =>
    [b EXCEPT !.pfn = Buddy(b.pfn, b.order)] \notin FreeBlocks

\* The count of free pages is the pages on the lists.
Counted == nr_free = FoldSet(LAMBDA b, n : n + 2^b.order, 0, FreeBlocks)

\* A frame handed out can be reached through the physmap.
Reachable == Of(held \cup InFlight) \subseteq mapped

BuddySound == Partition /\ Coalesced /\ Counted /\ Reachable
=============================================================================
