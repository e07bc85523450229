------------------------------ MODULE VmProofs ------------------------------
(***************************************************************************)
(* Frames are counted, freed and reached as they should be in every        *)
(* reachable state, and the machine implements Spaces, for every number of *)
(* cores, slots, pages and frames and all programs that are Orderly.       *)
(*                                                                         *)
(* The invariant ties three things together: the tables and the counts     *)
(* (OwnersCounted, AloneOk, FreeOk), what each core has read or unmapped   *)
(* and not yet finished (OpsOk, ApartOk), and what each core has cached    *)
(* (TlbOk).  A frame is owned by its entries and by the calls that have    *)
(* still to let it go, so a translation the tables no longer have leads to *)
(* a frame that is owed, and not to a free one, until it was shot down.    *)
(***************************************************************************)
EXTENDS Vm, FiniteSetTheorems, TLAPS

\* No program both forks and changes protections, and one with threads neither
\* unmaps nor forks: the three departures of the code (README, section 7).
Orderly ==
    \A w \in Settings :
        /\ ~({"mprotect", "fork"} \subseteq w.calls)
        /\ "thread" \in w.calls => w.calls \cap {"munmap", "fork"} = {}

-----------------------------------------------------------------------------
(* The inductive invariant. *)

\* A core in the kernel or in ring 3 for a slot; one that is at work; a process that is there.
Running(c) == runs[c] # None
Busy(c) == op[c].at # "user"
Alive(p) ==
    leader[p] = p /\ (state[p] = "live" \/ \E s \in Slots : leader[s] = p /\ state[s] = "live")

\* The types, with those of a shootdown and of what is cached.
Translation == [f : Frames \cup {None}, w : BOOLEAN]
TypesOk ==
    /\ TypeOK
    /\ shoot \in [by : Cores \cup {None}, pending : SUBSET Cores]
    /\ \A c \in Cores, v \in Page :
          tlb[c][v] # NoTr => tlb[c][v].f \in Frames

\* A page-table entry is absent, a promise or a frame, which is not writable
\* and marked for copying at once.
EntryOk(e) ==
    /\ e.is = "none" => e = NoPte
    /\ e.is = "zfod" => e.f = None /\ ~e.cow
    /\ e.is = "page" => e.f \in Frames /\ ~(e.w /\ e.cow)
EntriesOk == \A p \in Slots, v \in Page : EntryOk(pte[p][v])

\* A core runs a live slot and no other core runs it.
RunsOk ==
    /\ \A c \in Cores : Running(c) => state[runs[c]] = "live"
    /\ \A c, d \in Cores : Running(c) /\ runs[c] = runs[d] => c = d

Blank(s) == \A v \in Page : pte[s][v] = NoPte

\* Threads live in the tables of a leader that is not gone.
LeadersOk == \A s \in Slots :
    /\ leader[leader[s]] = leader[s]
    /\ leader[s] # s => /\ state[s] = "live" /\ Blank(s)
                        /\ state[leader[s]] \in {"live", "exited"}
    /\ state[s] = "free" => Blank(s)

\* What the calls of the setting exclude.
ModeOk ==
    /\ "thread" \notin setting.calls => \A s \in Slots : leader[s] = s
    /\ "fork" \notin setting.calls =>
          /\ \A f \in Frames : refc[f] = 0
          /\ \A p \in Slots, v \in Page : ~pte[p][v].cow
    /\ \A c \in Cores : /\ op[c].then = "munmap" => "munmap" \in setting.calls
                        /\ op[c].at = "fork" => "fork" \in setting.calls

\* What a core at work has read still holds.
Faulting == {"zfod", "cow", "take", "copy"}
FaultOk(c) ==
    LET o == op[c] IN
    o.at \in Faulting =>
        /\ Running(c) /\ o.v \in Page /\ o.f = None /\ o.then = "user" /\ o.who = None
        /\ o.e = pte[Mm(c)][o.v]
        /\ IF o.at = "zfod" THEN o.e.is = "zfod" ELSE o.e.is = "page" /\ o.e.cow
        /\ o.at = "take" => refc[o.e.f] = 0

\* The frame to let go has, at the second section, no other owner.
FreeingOk(c) ==
    LET o == op[c] IN
    o.at \in {"drop", "push"} =>
        /\ o.v \in Page /\ o.f \in Frames
        /\ o.then # "tear" => Running(c) /\ o.who = None
        /\ o.at = "push" => refc[o.f] = 0

\* A shootdown has one author, which owes a frame only if the break shrinks.
ShootingOk(c) ==
    LET o == op[c] IN
    /\ o.at \in {"shoot", "wait"} =>
        /\ Running(c) /\ o.v \in Page /\ o.who = None
        /\ o.then \in {"user", "brk"}
        /\ o.f = None <=> o.then = "user"
    /\ o.at = "wait" <=> shoot.by = c

\* The page is unmapped, and the break still above it.
ShrinkOk(c) ==
    LET o == op[c] IN
    o.then = "brk" =>
        /\ o.at \in {"shoot", "wait", "drop", "push"}
        /\ Running(c) /\ runs[c] = Mm(c)
        /\ brk[runs[c]] = o.v + 1 /\ pte[runs[c]][o.v] = NoPte

\* A fork has copied the pages below its place.
Inherited(e, v, n) == IF v < n /\ e.is = "page" THEN e ELSE NoPte
ForkOk(c) ==
    LET o == op[c] IN
    o.at = "fork" =>
        /\ Running(c) /\ o.who \in Slots /\ o.f = None /\ o.then = "user"
        /\ state[o.who] = "embryo" /\ leader[o.who] = o.who
        /\ \A v \in Page : pte[o.who][v] = Inherited(pte[Mm(c)][v], v, o.v)
        /\ \A v \in Page : v < o.v => ~pte[Mm(c)][v].w \/ pte[Mm(c)][v].is # "page"

\* A teardown has let the pages below its place go.
TearOk(c) ==
    LET o == op[c] IN
    (o.at = "tear" \/ o.then = "tear") =>
        /\ o.at \in {"tear", "drop", "push"}
        /\ ~Running(c) /\ o.who \in Slots
        /\ state[o.who] = "exited" /\ leader[o.who] = o.who
        /\ \A s \in Slots : leader[s] = o.who => state[s] # "live"
        /\ \A v \in Page : v < o.v => pte[o.who][v].is # "page"
        /\ o.at = "tear" <=> o.then = "user"
        /\ o.at = "tear" => o.f = None
        /\ o.at # "tear" => pte[o.who][o.v].is = "page" /\ pte[o.who][o.v].f = o.f

OpOk(c) ==
    /\ op[c].at = "user" => op[c] = User
    /\ op[c].who # None => op[c].at \in {"fork", "tear"} \/ op[c].then = "tear"
    /\ FaultOk(c) /\ FreeingOk(c) /\ ShootingOk(c) /\ ShrinkOk(c)
    /\ ForkOk(c) /\ TearOk(c)
OpsOk == \A c \in Cores : OpOk(c)

\* No two cores work for one child, one dead process, or one page of a process.
ApartOk == \A c, d \in Cores : c # d =>
    /\ op[c].who # None => op[c].who # op[d].who
    /\ Running(c) /\ Running(d) /\ Busy(c) /\ Busy(d) /\ Mm(c) = Mm(d) =>
          op[c].v # op[d].v

\* The heap is backed up to the break, and nothing lies beyond the two bounds.
BoundFine(p, v) ==
    /\ leader[p] = p /\ state[p] = "live" /\ v < brk[p] =>
          \/ pte[p][v].is = "page" /\ (pte[p][v].w \/ pte[p][v].cow)
          \/ Shrinking(p, v)
    /\ Alive(p) =>
          /\ brk[p] <= v /\ v < HeapTop => pte[p][v] = NoPte
          /\ mnext[p] <= v => pte[p][v] = NoPte
BoundsOk == \A p \in Slots, v \in Page : BoundFine(p, v)

\* A frame on the free list has no further owner.
FreeOk == \A f \in free : refc[f] = 0

\* A frame that may be written has one entry.
AloneOk == \A p, q \in Slots, u, v \in Page :
    /\ pte[p][v].is = "page" /\ pte[p][v].w
    /\ pte[q][u].is = "page" /\ pte[q][u].f = pte[p][v].f
    => q = p /\ u = v

\* Nobody waits for itself, and without a shootdown nobody is waited for.
ShootOk ==
    /\ shoot.by = None => shoot.pending = {}
    /\ shoot.by \notin shoot.pending

\* A cached translation is what the tables say; or another core of the process has
\* changed the entry and this one has still to answer it; or this core is between its
\* change of the entry and its own invalidation.
Match(t, e) == e.is = "page" /\ e.f = t.f /\ (t.w => e.w)
Stale(c, v, t) == \E d \in Cores \ {c} :
    /\ Running(d) /\ Mm(d) = Mm(c) /\ op[d].v = v
    /\ op[d].at = "shoot" \/ (op[d].at = "wait" /\ c \in shoot.pending)
    /\ op[d].f = t.f \/ (pte[Mm(c)][v].is = "page" /\ pte[Mm(c)][v].f = t.f)
Own(c, v) ==
    /\ op[c].v = v
    /\ op[c].at = "shoot" \/ (op[c].at \in {"drop", "push"} /\ op[c].then = "munmap")
TlbFine(c, v) ==
    Running(c) /\ tlb[c][v] # NoTr =>
        Match(tlb[c][v], pte[Mm(c)][v]) \/ Stale(c, v, tlb[c][v]) \/ Own(c, v)
TlbOk == \A c \in Cores, v \in Page : TlbFine(c, v)

VInv == /\ TypesOk /\ EntriesOk /\ RunsOk /\ LeadersOk /\ ModeOk /\ OpsOk
        /\ ApartOk /\ BoundsOk /\ OwnersCounted /\ FreeOk /\ AloneOk
        /\ ShootOk /\ TlbOk

-----------------------------------------------------------------------------
(* Entries, operations, tables. *)

Tables == [Slots -> [Page -> Pte]]

\* What the constructors of entries make, and that it is an entry.
LEMMA EntryFacts ==
    /\ /\ NoPte \in Pte /\ NoPte.is = "none" /\ NoPte.f = None
       /\ NoPte.w = FALSE /\ NoPte.cow = FALSE
    /\ \A w \in BOOLEAN :
          LET e == Promise(w) IN
          e \in Pte /\ e.is = "zfod" /\ e.f = None /\ e.w = w /\ e.cow = FALSE
    /\ \A f \in Frames, w, cow \in BOOLEAN :
          LET e == Backed(f, w, cow) IN
          e \in Pte /\ e.is = "page" /\ e.f = f /\ e.w = w /\ e.cow = cow
    /\ \A e \in Pte, w \in BOOLEAN :
          LET n == Protected(e, w) IN
          /\ n \in Pte /\ n.is = e.is /\ n.f = e.f /\ n.cow = e.cow
          /\ n.w = (w /\ ~e.cow)
    /\ \A e \in Pte :
          LET n == Shared(e) IN
          /\ n \in Pte /\ n.is = e.is /\ n.f = e.f /\ n.w = FALSE
          /\ n.cow = (e.w \/ e.cow)
    /\ \A e \in Pte : /\ e.is \in {"none", "zfod", "page"} /\ e.w \in BOOLEAN
                      /\ e.f \in Frames \cup {None} /\ e.cow \in BOOLEAN
<1>1. ASSUME NEW e \in Pte, NEW w \in BOOLEAN
      PROVE  LET n == Protected(e, w) IN
          /\ n \in Pte /\ n.is = e.is /\ n.f = e.f /\ n.cow = e.cow
          /\ n.w = (w /\ ~e.cow)
  <2>1. (w /\ ~e.cow) \in BOOLEAN
    OBVIOUS
  <2> QED BY <2>1 DEF Pte, Protected
<1>2. ASSUME NEW e \in Pte
      PROVE  LET n == Shared(e) IN
          /\ n \in Pte /\ n.is = e.is /\ n.f = e.f /\ n.w = FALSE
          /\ n.cow = (e.w \/ e.cow)
  <2>1. (e.w \/ e.cow) \in BOOLEAN
    OBVIOUS
  <2> QED BY <2>1 DEF Pte, Shared
<1>3. /\ NoPte \in Pte /\ NoPte.is = "none" /\ NoPte.f = None
      /\ NoPte.w = FALSE /\ NoPte.cow = FALSE
  BY DEF NoPte, Pte
<1>4. \A w \in BOOLEAN :
          LET e == Promise(w) IN
          e \in Pte /\ e.is = "zfod" /\ e.f = None /\ e.w = w /\ e.cow = FALSE
  BY DEF Promise, Pte
<1>5. \A f \in Frames, w, cow \in BOOLEAN :
          LET e == Backed(f, w, cow) IN
          e \in Pte /\ e.is = "page" /\ e.f = f /\ e.w = w /\ e.cow = cow
  BY DEF Backed, Pte
<1>6. \A e \in Pte : /\ e.is \in {"none", "zfod", "page"} /\ e.w \in BOOLEAN
                     /\ e.f \in Frames \cup {None} /\ e.cow \in BOOLEAN
  BY DEF Pte
<1> QED BY <1>1, <1>2, <1>3, <1>4, <1>5, <1>6

\* The idle operation, and the types of the fields of any.
LEMMA OpFacts ==
    /\ User \in Op /\ User.at = "user" /\ User.f = None /\ User.then = "user"
    /\ User.who = None
    /\ \A o \in Op :
          /\ o.at \in {"user", "zfod", "cow", "take", "copy", "drop", "push",
                       "shoot", "wait", "fork", "tear"}
          /\ o.v \in 0 .. Top /\ o.e \in Pte /\ o.f \in Frames \cup {None}
          /\ o.then \in {"user", "brk", "munmap", "tear"}
          /\ o.who \in Slots \cup {None}
<1>1. 0 \in 0 .. Top
  BY VmAssumption
<1>2. User \in Op
  BY <1>1, EntryFacts DEF User, Op
<1> QED BY <1>2 DEF User, Op

\* The operations a step leaves a core at.
Doing(o, a, v, e, f, then, who) ==
    /\ o \in Op /\ o.at = a /\ o.v = v /\ o.e = e /\ o.f = f /\ o.then = then
    /\ o.who = who

\* The steps an operation can be at.
Ats == {"user", "zfod", "cow", "take", "copy", "drop", "push", "shoot", "wait",
        "fork", "tear"}

\* The operations that calls begin with.
LEMMA OpForms ==
    ASSUME NEW v \in 0 .. Top
    PROVE  /\ \A a \in Ats : Doing(At(a, v), a, v, NoPte, None, "user", None)
           /\ \A a \in Ats, e \in Pte :
                 Doing([At(a, v) EXCEPT !.e = e], a, v, e, None, "user", None)
           /\ \A f \in Frames :
                 /\ Doing([At("drop", v) EXCEPT !.f = f],
                          "drop", v, NoPte, f, "user", None)
                 /\ Doing([At("drop", v) EXCEPT !.f = f, !.then = "munmap"],
                          "drop", v, NoPte, f, "munmap", None)
                 /\ Doing(Shrink(v, f), "shoot", v, NoPte, f, "brk", None)
           /\ \A k \in Slots : \A a \in {"fork", "tear"} :
                 Doing([At(a, v) EXCEPT !.who = k], a, v, NoPte, None, "user", k)
<1>1. ASSUME NEW a \in Ats
      PROVE  Doing(At(a, v), a, v, NoPte, None, "user", None)
  BY EntryFacts DEF Doing, At, Op, User, Ats
<1>2. ASSUME NEW a \in Ats, NEW e \in Pte
      PROVE  Doing([At(a, v) EXCEPT !.e = e], a, v, e, None, "user", None)
  BY EntryFacts DEF Doing, At, Op, User, Ats
<1>3. ASSUME NEW f \in Frames
      PROVE  Doing([At("drop", v) EXCEPT !.f = f], "drop", v, NoPte, f, "user", None)
  BY EntryFacts DEF Doing, At, Op, User
<1>4. ASSUME NEW f \in Frames
      PROVE  Doing([At("drop", v) EXCEPT !.f = f, !.then = "munmap"],
                   "drop", v, NoPte, f, "munmap", None)
  BY EntryFacts DEF Doing, At, Op, User
<1>5. ASSUME NEW f \in Frames
      PROVE  Doing(Shrink(v, f), "shoot", v, NoPte, f, "brk", None)
  BY EntryFacts DEF Doing, At, Op, User, Shrink
<1>6. ASSUME NEW k \in Slots, NEW a \in {"fork", "tear"}
      PROVE  Doing([At(a, v) EXCEPT !.who = k], a, v, NoPte, None, "user", k)
  BY EntryFacts DEF Doing, At, Op, User
<1> QED BY <1>1, <1>2, <1>3, <1>4, <1>5, <1>6

\* The operations that steps lead on to.
LEMMA OpChanges ==
    ASSUME NEW o \in Op
    PROVE  /\ \A a \in Ats :
                 Doing([o EXCEPT !.at = a], a, o.v, o.e, o.f, o.then, o.who)
           /\ \A f \in Frames :
                 Doing([o EXCEPT !.at = "drop", !.f = f, !.then = "tear"],
                       "drop", o.v, o.e, f, "tear", o.who)
           /\ o.v < Top =>
                 Doing([o EXCEPT !.v = @ + 1], o.at, o.v + 1, o.e, o.f, o.then, o.who)
<1>1. o.v < Top => o.v + 1 \in 0 .. Top
  BY VmAssumption DEF Op
<1>2. ASSUME NEW a \in Ats
      PROVE  Doing([o EXCEPT !.at = a], a, o.v, o.e, o.f, o.then, o.who)
  BY DEF Doing, Op, Ats
<1>3. ASSUME NEW f \in Frames
      PROVE  Doing([o EXCEPT !.at = "drop", !.f = f, !.then = "tear"],
                   "drop", o.v, o.e, f, "tear", o.who)
  BY DEF Doing, Op
<1>4. ASSUME o.v < Top
      PROVE  Doing([o EXCEPT !.v = @ + 1], o.at, o.v + 1, o.e, o.f, o.then, o.who)
  BY <1>1, <1>4 DEF Doing, Op
<1> QED BY <1>2, <1>3, <1>4

-----------------------------------------------------------------------------
(* What a step does, entry by entry and core by core. *)

SetsOp(c, o) ==
    /\ op' \in [Cores -> Op]
    /\ \A d \in Cores : op'[d] = IF d = c THEN o ELSE op[d]
SetsEntry(p, v, e) ==
    /\ pte' \in Tables
    /\ \A q \in Slots, u \in Page :
          pte'[q][u] = IF q = p /\ u = v THEN e ELSE pte[q][u]
SetsTlb(c, v, t) ==
    \A d \in Cores, u \in Page :
        tlb'[d][u] = IF d = c /\ u = v THEN t ELSE tlb[d][u]
Empties(c) ==
    \A d \in Cores, u \in Page : tlb'[d][u] = IF d = c THEN NoTr ELSE tlb[d][u]
SetsRuns(c, s) ==
    \A d \in Cores : runs'[d] = IF d = c THEN s ELSE runs[d]

\* The assignments of the actions, read pointwise.
LEMMA GoDoes ==
    ASSUME TypesOk, NEW c \in Cores, NEW o \in Op, Go(c, o)
    PROVE  SetsOp(c, o)
BY DEF TypesOk, TypeOK, Go, SetsOp

\* One entry of one table is set.
LEMMA EntryDoes ==
    ASSUME TypesOk, NEW p \in Slots, NEW v \in Page, NEW e \in Pte,
           pte' = [pte EXCEPT ![p][v] = e]
    PROVE  SetsEntry(p, v, e)
<1>1. pte \in Tables
  BY DEF TypesOk, TypeOK, Tables
<1>2. [pte[p] EXCEPT ![v] = e] \in [Page -> Pte]
  BY <1>1 DEF Tables
<1> QED BY <1>1, <1>2 DEF SetsEntry, Tables

Cached == [Cores -> [Page -> Translation]]
\* One translation of one core is set.
LEMMA TlbDoes ==
    ASSUME TypesOk, NEW c \in Cores, NEW v \in Page, NEW t \in Translation,
           tlb' = [tlb EXCEPT ![c][v] = t]
    PROVE  SetsTlb(c, v, t) /\ tlb' \in Cached
<1>1. tlb \in Cached
  BY DEF TypesOk, TypeOK, Cached, Translation
<1>2. [tlb[c] EXCEPT ![v] = t] \in [Page -> Translation]
  BY <1>1 DEF Cached
<1> QED BY <1>1, <1>2 DEF SetsTlb, Cached

\* One translation of one core is dropped.
LEMMA FlushDoes ==
    ASSUME TypesOk, NEW c \in Cores, NEW v \in Page, Flush(c, v)
    PROVE  SetsTlb(c, v, NoTr) /\ tlb' \in Cached
<1>1. NoTr \in Translation
  BY DEF NoTr, Translation
<1> QED BY <1>1, TlbDoes DEF Flush

\* All translations of one core are dropped.
LEMMA LoadDoes ==
    ASSUME TypesOk, NEW c \in Cores, LoadCr3(c)
    PROVE  Empties(c) /\ tlb' \in Cached
<1>1. tlb \in Cached /\ NoTlb \in [Page -> Translation]
  BY DEF TypesOk, TypeOK, Cached, Translation, NoTlb, NoTr
<1> QED BY <1>1 DEF LoadCr3, Empties, Cached, NoTlb

\* A core takes a slot, or leaves it.
LEMMA RunsDoes ==
    ASSUME TypesOk, NEW c \in Cores, NEW s \in Slots \cup {None},
           runs' = [runs EXCEPT ![c] = s]
    PROVE  SetsRuns(c, s) /\ runs' \in [Cores -> Slots \cup {None}]
BY DEF TypesOk, TypeOK, SetsRuns

-----------------------------------------------------------------------------
(* What the others of a step keep. *)

\* What a step has to leave alone for a core's operation to stay in order.
Undisturbed(d) ==
    LET o == op[d] IN
    /\ op'[d] = o /\ runs'[d] = runs[d]
    /\ Running(d) => leader'[runs[d]] = leader[runs[d]]
    /\ Running(d) /\ o.at # "user" /\ o.v \in Page =>
          pte'[Mm(d)][o.v] = pte[Mm(d)][o.v]
    /\ Running(d) /\ o.then = "brk" => brk'[runs[d]] = brk[runs[d]]
    /\ o.at = "fork" => \A v \in Page : pte'[Mm(d)][v] = pte[Mm(d)][v]
    /\ o.who # None =>
          /\ state'[o.who] = state[o.who] /\ leader'[o.who] = leader[o.who]
          /\ \A v \in Page : pte'[o.who][v] = pte[o.who][v]
    /\ o.at = "tear" \/ o.then = "tear" =>
          \A s \in Slots : leader'[s] = o.who /\ state'[s] = "live" =>
                              leader[s] = o.who /\ state[s] = "live"
    /\ o.at = "take" /\ refc[o.e.f] = 0 => refc'[o.e.f] = 0
    /\ o.at = "push" /\ refc[o.f] = 0 => refc'[o.f] = 0
    /\ shoot'.by = d <=> shoot.by = d

\* The operation of a core that the step leaves alone stays as it should be.
LEMMA OthersOk ==
    ASSUME VInv, NEW d \in Cores, Undisturbed(d)
    PROVE  OpOk(d)'
<1> DEFINE o == op[d]
<1>a. OpOk(d) /\ op'[d] = o /\ runs'[d] = runs[d] /\ o \in Op
  BY DEF VInv, OpsOk, Undisturbed, TypesOk, TypeOK
<1>b. None \notin Slots /\ o.v \in 0 .. Top
  BY <1>a, VmAssumption, OpFacts
<1>c. Running(d)' = Running(d)
  BY <1>a DEF Running
<1>d. Running(d) => Mm(d)' = Mm(d) /\ runs[d] \in Slots
  BY <1>a DEF Undisturbed, Mm, Running, VInv, TypesOk, TypeOK
<1>1. (op[d].at = "user" => op[d] = User)'
  BY <1>a DEF OpOk
<1>2. (op[d].who # None => op[d].at \in {"fork", "tear"} \/ op[d].then = "tear")'
  BY <1>a DEF OpOk
<1>3. FaultOk(d)'
  BY <1>a, <1>c, <1>d DEF OpOk, FaultOk, Undisturbed, Faulting
<1>4. FreeingOk(d)'
  BY <1>a, <1>c, <1>d DEF OpOk, FreeingOk, Undisturbed
<1>5. ShootingOk(d)'
  BY <1>a, <1>c, <1>d DEF OpOk, ShootingOk, Undisturbed
<1>6. ShrinkOk(d)'
  <2>1. o.then = "brk" => o.v \in Page
    BY <1>a DEF OpOk, ShrinkOk, ShootingOk, FreeingOk
  <2> QED BY <2>1, <1>a, <1>c, <1>d DEF OpOk, ShrinkOk, Undisturbed
<1>7. ForkOk(d)'
  BY <1>a, <1>b, <1>c, <1>d DEF OpOk, ForkOk, Undisturbed
<1>8. TearOk(d)'
  <2>1. o.at \in {"drop", "push"} => o.v \in Page
    BY <1>a DEF OpOk, FreeingOk
  <2> QED BY <2>1, <1>a, <1>b, <1>c, <1>d DEF OpOk, TearOk, Undisturbed
<1> QED BY <1>1, <1>2, <1>3, <1>4, <1>5, <1>6, <1>7, <1>8 DEF OpOk

\* Where a core is at work.
LEMMA Here ==
    ASSUME VInv, NEW c \in Cores, Running(c)
    PROVE  /\ runs[c] \in Slots /\ Mm(c) \in Slots /\ Mm(c) = leader[runs[c]]
           /\ leader[Mm(c)] = Mm(c) /\ state[runs[c]] = "live" /\ Alive(Mm(c))
           /\ state[Mm(c)] \in {"live", "exited"}
BY DEF VInv, TypesOk, TypeOK, Running, Mm, RunsOk, LeadersOk, Alive

\* The slots cores work for are not those others run.
LEMMA Foreign ==
    ASSUME VInv, NEW c \in Cores, NEW d \in Cores, op[d].who # None
    PROVE  /\ op[d].who \in Slots /\ leader[op[d].who] = op[d].who
           /\ op[d].at = "fork" => state[op[d].who] = "embryo" /\ Running(d)
           /\ op[d].at # "fork" => state[op[d].who] = "exited" /\ ~Running(d)
           /\ state[op[d].who] \in {"embryo", "exited"}
           /\ Running(c) => op[d].who # Mm(c) /\ op[d].who # runs[c]
<1>1. OpOk(d) /\ None \notin Slots
  BY VmAssumption DEF VInv, OpsOk
<1>2. op[d].at \in {"fork", "tear"} \/ op[d].then = "tear"
  BY <1>1 DEF OpOk
<1>3. CASE op[d].at = "fork"
  <2>1. Running(d) /\ op[d].who \in Slots /\ state[op[d].who] = "embryo"
        /\ leader[op[d].who] = op[d].who
    BY <1>1, <1>3 DEF OpOk, ForkOk
  <2> QED BY <2>1, <1>3, Here
<1>4. CASE op[d].at # "fork"
  <2>1. ~Running(d) /\ op[d].who \in Slots /\ state[op[d].who] = "exited"
        /\ leader[op[d].who] = op[d].who
        /\ \A s \in Slots : leader[s] = op[d].who => state[s] # "live"
    BY <1>1, <1>2, <1>4 DEF OpOk, TearOk
  <2> QED BY <2>1, <1>4, Here
<1> QED BY <1>3, <1>4

\* Where programs fork, every process is alone in its tables.
LEMMA ForkAlone ==
    ASSUME VInv, Orderly, "fork" \in setting.calls
    PROVE  /\ \A s \in Slots : leader[s] = s
           /\ "mprotect" \notin setting.calls
           /\ \A c, d \in Cores : Running(c) /\ Running(d) /\ Mm(c) = Mm(d) => c = d
<1>1. setting \in Settings
  BY DEF VInv, TypesOk, TypeOK
<1>2. "thread" \notin setting.calls /\ "mprotect" \notin setting.calls
  BY <1>1 DEF Orderly
<1>3. \A s \in Slots : leader[s] = s
  BY <1>2 DEF VInv, ModeOk
<1> QED BY <1>2, <1>3, Here DEF VInv, RunsOk

\* No other core is at work on the page.
Apart(c, v) == \A d \in Cores \ {c} :
    ~(Running(d) /\ Busy(d) /\ Mm(d) = Mm(c) /\ op[d].v = v)

\* The programs' rule, and ApartOk, keep other cores from the page.
LEMMA ApartFacts ==
    ASSUME VInv, NEW c \in Cores, NEW v
    PROVE  /\ Quiet(c, v) => Apart(c, v)
           /\ Running(c) /\ Busy(c) /\ op[c].v = v => Apart(c, v)
BY DEF VInv, Quiet, Apart, Running, Busy, ApartOk

\* A core that writes one entry of its process leaves the others' tables alone.
TablesKept(d) ==
    LET o == op[d] IN
    /\ Running(d) /\ o.at # "user" /\ o.v \in Page =>
          pte'[Mm(d)][o.v] = pte[Mm(d)][o.v]
    /\ o.at = "fork" => \A v \in Page : pte'[Mm(d)][v] = pte[Mm(d)][v]
    /\ o.who # None => \A v \in Page : pte'[o.who][v] = pte[o.who][v]

\* A core that changes an entry of its own process disturbs no other core's work.
LEMMA OwnEntry ==
    ASSUME VInv, Orderly, NEW c \in Cores, Running(c), NEW v \in Page, Apart(c, v),
           NEW e \in Pte, SetsEntry(Mm(c), v, e),
           NEW d \in Cores, d # c
    PROVE  TablesKept(d)
<1> DEFINE o == op[d]
<1>1. Running(d) /\ o.at # "user" /\ o.v \in Page =>
          pte'[Mm(d)][o.v] = pte[Mm(d)][o.v]
  BY Here DEF Apart, SetsEntry, Busy
<1>2. o.at = "fork" => \A u \in Page : pte'[Mm(d)][u] = pte[Mm(d)][u]
  <2> SUFFICES ASSUME o.at = "fork" PROVE \A u \in Page : pte'[Mm(d)][u] = pte[Mm(d)][u]
    OBVIOUS
  <2>1. Running(d) /\ "fork" \in setting.calls
    BY DEF VInv, OpsOk, OpOk, ForkOk, ModeOk
  <2>2. Mm(d) # Mm(c) /\ Mm(d) \in Slots
    BY <2>1, ForkAlone, Here
  <2> QED BY <2>2 DEF SetsEntry
<1>3. o.who # None => \A u \in Page : pte'[o.who][u] = pte[o.who][u]
  BY Foreign DEF SetsEntry
<1> QED BY <1>1, <1>2, <1>3 DEF TablesKept

-----------------------------------------------------------------------------
(* Counting the owners of a frame. *)

\* Mappings and owing calls, as numbers.
Bit(b) == IF b THEN 1 ELSE 0
Places == Slots \X Page
MapsOf(t, f) == {m \in Places : t[m[1]][m[2]].f = f}
Owes(o, f) == o.f = f /\ o.then # "tear"
OweOf(ops, f) == {c \in Cores : Owes(ops[c], f)}
Maps(f) == Cardinality(MapsOf(pte, f))
Owe(f) == Cardinality(OweOf(op, f))
Owners(f) == IF f \in free THEN 0 ELSE refc[f] + 1

\* They are finite, so that they can be counted.
LEMMA Finite ==
    /\ IsFiniteSet(Places) /\ IsFiniteSet(Cores)
    /\ \A t, f : /\ IsFiniteSet(MapsOf(t, f)) /\ Cardinality(MapsOf(t, f)) \in Nat
    /\ \A o, f : /\ IsFiniteSet(OweOf(o, f)) /\ Cardinality(OweOf(o, f)) \in Nat
<1>1. IsFiniteSet(Page)
  <2>1. Page = 0 .. Top - 1 /\ Top \in Nat
    BY VmAssumption DEF Page
  <2> QED BY <2>1, FS_Interval
<1>2. IsFiniteSet(Places) /\ IsFiniteSet(Cores)
  BY <1>1, VmAssumption, FS_Product DEF Places
<1>3. \A t, f : MapsOf(t, f) \subseteq Places
  BY DEF MapsOf
<1>4. \A o, f : OweOf(o, f) \subseteq Cores
  BY DEF OweOf
<1>5. \A t, f : IsFiniteSet(MapsOf(t, f))
  BY <1>2, <1>3, FS_Subset
<1>6. \A o, f : IsFiniteSet(OweOf(o, f))
  BY <1>2, <1>4, FS_Subset
<1> QED BY <1>2, <1>5, <1>6, FS_CardinalityType

\* OwnersCounted in these terms.
LEMMA CountedFacts ==
    OwnersCounted <=> \A f \in Frames : Maps(f) + Owe(f) = Owners(f)
BY DEF OwnersCounted, Mappings, Owing, Maps, Owe, MapsOf, OweOf, Owes, Places, Owners

\* The same of the next state.
LEMMA CountedNext ==
    OwnersCounted' <=> (\A f \in Frames : Maps(f) + Owe(f) = Owners(f))'
BY CountedFacts, PTL

\* One entry changes: the count changes by one at most.
LEMMA MapsChange ==
    ASSUME NEW p \in Slots, NEW v \in Page, NEW e, SetsEntry(p, v, e), NEW f
    PROVE  Maps(f)' + Bit(pte[p][v].f = f) = Maps(f) + Bit(e.f = f)
<1> DEFINE m == <<p, v>>
           A == MapsOf(pte, f)
           B == MapsOf(pte', f)
<1>1. m \in Places /\ m[1] = p /\ m[2] = v
  BY DEF Places
<1>2. \A q \in Places : q[1] \in Slots /\ q[2] \in Page /\ q = <<q[1], q[2]>>
  BY DEF Places
<1>3. \A q \in Places : q # m => (q \in A <=> q \in B)
  BY <1>2 DEF SetsEntry, MapsOf
<1>4. m \in B <=> e.f = f
  BY <1>1 DEF SetsEntry, MapsOf
<1>5. m \in A <=> pte[p][v].f = f
  BY <1>1 DEF MapsOf
<1>6. A \subseteq Places /\ B \subseteq Places
  BY DEF MapsOf
<1>7. IsFiniteSet(A) /\ IsFiniteSet(B) /\ Cardinality(A) \in Nat /\ Cardinality(B) \in Nat
  BY Finite
<1>8. IsFiniteSet(A \ {m}) /\ B \ {m} = A \ {m}
  BY <1>7, <1>3, <1>6, FS_Subset
<1>9. m \in A => Cardinality(A \ {m}) = Cardinality(A) - 1
  BY <1>7, FS_RemoveElement
<1>10. m \in B => Cardinality(B \ {m}) = Cardinality(B) - 1
  BY <1>7, FS_RemoveElement
<1>11. (m \notin A => A \ {m} = A) /\ (m \notin B => B \ {m} = B)
  OBVIOUS
<1>12. Cardinality(B) + Bit(m \in A) = Cardinality(A) + Bit(m \in B)
  <2>1. CASE m \in A /\ m \in B
    <3>1. Cardinality(B \ {m}) = Cardinality(A \ {m})
      BY <1>8
    <3> QED BY <3>1, <2>1, <1>7, <1>9, <1>10 DEF Bit
  <2>2. CASE m \in A /\ m \notin B
    BY <2>2, <1>7, <1>8, <1>9, <1>11 DEF Bit
  <2>3. CASE m \notin A /\ m \in B
    BY <2>3, <1>7, <1>8, <1>10, <1>11 DEF Bit
  <2>4. CASE m \notin A /\ m \notin B
    BY <2>4, <1>7, <1>8, <1>11 DEF Bit
  <2> QED BY <2>1, <2>2, <2>3, <2>4
<1> QED BY <1>4, <1>5, <1>12 DEF Maps, Bit

\* How many calls owe a frame, before and after one core's step.
LEMMA OweChange ==
    ASSUME NEW c \in Cores, NEW o, SetsOp(c, o), NEW f
    PROVE  Owe(f)' + Bit(Owes(op[c], f)) = Owe(f) + Bit(Owes(o, f))
<1> DEFINE A == OweOf(op, f)
           B == OweOf(op', f)
<1>3. \A d \in Cores : d # c => (d \in A <=> d \in B)
  BY DEF SetsOp, OweOf
<1>4. c \in B <=> Owes(o, f)
  BY DEF SetsOp, OweOf
<1>5. c \in A <=> Owes(op[c], f)
  BY DEF OweOf
<1>6. A \subseteq Cores /\ B \subseteq Cores
  BY DEF OweOf
<1>7. IsFiniteSet(A) /\ IsFiniteSet(B) /\ Cardinality(A) \in Nat /\ Cardinality(B) \in Nat
  BY Finite
<1>8. IsFiniteSet(A \ {c}) /\ B \ {c} = A \ {c}
  BY <1>7, <1>3, <1>6, FS_Subset
<1>9. c \in A => Cardinality(A \ {c}) = Cardinality(A) - 1
  BY <1>7, FS_RemoveElement
<1>10. c \in B => Cardinality(B \ {c}) = Cardinality(B) - 1
  BY <1>7, FS_RemoveElement
<1>11. (c \notin A => A \ {c} = A) /\ (c \notin B => B \ {c} = B)
  OBVIOUS
<1>12. Cardinality(B) + Bit(c \in A) = Cardinality(A) + Bit(c \in B)
  <2>1. CASE c \in A /\ c \in B
    BY <2>1, <1>7, <1>8, <1>9, <1>10 DEF Bit
  <2>2. CASE c \in A /\ c \notin B
    BY <2>2, <1>7, <1>8, <1>9, <1>11 DEF Bit
  <2>3. CASE c \notin A /\ c \in B
    BY <2>3, <1>7, <1>8, <1>10, <1>11 DEF Bit
  <2>4. CASE c \notin A /\ c \notin B
    BY <2>4, <1>7, <1>8, <1>11 DEF Bit
  <2> QED BY <2>1, <2>2, <2>3, <2>4
<1> QED BY <1>4, <1>5, <1>12 DEF Owe, Bit

\* The two counts of a state, as facts about its entries and cores.
LEMMA Bounds ==
    ASSUME VInv, NEW f \in Frames
    PROVE  /\ Maps(f) \in Nat /\ Owe(f) \in Nat /\ refc[f] \in Nat
           /\ Maps(f) + Owe(f) = Owners(f)
           /\ f \in free => refc[f] = 0
<1>1. refc[f] \in Nat
  BY DEF VInv, TypesOk, TypeOK
<1> QED BY <1>1, Finite, CountedFacts DEF VInv, FreeOk, Maps, Owe

\* Two entries that map a frame are two owners, and so are an entry and a core.
LEMMA Atleast ==
    ASSUME NEW f
    PROVE  /\ \A p, q \in Slots, u, v \in Page :
                 /\ pte[p][v].f = f
                 => /\ Maps(f) >= 1
                    /\ pte[q][u].f = f /\ ~(q = p /\ u = v) => Maps(f) >= 2
           /\ \A c \in Cores : Owes(op[c], f) => Owe(f) >= 1
<1> DEFINE A == MapsOf(pte, f)
           B == OweOf(op, f)
<1>0. IsFiniteSet(A) /\ Cardinality(A) \in Nat /\ IsFiniteSet(B) /\ Cardinality(B) \in Nat
  BY Finite
<1>1. \A S : IsFiniteSet(S) /\ Cardinality(S) = 0 => S = {}
  BY FS_EmptySet
<1>2. \A m \in A : IsFiniteSet(A \ {m}) /\ Cardinality(A \ {m}) = Cardinality(A) - 1
  BY <1>0, FS_RemoveElement
<1>3. ASSUME NEW m \in A PROVE Cardinality(A) >= 1
  BY <1>0, <1>1, <1>3
<1>4. ASSUME NEW m \in A, NEW n \in A, m # n PROVE Cardinality(A) >= 2
  <2>1. n \in A \ {m}
    BY <1>4
  <2>2. Cardinality(A \ {m}) # 0
    BY <1>1, <1>2, <2>1
  <2> QED BY <1>0, <1>2, <2>2, <1>3
<1>5. ASSUME NEW c \in B PROVE Cardinality(B) >= 1
  BY <1>0, <1>1, <1>5
<1>6. ASSUME NEW p \in Slots, NEW v \in Page, pte[p][v].f = f
      PROVE  <<p, v>> \in A
  BY <1>6 DEF MapsOf, Places
<1>7. ASSUME NEW p \in Slots, NEW v \in Page, NEW q \in Slots, NEW u \in Page,
             pte[p][v].f = f, pte[q][u].f = f, ~(q = p /\ u = v)
      PROVE  Maps(f) >= 2
  BY <1>4, <1>6, <1>7 DEF Maps
<1>8. ASSUME NEW p \in Slots, NEW v \in Page, pte[p][v].f = f
      PROVE  Maps(f) >= 1
  BY <1>3, <1>6, <1>8 DEF Maps
<1>9. ASSUME NEW c \in Cores, Owes(op[c], f) PROVE Owe(f) >= 1
  BY <1>5, <1>9 DEF Owe, OweOf
<1> QED BY <1>7, <1>8, <1>9

\* A frame on the free list has no entry and no core owes it; a frame counted
\* zero has one owner at most.
LEMMA SoleOwner ==
    ASSUME VInv, NEW f \in Frames
    PROVE  /\ f \in free =>
                 /\ \A p \in Slots, v \in Page : pte[p][v].f # f
                 /\ \A c \in Cores : ~Owes(op[c], f)
           /\ refc[f] = 0 =>
                 /\ \A p, q \in Slots, u, v \in Page :
                       pte[p][v].f = f /\ pte[q][u].f = f => q = p /\ u = v
                 /\ \A p \in Slots, v \in Page, c \in Cores :
                       pte[p][v].f = f => ~Owes(op[c], f)
           /\ \A p \in Slots, v \in Page : pte[p][v].f = f => f \notin free
           /\ \A c \in Cores : Owes(op[c], f) => f \notin free
<1>1. f \in free => Maps(f) = 0 /\ Owe(f) = 0
  BY Bounds DEF Owners
<1>2. refc[f] = 0 => Maps(f) + Owe(f) <= 1
  BY Bounds DEF Owners
<1>3. Maps(f) \in Nat /\ Owe(f) \in Nat
  BY Bounds
<1>4. f \in free => \A p \in Slots, v \in Page : pte[p][v].f # f
  BY <1>1, Atleast
<1>5. f \in free => \A c \in Cores : ~Owes(op[c], f)
  BY <1>1, Atleast
<1>6. ASSUME refc[f] = 0, NEW p \in Slots, NEW v \in Page, NEW q \in Slots, NEW u \in Page,
             pte[p][v].f = f, pte[q][u].f = f, ~(q = p /\ u = v)
      PROVE  FALSE
  <2>1. Maps(f) >= 2
    BY <1>6, Atleast
  <2> QED BY <2>1, <1>2, <1>3, <1>6
<1>7. ASSUME refc[f] = 0, NEW p \in Slots, NEW v \in Page, NEW c \in Cores,
             pte[p][v].f = f, Owes(op[c], f)
      PROVE  FALSE
  <2>1. Maps(f) >= 1 /\ Owe(f) >= 1
    BY <1>7, Atleast
  <2> QED BY <2>1, <1>2, <1>3, <1>7
<1> QED BY <1>4, <1>5, <1>6, <1>7

-----------------------------------------------------------------------------
(* What one core's step keeps. *)

\* Only the core's own operation and place change.
CoreStep(c) ==
    \A d \in Cores \ {c} :
        /\ op'[d] = op[d] /\ runs'[d] = runs[d]
        /\ Running(d) => leader'[runs[d]] = leader[runs[d]]

\* A translation that is still cached, of an entry that has not changed.
LEMMA TlbFrame ==
    ASSUME VInv, NEW c \in Cores, CoreStep(c), shoot' = shoot,
           op[c].at \notin {"shoot", "wait"}, NEW d \in Cores, NEW u \in Page,
           tlb'[d][u] # NoTr => tlb'[d][u] = tlb[d][u],
           Running(d)' => Running(d) /\ Mm(d)' = Mm(d),
           Running(d)' /\ tlb'[d][u] # NoTr => pte'[Mm(d)][u] = pte[Mm(d)][u],
           d = c /\ tlb'[c][u] # NoTr => ~Own(c, u) \/ Own(c, u)'
    PROVE  TlbFine(d, u)'
<1> SUFFICES ASSUME Running(d)', tlb'[d][u] # NoTr
             PROVE  \/ Match(tlb[d][u], pte[Mm(d)][u])'
                    \/ Stale(d, u, tlb[d][u])' \/ Own(d, u)'
  BY DEF TlbFine
<1>1. TlbFine(d, u) /\ Running(d) /\ tlb[d][u] # NoTr /\ tlb'[d][u] = tlb[d][u]
      /\ Mm(d)' = Mm(d) /\ pte'[Mm(d)][u] = pte[Mm(d)][u]
  BY DEF VInv, TlbOk
<1>2. CASE Match(tlb[d][u], pte[Mm(d)][u])
  BY <1>1, <1>2
<1>3. CASE Stale(d, u, tlb[d][u])
  <2>1. PICK x \in Cores \ {d} :
           /\ Running(x) /\ Mm(x) = Mm(d) /\ op[x].v = u
           /\ op[x].at = "shoot" \/ (op[x].at = "wait" /\ d \in shoot.pending)
           /\ op[x].f = tlb[d][u].f
              \/ (pte[Mm(d)][u].is = "page" /\ pte[Mm(d)][u].f = tlb[d][u].f)
    BY <1>3 DEF Stale
  <2>2. x # c
    BY <2>1
  <2>3. op'[x] = op[x] /\ runs'[x] = runs[x] /\ leader'[runs[x]] = leader[runs[x]]
    BY <2>1, <2>2 DEF CoreStep
  <2>4. Running(x)' /\ Mm(x)' = Mm(x)
    BY <2>1, <2>3 DEF Running, Mm
  <2>5. Stale(d, u, tlb[d][u])'
    BY <2>1, <2>3, <2>4, <1>1 DEF Stale
  <2> QED BY <2>5
<1>4. CASE Own(d, u)
  BY <1>1, <1>4 DEF Own, CoreStep
<1> QED BY <1>1, <1>2, <1>3, <1>4 DEF TlbFine

\* A page of a process whose break and bound the step leaves alone.
LEMMA BoundFrame ==
    ASSUME VInv, NEW c \in Cores, CoreStep(c), NEW p \in Slots, NEW u \in Page,
           leader'[p] = p => leader[p] = p,
           Alive(p)' => Alive(p), state'[p] = "live" => state[p] = "live",
           brk'[p] = brk[p], mnext'[p] = mnext[p], pte'[p][u] = pte[p][u],
           op[c].then = "brk" /\ Mm(c) = p /\ op[c].v = u =>
               /\ op'[c].then = "brk" /\ op'[c].v = u
               /\ runs'[c] = runs[c] /\ leader'[runs[c]] = leader[runs[c]]
    PROVE  BoundFine(p, u)'
<1>1. BoundFine(p, u)
  BY DEF VInv, BoundsOk
<1>2. ASSUME Shrinking(p, u) PROVE Shrinking(p, u)'
  <2>1. PICK x \in Cores : op[x].v = u /\ op[x].then = "brk" /\ Mm(x) = p
    BY <1>2 DEF Shrinking
  <2>2. Running(x)
    BY <2>1 DEF VInv, OpsOk, OpOk, ShrinkOk
  <2>3. op'[x].v = u /\ op'[x].then = "brk" /\ Mm(x)' = p
    BY <2>1, <2>2 DEF CoreStep, Mm
  <2> QED BY <2>1, <2>3 DEF Shrinking
<1> QED BY <1>1, <1>2 DEF BoundFine

\* One entry of a process in use changes.
EntryFits(p, v, e) ==
    /\ e \in Pte /\ EntryOk(e)
    /\ e.is = "page" => \A q \in Slots, u \in Page :
                           pte[q][u].f = e.f => q = p /\ u = v

\* A new entry that fits keeps the invariants about entries.
LEMMA EntryKeeps ==
    ASSUME VInv, NEW p \in Slots, leader[p] = p, state[p] # "free", NEW v \in Page,
           NEW e, EntryFits(p, v, e), SetsEntry(p, v, e),
           UNCHANGED <<state, leader>>
    PROVE  EntriesOk' /\ LeadersOk' /\ AloneOk'
<1>1. EntriesOk'
  BY DEF VInv, EntriesOk, EntryFits, SetsEntry
<1>2. LeadersOk'
  <2>1. \A s \in Slots : s # p => (Blank(s) => Blank(s)')
    BY DEF Blank, SetsEntry
  <2> QED BY <2>1 DEF VInv, LeadersOk
<1>3. AloneOk'
  <2> SUFFICES ASSUME NEW q \in Slots, NEW r \in Slots, NEW u \in Page, NEW x \in Page,
                      pte'[q][x].is = "page", pte'[q][x].w,
                      pte'[r][u].is = "page", pte'[r][u].f = pte'[q][x].f
               PROVE  r = q /\ u = x
    BY DEF AloneOk
  <2>1. CASE q = p /\ x = v
    BY <2>1 DEF SetsEntry, EntryFits
  <2>2. CASE ~(q = p /\ x = v)
    BY <2>2 DEF SetsEntry, EntryFits, VInv, AloneOk
  <2> QED BY <2>1, <2>2
<1> QED BY <1>1, <1>2, <1>3

\* The counts after a step that moves an entry and an operation.
LEMMA CountStep ==
    ASSUME VInv, NEW p \in Slots, NEW v \in Page, NEW e, SetsEntry(p, v, e),
           NEW c \in Cores, NEW o, SetsOp(c, o), NEW f \in Frames,
           refc' \in [Frames -> Nat],
           Owners(f)' + Bit(pte[p][v].f = f) + Bit(Owes(op[c], f))
              = Owners(f) + Bit(e.f = f) + Bit(Owes(o, f))
    PROVE  Maps(f)' + Owe(f)' = Owners(f)'
<1>1. Maps(f)' + Bit(pte[p][v].f = f) = Maps(f) + Bit(e.f = f)
  BY MapsChange
<1>2. Owe(f)' + Bit(Owes(op[c], f)) = Owe(f) + Bit(Owes(o, f))
  BY OweChange
<1>3. Maps(f) \in Nat /\ Owe(f) \in Nat /\ Maps(f) + Owe(f) = Owners(f)
  BY Bounds
<1>4. Maps(f)' \in Nat /\ Owe(f)' \in Nat
  BY Finite DEF Maps, Owe
<1>5. \A b : Bit(b) \in {0, 1}
  BY DEF Bit
<1>6. Owners(f)' \in Nat
  BY DEF Owners
<1> DEFINE a == Bit(pte[p][v].f = f)
           b == Bit(Owes(op[c], f))
           x == Bit(e.f = f)
           y == Bit(Owes(o, f))
<1>7. a \in {0, 1} /\ b \in {0, 1} /\ x \in {0, 1} /\ y \in {0, 1}
  BY <1>5
<1>8. /\ Owners(f)' + a + b = Owners(f) + x + y
      /\ Maps(f)' + a = Maps(f) + x /\ Owe(f)' + b = Owe(f) + y
  BY <1>1, <1>2
<1> HIDE DEF a, b, x, y
<1> QED BY <1>3, <1>4, <1>6, <1>7, <1>8

-----------------------------------------------------------------------------
(* The processor. *)

\* A core in ring 3, or idle, has nothing in hand.
LEMMA UserOk ==
    ASSUME NEW c \in Cores, op'[c] = User, shoot'.by # c
    PROVE  OpOk(c)'
<1>1. op'[c].at = "user" /\ op'[c].then = "user" /\ op'[c].who = None
  BY OpFacts
<1> QED BY <1>1 DEF OpOk, FaultOk, Faulting, FreeingOk, ShootingOk, ShrinkOk, ForkOk, TearOk

\* A core that is at no step has the idle operation.
LEMMA Idle ==
    ASSUME VInv, NEW c \in Cores, op[c].at = "user"
    PROVE  op[c] = User /\ shoot.by # c /\ op[c].then = "user" /\ op[c].who = None
           /\ op[c].f = None /\ ~Busy(c)
BY OpFacts DEF VInv, OpsOk, OpOk, ShootingOk, Busy

\* What is cached leads to a frame.
TlbFrames == \A d \in Cores, u \in Page :
    tlb[d][u] # NoTr => tlb[d][u].f \in Frames

\* Dropping translations leaves the others as they were.
LEMMA FlushTypes ==
    ASSUME VInv, NEW c \in Cores
    PROVE  /\ Empties(c) => TlbFrames'
           /\ \A v \in Page : SetsTlb(c, v, NoTr) => TlbFrames'
           /\ UNCHANGED tlb => TlbFrames'
<1>1. TlbFrames
  BY DEF VInv, TypesOk, TlbFrames
<1> QED BY <1>1 DEF TlbFrames, Empties, SetsTlb

\* A core takes a task.
LEMMA DispatchKeeps ==
    ASSUME VInv, NEW c \in Cores, NEW s \in Slots, Dispatch(c, s)
    PROVE  VInv'
<1>1. /\ SetsRuns(c, s) /\ runs' \in [Cores -> Slots \cup {None}]
      /\ Empties(c) /\ tlb' \in Cached /\ runs[c] = None /\ op[c].at = "user"
      /\ state[s] = "live" /\ \A d \in Cores : runs[d] # s
      /\ UNCHANGED <<setting, state, leader, brk, mnext, pte, free, refc, data, op, shoot>>
  BY RunsDoes, LoadDoes DEF Dispatch, VInv, mmVars
<1>2. s # None
  BY VmAssumption
<1>3. TypesOk'
  <2>1. TlbFrames'
    BY <1>1, FlushTypes
  <2> QED BY <2>1, <1>1 DEF VInv, TypesOk, TypeOK, Cached, Translation, TlbFrames
<1>4. EntriesOk' /\ LeadersOk' /\ FreeOk' /\ ShootOk' /\ AloneOk' /\ OwnersCounted'
  BY <1>1 DEF VInv, EntriesOk, LeadersOk, FreeOk, ShootOk, AloneOk, Blank,
              OwnersCounted, Mappings, Owing
<1>5. ModeOk'
  BY <1>1 DEF VInv, ModeOk
<1>6. RunsOk'
  BY <1>1, <1>2 DEF VInv, RunsOk, SetsRuns, Running
<1>7. CoreStep(c)
  BY <1>1 DEF CoreStep, SetsRuns
<1>8. OpsOk'
  <2>1. OpOk(c)'
    BY <1>1, Idle, UserOk
  <2>2. ASSUME NEW d \in Cores, d # c PROVE OpOk(d)'
    <3>1. Undisturbed(d)
      BY <1>1, <2>2 DEF Undisturbed, SetsRuns
    <3> QED BY <3>1, OthersOk
  <2> QED BY <2>1, <2>2 DEF OpsOk
<1>9. ApartOk'
  BY <1>1, <1>7 DEF VInv, ApartOk, Busy, Running, CoreStep, Mm
<1>10. BoundsOk'
  <2>1. ASSUME NEW p \in Slots, NEW u \in Page PROVE BoundFine(p, u)'
    <3>1. Alive(p)' = Alive(p)
      BY <1>1 DEF Alive
    <3> QED BY <3>1, <1>1, <1>7, Idle, BoundFrame
  <2> QED BY <2>1 DEF BoundsOk
<1>11. TlbOk'
  <2>1. ASSUME NEW d \in Cores, NEW u \in Page PROVE TlbFine(d, u)'
    <3>1. CASE d = c
      BY <1>1, <3>1 DEF TlbFine, Empties
    <3>2. CASE d # c
      <4>1. Running(d)' => Running(d) /\ Mm(d)' = Mm(d)
        BY <3>2, <1>1 DEF Running, Mm, SetsRuns
      <4>2. tlb'[d][u] = tlb[d][u]
        BY <3>2, <1>1 DEF Empties
      <4> QED BY <4>1, <4>2, <3>2, <1>1, <1>7, TlbFrame
    <3> QED BY <3>1, <3>2
  <2> QED BY <2>1 DEF TlbOk
<1> QED BY <1>3, <1>4, <1>5, <1>6, <1>8, <1>9, <1>10, <1>11 DEF VInv

\* A core leaves its task.
LEMMA PreemptKeeps ==
    ASSUME VInv, NEW c \in Cores, Preempt(c)
    PROVE  VInv'
<1>1. /\ SetsRuns(c, None) /\ runs' \in [Cores -> Slots \cup {None}]
      /\ Empties(c) /\ tlb' \in Cached /\ op[c].at = "user"
      /\ UNCHANGED <<setting, state, leader, brk, mnext, pte, free, refc, data, op, shoot>>
  BY RunsDoes, LoadDoes DEF Preempt, InUser, VInv, mmVars
<1>3. TypesOk'
  <2>1. TlbFrames'
    BY <1>1, FlushTypes
  <2> QED BY <2>1, <1>1 DEF VInv, TypesOk, TypeOK, Cached, Translation, TlbFrames
<1>4. EntriesOk' /\ LeadersOk' /\ FreeOk' /\ ShootOk' /\ AloneOk' /\ OwnersCounted'
  BY <1>1 DEF VInv, EntriesOk, LeadersOk, FreeOk, ShootOk, AloneOk, Blank,
              OwnersCounted, Mappings, Owing
<1>5. ModeOk'
  BY <1>1 DEF VInv, ModeOk
<1>6. RunsOk'
  BY <1>1 DEF VInv, RunsOk, SetsRuns, Running
<1>7. CoreStep(c)
  BY <1>1 DEF CoreStep, SetsRuns
<1>8. OpsOk'
  <2>1. OpOk(c)'
    BY <1>1, Idle, UserOk
  <2>2. ASSUME NEW d \in Cores, d # c PROVE OpOk(d)'
    <3>1. Undisturbed(d)
      BY <1>1, <2>2 DEF Undisturbed, SetsRuns
    <3> QED BY <3>1, OthersOk
  <2> QED BY <2>1, <2>2 DEF OpsOk
<1>9. ApartOk'
  BY <1>1, <1>7 DEF VInv, ApartOk, Busy, Running, CoreStep, Mm
<1>10. BoundsOk'
  <2>1. ASSUME NEW p \in Slots, NEW u \in Page PROVE BoundFine(p, u)'
    <3>1. Alive(p)' = Alive(p)
      BY <1>1 DEF Alive
    <3> QED BY <3>1, <1>1, <1>7, Idle, BoundFrame
  <2> QED BY <2>1 DEF BoundsOk
<1>11. TlbOk'
  <2>1. ASSUME NEW d \in Cores, NEW u \in Page PROVE TlbFine(d, u)'
    <3>1. CASE d = c
      BY <1>1, <3>1 DEF TlbFine, Empties
    <3>2. CASE d # c
      <4>1. Running(d)' => Running(d) /\ Mm(d)' = Mm(d)
        BY <3>2, <1>1 DEF Running, Mm, SetsRuns
      <4>2. tlb'[d][u] = tlb[d][u]
        BY <3>2, <1>1 DEF Empties
      <4> QED BY <4>1, <4>2, <3>2, <1>1, <1>7, TlbFrame
    <3> QED BY <3>1, <3>2
  <2> QED BY <2>1 DEF TlbOk
<1> QED BY <1>3, <1>4, <1>5, <1>6, <1>8, <1>9, <1>10, <1>11 DEF VInv

\* A step that leaves everything but the caches and the contents alone.
LEMMA QuietStep ==
    ASSUME VInv, TypesOk', TlbOk',
           UNCHANGED <<setting, state, leader, brk, mnext, pte, free, refc, runs,
                       op, shoot>>
    PROVE  VInv'
<1>1. EntriesOk' /\ RunsOk' /\ LeadersOk' /\ FreeOk' /\ ShootOk' /\ AloneOk'
  BY DEF VInv, EntriesOk, RunsOk, Running, LeadersOk, FreeOk, ShootOk, AloneOk, Blank
<1>2. OwnersCounted' /\ ModeOk'
  BY DEF VInv, OwnersCounted, Mappings, Owing, ModeOk
<1>3. ApartOk'
  BY DEF VInv, ApartOk, Running, Busy, Mm
<1>4. BoundsOk'
  BY DEF VInv, BoundsOk, BoundFine, Shrinking, Alive, Mm
<1>5. ASSUME NEW d \in Cores PROVE OpOk(d)'
  <2>1. Undisturbed(d)
    BY DEF Undisturbed
  <2> QED BY <2>1, OthersOk
<1> QED BY <1>1, <1>2, <1>3, <1>4, <1>5 DEF VInv, OpsOk

\* A translation is cached as the tables have it.
LEMMA WalkKeeps ==
    ASSUME VInv, NEW c \in Cores, NEW v \in Page, Walk(c, v)
    PROVE  VInv'
<1> DEFINE e == pte[Mm(c)][v]
           t == [f |-> e.f, w |-> e.w]
<1>1. Running(c) /\ op[c].at = "user"
  BY DEF Walk, InUser, Running
<1>2. Mm(c) \in Slots /\ e \in Pte /\ EntryOk(e)
  BY <1>1, Here DEF VInv, TypesOk, TypeOK, EntriesOk
<1>3. e.is = "page" /\ e.f \in Frames /\ t \in Translation /\ Match(t, e)
  BY <1>2, EntryFacts DEF Walk, EntryOk, Translation, Match
<1>4. /\ SetsTlb(c, v, t) /\ tlb' \in Cached
      /\ UNCHANGED <<setting, state, leader, brk, mnext, pte, free, refc, data,
                     runs, op, shoot>>
  BY <1>3, TlbDoes DEF Walk, VInv, mmVars, taskVars
<1> HIDE DEF e
<1>5. TypesOk'
  <2>1. TlbFrames'
    BY <1>3, <1>4 DEF TlbFrames, SetsTlb, VInv, TypesOk
  <2> QED BY <2>1, <1>4 DEF VInv, TypesOk, TypeOK, Cached, Translation, TlbFrames
<1>6. ASSUME NEW d \in Cores, NEW u \in Page PROVE TlbFine(d, u)'
  <2>1. CASE d = c /\ u = v
    <3>1. tlb'[c][v] = t /\ pte'[Mm(c)'][v] = e
      BY <1>4 DEF SetsTlb, Mm, e
    <3> QED BY <3>1, <2>1, <1>3 DEF TlbFine, Mm
  <2>2. CASE ~(d = c /\ u = v)
    <3>1. tlb'[d][u] = tlb[d][u]
      BY <2>2, <1>4 DEF SetsTlb
    <3>2. CoreStep(c)
      BY <1>4 DEF CoreStep
    <3>3. (Running(d)' => Running(d) /\ Mm(d)' = Mm(d))
          /\ (Own(c, u) => Own(c, u)')
      BY <1>4 DEF Running, Mm, Own
    <3> QED BY <3>1, <3>2, <3>3, <1>1, <1>4, TlbFrame
  <2> QED BY <2>1, <2>2
<1> QED BY <1>4, <1>5, <1>6, QuietStep DEF TlbOk

\* A store changes nothing but data.
LEMMA StoreKeeps ==
    ASSUME VInv, NEW c \in Cores, NEW v \in Page, NEW x \in Value, Store(c, v, x)
    PROVE  VInv'
<1>1. UNCHANGED <<setting, state, leader, brk, mnext, pte, free, refc, runs, tlb,
                  op, shoot>> /\ data' = [data EXCEPT ![tlb[c][v].f] = x]
  BY DEF Store, mmVars, taskVars
<1>2. TypesOk'
  BY <1>1 DEF VInv, TypesOk, TypeOK
<1>3. TlbOk'
  BY <1>1 DEF VInv, TlbOk, TlbFine, Match, Stale, Own, Running, Mm
<1> QED BY <1>1, <1>2, <1>3, QuietStep

-----------------------------------------------------------------------------
(* A step of one core's operation. *)

\* What the new operation needs of the old one and of the others.
OpFits(c, o) ==
    /\ o \in Op
    /\ o.who # None => \A d \in Cores \ {c} : op[d].who # o.who
    /\ o.at # "user" /\ Running(c) => Apart(c, o.v)
    /\ o.then = "munmap" => "munmap" \in setting.calls
    /\ o.at = "fork" => "fork" \in setting.calls

\* One core's next operation fits beside those of the others.
LEMMA OpKeeps ==
    ASSUME VInv, NEW c \in Cores, NEW o, OpFits(c, o), SetsOp(c, o),
           UNCHANGED <<runs, leader>>
    PROVE  ApartOk' /\ CoreStep(c)
<1>1. CoreStep(c)
  BY DEF SetsOp, CoreStep
<1>2. UNCHANGED <<runs, leader>> /\ \A d \in Cores : Mm(d)' = Mm(d) /\ Running(d)' = Running(d)
  BY DEF Mm, Running
<1>3. ASSUME NEW a \in Cores, NEW b \in Cores, a # b,
             op'[a].who # None, op'[a].who = op'[b].who
      PROVE  FALSE
  BY <1>3 DEF OpFits, SetsOp, VInv, ApartOk
<1>4. ASSUME NEW a \in Cores, NEW b \in Cores, a # b, Running(a), Running(b),
             op'[a].at # "user", op'[b].at # "user", Mm(a) = Mm(b),
             op'[a].v = op'[b].v
      PROVE  FALSE
  BY <1>4 DEF OpFits, SetsOp, VInv, ApartOk, Apart, Busy
<1> QED BY <1>1, <1>2, <1>3, <1>4 DEF ApartOk, Busy

\* A step of an operation that changes no table, count, bound or slot.
ChangesNothing(c, o) ==
    /\ SetsOp(c, o)
    /\ UNCHANGED <<setting, state, leader, brk, mnext, pte, free, refc, data, runs>>
    /\ op[c].then = "brk" => o.then = "brk" /\ o.v = op[c].v
    /\ \A f \in Frames : Owes(op[c], f) <=> Owes(o, f)
    /\ \A d \in Cores \ {c} : shoot'.by = d <=> shoot.by = d
    /\ tlb' \in Cached
    /\ shoot' \in [by : Cores \cup {None}, pending : SUBSET Cores]

\* A step that changes one core's operation, the shootdown and translations.
LEMMA PureStep ==
    ASSUME VInv, NEW c \in Cores, NEW o, OpFits(c, o), ChangesNothing(c, o),
           OpOk(c)', ShootOk', TlbOk', TlbFrames'
    PROVE  VInv'
<1>1. /\ UNCHANGED <<setting, state, leader, brk, mnext, pte, free, refc, data, runs>>
      /\ SetsOp(c, o) /\ op' \in [Cores -> Op] /\ op'[c] = o
      /\ op[c].then = "brk" => o.then = "brk" /\ o.v = op[c].v
  BY DEF ChangesNothing, SetsOp
<1>2. ApartOk' /\ CoreStep(c)
  BY <1>1, OpKeeps
<1>4. TypesOk'
  BY <1>1 DEF VInv, TypesOk, TypeOK, Cached, Translation, TlbFrames, ChangesNothing
<1>5. EntriesOk' /\ RunsOk' /\ LeadersOk' /\ FreeOk' /\ AloneOk'
  BY <1>1 DEF VInv, EntriesOk, RunsOk, Running, LeadersOk, FreeOk, AloneOk, Blank
<1>6. OwnersCounted'
  <2>1. ASSUME NEW f \in Frames PROVE Maps(f)' + Owe(f)' = Owners(f)'
    <3>1. Maps(f)' = Maps(f) /\ Owners(f)' = Owners(f)
      BY <1>1 DEF Maps, MapsOf, Owners
    <3>2. Owe(f)' = Owe(f)
      <4>1. OweOf(op', f) = OweOf(op, f)
        BY <1>1 DEF OweOf, SetsOp, ChangesNothing
      <4> QED BY <4>1 DEF Owe
    <3> QED BY <3>1, <3>2, Bounds
  <2> QED BY <2>1, CountedNext
<1>7. ModeOk'
  BY <1>1 DEF VInv, ModeOk, OpFits, SetsOp
<1>8. OpsOk'
  <2>1. ASSUME NEW d \in Cores, d # c PROVE OpOk(d)'
    <3>1. Undisturbed(d)
      BY <1>1, <2>1 DEF Undisturbed, SetsOp, ChangesNothing
    <3> QED BY <3>1, OthersOk
  <2> QED BY <2>1 DEF OpsOk
<1>9. BoundsOk'
  <2>1. ASSUME NEW p \in Slots, NEW u \in Page PROVE BoundFine(p, u)'
    <3>1. Alive(p)' = Alive(p)
      BY <1>1 DEF Alive
    <3> QED BY <3>1, <1>1, <1>2, BoundFrame
  <2> QED BY <2>1 DEF BoundsOk
<1> QED BY <1>2, <1>4, <1>5, <1>6, <1>7, <1>8, <1>9 DEF VInv

\* One that reads only, outside a shootdown, and may drop a cached translation.
ReadsOnly(c, o) ==
    /\ SetsOp(c, o)
    /\ UNCHANGED <<setting, state, leader, brk, mnext, pte, free, refc, data, runs,
                   shoot>>
    /\ tlb' = tlb \/ \E v \in Page : SetsTlb(c, v, NoTr)
    /\ tlb' \in Cached
    /\ op[c].at \notin {"shoot", "wait"}
    /\ op[c].then = "brk" => o.then = "brk" /\ o.v = op[c].v
    /\ \A f \in Frames : Owes(op[c], f) <=> Owes(o, f)
    /\ \A u \in Page : tlb'[c][u] # NoTr => ~Own(c, u) \/ Own(c, u)'

\* A step that changes one core's operation only.
LEMMA ReadStep ==
    ASSUME VInv, NEW c \in Cores, NEW o, OpFits(c, o), ReadsOnly(c, o), OpOk(c)'
    PROVE  VInv'
<1>1. /\ UNCHANGED <<setting, state, leader, brk, mnext, pte, free, refc, data, runs,
                     shoot>>
      /\ SetsOp(c, o) /\ op[c].at \notin {"shoot", "wait"}
  BY DEF ReadsOnly
<1>2. CoreStep(c)
  BY <1>1, OpKeeps
<1>3. TlbFrames' /\ \A d \in Cores, u \in Page : tlb'[d][u] # NoTr => tlb'[d][u] = tlb[d][u]
  <2>1. CASE tlb' = tlb
    BY <2>1, FlushTypes
  <2>2. ASSUME NEW v \in Page, SetsTlb(c, v, NoTr)
        PROVE  TlbFrames' /\ \A d \in Cores, u \in Page :
                                tlb'[d][u] # NoTr => tlb'[d][u] = tlb[d][u]
    BY <2>2, FlushTypes DEF SetsTlb
  <2> QED BY <2>1, <2>2 DEF ReadsOnly
<1>4. TlbOk'
  <2>1. ASSUME NEW d \in Cores, NEW u \in Page PROVE TlbFine(d, u)'
    <3>1. (Running(d)' => Running(d) /\ Mm(d)' = Mm(d)) /\ pte'[Mm(d)][u] = pte[Mm(d)][u]
      BY <1>1 DEF Running, Mm
    <3>2. d = c /\ tlb'[c][u] # NoTr => ~Own(c, u) \/ Own(c, u)'
      BY DEF ReadsOnly
    <3> QED BY <3>1, <3>2, <1>1, <1>2, <1>3, TlbFrame
  <2> QED BY <2>1 DEF TlbOk
<1>5. ShootOk'
  BY <1>1 DEF VInv, ShootOk
<1>6. ChangesNothing(c, o)
  BY DEF ReadsOnly, ChangesNothing, VInv, TypesOk
<1> QED BY <1>3, <1>4, <1>5, <1>6, PureStep

\* A new operation that only faults, or lets go in its own process.
FaultOp(c, v) ==
    [At(IF pte[Mm(c)][v].is = "zfod" THEN "zfod" ELSE "cow", v)
        EXCEPT !.e = pte[Mm(c)][v]]

\* What a fault has read when it begins.
LEMMA FaultStart ==
    ASSUME VInv, NEW c \in Cores, Running(c), op[c].at = "user", NEW v \in Page,
           NEW o, o = FaultOp(c, v),
           pte[Mm(c)][v].is = "zfod" \/ (pte[Mm(c)][v].is = "page" /\ pte[Mm(c)][v].cow)
    PROVE  /\ o.at \in {"zfod", "cow"} /\ o \in Op /\ o.v = v
           /\ o.e = pte[Mm(c)][v] /\ o.f = None /\ o.then = "user" /\ o.who = None
           /\ IF o.at = "zfod" THEN o.e.is = "zfod" ELSE o.e.is = "page" /\ o.e.cow
<1> DEFINE e == pte[Mm(c)][v]
           a == IF e.is = "zfod" THEN "zfod" ELSE "cow"
<1>1. e \in Pte /\ a \in {"zfod", "cow"} /\ a \in Ats
  BY Here DEF VInv, TypesOk, TypeOK, Ats
<1>2. v \in 0 .. Top
  BY VmAssumption DEF Page
<1>3. Doing(o, a, v, e, None, "user", None)
  BY <1>1, <1>2, OpForms DEF FaultOp
<1> QED BY <1>1, <1>3 DEF Doing

\* A fault begins.
LEMMA FaultKeeps ==
    ASSUME VInv, NEW c \in Cores, NEW v \in Page, Fault(c, v)
    PROVE  VInv'
<1> DEFINE e == pte[Mm(c)][v]
<1>1. PICK o : o = FaultOp(c, v)
  OBVIOUS
<1>2. Running(c) /\ op[c].at = "user" /\ Quiet(c, v) /\ Go(c, o)
      /\ (e.is = "zfod" \/ (e.is = "page" /\ e.cow))
  BY <1>1 DEF Fault, InUser, Running, FaultOp
<1>3. /\ o.at \in {"zfod", "cow"} /\ o \in Op /\ o.v = v
      /\ o.e = e /\ o.f = None /\ o.then = "user" /\ o.who = None
      /\ IF o.at = "zfod" THEN o.e.is = "zfod" ELSE o.e.is = "page" /\ o.e.cow
  BY <1>1, <1>2, FaultStart
<1>4. SetsOp(c, o)
  BY <1>2, <1>3, GoDoes DEF VInv
<1>5. op[c].then = "user" /\ op[c].f = None /\ shoot.by # c
  BY <1>2, Idle
<1>6. SetsTlb(c, v, NoTr) /\ tlb' \in Cached
      /\ UNCHANGED <<setting, state, leader, brk, mnext, pte, free, refc, data, runs,
                     shoot>>
  BY FlushDoes DEF Fault, VInv, mmVars, taskVars
<1>7. OpFits(c, o)
  BY <1>2, <1>3, ApartFacts DEF OpFits
<1>8. None \notin Frames
  BY VmAssumption
<1>9. ReadsOnly(c, o)
  BY <1>2, <1>3, <1>4, <1>5, <1>6, <1>8 DEF ReadsOnly, Owes, Own
<1>10. OpOk(c)'
  <2>1. op'[c] = o /\ Running(c)' /\ Mm(c)' = Mm(c) /\ pte'[Mm(c)][v] = e
    BY <1>2, <1>4, <1>6 DEF SetsOp, Running, Mm
  <2>2. FaultOk(c)'
    BY <2>1, <1>3 DEF FaultOk
  <2> QED BY <2>1, <2>2, <1>3, <1>5, <1>6
          DEF OpOk, FreeingOk, ShootingOk, ShrinkOk, ForkOk, TearOk
<1> QED BY <1>7, <1>9, <1>10, ReadStep

\* A fault ends without a frame.
LEMMA NoFrameKeeps ==
    ASSUME VInv, NEW c \in Cores, NoFrame(c)
    PROVE  VInv'
<1>1. /\ op[c].at \in {"zfod", "copy"} /\ SetsOp(c, User)
      /\ UNCHANGED <<setting, state, leader, brk, mnext, pte, free, refc, data, runs,
                     tlb, shoot>>
  BY GoDoes, OpFacts DEF NoFrame, VInv, mmVars, taskVars
<1>2. op[c].then = "user" /\ op[c].f = None /\ op[c].who = None /\ shoot.by # c
  BY <1>1 DEF VInv, OpsOk, OpOk, FaultOk, ShootingOk, Faulting
<1>3. OpFits(c, User)
  BY OpFacts DEF OpFits
<1>4. None \notin Frames /\ tlb' \in Cached
  BY <1>1, VmAssumption DEF VInv, TypesOk, TypeOK, Cached, Translation
<1>5. ReadsOnly(c, User)
  BY <1>1, <1>2, <1>4, OpFacts DEF ReadsOnly, Owes, Own
<1>6. OpOk(c)'
  BY <1>1, <1>2, UserOk DEF SetsOp
<1> QED BY <1>3, <1>5, <1>6, ReadStep

\* A count of zero, read without the lock, stays zero while the fault lasts.
LEMMA CowCheckKeeps ==
    ASSUME VInv, NEW c \in Cores, CowCheck(c)
    PROVE  VInv'
<1> DEFINE q == op[c]
           a == IF Sole(q.e.f) THEN "take" ELSE "copy"
<1>1. PICK o : o = [q EXCEPT !.at = a]
  OBVIOUS
<1>2. q \in Op /\ a \in Ats /\ q.at = "cow"
  BY DEF VInv, TypesOk, TypeOK, Ats, CowCheck
<1>3. Doing(o, a, q.v, q.e, q.f, q.then, q.who)
  BY <1>1, <1>2, OpChanges
<1>4. o \in Op /\ o.at \in {"take", "copy"} /\ o.v = q.v /\ o.e = q.e /\ o.f = q.f
      /\ o.then = q.then /\ o.who = q.who
      /\ (o.at = "take" => refc[q.e.f] = 0)
  BY <1>3 DEF Doing, Sole
<1>5. /\ SetsOp(c, o)
      /\ UNCHANGED <<setting, state, leader, brk, mnext, pte, free, refc, data, runs,
                     tlb, shoot>>
  BY <1>1, <1>4, GoDoes DEF CowCheck, VInv, mmVars, taskVars
<1>6. FaultOk(c) /\ shoot.by # c
  BY <1>2 DEF VInv, OpsOk, OpOk, ShootingOk
<1>7. /\ Running(c) /\ q.v \in Page /\ q.f = None /\ q.then = "user" /\ q.who = None
      /\ q.e = pte[Mm(c)][q.v] /\ q.e.is = "page" /\ q.e.cow
  BY <1>2, <1>6 DEF FaultOk, Faulting
<1>8. OpFits(c, o)
  BY <1>2, <1>4, <1>7, ApartFacts DEF OpFits, Busy
<1>9. None \notin Frames /\ tlb' \in Cached
  BY <1>5, VmAssumption DEF VInv, TypesOk, TypeOK, Cached, Translation
<1>10. ReadsOnly(c, o)
  BY <1>2, <1>4, <1>5, <1>7, <1>9 DEF ReadsOnly, Owes, Own
<1>11. OpOk(c)'
  <2>1. op'[c] = o /\ Running(c)' /\ Mm(c)' = Mm(c) /\ pte' = pte /\ refc' = refc
    BY <1>5, <1>7 DEF SetsOp, Running, Mm
  <2>2. FaultOk(c)'
    BY <2>1, <1>4, <1>7 DEF FaultOk
  <2> QED BY <2>1, <2>2, <1>4, <1>5, <1>6, <1>7
          DEF OpOk, FreeingOk, ShootingOk, ShrinkOk, ForkOk, TearOk
<1> QED BY <1>8, <1>10, <1>11, ReadStep

\* The step of a teardown that finds its page, or moves on.
LEMMA TearPageKeeps ==
    ASSUME VInv, NEW c \in Cores, TearPage(c)
    PROVE  VInv'
<1> DEFINE q == op[c]
           e == pte[q.who][q.v]
           n == IF Reclaims(e) THEN [q EXCEPT !.at = "drop", !.f = e.f, !.then = "tear"]
                ELSE [q EXCEPT !.v = @ + 1]
<1>1. PICK o : o = n
  OBVIOUS
<1>2. q \in Op /\ q.at = "tear" /\ q.v < Top /\ q.v \in Page /\ Top \in Nat
  BY VmAssumption DEF VInv, TypesOk, TypeOK, TearPage, Op, Page
<1>3. /\ ~Running(c) /\ q.who \in Slots /\ q.f = None /\ q.then = "user"
      /\ TearOk(c) /\ shoot.by # c
  BY <1>2 DEF VInv, OpsOk, OpOk, TearOk, ShootingOk
<1>4. e \in Pte /\ EntryOk(e)
  BY <1>2, <1>3 DEF VInv, TypesOk, TypeOK, EntriesOk
<1>5. CASE e.is = "page"
  <2>1. e.f \in Frames
    BY <1>4, <1>5 DEF EntryOk
  <2>2. Doing(o, "drop", q.v, q.e, e.f, "tear", q.who)
    BY <1>1, <1>2, <1>5, <2>1, OpChanges DEF Reclaims
  <2>3. o \in Op /\ o.at = "drop" /\ o.v = q.v /\ o.f = e.f /\ o.then = "tear" /\ o.who = q.who
    BY <2>2 DEF Doing
  <2>4. /\ SetsOp(c, o)
        /\ UNCHANGED <<setting, state, leader, brk, mnext, pte, free, refc, data, runs,
                       tlb, shoot>>
    BY <1>1, <2>3, GoDoes DEF TearPage, VInv, mmVars, taskVars
  <2>5. OpFits(c, o)
    BY <1>3, <2>3 DEF OpFits, VInv, ApartOk
  <2>6. None \notin Frames /\ tlb' \in Cached
    BY <2>4, VmAssumption DEF VInv, TypesOk, TypeOK, Cached, Translation
  <2>7. ReadsOnly(c, o)
    BY <1>2, <1>3, <2>3, <2>4, <2>6 DEF ReadsOnly, Owes, Own
  <2>8. OpOk(c)'
    <3>1. op'[c] = o /\ ~Running(c)' /\ pte' = pte /\ state' = state /\ leader' = leader
          /\ shoot' = shoot
      BY <2>4, <1>3 DEF SetsOp, Running
    <3>2. TearOk(c)'
      BY <3>1, <1>2, <1>3, <1>5, <2>3 DEF TearOk
    <3> QED BY <3>1, <3>2, <1>2, <1>3, <2>1, <2>3
            DEF OpOk, FaultOk, Faulting, FreeingOk, ShootingOk, ShrinkOk, ForkOk
  <2> QED BY <2>5, <2>7, <2>8, ReadStep
<1>6. CASE e.is # "page"
  <2>2. Doing(o, "tear", q.v + 1, q.e, None, "user", q.who)
    BY <1>1, <1>2, <1>3, <1>6, OpChanges DEF Reclaims
  <2>3. o \in Op /\ o.at = "tear" /\ o.v = q.v + 1 /\ o.f = None /\ o.then = "user"
        /\ o.who = q.who
    BY <2>2 DEF Doing
  <2>4. /\ SetsOp(c, o)
        /\ UNCHANGED <<setting, state, leader, brk, mnext, pte, free, refc, data, runs,
                       tlb, shoot>>
    BY <1>1, <2>3, GoDoes DEF TearPage, VInv, mmVars, taskVars
  <2>5. OpFits(c, o)
    BY <1>3, <2>3 DEF OpFits, VInv, ApartOk
  <2>6. None \notin Frames /\ tlb' \in Cached
    BY <2>4, VmAssumption DEF VInv, TypesOk, TypeOK, Cached, Translation
  <2>7. ReadsOnly(c, o)
    BY <1>2, <1>3, <2>3, <2>4, <2>6 DEF ReadsOnly, Owes, Own
  <2>8. OpOk(c)'
    <3>1. op'[c] = o /\ ~Running(c)' /\ pte' = pte /\ state' = state /\ leader' = leader
          /\ shoot' = shoot
      BY <2>4, <1>3 DEF SetsOp, Running
    <3>2. \A v \in Page : v < o.v => pte[q.who][v].is # "page"
      <4>1. \A v \in Page : v < o.v => v < q.v \/ v = q.v
        BY <1>2, <2>3 DEF Page
      <4> QED BY <4>1, <1>2, <1>3, <1>6 DEF TearOk
    <3>3. TearOk(c)'
      BY <3>1, <3>2, <1>2, <1>3, <2>3 DEF TearOk
    <3> QED BY <3>1, <3>3, <1>2, <1>3, <2>3
            DEF OpOk, FaultOk, Faulting, FreeingOk, ShootingOk, ShrinkOk, ForkOk
  <2> QED BY <2>5, <2>7, <2>8, ReadStep
<1> QED BY <1>5, <1>6

-----------------------------------------------------------------------------
(* free_frame. *)

\* The second section is due: no owner was left.
PushDue(c) ==
    /\ op[c].at = "drop" /\ refc[op[c].f] = 0
    /\ Go(c, [op[c] EXCEPT !.at = "push"])
    /\ UNCHANGED <<setting, state, leader, brk, mnext, pte, free, refc, data, runs,
                   tlb, shoot>>

\* The last owner's frame is due on the list.
LEMMA PushDueKeeps ==
    ASSUME VInv, NEW c \in Cores, PushDue(c)
    PROVE  VInv'
<1> DEFINE q == op[c]
<1>1. PICK o : o = [q EXCEPT !.at = "push"]
  OBVIOUS
<1>2. q \in Op /\ q.at = "drop" /\ refc[q.f] = 0
  BY DEF VInv, TypesOk, TypeOK, PushDue
<1>3. Doing(o, "push", q.v, q.e, q.f, q.then, q.who)
  BY <1>1, <1>2, OpChanges DEF Ats
<1>4. o \in Op /\ o.at = "push" /\ o.v = q.v /\ o.f = q.f /\ o.then = q.then /\ o.who = q.who
  BY <1>3 DEF Doing
<1>5. /\ SetsOp(c, o)
      /\ UNCHANGED <<setting, state, leader, brk, mnext, pte, free, refc, data, runs,
                     tlb, shoot>>
  BY <1>1, <1>4, GoDoes DEF PushDue, VInv
<1>6. OpOk(c)
  BY DEF VInv, OpsOk
<1>7. OpFits(c, o)
  BY <1>2, <1>4, ApartFacts DEF OpFits, VInv, ApartOk, Busy, ModeOk
<1>8. tlb' \in Cached
  BY <1>5 DEF VInv, TypesOk, TypeOK, Cached, Translation
<1>9. shoot.by # c
  BY <1>2, <1>6 DEF OpOk, ShootingOk
<1>10. OpOk(c)'
  <2>1. op'[c] = o /\ Running(c)' = Running(c) /\ Mm(c)' = Mm(c)
        /\ UNCHANGED <<state, leader, brk, pte, refc, runs, shoot>>
    BY <1>5 DEF SetsOp, Running, Mm
  <2>2. FreeingOk(c)' /\ ShootingOk(c)' /\ FaultOk(c)' /\ ForkOk(c)'
    BY <2>1, <1>2, <1>4, <1>6, <1>9 DEF OpOk, FreeingOk, ShootingOk, FaultOk, Faulting, ForkOk
  <2>3. ShrinkOk(c)'
    BY <2>1, <1>2, <1>4, <1>6 DEF OpOk, ShrinkOk
  <2>4. TearOk(c)'
    BY <2>1, <1>2, <1>4, <1>6 DEF OpOk, TearOk
  <2> QED BY <2>1, <2>2, <2>3, <2>4, <1>2, <1>4, <1>6 DEF OpOk
<1>11. ReadsOnly(c, o)
  BY <1>2, <1>4, <1>5, <1>8 DEF ReadsOnly, Owes, Own, SetsOp
<1> QED BY <1>7, <1>10, <1>11, ReadStep

\* The frame a core lets go has one owner less.
Released(f) ==
    /\ refc' \in [Frames -> Nat] /\ free' \subseteq Frames
    /\ data' \in [Frames -> Value \cup {Link}]
    /\ Owners(f)' + 1 = Owners(f)
    /\ \A g \in Frames : /\ g # f => Owners(g)' = Owners(g)
                         /\ refc[g] = 0 => refc'[g] = 0
    /\ \A g \in free' : refc'[g] = 0

\* A frame lost an owner, and the call goes on.
FreedStep(c, f) ==
    /\ op[c].at \in {"drop", "push"} /\ f = op[c].f /\ Released(f) /\ Freed(c)
    /\ UNCHANGED <<setting, state, leader, runs, mnext, tlb, shoot>>

\* The operation that follows.
After(c, o) ==
    LET q == op[c] IN
    /\ o \in Op /\ o.f = None /\ o.then = "user"
    /\ q.then = "munmap" => o.at = "shoot" /\ o.v = q.v /\ o.who = None
    /\ q.then = "tear" => o.at = "tear" /\ o.v = q.v + 1 /\ o.who = q.who
    /\ q.then \in {"user", "brk"} => o = User /\ o.at = "user" /\ o.who = None

\* What the call goes on with, and what it leaves.
LEMMA FreedDoes ==
    ASSUME VInv, NEW c \in Cores, NEW f \in Frames, FreedStep(c, f)
    PROVE  /\ \E o : SetsOp(c, o) /\ After(c, o)
           /\ op[c].then = "tear" =>
                 /\ SetsEntry(op[c].who, op[c].v, NoPte) /\ ~Running(c)
                 /\ op[c].who \in Slots /\ leader[op[c].who] = op[c].who
                 /\ state[op[c].who] = "exited"
                 /\ pte[op[c].who][op[c].v].f = op[c].f
           /\ op[c].then # "tear" => UNCHANGED pte /\ Running(c) /\ op[c].who = None
           /\ op[c].v \in Page /\ op[c].f \in Frames /\ shoot.by # c
           /\ op[c].then # "brk" => UNCHANGED brk
           /\ op[c].then = "brk" =>
                 /\ runs[c] = Mm(c) /\ runs[c] \in Slots /\ op[c].v \in 0 .. HeapTop
                 /\ brk' = [brk EXCEPT ![runs[c]] = op[c].v]
                 /\ brk[runs[c]] = op[c].v + 1 /\ pte[Mm(c)][op[c].v] = NoPte
<1> DEFINE q == op[c]
<1>1. q \in Op /\ OpOk(c) /\ q.at \in {"drop", "push"}
  BY DEF VInv, TypesOk, TypeOK, OpsOk, FreedStep
<1>2. q.v \in Page /\ q.f \in Frames /\ q.v \in 0 .. Top /\ shoot.by # c
      /\ (q.then # "tear" => Running(c) /\ q.who = None)
  BY <1>1, OpFacts DEF OpOk, FreeingOk, ShootingOk
<1>3. q.then \in {"user", "brk", "munmap", "tear"}
  BY <1>1, OpFacts
<1>4. q.then = "tear" =>
        /\ ~Running(c) /\ q.who \in Slots /\ leader[q.who] = q.who
        /\ state[q.who] = "exited" /\ pte[q.who][q.v].f = q.f
  BY <1>1 DEF OpOk, TearOk
<1>5. Freed(c)
  BY DEF FreedStep
<1>6. q.then = "tear" => SetsEntry(q.who, q.v, NoPte)
  <2> SUFFICES ASSUME q.then = "tear" PROVE SetsEntry(q.who, q.v, NoPte)
    OBVIOUS
  <2>1. pte' = [pte EXCEPT ![q.who][q.v] = NoPte]
    BY <1>5 DEF Freed
  <2> QED BY <2>1, <1>2, <1>4, EntryFacts, EntryDoes DEF VInv
<1>7. q.then # "tear" => UNCHANGED pte
  BY <1>5 DEF Freed
<1>8. \E o : SetsOp(c, o) /\ After(c, o)
  <2>1. CASE q.then = "munmap"
    <3>1. Go(c, At("shoot", q.v))
      BY <2>1, <1>5 DEF Freed
    <3>2. Doing(At("shoot", q.v), "shoot", q.v, NoPte, None, "user", None)
      BY <1>2, OpForms DEF Ats
    <3>3. After(c, At("shoot", q.v)) /\ At("shoot", q.v) \in Op
      BY <3>2, <2>1 DEF After, Doing
    <3> QED BY <3>1, <3>3, GoDoes DEF VInv
  <2>2. CASE q.then = "tear"
    <3>1. PICK o : o = [At("tear", q.v + 1) EXCEPT !.who = q.who]
      OBVIOUS
    <3>2. Go(c, o)
      BY <3>1, <2>2, <1>5 DEF Freed
    <3>3. q.v + 1 \in 0 .. Top
      BY <1>2, VmAssumption DEF Page
    <3>4. Doing(o, "tear", q.v + 1, NoPte, None, "user", q.who)
      BY <3>1, <3>3, <2>2, <1>4, OpForms
    <3>5. After(c, o) /\ o \in Op
      BY <3>4, <2>2 DEF After, Doing
    <3> QED BY <3>2, <3>5, GoDoes DEF VInv
  <2>3. CASE q.then \in {"user", "brk"}
    <3>1. Go(c, User)
      BY <2>3, <1>5 DEF Freed
    <3>2. After(c, User) /\ User \in Op
      BY <2>3, OpFacts DEF After
    <3> QED BY <3>1, <3>2, GoDoes DEF VInv
  <2> QED BY <2>1, <2>2, <2>3, <1>3
<1>9. q.then # "brk" => UNCHANGED brk
  BY <1>5 DEF Freed
<1>10. ASSUME q.then = "brk"
       PROVE  /\ runs[c] = Mm(c) /\ runs[c] \in Slots /\ q.v \in 0 .. HeapTop
              /\ brk' = [brk EXCEPT ![runs[c]] = q.v]
              /\ brk[runs[c]] = q.v + 1 /\ pte[Mm(c)][q.v] = NoPte
  <2>1. Running(c) /\ runs[c] = Mm(c) /\ brk[runs[c]] = q.v + 1
        /\ pte[runs[c]][q.v] = NoPte
    BY <1>1, <1>10 DEF OpOk, ShrinkOk
  <2>2. runs[c] \in Slots /\ brk[runs[c]] \in 0 .. HeapTop /\ HeapTop \in Nat
    BY <2>1, Here, VmAssumption DEF VInv, TypesOk, TypeOK
  <2>3. q.v \in 0 .. HeapTop /\ brk[runs[c]] - 1 = q.v
    BY <2>1, <2>2, <1>2 DEF Page
  <2>4. brk' = [brk EXCEPT ![runs[c]] = @ - 1]
    BY <1>5, <1>10 DEF Freed
  <2> QED BY <2>1, <2>2, <2>3, <2>4
<1> QED BY <1>2, <1>4, <1>6, <1>7, <1>8, <1>9, <1>10

\* A frame let go, by whichever call, keeps the invariant.
LEMMA FreedKeeps ==
    ASSUME VInv, NEW c \in Cores, NEW f \in Frames, FreedStep(c, f)
    PROVE  VInv'
<1> DEFINE q == op[c]
<1>1. PICK o : SetsOp(c, o) /\ After(c, o)
  BY FreedDoes
<1>2. /\ UNCHANGED <<setting, state, leader, runs, mnext, tlb, shoot>>
      /\ Released(f) /\ q.f = f /\ q \in Op /\ q.at \in {"drop", "push"}
      /\ op' \in [Cores -> Op] /\ op'[c] = o
  BY <1>1 DEF FreedStep, VInv, TypesOk, TypeOK, SetsOp
<1>3. None \notin Frames /\ None \notin Slots
  BY VmAssumption
<1>4. q.then \in {"user", "brk", "munmap", "tear"}
  BY <1>2, OpFacts
<1>5. brk' \in [Slots -> 0 .. HeapTop]
  <2>1. brk \in [Slots -> 0 .. HeapTop]
    BY DEF VInv, TypesOk, TypeOK
  <2>2. CASE q.then = "brk"
    <3>1. brk' = [brk EXCEPT ![runs[c]] = q.v] /\ q.v \in 0 .. HeapTop
      BY <2>2, FreedDoes
    <3> QED BY <2>1, <3>1
  <2>3. CASE q.then # "brk"
    BY <2>1, <2>3, FreedDoes
  <2> QED BY <2>2, <2>3
<1>6. TypesOk'
  <2>1. pte' \in Tables
    BY FreedDoes DEF SetsEntry, VInv, TypesOk, TypeOK, Tables
  <2> QED BY <2>1, <1>2, <1>5 DEF VInv, TypesOk, TypeOK, Released, Tables
<1>7. EntriesOk' /\ LeadersOk' /\ AloneOk'
  <2>1. CASE q.then = "tear"
    <3>1. EntryFits(q.who, q.v, NoPte)
      BY EntryFacts DEF EntryFits, EntryOk
    <3> QED BY <3>1, <2>1, <1>2, FreedDoes, EntryKeeps
  <2>2. CASE q.then # "tear"
    BY <2>2, <1>2, FreedDoes DEF VInv, EntriesOk, LeadersOk, Blank, AloneOk
  <2> QED BY <2>1, <2>2
<1>8. RunsOk' /\ ShootOk' /\ FreeOk'
  BY <1>2 DEF VInv, RunsOk, Running, ShootOk, FreeOk, Released
<1>9. ModeOk'
  <2>1. \A p \in Slots, v \in Page : ~pte[p][v].cow => ~pte'[p][v].cow
    <3>1. ~NoPte.cow
      BY EntryFacts
    <3>2. CASE q.then = "tear"
      <4>1. SetsEntry(q.who, q.v, NoPte)
        BY <3>2, FreedDoes
      <4> QED BY <3>1, <4>1 DEF SetsEntry
    <3>3. CASE q.then # "tear"
      <4>1. pte' = pte
        BY <3>3, FreedDoes
      <4> QED BY <4>1
    <3> QED BY <3>2, <3>3
  <2>2. \A d \in Cores : op'[d] = op[d] \/ op'[d] = o
    BY <1>1 DEF SetsOp
  <2>3. o.then = "user" /\ o.at # "fork"
    BY <1>1, <1>4 DEF After
  <2> QED BY <2>1, <2>2, <2>3, <1>2 DEF VInv, ModeOk, Released
<1>10. ApartOk' /\ CoreStep(c)
  <2>1. o.who = None \/ o.who = q.who
    BY <1>1, <1>4 DEF After
  <2>2. Running(c) /\ o.at # "user" => o.v = q.v
    BY <1>1, <1>4, FreedDoes DEF After
  <2>3. OpFits(c, o)
    BY <2>1, <2>2, <1>1, <1>2, <1>4, ApartFacts DEF OpFits, VInv, ApartOk, Busy, After
  <2> QED BY <2>3, <1>1, <1>2, OpKeeps
<1>11. OpsOk'
  <2>1. OpOk(c)'
    <3>1. CASE q.then = "munmap"
      <4>1. o.at = "shoot" /\ o.v \in Page /\ o.who = None /\ o.f = None /\ o.then = "user"
            /\ Running(c)' /\ shoot'.by # c
        BY <3>1, <1>1, <1>2, FreedDoes DEF After, Running
      <4> QED BY <4>1, <1>2 DEF OpOk, FaultOk, Faulting, FreeingOk, ShootingOk, ShrinkOk,
                                ForkOk, TearOk
    <3>2. CASE q.then = "tear"
      <4>1. TearOk(c)
        BY DEF VInv, OpsOk, OpOk
      <4>2. o.at = "tear" /\ o.v = q.v + 1 /\ o.who = q.who /\ o.f = None /\ o.then = "user"
            /\ ~Running(c)' /\ shoot'.by # c
        BY <3>2, <1>1, <1>2, FreedDoes DEF After, Running
      <4>3. \A v \in Page : v < q.v + 1 => v < q.v \/ v = q.v
        BY FreedDoes DEF Page
      <4>4. \A v \in Page : v < o.v => pte'[q.who][v].is # "page"
        <5>1. SetsEntry(q.who, q.v, NoPte) /\ q.who \in Slots
          BY <3>2, FreedDoes
        <5>2. \A v \in Page : v < q.v => pte[q.who][v].is # "page"
          BY <4>1, <3>2 DEF TearOk
        <5>3. NoPte.is # "page"
          BY EntryFacts
        <5> QED BY <4>2, <4>3, <5>1, <5>2, <5>3 DEF SetsEntry
      <4>5. TearOk(c)'
        BY <4>1, <4>2, <4>4, <3>2, <1>2 DEF TearOk
      <4> QED BY <4>2, <4>5, <1>2 DEF OpOk, FaultOk, Faulting, FreeingOk, ShootingOk,
                                      ShrinkOk, ForkOk
    <3>3. CASE q.then \in {"user", "brk"}
      BY <3>3, <1>1, <1>2, FreedDoes, UserOk DEF After
    <3> QED BY <3>1, <3>2, <3>3, <1>4
  <2>2. ASSUME NEW d \in Cores, d # c PROVE OpOk(d)'
    <3>1. TablesKept(d)
      <4>1. CASE q.then = "tear"
        <5>1. Running(d) => Mm(d) \in Slots /\ Mm(d) # q.who
          BY <4>1, <1>3, FreedDoes, Foreign, Here
        <5>2. op[d].at = "fork" => Running(d)
          BY DEF VInv, OpsOk, OpOk, ForkOk
        <5>3. op[d].who # None => op[d].who \in Slots /\ op[d].who # q.who
          BY <2>2, Foreign DEF VInv, ApartOk
        <5> QED BY <4>1, <5>1, <5>2, <5>3, FreedDoes DEF TablesKept, SetsEntry
      <4>2. CASE q.then # "tear"
        BY <4>2, FreedDoes DEF TablesKept
      <4> QED BY <4>1, <4>2
    <3>2. Running(d) => brk'[runs[d]] = brk[runs[d]]
      <4>1. CASE q.then = "brk"
        <5>1. Running(c)
          BY <4>1, FreedDoes
        <5>2. Running(d) => runs[d] # runs[c] /\ runs[d] \in Slots
          BY <5>1, <2>2, Here DEF VInv, RunsOk
        <5> QED BY <4>1, <5>2, FreedDoes DEF VInv, TypesOk, TypeOK
      <4> QED BY <4>1, FreedDoes
    <3>3. OpOk(d)
      BY DEF VInv, OpsOk
    <3>4. op[d].at = "take" => op[d].e.f \in Frames
      <4> SUFFICES ASSUME op[d].at = "take" PROVE op[d].e.f \in Frames
        OBVIOUS
      <4>1. Running(d) /\ op[d].v \in Page /\ op[d].e = pte[Mm(d)][op[d].v] /\ op[d].e.is = "page"
        BY <3>3 DEF OpOk, FaultOk, Faulting
      <4> QED BY <4>1, Here DEF VInv, EntriesOk, EntryOk
    <3>5. op[d].at = "push" => op[d].f \in Frames
      BY <3>3 DEF OpOk, FreeingOk
    <3>6. Undisturbed(d)
      BY <3>1, <3>2, <3>4, <3>5, <2>2, <1>1, <1>2
         DEF Undisturbed, SetsOp, TablesKept, Released
    <3> QED BY <3>6, OthersOk
  <2> QED BY <2>1, <2>2 DEF OpsOk
<1>12. OwnersCounted'
  <2>1. ASSUME NEW g \in Frames PROVE Maps(g)' + Owe(g)' = Owners(g)'
    <3>1. Owners(g)' + Bit(q.f = g) = Owners(g)
      <4>1. Owners(g) \in Nat
        BY Bounds
      <4>2. CASE q.f = g
        BY <4>2, <1>2 DEF Bit, Released
      <4>3. CASE q.f # g
        BY <4>1, <4>3, <1>2 DEF Bit, Released
      <4> QED BY <4>2, <4>3
    <3>2. Owe(g)' + Bit(Owes(q, g)) = Owe(g) + Bit(Owes(o, g))
      BY <1>1, OweChange
    <3>3. ~Owes(o, g)
      BY <1>1, <1>3 DEF Owes, After
    <3>4. Maps(g) \in Nat /\ Owe(g) \in Nat /\ Maps(g) + Owe(g) = Owners(g)
          /\ Maps(g)' \in Nat /\ Owe(g)' \in Nat
      BY Bounds, Finite DEF Maps, Owe
    <3>7. Owners(g) \in Nat /\ Owners(g)' \in Nat
      BY <1>2, Bounds DEF Owners, Released
    <3>5. CASE q.then = "tear"
      <4>1. Maps(g)' + Bit(q.f = g) = Maps(g) + Bit(NoPte.f = g)
        BY <3>5, FreedDoes, MapsChange
      <4>2. NoPte.f # g /\ ~Owes(q, g)
        BY <1>3, <3>5, EntryFacts DEF Owes
      <4>3. Bit(Owes(q, g)) = 0 /\ Bit(Owes(o, g)) = 0 /\ Bit(NoPte.f = g) = 0
            /\ Bit(q.f = g) \in {0, 1}
        BY <3>3, <4>2 DEF Bit
      <4> QED BY <3>1, <3>2, <3>4, <4>1, <4>3, <3>7
    <3>6. CASE q.then # "tear"
      <4>0. pte' = pte
        BY <3>6, FreedDoes
      <4>1. Maps(g)' = Maps(g)
        BY <4>0 DEF Maps, MapsOf
      <4>2. Owes(q, g) <=> q.f = g
        BY <3>6 DEF Owes
      <4>3. Bit(Owes(q, g)) = Bit(q.f = g) /\ Bit(Owes(o, g)) = 0
            /\ Bit(q.f = g) \in {0, 1}
        BY <3>3, <4>2 DEF Bit
      <4> QED BY <3>1, <3>2, <3>4, <4>1, <4>3, <3>7
    <3> QED BY <3>5, <3>6
  <2> QED BY <2>1, CountedNext
<1>13. BoundsOk'
  <2>1. ASSUME NEW p \in Slots, NEW u \in Page PROVE BoundFine(p, u)'
    <3>1. Alive(p)' = Alive(p) /\ leader' = leader /\ state' = state /\ mnext' = mnext
      BY <1>2 DEF Alive
    <3>2. CASE q.then = "brk" /\ p = Mm(c)
      <4>1. p = runs[c] /\ brk'[p] = q.v /\ brk[p] = q.v + 1 /\ pte' = pte
            /\ pte[p][q.v] = NoPte /\ q.v \in Page /\ Running(c)
        BY <3>2, FreedDoes DEF VInv, TypesOk, TypeOK
      <4>2. ASSUME Shrinking(p, u) PROVE u = q.v
        <5>1. PICK x \in Cores : op[x].v = u /\ op[x].then = "brk" /\ Mm(x) = p
          BY <4>2 DEF Shrinking
        <5>2. Running(x) /\ runs[x] = p
          BY <5>1 DEF VInv, OpsOk, OpOk, ShrinkOk
        <5>3. x = c
          BY <5>2, <4>1 DEF VInv, RunsOk
        <5> QED BY <5>1, <5>3
      <4>3. BoundFine(p, u)
        BY DEF VInv, BoundsOk
      <4>4. u < q.v => u < brk[p] /\ u # q.v
        BY <4>1 DEF Page
      <4>5. q.v <= u => u = q.v \/ brk[p] <= u
        BY <4>1 DEF Page
      <4> QED BY <3>1, <4>1, <4>2, <4>3, <4>4, <4>5, EntryFacts DEF BoundFine
    <3>3. CASE ~(q.then = "brk" /\ p = Mm(c))
      <4>1. brk'[p] = brk[p]
        BY <3>3, FreedDoes DEF VInv, TypesOk, TypeOK
      <4>2. CASE pte'[p][u] = pte[p][u]
        BY <4>1, <4>2, <3>1, <3>3, <1>10, BoundFrame
      <4>3. CASE pte'[p][u] # pte[p][u]
        <5>1. q.then = "tear" /\ p = q.who
          BY <4>3, FreedDoes DEF SetsEntry
        <5>2. state[p] = "exited" /\ \A s \in Slots : leader[s] = p => state[s] # "live"
          BY <5>1, <1>2 DEF VInv, OpsOk, OpOk, TearOk
        <5> QED BY <5>2, <3>1, <1>2 DEF BoundFine, Alive
      <4> QED BY <4>2, <4>3
    <3> QED BY <3>2, <3>3
  <2> QED BY <2>1 DEF BoundsOk
<1>14. TlbOk'
  <2>1. ASSUME NEW d \in Cores, NEW u \in Page PROVE TlbFine(d, u)'
    <3>1. Running(d)' => Running(d) /\ Mm(d)' = Mm(d)
      BY <1>2 DEF Running, Mm
    <3>2. Running(d) => pte'[Mm(d)][u] = pte[Mm(d)][u]
      <4>1. CASE q.then = "tear"
        <5>1. Running(d) => Mm(d) \in Slots /\ Mm(d) # q.who
          BY <4>1, <1>3, FreedDoes, Foreign, Here
        <5> QED BY <4>1, <5>1, FreedDoes DEF SetsEntry
      <4> QED BY <4>1, FreedDoes
    <3>3. Own(c, u) => Own(c, u)'
      BY <1>1, <1>2 DEF Own, After
    <3> QED BY <3>1, <3>2, <3>3, <1>2, <1>10, TlbFrame
  <2> QED BY <2>1 DEF TlbOk
<1> QED BY <1>6, <1>7, <1>8, <1>9, <1>10, <1>11, <1>12, <1>13, <1>14 DEF VInv

\* free_frame's first section.
LEMMA DropKeeps ==
    ASSUME VInv, NEW c \in Cores, Drop(c)
    PROVE  VInv'
<1>0. PICK f : f = op[c].f
  OBVIOUS
<1>1. f = op[c].f /\ f \in Frames /\ op[c].at = "drop"
  BY <1>0 DEF VInv, OpsOk, OpOk, FreeingOk, Drop
<1>2. CASE refc[f] > 0 /\ refc' = [refc EXCEPT ![f] = @ - 1] /\ Freed(c)
  <2>1. refc \in [Frames -> Nat] /\ free \subseteq Frames
        /\ data \in [Frames -> Value \cup {Link}] /\ free' = free /\ data' = data
    BY DEF VInv, TypesOk, TypeOK, Drop
  <2>2. refc' \in [Frames -> Nat] /\ refc'[f] + 1 = refc[f]
        /\ \A g \in Frames : g # f => refc'[g] = refc[g]
    BY <1>1, <1>2, <2>1
  <2>3. \A g \in free : refc[g] = 0
    BY DEF VInv, FreeOk
  <2>4. f \notin free
    BY <1>2, <2>3
  <2>5. \A g \in Frames : (Owners(g)' = IF g \in free THEN 0 ELSE refc'[g] + 1)
                       /\ (Owners(g) = IF g \in free THEN 0 ELSE refc[g] + 1)
    BY <2>1 DEF Owners
  <2>6. Owners(f)' + 1 = Owners(f) /\ \A g \in Frames : g # f => Owners(g)' = Owners(g)
    BY <1>1, <2>1, <2>2, <2>4, <2>5
  <2>7. \A g \in Frames : refc[g] = 0 => refc'[g] = 0
    BY <1>1, <1>2, <2>2
  <2>8. \A g \in free' : refc'[g] = 0
    BY <2>1, <2>3, <2>7
  <2>9. Released(f)
    BY <2>1, <2>2, <2>6, <2>7, <2>8 DEF Released
  <2> QED BY <1>1, <1>2, <2>9, FreedKeeps DEF FreedStep, Drop, taskVars
<1>3. CASE refc[f] = 0 /\ Go(c, [op[c] EXCEPT !.at = "push"]) /\ UNCHANGED <<refc, brk, pte>>
  BY <1>1, <1>3, PushDueKeeps DEF PushDue, Drop, taskVars
<1> QED BY <1>1, <1>2, <1>3 DEF Drop

\* free_frame's second section: the frame is not on the list already.
LEMMA PushKeeps ==
    ASSUME VInv, NEW c \in Cores, Push(c)
    PROVE  VInv'
<1>0. PICK f : f = op[c].f
  OBVIOUS
<1>1. f = op[c].f /\ f \in Frames /\ op[c].at = "push" /\ refc[f] = 0 /\ op[c].v \in Page
  BY <1>0 DEF VInv, OpsOk, OpOk, FreeingOk, Push
<1>2. f \notin free
  <2>1. CASE op[c].then = "tear"
    <3>1. op[c].who \in Slots /\ pte[op[c].who][op[c].v].f = f
      BY <2>1, <1>1 DEF VInv, OpsOk, OpOk, TearOk
    <3> QED BY <3>1, <1>1, SoleOwner
  <2>2. CASE op[c].then # "tear"
    <3>1. Owes(op[c], f)
      BY <2>2, <1>1 DEF Owes
    <3> QED BY <3>1, <1>1, SoleOwner
  <2> QED BY <2>1, <2>2
<1>3. free' = free \cup {f} /\ data' = [data EXCEPT ![f] = Link] /\ Freed(c)
      /\ UNCHANGED <<setting, state, leader, runs, mnext, refc, tlb, shoot>>
  BY <1>1, <1>2 DEF Push, taskVars
<1>4. refc \in [Frames -> Nat] /\ free \subseteq Frames
      /\ data \in [Frames -> Value \cup {Link}] /\ \A g \in free : refc[g] = 0
  BY DEF VInv, TypesOk, TypeOK, FreeOk
<1>5. Released(f)
  <2>1. \A g \in Frames : (Owners(g)' = IF g \in free' THEN 0 ELSE refc[g] + 1)
                       /\ (Owners(g) = IF g \in free THEN 0 ELSE refc[g] + 1)
    BY <1>3 DEF Owners
  <2>2. Owners(f)' + 1 = Owners(f) /\ \A g \in Frames : g # f => Owners(g)' = Owners(g)
    BY <1>1, <1>2, <1>3, <2>1
  <2>3. data' \in [Frames -> Value \cup {Link}]
    BY <1>3, <1>4
  <2> QED BY <1>1, <1>3, <1>4, <2>2, <2>3 DEF Released
<1> QED BY <1>1, <1>3, <1>5, FreedKeeps DEF FreedStep

-----------------------------------------------------------------------------
(* tlb_shootdown_range. *)

\* A translation of an entry the step leaves alone, which a shootdown under way
\* had still to reach before the step and has after it.
LEMMA ShootFrame ==
    ASSUME VInv, UNCHANGED <<leader, runs, pte>>, NEW d \in Cores, NEW u \in Page,
           tlb'[d][u] # NoTr => tlb'[d][u] = tlb[d][u],
           \A x \in Cores \ {d} :
              /\ op[x].v = u
              /\ op[x].at = "shoot" \/ (op[x].at = "wait" /\ d \in shoot.pending)
              => /\ op'[x].v = u /\ op'[x].f = op[x].f
                 /\ op'[x].at = "shoot" \/ (op'[x].at = "wait" /\ d \in shoot'.pending),
           tlb'[d][u] # NoTr /\ Own(d, u) => Own(d, u)'
    PROVE  TlbFine(d, u)'
<1> SUFFICES ASSUME Running(d)', tlb'[d][u] # NoTr
             PROVE  \/ Match(tlb[d][u], pte[Mm(d)][u])'
                    \/ Stale(d, u, tlb[d][u])' \/ Own(d, u)'
  BY DEF TlbFine
<1>1. TlbFine(d, u) /\ Running(d) /\ tlb[d][u] # NoTr /\ tlb'[d][u] = tlb[d][u]
      /\ \A x \in Cores : Mm(x)' = Mm(x) /\ Running(x)' = Running(x)
  BY DEF VInv, TlbOk, Running, Mm
<1>2. CASE Match(tlb[d][u], pte[Mm(d)][u])
  BY <1>1, <1>2
<1>3. CASE Stale(d, u, tlb[d][u])
  <2>1. PICK x \in Cores \ {d} :
           /\ Running(x) /\ Mm(x) = Mm(d) /\ op[x].v = u
           /\ op[x].at = "shoot" \/ (op[x].at = "wait" /\ d \in shoot.pending)
           /\ op[x].f = tlb[d][u].f
              \/ (pte[Mm(d)][u].is = "page" /\ pte[Mm(d)][u].f = tlb[d][u].f)
    BY <1>3 DEF Stale
  <2>2. op'[x].v = u /\ op'[x].f = op[x].f
        /\ (op'[x].at = "shoot" \/ (op'[x].at = "wait" /\ d \in shoot'.pending))
    BY <2>1
  <2>3. Stale(d, u, tlb[d][u])'
    BY <2>1, <2>2, <1>1 DEF Stale
  <2> QED BY <2>3
<1>4. CASE Own(d, u)
  BY <1>1, <1>4
<1> QED BY <1>1, <1>2, <1>3, <1>4 DEF TlbFine

\* A shootdown begins.
LEMMA PostKeeps ==
    ASSUME VInv, NEW c \in Cores, Post(c)
    PROVE  VInv'
<1> DEFINE q == op[c]
<1>1. PICK o : o = [q EXCEPT !.at = "wait"]
  OBVIOUS
<1>2. q \in Op /\ q.at = "shoot" /\ OpOk(c) /\ shoot.by = None
  BY DEF VInv, TypesOk, TypeOK, Post, OpsOk
<1>3. Doing(o, "wait", q.v, q.e, q.f, q.then, q.who)
  BY <1>1, <1>2, OpChanges DEF Ats
<1>4. o \in Op /\ o.at = "wait" /\ o.v = q.v /\ o.f = q.f /\ o.then = q.then /\ o.who = q.who
  BY <1>3 DEF Doing
<1>5. Running(c) /\ q.v \in Page /\ q.who = None /\ q.then \in {"user", "brk"}
  BY <1>2 DEF OpOk, ShootingOk
<1>6. /\ SetsOp(c, o) /\ op'[c] = o
      /\ UNCHANGED <<setting, state, leader, brk, mnext, pte, free, refc, data, runs>>
  BY <1>1, <1>4, GoDoes DEF Post, VInv, mmVars, taskVars, SetsOp
<1>7. shoot' = [by |-> c, pending |-> Cores \ {c}] /\ None \notin Cores
  BY VmAssumption DEF Post
<1>8. SetsTlb(c, q.v, NoTr) /\ tlb' \in Cached /\ TlbFrames'
  BY <1>5, FlushDoes, FlushTypes DEF Post, VInv
<1>9. OpFits(c, o)
  BY <1>2, <1>4, <1>5, ApartFacts DEF OpFits, Busy
<1>10. ChangesNothing(c, o)
  BY <1>2, <1>4, <1>6, <1>7, <1>8 DEF ChangesNothing, Owes
<1>11. ShootOk'
  BY <1>7 DEF ShootOk
<1>12. OpOk(c)'
  <2>1. Running(c)' /\ Mm(c)' = Mm(c)
    BY <1>5, <1>6 DEF Running, Mm
  <2>2. ShootingOk(c)'
    BY <2>1, <1>2, <1>4, <1>5, <1>6, <1>7 DEF OpOk, ShootingOk
  <2>3. ShrinkOk(c)'
    BY <2>1, <1>2, <1>4, <1>6 DEF OpOk, ShrinkOk
  <2> QED BY <2>2, <2>3, <1>4, <1>5, <1>6
          DEF OpOk, FaultOk, Faulting, FreeingOk, ForkOk, TearOk
<1>13. ASSUME NEW d \in Cores, NEW u \in Page PROVE TlbFine(d, u)'
  <2>1. tlb'[d][u] # NoTr => tlb'[d][u] = tlb[d][u]
    BY <1>8 DEF SetsTlb
  <2>2. ASSUME NEW x \in Cores \ {d}, op[x].v = u,
               op[x].at = "shoot" \/ (op[x].at = "wait" /\ d \in shoot.pending)
        PROVE  /\ op'[x].v = u /\ op'[x].f = op[x].f
               /\ op'[x].at = "shoot" \/ (op'[x].at = "wait" /\ d \in shoot'.pending)
    <3>1. CASE x = c
      BY <2>2, <3>1, <1>4, <1>6, <1>7
    <3>2. CASE x # c
      <4>1. op[x].at # "wait"
        BY <1>2, <1>7 DEF VInv, OpsOk, OpOk, ShootingOk
      <4> QED BY <2>2, <3>2, <4>1, <1>6 DEF SetsOp
    <3> QED BY <3>1, <3>2
  <2>3. tlb'[d][u] # NoTr /\ Own(d, u) => Own(d, u)'
    BY <1>6, <1>8 DEF Own, SetsOp, SetsTlb
  <2> QED BY <2>1, <2>2, <2>3, <1>6, ShootFrame
<1> QED BY <1>8, <1>9, <1>10, <1>11, <1>12, <1>13, PureStep DEF TlbOk

\* A core answers a shootdown.
LEMMA AckKeeps ==
    ASSUME VInv, NEW c \in Cores, Ack(c)
    PROVE  VInv'
<1>1. PICK b : b = shoot.by
  OBVIOUS
<1>2. c \in shoot.pending /\ shoot \in [by : Cores \cup {None}, pending : SUBSET Cores]
  BY DEF Ack, VInv, TypesOk
<1>3. b \in Cores /\ b # c
  BY <1>1, <1>2 DEF VInv, ShootOk
<1>4. op[b].at = "wait" /\ op[b].v \in Page
      /\ \A x \in Cores : op[x].at = "wait" => x = b
  BY <1>1, <1>3 DEF VInv, OpsOk, OpOk, ShootingOk
<1>5. shoot' = [shoot EXCEPT !.pending = @ \ {c}]
      /\ UNCHANGED <<setting, state, leader, brk, mnext, pte, free, refc, data, runs, op>>
  BY DEF Ack, mmVars, taskVars
<1>6. shoot'.by = b /\ shoot'.pending = shoot.pending \ {c}
      /\ shoot' \in [by : Cores \cup {None}, pending : SUBSET Cores]
  BY <1>1, <1>2, <1>5
<1>7. SetsTlb(c, op[b].v, NoTr) /\ tlb' \in Cached /\ TlbFrames'
  BY <1>1, <1>4, FlushDoes, FlushTypes DEF Ack, VInv
<1>8. ASSUME NEW d \in Cores, NEW u \in Page PROVE TlbFine(d, u)'
  <2>1. tlb'[d][u] # NoTr => tlb'[d][u] = tlb[d][u]
    BY <1>7 DEF SetsTlb
  <2>2. CASE d = c /\ u = op[b].v
    BY <2>2, <1>7 DEF SetsTlb, TlbFine
  <2>3. CASE ~(d = c /\ u = op[b].v)
    <3>1. ASSUME NEW x \in Cores \ {d}, op[x].v = u,
                 op[x].at = "shoot" \/ (op[x].at = "wait" /\ d \in shoot.pending)
          PROVE  /\ op'[x].v = u /\ op'[x].f = op[x].f
                 /\ op'[x].at = "shoot" \/ (op'[x].at = "wait" /\ d \in shoot'.pending)
      BY <3>1, <2>3, <1>4, <1>5, <1>6
    <3>2. Own(d, u) => Own(d, u)'
      BY <1>5 DEF Own
    <3> QED BY <2>1, <3>1, <3>2, <1>5, ShootFrame
  <2> QED BY <2>2, <2>3
<1>9. ShootOk'
  BY <1>1, <1>3, <1>6, VmAssumption DEF VInv, ShootOk
<1>10. op[c] \in Op /\ SetsOp(c, op[c])
  BY <1>5 DEF VInv, TypesOk, TypeOK, SetsOp
<1>11. OpFits(c, op[c])
  BY <1>10, ApartFacts DEF OpFits, VInv, ApartOk, Busy, ModeOk
<1>12. ChangesNothing(c, op[c])
  BY <1>1, <1>5, <1>6, <1>7, <1>10 DEF ChangesNothing
<1>13. OpOk(c)'
  <2>1. Undisturbed(c)
    BY <1>1, <1>5, <1>6 DEF Undisturbed
  <2> QED BY <2>1, OthersOk
<1> QED BY <1>7, <1>8, <1>9, <1>11, <1>12, <1>13, PureStep DEF TlbOk

\* A shootdown has all its answers.
LEMMA AckedKeeps ==
    ASSUME VInv, NEW c \in Cores, Acked(c)
    PROVE  VInv'
<1> DEFINE q == op[c]
<1>1. PICK o : o = IF q.then = "brk" THEN [q EXCEPT !.at = "drop"] ELSE User
  OBVIOUS
<1>2. q \in Op /\ q.at = "wait" /\ OpOk(c) /\ shoot.pending = {} /\ shoot.by = c
  BY DEF VInv, TypesOk, TypeOK, Acked, OpsOk, OpOk, ShootingOk
<1>3. Running(c) /\ q.v \in Page /\ q.who = None /\ q.then \in {"user", "brk"}
      /\ (q.f = None <=> q.then = "user")
  BY <1>2 DEF OpOk, ShootingOk
<1>4. o \in Op /\ o.f = q.f /\ o.then = q.then /\ o.who = None
      /\ (q.then = "brk" => o.at = "drop" /\ o.v = q.v)
      /\ (q.then # "brk" => o = User /\ o.at = "user")
  <2>1. CASE q.then = "brk"
    <3>1. Doing(o, "drop", q.v, q.e, q.f, q.then, q.who)
      BY <1>1, <1>2, <2>1, OpChanges DEF Ats
    <3> QED BY <3>1, <2>1, <1>3 DEF Doing
  <2>2. CASE q.then # "brk"
    BY <2>2, <1>1, <1>3, OpFacts
  <2> QED BY <2>1, <2>2
<1>5. /\ SetsOp(c, o) /\ op'[c] = o
      /\ UNCHANGED <<setting, state, leader, brk, mnext, pte, free, refc, data, runs, tlb>>
  BY <1>1, <1>4, GoDoes DEF Acked, VInv, mmVars, taskVars, SetsOp
<1>6. shoot' = [by |-> None, pending |-> {}] /\ None \notin Cores
  BY VmAssumption DEF Acked
<1>7. tlb' \in Cached /\ TlbFrames'
  BY <1>5, FlushTypes DEF VInv, TypesOk, TypeOK, Cached, Translation
<1>8. OpFits(c, o)
  BY <1>2, <1>3, <1>4, ApartFacts DEF OpFits, Busy
<1>9. ChangesNothing(c, o)
  BY <1>2, <1>4, <1>5, <1>6, <1>7 DEF ChangesNothing, Owes
<1>10. ShootOk'
  BY <1>6 DEF ShootOk
<1>11. OpOk(c)'
  <2>1. Running(c)' /\ Mm(c)' = Mm(c) /\ q.f \in Frames \cup {None}
    BY <1>2, <1>3, <1>5, OpFacts DEF Running, Mm
  <2>2. CASE q.then = "brk"
    <3>1. FreeingOk(c)'
      BY <2>1, <2>2, <1>3, <1>4, <1>5 DEF FreeingOk
    <3>2. ShrinkOk(c)'
      BY <2>1, <2>2, <1>2, <1>4, <1>5 DEF OpOk, ShrinkOk
    <3> QED BY <3>1, <3>2, <2>2, <1>4, <1>5, <1>6
            DEF OpOk, FaultOk, Faulting, ShootingOk, ForkOk, TearOk
  <2>3. CASE q.then # "brk"
    BY <2>3, <1>4, <1>5, <1>6, UserOk
  <2> QED BY <2>2, <2>3
<1>12. ASSUME NEW d \in Cores, NEW u \in Page PROVE TlbFine(d, u)'
  <2>1. ASSUME NEW x \in Cores \ {d}, op[x].v = u,
               op[x].at = "shoot" \/ (op[x].at = "wait" /\ d \in shoot.pending)
        PROVE  /\ op'[x].v = u /\ op'[x].f = op[x].f
               /\ op'[x].at = "shoot" \/ (op'[x].at = "wait" /\ d \in shoot'.pending)
    BY <2>1, <1>2, <1>5 DEF SetsOp
  <2>2. Own(d, u) => Own(d, u)'
    BY <1>2, <1>5 DEF Own, SetsOp
  <2> QED BY <2>1, <2>2, <1>5, ShootFrame
<1> QED BY <1>7, <1>8, <1>9, <1>10, <1>11, <1>12, PureStep DEF TlbOk

-----------------------------------------------------------------------------
(* A step of a core at one entry of its process. *)

\* The core works on the page alone, and moves its entry and its operation.
EntryStep(c, p, v, e, o) ==
    /\ Running(c) /\ p = Mm(c) /\ v \in Page /\ Apart(c, v)
    /\ op[c].at \notin {"shoot", "wait", "drop", "push"} /\ op[c].then = "user"
    /\ SetsEntry(p, v, e) /\ SetsOp(c, o)
    /\ UNCHANGED <<setting, state, leader, runs, refc, shoot>>
    /\ free' \subseteq free /\ data' \in [Frames -> Value \cup {Link}]
    /\ brk' \in [Slots -> 0 .. HeapTop] /\ mnext' \in [Slots -> HeapTop .. Top]
    /\ \A q \in Slots : q # p => brk'[q] = brk[q] /\ mnext'[q] = mnext[q]
    /\ brk'[p] # brk[p] => runs[c] = p
    /\ tlb' \in Cached /\ (tlb' = tlb \/ SetsTlb(c, v, NoTr))

\* What has to hold of the entry, of the operation and of the counts.
StepFits(c, p, v, e, o) ==
    /\ EntryFits(p, v, e) /\ OpFits(c, o)
    /\ "fork" \notin setting.calls => ~e.cow
    /\ \A f \in Frames :
          Owners(f)' + Bit(pte[p][v].f = f) + Bit(Owes(op[c], f))
             = Owners(f) + Bit(e.f = f) + Bit(Owes(o, f))

\* A step that changes one entry of the core's own process keeps the invariant, when
\* entry, operation, counts, bounds and translations fit.
LEMMA EntryStepKeeps ==
    ASSUME VInv, Orderly, NEW c \in Cores, NEW p \in Slots, NEW v \in Page, NEW e, NEW o,
           EntryStep(c, p, v, e, o), StepFits(c, p, v, e, o), OpOk(c)',
           \A u \in Page : BoundFine(p, u)' \/ (u # v /\ brk'[p] = brk[p] /\ mnext'[p] = mnext[p]),
           \A d \in Cores : Running(d) /\ Mm(d) = p => TlbFine(d, v)'
    PROVE  VInv'
<1>1. /\ Running(c) /\ p = Mm(c) /\ Apart(c, v) /\ SetsEntry(p, v, e) /\ SetsOp(c, o)
      /\ UNCHANGED <<setting, state, leader, runs, refc, shoot>>
      /\ op' \in [Cores -> Op] /\ pte' \in Tables /\ e \in Pte
      /\ op[c].at \notin {"shoot", "wait", "drop", "push"} /\ op[c].then = "user"
      /\ EntryFits(p, v, e) /\ OpFits(c, o) /\ free' \subseteq free
  BY DEF EntryStep, SetsOp, SetsEntry, StepFits, EntryFits
<1>2. leader[p] = p /\ state[p] # "free"
  BY <1>1, Here
<1>3. TlbFrames' /\ \A d \in Cores, u \in Page : tlb'[d][u] # NoTr => tlb'[d][u] = tlb[d][u]
  <2>1. CASE tlb' = tlb
    BY <2>1, FlushTypes
  <2>2. CASE SetsTlb(c, v, NoTr)
    BY <2>2, FlushTypes DEF SetsTlb
  <2> QED BY <2>1, <2>2 DEF EntryStep
<1>4. TypesOk'
  <2>1. free' \subseteq Frames
    BY <1>1 DEF VInv, TypesOk, TypeOK
  <2> QED BY <2>1, <1>1, <1>3
          DEF VInv, TypesOk, TypeOK, EntryStep, Tables, Cached, Translation, TlbFrames
<1>5. EntriesOk' /\ LeadersOk' /\ AloneOk'
  BY <1>1, <1>2, EntryKeeps
<1>6. RunsOk' /\ ShootOk' /\ FreeOk'
  BY <1>1 DEF VInv, RunsOk, Running, ShootOk, FreeOk
<1>7. ModeOk'
  <2>1. "fork" \notin setting.calls => \A q \in Slots, u \in Page : ~pte'[q][u].cow
    BY <1>1 DEF StepFits, SetsEntry, VInv, ModeOk
  <2>2. \A d \in Cores : /\ op'[d].then = "munmap" => "munmap" \in setting.calls
                         /\ op'[d].at = "fork" => "fork" \in setting.calls
    BY <1>1 DEF SetsOp, OpFits, VInv, ModeOk
  <2> QED BY <2>1, <2>2, <1>1 DEF VInv, ModeOk
<1>8. ApartOk' /\ CoreStep(c)
  BY <1>1, OpKeeps
<1>9. OpsOk'
  <2>1. ASSUME NEW d \in Cores, d # c PROVE OpOk(d)'
    <3>1. TablesKept(d)
      BY <1>1, <2>1, OwnEntry
    <3>2. Running(d) /\ op[d].then = "brk" => brk'[runs[d]] = brk[runs[d]]
      <4> SUFFICES ASSUME Running(d), op[d].then = "brk" PROVE brk'[runs[d]] = brk[runs[d]]
        OBVIOUS
      <4>0. runs[d] \in Slots
        BY Here
      <4>1. runs[d] = Mm(d) /\ op[d].v + 1 = brk[runs[d]]
        BY DEF VInv, OpsOk, OpOk, ShrinkOk
      <4>2. CASE Mm(d) # p
        BY <4>0, <4>1, <4>2 DEF EntryStep
      <4>3. CASE Mm(d) = p
        <5>1. runs[c] # p
          BY <2>1, <4>1, <4>3, <1>1 DEF VInv, RunsOk
        <5> QED BY <5>1, <4>1, <4>3 DEF EntryStep
      <4> QED BY <4>2, <4>3
    <3>3. Undisturbed(d)
      BY <3>1, <3>2, <2>1, <1>1 DEF Undisturbed, TablesKept, SetsOp
    <3> QED BY <3>3, OthersOk
  <2> QED BY <2>1 DEF OpsOk
<1>10. OwnersCounted'
  <2>1. ASSUME NEW f \in Frames PROVE Maps(f)' + Owe(f)' = Owners(f)'
    <3>1. refc' \in [Frames -> Nat]
      BY <1>4 DEF TypesOk, TypeOK
    <3>2. Owners(f)' + Bit(pte[p][v].f = f) + Bit(Owes(op[c], f))
             = Owners(f) + Bit(e.f = f) + Bit(Owes(o, f))
      BY DEF StepFits
    <3> QED BY <3>1, <3>2, <1>1, CountStep
  <2> QED BY <2>1, CountedNext
<1>11. BoundsOk'
  <2>1. ASSUME NEW q \in Slots, NEW u \in Page,
               q # p \/ (u # v /\ brk'[p] = brk[p] /\ mnext'[p] = mnext[p])
        PROVE  BoundFine(q, u)'
    <3>1. Alive(q)' = Alive(q) /\ leader' = leader /\ state' = state
      BY <1>1 DEF Alive
    <3>2. brk'[q] = brk[q] /\ mnext'[q] = mnext[q] /\ pte'[q][u] = pte[q][u]
      BY <1>1, <2>1 DEF EntryStep, SetsEntry
    <3> QED BY <3>1, <3>2, <1>1, <1>8, BoundFrame
  <2> QED BY <2>1 DEF BoundsOk
<1>12. TlbOk'
  <2>1. ASSUME NEW d \in Cores, NEW u \in Page, ~(Running(d) /\ Mm(d) = p /\ u = v)
        PROVE  TlbFine(d, u)'
    <3>1. Running(d)' => Running(d) /\ Mm(d)' = Mm(d)
      BY <1>1 DEF Running, Mm
    <3>2. Running(d) => pte'[Mm(d)][u] = pte[Mm(d)][u]
      BY <2>1, <1>1, Here DEF SetsEntry
    <3>3. ~Own(c, u)
      BY <1>1 DEF Own
    <3> QED BY <3>1, <3>2, <3>3, <1>1, <1>3, <1>8, TlbFrame
  <2> QED BY <2>1 DEF TlbOk
<1> QED BY <1>4, <1>5, <1>6, <1>7, <1>8, <1>9, <1>10, <1>11, <1>12 DEF VInv

\* Nobody has cached the page, and nobody is shrinking the heap over it.
LEMMA Uncached ==
    ASSUME VInv, NEW c \in Cores, Running(c), NEW v \in Page, Apart(c, v),
           op[c].at \notin {"shoot", "wait", "drop", "push"},
           NEW d \in Cores, Running(d), Mm(d) = Mm(c), tlb[d][v] # NoTr
    PROVE  Match(tlb[d][v], pte[Mm(c)][v])
<1>1. TlbFine(d, v)
  BY DEF VInv, TlbOk
<1>2. ~Own(d, v)
  BY DEF Own, Apart, Busy
<1>3. ~Stale(d, v, tlb[d][v])
  <2> SUFFICES ASSUME Stale(d, v, tlb[d][v]) PROVE FALSE
    OBVIOUS
  <2>1. PICK x \in Cores \ {d} :
           /\ Running(x) /\ Mm(x) = Mm(d) /\ op[x].v = v
           /\ op[x].at = "shoot" \/ op[x].at = "wait"
    BY DEF Stale
  <2> QED BY <2>1 DEF Apart, Busy
<1> QED BY <1>1, <1>2, <1>3 DEF TlbFine

\* No core of the process shrinks the break over the page.
LEMMA Unshrunk ==
    ASSUME VInv, NEW c \in Cores, NEW v \in Page, Apart(c, v), op[c].then = "user"
    PROVE  ~Shrinking(Mm(c), v)
<1> SUFFICES ASSUME Shrinking(Mm(c), v) PROVE FALSE
  OBVIOUS
<1>1. PICK x \in Cores : op[x].v = v /\ op[x].then = "brk" /\ Mm(x) = Mm(c)
  BY DEF Shrinking
<1>2. Running(x) /\ Busy(x)
  BY <1>1 DEF VInv, OpsOk, OpOk, ShrinkOk, Busy
<1> QED BY <1>1, <1>2 DEF Apart

\* What a core in a fault knows.
LEMMA InFault ==
    ASSUME VInv, NEW c \in Cores, op[c].at \in Faulting
    PROVE  /\ Running(c) /\ op[c].v \in Page /\ Mm(c) \in Slots /\ Alive(Mm(c))
           /\ op[c].e = pte[Mm(c)][op[c].v] /\ op[c].e \in Pte /\ EntryOk(op[c].e)
           /\ op[c].f = None /\ op[c].then = "user" /\ op[c].who = None
           /\ shoot.by # c /\ Apart(c, op[c].v) /\ runs[c] \in Slots
           /\ op[c].at = "zfod" => op[c].e.is = "zfod"
           /\ op[c].at # "zfod" => op[c].e.is = "page" /\ op[c].e.cow /\ op[c].e.f \in Frames
           /\ op[c].at = "take" => refc[op[c].e.f] = 0
<1> DEFINE q == op[c]
<1>1. OpOk(c) /\ q.at \in {"zfod", "cow", "take", "copy"}
  BY DEF VInv, OpsOk, Faulting
<1>2. /\ Running(c) /\ q.v \in Page /\ q.f = None /\ q.then = "user" /\ q.who = None
      /\ q.e = pte[Mm(c)][q.v] /\ shoot.by # c
      /\ q.at = "zfod" => q.e.is = "zfod"
      /\ q.at # "zfod" => q.e.is = "page" /\ q.e.cow
      /\ q.at = "take" => refc[q.e.f] = 0
  BY <1>1 DEF OpOk, FaultOk, ShootingOk, Faulting
<1>3. Mm(c) \in Slots /\ Alive(Mm(c)) /\ runs[c] \in Slots
  BY <1>2, Here
<1>4. q.e \in Pte /\ EntryOk(q.e)
  BY <1>2, <1>3 DEF VInv, TypesOk, TypeOK, EntriesOk
<1>5. q.e.is = "page" => q.e.f \in Frames
  BY <1>4 DEF EntryOk
<1>6. Apart(c, q.v)
  BY <1>1, <1>2, ApartFacts DEF Busy
<1> QED BY <1>1, <1>2, <1>3, <1>4, <1>5, <1>6

\* A page that is there, after the step, and was no heap hole before.
LEMMA BackedFine ==
    ASSUME VInv, NEW c \in Cores, Running(c), NEW p \in Slots, p = Mm(c),
           NEW v \in Page, pte[p][v].is # "none",
           UNCHANGED <<state, leader, brk, mnext>>,
           pte'[p][v].is = "page", pte'[p][v].w
    PROVE  BoundFine(p, v)'
<1>1. BoundFine(p, v) /\ Alive(p) /\ Alive(p)' = Alive(p)
  BY Here DEF VInv, BoundsOk, Alive
<1>2. pte[p][v] # NoPte
  BY EntryFacts
<1> QED BY <1>1, <1>2 DEF BoundFine

\* A promised page gets its frame.
LEMMA ZeroFillKeeps ==
    ASSUME VInv, Orderly, NEW c \in Cores, ZeroFill(c)
    PROVE  VInv'
<1> DEFINE q == op[c]
<1>1. PICK p, v, w : p = Mm(c) /\ v = q.v /\ w = q.e.w
  OBVIOUS
<1>2. q.at = "zfod"
  BY DEF ZeroFill
<1>3. /\ Running(c) /\ p \in Slots /\ v \in Page /\ w \in BOOLEAN /\ Apart(c, v)
      /\ pte[p][v].is = "zfod" /\ pte[p][v].f = None /\ q.f = None /\ q.then = "user"
      /\ shoot.by # c /\ runs[c] \in Slots
  <2>1. /\ Running(c) /\ p \in Slots /\ v \in Page /\ Apart(c, v)
        /\ q.e = pte[p][v] /\ q.e \in Pte /\ EntryOk(q.e) /\ q.e.is = "zfod"
        /\ q.f = None /\ q.then = "user" /\ shoot.by # c /\ runs[c] \in Slots
    BY <1>1, <1>2, InFault DEF Faulting
  <2>2. q.e.f = None /\ q.e.w \in BOOLEAN
    BY <2>1, EntryFacts DEF EntryOk
  <2> QED BY <2>1, <2>2, <1>1
<1>4. PICK f \in free : /\ Take(f, Zero)
                        /\ pte' = [pte EXCEPT ![p][v] = Backed(f, w, FALSE)]
  BY <1>1 DEF ZeroFill, Zeroed
<1>5. PICK e : e = Backed(f, w, FALSE)
  OBVIOUS
<1>6. f \in Frames /\ None \notin Frames
  BY VmAssumption DEF VInv, TypesOk, TypeOK
<1>7. e \in Pte /\ e.is = "page" /\ e.f = f /\ e.w = w /\ e.cow = FALSE
  BY <1>3, <1>5, <1>6 DEF Backed, Pte
<1>8. SetsEntry(p, v, e)
  BY <1>3, <1>4, <1>5, <1>7, EntryDoes DEF VInv
<1>9. SetsOp(c, User) /\ SetsTlb(c, v, NoTr) /\ tlb' \in Cached
      /\ UNCHANGED <<setting, state, leader, runs, brk, mnext, refc, shoot>>
  BY <1>1, <1>3, GoDoes, OpFacts, FlushDoes DEF ZeroFill, VInv, taskVars
<1>10. free' = free \ {f} /\ data' \in [Frames -> Value \cup {Link}]
  BY <1>4, VmAssumption DEF Take, VInv, TypesOk, TypeOK
<1>11. EntryStep(c, p, v, e, User)
  BY <1>1, <1>2, <1>3, <1>8, <1>9, <1>10 DEF EntryStep, VInv, TypesOk, TypeOK
<1>12. /\ \A r \in Slots, u \in Page : pte[r][u].f # f
       /\ Owners(f) = 0 /\ Owners(f)' = 1
       /\ \A g \in Frames : g # f => Owners(g)' = Owners(g)
  <2>1. refc[f] = 0 /\ refc' = refc
    BY <1>6, <1>9, Bounds
  <2> QED BY <2>1, <1>6, <1>10, SoleOwner DEF Owners
<1>13. StepFits(c, p, v, e, User)
  <2>1. EntryFits(p, v, e)
    BY <1>6, <1>7, <1>12 DEF EntryFits, EntryOk
  <2>2. OpFits(c, User)
    BY OpFacts DEF OpFits
  <2>3. ASSUME NEW g \in Frames
        PROVE  Owners(g)' + Bit(pte[p][v].f = g) + Bit(Owes(q, g))
                  = Owners(g) + Bit(e.f = g) + Bit(Owes(User, g))
    <3>1. pte[p][v].f # g /\ ~Owes(q, g) /\ ~Owes(User, g)
      BY <1>3, <1>6, OpFacts DEF Owes
    <3>2. Owners(g) \in Nat
      BY Bounds
    <3> QED BY <3>1, <3>2, <1>7, <1>12 DEF Bit
  <2> QED BY <2>1, <2>2, <2>3, <1>7 DEF StepFits
<1>14. OpOk(c)'
  BY <1>3, <1>9, UserOk DEF SetsOp
<1>15. \A u \in Page : BoundFine(p, u)' \/ (u # v /\ brk'[p] = brk[p] /\ mnext'[p] = mnext[p])
  <2>1. BoundFine(p, v)'
    <3>1. BoundFine(p, v) /\ Alive(p) /\ Alive(p)' = Alive(p)
      BY <1>1, <1>3, <1>9, Here DEF VInv, BoundsOk, Alive
    <3>2. ~Shrinking(p, v) /\ pte[p][v] # NoPte
      BY <1>1, <1>3, Unshrunk, EntryFacts
    <3> QED BY <3>1, <3>2, <1>3, <1>9 DEF BoundFine
  <2> QED BY <2>1, <1>9
<1>16. \A d \in Cores : Running(d) /\ Mm(d) = p => TlbFine(d, v)'
  <2>1. ASSUME NEW d \in Cores, Running(d), Mm(d) = p PROVE tlb[d][v] = NoTr
    BY <2>1, <1>1, <1>2, <1>3, Uncached DEF Match
  <2>2. \A d \in Cores : Running(d) /\ Mm(d) = p => tlb'[d][v] = NoTr
    BY <2>1, <1>3, <1>9 DEF SetsTlb
  <2> QED BY <2>2 DEF TlbFine
<1> QED BY <1>3, <1>11, <1>13, <1>14, <1>15, <1>16, EntryStepKeeps

\* Only where programs fork is a page marked for copying.
LEMMA MarkedAlone ==
    ASSUME VInv, Orderly, NEW p \in Slots, NEW v \in Page, pte[p][v].cow,
           NEW c \in Cores, Running(c), NEW d \in Cores, Running(d), Mm(d) = Mm(c)
    PROVE  d = c /\ "fork" \in setting.calls
<1>1. "fork" \in setting.calls
  BY DEF VInv, ModeOk
<1> QED BY <1>1, ForkAlone

\* The sole owner takes the page.
LEMMA CowTakeKeeps ==
    ASSUME VInv, Orderly, NEW c \in Cores, CowTake(c)
    PROVE  VInv'
<1> DEFINE q == op[c]
<1>1. PICK p, v, f : p = Mm(c) /\ v = q.v /\ f = q.e.f
  OBVIOUS
<1>2. q.at = "take"
  BY DEF CowTake
<1>3. /\ Running(c) /\ p \in Slots /\ v \in Page /\ Apart(c, v)
      /\ q.e = pte[p][v] /\ q.f = None /\ q.then = "user" /\ shoot.by # c
      /\ pte[p][v].is = "page" /\ pte[p][v].cow /\ pte[p][v].f = f
      /\ f \in Frames /\ refc[f] = 0
  BY <1>1, <1>2, InFault DEF Faulting
<1>4. pte' = [pte EXCEPT ![p][v] = Backed(f, TRUE, FALSE)]
  BY <1>1 DEF CowTake
<1>5. PICK e : e = Backed(f, TRUE, FALSE)
  OBVIOUS
<1>6. e \in Pte /\ e.is = "page" /\ e.f = f /\ e.w = TRUE /\ e.cow = FALSE
  BY <1>3, <1>5 DEF Backed, Pte
<1>7. SetsEntry(p, v, e)
  BY <1>3, <1>4, <1>5, <1>6, EntryDoes DEF VInv
<1>8. SetsOp(c, User) /\ SetsTlb(c, v, NoTr) /\ tlb' \in Cached
      /\ UNCHANGED <<setting, state, leader, runs, brk, mnext, free, refc, data, shoot>>
  BY <1>1, <1>3, GoDoes, OpFacts, FlushDoes DEF CowTake, VInv, taskVars, mmVars
<1>9. EntryStep(c, p, v, e, User)
  BY <1>1, <1>2, <1>3, <1>7, <1>8 DEF EntryStep, VInv, TypesOk, TypeOK
<1>10. StepFits(c, p, v, e, User)
  <2>1. EntryFits(p, v, e)
    BY <1>3, <1>6, SoleOwner DEF EntryFits, EntryOk
  <2>2. OpFits(c, User)
    BY OpFacts DEF OpFits
  <2>3. ASSUME NEW g \in Frames
        PROVE  Owners(g)' + Bit(pte[p][v].f = g) + Bit(Owes(q, g))
                  = Owners(g) + Bit(e.f = g) + Bit(Owes(User, g))
    <3>1. None \notin Frames
      BY VmAssumption
    <3>2. ~Owes(q, g) /\ ~Owes(User, g)
      BY <1>3, <3>1, OpFacts DEF Owes
    <3>3. Owners(g)' = Owners(g)
      BY <1>8 DEF Owners
    <3> QED BY <3>2, <3>3, <1>3, <1>6 DEF Bit
  <2> QED BY <2>1, <2>2, <2>3, <1>6 DEF StepFits
<1>11. OpOk(c)'
  BY <1>3, <1>8, UserOk DEF SetsOp
<1>12. \A u \in Page : BoundFine(p, u)' \/ (u # v /\ brk'[p] = brk[p] /\ mnext'[p] = mnext[p])
  <2>1. pte'[p][v].is = "page" /\ pte'[p][v].w
    BY <1>3, <1>6, <1>7 DEF SetsEntry
  <2>2. BoundFine(p, v)'
    BY <2>1, <1>1, <1>3, <1>8, BackedFine
  <2> QED BY <2>2, <1>8
<1>13. \A d \in Cores : Running(d) /\ Mm(d) = p => TlbFine(d, v)'
  <2>1. ASSUME NEW d \in Cores, Running(d), Mm(d) = p PROVE tlb'[d][v] = NoTr
    BY <2>1, <1>1, <1>3, <1>8, MarkedAlone DEF SetsTlb
  <2> QED BY <2>1 DEF TlbFine
<1> QED BY <1>3, <1>9, <1>10, <1>11, <1>12, <1>13, EntryStepKeeps

\* The page is copied and the old frame is owed.
LEMMA CowCopyKeeps ==
    ASSUME VInv, Orderly, NEW c \in Cores, CowCopy(c)
    PROVE  VInv'
<1> DEFINE q == op[c]
<1>1. PICK p, v, b : p = Mm(c) /\ v = q.v /\ b = q.e.f
  OBVIOUS
<1>2. q.at = "copy"
  BY DEF CowCopy
<1>3. /\ Running(c) /\ p \in Slots /\ v \in Page /\ Apart(c, v)
      /\ q.e = pte[p][v] /\ q.f = None /\ q.then = "user" /\ q.who = None /\ shoot.by # c
      /\ pte[p][v].is = "page" /\ pte[p][v].cow /\ pte[p][v].f = b
      /\ b \in Frames
  BY <1>1, <1>2, InFault DEF Faulting
<1>4. PICK f \in free : /\ Take(f, data[b])
                        /\ pte' = [pte EXCEPT ![p][v] = Backed(f, TRUE, FALSE)]
  BY <1>1 DEF CowCopy
<1>5. PICK e : e = Backed(f, TRUE, FALSE)
  OBVIOUS
<1>6. f \in Frames /\ None \notin Frames
  BY VmAssumption DEF VInv, TypesOk, TypeOK
<1>7. e \in Pte /\ e.is = "page" /\ e.f = f /\ e.w = TRUE /\ e.cow = FALSE
  BY <1>5, <1>6 DEF Backed, Pte
<1>8. SetsEntry(p, v, e)
  BY <1>3, <1>4, <1>5, <1>7, EntryDoes DEF VInv
<1>9. PICK o : o = [At("drop", v) EXCEPT !.f = b]
  OBVIOUS
<1>10. o \in Op /\ o.at = "drop" /\ o.v = v /\ o.f = b /\ o.then = "user" /\ o.who = None
  <2>1. v \in 0 .. Top
    BY <1>3, VmAssumption DEF Page
  <2>2. Doing(o, "drop", v, NoPte, b, "user", None)
    BY <2>1, <1>3, <1>9, OpForms
  <2> QED BY <2>2 DEF Doing
<1>11. SetsOp(c, o) /\ op'[c] = o /\ SetsTlb(c, v, NoTr) /\ tlb' \in Cached
      /\ UNCHANGED <<setting, state, leader, runs, brk, mnext, refc, shoot>>
  BY <1>1, <1>3, <1>9, <1>10, GoDoes, FlushDoes DEF CowCopy, VInv, taskVars, SetsOp
<1>12. free' = free \ {f} /\ data' \in [Frames -> Value \cup {Link}]
  BY <1>3, <1>4 DEF Take, VInv, TypesOk, TypeOK
<1>13. EntryStep(c, p, v, e, o)
  BY <1>1, <1>2, <1>3, <1>8, <1>11, <1>12 DEF EntryStep, VInv, TypesOk, TypeOK
<1>14. /\ \A r \in Slots, u \in Page : pte[r][u].f # f
       /\ Owners(f) = 0 /\ Owners(f)' = 1
       /\ \A g \in Frames : g # f => Owners(g)' = Owners(g)
  <2>1. refc[f] = 0 /\ refc' = refc
    BY <1>6, <1>11, Bounds
  <2> QED BY <2>1, <1>6, <1>12, SoleOwner DEF Owners
<1>15. StepFits(c, p, v, e, o)
  <2>1. EntryFits(p, v, e)
    BY <1>6, <1>7, <1>14 DEF EntryFits, EntryOk
  <2>2. OpFits(c, o)
    BY <1>3, <1>10 DEF OpFits
  <2>3. ASSUME NEW g \in Frames
        PROVE  Owners(g)' + Bit(pte[p][v].f = g) + Bit(Owes(q, g))
                  = Owners(g) + Bit(e.f = g) + Bit(Owes(o, g))
    <3>1. (pte[p][v].f = g <=> b = g) /\ ~Owes(q, g) /\ (Owes(o, g) <=> b = g)
      BY <1>3, <1>6, <1>10 DEF Owes
    <3>2. Owners(g) \in Nat /\ b # f
      BY <1>3, <1>14, Bounds
    <3> QED BY <3>1, <3>2, <1>7, <1>14 DEF Bit
  <2> QED BY <2>1, <2>2, <2>3, <1>7 DEF StepFits
<1>16. OpOk(c)'
  <2>1. Running(c)' /\ shoot'.by # c
    BY <1>3, <1>11 DEF Running
  <2> QED BY <2>1, <1>3, <1>6, <1>10, <1>11
          DEF OpOk, FaultOk, Faulting, FreeingOk, ShootingOk, ShrinkOk, ForkOk, TearOk
<1>17. \A u \in Page : BoundFine(p, u)' \/ (u # v /\ brk'[p] = brk[p] /\ mnext'[p] = mnext[p])
  <2>1. pte'[p][v].is = "page" /\ pte'[p][v].w
    BY <1>3, <1>7, <1>8 DEF SetsEntry
  <2>2. BoundFine(p, v)'
    BY <2>1, <1>1, <1>3, <1>11, BackedFine
  <2> QED BY <2>2, <1>11
<1>18. \A d \in Cores : Running(d) /\ Mm(d) = p => TlbFine(d, v)'
  <2>1. ASSUME NEW d \in Cores, Running(d), Mm(d) = p PROVE tlb'[d][v] = NoTr
    BY <2>1, <1>1, <1>3, <1>11, MarkedAlone DEF SetsTlb
  <2> QED BY <2>1 DEF TlbFine
<1> QED BY <1>3, <1>13, <1>15, <1>16, <1>17, <1>18, EntryStepKeeps

-----------------------------------------------------------------------------
(* The calls. *)

\* What holds of a core that is in ring 3.
LEMMA InRing3 ==
    ASSUME VInv, NEW c \in Cores, InUser(c)
    PROVE  /\ Running(c) /\ runs[c] \in Slots /\ Mm(c) \in Slots /\ Alive(Mm(c))
           /\ leader[Mm(c)] = Mm(c) /\ state[runs[c]] = "live"
           /\ op[c] = User /\ op[c].at = "user" /\ op[c].then = "user" /\ op[c].f = None
           /\ op[c].who = None /\ shoot.by # c /\ op[c] \in Op
           /\ \A v : Quiet(c, v) => Apart(c, v)
<1>1. Running(c) /\ op[c].at = "user"
  BY DEF InUser, Running
<1> QED BY <1>1, Here, Idle, ApartFacts, OpFacts

\* The break grows by a page.
LEMMA BrkGrowKeeps ==
    ASSUME VInv, Orderly, NEW c \in Cores, BrkGrow(c)
    PROVE  VInv'
<1>1. PICK p, v : p = Mm(c) /\ v = brk[p]
  OBVIOUS
<1>2. InUser(c) /\ runs[c] = p
  BY <1>1 DEF BrkGrow, MayBrk, Call
<1>3. /\ Running(c) /\ p \in Slots /\ leader[p] = p /\ state[p] = "live" /\ Alive(p)
      /\ op[c] = User /\ op[c].at = "user" /\ op[c].then = "user" /\ op[c].f = None
      /\ op[c].who = None /\ shoot.by # c /\ op[c] \in Op
  BY <1>1, <1>2, InRing3
<1>4. v \in Page /\ v < HeapTop /\ v \in Nat /\ HeapTop \in Nat /\ Apart(c, v)
  <2>1. v \in 0 .. HeapTop /\ v < HeapTop /\ Quiet(c, v)
    BY <1>1, <1>2, <1>3 DEF BrkGrow, VInv, TypesOk, TypeOK
  <2> QED BY <2>1, <1>2, InRing3, VmAssumption DEF Page
<1>5. PICK f \in free : /\ Take(f, Zero)
                        /\ pte' = [pte EXCEPT ![p][v] = Backed(f, TRUE, FALSE)]
  BY <1>1, <1>2 DEF BrkGrow, Zeroed
<1>6. PICK e : e = Backed(f, TRUE, FALSE)
  OBVIOUS
<1>7. f \in Frames /\ None \notin Frames
  BY VmAssumption DEF VInv, TypesOk, TypeOK
<1>8. e \in Pte /\ e.is = "page" /\ e.f = f /\ e.w = TRUE /\ e.cow = FALSE
  BY <1>6, <1>7 DEF Backed, Pte
<1>9. SetsEntry(p, v, e)
  BY <1>3, <1>4, <1>5, <1>6, <1>8, EntryDoes DEF VInv
<1>10. UNCHANGED <<setting, state, leader, runs, mnext, refc, tlb, op, shoot>>
       /\ brk' = [brk EXCEPT ![p] = @ + 1]
  BY <1>2 DEF BrkGrow, taskVars
<1>11. SetsOp(c, User)
  BY <1>3, <1>10 DEF SetsOp, VInv, TypesOk, TypeOK
<1>12. free' = free \ {f} /\ data' \in [Frames -> Value \cup {Link}]
  BY <1>5, VmAssumption DEF Take, VInv, TypesOk, TypeOK
<1>13. brk' \in [Slots -> 0 .. HeapTop] /\ brk'[p] = v + 1
       /\ \A r \in Slots : r # p => brk'[r] = brk[r]
  <2>1. brk \in [Slots -> 0 .. HeapTop] /\ v + 1 \in 0 .. HeapTop
    BY <1>4 DEF VInv, TypesOk, TypeOK
  <2> QED BY <2>1, <1>1, <1>3, <1>10
<1>14. EntryStep(c, p, v, e, User)
  BY <1>1, <1>2, <1>3, <1>4, <1>9, <1>10, <1>11, <1>12, <1>13
     DEF EntryStep, VInv, TypesOk, TypeOK, Cached, Translation
<1>15. /\ \A r \in Slots, u \in Page : pte[r][u].f # f
       /\ Owners(f) = 0 /\ Owners(f)' = 1
       /\ \A g \in Frames : g # f => Owners(g)' = Owners(g)
  <2>1. refc[f] = 0 /\ refc' = refc
    BY <1>7, <1>10, Bounds
  <2> QED BY <2>1, <1>7, <1>12, SoleOwner DEF Owners
<1>16. BoundFine(p, v) /\ pte[p][v] = NoPte
  BY <1>1, <1>3, <1>4 DEF VInv, BoundsOk, BoundFine
<1>17. StepFits(c, p, v, e, User)
  <2>1. EntryFits(p, v, e)
    BY <1>7, <1>8, <1>15 DEF EntryFits, EntryOk
  <2>2. OpFits(c, User)
    BY OpFacts DEF OpFits
  <2>3. ASSUME NEW g \in Frames
        PROVE  Owners(g)' + Bit(pte[p][v].f = g) + Bit(Owes(op[c], g))
                  = Owners(g) + Bit(e.f = g) + Bit(Owes(User, g))
    <3>1. pte[p][v].f # g /\ ~Owes(op[c], g) /\ ~Owes(User, g)
      BY <1>3, <1>7, <1>16, OpFacts, EntryFacts DEF Owes
    <3>2. Owners(g) \in Nat
      BY Bounds
    <3> QED BY <3>1, <3>2, <1>8, <1>15 DEF Bit
  <2> QED BY <2>1, <2>2, <2>3, <1>8 DEF StepFits
<1>18. OpOk(c)'
  BY <1>3, <1>10, UserOk
<1>19. ASSUME NEW u \in Page PROVE BoundFine(p, u)'
  <2>1. BoundFine(p, u) /\ Alive(p)' = Alive(p) /\ mnext[p] \in HeapTop .. Top
    BY <1>3, <1>10 DEF VInv, BoundsOk, Alive, TypesOk, TypeOK
  <2>2. Shrinking(p, u) => Shrinking(p, u)'
    BY <1>10 DEF Shrinking, Mm
  <2>3. pte'[p][v].is = "page" /\ pte'[p][v].w
    BY <1>3, <1>4, <1>8, <1>9 DEF SetsEntry
  <2>4. CASE u = v
    <3>1. ~(v + 1 <= v) /\ ~(mnext[p] <= v)
      BY <1>4, <2>1
    <3> QED BY <2>3, <2>4, <3>1, <1>10, <1>13 DEF BoundFine
  <2>5. CASE u # v
    <3>1. u \in Nat /\ (u < v + 1 => u < v) /\ (v + 1 <= u => v <= u)
      BY <2>5, <1>4 DEF Page
    <3>2. pte'[p][u] = pte[p][u]
      BY <2>5, <1>3, <1>9 DEF SetsEntry
    <3> QED BY <2>1, <2>2, <3>1, <3>2, <1>1, <1>10, <1>13 DEF BoundFine
  <2> QED BY <2>4, <2>5
<1>20. \A d \in Cores : Running(d) /\ Mm(d) = p => TlbFine(d, v)'
  <2>0. pte[Mm(c)][v].is # "page"
    BY <1>1, <1>16, EntryFacts
  <2>1. ASSUME NEW d \in Cores, Running(d), Mm(d) = p PROVE tlb[d][v] = NoTr
    BY <2>0, <2>1, <1>1, <1>3, <1>4, Uncached DEF Match
  <2>2. \A d \in Cores : Running(d) /\ Mm(d) = p => tlb'[d][v] = NoTr
    BY <2>1, <1>10
  <2> QED BY <2>2 DEF TlbFine
<1> QED BY <1>3, <1>4, <1>14, <1>17, <1>18, <1>19, <1>20, EntryStepKeeps

\* The break is about to shrink: the page is unmapped and its frame owed.
LEMMA BrkShrinkKeeps ==
    ASSUME VInv, Orderly, NEW c \in Cores, BrkShrink(c)
    PROVE  VInv'
<1>1. PICK p, v, f : p = Mm(c) /\ v = brk[p] - 1 /\ f = pte[p][v].f
  OBVIOUS
<1>2. InUser(c) /\ runs[c] = p /\ brk[p] > 0
  BY <1>1 DEF BrkShrink, MayBrk, Call
<1>3. /\ Running(c) /\ p \in Slots /\ leader[p] = p /\ state[p] = "live" /\ Alive(p)
      /\ op[c] = User /\ op[c].at = "user" /\ op[c].then = "user" /\ op[c].f = None
      /\ op[c].who = None /\ shoot.by # c /\ op[c] \in Op
  BY <1>1, <1>2, InRing3
<1>4. v \in Page /\ v \in Nat /\ HeapTop \in Nat /\ Apart(c, v) /\ brk[p] = v + 1
      /\ v \in 0 .. Top
  <2>1. brk[p] \in 0 .. HeapTop /\ Quiet(c, v)
    BY <1>1, <1>2, <1>3 DEF BrkShrink, VInv, TypesOk, TypeOK
  <2> QED BY <2>1, <1>1, <1>2, InRing3, VmAssumption DEF Page
<1>5. pte[p][v].is = "page" /\ f \in Frames
  <2>1. BoundFine(p, v) /\ EntryOk(pte[p][v])
    BY <1>3, <1>4 DEF VInv, BoundsOk, EntriesOk
  <2>2. ~Shrinking(p, v) /\ v < brk[p]
    BY <1>1, <1>3, <1>4, Unshrunk
  <2>3. pte[p][v].is = "page"
    BY <2>1, <2>2, <1>3 DEF BoundFine
  <2> QED BY <2>1, <2>3, <1>1 DEF EntryOk
<1>6. PICK o : o = Shrink(v, f)
  OBVIOUS
<1>7. o \in Op /\ o.at = "shoot" /\ o.v = v /\ o.f = f /\ o.then = "brk" /\ o.who = None
  <2>1. Doing(o, "shoot", v, NoPte, f, "brk", None)
    BY <1>4, <1>5, <1>6, OpForms
  <2> QED BY <2>1 DEF Doing
<1>8. pte' = [pte EXCEPT ![p][v] = NoPte] /\ Go(c, o)
      /\ UNCHANGED <<setting, state, leader, runs, brk, mnext, free, refc, data, tlb, shoot>>
  BY <1>1, <1>2, <1>6 DEF BrkShrink, taskVars, mmVars
<1>9. SetsEntry(p, v, NoPte) /\ NoPte \in Pte
  BY <1>3, <1>4, <1>8, EntryFacts, EntryDoes DEF VInv
<1>10. SetsOp(c, o) /\ op'[c] = o
  BY <1>7, <1>8, GoDoes DEF VInv, SetsOp
<1>11. EntryStep(c, p, v, NoPte, o)
  BY <1>1, <1>3, <1>4, <1>8, <1>9, <1>10
     DEF EntryStep, VInv, TypesOk, TypeOK, Cached, Translation
<1>12. StepFits(c, p, v, NoPte, o)
  <2>0. NoPte.is = "none" /\ NoPte.f = None /\ NoPte.cow = FALSE /\ None \notin Frames
    BY EntryFacts, VmAssumption
  <2>1. EntryFits(p, v, NoPte)
    BY <1>9, <2>0 DEF EntryFits, EntryOk
  <2>2. OpFits(c, o)
    BY <1>4, <1>7 DEF OpFits
  <2>3. ASSUME NEW g \in Frames
        PROVE  Owners(g)' + Bit(pte[p][v].f = g) + Bit(Owes(op[c], g))
                  = Owners(g) + Bit(NoPte.f = g) + Bit(Owes(o, g))
    <3>1. (pte[p][v].f = g <=> f = g) /\ ~Owes(op[c], g) /\ (Owes(o, g) <=> f = g)
          /\ NoPte.f # g
      BY <1>1, <1>3, <1>7, <2>0 DEF Owes
    <3>2. Owners(g) \in Nat /\ Owners(g)' = Owners(g)
      BY <1>8, Bounds DEF Owners
    <3> QED BY <3>1, <3>2 DEF Bit
  <2> QED BY <2>0, <2>1, <2>2, <2>3 DEF StepFits
<1>13. Running(c)' /\ Mm(c)' = p /\ pte'[p][v] = NoPte
  BY <1>1, <1>3, <1>4, <1>8, <1>9 DEF Running, Mm, SetsEntry
<1>14. OpOk(c)'
  <2>1. ShootingOk(c)'
    BY <1>3, <1>4, <1>5, <1>7, <1>8, <1>10, <1>13, VmAssumption DEF ShootingOk
  <2>2. ShrinkOk(c)'
    BY <1>2, <1>4, <1>7, <1>8, <1>10, <1>13 DEF ShrinkOk
  <2> QED BY <2>1, <2>2, <1>7, <1>10
          DEF OpOk, FaultOk, Faulting, FreeingOk, ForkOk, TearOk
<1>15. \A u \in Page : BoundFine(p, u)' \/ (u # v /\ brk'[p] = brk[p] /\ mnext'[p] = mnext[p])
  <2>1. Shrinking(p, v)'
    BY <1>7, <1>10, <1>13 DEF Shrinking
  <2>2. BoundFine(p, v)'
    BY <2>1, <1>13 DEF BoundFine
  <2> QED BY <2>2, <1>8
<1>16. ASSUME NEW d \in Cores, Running(d), Mm(d) = p PROVE TlbFine(d, v)'
  <2> SUFFICES ASSUME tlb[d][v] # NoTr
               PROVE  Stale(d, v, tlb[d][v])' \/ Own(d, v)'
    BY <1>8 DEF TlbFine
  <2>1. tlb[d][v].f = f
    BY <1>1, <1>3, <1>4, <1>16, Uncached DEF Match
  <2>2. CASE d = c
    BY <2>2, <1>7, <1>10 DEF Own
  <2>3. CASE d # c
    <3>1. Mm(d)' = p /\ tlb' = tlb
      BY <1>8, <1>16 DEF Mm
    <3> QED BY <2>1, <2>3, <3>1, <1>7, <1>10, <1>13 DEF Stale
  <2> QED BY <2>2, <2>3
<1> QED BY <1>3, <1>4, <1>11, <1>12, <1>14, <1>15, <1>16, EntryStepKeeps

\* A page is promised.
LEMMA MmapKeeps ==
    ASSUME VInv, Orderly, NEW c \in Cores, NEW w \in BOOLEAN, Mmap(c, w)
    PROVE  VInv'
<1>1. PICK p, v : p = Mm(c) /\ v = mnext[p]
  OBVIOUS
<1>2. InUser(c) /\ v < Top /\ Quiet(c, v)
  BY <1>1 DEF Mmap, Call
<1>3. /\ Running(c) /\ p \in Slots /\ leader[p] = p /\ Alive(p)
      /\ op[c] = User /\ op[c].at = "user" /\ op[c].then = "user" /\ op[c].f = None
      /\ op[c].who = None /\ shoot.by # c /\ op[c] \in Op /\ Apart(c, v)
  BY <1>1, <1>2, InRing3
<1>4. v \in Page /\ v \in HeapTop .. Top /\ v \in Nat /\ HeapTop \in Nat /\ Top \in Nat
      /\ HeapTop <= v /\ brk[p] \in 0 .. HeapTop
  BY <1>1, <1>2, <1>3, VmAssumption DEF VInv, TypesOk, TypeOK, Page
<1>5. PICK e : e = Promise(w)
  OBVIOUS
<1>6. e \in Pte /\ e.is = "zfod" /\ e.f = None /\ e.cow = FALSE
  BY <1>5 DEF Promise, Pte
<1>7. pte' = [pte EXCEPT ![p][v] = e] /\ mnext' = [mnext EXCEPT ![p] = @ + 1]
      /\ UNCHANGED <<setting, state, leader, runs, brk, free, refc, data, tlb, op, shoot>>
  BY <1>1, <1>5 DEF Mmap, taskVars, mmVars
<1>8. SetsEntry(p, v, e)
  BY <1>3, <1>4, <1>6, <1>7, EntryDoes DEF VInv
<1>9. SetsOp(c, User)
  BY <1>3, <1>7 DEF SetsOp, VInv, TypesOk, TypeOK
<1>10. mnext' \in [Slots -> HeapTop .. Top] /\ mnext'[p] = v + 1
       /\ \A r \in Slots : r # p => mnext'[r] = mnext[r]
  <2>1. mnext \in [Slots -> HeapTop .. Top] /\ v + 1 \in HeapTop .. Top
    BY <1>2, <1>4 DEF VInv, TypesOk, TypeOK
  <2> QED BY <2>1, <1>1, <1>3, <1>7
<1>11. EntryStep(c, p, v, e, User)
  BY <1>1, <1>3, <1>4, <1>7, <1>8, <1>9, <1>10
     DEF EntryStep, VInv, TypesOk, TypeOK, Cached, Translation
<1>12. BoundFine(p, v) /\ pte[p][v] = NoPte
  BY <1>1, <1>3, <1>4 DEF VInv, BoundsOk, BoundFine
<1>13. StepFits(c, p, v, e, User)
  <2>1. EntryFits(p, v, e)
    BY <1>6 DEF EntryFits, EntryOk
  <2>2. OpFits(c, User)
    BY OpFacts DEF OpFits
  <2>3. ASSUME NEW g \in Frames
        PROVE  Owners(g)' + Bit(pte[p][v].f = g) + Bit(Owes(op[c], g))
                  = Owners(g) + Bit(e.f = g) + Bit(Owes(User, g))
    <3>1. pte[p][v].f = None /\ e.f = None /\ op[c] = User
      BY <1>3, <1>6, <1>12, EntryFacts
    <3>2. Owners(g) \in Nat /\ Owners(g)' = Owners(g)
      BY <1>7, Bounds DEF Owners
    <3> QED BY <3>1, <3>2 DEF Bit
  <2> QED BY <2>1, <2>2, <2>3, <1>6 DEF StepFits
<1>14. OpOk(c)'
  BY <1>3, <1>7, UserOk
<1>15. ASSUME NEW u \in Page PROVE BoundFine(p, u)'
  <2>1. BoundFine(p, u) /\ Alive(p)' = Alive(p)
    BY <1>3, <1>7 DEF VInv, BoundsOk, Alive
  <2>2. Shrinking(p, u) => Shrinking(p, u)'
    BY <1>7 DEF Shrinking, Mm
  <2>3. CASE u = v
    <3>1. ~(v + 1 <= v) /\ ~(v < HeapTop) /\ ~(v < brk[p])
      BY <1>4
    <3> QED BY <2>3, <3>1, <1>7, <1>10 DEF BoundFine
  <2>4. CASE u # v
    <3>1. v + 1 <= u => v <= u
      BY <1>4 DEF Page
    <3>2. pte'[p][u] = pte[p][u]
      BY <2>4, <1>3, <1>8 DEF SetsEntry
    <3> QED BY <2>1, <2>2, <3>1, <3>2, <1>1, <1>7, <1>10 DEF BoundFine
  <2> QED BY <2>3, <2>4
<1>16. \A d \in Cores : Running(d) /\ Mm(d) = p => TlbFine(d, v)'
  <2>0. pte[Mm(c)][v].is # "page"
    BY <1>1, <1>12, EntryFacts
  <2>1. ASSUME NEW d \in Cores, Running(d), Mm(d) = p PROVE tlb[d][v] = NoTr
    BY <2>0, <2>1, <1>1, <1>3, <1>4, Uncached DEF Match
  <2>2. \A d \in Cores : Running(d) /\ Mm(d) = p => tlb'[d][v] = NoTr
    BY <2>1, <1>7
  <2> QED BY <2>2 DEF TlbFine
<1> QED BY <1>3, <1>4, <1>11, <1>13, <1>14, <1>15, <1>16, EntryStepKeeps

\* A page is unmapped; its frame, if it has one, is owed.
LEMMA MunmapKeeps ==
    ASSUME VInv, Orderly, NEW c \in Cores, NEW v \in Page, Munmap(c, v)
    PROVE  VInv'
<1>1. PICK p, e : p = Mm(c) /\ e = pte[p][v]
  OBVIOUS
<1>2. InUser(c) /\ v >= HeapTop /\ Quiet(c, v) /\ "munmap" \in setting.calls /\ e.is # "none"
  BY <1>1 DEF Munmap, Call
<1>3. /\ Running(c) /\ p \in Slots /\ leader[p] = p /\ Alive(p)
      /\ op[c].at = "user" /\ op[c].then = "user" /\ op[c].f = None
      /\ op[c].who = None /\ shoot.by # c /\ op[c] \in Op /\ Apart(c, v)
  BY <1>1, <1>2, InRing3
<1>4. v \in 0 .. Top /\ v \in Nat /\ HeapTop \in Nat /\ brk[p] \in 0 .. HeapTop
      /\ None \notin Frames
  BY <1>3, VmAssumption DEF Page, VInv, TypesOk, TypeOK
<1>5. e \in Pte /\ EntryOk(e) /\ (e.is = "zfod" \/ (e.is = "page" /\ e.f \in Frames))
  <2>1. e \in Pte /\ EntryOk(e)
    BY <1>1, <1>3 DEF VInv, TypesOk, TypeOK, EntriesOk
  <2>2. e.is \in {"none", "zfod", "page"}
    BY <2>1, EntryFacts
  <2> QED BY <2>1, <2>2, <1>2 DEF EntryOk
<1>6. PICK o : o = IF e.is = "page" THEN [At("drop", v) EXCEPT !.f = e.f, !.then = "munmap"]
                   ELSE At("shoot", v)
  OBVIOUS
<1>7. o \in Op /\ o.v = v /\ o.f = e.f /\ o.who = None
      /\ IF e.is = "page" THEN o.at = "drop" /\ o.then = "munmap"
         ELSE o.at = "shoot" /\ o.then = "user"
  <2>1. CASE e.is = "page"
    <3>1. Doing(o, "drop", v, NoPte, e.f, "munmap", None)
      BY <2>1, <1>4, <1>5, <1>6, OpForms
    <3> QED BY <2>1, <3>1 DEF Doing
  <2>2. CASE e.is # "page"
    <3>1. Doing(o, "shoot", v, NoPte, None, "user", None)
      BY <2>2, <1>4, <1>6, OpForms DEF Ats
    <3> QED BY <2>2, <3>1, <1>5 DEF Doing, EntryOk
  <2> QED BY <2>1, <2>2
<1>8. pte' = [pte EXCEPT ![p][v] = NoPte] /\ Go(c, o)
      /\ UNCHANGED <<setting, state, leader, runs, brk, mnext, free, refc, data, tlb, shoot>>
  BY <1>1, <1>6 DEF Munmap, taskVars, mmVars
<1>9. SetsEntry(p, v, NoPte) /\ NoPte \in Pte
  BY <1>3, <1>8, EntryFacts, EntryDoes DEF VInv
<1>10. SetsOp(c, o) /\ op'[c] = o
  BY <1>7, <1>8, GoDoes DEF VInv, SetsOp
<1>11. EntryStep(c, p, v, NoPte, o)
  BY <1>1, <1>3, <1>8, <1>9, <1>10
     DEF EntryStep, VInv, TypesOk, TypeOK, Cached, Translation
<1>12. StepFits(c, p, v, NoPte, o)
  <2>0. NoPte.is = "none" /\ NoPte.f = None /\ NoPte.cow = FALSE
    BY EntryFacts
  <2>1. EntryFits(p, v, NoPte)
    BY <1>9, <2>0 DEF EntryFits, EntryOk
  <2>2. OpFits(c, o)
    BY <1>2, <1>3, <1>7 DEF OpFits
  <2>3. ASSUME NEW g \in Frames
        PROVE  Owners(g)' + Bit(pte[p][v].f = g) + Bit(Owes(op[c], g))
                  = Owners(g) + Bit(NoPte.f = g) + Bit(Owes(o, g))
    <3>1. (pte[p][v].f = g <=> e.f = g) /\ ~Owes(op[c], g) /\ (Owes(o, g) <=> e.f = g)
          /\ NoPte.f # g
      BY <1>1, <1>3, <1>4, <1>7, <2>0 DEF Owes
    <3>2. Owners(g) \in Nat /\ Owners(g)' = Owners(g)
      BY <1>8, Bounds DEF Owners
    <3> QED BY <3>1, <3>2 DEF Bit
  <2> QED BY <2>0, <2>1, <2>2, <2>3 DEF StepFits
<1>13. Running(c)' /\ Mm(c)' = p /\ pte'[p][v] = NoPte
  BY <1>1, <1>3, <1>8, <1>9 DEF Running, Mm, SetsEntry
<1>14. OpOk(c)'
  <2>1. ShootingOk(c)' /\ FreeingOk(c)'
    BY <1>3, <1>4, <1>5, <1>7, <1>8, <1>10, <1>13 DEF ShootingOk, FreeingOk, EntryOk
  <2> QED BY <2>1, <1>7, <1>10
          DEF OpOk, FaultOk, Faulting, ForkOk, TearOk, ShrinkOk
<1>15. \A u \in Page : BoundFine(p, u)' \/ (u # v /\ brk'[p] = brk[p] /\ mnext'[p] = mnext[p])
  <2>1. ~(v < brk[p])
    BY <1>2, <1>4
  <2>2. BoundFine(p, v)'
    BY <2>1, <1>8, <1>13 DEF BoundFine
  <2> QED BY <2>2, <1>8
<1>16. ASSUME NEW d \in Cores, Running(d), Mm(d) = p PROVE TlbFine(d, v)'
  <2>1. "thread" \notin setting.calls
    BY <1>2 DEF Orderly, VInv, TypesOk, TypeOK
  <2>2. d = c
    BY <2>1, <1>1, <1>3, <1>16, Here DEF VInv, ModeOk, RunsOk
  <2>3. Own(c, v)'
    BY <1>7, <1>10 DEF Own
  <2> QED BY <2>2, <2>3 DEF TlbFine
<1> QED BY <1>3, <1>11, <1>12, <1>14, <1>15, <1>16, EntryStepKeeps

\* The rights of a page change.
LEMMA MprotectKeeps ==
    ASSUME VInv, Orderly, NEW c \in Cores, NEW v \in Page, NEW w \in BOOLEAN,
           Mprotect(c, v, w)
    PROVE  VInv'
<1>1. PICK p, b, e : p = Mm(c) /\ b = pte[p][v] /\ e = Protected(b, w)
  OBVIOUS
<1>2. InUser(c) /\ v >= HeapTop /\ Quiet(c, v) /\ "mprotect" \in setting.calls /\ b.is # "none"
  BY <1>1 DEF Mprotect, Call
<1>3. /\ Running(c) /\ p \in Slots /\ leader[p] = p /\ Alive(p)
      /\ op[c].at = "user" /\ op[c].then = "user" /\ op[c].f = None
      /\ op[c].who = None /\ shoot.by # c /\ op[c] \in Op /\ Apart(c, v)
  BY <1>1, <1>2, InRing3
<1>4. v \in 0 .. Top /\ v \in Nat /\ HeapTop \in Nat /\ brk[p] \in 0 .. HeapTop
      /\ None \notin Frames
  BY <1>3, VmAssumption DEF Page, VInv, TypesOk, TypeOK
<1>5. "fork" \notin setting.calls
  BY <1>2, ForkAlone
<1>6. b \in Pte /\ EntryOk(b) /\ b.cow = FALSE /\ \A f \in Frames : refc[f] = 0
  <2>1. b \in Pte /\ EntryOk(b) /\ ~b.cow
    BY <1>1, <1>3, <1>5 DEF VInv, TypesOk, TypeOK, EntriesOk, ModeOk
  <2> QED BY <2>1, <1>5, EntryFacts DEF VInv, ModeOk
<1>7. e \in Pte /\ e.is = b.is /\ e.f = b.f /\ e.cow = FALSE
  <2>1. e = [b EXCEPT !.w = w /\ ~b.cow] /\ (w /\ ~b.cow) \in BOOLEAN
    BY <1>1 DEF Protected
  <2> QED BY <2>1, <1>6 DEF Pte
<1>8. PICK o : o = At("shoot", v)
  OBVIOUS
<1>9. o \in Op /\ o.at = "shoot" /\ o.v = v /\ o.f = None /\ o.then = "user" /\ o.who = None
  <2>1. Doing(o, "shoot", v, NoPte, None, "user", None)
    BY <1>4, <1>8, OpForms DEF Ats
  <2> QED BY <2>1 DEF Doing
<1>10. pte' = [pte EXCEPT ![p][v] = e] /\ Go(c, o) /\ Flush(c, v)
       /\ UNCHANGED <<setting, state, leader, runs, brk, mnext, free, refc, data, shoot>>
  <2>1. pte' = [pte EXCEPT ![p][v] = Protected(@, w)]
    BY <1>1 DEF Mprotect
  <2>2. pte \in [Slots -> [Page -> Pte]]
    BY DEF VInv, TypesOk, TypeOK
  <2>3. pte' = [pte EXCEPT ![p][v] = e]
    BY <2>1, <2>2, <1>1, <1>3
  <2> QED BY <2>3, <1>8 DEF Mprotect, taskVars, mmVars
<1>11. SetsEntry(p, v, e)
  BY <1>3, <1>7, <1>10, EntryDoes DEF VInv
<1>12. SetsOp(c, o) /\ op'[c] = o /\ SetsTlb(c, v, NoTr) /\ tlb' \in Cached
  BY <1>9, <1>10, GoDoes, FlushDoes DEF VInv, SetsOp
<1>13. EntryStep(c, p, v, e, o)
  BY <1>1, <1>3, <1>10, <1>11, <1>12 DEF EntryStep, VInv, TypesOk, TypeOK
<1>14. StepFits(c, p, v, e, o)
  <2>1. e.is = "page" => e.f \in Frames
    BY <1>6, <1>7 DEF EntryOk
  <2>2. EntryFits(p, v, e)
    <3>1. EntryOk(e)
      BY <1>2, <1>6, <1>7 DEF EntryOk
    <3>2. ASSUME e.is = "page", NEW r \in Slots, NEW u \in Page, pte[r][u].f = e.f
          PROVE  r = p /\ u = v
      BY <3>2, <2>1, <1>1, <1>3, <1>6, <1>7, SoleOwner
    <3> QED BY <3>1, <3>2, <1>7 DEF EntryFits
  <2>3. OpFits(c, o)
    BY <1>3, <1>9 DEF OpFits
  <2>4. ASSUME NEW g \in Frames
        PROVE  Owners(g)' + Bit(pte[p][v].f = g) + Bit(Owes(op[c], g))
                  = Owners(g) + Bit(e.f = g) + Bit(Owes(o, g))
    <3>1. (pte[p][v].f = g <=> e.f = g) /\ ~Owes(op[c], g) /\ ~Owes(o, g)
      BY <1>1, <1>3, <1>4, <1>7, <1>9 DEF Owes
    <3>2. Owners(g) \in Nat /\ Owners(g)' = Owners(g)
      BY <1>10, Bounds DEF Owners
    <3> QED BY <3>1, <3>2 DEF Bit
  <2> QED BY <2>2, <2>3, <2>4, <1>7 DEF StepFits
<1>15. Running(c)' /\ Mm(c)' = p /\ pte'[p][v] = e
  BY <1>1, <1>3, <1>10, <1>11 DEF Running, Mm, SetsEntry
<1>16. OpOk(c)'
  <2>1. ShootingOk(c)'
    BY <1>3, <1>9, <1>10, <1>12, <1>15 DEF ShootingOk
  <2> QED BY <2>1, <1>9, <1>12
          DEF OpOk, FaultOk, Faulting, FreeingOk, ForkOk, TearOk, ShrinkOk
<1>17. \A u \in Page : BoundFine(p, u)' \/ (u # v /\ brk'[p] = brk[p] /\ mnext'[p] = mnext[p])
  <2>1. ~(v < brk[p]) /\ ~(v < HeapTop)
    BY <1>2, <1>4
  <2>2. BoundFine(p, v) /\ Alive(p)' = Alive(p)
    BY <1>3, <1>10 DEF VInv, BoundsOk, Alive
  <2>4. b # NoPte
    BY <1>2, EntryFacts
  <2>3. BoundFine(p, v)'
    BY <2>1, <2>2, <2>4, <1>1, <1>3, <1>10 DEF BoundFine
  <2> QED BY <2>3, <1>10
<1>18. ASSUME NEW d \in Cores, Running(d), Mm(d) = p PROVE TlbFine(d, v)'
  <2>1. CASE d = c
    BY <2>1, <1>3, <1>12 DEF TlbFine, SetsTlb
  <2>2. CASE d # c
    <3>1. Mm(d)' = p /\ tlb'[d][v] = tlb[d][v]
      BY <2>2, <1>10, <1>12, <1>18 DEF Mm, SetsTlb
    <3>2. tlb[d][v] # NoTr => b.is = "page" /\ b.f = tlb[d][v].f
      BY <1>1, <1>3, <1>18, Uncached DEF Match
    <3>3. tlb[d][v] # NoTr => Stale(d, v, tlb[d][v])'
      BY <3>1, <3>2, <2>2, <1>7, <1>9, <1>12, <1>15 DEF Stale
    <3> QED BY <3>1, <3>3 DEF TlbFine
  <2> QED BY <2>1, <2>2
<1> QED BY <1>3, <1>13, <1>14, <1>16, <1>17, <1>18, EntryStepKeeps

-----------------------------------------------------------------------------
(* A slot is claimed. *)

\* Nothing points at a slot that may be claimed.
LEMMA Unused ==
    ASSUME VInv, NEW k \in Slots, state[k] = "free"
    PROVE  /\ Blank(k) /\ leader[k] = k
           /\ \A s \in Slots : s # k => leader[s] # k
           /\ \A d \in Cores : /\ op[d].who # k
                               /\ Running(d) => runs[d] # k /\ Mm(d) # k
<1>1. Blank(k) /\ leader[k] = k /\ \A s \in Slots : s # k => leader[s] # k
  BY DEF VInv, LeadersOk
<1>2. ASSUME NEW d \in Cores PROVE op[d].who # k
  <2>1. None \notin Slots
    BY VmAssumption
  <2> QED BY <2>1, Foreign
<1>3. ASSUME NEW d \in Cores, Running(d) PROVE runs[d] # k /\ Mm(d) # k
  BY <1>3, Here
<1> QED BY <1>1, <1>2, <1>3

\* The slot leads itself, or is a thread of a process that is there.
ClaimFits(k, st, l) ==
    /\ st \in {"live", "embryo"} /\ l \in Slots
    /\ l # k => /\ st = "live" /\ Alive(l) /\ state[l] \in {"live", "exited"}
                /\ "thread" \in setting.calls
                /\ \A d \in Cores : op[d].who # None => op[d].who # l

\* A core goes on with what it does, or starts to fork into the slot.
MayFork(d, k) ==
    \/ op'[d] = op[d]
    \/ /\ op[d] = User /\ Running(d) /\ "fork" \in setting.calls
       /\ op'[d].at = "fork" /\ op'[d].f = None /\ op'[d].then = "user"
       /\ OpOk(d)'

\* A slot claimed by any of the three calls keeps the invariant.
LEMMA ClaimKeeps ==
    ASSUME VInv, Orderly, NEW k \in Slots, NEW st, NEW l, Claim(k, st, l),
           ClaimFits(k, st, l), op' \in [Cores -> Op],
           UNCHANGED <<setting, runs, pte, free, refc, data, tlb, shoot>>,
           \A d \in Cores : MayFork(d, k), ApartOk'
    PROVE  VInv'
<1>1. /\ Blank(k) /\ leader[k] = k
      /\ \A s \in Slots : s # k => leader[s] # k
      /\ \A d \in Cores : /\ op[d].who # k
                          /\ Running(d) => runs[d] # k /\ Mm(d) # k
  BY Unused DEF Claim
<1>2. /\ state[k] = "free"
      /\ \A s \in Slots : /\ state'[s] = IF s = k THEN st ELSE state[s]
                          /\ leader'[s] = IF s = k THEN l ELSE leader[s]
                          /\ brk'[s] = IF s = k THEN 0 ELSE brk[s]
                          /\ mnext'[s] = IF s = k THEN HeapTop ELSE mnext[s]
  BY DEF Claim, VInv, TypesOk, TypeOK
<1>3. /\ UNCHANGED <<setting, runs, pte, free, refc, data, tlb, shoot>>
      /\ \A d \in Cores : op'[d] = op[d] \/ (op[d] = User /\ op'[d].at = "fork")
  BY DEF MayFork
<1>4. TypesOk'
  <2>1. st \in {"free", "embryo", "live", "exited"} /\ l \in Slots
        /\ 0 \in 0 .. HeapTop /\ HeapTop \in HeapTop .. Top
    BY VmAssumption DEF ClaimFits
  <2>2. state' \in [Slots -> {"free", "embryo", "live", "exited"}]
        /\ leader' \in [Slots -> Slots] /\ brk' \in [Slots -> 0 .. HeapTop]
        /\ mnext' \in [Slots -> HeapTop .. Top]
    BY <2>1 DEF Claim, VInv, TypesOk, TypeOK
  <2> QED BY <2>2, <1>3 DEF VInv, TypesOk, TypeOK
<1>5. EntriesOk' /\ FreeOk' /\ ShootOk' /\ AloneOk'
  BY <1>3 DEF VInv, EntriesOk, FreeOk, ShootOk, AloneOk
<1>6. ASSUME NEW d \in Cores, Running(d)
      PROVE  /\ runs[d] \in Slots /\ Running(d)' /\ Mm(d)' = Mm(d)
             /\ leader'[runs[d]] = leader[runs[d]] /\ state'[runs[d]] = state[runs[d]]
  BY <1>1, <1>2, <1>3, <1>6, Here DEF Running, Mm
<1>7. RunsOk'
  BY <1>3, <1>6 DEF VInv, RunsOk, Running
<1>8. LeadersOk'
  <2>1. \A s \in Slots : leader[s] \in Slots /\ (Blank(s)' <=> Blank(s))
    BY <1>3 DEF Blank, VInv, TypesOk, TypeOK
  <2>2. l # k => leader[l] = l
    BY DEF ClaimFits, Alive
  <2>3. ASSUME NEW s \in Slots, s # k
        PROVE  /\ leader'[leader'[s]] = leader'[s]
               /\ leader'[s] # s => /\ state'[s] = "live" /\ Blank(s)'
                                    /\ state'[leader'[s]] \in {"live", "exited"}
               /\ state'[s] = "free" => Blank(s)'
    BY <2>1, <2>3, <1>1, <1>2 DEF VInv, LeadersOk
  <2>4. /\ leader'[leader'[k]] = leader'[k]
        /\ leader'[k] # k => /\ state'[k] = "live" /\ Blank(k)'
                             /\ state'[leader'[k]] \in {"live", "exited"}
        /\ state'[k] = "free" => Blank(k)'
    BY <2>1, <2>2, <1>1, <1>2 DEF ClaimFits
  <2> QED BY <2>3, <2>4 DEF LeadersOk
<1>9. ModeOk'
  <2>1. "thread" \notin setting.calls => \A s \in Slots : leader'[s] = s
    BY <1>2 DEF VInv, ModeOk, ClaimFits
  <2>2. \A d \in Cores : /\ op'[d].then = "munmap" => "munmap" \in setting.calls
                         /\ op'[d].at = "fork" => "fork" \in setting.calls
    BY DEF MayFork, VInv, ModeOk
  <2> QED BY <2>1, <2>2, <1>3 DEF VInv, ModeOk
<1>10. OpsOk'
  <2>1. ASSUME NEW d \in Cores, op'[d] = op[d] PROVE OpOk(d)'
    <3>1. op[d].who # None => op[d].who \in Slots /\ op[d].who # k /\ op[d].who # l
      <4>1. op[d].who # None => op[d].who \in Slots
        BY Foreign
      <4> QED BY <4>1, <1>1 DEF ClaimFits
    <3>2. op[d].at = "tear" \/ op[d].then = "tear" => op[d].who \in Slots
      BY DEF VInv, OpsOk, OpOk, TearOk
    <3>3. None \notin Slots
      BY VmAssumption
    <3>4. Running(d) => brk'[runs[d]] = brk[runs[d]]
      BY <1>1, <1>2, <1>6
    <3>5. Undisturbed(d)
      BY <2>1, <3>1, <3>2, <3>3, <3>4, <1>2, <1>3, <1>6 DEF Undisturbed
    <3> QED BY <3>5, OthersOk
  <2> QED BY <2>1 DEF OpsOk, MayFork
<1>11. OwnersCounted'
  <2>1. \A f \in Frames : Owing(f)' = Owing(f)
    <3>1. None \notin Frames
      BY VmAssumption
    <3> QED BY <3>1, OpFacts DEF Owing, MayFork
  <2> QED BY <2>1, <1>3 DEF VInv, OwnersCounted, Mappings
<1>12. ASSUME NEW p \in Slots, NEW u \in Page PROVE BoundFine(p, u)'
  <2>1. CASE p = k
    <3>1. brk'[p] = 0 /\ ~(u < 0) /\ pte'[p][u] = NoPte
      BY <2>1, <1>1, <1>2, <1>3 DEF Blank, Page
    <3> QED BY <3>1 DEF BoundFine
  <2>2. CASE p # k
    <3>1. BoundFine(p, u)
      BY DEF VInv, BoundsOk
    <3>2. Alive(p)' => Alive(p)
      BY <2>2, <1>2 DEF Alive, ClaimFits
    <3>3. Shrinking(p, u) => Shrinking(p, u)'
      <4> SUFFICES ASSUME Shrinking(p, u) PROVE Shrinking(p, u)'
        OBVIOUS
      <4>1. PICK x \in Cores : op[x].v = u /\ op[x].then = "brk" /\ Mm(x) = p
        BY DEF Shrinking
      <4>2. Running(x) /\ op'[x] = op[x]
        BY <4>1, <1>3, OpFacts DEF VInv, OpsOk, OpOk, ShrinkOk
      <4> QED BY <4>1, <4>2, <1>6 DEF Shrinking
    <3> QED BY <2>2, <3>1, <3>2, <3>3, <1>2, <1>3 DEF BoundFine
  <2> QED BY <2>1, <2>2
<1>13. ASSUME NEW d \in Cores, NEW u \in Page PROVE TlbFine(d, u)'
  <2> SUFFICES ASSUME Running(d)', tlb'[d][u] # NoTr
               PROVE  \/ Match(tlb[d][u], pte[Mm(d)][u])'
                      \/ Stale(d, u, tlb[d][u])' \/ Own(d, u)'
    BY DEF TlbFine
  <2>1. Running(d) /\ Mm(d)' = Mm(d) /\ TlbFine(d, u) /\ User.at = "user"
    BY <1>3, <1>6, OpFacts DEF Running, VInv, TlbOk
  <2>2. Stale(d, u, tlb[d][u]) => Stale(d, u, tlb[d][u])'
    <3> SUFFICES ASSUME Stale(d, u, tlb[d][u]) PROVE Stale(d, u, tlb[d][u])'
      OBVIOUS
    <3>1. PICK x \in Cores \ {d} :
             /\ Running(x) /\ Mm(x) = Mm(d) /\ op[x].v = u
             /\ op[x].at = "shoot" \/ (op[x].at = "wait" /\ d \in shoot.pending)
             /\ op[x].f = tlb[d][u].f
                \/ (pte[Mm(d)][u].is = "page" /\ pte[Mm(d)][u].f = tlb[d][u].f)
      BY DEF Stale
    <3>2. op'[x] = op[x] /\ Running(x)' /\ Mm(x)' = Mm(x)
      BY <3>1, <2>1, <1>3, <1>6
    <3> QED BY <3>1, <3>2, <2>1, <1>3 DEF Stale
  <2>3. Own(d, u) => Own(d, u)'
    BY <2>1, <1>3 DEF Own
  <2> QED BY <2>1, <2>2, <2>3, <1>3 DEF TlbFine, Match
<1> QED BY <1>4, <1>5, <1>7, <1>8, <1>9, <1>10, <1>11, <1>12, <1>13
        DEF VInv, BoundsOk, TlbOk

\* A new process.
LEMMA SpawnKeeps ==
    ASSUME VInv, Orderly, NEW k \in Slots, Spawn(k)
    PROVE  VInv'
<1>1. Claim(k, "live", k) /\ ClaimFits(k, "live", k)
      /\ UNCHANGED <<setting, runs, pte, free, refc, data, tlb, op, shoot>>
  BY DEF Spawn, ClaimFits, mmVars
<1>2. op' \in [Cores -> Op] /\ \A d \in Cores : MayFork(d, k)
  BY <1>1 DEF VInv, TypesOk, TypeOK, MayFork
<1>3. \A d \in Cores : Running(d)' = Running(d) /\ (Running(d) => Mm(d)' = Mm(d))
  BY <1>1, Unused DEF Running, Mm, Claim, VInv, TypesOk, TypeOK
<1>4. ApartOk'
  BY <1>1, <1>3 DEF VInv, ApartOk, Busy
<1> QED BY <1>1, <1>2, <1>4, ClaimKeeps

\* A new thread.
LEMMA ThreadCreateKeeps ==
    ASSUME VInv, Orderly, NEW c \in Cores, NEW k \in Slots, ThreadCreate(c, k)
    PROVE  VInv'
<1>1. PICK l : l = Mm(c)
  OBVIOUS
<1>2. Claim(k, "live", l) /\ InUser(c) /\ "thread" \in setting.calls
      /\ UNCHANGED <<setting, runs, pte, free, refc, data, tlb, op, shoot>>
  BY <1>1 DEF ThreadCreate, Call, mmVars
<1>3. Running(c) /\ l \in Slots /\ Alive(l) /\ state[l] \in {"live", "exited"}
  BY <1>1, <1>2, Here DEF InUser, Running
<1>4. ClaimFits(k, "live", l)
  BY <1>1, <1>2, <1>3, Foreign DEF ClaimFits
<1>5. op' \in [Cores -> Op] /\ \A d \in Cores : MayFork(d, k)
  BY <1>2 DEF VInv, TypesOk, TypeOK, MayFork
<1>6. \A d \in Cores : Running(d)' = Running(d) /\ (Running(d) => Mm(d)' = Mm(d))
  BY <1>2, Unused DEF Running, Mm, Claim, VInv, TypesOk, TypeOK
<1>7. ApartOk'
  BY <1>2, <1>6 DEF VInv, ApartOk, Busy
<1> QED BY <1>2, <1>4, <1>5, <1>7, ClaimKeeps

\* A fork begins.
LEMMA ForkKeeps ==
    ASSUME VInv, Orderly, NEW c \in Cores, NEW k \in Slots, Fork(c, k)
    PROVE  VInv'
<1>1. PICK o : o = [At("fork", 0) EXCEPT !.who = k]
  OBVIOUS
<1>2. Claim(k, "embryo", k) /\ InUser(c) /\ "fork" \in setting.calls /\ Go(c, o)
      /\ UNCHANGED <<setting, runs, pte, free, refc, data, tlb, shoot>>
  BY <1>1 DEF Fork, Call, mmVars
<1>3. /\ Running(c) /\ runs[c] \in Slots /\ op[c] = User /\ op[c].at = "user"
      /\ shoot.by # c
  BY <1>2, InRing3
<1>4. o \in Op /\ o.at = "fork" /\ o.v = 0 /\ o.f = None /\ o.then = "user" /\ o.who = k
  <2>1. 0 \in 0 .. Top
    BY VmAssumption
  <2>2. Doing(o, "fork", 0, NoPte, None, "user", k)
    BY <1>1, <2>1, OpForms
  <2> QED BY <2>2 DEF Doing
<1>5. SetsOp(c, o) /\ op'[c] = o /\ op' \in [Cores -> Op]
  BY <1>2, <1>4, GoDoes DEF VInv, SetsOp
<1>6. /\ Blank(k) /\ leader[k] = k
      /\ \A d \in Cores : /\ op[d].who # k
                          /\ Running(d) => runs[d] # k /\ Mm(d) # k
  BY <1>2, Unused DEF Claim
<1>7. \A s \in Slots : /\ state'[s] = IF s = k THEN "embryo" ELSE state[s]
                       /\ leader'[s] = IF s = k THEN k ELSE leader[s]
  BY <1>2 DEF Claim, VInv, TypesOk, TypeOK
<1>8. \A d \in Cores : Running(d)' = Running(d) /\ (Running(d) => Mm(d)' = Mm(d))
  BY <1>2, <1>6, <1>7, Here DEF Running, Mm
<1>9. ApartOk'
  <2>1. \A d, e \in Cores : Running(d) /\ Running(e) /\ Mm(d) = Mm(e) => d = e
    BY <1>2, ForkAlone
  <2>2. \A d, e \in Cores : d # e => (op'[d].who # None => op'[d].who # op'[e].who)
    BY <1>4, <1>5, <1>6 DEF SetsOp, VInv, ApartOk
  <2> QED BY <2>1, <2>2, <1>8 DEF ApartOk
<1>10. OpOk(c)'
  <2>1. \A v \in Page : ~(v < 0) /\ pte'[k][v] = NoPte
    BY <1>2, <1>6 DEF Page, Blank
  <2>2. ForkOk(c)'
    BY <2>1, <1>2, <1>3, <1>4, <1>5, <1>7, <1>8 DEF ForkOk, Inherited
  <2> QED BY <2>2, <1>2, <1>3, <1>4, <1>5
          DEF OpOk, FaultOk, Faulting, FreeingOk, ShootingOk, ShrinkOk, TearOk
<1>11. \A d \in Cores : MayFork(d, k)
  BY <1>2, <1>3, <1>4, <1>5, <1>10 DEF MayFork, SetsOp
<1>12. ClaimFits(k, "embryo", k)
  BY DEF ClaimFits
<1> QED BY <1>2, <1>5, <1>9, <1>11, <1>12, ClaimKeeps

-----------------------------------------------------------------------------
(* The end of a fork, and of a process. *)

\* The tables of a dead process are empty when its slot becomes free.
LEMMA TearDoneKeeps ==
    ASSUME VInv, NEW c \in Cores, TearDone(c)
    PROVE  VInv'
<1>1. PICK p : p = op[c].who
  OBVIOUS
<1>2. op[c].at = "tear" /\ op[c].v = Top /\ OpOk(c) /\ Top \in Nat
  BY VmAssumption DEF TearDone, VInv, OpsOk
<1>3. /\ ~Running(c) /\ p \in Slots /\ state[p] = "exited" /\ leader[p] = p
      /\ \A s \in Slots : leader[s] = p => state[s] # "live"
      /\ op[c].f = None /\ op[c].then = "user" /\ shoot.by # c /\ op[c].who # None
      /\ None \notin Slots /\ None \notin Frames
  BY <1>1, <1>2, VmAssumption DEF OpOk, TearOk, ShootingOk
<1>4. \A v \in Page : pte[p][v].is # "page" /\ pte[p][v].f = None
  <2>1. ASSUME NEW v \in Page PROVE pte[p][v].is # "page"
    <3>1. v < op[c].v
      BY <1>2 DEF Page
    <3> QED BY <3>1, <1>1, <1>2 DEF OpOk, TearOk
  <2>2. ASSUME NEW v \in Page PROVE EntryOk(pte[p][v]) /\ pte[p][v] \in Pte
    BY <1>3 DEF VInv, EntriesOk, TypesOk, TypeOK
  <2>3. NoPte.f = None
    BY EntryFacts
  <2>4. ASSUME NEW v \in Page PROVE pte[p][v].f = None
    <3>1. PICK e : e = pte[p][v]
      OBVIOUS
    <3>2. e.is # "page" /\ EntryOk(e) /\ e.is \in {"none", "zfod", "page"}
      BY <2>1, <2>2, <3>1 DEF Pte
    <3>3. e.f = None
      BY <2>3, <3>2 DEF EntryOk
    <3> QED BY <3>1, <3>3
  <2> QED BY <2>1, <2>4
<1>5. /\ state' = [state EXCEPT ![p] = "free"] /\ pte' = [pte EXCEPT ![p] = NoTables]
      /\ UNCHANGED <<setting, leader, runs, brk, mnext, free, refc, data, tlb, shoot>>
      /\ SetsOp(c, User)
  BY <1>1, GoDoes, OpFacts DEF TearDone, VInv, mmVars
<1>6. /\ \A s \in Slots : state'[s] = IF s = p THEN "free" ELSE state[s]
      /\ \A s \in Slots, v \in Page : pte'[s][v] = IF s = p THEN NoPte ELSE pte[s][v]
      /\ state' \in [Slots -> {"free", "embryo", "live", "exited"}]
      /\ pte' \in Tables
  <2>1. NoTables \in [Page -> Pte] /\ \A v \in Page : NoTables[v] = NoPte
    BY EntryFacts DEF NoTables
  <2> QED BY <2>1, <1>3, <1>5 DEF VInv, TypesOk, TypeOK, Tables
<1>7. TypesOk'
  BY <1>5, <1>6 DEF VInv, TypesOk, TypeOK, Tables, SetsOp
<1>8. EntriesOk' /\ FreeOk' /\ ShootOk' /\ AloneOk'
  <2>1. EntryOk(NoPte) /\ NoPte.is # "page"
    BY EntryFacts DEF EntryOk
  <2> QED BY <2>1, <1>5, <1>6 DEF VInv, EntriesOk, FreeOk, ShootOk, AloneOk
<1>9. RunsOk'
  BY <1>3, <1>5, <1>6, Here DEF VInv, RunsOk, Running
<1>10. LeadersOk'
  <2>1. Blank(p)' /\ \A s \in Slots : s # p => (Blank(s)' <=> Blank(s))
    BY <1>3, <1>6 DEF Blank
  <2> QED BY <2>1, <1>3, <1>5, <1>6 DEF VInv, LeadersOk
<1>11. ApartOk' /\ CoreStep(c)
  <2>1. OpFits(c, User)
    BY OpFacts DEF OpFits
  <2> QED BY <2>1, <1>5, OpKeeps
<1>12. ModeOk'
  <2>1. NoPte.cow = FALSE /\ User.then = "user" /\ User.at = "user"
    BY EntryFacts, OpFacts
  <2> QED BY <2>1, <1>5, <1>6 DEF VInv, ModeOk, SetsOp
<1>13. OpsOk'
  <2>1. OpOk(c)'
    BY <1>3, <1>5, UserOk DEF SetsOp
  <2>2. ASSUME NEW d \in Cores, d # c PROVE OpOk(d)'
    <3>1. op[d].who # None => op[d].who \in Slots /\ op[d].who # p
      BY <1>1, <1>3, <2>2, Foreign DEF VInv, ApartOk
    <3>2. Running(d) => Mm(d) \in Slots /\ Mm(d) # p
      BY <1>1, <1>3, Foreign, Here
    <3>3. op[d].at = "fork" => Running(d)
      BY DEF VInv, OpsOk, OpOk, ForkOk
    <3>4. Undisturbed(d)
      BY <1>3, <1>5, <1>6, <2>2, <3>1, <3>2, <3>3 DEF Undisturbed, SetsOp
    <3> QED BY <3>4, OthersOk
  <2> QED BY <2>1, <2>2 DEF OpsOk
<1>14. OwnersCounted'
  <2>1. \A f \in Frames : Mappings(f)' = Mappings(f)
    <3>1. NoPte.f = None
      BY EntryFacts
    <3> QED BY <3>1, <1>3, <1>4, <1>6 DEF Mappings
  <2>2. \A f \in Frames : Owing(f)' = Owing(f)
    BY <1>3, <1>5, OpFacts DEF Owing, SetsOp
  <2> QED BY <2>1, <2>2, <1>5 DEF VInv, OwnersCounted
<1>15. BoundsOk'
  <2>1. ASSUME NEW q \in Slots, NEW u \in Page PROVE BoundFine(q, u)'
    <3>1. CASE q = p
      BY <3>1, <1>3, <1>5, <1>6 DEF BoundFine, Alive
    <3>2. CASE q # p
      <4>1. Alive(q)' => Alive(q)
        BY <3>2, <1>3, <1>5, <1>6 DEF Alive
      <4> QED BY <3>2, <4>1, <1>3, <1>5, <1>6, <1>11, BoundFrame
    <3> QED BY <3>1, <3>2
  <2> QED BY <2>1 DEF BoundsOk
<1>16. TlbOk'
  <2>1. ASSUME NEW d \in Cores, NEW u \in Page PROVE TlbFine(d, u)'
    <3>1. Running(d)' => Running(d) /\ Mm(d)' = Mm(d)
      BY <1>5 DEF Running, Mm
    <3>2. Running(d) => pte'[Mm(d)][u] = pte[Mm(d)][u]
      BY <1>1, <1>3, <1>6, Foreign, Here
    <3>3. ~Own(c, u)
      BY <1>2 DEF Own
    <3> QED BY <3>1, <3>2, <3>3, <1>2, <1>5, <1>11, TlbFrame
  <2> QED BY <2>1 DEF TlbOk
<1> QED BY <1>7, <1>8, <1>9, <1>10, <1>11, <1>12, <1>13, <1>14, <1>15, <1>16 DEF VInv

\* The parent and the child of a fork.
LEMMA InFork ==
    ASSUME VInv, Orderly, NEW c \in Cores, op[c].at = "fork",
           NEW p, p = Mm(c), NEW k, k = op[c].who
    PROVE  /\ Running(c) /\ p \in Slots /\ runs[c] = p /\ leader[p] = p /\ state[p] = "live"
           /\ k \in Slots /\ state[k] = "embryo" /\ leader[k] = k /\ k # p
           /\ op[c].f = None /\ op[c].then = "user" /\ op[c].who # None /\ shoot.by # c
           /\ "fork" \in setting.calls
           /\ \A s \in Slots : leader[s] = s
           /\ \A d \in Cores : Running(d) /\ Mm(d) = p => d = c
           /\ \A d \in Cores : Running(d) => Mm(d) \in Slots /\ Mm(d) # k /\ runs[d] # k
           /\ \A d \in Cores : d # c /\ op[d].who # None =>
                 op[d].who \in Slots /\ op[d].who # k /\ op[d].who # p
           /\ \A v \in Page : pte[k][v] = Inherited(pte[p][v], v, op[c].v)
           /\ \A v \in Page : v < op[c].v => ~pte[p][v].w \/ pte[p][v].is # "page"
<1>1. OpOk(c) /\ "fork" \in setting.calls /\ None \notin Slots
  BY VmAssumption DEF VInv, OpsOk, ModeOk
<1>2. /\ Running(c) /\ k \in Slots /\ op[c].f = None /\ op[c].then = "user"
      /\ state[k] = "embryo" /\ leader[k] = k
      /\ \A v \in Page : pte[k][v] = Inherited(pte[p][v], v, op[c].v)
      /\ \A v \in Page : v < op[c].v => ~pte[p][v].w \/ pte[p][v].is # "page"
  BY <1>1 DEF OpOk, ForkOk
<1>3. \A s \in Slots : leader[s] = s
  BY <1>1, ForkAlone
<1>4. p \in Slots /\ runs[c] = p /\ leader[p] = p /\ state[p] = "live" /\ k # p
  BY <1>2, <1>3, Here
<1>5. \A d \in Cores : Running(d) /\ Mm(d) = p => d = c
  BY <1>1, <1>2, ForkAlone
<1>6. \A d \in Cores : Running(d) => Mm(d) \in Slots /\ Mm(d) # k /\ runs[d] # k
  BY <1>1, <1>2, Here, Foreign
<1>7. \A d \in Cores : d # c /\ op[d].who # None =>
                 op[d].who \in Slots /\ op[d].who # k /\ op[d].who # p
  BY <1>1, <1>2, Foreign DEF VInv, ApartOk
<1>8. shoot.by # c
  BY <1>1 DEF OpOk, ShootingOk
<1> QED BY <1>1, <1>2, <1>3, <1>4, <1>5, <1>6, <1>7, <1>8

\* The child has every page of its parent and goes live.
LEMMA ForkDoneKeeps ==
    ASSUME VInv, Orderly, NEW c \in Cores, ForkDone(c)
    PROVE  VInv'
<1>1. PICK p, k : p = Mm(c) /\ k = op[c].who
  OBVIOUS
<1>2. op[c].at = "fork" /\ op[c].v = Top /\ Top \in Nat
  BY VmAssumption DEF ForkDone
<1>3. /\ Running(c) /\ p \in Slots /\ runs[c] = p /\ leader[p] = p /\ state[p] = "live"
      /\ k \in Slots /\ state[k] = "embryo" /\ leader[k] = k /\ k # p
      /\ op[c].f = None /\ op[c].then = "user" /\ shoot.by # c
      /\ \A s \in Slots : leader[s] = s
  BY <1>1, <1>2, InFork
<1>4. /\ \A d \in Cores : Running(d) /\ Mm(d) = p => d = c
      /\ \A d \in Cores : Running(d) => Mm(d) \in Slots /\ Mm(d) # k /\ runs[d] # k
      /\ \A d \in Cores : d # c /\ op[d].who # None =>
            op[d].who \in Slots /\ op[d].who # k /\ op[d].who # p
      /\ \A v \in Page : pte[k][v] = Inherited(pte[p][v], v, op[c].v)
  BY <1>1, <1>2, InFork
<1>5. /\ state' = [state EXCEPT ![k] = "live"] /\ brk' = [brk EXCEPT ![k] = brk[p]]
      /\ mnext' = [mnext EXCEPT ![k] = mnext[p]]
      /\ UNCHANGED <<setting, leader, runs, pte, free, refc, data, tlb, shoot>>
      /\ SetsOp(c, User)
  BY <1>1, GoDoes, OpFacts DEF ForkDone, VInv, mmVars
<1>6. /\ state' \in [Slots -> {"free", "embryo", "live", "exited"}]
      /\ brk' \in [Slots -> 0 .. HeapTop] /\ mnext' \in [Slots -> HeapTop .. Top]
      /\ \A s \in Slots : /\ state'[s] = IF s = k THEN "live" ELSE state[s]
                          /\ brk'[s] = IF s = k THEN brk[p] ELSE brk[s]
                          /\ mnext'[s] = IF s = k THEN mnext[p] ELSE mnext[s]
  <2>1. state \in [Slots -> {"free", "embryo", "live", "exited"}]
        /\ brk \in [Slots -> 0 .. HeapTop] /\ mnext \in [Slots -> HeapTop .. Top]
    BY DEF VInv, TypesOk, TypeOK
  <2> QED BY <2>1, <1>3, <1>5
<1>7. TypesOk'
  BY <1>5, <1>6 DEF VInv, TypesOk, TypeOK, SetsOp
<1>8. EntriesOk' /\ FreeOk' /\ ShootOk' /\ AloneOk'
  BY <1>5 DEF VInv, EntriesOk, FreeOk, ShootOk, AloneOk
<1>9. RunsOk'
  BY <1>5, <1>6, Here DEF VInv, RunsOk, Running
<1>10. LeadersOk'
  BY <1>3, <1>5, <1>6 DEF VInv, LeadersOk, Blank
<1>11. ApartOk' /\ CoreStep(c)
  <2>1. OpFits(c, User)
    BY OpFacts DEF OpFits
  <2> QED BY <2>1, <1>5, OpKeeps
<1>12. ModeOk'
  <2>1. User.then = "user" /\ User.at = "user"
    BY OpFacts
  <2> QED BY <2>1, <1>5 DEF VInv, ModeOk, SetsOp
<1>13. OpsOk'
  <2>1. OpOk(c)'
    BY <1>3, <1>5, UserOk DEF SetsOp
  <2>2. ASSUME NEW d \in Cores, d # c PROVE OpOk(d)'
    <3>1. Running(d) => runs[d] \in Slots /\ runs[d] # k
      BY <1>4, Here
    <3>2. op[d].at = "tear" \/ op[d].then = "tear" => op[d].who # None
      BY VmAssumption DEF VInv, OpsOk, OpOk, TearOk
    <3>3. Undisturbed(d)
      BY <1>3, <1>4, <1>5, <1>6, <2>2, <3>1, <3>2 DEF Undisturbed, SetsOp
    <3> QED BY <3>3, OthersOk
  <2> QED BY <2>1, <2>2 DEF OpsOk
<1>14. OwnersCounted'
  <2>1. \A f \in Frames : Owing(f)' = Owing(f)
    BY <1>3, <1>5, OpFacts, VmAssumption DEF Owing, SetsOp
  <2> QED BY <2>1, <1>5 DEF VInv, OwnersCounted, Mappings
<1>15. BoundsOk'
  <2>1. ASSUME NEW q \in Slots, NEW u \in Page PROVE BoundFine(q, u)'
    <3>1. CASE q = k
      <4>1. BoundFine(p, u) /\ Alive(p)
        BY <1>3 DEF VInv, BoundsOk, Alive
      <4>2. ~Shrinking(p, u)
        <5> SUFFICES ASSUME Shrinking(p, u) PROVE FALSE
          OBVIOUS
        <5>1. PICK x \in Cores : op[x].then = "brk" /\ Mm(x) = p
          BY DEF Shrinking
        <5>2. Running(x)
          BY <5>1 DEF VInv, OpsOk, OpOk, ShrinkOk
        <5> QED BY <5>1, <5>2, <1>3, <1>4
      <4>3. pte'[k][u] = IF pte[p][u].is = "page" THEN pte[p][u] ELSE NoPte
        BY <1>2, <1>4, <1>5 DEF Inherited, Page
      <4>4. NoPte.is # "page"
        BY EntryFacts
      <4> QED BY <3>1, <4>1, <4>2, <4>3, <4>4, <1>3, <1>6 DEF BoundFine
    <3>2. CASE q # k
      <4>1. Alive(q)' => Alive(q)
        BY <3>2, <1>3, <1>5, <1>6 DEF Alive
      <4> QED BY <3>2, <4>1, <1>3, <1>5, <1>6, <1>11, BoundFrame
    <3> QED BY <3>1, <3>2
  <2> QED BY <2>1 DEF BoundsOk
<1>16. TlbOk'
  <2>1. ASSUME NEW d \in Cores, NEW u \in Page PROVE TlbFine(d, u)'
    <3>1. Running(d)' => Running(d) /\ Mm(d)' = Mm(d)
      BY <1>5 DEF Running, Mm
    <3>2. ~Own(c, u)
      BY <1>2 DEF Own
    <3> QED BY <3>1, <3>2, <1>2, <1>5, <1>11, TlbFrame
  <2> QED BY <2>1 DEF TlbOk
<1> QED BY <1>7, <1>8, <1>9, <1>10, <1>11, <1>12, <1>13, <1>14, <1>15, <1>16 DEF VInv

\* A thread leaves, and the last one begins the teardown.
LEMMA ExitKeeps ==
    ASSUME VInv, NEW c \in Cores, Exit(c)
    PROVE  VInv'
<1>1. PICK p, r : p = Mm(c) /\ r = runs[c]
  OBVIOUS
<1>2. PICK o : o = IF Last(c) THEN [At("tear", 0) EXCEPT !.who = p] ELSE User
  OBVIOUS
<1>3. InUser(c)
  BY DEF Exit
<1>4. /\ Running(c) /\ r \in Slots /\ p \in Slots /\ leader[p] = p /\ leader[r] = p
      /\ state[r] = "live" /\ state[p] \in {"live", "exited"}
      /\ op[c] = User /\ op[c].at = "user" /\ op[c].then = "user" /\ op[c].f = None
      /\ op[c].who = None /\ shoot.by # c
  BY <1>1, <1>3, InRing3, Here
<1>5. /\ o \in Op /\ o.f = None /\ o.then = "user" /\ o.at # "fork"
      /\ Last(c) => o.at = "tear" /\ o.v = 0 /\ o.who = p
      /\ ~Last(c) => o = User /\ o.who = None
  <2>1. CASE Last(c)
    <3>1. 0 \in 0 .. Top
      BY VmAssumption
    <3>2. Doing(o, "tear", 0, NoPte, None, "user", p)
      BY <2>1, <3>1, <1>2, <1>4, OpForms
    <3> QED BY <2>1, <3>2 DEF Doing
  <2>2. CASE ~Last(c)
    BY <2>2, <1>2, OpFacts
  <2> QED BY <2>1, <2>2
<1>6. /\ SetsOp(c, o) /\ op'[c] = o /\ Empties(c) /\ tlb' \in Cached
      /\ SetsRuns(c, None) /\ runs' \in [Cores -> Slots \cup {None}]
      /\ UNCHANGED <<setting, brk, mnext, pte, free, refc, data, shoot>>
  BY <1>1, <1>2, <1>5, GoDoes, LoadDoes, RunsDoes DEF Exit, VInv, mmVars, SetsOp
<1>7. /\ \A s \in Slots : /\ state'[s] = IF s = p /\ (s = r \/ Last(c)) THEN "exited"
                                         ELSE IF s = r THEN "free" ELSE state[s]
                          /\ leader'[s] = IF s = r THEN r ELSE leader[s]
      /\ state' \in [Slots -> {"free", "embryo", "live", "exited"}]
      /\ leader' \in [Slots -> Slots]
  <2>1. state \in [Slots -> {"free", "embryo", "live", "exited"}]
        /\ leader \in [Slots -> Slots]
    BY DEF VInv, TypesOk, TypeOK
  <2>2. state' = [s \in Slots |->
                    IF s = p /\ (s = r \/ Last(c)) THEN "exited"
                    ELSE IF s = r THEN "free" ELSE state[s]]
        /\ leader' = [leader EXCEPT ![r] = r]
    BY <1>1, <2>1 DEF Exit
  <2> QED BY <2>1, <2>2, <1>4
<1>8. None \notin Slots /\ None \notin Frames
  BY VmAssumption
\* Nobody else runs the slot, and nobody at all is left in the process the last one leaves.
<1>9. \A d \in Cores : d # c /\ Running(d) => runs[d] \in Slots /\ runs[d] # r
  BY <1>1, <1>4, Here DEF VInv, RunsOk
<1>10. Last(c) => \A s \in Slots : leader[s] = p /\ state[s] = "live" => s = r
  BY <1>1 DEF Last, Members
<1>11. \A d \in Cores : Running(d)' => /\ Running(d) /\ d # c /\ Mm(d)' = Mm(d) /\ runs'[d] = runs[d]
                                       /\ state'[runs[d]] = "live"
  <2>1. ASSUME NEW d \in Cores, Running(d)'
        PROVE  d # c /\ Running(d) /\ runs'[d] = runs[d]
    BY <2>1, <1>6 DEF Running, SetsRuns
  <2>2. ASSUME NEW d \in Cores, Running(d)'
        PROVE  leader'[runs[d]] = leader[runs[d]] /\ Mm(d)' = Mm(d)
    <3>1. runs[d] \in Slots /\ runs[d] # r /\ runs'[d] = runs[d]
      BY <2>1, <2>2, <1>9
    <3>2. leader'[runs[d]] = leader[runs[d]]
      BY <3>1, <1>7
    <3> QED BY <3>1, <3>2 DEF Mm
  <2>3. ASSUME NEW d \in Cores, Running(d)' PROVE state'[runs[d]] = "live"
    <3>1. runs[d] \in Slots /\ runs[d] # r /\ state[runs[d]] = "live"
      BY <2>1, <2>3, <1>9, Here
    <3>2. ~(runs[d] = p /\ Last(c))
      BY <3>1, <1>4, <1>10
    <3> QED BY <3>1, <3>2, <1>7
  <2> QED BY <2>1, <2>2, <2>3
<1>12. TypesOk'
  <2>1. TlbFrames'
    BY <1>6, FlushTypes
  <2> QED BY <2>1, <1>6, <1>7 DEF VInv, TypesOk, TypeOK, Cached, Translation, TlbFrames, SetsOp
<1>13. EntriesOk' /\ FreeOk' /\ ShootOk' /\ AloneOk'
  BY <1>6 DEF VInv, EntriesOk, FreeOk, ShootOk, AloneOk
<1>14. RunsOk'
  <2>1. \A d \in Cores : Running(d)' => state'[runs'[d]] = "live"
    BY <1>11
  <2>2. ASSUME NEW a \in Cores, NEW b \in Cores, Running(a)', runs'[a] = runs'[b]
        PROVE  a = b
    <3>1. Running(b)'
      BY <2>2 DEF Running
    <3>2. Running(a) /\ runs[a] = runs[b]
      BY <2>2, <3>1, <1>11
    <3> QED BY <3>2 DEF VInv, RunsOk
  <2> QED BY <2>1, <2>2 DEF RunsOk
<1>15. LeadersOk'
  <2>1. \A s \in Slots : leader[s] \in Slots /\ (Blank(s)' <=> Blank(s))
    BY <1>6 DEF Blank, VInv, TypesOk, TypeOK
  <2>2. p # r => Blank(r)
    BY <1>4 DEF VInv, LeadersOk
  <2>3. ASSUME NEW s \in Slots
        PROVE  /\ leader'[leader'[s]] = leader'[s]
               /\ leader'[s] # s => /\ state'[s] = "live" /\ Blank(s)'
                                    /\ state'[leader'[s]] \in {"live", "exited"}
               /\ state'[s] = "free" => Blank(s)'
    <3>1. CASE s = r
      BY <3>1, <2>1, <2>2, <1>4, <1>7
    <3>2. CASE s # r
      <4>1. leader'[s] = leader[s] /\ leader[s] \in Slots /\ leader[leader[s]] = leader[s]
        BY <3>2, <2>1, <1>7 DEF VInv, LeadersOk
      <4>2. leader'[leader[s]] = leader[s]
        BY <4>1, <1>7
      <4>3. leader[s] # s => /\ state'[s] = "live" /\ Blank(s)'
                             /\ state'[leader[s]] \in {"live", "exited"}
        <5> SUFFICES ASSUME leader[s] # s
                     PROVE  /\ state'[s] = "live" /\ Blank(s)'
                            /\ state'[leader[s]] \in {"live", "exited"}
          OBVIOUS
        <5>1. state[s] = "live" /\ Blank(s) /\ state[leader[s]] \in {"live", "exited"}
          BY DEF VInv, LeadersOk
        <5>2. s # p
          BY <1>4
        <5>3. state'[s] = "live"
          BY <5>1, <5>2, <3>2, <1>7
        <5>4. leader[s] = r => r = p
          BY <4>1, <1>4
        <5> QED BY <5>1, <5>3, <5>4, <2>1, <4>1, <1>7
      <4>4. state'[s] = "free" => Blank(s)'
        BY <3>2, <2>1, <1>7 DEF VInv, LeadersOk
      <4> QED BY <4>1, <4>2, <4>3, <4>4
    <3> QED BY <3>1, <3>2
  <2> QED BY <2>3 DEF LeadersOk
<1>16. CoreStep(c)
  BY <1>6, <1>7, <1>9 DEF CoreStep, SetsOp, SetsRuns
<1>17. ApartOk'
  <2>1. ASSUME NEW a \in Cores, NEW b \in Cores, a # b, op'[a].who # None
        PROVE  op'[a].who # op'[b].who
    <3>1. \A d \in Cores : op[d].who # None => op[d].who # p
      BY <1>1, <1>4, Foreign
    <3> QED BY <2>1, <3>1, <1>4, <1>5, <1>6 DEF SetsOp, VInv, ApartOk
  <2>2. ASSUME NEW a \in Cores, NEW b \in Cores, a # b, Running(a)', Running(b)',
               Busy(a)', Busy(b)', Mm(a)' = Mm(b)'
        PROVE  op'[a].v # op'[b].v
    <3>1. Running(a) /\ Running(b) /\ Mm(a) = Mm(b) /\ op'[a] = op[a] /\ op'[b] = op[b]
      BY <2>2, <1>6, <1>11 DEF SetsOp
    <3>2. Busy(a) /\ Busy(b)
      BY <2>2, <3>1 DEF Busy
    <3> QED BY <3>1, <3>2, <2>2 DEF VInv, ApartOk
  <2> QED BY <2>1, <2>2 DEF ApartOk
<1>18. ModeOk'
  <2>1. "thread" \notin setting.calls => \A s \in Slots : leader'[s] = s
    BY <1>7 DEF VInv, ModeOk
  <2>2. \A d \in Cores : /\ op'[d].then = "munmap" => "munmap" \in setting.calls
                         /\ op'[d].at = "fork" => "fork" \in setting.calls
    BY <1>5, <1>6 DEF SetsOp, VInv, ModeOk
  <2> QED BY <2>1, <2>2, <1>6 DEF VInv, ModeOk
<1>19. OpsOk'
  <2>1. OpOk(c)'
    <3>1. CASE Last(c)
      <4>1. ~Running(c)'
        BY <1>6 DEF Running, SetsRuns
      <4>2. \A s \in Slots : leader'[s] = p => state'[s] # "live"
        BY <3>1, <1>7, <1>10
      <4>3. state'[p] = "exited" /\ leader'[p] = p /\ \A v \in Page : ~(v < 0)
        BY <3>1, <1>4, <1>7 DEF Page
      <4>4. TearOk(c)'
        BY <3>1, <4>1, <4>2, <4>3, <1>4, <1>5, <1>6 DEF TearOk
      <4> QED BY <3>1, <4>4, <1>4, <1>5, <1>6
              DEF OpOk, FaultOk, Faulting, FreeingOk, ShootingOk, ShrinkOk, ForkOk
    <3>2. CASE ~Last(c)
      BY <3>2, <1>4, <1>5, <1>6, UserOk
    <3> QED BY <3>1, <3>2
  <2>2. ASSUME NEW d \in Cores, d # c PROVE OpOk(d)'
    <3>1. op[d].who # None => op[d].who \in Slots /\ op[d].who # p /\ op[d].who # r
      BY <1>1, <1>4, Foreign
    <3>2. op[d].at = "tear" \/ op[d].then = "tear" => op[d].who # None
      BY <1>8 DEF VInv, OpsOk, OpOk, TearOk
    <3>3. op'[d] = op[d] /\ runs'[d] = runs[d] /\ (Running(d) => leader'[runs[d]] = leader[runs[d]])
      BY <2>2, <1>16 DEF CoreStep
    <3>4. ASSUME op[d].who # None
          PROVE  /\ state'[op[d].who] = state[op[d].who] /\ leader'[op[d].who] = leader[op[d].who]
                 /\ \A s \in Slots : leader'[s] = op[d].who /\ state'[s] = "live" =>
                                        leader[s] = op[d].who /\ state[s] = "live"
      BY <3>1, <3>4, <1>7
    <3>5. Undisturbed(d)
      BY <3>2, <3>3, <3>4, <1>6 DEF Undisturbed
    <3> QED BY <3>5, OthersOk
  <2> QED BY <2>1, <2>2 DEF OpsOk
<1>20. OwnersCounted'
  <2>1. \A f \in Frames : Owing(f)' = Owing(f)
    BY <1>4, <1>5, <1>6, <1>8 DEF Owing, SetsOp
  <2> QED BY <2>1, <1>6 DEF VInv, OwnersCounted, Mappings
<1>21. BoundsOk'
  <2>1. ASSUME NEW q \in Slots, NEW u \in Page PROVE BoundFine(q, u)'
    <3>1. \A s \in Slots : state'[s] = "live" => s # r /\ state[s] = "live" /\ leader'[s] = leader[s]
      BY <1>7
    <3>2. CASE q = r /\ r # p
      <4>1. \A s \in Slots : s # r => leader[s] # r
        BY <3>2, <1>4 DEF VInv, LeadersOk
      <4>2. state'[q] # "live" /\ ~Alive(q)'
        BY <3>1, <3>2, <4>1 DEF Alive
      <4> QED BY <4>2 DEF BoundFine
    <3>3. CASE ~(q = r /\ r # p)
      <4>1. leader'[q] = leader[q]
        BY <3>3, <1>4, <1>7
      <4>2. Alive(q)' => Alive(q)
        BY <3>1, <4>1 DEF Alive
      <4> QED BY <3>1, <4>1, <4>2, <1>4, <1>6, <1>16, BoundFrame
    <3> QED BY <3>2, <3>3
  <2> QED BY <2>1 DEF BoundsOk
<1>22. TlbOk'
  <2>1. ASSUME NEW d \in Cores, NEW u \in Page PROVE TlbFine(d, u)'
    <3>1. Running(d)' => Running(d) /\ Mm(d)' = Mm(d)
      BY <1>11
    <3>2. tlb'[d][u] # NoTr => tlb'[d][u] = tlb[d][u] /\ d # c
      BY <1>6 DEF Empties
    <3> QED BY <3>1, <3>2, <1>4, <1>6, <1>16, TlbFrame
  <2> QED BY <2>1 DEF TlbOk
<1> QED BY <1>12, <1>13, <1>14, <1>15, <1>17, <1>18, <1>19, <1>20, <1>21, <1>22 DEF VInv

\* A page a fork has nothing to share of: it moves on.
LEMMA ForkSkips ==
    ASSUME VInv, Orderly, NEW c \in Cores, ForkPage(c),
           pte[Mm(c)][op[c].v].is # "page"
    PROVE  VInv'
<1>1. PICK p, k, v : p = Mm(c) /\ k = op[c].who /\ v = op[c].v
  OBVIOUS
<1>2. op[c].at = "fork" /\ op[c] \in Op /\ v < Top /\ v \in Nat /\ v \in Page /\ Top \in Nat
  BY <1>1, VmAssumption DEF ForkPage, VInv, TypesOk, TypeOK, Op, Page
<1>3. /\ Running(c) /\ k \in Slots /\ op[c].f = None /\ op[c].then = "user" /\ op[c].who # None
      /\ shoot.by # c /\ "fork" \in setting.calls /\ p \in Slots
      /\ \A d \in Cores : Running(d) /\ Mm(d) = p => d = c
      /\ \A d \in Cores : d # c /\ op[d].who # None => op[d].who # k
      /\ \A u \in Page : pte[k][u] = Inherited(pte[p][u], u, v)
      /\ \A u \in Page : u < v => ~pte[p][u].w \/ pte[p][u].is # "page"
      /\ state[k] = "embryo" /\ leader[k] = k
  BY <1>1, <1>2, InFork
<1>4. PICK o : o = [op[c] EXCEPT !.v = @ + 1]
  OBVIOUS
<1>5. o \in Op /\ o.at = "fork" /\ o.v = v + 1 /\ o.f = None /\ o.then = "user" /\ o.who = k
  <2>1. Doing(o, "fork", v + 1, op[c].e, None, "user", k)
    BY <1>1, <1>2, <1>3, <1>4, OpChanges
  <2> QED BY <2>1 DEF Doing
<1>6. /\ UNCHANGED <<setting, state, leader, runs, brk, mnext, pte, free, refc, data, tlb,
                     shoot>>
      /\ SetsOp(c, o) /\ op'[c] = o
  BY <1>1, <1>4, <1>5, GoDoes DEF ForkPage, VInv, taskVars, SetsOp
<1>7. OpFits(c, o)
  <2>1. Apart(c, o.v)
    BY <1>1, <1>3 DEF Apart
  <2>2. \A d \in Cores \ {c} : op[d].who # k
    BY <1>3, VmAssumption
  <2> QED BY <2>1, <2>2, <1>3, <1>5 DEF OpFits
<1>8. ReadsOnly(c, o)
  <2>1. None \notin Frames /\ tlb' \in Cached
    BY <1>6, VmAssumption DEF VInv, TypesOk, TypeOK, Cached, Translation
  <2> QED BY <2>1, <1>2, <1>3, <1>5, <1>6 DEF ReadsOnly, Owes, Own
<1>9. OpOk(c)'
  <2>1. Running(c)' /\ Mm(c)' = p /\ pte' = pte /\ state' = state /\ leader' = leader
    BY <1>1, <1>3, <1>6 DEF Running, Mm
  <2>2. \A u \in Page : u < v + 1 => u < v \/ u = v
    BY <1>2 DEF Page
  <2>3. pte[p][v].is # "page"
    BY <1>1
  <2>4. \A u \in Page : pte[k][u] = Inherited(pte[p][u], u, v + 1)
    <3>1. ~(v < v)
      BY <1>2
    <3>2. \A u \in Page : u < v => u < v + 1
      BY <1>2 DEF Page
    <3> QED BY <3>1, <3>2, <2>2, <2>3, <1>3 DEF Inherited
  <2>5. \A u \in Page : u < v + 1 => ~pte[p][u].w \/ pte[p][u].is # "page"
    BY <2>2, <2>3, <1>3
  <2>6. ForkOk(c)'
    BY <2>1, <2>4, <2>5, <1>3, <1>5, <1>6 DEF ForkOk
  <2> QED BY <2>6, <1>3, <1>5, <1>6
          DEF OpOk, FaultOk, Faulting, FreeingOk, ShootingOk, ShrinkOk, TearOk
<1> QED BY <1>7, <1>8, <1>9, ReadStep

\* A page that is shared: two entries and a count change.
SharesPage(p, k, v, e, n, f) ==
    /\ p \in Slots /\ k \in Slots /\ k # p /\ v \in Page /\ f \in Frames
    /\ e = pte[p][v] /\ e.is = "page" /\ e.f = f /\ pte[k][v] = NoPte
    /\ n \in Pte /\ n.is = "page" /\ n.f = f /\ n.w = FALSE /\ n.cow = (e.w \/ e.cow)
    /\ pte' \in Tables /\ refc' \in [Frames -> Nat]
    /\ \A q \in Slots, u \in Page :
          pte'[q][u] = IF u = v /\ (q = p \/ q = k) THEN n ELSE pte[q][u]
    /\ \A g \in Frames : refc'[g] = IF g = f THEN refc[f] + 1 ELSE refc[g]
    /\ UNCHANGED <<setting, state, leader, runs, brk, mnext, free, data, shoot>>

\* What the clone of one page does.
LEMMA ForkShares ==
    ASSUME VInv, Orderly, NEW c \in Cores, ForkPage(c),
           NEW p, NEW k, NEW v, p = Mm(c), k = op[c].who, v = op[c].v,
           NEW e, NEW n, NEW f, e = pte[p][v], n = Shared(e), f = e.f, e.is = "page"
    PROVE  SharesPage(p, k, v, e, n, f)
<1>2. op[c].at = "fork" /\ v < Top /\ v \in Nat /\ v \in Page
  BY VmAssumption DEF ForkPage, VInv, TypesOk, TypeOK, Op, Page
<1>3. /\ k \in Slots /\ p \in Slots /\ k # p
      /\ pte[k][v] = Inherited(e, v, v)
  BY <1>2, InFork
<1>4. e \in Pte /\ f \in Frames /\ pte \in Tables /\ refc \in [Frames -> Nat]
  BY <1>2, <1>3 DEF VInv, TypesOk, TypeOK, EntriesOk, EntryOk, Tables
<1>5. n \in Pte /\ n.is = "page" /\ n.f = f /\ n.w = FALSE /\ n.cow = (e.w \/ e.cow)
  <2>1. (e.w \/ e.cow) \in BOOLEAN /\ n = [e EXCEPT !.cow = e.w \/ e.cow, !.w = FALSE]
    BY DEF Shared
  <2> QED BY <2>1, <1>4 DEF Pte
<1>6. /\ refc' = [refc EXCEPT ![f] = refc[f] + 1]
      /\ pte' = [pte EXCEPT ![p][v] = n, ![k][v] = n]
      /\ UNCHANGED <<setting, state, leader, runs, brk, mnext, free, data, shoot>>
  BY DEF ForkPage, Kept, Gained, taskVars
<1>7. /\ pte' \in Tables
      /\ \A q \in Slots, u \in Page :
            pte'[q][u] = IF u = v /\ (q = p \/ q = k) THEN n ELSE pte[q][u]
  <2>1. PICK t : t = [pte EXCEPT ![p][v] = n]
    OBVIOUS
  <2>2. [pte[p] EXCEPT ![v] = n] \in [Page -> Pte]
    BY <1>3, <1>4, <1>5 DEF Tables
  <2>3. t \in Tables /\ \A q \in Slots, u \in Page :
                           t[q][u] = IF q = p /\ u = v THEN n ELSE pte[q][u]
    BY <2>1, <2>2, <1>3, <1>4 DEF Tables
  <2>4. pte' = [t EXCEPT ![k][v] = n]
    BY <2>1, <1>6
  <2>5. [t[k] EXCEPT ![v] = n] \in [Page -> Pte]
    BY <2>3, <1>3, <1>5 DEF Tables
  <2>6. pte' \in Tables /\ \A q \in Slots, u \in Page :
                           pte'[q][u] = IF q = k /\ u = v THEN n ELSE t[q][u]
    BY <2>3, <2>4, <2>5, <1>3 DEF Tables
  <2> QED BY <2>3, <2>6
<1>8. pte[k][v] = NoPte
  BY <1>2, <1>3 DEF Inherited
<1>9. refc' \in [Frames -> Nat] /\ \A g \in Frames : refc'[g] = IF g = f THEN refc[f] + 1 ELSE refc[g]
  <2>1. PICK r \in Nat : r = refc[f] + 1
    BY <1>4
  <2>2. refc' = [refc EXCEPT ![f] = r]
    BY <1>6, <2>1
  <2>3. refc' \in [Frames -> Nat] /\ \A g \in Frames : refc'[g] = IF g = f THEN r ELSE refc[g]
    BY <1>4, <2>2
  <2> QED BY <2>1, <2>3
<1> QED BY <1>2, <1>3, <1>4, <1>5, <1>6, <1>7, <1>8, <1>9 DEF SharesPage

\* The frame has one more entry and one more owner.
LEMMA SharedCount ==
    ASSUME VInv, NEW p, NEW k, NEW v, NEW e, NEW n, NEW f, SharesPage(p, k, v, e, n, f),
           \A c \in Cores : op'[c].f = op[c].f /\ op'[c].then = op[c].then
    PROVE  OwnersCounted'
<1>1. /\ p \in Slots /\ k \in Slots /\ k # p /\ v \in Page /\ f \in Frames
      /\ pte[p][v].f = f /\ n.f = f /\ free' = free
      /\ \A q \in Slots, u \in Page :
            pte'[q][u] = IF u = v /\ (q = p \/ q = k) THEN n ELSE pte[q][u]
      /\ \A g \in Frames : refc'[g] = IF g = f THEN refc[f] + 1 ELSE refc[g]
  BY DEF SharesPage
<1>2. pte[k][v].f = None /\ None \notin Frames
  BY EntryFacts, VmAssumption DEF SharesPage
<1>3. \A m \in Places : m[1] \in Slots /\ m[2] \in Page /\ m = <<m[1], m[2]>>
  BY DEF Places
<1>4. ASSUME NEW g \in Frames PROVE Maps(g)' + Owe(g)' = Owners(g)'
  <2>1. Owe(g)' = Owe(g) /\ Owe(g) \in Nat /\ Maps(g) \in Nat /\ Maps(g) + Owe(g) = Owners(g)
    <3>1. OweOf(op', g) = OweOf(op, g)
      BY DEF OweOf, Owes
    <3> QED BY <3>1, Bounds DEF Owe
  <2>2. CASE g # f
    <3>1. MapsOf(pte', g) = MapsOf(pte, g)
      BY <2>2, <1>1, <1>2, <1>3 DEF MapsOf
    <3>2. Maps(g)' = Maps(g) /\ Owners(g)' = Owners(g)
      BY <2>2, <3>1, <1>1 DEF Maps, Owners
    <3> QED BY <3>2, <2>1
  <2>3. CASE g = f
    <3> DEFINE m == <<k, v>>
    <3>1. m \in Places /\ m[1] = k /\ m[2] = v /\ m \notin MapsOf(pte, f)
      BY <1>1, <1>2 DEF Places, MapsOf
    <3>2. MapsOf(pte', f) = MapsOf(pte, f) \cup {m}
      BY <3>1, <1>1, <1>3 DEF MapsOf
    <3>3. IsFiniteSet(MapsOf(pte, f))
      BY Finite
    <3>4. Maps(f)' = Maps(f) + 1
      BY <3>1, <3>2, <3>3, FS_AddElement DEF Maps
    <3>5. f \notin free /\ refc[f] \in Nat
      BY <1>1, SoleOwner, Bounds
    <3>6. Owners(f)' = Owners(f) + 1
      BY <3>5, <1>1 DEF Owners
    <3> QED BY <2>1, <2>3, <3>4, <3>6
  <2> QED BY <2>2, <2>3
<1> QED BY <1>4, CountedNext

\* The clone of one page: one more entry, one more owner, nobody may write.
LEMMA ForkPageKeeps ==
    ASSUME VInv, Orderly, NEW c \in Cores, ForkPage(c)
    PROVE  VInv'
<1>1. PICK p, k, v, e : p = Mm(c) /\ k = op[c].who /\ v = op[c].v /\ e = pte[p][v]
  OBVIOUS
<1>2. PICK n, f : n = Shared(e) /\ f = e.f
  OBVIOUS
<1>3. CASE e.is # "page"
  BY <1>1, <1>3, ForkSkips
<1>4. CASE e.is = "page"
  <2>1. op[c].at = "fork" /\ op[c] \in Op /\ v < Top /\ v \in Nat /\ v \in Page
    BY <1>1, VmAssumption DEF ForkPage, VInv, TypesOk, TypeOK, Op, Page
  <2>2. SharesPage(p, k, v, e, n, f)
    BY <1>1, <1>2, <1>4, ForkShares
  <2>3. /\ Running(c) /\ p \in Slots /\ runs[c] = p /\ leader[p] = p /\ state[p] = "live"
        /\ k \in Slots /\ state[k] = "embryo" /\ leader[k] = k /\ k # p
        /\ op[c].f = None /\ op[c].then = "user" /\ op[c].who # None /\ shoot.by # c
        /\ "fork" \in setting.calls
        /\ \A s \in Slots : leader[s] = s
    BY <1>1, <2>1, InFork
  <2>4. /\ \A d \in Cores : Running(d) /\ Mm(d) = p => d = c
        /\ \A d \in Cores : Running(d) => Mm(d) \in Slots /\ Mm(d) # k /\ runs[d] # k
        /\ \A d \in Cores : d # c /\ op[d].who # None =>
              op[d].who \in Slots /\ op[d].who # k /\ op[d].who # p
        /\ \A u \in Page : pte[k][u] = Inherited(pte[p][u], u, v)
        /\ \A u \in Page : u < v => ~pte[p][u].w \/ pte[p][u].is # "page"
    BY <1>1, <2>1, InFork
  <2>5. PICK o : o = [op[c] EXCEPT !.v = @ + 1]
    OBVIOUS
  <2>6. o \in Op /\ o.at = "fork" /\ o.v = v + 1 /\ o.f = None /\ o.then = "user" /\ o.who = k
    <3>1. Doing(o, "fork", v + 1, op[c].e, None, "user", k)
      BY <1>1, <2>1, <2>3, <2>5, OpChanges
    <3> QED BY <3>1 DEF Doing
  <2>7. SetsOp(c, o) /\ op'[c] = o
    BY <1>1, <2>5, <2>6, GoDoes DEF ForkPage, VInv, SetsOp
  <2>8. /\ \A q \in Slots, u \in Page :
              pte'[q][u] = IF u = v /\ (q = p \/ q = k) THEN n ELSE pte[q][u]
        /\ pte' \in Tables /\ refc' \in [Frames -> Nat] /\ f \in Frames
        /\ \A g \in Frames : refc'[g] = IF g = f THEN refc[f] + 1 ELSE refc[g]
        /\ UNCHANGED <<setting, state, leader, runs, brk, mnext, free, data, shoot>>
        /\ n \in Pte /\ n.is = "page" /\ n.f = f /\ n.w = FALSE /\ n.cow = (e.w \/ e.cow)
        /\ e = pte[p][v] /\ e.is = "page" /\ e.f = f
    BY <2>2 DEF SharesPage
  <2>9. tlb' \in Cached /\ (tlb' = tlb \/ SetsTlb(c, v, NoTr))
        /\ (e.w \/ e.cow => SetsTlb(c, v, NoTr))
    <3>1. tlb \in Cached
      BY DEF VInv, TypesOk, TypeOK, Cached, Translation
    <3>2. IF e.w \/ e.cow THEN Flush(c, v) ELSE tlb' = tlb
      BY <1>1, <1>4 DEF ForkPage
    <3> QED BY <2>1, <3>1, <3>2, FlushDoes DEF VInv
  <2>10. TlbFrames' /\ \A d \in Cores, u \in Page : tlb'[d][u] # NoTr => tlb'[d][u] = tlb[d][u]
    <3>1. CASE tlb' = tlb
      BY <3>1, FlushTypes
    <3>2. CASE SetsTlb(c, v, NoTr)
      BY <3>2, <2>1, FlushTypes DEF SetsTlb
    <3> QED BY <3>1, <3>2, <2>9
  <2>11. TypesOk'
    BY <2>7, <2>8, <2>9, <2>10
       DEF VInv, TypesOk, TypeOK, Tables, Cached, Translation, TlbFrames, SetsOp
  <2>12. EntriesOk' /\ ShootOk' /\ RunsOk'
    BY <2>8 DEF VInv, EntriesOk, EntryOk, ShootOk, RunsOk, Running
  <2>13. FreeOk'
    <3>1. f \notin free
      BY <2>1, <2>3, <2>8, SoleOwner
    <3> QED BY <3>1, <2>8 DEF VInv, FreeOk, TypesOk, TypeOK
  <2>14. LeadersOk'
    <3>1. \A s \in Slots : s # p /\ s # k => (Blank(s) => Blank(s)')
      BY <2>8 DEF Blank
    <3> QED BY <3>1, <2>3, <2>8 DEF VInv, LeadersOk
  <2>15. ModeOk'
    BY <2>3, <2>6, <2>7, <2>8 DEF VInv, ModeOk, SetsOp
  <2>16. AloneOk'
    <3> SUFFICES ASSUME NEW q \in Slots, NEW r \in Slots, NEW u \in Page, NEW x \in Page,
                        pte'[q][x].is = "page", pte'[q][x].w,
                        pte'[r][u].is = "page", pte'[r][u].f = pte'[q][x].f
                 PROVE  r = q /\ u = x
      BY DEF AloneOk
    <3>1. ~(x = v /\ (q = p \/ q = k)) /\ pte'[q][x] = pte[q][x]
      BY <2>8
    <3>2. CASE u = v /\ (r = p \/ r = k)
      <4>1. pte[q][x].is = "page" /\ pte[q][x].w /\ pte[p][v].is = "page"
            /\ pte[p][v].f = pte[q][x].f
        BY <3>1, <3>2, <2>8
      <4>2. p = q /\ v = x
        BY <4>1, <2>1, <2>3 DEF VInv, AloneOk
      <4> QED BY <4>2, <3>1
    <3>3. CASE ~(u = v /\ (r = p \/ r = k))
      <4>1. pte'[r][u] = pte[r][u]
        BY <3>3, <2>8
      <4> QED BY <4>1, <3>1 DEF VInv, AloneOk
    <3> QED BY <3>2, <3>3
  <2>17. ApartOk' /\ CoreStep(c)
    <3>1. OpFits(c, o)
      BY <1>1, <2>3, <2>4, <2>6, VmAssumption DEF OpFits, Apart
    <3> QED BY <3>1, <2>7, <2>8, OpKeeps
  <2>18. OpOk(c)'
    <3>1. Running(c)' /\ Mm(c)' = p
      BY <1>1, <2>3, <2>8 DEF Running, Mm
    <3>2. \A u \in Page : (u < v + 1 <=> u < v \/ u = v) /\ ~(u < v /\ u = v)
      BY <2>1 DEF Page
    <3>3. \A u \in Page : pte'[k][u] = Inherited(pte'[p][u], u, v + 1)
      BY <3>2, <2>1, <2>3, <2>4, <2>8 DEF Inherited
    <3>4. \A u \in Page : u < v + 1 => ~pte'[p][u].w \/ pte'[p][u].is # "page"
      BY <3>2, <2>3, <2>4, <2>8
    <3>5. ForkOk(c)'
      BY <3>1, <3>3, <3>4, <2>3, <2>6, <2>7, <2>8 DEF ForkOk
    <3> QED BY <3>5, <2>3, <2>6, <2>7, <2>8
            DEF OpOk, FaultOk, Faulting, FreeingOk, ShootingOk, ShrinkOk, TearOk
  <2>19. ASSUME NEW d \in Cores, d # c PROVE OpOk(d)'
    <3>1. OpOk(d)
      BY DEF VInv, OpsOk
    <3>2. Running(d) => Mm(d) \in Slots /\ Mm(d) # p /\ Mm(d) # k
      BY <2>4, <2>19
    <3>3. op[d].at = "fork" => Running(d)
      BY <3>1 DEF OpOk, ForkOk
    <3>0. refc[f] = 0 =>
             /\ \A q \in Slots, u \in Page : pte[q][u].f = f => q = p
             /\ ~Owes(op[d], f)
      BY <2>1, <2>3, <2>8, SoleOwner
    \* The frame has an owner, so nobody is about to take it or to free it.
    <3>4. op[d].at = "take" /\ refc[op[d].e.f] = 0 => op[d].e.f \in Frames /\ op[d].e.f # f
      <4> SUFFICES ASSUME op[d].at = "take", refc[op[d].e.f] = 0
                   PROVE  op[d].e.f \in Frames /\ op[d].e.f # f
        OBVIOUS
      <4>1. /\ Running(d) /\ op[d].v \in Page /\ op[d].e = pte[Mm(d)][op[d].v]
            /\ op[d].e.is = "page"
        BY <3>1 DEF OpOk, FaultOk, Faulting
      <4>2. op[d].e.f \in Frames
        BY <3>2, <4>1 DEF VInv, EntriesOk, EntryOk
      <4>3. pte[Mm(d)][op[d].v].f = op[d].e.f
        BY <4>1
      <4> QED BY <3>0, <3>2, <4>1, <4>2, <4>3
    <3>5. op[d].at = "push" /\ refc[op[d].f] = 0 => op[d].f \in Frames /\ op[d].f # f
      <4> SUFFICES ASSUME op[d].at = "push", refc[op[d].f] = 0
                   PROVE  op[d].f \in Frames /\ op[d].f # f
        OBVIOUS
      <4>1. op[d].f \in Frames /\ op[d].v \in Page
        BY <3>1 DEF OpOk, FreeingOk
      <4>2. CASE op[d].then = "tear"
        <5>1. op[d].who \in Slots /\ op[d].who # p /\ pte[op[d].who][op[d].v].f = op[d].f
          BY <3>1, <4>2, <2>4, <2>19, VmAssumption DEF OpOk, TearOk
        <5> QED BY <3>0, <4>1, <5>1
      <4>3. CASE op[d].then # "tear"
        BY <3>0, <4>1, <4>3 DEF Owes
      <4> QED BY <4>1, <4>2, <4>3
    <3>6. Undisturbed(d)
      BY <3>2, <3>3, <3>4, <3>5, <2>4, <2>7, <2>8, <2>19 DEF Undisturbed, SetsOp
    <3> QED BY <3>6, OthersOk
  <2>20. OwnersCounted'
    <3>1. \A d \in Cores : op'[d].f = op[d].f /\ op'[d].then = op[d].then
      BY <2>3, <2>6, <2>7 DEF SetsOp
    <3> QED BY <3>1, <2>2, SharedCount
  <2>21. ASSUME NEW q \in Slots, NEW u \in Page PROVE BoundFine(q, u)'
    <3>1. Alive(q)' = Alive(q)
      BY <2>8 DEF Alive
    <3>2. CASE ~(u = v /\ (q = p \/ q = k))
      <4>1. pte'[q][u] = pte[q][u]
        BY <3>2, <2>8
      <4> QED BY <3>1, <4>1, <2>3, <2>8, <2>17, BoundFrame
    <3>3. CASE u = v /\ q = p
      <4>1. BoundFine(p, v) /\ Alive(p)
        BY <2>1, <2>3 DEF VInv, BoundsOk, Alive
      <4>2. Shrinking(p, v) => Shrinking(p, v)'
        <5> SUFFICES ASSUME Shrinking(p, v) PROVE Shrinking(p, v)'
          OBVIOUS
        <5>1. PICK x \in Cores : op[x].v = v /\ op[x].then = "brk" /\ Mm(x) = p
          BY DEF Shrinking
        <5>2. op'[x] = op[x] /\ Mm(x)' = Mm(x)
          BY <5>1, <2>3, <2>7, <2>8 DEF SetsOp, Mm
        <5> QED BY <5>1, <5>2 DEF Shrinking
      <4>3. e # NoPte /\ pte'[p][v] = n
        BY <2>1, <2>3, <2>8, EntryFacts
      <4> QED BY <3>1, <3>3, <4>1, <4>2, <4>3, <2>8 DEF BoundFine
    <3>4. CASE u = v /\ q = k
      <4>1. ~Alive(k) /\ state[k] # "live"
        BY <2>3 DEF Alive
      <4> QED BY <3>1, <3>4, <4>1, <2>8 DEF BoundFine
    <3> QED BY <3>2, <3>3, <3>4
  <2>22. ASSUME NEW d \in Cores, NEW u \in Page PROVE TlbFine(d, u)'
    <3>1. CASE Running(d) /\ Mm(d) = p /\ u = v
      <4>0. d = c
        BY <3>1, <2>4
      <4>1. CASE e.w \/ e.cow
        BY <3>1, <4>0, <4>1, <2>9 DEF TlbFine, SetsTlb
      <4>2. CASE ~(e.w \/ e.cow)
        <5> SUFFICES ASSUME tlb'[c][v] # NoTr PROVE Match(tlb[c][v], pte[Mm(c)][v])'
          BY <3>1, <4>0 DEF TlbFine
        <5>1. tlb'[c][v] = tlb[c][v] /\ tlb[c][v] # NoTr
          BY <2>1, <2>10
        <5>2. ~Own(c, v)
          BY <2>1 DEF Own
        <5>3. ~Stale(c, v, tlb[c][v])
          BY <1>1, <2>4 DEF Stale
        <5>4. Match(tlb[c][v], e)
          BY <5>1, <5>2, <5>3, <1>1, <2>1, <2>3 DEF VInv, TlbOk, TlbFine
        <5>5. pte'[p][v] = n /\ Mm(c)' = p
          BY <1>1, <2>1, <2>3, <2>8 DEF Mm
        <5>6. pte'[Mm(c)'][v] = n
          BY <5>5
        <5> QED BY <4>2, <5>1, <5>4, <5>6, <2>8 DEF Match
      <4> QED BY <4>1, <4>2
    <3>2. CASE ~(Running(d) /\ Mm(d) = p /\ u = v)
      <4>1. Running(d)' => Running(d) /\ Mm(d)' = Mm(d)
        BY <2>8 DEF Running, Mm
      <4>2. Running(d) => pte'[Mm(d)][u] = pte[Mm(d)][u]
        BY <3>2, <2>4, <2>8
      <4>3. ~Own(c, u)
        BY <2>1 DEF Own
      <4> QED BY <4>1, <4>2, <4>3, <2>1, <2>8, <2>10, <2>17, TlbFrame
    <3> QED BY <3>1, <3>2
  <2> QED BY <2>11, <2>12, <2>13, <2>14, <2>15, <2>16, <2>17, <2>18, <2>19, <2>20, <2>21, <2>22
          DEF VInv, OpsOk, BoundsOk, TlbOk
<1> QED BY <1>3, <1>4

-----------------------------------------------------------------------------
(* The theorems. *)

\* The machine at the start.
LEMMA InitOk ==
    ASSUME Init
    PROVE  VInv
<1>1. /\ setting \in Settings /\ state = [s \in Slots |-> "free"]
      /\ leader = [s \in Slots |-> s]
      /\ brk = [s \in Slots |-> 0] /\ mnext = [s \in Slots |-> HeapTop]
      /\ pte = [s \in Slots |-> NoTables]
      /\ free = Frames /\ refc = [f \in Frames |-> 0]
      /\ data = [f \in Frames |-> Link]
      /\ runs = [c \in Cores |-> None] /\ tlb = [c \in Cores |-> NoTlb]
      /\ op = [c \in Cores |-> User]
      /\ shoot = [by |-> None, pending |-> {}]
  BY DEF Init
<1>2. /\ \A s \in Slots, v \in Page : pte[s][v] = NoPte
      /\ \A c \in Cores, v \in Page : tlb[c][v] = NoTr
      /\ \A c \in Cores : op[c] = User /\ runs[c] = None
      /\ \A s \in Slots : state[s] = "free" /\ leader[s] = s
      /\ \A f \in Frames : refc[f] = 0
  BY <1>1 DEF NoTables, NoTlb
<1>3. None \notin Frames /\ None \notin Cores /\ None \notin Slots
      /\ 0 \in 0 .. HeapTop /\ HeapTop \in HeapTop .. Top
  BY VmAssumption
<1>4. /\ User.at = "user" /\ User.then = "user" /\ User.f = None /\ User.who = None
      /\ User \in Op
  BY OpFacts
<1>5. TypesOk
  <2>1. NoTables \in [Page -> Pte]
    BY EntryFacts DEF NoTables
  <2>2. NoTlb \in [Page -> [f : Frames \cup {None}, w : BOOLEAN]]
    BY DEF NoTlb, NoTr
  <2> QED BY <2>1, <2>2, <1>1, <1>2, <1>3, <1>4 DEF TypesOk, TypeOK
<1>6. EntriesOk /\ AloneOk
  <2>1. NoPte.is = "none"
    BY EntryFacts
  <2> QED BY <2>1, <1>2 DEF EntriesOk, EntryOk, AloneOk
<1>7. RunsOk /\ ShootOk /\ FreeOk
  BY <1>1, <1>2, <1>3 DEF RunsOk, Running, ShootOk, FreeOk
<1>8. LeadersOk
  BY <1>2 DEF LeadersOk, Blank
<1>9. ModeOk
  <2>1. NoPte.cow = FALSE
    BY EntryFacts
  <2> QED BY <2>1, <1>2, <1>4 DEF ModeOk
<1>10. ASSUME NEW c \in Cores PROVE OpOk(c)
  <2>1. shoot.by # c /\ op[c] = User
    BY <1>1, <1>2, <1>3
  <2> QED BY <2>1, <1>4 DEF OpOk, FaultOk, Faulting, FreeingOk, ShootingOk, ShrinkOk,
                            ForkOk, TearOk
<1>11. ApartOk
  BY <1>2, <1>4 DEF ApartOk, Running
<1>12. BoundsOk
  BY <1>2 DEF BoundsOk, BoundFine, Alive
<1>13. OwnersCounted
  <2>1. ASSUME NEW f \in Frames
        PROVE  Cardinality(Mappings(f)) = 0 /\ Cardinality(Owing(f)) = 0
    <3>1. NoPte.f = None
      BY EntryFacts
    <3>2. Mappings(f) = {} /\ Owing(f) = {}
      BY <3>1, <1>2, <1>3, <1>4 DEF Mappings, Owing
    <3> QED BY <3>2, FS_EmptySet
  <2> QED BY <2>1, <1>1 DEF OwnersCounted
<1>14. TlbOk
  BY <1>2 DEF TlbOk, TlbFine
<1> QED BY <1>5, <1>6, <1>7, <1>8, <1>9, <1>10, <1>11, <1>12, <1>13, <1>14 DEF VInv, OpsOk

\* Nothing happens.
LEMMA StutterKeeps ==
    ASSUME VInv, UNCHANGED vars
    PROVE  VInv'
<1>1. UNCHANGED <<setting, state, leader, brk, mnext, pte, free, refc, data, runs, tlb,
                  op, shoot>>
  BY DEF vars
<1>2. TypesOk' /\ TlbOk'
  BY <1>1 DEF VInv, TypesOk, TypeOK, TlbOk, TlbFine, Match, Stale, Own, Running, Mm
<1> QED BY <1>1, <1>2, QuietStep

\* What a core does for a process, in the kernel.
LEMMA KernelKeeps ==
    ASSUME VInv, Orderly, NEW c \in Cores, Kernel(c)
    PROVE  VInv'
<1>1. CASE NoFrame(c) \/ CowCheck(c)
  BY <1>1, NoFrameKeeps, CowCheckKeeps
<1>2. CASE ZeroFill(c) \/ CowTake(c) \/ CowCopy(c)
  BY <1>2, ZeroFillKeeps, CowTakeKeeps, CowCopyKeeps
<1>3. CASE Drop(c) \/ Push(c)
  BY <1>3, DropKeeps, PushKeeps
<1>4. CASE Post(c) \/ Acked(c)
  BY <1>4, PostKeeps, AckedKeeps
<1>5. CASE ForkPage(c) \/ ForkDone(c)
  BY <1>5, ForkPageKeeps, ForkDoneKeeps
<1>6. CASE TearPage(c) \/ TearDone(c)
  BY <1>6, TearPageKeeps, TearDoneKeeps
<1> QED BY <1>1, <1>2, <1>3, <1>4, <1>5, <1>6 DEF Kernel

\* What a program does: an access, or a call.
LEMMA ProgramKeeps ==
    ASSUME VInv, Orderly, NEW c \in Cores, Program(c)
    PROVE  VInv'
<1>1. ASSUME NEW v \in Page, Walk(c, v) \/ Fault(c, v) \/ Munmap(c, v) PROVE VInv'
  BY <1>1, WalkKeeps, FaultKeeps, MunmapKeeps
<1>2. ASSUME NEW v \in Page, NEW x \in Value, Store(c, v, x) PROVE VInv'
  BY <1>2, StoreKeeps
<1>3. ASSUME NEW v \in Page, NEW w \in BOOLEAN, Mprotect(c, v, w) PROVE VInv'
  BY <1>3, MprotectKeeps
<1>4. CASE BrkGrow(c) \/ BrkShrink(c)
  BY <1>4, BrkGrowKeeps, BrkShrinkKeeps
<1>5. ASSUME NEW w \in BOOLEAN, Mmap(c, w) PROVE VInv'
  BY <1>5, MmapKeeps
<1>6. ASSUME NEW k \in Slots, Fork(c, k) \/ ThreadCreate(c, k) PROVE VInv'
  BY <1>6, ForkKeeps, ThreadCreateKeeps
<1>7. CASE Exit(c)
  BY <1>7, ExitKeeps
<1> QED BY <1>1, <1>2, <1>3, <1>4, <1>5, <1>6, <1>7 DEF Program

\* Every step keeps the invariant.
LEMMA NextKeeps ==
    ASSUME VInv, Orderly, [Next]_vars
    PROVE  VInv'
<1>1. ASSUME NEW c \in Cores, Kernel(c) \/ Program(c) PROVE VInv'
  BY <1>1, KernelKeeps, ProgramKeeps
<1>2. ASSUME NEW c \in Cores, Preempt(c) \/ Ack(c) PROVE VInv'
  BY <1>2, PreemptKeeps, AckKeeps
<1>3. ASSUME NEW c \in Cores, NEW s \in Slots, Dispatch(c, s) PROVE VInv'
  BY <1>3, DispatchKeeps
<1>4. ASSUME NEW k \in Slots, Spawn(k) PROVE VInv'
  BY <1>4, SpawnKeeps
<1>5. CASE UNCHANGED vars
  BY <1>5, StutterKeeps
<1> QED BY <1>1, <1>2, <1>3, <1>4, <1>5 DEF Next

\* The invariant says what VmSound says of every reachable state.
LEMMA InvariantSound ==
    ASSUME VInv
    PROVE  VmSound
<1>1. TypeOK /\ OwnersCounted
  BY DEF VInv, TypesOk
<1>2. WriteAlone
  <2> SUFFICES ASSUME NEW p \in Slots, NEW v \in Page, pte[p][v].w, pte[p][v].is = "page"
               PROVE  Mappings(pte[p][v].f) = {<<p, v>>}
    BY DEF WriteAlone
  <2>1. PICK f : f = pte[p][v].f
    OBVIOUS
  <2>2. f \in Frames /\ None \notin Frames
    BY <2>1, VmAssumption DEF VInv, EntriesOk, EntryOk
  <2>3. ASSUME NEW m \in Slots \X Page, pte[m[1]][m[2]].f = f PROVE m = <<p, v>>
    <3>1. m[1] \in Slots /\ m[2] \in Page /\ m = <<m[1], m[2]>>
      OBVIOUS
    <3>2. pte[m[1]][m[2]].is = "page"
      <4>1. pte[m[1]][m[2]] \in Pte /\ EntryOk(pte[m[1]][m[2]])
        BY <3>1 DEF VInv, EntriesOk, TypesOk, TypeOK
      <4> QED BY <4>1, <2>2, <2>3, EntryFacts DEF EntryOk
    <3>3. m[1] = p /\ m[2] = v
      BY <3>1, <3>2, <2>1, <2>3 DEF VInv, AloneOk
    <3> QED BY <3>1, <3>3
  <2>4. <<p, v>> \in Slots \X Page /\ <<p, v>>[1] = p /\ <<p, v>>[2] = v
    OBVIOUS
  <2>5. Mappings(f) = {<<p, v>>}
    BY <2>1, <2>3, <2>4 DEF Mappings
  <2> QED BY <2>1, <2>5
<1>3. HeapUsable
  BY DEF VInv, BoundsOk, BoundFine, HeapUsable
<1>4. ASSUME NEW c \in Cores, NEW v \in Page, InUser(c), tlb[c][v] # NoTr
      PROVE  /\ Running(c) /\ Mm(c) \in Slots
             /\ Match(tlb[c][v], pte[Mm(c)][v]) \/ Stale(c, v, tlb[c][v])
  <2>1. Running(c) /\ op[c].at = "user"
    BY <1>4 DEF InUser, Running
  <2>2. ~Own(c, v)
    BY <2>1 DEF Own
  <2> QED BY <2>1, <2>2, <1>4, Here DEF VInv, TlbOk, TlbFine
<1>5. FreeUnreachable
  <2> SUFFICES ASSUME NEW c \in Cores, NEW v \in Page, InUser(c), tlb[c][v].f \in free
               PROVE  FALSE
    BY DEF FreeUnreachable
  <2>1. PICK f : f = tlb[c][v].f
    OBVIOUS
  <2>2. f \in Frames /\ f \in free /\ None \notin Frames
    BY <2>1, VmAssumption DEF VInv, TypesOk, TypeOK
  <2>3. tlb[c][v] # NoTr
    BY <2>1, <2>2 DEF NoTr
  <2>4. /\ \A p \in Slots, u \in Page : pte[p][u].f # f
        /\ \A d \in Cores : ~Owes(op[d], f)
    BY <2>2, SoleOwner
  <2>5. ~Match(tlb[c][v], pte[Mm(c)][v])
    BY <2>1, <2>3, <2>4, <1>4 DEF Match
  <2>6. PICK d \in Cores \ {c} :
           /\ op[d].at \in {"shoot", "wait"}
           /\ op[d].f = f \/ pte[Mm(c)][v].f = f
    BY <2>1, <2>3, <2>5, <1>4 DEF Stale
  <2>7. op[d].f = f
    BY <2>3, <2>4, <2>6, <1>4
  <2>8. op[d].then \in {"user", "brk"}
    BY <2>6 DEF VInv, OpsOk, OpOk, ShootingOk
  <2> QED BY <2>4, <2>7, <2>8 DEF Owes
<1>6. TlbSound
  <2> SUFFICES ASSUME NEW c \in Cores, NEW v \in Page, InUser(c), tlb[c][v] # NoTr
               PROVE  \/ pte[Mm(c)][v].f = tlb[c][v].f /\ (tlb[c][v].w => pte[Mm(c)][v].w)
                      \/ Reaching(c, v)
    BY DEF TlbSound
  <2> QED BY <1>4 DEF Match, Stale, Reaching, Running
<1> QED BY <1>1, <1>2, <1>3, <1>5, <1>6 DEF VmSound

\* The invariant holds in every reachable state, whatever the orderly programs do.
THEOREM MemoryInductive == Orderly => (Spec => []VInv)
<1> SUFFICES ASSUME Orderly PROVE Spec => []VInv
  OBVIOUS
<1>1. Init => VInv
  BY InitOk
<1>2. VInv /\ [Next]_vars => VInv'
  BY NextKeeps
<1> QED BY <1>1, <1>2, PTL DEF Spec

\* No frame leaks and none is freed twice, what may be written has one owner,
\* the heap is there, and no translation leads to a page a process gave up - for
\* every number of cores, slots, pages and frames.
THEOREM FramesSound == Orderly => (Spec => []VmSound)
<1>1. VInv => VmSound
  BY InvariantSound
<1> QED BY <1>1, MemoryInductive, PTL

-----------------------------------------------------------------------------
(* What the processes see. *)

\* A frame that is mapped holds a value, not the link of a free one.
DataOk == \A p \in Slots, v \in Page :
    pte[p][v].is = "page" => data[pte[p][v].f] \in Value

\* What an entry shows, and what is seen at a page of a process.
Shown(e, d) ==
    IF e.is = "page" THEN d[e.f] ELSE IF e.is = "zfod" THEN Zero ELSE Absent
Look(p, v) == IF Alive(p) THEN Shown(pte[p][v], data) ELSE Absent

\* Seen, in these terms, now and in the next state.
LEMMA SeenIs ==
    /\ Seen = [p \in Slots |-> [v \in Page |-> Look(p, v)]]
    /\ Seen' = [p \in Slots |-> [v \in Page |-> Look(p, v)']]
<1>1. \A p \in Slots : Alive(p) <=> leader[p] = p /\ (state[p] = "live" \/ Members(p) # {})
  BY DEF Alive, Members
<1>2. \A p \in Slots :
         Alive(p)' <=> leader'[p] = p /\ (state'[p] = "live" \/ Members(p)' # {})
  BY DEF Alive, Members
<1>3. Seen = [p \in Slots |-> [v \in Page |-> Look(p, v)]]
  BY <1>1 DEF Seen, SeenAt, Look, Shown
<1>4. Seen' = [p \in Slots |-> [v \in Page |-> Look(p, v)']]
  BY <1>2 DEF Seen, SeenAt, Look, Shown
<1> QED BY <1>3, <1>4

\* A step nobody sees.
LEMMA Unseen ==
    ASSUME \A p \in Slots, v \in Page : Look(p, v)' = Look(p, v)
    PROVE  Seen' = Seen
BY SeenIs

\* A step that changes what is seen at one page.
LEMMA OneSeen ==
    ASSUME NEW p \in Slots, NEW v \in Page, NEW x,
           \A q \in Slots, u \in Page :
              Look(q, u)' = IF q = p /\ u = v THEN x ELSE Look(q, u)
    PROVE  /\ Seen' = [Seen EXCEPT ![p][v] = x]
           /\ Seen[p][v] = Look(p, v)
<1>1. Seen = [q \in Slots |-> [u \in Page |-> Look(q, u)]]
      /\ Seen' = [q \in Slots |-> [u \in Page |-> Look(q, u)']]
  BY SeenIs
<1>2. [Seen EXCEPT ![p][v] = x] =
         [q \in Slots |-> [u \in Page |-> IF q = p /\ u = v THEN x ELSE Look(q, u)]]
  BY <1>1
<1> QED BY <1>1, <1>2

\* Every step: the frames keep values, and the memory takes a step or none.
Step == DataOk' /\ (Private!Next \/ Seen' = Seen)

\* A step that touches no table, no frame and no process is invisible.
LEMMA Untouched ==
    ASSUME DataOk, UNCHANGED <<state, leader, pte, data>>
    PROVE  Step
<1>1. \A p \in Slots : Alive(p)' = Alive(p)
  BY DEF Alive
<1>2. \A p \in Slots, v \in Page : Look(p, v)' = Look(p, v)
  BY <1>1 DEF Look
<1> QED BY <1>2, Unseen DEF Step, DataOk

\* One entry changes, and the contents of no frame that another one maps.
ShowsEntry(p, v, e) ==
    /\ SetsEntry(p, v, e) /\ UNCHANGED <<state, leader>>
    /\ e.is = "page" => data'[e.f] \in Value
    /\ \A q \in Slots, u \in Page :
          pte[q][u].is = "page" /\ ~(q = p /\ u = v) => data'[pte[q][u].f] = data[pte[q][u].f]

\* What is seen after one entry changed.
LEMMA EntryShown ==
    ASSUME DataOk, NEW p \in Slots, NEW v \in Page, NEW e, ShowsEntry(p, v, e)
    PROVE  /\ DataOk'
           /\ \A q \in Slots, u \in Page :
                 Look(q, u)' = IF q = p /\ u = v
                               THEN IF Alive(p) THEN Shown(e, data') ELSE Absent
                               ELSE Look(q, u)
<1>1. \A q \in Slots : Alive(q)' = Alive(q)
  BY DEF ShowsEntry, Alive
<1>2. \A q \in Slots, u \in Page :
         pte'[q][u] = IF q = p /\ u = v THEN e ELSE pte[q][u]
  BY DEF ShowsEntry, SetsEntry
<1>3. DataOk'
  BY <1>2 DEF DataOk, ShowsEntry
<1>4. ASSUME NEW q \in Slots, NEW u \in Page, ~(q = p /\ u = v)
      PROVE  Look(q, u)' = Look(q, u)
  BY <1>1, <1>2, <1>4 DEF Look, Shown, ShowsEntry
<1>5. Look(p, v)' = IF Alive(p) THEN Shown(e, data') ELSE Absent
  BY <1>1, <1>2 DEF Look
<1> QED BY <1>3, <1>4, <1>5

\* An entry that shows what the one before it did.
LEMMA SameShown ==
    ASSUME DataOk, NEW p \in Slots, NEW v \in Page, NEW e, ShowsEntry(p, v, e),
           Alive(p) => Shown(e, data') = Shown(pte[p][v], data)
    PROVE  Step
<1>1. \A q \in Slots, u \in Page : Look(q, u)' = Look(q, u)
  BY EntryShown DEF Look
<1> QED BY <1>1, EntryShown, Unseen DEF Step

\* A page is there after the step that was not there before, or the reverse.
LEMMA MapShown ==
    ASSUME DataOk, NEW p \in Slots, NEW v \in Page, NEW e, ShowsEntry(p, v, e),
           Alive(p), pte[p][v] = NoPte, Shown(e, data') = Zero
    PROVE  Step
<1>1. \A q \in Slots, u \in Page :
         Look(q, u)' = IF q = p /\ u = v THEN Zero ELSE Look(q, u)
  BY EntryShown
<1>2. Seen' = [Seen EXCEPT ![p][v] = Zero] /\ Seen[p][v] = Look(p, v)
  BY <1>1, OneSeen
<1>3. Look(p, v) = Absent
  BY EntryFacts DEF Look, Shown
<1>4. Private!Map(p, v)
  BY <1>2, <1>3 DEF Private!Map
<1>5. Private!Next
  BY <1>4 DEF Private!Next
<1> QED BY <1>5, EntryShown DEF Step

\* A page goes.
LEMMA UnmapShown ==
    ASSUME DataOk, NEW p \in Slots, NEW v \in Page, ShowsEntry(p, v, NoPte),
           Alive(p), pte[p][v].is \in {"zfod", "page"}
    PROVE  Step
<1>0. Shown(NoPte, data') = Absent
  BY EntryFacts DEF Shown
<1>1. \A q \in Slots, u \in Page :
         Look(q, u)' = IF q = p /\ u = v THEN Absent ELSE Look(q, u)
  BY <1>0, EntryShown
<1>2. Seen' = [Seen EXCEPT ![p][v] = Absent] /\ Seen[p][v] = Look(p, v)
  BY <1>1, OneSeen
<1>3. Look(p, v) \in Value /\ Absent \notin Value
  BY VmAssumption DEF Look, Shown, DataOk, Absent
<1>4. Private!Unmap(p, v)
  BY <1>2, <1>3 DEF Private!Unmap
<1>5. Private!Next
  BY <1>4 DEF Private!Next
<1> QED BY <1>5, EntryShown DEF Step

\* A frame off the free list backs a page.
Fresh(p, v, w, f, x, e) ==
    /\ f \in free /\ x \in Value /\ p \in Slots /\ v \in Page /\ w \in BOOLEAN
    /\ Take(f, x) /\ e = Backed(f, w, FALSE) /\ pte' = [pte EXCEPT ![p][v] = e]
    /\ UNCHANGED <<state, leader>>

\* Nobody else saw it.
LEMMA FreshShown ==
    ASSUME VInv, NEW p, NEW v, NEW w, NEW f, NEW x, NEW e, Fresh(p, v, w, f, x, e)
    PROVE  ShowsEntry(p, v, e) /\ Shown(e, data') = x
<1>0. /\ f \in free /\ x \in Value /\ p \in Slots /\ v \in Page /\ w \in BOOLEAN
      /\ Take(f, x) /\ e = Backed(f, w, FALSE) /\ pte' = [pte EXCEPT ![p][v] = e]
      /\ UNCHANGED <<state, leader>>
  BY DEF Fresh
<1>1. f \in Frames /\ data \in [Frames -> Value \cup {Link}]
  BY <1>0 DEF VInv, TypesOk, TypeOK
<1>2. e \in Pte /\ e.is = "page" /\ e.f = f
  BY <1>0, <1>1 DEF Backed, Pte
<1>3. data' = [data EXCEPT ![f] = x]
  BY <1>0 DEF Take
<1>4. SetsEntry(p, v, e)
  BY <1>0, <1>2, EntryDoes DEF VInv
<1>5. data'[f] = x
  BY <1>0, <1>1, <1>3
<1>6. ASSUME NEW q \in Slots, NEW u \in Page, pte[q][u].is = "page"
      PROVE  data'[pte[q][u].f] = data[pte[q][u].f]
  <2>1. pte[q][u].f \in Frames
    BY <1>6 DEF VInv, EntriesOk, EntryOk
  <2>2. pte[q][u].f # f
    BY <1>0, <1>1, <1>6, SoleOwner
  <2> QED BY <2>1, <2>2, <1>1, <1>3
<1>7. Shown(e, data') = x
  BY <1>2, <1>5 DEF Shown
<1>8. ShowsEntry(p, v, e)
  BY <1>0, <1>2, <1>4, <1>5, <1>6 DEF ShowsEntry
<1> QED BY <1>7, <1>8

\* The rights of an entry change, not what it leads to.
LEMMA RightsShown ==
    ASSUME VInv, DataOk, NEW p \in Slots, NEW v \in Page, NEW e \in Pte,
           e.is = pte[p][v].is, e.f = pte[p][v].f, pte' = [pte EXCEPT ![p][v] = e],
           UNCHANGED <<state, leader, data>>
    PROVE  Step
<1>1. SetsEntry(p, v, e)
  BY EntryDoes DEF VInv
<1>2. ShowsEntry(p, v, e)
  BY <1>1 DEF ShowsEntry, DataOk
<1>3. Shown(e, data') = Shown(pte[p][v], data)
  BY DEF Shown
<1> QED BY <1>2, <1>3, SameShown

\* An entry goes.
LEMMA GoneShown ==
    ASSUME VInv, DataOk, NEW p \in Slots, NEW v \in Page, Alive(p),
           pte[p][v].is \in {"zfod", "page"}, pte' = [pte EXCEPT ![p][v] = NoPte],
           UNCHANGED <<state, leader, data>>
    PROVE  Step
<1>1. NoPte \in Pte /\ NoPte.is = "none"
  BY EntryFacts
<1>2. SetsEntry(p, v, NoPte)
  BY <1>1, EntryDoes DEF VInv
<1>3. ShowsEntry(p, v, NoPte)
  BY <1>1, <1>2 DEF ShowsEntry
<1> QED BY <1>3, UnmapShown

\* Dispatch, translations, shootdowns and what only reads.
LEMMA ReadShows ==
    ASSUME DataOk, NEW c \in Cores,
           \/ Preempt(c) \/ \E s \in Slots : Dispatch(c, s)
           \/ \E v \in Page : Walk(c, v) \/ Fault(c, v)
           \/ NoFrame(c) \/ CowCheck(c) \/ TearPage(c)
           \/ Post(c) \/ Ack(c) \/ Acked(c)
    PROVE  Step
<1>1. UNCHANGED <<state, leader, pte, data>>
  BY DEF Preempt, Dispatch, Walk, Fault, NoFrame, CowCheck, TearPage, Post, Ack,
         Acked, taskVars, mmVars
<1> QED BY <1>1, Untouched

\* The promise showed zero already.
LEMMA ZeroFillShows ==
    ASSUME VInv, DataOk, NEW c \in Cores, ZeroFill(c)
    PROVE  Step
<1>1. PICK p, v, w : p = Mm(c) /\ v = op[c].v /\ w = op[c].e.w
  OBVIOUS
<1>2. op[c].at = "zfod"
  BY DEF ZeroFill
<1>3. p \in Slots /\ v \in Page /\ op[c].e = pte[p][v] /\ op[c].e \in Pte
      /\ pte[p][v].is = "zfod"
  BY <1>1, <1>2, InFault DEF Faulting
<1>4. w \in BOOLEAN
  BY <1>1, <1>3 DEF Pte
<1>5. PICK f \in free : Take(f, Zero) /\ pte' = [pte EXCEPT ![p][v] = Backed(f, w, FALSE)]
  BY <1>1 DEF ZeroFill, Zeroed
<1>6. PICK e : e = Backed(f, w, FALSE)
  OBVIOUS
<1>7. Zero \in Value
  BY VmAssumption
<1>8. UNCHANGED <<state, leader>>
  BY DEF ZeroFill, taskVars
<1>9. ShowsEntry(p, v, e) /\ Shown(e, data') = Zero
  <2>1. Fresh(p, v, w, f, Zero, e)
    BY <1>3, <1>4, <1>5, <1>6, <1>7, <1>8 DEF Fresh
  <2> QED BY <2>1, FreshShown
<1>10. Shown(pte[p][v], data) = Zero
  BY <1>3 DEF Shown
<1> QED BY <1>3, <1>9, <1>10, SameShown

\* The frame stays.
LEMMA CowTakeShows ==
    ASSUME VInv, DataOk, NEW c \in Cores, CowTake(c)
    PROVE  Step
<1>1. PICK p, v, b : p = Mm(c) /\ v = op[c].v /\ b = op[c].e.f
  OBVIOUS
<1>2. op[c].at = "take"
  BY DEF CowTake
<1>3. p \in Slots /\ v \in Page /\ b \in Frames /\ pte[p][v].is = "page" /\ pte[p][v].f = b
  BY <1>1, <1>2, InFault DEF Faulting
<1>4. PICK e : e = Backed(b, TRUE, FALSE)
  OBVIOUS
<1>5. e \in Pte /\ e.is = "page" /\ e.f = b
  BY <1>3, <1>4 DEF Backed, Pte
<1>6. pte' = [pte EXCEPT ![p][v] = e] /\ UNCHANGED <<state, leader, data>>
  BY <1>1, <1>4 DEF CowTake, taskVars, mmVars
<1> QED BY <1>3, <1>5, <1>6, RightsShown

\* The copy shows what the original does.
LEMMA CowCopyShows ==
    ASSUME VInv, DataOk, NEW c \in Cores, CowCopy(c)
    PROVE  Step
<1>1. PICK p, v, b, x : p = Mm(c) /\ v = op[c].v /\ b = op[c].e.f /\ x = data[b]
  OBVIOUS
<1>2. op[c].at = "copy"
  BY DEF CowCopy
<1>3. p \in Slots /\ v \in Page /\ b \in Frames /\ pte[p][v].is = "page" /\ pte[p][v].f = b
  BY <1>1, <1>2, InFault DEF Faulting
<1>4. x \in Value
  BY <1>1, <1>3 DEF DataOk
<1>5. PICK f \in free : Take(f, x) /\ pte' = [pte EXCEPT ![p][v] = Backed(f, TRUE, FALSE)]
  BY <1>1 DEF CowCopy
<1>6. PICK e : e = Backed(f, TRUE, FALSE)
  OBVIOUS
<1>7. UNCHANGED <<state, leader>>
  BY DEF CowCopy, taskVars
<1>8. ShowsEntry(p, v, e) /\ Shown(e, data') = x
  <2>0. PICK w : w = TRUE
    OBVIOUS
  <2>1. Fresh(p, v, w, f, x, e)
    BY <2>0, <1>3, <1>4, <1>5, <1>6, <1>7 DEF Fresh
  <2> QED BY <2>1, FreshShown
<1>9. Shown(pte[p][v], data) = x
  BY <1>1, <1>3 DEF Shown
<1> QED BY <1>3, <1>8, <1>9, SameShown

\* Rights are not seen.
LEMMA MprotectShows ==
    ASSUME VInv, DataOk, NEW c \in Cores, NEW v \in Page, NEW w \in BOOLEAN,
           Mprotect(c, v, w)
    PROVE  Step
<1>1. PICK p, b, e : p = Mm(c) /\ b = pte[p][v] /\ e = Protected(b, w)
  OBVIOUS
<1>2. p \in Slots
  BY <1>1, InRing3 DEF Mprotect, Call
<1>3. b \in Pte /\ pte \in [Slots -> [Page -> Pte]]
  BY <1>1, <1>2 DEF VInv, TypesOk, TypeOK
<1>4. e \in Pte /\ e.is = b.is /\ e.f = b.f
  <2>1. e = [b EXCEPT !.w = w /\ ~b.cow] /\ (w /\ ~b.cow) \in BOOLEAN
    BY <1>1 DEF Protected
  <2> QED BY <2>1, <1>3 DEF Pte
<1>5. pte' = [pte EXCEPT ![p][v] = e] /\ UNCHANGED <<state, leader, data>>
  <2>1. pte' = [pte EXCEPT ![p][v] = Protected(@, w)]
    BY <1>1 DEF Mprotect
  <2>2. pte' = [pte EXCEPT ![p][v] = e]
    BY <2>1, <1>1, <1>2, <1>3
  <2> QED BY <2>2 DEF Mprotect, taskVars, mmVars
<1> QED BY <1>1, <1>2, <1>4, <1>5, RightsShown

\* Nothing was beyond the break: a page appears.
LEMMA BrkGrowShows ==
    ASSUME VInv, DataOk, NEW c \in Cores, BrkGrow(c)
    PROVE  Step
<1>1. PICK p, v : p = Mm(c) /\ v = brk[p]
  OBVIOUS
<1>2. InUser(c) /\ runs[c] = p
  BY <1>1 DEF BrkGrow, MayBrk, Call
<1>3. p \in Slots /\ Alive(p)
  BY <1>1, <1>2, InRing3
<1>4. v \in Page /\ v \in Nat /\ v < HeapTop
  <2>1. v \in 0 .. HeapTop /\ v < HeapTop
    BY <1>1, <1>2, <1>3 DEF BrkGrow, VInv, TypesOk, TypeOK
  <2> QED BY <2>1, VmAssumption DEF Page
<1>5. PICK f \in free : Take(f, Zero) /\ pte' = [pte EXCEPT ![p][v] = Backed(f, TRUE, FALSE)]
  BY <1>1, <1>2 DEF BrkGrow, Zeroed
<1>6. PICK e : e = Backed(f, TRUE, FALSE)
  OBVIOUS
<1>7. Zero \in Value
  BY VmAssumption
<1>8. UNCHANGED <<state, leader>>
  BY DEF BrkGrow, taskVars
<1>9. ShowsEntry(p, v, e) /\ Shown(e, data') = Zero
  <2>0. PICK w : w = TRUE
    OBVIOUS
  <2>1. Fresh(p, v, w, f, Zero, e)
    BY <2>0, <1>3, <1>4, <1>5, <1>6, <1>7, <1>8 DEF Fresh
  <2> QED BY <2>1, FreshShown
<1>10. BoundFine(p, v)
  BY <1>3, <1>4 DEF VInv, BoundsOk
<1>11. pte[p][v] = NoPte
  BY <1>1, <1>3, <1>4, <1>10 DEF BoundFine
<1> QED BY <1>3, <1>4, <1>9, <1>11, MapShown

\* Nothing was beyond the mappings: a page appears.
LEMMA MmapShows ==
    ASSUME VInv, DataOk, NEW c \in Cores, NEW w \in BOOLEAN, Mmap(c, w)
    PROVE  Step
<1>1. PICK p, v : p = Mm(c) /\ v = mnext[p]
  OBVIOUS
<1>2. InUser(c) /\ v < Top
  BY <1>1 DEF Mmap, Call
<1>3. p \in Slots /\ Alive(p)
  BY <1>1, <1>2, InRing3
<1>4. v \in Page /\ v \in Nat
  BY <1>1, <1>2, <1>3, VmAssumption DEF VInv, TypesOk, TypeOK, Page
<1>5. PICK e : e = Promise(w)
  OBVIOUS
<1>6. e \in Pte /\ e.is = "zfod"
  BY <1>5 DEF Promise, Pte
<1>7. pte' = [pte EXCEPT ![p][v] = e] /\ UNCHANGED <<state, leader, data>>
  BY <1>1, <1>5 DEF Mmap, taskVars, mmVars
<1>8. SetsEntry(p, v, e)
  BY <1>3, <1>4, <1>6, <1>7, EntryDoes DEF VInv
<1>9. ShowsEntry(p, v, e) /\ Shown(e, data') = Zero
  BY <1>6, <1>7, <1>8 DEF ShowsEntry, Shown
<1>10. BoundFine(p, v)
  BY <1>3, <1>4 DEF VInv, BoundsOk
<1>11. pte[p][v] = NoPte
  BY <1>1, <1>3, <1>4, <1>10 DEF BoundFine
<1> QED BY <1>3, <1>4, <1>9, <1>11, MapShown

\* The page goes before its frame does.
LEMMA BrkShrinkShows ==
    ASSUME VInv, DataOk, NEW c \in Cores, BrkShrink(c)
    PROVE  Step
<1>1. PICK p, v : p = Mm(c) /\ v = brk[p] - 1
  OBVIOUS
<1>2. InUser(c) /\ runs[c] = p /\ brk[p] > 0
  BY <1>1 DEF BrkShrink, MayBrk, Call
<1>3. /\ Running(c) /\ p \in Slots /\ leader[p] = p /\ state[p] = "live" /\ Alive(p)
      /\ op[c].then = "user"
  BY <1>1, <1>2, InRing3
<1>4. v \in Page /\ v < brk[p] /\ Apart(c, v)
  <2>1. brk[p] \in 0 .. HeapTop /\ Quiet(c, v)
    BY <1>1, <1>2, <1>3 DEF BrkShrink, VInv, TypesOk, TypeOK
  <2> QED BY <2>1, <1>1, <1>2, InRing3, VmAssumption DEF Page
<1>5. pte[p][v].is = "page"
  <2>1. BoundFine(p, v)
    BY <1>3, <1>4 DEF VInv, BoundsOk
  <2>2. ~Shrinking(p, v)
    BY <1>1, <1>3, <1>4, Unshrunk
  <2> QED BY <2>1, <2>2, <1>3, <1>4 DEF BoundFine
<1>6. pte' = [pte EXCEPT ![p][v] = NoPte] /\ UNCHANGED <<state, leader, data>>
  BY <1>1, <1>2 DEF BrkShrink, taskVars, mmVars
<1> QED BY <1>3, <1>4, <1>5, <1>6, GoneShown

\* The page goes before its frame does, here too.
LEMMA MunmapShows ==
    ASSUME VInv, DataOk, NEW c \in Cores, NEW v \in Page, Munmap(c, v)
    PROVE  Step
<1>1. PICK p : p = Mm(c)
  OBVIOUS
<1>2. p \in Slots /\ Alive(p)
  BY <1>1, InRing3 DEF Munmap, Call
<1>3. pte[p][v].is \in {"zfod", "page"}
  <2>1. pte[p][v] \in Pte /\ pte[p][v].is # "none"
    BY <1>1, <1>2 DEF Munmap, VInv, TypesOk, TypeOK
  <2> QED BY <2>1 DEF Pte
<1>4. pte' = [pte EXCEPT ![p][v] = NoPte] /\ UNCHANGED <<state, leader, data>>
  BY <1>1 DEF Munmap, taskVars, mmVars
<1> QED BY <1>2, <1>3, <1>4, GoneShown

-----------------------------------------------------------------------------
(* Frames that are written and frames that are let go. *)

\* A frame that no entry leads to is written.
Blindly(f, x) ==
    /\ f \in Frames /\ data' = [data EXCEPT ![f] = x]
    /\ \A p \in Slots, v \in Page : pte[p][v].is = "page" => pte[p][v].f # f
    /\ UNCHANGED <<state, leader, pte>>

\* Nobody sees it.
LEMMA BlindWrite ==
    ASSUME VInv, DataOk, NEW f, NEW x, Blindly(f, x)
    PROVE  Step
<1>0. /\ f \in Frames /\ data' = [data EXCEPT ![f] = x]
      /\ \A p \in Slots, v \in Page : pte[p][v].is = "page" => pte[p][v].f # f
      /\ UNCHANGED <<state, leader, pte>>
  BY DEF Blindly
<1>1. ASSUME NEW p \in Slots, NEW v \in Page, pte[p][v].is = "page"
      PROVE  data'[pte[p][v].f] = data[pte[p][v].f]
  <2>1. pte[p][v].f \in Frames /\ data \in [Frames -> Value \cup {Link}]
    BY <1>1 DEF VInv, EntriesOk, EntryOk, TypesOk, TypeOK
  <2> QED BY <2>1, <1>0, <1>1
<1>2. \A p \in Slots, v \in Page : Look(p, v)' = Look(p, v)
  BY <1>0, <1>1 DEF Look, Alive, Shown
<1>3. DataOk'
  BY <1>0, <1>1 DEF DataOk
<1> QED BY <1>2, <1>3, Unseen DEF Step

\* A frame that one entry leads to is written.
Writes(p, v, f, x) ==
    /\ p \in Slots /\ v \in Page /\ f \in Frames /\ x \in Value
    /\ Alive(p) /\ pte[p][v].is = "page" /\ pte[p][v].f = f
    /\ \A q \in Slots, u \in Page :
          pte[q][u].is = "page" /\ pte[q][u].f = f => q = p /\ u = v
    /\ data' = [data EXCEPT ![f] = x] /\ UNCHANGED <<state, leader, pte>>

\* It is a store to that page.
LEMMA AloneWrite ==
    ASSUME VInv, DataOk, NEW p, NEW v, NEW f, NEW x, Writes(p, v, f, x)
    PROVE  Step
<1>0. /\ p \in Slots /\ v \in Page /\ f \in Frames /\ x \in Value
      /\ Alive(p) /\ pte[p][v].is = "page" /\ pte[p][v].f = f
      /\ \A q \in Slots, u \in Page :
            pte[q][u].is = "page" /\ pte[q][u].f = f => q = p /\ u = v
      /\ data' = [data EXCEPT ![f] = x] /\ UNCHANGED <<state, leader, pte>>
  BY DEF Writes
<1>1. data'[f] = x
  BY <1>0 DEF VInv, TypesOk, TypeOK
<1>2. ASSUME NEW q \in Slots, NEW u \in Page, pte[q][u].is = "page", ~(q = p /\ u = v)
      PROVE  data'[pte[q][u].f] = data[pte[q][u].f]
  <2>1. pte[q][u].f \in Frames /\ data \in [Frames -> Value \cup {Link}]
    BY <1>2 DEF VInv, EntriesOk, EntryOk, TypesOk, TypeOK
  <2> QED BY <2>1, <1>0, <1>2
<1>3. ASSUME NEW q \in Slots, NEW u \in Page
      PROVE  Look(q, u)' = IF q = p /\ u = v THEN x ELSE Look(q, u)
  <2>1. Alive(q)' = Alive(q)
    BY <1>0 DEF Alive
  <2>2. CASE q = p /\ u = v
    BY <2>1, <2>2, <1>0, <1>1 DEF Look, Shown
  <2>3. CASE ~(q = p /\ u = v)
    BY <2>1, <2>3, <1>0, <1>2 DEF Look, Shown
  <2> QED BY <2>2, <2>3
<1>4. DataOk'
  BY <1>0, <1>1, <1>2 DEF DataOk
<1>5. Seen' = [Seen EXCEPT ![p][v] = x] /\ Seen[p][v] = Look(p, v)
  BY <1>0, <1>3, OneSeen
<1>6. Look(p, v) # Absent
  BY <1>0, VmAssumption DEF Look, Shown, DataOk, Absent
<1>7. Private!Store(p, v, x)
  BY <1>0, <1>5, <1>6 DEF Private!Store
<1>8. Private!Next
  BY <1>0, <1>7 DEF Private!Next
<1> QED BY <1>4, <1>8 DEF Step

\* A store reaches a page of the process, or a frame about to be freed.
LEMMA StoreShows ==
    ASSUME VInv, Orderly, DataOk, NEW c \in Cores, NEW v \in Page, NEW x \in Value,
           Store(c, v, x)
    PROVE  Step
<1>1. PICK p, f : p = Mm(c) /\ f = tlb[c][v].f
  OBVIOUS
<1>2. InUser(c) /\ tlb[c][v].w /\ data' = [data EXCEPT ![f] = x]
      /\ UNCHANGED <<state, leader, pte>>
  BY <1>1 DEF Store, taskVars
<1>3. Running(c) /\ p \in Slots /\ Alive(p) /\ op[c].at = "user"
  BY <1>1, <1>2, InRing3
<1>4. tlb[c][v] # NoTr
  BY <1>2 DEF NoTr
<1>5. f \in Frames
  BY <1>1, <1>4 DEF VInv, TypesOk
<1>6. Match(tlb[c][v], pte[p][v]) \/ Stale(c, v, tlb[c][v])
  <2>1. TlbFine(c, v) /\ ~Own(c, v)
    BY <1>3 DEF VInv, TlbOk, Own
  <2> QED BY <2>1, <1>1, <1>3, <1>4 DEF TlbFine
<1>7. CASE Match(tlb[c][v], pte[p][v])
  <2>1. pte[p][v].is = "page" /\ pte[p][v].f = f /\ pte[p][v].w
    BY <1>1, <1>2, <1>7 DEF Match
  <2>2. \A q \in Slots, u \in Page :
           pte[q][u].is = "page" /\ pte[q][u].f = f => q = p /\ u = v
    BY <2>1, <1>3 DEF VInv, AloneOk
  <2>3. Writes(p, v, f, x)
    BY <2>1, <2>2, <1>2, <1>3, <1>5 DEF Writes
  <2> QED BY <2>3, AloneWrite
<1>8. CASE Stale(c, v, tlb[c][v])
  <2>1. PICK d \in Cores \ {c} :
           /\ Running(d) /\ Mm(d) = p /\ op[d].at \in {"shoot", "wait"}
           /\ op[d].f = f \/ (pte[p][v].is = "page" /\ pte[p][v].f = f)
    BY <1>1, <1>8 DEF Stale
  <2>2. "fork" \notin setting.calls
    BY <2>1, <1>1, <1>3, ForkAlone
  <2>3. refc[f] = 0
    BY <2>2, <1>5 DEF VInv, ModeOk
  <2>4. CASE op[d].f = f
    <3>1. op[d].then \in {"user", "brk"}
      BY <2>1 DEF VInv, OpsOk, OpOk, ShootingOk
    <3>2. Owes(op[d], f)
      BY <2>4, <3>1 DEF Owes
    <3>3. \A q \in Slots, u \in Page : pte[q][u].f # f
      BY <3>2, <2>1, <2>3, <1>5, SoleOwner
    <3>4. Blindly(f, x)
      BY <3>3, <1>2, <1>5 DEF Blindly
    <3> QED BY <3>4, BlindWrite
  <2>5. CASE pte[p][v].is = "page" /\ pte[p][v].f = f
    <3>1. \A q \in Slots, u \in Page : pte[q][u].f = f => q = p /\ u = v
      BY <2>3, <2>5, <1>3, <1>5, SoleOwner
    <3>2. Writes(p, v, f, x)
      BY <3>1, <2>5, <1>2, <1>3, <1>5 DEF Writes
    <3> QED BY <3>2, AloneWrite
  <2> QED BY <2>1, <2>4, <2>5
<1> QED BY <1>6, <1>7, <1>8

\* The process whose frames a teardown lets go is no longer there.
LEMMA InTear ==
    ASSUME VInv, NEW c \in Cores, op[c].at \in {"drop", "push"}, op[c].then = "tear",
           NEW p, p = op[c].who, NEW v, v = op[c].v, NEW f, f = op[c].f
    PROVE  /\ p \in Slots /\ v \in Page /\ f \in Frames /\ ~Alive(p)
           /\ pte[p][v].f = f
<1>1. FreeingOk(c) /\ TearOk(c)
  BY DEF VInv, OpsOk, OpOk
<1>2. v \in Page /\ f \in Frames
  BY <1>1 DEF FreeingOk
<1>3. /\ p \in Slots /\ state[p] = "exited" /\ pte[p][v].f = f
      /\ \A s \in Slots : leader[s] = p => state[s] # "live"
  BY <1>1 DEF TearOk
<1> QED BY <1>2, <1>3 DEF Alive

\* An owner less.
LEMMA DropShows ==
    ASSUME VInv, DataOk, NEW c \in Cores, Drop(c)
    PROVE  Step
<1>1. PICK p, v, f : p = op[c].who /\ v = op[c].v /\ f = op[c].f
  OBVIOUS
<1>2. op[c].at = "drop" /\ UNCHANGED <<state, leader, data>>
  BY DEF Drop, taskVars
<1>3. pte' = pte \/ (op[c].then = "tear" /\ pte' = [pte EXCEPT ![p][v] = NoPte])
  BY <1>1 DEF Drop, Freed
<1>4. CASE pte' = pte
  BY <1>2, <1>4, Untouched
<1>5. CASE op[c].then = "tear" /\ pte' = [pte EXCEPT ![p][v] = NoPte]
  <2>1. p \in Slots /\ v \in Page /\ ~Alive(p)
    BY <1>1, <1>2, <1>5, InTear
  <2>2. NoPte \in Pte /\ NoPte.is = "none"
    BY EntryFacts
  <2>3. SetsEntry(p, v, NoPte)
    BY <2>1, <2>2, <1>5, EntryDoes DEF VInv
  <2>4. ShowsEntry(p, v, NoPte)
    BY <2>2, <2>3, <1>2 DEF ShowsEntry
  <2> QED BY <2>1, <2>4, SameShown
<1> QED BY <1>3, <1>4, <1>5

\* The link of the free list overwrites a frame that no process sees.
LEMMA PushShows ==
    ASSUME VInv, DataOk, NEW c \in Cores, Push(c)
    PROVE  Step
<1>1. PICK p, v, f : p = op[c].who /\ v = op[c].v /\ f = op[c].f
  OBVIOUS
<1>2. op[c].at = "push" /\ UNCHANGED <<state, leader>>
  BY DEF Push, taskVars
<1>3. f \in Frames /\ refc[f] = 0
  BY <1>1, <1>2 DEF VInv, OpsOk, OpOk, FreeingOk
<1>4. CASE f \in free
  <2>1. UNCHANGED <<state, leader, pte, data>>
    BY <1>1, <1>2, <1>4 DEF Push
  <2> QED BY <2>1, Untouched
<1>5. CASE f \notin free
  <2>1. data' = [data EXCEPT ![f] = Link] /\ Freed(c)
    BY <1>1, <1>5 DEF Push
  <2>2. CASE op[c].then # "tear"
    <3>1. pte' = pte
      BY <2>1, <2>2 DEF Freed
    <3>2. Owes(op[c], f)
      BY <2>2, <1>1 DEF Owes
    <3>3. \A q \in Slots, u \in Page : pte[q][u].f # f
      BY <3>2, <1>3, SoleOwner
    <3>4. Blindly(f, Link)
      BY <3>1, <3>3, <2>1, <1>2, <1>3 DEF Blindly
    <3> QED BY <3>4, BlindWrite
  <2>3. CASE op[c].then = "tear"
    <3>1. pte' = [pte EXCEPT ![p][v] = NoPte]
      BY <2>1, <2>3, <1>1 DEF Freed
    <3>2. p \in Slots /\ v \in Page /\ ~Alive(p) /\ pte[p][v].f = f
      BY <2>3, <1>1, <1>2, InTear
    <3>3. NoPte \in Pte /\ NoPte.is = "none"
      BY EntryFacts
    <3>4. SetsEntry(p, v, NoPte)
      BY <3>1, <3>2, <3>3, EntryDoes DEF VInv
    <3>5. ASSUME NEW q \in Slots, NEW u \in Page, pte[q][u].is = "page", ~(q = p /\ u = v)
          PROVE  data'[pte[q][u].f] = data[pte[q][u].f]
      <4>1. pte[q][u].f \in Frames /\ data \in [Frames -> Value \cup {Link}]
        BY <3>5 DEF VInv, EntriesOk, EntryOk, TypesOk, TypeOK
      <4>2. pte[q][u].f # f
        BY <3>2, <3>5, <1>3, SoleOwner
      <4> QED BY <4>1, <4>2, <2>1
    <3>6. ShowsEntry(p, v, NoPte)
      BY <3>3, <3>4, <3>5, <1>2 DEF ShowsEntry
    <3> QED BY <3>2, <3>6, SameShown
  <2> QED BY <2>2, <2>3
<1> QED BY <1>4, <1>5

-----------------------------------------------------------------------------
(* Processes that come and go. *)

\* A slot that is claimed shows nothing yet, and a thread's never does.
LEMMA ClaimShows ==
    ASSUME VInv, DataOk, NEW k \in Slots, NEW st, NEW l \in Slots, Claim(k, st, l),
           l # k => Alive(l), UNCHANGED <<pte, data>>
    PROVE  Step
<1>1. /\ state[k] = "free" /\ leader[k] = k /\ Blank(k)
      /\ \A s \in Slots : s # k => leader[s] # k
  BY Unused DEF Claim
<1>2. \A s \in Slots : /\ state'[s] = IF s = k THEN st ELSE state[s]
                       /\ leader'[s] = IF s = k THEN l ELSE leader[s]
  BY DEF Claim, VInv, TypesOk, TypeOK
<1>3. ASSUME NEW q \in Slots, q # k PROVE Alive(q)' <=> Alive(q)
  <2>1. ASSUME Alive(q) PROVE Alive(q)'
    BY <2>1, <1>1, <1>2, <1>3 DEF Alive
  <2>2. ASSUME Alive(q)' PROVE Alive(q)
    <3>1. leader'[q] = q /\ (state'[q] = "live"
             \/ \E s \in Slots : leader'[s] = q /\ state'[s] = "live")
      BY <2>2 DEF Alive
    <3>2. leader[q] = q
      BY <3>1, <1>2, <1>3
    <3>3. CASE state'[q] = "live"
      BY <3>2, <3>3, <1>2, <1>3 DEF Alive
    <3>4. ASSUME NEW s \in Slots, leader'[s] = q, state'[s] = "live" PROVE Alive(q)
      <4>1. CASE s = k
        BY <4>1, <3>4, <1>2, <1>3
      <4>2. CASE s # k
        BY <4>2, <3>2, <3>4, <1>2 DEF Alive
      <4> QED BY <4>1, <4>2
    <3> QED BY <3>1, <3>3, <3>4
  <2> QED BY <2>1, <2>2
<1>4. ASSUME NEW q \in Slots, NEW v \in Page PROVE Look(q, v)' = Look(q, v)
  <2>1. CASE q = k
    <3>1. pte[k][v] = NoPte /\ pte' = pte /\ NoPte.is = "none"
      BY <1>1, EntryFacts DEF Blank
    <3> QED BY <2>1, <3>1 DEF Look, Shown
  <2>2. CASE q # k
    BY <2>2, <1>3 DEF Look, Shown
  <2> QED BY <2>1, <2>2
<1>5. DataOk'
  BY DEF DataOk
<1> QED BY <1>4, <1>5, Unseen DEF Step

\* New processes, forks that begin and new threads.
LEMMA ClaimsShow ==
    ASSUME VInv, DataOk, NEW k \in Slots,
           Spawn(k) \/ \E c \in Cores : Fork(c, k) \/ ThreadCreate(c, k)
    PROVE  Step
<1>1. CASE Spawn(k)
  BY <1>1, ClaimShows DEF Spawn, mmVars
<1>2. ASSUME NEW c \in Cores, Fork(c, k) PROVE Step
  BY <1>2, ClaimShows DEF Fork, mmVars
<1>3. ASSUME NEW c \in Cores, ThreadCreate(c, k) PROVE Step
  <2>1. PICK l : l = Mm(c)
    OBVIOUS
  <2>2. l \in Slots /\ Alive(l)
    BY <2>1, <1>3, InRing3 DEF ThreadCreate, Call
  <2>3. Claim(k, "live", l) /\ UNCHANGED <<pte, data>>
    BY <2>1, <1>3 DEF ThreadCreate, mmVars
  <2> QED BY <2>2, <2>3, ClaimShows
<1> QED BY <1>1, <1>2, <1>3

\* The parent's page stays what it was, and the child is not there yet.
LEMMA ForkPageShows ==
    ASSUME VInv, Orderly, DataOk, NEW c \in Cores, ForkPage(c)
    PROVE  Step
<1>1. PICK p, k, v, e : p = Mm(c) /\ k = op[c].who /\ v = op[c].v /\ e = pte[p][v]
  OBVIOUS
<1>2. PICK n, f : n = Shared(e) /\ f = e.f
  OBVIOUS
<1>3. CASE e.is # "page"
  <2>1. UNCHANGED <<state, leader, pte, data>>
    BY <1>1, <1>3 DEF ForkPage, taskVars
  <2> QED BY <2>1, Untouched
<1>4. CASE e.is = "page"
  <2>1. SharesPage(p, k, v, e, n, f)
    BY <1>1, <1>2, <1>4, ForkShares
  <2>2. /\ \A q \in Slots, u \in Page :
              pte'[q][u] = IF u = v /\ (q = p \/ q = k) THEN n ELSE pte[q][u]
        /\ UNCHANGED <<state, leader, data>> /\ p \in Slots /\ v \in Page
        /\ n.is = "page" /\ n.f = f /\ e = pte[p][v] /\ e.is = "page" /\ e.f = f
    BY <2>1 DEF SharesPage
  <2>3. op[c].at = "fork"
    BY DEF ForkPage
  <2>4. state[k] = "embryo" /\ k # p /\ \A s \in Slots : leader[s] = s
    BY <2>3, <1>1, InFork
  <2>5. ~Alive(k) /\ \A q \in Slots : Alive(q)' = Alive(q)
    BY <2>2, <2>4 DEF Alive
  <2>6. ASSUME NEW q \in Slots, NEW u \in Page PROVE Look(q, u)' = Look(q, u)
    BY <2>2, <2>5 DEF Look, Shown
  <2>7. DataOk'
    <3>1. data[f] \in Value
      BY <2>2 DEF DataOk
    <3> QED BY <3>1, <2>2 DEF DataOk
  <2> QED BY <2>6, <2>7, Unseen DEF Step
<1> QED BY <1>3, <1>4

\* The child appears with the parent's pages.
LEMMA ForkDoneShows ==
    ASSUME VInv, Orderly, DataOk, NEW c \in Cores, ForkDone(c)
    PROVE  Step
<1>1. PICK p, k : p = Mm(c) /\ k = op[c].who
  OBVIOUS
<1>2. op[c].at = "fork" /\ op[c].v = Top /\ Top \in Nat
  BY VmAssumption DEF ForkDone
<1>3. /\ p \in Slots /\ leader[p] = p /\ state[p] = "live"
      /\ k \in Slots /\ state[k] = "embryo" /\ leader[k] = k /\ k # p
      /\ \A s \in Slots : leader[s] = s
  BY <1>1, <1>2, InFork
<1>4. \A v \in Page : pte[k][v] = Inherited(pte[p][v], v, op[c].v)
  BY <1>1, <1>2, InFork
<1>5. \A v \in Page : pte[k][v] = IF pte[p][v].is = "page" THEN pte[p][v] ELSE NoPte
  BY <1>2, <1>4 DEF Inherited, Page
<1>6. /\ UNCHANGED <<leader, pte, data>>
      /\ \A s \in Slots : state'[s] = IF s = k THEN "live" ELSE state[s]
  BY <1>1 DEF ForkDone, mmVars, VInv, TypesOk, TypeOK
<1>7. ~Alive(k) /\ Alive(k)' /\ Alive(p) /\ \A q \in Slots : q # k => Alive(q)' = Alive(q)
  BY <1>3, <1>6 DEF Alive
<1>8. PICK h : h = [v \in Page |-> Shown(pte[k][v], data)]
  OBVIOUS
<1>9. h \in [Page -> Value \cup {Absent}]
  BY <1>3, <1>8, VmAssumption DEF DataOk, Shown
<1>10. Seen = [q \in Slots |-> [v \in Page |-> Look(q, v)]]
       /\ Seen' = [q \in Slots |-> [v \in Page |-> Look(q, v)']]
  BY SeenIs
<1>11. ASSUME NEW v \in Page
       PROVE  h[v] = Seen[p][v] \/ (h[v] = Absent /\ Seen[p][v] = Zero)
  <2>1. h[v] = Shown(pte[k][v], data) /\ Seen[p][v] = Shown(pte[p][v], data)
    BY <1>3, <1>7, <1>8, <1>10 DEF Look
  <2>2. NoPte.is = "none"
    BY EntryFacts
  <2> QED BY <2>1, <2>2, <1>5 DEF Shown
<1>12. Seen[k] = [v \in Page |-> Absent]
  BY <1>3, <1>7, <1>10 DEF Look
<1>13. Seen' = [Seen EXCEPT ![k] = h]
  <2>1. [v \in Page |-> Look(k, v)'] = h
    BY <1>6, <1>7, <1>8 DEF Look
  <2>2. \A q \in Slots : q # k => [v \in Page |-> Look(q, v)'] = [v \in Page |-> Look(q, v)]
    BY <1>6, <1>7 DEF Look
  <2> QED BY <2>1, <2>2, <1>10
<1>14. Private!Fork(p, k)
  BY <1>9, <1>11, <1>12, <1>13 DEF Private!Fork, Private!Copied, Private!Empty
<1>15. Private!Next
  BY <1>3, <1>14 DEF Private!Next
<1>16. DataOk'
  BY <1>6 DEF DataOk
<1> QED BY <1>15, <1>16 DEF Step

\* The last thread takes the process with it; another one leaves it as it was.
LEMMA ExitShows ==
    ASSUME VInv, DataOk, NEW c \in Cores, Exit(c)
    PROVE  Step
<1>1. PICK p, r : p = Mm(c) /\ r = runs[c]
  OBVIOUS
<1>2. r \in Slots /\ p \in Slots /\ leader[p] = p /\ leader[r] = p /\ state[r] = "live"
      /\ Alive(p)
  BY <1>1, InRing3, Here DEF Exit
<1>3. /\ \A s \in Slots : /\ state'[s] = IF s = p /\ (s = r \/ Last(c)) THEN "exited"
                                         ELSE IF s = r THEN "free" ELSE state[s]
                          /\ leader'[s] = IF s = r THEN r ELSE leader[s]
      /\ UNCHANGED <<pte, data>>
  <2>1. leader \in [Slots -> Slots]
    BY DEF VInv, TypesOk, TypeOK
  <2>2. state' = [s \in Slots |->
                    IF s = p /\ (s = r \/ Last(c)) THEN "exited"
                    ELSE IF s = r THEN "free" ELSE state[s]]
        /\ leader' = [leader EXCEPT ![r] = r]
    BY <1>1, <2>1 DEF Exit
  <2> QED BY <2>1, <2>2, <1>2 DEF Exit, mmVars
<1>4. \A q \in Slots : leader[q] \in Slots /\ leader[leader[q]] = leader[q]
  BY DEF VInv, LeadersOk, TypesOk, TypeOK
<1>5. r # p => ~Alive(r) /\ ~Alive(r)'
  <2> SUFFICES ASSUME r # p PROVE ~Alive(r) /\ ~Alive(r)'
    OBVIOUS
  <2>1. ~Alive(r)
    BY <1>2 DEF Alive
  <2>2. state'[r] = "free"
    BY <1>2, <1>3
  <2>3. ASSUME NEW s \in Slots, leader'[s] = r, state'[s] = "live" PROVE FALSE
    <3>1. s # r
      BY <2>2, <2>3
    <3>2. leader[s] = r
      BY <3>1, <2>3, <1>3
    <3> QED BY <3>2, <1>2, <1>4
  <2>4. ~Alive(r)'
    BY <2>2, <2>3 DEF Alive
  <2> QED BY <2>1, <2>4
<1>6. ASSUME NEW q \in Slots, q # p, q # r PROVE Alive(q)' <=> Alive(q)
  <2>1. leader'[q] = leader[q] /\ state'[q] = state[q]
    BY <1>3, <1>6
  <2>2. \A s \in Slots : leader'[s] = q /\ state'[s] = "live" => leader[s] = q /\ state[s] = "live"
    BY <1>2, <1>3, <1>6
  <2>3. \A s \in Slots : leader[s] = q /\ state[s] = "live" => leader'[s] = q /\ state'[s] = "live"
    BY <1>2, <1>3, <1>6
  <2> QED BY <2>1, <2>2, <2>3 DEF Alive
<1>7. \A q \in Slots : q # p => (Alive(q)' <=> Alive(q))
  BY <1>5, <1>6
<1>8. \A q \in Slots, v \in Page : q # p => Look(q, v)' = Look(q, v)
  BY <1>3, <1>7 DEF Look
<1>9. DataOk'
  BY <1>3 DEF DataOk
<1>10. CASE ~Last(c)
  <2>1. PICK s \in Slots : s # r /\ leader[s] = p /\ state[s] = "live"
    BY <1>1, <1>2, <1>10 DEF Last, Members
  <2>2. leader'[s] = p /\ leader'[p] = p
    BY <2>1, <1>2, <1>3
  <2>3. state'[s] = "live"
    BY <2>1, <1>3, <1>10
  <2>4. Alive(p)'
    BY <2>1, <2>2, <2>3 DEF Alive
  <2>5. \A v \in Page : Look(p, v)' = Look(p, v)
    BY <2>4, <1>2, <1>3 DEF Look
  <2> QED BY <2>5, <1>8, <1>9, Unseen DEF Step
<1>11. CASE Last(c)
  <2>1. \A s \in Slots : leader[s] = p /\ state[s] = "live" => s = r
    BY <1>1, <1>11 DEF Last, Members
  <2>2. state'[p] = "exited"
    BY <1>2, <1>3, <1>11
  <2>3. ASSUME NEW s \in Slots, leader'[s] = p, state'[s] = "live" PROVE FALSE
    <3>1. s # p /\ s # r
      BY <2>2, <2>3, <1>3
    <3> QED BY <3>1, <2>1, <2>3, <1>3
  <2>4. ~Alive(p)'
    BY <2>2, <2>3 DEF Alive
  <2>5. \A v \in Page : Look(p, v)' = Absent
    BY <2>4 DEF Look
  <2>6. Seen = [q \in Slots |-> [v \in Page |-> Look(q, v)]]
        /\ Seen' = [q \in Slots |-> [v \in Page |-> Look(q, v)']]
    BY SeenIs
  <2>7. [v \in Page |-> Look(p, v)'] = [v \in Page |-> Absent]
    BY <2>5
  <2>8. \A q \in Slots : q # p => [v \in Page |-> Look(q, v)'] = [v \in Page |-> Look(q, v)]
    BY <1>8
  <2>9. Seen' = [Seen EXCEPT ![p] = [v \in Page |-> Absent]]
    BY <2>6, <2>7, <2>8
  <2>10. Private!Exit(p)
    BY <2>9 DEF Private!Exit, Private!Empty
  <2>11. Private!Next
    BY <2>10, <1>2 DEF Private!Next
  <2> QED BY <2>11, <1>9 DEF Step
<1> QED BY <1>10, <1>11

\* A dead process showed nothing.
LEMMA TearDoneShows ==
    ASSUME VInv, DataOk, NEW c \in Cores, TearDone(c)
    PROVE  Step
<1>1. PICK p : p = op[c].who
  OBVIOUS
<1>2. op[c].at = "tear"
  BY DEF TearDone
<1>3. p \in Slots /\ state[p] = "exited" /\ \A s \in Slots : leader[s] = p => state[s] # "live"
  BY <1>1, <1>2 DEF VInv, OpsOk, OpOk, TearOk
<1>4. /\ UNCHANGED <<leader, data>> /\ pte' = [pte EXCEPT ![p] = NoTables]
      /\ state' = [state EXCEPT ![p] = "free"]
  BY <1>1 DEF TearDone, mmVars
<1>5. /\ \A s \in Slots : state'[s] = IF s = p THEN "free" ELSE state[s]
      /\ \A s \in Slots, v \in Page : pte'[s][v] = IF s = p THEN NoPte ELSE pte[s][v]
  BY <1>3, <1>4 DEF VInv, TypesOk, TypeOK, NoTables
<1>6. ~Alive(p) /\ \A q \in Slots : Alive(q)' <=> Alive(q)
  BY <1>3, <1>4, <1>5 DEF Alive
<1>7. \A q \in Slots, v \in Page : Look(q, v)' = Look(q, v)
  BY <1>4, <1>5, <1>6 DEF Look
<1>8. DataOk'
  <2>1. NoPte.is # "page"
    BY EntryFacts
  <2> QED BY <2>1, <1>4, <1>5 DEF DataOk
<1> QED BY <1>7, <1>8, Unseen DEF Step

-----------------------------------------------------------------------------
(* The machine implements private memories. *)

\* The kernel's steps.
LEMMA KernelShows ==
    ASSUME VInv, Orderly, DataOk, NEW c \in Cores, Kernel(c)
    PROVE  Step
BY ReadShows, ZeroFillShows, CowTakeShows, CowCopyShows, DropShows, PushShows,
   ForkPageShows, ForkDoneShows, TearDoneShows DEF Kernel

\* The programs' calls and accesses.
LEMMA ProgramShows ==
    ASSUME VInv, Orderly, DataOk, NEW c \in Cores, Program(c)
    PROVE  Step
<1>1. CASE \E v \in Page : Walk(c, v) \/ Fault(c, v)
  BY <1>1, ReadShows
<1>2. CASE \E v \in Page : Munmap(c, v)
  BY <1>2, MunmapShows
<1>3. CASE \E v \in Page, x \in Value : Store(c, v, x)
  BY <1>3, StoreShows
<1>4. CASE \E v \in Page, w \in BOOLEAN : Mprotect(c, v, w)
  BY <1>4, MprotectShows
<1>5. CASE BrkGrow(c) \/ BrkShrink(c)
  BY <1>5, BrkGrowShows, BrkShrinkShows
<1>6. CASE \E w \in BOOLEAN : Mmap(c, w)
  BY <1>6, MmapShows
<1>7. CASE \E k \in Slots : Fork(c, k) \/ ThreadCreate(c, k)
  BY <1>7, ClaimsShow
<1>8. CASE Exit(c)
  BY <1>8, ExitShows
<1> QED BY <1>1, <1>2, <1>3, <1>4, <1>5, <1>6, <1>7, <1>8 DEF Program

\* Every step of the machine is one of private memories, or none of them sees it.
LEMMA NextShows ==
    ASSUME VInv, Orderly, DataOk, [Next]_vars
    PROVE  Step
<1>1. CASE Next
  <2>1. ASSUME NEW c \in Cores, Kernel(c) \/ Program(c) PROVE Step
    BY <2>1, KernelShows, ProgramShows
  <2>2. ASSUME NEW c \in Cores, Preempt(c) \/ Ack(c) \/ \E s \in Slots : Dispatch(c, s)
        PROVE  Step
    BY <2>2, ReadShows
  <2>3. ASSUME NEW k \in Slots, Spawn(k) PROVE Step
    BY <2>3, ClaimsShow
  <2> QED BY <2>1, <2>2, <2>3, <1>1 DEF Next
<1>2. CASE UNCHANGED vars
  <2>1. UNCHANGED <<state, leader, pte, data>>
    BY <1>2 DEF vars
  <2> QED BY <2>1, Untouched
<1> QED BY <1>1, <1>2

\* Nothing is there at the start.
LEMMA InitShows ==
    ASSUME Init
    PROVE  Private!Init /\ DataOk
<1>1. NoPte.is = "none"
  BY EntryFacts
<1>2. \A p \in Slots : ~Alive(p)
  BY DEF Init, Alive
<1>3. \A p \in Slots, v \in Page : Look(p, v) = Absent
  BY <1>2 DEF Look
<1>4. Seen = [p \in Slots |-> [v \in Page |-> Look(p, v)]]
  BY SeenIs
<1>5. Seen = [p \in Slots |-> [v \in Page |-> Absent]]
  BY <1>3, <1>4
<1>6. DataOk
  BY <1>1 DEF Init, NoTables, DataOk
<1> QED BY <1>5, <1>6 DEF Private!Init, Private!Empty

\* Step is what the refinement needs.
LEMMA StepMaps ==
    ASSUME Step
    PROVE  DataOk' /\ [Private!Next]_Seen
BY DEF Step

\* Frames, reference counts, copy-on-write, demand zero, translation caches and
\* shootdowns cannot be told from memory that every process has to itself, that
\* reads as zero when it is new and that fork copies (vm_fault_handle,
\* vm_clone_user, free_frame, tlb_shootdown_range).
THEOREM MemoryRefines == Orderly => (Spec => ImplementsSpaces)
<1> SUFFICES ASSUME Orderly PROVE Spec => ImplementsSpaces
  OBVIOUS
<1>1. Init => Private!Init /\ DataOk
  BY InitShows
<1>2. VInv /\ DataOk /\ [Next]_vars => DataOk' /\ [Private!Next]_Seen
  BY NextShows, StepMaps
<1>3. Spec => []VInv
  BY MemoryInductive
<1>4. Spec => []DataOk
  BY <1>1, <1>2, <1>3, PTL DEF Spec
<1>5. Spec => [][Private!Next]_Seen
  BY <1>2, <1>3, <1>4, PTL DEF Spec
<1> QED BY <1>1, <1>5, PTL DEF Spec, ImplementsSpaces, Private!Spec
=============================================================================
