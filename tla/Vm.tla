--------------------------------- MODULE Vm ---------------------------------
(***************************************************************************)
(* Physical frames and their reference counts, page tables whose spare     *)
(* bits say what a page is, copy-on-write fork, demand-zero pages, the     *)
(* per-core translation caches and the shootdown that empties them.        *)
(*                                                                         *)
(* A core is in ring 3, idle, or at a step of a fault, a syscall or a      *)
(* teardown (op).  A section under g_frame_lock is a step; between two     *)
(* sections, and between reading a page-table entry and writing it back,   *)
(* the other cores run.  Page-table frames, the contents of exec, shared   *)
(* segments and file mappings are left out; every page is private.         *)
(***************************************************************************)
EXTENDS Naturals, FiniteSets, TLC

CONSTANTS
    Cores, Slots,  \* online cores; kproc slots
    HeapTop,       \* pages of the heap window: 0 .. HeapTop - 1
    Top,           \* pages of the heap and mmap windows: 0 .. Top - 1
    Frames,        \* frames of the pool
    Value, Zero,   \* what a page holds; a new page holds Zero
    Link,          \* what a free frame holds: the next one on the list
    Settings,      \* the programs considered, see setting
    None

Page == 0 .. Top - 1
Calls == {"brk", "mmap", "munmap", "mprotect", "fork", "thread"}

ASSUME VmAssumption ==
    /\ HeapTop \in Nat /\ Top \in Nat /\ HeapTop <= Top
    /\ IsFiniteSet(Frames) /\ IsFiniteSet(Cores) /\ IsFiniteSet(Slots)
    /\ Zero \in Value /\ Link \notin Value
    /\ \A w \in Settings : w.calls \subseteq Calls /\ w.slots \subseteq Slots
    /\ None \notin Cores \cup Slots \cup Frames \cup Value

VARIABLES
    setting,  \* chosen once: the calls the programs make, the slots there are
    state,    \* per slot: "free", "embryo" (being forked), "live" or "exited"
    leader,   \* tg_leader: the slot whose page tables this one uses
    brk,      \* heap_brk in pages, per slot
    mnext,    \* mmap_next in pages, per process
    pte,      \* page tables of a process
    free,     \* the free list
    refc,     \* owners of a frame besides the first
    data,     \* what a frame holds
    runs,     \* the slot a core runs, or None
    tlb,      \* the translations a core has cached
    op,       \* what a core does
    shoot     \* g_shoot_lock's holder and the cores it waits for

vars == <<setting, state, leader, brk, mnext, pte, free, refc, data, runs, tlb,
          op, shoot>>
mmVars == <<free, refc, data>>
taskVars == <<setting, state, leader, runs>>

\* A page-table entry: PRESENT, PTE_ZFOD or 0; its frame, PTE_WRITE, PTE_COW.
NoPte == [is |-> "none", f |-> None, w |-> FALSE, cow |-> FALSE]
Promise(w) == [is |-> "zfod", f |-> None, w |-> w, cow |-> FALSE]
Backed(f, w, cow) == [is |-> "page", f |-> f, w |-> w, cow |-> cow]
NoTables == [v \in Page |-> NoPte]

NoTr == [f |-> None, w |-> FALSE]
NoTlb == [v \in Page |-> NoTr]

\* at: the step; v: the page; e: the entry as it was read; f: the frame to let
\* go; then: what follows; who: the child, or the process torn down.
User == [at |-> "user", v |-> 0, e |-> NoPte, f |-> None, then |-> "user",
         who |-> None]
At(a, page) == [User EXCEPT !.at = a, !.v = page]

Init ==
    /\ setting \in Settings
    /\ state = [s \in Slots |-> "free"]
    /\ leader = [s \in Slots |-> s]
    /\ brk = [s \in Slots |-> 0] /\ mnext = [s \in Slots |-> HeapTop]
    /\ pte = [s \in Slots |-> NoTables]
    /\ free = Frames /\ refc = [f \in Frames |-> 0]
    /\ data = [f \in Frames |-> Link]
    /\ runs = [c \in Cores |-> None] /\ tlb = [c \in Cores |-> NoTlb]
    /\ op = [c \in Cores |-> User]
    /\ shoot = [by |-> None, pending |-> {}]

Mm(c) == leader[runs[c]]
InUser(c) == runs[c] # None /\ op[c].at = "user"
Members(p) == {s \in Slots : leader[s] = p /\ state[s] = "live"}

\* Two threads of one process that work on one page at the same time are not
\* in these programs: the windows between an entry's read and its write-back
\* are open to each other only across processes.
Quiet(c, v) == \A d \in Cores \ {c} :
    (runs[d] # None /\ op[d].at # "user") => ~(Mm(d) = Mm(c) /\ op[d].v = v)

\* alloc_frame: off the list, zeroed on the way out.
\* Mutant: the frame is handed out as it is.
ZeroedNot(f) == data[f]
Zeroed(f) == Zero
Take(f, x) == free' = free \ {f} /\ data' = [data EXCEPT ![f] = x]

Flush(c, v) == tlb' = [tlb EXCEPT ![c][v] = NoTr]
Go(c, o) == op' = [op EXCEPT ![c] = o]

-----------------------------------------------------------------------------
(* The processor. *)

\* write_cr3 empties the cache.
LoadCr3(c) == tlb' = [tlb EXCEPT ![c] = NoTlb]

\* cpu_exec_proc enters ring 3.
Dispatch(c, s) ==
    /\ runs[c] = None /\ op[c].at = "user"
    /\ state[s] = "live" /\ \A d \in Cores : runs[d] # s
    /\ runs' = [runs EXCEPT ![c] = s] /\ LoadCr3(c)
    /\ UNCHANGED <<setting, state, leader, brk, mnext, pte, mmVars, op, shoot>>

Preempt(c) ==
    /\ InUser(c)
    /\ runs' = [runs EXCEPT ![c] = None] /\ LoadCr3(c)
    /\ UNCHANGED <<setting, state, leader, brk, mnext, pte, mmVars, op, shoot>>

\* An access walks the tables and caches the translation.
Walk(c, v) ==
    /\ InUser(c) /\ tlb[c][v] = NoTr
    /\ LET e == pte[Mm(c)][v]
       IN e.is = "page" /\ tlb' = [tlb EXCEPT ![c][v] = [f |-> e.f, w |-> e.w]]
    /\ UNCHANGED <<taskVars, brk, mnext, pte, mmVars, op, shoot>>

\* A store through a cached translation looks at no table.
Store(c, v, x) ==
    /\ InUser(c) /\ tlb[c][v].w
    /\ data' = [data EXCEPT ![tlb[c][v].f] = x]
    /\ UNCHANGED <<taskVars, brk, mnext, pte, free, refc, tlb, op, shoot>>

-----------------------------------------------------------------------------
(* vm_fault_handle, and vm_touch for an access the kernel makes. *)

\* The entry is read; the fault has dropped the faulting core's translation.
Fault(c, v) ==
    /\ InUser(c) /\ Quiet(c, v)
    /\ LET e == pte[Mm(c)][v]
       IN /\ \/ e.is = "zfod" /\ tlb[c][v] = NoTr
             \/ e.is = "page" /\ e.cow /\ ~tlb[c][v].w
          /\ Go(c, [At(IF e.is = "zfod" THEN "zfod" ELSE "cow", v) EXCEPT !.e = e])
    /\ Flush(c, v)
    /\ UNCHANGED <<taskVars, brk, mnext, pte, mmVars, shoot>>

\* No frame: the fault stays a fault, and the entry what it was. (Where alloc_frame halts the
\* machine instead there is no step.)
NoFrame(c) ==
    /\ op[c].at \in {"zfod", "copy"} /\ free = {}
    /\ Go(c, User)
    /\ UNCHANGED <<taskVars, brk, mnext, pte, mmVars, tlb, shoot>>

ZeroFill(c) ==
    /\ op[c].at = "zfod"
    /\ \E f \in free :
          /\ Take(f, Zeroed(f))
          /\ pte' = [pte EXCEPT ![Mm(c)][op[c].v] = Backed(f, op[c].e.w, FALSE)]
    /\ Go(c, User) /\ Flush(c, op[c].v)
    /\ UNCHANGED <<taskVars, brk, mnext, refc, shoot>>

\* frame_refs, read without the lock.
Sole(f) == refc[f] = 0
CowCheck(c) ==
    /\ op[c].at = "cow"
    /\ Go(c, [op[c] EXCEPT !.at = IF Sole(op[c].e.f) THEN "take" ELSE "copy"])
    /\ UNCHANGED <<taskVars, brk, mnext, pte, mmVars, tlb, shoot>>

CowTake(c) ==
    /\ op[c].at = "take"
    /\ pte' = [pte EXCEPT ![Mm(c)][op[c].v] = Backed(op[c].e.f, TRUE, FALSE)]
    /\ Go(c, User) /\ Flush(c, op[c].v)
    /\ UNCHANGED <<taskVars, brk, mnext, mmVars, shoot>>

CowCopy(c) ==
    /\ op[c].at = "copy"
    /\ \E f \in free :
          /\ Take(f, data[op[c].e.f])
          /\ pte' = [pte EXCEPT ![Mm(c)][op[c].v] = Backed(f, TRUE, FALSE)]
    /\ Go(c, [At("drop", op[c].v) EXCEPT !.f = op[c].e.f])
    /\ Flush(c, op[c].v)
    /\ UNCHANGED <<taskVars, brk, mnext, refc, shoot>>

-----------------------------------------------------------------------------
(* free_frame: two sections under g_frame_lock. *)

\* What follows a frame's release, in the call that made it.
Freed(c) ==
    LET o == op[c]
    IN /\ Go(c, CASE o.then = "munmap" -> At("shoot", o.v)
                  [] o.then = "tear"   -> [At("tear", o.v + 1) EXCEPT !.who = o.who]
                  [] OTHER             -> User)
       /\ brk' = IF o.then = "brk" THEN [brk EXCEPT ![runs[c]] = @ - 1] ELSE brk
       /\ pte' = IF o.then = "tear" THEN [pte EXCEPT ![o.who][o.v] = NoPte] ELSE pte

\* A shared frame loses an owner; a sole owner's goes on to the list.
Drop(c) ==
    /\ op[c].at = "drop"
    /\ \/ /\ refc[op[c].f] > 0
          /\ refc' = [refc EXCEPT ![op[c].f] = @ - 1]
          /\ Freed(c)
       \/ /\ refc[op[c].f] = 0
          /\ Go(c, [op[c] EXCEPT !.at = "push"])
          /\ UNCHANGED <<refc, brk, pte>>
    /\ UNCHANGED <<taskVars, mnext, free, data, tlb, shoot>>

\* The list runs through the free frames.  A frame whose shadow bit says it is free already halts the machine.
Push(c) ==
    /\ op[c].at = "push"
    /\ IF op[c].f \in free
       THEN Go(c, [op[c] EXCEPT !.at = "halt"]) /\ UNCHANGED <<free, data, brk, pte>>
       ELSE /\ free' = free \cup {op[c].f} /\ data' = [data EXCEPT ![op[c].f] = Link]
            /\ Freed(c)
    /\ UNCHANGED <<taskVars, mnext, refc, tlb, shoot>>

-----------------------------------------------------------------------------
(* tlb_shootdown_range: this core's translation is dropped, then one holder *)
(* of g_shoot_lock interrupts the others and waits for every answer.  The   *)
(* 100-tick bound on that wait does not expire here.                        *)

Post(c) ==
    /\ op[c].at = "shoot" /\ shoot.by = None
    /\ shoot' = [by |-> c, pending |-> Cores \ {c}]
    /\ Go(c, [op[c] EXCEPT !.at = "wait"]) /\ Flush(c, op[c].v)
    /\ UNCHANGED <<taskVars, brk, mnext, pte, mmVars>>

\* Handlers and syscalls run with interrupts off; a shootdown turns them on
\* from before it takes the lock, and so does the teardown of a process.
Interruptible(c) ==
    op[c].at \in {"user", "shoot", "wait", "tear"} \/ op[c].then = "tear"

Ack(c) ==
    /\ c \in shoot.pending /\ Interruptible(c)
    /\ shoot' = [shoot EXCEPT !.pending = @ \ {c}]
    /\ Flush(c, op[shoot.by].v)
    /\ UNCHANGED <<taskVars, brk, mnext, pte, mmVars, op>>

\* Every core answered.  brk frees its page only now.
Acked(c) ==
    /\ op[c].at = "wait" /\ shoot.pending = {}
    /\ shoot' = [by |-> None, pending |-> {}]
    /\ Go(c, IF op[c].then = "brk" THEN [op[c] EXCEPT !.at = "drop"] ELSE User)
    /\ UNCHANGED <<taskVars, brk, mnext, pte, mmVars, tlb>>

-----------------------------------------------------------------------------
(* The calls. *)

Call(c, name) == InUser(c) /\ name \in setting.calls

\* SYS_BRK works on the break of the slot that calls it; a thread's own is a
\* fresh one, so only a leader calls it in these programs.
MayBrk(c) == Call(c, "brk") /\ runs[c] = Mm(c)

BrkGrow(c) ==
    /\ MayBrk(c) /\ brk[runs[c]] < HeapTop
    /\ LET v == brk[runs[c]]
       IN /\ Quiet(c, v)
          /\ \E f \in free :
                /\ Take(f, Zeroed(f))
                /\ pte' = [pte EXCEPT ![Mm(c)][v] = Backed(f, TRUE, FALSE)]
    /\ brk' = [brk EXCEPT ![runs[c]] = @ + 1]
    /\ UNCHANGED <<taskVars, mnext, refc, tlb, op, shoot>>

\* The page is unmapped and shot down, then its frame is let go.
Shrink(v, f) == [At("shoot", v) EXCEPT !.f = f, !.then = "brk"]
BrkShrink(c) ==
    /\ MayBrk(c) /\ brk[runs[c]] > 0
    /\ LET v == brk[runs[c]] - 1
       IN /\ Quiet(c, v)
          /\ Go(c, Shrink(v, pte[Mm(c)][v].f))
          /\ pte' = [pte EXCEPT ![Mm(c)][v] = NoPte]
    /\ UNCHANGED <<taskVars, brk, mnext, mmVars, tlb, shoot>>

\* Nothing is allocated: the entry is the promise.
Mmap(c, w) ==
    /\ Call(c, "mmap") /\ mnext[Mm(c)] < Top /\ Quiet(c, mnext[Mm(c)])
    /\ pte' = [pte EXCEPT ![Mm(c)][mnext[Mm(c)]] = Promise(w)]
    /\ mnext' = [mnext EXCEPT ![Mm(c)] = @ + 1]
    /\ UNCHANGED <<taskVars, brk, mmVars, tlb, op, shoot>>

\* SYS_MUNMAP of one page: the frame is let go first, then comes the shootdown.
Munmap(c, v) ==
    /\ Call(c, "munmap") /\ v >= HeapTop /\ Quiet(c, v)
    /\ LET e == pte[Mm(c)][v]
       IN /\ e.is # "none"
          /\ Go(c, IF e.is = "page"
                   THEN [At("drop", v) EXCEPT !.f = e.f, !.then = "munmap"]
                   ELSE At("shoot", v))
    /\ pte' = [pte EXCEPT ![Mm(c)][v] = NoPte]
    /\ UNCHANGED <<taskVars, brk, mnext, mmVars, tlb, shoot>>

\* A promise changes too; a COW page keeps its mark and stays read-only.
Protected(e, w) == [e EXCEPT !.w = w /\ ~e.cow]
Mprotect(c, v, w) ==
    /\ Call(c, "mprotect") /\ v >= HeapTop /\ Quiet(c, v)
    /\ pte[Mm(c)][v].is # "none"
    /\ pte' = [pte EXCEPT ![Mm(c)][v] = Protected(@, w)]
    /\ Go(c, At("shoot", v)) /\ Flush(c, v)
    /\ UNCHANGED <<taskVars, brk, mnext, mmVars, shoot>>

\* kproc_reset of a slot that was claimed.
Claim(k, st, l) ==
    /\ state[k] = "free" /\ k \in setting.slots
    /\ state' = [state EXCEPT ![k] = st] /\ leader' = [leader EXCEPT ![k] = l]
    /\ brk' = [brk EXCEPT ![k] = 0] /\ mnext' = [mnext EXCEPT ![k] = HeapTop]

Spawn(k) ==
    /\ Claim(k, "live", k)
    /\ UNCHANGED <<setting, runs, pte, mmVars, tlb, op, shoot>>

\* Refused to a process with threads; a slot is claimed for the child.
Fork(c, k) ==
    /\ Call(c, "fork") /\ Cardinality(Members(Mm(c))) = 1
    /\ Claim(k, "embryo", k)
    /\ Go(c, [At("fork", 0) EXCEPT !.who = k])
    /\ UNCHANGED <<setting, runs, pte, mmVars, tlb, shoot>>

Gained(f) == refc[f] + 1

\* vm_clone_user at one page: the frame gains an owner, both sides lose the
\* right to write, and remember that they had it.
Shared(e) == [e EXCEPT !.cow = e.w \/ e.cow, !.w = FALSE]
\* Mutant: the parent's entry is left writable.
KeptWritable(e) == e
Kept(e) == Shared(e)
ForkPage(c) ==
    /\ op[c].at = "fork" /\ op[c].v < Top
    /\ LET v == op[c].v
           p == Mm(c)
           e == pte[p][v]
       IN IF e.is = "page"
          THEN /\ refc' = [refc EXCEPT ![e.f] = Gained(e.f)]
               /\ pte' = [pte EXCEPT ![p][v] = Kept(e), ![op[c].who][v] = Shared(e)]
               /\ IF e.w \/ e.cow THEN Flush(c, v) ELSE UNCHANGED tlb
          ELSE UNCHANGED <<refc, pte, tlb>>
    /\ Go(c, [op[c] EXCEPT !.v = @ + 1])
    /\ UNCHANGED <<taskVars, brk, mnext, free, data, shoot>>

ForkDone(c) ==
    /\ op[c].at = "fork" /\ op[c].v = Top
    /\ LET k == op[c].who
       IN /\ state' = [state EXCEPT ![k] = "live"]
          /\ brk' = [brk EXCEPT ![k] = brk[Mm(c)]]
          /\ mnext' = [mnext EXCEPT ![k] = mnext[Mm(c)]]
    /\ Go(c, User)
    /\ UNCHANGED <<setting, leader, runs, pte, mmVars, tlb, shoot>>

\* SYS_THREAD_CREATE: a slot of its own in the same page tables.
ThreadCreate(c, k) ==
    /\ Call(c, "thread") /\ Claim(k, "live", Mm(c))
    /\ UNCHANGED <<setting, runs, pte, mmVars, tlb, op, shoot>>

\* A thread's slot is free when it leaves, the leader's when the last one has;
\* the last one out tears the address space down.
Last(c) == Members(Mm(c)) = {runs[c]}
Exit(c) ==
    /\ InUser(c)
    /\ state' = [s \in Slots |->
                    IF s = Mm(c) /\ (s = runs[c] \/ Last(c)) THEN "exited"
                    ELSE IF s = runs[c] THEN "free" ELSE state[s]]
    /\ leader' = [leader EXCEPT ![runs[c]] = IF @ = runs[c] THEN @ ELSE runs[c]]
    /\ runs' = [runs EXCEPT ![c] = None] /\ LoadCr3(c)
    /\ Go(c, IF Last(c) THEN [At("tear", 0) EXCEPT !.who = Mm(c)] ELSE User)
    /\ UNCHANGED <<setting, brk, mnext, pte, mmVars, shoot>>

Reclaims(e) == e.is = "page"

\* page_free_tree at one page; at the end the slot may be used again.
TearPage(c) ==
    /\ op[c].at = "tear" /\ op[c].v < Top
    /\ LET e == pte[op[c].who][op[c].v]
       IN Go(c, IF Reclaims(e)
                THEN [op[c] EXCEPT !.at = "drop", !.f = e.f, !.then = "tear"]
                ELSE [op[c] EXCEPT !.v = @ + 1])
    /\ UNCHANGED <<taskVars, brk, mnext, pte, mmVars, tlb, shoot>>

TearDone(c) ==
    /\ op[c].at = "tear" /\ op[c].v = Top
    /\ LET p == op[c].who
       IN /\ state' = [state EXCEPT ![p] = "free"]
          /\ pte' = [pte EXCEPT ![p] = NoTables]
    /\ Go(c, User)
    /\ UNCHANGED <<setting, leader, runs, brk, mnext, mmVars, tlb, shoot>>

-----------------------------------------------------------------------------
Kernel(c) ==
    \/ NoFrame(c) \/ ZeroFill(c) \/ CowCheck(c) \/ CowTake(c) \/ CowCopy(c)
    \/ Drop(c) \/ Push(c) \/ Post(c) \/ Acked(c)
    \/ ForkPage(c) \/ ForkDone(c) \/ TearPage(c) \/ TearDone(c)

Program(c) ==
    \/ \E v \in Page : \/ Walk(c, v) \/ Fault(c, v) \/ Munmap(c, v)
                       \/ \E x \in Value : Store(c, v, x)
                       \/ \E w \in BOOLEAN : Mprotect(c, v, w)
    \/ BrkGrow(c) \/ BrkShrink(c)
    \/ \E w \in BOOLEAN : Mmap(c, w)
    \/ \E k \in Slots : Fork(c, k) \/ ThreadCreate(c, k)
    \/ Exit(c)

Next ==
    \/ \E c \in Cores : \/ Kernel(c) \/ Program(c) \/ Preempt(c) \/ Ack(c)
                        \/ \E s \in Slots : Dispatch(c, s)
    \/ \E k \in Slots : Spawn(k)

Spec == Init /\ [][Next]_vars

-----------------------------------------------------------------------------
(* Properties. *)

Pte == [is : {"none", "zfod", "page"}, f : Frames \cup {None}, w : BOOLEAN,
        cow : BOOLEAN]
Op == [at : {"user", "zfod", "cow", "take", "copy", "drop", "push", "shoot",
             "wait", "fork", "tear"},
       v : 0 .. Top, e : Pte, f : Frames \cup {None},
       then : {"user", "brk", "munmap", "tear"}, who : Slots \cup {None}]

\* Every variable has its type; no core has halted on a double free.
TypeOK ==
    /\ setting \in Settings
    /\ state \in [Slots -> {"free", "embryo", "live", "exited"}]
    /\ leader \in [Slots -> Slots]
    /\ brk \in [Slots -> 0 .. HeapTop] /\ mnext \in [Slots -> HeapTop .. Top]
    /\ pte \in [Slots -> [Page -> Pte]]
    /\ free \subseteq Frames /\ refc \in [Frames -> Nat] /\ data \in [Frames -> Value \cup {Link}]
    /\ runs \in [Cores -> Slots \cup {None}]
    /\ tlb \in [Cores -> [Page -> [f : Frames \cup {None}, w : BOOLEAN]]]
    /\ op \in [Cores -> Op]
    /\ shoot.by \in Cores \cup {None} /\ shoot.pending \subseteq Cores

Mappings(f) == {m \in Slots \X Page : pte[m[1]][m[2]].f = f}
\* Cores that unmapped a frame and have still to let it go.
Owing(f) == {c \in Cores : op[c].f = f /\ op[c].then # "tear"}

\* refcount, plus one, is the number of entries that map the frame and of calls
\* that have still to let it go; a frame on the free list has neither
\* (frame_share, free_frame): nothing leaks and nothing is freed twice.
OwnersCounted ==
    \A f \in Frames :
        Cardinality(Mappings(f)) + Cardinality(Owing(f)) =
            IF f \in free THEN 0 ELSE refc[f] + 1

\* A frame that some entry may write through is mapped by that entry alone
\* (vm_clone_user, the COW fault, SYS_MPROTECT).
WriteAlone ==
    \A p \in Slots, v \in Page :
        pte[p][v].w /\ pte[p][v].is = "page" =>
            Mappings(pte[p][v].f) = {<<p, v>>}

\* Every page below the break is there and may be written, perhaps after a copy
\* (vm_clone_user keeps the COW mark of a page it shares a second time).
Shrinking(p, v) == \E c \in Cores : op[c].v = v /\ op[c].then = "brk" /\ Mm(c) = p
HeapUsable ==
    \A p \in Slots, v \in Page :
        leader[p] = p /\ state[p] = "live" /\ v < brk[p] =>
            \/ pte[p][v].is = "page" /\ (pte[p][v].w \/ pte[p][v].cow)
            \/ Shrinking(p, v)

\* A frame on the free list is reachable through no translation a core in ring 3
\* may use: it is freed only after the shootdown (tlb_shootdown_range).
FreeUnreachable ==
    \A c \in Cores, v \in Page : InUser(c) => tlb[c][v].f \notin free

\* A core in ring 3 uses no translation its page tables do not hold, but for one
\* that a shootdown in progress has still to reach.
Reaching(c, v) ==
    \E d \in Cores \ {c} :
        /\ op[d].v = v /\ runs[d] # None /\ Mm(d) = Mm(c)
        /\ op[d].at = "shoot" \/ (op[d].at = "wait" /\ c \in shoot.pending)
TlbSound ==
    \A c \in Cores, v \in Page :
        LET t == tlb[c][v]
            e == pte[Mm(c)][v]
        IN InUser(c) /\ t # NoTr =>
              (e.f = t.f /\ (t.w => e.w)) \/ Reaching(c, v)

\* The memory the processes see.
Absent == None
SeenAt(e) == IF e.is = "page" THEN data[e.f] ELSE IF e.is = "zfod" THEN Zero ELSE Absent
Seen == [p \in Slots |-> [v \in Page |->
            IF leader[p] = p /\ (state[p] = "live" \/ Members(p) # {})
            THEN SeenAt(pte[p][v]) ELSE Absent]]

Private == INSTANCE Spaces WITH Proc <- Slots, mem <- Seen
ImplementsSpaces == Private!Spec

\* A frame has the owners its mappings make it have, is writable by its only owner or by those that
\* share it knowingly, is in no table once it is free, the heap is usable up to the break, and no core
\* translates to a frame that its process gave up - for three frames and any order of faults, forks,
\* unmappings and shootdowns.
VmSound == /\ TypeOK /\ OwnersCounted /\ WriteAlone /\ HeapUsable
           /\ FreeUnreachable /\ TlbSound

-----------------------------------------------------------------------------
(* The machine the properties are checked on: two cores and two or three    *)
(* slots over a heap page and an mmap page.                                 *)

Workload(calls, slots) == [calls |-> calls, slots |-> slots]
Few == Slots \ {CHOOSE s \in Slots : TRUE}
\* A parent, a child and a third process that map, share and unmap a page.
Mapping == Workload({"mmap", "munmap", "fork"}, Slots)
\* A parent, a child and a third process over the break.
Family == Workload({"brk", "fork"}, Slots)
\* A process with threads.
Threading == Workload({"brk", "mmap", "mprotect", "thread"}, Few)
Sound == {Mapping, Family, Threading}
\* A process that forks and changes protections.
Protecting == {Workload({"mmap", "mprotect", "fork"}, Few)}

Names == Permutations(Frames) \cup Permutations(Cores)
=============================================================================
