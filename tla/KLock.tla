------------------------------- MODULE KLock --------------------------------
(***************************************************************************)
(* The kernel's ranked cross-core spinlocks (struct klock, klock_acquire,  *)
(* klock_release, klock_read_acquire, klock_read_release).                 *)
(*                                                                         *)
(* A context is a thread on the boot core or an AP.  It spins on the test- *)
(* and-set of `v', then waits for `rdrs' to drain; a shared acquirer       *)
(* increments `rdrs' and looks at `v' again.  Each of those accesses is a  *)
(* step, so contexts interleave between any two of them.                   *)
(*                                                                         *)
(* Callers follow the discipline the rank order states: strictly upward    *)
(* acquisition, LIFO release.  Where a context's ranks are recorded is     *)
(* what rank_ctx answers at that moment: the core's storage, the BSP       *)
(* thread's, or that of the leader of the process it serves.  The answer   *)
(* may change while locks are held; Switch is that change.                 *)
(***************************************************************************)
EXTENDS Naturals, FiniteSets, SequencesExt

CONSTANTS
    Ctx,      \* contexts that take locks
    Lock,     \* the klocks
    Rank,     \* [Lock -> Nat], one rank per lock
    Shared,   \* the locks taken shared (g_vfs_lock is)
    Depth,    \* KLOCK_RANK_DEPTH
    Store,    \* the rank storages (cpu_local, thread and kproc)
    StoreOf,  \* [Ctx -> SUBSET Store]: those rank_ctx may answer for a context
    NoLock

ASSUME KLockAssumption ==
    /\ IsFiniteSet(Ctx)
    /\ Rank \in [Lock -> Nat]
    /\ \A l, m \in Lock : Rank[l] = Rank[m] => l = m
    /\ Shared \subseteq Lock
    /\ Depth \in Nat
    /\ StoreOf \in [Ctx -> SUBSET Store]
    /\ NoLock \notin Lock

VARIABLES
    v,          \* l->v: TRUE while an exclusive acquirer owns the gate
    rdrs,       \* l->rdrs
    pc,         \* where a context is in the acquire it is making
    want,       \* the lock it is acquiring
    held,       \* the locks it holds, oldest first, and where each was recorded
    where,      \* the rank storage rank_ctx answers now
    cell, sp,   \* cell[w][i], sp[w]: the rank stack of a storage and its depth
    violations, \* g_rank_violations counted something
    mismatches  \* g_rank_mismatch counted something

vars == <<v, rdrs, pc, want, held, where, cell, sp, violations, mismatches>>

\* The file path's locks with the ranks the code gives them, and the storages of
\* two contexts: the first serves a process and is a core's own by turns, the
\* second is an AP's.
FileRank == [vfs |-> 4, cas |-> 5, vblk |-> 6]
TwoStores == [boot |-> {"core1", "leader1"}, ap |-> {"core2"}]

Holds(c, l) == \E i \in 1 .. Len(held[c]) : held[c][i].lock = l
Upward(c, l) == \A i \in 1 .. Len(held[c]) : Rank[held[c][i].lock] < Rank[l]

Init ==
    /\ v = [l \in Lock |-> FALSE] /\ rdrs = [l \in Lock |-> 0]
    /\ pc = [c \in Ctx |-> "run"] /\ want = [c \in Ctx |-> NoLock]
    /\ held = [c \in Ctx |-> <<>>]
    /\ where \in [Ctx -> Store] /\ \A c \in Ctx : where[c] \in StoreOf[c]
    /\ cell = [w \in Store |-> [i \in 0 .. Depth - 1 |-> 0]]
    /\ sp = [w \in Store |-> 0]
    /\ violations = FALSE /\ mismatches = FALSE

-----------------------------------------------------------------------------
\* The rank check at the head of both acquires: the top of the stack rank_ctx
\* chose against the rank wanted.
Inverted(c, l) ==
    /\ sp[where[c]] > 0
    /\ cell[where[c]][sp[where[c]] - 1] >= Rank[l]

Acquire(c, l, how) ==
    /\ pc[c] = "run" /\ Upward(c, l)
    /\ pc' = [pc EXCEPT ![c] = how] /\ want' = [want EXCEPT ![c] = l]
    /\ violations' = (violations \/ Inverted(c, l))
    /\ UNCHANGED <<v, rdrs, held, where, cell, sp, mismatches>>

AcquireExclusive(c, l) == Acquire(c, l, "tas")
AcquireShared(c, l)    == l \in Shared /\ Acquire(c, l, "look")

\* Mutant: the rank is recorded without looking at KLOCK_RANK_DEPTH.
RoomAlways(w) == TRUE
Room(w) == sp[w] < Depth

\* The acquire is granted: the rank is recorded on the stack rank_ctx answers
\* now, if there is room, and the lock or the token remembers the slot.
Grant(c, shared) ==
    LET w == where[c]
    IN /\ held' = [held EXCEPT ![c] = Append(@,
                      [lock |-> want[c], shared |-> shared, pushed |-> Room(w),
                       at |-> w, idx |-> sp[w]])]
       /\ IF Room(w)
          THEN /\ cell' = [cell EXCEPT ![w][sp[w]] = Rank[want[c]]]
               /\ sp' = [sp EXCEPT ![w] = @ + 1]
          ELSE UNCHANGED <<cell, sp>>
       /\ pc' = [pc EXCEPT ![c] = "run"] /\ want' = [want EXCEPT ![c] = NoLock]

\* __sync_lock_test_and_set found the gate open.
TestAndSet(c) ==
    /\ pc[c] = "tas" /\ ~v[want[c]]
    /\ v' = [v EXCEPT ![want[c]] = TRUE]
    /\ pc' = [pc EXCEPT ![c] = "drain"]
    /\ UNCHANGED <<rdrs, want, held, where, cell, sp, violations, mismatches>>

\* while (l->rdrs) krelax();
Drained(c) ==
    /\ pc[c] = "drain" /\ rdrs[want[c]] = 0
    /\ Grant(c, FALSE)
    /\ UNCHANGED <<v, rdrs, where, violations, mismatches>>

\* while (l->v) krelax();
SeesOpen(c) ==
    /\ pc[c] = "look" /\ ~v[want[c]]
    /\ pc' = [pc EXCEPT ![c] = "inc"]
    /\ UNCHANGED <<v, rdrs, want, held, where, cell, sp, violations, mismatches>>

CountIn(c) ==
    /\ pc[c] = "inc"
    /\ rdrs' = [rdrs EXCEPT ![want[c]] = @ + 1]
    /\ pc' = [pc EXCEPT ![c] = "recheck"]
    /\ UNCHANGED <<v, want, held, where, cell, sp, violations, mismatches>>

\* Mutant: a reader that counted itself in does not look at the gate again.
RecheckBlind(c) ==
    /\ pc[c] = "recheck" /\ Grant(c, TRUE)
    /\ UNCHANGED <<v, rdrs, where, violations, mismatches>>

\* Mutant: a reader that finds the gate closed waits with its count kept.
RecheckHolds(c) ==
    /\ pc[c] = "recheck"
    /\ \/ ~v[want[c]] /\ Grant(c, TRUE)
       \/ v[want[c]] /\ UNCHANGED <<pc, want, held, cell, sp>>
    /\ UNCHANGED <<v, rdrs, where, violations, mismatches>>

Recheck(c) ==
    /\ pc[c] = "recheck"
    /\ \/ /\ ~v[want[c]]
          /\ Grant(c, TRUE)
       \/ /\ v[want[c]]
          /\ pc' = [pc EXCEPT ![c] = "backoff"]
          /\ UNCHANGED <<want, held, cell, sp>>
    /\ UNCHANGED <<v, rdrs, where, violations, mismatches>>

\* Mutant: backing off forgets the count.
BackOffKeeps(c) ==
    /\ pc[c] = "backoff"
    /\ pc' = [pc EXCEPT ![c] = "look"]
    /\ UNCHANGED <<v, rdrs, want, held, where, cell, sp, violations, mismatches>>

BackOff(c) ==
    /\ pc[c] = "backoff"
    /\ rdrs' = [rdrs EXCEPT ![want[c]] = @ - 1]
    /\ pc' = [pc EXCEPT ![c] = "look"]
    /\ UNCHANGED <<v, want, held, where, cell, sp, violations, mismatches>>

\* Mutant: the release asks rank_ctx again.
StackNow(c, r) == where[c]
StackOf(c, r) == r.at

\* Both releases pop the slot the acquire recorded, whatever rank_ctx answers
\* now, and only then open the lock.
Release(c) ==
    /\ pc[c] = "run" /\ held[c] # <<>>
    /\ LET r == Last(held[c])
           w == StackOf(c, r)
       IN /\ IF r.pushed
             THEN /\ mismatches' =
                        \/ mismatches
                        \/ cell[w][r.idx] # Rank[r.lock]
                        \/ (~r.shared /\ sp[w] # r.idx + 1)
                  /\ sp' = [sp EXCEPT ![w] = IF @ > r.idx THEN r.idx ELSE @]
             ELSE UNCHANGED <<sp, mismatches>>
          /\ IF r.shared
             THEN rdrs' = [rdrs EXCEPT ![r.lock] = @ - 1] /\ UNCHANGED v
             ELSE v' = [v EXCEPT ![r.lock] = FALSE] /\ UNCHANGED rdrs
    /\ held' = [held EXCEPT ![c] = Front(held[c])]
    /\ UNCHANGED <<pc, want, where, cell, violations>>

\* The scheduler starts, or the context enters or leaves a process excursion:
\* rank_ctx now answers another storage.  In an acquire the storage was chosen
\* at its head, so it does not change there.
Switch(c) ==
    /\ pc[c] = "run"
    /\ \E w \in StoreOf[c] \ {where[c]} : where' = [where EXCEPT ![c] = w]
    /\ UNCHANGED <<v, rdrs, pc, want, held, cell, sp, violations, mismatches>>

Step(c) ==
    \/ \E l \in Lock : AcquireExclusive(c, l) \/ AcquireShared(c, l)
    \/ TestAndSet(c) \/ Drained(c)
    \/ SeesOpen(c) \/ CountIn(c) \/ Recheck(c) \/ BackOff(c)
    \/ Release(c)
    \/ Switch(c)

Next == \E c \in Ctx : Step(c)

Spec == Init /\ [][Next]_vars

\* A context runs on: every spin looks again, a test-and-set of a gate that
\* stays open succeeds (none is promised to win against others), and a critical
\* section ends: inner sections do not repeat for ever inside it.
Progress(c) == \/ TestAndSet(c) \/ Drained(c)
               \/ SeesOpen(c) \/ CountIn(c) \/ Recheck(c) \/ BackOff(c)
               \/ Release(c)
Leave(c, n) == Len(held[c]) = n /\ Release(c)
FairSpec ==
    /\ Spec
    /\ \A c \in Ctx : /\ WF_vars(Progress(c))
                      /\ \A n \in 1 .. Cardinality(Lock) : SF_vars(Leave(c, n))

-----------------------------------------------------------------------------
(* Properties. *)

Hold == [lock : Lock, shared : BOOLEAN, pushed : BOOLEAN, at : Store,
         idx : 0 .. Depth]

TypeOK ==
    /\ v \in [Lock -> BOOLEAN] /\ rdrs \in [Lock -> Nat]
    /\ pc \in [Ctx -> {"run", "tas", "drain", "look", "inc", "recheck", "backoff"}]
    /\ want \in [Ctx -> Lock \cup {NoLock}]
    /\ \A c \in Ctx : pc[c] = "run" <=> want[c] = NoLock
    /\ held \in [Ctx -> Seq(Hold)]
    /\ where \in [Ctx -> Store]
    /\ cell \in [Store -> [0 .. Depth - 1 -> Nat]] /\ sp \in [Store -> 0 .. Depth]
    /\ violations \in BOOLEAN /\ mismatches \in BOOLEAN

HoldsAs(c, l, shared) ==
    \E i \in 1 .. Len(held[c]) : held[c][i].lock = l /\ held[c][i].shared = shared

\* The interlock: an exclusive holder is alone; shared holders are together only
\* with each other, whoever was between its check and its increment.
Exclusion ==
    \A c, d \in Ctx, l \in Lock :
        (c # d /\ HoldsAs(c, l, FALSE)) => ~Holds(d, l)

\* The counter a drain waits for is the shared holders and those about to look
\* at the gate again: it returns to zero when they are gone.
Counted(l) ==
    {c \in Ctx : HoldsAs(c, l, TRUE)
                 \/ (pc[c] \in {"recheck", "backoff"} /\ want[c] = l)}
DrainExact == \A l \in Lock : rdrs[l] = Cardinality(Counted(l))

\* Callers that keep the order are never reported, whatever rank_ctx answers
\* between an acquire and its release.
NoFalseReport == ~violations /\ ~mismatches

\* A context that holds nothing leaves nothing on any stack: the pop lands on
\* the slot that was pushed.
NoStrandedRank ==
    (\A c \in Ctx : held[c] = <<>>) => \A w \in Store : sp[w] = 0

\* An exclusive acquirer that owns the gate gets the lock: back-offs cannot hold
\* its drain off for ever.
DrainEnds ==
    \A c \in Ctx, l \in Lock :
        (pc[c] = "drain" /\ want[c] = l) ~> HoldsAs(c, l, FALSE)

\* A rank of c is recorded on the storage w.
On(c, w) == \E i \in 1 .. Len(held[c]) : held[c][i].pushed /\ held[c][i].at = w

\* A context whose every hold is recorded where rank_ctx answers, and nobody else's,
\* would be reported if it asked for a rank that is not above all it holds: the
\* rank on top of the stack is its highest.
InversionSeen ==
    \A c \in Ctx, l \in Lock :
        (/\ ~Upward(c, l)
         /\ \A i \in 1 .. Len(held[c]) : held[c][i].pushed /\ held[c][i].at = where[c]
         /\ \A d \in Ctx \ {c} : ~On(d, where[c])) => Inverted(c, l)

\* The rank checker reports no ordering that did not happen, misses none on a stack
\* that is complete, and leaves no rank behind when a context's rank storage moves
\* between an acquire and its release.
ReportsSound == NoFalseReport /\ NoStrandedRank /\ InversionSeen
=============================================================================
