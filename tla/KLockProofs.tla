----------------------------- MODULE KLockProofs ----------------------------
(***************************************************************************)
(* The klock interlock and its rank checker, for every number of contexts, *)
(* locks and rank storages.                                                *)
(***************************************************************************)
EXTENDS KLock, FiniteSetTheorems, SequenceTheorems, TLAPS

\* The gate of l is c's: it holds l exclusively or is draining its readers.
Gate(c, l) == HoldsAs(c, l, FALSE) \/ (pc[c] = "drain" /\ want[c] = l)

Ordered ==
    \A c \in Ctx : \A i, j \in 1 .. Len(held[c]) :
        i < j => Rank[held[c][i].lock] < Rank[held[c][j].lock]
Climbing  == \A c \in Ctx : pc[c] # "run" => Upward(c, want[c])
GateHeld  == \A c \in Ctx, l \in Lock : Gate(c, l) => v[l]
GateOwned == \A c, d \in Ctx, l \in Lock : Gate(c, l) /\ Gate(d, l) => c = d

\* The induction: who owns a gate, and what a drain waits for.
IInv ==
    /\ TypeOK
    /\ Ordered /\ Climbing
    /\ GateHeld /\ GateOwned
    /\ Exclusion /\ DrainExact

-----------------------------------------------------------------------------
(* Sequences of holds. *)

LEMMA AppendHold ==
    ASSUME NEW s \in Seq(Hold), NEW e \in Hold
    PROVE  /\ Append(s, e) \in Seq(Hold)
           /\ Len(Append(s, e)) = Len(s) + 1
           /\ Append(s, e)[Len(s) + 1] = e
           /\ \A i \in 1 .. Len(s) : Append(s, e)[i] = s[i]
OBVIOUS

LEMMA FrontHold ==
    ASSUME NEW s \in Seq(Hold), s # <<>>
    PROVE  /\ Len(s) \in Nat \ {0}
           /\ Last(s) = s[Len(s)] /\ Last(s) \in Hold
           /\ Front(s) \in Seq(Hold)
           /\ Len(Front(s)) = Len(s) - 1
           /\ \A i \in 1 .. Len(s) - 1 : Front(s)[i] = s[i]
<1>1. Len(s) \in Nat \ {0} /\ \A i \in 1 .. Len(s) : s[i] \in Hold
  <2>1. Len(s) \in Nat /\ \A i \in 1 .. Len(s) : s[i] \in Hold
    BY LenProperties, ElementOfSeq
  <2>2. Len(s) # 0
    BY EmptySeq
  <2> QED BY <2>1, <2>2
<1>2. /\ Front(s) \in Seq(Hold)
      /\ Len(Front(s)) = IF 1 <= Len(s) - 1 THEN Len(s) - 1 - 1 + 1 ELSE 0
      /\ \A i \in 1 .. Len(s) - 1 - 1 + 1 : Front(s)[i] = s[1 + i - 1]
  BY <1>1, SubSeqProperties, 1 \in Int, Len(s) - 1 \in Int DEF Front
<1>3. Last(s) = s[Len(s)] /\ Last(s) \in Hold
  <2>1. Len(s) \in 1 .. Len(s)
    BY <1>1
  <2> QED BY <1>1, <2>1 DEF Last
<1> DEFINE n == Len(s)  f == Front(s)
<1>4. n \in Nat \ {0} /\ Len(f) = (IF 1 <= n - 1 THEN n - 1 - 1 + 1 ELSE 0)
      /\ \A i \in 1 .. n - 1 - 1 + 1 : f[i] = s[1 + i - 1]
  BY <1>1, <1>2
<1> HIDE DEF n, f
<1>5. Len(f) = n - 1
  BY <1>4
<1>6. ASSUME NEW i \in 1 .. n - 1 PROVE f[i] = s[i]
  <2>1. i \in 1 .. n - 1 - 1 + 1 /\ 1 + i - 1 = i
    BY <1>4
  <2>2. f[i] = s[1 + i - 1]
    BY <1>4, <2>1
  <2> QED BY <2>1, <2>2
<1> QED BY <1>1, <1>2, <1>3, <1>5, <1>6 DEF n, f

\* Granting an acquire adds one hold above all the others.
LEMMA GrantAdds ==
    ASSUME TypeOK, Ordered, NEW c \in Ctx, NEW b \in BOOLEAN,
           want[c] \in Lock, Upward(c, want[c]), Grant(c, b)
    PROVE  /\ held' \in [Ctx -> Seq(Hold)]
           /\ Ordered'
           /\ \A d \in Ctx : d # c => held'[d] = held[d]
           /\ \A l \in Lock, s \in BOOLEAN :
                HoldsAs(c, l, s)' <=> HoldsAs(c, l, s) \/ (l = want[c] /\ s = b)
<1> DEFINE e == [lock |-> want[c], shared |-> b, pushed |-> Room(where[c]),
                 at |-> where[c], idx |-> sp[where[c]]]
<1>1. e \in Hold
  BY DEF TypeOK, Hold, Room
<1>2. held' = [held EXCEPT ![c] = Append(held[c], e)]
  BY DEF Grant
<1>3. held[c] \in Seq(Hold)
  BY DEF TypeOK
<1> HIDE DEF e
<1>4. held'[c] = Append(held[c], e) /\ \A d \in Ctx : d # c => held'[d] = held[d]
  BY <1>2 DEF TypeOK
<1>5. held' \in [Ctx -> Seq(Hold)]
  BY <1>1, <1>2, <1>3, AppendHold DEF TypeOK
<1>6. /\ Len(held'[c]) = Len(held[c]) + 1
      /\ held'[c][Len(held[c]) + 1] = e
      /\ \A i \in 1 .. Len(held[c]) : held'[c][i] = held[c][i]
      /\ Len(held[c]) \in Nat
  BY <1>1, <1>3, <1>4, AppendHold
<1>7. e.lock = want[c] /\ e.shared = b
  BY DEF e
<1>8. Ordered'
  <2> SUFFICES ASSUME NEW d \in Ctx, NEW i \in 1 .. Len(held'[d]),
                      NEW j \in 1 .. Len(held'[d]), i < j
               PROVE  Rank[held'[d][i].lock] < Rank[held'[d][j].lock]
    BY DEF Ordered
  <2>1. CASE d # c
    BY <2>1, <1>4 DEF Ordered
  <2>2. CASE d = c /\ j = Len(held[c]) + 1
    BY <2>2, <1>6, <1>7 DEF Upward
  <2>3. CASE d = c /\ j # Len(held[c]) + 1
    <3>1. i \in 1 .. Len(held[c]) /\ j \in 1 .. Len(held[c])
      BY <2>3, <1>6
    <3>2. Rank[held[c][i].lock] < Rank[held[c][j].lock]
      BY <3>1 DEF Ordered
    <3> QED BY <2>3, <1>6, <3>1, <3>2
  <2> QED BY <2>1, <2>2, <2>3
<1>9. ASSUME NEW l \in Lock, NEW s \in BOOLEAN
      PROVE  HoldsAs(c, l, s)' <=> HoldsAs(c, l, s) \/ (l = want[c] /\ s = b)
  BY <1>6, <1>7 DEF HoldsAs
<1> QED BY <1>4, <1>5, <1>8, <1>9

\* A release removes exactly the newest hold, and no other hold of that lock.
LEMMA ReleaseRemoves ==
    ASSUME TypeOK, Ordered, KLockAssumption, NEW c \in Ctx, Release(c)
    PROVE  LET r == Last(held[c]) IN
           /\ r \in Hold
           /\ HoldsAs(c, r.lock, r.shared)
           /\ held' \in [Ctx -> Seq(Hold)]
           /\ Ordered'
           /\ \A d \in Ctx : d # c => held'[d] = held[d]
           /\ \A l \in Lock, s \in BOOLEAN :
                HoldsAs(c, l, s)' <=> HoldsAs(c, l, s) /\ l # r.lock
<1> DEFINE r == Last(held[c])
<1>1. held[c] \in Seq(Hold) /\ held[c] # <<>>
  BY DEF TypeOK, Release
<1>2. held' = [held EXCEPT ![c] = Front(held[c])]
  BY DEF Release
<1>3. held'[c] = Front(held[c]) /\ \A d \in Ctx : d # c => held'[d] = held[d]
  BY <1>2 DEF TypeOK
<1>4. /\ Len(held[c]) \in Nat \ {0}
      /\ r = held[c][Len(held[c])] /\ r \in Hold
      /\ Len(held'[c]) = Len(held[c]) - 1
      /\ \A i \in 1 .. Len(held[c]) - 1 : held'[c][i] = held[c][i]
      /\ Front(held[c]) \in Seq(Hold)
  BY <1>1, <1>3, FrontHold
<1> HIDE DEF r
<1>5. held' \in [Ctx -> Seq(Hold)]
  BY <1>2, <1>4 DEF TypeOK
<1>6. r.lock \in Lock /\ r.shared \in BOOLEAN
  BY <1>4 DEF Hold
<1>7. HoldsAs(c, r.lock, r.shared)
  BY <1>4 DEF HoldsAs
<1>8. Ordered'
  <2> SUFFICES ASSUME NEW d \in Ctx, NEW i \in 1 .. Len(held'[d]),
                      NEW j \in 1 .. Len(held'[d]), i < j
               PROVE  Rank[held'[d][i].lock] < Rank[held'[d][j].lock]
    BY DEF Ordered
  <2>1. CASE d # c
    BY <2>1, <1>3 DEF Ordered
  <2>2. CASE d = c
    <3>1. /\ i \in 1 .. Len(held[c]) - 1 /\ j \in 1 .. Len(held[c]) - 1
          /\ i \in 1 .. Len(held[c]) /\ j \in 1 .. Len(held[c])
      BY <2>2, <1>4
    <3>2. Rank[held[c][i].lock] < Rank[held[c][j].lock]
      BY <3>1 DEF Ordered
    <3> QED BY <2>2, <1>4, <3>1, <3>2
  <2> QED BY <2>1, <2>2
<1>9. \A i \in 1 .. Len(held[c]) - 1 : held[c][i].lock # r.lock
  <2> SUFFICES ASSUME NEW i \in 1 .. Len(held[c]) - 1
               PROVE  held[c][i].lock # r.lock
    OBVIOUS
  <2>1. Rank[held[c][i].lock] < Rank[r.lock]
    <3>1. /\ i \in 1 .. Len(held[c]) /\ Len(held[c]) \in 1 .. Len(held[c])
          /\ i < Len(held[c])
      BY <1>4
    <3> QED BY <1>4, <3>1 DEF Ordered
  <2>2. Rank[r.lock] \in Nat
    BY <1>6 DEF KLockAssumption
  <2>3. ASSUME held[c][i].lock = r.lock PROVE FALSE
    BY <2>1, <2>2, <2>3
  <2> QED BY <2>3
<1>10. ASSUME NEW l \in Lock, NEW s \in BOOLEAN
       PROVE  HoldsAs(c, l, s)' <=> HoldsAs(c, l, s) /\ l # r.lock
  <2>1. HoldsAs(c, l, s)' => HoldsAs(c, l, s) /\ l # r.lock
    BY <1>4, <1>9 DEF HoldsAs
  <2>2. HoldsAs(c, l, s) /\ l # r.lock => HoldsAs(c, l, s)'
    BY <1>4 DEF HoldsAs
  <2> QED BY <2>1, <2>2
<1> QED BY <1>3, <1>4, <1>5, <1>7, <1>8, <1>10 DEF r

\* A context holds one lock one way: its holds climb strictly.
LEMMA OneHold ==
    ASSUME KLockAssumption, TypeOK, Ordered, NEW c \in Ctx, NEW l \in Lock
    PROVE  ~(HoldsAs(c, l, TRUE) /\ HoldsAs(c, l, FALSE))
<1> SUFFICES ASSUME HoldsAs(c, l, TRUE), HoldsAs(c, l, FALSE) PROVE FALSE
  OBVIOUS
<1>1. Rank[l] \in Nat
  BY DEF KLockAssumption
<1>2. Len(held[c]) \in Nat
  BY LenProperties DEF TypeOK
<1>3. PICK i \in 1 .. Len(held[c]) : held[c][i].lock = l /\ held[c][i].shared = TRUE
  BY DEF HoldsAs
<1>4. PICK j \in 1 .. Len(held[c]) : held[c][j].lock = l /\ held[c][j].shared = FALSE
  BY DEF HoldsAs
<1>5. i < j \/ j < i
  BY <1>2, <1>3, <1>4
<1>6. Rank[l] < Rank[l]
  BY <1>3, <1>4, <1>5 DEF Ordered
<1> QED BY <1>1, <1>6

-----------------------------------------------------------------------------
(* The drain counter. *)

LEMMA CountedFinite ==
    ASSUME KLockAssumption, NEW l \in Lock
    PROVE  IsFiniteSet(Counted(l)) /\ IsFiniteSet(Counted(l)')
<1>1. Counted(l) \subseteq Ctx /\ Counted(l)' \subseteq Ctx
  BY DEF Counted
<1>2. IsFiniteSet(Ctx)
  BY DEF KLockAssumption
<1> QED BY <1>1, <1>2, FS_Subset

\* A context acquiring a lock does not hold it.
LEMMA WantNotHeld ==
    ASSUME TypeOK, Climbing, KLockAssumption, NEW c \in Ctx, pc[c] # "run"
    PROVE  /\ want[c] \in Lock /\ Upward(c, want[c])
           /\ \A b \in BOOLEAN : ~HoldsAs(c, want[c], b)
<1>1. want[c] \in Lock /\ Upward(c, want[c])
  BY DEF TypeOK, Climbing
<1>2. Rank[want[c]] \in Nat
  BY <1>1 DEF KLockAssumption
<1>3. ASSUME NEW b \in BOOLEAN, HoldsAs(c, want[c], b) PROVE FALSE
  <2>1. PICK i \in 1 .. Len(held[c]) : held[c][i].lock = want[c]
    BY <1>3 DEF HoldsAs
  <2>2. Rank[want[c]] < Rank[want[c]]
    BY <1>1, <2>1 DEF Upward
  <2> QED BY <1>2, <2>2
<1> QED BY <1>1, <1>3

LEMMA HoldsIsHoldsAs ==
    ASSUME TypeOK, NEW c \in Ctx, NEW l \in Lock
    PROVE  Holds(c, l) <=> HoldsAs(c, l, TRUE) \/ HoldsAs(c, l, FALSE)
<1>1. \A i \in 1 .. Len(held[c]) : held[c][i].shared \in BOOLEAN
  <2>1. held[c] \in Seq(Hold)
    BY DEF TypeOK
  <2>2. \A i \in 1 .. Len(held[c]) : held[c][i] \in Hold
    BY <2>1, ElementOfSeq
  <2> QED BY <2>2 DEF Hold
<1> QED BY <1>1 DEF Holds, HoldsAs

LEMMA HoldsPrimed ==
    ASSUME TypeOK', NEW c \in Ctx, NEW l \in Lock
    PROVE  Holds(c, l)' <=> HoldsAs(c, l, TRUE)' \/ HoldsAs(c, l, FALSE)'
<1>1. \A i \in 1 .. Len(held'[c]) : held'[c][i].shared \in BOOLEAN
  <2>1. held'[c] \in Seq(Hold)
    BY DEF TypeOK
  <2>2. \A i \in 1 .. Len(held'[c]) : held'[c][i] \in Hold
    BY <2>1, ElementOfSeq
  <2> QED BY <2>2 DEF Hold
<1> QED BY <1>1 DEF Holds, HoldsAs

\* Nobody is counted when the counter is zero, and somebody is when it is not.
LEMMA CountZero ==
    ASSUME KLockAssumption, DrainExact, NEW l \in Lock
    PROVE  /\ rdrs[l] = 0 => Counted(l) = {}
           /\ Counted(l) # {} => rdrs[l] > 0
<1>1. IsFiniteSet(Counted(l)) /\ rdrs[l] = Cardinality(Counted(l))
  BY CountedFinite DEF DrainExact
<1>2. Cardinality(Counted(l)) \in Nat
  BY <1>1, FS_CardinalityType
<1>3. Cardinality(Counted(l)) = 0 <=> Counted(l) = {}
  BY <1>1, FS_EmptySet
<1> QED BY <1>1, <1>2, <1>3

LEMMA CountUp ==
    ASSUME KLockAssumption, DrainExact, NEW l \in Lock, NEW c \in Ctx,
           c \notin Counted(l), Counted(l)' = Counted(l) \cup {c}
    PROVE  Cardinality(Counted(l)') = rdrs[l] + 1
<1>1. rdrs[l] = Cardinality(Counted(l)) /\ IsFiniteSet(Counted(l))
  BY CountedFinite DEF DrainExact
<1>2. Cardinality(Counted(l) \cup {c}) = Cardinality(Counted(l)) + 1
  BY <1>1, FS_AddElement
<1> QED BY <1>1, <1>2

LEMMA CountDown ==
    ASSUME KLockAssumption, DrainExact, NEW l \in Lock, NEW c \in Ctx,
           c \in Counted(l), Counted(l)' = Counted(l) \ {c}
    PROVE  Cardinality(Counted(l)') = rdrs[l] - 1
BY CountedFinite, FS_RemoveElement DEF DrainExact

-----------------------------------------------------------------------------
(* The steps. *)

LEMMA InitIInv == ASSUME KLockAssumption PROVE Init => IInv
<1> SUFFICES ASSUME Init PROVE IInv
  OBVIOUS
<1>1. \A c \in Ctx : Len(held[c]) = 0 /\ held[c] \in Seq(Hold)
  BY EmptySeq DEF Init
<1>2. TypeOK
  <2>1. held \in [Ctx -> Seq(Hold)] /\ Depth \in Nat
    BY <1>1 DEF Init, KLockAssumption
  <2>2. cell \in [Store -> [0 .. Depth - 1 -> Nat]] /\ sp \in [Store -> 0 .. Depth]
    BY <2>1 DEF Init
  <2>3. /\ pc \in [Ctx -> {"run"}] /\ want \in [Ctx -> {NoLock}]
        /\ where \in [Ctx -> Store]
        /\ v \in [Lock -> BOOLEAN] /\ rdrs \in [Lock -> Nat]
    BY DEF Init
  <2>4. violations \in BOOLEAN /\ mismatches \in BOOLEAN
    BY DEF Init
  <2> QED BY <2>1, <2>2, <2>3, <2>4 DEF TypeOK
<1>3. \A c \in Ctx, l \in Lock, b \in BOOLEAN : ~HoldsAs(c, l, b) /\ ~Holds(c, l)
  BY <1>1 DEF HoldsAs, Holds
<1>4. \A c \in Ctx : pc[c] = "run"
  BY DEF Init
<1>5. Ordered
  BY <1>1 DEF Ordered
<1>5a. Climbing /\ GateHeld /\ GateOwned /\ Exclusion
  BY <1>3, <1>4 DEF Climbing, GateHeld, GateOwned, Gate, Exclusion
<1>6. DrainExact
  <2>1. \A l \in Lock : Counted(l) = {}
    BY <1>3, <1>4 DEF Counted
  <2> QED BY <2>1, FS_EmptySet DEF DrainExact, Init
<1> QED BY <1>2, <1>5, <1>5a, <1>6 DEF IInv

\* Steps that leave every hold alone keep what is said of holds.
LEMMA HeldSame ==
    ASSUME held' = held
    PROVE  /\ \A c \in Ctx, l \in Lock, b \in BOOLEAN :
                HoldsAs(c, l, b)' <=> HoldsAs(c, l, b)
           /\ \A c \in Ctx, l \in Lock : Holds(c, l)' <=> Holds(c, l)
           /\ \A c \in Ctx, l \in Lock : Upward(c, l)' <=> Upward(c, l)
           /\ Ordered' <=> Ordered
           /\ Exclusion' <=> Exclusion
BY DEF HoldsAs, Holds, Upward, Ordered, Exclusion

LEMMA AcquireStep ==
    ASSUME KLockAssumption, IInv, NEW c \in Ctx, NEW l \in Lock,
           NEW how \in {"tas", "look"}, Acquire(c, l, how)
    PROVE  IInv'
<1> USE DEF IInv
<1>1. TypeOK'
  BY DEF TypeOK, Acquire, KLockAssumption
<1>2. held' = held /\ v' = v /\ rdrs' = rdrs
  BY DEF Acquire
<1>3. /\ pc' = [pc EXCEPT ![c] = how] /\ want' = [want EXCEPT ![c] = l]
      /\ pc[c] = "run" /\ Upward(c, l)
  BY DEF Acquire
<1>4. /\ pc'[c] = how /\ want'[c] = l
      /\ \A d \in Ctx : d # c => pc'[d] = pc[d] /\ want'[d] = want[d]
  BY <1>3 DEF TypeOK
<1>5. Climbing'
  BY <1>2, <1>3, <1>4 DEF Climbing, Upward
<1>6. \A d \in Ctx, m \in Lock : Gate(d, m)' <=> Gate(d, m)
  BY <1>2, <1>3, <1>4, HeldSame DEF Gate
<1>7. \A m \in Lock : Counted(m)' = Counted(m)
  BY <1>2, <1>3, <1>4, HeldSame DEF Counted
<1>8. GateHeld' /\ GateOwned'
  BY <1>2, <1>6 DEF GateHeld, GateOwned
<1>9. DrainExact'
  BY <1>2, <1>7 DEF DrainExact
<1> QED BY <1>1, <1>2, <1>5, <1>8, <1>9, HeldSame

LEMMA TestAndSetStep ==
    ASSUME KLockAssumption, IInv, NEW c \in Ctx, TestAndSet(c)
    PROVE  IInv'
<1> USE DEF IInv
<1> DEFINE l == want[c]
<1>1. TypeOK'
  BY DEF TypeOK, TestAndSet
<1>2. held' = held /\ rdrs' = rdrs /\ want' = want /\ l \in Lock
  BY WantNotHeld DEF TestAndSet
<1>3. /\ pc[c] = "tas" /\ pc'[c] = "drain" /\ ~v[l]
      /\ \A d \in Ctx : d # c => pc'[d] = pc[d]
      /\ v'[l] /\ \A m \in Lock : m # l => v'[m] = v[m]
  BY <1>2 DEF TestAndSet, TypeOK
<1>4. Climbing'
  BY <1>2, <1>3 DEF Climbing, Upward
<1>5. \A d \in Ctx, m \in Lock : Gate(d, m)' <=> Gate(d, m) \/ (d = c /\ m = l)
  BY <1>2, <1>3, HeldSame DEF Gate
<1>6. GateHeld' /\ GateOwned'
  BY <1>3, <1>5 DEF GateHeld, GateOwned
<1>7. \A m \in Lock : Counted(m)' = Counted(m)
  BY <1>2, <1>3, HeldSame DEF Counted
<1>8. DrainExact'
  BY <1>2, <1>7 DEF DrainExact
<1> QED BY <1>1, <1>2, <1>4, <1>6, <1>8, HeldSame

\* The holds after a grant, for every context.
LEMMA GrantHolds ==
    ASSUME KLockAssumption, IInv, NEW c \in Ctx, NEW b \in BOOLEAN,
           pc[c] # "run", Grant(c, b)
    PROVE  /\ want[c] \in Lock
           /\ held' \in [Ctx -> Seq(Hold)] /\ Ordered'
           /\ \A x \in BOOLEAN : ~HoldsAs(c, want[c], x)
           /\ \A d \in Ctx, l \in Lock, s \in BOOLEAN :
                HoldsAs(d, l, s)' <=>
                    HoldsAs(d, l, s) \/ (d = c /\ l = want[c] /\ s = b)
           /\ \A d \in Ctx, l \in Lock : d # c => (Upward(d, l)' <=> Upward(d, l))
           /\ pc'[c] = "run" /\ want'[c] = NoLock
           /\ \A d \in Ctx : d # c => pc'[d] = pc[d] /\ want'[d] = want[d]
<1> USE DEF IInv
<1>1. want[c] \in Lock /\ Upward(c, want[c])
      /\ \A x \in BOOLEAN : ~HoldsAs(c, want[c], x)
  BY WantNotHeld
<1>2. /\ held' \in [Ctx -> Seq(Hold)]
      /\ Ordered'
      /\ \A d \in Ctx : d # c => held'[d] = held[d]
      /\ \A l \in Lock, s \in BOOLEAN :
            HoldsAs(c, l, s)' <=> HoldsAs(c, l, s) \/ (l = want[c] /\ s = b)
  BY <1>1, GrantAdds
<1>3. \A d \in Ctx, l \in Lock, s \in BOOLEAN :
            d # c => (HoldsAs(d, l, s)' <=> HoldsAs(d, l, s))
  BY <1>2 DEF HoldsAs
<1>4. \A d \in Ctx, l \in Lock : d # c => (Upward(d, l)' <=> Upward(d, l))
  BY <1>2 DEF Upward
<1>5. /\ pc' = [pc EXCEPT ![c] = "run"]
      /\ want' = [want EXCEPT ![c] = NoLock]
  BY DEF Grant
<1>6. /\ pc'[c] = "run" /\ want'[c] = NoLock
      /\ \A d \in Ctx : d # c => pc'[d] = pc[d] /\ want'[d] = want[d]
  BY <1>5 DEF TypeOK
<1> QED BY <1>1, <1>2, <1>3, <1>4, <1>6

LEMMA GrantTyped ==
    ASSUME KLockAssumption, IInv, NEW c \in Ctx, NEW b \in BOOLEAN,
           pc[c] # "run", Grant(c, b), v' = v, rdrs' = rdrs, where' = where,
           UNCHANGED <<violations, mismatches>>
    PROVE  TypeOK'
<1> USE DEF IInv
<1>1. held' \in [Ctx -> Seq(Hold)] /\ want[c] \in Lock
  BY GrantHolds
<1>2. where[c] \in Store /\ Rank[want[c]] \in Nat /\ Depth \in Nat
  BY <1>1 DEF TypeOK, KLockAssumption
<1>3. /\ cell' \in [Store -> [0 .. Depth - 1 -> Nat]]
      /\ sp' \in [Store -> 0 .. Depth]
  <2>1. CASE sp[where[c]] < Depth
    <3>1. /\ cell' = [cell EXCEPT ![where[c]][sp[where[c]]] = Rank[want[c]]]
          /\ sp' = [sp EXCEPT ![where[c]] = @ + 1]
      BY <2>1 DEF Grant, Room
    <3>2. sp[where[c]] + 1 \in 0 .. Depth
      BY <1>2, <2>1 DEF TypeOK
    <3> QED BY <1>2, <3>1, <3>2 DEF TypeOK
  <2>2. CASE ~(sp[where[c]] < Depth)
    BY <2>2 DEF Grant, Room, TypeOK
  <2> QED BY <2>1, <2>2
<1>4. /\ pc' = [pc EXCEPT ![c] = "run"]
      /\ want' = [want EXCEPT ![c] = NoLock]
  BY DEF Grant
<1> QED BY <1>1, <1>3, <1>4 DEF TypeOK

LEMMA DrainedStep ==
    ASSUME KLockAssumption, IInv, NEW c \in Ctx, Drained(c)
    PROVE  IInv'
<1> USE DEF IInv
<1> DEFINE l == want[c]
<1>1. /\ pc[c] = "drain" /\ rdrs[l] = 0 /\ Grant(c, FALSE)
      /\ v' = v /\ rdrs' = rdrs /\ where' = where
      /\ UNCHANGED <<violations, mismatches>>
  BY DEF Drained
<1>2. /\ l \in Lock /\ Ordered'
      /\ \A x \in BOOLEAN : ~HoldsAs(c, l, x)
      /\ \A d \in Ctx, m \in Lock, s \in BOOLEAN :
            HoldsAs(d, m, s)' <=> HoldsAs(d, m, s) \/ (d = c /\ m = l /\ s = FALSE)
      /\ \A d \in Ctx, m \in Lock : d # c => (Upward(d, m)' <=> Upward(d, m))
      /\ pc'[c] = "run" /\ want'[c] = NoLock
      /\ \A d \in Ctx : d # c => pc'[d] = pc[d] /\ want'[d] = want[d]
  BY <1>1, GrantHolds
<1>3. TypeOK'
  BY <1>1, GrantTyped
<1>4. Climbing'
  <2> SUFFICES ASSUME NEW d \in Ctx, pc'[d] # "run" PROVE Upward(d, want[d])'
    BY DEF Climbing
  <2>1. d # c /\ pc[d] # "run" /\ want'[d] = want[d] /\ held'[d] = held[d]
    BY <1>1, <1>2 DEF Grant, TypeOK
  <2> QED BY <2>1 DEF Climbing, Upward
<1>5. \A d \in Ctx, m \in Lock : Gate(d, m)' <=> Gate(d, m)
  BY <1>1, <1>2 DEF Gate, KLockAssumption
<1>6. GateHeld' /\ GateOwned'
  BY <1>1, <1>5 DEF GateHeld, GateOwned
<1>7. \A m \in Lock : Counted(m)' = Counted(m)
  BY <1>1, <1>2 DEF Counted
<1>8. DrainExact'
  BY <1>1, <1>7 DEF DrainExact
<1>9. Exclusion'
  <2>1. Counted(l) = {}
    BY <1>1, <1>2, CountZero
  <2>2. \A d \in Ctx : ~HoldsAs(d, l, TRUE)
    BY <2>1 DEF Counted
  <2>3. \A d \in Ctx : ~HoldsAs(d, l, FALSE)
    <3>1. Gate(c, l)
      BY <1>1 DEF Gate
    <3> QED BY <1>2, <3>1 DEF GateOwned, Gate
  <2> SUFFICES ASSUME NEW a \in Ctx, NEW d \in Ctx, NEW m \in Lock, a # d,
                      HoldsAs(a, m, FALSE)', Holds(d, m)'
               PROVE  FALSE
    BY DEF Exclusion
  <2>4. HoldsAs(d, m, TRUE)' \/ HoldsAs(d, m, FALSE)'
    BY <1>3, HoldsIsHoldsAs, HoldsPrimed
  <2>5. CASE m = l
    BY <1>2, <2>2, <2>3, <2>4, <2>5
  <2>6. CASE m # l
    BY <1>2, <2>4, <2>6, HoldsIsHoldsAs DEF Exclusion
  <2> QED BY <2>5, <2>6
<1> QED BY <1>2, <1>3, <1>4, <1>6, <1>8, <1>9

\* The steps of a shared acquirer that hold nothing new.
LEMMA SeesOpenStep ==
    ASSUME KLockAssumption, IInv, NEW c \in Ctx, SeesOpen(c)
    PROVE  IInv'
<1> USE DEF IInv
<1>1. TypeOK'
  BY DEF TypeOK, SeesOpen
<1>2. held' = held /\ rdrs' = rdrs /\ want' = want /\ v' = v
  BY DEF SeesOpen
<1>3. pc[c] = "look" /\ pc'[c] = "inc" /\ \A d \in Ctx : d # c => pc'[d] = pc[d]
  BY DEF SeesOpen, TypeOK
<1>4. Climbing'
  BY <1>2, <1>3 DEF Climbing, Upward
<1>5. \A d \in Ctx, m \in Lock : Gate(d, m)' <=> Gate(d, m)
  BY <1>2, <1>3, HeldSame DEF Gate
<1>6. GateHeld' /\ GateOwned'
  BY <1>2, <1>5 DEF GateHeld, GateOwned
<1>7. \A m \in Lock : Counted(m)' = Counted(m)
  BY <1>2, <1>3, HeldSame DEF Counted
<1>8. DrainExact'
  BY <1>2, <1>7 DEF DrainExact
<1> QED BY <1>1, <1>2, <1>4, <1>6, <1>8, HeldSame

LEMMA CountInStep ==
    ASSUME KLockAssumption, IInv, NEW c \in Ctx, CountIn(c)
    PROVE  IInv'
<1> USE DEF IInv
<1>1. TypeOK'
  BY DEF TypeOK, CountIn
<1>2. held' = held /\ want' = want /\ v' = v
  BY DEF CountIn
<1>3. pc[c] = "inc" /\ pc'[c] = "recheck" /\ \A d \in Ctx : d # c => pc'[d] = pc[d]
  BY DEF CountIn, TypeOK
<1>4. PICK l \in Lock : l = want[c] /\ ~HoldsAs(c, l, TRUE)
  BY <1>3, WantNotHeld
<1>5. rdrs'[l] = rdrs[l] + 1 /\ \A m \in Lock : m # l => rdrs'[m] = rdrs[m]
  BY <1>4 DEF CountIn, TypeOK
<1>6. Climbing'
  BY <1>2, <1>3 DEF Climbing, Upward
<1>7. \A d \in Ctx, m \in Lock : Gate(d, m)' <=> Gate(d, m)
  BY <1>2, <1>3, HeldSame DEF Gate
<1>8. GateHeld' /\ GateOwned'
  BY <1>2, <1>7 DEF GateHeld, GateOwned
<1>9. c \notin Counted(l) /\ Counted(l)' = Counted(l) \cup {c}
  BY <1>2, <1>3, <1>4, HeldSame DEF Counted
<1>10. \A m \in Lock : m # l => Counted(m)' = Counted(m)
  BY <1>2, <1>3, <1>4, HeldSame DEF Counted
<1>11. Cardinality(Counted(l)') = rdrs[l] + 1
  BY <1>9, CountUp
<1>12. DrainExact'
  <2> SUFFICES ASSUME NEW m \in Lock PROVE rdrs'[m] = Cardinality(Counted(m)')
    BY DEF DrainExact
  <2>1. CASE m = l
    BY <2>1, <1>5, <1>11
  <2>2. CASE m # l
    BY <2>2, <1>5, <1>10 DEF DrainExact
  <2> QED BY <2>1, <2>2
<1> QED BY <1>1, <1>2, <1>6, <1>8, <1>12, HeldSame

LEMMA BackOffStep ==
    ASSUME KLockAssumption, IInv, NEW c \in Ctx, BackOff(c)
    PROVE  IInv'
<1> USE DEF IInv
<1>1. held' = held /\ want' = want /\ v' = v
  BY DEF BackOff
<1>2. pc[c] = "backoff" /\ pc'[c] = "look" /\ \A d \in Ctx : d # c => pc'[d] = pc[d]
  BY DEF BackOff, TypeOK
<1>3. PICK l \in Lock : l = want[c] /\ ~HoldsAs(c, l, TRUE)
  BY <1>2, WantNotHeld
<1>4. c \in Counted(l) /\ Counted(l)' = Counted(l) \ {c}
  BY <1>1, <1>2, <1>3, HeldSame DEF Counted
<1>5. rdrs[l] > 0
  BY <1>3, <1>4, CountZero
<1>6. TypeOK'
  BY <1>3, <1>5 DEF TypeOK, BackOff
<1>7. rdrs'[l] = rdrs[l] - 1 /\ \A m \in Lock : m # l => rdrs'[m] = rdrs[m]
  BY <1>3 DEF BackOff, TypeOK
<1>8. Climbing'
  BY <1>1, <1>2 DEF Climbing, Upward
<1>9. \A d \in Ctx, m \in Lock : Gate(d, m)' <=> Gate(d, m)
  BY <1>1, <1>2, HeldSame DEF Gate
<1>10. GateHeld' /\ GateOwned'
  BY <1>1, <1>9 DEF GateHeld, GateOwned
<1>11. \A m \in Lock : m # l => Counted(m)' = Counted(m)
  BY <1>1, <1>2, <1>3, HeldSame DEF Counted
<1>12. Cardinality(Counted(l)') = rdrs[l] - 1
  BY <1>4, CountDown
<1>13. DrainExact'
  <2> SUFFICES ASSUME NEW m \in Lock PROVE rdrs'[m] = Cardinality(Counted(m)')
    BY DEF DrainExact
  <2>1. CASE m = l
    BY <2>1, <1>7, <1>12
  <2>2. CASE m # l
    BY <2>2, <1>7, <1>11 DEF DrainExact
  <2> QED BY <2>1, <2>2
<1> QED BY <1>1, <1>6, <1>8, <1>10, <1>13, HeldSame

\* The re-check either makes the acquirer a shared holder, where it was already
\* counted, or sends it to give its count back.
LEMMA RecheckStep ==
    ASSUME KLockAssumption, IInv, NEW c \in Ctx, Recheck(c)
    PROVE  IInv'
<1> USE DEF IInv
<1>1. /\ pc[c] = "recheck" /\ v' = v /\ rdrs' = rdrs /\ where' = where
      /\ UNCHANGED <<violations, mismatches>>
  BY DEF Recheck
<1>2. CASE v[want[c]] /\ pc' = [pc EXCEPT ![c] = "backoff"]
           /\ UNCHANGED <<want, held, cell, sp>>
  <2>1. TypeOK'
    BY <1>1, <1>2 DEF TypeOK
  <2>2. /\ held' = held /\ want' = want /\ pc'[c] = "backoff"
        /\ \A d \in Ctx : d # c => pc'[d] = pc[d]
    BY <1>2 DEF TypeOK
  <2>3. Climbing'
    BY <1>1, <2>2 DEF Climbing, Upward
  <2>4. \A d \in Ctx, m \in Lock : Gate(d, m)' <=> Gate(d, m)
    BY <1>1, <2>2, HeldSame DEF Gate
  <2>5. GateHeld' /\ GateOwned'
    BY <1>1, <2>4 DEF GateHeld, GateOwned
  <2>6. \A m \in Lock : Counted(m)' = Counted(m)
    BY <1>1, <2>2, HeldSame DEF Counted
  <2>7. DrainExact'
    BY <1>1, <2>6 DEF DrainExact
  <2> QED BY <2>1, <2>2, <2>3, <2>5, <2>7, HeldSame
<1>3. CASE ~v[want[c]] /\ Grant(c, TRUE)
  <2>0. PICK l \in Lock : l = want[c]
    BY <1>1, WantNotHeld
  <2>9. /\ Ordered'
        /\ \A x \in BOOLEAN : ~HoldsAs(c, want[c], x)
        /\ \A d \in Ctx, m \in Lock, s \in BOOLEAN :
              HoldsAs(d, m, s)' <=>
                  HoldsAs(d, m, s) \/ (d = c /\ m = want[c] /\ s = TRUE)
        /\ pc'[c] = "run" /\ want'[c] = NoLock
        /\ \A d \in Ctx : d # c => pc'[d] = pc[d] /\ want'[d] = want[d]
    BY <1>1, <1>3, GrantHolds
  <2>1. /\ Ordered'
        /\ \A x \in BOOLEAN : ~HoldsAs(c, l, x)
        /\ \A d \in Ctx, m \in Lock, s \in BOOLEAN :
              HoldsAs(d, m, s)' <=> HoldsAs(d, m, s) \/ (d = c /\ m = l /\ s = TRUE)
        /\ pc'[c] = "run" /\ want'[c] = NoLock
        /\ \A d \in Ctx : d # c => pc'[d] = pc[d] /\ want'[d] = want[d]
    BY <2>0, <2>9
  <2>2. TypeOK'
    BY <1>1, <1>3, GrantTyped
  <2>3. Climbing'
    <3> SUFFICES ASSUME NEW d \in Ctx, pc'[d] # "run" PROVE Upward(d, want[d])'
      BY DEF Climbing
    <3>1. d # c /\ pc[d] # "run" /\ want'[d] = want[d] /\ held'[d] = held[d]
      BY <1>3, <2>1 DEF Grant, TypeOK
    <3> QED BY <3>1 DEF Climbing, Upward
  <2>4. \A d \in Ctx, m \in Lock : Gate(d, m)' <=> Gate(d, m)
    BY <1>1, <2>1 DEF Gate
  <2>5. GateHeld' /\ GateOwned'
    BY <1>1, <2>4 DEF GateHeld, GateOwned
  <2>6. \A m \in Lock : Counted(m)' = Counted(m)
    BY <1>1, <2>0, <2>1 DEF Counted
  <2>7. DrainExact'
    BY <1>1, <2>6 DEF DrainExact
  <2>8. Exclusion'
    <3>1. \A d \in Ctx : ~HoldsAs(d, l, FALSE)
      BY <1>3, <2>0 DEF GateHeld, Gate
    <3> SUFFICES ASSUME NEW a \in Ctx, NEW d \in Ctx, NEW m \in Lock, a # d,
                        HoldsAs(a, m, FALSE)', Holds(d, m)'
                 PROVE  FALSE
      BY DEF Exclusion
    <3>2. HoldsAs(d, m, TRUE)' \/ HoldsAs(d, m, FALSE)'
      BY <2>2, HoldsPrimed
    <3>3. m # l /\ HoldsAs(a, m, FALSE)
      BY <2>1, <3>1
    <3>4. HoldsAs(d, m, TRUE) \/ HoldsAs(d, m, FALSE)
      BY <2>1, <3>2, <3>3
    <3> QED BY <3>3, <3>4, HoldsIsHoldsAs DEF Exclusion
  <2> QED BY <2>1, <2>2, <2>3, <2>5, <2>7, <2>8
<1> QED BY <1>2, <1>3 DEF Recheck

\* A release closes exactly the hold it pops: the gate when it was exclusive,
\* one count when it was shared.
LEMMA ReleaseStep ==
    ASSUME KLockAssumption, IInv, NEW c \in Ctx, Release(c)
    PROVE  IInv'
<1> USE DEF IInv
<1>1. PICK r \in Hold :
        /\ r = Last(held[c])
        /\ HoldsAs(c, r.lock, r.shared)
        /\ held' \in [Ctx -> Seq(Hold)]
        /\ Ordered'
        /\ \A d \in Ctx : d # c => held'[d] = held[d]
        /\ \A l \in Lock, s \in BOOLEAN :
              HoldsAs(c, l, s)' <=> HoldsAs(c, l, s) /\ l # r.lock
  BY ReleaseRemoves
<1>2. /\ pc[c] = "run" /\ UNCHANGED <<pc, want, where, cell, violations>>
      /\ IF r.pushed
         THEN /\ mismatches' =
                    \/ mismatches
                    \/ cell[r.at][r.idx] # Rank[r.lock]
                    \/ (~r.shared /\ sp[r.at] # r.idx + 1)
              /\ sp' = [sp EXCEPT ![r.at] = IF @ > r.idx THEN r.idx ELSE @]
         ELSE UNCHANGED <<sp, mismatches>>
      /\ IF r.shared
         THEN rdrs' = [rdrs EXCEPT ![r.lock] = @ - 1] /\ UNCHANGED v
         ELSE v' = [v EXCEPT ![r.lock] = FALSE] /\ UNCHANGED rdrs
  BY <1>1 DEF Release, StackOf
<1>3. /\ r.lock \in Lock /\ r.shared \in BOOLEAN /\ r.pushed \in BOOLEAN
      /\ r.at \in Store /\ r.idx \in 0 .. Depth
  BY DEF Hold
<1>4. PICK l \in Lock : l = r.lock
  BY <1>3
<1>5. \A d \in Ctx, m \in Lock, s \in BOOLEAN :
        HoldsAs(d, m, s)' <=> HoldsAs(d, m, s) /\ ~(d = c /\ m = l)
  <2> SUFFICES ASSUME NEW d \in Ctx, NEW m \in Lock, NEW s \in BOOLEAN
               PROVE  HoldsAs(d, m, s)' <=> HoldsAs(d, m, s) /\ ~(d = c /\ m = l)
    OBVIOUS
  <2>1. CASE d = c
    BY <2>1, <1>1, <1>4
  <2>2. CASE d # c
    <3>1. held'[d] = held[d]
      BY <2>2, <1>1
    <3> QED BY <2>2, <3>1 DEF HoldsAs
  <2> QED BY <2>1, <2>2
<1>6. ~r.shared => Gate(c, l)
  BY <1>1, <1>3, <1>4 DEF Gate
<1>7. r.shared => c \in Counted(l) /\ rdrs[l] > 0
  <2>1. r.shared => c \in Counted(l)
    BY <1>1, <1>3, <1>4 DEF Counted
  <2> QED BY <2>1, CountZero
<1>8. TypeOK'
  <2>1. sp' \in [Store -> 0 .. Depth]
    <3>1. CASE r.pushed
      <4>1. sp' = [sp EXCEPT ![r.at] = IF @ > r.idx THEN r.idx ELSE @]
        BY <3>1, <1>2
      <4>2. sp \in [Store -> 0 .. Depth]
        BY DEF TypeOK
      <4> QED BY <4>1, <4>2, <1>3
    <3>2. CASE ~r.pushed
      BY <3>2, <1>2 DEF TypeOK
    <3> QED BY <3>1, <3>2
  <2>2. mismatches' \in BOOLEAN
    <3>1. mismatches \in BOOLEAN
      BY DEF TypeOK
    <3>2. \/ mismatches' = mismatches
          \/ mismatches' = (\/ mismatches
                            \/ cell[r.at][r.idx] # Rank[r.lock]
                            \/ (~r.shared /\ sp[r.at] # r.idx + 1))
      BY <1>2
    <3> QED BY <3>1, <3>2, Zenon
  <2>3. v' \in [Lock -> BOOLEAN] /\ rdrs' \in [Lock -> Nat]
    <3>1. v \in [Lock -> BOOLEAN] /\ rdrs \in [Lock -> Nat]
      BY DEF TypeOK
    <3>2. CASE r.shared
      <4>1. rdrs' = [rdrs EXCEPT ![l] = @ - 1] /\ v' = v
        BY <3>2, <1>2, <1>4
      <4> QED BY <3>1, <3>2, <4>1, <1>7
    <3>3. CASE ~r.shared
      <4>1. v' = [v EXCEPT ![l] = FALSE] /\ rdrs' = rdrs
        BY <3>3, <1>2, <1>4
      <4> QED BY <3>1, <4>1
    <3> QED BY <3>2, <3>3
  <2> QED BY <1>1, <1>2, <2>1, <2>2, <2>3 DEF TypeOK
<1>9. Climbing'
  <2> SUFFICES ASSUME NEW d \in Ctx, pc'[d] # "run" PROVE Upward(d, want[d])'
    BY DEF Climbing
  <2>1. d # c /\ pc[d] # "run" /\ want'[d] = want[d]
    BY <1>2
  <2>2. held'[d] = held[d]
    BY <1>1, <2>1
  <2> QED BY <2>1, <2>2 DEF Climbing, Upward
<1>10. \A d \in Ctx, m \in Lock :
         Gate(d, m)' => Gate(d, m) /\ ~(d = c /\ m = l)
  <2> SUFFICES ASSUME NEW d \in Ctx, NEW m \in Lock, Gate(d, m)'
               PROVE  Gate(d, m) /\ ~(d = c /\ m = l)
    OBVIOUS
  <2>1. CASE HoldsAs(d, m, FALSE)'
    BY <2>1, <1>5 DEF Gate
  <2>2. CASE pc'[d] = "drain" /\ want'[d] = m
    BY <2>2, <1>2 DEF Gate
  <2> QED BY <2>1, <2>2 DEF Gate
<1>11. GateOwned'
  BY <1>10 DEF GateOwned
<1>12. GateHeld'
  <2> SUFFICES ASSUME NEW d \in Ctx, NEW m \in Lock, Gate(d, m)' PROVE v'[m]
    BY DEF GateHeld
  <2>1. v[m] /\ Gate(d, m) /\ ~(d = c /\ m = l)
    BY <1>10 DEF GateHeld
  <2>2. CASE r.shared
    BY <2>1, <2>2, <1>2
  <2>3. CASE ~r.shared
    <3>1. m # l
      BY <2>1, <2>3, <1>6 DEF GateOwned
    <3> QED BY <2>1, <2>3, <3>1, <1>2, <1>4 DEF TypeOK
  <2> QED BY <2>2, <2>3
<1>13. Exclusion'
  <2> SUFFICES ASSUME NEW a \in Ctx, NEW d \in Ctx, NEW m \in Lock, a # d,
                      HoldsAs(a, m, FALSE)', Holds(d, m)'
               PROVE  FALSE
    BY DEF Exclusion
  <2>1. HoldsAs(d, m, TRUE)' \/ HoldsAs(d, m, FALSE)'
    BY <1>8, HoldsPrimed
  <2>2. HoldsAs(a, m, FALSE) /\ (HoldsAs(d, m, TRUE) \/ HoldsAs(d, m, FALSE))
    BY <1>5, <2>1
  <2> QED BY <2>2, HoldsIsHoldsAs DEF Exclusion
<1>14. DrainExact'
  <2> SUFFICES ASSUME NEW m \in Lock PROVE rdrs'[m] = Cardinality(Counted(m)')
    BY DEF DrainExact
  <2>1. \A d \in Ctx : pc'[d] = pc[d] /\ want'[d] = want[d]
    BY <1>2
  <2>2. CASE m = l /\ r.shared
    <3>1. Counted(m)' = Counted(m) \ {c} /\ c \in Counted(m)
      BY <2>1, <2>2, <1>2, <1>5, <1>7 DEF Counted
    <3>2. Cardinality(Counted(m)') = rdrs[m] - 1
      BY <3>1, CountDown
    <3> QED BY <2>2, <3>2, <1>2, <1>4 DEF TypeOK
  <2>3. CASE m # l \/ ~r.shared
    <3>1. \A d \in Ctx : HoldsAs(d, m, TRUE)' <=> HoldsAs(d, m, TRUE)
      <4>1. CASE m # l
        BY <4>1, <1>5
      <4>2. CASE m = l /\ ~r.shared
        <5>1. ~HoldsAs(c, l, TRUE)
          BY <4>2, <1>1, <1>3, <1>4, OneHold
        <5> QED BY <4>2, <5>1, <1>5
      <4> QED BY <2>3, <4>1, <4>2
    <3>2. Counted(m)' = Counted(m)
      BY <2>1, <3>1 DEF Counted
    <3>3. rdrs'[m] = rdrs[m]
      BY <2>3, <1>2, <1>4 DEF TypeOK
    <3> QED BY <3>2, <3>3 DEF DrainExact
  <2> QED BY <2>2, <2>3
<1> QED BY <1>1, <1>8, <1>9, <1>11, <1>12, <1>13, <1>14

LEMMA SwitchStep ==
    ASSUME KLockAssumption, IInv, NEW c \in Ctx, Switch(c)
    PROVE  IInv'
<1> USE DEF IInv
<1>1. held' = held /\ v' = v /\ rdrs' = rdrs /\ pc' = pc /\ want' = want
  BY DEF Switch
<1>2. where' \in [Ctx -> Store]
  BY DEF Switch, TypeOK, KLockAssumption
<1>3. TypeOK'
  BY <1>2 DEF TypeOK, Switch
<1>4. Climbing'
  BY <1>1 DEF Climbing, Upward
<1>5. GateHeld' /\ GateOwned'
  BY <1>1 DEF GateHeld, GateOwned, Gate, HoldsAs
<1>6. DrainExact'
  BY <1>1 DEF DrainExact, Counted, HoldsAs
<1> QED BY <1>1, <1>3, <1>4, <1>5, <1>6, HeldSame

LEMMA StutterStep == ASSUME IInv, UNCHANGED vars PROVE IInv'
<1> USE DEF IInv, vars
<1>1. TypeOK'
  BY DEF TypeOK
<1>2. Climbing'
  BY DEF Climbing, Upward
<1>3. GateHeld' /\ GateOwned'
  BY DEF GateHeld, GateOwned, Gate, HoldsAs
<1>4. DrainExact'
  BY DEF DrainExact, Counted, HoldsAs
<1> QED BY <1>1, <1>2, <1>3, <1>4, HeldSame

-----------------------------------------------------------------------------
(* The theorems. *)

\* Every step of every acquire and release, at every interleaving, keeps the
\* strengthened invariant.
THEOREM Inductive == Spec => []IInv
<1>1. Init => IInv
  BY InitIInv, KLockAssumption
<1>2. ASSUME IInv, [Next]_vars PROVE IInv'
  <2>1. CASE UNCHANGED vars
    BY <1>2, <2>1, StutterStep
  <2>2. ASSUME NEW c \in Ctx, Step(c) PROVE IInv'
    <3>1. ASSUME NEW l \in Lock, AcquireExclusive(c, l) \/ AcquireShared(c, l)
          PROVE  IInv'
      BY <1>2, <3>1, AcquireStep, KLockAssumption DEF AcquireExclusive, AcquireShared
    <3>2. CASE TestAndSet(c)
      BY <1>2, <3>2, TestAndSetStep, KLockAssumption
    <3>3. CASE Drained(c)
      BY <1>2, <3>3, DrainedStep, KLockAssumption
    <3>4. CASE SeesOpen(c)
      BY <1>2, <3>4, SeesOpenStep, KLockAssumption
    <3>5. CASE CountIn(c)
      BY <1>2, <3>5, CountInStep, KLockAssumption
    <3>6. CASE Recheck(c)
      BY <1>2, <3>6, RecheckStep, KLockAssumption
    <3>7. CASE BackOff(c)
      BY <1>2, <3>7, BackOffStep, KLockAssumption
    <3>8. CASE Release(c)
      BY <1>2, <3>8, ReleaseStep, KLockAssumption
    <3>9. CASE Switch(c)
      BY <1>2, <3>9, SwitchStep, KLockAssumption
    <3> QED BY <2>2, <3>1, <3>2, <3>3, <3>4, <3>5, <3>6, <3>7, <3>8, <3>9 DEF Step
  <2> QED BY <1>2, <2>1, <2>2 DEF Next
<1> QED BY <1>1, <1>2, PTL DEF Spec

\* Type correctness of the lock state, the holds and the rank stacks; rdrs never
\* goes below zero, though every release and back-off decrements it blindly.
THEOREM TypeCorrect == Spec => []TypeOK
<1>1. IInv => TypeOK
  BY DEF IInv
<1> QED BY <1>1, Inductive, PTL

\* The interlock between klock_acquire and klock_read_acquire: an exclusive
\* holder excludes every other holder, whatever the number of contexts.
THEOREM MutualExclusion == Spec => []Exclusion
<1>1. IInv => Exclusion
  BY DEF IInv
<1> QED BY <1>1, Inductive, PTL

\* The count klock_acquire drains is exactly the shared holders and the readers
\* that have counted themselves in and not yet looked at the gate again.
THEOREM DrainCounter == Spec => []DrainExact
<1>1. IInv => DrainExact
  BY DEF IInv
<1> QED BY <1>1, Inductive, PTL
-----------------------------------------------------------------------------
(* The rank stacks. *)

\* No context is in an acquire that records on a stack where another's rank is.  Kernel
\* threads, APs and single threads of a process have a stack of their own; threads
\* that share their leader's meet this while their locked sections do not overlap.
StoresApart == \A c, d \in Ctx : c # d /\ pc[d] # "run" => ~On(c, where[d])

\* The i-th hold of c is recorded in the slot k of w.
At(c, i, w, k) == held[c][i].pushed /\ held[c][i].at = w /\ held[c][i].idx = k

\* A recorded hold is found, with its rank, where it was recorded.
Recorded ==
    \A c \in Ctx : \A i \in 1 .. Len(held[c]), w \in Store, k \in 0 .. Depth :
        At(c, i, w, k) => k < sp[w] /\ cell[w][k] = Rank[held[c][i].lock]

\* The ranks on one stack are one context's.
Alone ==
    \A c, d \in Ctx, w \in Store :
        \A i \in 1 .. Len(held[c]), j \in 1 .. Len(held[d]), k, m \in 0 .. Depth :
            At(c, i, w, k) /\ At(d, j, w, m) => c = d

\* Later holds of a context are higher on the stack they share with earlier ones.
Stacked ==
    \A c \in Ctx : \A i, j \in 1 .. Len(held[c]), w \in Store, k, m \in 0 .. Depth :
        i < j /\ At(c, i, w, k) /\ At(c, j, w, m) => k < m

\* Every slot below the top of a stack is a hold's.
Owned ==
    \A w \in Store : \A k \in 0 .. sp[w] - 1 :
        \E c \in Ctx : \E i \in 1 .. Len(held[c]) : At(c, i, w, k)

\* What the rank checker needs beside the interlock.
RankInv == NoFalseReport /\ Recorded /\ Alone /\ Stacked /\ Owned

\* A hold granted to a context is recorded where rank_ctx answers, above the rest.
LEMMA GrantRecorded ==
    ASSUME KLockAssumption, StoresApart, TypeOK, RankInv, NEW c \in Ctx, NEW b \in BOOLEAN,
           pc[c] # "run", want[c] \in Lock, Grant(c, b), UNCHANGED <<where, violations, mismatches>>
    PROVE  RankInv'
<1>0. Len(held[c]) \in Nat
  BY LenProperties DEF TypeOK
<1>a. PICK n \in Nat : n = Len(held[c]) + 1
  BY <1>0
<1>b. PICK x : x = where[c]
  OBVIOUS
<1>1. /\ x \in Store /\ sp[x] \in 0 .. Depth /\ Depth \in Nat
      /\ Rank[want[c]] \in Nat
  BY <1>b DEF TypeOK, KLockAssumption
<1>2. /\ held[c] \in Seq(Hold) /\ Len(held[c]) \in Nat
      /\ \A d \in Ctx : Len(held[d]) \in Nat /\ (d # c => held'[d] = held[d])
      /\ held'[c] = Append(held[c], [lock |-> want[c], shared |-> b, pushed |-> Room(x),
                       at |-> x, idx |-> sp[x]])
  BY LenProperties, <1>b DEF TypeOK, Grant
<1>3. [lock |-> want[c], shared |-> b, pushed |-> Room(x), at |-> x, idx |-> sp[x]] \in Hold
  BY <1>1 DEF Hold, Room
<1>4. /\ Len(held'[c]) = n
      /\ held'[c][n] = [lock |-> want[c], shared |-> b, pushed |-> Room(x), at |-> x, idx |-> sp[x]]
      /\ \A i \in 1 .. Len(held[c]) : held'[c][i] = held[c][i]
  BY <1>2, <1>3, <1>a, AppendHold
<1>5. /\ \A w \in Store : w # x => sp'[w] = sp[w] /\ cell'[w] = cell[w]
      /\ Room(x) => sp'[x] = sp[x] + 1 /\ cell'[x] = [cell[x] EXCEPT ![sp[x]] = Rank[want[c]]]
      /\ ~Room(x) => sp'[x] = sp[x] /\ cell'[x] = cell[x]
  BY <1>1, <1>b DEF Grant, TypeOK
<1>6. /\ Room(x) => sp'[x] = sp[x] + 1 /\ cell'[x][sp[x]] = Rank[want[c]]
      /\ \A k \in 0 .. Depth : k < sp[x] => cell'[x][k] = cell[x][k] /\ k < sp'[x]
  <2>1. cell[x] \in [0 .. Depth - 1 -> Nat]
    BY <1>1 DEF TypeOK
  <2>2. CASE Room(x)
    <3>1. sp[x] \in 0 .. Depth - 1
      BY <1>1, <2>2 DEF Room
    <3>2. sp'[x] = sp[x] + 1 /\ cell'[x][sp[x]] = Rank[want[c]]
      BY <1>5, <2>1, <2>2, <3>1
    <3>3. \A k \in 0 .. Depth : k < sp[x] => cell'[x][k] = cell[x][k]
      BY <1>1, <1>5, <2>1, <2>2
    <3> QED BY <1>1, <3>2, <3>3
  <2> QED BY <1>1, <1>5, <2>2
<1>7. \A w \in Store, k \in 0 .. Depth : k < sp[w] => cell'[w][k] = cell[w][k] /\ k < sp'[w]
  BY <1>5, <1>6
\* The new hold is the n-th of c; the others are as they were.
<1>8. \A d \in Ctx : \A i \in 1 .. Len(held'[d]) :
        (d = c /\ i = n) \/ (i \in 1 .. Len(held[d]) /\ held'[d][i] = held[d][i])
  BY <1>2, <1>4, <1>a
<1>9. \A d \in Ctx : \A i \in 1 .. Len(held[d]) :
        i \in 1 .. Len(held'[d]) /\ held'[d][i] = held[d][i]
  <2> SUFFICES ASSUME NEW d \in Ctx, NEW i \in 1 .. Len(held[d])
               PROVE  i \in 1 .. Len(held'[d]) /\ held'[d][i] = held[d][i]
    OBVIOUS
  <2>1. CASE d = c
    BY <2>1, <1>2, <1>4, <1>a
  <2>2. CASE d # c
    BY <2>2, <1>2
  <2> QED BY <2>1, <2>2
<1>10. \A w \in Store, k \in 0 .. Depth :
         At(c, n, w, k)' <=> (w = x /\ k = sp[x] /\ Room(x))
  BY <1>4 DEF At
<1>11. n \in 1 .. Len(held'[c])
  BY <1>2, <1>4, <1>a
<1>12. Recorded'
  <2> SUFFICES ASSUME NEW d \in Ctx, NEW i \in 1 .. Len(held'[d]), NEW w \in Store,
                      NEW k \in 0 .. Depth, At(d, i, w, k)'
               PROVE  k < sp'[w] /\ cell'[w][k] = Rank[held'[d][i].lock]
    BY DEF Recorded
  <2>1. CASE d = c /\ i = n
    <3>1. w = x /\ k = sp[x] /\ Room(x)
      BY <2>1, <1>10
    <3> QED BY <2>1, <3>1, <1>1, <1>4, <1>6
  <2>2. CASE i \in 1 .. Len(held[d]) /\ held'[d][i] = held[d][i]
    <3>1. At(d, i, w, k)
      BY <2>2 DEF At
    <3>2. k < sp[w] /\ cell[w][k] = Rank[held[d][i].lock]
      BY <2>2, <3>1 DEF RankInv, Recorded
    <3> QED BY <2>2, <3>2, <1>7
  <2> QED BY <2>1, <2>2, <1>8
<1>13. Stacked'
  <2> SUFFICES ASSUME NEW d \in Ctx, NEW i \in 1 .. Len(held'[d]), NEW j \in 1 .. Len(held'[d]),
                      NEW w \in Store, NEW k \in 0 .. Depth, NEW m \in 0 .. Depth,
                      i < j, At(d, i, w, k)', At(d, j, w, m)'
               PROVE  k < m
    BY DEF Stacked
  <2>1. i \in 1 .. Len(held[d]) /\ held'[d][i] = held[d][i]
    BY <1>2, <1>4, <1>8, <1>a
  <2>2. At(d, i, w, k)
    BY <2>1 DEF At
  <2>3. CASE d = c /\ j = n
    <3>1. w = x /\ m = sp[x]
      BY <2>3, <1>10
    <3>2. k < sp[w]
      BY <2>1, <2>2 DEF RankInv, Recorded
    <3> QED BY <3>1, <3>2
  <2>4. CASE j \in 1 .. Len(held[d]) /\ held'[d][j] = held[d][j]
    <3>1. At(d, j, w, m)
      BY <2>4 DEF At
    <3> QED BY <2>1, <2>2, <2>4, <3>1 DEF RankInv, Stacked
  <2> QED BY <2>3, <2>4, <1>8
<1>14. Owned'
  <2> SUFFICES ASSUME NEW w \in Store, NEW k \in 0 .. sp'[w] - 1
               PROVE  \E d \in Ctx : \E i \in 1 .. Len(held'[d]) : At(d, i, w, k)'
    BY DEF Owned
  <2>1. CASE k \in 0 .. sp[w] - 1
    <3>1. PICK d \in Ctx : \E i \in 1 .. Len(held[d]) : At(d, i, w, k)
      BY <2>1 DEF RankInv, Owned
    <3>2. PICK i \in 1 .. Len(held[d]) : At(d, i, w, k)
      BY <3>1
    <3>3. i \in 1 .. Len(held'[d]) /\ At(d, i, w, k)'
      BY <3>2, <1>9 DEF At
    <3> QED BY <3>3
  <2>2. CASE k \notin 0 .. sp[w] - 1
    <3>1. sp[w] \in 0 .. Depth
      BY DEF TypeOK
    <3>2. w = x /\ Room(x) /\ k = sp[x]
      BY <2>2, <3>1, <1>1, <1>5
    <3>3. k \in 0 .. Depth
      BY <3>2, <1>1
    <3>4. At(c, n, w, k)'
      BY <3>2, <3>3, <1>10
    <3> QED BY <3>4, <1>11
  <2> QED BY <2>1, <2>2
<1>15. NoFalseReport'
  BY DEF RankInv, NoFalseReport
<1>16. Alone'
  <2> SUFFICES ASSUME NEW d \in Ctx, NEW e \in Ctx, NEW w \in Store,
                      NEW i \in 1 .. Len(held'[d]), NEW j \in 1 .. Len(held'[e]),
                      NEW k \in 0 .. Depth, NEW m \in 0 .. Depth,
                      At(d, i, w, k)', At(e, j, w, m)'
               PROVE  d = e
    BY DEF Alone
  <2>1. ASSUME NEW o \in Ctx, NEW h \in 1 .. Len(held[o]), At(o, h, x, k) \/ At(o, h, x, m)
        PROVE  o = c
    <3>1. On(o, where[c])
      BY <2>1, <1>b DEF On, At
    <3> QED BY <3>1 DEF StoresApart
  <2>2. CASE d = c /\ i = n
    <3>1. w = x
      BY <2>2, <1>10
    <3>2. CASE e = c /\ j = n
      BY <2>2, <3>2
    <3>3. CASE j \in 1 .. Len(held[e]) /\ held'[e][j] = held[e][j]
      <4>1. At(e, j, x, m)
        BY <3>1, <3>3 DEF At
      <4> QED BY <2>1, <2>2, <3>3, <4>1
    <3> QED BY <3>2, <3>3, <1>8
  <2>3. CASE i \in 1 .. Len(held[d]) /\ held'[d][i] = held[d][i]
    <3>1. At(d, i, w, k)
      BY <2>3 DEF At
    <3>2. CASE e = c /\ j = n
      <4>1. w = x
        BY <3>2, <1>10
      <4> QED BY <2>1, <2>3, <3>1, <3>2, <4>1
    <3>3. CASE j \in 1 .. Len(held[e]) /\ held'[e][j] = held[e][j]
      <4>1. At(e, j, w, m)
        BY <3>3 DEF At
      <4> QED BY <2>3, <3>1, <3>3, <4>1 DEF RankInv, Alone
    <3> QED BY <3>2, <3>3, <1>8
  <2> QED BY <2>2, <2>3, <1>8
<1> QED BY <1>12, <1>13, <1>14, <1>15, <1>16 DEF RankInv

\* A release pops the slot its acquire recorded: it is the top one, and still
\* holds that rank.
LEMMA ReleaseRecorded ==
    ASSUME KLockAssumption, IInv, RankInv, NEW c \in Ctx, Release(c)
    PROVE  RankInv'
<1>1. TypeOK /\ Ordered
  BY DEF IInv
<1>2. /\ held[c] \in Seq(Hold) /\ held[c] # <<>>
      /\ \A d \in Ctx : Len(held[d]) \in Nat /\ (d # c => held'[d] = held[d])
      /\ held'[c] = Front(held[c])
  BY <1>1, LenProperties DEF TypeOK, Release
<1>3. PICK n \in Nat \ {0} :
        /\ n = Len(held[c])
        /\ Len(held'[c]) = n - 1
        /\ \A i \in 1 .. n - 1 : held'[c][i] = held[c][i]
        /\ Last(held[c]) = held[c][n] /\ held[c][n] \in Hold
  <2>1. /\ Len(held[c]) \in Nat \ {0}
        /\ Len(held'[c]) = Len(held[c]) - 1
        /\ \A i \in 1 .. Len(held[c]) - 1 : held'[c][i] = held[c][i]
        /\ Last(held[c]) = held[c][Len(held[c])] /\ Last(held[c]) \in Hold
    BY <1>2, FrontHold
  <2>2. PICK n \in Nat \ {0} : n = Len(held[c])
    BY <2>1
  <2> QED BY <2>1, <2>2
<1>4. PICK r : r = held[c][n]
  OBVIOUS
<1>5. r \in Hold /\ n \in 1 .. Len(held[c])
  BY <1>3, <1>4
<1>6. PICK x \in Store, s \in 0 .. Depth : x = r.at /\ s = r.idx
  BY <1>5 DEF Hold
<1>7. \A w \in Store, k \in 0 .. Depth :
        At(c, n, w, k) <=> (w = x /\ k = s /\ r.pushed)
  BY <1>4, <1>6 DEF At
<1>8. /\ cell' = cell /\ where' = where /\ violations' = violations
      /\ r.pushed => /\ mismatches' = \/ mismatches
                                      \/ cell[x][s] # Rank[r.lock]
                                      \/ ~r.shared /\ sp[x] # s + 1
                     /\ sp' = [sp EXCEPT ![x] = IF @ > s THEN s ELSE @]
      /\ ~r.pushed => sp' = sp /\ mismatches' = mismatches
  BY <1>3, <1>4, <1>6 DEF Release, StackOf
<1>9. sp[x] \in 0 .. Depth /\ Depth \in Nat
  BY <1>1 DEF TypeOK, KLockAssumption
\* Whatever is on the stack of the hold is a hold of the same context, so the
\* hold taken last is on top.
<1>10. r.pushed => sp[x] = s + 1 /\ cell[x][s] = Rank[r.lock]
  <2> SUFFICES ASSUME r.pushed
               PROVE  sp[x] = s + 1 /\ cell[x][s] = Rank[r.lock]
    OBVIOUS
  <2>1. At(c, n, x, s) /\ s < sp[x] /\ cell[x][s] = Rank[r.lock]
    BY <1>4, <1>5, <1>7 DEF RankInv, Recorded
  <2>2. ASSUME sp[x] # s + 1 PROVE FALSE
    <3>1. PICK k \in 0 .. Depth : k = sp[x] - 1 /\ k \in 0 .. sp[x] - 1 /\ s < k
      BY <2>1, <2>2, <1>9
    <3>2. PICK d \in Ctx : \E i \in 1 .. Len(held[d]) : At(d, i, x, k)
      BY <3>1 DEF RankInv, Owned
    <3>3. PICK i \in 1 .. Len(held[d]) : At(d, i, x, k)
      BY <3>2
    <3>4. d = c
      BY <2>1, <3>1, <3>3, <1>5 DEF RankInv, Alone
    <3>5. CASE i < n
      <4>1. k < s
        BY <3>3, <3>4, <3>5, <1>5, <1>7 DEF RankInv, Stacked
      <4> QED BY <4>1, <3>1
    <3>6. CASE i = n
      BY <3>1, <3>3, <3>4, <3>6, <1>7
    <3> QED BY <3>4, <3>5, <3>6, <1>3
  <2> QED BY <2>1, <2>2
<1>11. NoFalseReport'
  <2>1. ~violations /\ ~mismatches
    BY DEF RankInv, NoFalseReport
  <2>2. CASE r.pushed
    <3>1. ~mismatches'
      BY <2>1, <2>2, <1>8, <1>10
    <3> QED BY <2>1, <3>1, <1>8 DEF NoFalseReport
  <2>3. CASE ~r.pushed
    BY <2>1, <2>3, <1>8 DEF NoFalseReport
  <2> QED BY <2>2, <2>3
<1>12. /\ r.pushed => sp'[x] = s
       /\ \A w \in Store : w # x \/ ~r.pushed => sp'[w] = sp[w]
  <2>1. sp \in [Store -> 0 .. Depth]
    BY <1>1 DEF TypeOK
  <2>2. CASE r.pushed
    <3>1. sp' = [sp EXCEPT ![x] = IF @ > s THEN s ELSE @] /\ sp[x] = s + 1
      BY <2>2, <1>8, <1>10
    <3>2. sp'[x] = s
      BY <2>1, <3>1
    <3>3. \A w \in Store : w # x => sp'[w] = sp[w]
      BY <2>1, <3>1
    <3> QED BY <2>2, <3>2, <3>3
  <2>3. CASE ~r.pushed
    BY <2>3, <1>8
  <2> QED BY <2>2, <2>3
<1>13. \A d \in Ctx : \A i \in 1 .. Len(held'[d]) :
         i \in 1 .. Len(held[d]) /\ held'[d][i] = held[d][i] /\ (d = c => i < n)
  <2> SUFFICES ASSUME NEW d \in Ctx, NEW i \in 1 .. Len(held'[d])
               PROVE  i \in 1 .. Len(held[d]) /\ held'[d][i] = held[d][i] /\ (d = c => i < n)
    OBVIOUS
  <2>1. CASE d = c
    BY <2>1, <1>2, <1>3
  <2>2. CASE d # c
    BY <2>2, <1>2
  <2> QED BY <2>1, <2>2
<1>14. \A d \in Ctx : \A i \in 1 .. Len(held[d]) :
         (d = c /\ i = n) \/ (i \in 1 .. Len(held'[d]) /\ held'[d][i] = held[d][i])
  <2> SUFFICES ASSUME NEW d \in Ctx, NEW i \in 1 .. Len(held[d]), ~(d = c /\ i = n)
               PROVE  i \in 1 .. Len(held'[d]) /\ held'[d][i] = held[d][i]
    OBVIOUS
  <2>1. CASE d = c
    BY <2>1, <1>2, <1>3
  <2>2. CASE d # c
    BY <2>2, <1>2
  <2> QED BY <2>1, <2>2
<1>15. Recorded'
  <2> SUFFICES ASSUME NEW d \in Ctx, NEW i \in 1 .. Len(held'[d]), NEW w \in Store,
                      NEW k \in 0 .. Depth, At(d, i, w, k)'
               PROVE  k < sp'[w] /\ cell'[w][k] = Rank[held'[d][i].lock]
    BY <1>8 DEF Recorded
  <2>1. i \in 1 .. Len(held[d]) /\ held'[d][i] = held[d][i] /\ At(d, i, w, k)
    BY <1>13 DEF At
  <2>2. k < sp[w] /\ cell[w][k] = Rank[held[d][i].lock]
    BY <2>1 DEF RankInv, Recorded
  <2>3. k < sp'[w]
    <3>1. CASE w = x /\ r.pushed
      <4>2. At(c, n, x, s)
        BY <3>1, <1>7
      <4>1. d = c
        BY <2>1, <3>1, <4>2, <1>5 DEF RankInv, Alone
      <4>3. i < n /\ n \in 1 .. Len(held[d])
        BY <4>1, <1>5, <1>13
      <4>4. k < s
        BY <2>1, <3>1, <4>1, <4>2, <4>3 DEF RankInv, Stacked
      <4> QED BY <3>1, <4>4, <1>12
    <3>2. CASE w # x \/ ~r.pushed
      BY <3>2, <2>2, <1>12
    <3> QED BY <3>1, <3>2
  <2> QED BY <2>1, <2>2, <2>3, <1>8
<1>16. Stacked'
  <2> SUFFICES ASSUME NEW d \in Ctx, NEW i \in 1 .. Len(held'[d]), NEW j \in 1 .. Len(held'[d]),
                      NEW w \in Store, NEW k \in 0 .. Depth, NEW m \in 0 .. Depth,
                      i < j, At(d, i, w, k)', At(d, j, w, m)'
               PROVE  k < m
    BY DEF Stacked
  <2>1. i \in 1 .. Len(held[d]) /\ j \in 1 .. Len(held[d]) /\ At(d, i, w, k) /\ At(d, j, w, m)
    BY <1>13 DEF At
  <2> QED BY <2>1 DEF RankInv, Stacked
<1>17. Owned'
  <2> SUFFICES ASSUME NEW w \in Store, NEW k \in 0 .. sp'[w] - 1
               PROVE  \E d \in Ctx : \E i \in 1 .. Len(held'[d]) : At(d, i, w, k)'
    BY DEF Owned
  <2>1. k \in 0 .. sp[w] - 1 /\ k \in 0 .. Depth /\ ~(w = x /\ k = s /\ r.pushed)
    <3>1. sp[w] \in 0 .. Depth
      BY <1>1 DEF TypeOK
    <3>2. CASE w = x /\ r.pushed
      BY <3>1, <3>2, <1>9, <1>10, <1>12
    <3>3. CASE w # x \/ ~r.pushed
      BY <3>1, <3>3, <1>9, <1>12
    <3> QED BY <3>2, <3>3
  <2>2. PICK d \in Ctx : \E i \in 1 .. Len(held[d]) : At(d, i, w, k)
    BY <2>1 DEF RankInv, Owned
  <2>3. PICK i \in 1 .. Len(held[d]) : At(d, i, w, k)
    BY <2>2
  <2>4. ~(d = c /\ i = n)
    BY <2>1, <2>3, <1>7
  <2>5. i \in 1 .. Len(held'[d]) /\ At(d, i, w, k)'
    BY <2>3, <2>4, <1>14 DEF At
  <2> QED BY <2>5
<1>18. Alone'
  <2> SUFFICES ASSUME NEW d \in Ctx, NEW e \in Ctx, NEW w \in Store,
                      NEW i \in 1 .. Len(held'[d]), NEW j \in 1 .. Len(held'[e]),
                      NEW k \in 0 .. Depth, NEW m \in 0 .. Depth,
                      At(d, i, w, k)', At(e, j, w, m)'
               PROVE  d = e
    BY DEF Alone
  <2>1. i \in 1 .. Len(held[d]) /\ j \in 1 .. Len(held[e]) /\ At(d, i, w, k) /\ At(e, j, w, m)
    BY <1>13 DEF At
  <2> QED BY <2>1 DEF RankInv, Alone
<1> QED BY <1>11, <1>15, <1>16, <1>17, <1>18 DEF RankInv

\* Every other step leaves the stacks and the holds alone.
LEMMA SameStacks ==
    ASSUME RankInv, UNCHANGED <<held, cell, sp, violations, mismatches>>
    PROVE  RankInv'
<1>1. NoFalseReport'
  BY DEF RankInv, NoFalseReport
<1>2. Recorded'
  BY DEF RankInv, Recorded, At
<1>3. Stacked'
  BY DEF RankInv, Stacked, At
<1>4. Owned'
  BY DEF RankInv, Owned, At
<1>5. Alone'
  BY DEF RankInv, Alone, At
<1> QED BY <1>1, <1>2, <1>3, <1>4, <1>5 DEF RankInv

\* The ranks of a context climb, so what it finds on its own stack is below the
\* rank it asks for.
LEMMA AcquireRecorded ==
    ASSUME KLockAssumption, StoresApart', IInv, RankInv, NEW c \in Ctx, NEW l \in Lock,
           NEW how, how # "run", Acquire(c, l, how)
    PROVE  RankInv'
<1>1. held' = held /\ where' = where /\ cell' = cell /\ sp' = sp /\ mismatches' = mismatches
  BY DEF Acquire
<1>2. ~Inverted(c, l)
  <2> SUFFICES ASSUME Inverted(c, l) PROVE FALSE
    OBVIOUS
  <2>1. PICK x \in Store : x = where[c]
    BY DEF IInv, TypeOK
  <2>2. /\ sp[x] > 0 /\ cell[x][sp[x] - 1] >= Rank[l]
        /\ sp[x] \in 0 .. Depth /\ Depth \in Nat
    BY <2>1 DEF Inverted, IInv, TypeOK, KLockAssumption
  <2>3. PICK k \in 0 .. Depth : k = sp[x] - 1 /\ k \in 0 .. sp[x] - 1
    BY <2>2
  <2>4. PICK d \in Ctx : \E i \in 1 .. Len(held[d]) : At(d, i, x, k)
    BY <2>3 DEF RankInv, Owned
  <2>5. PICK i \in 1 .. Len(held[d]) : At(d, i, x, k)
    BY <2>4
  <2>6. cell[x][k] = Rank[held[d][i].lock]
    BY <2>5 DEF RankInv, Recorded
  <2>7. d = c
    <3>1. pc'[c] # "run"
      BY DEF Acquire, IInv, TypeOK
    <3>2. On(d, where[c])'
      BY <2>1, <2>5, <1>1 DEF On, At
    <3> QED BY <3>1, <3>2 DEF StoresApart
  <2>8. Rank[held[c][i].lock] < Rank[l]
    BY <2>5, <2>7 DEF Acquire, Upward
  <2>9. Rank[held[c][i].lock] \in Nat /\ Rank[l] \in Nat
    <3>1. held[c][i] \in Hold
      BY <2>5, <2>7, ElementOfSeq DEF IInv, TypeOK
    <3> QED BY <3>1 DEF Hold, KLockAssumption
  <2> QED BY <2>2, <2>3, <2>6, <2>7, <2>8, <2>9
<1>3. violations' = violations
  BY <1>2 DEF Acquire, RankInv, NoFalseReport, IInv, TypeOK
<1> QED BY <1>1, <1>3, SameStacks

LEMMA StepRecorded ==
    ASSUME KLockAssumption, StoresApart, StoresApart', IInv, RankInv, NEW c \in Ctx, Step(c)
    PROVE  RankInv'
<1>1. ASSUME NEW l \in Lock, AcquireExclusive(c, l) \/ AcquireShared(c, l) PROVE RankInv'
  BY <1>1, AcquireRecorded DEF AcquireExclusive, AcquireShared
<1>2. pc[c] # "run" => want[c] \in Lock
  BY DEF IInv, TypeOK
<1>3. TypeOK
  BY DEF IInv
<1>4. CASE Drained(c)
  BY <1>2, <1>3, <1>4, GrantRecorded DEF Drained
<1>5. CASE Recheck(c) /\ Grant(c, TRUE)
  BY <1>2, <1>3, <1>5, GrantRecorded DEF Recheck
<1>6. CASE Recheck(c) /\ UNCHANGED <<held, cell, sp>>
  BY <1>6, SameStacks DEF Recheck
<1>7. CASE Release(c)
  BY <1>7, ReleaseRecorded
<1>8. CASE TestAndSet(c) \/ SeesOpen(c) \/ CountIn(c) \/ BackOff(c) \/ Switch(c)
  BY <1>8, SameStacks DEF TestAndSet, SeesOpen, CountIn, BackOff, Switch
<1>9. Recheck(c) => Grant(c, TRUE) \/ UNCHANGED <<held, cell, sp>>
  BY DEF Recheck
<1> QED BY <1>1, <1>4, <1>5, <1>6, <1>7, <1>8, <1>9 DEF Step

\* On a stack that holds all of a context's ranks and nobody else's, the top is the
\* last rank taken, which is the highest: what is not above it is not above it there.
LEMMA InversionFound ==
    ASSUME KLockAssumption, IInv, RankInv
    PROVE  InversionSeen
<1>1. SUFFICES ASSUME NEW c \in Ctx, NEW l \in Lock, ~Upward(c, l),
                      \A i \in 1 .. Len(held[c]) :
                          held[c][i].pushed /\ held[c][i].at = where[c],
                      \A d \in Ctx \ {c} : ~On(d, where[c])
               PROVE  Inverted(c, l)
  BY DEF InversionSeen
<1>2. PICK x \in Store : x = where[c]
  BY DEF IInv, TypeOK
<1>3. \A i \in 1 .. Len(held[c]) :
        /\ held[c][i].lock \in Lock /\ held[c][i].idx \in 0 .. Depth
        /\ Rank[held[c][i].lock] \in Nat
        /\ At(c, i, x, held[c][i].idx)
  <2> SUFFICES ASSUME NEW i \in 1 .. Len(held[c])
               PROVE  /\ held[c][i].lock \in Lock /\ held[c][i].idx \in 0 .. Depth
                      /\ Rank[held[c][i].lock] \in Nat
                      /\ At(c, i, x, held[c][i].idx)
    OBVIOUS
  <2>1. held[c][i] \in Hold
    BY ElementOfSeq DEF IInv, TypeOK
  <2> QED BY <2>1, <1>1, <1>2 DEF Hold, KLockAssumption, At
<1>4. PICK i \in 1 .. Len(held[c]) : ~(Rank[held[c][i].lock] < Rank[l])
  BY <1>1 DEF Upward
<1>5. PICK s \in 0 .. Depth : s = held[c][i].idx
  BY <1>3
<1>6. /\ s < sp[x] /\ sp[x] \in 0 .. Depth /\ Depth \in Nat
      /\ Rank[l] \in Nat /\ Rank[held[c][i].lock] \in Nat
  BY <1>3, <1>5 DEF RankInv, Recorded, IInv, TypeOK, KLockAssumption
<1>7. PICK k \in 0 .. Depth : k = sp[x] - 1 /\ k \in 0 .. sp[x] - 1
  BY <1>6
<1>8. PICK d \in Ctx : \E j \in 1 .. Len(held[d]) : At(d, j, x, k)
  BY <1>7 DEF RankInv, Owned
<1>9. d = c
  BY <1>1, <1>2, <1>8 DEF On, At
<1>10. PICK j \in 1 .. Len(held[c]) : At(c, j, x, k)
  BY <1>8, <1>9
<1>11. cell[x][k] = Rank[held[c][j].lock] /\ Rank[held[c][j].lock] \in Nat
  BY <1>3, <1>10 DEF RankInv, Recorded
<1>12. i <= j
  <2> SUFFICES ASSUME j < i PROVE FALSE
    BY LenProperties DEF IInv, TypeOK
  <2>1. k < s
    BY <1>3, <1>5, <1>10 DEF RankInv, Stacked
  <2> QED BY <2>1, <1>6, <1>7
<1>13. Rank[held[c][i].lock] <= Rank[held[c][j].lock]
  <2>1. CASE i = j
    BY <2>1, <1>11
  <2>2. CASE i < j
    BY <2>2, <1>6, <1>11 DEF IInv, Ordered
  <2> QED BY <2>1, <2>2, <1>12
<1>14. cell[x][k] >= Rank[l]
  BY <1>4, <1>6, <1>11, <1>13
<1> QED BY <1>2, <1>6, <1>7, <1>14 DEF Inverted

\* Callers that take locks upward and release them in order are never reported, one
\* that did not would be where its stack is complete, and a kernel that holds no lock
\* has empty rank stacks, wherever rank_ctx moves a context between an acquire and its
\* release, and however many holds find no room: as long as no context records its
\* rank on a stack where another's is.
THEOREM ReportsRight == Spec /\ []StoresApart => []ReportsSound
<1>1. Init => RankInv
  <2> SUFFICES ASSUME Init PROVE RankInv
    OBVIOUS
  <2>1. \A c \in Ctx : Len(held[c]) = 0
    BY DEF Init
  <2>2. \A w \in Store : sp[w] = 0
    BY DEF Init
  <2> QED BY <2>1, <2>2 DEF Init, RankInv, NoFalseReport, Recorded, Alone, Stacked, Owned
<1>2. ASSUME IInv, RankInv, StoresApart, StoresApart', [Next]_vars PROVE RankInv'
  <2>1. CASE UNCHANGED vars
    BY <1>2, <2>1, SameStacks DEF vars
  <2>2. ASSUME NEW c \in Ctx, Step(c) PROVE RankInv'
    BY <1>2, <2>2, StepRecorded, KLockAssumption
  <2> QED BY <1>2, <2>1, <2>2 DEF Next
<1>3. ASSUME IInv, RankInv PROVE ReportsSound
  <2>1. NoStrandedRank
    <3> SUFFICES ASSUME \A c \in Ctx : held[c] = <<>>, NEW w \in Store, sp[w] # 0
                 PROVE  FALSE
      BY DEF NoStrandedRank
    <3>1. 0 \in 0 .. sp[w] - 1
      BY <1>3 DEF IInv, TypeOK, KLockAssumption
    <3>2. PICK c \in Ctx : \E i \in 1 .. Len(held[c]) : At(c, i, w, 0)
      BY <1>3, <3>1 DEF RankInv, Owned
    <3>3. Len(held[c]) = 0
      BY <3>2
    <3> QED BY <3>2, <3>3
  <2>2. InversionSeen
    BY <1>3, InversionFound, KLockAssumption
  <2> QED BY <1>3, <2>1, <2>2 DEF ReportsSound, RankInv
<1> QED BY <1>1, <1>2, <1>3, Inductive, PTL DEF Spec

\* What a context records is where rank_ctx answered, one of its own storages.
OwnStores == \A c \in Ctx : /\ where[c] \in StoreOf[c]
                            /\ \A i \in 1 .. Len(held[c]) : held[c][i].at \in StoreOf[c]

LEMMA OwnStoresKept ==
    ASSUME KLockAssumption, TypeOK, OwnStores, [Next]_vars
    PROVE  OwnStores'
<1>1. ASSUME UNCHANGED held, \A c \in Ctx : where'[c] \in StoreOf[c] PROVE OwnStores'
  BY <1>1 DEF OwnStores
<1>2. ASSUME UNCHANGED <<held, where>> PROVE OwnStores'
  BY <1>2 DEF OwnStores
<1>3. ASSUME NEW c \in Ctx, NEW b \in BOOLEAN, want[c] \in Lock, Grant(c, b), UNCHANGED where
      PROVE  OwnStores'
  <2>1. PICK h : h = [lock |-> want[c], shared |-> b, pushed |-> Room(where[c]),
                      at |-> where[c], idx |-> sp[where[c]]]
    OBVIOUS
  <2>2. h \in Hold /\ h.at = where[c]
    BY <1>3, <2>1 DEF Hold, TypeOK, Room, KLockAssumption
  <2>3. /\ held[c] \in Seq(Hold) /\ held'[c] = Append(held[c], h)
        /\ \A d \in Ctx : d # c => held'[d] = held[d]
    BY <1>3, <2>1 DEF Grant, TypeOK
  <2>4. \A i \in 1 .. Len(held'[c]) : held'[c][i].at \in StoreOf[c]
    <3>1. /\ Len(held'[c]) = Len(held[c]) + 1 /\ held'[c][Len(held[c]) + 1] = h
          /\ \A i \in 1 .. Len(held[c]) : held'[c][i] = held[c][i]
      BY <2>2, <2>3, AppendHold
    <3> QED BY <2>2, <2>3, <3>1, LenProperties DEF OwnStores
  <2> QED BY <1>3, <2>3, <2>4 DEF OwnStores
<1>4. ASSUME NEW c \in Ctx, Release(c) PROVE OwnStores'
  <2>1. /\ held[c] \in Seq(Hold) /\ held[c] # <<>> /\ held'[c] = Front(held[c])
        /\ where' = where /\ \A d \in Ctx : d # c => held'[d] = held[d]
    BY <1>4 DEF Release, TypeOK
  <2>2. /\ Len(held'[c]) = Len(held[c]) - 1
        /\ \A i \in 1 .. Len(held[c]) - 1 : held'[c][i] = held[c][i]
    BY <2>1, FrontHold
  <2>3. \A i \in 1 .. Len(held'[c]) : held'[c][i].at \in StoreOf[c]
    BY <2>1, <2>2, LenProperties DEF OwnStores
  <2> QED BY <2>1, <2>3 DEF OwnStores
<1>5. ASSUME NEW c \in Ctx, Step(c) PROVE OwnStores'
  <2>1. pc[c] # "run" => want[c] \in Lock
    BY DEF TypeOK
  <2>2. CASE Drained(c) \/ (Recheck(c) /\ Grant(c, TRUE))
    BY <1>3, <2>1, <2>2 DEF Drained, Recheck
  <2>3. CASE Switch(c)
    BY <1>1, <2>3 DEF Switch, OwnStores, TypeOK
  <2>4. CASE TestAndSet(c) \/ SeesOpen(c) \/ CountIn(c) \/ BackOff(c)
    BY <1>2, <2>4 DEF TestAndSet, SeesOpen, CountIn, BackOff
  <2>5. CASE Recheck(c) /\ UNCHANGED held
    BY <1>2, <2>5 DEF Recheck
  <2>6. ASSUME NEW l \in Lock, AcquireExclusive(c, l) \/ AcquireShared(c, l) PROVE OwnStores'
    BY <1>2, <2>6 DEF AcquireExclusive, AcquireShared, Acquire
  <2>7. Recheck(c) => Grant(c, TRUE) \/ UNCHANGED held
    BY DEF Recheck
  <2> QED BY <1>4, <1>5, <2>2, <2>3, <2>4, <2>5, <2>6, <2>7 DEF Step
<1>6. CASE UNCHANGED vars
  BY <1>2, <1>6 DEF vars
<1> QED BY <1>5, <1>6 DEF Next

\* Where no two contexts answer to one storage (kernel threads, APs, processes of one
\* thread) the hypothesis of ReportsRight holds by itself.
THEOREM ReportsRightApart ==
    ASSUME \A c, d \in Ctx : c # d => StoreOf[c] \cap StoreOf[d] = {}
    PROVE  Spec => []ReportsSound
<1>1. Init => OwnStores
  BY DEF Init, OwnStores
<1>2. TypeOK /\ OwnStores /\ [Next]_vars => OwnStores'
  BY OwnStoresKept, KLockAssumption
<1>3. OwnStores => StoresApart
  BY DEF OwnStores, StoresApart, On
<1> QED BY <1>1, <1>2, <1>3, TypeCorrect, ReportsRight, PTL DEF Spec
=============================================================================
