---------------------------- MODULE SchedProofs ----------------------------
(***************************************************************************)
(* The run queues keep every task.  SInv is the inductive invariant: a     *)
(* live task is in one ring, on one core, in one core's hand or parked,    *)
(* and nowhere twice.  The steps that move a task leave one place for      *)
(* another; the push is the one that can fail, when no ring has room, so   *)
(* the theorems that follow a task through it assume PushLands.  It holds  *)
(* while no more tasks are live than one ring holds (RoomLeft), and, where *)
(* no program sets a mask, when the rings together hold the task table     *)
(* (RoomSomewhere).                                                        *)
(***************************************************************************)
EXTENDS Sched, FiniteSetTheorems, WellFoundedInduction, TLAPS

\* What a core is doing, what a task waits for: the records of TypeOK.
CoreRec == [pc : {"idle", "user", "unwind", "push", "arm", "wake"},
            cur : Task \cup {None}, key : Key \cup {None},
            todo : SUBSET Task, pref : Core, seen : SUBSET Core]
WaitRec == [key : Key \cup {None}, armed : BOOLEAN, pending : BOOLEAN, parked : BOOLEAN]

Elems(s) == {s[i] : i \in 1 .. Len(s)}
NoRepeat(s) == \A i, j \in 1 .. Len(s) : s[i] = s[j] => i = j

InRing(t, c) == t \in Elems(rq[c])
OnCore(t, c) == core[c].cur = t
InHand(t, c) == t \in core[c].todo

\* The task is at one place if it is live, and nowhere otherwise.
AtOne(t) ==
    /\ \A c, d \in Core : /\ InRing(t, c) /\ InRing(t, d) => c = d
                          /\ OnCore(t, c) /\ OnCore(t, d) => c = d
                          /\ InHand(t, c) /\ InHand(t, d) => c = d
                          /\ ~(InRing(t, c) /\ OnCore(t, d))
                          /\ ~(InRing(t, c) /\ InHand(t, d))
                          /\ ~(OnCore(t, c) /\ InHand(t, d))
    /\ wait[t].parked => \A c \in Core : ~InRing(t, c) /\ ~OnCore(t, c) /\ ~InHand(t, c)
    /\ life[t] = "live" <=> \/ wait[t].parked
                            \/ \E c \in Core : InRing(t, c) \/ OnCore(t, c) \/ InHand(t, c)

\* What the position of a core says of the rest of its record.
Shaped(r) ==
    /\ r.pc = "idle" => r.cur = None
    /\ r.pc \in {"user", "unwind", "arm"} => r.cur \in Task
    /\ r.pc = "push" => r.todo # {}
    /\ r.pc # "push" => r.todo = {}
    /\ r.pc = "arm" => r.key = Poll
    /\ r.seen # Core

Rings  == \A c \in Core : NoRepeat(rq[c])
Shapes == \A c \in Core : Shaped(core[c])
Single == \A t \in Task : AtOne(t)

SInv ==
    /\ TypeOK
    /\ Shapes /\ iso # Core
    /\ Rings
    /\ Single
    /\ NoLostWake

\* rq_push_any finds a ring for the task the core pushes next.
PushLands ==
    \A c \in Core : At(c, "push") => Landing(Min(core[c].todo), core[c].pref, core[c].seen) # None

-----------------------------------------------------------------------------
(* The constants, least elements and rings. *)

\* What the assumptions on the constants give the steps below.
LEMMA Constants ==
    /\ NCore \in Nat /\ NCore > 0 /\ 0 \in Core /\ Core \subseteq Nat /\ NTask \in Nat /\ QLen \in Nat
    /\ Task \subseteq Nat /\ Threads \subseteq Task /\ LeaderOf \in [Task -> Task]
    /\ None \notin Core /\ None \notin Task /\ None \notin Key
    /\ Poll \notin Threads /\ Poll \in Key /\ {} # Core
<1>1. /\ NCore \in Nat /\ NCore > 0 /\ NTask \in Nat /\ QLen \in Nat /\ LeaderOf \in [Task -> Task]
      /\ Word \notin Task /\ Poll \notin Task /\ None \notin Core \cup Task \cup {Word, Poll}
  BY SchedAssumption
<1>2. 0 \in Core /\ Core \subseteq Nat /\ Task \subseteq Nat /\ {} # Core
  BY <1>1 DEF Core, Task
<1>3. Threads \subseteq Task
  BY DEF Threads
<1> QED BY <1>1, <1>2, <1>3 DEF Key

\* What a setting may choose: where the tasks are at the start, which masks and pins are set.
LEMMA Chosen ==
    ASSUME setting \in Settings
    PROVE  /\ setting.boot \in Seq(Task) /\ Len(setting.boot) <= QLen
           /\ \A i, j \in 1 .. Len(setting.boot) : setting.boot[i] = setting.boot[j] => i = j
           /\ setting.keys \subseteq Key /\ setting.quotas \subseteq Nat
           /\ \A m \in setting.masks : m \in SUBSET Core
           /\ \A m \in setting.pins : m \in SUBSET Core /\ m # Core
<1>1. /\ setting.boot \in Seq(Task) /\ Len(setting.boot) <= QLen
      /\ \A i, j \in DOMAIN setting.boot : setting.boot[i] = setting.boot[j] => i = j
      /\ setting.keys \subseteq {Word, Poll} /\ setting.quotas \subseteq Nat \ {0}
      /\ setting.masks \subseteq SUBSET Core
      /\ setting.pins \subseteq (SUBSET Core) \ {Core}
  BY SchedAssumption
<1> QED BY <1>1 DEF Key

\* Every set of tasks or cores but the empty one has a least element.
LEMMA LeastOf ==
    ASSUME NEW S, S \subseteq Nat, S # {}
    PROVE  Min(S) \in S
<1> DEFINE Less == {p \in Nat \X Nat : p[1] < p[2]}
<1>0. IsWellFoundedOn(Less, Nat)
  BY NatLessThanWellFounded, Zenon DEF OpToRel
<1>1. PICK x \in S : \A y \in S : ~(<<y, x>> \in Less)
  <2> HIDE DEF Less
  <2> QED BY <1>0, WFMin
<1>2. ASSUME NEW y \in S, ~(x =< y) PROVE FALSE
  <2>1. x \in Nat /\ y \in Nat /\ y < x
    BY <1>2
  <2>2. <<y, x>> \in Less
    BY <2>1
  <2> QED BY <1>1, <2>2
<1> QED BY <1>2 DEF Min

\* A ring without repeats that loses its head.
LEMMA TailOf ==
    ASSUME NEW s \in Seq(Task), s # <<>>, NoRepeat(s)
    PROVE  /\ Head(s) \in Task /\ Head(s) \in Elems(s) /\ Tail(s) \in Seq(Task)
           /\ NoRepeat(Tail(s)) /\ Len(Tail(s)) <= Len(s)
           /\ Elems(Tail(s)) = Elems(s) \ {Head(s)}
<1>1. /\ Len(s) \in Nat /\ Len(s) > 0 /\ s[1] \in Task /\ Head(s) = s[1] /\ Tail(s) \in Seq(Task)
      /\ Len(Tail(s)) = Len(s) - 1
      /\ \A i \in 1 .. Len(s) - 1 : Tail(s)[i] = s[i + 1]
  OBVIOUS
<1>2. NoRepeat(Tail(s))
  BY <1>1 DEF NoRepeat
<1>3. Elems(Tail(s)) \subseteq Elems(s) \ {Head(s)}
  BY <1>1 DEF NoRepeat, Elems
<1>4. ASSUME NEW i \in 1 .. Len(s), s[i] # Head(s) PROVE s[i] \in Elems(Tail(s))
  <2>1. i - 1 \in 1 .. Len(Tail(s)) /\ Tail(s)[i - 1] = s[i]
    BY <1>1, <1>4
  <2> QED BY <2>1 DEF Elems
<1>5. Elems(Tail(s)) = Elems(s) \ {Head(s)}
  BY <1>3, <1>4 DEF Elems
<1>6. Head(s) \in Elems(s)
  BY <1>1 DEF Elems
<1> QED BY <1>1, <1>2, <1>5, <1>6

\* A ring without repeats that gets a task it did not hold.
LEMMA AppendOf ==
    ASSUME NEW s \in Seq(Task), NEW t \in Task, NoRepeat(s), t \notin Elems(s)
    PROVE  /\ Append(s, t) \in Seq(Task) /\ NoRepeat(Append(s, t)) /\ Len(Append(s, t)) = Len(s) + 1
           /\ Elems(Append(s, t)) = Elems(s) \cup {t}
<1>1. /\ Append(s, t) \in Seq(Task) /\ Len(s) \in Nat /\ Len(Append(s, t)) = Len(s) + 1
      /\ \A i \in 1 .. Len(s) : Append(s, t)[i] = s[i]
      /\ Append(s, t)[Len(s) + 1] = t
  OBVIOUS
<1>2. NoRepeat(Append(s, t))
  BY <1>1 DEF NoRepeat, Elems
<1>3. Elems(Append(s, t)) = Elems(s) \cup {t}
  BY <1>1 DEF Elems
<1> QED BY <1>1, <1>2, <1>3

-----------------------------------------------------------------------------
(* Where a task goes. *)

\* The ring that rq_push_any picks, if it picks one, has room.
LEMMA LandsIn ==
    ASSUME NEW t \in Task, NEW c \in Core, NEW i, Landing(t, c, i) # None
    PROVE  Landing(t, c, i) \in Core /\ Room(Landing(t, c, i))
<1>1. CASE Open(t, c, i) /\ Room(c)
  BY <1>1 DEF Landing
<1>2. CASE ~(Open(t, c, i) /\ Room(c))
  <2>1. Siblings(t, c, i) # {} /\ Landing(t, c, i) = Min(Siblings(t, c, i))
    BY <1>2 DEF Landing
  <2>2. Siblings(t, c, i) \subseteq Core /\ Core \subseteq Nat
    BY Constants DEF Siblings
  <2>3. Min(Siblings(t, c, i)) \in Siblings(t, c, i)
    BY <2>1, <2>2, LeastOf
  <2> QED BY <2>1, <2>2, <2>3 DEF Siblings
<1> QED BY <1>1, <1>2

\* The core a task is requeued on is a core.
LEMMA HomeIn ==
    ASSUME NEW t \in Task, NEW c \in Core, aff[t] \in SUBSET Core, mig[t] \in Core \cup {None}
    PROVE  Home(t, c) \in Core
<1> DEFINE d == IF mig[t] # None THEN mig[t] ELSE c
<1>1. d \in Core
  OBVIOUS
<1>2. CASE May(t, d)
  BY <1>1, <1>2 DEF Home
<1>3. CASE ~May(t, d)
  <2>1. aff[t] # {} /\ aff[t] \subseteq Nat
    BY <1>3, Constants DEF May
  <2>2. Min(aff[t]) \in aff[t]
    BY <2>1, LeastOf
  <2> QED BY <1>3, <2>2 DEF Home
<1> QED BY <1>2, <1>3

-----------------------------------------------------------------------------
(* The parts of the type invariant, and what changes a core's record. *)

CoreOK == core \in [Core -> CoreRec]
RingOK == rq \in [Core -> Seq(Task)] /\ \A c \in Core : Len(rq[c]) <= QLen
WaitOK == wait \in [Task -> WaitRec]
LifeOK == life \in [Task -> {"unborn", "live", "dead"}]
PlaceOK == /\ due \subseteq Task /\ held \subseteq Key
           /\ iso \subseteq Core /\ aff \in [Task -> SUBSET Core]
           /\ pin \in [Task -> Core \cup {None}] /\ mig \in [Task -> Core \cup {None}]

\* The parts of the type invariant, by name, now and after a step.
LEMMA TypeParts ==
    TypeOK <=> setting \in Settings /\ CoreOK /\ RingOK /\ WaitOK /\ LifeOK /\ PlaceOK
BY DEF TypeOK, CoreOK, RingOK, WaitOK, LifeOK, PlaceOK, CoreRec, WaitRec

LEMMA TypePartsNext ==
    TypeOK' <=> setting' \in Settings /\ CoreOK' /\ RingOK' /\ WaitOK' /\ LifeOK' /\ PlaceOK'
BY DEF TypeOK, CoreOK, RingOK, WaitOK, LifeOK, PlaceOK, CoreRec, WaitRec

\* What the record of a core holds.
LEMMA CoreTypes ==
    ASSUME CoreOK, Shapes, NEW c \in Core
    PROVE  /\ core[c] \in CoreRec /\ Shaped(core[c])
           /\ core[c].pc \in {"idle", "user", "unwind", "push", "arm", "wake"}
           /\ core[c].cur \in Task \cup {None} /\ core[c].key \in Key \cup {None}
           /\ core[c].todo \in SUBSET Task /\ core[c].pref \in Core /\ core[c].seen \in SUBSET Core
<1>1. core[c] \in CoreRec /\ Shaped(core[c])
  BY DEF CoreOK, Shapes
<1> QED BY <1>1 DEF CoreRec

\* The records a core turns to: resting, back to what it was doing, and pushing.
LEMMA RestingIs ==
    Resting \in CoreRec /\ Shaped(Resting) /\ Resting.cur = None /\ Resting.todo = {} /\ Resting.pc = "idle"
BY Constants DEF Resting, CoreRec, Shaped

LEMMA BackIs ==
    ASSUME CoreOK, Shapes, NEW c \in Core
    PROVE  /\ Back(c) \in CoreRec /\ Shaped(Back(c))
           /\ Back(c).pc = (IF core[c].cur = None THEN "idle" ELSE "user")
           /\ Back(c).cur = core[c].cur /\ Back(c).todo = {} /\ Back(c).key = None
<1>1. core[c].cur \in Task \cup {None}
  BY CoreTypes
<1>2. Back(c) = [pc |-> IF core[c].cur = None THEN "idle" ELSE "user", cur |-> core[c].cur,
                 key |-> None, todo |-> {}, pref |-> 0, seen |-> {}]
  <2> DEFINE p == IF core[c].cur = None THEN "idle" ELSE "user"
             u == core[c].cur
  <2>1. Back(c) = [[pc |-> "idle", cur |-> None, key |-> None, todo |-> {}, pref |-> 0,
                    seen |-> {}] EXCEPT !.pc = p, !.cur = u]
    BY DEF Back, Resting, Cur
  <2> HIDE DEF p, u
  <2>2. Back(c) = [pc |-> p, cur |-> u, key |-> None, todo |-> {}, pref |-> 0, seen |-> {}]
    BY <2>1
  <2> QED BY <2>2 DEF p, u
<1> QED BY <1>1, <1>2, Constants DEF CoreRec, Shaped

LEMMA PushingIs ==
    ASSUME CoreOK, Shapes, NEW c \in Core, NEW ts \in SUBSET Task, ts # {}, NEW d \in Core,
           iso \subseteq Core, iso # Core
    PROVE  /\ Pushing(c, ts, d) \in CoreRec /\ Shaped(Pushing(c, ts, d))
           /\ Pushing(c, ts, d).pc = "push"
           /\ Pushing(c, ts, d).cur = core[c].cur /\ Pushing(c, ts, d).todo = ts
           /\ Pushing(c, ts, d).pref = d
<1>1. core[c].cur \in Task \cup {None}
  BY CoreTypes
<1>2. Back(c) \in CoreRec /\ Back(c).cur = core[c].cur /\ Back(c).key = None
  BY BackIs
<1>3. Pushing(c, ts, d) = [pc |-> "push", cur |-> core[c].cur, key |-> None, todo |-> ts,
                           pref |-> d, seen |-> iso]
  <2> DEFINE b == Back(c)
  <2>1. Pushing(c, ts, d) = [b EXCEPT !.pc = "push", !.todo = ts, !.pref = d, !.seen = iso]
    BY DEF Pushing
  <2>2. b \in CoreRec /\ b.cur = core[c].cur /\ b.key = None
    BY <1>2
  <2> HIDE DEF b
  <2> QED BY <2>1, <2>2 DEF CoreRec
<1> QED BY <1>1, <1>3, Constants DEF CoreRec, Shaped

\* A step of one core leaves the others' records as they are.
LEMMA CoreMoves ==
    ASSUME CoreOK, Shapes, NEW c \in Core, NEW r \in CoreRec, Shaped(r),
           core' = [core EXCEPT ![c] = r]
    PROVE  /\ CoreOK' /\ Shapes' /\ core'[c] = r
           /\ \A d \in Core : core'[d] = IF d = c THEN r ELSE core[d]
<1>1. \A d \in Core : core'[d] = IF d = c THEN r ELSE core[d]
  BY DEF CoreOK
<1>2. CoreOK'
  BY DEF CoreOK
<1>3. Shapes'
  BY <1>1 DEF Shapes
<1> QED BY <1>1, <1>2, <1>3

-----------------------------------------------------------------------------
(* A task that stays where it is, and one that moves. *)

Stays(t) ==
    /\ \A c \in Core : /\ InRing(t, c)' <=> InRing(t, c)
                       /\ OnCore(t, c)' <=> OnCore(t, c)
                       /\ InHand(t, c)' <=> InHand(t, c)
    /\ wait'[t].parked <=> wait[t].parked
    /\ life'[t] = life[t]

\* A task that nothing moved is still at one place.
LEMMA StaysAtOne ==
    ASSUME NEW t \in Task, AtOne(t), Stays(t)
    PROVE  AtOne(t)'
BY DEF AtOne, Stays

\* Nobody moves in a step that leaves rings, residents, hands and parking alone.
LEMMA NobodyMoves ==
    ASSUME Single, rq' = rq, life' = life,
           \A c \in Core : core'[c].cur = core[c].cur /\ core'[c].todo = core[c].todo,
           \A t \in Task : wait'[t].parked <=> wait[t].parked
    PROVE  Single'
<1>1. ASSUME NEW t \in Task PROVE AtOne(t)'
  <2>1. Stays(t)
    BY DEF Stays, InRing, OnCore, InHand
  <2> QED BY <2>1, StaysAtOne DEF Single
<1> QED BY <1>1 DEF Single

\* The wakes to come are kept by a step that keeps the waking cores, arms nobody
\* and makes no condition hold.
LEMMA NoLostWakeKept ==
    ASSUME NoLostWake, setting' = setting, held' \subseteq held,
           \A c \in Core : core[c].pc = "wake" => core'[c].pc = "wake" /\ core'[c].key = core[c].key,
           \A t \in Task : wait'[t].armed /\ ~wait'[t].pending /\ wait'[t].key \in held' \ {Poll}
                           => wait[t].armed /\ ~wait[t].pending /\ wait[t].key = wait'[t].key
    PROVE  NoLostWake'
BY DEF NoLostWake, Coming, At

\* The parts of the invariant, by name, now and after a step.
LEMMA Parts ==
    SInv <=> /\ setting \in Settings /\ CoreOK /\ RingOK /\ WaitOK /\ LifeOK /\ PlaceOK
             /\ Shapes /\ iso # Core /\ Rings /\ Single /\ NoLostWake
BY TypeParts DEF SInv

LEMMA PartsNext ==
    SInv' <=> /\ setting' \in Settings /\ CoreOK' /\ RingOK' /\ WaitOK' /\ LifeOK' /\ PlaceOK'
              /\ Shapes' /\ iso' # Core /\ Rings' /\ Single' /\ NoLostWake'
BY TypePartsNext DEF SInv

-----------------------------------------------------------------------------
(* The executor. *)

\* A core takes the head of its own ring or of another's.
LEMMA TakesHead ==
    ASSUME SInv, NEW c \in Core, NEW v \in Core, At(c, "idle"), rq[v] # <<>>,
           Dispatch(c, Head(rq[v])), rq' = [rq EXCEPT ![v] = Tail(@)],
           UNCHANGED <<setting, life, wait, due, held, iso, aff, mig>>
    PROVE  SInv'
<1>0. /\ setting \in Settings /\ CoreOK /\ RingOK /\ WaitOK /\ LifeOK /\ PlaceOK
      /\ Shapes /\ iso # Core /\ Rings /\ Single /\ NoLostWake
  BY Parts
<1>a. Head(rq[v]) \in Task
  BY <1>0, TailOf DEF RingOK, Rings
<1>b. PICK t \in Task : t = Head(rq[v])
  BY <1>a
<1>1. /\ t \in Task /\ t \in Elems(rq[v]) /\ Tail(rq[v]) \in Seq(Task)
      /\ NoRepeat(Tail(rq[v])) /\ Len(Tail(rq[v])) <= Len(rq[v])
      /\ Elems(Tail(rq[v])) = Elems(rq[v]) \ {t}
  BY <1>0, <1>b, TailOf DEF RingOK, Rings
<1> DEFINE r == [Resting EXCEPT !.pc = "user", !.cur = t]
<1>2. r \in CoreRec /\ Shaped(r) /\ r.cur = t /\ r.todo = {} /\ r.pc = "user"
  BY <1>1, Constants DEF CoreRec, Shaped, Resting
<1>3. core' = [core EXCEPT ![c] = r] /\ pin' = [pin EXCEPT ![t] = None]
  BY <1>b DEF Dispatch
<1> HIDE DEF r
<1>4. /\ CoreOK' /\ Shapes' /\ core'[c] = r
      /\ \A d \in Core : core'[d] = IF d = c THEN r ELSE core[d]
  BY <1>0, <1>2, <1>3, CoreMoves
<1>5. \A d \in Core : rq'[d] = IF d = v THEN Tail(rq[v]) ELSE rq[d]
  BY <1>0 DEF RingOK
<1>6. RingOK'
  <2>1. Len(rq[v]) <= QLen /\ Len(rq[v]) \in Nat /\ Len(Tail(rq[v])) \in Nat
    BY <1>0, <1>1 DEF RingOK
  <2> QED BY <1>0, <1>1, <1>5, <2>1, Constants DEF RingOK
<1>7. Rings'
  BY <1>0, <1>1, <1>5 DEF Rings
<1>8. PlaceOK'
  BY <1>0, <1>3 DEF PlaceOK
<1>9. core[c].pc = "idle" /\ core[c].cur = None /\ core[c].todo = {}
  BY <1>0, CoreTypes DEF At, Shaped
<1>10. Single'
  <2>1. ASSUME NEW u \in Task, u # t PROVE AtOne(u)'
    <3>1. \A d \in Core : InRing(u, d)' <=> InRing(u, d)
      BY <1>1, <1>5, <2>1 DEF InRing
    <3>2. \A d \in Core : (OnCore(u, d)' <=> OnCore(u, d)) /\ (InHand(u, d)' <=> InHand(u, d))
      BY <1>2, <1>4, <1>9, <2>1, Constants DEF OnCore, InHand
    <3> QED BY <1>0, <3>1, <3>2, StaysAtOne DEF Stays, Single
  <2>2. AtOne(t)'
    <3>1. AtOne(t) /\ InRing(t, v)
      BY <1>0, <1>1 DEF Single, InRing
    <3>2. \A d \in Core : ~InRing(t, d)'
      BY <1>1, <1>5, <3>1 DEF InRing, AtOne
    <3>3. \A d \in Core : (OnCore(t, d)' <=> d = c) /\ ~InHand(t, d)'
      BY <1>1, <1>2, <1>4, <3>1 DEF OnCore, InHand, AtOne
    <3>4. wait'[t].parked = wait[t].parked /\ ~wait[t].parked /\ life'[t] = "live"
      BY <3>1 DEF AtOne
    <3> QED BY <3>2, <3>3, <3>4 DEF AtOne
  <2> QED BY <2>1, <2>2 DEF Single
<1>11. NoLostWake'
  BY <1>0, <1>4, <1>9, NoLostWakeKept
<1> QED BY <1>0, <1>4, <1>6, <1>7, <1>8, <1>10, <1>11, PartsNext DEF WaitOK, LifeOK

\* The dispatcher takes the head of its own ring.
LEMMA PopKeeps ==
    ASSUME SInv, NEW c \in Core, Pop(c)
    PROVE  SInv'
BY TakesHead DEF Pop

\* An idle core takes the head of another's ring.
LEMMA StealKeeps ==
    ASSUME SInv, NEW c \in Core, NEW v \in Core, Steal(c, v)
    PROVE  SInv'
BY TakesHead DEF Steal

\* Parked tasks come into the hands of a core that had none.
LEMMA UnparksSingle ==
    ASSUME CoreOK, Single, NEW c \in Core, NEW S \in SUBSET Task, NEW r \in CoreRec,
           core' = [core EXCEPT ![c] = r], rq' = rq, life' = life,
           core[c].todo = {}, r.cur = core[c].cur, r.todo = S,
           \A t \in S : wait[t].parked,
           \A t \in Task : wait'[t].parked <=> wait[t].parked /\ t \notin S
    PROVE  Single'
<1>1. \A d \in Core : core'[d] = IF d = c THEN r ELSE core[d]
  BY DEF CoreOK
<1>2. ASSUME NEW u \in Task, u \notin S PROVE AtOne(u)'
  <2>1. \A d \in Core : InRing(u, d)' <=> InRing(u, d)
    BY DEF InRing
  <2>2. \A d \in Core : (OnCore(u, d)' <=> OnCore(u, d)) /\ (InHand(u, d)' <=> InHand(u, d))
    BY <1>1, <1>2 DEF OnCore, InHand
  <2> QED BY <1>2, <2>1, <2>2, StaysAtOne DEF Stays, Single
<1>3. ASSUME NEW u \in S PROVE AtOne(u)'
  <2>1. u \in Task /\ AtOne(u) /\ wait[u].parked /\ ~wait'[u].parked
    BY <1>3 DEF Single
  <2>2. \A d \in Core : ~InRing(u, d)' /\ ~OnCore(u, d)'
    BY <1>1, <2>1 DEF InRing, OnCore, AtOne
  <2>3. \A d \in Core : InHand(u, d)' <=> d = c
    BY <1>1, <1>3, <2>1 DEF InHand, AtOne
  <2>4. life'[u] = "live"
    BY <2>1 DEF AtOne
  <2> QED BY <2>1, <2>2, <2>3, <2>4 DEF AtOne
<1> QED BY <1>2, <1>3 DEF Single

\* What the waits are after a timer scan took some tasks out of them.
LEMMA UnparkedIs ==
    ASSUME WaitOK, NEW S \in SUBSET Task, wait' = Unparked(S)
    PROVE  /\ WaitOK'
           /\ \A t \in Task : wait'[t] \in WaitRec /\ wait[t] \in WaitRec
           /\ \A t \in Task : wait'[t].parked <=> wait[t].parked /\ t \notin S
           /\ \A t \in Task : wait'[t].armed <=> wait[t].armed /\ t \notin S
           /\ \A t \in Task : wait'[t].key = wait[t].key /\ wait'[t].pending = wait[t].pending
<1>1. \A t \in Task : wait[t] \in WaitRec
  BY DEF WaitOK
<1>2. \A t \in Task : wait'[t] = IF t \in S THEN [wait[t] EXCEPT !.parked = FALSE, !.armed = FALSE]
                                 ELSE wait[t]
  BY DEF Unparked
<1>3. ASSUME NEW t \in Task
      PROVE  /\ wait'[t] \in WaitRec
             /\ wait'[t].parked <=> wait[t].parked /\ t \notin S
             /\ wait'[t].armed <=> wait[t].armed /\ t \notin S
             /\ wait'[t].key = wait[t].key /\ wait'[t].pending = wait[t].pending
  <2>1. CASE t \in S
    <3>1. wait'[t] = [wait[t] EXCEPT !.parked = FALSE, !.armed = FALSE] /\ wait[t] \in WaitRec
      BY <1>1, <1>2, <2>1
    <3> QED BY <2>1, <3>1 DEF WaitRec
  <2>2. CASE t \notin S
    BY <1>1, <1>2, <2>2
  <2> QED BY <2>1, <2>2
<1>4. WaitOK'
  BY <1>3 DEF WaitOK, Unparked
<1> QED BY <1>1, <1>3, <1>4

\* The timer scan has the overdue tasks in its hand.
LEMMA ScanKeeps ==
    ASSUME SInv, NEW c \in Core, Scan(c)
    PROVE  SInv'
<1> DEFINE late == {t \in Task : Overdue(t)}
           r == Pushing(c, late, c)
<1>0. /\ setting \in Settings /\ CoreOK /\ RingOK /\ WaitOK /\ LifeOK /\ PlaceOK
      /\ Shapes /\ iso # Core /\ Rings /\ Single /\ NoLostWake
  BY Parts
<1>1. /\ late \in SUBSET Task /\ late # {} /\ wait' = Unparked(late) /\ core' = [core EXCEPT ![c] = r]
      /\ At(c, "idle") /\ UNCHANGED <<setting, rq, life, due, held, place>>
      /\ \A t \in late : wait[t].parked
  BY DEF Scan, Overdue
<1> HIDE DEF late
<1>2. r \in CoreRec /\ Shaped(r) /\ r.pc = "push" /\ r.cur = core[c].cur /\ r.todo = late
  BY <1>0, <1>1, PushingIs DEF PlaceOK
<1> HIDE DEF r
<1>3. /\ CoreOK' /\ Shapes' /\ core'[c] = r
      /\ \A d \in Core : core'[d] = IF d = c THEN r ELSE core[d]
  BY <1>0, <1>1, <1>2, CoreMoves
<1>4. core[c].pc = "idle" /\ core[c].todo = {}
  BY <1>0, <1>1, CoreTypes DEF At, Shaped
<1>5. /\ WaitOK'
      /\ \A t \in Task : wait'[t].parked <=> wait[t].parked /\ t \notin late
      /\ \A t \in Task : wait'[t].armed <=> wait[t].armed /\ t \notin late
      /\ \A t \in Task : wait'[t].key = wait[t].key /\ wait'[t].pending = wait[t].pending
  BY <1>0, <1>1, UnparkedIs
<1>6. Single'
  BY <1>0, <1>1, <1>2, <1>4, <1>5, UnparksSingle
<1>7. NoLostWake'
  BY <1>0, <1>1, <1>3, <1>4, <1>5, NoLostWakeKept
<1> QED BY <1>0, <1>1, <1>3, <1>5, <1>6, <1>7, PartsNext DEF RingOK, LifeOK, PlaceOK, Rings, place

\* A core that runs a task turns to another step with it.
LEMMA Turns ==
    ASSUME CoreOK, Shapes, NEW c \in Core, NEW p \in {"unwind", "arm", "wake"}, NEW k \in Key \cup {None},
           core[c].pc \in {"user", "arm"}, p = "arm" => k = Poll,
           core' = [core EXCEPT ![c].pc = p, ![c].key = k]
    PROVE  /\ CoreOK' /\ Shapes' /\ core'[c].pc = p /\ core'[c].key = k
           /\ \A d \in Core : core'[d].cur = core[d].cur /\ core'[d].todo = core[d].todo
           /\ \A d \in Core : d # c => core'[d] = core[d]
<1>1. core[c] \in CoreRec /\ Shaped(core[c])
  BY CoreTypes
<1>2. PICK r : r = [core[c] EXCEPT !.pc = p, !.key = k]
  OBVIOUS
<1>3. /\ r \in CoreRec /\ r.pc = p /\ r.key = k /\ r.cur = core[c].cur /\ r.todo = core[c].todo
      /\ r.seen = core[c].seen
  BY <1>1, <1>2 DEF CoreRec
<1>4. Shaped(r)
  BY <1>1, <1>3 DEF Shaped
<1>5. core' = [core EXCEPT ![c] = r]
  BY <1>2
<1>6. /\ CoreOK' /\ Shapes' /\ core'[c] = r
      /\ \A d \in Core : core'[d] = IF d = c THEN r ELSE core[d]
  BY <1>3, <1>4, <1>5, CoreMoves
<1> QED BY <1>3, <1>6

\* The time slice of a running task is over.
LEMMA PreemptKeeps ==
    ASSUME SInv, NEW c \in Core, Preempt(c)
    PROVE  SInv'
<1>0. /\ setting \in Settings /\ CoreOK /\ RingOK /\ WaitOK /\ LifeOK /\ PlaceOK
      /\ Shapes /\ iso # Core /\ Rings /\ Single /\ NoLostWake
  BY Parts
<1>1. /\ core[c].pc = "user" /\ core' = [core EXCEPT ![c].pc = "unwind"]
      /\ UNCHANGED <<setting, rq, life, wait, due, held, place>>
  BY DEF Preempt, Running, At
<1>2. core[c] \in CoreRec /\ Shaped(core[c])
  BY <1>0, CoreTypes
<1>3. PICK r : r = [core[c] EXCEPT !.pc = "unwind"]
  OBVIOUS
<1>4. /\ r \in CoreRec /\ r.pc = "unwind" /\ r.cur = core[c].cur /\ r.todo = core[c].todo
      /\ r.seen = core[c].seen
  BY <1>2, <1>3 DEF CoreRec
<1>5. Shaped(r)
  BY <1>1, <1>2, <1>4 DEF Shaped
<1>6. core' = [core EXCEPT ![c] = r]
  BY <1>1, <1>3
<1>7. /\ CoreOK' /\ Shapes'
      /\ \A d \in Core : core'[d] = IF d = c THEN r ELSE core[d]
  BY <1>0, <1>4, <1>5, <1>6, CoreMoves
<1>8. Single'
  BY <1>0, <1>1, <1>4, <1>7, NobodyMoves
<1>9. NoLostWake'
  BY <1>0, <1>1, <1>7, NoLostWakeKept
<1> QED BY <1>0, <1>1, <1>7, <1>8, <1>9, PartsNext DEF WaitOK, RingOK, LifeOK, PlaceOK, Rings, place

\* An armed task whose condition does not hold is parked.
LEMMA ParkKeeps ==
    ASSUME SInv, NEW c \in Core, Park(c)
    PROVE  SInv'
<1>0. /\ setting \in Settings /\ CoreOK /\ RingOK /\ WaitOK /\ LifeOK /\ PlaceOK
      /\ Shapes /\ iso # Core /\ Rings /\ Single /\ NoLostWake
  BY Parts
<1>1. core[c].pc = "unwind" /\ core[c].cur \in Task /\ core[c].todo = {}
  BY <1>0, CoreTypes DEF Park, At, Shaped
<1>2. PICK t \in Task : t = core[c].cur
  BY <1>1
<1>3. /\ wait' = [wait EXCEPT ![t].parked = TRUE] /\ core' = [core EXCEPT ![c] = Resting]
      /\ UNCHANGED <<setting, rq, life, due, held, place>>
  BY <1>2 DEF Park, Cur
<1>4. /\ CoreOK' /\ Shapes'
      /\ \A d \in Core : core'[d] = IF d = c THEN Resting ELSE core[d]
  BY <1>0, <1>3, RestingIs, CoreMoves
<1>5. /\ WaitOK'
      /\ \A u \in Task : u # t => wait'[u] = wait[u]
      /\ wait'[t].parked
      /\ \A u \in Task : wait'[u].armed = wait[u].armed /\ wait'[u].key = wait[u].key
                         /\ wait'[u].pending = wait[u].pending
  <2>1. wait[t] \in WaitRec
    BY <1>0 DEF WaitOK
  <2>2. PICK w : w = [wait[t] EXCEPT !.parked = TRUE]
    OBVIOUS
  <2>3. /\ w \in WaitRec /\ w.parked /\ w.armed = wait[t].armed /\ w.key = wait[t].key
        /\ w.pending = wait[t].pending
    BY <2>1, <2>2 DEF WaitRec
  <2>4. wait' = [wait EXCEPT ![t] = w]
    BY <1>3, <2>2
  <2> QED BY <1>0, <2>3, <2>4 DEF WaitOK
<1>6. Single'
  <2>1. ASSUME NEW u \in Task, u # t PROVE AtOne(u)'
    <3>1. \A d \in Core : InRing(u, d)' <=> InRing(u, d)
      BY <1>3 DEF InRing
    <3>2. \A d \in Core : (OnCore(u, d)' <=> OnCore(u, d)) /\ (InHand(u, d)' <=> InHand(u, d))
      BY <1>1, <1>2, <1>4, <2>1, RestingIs, Constants DEF OnCore, InHand
    <3> QED BY <1>0, <1>3, <1>5, <2>1, <3>1, <3>2, StaysAtOne DEF Stays, Single
  <2>2. AtOne(t)'
    <3>1. AtOne(t) /\ OnCore(t, c)
      BY <1>0, <1>2 DEF Single, OnCore
    <3>2. \A d \in Core : ~InRing(t, d)'
      BY <1>3, <3>1 DEF InRing, AtOne
    <3>3. \A d \in Core : ~OnCore(t, d)' /\ ~InHand(t, d)'
      BY <1>4, <3>1, RestingIs, Constants DEF OnCore, InHand, AtOne
    <3>4. life'[t] = "live"
      BY <1>3, <3>1 DEF AtOne
    <3> QED BY <1>5, <3>2, <3>3, <3>4 DEF AtOne
  <2> QED BY <2>1, <2>2 DEF Single
<1>7. NoLostWake'
  BY <1>0, <1>1, <1>3, <1>4, <1>5, NoLostWakeKept
<1> QED BY <1>0, <1>3, <1>4, <1>5, <1>6, <1>7, PartsNext DEF RingOK, LifeOK, PlaceOK, Rings, place

\* A core lets its task go, or creates one, and has it in its hand.
LEMMA InHandSingle ==
    ASSUME CoreOK, Single, NEW c \in Core, NEW t \in Task, NEW r \in CoreRec,
           core' = [core EXCEPT ![c] = r], rq' = rq,
           core[c].todo = {}, r.todo = {t}, r.cur = IF core[c].cur = t THEN None ELSE core[c].cur,
           core[c].cur = t \/ life[t] # "live",
           \A u \in Task : wait'[u].parked <=> wait[u].parked /\ u # t,
           life'[t] = "live", \A u \in Task : u # t => life'[u] = life[u]
    PROVE  Single'
<1>1. \A d \in Core : core'[d] = IF d = c THEN r ELSE core[d]
  BY DEF CoreOK
<1>2. ASSUME NEW u \in Task, u # t PROVE AtOne(u)'
  <2>1. \A d \in Core : InRing(u, d)' <=> InRing(u, d)
    BY DEF InRing
  <2>2. \A d \in Core : (OnCore(u, d)' <=> OnCore(u, d)) /\ (InHand(u, d)' <=> InHand(u, d))
    BY <1>1, <1>2, Constants DEF OnCore, InHand
  <2> QED BY <1>2, <2>1, <2>2, StaysAtOne DEF Stays, Single
<1>3. AtOne(t)'
  <2>1. AtOne(t) /\ ~wait'[t].parked
    BY DEF Single
  <2>2. \A d \in Core : ~InRing(t, d)
    BY <2>1 DEF AtOne, OnCore
  <2>3. \A d \in Core : d # c => ~OnCore(t, d)
    BY <2>1 DEF AtOne, OnCore
  <2>4. \A d \in Core : ~InHand(t, d)
    BY <2>1 DEF AtOne, OnCore
  <2>5. \A d \in Core : ~InRing(t, d)'
    BY <2>2 DEF InRing
  <2>6. \A d \in Core : ~OnCore(t, d)'
    BY <1>1, <2>3, Constants DEF OnCore
  <2>7. \A d \in Core : InHand(t, d)' <=> d = c
    BY <1>1, <2>4 DEF InHand
  <2> QED BY <2>1, <2>5, <2>6, <2>7 DEF AtOne
<1> QED BY <1>2, <1>3 DEF Single

\* A task that was not parked goes back to a ring by way of its core's hand.
LEMMA RequeueKeeps ==
    ASSUME SInv, NEW c \in Core, Requeue(c)
    PROVE  SInv'
<1>0. /\ setting \in Settings /\ CoreOK /\ RingOK /\ WaitOK /\ LifeOK /\ PlaceOK
      /\ Shapes /\ iso # Core /\ Rings /\ Single /\ NoLostWake
  BY Parts
<1>1. core[c].pc = "unwind" /\ core[c].cur \in Task /\ core[c].todo = {}
  BY <1>0, CoreTypes DEF Requeue, At, Shaped
<1>2. PICK t \in Task : t = core[c].cur
  BY <1>1
<1>3. PICK h \in Core : h = Home(t, c)
  BY <1>0, HomeIn DEF PlaceOK
<1>4. PICK b : b = Pushing(c, {t}, h)
  OBVIOUS
<1>5. PICK r : r = [b EXCEPT !.cur = None]
  OBVIOUS
<1>6. /\ wait' = [wait EXCEPT ![t] = Awake] /\ core' = [core EXCEPT ![c] = r]
      /\ due' = due \ {t} /\ mig' = [mig EXCEPT ![t] = None]
      /\ pin' = IF h = c THEN pin ELSE [pin EXCEPT ![t] = h]
      /\ UNCHANGED <<setting, rq, life, held, iso, aff>>
  BY <1>2, <1>3, <1>4, <1>5 DEF Requeue, Cur
<1>7. b \in CoreRec /\ Shaped(b) /\ b.pc = "push" /\ b.todo = {t}
  BY <1>0, <1>4, PushingIs DEF PlaceOK
<1>8. r \in CoreRec /\ r.pc = "push" /\ r.todo = {t} /\ r.cur = None /\ r.seen = b.seen
  BY <1>5, <1>7 DEF CoreRec
<1>9. Shaped(r)
  BY <1>7, <1>8 DEF Shaped
<1>10. /\ CoreOK' /\ Shapes'
       /\ \A d \in Core : core'[d] = IF d = c THEN r ELSE core[d]
  BY <1>0, <1>6, <1>8, <1>9, CoreMoves
<1>11. /\ Awake \in WaitRec /\ ~Awake.armed /\ ~Awake.parked
  BY DEF Awake, WaitRec
<1>12. \A u \in Task : wait'[u] = IF u = t THEN Awake ELSE wait[u]
  BY <1>0, <1>6 DEF WaitOK
<1>13. WaitOK'
  BY <1>0, <1>6, <1>11 DEF WaitOK
<1>14. AtOne(t) /\ ~wait[t].parked /\ life[t] = "live"
  BY <1>0, <1>2 DEF Single, AtOne, OnCore
<1>15. Single'
  <2>1. \A u \in Task : wait'[u].parked <=> wait[u].parked /\ u # t
    BY <1>11, <1>12
  <2> QED BY <1>0, <1>1, <1>2, <1>6, <1>8, <1>14, <2>1, InHandSingle
<1>16. NoLostWake'
  BY <1>0, <1>1, <1>6, <1>10, <1>11, <1>12, NoLostWakeKept
<1>17. PlaceOK'
  BY <1>0, <1>6 DEF PlaceOK
<1> QED BY <1>0, <1>6, <1>10, <1>13, <1>15, <1>16, <1>17, PartsNext DEF RingOK, LifeOK, Rings

\* One task leaves the hand for the ring that rq_push_any finds.
LEMMA PushKeeps ==
    ASSUME SInv, PushLands, NEW c \in Core, Push(c)
    PROVE  SInv'
<1>0. /\ setting \in Settings /\ CoreOK /\ RingOK /\ WaitOK /\ LifeOK /\ PlaceOK
      /\ Shapes /\ iso # Core /\ Rings /\ Single /\ NoLostWake
  BY Parts
<1>1. core[c].pc = "push" /\ core[c].todo # {} /\ core[c].todo \in SUBSET Task /\ core[c].pref \in Core
  BY <1>0, CoreTypes DEF Push, At, Shaped
<1>2. Min(core[c].todo) \in core[c].todo
  BY <1>1, LeastOf, Constants
<1>3. PICK t \in Task : t = Min(core[c].todo) /\ t \in core[c].todo
  BY <1>1, <1>2
<1>4. Landing(t, core[c].pref, core[c].seen) # None
  BY <1>1, <1>3 DEF PushLands, At
<1>5. PICK d \in Core : d = Landing(t, core[c].pref, core[c].seen) /\ Room(d)
  BY <1>1, <1>4, LandsIn
<1>6. PICK r : r = IF core[c].todo = {t} THEN Back(c) ELSE Pushing(c, core[c].todo \ {t}, core[c].pref)
  OBVIOUS
<1>7. /\ rq' = [rq EXCEPT ![d] = Append(@, t)] /\ wait' = [wait EXCEPT ![t].key = None]
      /\ due' = due \ {t} /\ core' = [core EXCEPT ![c] = r]
      /\ UNCHANGED <<setting, life, held, place>>
  BY <1>3, <1>4, <1>5, <1>6 DEF Push
<1>8. r \in CoreRec /\ Shaped(r) /\ r.cur = core[c].cur /\ r.todo = core[c].todo \ {t}
  <2>1. CASE core[c].todo = {t}
    BY <1>0, <1>6, <2>1, BackIs
  <2>2. CASE core[c].todo # {t}
    <3>1. core[c].todo \ {t} \in SUBSET Task /\ core[c].todo \ {t} # {}
      BY <1>1, <1>3, <2>2
    <3> QED BY <1>0, <1>1, <1>6, <2>2, <3>1, PushingIs DEF PlaceOK
  <2> QED BY <2>1, <2>2
<1>9. /\ CoreOK' /\ Shapes'
      /\ \A e \in Core : core'[e] = IF e = c THEN r ELSE core[e]
  BY <1>0, <1>7, <1>8, CoreMoves
<1>10. AtOne(t) /\ InHand(t, c)
  BY <1>0, <1>3 DEF Single, InHand
<1>11. /\ Append(rq[d], t) \in Seq(Task) /\ NoRepeat(Append(rq[d], t))
       /\ Len(Append(rq[d], t)) = Len(rq[d]) + 1
       /\ Elems(Append(rq[d], t)) = Elems(rq[d]) \cup {t}
  <2>1. t \notin Elems(rq[d])
    BY <1>10 DEF AtOne, InRing
  <2> QED BY <1>0, <2>1, AppendOf DEF RingOK, Rings
<1>12. \A e \in Core : rq'[e] = IF e = d THEN Append(rq[d], t) ELSE rq[e]
  BY <1>0, <1>7 DEF RingOK
<1>13. RingOK'
  <2>1. Len(rq[d]) \in Nat /\ Len(rq[d]) < QLen
    BY <1>0, <1>5 DEF RingOK, Room
  <2>2. rq' \in [Core -> Seq(Task)]
    BY <1>0, <1>7, <1>11, <1>12 DEF RingOK
  <2>3. Len(Append(rq[d], t)) <= QLen
    BY <1>11, <2>1, Constants
  <2>4. \A e \in Core : Len(rq'[e]) <= QLen
    BY <1>0, <1>12, <2>3 DEF RingOK
  <2> QED BY <2>2, <2>4 DEF RingOK
<1>14. Rings'
  BY <1>0, <1>11, <1>12 DEF Rings
<1>15. /\ WaitOK'
       /\ wait'[t].key = None
       /\ \A u \in Task : u # t => wait'[u] = wait[u]
       /\ \A u \in Task : wait'[u].parked = wait[u].parked
  <2>1. wait[t] \in WaitRec
    BY <1>0 DEF WaitOK
  <2>2. PICK w : w = [wait[t] EXCEPT !.key = None]
    OBVIOUS
  <2>3. w \in WaitRec /\ w.key = None /\ w.parked = wait[t].parked
    BY <2>1, <2>2 DEF WaitRec
  <2>4. wait' = [wait EXCEPT ![t] = w]
    BY <1>7, <2>2
  <2> QED BY <1>0, <2>3, <2>4 DEF WaitOK
<1>16. Single'
  <2>1. ASSUME NEW u \in Task, u # t PROVE AtOne(u)'
    <3>1. \A e \in Core : InRing(u, e)' <=> InRing(u, e)
      BY <1>11, <1>12, <2>1 DEF InRing
    <3>2. \A e \in Core : (OnCore(u, e)' <=> OnCore(u, e)) /\ (InHand(u, e)' <=> InHand(u, e))
      BY <1>8, <1>9, <2>1 DEF OnCore, InHand
    <3> QED BY <1>0, <1>7, <1>15, <2>1, <3>1, <3>2, StaysAtOne DEF Stays, Single
  <2>2. AtOne(t)'
    <3>1. \A e \in Core : InRing(t, e)' <=> e = d
      BY <1>10, <1>11, <1>12 DEF InRing, InHand, AtOne
    <3>2. \A e \in Core : ~OnCore(t, e)' /\ ~InHand(t, e)'
      BY <1>8, <1>9, <1>10 DEF OnCore, InHand, AtOne
    <3>3. ~wait'[t].parked /\ life'[t] = "live"
      BY <1>7, <1>10, <1>15 DEF AtOne
    <3> QED BY <3>1, <3>2, <3>3 DEF AtOne
  <2> QED BY <2>1, <2>2 DEF Single
<1>17. NoLostWake'
  BY <1>0, <1>1, <1>7, <1>9, <1>15, NoLostWakeKept, Constants DEF PlaceOK
<1>18. PlaceOK'
  BY <1>0, <1>7 DEF PlaceOK, place
<1> QED BY <1>0, <1>7, <1>9, <1>13, <1>14, <1>15, <1>16, <1>17, <1>18, PartsNext DEF LifeOK, place

-----------------------------------------------------------------------------
(* The calls of the running task. *)

\* What the waits are after one task armed its own.
LEMMA ArmedIs ==
    ASSUME WaitOK, NEW t \in Task, NEW k \in Key, ~wait[t].parked, wait' = Armed(t, k)
    PROVE  /\ WaitOK'
           /\ wait'[t].key = k
           /\ \A u \in Task : u # t => wait'[u] = wait[u]
           /\ \A u \in Task : wait'[u].parked <=> wait[u].parked
<1>1. PICK w : w = [Awake EXCEPT !.key = k, !.armed = TRUE]
  OBVIOUS
<1>2. w = [key |-> k, armed |-> TRUE, pending |-> FALSE, parked |-> FALSE]
  BY <1>1 DEF Awake
<1>3. w \in WaitRec /\ w.key = k /\ ~w.parked
  BY <1>2 DEF WaitRec
<1>4. wait' = [wait EXCEPT ![t] = w]
  BY <1>1 DEF Armed
<1> QED BY <1>3, <1>4 DEF WaitOK

\* A task starts a wait.
LEMMA WaitKeeps ==
    ASSUME SInv, NEW c \in Core, NEW k \in Key, Wait(c, k)
    PROVE  SInv'
<1>0. /\ setting \in Settings /\ CoreOK /\ RingOK /\ WaitOK /\ LifeOK /\ PlaceOK
      /\ Shapes /\ iso # Core /\ Rings /\ Single /\ NoLostWake
  BY Parts
<1>1. core[c].pc = "user" /\ core[c].cur \in Task
  BY <1>0, CoreTypes DEF Wait, Running, At, Shaped
<1>2. PICK t \in Task : t = core[c].cur
  BY <1>1
<1>3. ~wait[t].parked
  BY <1>0, <1>2 DEF Single, AtOne, OnCore
<1>4. PICK p : p = IF Apart(k) THEN "arm" ELSE "unwind"
  OBVIOUS
<1>5. PICK q : q = IF Apart(k) THEN k ELSE None
  OBVIOUS
<1>6. /\ core' = [core EXCEPT ![c].pc = p, ![c].key = q]
      /\ wait' = IF Apart(k) THEN wait ELSE Armed(t, k)
      /\ due' = due \ {t} /\ k \notin held
      /\ UNCHANGED <<setting, rq, life, held, place>>
  BY <1>2, <1>4, <1>5 DEF Wait, Cur
<1>7. p \in {"unwind", "arm", "wake"} /\ q \in Key \cup {None} /\ (p = "arm" => q = Poll)
  BY <1>4, <1>5 DEF Apart
<1>8. /\ CoreOK' /\ Shapes'
      /\ \A d \in Core : core'[d].cur = core[d].cur /\ core'[d].todo = core[d].todo
      /\ \A d \in Core : d # c => core'[d] = core[d]
  BY <1>0, <1>1, <1>6, <1>7, Turns
<1>9. /\ WaitOK'
      /\ \A u \in Task : u # t => wait'[u] = wait[u]
      /\ wait'[t] = wait[t] \/ wait'[t].key = k
      /\ \A u \in Task : wait'[u].parked <=> wait[u].parked
  <2>1. CASE Apart(k)
    BY <1>0, <1>6, <2>1 DEF WaitOK
  <2>2. CASE ~Apart(k)
    BY <1>0, <1>3, <1>6, <2>2, ArmedIs
  <2> QED BY <2>1, <2>2
<1>10. Single'
  BY <1>0, <1>6, <1>8, <1>9, NobodyMoves
<1>11. NoLostWake'
  BY <1>0, <1>1, <1>6, <1>8, <1>9, NoLostWakeKept
<1> QED BY <1>0, <1>6, <1>8, <1>9, <1>10, <1>11, PartsNext DEF RingOK, LifeOK, PlaceOK, Rings, place

\* A poll looks once more after it is armed.
LEMMA ArmKeeps ==
    ASSUME SInv, NEW c \in Core, Arm(c)
    PROVE  SInv'
<1>0. /\ setting \in Settings /\ CoreOK /\ RingOK /\ WaitOK /\ LifeOK /\ PlaceOK
      /\ Shapes /\ iso # Core /\ Rings /\ Single /\ NoLostWake
  BY Parts
<1>1. core[c].pc = "arm" /\ core[c].cur \in Task /\ core[c].key = Poll
  BY <1>0, CoreTypes DEF Arm, At, Shaped
<1>2. PICK t \in Task : t = core[c].cur
  BY <1>1
<1>3. ~wait[t].parked
  BY <1>0, <1>2 DEF Single, AtOne, OnCore
<1>4. /\ core' = [core EXCEPT ![c].pc = "unwind", ![c].key = None]
      /\ wait' = Armed(t, Poll)
      /\ UNCHANGED <<setting, rq, life, due, held, place>>
  BY <1>1, <1>2 DEF Arm, Cur
<1>5. /\ CoreOK' /\ Shapes'
      /\ \A d \in Core : core'[d].cur = core[d].cur /\ core'[d].todo = core[d].todo
      /\ \A d \in Core : d # c => core'[d] = core[d]
  BY <1>0, <1>1, <1>4, Turns
<1>6. /\ WaitOK'
      /\ \A u \in Task : u # t => wait'[u] = wait[u]
      /\ wait'[t].key = Poll
      /\ \A u \in Task : wait'[u].parked <=> wait[u].parked
  BY <1>0, <1>3, <1>4, ArmedIs, Constants
<1>7. Single'
  BY <1>0, <1>4, <1>5, <1>6, NobodyMoves
<1>8. NoLostWake'
  BY <1>0, <1>1, <1>4, <1>5, <1>6, NoLostWakeKept
<1> QED BY <1>0, <1>4, <1>5, <1>6, <1>7, <1>8, PartsNext DEF RingOK, LifeOK, PlaceOK, Rings, place

\* A core announces the wake of the one condition that comes to hold.
LEMMA PostsNoLostWake ==
    ASSUME NoLostWake, NEW c \in Core, NEW k, setting' = setting, wait' = wait,
           held' = held \cup {k}, core[c].pc # "wake", core'[c].pc = "wake", core'[c].key = k,
           \A d \in Core : d # c => core'[d] = core[d]
    PROVE  NoLostWake'
<1>1. Coming(k)'
  BY DEF Coming, At
<1>2. \A j : Coming(j) => Coming(j)'
  BY DEF Coming, At
<1> QED BY <1>1, <1>2 DEF NoLostWake

\* A running task makes a condition hold.
LEMMA PostKeeps ==
    ASSUME SInv, NEW c \in Core, NEW k \in Key, Post(c, k)
    PROVE  SInv'
<1>0. /\ setting \in Settings /\ CoreOK /\ RingOK /\ WaitOK /\ LifeOK /\ PlaceOK
      /\ Shapes /\ iso # Core /\ Rings /\ Single /\ NoLostWake
  BY Parts
<1>1. /\ core[c].pc = "user" /\ held' = held \cup {k}
      /\ core' = [core EXCEPT ![c].pc = "wake", ![c].key = k]
      /\ UNCHANGED <<setting, rq, life, wait, due, place>>
  BY DEF Post, Running, At
<1>2. /\ CoreOK' /\ Shapes' /\ core'[c].pc = "wake" /\ core'[c].key = k
      /\ \A d \in Core : core'[d].cur = core[d].cur /\ core'[d].todo = core[d].todo
      /\ \A d \in Core : d # c => core'[d] = core[d]
  BY <1>0, <1>1, Turns
<1>3. Single'
  BY <1>0, <1>1, <1>2, NobodyMoves
<1>4. NoLostWake'
  BY <1>0, <1>1, <1>2, PostsNoLostWake
<1> QED BY <1>0, <1>1, <1>2, <1>3, <1>4, PartsNext DEF WaitOK, RingOK, LifeOK, PlaceOK, Rings, place

\* What leaves rings, cores, waits and the tasks' lives alone.
LEMMA PlacesKeep ==
    ASSUME SInv, UNCHANGED <<setting, rq, core, life, wait>>, held' \subseteq held, PlaceOK', iso' # Core
    PROVE  SInv'
<1>0. /\ setting \in Settings /\ CoreOK /\ RingOK /\ WaitOK /\ LifeOK /\ PlaceOK
      /\ Shapes /\ iso # Core /\ Rings /\ Single /\ NoLostWake
  BY Parts
<1>1. Single'
  BY <1>0, NobodyMoves
<1>2. NoLostWake'
  BY <1>0, NoLostWakeKept
<1> QED BY <1>0, <1>1, <1>2, PartsNext DEF CoreOK, Shapes, WaitOK, RingOK, LifeOK, Rings

\* A running task takes what a condition announced.
LEMMA ConsumeKeeps ==
    ASSUME SInv, NEW c \in Core, NEW k \in Key, Consume(c, k)
    PROVE  SInv'
<1>1. PlaceOK' /\ iso' # Core
  BY Parts DEF Consume, PlaceOK, place
<1> QED BY <1>1, PlacesKeep DEF Consume

\* Affinity, isolation, direction and expiry move nobody.
LEMMA SetAffinityKeeps ==
    ASSUME SInv, NEW c \in Core, NEW m \in setting.masks, SetAffinity(c, m)
    PROVE  SInv'
<1>1. m \in SUBSET Core
  BY Parts, Chosen
<1>2. PlaceOK' /\ iso' # Core
  BY <1>1, Parts DEF SetAffinity, PlaceOK
<1> QED BY <1>2, PlacesKeep DEF SetAffinity

LEMMA CorePinKeeps ==
    ASSUME SInv, NEW c \in Core, NEW m \in setting.pins, CorePin(c, m)
    PROVE  SInv'
<1>1. m \in SUBSET Core /\ m # Core
  BY Parts, Chosen
<1>2. PlaceOK' /\ iso' # Core
  BY <1>1, Parts DEF CorePin, PlaceOK
<1> QED BY <1>2, PlacesKeep DEF CorePin

LEMMA DirectKeeps ==
    ASSUME SInv, NEW t \in Task, NEW d \in Core, Direct(t, d)
    PROVE  SInv'
<1>1. PlaceOK' /\ iso' # Core
  BY Parts DEF Direct, PlaceOK
<1> QED BY <1>1, PlacesKeep DEF Direct

LEMMA ExpireKeeps ==
    ASSUME SInv, NEW t \in Task, Expire(t)
    PROVE  SInv'
<1>1. PlaceOK' /\ iso' # Core
  BY Parts DEF Expire, PlaceOK, place
<1> QED BY <1>1, PlacesKeep DEF Expire

\* A wake for as many waiters as there are slots reaches each of them.
LEMMA FewBefore ==
    ASSUME NEW t \in Task, NEW A \in SUBSET Task
    PROVE  Cardinality({u \in A : u < t}) < NTask
<1> DEFINE B == {u \in A : u < t}
<1>1. NTask \in Nat /\ Task = 0 .. NTask - 1
  BY Constants DEF Task
<1>2. IsFiniteSet(Task) /\ Cardinality(Task) = NTask
  BY <1>1, FS_Interval
<1>3. B \subseteq Task /\ B # Task
  <2>1. t \notin B /\ B \subseteq A
    BY <1>1
  <2> QED BY <2>1
<1> HIDE DEF B
<1>4. Cardinality(B) <= Cardinality(Task) /\ IsFiniteSet(B) /\ (Cardinality(B) = Cardinality(Task) => B = Task)
  BY <1>2, <1>3, FS_Subset
<1>5. Cardinality(B) \in Nat
  BY <1>4, FS_CardinalityType
<1>6. Cardinality(B) < NTask
  BY <1>1, <1>2, <1>3, <1>4, <1>5
<1> QED BY <1>6 DEF B

\* What the waits are after a wake reached some of the waiters.
LEMMA WokenIs ==
    ASSUME WaitOK, NEW S \in SUBSET Task, wait' = Woken(S)
    PROVE  /\ WaitOK'
           /\ \A t \in Task : wait'[t].parked <=> wait[t].parked /\ t \notin S
           /\ \A t \in Task : t \notin S => wait'[t] = wait[t]
           /\ \A t \in S : wait'[t].armed => wait'[t].pending
<1>1. \A t \in Task : wait[t] \in WaitRec
  BY DEF WaitOK
<1>2. \A t \in Task : wait'[t] =
        IF t \notin S THEN wait[t]
        ELSE IF wait[t].parked THEN [wait[t] EXCEPT !.parked = FALSE, !.armed = FALSE]
             ELSE [wait[t] EXCEPT !.pending = TRUE]
  BY DEF Woken
<1>3. ASSUME NEW t \in Task
      PROVE  /\ wait'[t] \in WaitRec
             /\ wait'[t].parked <=> wait[t].parked /\ t \notin S
             /\ t \in S /\ wait'[t].armed => wait'[t].pending
  <2>1. CASE t \notin S
    BY <1>1, <1>2, <2>1
  <2>2. CASE t \in S /\ wait[t].parked
    <3>1. wait'[t] = [wait[t] EXCEPT !.parked = FALSE, !.armed = FALSE] /\ wait[t] \in WaitRec
      BY <1>1, <1>2, <2>2
    <3> QED BY <2>2, <3>1 DEF WaitRec
  <2>3. CASE t \in S /\ ~wait[t].parked
    <3>1. wait'[t] = [wait[t] EXCEPT !.pending = TRUE] /\ wait[t] \in WaitRec
      BY <1>1, <1>2, <2>3
    <3> QED BY <2>3, <3>1 DEF WaitRec
  <2> QED BY <2>1, <2>2, <2>3
<1>4. WaitOK'
  BY <1>3 DEF WaitOK, Woken
<1> QED BY <1>2, <1>3, <1>4

\* A wake has the parked waiters it reached in its hand, and leaves a mark on the others.
LEMMA WakeKeeps ==
    ASSUME SInv, NEW c \in Core, NEW n \in setting.quotas, Wake(c, n)
    PROVE  SInv'
<1>0. /\ setting \in Settings /\ CoreOK /\ RingOK /\ WaitOK /\ LifeOK /\ PlaceOK
      /\ Shapes /\ iso # Core /\ Rings /\ Single /\ NoLostWake
  BY Parts
<1>1. PICK all \in SUBSET Task : all = {t \in Task : Waiter(t, core[c].key)}
  OBVIOUS
<1>2. PICK S \in SUBSET Task : S = {t \in all : Cardinality({u \in all : u < t}) < n}
  OBVIOUS
<1>3. PICK mine \in SUBSET Task : mine = {t \in S : wait[t].parked}
  OBVIOUS
<1>4. PICK r : r = IF mine = {} THEN Back(c) ELSE Pushing(c, mine, c)
  OBVIOUS
<1>5. /\ core[c].pc = "wake" /\ wait' = Woken(S) /\ core' = [core EXCEPT ![c] = r]
      /\ UNCHANGED <<setting, rq, life, due, held, place>>
  BY <1>1, <1>2, <1>3, <1>4 DEF Wake, At
<1>6. core[c].todo = {}
  BY <1>0, <1>5, CoreTypes DEF Shaped
<1>7. r \in CoreRec /\ Shaped(r) /\ r.cur = core[c].cur /\ r.todo = mine
  <2>1. CASE mine = {}
    BY <1>0, <1>4, <2>1, BackIs
  <2>2. CASE mine # {}
    BY <1>0, <1>4, <2>2, PushingIs DEF PlaceOK
  <2> QED BY <2>1, <2>2
<1>8. /\ CoreOK' /\ Shapes'
      /\ \A d \in Core : core'[d] = IF d = c THEN r ELSE core[d]
  BY <1>0, <1>5, <1>7, CoreMoves
<1>9. /\ WaitOK'
      /\ \A t \in Task : wait'[t].parked <=> wait[t].parked /\ t \notin S
      /\ \A t \in Task : t \notin S => wait'[t] = wait[t]
      /\ \A t \in S : wait'[t].armed => wait'[t].pending
  BY <1>0, <1>5, WokenIs
<1>10. Single'
  <2>1. \A t \in Task : wait'[t].parked <=> wait[t].parked /\ t \notin mine
    BY <1>3, <1>9
  <2>2. \A t \in mine : wait[t].parked
    BY <1>3
  <2> QED BY <1>0, <1>5, <1>6, <1>7, <2>1, <2>2, UnparksSingle
<1>11. NoLostWake'
  <2>1. SUFFICES ASSUME NEW t \in Task, NEW j \in held \ {Poll}, wait'[t].key = j,
                        setting.quotas = {NTask}, wait'[t].armed, ~wait'[t].pending
                 PROVE  Coming(j)'
    BY <1>5 DEF NoLostWake
  <2>2. t \notin S /\ wait'[t] = wait[t]
    BY <1>9, <2>1
  <2>3. n = NTask
    BY <2>1
  <2>4. j # core[c].key
    <3>1. t \in all => t \in S
      BY <1>2, <2>3, FewBefore
    <3>2. t \notin all
      BY <2>2, <3>1
    <3> QED BY <1>1, <2>1, <2>2, <3>2 DEF Waiter
  <2>5. Coming(j)
    BY <1>0, <2>1, <2>2 DEF NoLostWake
  <2>6. PICK d \in Core : core[d].pc = "wake" /\ core[d].key = j
    BY <2>5 DEF Coming, At
  <2>7. core'[d] = core[d]
    BY <1>8, <2>4, <2>6
  <2> QED BY <2>6, <2>7 DEF Coming, At
<1> QED BY <1>0, <1>5, <1>8, <1>9, <1>10, <1>11, PartsNext DEF RingOK, LifeOK, PlaceOK, Rings, place

\* A task ends.
LEMMA ExitKeeps ==
    ASSUME SInv, NEW c \in Core, Exit(c)
    PROVE  SInv'
<1>0. /\ setting \in Settings /\ CoreOK /\ RingOK /\ WaitOK /\ LifeOK /\ PlaceOK
      /\ Shapes /\ iso # Core /\ Rings /\ Single /\ NoLostWake
  BY Parts
<1>1. core[c].pc = "user" /\ core[c].cur \in Task /\ core[c].todo = {}
  BY <1>0, CoreTypes DEF Exit, Running, At, Shaped
<1>2. PICK t \in Task : t = core[c].cur
  BY <1>1
<1>3. PICK r : r = IF t \in Threads THEN [Resting EXCEPT !.pc = "wake", !.key = t] ELSE Resting
  OBVIOUS
<1>4. /\ life' = [life EXCEPT ![t] = "dead"] /\ core' = [core EXCEPT ![c] = r]
      /\ held' = IF t \in Threads THEN held \cup {t} ELSE held
      /\ UNCHANGED <<setting, rq, wait, due, place>>
  BY <1>2, <1>3 DEF Exit, Cur
<1>5. /\ r \in CoreRec /\ Shaped(r) /\ r.cur = None /\ r.todo = {}
      /\ (t \in Threads => r.pc = "wake" /\ r.key = t)
  <2>1. CASE t \notin Threads
    BY <1>3, <2>1, RestingIs
  <2>2. CASE t \in Threads
    <3>1. r = [pc |-> "wake", cur |-> None, key |-> t, todo |-> {}, pref |-> 0, seen |-> {}]
      BY <1>3, <2>2 DEF Resting
    <3> QED BY <2>2, <3>1, Constants DEF CoreRec, Shaped, Key
  <2> QED BY <2>1, <2>2
<1>6. /\ CoreOK' /\ Shapes'
      /\ \A d \in Core : core'[d] = IF d = c THEN r ELSE core[d]
  BY <1>0, <1>4, <1>5, CoreMoves
<1>7. Single'
  <2>1. ASSUME NEW u \in Task, u # t PROVE AtOne(u)'
    <3>1. \A d \in Core : InRing(u, d)' <=> InRing(u, d)
      BY <1>4 DEF InRing
    <3>2. \A d \in Core : (OnCore(u, d)' <=> OnCore(u, d)) /\ (InHand(u, d)' <=> InHand(u, d))
      BY <1>1, <1>2, <1>5, <1>6, <2>1, Constants DEF OnCore, InHand
    <3>3. life'[u] = life[u] /\ wait' = wait
      BY <1>0, <1>4, <2>1 DEF LifeOK
    <3> QED BY <1>0, <2>1, <3>1, <3>2, <3>3, StaysAtOne DEF Stays, Single
  <2>2. AtOne(t)'
    <3>1. AtOne(t) /\ OnCore(t, c)
      BY <1>0, <1>2 DEF Single, OnCore
    <3>2. \A d \in Core : ~InRing(t, d)'
      BY <1>4, <3>1 DEF InRing, AtOne
    <3>3. \A d \in Core : ~OnCore(t, d)' /\ ~InHand(t, d)'
      BY <1>5, <1>6, <3>1, Constants DEF OnCore, InHand, AtOne
    <3>4. life'[t] = "dead" /\ ~wait'[t].parked
      BY <1>0, <1>4, <3>1 DEF AtOne, LifeOK
    <3> QED BY <3>2, <3>3, <3>4 DEF AtOne
  <2> QED BY <2>1, <2>2 DEF Single
<1>8. NoLostWake'
  <2>1. CASE t \in Threads
    BY <1>0, <1>1, <1>4, <1>5, <1>6, <2>1, PostsNoLostWake
  <2>2. CASE t \notin Threads
    BY <1>0, <1>1, <1>4, <1>6, <2>2, NoLostWakeKept
  <2> QED BY <2>1, <2>2
<1>9. LifeOK' /\ PlaceOK'
  <2>1. Threads \subseteq Key
    BY DEF Key
  <2> QED BY <1>0, <1>4, <2>1 DEF LifeOK, PlaceOK, place
<1> QED BY <1>0, <1>4, <1>6, <1>7, <1>8, <1>9, PartsNext DEF RingOK, WaitOK, Rings, place

\* A fork or a new thread is in the hand of the core that made it.
LEMMA CreateKeeps ==
    ASSUME SInv, NEW c \in Core, NEW t \in Task, Create(c, t)
    PROVE  SInv'
<1>0. /\ setting \in Settings /\ CoreOK /\ RingOK /\ WaitOK /\ LifeOK /\ PlaceOK
      /\ Shapes /\ iso # Core /\ Rings /\ Single /\ NoLostWake
  BY Parts
<1>1. core[c].pc = "user" /\ core[c].cur \in Task /\ core[c].todo = {}
  BY <1>0, CoreTypes DEF Create, Running, At, Shaped
<1>2. PICK r : r = Pushing(c, {t}, c)
  OBVIOUS
<1>3. PICK m : m = aff[IF t \in Threads THEN LeaderOf[t] ELSE core[c].cur]
  OBVIOUS
<1>4. /\ life[t] = "unborn" /\ life' = [life EXCEPT ![t] = "live"]
      /\ aff' = [aff EXCEPT ![t] = m] /\ core' = [core EXCEPT ![c] = r]
      /\ UNCHANGED <<setting, rq, wait, due, held, iso, pin, mig>>
  BY <1>2, <1>3 DEF Create, Cur
<1>5. r \in CoreRec /\ Shaped(r) /\ r.cur = core[c].cur /\ r.todo = {t} /\ r.pc = "push"
  BY <1>0, <1>2, PushingIs DEF PlaceOK
<1>6. /\ CoreOK' /\ Shapes'
      /\ \A d \in Core : core'[d] = IF d = c THEN r ELSE core[d]
  BY <1>0, <1>4, <1>5, CoreMoves
<1>7. life'[t] = "live" /\ \A u \in Task : u # t => life'[u] = life[u]
  BY <1>0, <1>4 DEF LifeOK
<1>8. ~wait[t].parked /\ core[c].cur # t
  BY <1>0, <1>4 DEF Single, AtOne, OnCore
<1>9. Single'
  <2>1. \A u \in Task : wait'[u].parked <=> wait[u].parked /\ u # t
    BY <1>4, <1>8
  <2> QED BY <1>0, <1>1, <1>4, <1>5, <1>7, <1>8, <2>1, InHandSingle
<1>10. NoLostWake'
  BY <1>0, <1>1, <1>4, <1>6, NoLostWakeKept
<1>11. LifeOK' /\ PlaceOK'
  <2>1. m \in SUBSET Core
    BY <1>0, <1>1, <1>3, Constants DEF PlaceOK
  <2> QED BY <1>0, <1>4, <2>1 DEF LifeOK, PlaceOK
<1> QED BY <1>0, <1>4, <1>6, <1>9, <1>10, <1>11, PartsNext DEF RingOK, WaitOK, Rings

-----------------------------------------------------------------------------
(* The invariant holds at the start and in every step. *)

\* The invariant holds at the start.
LEMMA InitKeeps ==
    ASSUME Init
    PROVE  SInv
<1>1. PICK b : b = setting.boot
  OBVIOUS
<1>2. /\ setting \in Settings /\ b \in Seq(Task) /\ Len(b) <= QLen
      /\ \A i, j \in 1 .. Len(b) : b[i] = b[j] => i = j
  BY <1>1, Chosen DEF Init
<1>3. /\ rq = [c \in Core |-> IF c = 0 THEN b ELSE <<>>]
      /\ core = [c \in Core |-> Resting] /\ wait = [t \in Task |-> Awake]
      /\ life = [t \in Task |-> IF \E i \in DOMAIN b : b[i] = t THEN "live" ELSE "unborn"]
      /\ due = {} /\ held = {} /\ iso = {} /\ aff = [t \in Task |-> {}]
      /\ pin = [t \in Task |-> None] /\ mig = [t \in Task |-> None]
  BY <1>1 DEF Init
<1>4. CoreOK /\ Shapes
  BY <1>3, RestingIs DEF CoreOK, Shapes
<1>5. RingOK
  <2>1. <<>> \in Seq(Task) /\ Len(<<>>) <= QLen
    BY Constants
  <2> QED BY <1>2, <1>3, <2>1 DEF RingOK
<1>6. Rings
  BY <1>2, <1>3 DEF Rings, NoRepeat
<1>7. WaitOK /\ \A t \in Task : ~wait[t].parked /\ ~wait[t].armed
  BY <1>3 DEF WaitOK, WaitRec, Awake
<1>8. LifeOK
  BY <1>3 DEF LifeOK
<1>9. PlaceOK /\ iso # Core
  BY <1>3, Constants DEF PlaceOK
<1>10. ASSUME NEW t \in Task PROVE AtOne(t)
  <2>1. \A c \in Core : ~OnCore(t, c) /\ ~InHand(t, c)
    BY <1>3, RestingIs, Constants DEF OnCore, InHand
  <2>2. \A c \in Core : InRing(t, c) <=> c = 0 /\ t \in Elems(b)
    BY <1>3 DEF InRing, Elems
  <2>3. life[t] = "live" <=> t \in Elems(b)
    BY <1>2, <1>3 DEF Elems
  <2> QED BY <1>7, <2>1, <2>2, <2>3, Constants DEF AtOne
<1>11. NoLostWake
  BY <1>7 DEF NoLostWake
<1> QED BY <1>2, <1>4, <1>5, <1>6, <1>7, <1>8, <1>9, <1>10, <1>11, Parts DEF Single

\* Every step keeps the invariant, as long as a push finds a ring.
LEMMA NextKeeps ==
    ASSUME SInv, PushLands, [Next]_vars
    PROVE  SInv'
<1>1. ASSUME NEW c \in Core, Kernel(c) PROVE SInv'
  BY <1>1, PopKeeps, ScanKeeps, PreemptKeeps, ParkKeeps, RequeueKeeps, PushKeeps, ArmKeeps, StealKeeps,
     WakeKeeps DEF Kernel
<1>2. ASSUME NEW c \in Core, User(c) PROVE SInv'
  BY <1>2, WaitKeeps, PostKeeps, ConsumeKeeps, ExitKeeps, CreateKeeps, SetAffinityKeeps, CorePinKeeps
  DEF User
<1>3. ASSUME NEW t \in Task, Expire(t) \/ \E d \in Core : Direct(t, d) PROVE SInv'
  BY <1>3, ExpireKeeps, DirectKeeps
<1>4. CASE UNCHANGED vars
  <2>1. PlaceOK' /\ iso' # Core
    BY <1>4, Parts DEF vars, place, PlaceOK
  <2> QED BY <1>4, <2>1, PlacesKeep DEF vars, place
<1> QED BY <1>1, <1>2, <1>3, <1>4 DEF Next

-----------------------------------------------------------------------------
(* What the invariant says. *)

\* At one place, as RunSound counts the places.
LEMMA PlaceCounted ==
    ASSUME SInv, NEW t \in Task
    PROVE  Places(t) = IF life[t] = "live" THEN 1 ELSE 0
<1>0. RingOK /\ Rings /\ AtOne(t) /\ WaitOK /\ Core \subseteq Nat
  BY Parts, Constants DEF Single
<1>1. \A e \in Entries(t) : /\ e[1] \in Core /\ e[2] \in 1 .. Len(rq[e[1]]) /\ rq[e[1]][e[2]] = t
                            /\ e = <<e[1], e[2]>> /\ InRing(t, e[1])
  BY <1>0 DEF Entries, InRing, Elems, RingOK
<1>2. \A c \in Core : InRing(t, c) => Entries(t) # {}
  <2>1. SUFFICES ASSUME NEW c \in Core, InRing(t, c) PROVE Entries(t) # {}
    OBVIOUS
  <2>2. PICK i \in 1 .. Len(rq[c]) : rq[c][i] = t
    BY <2>1 DEF InRing, Elems
  <2>3. <<c, i>> \in Core \X (1 .. QLen) /\ i <= Len(rq[c])
    BY <1>0, <2>2, Constants DEF RingOK
  <2>4. <<c, i>> \in Entries(t)
    BY <2>2, <2>3 DEF Entries
  <2> QED BY <2>4
<1>3. \A e, f \in Entries(t) : e = f
  <2>1. SUFFICES ASSUME NEW e \in Entries(t), NEW f \in Entries(t) PROVE e = f
    OBVIOUS
  <2>2. e[1] = f[1]
    BY <1>0, <1>1 DEF AtOne
  <2>3. e[2] = f[2]
    BY <1>0, <1>1, <2>2 DEF Rings, NoRepeat
  <2> QED BY <1>1, <2>2, <2>3
<1>4. \A S : (\A e, f \in S : e = f) => Cardinality(S) = IF S = {} THEN 0 ELSE 1
  <2>1. SUFFICES ASSUME NEW S, \A e, f \in S : e = f, S # {} PROVE Cardinality(S) = 1
    BY FS_EmptySet
  <2>2. PICK e : S = {e}
    BY <2>1
  <2> QED BY <2>2, FS_Singleton
<1>5. Cardinality(Entries(t)) = IF \E c \in Core : InRing(t, c) THEN 1 ELSE 0
  BY <1>1, <1>2, <1>3, <1>4
<1>6. Cardinality(Cores(t)) = IF \E c \in Core : OnCore(t, c) THEN 1 ELSE 0
  <2>1. \A e, f \in Cores(t) : e = f
    BY <1>0 DEF Cores, Cur, OnCore, AtOne
  <2>2. Cores(t) # {} <=> \E c \in Core : OnCore(t, c)
    BY DEF Cores, Cur, OnCore
  <2> QED BY <1>4, <2>1, <2>2
<1>7. Cardinality(Hands(t)) = IF \E c \in Core : InHand(t, c) THEN 1 ELSE 0
  <2>1. \A e, f \in Hands(t) : e = f
    BY <1>0 DEF Hands, InHand, AtOne
  <2>2. Hands(t) # {} <=> \E c \in Core : InHand(t, c)
    BY DEF Hands, InHand
  <2> QED BY <1>4, <2>1, <2>2
<1> QED BY <1>0, <1>5, <1>6, <1>7 DEF Places, AtOne

\* The invariant is stronger than what the run checks.
LEMMA SInvSound == SInv => RunSound
BY PlaceCounted DEF SInv, RunSound, OnePlace

\* The tasks that are live fit in one ring.
FewLive == Cardinality({t \in Task : life[t] = "live"}) <= QLen

\* With no more live tasks than a ring has entries no push finds every ring full:
\* the ring of the preferred core, or of one that mask and isolation leave, lacks
\* at least the task in hand.
LEMMA RoomLeft ==
    ASSUME SInv, FewLive
    PROVE  PushLands
<1>0. /\ CoreOK /\ RingOK /\ PlaceOK /\ Shapes /\ Rings /\ Single
  BY Parts
<1>1. SUFFICES ASSUME NEW c \in Core, core[c].pc = "push"
               PROVE  Landing(Min(core[c].todo), core[c].pref, core[c].seen) # None
  BY DEF PushLands, At
<1>2. /\ core[c].todo # {} /\ core[c].todo \in SUBSET Task /\ core[c].pref \in Core
      /\ core[c].seen \in SUBSET Core /\ core[c].seen # Core
  BY <1>0, <1>1, CoreTypes DEF Shaped
<1>3. PICK t \in Task : t = Min(core[c].todo) /\ t \in core[c].todo
  BY <1>2, LeastOf, Constants
<1>4. PICK p \in Core : p = core[c].pref
  BY <1>2
<1>5. PICK i \in SUBSET Core : i = core[c].seen /\ i # Core
  BY <1>2
<1>6. ASSUME NEW d \in Core PROVE Room(d)
  <2>1. t \notin Elems(rq[d])
    BY <1>0, <1>3 DEF Single, AtOne, InRing, InHand
  <2>2. rq[d] \in Seq(Task) /\ Len(rq[d]) \in Nat /\ NoRepeat(rq[d])
    BY <1>0 DEF RingOK, Rings
  <2> DEFINE live == {u \in Task : life[u] = "live"}
  <2>3. t \in live /\ Elems(rq[d]) \subseteq live
    BY <1>0, <1>3 DEF Single, AtOne, InRing, InHand, Elems, RingOK
  <2>4. rq[d] \in [1 .. Len(rq[d]) -> live \ {t}]
    BY <2>1, <2>2, <2>3 DEF Elems
  <2>5. rq[d] \in Injection(1 .. Len(rq[d]), live \ {t})
    BY <2>2, <2>4 DEF Injection, IsInjective, NoRepeat
  <2>6. IsFiniteSet(live) /\ Cardinality(live) \in Nat /\ QLen \in Nat
    <3>1. NTask \in Nat /\ QLen \in Nat /\ Task = 0 .. NTask - 1
      BY Constants DEF Task
    <3>2. IsFiniteSet(Task) /\ live \subseteq Task
      BY <3>1, FS_Interval
    <3> QED BY <3>1, <3>2, FS_Subset, FS_CardinalityType
  <2>7. IsFiniteSet(live \ {t}) /\ Cardinality(live \ {t}) = Cardinality(live) - 1
    BY <2>3, <2>6, FS_RemoveElement
  <2>8. Cardinality(1 .. Len(rq[d])) <= Cardinality(live) - 1
    BY <2>5, <2>7, FS_Injection
  <2>9. Cardinality(1 .. Len(rq[d])) = Len(rq[d])
    BY <2>2, FS_Interval
  <2>10. Cardinality(live) <= QLen
    BY DEF FewLive
  <2> QED BY <2>2, <2>6, <2>8, <2>9, <2>10 DEF Room
<1>7. Open(t, p, i) \/ Siblings(t, p, i) # {}
  <2>1. aff[t] \in SUBSET Core
    BY <1>0 DEF PlaceOK
  <2>2. CASE Confined(t, i)
    BY <2>2 DEF Open
  <2>3. CASE ~Confined(t, i)
    <3>1. PICK d \in Core : d \notin i /\ May(t, d)
      <4>1. CASE aff[t] = {}
        BY <1>5, <4>1 DEF May
      <4>2. CASE aff[t] # {} /\ i # {}
        BY <2>1, <2>3, <4>2 DEF May, Confined
      <4>3. CASE aff[t] # {} /\ i = {}
        BY <2>1, <4>3 DEF May
      <4> QED BY <4>1, <4>2, <4>3
    <3>2. CASE d = p
      BY <3>1, <3>2 DEF Open
    <3>3. CASE d # p
      BY <1>6, <3>1, <3>3 DEF Siblings, Open
    <3> QED BY <3>2, <3>3
  <2> QED BY <2>2, <2>3
<1>8. CASE Open(t, p, i)
  BY <1>3, <1>4, <1>5, <1>6, <1>8, Constants DEF Landing
<1>9. CASE ~Open(t, p, i)
  <2>1. Landing(t, p, i) = Min(Siblings(t, p, i)) /\ Siblings(t, p, i) # {}
    BY <1>7, <1>9 DEF Landing
  <2>2. Siblings(t, p, i) \subseteq Core
    BY DEF Siblings
  <2>3. Min(Siblings(t, p, i)) \in Core
    BY <2>1, <2>2, LeastOf, Constants
  <2> QED BY <1>3, <1>4, <1>5, <2>1, <2>3, Constants
<1> QED BY <1>8, <1>9

-----------------------------------------------------------------------------
(* The theorems. *)

\* As long as every push finds a ring, the invariant holds: rq_push_any has no
\* other way to lose a task.
THEOREM SchedInductive == Spec /\ []PushLands => []SInv
<1>1. Init => SInv
  BY InitKeeps
<1>2. SInv /\ PushLands /\ [Next]_vars => SInv'
  BY NextKeeps
<1> QED BY <1>1, <1>2, PTL DEF Spec

\* A live task is in one place, and no posted wake is lost, whatever the tasks,
\* cores and programs are, as long as every push finds a ring.
THEOREM TasksKept == Spec /\ []PushLands => []RunSound
BY SchedInductive, SInvSound, PTL

\* While no more tasks are live than one ring holds no push fails, whatever the masks
\* and the isolated cores leave: it is the 32nd live task that can be lost.
THEOREM TasksKeptWithRoom == Spec /\ []FewLive => []RunSound
<1>1. Init => SInv
  BY InitKeeps
<1>2. SInv /\ FewLive /\ [Next]_vars => SInv'
  BY NextKeeps, RoomLeft
<1>3. SInv => RunSound
  BY SInvSound
<1> QED BY <1>1, <1>2, <1>3, PTL DEF Spec

-----------------------------------------------------------------------------
(* Programs that set no mask. *)

\* No program sets an affinity or pins cores.
Unmasked == \A w \in Settings : w.masks = {} /\ w.pins = {}

\* No core is isolated or was when a core last looked, and no task has a mask.
Bare == iso = {} /\ (\A t \in Task : aff[t] = {}) /\ (\A c \in Core : core[c].seen = {})

\* The records a core turns to show the isolated cores of that moment, or none.
LEMMA SeenIs ==
    ASSUME CoreOK, Shapes, iso \subseteq Core, iso # Core, NEW c \in Core
    PROVE  /\ Resting.seen = {} /\ Back(c).seen = {}
           /\ \A ts \in SUBSET Task, d \in Core : Pushing(c, ts, d).seen = iso
<1>1. Resting.seen = {}
  BY DEF Resting
<1>2. PICK b : b = Back(c)
  OBVIOUS
<1>3. b.seen = {}
  BY <1>1, <1>2 DEF Back, Resting
<1>4. b \in CoreRec
  BY <1>2, BackIs
<1>5. ASSUME NEW ts \in SUBSET Task, NEW d \in Core PROVE Pushing(c, ts, d).seen = iso
  <2>1. Pushing(c, ts, d) = [b EXCEPT !.pc = "push", !.todo = ts, !.pref = d, !.seen = iso]
    BY <1>2 DEF Pushing
  <2> QED BY <1>4, <2>1 DEF CoreRec
<1> QED BY <1>1, <1>2, <1>3, <1>5

\* A core's record is replaced by one that saw no isolated core.
LEMMA SeesNone ==
    ASSUME CoreOK, Bare, NEW c \in Core, NEW r, r.seen = {}, core' = [core EXCEPT ![c] = r]
    PROVE  \A d \in Core : core'[d].seen = {}
BY DEF CoreOK, Bare

\* Nothing but the two calls makes a mask or isolates a core.
LEMMA BareKeeps ==
    ASSUME SInv, Unmasked, Bare, [Next]_vars
    PROVE  Bare'
<1>0. /\ CoreOK /\ Shapes /\ PlaceOK /\ iso \subseteq Core /\ iso # Core /\ iso = {}
      /\ setting.masks = {} /\ setting.pins = {}
  BY Parts DEF PlaceOK, Bare, Unmasked
<1>1. ASSUME NEW c \in Core, Kernel(c) PROVE Bare'
  <2>1. CASE Pop(c) \/ \E v \in Core : Steal(c, v)
    <3>1. PICK t, r : core' = [core EXCEPT ![c] = r] /\ r = [Resting EXCEPT !.pc = "user", !.cur = t]
      BY <2>1 DEF Pop, Steal, Dispatch
    <3>2. r.seen = {}
      BY <3>1 DEF Resting
    <3> QED BY <1>0, <2>1, <3>1, <3>2, SeesNone DEF Pop, Steal, Bare
  <2>2. CASE Scan(c)
    <3>1. PICK late \in SUBSET Task : core' = [core EXCEPT ![c] = Pushing(c, late, c)]
      BY <2>2 DEF Scan
    <3> QED BY <1>0, <2>2, <3>1, SeenIs, SeesNone DEF Scan, place, Bare
  <2>3. CASE Preempt(c) \/ Arm(c)
    <3>1. \A d \in Core : core'[d].seen = core[d].seen
      BY <1>0, <2>3, CoreTypes DEF Preempt, Arm, CoreOK, CoreRec
    <3> QED BY <2>3, <3>1 DEF Preempt, Arm, place, Bare
  <2>4. CASE Park(c)
    BY <1>0, <2>4, SeenIs, SeesNone DEF Park, place, Bare
  <2>5. CASE Requeue(c)
    <3>1. PICK t : t = core[c].cur
      OBVIOUS
    <3>2. t \in Task
      BY <1>0, <2>5, <3>1, CoreTypes DEF Requeue, At, Shaped
    <3>3. PICK h \in Core : h = Home(t, c)
      BY <1>0, <3>2, HomeIn DEF PlaceOK
    <3>4. PICK b : b = Pushing(c, {t}, h)
      OBVIOUS
    <3>5. PICK r : r = [b EXCEPT !.cur = None]
      OBVIOUS
    <3>6. core' = [core EXCEPT ![c] = r] /\ UNCHANGED <<iso, aff>>
      BY <2>5, <3>1, <3>3, <3>4, <3>5 DEF Requeue, Cur
    <3>7. b \in CoreRec /\ b.seen = {}
      BY <1>0, <3>2, <3>4, PushingIs, SeenIs
    <3>8. r.seen = {}
      BY <3>5, <3>7 DEF CoreRec
    <3> QED BY <1>0, <3>6, <3>8, SeesNone DEF Bare
  <2>6. CASE Push(c)
    <3>1. PICK t : t = Min(core[c].todo)
      OBVIOUS
    <3>2. PICK r : r = IF core[c].todo = {t} THEN Back(c)
                       ELSE Pushing(c, core[c].todo \ {t}, core[c].pref)
      OBVIOUS
    <3>3. core' = [core EXCEPT ![c] = r] /\ UNCHANGED place
      BY <2>6, <3>1, <3>2 DEF Push
    <3>4. core[c].todo \ {t} \in SUBSET Task /\ core[c].pref \in Core
      BY <1>0, CoreTypes
    <3>5. r.seen = {}
      BY <1>0, <3>2, <3>4, SeenIs
    <3> QED BY <1>0, <3>3, <3>5, SeesNone DEF place, Bare
  <2>7. CASE \E n \in setting.quotas : Wake(c, n)
    <3>1. PICK mine \in SUBSET Task :
            core' = [core EXCEPT ![c] = IF mine = {} THEN Back(c) ELSE Pushing(c, mine, c)]
      BY <2>7 DEF Wake
    <3>2. PICK r : r = IF mine = {} THEN Back(c) ELSE Pushing(c, mine, c)
      OBVIOUS
    <3>3. r.seen = {}
      BY <1>0, <3>2, SeenIs
    <3> QED BY <1>0, <2>7, <3>1, <3>2, <3>3, SeesNone DEF Wake, place, Bare
  <2> QED BY <1>1, <2>1, <2>2, <2>3, <2>4, <2>5, <2>6, <2>7 DEF Kernel
<1>2. ASSUME NEW c \in Core, User(c) PROVE Bare'
  <2>1. CASE \E k \in Key : Wait(c, k) \/ Post(c, k) \/ Consume(c, k)
    <3>1. PICK k \in Key : Wait(c, k) \/ Post(c, k) \/ Consume(c, k)
      BY <2>1
    <3>2. \A d \in Core : core'[d].seen = core[d].seen
      BY <1>0, <3>1, CoreTypes DEF Wait, Post, Consume, CoreOK, CoreRec
    <3> QED BY <3>1, <3>2 DEF Wait, Post, Consume, place, Bare
  <2>2. CASE Exit(c)
    <3>1. PICK r : core' = [core EXCEPT ![c] = r] /\ r.seen = {}
      <4>1. PICK r : /\ core' = [core EXCEPT ![c] = r]
                     /\ r = IF core[c].cur \in Threads
                            THEN [Resting EXCEPT !.pc = "wake", !.key = core[c].cur] ELSE Resting
        BY <2>2 DEF Exit, Cur
      <4>2. PICK k : k = core[c].cur
        OBVIOUS
      <4>3. PICK q : q = [Resting EXCEPT !.pc = "wake", !.key = k]
        OBVIOUS
      <4>4. q.seen = {}
        BY <4>3 DEF Resting
      <4>5. r = q \/ r = Resting
        BY <4>1, <4>2, <4>3
      <4>6. Resting.seen = {}
        BY DEF Resting
      <4> QED BY <4>1, <4>4, <4>5, <4>6
    <3> QED BY <1>0, <2>2, <3>1, SeesNone DEF Exit, place, Bare
  <2>3. CASE \E t \in Task : Create(c, t)
    <3>1. PICK t \in Task : Create(c, t)
      BY <2>3
    <3>2. core[c].cur \in Task
      BY <1>0, <3>1, CoreTypes DEF Create, Running, At, Shaped
    <3>3. core' = [core EXCEPT ![c] = Pushing(c, {t}, c)] /\ iso' = iso
      BY <3>1 DEF Create
    <3>4. PICK u \in Task : aff' = [aff EXCEPT ![t] = aff[u]]
      BY <3>1, <3>2, Constants DEF Create, Cur
    <3>5. \A x \in Task : aff'[x] = {}
      BY <1>0, <3>4 DEF Bare, PlaceOK
    <3> QED BY <1>0, <3>3, <3>5, SeenIs, SeesNone DEF Bare
  <2> QED BY <1>0, <1>2, <2>1, <2>2, <2>3 DEF User
<1>3. ASSUME NEW t \in Task, Expire(t) \/ \E d \in Core : Direct(t, d) PROVE Bare'
  BY <1>3 DEF Expire, Direct, place, Bare
<1>4. CASE UNCHANGED vars
  BY <1>4 DEF vars, place, Bare
<1> QED BY <1>1, <1>2, <1>3, <1>4 DEF Next

\* Without masks a push looks at every ring, and together they hold all tasks.
LEMMA RoomSomewhere ==
    ASSUME SInv, Bare, NTask <= NCore * QLen
    PROVE  PushLands
<1>0. /\ CoreOK /\ RingOK /\ PlaceOK /\ Shapes /\ Rings /\ Single
  BY Parts
<1>1. SUFFICES ASSUME NEW c \in Core, core[c].pc = "push"
               PROVE  Landing(Min(core[c].todo), core[c].pref, core[c].seen) # None
  BY DEF PushLands, At
<1>2. core[c].todo # {} /\ core[c].todo \in SUBSET Task /\ core[c].pref \in Core
  BY <1>0, <1>1, CoreTypes DEF Shaped
<1>3. PICK t \in Task : t = Min(core[c].todo) /\ t \in core[c].todo
  BY <1>2, LeastOf, Constants
<1>4. PICK p \in Core : p = core[c].pref
  BY <1>2
<1>5. core[c].seen = {} /\ aff[t] = {}
  BY DEF Bare
<1>6. \E d \in Core : Room(d)
  <2>1. SUFFICES ASSUME \A d \in Core : ~Room(d) PROVE FALSE
    OBVIOUS
  <2>2. NTask \in Nat /\ QLen \in Nat /\ NCore \in Nat /\ Task = 0 .. NTask - 1 /\ Core = 0 .. NCore - 1
    BY Constants DEF Task, Core
  <2>3. \A d \in Core : Len(rq[d]) = QLen /\ rq[d] \in Seq(Task) /\ NoRepeat(rq[d])
    BY <1>0, <2>1, <2>2 DEF RingOK, Rings, Room
  <2> DEFINE places == Core \X (1 .. QLen)
             f == [e \in places |-> rq[e[1]][e[2]]]
  <2>4. \A d \in Core : t \notin Elems(rq[d])
    BY <1>0, <1>3 DEF Single, AtOne, InRing, InHand
  <2>5. f \in [places -> Task \ {t}]
    BY <2>3, <2>4 DEF Elems
  <2>6. ASSUME NEW d \in Core, NEW i \in 1 .. QLen, NEW e \in Core, NEW j \in 1 .. QLen,
               rq[d][i] = rq[e][j]
        PROVE  d = e /\ i = j
    <3>1. PICK u \in Task : u = rq[d][i]
      BY <2>3
    <3>2. InRing(u, d) /\ InRing(u, e)
      BY <2>3, <2>6, <3>1 DEF InRing, Elems
    <3>3. d = e
      BY <1>0, <3>2 DEF Single, AtOne
    <3> QED BY <2>3, <2>6, <3>3 DEF NoRepeat
  <2>7. f \in Injection(places, Task \ {t})
    BY <2>5, <2>6 DEF Injection, IsInjective
  <2>8. IsFiniteSet(Task \ {t}) /\ Cardinality(Task \ {t}) = NTask - 1
    <3>1. IsFiniteSet(Task) /\ Cardinality(Task) = NTask
      BY <2>2, FS_Interval
    <3> QED BY <3>1, FS_RemoveElement
  <2>9. Cardinality(places) <= NTask - 1
    BY <2>7, <2>8, FS_Injection
  <2>10. Cardinality(places) = NCore * QLen
    <3>1. IsFiniteSet(Core) /\ Cardinality(Core) = NCore
      BY <2>2, FS_Interval
    <3>2. IsFiniteSet(1 .. QLen) /\ Cardinality(1 .. QLen) = QLen
      BY <2>2, FS_Interval
    <3> QED BY <3>1, <3>2, FS_Product
  <2>11. PICK n : n = NCore * QLen
    OBVIOUS
  <2>12. n <= NTask - 1 /\ NTask <= n
    BY <2>9, <2>10, <2>11
  <2>13. n \in Nat
    BY <2>2, <2>11
  <2> QED BY <2>2, <2>12, <2>13
<1>7. \A d \in Core : May(t, d) /\ Open(t, d, {})
  BY <1>5 DEF May, Open
<1>8. CASE Room(p)
  BY <1>3, <1>4, <1>5, <1>7, <1>8, Constants DEF Landing
<1>9. CASE ~Room(p)
  <2>1. Landing(t, p, {}) = Min(Siblings(t, p, {})) /\ Siblings(t, p, {}) # {}
    BY <1>6, <1>7, <1>9 DEF Landing, Siblings
  <2>2. Siblings(t, p, {}) \subseteq Core
    BY DEF Siblings
  <2>3. Min(Siblings(t, p, {})) \in Core
    BY <2>1, <2>2, LeastOf, Constants
  <2> QED BY <1>3, <1>4, <1>5, <2>1, <2>3, Constants
<1> QED BY <1>8, <1>9

\* Where no program sets a mask or pins cores, and the rings of all cores together
\* have an entry for every slot, no push fails and no task is lost, however many
\* tasks are live: 64 slots and rings of 31 ask for three cores.
THEOREM TasksKeptUnmasked ==
    ASSUME Unmasked, NTask <= NCore * QLen
    PROVE  Spec => []RunSound
<1>1. Init => SInv /\ Bare
  BY InitKeeps DEF Init, Bare, Resting
<1>2. SInv /\ Bare /\ [Next]_vars => (SInv /\ Bare)'
  BY NextKeeps, BareKeeps, RoomSomewhere
<1>3. SInv => RunSound
  BY SInvSound
<1> QED BY <1>1, <1>2, <1>3, PTL DEF Spec

-----------------------------------------------------------------------------
(* Where tasks start. *)

\* A step in which no task changes its place.
Still ==
    /\ rq' = rq /\ life' = life /\ pin' = pin
    /\ \A c \in Core : /\ core'[c].cur = core[c].cur /\ core'[c].todo = core[c].todo
                       /\ core[c].todo # {} => core'[c].pref = core[c].pref
    /\ \A t \in Task : wait'[t].parked <=> wait[t].parked

\* The steps that are not the executor's, and the preemption, move nobody.
LEMMA StillCalls ==
    ASSUME SInv, NEW c \in Core,
           \/ Preempt(c) \/ Arm(c)
           \/ \E k \in Key : Wait(c, k) \/ Post(c, k) \/ Consume(c, k)
           \/ \E m \in setting.masks : SetAffinity(c, m)
           \/ \E m \in setting.pins : CorePin(c, m)
    PROVE  Still
<1>0. /\ CoreOK /\ Shapes /\ Single /\ WaitOK
      /\ core[c] \in CoreRec /\ Shaped(core[c])
  BY Parts, CoreTypes
<1>1. CASE Preempt(c)
  <2>1. core[c].todo = {} /\ core' = [core EXCEPT ![c].pc = "unwind"]
    BY <1>0, <1>1 DEF Preempt, Running, At, Shaped
  <2>2. \A d \in Core : core'[d].cur = core[d].cur /\ core'[d].todo = core[d].todo
                        /\ (d # c => core'[d] = core[d])
    BY <1>0, <2>1 DEF CoreOK, CoreRec
  <2> QED BY <1>1, <2>1, <2>2 DEF Preempt, Still, place
<1>2. CASE Arm(c)
  <2>1. core[c].pc = "arm" /\ core[c].cur \in Task /\ core[c].key = Poll /\ core[c].todo = {}
    BY <1>0, <1>2 DEF Arm, At, Shaped
  <2>2. ~wait[core[c].cur].parked
    BY <1>0, <2>1 DEF Single, AtOne, OnCore
  <2>3. /\ core' = [core EXCEPT ![c].pc = "unwind", ![c].key = None]
        /\ wait' = Armed(core[c].cur, Poll)
        /\ UNCHANGED <<rq, life, pin>>
    BY <1>2, <2>1 DEF Arm, Cur, place
  <2>4. /\ \A d \in Core : core'[d].cur = core[d].cur /\ core'[d].todo = core[d].todo
        /\ \A d \in Core : d # c => core'[d] = core[d]
    BY <1>0, <2>1, <2>3, Turns
  <2>5. \A u \in Task : wait'[u].parked <=> wait[u].parked
    BY <1>0, <2>1, <2>2, <2>3, ArmedIs, Constants
  <2> QED BY <2>1, <2>3, <2>4, <2>5 DEF Still
<1>3. CASE \E k \in Key : Wait(c, k) \/ Post(c, k) \/ Consume(c, k)
  <2>1. PICK k \in Key : Wait(c, k) \/ Post(c, k) \/ Consume(c, k)
    BY <1>3
  <2>2. core[c].pc = "user" /\ core[c].cur \in Task /\ core[c].todo = {}
    BY <1>0, <2>1 DEF Wait, Post, Consume, Running, At, Shaped
  <2>3. CASE Wait(c, k)
    <3>1. PICK p : p = IF Apart(k) THEN "arm" ELSE "unwind"
      OBVIOUS
    <3>2. PICK q : q = IF Apart(k) THEN k ELSE None
      OBVIOUS
    <3>3. /\ core' = [core EXCEPT ![c].pc = p, ![c].key = q]
          /\ wait' = IF Apart(k) THEN wait ELSE Armed(core[c].cur, k)
          /\ UNCHANGED <<rq, life, pin>>
      BY <2>3, <3>1, <3>2 DEF Wait, Cur, place
    <3>4. p \in {"unwind", "arm", "wake"} /\ q \in Key \cup {None} /\ (p = "arm" => q = Poll)
      BY <3>1, <3>2 DEF Apart
    <3>5. /\ \A d \in Core : core'[d].cur = core[d].cur /\ core'[d].todo = core[d].todo
          /\ \A d \in Core : d # c => core'[d] = core[d]
      BY <1>0, <2>2, <3>3, <3>4, Turns
    <3>6. ~wait[core[c].cur].parked
      BY <1>0, <2>2 DEF Single, AtOne, OnCore
    <3>7. \A u \in Task : wait'[u].parked <=> wait[u].parked
      <4>1. CASE Apart(k)
        BY <3>3, <4>1
      <4>2. CASE ~Apart(k)
        BY <1>0, <2>2, <3>3, <3>6, <4>2, ArmedIs
      <4> QED BY <4>1, <4>2
    <3> QED BY <2>2, <3>3, <3>5, <3>7 DEF Still
  <2>4. CASE Post(c, k)
    <3>1. core' = [core EXCEPT ![c].pc = "wake", ![c].key = k] /\ UNCHANGED <<rq, life, wait, pin>>
      BY <2>4 DEF Post, place
    <3>2. /\ \A d \in Core : core'[d].cur = core[d].cur /\ core'[d].todo = core[d].todo
          /\ \A d \in Core : d # c => core'[d] = core[d]
      BY <1>0, <2>2, <3>1, Turns
    <3> QED BY <2>2, <3>1, <3>2 DEF Still
  <2>5. CASE Consume(c, k)
    BY <2>5 DEF Consume, Still, place
  <2> QED BY <2>1, <2>3, <2>4, <2>5
<1>4. CASE \E m \in setting.masks : SetAffinity(c, m)
  BY <1>4 DEF SetAffinity, Still
<1>5. CASE \E m \in setting.pins : CorePin(c, m)
  BY <1>5 DEF CorePin, Still
<1> QED BY <1>1, <1>2, <1>3, <1>4, <1>5

\* An expiry and a direction change no ring and no core.
LEMMA StillOthers ==
    ASSUME NEW t \in Task, Expire(t) \/ \E d \in Core : Direct(t, d)
    PROVE  Still
BY DEF Still, Expire, Direct, place

\* The executor's steps that move a task, each as what it does to rings, hands and
\* residents.
LEMMA TakesMoves ==
    ASSUME SInv, NEW c \in Core, NEW v \in Core, At(c, "idle"), rq[v] # <<>>,
           Dispatch(c, Head(rq[v])), rq' = [rq EXCEPT ![v] = Tail(@)]
    PROVE  \E t \in Task :
              /\ t = Head(rq[v]) /\ InRing(t, v)
              /\ pin' = [pin EXCEPT ![t] = None]
              /\ core'[c].pc = "user" /\ core'[c].cur = t /\ core'[c].todo = {}
              /\ \A d \in Core : d # c => core'[d] = core[d]
              /\ \A d \in Core, u \in Task : InRing(u, d)' <=> InRing(u, d) /\ u # t
<1>0. CoreOK /\ RingOK /\ Rings /\ Single
  BY Parts
<1>1. PICK t \in Task : t = Head(rq[v])
  BY <1>0, TailOf DEF RingOK, Rings
<1>2. t \in Elems(rq[v]) /\ Elems(Tail(rq[v])) = Elems(rq[v]) \ {t}
  BY <1>0, <1>1, TailOf DEF RingOK, Rings
<1>3. InRing(t, v) /\ \A d \in Core : d # v => ~InRing(t, d)
  BY <1>0, <1>2 DEF Single, AtOne, InRing
<1>4. \A d \in Core : rq'[d] = IF d = v THEN Tail(rq[v]) ELSE rq[d]
  BY <1>0 DEF RingOK
<1>5. \A d \in Core, u \in Task : InRing(u, d)' <=> InRing(u, d) /\ u # t
  BY <1>2, <1>3, <1>4 DEF InRing
<1>6. PICK r : r = [Resting EXCEPT !.pc = "user", !.cur = t]
  OBVIOUS
<1>7. r.pc = "user" /\ r.cur = t /\ r.todo = {}
  BY <1>6 DEF Resting
<1>8. core' = [core EXCEPT ![c] = r] /\ pin' = [pin EXCEPT ![t] = None]
  BY <1>1, <1>6 DEF Dispatch
<1> QED BY <1>0, <1>1, <1>3, <1>5, <1>7, <1>8 DEF CoreOK

\* What a requeue and a push change, as the masks and the pins see it.
LEMMA RequeueMoves ==
    ASSUME SInv, NEW c \in Core, Requeue(c)
    PROVE  \E t \in Task, h \in Core :
              /\ t = core[c].cur /\ h = Home(t, c)
              /\ core'[c].pc = "push" /\ core'[c].cur = None /\ core'[c].todo = {t} /\ core'[c].pref = h
              /\ \A d \in Core : d # c => core'[d] = core[d]
              /\ wait' = [wait EXCEPT ![t] = Awake]
              /\ pin' = IF h = c THEN pin ELSE [pin EXCEPT ![t] = h]
<1>0. CoreOK /\ Shapes /\ PlaceOK /\ iso # Core
  BY Parts
<1>1. core[c].pc = "unwind" /\ core[c].cur \in Task
  BY <1>0, CoreTypes DEF Requeue, At, Shaped
<1>2. PICK t \in Task : t = core[c].cur
  BY <1>1
<1>3. PICK h \in Core : h = Home(t, c)
  BY <1>0, HomeIn DEF PlaceOK
<1>4. PICK b : b = Pushing(c, {t}, h)
  OBVIOUS
<1>5. PICK r : r = [b EXCEPT !.cur = None]
  OBVIOUS
<1>6. /\ core' = [core EXCEPT ![c] = r] /\ wait' = [wait EXCEPT ![t] = Awake]
      /\ pin' = IF h = c THEN pin ELSE [pin EXCEPT ![t] = h]
  BY <1>2, <1>3, <1>4, <1>5 DEF Requeue, Cur
<1>7. b \in CoreRec /\ b.pc = "push" /\ b.todo = {t} /\ b.pref = h
  BY <1>0, <1>4, PushingIs DEF PlaceOK
<1>8. r.pc = "push" /\ r.cur = None /\ r.todo = {t} /\ r.pref = h
  BY <1>5, <1>7 DEF CoreRec
<1> QED BY <1>0, <1>2, <1>3, <1>6, <1>8 DEF CoreOK

LEMMA PushMoves ==
    ASSUME SInv, PushLands, NEW c \in Core, Push(c)
    PROVE  \E t \in Task, d \in Core :
              /\ t = Min(core[c].todo) /\ t \in core[c].todo
              /\ d = Landing(t, core[c].pref, core[c].seen)
              /\ core'[c].pc \in {"idle", "user", "push"}
              /\ core'[c].cur = core[c].cur /\ core'[c].todo = core[c].todo \ {t}
              /\ core'[c].todo # {} => core'[c].pref = core[c].pref
              /\ \A e \in Core : e # c => core'[e] = core[e]
              /\ \A e \in Core, u \in Task : InRing(u, e)' <=> InRing(u, e) \/ (u = t /\ e = d)
              /\ \A u \in Task : /\ wait'[u].parked = wait[u].parked
                                 /\ wait'[u].armed = wait[u].armed
<1>0. CoreOK /\ Shapes /\ RingOK /\ Rings /\ Single /\ WaitOK /\ PlaceOK /\ iso # Core
  BY Parts
<1>1. core[c].pc = "push" /\ core[c].todo # {} /\ core[c].todo \in SUBSET Task /\ core[c].pref \in Core
      /\ core[c].cur \in Task \cup {None}
  BY <1>0, CoreTypes DEF Push, At, Shaped
<1>2. Min(core[c].todo) \in core[c].todo
  BY <1>1, LeastOf, Constants
<1>3. PICK t \in Task : t = Min(core[c].todo) /\ t \in core[c].todo
  BY <1>1, <1>2
<1>4. Landing(t, core[c].pref, core[c].seen) # None
  BY <1>1, <1>3 DEF PushLands, At
<1>5. PICK d \in Core : d = Landing(t, core[c].pref, core[c].seen)
  BY <1>1, <1>4, LandsIn
<1>6. PICK r : r = IF core[c].todo = {t} THEN Back(c) ELSE Pushing(c, core[c].todo \ {t}, core[c].pref)
  OBVIOUS
<1>7. /\ rq' = [rq EXCEPT ![d] = Append(@, t)] /\ wait' = [wait EXCEPT ![t].key = None]
      /\ core' = [core EXCEPT ![c] = r]
  BY <1>3, <1>4, <1>5, <1>6 DEF Push
<1>8. /\ r.cur = core[c].cur /\ r.todo = core[c].todo \ {t} /\ (r.todo # {} => r.pref = core[c].pref)
      /\ r.pc \in {"idle", "user", "push"}
  <2>1. CASE core[c].todo = {t}
    BY <1>0, <1>6, <2>1, BackIs
  <2>2. CASE core[c].todo # {t}
    <3>1. core[c].todo \ {t} \in SUBSET Task /\ core[c].todo \ {t} # {}
      BY <1>1, <1>3, <2>2
    <3> QED BY <1>0, <1>1, <1>6, <2>2, <3>1, PushingIs DEF PlaceOK
  <2> QED BY <2>1, <2>2
<1>9. \A e \in Core, u \in Task : InRing(u, e)' <=> InRing(u, e) \/ (u = t /\ e = d)
  <2>1. t \notin Elems(rq[d])
    BY <1>0, <1>3 DEF Single, AtOne, InRing, InHand
  <2>2. Elems(Append(rq[d], t)) = Elems(rq[d]) \cup {t}
    BY <1>0, <2>1, AppendOf DEF RingOK, Rings
  <2>3. \A e \in Core : rq'[e] = IF e = d THEN Append(rq[d], t) ELSE rq[e]
    BY <1>0, <1>7 DEF RingOK
  <2> QED BY <2>2, <2>3 DEF InRing
<1>10. \A u \in Task : wait'[u].parked = wait[u].parked /\ wait'[u].armed = wait[u].armed
  <2>1. \A u \in Task : wait[u] \in WaitRec
    BY <1>0 DEF WaitOK
  <2> QED BY <1>0, <1>7, <2>1 DEF WaitOK, WaitRec
<1> QED BY <1>0, <1>3, <1>5, <1>7, <1>8, <1>9, <1>10 DEF CoreOK

\* Only a core that takes the head of a ring starts a task.
LEMMA StartsBy ==
    ASSUME SInv, PushLands, Next, NEW c \in Core, Starts(c)
    PROVE  Pop(c) \/ \E v \in Core : Steal(c, v)
<1>0. CoreOK /\ Shapes /\ iso \subseteq Core /\ iso # Core
  BY Parts DEF PlaceOK
<1>1. ASSUME NEW d \in Core, Kernel(d) \/ User(d), ~Pop(d), ~\E v \in Core : Steal(d, v)
      PROVE  core'[c].cur \in {core[c].cur, None}
  <2>1. CASE Still
    BY <2>1 DEF Still
  <2>2. CASE Scan(d)
    <3>1. PICK late \in SUBSET Task : late # {} /\ core' = [core EXCEPT ![d] = Pushing(d, late, d)]
      BY <2>2 DEF Scan
    <3> QED BY <1>0, <3>1, PushingIs DEF CoreOK
  <2>3. CASE Park(d)
    BY <1>0, <2>3, RestingIs DEF Park, CoreOK
  <2>4. CASE Requeue(d)
    BY <2>4, RequeueMoves
  <2>5. CASE Push(d)
    BY <2>5, PushMoves
  <2>6. CASE \E n \in setting.quotas : Wake(d, n)
    <3>1. PICK mine \in SUBSET Task :
            core' = [core EXCEPT ![d] = IF mine = {} THEN Back(d) ELSE Pushing(d, mine, d)]
      BY <2>6 DEF Wake
    <3>2. CASE mine = {}
      BY <1>0, <3>1, <3>2, BackIs DEF CoreOK
    <3>3. CASE mine # {}
      BY <1>0, <3>1, <3>3, PushingIs DEF CoreOK
    <3> QED BY <3>2, <3>3
  <2>7. CASE Exit(d)
    <3>1. PICK t : core' = [core EXCEPT ![d] = IF t \in Threads THEN [Resting EXCEPT !.pc = "wake", !.key = t]
                                               ELSE Resting]
      BY <2>7 DEF Exit
    <3>2. core'[d].cur = None /\ \A e \in Core : e # d => core'[e] = core[e]
      BY <1>0, <3>1 DEF CoreOK, Resting
    <3> QED BY <3>2
  <2>8. CASE \E t \in Task : Create(d, t)
    <3>1. PICK t \in Task : core' = [core EXCEPT ![d] = Pushing(d, {t}, d)]
      BY <2>8 DEF Create
    <3> QED BY <1>0, <3>1, PushingIs DEF CoreOK
  <2> QED BY <1>1, <2>1, <2>2, <2>3, <2>4, <2>5, <2>6, <2>7, <2>8, StillCalls DEF Kernel, User
<1>2. ASSUME NEW d \in Core, Pop(d) \/ \E v \in Core : Steal(d, v), d # c
      PROVE  core'[c].cur = core[c].cur
  BY <1>0, <1>2 DEF Pop, Steal, Dispatch, CoreOK
<1>3. ASSUME Still PROVE FALSE
  BY <1>3 DEF Still, Starts, Cur
<1> QED BY <1>1, <1>2, <1>3, StillOthers, Constants DEF Next, Starts, Cur

\* Without waits and creations nobody waits, and a queued task, or one in a core's
\* hand, may run where it is or is about to be put.
NoWaits == /\ \A c \in Core : core[c].pc \notin {"arm", "wake"}
           /\ \A t \in Task : ~wait[t].armed /\ ~wait[t].parked
RingsMay == \A c \in Core, t \in Task : InRing(t, c) => May(t, c)
HandsMay == \A c \in Core : \A t \in core[c].todo : May(t, core[c].pref)
MaskInv == Plain => NoWaits /\ RingsMay /\ HandsMay

\* A program without waits, joins and creations was one before the step too.
LEMMA PlainBack ==
    ASSUME SInv, Next, Plain'
    PROVE  Plain
<1>1. LifeOK
  BY Parts
<1>2. \/ life' = life
      \/ \E t \in Task : life' = [life EXCEPT ![t] = "dead"]
      \/ \E t \in Task : life' = [life EXCEPT ![t] = "live"]
  <2>1. ASSUME NEW c \in Core, Exit(c) PROVE \E t \in Task : life' = [life EXCEPT ![t] = "dead"]
    <3>1. core[c].cur \in Task
      BY <2>1, Parts, CoreTypes DEF Exit, Running, At, Shaped
    <3> QED BY <2>1, <3>1 DEF Exit, Cur
  <2> QED BY <2>1 DEF Next, Kernel, User, Pop, Steal, Scan, Preempt, Park, Requeue, Push, Arm, Wake,
                   Wait, Post, Consume, Create, SetAffinity, CorePin, Direct, Expire
<1>3. setting' = setting
  BY DEF Next, Kernel, User, Pop, Steal, Scan, Preempt, Park, Requeue, Push, Arm, Wake,
         Wait, Post, Consume, Exit, Create, SetAffinity, CorePin, Direct, Expire
<1>4. \A t \in Threads : life'[t] = "unborn"
  BY DEF Plain
<1>5. ASSUME NEW t \in Threads PROVE life[t] = "unborn"
  <2>1. t \in Task /\ life'[t] = "unborn"
    BY <1>4, Constants
  <2> QED BY <1>1, <1>2, <2>1 DEF LifeOK
<1> QED BY <1>3, <1>5 DEF Plain

\* The core a task is requeued on is one its mask allows.
LEMMA HomeMay ==
    ASSUME NEW t \in Task, NEW c \in Core, aff[t] \in SUBSET Core
    PROVE  May(t, Home(t, c))
<1> DEFINE d == IF mig[t] # None THEN mig[t] ELSE c
<1>1. CASE May(t, d)
  BY <1>1 DEF Home
<1>2. CASE ~May(t, d)
  <2>1. aff[t] # {} /\ aff[t] \subseteq Nat
    BY <1>2, Constants DEF May
  <2>2. Min(aff[t]) \in aff[t]
    BY <2>1, LeastOf
  <2> QED BY <1>2, <2>2 DEF Home, May
<1> QED BY <1>1, <1>2

\* A push that starts at an allowed core ends at an allowed one.
LEMMA LandsMay ==
    ASSUME NEW t \in Task, NEW c \in Core, NEW i, May(t, c), Landing(t, c, i) # None
    PROVE  May(t, Landing(t, c, i))
<1>1. CASE Open(t, c, i) /\ Room(c)
  BY <1>1 DEF Landing
<1>2. CASE ~(Open(t, c, i) /\ Room(c))
  <2>1. Siblings(t, c, i) # {} /\ Landing(t, c, i) = Min(Siblings(t, c, i))
    BY <1>2 DEF Landing
  <2>2. Siblings(t, c, i) \subseteq Nat
    BY Constants DEF Siblings
  <2> QED BY <2>1, <2>2, LeastOf DEF Siblings
<1> QED BY <1>1, <1>2

\* A step that queues nobody and changes no mask.
LEMMA MaskQuiet ==
    ASSUME NoWaits, RingsMay, HandsMay, aff' = aff, wait' = wait,
           \A c \in Core, t \in Task : InRing(t, c)' => InRing(t, c),
           \A c \in Core : /\ core'[c].pc \notin {"arm", "wake"}
                           /\ core'[c].todo # {} => /\ core'[c].todo = core[c].todo
                                                    /\ core'[c].pref = core[c].pref
    PROVE  NoWaits' /\ RingsMay' /\ HandsMay'
<1>1. NoWaits'
  BY DEF NoWaits
<1>2. RingsMay'
  BY DEF RingsMay, May
<1>3. HandsMay'
  BY DEF HandsMay, May
<1> QED BY <1>1, <1>2, <1>3

\* A running task that is the only one whose mask changes.
LEMMA MaskOfRunning ==
    ASSUME CoreOK, Shapes, Single, NoWaits, RingsMay, HandsMay, NEW c \in Core, UNCHANGED <<rq, core, wait>>,
           \A u \in Task : u # core[c].cur => aff'[u] = aff[u]
    PROVE  NoWaits' /\ RingsMay' /\ HandsMay'
<1>1. NoWaits'
  BY DEF NoWaits
<1>2. \A d \in Core, u \in Task : (InRing(u, d) \/ InHand(u, d)) => aff'[u] = aff[u]
  BY DEF Single, AtOne, OnCore
<1>3. RingsMay'
  BY <1>2 DEF RingsMay, May, InRing
<1>4. \A d \in Core : \A u \in core[d].todo : u \in Task
  BY CoreTypes
<1>5. HandsMay'
  BY <1>2, <1>4 DEF HandsMay, May, InHand
<1> QED BY <1>1, <1>3, <1>5

\* Rings and hands hold only tasks that may be there: every step keeps it.
LEMMA MaskKeeps ==
    ASSUME SInv, PushLands, MaskInv, Next
    PROVE  MaskInv'
<1> SUFFICES ASSUME Plain' PROVE NoWaits' /\ RingsMay' /\ HandsMay'
  BY DEF MaskInv
<1>0. /\ CoreOK /\ Shapes /\ Single /\ WaitOK /\ PlaceOK /\ iso # Core /\ setting \in Settings
  BY Parts
<1>1. NoWaits /\ RingsMay /\ HandsMay
  BY PlainBack DEF MaskInv
<1>2. setting.keys = {} /\ setting.born = {} /\ \A t \in Threads : life[t] = "unborn"
  BY PlainBack DEF Plain
<1>3. \A c \in Core : core[c].pc \notin {"arm", "wake"} /\ Shaped(core[c]) /\ core[c] \in CoreRec
  BY <1>0, <1>1, CoreTypes DEF NoWaits
<1>4. \A t \in Task : ~wait[t].armed /\ ~wait[t].parked
  BY <1>1 DEF NoWaits
<1>5. \A c \in Core : core[c].cur \in Task => core[c].cur \notin Threads
  BY <1>0, <1>2 DEF Single, AtOne, OnCore
<1>6. ASSUME NEW c \in Core, Pop(c) \/ \E v \in Core : Steal(c, v)
      PROVE  NoWaits' /\ RingsMay' /\ HandsMay'
  <2>1. PICK v \in Core : /\ At(c, "idle") /\ rq[v] # <<>> /\ Dispatch(c, Head(rq[v]))
                          /\ rq' = [rq EXCEPT ![v] = Tail(@)]
                          /\ aff' = aff /\ wait' = wait
    BY <1>6 DEF Pop, Steal
  <2>2. PICK t \in Task :
              /\ t = Head(rq[v]) /\ InRing(t, v)
              /\ pin' = [pin EXCEPT ![t] = None]
              /\ core'[c].pc = "user" /\ core'[c].cur = t /\ core'[c].todo = {}
              /\ \A d \in Core : d # c => core'[d] = core[d]
              /\ \A d \in Core, u \in Task : InRing(u, d)' <=> InRing(u, d) /\ u # t
    BY <2>1, TakesMoves
  <2> QED BY <1>1, <1>3, <2>1, <2>2, MaskQuiet
<1>7. ASSUME NEW c \in Core, Preempt(c)
      PROVE  NoWaits' /\ RingsMay' /\ HandsMay'
  <2>1. Still /\ rq' = rq /\ aff' = aff /\ wait' = wait /\ core' = [core EXCEPT ![c].pc = "unwind"]
    BY <1>7, StillCalls DEF Preempt, place
  <2>2. \A d \in Core : core'[d].pc \notin {"arm", "wake"}
    BY <1>0, <1>3, <2>1 DEF CoreOK, CoreRec
  <2>3. \A d \in Core, t \in Task : InRing(t, d)' => InRing(t, d)
    BY <2>1 DEF InRing
  <2> QED BY <1>1, <2>1, <2>2, <2>3, MaskQuiet DEF Still
<1>8. ASSUME NEW c \in Core, Requeue(c)
      PROVE  NoWaits' /\ RingsMay' /\ HandsMay'
  <2>1. PICK t \in Task, h \in Core :
              /\ t = core[c].cur /\ h = Home(t, c)
              /\ core'[c].pc = "push" /\ core'[c].cur = None /\ core'[c].todo = {t} /\ core'[c].pref = h
              /\ \A d \in Core : d # c => core'[d] = core[d]
              /\ wait' = [wait EXCEPT ![t] = Awake]
    BY <1>8, RequeueMoves
  <2>2. rq' = rq /\ aff' = aff
    BY <1>8 DEF Requeue
  <2>3. May(t, h)
    BY <1>0, <2>1, HomeMay DEF PlaceOK
  <2>4. NoWaits'
    BY <1>0, <1>3, <1>4, <2>1 DEF NoWaits, WaitOK, Awake
  <2>5. RingsMay'
    BY <1>1, <2>2 DEF RingsMay, InRing, May
  <2>6. HandsMay'
    BY <1>1, <2>1, <2>2, <2>3 DEF HandsMay, May
  <2> QED BY <2>4, <2>5, <2>6
<1>9. ASSUME NEW c \in Core, Push(c)
      PROVE  NoWaits' /\ RingsMay' /\ HandsMay'
  <2>1. PICK t \in Task, d \in Core :
              /\ t = Min(core[c].todo) /\ t \in core[c].todo
              /\ d = Landing(t, core[c].pref, core[c].seen)
              /\ core'[c].pc \in {"idle", "user", "push"}
              /\ core'[c].todo = core[c].todo \ {t}
              /\ core'[c].todo # {} => core'[c].pref = core[c].pref
              /\ \A e \in Core : e # c => core'[e] = core[e]
              /\ \A e \in Core, u \in Task : InRing(u, e)' <=> InRing(u, e) \/ (u = t /\ e = d)
              /\ \A u \in Task : /\ wait'[u].parked = wait[u].parked
                                 /\ wait'[u].armed = wait[u].armed
    BY <1>9, PushMoves
  <2>2. aff' = aff
    BY <1>9 DEF Push, place
  <2>3. May(t, d)
    <3>1. May(t, core[c].pref) /\ core[c].pref \in Core
      BY <1>0, <1>1, <2>1, CoreTypes DEF HandsMay
    <3>2. d # None
      BY Constants
    <3> QED BY <2>1, <3>1, <3>2, LandsMay
  <2>4. NoWaits'
    BY <1>3, <1>4, <2>1 DEF NoWaits
  <2>5. RingsMay'
    BY <1>1, <2>1, <2>2, <2>3 DEF RingsMay, May
  <2>6. HandsMay'
    BY <1>1, <2>1, <2>2 DEF HandsMay, May
  <2> QED BY <2>4, <2>5, <2>6
<1>10. ASSUME NEW c \in Core, Exit(c)
       PROVE  NoWaits' /\ RingsMay' /\ HandsMay'
  <2>1. core[c].cur \in Task
    BY <1>10, <1>3 DEF Exit, Running, At, Shaped
  <2>2. core' = [core EXCEPT ![c] = Resting] /\ rq' = rq /\ wait' = wait /\ aff' = aff
    BY <1>5, <1>10, <2>1 DEF Exit, Cur, place
  <2>3. \A d \in Core, t \in Task : InRing(t, d)' => InRing(t, d)
    BY <2>2 DEF InRing
  <2>4. \A d \in Core : core'[d] = IF d = c THEN Resting ELSE core[d]
    BY <1>0, <2>2 DEF CoreOK
  <2> QED BY <1>1, <1>3, <2>2, <2>3, <2>4, MaskQuiet, RestingIs
<1>11. ASSUME NEW c \in Core, NEW m, SetAffinity(c, m) \/ CorePin(c, m)
       PROVE  NoWaits' /\ RingsMay' /\ HandsMay'
  <2>1. core[c].cur \in Task /\ core[c].cur \notin Threads
    BY <1>3, <1>5, <1>11 DEF SetAffinity, CorePin, Running, At, Shaped
  <2>2. LeaderOf[core[c].cur] = core[c].cur
    BY <2>1 DEF Threads
  <2>3. UNCHANGED <<rq, core, wait>> /\ \A u \in Task : u # core[c].cur => aff'[u] = aff[u]
    BY <1>0, <1>11, <2>2 DEF SetAffinity, CorePin, Cur, PlaceOK
  <2> QED BY <1>0, <1>1, <2>3, MaskOfRunning
<1>12. ASSUME NEW t \in Task, NEW d \in Core, Direct(t, d)
       PROVE  NoWaits' /\ RingsMay' /\ HandsMay'
  <2>1. UNCHANGED <<rq, core, wait, aff>>
    BY <1>12 DEF Direct
  <2>2. \A e \in Core, u \in Task : InRing(u, e)' => InRing(u, e)
    BY <2>1 DEF InRing
  <2> QED BY <1>1, <1>3, <2>1, <2>2, MaskQuiet
<1>13. ASSUME NEW c \in Core
       PROVE  /\ ~Scan(c) /\ ~Park(c) /\ ~Arm(c) /\ \A n : ~Wake(c, n)
              /\ \A k \in Key : ~Wait(c, k) /\ ~Post(c, k) /\ ~Consume(c, k)
              /\ \A t \in Task : ~Create(c, t) /\ ~Expire(t)
  <2>1. ~Scan(c)
    BY <1>4 DEF Scan, Overdue
  <2>2. ~Park(c)
    BY <1>3, <1>4 DEF Park, At, Cur, Shaped
  <2>3. ~Arm(c) /\ \A n : ~Wake(c, n)
    BY <1>3 DEF Arm, Wake, At
  <2>4. \A k \in Key : ~Wait(c, k) /\ ~Post(c, k) /\ ~Consume(c, k)
    BY <1>2 DEF Wait, Post, Consume, MayWait
  <2>5. \A t \in Task : ~Create(c, t) /\ ~Expire(t)
    BY <1>2, <1>4 DEF Create, Expire
  <2> QED BY <2>1, <2>2, <2>3, <2>4, <2>5
<1>14. ASSUME NEW c \in Core, Kernel(c) \/ User(c)
       PROVE  NoWaits' /\ RingsMay' /\ HandsMay'
  BY <1>6, <1>7, <1>8, <1>9, <1>10, <1>11, <1>13, <1>14 DEF Kernel, User
<1>15. \A t \in Task : ~Expire(t)
  BY <1>4 DEF Expire
<1> QED BY <1>12, <1>14, <1>15 DEF Next

\* The pinned home of a task is the ring it is in, or where it is about to be put; a
\* task that runs, sleeps or is not there has none.
PinInv == \A t \in Task : pin[t] # None =>
              /\ \A c \in Core : InRing(t, c) => c = pin[t]
              /\ \A c \in Core : InHand(t, c) => core[c].pref = pin[t]
              /\ \A c \in Core : ~OnCore(t, c)
              /\ ~wait[t].parked /\ life[t] = "live"

\* The home of a pinned task has room and is open to it.
HomeLands ==
    \A c \in Core : (At(c, "push") /\ pin[Min(core[c].todo)] # None) =>
        Landing(Min(core[c].todo), core[c].pref, core[c].seen) = core[c].pref

\* A pinned task is on its way to the core it is sent to: every step keeps it.
LEMMA PinKeeps ==
    ASSUME SInv, PushLands, HomeLands, PinInv, Next
    PROVE  PinInv'
<1>0. /\ CoreOK /\ Shapes /\ Single /\ WaitOK /\ PlaceOK /\ LifeOK /\ iso # Core
  BY Parts
<1>1. CASE Still
  BY <1>1 DEF PinInv, Still, InRing, InHand, OnCore
<1>2. ASSUME NEW c \in Core, Pop(c) \/ \E v \in Core : Steal(c, v)
      PROVE  PinInv'
  <2>1. PICK v \in Core : /\ At(c, "idle") /\ rq[v] # <<>> /\ Dispatch(c, Head(rq[v]))
                          /\ rq' = [rq EXCEPT ![v] = Tail(@)]
                          /\ life' = life /\ wait' = wait
    BY <1>2 DEF Pop, Steal
  <2>2. PICK t \in Task :
              /\ t = Head(rq[v]) /\ InRing(t, v)
              /\ pin' = [pin EXCEPT ![t] = None]
              /\ core'[c].pc = "user" /\ core'[c].cur = t /\ core'[c].todo = {}
              /\ \A d \in Core : d # c => core'[d] = core[d]
              /\ \A d \in Core, u \in Task : InRing(u, d)' <=> InRing(u, d) /\ u # t
    BY <2>1, TakesMoves
  <2>3. ASSUME NEW u \in Task, u # t, pin[u] # None, pin'[u] = pin[u]
        PROVE  /\ \A d \in Core : InRing(u, d)' => d = pin'[u]
               /\ \A d \in Core : InHand(u, d)' => core'[d].pref = pin'[u]
               /\ \A d \in Core : ~OnCore(u, d)'
               /\ ~wait'[u].parked /\ life'[u] = "live"
    BY <2>1, <2>2, <2>3 DEF PinInv, InHand, OnCore
  <2>4. \A u \in Task : pin'[u] = IF u = t THEN None ELSE pin[u]
    BY <1>0, <2>2 DEF PlaceOK
  <2> QED BY <2>3, <2>4 DEF PinInv
<1>3. ASSUME NEW c \in Core, NEW S \in SUBSET Task, core' = [core EXCEPT ![c] = Pushing(c, S, c)], S # {},
             pin' = pin, rq' = rq, core[c].todo = {},
             \A t \in S : pin[t] = None,
             \A t \in Task \ S : life'[t] = life[t] /\ (wait'[t].parked => wait[t].parked)
      PROVE  PinInv'
  <2>1. \A d \in Core : d # c => core'[d] = core[d]
    BY <1>0, <1>3 DEF CoreOK
  <2>2. core'[c].cur = core[c].cur /\ core'[c].todo = S
    BY <1>0, <1>3, PushingIs DEF PlaceOK, CoreOK
  <2>3. ASSUME NEW u \in Task, pin'[u] # None
        PROVE  /\ \A d \in Core : InRing(u, d)' => d = pin'[u]
               /\ \A d \in Core : InHand(u, d)' => core'[d].pref = pin'[u]
               /\ \A d \in Core : ~OnCore(u, d)'
               /\ ~wait'[u].parked /\ life'[u] = "live"
    <3>1. u \notin S /\ pin[u] # None /\ life'[u] = life[u]
      BY <1>3, <2>3
    <3> QED BY <1>3, <2>1, <2>2, <2>3, <3>1 DEF PinInv, InHand, OnCore, InRing
  <2> QED BY <2>3 DEF PinInv
<1>4. ASSUME NEW c \in Core, Scan(c)
      PROVE  PinInv'
  <2>1. PICK S \in SUBSET Task : S = {t \in Task : Overdue(t)}
    OBVIOUS
  <2>2. /\ S # {} /\ wait' = Unparked(S) /\ core' = [core EXCEPT ![c] = Pushing(c, S, c)]
        /\ rq' = rq /\ life' = life /\ pin' = pin /\ core[c].pc = "idle"
    BY <1>4, <2>1 DEF Scan, place, At
  <2>3. core[c].todo = {}
    BY <1>0, <2>2, CoreTypes DEF Shaped
  <2>4. \A t \in S : pin[t] = None
    BY <2>1 DEF Overdue, PinInv
  <2>5. \A t \in Task : wait'[t].parked => wait[t].parked
    BY <1>0, <2>2, UnparkedIs
  <2> QED BY <1>3, <2>2, <2>3, <2>4, <2>5
<1>5. ASSUME NEW c \in Core, NEW n \in setting.quotas, Wake(c, n)
      PROVE  PinInv'
  <2>1. PICK all \in SUBSET Task : all = {t \in Task : Waiter(t, core[c].key)}
    OBVIOUS
  <2>2. PICK S \in SUBSET Task : S = {t \in all : Cardinality({u \in all : u < t}) < n}
    OBVIOUS
  <2>3. PICK mine \in SUBSET Task : mine = {t \in S : wait[t].parked}
    OBVIOUS
  <2>4. /\ core[c].pc = "wake" /\ wait' = Woken(S)
        /\ core' = [core EXCEPT ![c] = IF mine = {} THEN Back(c) ELSE Pushing(c, mine, c)]
        /\ rq' = rq /\ life' = life /\ pin' = pin
    BY <1>5, <2>1, <2>2, <2>3 DEF Wake, At, place
  <2>5. core[c].todo = {}
    BY <1>0, <2>4, CoreTypes DEF Shaped
  <2>6. \A t \in Task : wait'[t].parked => wait[t].parked
    BY <1>0, <2>4, WokenIs
  <2>7. CASE mine # {}
    <3>1. \A t \in mine : pin[t] = None
      BY <2>3 DEF PinInv
    <3>2. core' = [core EXCEPT ![c] = Pushing(c, mine, c)]
      BY <2>4, <2>7
    <3> QED BY <1>3, <2>4, <2>5, <2>6, <2>7, <3>1, <3>2
  <2>8. CASE mine = {}
    <3>1. \A d \in Core : core'[d].cur = core[d].cur /\ core'[d].todo = core[d].todo
                          /\ (d # c => core'[d] = core[d])
      BY <1>0, <2>4, <2>5, <2>8, BackIs DEF CoreOK
    <3> QED BY <2>4, <2>5, <2>6, <3>1 DEF PinInv, InHand, OnCore, InRing
  <2> QED BY <2>7, <2>8
<1>6. ASSUME NEW c \in Core, NEW t \in Task, Create(c, t)
      PROVE  PinInv'
  <2>1. core[c].pc = "user" /\ core' = [core EXCEPT ![c] = Pushing(c, {t}, c)] /\ life[t] = "unborn"
        /\ rq' = rq /\ pin' = pin /\ wait' = wait /\ life' = [life EXCEPT ![t] = "live"]
    BY <1>6 DEF Create, Running, At
  <2>2. core[c].todo = {}
    BY <1>0, <2>1, CoreTypes DEF Shaped
  <2>3. pin[t] = None
    BY <2>1 DEF PinInv
  <2>4. \A u \in Task \ {t} : life'[u] = life[u] /\ (wait'[u].parked => wait[u].parked)
    BY <1>0, <2>1 DEF LifeOK
  <2>5. {t} \in SUBSET Task /\ {t} # {} /\ \A u \in {t} : pin[u] = None
    BY <2>3
  <2>6. core' = [core EXCEPT ![c] = Pushing(c, {t}, c)] /\ rq' = rq /\ pin' = pin
    BY <2>1
  <2> QED BY <1>3, <2>2, <2>4, <2>5, <2>6
<1>7. ASSUME NEW c \in Core, Park(c) \/ Exit(c)
      PROVE  PinInv'
  <2>1. core[c].cur \in Task /\ core[c].todo = {}
    BY <1>0, <1>7, CoreTypes DEF Park, Exit, Running, At, Shaped
  <2>2. PICK t \in Task : t = core[c].cur
    BY <2>1
  <2>3. PICK r : core' = [core EXCEPT ![c] = r] /\ r.cur = None /\ r.todo = {}
    <3>1. Resting.cur = None /\ Resting.todo = {}
      BY RestingIs DEF Resting
    <3>2. CASE Park(c)
      BY <3>1, <3>2 DEF Park
    <3>3. CASE Exit(c)
      <4>1. PICK q : q = [Resting EXCEPT !.pc = "wake", !.key = t]
        OBVIOUS
      <4>2. q.cur = None /\ q.todo = {}
        BY <4>1 DEF Resting
      <4>3. core' = [core EXCEPT ![c] = q] \/ core' = [core EXCEPT ![c] = Resting]
        BY <2>2, <3>3, <4>1 DEF Exit, Cur
      <4> QED BY <3>1, <4>2, <4>3
    <3> QED BY <1>7, <3>2, <3>3
  <2>4. rq' = rq /\ pin' = pin
    BY <1>7 DEF Park, Exit, place
  <2>5. \A u \in Task \ {t} : life'[u] = life[u] /\ (wait'[u].parked <=> wait[u].parked)
    BY <1>0, <1>7, <2>2 DEF Park, Exit, Cur, WaitOK, LifeOK
  <2>6. pin[t] = None
    BY <2>2 DEF PinInv, OnCore
  <2>7. \A d \in Core : core'[d] = IF d = c THEN r ELSE core[d]
    BY <1>0, <2>3 DEF CoreOK
  <2> QED BY <2>1, <2>3, <2>4, <2>5, <2>6, <2>7, Constants DEF PinInv, InRing, InHand, OnCore
<1>8. ASSUME NEW c \in Core, Requeue(c)
      PROVE  PinInv'
  <2>1. PICK t \in Task, h \in Core :
              /\ t = core[c].cur /\ h = Home(t, c)
              /\ core'[c].pc = "push" /\ core'[c].cur = None /\ core'[c].todo = {t} /\ core'[c].pref = h
              /\ \A d \in Core : d # c => core'[d] = core[d]
              /\ wait' = [wait EXCEPT ![t] = Awake]
              /\ pin' = IF h = c THEN pin ELSE [pin EXCEPT ![t] = h]
    BY <1>8, RequeueMoves
  <2>2. rq' = rq /\ life' = life
    BY <1>8 DEF Requeue
  <2>3. AtOne(t) /\ OnCore(t, c) /\ pin[t] = None
    BY <1>0, <2>1 DEF Single, OnCore, PinInv
  <2>4. core[c].todo = {}
    BY <1>0, <1>8, CoreTypes DEF Requeue, At, Shaped
  <2>5. \A u \in Task : u # t => pin'[u] = pin[u] /\ wait'[u] = wait[u]
    BY <1>0, <2>1 DEF PlaceOK, WaitOK
  <2>6. ASSUME NEW u \in Task, u # t, pin'[u] # None
        PROVE  /\ \A d \in Core : InRing(u, d)' => d = pin'[u]
               /\ \A d \in Core : InHand(u, d)' => core'[d].pref = pin'[u]
               /\ \A d \in Core : ~OnCore(u, d)'
               /\ ~wait'[u].parked /\ life'[u] = "live"
    BY <2>1, <2>2, <2>5, <2>6, Constants DEF PinInv, InRing, InHand, OnCore
  <2>7. ASSUME pin'[t] # None
        PROVE  /\ \A d \in Core : InRing(t, d)' => d = pin'[t]
               /\ \A d \in Core : InHand(t, d)' => core'[d].pref = pin'[t]
               /\ \A d \in Core : ~OnCore(t, d)'
               /\ ~wait'[t].parked /\ life'[t] = "live"
    <3>1. pin'[t] = h
      BY <1>0, <2>1, <2>3, <2>7 DEF PlaceOK
    <3>2. \A d \in Core : ~InRing(t, d)'
      BY <2>2, <2>3 DEF AtOne, InRing
    <3>3. \A d \in Core : InHand(t, d)' => d = c
      BY <2>1, <2>3 DEF AtOne, InHand
    <3>4. \A d \in Core : ~OnCore(t, d)'
      BY <2>1, <2>3, Constants DEF AtOne, OnCore
    <3>5. ~wait'[t].parked /\ life'[t] = "live"
      BY <1>0, <2>1, <2>2, <2>3 DEF AtOne, WaitOK, Awake
    <3> QED BY <2>1, <3>1, <3>2, <3>3, <3>4, <3>5
  <2> QED BY <2>6, <2>7 DEF PinInv
<1>9. ASSUME NEW c \in Core, Push(c)
      PROVE  PinInv'
  <2>1. PICK t \in Task, d \in Core :
              /\ t = Min(core[c].todo) /\ t \in core[c].todo
              /\ d = Landing(t, core[c].pref, core[c].seen)
              /\ core'[c].pc \in {"idle", "user", "push"}
              /\ core'[c].cur = core[c].cur /\ core'[c].todo = core[c].todo \ {t}
              /\ core'[c].todo # {} => core'[c].pref = core[c].pref
              /\ \A e \in Core : e # c => core'[e] = core[e]
              /\ \A e \in Core, u \in Task : InRing(u, e)' <=> InRing(u, e) \/ (u = t /\ e = d)
              /\ \A u \in Task : /\ wait'[u].parked = wait[u].parked
                                 /\ wait'[u].armed = wait[u].armed
    BY <1>9, PushMoves
  <2>2. pin' = pin /\ life' = life
    BY <1>9 DEF Push, place
  <2>3. pin[t] # None => d = core[c].pref
    BY <1>9, <2>1 DEF HomeLands, Push
  <2>4. pin[t] # None => core[c].pref = pin[t]
    BY <2>1 DEF PinInv, InHand
  <2>5. ASSUME NEW u \in Task, pin[u] # None
        PROVE  /\ \A e \in Core : InRing(u, e)' => e = pin[u]
               /\ \A e \in Core : InHand(u, e)' => core'[e].pref = pin[u]
               /\ \A e \in Core : ~OnCore(u, e)'
               /\ ~wait'[u].parked /\ life'[u] = "live"
    <3>1. \A e \in Core : InRing(u, e)' => e = pin[u]
      BY <2>1, <2>3, <2>4, <2>5 DEF PinInv
    <3>2. \A e \in Core : InHand(u, e)' => core'[e].pref = pin[u]
      BY <2>1, <2>5 DEF PinInv, InHand
    <3>3. (\A e \in Core : ~OnCore(u, e)') /\ ~wait'[u].parked /\ life'[u] = "live"
      BY <2>1, <2>2, <2>5 DEF PinInv, OnCore
    <3> QED BY <3>1, <3>2, <3>3
  <2> QED BY <2>2, <2>5 DEF PinInv
<1>10. ASSUME NEW c \in Core, Kernel(c) \/ User(c)
       PROVE  PinInv'
  BY <1>1, <1>2, <1>4, <1>5, <1>6, <1>7, <1>8, <1>9, <1>10, StillCalls DEF Kernel, User
<1> QED BY <1>1, <1>10, StillOthers DEF Next

-----------------------------------------------------------------------------

\* A task that starts does so on a core of its mask, in programs that neither wait
\* nor create.
THEOREM MasksRespected == Spec /\ []PushLands => MovesRespectMask
<1>1. Init => SInv /\ MaskInv
  <2>1. ASSUME Init PROVE MaskInv
    <3>1. /\ core = [c \in Core |-> Resting] /\ wait = [t \in Task |-> Awake] /\ aff = [t \in Task |-> {}]
      BY <2>1 DEF Init
    <3>2. NoWaits
      BY <3>1 DEF NoWaits, Resting, Awake
    <3>3. RingsMay
      BY <3>1 DEF RingsMay, May
    <3>4. HandsMay
      BY <3>1 DEF HandsMay, Resting
    <3> QED BY <3>2, <3>3, <3>4 DEF MaskInv
  <2> QED BY <2>1, InitKeeps
<1>2. SInv /\ MaskInv /\ PushLands /\ [Next]_vars => (SInv /\ MaskInv)'
  <2>1. ASSUME MaskInv, UNCHANGED vars PROVE MaskInv'
    BY <2>1 DEF vars, place, MaskInv, Plain, NoWaits, RingsMay, HandsMay, InRing, May
  <2> QED BY <2>1, NextKeeps, MaskKeeps
<1>3. SInv /\ MaskInv /\ PushLands /\ [Next]_vars =>
        [Plain => \A c \in Core : Starts(c) => May(core'[c].cur, c)]_vars
  <2>1. SUFFICES ASSUME SInv, MaskInv, PushLands, Next, Plain, NEW c \in Core, Starts(c)
                 PROVE  May(core'[c].cur, c)
    OBVIOUS
  <2>2. RingsMay
    BY <2>1 DEF MaskInv
  <2>3. PICK v \in Core : /\ At(c, "idle") /\ rq[v] # <<>> /\ Dispatch(c, Head(rq[v]))
                          /\ rq' = [rq EXCEPT ![v] = Tail(@)]
                          /\ v = c \/ Stealable(Head(rq[v]), c)
    BY <2>1, StartsBy DEF Pop, Steal
  <2>4. PICK t \in Task :
              /\ t = Head(rq[v]) /\ InRing(t, v)
              /\ pin' = [pin EXCEPT ![t] = None]
              /\ core'[c].pc = "user" /\ core'[c].cur = t /\ core'[c].todo = {}
              /\ \A d \in Core : d # c => core'[d] = core[d]
              /\ \A d \in Core, u \in Task : InRing(u, d)' <=> InRing(u, d) /\ u # t
    BY <2>1, <2>3, TakesMoves
  <2> QED BY <2>2, <2>3, <2>4 DEF RingsMay, Stealable
<1> QED BY <1>1, <1>2, <1>3, PTL DEF Spec, MovesRespectMask

\* A task that is sent to a core starts there, as long as its ring has room for it.
THEOREM PinsHonoured == Spec /\ []PushLands /\ []HomeLands => PinHome
<1>1. Init => SInv /\ PinInv
  <2>1. Init => PinInv
    BY DEF Init, PinInv
  <2> QED BY <2>1, InitKeeps
<1>2. SInv /\ PinInv /\ PushLands /\ HomeLands /\ [Next]_vars => (SInv /\ PinInv)'
  <2>1. ASSUME PinInv, UNCHANGED vars PROVE PinInv'
    BY <2>1 DEF vars, place, PinInv, InRing, InHand, OnCore
  <2> QED BY <2>1, NextKeeps, PinKeeps
<1>3. SInv /\ PinInv /\ PushLands /\ [Next]_vars =>
        [\A c \in Core : Starts(c) => pin[core'[c].cur] \in {None, c}]_vars
  <2>1. SUFFICES ASSUME SInv, PinInv, PushLands, Next, NEW c \in Core, Starts(c)
                 PROVE  pin[core'[c].cur] \in {None, c}
    OBVIOUS
  <2>2. PICK v \in Core : /\ At(c, "idle") /\ rq[v] # <<>> /\ Dispatch(c, Head(rq[v]))
                          /\ rq' = [rq EXCEPT ![v] = Tail(@)]
                          /\ v = c \/ Stealable(Head(rq[v]), c)
    BY <2>1, StartsBy DEF Pop, Steal
  <2>3. PICK t \in Task :
              /\ t = Head(rq[v]) /\ InRing(t, v)
              /\ pin' = [pin EXCEPT ![t] = None]
              /\ core'[c].pc = "user" /\ core'[c].cur = t /\ core'[c].todo = {}
              /\ \A d \in Core : d # c => core'[d] = core[d]
              /\ \A d \in Core, u \in Task : InRing(u, d)' <=> InRing(u, d) /\ u # t
    BY <2>1, <2>2, TakesMoves
  <2> QED BY <2>1, <2>2, <2>3 DEF PinInv, Stealable
<1> QED BY <1>1, <1>2, <1>3, PTL DEF Spec, PinHome

=============================================================================
