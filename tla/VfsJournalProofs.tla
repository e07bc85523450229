-------------------------- MODULE VfsJournalProofs --------------------------
(***************************************************************************)
(* What the directory journal promises across a power loss, for any number *)
(* of processes, blocks, dirents and names: what a mount would recover has *)
(* every committed change, names stay unique, and no step brings an older  *)
(* directory back.                                                         *)
(***************************************************************************)
EXTENDS VfsJournal, FunctionTheorems, FiniteSetTheorems, SequenceTheorems, TLAPS

\* Every commit runs under g_vfs_lock, or nobody else is there to interfere; and
\* power is not lost in the middle of a rename's two blocks.
Orderly ==
    \A w \in Settings :
        /\ "mix" \notin w.windows
        /\ w.setters = {} \/ \E p \in Proc : w.callers \cup w.closers \subseteq {p}

Busy(p) == op[p].pc \notin {"idle", "close"}
Commits(p) == op[p].pc \in {"stage", "write"}
Queued(p, b) == \E i \in 1 .. Len(op[p].todo) : op[p].todo[i] = b

\* The slots the header names.
Published == IF hdr = None THEN 0 ELSE Len(hdr)

\* The directory a mount would load if the header were written now.
Journalled == [b \in Blk |-> IF slotOf[b] # None THEN shadow[slotOf[b]] ELSE home[b]]

SameName(x, y) == (x = None <=> y = None) /\ (x # None => x.name = y.name)

-----------------------------------------------------------------------------
(* The inductive invariant. *)

OpRec == [pc : {"idle", "close", "stage", "write", "header", "apply", "load"},
          kind : {"none", "idx", "multi", "flush", "sync", "mount"},
          todo : Seq(Blk), slot : 0 .. NBlk, carried : BOOLEAN, torn : BOOLEAN]
OpType == op \in [Proc -> OpRec]

\* One call at a time works on the journal.
OneBusy ==
    /\ \A p, q \in Proc : Busy(p) /\ Busy(q) => p = q
    /\ lock # None => Busy(lock)
    /\ \A p \in Proc : Busy(p) /\ power = "on" =>
          lock = p \/ setting.callers \cup setting.closers \subseteq {p}

\* Before the directory is loaded nothing in RAM is in use.
Off ==
    power # "on" => /\ lock = None /\ lazy = {} /\ lazyN = 0
                    /\ count = 0 /\ slotOf = [b \in Blk |-> None]

\* Where a call may be, and what it has left to do there.
PhaseOk(p) ==
    /\ op[p].pc = "idle" => op[p] = NoOp
    /\ op[p].pc = "close" => power = "on" /\ op[p] = [NoOp EXCEPT !.pc = "close"]
    /\ power = "off" => op[p] = NoOp
    /\ Busy(p) => op[p].kind # "none"
    /\ Busy(p) => (op[p].kind = "mount" <=> power = "boot")
    /\ Commits(p) => power = "on"
    /\ op[p].pc \in {"header", "apply"} => op[p].kind \in {"sync", "mount"}
    /\ op[p].pc = "load" => op[p].kind = "mount" /\ hdr = None
Phases == \A p \in Proc : PhaseOk(p)

\* What is left of a commit.
StepOk(p) ==
    /\ op[p].pc = "write" => op[p].todo # <<>> /\ op[p].slot = SlotFor(Head(op[p].todo))
    /\ op[p].torn => Commits(p) /\ op[p].kind = "multi" /\ hdr # None
    /\ op[p].carried => op[p].kind # "multi" /\ lazy = {}
    /\ Commits(p) /\ op[p].carried /\ op[p].todo = <<>> => lazyN = 0
    /\ Commits(p) /\ ~op[p].carried /\ op[p].kind \in {"flush", "sync"} => op[p].todo = <<>>
    /\ Commits(p) /\ ~op[p].carried /\ op[p].kind = "idx" /\ op[p].todo # <<>> =>
              Len(op[p].todo) = 1 /\ count = Published
    /\ op[p].kind = "sync" /\ op[p].pc \in {"header", "apply"} => lazyN = 0
Steps == \A p \in Proc : StepOk(p)

\* How far a sync or a mount has copied the slots home.
CopyOk(p) ==
    op[p].pc = "apply" =>
        /\ hdr # None /\ op[p].slot <= Len(hdr)
        /\ Len(op[p].todo) = Len(hdr) - op[p].slot
        /\ \A i \in 1 .. Len(op[p].todo) : op[p].todo[i] = hdr[op[p].slot + i]
        /\ \A i \in 1 .. op[p].slot : home[hdr[i]] = shadow[i - 1]
Copied == \A p \in Proc : CopyOk(p)

\* The slots in use are 0 .. count - 1, each of one block.
Slots ==
    /\ \A b \in Blk : slotOf[b] # None => slotOf[b] < count
    /\ \A b, c \in Blk : slotOf[b] = slotOf[c] /\ slotOf[b] # None => b = c
    /\ \A s \in 0 .. count - 1 : \E b \in Blk : slotOf[b] = s

\* The header names each block once, at its slot; between commits it names them all.
HeaderSound ==
    /\ \A i, j \in 1 .. Published : hdr[i] = hdr[j] => i = j
    /\ power = "on" => Published <= count /\ \A i \in 1 .. Published : slotOf[hdr[i]] = i - 1
    /\ power = "on" /\ ~Committing => count = Published

\* A slot the header does not name yet holds its block as it is in RAM.
Fresh ==
    power = "on" => \A b \in Blk :
        slotOf[b] # None /\ slotOf[b] >= Published => shadow[slotOf[b]] = dir[b]

\* What is neither deferred nor still to be staged is in the journal.
Durable ==
    power = "on" => \A e \in Ent :
        \/ e \in lazy
        \/ \E p \in Proc : Commits(p) /\ Queued(p, e[1])
        \/ At(Journalled, e) = At(dir, e)

\* A deferred change is no change of names.
NamesDurable ==
    power = "on" => \A e \in Ent :
        \/ \E p \in Proc : Commits(p) /\ ~op[p].carried /\ Queued(p, e[1])
        \/ SameName(At(Journalled, e), At(dir, e))

\* The directory in RAM has no name twice.
DirUnique ==
    power = "on" => \A e, f \in Ent :
        (At(dir, e) # None /\ At(dir, f) # None /\ e # f) => At(dir, e).name # At(dir, f).name

\* The deferred count reaches its limit only while a commit is there to publish it.
LazyBound ==
    lazyN = LazyMax => \E p \in Proc : Commits(p) /\ op[p].kind # "multi"

JInv ==
    /\ TypeOK /\ OpType /\ OneBusy /\ Off /\ Phases /\ Steps /\ Copied /\ Slots
    /\ HeaderSound /\ Fresh /\ Durable /\ NamesDurable /\ DirUnique /\ UniqueNames
    /\ NoForgottenAppend /\ LazyBound

-----------------------------------------------------------------------------
(* What a mount would recover, from the header and from the slots. *)

NamedAt(r, b) == {i \in 1 .. (IF r = None THEN 0 ELSE Len(r)) : r[i] = b}
Last(S) == CHOOSE i \in S : \A j \in S : j <= i
RecoveredIn(h, s, r) ==
    [b \in Blk |-> IF NamedAt(r, b) = {} THEN h[b] ELSE s[Last(NamedAt(r, b)) - 1]]

\* What a mount would recover is a function of the disk alone.
LEMMA RecoveredIs ==
    /\ Recovered = RecoveredIn(home, shadow, hdr)
    /\ Recovered' = RecoveredIn(home', shadow', hdr')
BY DEF Recovered, RecoveredIn, NamedAt, Last

\* A header of n slots that names no block twice.
GoodHeader(r, n) ==
    /\ n \in Nat /\ n = IF r = None THEN 0 ELSE Len(r)
    /\ r = None \/ (r \in Seq(Blk) /\ Len(r) <= NBlk)
    /\ \A i, j \in 1 .. n : r[i] = r[j] => i = j

\* The block a good header names at i comes from slot i - 1, every other block
\* from its home.
HeaderReads(h, s, r, n) ==
    /\ \A i \in 1 .. n : RecoveredIn(h, s, r)[r[i]] = s[i - 1]
    /\ \A b \in Blk : (\A i \in 1 .. n : r[i] # b) => RecoveredIn(h, s, r)[b] = h[b]
    /\ RecoveredIn(h, s, r) \in [Blk -> Row]

\* That is how vj_apply_pending reads a header that names no block twice.
LEMMA RecoveredByHeader ==
    ASSUME NEW h \in [Blk -> Row], NEW s \in [Blk -> Row], NEW r, NEW n, GoodHeader(r, n)
    PROVE  HeaderReads(h, s, r, n)
<1> USE DEF GoodHeader, HeaderReads
<1>0. NBlk \in Nat /\ n <= NBlk /\ (n # 0 => r \in Seq(Blk) /\ n = Len(r))
  BY VfsJournalAssumption
<1>1. ASSUME NEW i \in 1 .. n
      PROVE  /\ r[i] \in Blk /\ i - 1 \in Blk
             /\ RecoveredIn(h, s, r)[r[i]] = s[i - 1]
  <2>1. r[i] \in Blk /\ i - 1 \in Blk
    BY <1>0 DEF Blk
  <2>2. NamedAt(r, r[i]) = {i}
    BY DEF NamedAt
  <2>3. Last({i}) = i
    BY DEF Last
  <2> QED BY <2>1, <2>2, <2>3 DEF RecoveredIn
<1>2. ASSUME NEW b \in Blk, \A i \in 1 .. n : r[i] # b
      PROVE  RecoveredIn(h, s, r)[b] = h[b]
  <2>1. NamedAt(r, b) = {}
    BY <1>2 DEF NamedAt
  <2> QED BY <2>1 DEF RecoveredIn
<1>3. \A b \in Blk : RecoveredIn(h, s, r)[b] \in Row
  <2> SUFFICES ASSUME NEW b \in Blk
               PROVE  RecoveredIn(h, s, r)[b] \in Row
    OBVIOUS
  <2>1. CASE \E i \in 1 .. n : r[i] = b
    BY <2>1, <1>1
  <2>2. CASE \A i \in 1 .. n : r[i] # b
    BY <2>2, <1>2
  <2> QED BY <2>1, <2>2
<1>4. RecoveredIn(h, s, r) \in [Blk -> Row]
  BY <1>3 DEF RecoveredIn
<1> QED BY <1>1, <1>2, <1>4

\* The same by the slot table, when it agrees with the header.
LEMMA RecoveredBySlot ==
    ASSUME NEW h \in [Blk -> Row], NEW s \in [Blk -> Row], NEW r, NEW n, GoodHeader(r, n),
           NEW so \in [Blk -> Blk \cup {None}],
           \A i \in 1 .. n : so[r[i]] = i - 1,
           \A b, c \in Blk : so[b] = so[c] /\ so[b] # None => b = c
    PROVE  \A b \in Blk : RecoveredIn(h, s, r)[b] =
                IF so[b] # None /\ so[b] < n THEN s[so[b]] ELSE h[b]
<1>r. HeaderReads(h, s, r, n)
  BY RecoveredByHeader
<1> USE DEF GoodHeader
<1>0. /\ NBlk \in Nat /\ n <= NBlk /\ (n # 0 => r \in Seq(Blk) /\ n = Len(r))
      /\ Blk \subseteq Int /\ None \notin Int
  BY VfsJournalAssumption DEF Blk
<1>h. /\ \A i \in 1 .. n : RecoveredIn(h, s, r)[r[i]] = s[i - 1]
      /\ \A b \in Blk : (\A i \in 1 .. n : r[i] # b) => RecoveredIn(h, s, r)[b] = h[b]
  BY <1>r DEF HeaderReads
<1> SUFFICES ASSUME NEW b \in Blk
             PROVE  RecoveredIn(h, s, r)[b] =
                        IF so[b] # None /\ so[b] < n THEN s[so[b]] ELSE h[b]
  OBVIOUS
<1>1. CASE so[b] # None /\ so[b] < n
  <2>0. so[b] \in Int /\ so[b] >= 0
    BY <1>1 DEF Blk
  <2>1. PICK i \in 1 .. n : i = so[b] + 1
    BY <1>1, <2>0
  <2>4. so[b] = i - 1
    BY <2>1, <2>0
  <2>2. r[i] \in Blk /\ so[r[i]] = so[b]
    BY <2>4, <1>0
  <2>3. r[i] = b
    BY <2>2, <1>1
  <2> QED BY <2>3, <2>4, <1>h, <1>1
<1>2. CASE ~(so[b] # None /\ so[b] < n)
  <2>1. ASSUME NEW i \in 1 .. n, r[i] = b PROVE FALSE
    BY <2>1, <1>2, <1>0
  <2> QED BY <2>1, <1>h, <1>2
<1> QED BY <1>1, <1>2

\* A block without a slot finds one: the slots in use are of other blocks.
LEMMA FreeSlot ==
    ASSUME TypeOK, Slots, NEW b \in Blk, slotOf[b] = None
    PROVE  count \in Nat /\ count < NBlk
<1>0. NBlk \in Nat /\ count \in Nat /\ Blk \subseteq Int /\ None \notin Int
  BY VfsJournalAssumption DEF Blk, TypeOK
<1>1. PICK f : f = [s \in 0 .. count - 1 |-> CHOOSE c \in Blk : slotOf[c] = s]
  OBVIOUS
<1>2. \A s \in 0 .. count - 1 : f[s] \in Blk /\ slotOf[f[s]] = s
  BY <1>1 DEF Slots
<1>3. \A s \in 0 .. count - 1 : f[s] # b
  BY <1>2, <1>0
<1>4. f \in [0 .. count - 1 -> Blk \ {b}]
  BY <1>1, <1>2, <1>3
<1>5. f \in Injection(0 .. count - 1, Blk \ {b})
  BY <1>4, <1>2 DEF Injection, IsInjective
<1>6. IsFiniteSet(Blk) /\ Cardinality(Blk) = NBlk
  BY <1>0, VfsJournalAssumption, FS_Interval DEF Blk
<1>7. IsFiniteSet(Blk \ {b}) /\ Cardinality(Blk \ {b}) = NBlk - 1
  BY <1>6, FS_RemoveElement
<1>8. Cardinality(0 .. count - 1) <= NBlk - 1
  BY <1>5, <1>7, FS_Injection
<1>9. Cardinality(0 .. count - 1) = count
  BY <1>0, FS_Interval
<1> QED BY <1>0, <1>8, <1>9

\* The slot table and the header hold block numbers.
LEMMA SlotTypes ==
    ASSUME TypeOK
    PROVE  /\ NBlk \in Nat /\ NBlk > 0 /\ count \in Nat /\ count <= NBlk /\ None \notin Int
           /\ \A b \in Blk : slotOf[b] # None => slotOf[b] \in Nat /\ slotOf[b] \in Blk
           /\ Published \in Nat /\ Published <= NBlk
           /\ (hdr # None => hdr \in Seq(Blk) /\ Published = Len(hdr))
           /\ \A i \in 1 .. Published : hdr[i] \in Blk /\ i - 1 \in Blk
<1>1. NBlk \in Nat /\ NBlk > 0 /\ count \in Nat /\ count <= NBlk /\ None \notin Int
  BY VfsJournalAssumption DEF TypeOK
<1>2. \A b \in Blk : slotOf[b] # None => slotOf[b] \in Nat /\ slotOf[b] \in Blk
  BY <1>1 DEF TypeOK, Blk
<1>3. Published \in Nat /\ Published <= NBlk /\ (hdr # None => hdr \in Seq(Blk) /\ Published = Len(hdr))
  BY <1>1 DEF TypeOK, Published
<1>4. \A i \in 1 .. Published : hdr[i] \in Blk /\ i - 1 \in Blk
  BY <1>1, <1>3 DEF Published, Blk
<1> QED BY <1>1, <1>2, <1>3, <1>4

\* A caller that finds the lock free finds nobody at work.
LEMMA NobodyBusy ==
    ASSUME JInv, NEW p \in Proc, p \in setting.callers \cup setting.closers,
           ~Busy(p), lock = None, power = "on"
    PROVE  /\ \A q \in Proc : ~Busy(q) /\ ~Commits(q) /\ op[q].pc \in {"idle", "close"}
           /\ ~Committing /\ count = Published /\ lazyN # LazyMax
<1>1. \A q \in Proc : ~Busy(q)
  <2> SUFFICES ASSUME NEW q \in Proc, Busy(q)
               PROVE  FALSE
    OBVIOUS
  <2>1. lock = q \/ setting.callers \cup setting.closers \subseteq {q}
    BY DEF JInv, OneBusy
  <2>2. q # None
    BY VfsJournalAssumption
  <2> QED BY <2>1, <2>2
<1>2. \A q \in Proc : ~Commits(q) /\ op[q].pc \in {"idle", "close"}
  BY <1>1 DEF Busy, Commits
<1> QED BY <1>1, <1>2 DEF JInv, Committing, Commits, HeaderSound, LazyBound

-----------------------------------------------------------------------------
(* Starting a commit. *)

\* Process p finds the lock free, changes dirents of the blocks it will stage or
\* dirents it defers without renaming them, and begins its commit.
Starts(p, kind, todo, holder) ==
    /\ p \in setting.callers \cup setting.closers
    /\ ~Busy(p) /\ lock = None /\ power = "on"
    /\ kind \in {"idx", "multi", "flush", "sync"} /\ todo \in Seq(Blk)
    /\ kind = "idx" => Len(todo) = 1
    /\ kind \in {"flush", "sync"} => todo = <<>>
    /\ holder = p \/ (holder = None /\ setting.callers \cup setting.closers \subseteq {p})
    /\ Commit(p, kind, todo, holder)
    /\ dir' \in [Blk -> Row] /\ lazy' \in SUBSET Ent /\ lazyN' \in 0 .. LazyMax
    /\ \A e \in Ent : \/ e \in lazy' \/ (e \notin lazy /\ At(dir', e) = At(dir, e))
                      \/ \E i \in 1 .. Len(todo) : todo[i] = e[1]
    /\ \A e \in Ent : \/ SameName(At(dir', e), At(dir, e))
                      \/ \E i \in 1 .. Len(todo) : todo[i] = e[1]
    /\ DirUnique'
    /\ lazy' # {} => lazyN' # 0
    /\ lazyN' = LazyMax => kind # "multi"
    /\ UNCHANGED <<setting, disk, slotOf, count, power>>

\* A commit begins under the lock with nobody else at work.
LEMMA CommitStarts ==
    ASSUME JInv, NEW p \in Proc, NEW kind, NEW todo, NEW holder, Starts(p, kind, todo, holder)
    PROVE  JInv'
<1>0. /\ p \in setting.callers \cup setting.closers
      /\ ~Busy(p) /\ lock = None /\ power = "on"
      /\ kind \in {"idx", "multi", "flush", "sync"} /\ todo \in Seq(Blk)
      /\ kind = "idx" => Len(todo) = 1
      /\ kind \in {"flush", "sync"} => todo = <<>>
      /\ holder = p \/ (holder = None /\ setting.callers \cup setting.closers \subseteq {p})
      /\ Commit(p, kind, todo, holder)
      /\ dir' \in [Blk -> Row] /\ lazy' \in SUBSET Ent /\ lazyN' \in 0 .. LazyMax
      /\ \A e \in Ent : \/ e \in lazy' \/ (e \notin lazy /\ At(dir', e) = At(dir, e))
                        \/ \E i \in 1 .. Len(todo) : todo[i] = e[1]
      /\ \A e \in Ent : \/ SameName(At(dir', e), At(dir, e))
                        \/ \E i \in 1 .. Len(todo) : todo[i] = e[1]
      /\ DirUnique'
      /\ lazy' # {} => lazyN' # 0
      /\ lazyN' = LazyMax => kind # "multi"
      /\ UNCHANGED <<setting, disk, slotOf, count, power>>
  BY DEF Starts
<1> HIDE DEF Starts
<1>1. /\ \A q \in Proc : ~Busy(q) /\ ~Commits(q) /\ op[q].pc \in {"idle", "close"}
      /\ ~Committing /\ count = Published
  BY <1>0, NobodyBusy
<1>2. /\ home' = home /\ shadow' = shadow /\ hdr' = hdr /\ setting' = setting
      /\ slotOf' = slotOf /\ count' = count /\ power' = "on" /\ lock' = holder
  BY <1>0 DEF disk, Commit
<1>3. op \in [Proc -> OpRec]
  BY DEF JInv, OpType
<1>4. NBlk \in Nat /\ None \notin Proc /\ LazyMax \in Nat
  BY VfsJournalAssumption
<1>5. /\ op'[p] = [pc |-> "stage", kind |-> kind, todo |-> todo, slot |-> 0,
                   carried |-> FALSE, torn |-> FALSE]
      /\ \A q \in Proc : q # p => op'[q] = op[q]
  BY <1>0, <1>3 DEF Commit, NoOp
<1>6. /\ op'[p].pc = "stage" /\ op'[p].kind = kind /\ op'[p].todo = todo /\ op'[p].slot = 0
      /\ op'[p].carried = FALSE /\ op'[p].torn = FALSE
  BY <1>0, <1>5
<1>7. \A q \in Proc : q # p => /\ op'[q].pc \in {"idle", "close"}
                               /\ op'[q].carried = FALSE /\ op'[q].torn = FALSE
                               /\ op'[q].kind = "none"
  BY <1>0, <1>1, <1>5 DEF JInv, Phases, PhaseOk, NoOp
<1>8. /\ Busy(p)' /\ Commits(p)' /\ \A q \in Proc : q # p => ~Busy(q)' /\ ~Commits(q)'
      /\ \A b : Queued(p, b)' <=> \E i \in 1 .. Len(todo) : todo[i] = b
  BY <1>0, <1>6, <1>7 DEF Busy, Commits, Queued
<1>9. Published' = Published /\ Journalled' = Journalled /\ Recovered' = Recovered
  BY <1>0, <1>2 DEF Published, Journalled, Recovered
<1>10. OpType'
  <2>1. op'[p] \in OpRec
    BY <1>0, <1>4, <1>5 DEF OpRec
  <2>2. op' = [op EXCEPT ![p] = op'[p]]
    BY <1>0, <1>3 DEF Commit
  <2> QED BY <1>0, <1>3, <2>1, <2>2 DEF OpType
<1>11. TypeOK'
  <2>1. \A q \in Proc : op'[q].todo \in Seq(Blk) /\ op'[q].slot \in 0 .. NBlk
    BY <1>0, <1>10 DEF OpType, OpRec
  <2>2. holder \in Proc \cup {None} /\ TypeOK
    BY <1>0 DEF JInv
  <2> QED BY <1>0, <1>2, <2>1, <2>2 DEF TypeOK
<1>12. OneBusy'
  BY <1>0, <1>2, <1>4, <1>8 DEF OneBusy
<1>13. Off' /\ DirUnique' /\ NoForgottenAppend'
  BY <1>0, <1>2 DEF Off, NoForgottenAppend
<1>14. Phases'
  <2> SUFFICES ASSUME NEW q \in Proc PROVE PhaseOk(q)'
    BY DEF Phases
  <2>1. CASE q = p
    BY <1>0, <2>1, <1>2, <1>6, <1>8 DEF PhaseOk
  <2>2. CASE q # p
    <3>1. PhaseOk(q)
      BY DEF JInv, Phases
    <3> QED BY <3>1, <2>2, <1>0, <1>2, <1>5, <1>7, <1>8 DEF PhaseOk
  <2> QED BY <2>1, <2>2
<1>15. Steps'
  <2> SUFFICES ASSUME NEW q \in Proc PROVE StepOk(q)'
    BY DEF Steps
  <2>1. CASE q = p
    BY <1>0, <2>1, <1>1, <1>2, <1>6, <1>9 DEF StepOk
  <2>2. CASE q # p
    BY <2>2, <1>7, <1>8 DEF StepOk
  <2> QED BY <2>1, <2>2
<1>16. Copied'
  BY <1>0, <1>6, <1>7 DEF Copied, CopyOk
<1>17. Slots'
  BY <1>0, <1>2 DEF JInv, Slots
<1>18. HeaderSound'
  BY <1>0, <1>1, <1>2, <1>9 DEF JInv, HeaderSound
<1>19. Fresh'
  <2>1. \A b \in Blk : slotOf[b] # None => slotOf[b] < count /\ slotOf[b] \in Int /\ count \in Int
    BY SlotTypes DEF JInv, Slots
  <2> QED BY <1>0, <2>1, <1>1, <1>2, <1>9 DEF Fresh
<1>20. Durable'
  <2> SUFFICES ASSUME NEW e \in Ent
               PROVE  \/ e \in lazy'
                      \/ \E q \in Proc : Commits(q)' /\ Queued(q, e[1])'
                      \/ At(Journalled', e) = At(dir', e)
    BY DEF Durable, At
  <2>1. e \in lazy \/ At(Journalled, e) = At(dir, e)
    BY <1>0, <1>1 DEF JInv, Durable
  <2> QED BY <1>0, <2>1, <1>8, <1>9
<1>21. NamesDurable'
  <2> SUFFICES ASSUME NEW e \in Ent
               PROVE  \/ \E q \in Proc : Commits(q)' /\ ~op'[q].carried /\ Queued(q, e[1])'
                      \/ SameName(At(Journalled', e), At(dir', e))
    BY DEF NamesDurable, At, SameName
  <2>1. SameName(At(Journalled, e), At(dir, e))
    BY <1>0, <1>1 DEF JInv, NamesDurable
  <2>2. CASE SameName(At(dir', e), At(dir, e))
    BY <1>0, <2>1, <2>2, <1>9 DEF SameName
  <2> QED BY <1>0, <2>2, <1>6, <1>8
<1>22. UniqueNames'
  <2>1. ~Mixed
    BY <1>0, <1>1 DEF JInv, Steps, StepOk, Mixed
  <2> QED BY <2>1, <1>9 DEF JInv, UniqueNames, At
<1>23. LazyBound'
  BY <1>0, <1>6, <1>8 DEF LazyBound
<1> QED BY <1>0, <1>10, <1>11, <1>12, <1>13, <1>14, <1>15, <1>16, <1>17, <1>18, <1>19, <1>20,
           <1>21, <1>22, <1>23 DEF JInv

Put(d, e, x) == [d EXCEPT ![e[1]][e[2]] = x]

\* Putting one dirent in a directory changes that one.
LEMMA PutAt ==
    ASSUME NEW d \in [Blk -> Row], NEW e \in Ent, NEW x \in Dirent
    PROVE  /\ Put(d, e, x) \in [Blk -> Row]
           /\ \A f \in Ent : At(Put(d, e, x), f) = IF f = e THEN x ELSE At(d, f)
<1>1. e[1] \in Blk /\ e[2] \in Pos /\ e = <<e[1], e[2]>>
  BY DEF Ent
<1>2. PICK r : r = [d[e[1]] EXCEPT ![e[2]] = x]
  OBVIOUS
<1>3. Put(d, e, x) = [d EXCEPT ![e[1]] = r]
  BY <1>2 DEF Put
<1>4. r \in Row /\ \A i \in Pos : r[i] = IF i = e[2] THEN x ELSE d[e[1]][i]
  BY <1>1, <1>2 DEF Row
<1>5. [d EXCEPT ![e[1]] = r] \in [Blk -> Row]
  BY <1>4
<1>6. ASSUME NEW f \in Ent
      PROVE  At([d EXCEPT ![e[1]] = r], f) = IF f = e THEN x ELSE At(d, f)
  <2>1. f[1] \in Blk /\ f[2] \in Pos /\ f = <<f[1], f[2]>>
    BY DEF Ent
  <2>2. f = e <=> f[1] = e[1] /\ f[2] = e[2]
    BY <1>1, <2>1
  <2> QED BY <1>1, <1>4, <2>1, <2>2 DEF At
<1> QED BY <1>3, <1>5, <1>6

\* A dirent in use, and the same with new content or attributes.
LEMMA ChangedAt ==
    ASSUME TypeOK, NEW e \in Ent, At(dir, e) # None
    PROVE  /\ At(dir, e) \in [name : Name, ver : {0, 1}]
           /\ Changed(e) \in [Blk -> Row]
           /\ \A f \in Ent : f # e => At(Changed(e), f) = At(dir, f)
           /\ At(Changed(e), e) # None /\ At(Changed(e), e).name = At(dir, e).name
           /\ \A f \in Ent : SameName(At(Changed(e), f), At(dir, f))
<1>1. At(dir, e) \in Dirent /\ dir \in [Blk -> Row]
  BY DEF TypeOK, At, Ent, Row
<1>2. PICK x : x = [At(dir, e) EXCEPT !.ver = 1 - @]
  OBVIOUS
<1>3. x \in [name : Name, ver : {0, 1}] /\ x.name = At(dir, e).name /\ x # None
  BY <1>1, <1>2, VfsJournalAssumption DEF Dirent
<1>4. x \in Dirent
  BY <1>3 DEF Dirent
<1>5. Changed(e) = Put(dir, e, x)
  BY <1>2 DEF Changed, Set, Put
<1>6. /\ Changed(e) \in [Blk -> Row]
      /\ \A f \in Ent : At(Changed(e), f) = IF f = e THEN x ELSE At(dir, f)
  BY <1>1, <1>4, <1>5, PutAt
<1> QED BY <1>1, <1>3, <1>5, <1>6 DEF Dirent, SameName

\* What a caller that took the lock knows.
LEMMA EnteringFacts ==
    ASSUME JInv, NEW p \in Proc, Entering(p)
    PROVE  /\ p \in setting.callers /\ p \in setting.callers \cup setting.closers
           /\ ~Busy(p) /\ lock = None /\ power = "on" /\ op[p] = NoOp
           /\ lazy \in SUBSET Ent /\ lazyN \in 0 .. LazyMax /\ lazyN # LazyMax
           /\ (lazy # {} => lazyN # 0) /\ dir \in [Blk -> Row]
<1>1. /\ p \in setting.callers /\ lock = None /\ power = "on" /\ op[p] = NoOp
  BY DEF Entering
<1>2. ~Busy(p)
  BY <1>1 DEF Busy, NoOp
<1> QED BY <1>1, <1>2, NobodyBusy DEF JInv, TypeOK, NoForgottenAppend

\* SYS_WRITE and SYS_OPEN on one dirent.
LEMMA WriteKeeps ==
    ASSUME JInv, NEW p \in Proc, NEW n \in Name, Write(p, n)
    PROVE  JInv'
<1>1. Entering(p) /\ UNCHANGED <<setting, disk, slotOf, count, lazy, lazyN, power>>
  BY DEF Write
<1>2. PICK e \in Ent : /\ Target(n, e)
                       /\ dir' = IF Exists(n) THEN Changed(e) ELSE Set(e, [name |-> n, ver |-> 0])
                       /\ Commit(p, "idx", <<e[1]>>, p)
  BY DEF Write
<1>3. TypeOK /\ DirUnique /\ dir \in [Blk -> Row] /\ <<e[1]>> \in Seq(Blk)
  BY <1>1, EnteringFacts DEF JInv, Ent
<1>4. /\ dir' \in [Blk -> Row] /\ \A f \in Ent : f # e => At(dir', f) = At(dir, f)
      /\ At(dir', e) # None /\ At(dir', e).name = n
      /\ \A f \in Ent : f # e /\ At(dir, f) # None => At(dir, f).name # n
  <2>1. CASE Exists(n)
    <3>1. Named(n, e)
      BY <1>2, <2>1 DEF Target
    <3>2. At(dir, e) # None /\ At(dir, e).name = n
      BY <3>1 DEF Named
    <3> QED BY <1>1, <1>2, <1>3, <2>1, <3>2, ChangedAt, EnteringFacts DEF DirUnique
  <2>2. CASE ~Exists(n)
    <3>1. PICK x : x = [name |-> n, ver |-> 0]
      OBVIOUS
    <3>2. x \in Dirent /\ x # None /\ x.name = n
      BY <3>1, VfsJournalAssumption DEF Dirent
    <3>3. dir' = Put(dir, e, x)
      BY <1>2, <2>2, <3>1 DEF Set, Put
    <3>4. dir' \in [Blk -> Row] /\ \A f \in Ent : At(dir', f) = IF f = e THEN x ELSE At(dir, f)
      BY <1>3, <3>2, <3>3, PutAt
    <3> QED BY <2>2, <3>2, <3>4 DEF Exists, Named
  <2> QED BY <2>1, <2>2
<1>5. DirUnique'
  BY <1>1, <1>3, <1>4, EnteringFacts DEF DirUnique, At
<1>6. \A f \in Ent : At(dir', f) = At(dir, f) \/ \E i \in 1 .. Len(<<e[1]>>) : <<e[1]>>[i] = f[1]
  BY <1>4
<1>7. \A f \in Ent : \/ SameName(At(dir', f), At(dir, f))
                     \/ \E i \in 1 .. Len(<<e[1]>>) : <<e[1]>>[i] = f[1]
  BY <1>6 DEF SameName
<1>8. \A f \in Ent : \/ f \in lazy' \/ (f \notin lazy /\ At(dir', f) = At(dir, f))
                     \/ \E i \in 1 .. Len(<<e[1]>>) : <<e[1]>>[i] = f[1]
  BY <1>1, <1>6
<1>9. Starts(p, "idx", <<e[1]>>, p)
  BY <1>1, <1>2, <1>3, <1>4, <1>5, <1>7, <1>8, EnteringFacts DEF Starts
<1> QED BY <1>9, CommitStarts

\* SYS_VFS_UNLINK: the dirent is cleared.
LEMMA UnlinkKeeps ==
    ASSUME JInv, NEW p \in Proc, NEW n \in Name, Unlink(p, n)
    PROVE  JInv'
<1>1. Entering(p) /\ UNCHANGED <<setting, disk, slotOf, count, lazy, lazyN, power>>
  BY DEF Unlink
<1>2. PICK e \in Ent : Named(n, e) /\ dir' = Set(e, None) /\ Commit(p, "idx", <<e[1]>>, p)
  BY DEF Unlink
<1>3. DirUnique /\ dir \in [Blk -> Row] /\ <<e[1]>> \in Seq(Blk) /\ None \in Dirent
  BY <1>1, EnteringFacts DEF JInv, Ent, Dirent
<1>4. dir' \in [Blk -> Row] /\ \A f \in Ent : At(dir', f) = IF f = e THEN None ELSE At(dir, f)
  <2>1. dir' = Put(dir, e, None)
    BY <1>2 DEF Set, Put
  <2> QED BY <1>3, <2>1, PutAt
<1>5. DirUnique'
  BY <1>1, <1>3, <1>4, EnteringFacts DEF DirUnique, At
<1>6. \A f \in Ent : At(dir', f) = At(dir, f) \/ \E i \in 1 .. Len(<<e[1]>>) : <<e[1]>>[i] = f[1]
  BY <1>4
<1>7. Starts(p, "idx", <<e[1]>>, p)
  BY <1>1, <1>2, <1>3, <1>4, <1>5, <1>6, EnteringFacts DEF Starts, SameName
<1> QED BY <1>7, CommitStarts

\* vfs_rename: the moved dirent takes the name and the replaced one is cleared.
LEMMA RenameKeeps ==
    ASSUME JInv, NEW p \in Proc, NEW m \in Name, NEW n \in Name, Rename(p, m, n)
    PROVE  JInv'
<1>1. Entering(p) /\ m # n /\ UNCHANGED <<setting, disk, slotOf, count, lazy, lazyN, power>>
  BY DEF Rename
<1>2. PICK e \in Ent :
          /\ Named(m, e)
          /\ \/ /\ ~Exists(n)
                /\ dir' = Set(e, [At(dir, e) EXCEPT !.name = n])
                /\ Commit(p, "multi", <<e[1]>>, p)
             \/ \E f \in Ent :
                /\ Named(n, f)
                /\ dir' = [Set(e, [At(dir, e) EXCEPT !.name = n]) EXCEPT ![f[1]][f[2]] = None]
                /\ Commit(p, "multi", RenamedBoth(e, f), p)
  BY DEF Rename
<1>3. DirUnique /\ dir \in [Blk -> Row] /\ <<e[1]>> \in Seq(Blk) /\ None \in Dirent
  BY <1>1, EnteringFacts DEF JInv, Ent, Dirent
<1>4. PICK x : x = [At(dir, e) EXCEPT !.name = n]
  OBVIOUS
<1>5. x \in Dirent /\ x # None /\ x.name = n /\ At(dir, e) # None /\ At(dir, e).name = m
  <2>1. At(dir, e) \in Dirent /\ At(dir, e) # None /\ At(dir, e).name = m
    BY <1>2, <1>3 DEF Named, At, Ent, Row
  <2> QED BY <1>4, <2>1, VfsJournalAssumption DEF Dirent
<1>6. PICK d : d = Put(dir, e, x)
  OBVIOUS
<1>7. d \in [Blk -> Row] /\ \A f \in Ent : At(d, f) = IF f = e THEN x ELSE At(dir, f)
  BY <1>3, <1>5, <1>6, PutAt
<1>8. CASE ~Exists(n) /\ dir' = Set(e, [At(dir, e) EXCEPT !.name = n]) /\ Commit(p, "multi", <<e[1]>>, p)
  <2>1. dir' = d
    BY <1>4, <1>6, <1>8 DEF Set, Put
  <2>2. \A f \in Ent : At(dir, f) # None => At(dir, f).name # n
    BY <1>8 DEF Exists, Named
  <2>3. DirUnique'
    BY <1>1, <1>3, <1>5, <1>7, <2>1, <2>2, EnteringFacts DEF DirUnique, At
  <2>4. \A f \in Ent : At(dir', f) = At(dir, f) \/ \E i \in 1 .. Len(<<e[1]>>) : <<e[1]>>[i] = f[1]
    BY <1>7, <2>1
  <2>5. Starts(p, "multi", <<e[1]>>, p)
    BY <1>1, <1>3, <1>7, <1>8, <2>1, <2>3, <2>4, EnteringFacts DEF Starts, SameName
  <2> QED BY <2>5, CommitStarts
<1>9. ASSUME NEW f \in Ent, Named(n, f),
             dir' = [Set(e, [At(dir, e) EXCEPT !.name = n]) EXCEPT ![f[1]][f[2]] = None],
             Commit(p, "multi", RenamedBoth(e, f), p)
      PROVE  JInv'
  <2>1. dir' = Put(d, f, None)
    BY <1>4, <1>6, <1>9 DEF Set, Put
  <2>2. /\ dir' \in [Blk -> Row]
        /\ \A g \in Ent : At(dir', g) = IF g = f THEN None ELSE At(d, g)
    BY <1>3, <1>7, <2>1, PutAt
  <2>3. At(dir, f) # None /\ At(dir, f).name = n
    BY <1>9 DEF Named
  <2>4. \A g \in Ent : g # f /\ At(dir, g) # None => At(dir, g).name # n
    BY <1>1, <1>3, <2>3, EnteringFacts DEF DirUnique
  <2>5. \A g \in Ent : At(dir', g) = IF g = f THEN None ELSE IF g = e THEN x ELSE At(dir, g)
    BY <1>7, <2>2
  <2>6. DirUnique'
    BY <1>1, <1>3, <1>5, <2>4, <2>5, EnteringFacts DEF DirUnique, At
  <2>7. RenamedBoth(e, f) \in Seq(Blk)
    BY DEF RenamedBoth, Ent
  <2>8. ASSUME NEW g \in Ent
        PROVE  At(dir', g) = At(dir, g)
               \/ \E i \in 1 .. Len(RenamedBoth(e, f)) : RenamedBoth(e, f)[i] = g[1]
    <3>1. CASE g = e
      BY <3>1 DEF RenamedBoth
    <3>2. CASE g = f
      BY <3>2 DEF RenamedBoth
    <3> QED BY <2>5, <3>1, <3>2
  <2>9. Starts(p, "multi", RenamedBoth(e, f), p)
    BY <1>1, <1>9, <2>2, <2>6, <2>7, <2>8, EnteringFacts DEF Starts, SameName
  <2> QED BY <2>9, CommitStarts
<1> QED BY <1>2, <1>8, <1>9

\* SYS_CHMOD, SYS_CHOWN: only where the caller is alone.
LEMMA ChmodKeeps ==
    ASSUME JInv, Orderly, NEW p \in Proc, NEW n \in Name, Chmod(p, n)
    PROVE  JInv'
<1>1. /\ Entering(p) /\ UNCHANGED <<setting, disk, slotOf, count, lazy, lazyN, power>>
      /\ p \in setting.setters
  BY DEF Chmod
<1>2. PICK e \in Ent : Named(n, e) /\ dir' = Changed(e) /\ Commit(p, "idx", <<e[1]>>, None)
  BY DEF Chmod
<1>3. TypeOK /\ DirUnique /\ dir \in [Blk -> Row] /\ <<e[1]>> \in Seq(Blk)
  BY <1>1, EnteringFacts DEF JInv, Ent
<1>4. setting.callers \cup setting.closers \subseteq {p}
  <2>1. setting \in Settings
    BY <1>3 DEF TypeOK
  <2>2. PICK q \in Proc : setting.callers \cup setting.closers \subseteq {q}
    BY <1>1, <2>1 DEF Orderly
  <2> QED BY <1>1, <2>2, EnteringFacts
<1>5. /\ dir' \in [Blk -> Row] /\ \A f \in Ent : f # e => At(dir', f) = At(dir, f)
      /\ At(dir', e).name = At(dir, e).name /\ At(dir, e) # None
      /\ \A f \in Ent : SameName(At(dir', f), At(dir, f))
  BY <1>2, <1>3, ChangedAt DEF Named
<1>6. DirUnique'
  BY <1>1, <1>3, <1>5, EnteringFacts DEF DirUnique, At
<1>7. \A f \in Ent : At(dir', f) = At(dir, f) \/ \E i \in 1 .. Len(<<e[1]>>) : <<e[1]>>[i] = f[1]
  BY <1>5
<1>8. Starts(p, "idx", <<e[1]>>, None)
  BY <1>1, <1>2, <1>3, <1>4, <1>5, <1>6, <1>7, EnteringFacts DEF Starts
<1> QED BY <1>8, CommitStarts

\* SYS_CLOSE, once it has the lock, and SYS_VFS_SYNC with something deferred.
LEMMA FlushStarts ==
    ASSUME JInv, NEW p \in Proc, p \in setting.callers \cup setting.closers, ~Busy(p),
           lock = None, power = "on", NEW kind \in {"flush", "sync"}, Commit(p, kind, <<>>, p),
           UNCHANGED <<setting, disk, ram, power>>
    PROVE  JInv'
<1>1. UNCHANGED <<setting, disk, slotOf, count, power>> /\ dir' = dir /\ lazy' = lazy /\ lazyN' = lazyN
  BY DEF ram
<1>2. /\ dir \in [Blk -> Row] /\ lazy \in SUBSET Ent /\ lazyN \in 0 .. LazyMax
      /\ DirUnique /\ (lazy # {} => lazyN # 0)
  BY DEF JInv, TypeOK, NoForgottenAppend
<1>3. DirUnique'
  BY <1>1, <1>2 DEF DirUnique, At
<1>4. Starts(p, kind, <<>>, p)
  BY <1>1, <1>2, <1>3 DEF Starts, SameName
<1> QED BY <1>4, CommitStarts

-----------------------------------------------------------------------------
(* Steps that move a call and leave the disk and the directory alone. *)

\* What the invariant says of the disk and the directory.
DataInv ==
    /\ Slots /\ HeaderSound /\ Fresh /\ Durable /\ NamesDurable /\ DirUnique /\ UniqueNames
    /\ NoForgottenAppend /\ LazyBound

\* What the commits under way have left to do is the same.
SameCommits ==
    \A q \in Proc :
        /\ Commits(q)' <=> Commits(q)
        /\ op'[q].torn = op[q].torn
        /\ Commits(q) => /\ op'[q].todo = op[q].todo /\ op'[q].carried = op[q].carried
                         /\ op'[q].kind = op[q].kind

\* The disk and the directory say what they said.
LEMMA DataSame ==
    ASSUME JInv, UNCHANGED <<disk, ram, power>>, SameCommits
    PROVE  DataInv'
<1>1. /\ home' = home /\ shadow' = shadow /\ hdr' = hdr /\ dir' = dir /\ slotOf' = slotOf
      /\ count' = count /\ lazy' = lazy /\ lazyN' = lazyN /\ power' = power
  BY DEF disk, ram
<1>2. Published' = Published /\ Journalled' = Journalled /\ Recovered' = Recovered
  BY <1>1 DEF Published, Journalled, Recovered
<1>3. Committing' <=> Committing
  BY DEF Committing, SameCommits, Commits
<1>4. \A q \in Proc : Commits(q) => \A b : Queued(q, b)' <=> Queued(q, b)
  BY DEF SameCommits, Queued
<1>5. Slots' /\ HeaderSound' /\ Fresh'
  BY <1>1, <1>2, <1>3 DEF JInv, Slots, HeaderSound, Fresh
<1>6. Durable'
  <2> SUFFICES ASSUME power' = "on", NEW e \in Ent
               PROVE  \/ e \in lazy'
                      \/ \E q \in Proc : Commits(q)' /\ Queued(q, e[1])'
                      \/ At(Journalled', e) = At(dir', e)
    BY DEF Durable, At
  <2>1. \/ e \in lazy
        \/ \E q \in Proc : Commits(q) /\ Queued(q, e[1])
        \/ At(Journalled, e) = At(dir, e)
    BY <1>1 DEF JInv, Durable
  <2> QED BY <1>1, <1>2, <1>4, <2>1 DEF SameCommits
<1>7. NamesDurable'
  <2> SUFFICES ASSUME power' = "on", NEW e \in Ent
               PROVE  \/ \E q \in Proc : Commits(q)' /\ ~op'[q].carried /\ Queued(q, e[1])'
                      \/ SameName(At(Journalled', e), At(dir', e))
    BY DEF NamesDurable, At, SameName
  <2>1. \/ \E q \in Proc : Commits(q) /\ ~op[q].carried /\ Queued(q, e[1])
        \/ SameName(At(Journalled, e), At(dir, e))
    BY <1>1 DEF JInv, NamesDurable
  <2> QED BY <1>1, <1>2, <1>4, <2>1 DEF SameCommits
<1>8. DirUnique' /\ NoForgottenAppend'
  BY <1>1 DEF JInv, DirUnique, NoForgottenAppend, At
<1>9. UniqueNames'
  <2>1. ASSUME Mixed PROVE Mixed'
    <3>1. PICK q \in Proc : op[q].torn /\ (op[q].todo # <<>> \/ (hdr # None /\ count > Len(hdr)))
      BY <2>1 DEF Mixed
    <3>2. Commits(q)
      BY <3>1 DEF JInv, Steps, StepOk
    <3>3. op'[q].torn /\ (op'[q].todo # <<>> \/ (hdr' # None /\ count' > Len(hdr')))
      BY <1>1, <3>1, <3>2 DEF SameCommits
    <3> QED BY <3>3 DEF Mixed
  <2> QED BY <1>2, <2>1 DEF JInv, UniqueNames, At
<1>10. LazyBound'
  BY <1>1 DEF JInv, LazyBound, SameCommits
<1> QED BY <1>5, <1>6, <1>7, <1>8, <1>9, <1>10 DEF DataInv

\* One call moves to a new position.
LEMMA Moves ==
    ASSUME OpType, NEW p \in Proc, NEW r \in OpRec, op' = [op EXCEPT ![p] = r]
    PROVE  /\ OpType' /\ op'[p] = r
           /\ \A q \in Proc : op'[q].todo \in Seq(Blk) /\ op'[q].slot \in 0 .. NBlk
           /\ \A q \in Proc : q # p => op'[q] = op[q]
<1>1. OpType'
  BY DEF OpType
<1> QED BY <1>1 DEF OpType, OpRec

\* Two positions of a call with the same fields are one.
LEMMA SameRec ==
    ASSUME NEW r \in OpRec, NEW s \in OpRec, r.pc = s.pc, r.kind = s.kind, r.todo = s.todo,
           r.slot = s.slot, r.carried = s.carried, r.torn = s.torn
    PROVE  r = s
BY DEF OpRec

\* A process at rest, and one that has looked at the deferred count.
LEMMA NoOpType == NoOp \in OpRec /\ [NoOp EXCEPT !.pc = "close"] \in OpRec
<1>1. <<>> \in Seq(Blk) /\ 0 \in 0 .. NBlk
  BY VfsJournalAssumption
<1>2. NoOp \in OpRec
  BY <1>1 DEF NoOp, OpRec
<1>3. [NoOp EXCEPT !.pc = "close"] \in OpRec
  BY <1>2 DEF OpRec
<1> QED BY <1>2, <1>3

\* The positions of a call that has not taken the lock.
LEMMA Rests ==
    ASSUME JInv, NEW q \in Proc, ~Busy(q)
    PROVE  /\ op[q] = NoOp \/ (power = "on" /\ op[q] = [NoOp EXCEPT !.pc = "close"])
           /\ op[q].kind = "none" /\ op[q].todo = <<>> /\ op[q].slot = 0
           /\ op[q].carried = FALSE /\ op[q].torn = FALSE /\ ~Commits(q)
BY DEF JInv, Phases, PhaseOk, Busy, Commits, NoOp

\* A call moves and nothing else changes but, perhaps, who holds the lock.
LEMMA ControlStep ==
    ASSUME JInv, NEW p \in Proc, NEW r \in OpRec, op' = [op EXCEPT ![p] = r],
           UNCHANGED <<setting, disk, ram, power>>, lock' \in Proc \cup {None},
           SameCommits, OneBusy', Off', PhaseOk(p)', StepOk(p)', CopyOk(p)'
    PROVE  JInv'
<1>1. TypeOK /\ OpType
  BY DEF JInv
<1>2. OpType' /\ (\A q \in Proc : q # p => op'[q] = op[q])
      /\ \A q \in Proc : op'[q].todo \in Seq(Blk) /\ op'[q].slot \in 0 .. NBlk
  BY <1>1, Moves
<1>3. /\ home' = home /\ shadow' = shadow /\ hdr' = hdr /\ dir' = dir /\ slotOf' = slotOf
      /\ count' = count /\ lazy' = lazy /\ lazyN' = lazyN /\ power' = power
      /\ setting' = setting /\ Published' = Published
  BY DEF disk, ram, Published
<1>4. DataInv'
  BY DataSame
<1>5. TypeOK'
  BY <1>1, <1>2, <1>3 DEF TypeOK
<1>6. \A q \in Proc : q # p => (Busy(q)' <=> Busy(q)) /\ (Commits(q)' <=> Commits(q))
  BY <1>2 DEF Busy, Commits
<1>7. Phases'
  <2> SUFFICES ASSUME NEW q \in Proc, q # p PROVE PhaseOk(q)'
    BY DEF Phases
  <2>1. PhaseOk(q)
    BY DEF JInv, Phases
  <2> QED BY <2>1, <1>2, <1>3, <1>6 DEF PhaseOk
<1>8. Steps'
  <2> SUFFICES ASSUME NEW q \in Proc, q # p PROVE StepOk(q)'
    BY DEF Steps
  <2>1. StepOk(q)
    BY DEF JInv, Steps
  <2> QED BY <2>1, <1>2, <1>3, <1>6 DEF StepOk, SlotFor
<1>9. Copied'
  <2> SUFFICES ASSUME NEW q \in Proc, q # p PROVE CopyOk(q)'
    BY DEF Copied
  <2>1. CopyOk(q)
    BY DEF JInv, Copied
  <2> QED BY <2>1, <1>2, <1>3 DEF CopyOk
<1> QED BY <1>2, <1>4, <1>5, <1>7, <1>8, <1>9 DEF JInv, DataInv

\* A call that had not taken the lock still has not.
LEMMA StillOne ==
    ASSUME JInv, NEW p \in Proc, ~Busy(p), ~Busy(p)', \A q \in Proc : q # p => op'[q] = op[q],
           UNCHANGED <<setting, lock, power>>
    PROVE  OneBusy'
<1>1. \A q \in Proc : Busy(q)' <=> Busy(q)
  BY DEF Busy
<1> QED BY <1>1, VfsJournalAssumption DEF JInv, OneBusy, TypeOK

\* SYS_CLOSE looks at the deferred count.
LEMMA CloseSeesKeeps ==
    ASSUME JInv, NEW p \in Proc, CloseSees(p)
    PROVE  JInv'
<1>1. /\ op[p] = NoOp /\ op' = [op EXCEPT ![p].pc = "close"] /\ power = "on"
      /\ UNCHANGED <<setting, disk, ram, lock, power>>
  BY DEF CloseSees
<1>2. TypeOK /\ OpType
  BY DEF JInv
<1>3. op' = [op EXCEPT ![p] = [NoOp EXCEPT !.pc = "close"]]
  BY <1>1, <1>2 DEF OpType
<1>4. op'[p] = [NoOp EXCEPT !.pc = "close"] /\ (\A q \in Proc : q # p => op'[q] = op[q])
  BY <1>2, <1>3, NoOpType, Moves
<1>5. /\ op'[p].pc = "close" /\ op'[p].carried = FALSE /\ op'[p].torn = FALSE /\ op'[p].kind = "none"
      /\ op[p].pc = "idle" /\ op[p].torn = FALSE
  BY <1>1, <1>4 DEF NoOp
<1>6. ~Busy(p) /\ ~Busy(p)' /\ ~Commits(p) /\ ~Commits(p)'
  BY <1>5 DEF Busy, Commits
<1>7. SameCommits
  BY <1>4, <1>5, <1>6 DEF SameCommits, Commits
<1>8. PhaseOk(p)' /\ StepOk(p)' /\ CopyOk(p)'
  BY <1>1, <1>4, <1>5, <1>6 DEF PhaseOk, StepOk, CopyOk
<1>9. OneBusy'
  BY <1>1, <1>4, <1>6, StillOne
<1>10. Off' /\ lock' \in Proc \cup {None}
  BY <1>1, <1>2 DEF JInv, Off, ram, TypeOK
<1> QED BY <1>1, <1>3, <1>7, <1>8, <1>9, <1>10, NoOpType, ControlStep

\* SYS_CLOSE has the lock: it flushes, or finds that somebody else did.
LEMMA CloseFlushKeeps ==
    ASSUME JInv, NEW p \in Proc, p \in setting.callers \cup setting.closers, CloseFlush(p)
    PROVE  JInv'
<1>1. op[p].pc = "close" /\ lock = None /\ UNCHANGED <<setting, disk, ram, power>>
  BY DEF CloseFlush
<1>2. /\ ~Busy(p) /\ power = "on" /\ op[p].torn = FALSE /\ ~Commits(p) /\ TypeOK /\ OpType
  BY <1>1, Rests DEF Busy, JInv, Phases, PhaseOk
<1>3. CASE lazyN # 0
  BY <1>1, <1>2, <1>3, FlushStarts DEF CloseFlush
<1>4. CASE lazyN = 0
  <2>1. op' = [op EXCEPT ![p] = NoOp] /\ lock' = lock
    BY <1>4 DEF CloseFlush
  <2>2. op'[p] = NoOp /\ (\A q \in Proc : q # p => op'[q] = op[q])
    BY <1>2, <2>1, NoOpType, Moves
  <2>3. /\ op'[p].pc = "idle" /\ op'[p].carried = FALSE /\ op'[p].torn = FALSE /\ op'[p].kind = "none"
    BY <2>2 DEF NoOp
  <2>4. ~Busy(p)' /\ ~Commits(p)'
    BY <2>3 DEF Busy, Commits
  <2>5. SameCommits
    BY <1>2, <2>2, <2>3, <2>4 DEF SameCommits, Commits
  <2>6. PhaseOk(p)' /\ StepOk(p)' /\ CopyOk(p)'
    BY <2>2, <2>3, <2>4 DEF PhaseOk, StepOk, CopyOk
  <2>7. OneBusy'
    BY <1>1, <1>2, <2>1, <2>2, <2>4, StillOne
  <2>8. Off' /\ lock' \in Proc \cup {None}
    BY <1>1, <1>2, <2>1 DEF JInv, Off, ram, TypeOK
  <2> QED BY <1>1, <2>1, <2>5, <2>6, <2>7, <2>8, NoOpType, ControlStep
<1> QED BY <1>3, <1>4

\* SYS_VFS_SYNC.
LEMMA SyncKeeps ==
    ASSUME JInv, NEW p \in Proc, Sync(p)
    PROVE  JInv'
<1>1. /\ Entering(p) /\ lock' = p /\ UNCHANGED <<setting, disk, ram, power>>
      /\ op' = [op EXCEPT ![p] = [NoOp EXCEPT !.kind = "sync",
                                    !.pc = IF lazyN = 0 THEN "header" ELSE "stage"]]
  BY DEF Sync
<1>2. /\ p \in setting.callers \cup setting.closers /\ ~Busy(p) /\ lock = None /\ power = "on"
      /\ op[p] = NoOp /\ TypeOK /\ OpType
  BY <1>1, EnteringFacts DEF JInv
<1>3. CASE lazyN # 0
  <2>1. PICK r : r = [NoOp EXCEPT !.kind = "sync", !.pc = "stage"]
    OBVIOUS
  <2>2. PICK c : c = [NoOp EXCEPT !.pc = "stage", !.kind = "sync", !.todo = <<>>]
    OBVIOUS
  <2>3. r \in OpRec /\ c \in OpRec
    <3>1. <<>> \in Seq(Blk)
      OBVIOUS
    <3> QED BY <2>1, <2>2, <3>1, NoOpType DEF OpRec
  <2>4. r = c
    BY <2>1, <2>2, <2>3, SameRec DEF NoOp
  <2>5. Commit(p, "sync", <<>>, p)
    BY <1>1, <1>3, <2>1, <2>2, <2>4 DEF Commit
  <2> QED BY <1>1, <1>2, <2>5, FlushStarts
<1>4. CASE lazyN = 0
  <2>1. PICK r : r = [NoOp EXCEPT !.kind = "sync", !.pc = "header"]
    OBVIOUS
  <2>2. r \in OpRec /\ op' = [op EXCEPT ![p] = r]
    BY <1>1, <1>4, <2>1, NoOpType DEF OpRec
  <2>3. op'[p] = r /\ (\A q \in Proc : q # p => op'[q] = op[q])
    BY <1>2, <2>2, Moves
  <2>4. /\ op'[p].pc = "header" /\ op'[p].carried = FALSE /\ op'[p].torn = FALSE /\ op'[p].kind = "sync"
        /\ op[p].pc = "idle" /\ op[p].torn = FALSE
    BY <1>2, <2>1, <2>3 DEF NoOp
  <2>5. Busy(p)' /\ ~Commits(p)' /\ ~Commits(p)
    BY <2>4 DEF Busy, Commits
  <2>6. \A q \in Proc : ~Busy(q) /\ (q # p => ~Busy(q)')
    BY <1>2, <2>3, NobodyBusy DEF Busy
  <2>7. SameCommits
    BY <2>3, <2>4, <2>5 DEF SameCommits, Commits
  <2>8. PhaseOk(p)' /\ StepOk(p)' /\ CopyOk(p)'
    BY <1>1, <1>2, <1>4, <2>4, <2>5 DEF PhaseOk, StepOk, CopyOk, ram
  <2>9. OneBusy'
    BY <1>1, <2>5, <2>6 DEF OneBusy
  <2>10. Off' /\ lock' \in Proc \cup {None}
    BY <1>1, <1>2 DEF Off
  <2> QED BY <1>1, <2>2, <2>7, <2>8, <2>9, <2>10, ControlStep
<1> QED BY <1>3, <1>4

\* A commit finds the slot of its next block.
LEMMA FindSlotKeeps ==
    ASSUME JInv, NEW p \in Proc, FindSlot(p)
    PROVE  JInv'
<1>1. /\ op[p].pc = "stage" /\ op[p].todo # <<>>
      /\ op' = [op EXCEPT ![p].pc = "write", ![p].slot = SlotFor(Head(op[p].todo))]
      /\ UNCHANGED <<setting, disk, ram, lock, power>>
  BY DEF FindSlot, Staging
<1>2. TypeOK /\ OpType
  BY DEF JInv
<1>3. PICK r : r = [op[p] EXCEPT !.pc = "write", !.slot = SlotFor(Head(op[p].todo))]
  OBVIOUS
<1>4. SlotFor(Head(op[p].todo)) \in 0 .. NBlk
  <2>1. Head(op[p].todo) \in Blk
    BY <1>1, <1>2 DEF OpType, OpRec
  <2> QED BY <1>2, <2>1, SlotTypes DEF SlotFor, Blk
<1>5. r \in OpRec /\ op' = [op EXCEPT ![p] = r]
  BY <1>1, <1>2, <1>3, <1>4 DEF OpType, OpRec
<1>6. op'[p] = r /\ (\A q \in Proc : q # p => op'[q] = op[q])
  BY <1>2, <1>5, Moves
<1>7. /\ op'[p].pc = "write" /\ op'[p].todo = op[p].todo /\ op'[p].slot = SlotFor(Head(op[p].todo))
      /\ op'[p].carried = op[p].carried /\ op'[p].torn = op[p].torn /\ op'[p].kind = op[p].kind
  BY <1>2, <1>3, <1>6 DEF OpType, OpRec
<1>8. Busy(p)' /\ Busy(p) /\ Commits(p)' /\ Commits(p)
  BY <1>1, <1>7 DEF Busy, Commits
<1>9. SameCommits
  BY <1>6, <1>7, <1>8 DEF SameCommits, Commits
<1>10. /\ slotOf' = slotOf /\ count' = count /\ lazy' = lazy /\ lazyN' = lazyN /\ hdr' = hdr
       /\ power' = power /\ lock' = lock /\ setting' = setting /\ Published' = Published
  BY <1>1 DEF disk, ram, Published
<1>11. PhaseOk(p)'
  <2>1. PhaseOk(p)
    BY DEF JInv, Phases
  <2> QED BY <2>1, <1>7, <1>8, <1>10 DEF PhaseOk
<1>12. StepOk(p)'
  <2>1. StepOk(p)
    BY DEF JInv, Steps
  <2> QED BY <2>1, <1>1, <1>7, <1>8, <1>10 DEF StepOk, SlotFor
<1>13. CopyOk(p)'
  BY <1>7 DEF CopyOk
<1>14. \A q \in Proc : Busy(q)' <=> Busy(q)
  BY <1>6, <1>8 DEF Busy
<1>15. OneBusy'
  BY <1>10, <1>14, VfsJournalAssumption DEF JInv, OneBusy, TypeOK
<1>16. Off' /\ lock' \in Proc \cup {None}
  BY <1>2, <1>10 DEF JInv, Off, TypeOK
<1> QED BY <1>1, <1>5, <1>9, <1>11, <1>12, <1>13, <1>15, <1>16, ControlStep

\* vfs_append_locked: the dirent is deferred, and flushed at once if it is one too many.
LEMMA AppendKeeps ==
    ASSUME JInv, NEW p \in Proc, NEW n \in Name, AppendFile(p, n)
    PROVE  JInv'
<1>1. /\ Entering(p) /\ UNCHANGED <<setting, disk, slotOf, count, power>>
      /\ \/ lazyN' < LazyMax /\ UNCHANGED <<op, lock>>
         \/ Commit(p, "flush", <<>>, p)
  BY DEF AppendFile
<1>2. PICK e \in Ent : /\ Named(n, e) /\ dir' = Changed(e)
                       /\ lazy' = lazy \cup {e} /\ lazyN' = IF e \in lazy THEN lazyN ELSE lazyN + 1
  BY DEF AppendFile
<1>3. /\ TypeOK /\ OpType /\ DirUnique /\ dir \in [Blk -> Row] /\ power = "on" /\ lock = None
      /\ lazy \in SUBSET Ent /\ lazyN \in 0 .. LazyMax /\ lazyN # LazyMax /\ (lazy # {} => lazyN # 0)
      /\ p \in setting.callers \cup setting.closers /\ ~Busy(p) /\ LazyMax \in Nat
  BY <1>1, EnteringFacts, VfsJournalAssumption DEF JInv
<1>4. /\ dir' \in [Blk -> Row] /\ \A f \in Ent : f # e => At(dir', f) = At(dir, f)
      /\ At(dir', e).name = At(dir, e).name /\ At(dir, e) # None
      /\ \A f \in Ent : SameName(At(dir', f), At(dir, f))
  BY <1>2, <1>3, ChangedAt DEF Named
<1>5. lazy' \in SUBSET Ent /\ lazyN' \in 0 .. LazyMax /\ lazyN' # 0
  BY <1>2, <1>3
<1>6. DirUnique'
  BY <1>1, <1>3, <1>4 DEF DirUnique, At
<1>7. \A f \in Ent : f \in lazy' \/ (f \notin lazy /\ At(dir', f) = At(dir, f))
  BY <1>2, <1>4
<1>8. CASE Commit(p, "flush", <<>>, p)
  <2>1. Starts(p, "flush", <<>>, p)
    BY <1>1, <1>3, <1>4, <1>5, <1>6, <1>7, <1>8 DEF Starts
  <2> QED BY <2>1, CommitStarts
<1>9. CASE lazyN' < LazyMax /\ UNCHANGED <<op, lock>>
  <2>1. /\ \A q \in Proc : ~Busy(q) /\ ~Commits(q) /\ op[q].pc \in {"idle", "close"}
        /\ ~Committing /\ count = Published
    BY <1>3, NobodyBusy
  <2>2. /\ home' = home /\ shadow' = shadow /\ hdr' = hdr /\ setting' = setting /\ op' = op
        /\ slotOf' = slotOf /\ count' = count /\ power' = "on" /\ lock' = None
        /\ Published' = Published /\ Journalled' = Journalled /\ Recovered' = Recovered
    BY <1>1, <1>3, <1>9 DEF disk, Published, Journalled, Recovered
  <2>3. TypeOK' /\ OpType'
    BY <1>3, <1>4, <1>5, <2>2 DEF TypeOK, OpType
  <2>4. OneBusy' /\ Off' /\ Phases' /\ Copied' /\ Slots'
    BY <2>1, <2>2 DEF JInv, OneBusy, Off, Phases, PhaseOk, Copied, CopyOk, Slots, Busy, Commits
  <2>5. Steps'
    <3> SUFFICES ASSUME NEW q \in Proc PROVE StepOk(q)'
      BY DEF Steps
    <3>1. op[q].carried = FALSE /\ op[q].torn = FALSE /\ op[q].kind = "none"
      BY <2>1, Rests
    <3> QED BY <2>1, <2>2, <3>1 DEF StepOk, Commits
  <2>6. HeaderSound'
    <3>1. power = "on" /\ HeaderSound
      BY <1>3 DEF JInv
    <3> QED BY <2>1, <2>2, <3>1 DEF HeaderSound
  <2>7. Fresh'
    <3>1. \A b \in Blk : slotOf[b] # None => slotOf[b] < count /\ slotOf[b] \in Int /\ count \in Int
      BY <1>3, SlotTypes DEF JInv, Slots
    <3> QED BY <3>1, <2>1, <2>2 DEF Fresh
  <2>8. \A f \in Ent : f \in lazy \/ At(Journalled, f) = At(dir, f)
    BY <1>3, <2>1 DEF JInv, Durable
  <2>9. Durable'
    BY <1>7, <2>2, <2>8 DEF Durable, At
  <2>10. \A f \in Ent : SameName(At(Journalled, f), At(dir, f))
    BY <1>3, <2>1 DEF JInv, NamesDurable
  <2>11. NamesDurable'
    <3>1. \A f \in Ent : SameName(At(Journalled', f), At(dir', f))
      BY <1>4, <2>2, <2>10 DEF SameName
    <3> QED BY <3>1 DEF NamesDurable, SameName, At
  <2>12. UniqueNames'
    <3>1. ~Mixed
      BY <2>1 DEF JInv, Steps, StepOk, Mixed
    <3> QED BY <2>2, <3>1 DEF JInv, UniqueNames, At
  <2>13. NoForgottenAppend' /\ LazyBound'
    BY <1>5, <1>9 DEF NoForgottenAppend, LazyBound
  <2> QED BY <1>6, <2>3, <2>4, <2>5, <2>6, <2>7, <2>9, <2>11, <2>12, <2>13 DEF JInv
<1> QED BY <1>1, <1>8, <1>9

-----------------------------------------------------------------------------
(* Staging and publishing. *)

\* While one call is at work no other is.
LEMMA OnlyOne ==
    ASSUME JInv, NEW p \in Proc, Busy(p)
    PROVE  /\ \A q \in Proc : q # p => /\ ~Busy(q) /\ ~Commits(q)
                                       /\ op[q].pc \in {"idle", "close"}
                                       /\ op[q].carried = FALSE /\ op[q].torn = FALSE
                                       /\ op[q].kind = "none"
           /\ lock = p \/ lock = None
<1>1. \A q \in Proc : q # p => ~Busy(q)
  BY DEF JInv, OneBusy
<1>2. lock = p \/ lock = None
  BY <1>1 DEF JInv, OneBusy, TypeOK
<1> QED BY <1>1, <1>2, Rests DEF Busy

\* What a mount would recover, by the slot table.
LEMMA RecoveredOn ==
    ASSUME JInv, power = "on"
    PROVE  /\ \A b \in Blk : Recovered[b] =
                  IF slotOf[b] # None /\ slotOf[b] < Published THEN shadow[slotOf[b]] ELSE home[b]
           /\ Recovered \in [Blk -> Row]
<1>1. GoodHeader(hdr, Published)
  <2>1. TypeOK /\ HeaderSound
    BY DEF JInv
  <2> QED BY <2>1, SlotTypes DEF GoodHeader, HeaderSound, Published, TypeOK
<1>2. /\ home \in [Blk -> Row] /\ shadow \in [Blk -> Row] /\ slotOf \in [Blk -> Blk \cup {None}]
      /\ \A i \in 1 .. Published : slotOf[hdr[i]] = i - 1
      /\ \A b, c \in Blk : slotOf[b] = slotOf[c] /\ slotOf[b] # None => b = c
  BY DEF JInv, TypeOK, HeaderSound, Slots
<1>3. \A b \in Blk : RecoveredIn(home, shadow, hdr)[b] =
          IF slotOf[b] # None /\ slotOf[b] < Published THEN shadow[slotOf[b]] ELSE home[b]
  BY <1>1, <1>2, RecoveredBySlot
<1>4. RecoveredIn(home, shadow, hdr) \in [Blk -> Row]
  BY <1>1, <1>2, RecoveredByHeader DEF HeaderReads
<1> QED BY <1>3, <1>4, RecoveredIs

\* The same after a step that keeps what the header and the slots say.
LEMMA RecoveredNext ==
    ASSUME TypeOK', HeaderSound', Slots', power' = "on"
    PROVE  /\ \A b \in Blk : Recovered'[b] =
                  IF slotOf'[b] # None /\ slotOf'[b] < Published' THEN shadow'[slotOf'[b]] ELSE home'[b]
           /\ Recovered' \in [Blk -> Row]
<1>1. GoodHeader(hdr', Published')
  <2>1. hdr' = None \/ (hdr' \in Seq(Blk) /\ Len(hdr') <= NBlk)
    BY DEF TypeOK
  <2>2. Published' = (IF hdr' = None THEN 0 ELSE Len(hdr')) /\ Published' \in Nat
    BY <2>1 DEF Published
  <2> QED BY <2>1, <2>2 DEF GoodHeader, HeaderSound
<1>2. /\ home' \in [Blk -> Row] /\ shadow' \in [Blk -> Row] /\ slotOf' \in [Blk -> Blk \cup {None}]
      /\ \A i \in 1 .. Published' : slotOf'[hdr'[i]] = i - 1
      /\ \A b, c \in Blk : slotOf'[b] = slotOf'[c] /\ slotOf'[b] # None => b = c
  BY DEF TypeOK, HeaderSound, Slots
<1>3. \A b \in Blk : RecoveredIn(home', shadow', hdr')[b] =
          IF slotOf'[b] # None /\ slotOf'[b] < Published' THEN shadow'[slotOf'[b]] ELSE home'[b]
  BY <1>1, <1>2, RecoveredBySlot
<1>4. RecoveredIn(home', shadow', hdr') \in [Blk -> Row]
  BY <1>1, <1>2, RecoveredByHeader DEF HeaderReads
<1> QED BY <1>3, <1>4, RecoveredIs

\* While one call is at work the others rest, wherever that call goes.
LEMMA Others ==
    ASSUME JInv, NEW p \in Proc, Busy(p), \A q \in Proc : q # p => op'[q] = op[q],
           setting' = setting, power' = power \/ power' = "on",
           \/ Busy(p)' /\ lock' = lock /\ power' = power
           \/ ~Busy(p)' /\ lock' = None
    PROVE  /\ OneBusy' /\ lock' \in Proc \cup {None}
           /\ \A q \in Proc : q # p =>
                 /\ PhaseOk(q)' /\ StepOk(q)' /\ CopyOk(q)'
                 /\ ~Busy(q)' /\ ~Commits(q)' /\ op'[q].torn = FALSE
<1>1. \A q \in Proc : q # p => ~Busy(q)
  BY OnlyOne
<1>2. lock \in Proc \cup {None} /\ OneBusy /\ None \notin Proc
  BY VfsJournalAssumption DEF JInv, TypeOK
<1>3. \A q \in Proc : q # p => ~Busy(q)'
  BY <1>1 DEF Busy
<1>4. OneBusy' /\ lock' \in Proc \cup {None}
  <2>1. CASE Busy(p)' /\ lock' = lock /\ power' = power
    BY <1>2, <1>3, <2>1 DEF OneBusy
  <2>2. CASE ~Busy(p)' /\ lock' = None
    BY <1>3, <2>2 DEF OneBusy
  <2> QED BY <2>1, <2>2
<1>5. power # "off"
  BY DEF JInv, Phases, PhaseOk, Busy, NoOp
<1>6. ASSUME NEW q \in Proc, q # p
      PROVE  PhaseOk(q)' /\ StepOk(q)' /\ CopyOk(q)' /\ ~Commits(q)' /\ op'[q].torn = FALSE
  <2>1. /\ op[q] = NoOp \/ (power = "on" /\ op[q] = [NoOp EXCEPT !.pc = "close"])
        /\ op[q].kind = "none" /\ op[q].todo = <<>> /\ op[q].slot = 0
        /\ op[q].carried = FALSE /\ op[q].torn = FALSE /\ ~Commits(q)
    BY <1>1, <1>6, Rests
  <2>2. op'[q] = op[q] /\ ~Busy(q)' /\ ~Commits(q)'
    BY <1>3, <1>6, <2>1 DEF Commits
  <2>3. op[q].pc \in {"idle", "close"}
    BY <1>1, <1>6 DEF Busy
  <2>4. PhaseOk(q)'
    BY <1>5, <2>1, <2>2, <2>3 DEF PhaseOk, NoOp
  <2>5. StepOk(q)' /\ CopyOk(q)'
    BY <2>1, <2>2, <2>3 DEF StepOk, CopyOk
  <2> QED BY <2>1, <2>2, <2>4, <2>5
<1> QED BY <1>3, <1>4, <1>6

\* Once the header names every slot in use and nothing is left to stage, a mount
\* would find the names of the directory in RAM.
LEMMA SettledUnique ==
    ASSUME TypeOK', Slots', HeaderSound', NamesDurable', DirUnique', power' = "on",
           count' = Published',
           \A q \in Proc, b \in Blk : ~(Commits(q)' /\ ~op'[q].carried /\ Queued(q, b)')
    PROVE  /\ UniqueNames'
           /\ \A b \in Blk : Recovered'[b] = Journalled'[b]
<1>1. \A b \in Blk : slotOf'[b] # None => slotOf'[b] < Published'
  BY DEF Slots
<1>2. \A b \in Blk : Recovered'[b] = Journalled'[b]
  BY <1>1, RecoveredNext DEF Journalled
<1>3. \A e \in Ent : SameName(At(Journalled', e), At(dir', e))
  <2> SUFFICES ASSUME NEW e \in Ent
               PROVE  SameName(At(Journalled', e), At(dir', e))
    OBVIOUS
  <2>1. e[1] \in Blk
    BY DEF Ent
  <2>2. \/ \E q \in Proc : Commits(q)' /\ ~op'[q].carried /\ Queued(q, e[1])'
        \/ SameName(At(Journalled', e), At(dir', e))
    BY DEF NamesDurable, SameName, At
  <2> QED BY <2>1, <2>2
<1>4. \A e \in Ent : SameName(At(Recovered', e), At(dir', e))
  BY <1>2, <1>3 DEF At, Ent
<1>5. \A e, f \in Ent : (At(dir', e) # None /\ At(dir', f) # None /\ e # f)
                            => At(dir', e).name # At(dir', f).name
  BY DEF DirUnique, At
<1>6. \A e, f \in Ent : (At(Recovered', e) # None /\ At(Recovered', f) # None /\ e # f)
                            => At(Recovered', e).name # At(Recovered', f).name
  BY <1>4, <1>5 DEF SameName
<1> QED BY <1>2, <1>6 DEF UniqueNames, At

\* The slot of a commit's next block is written.
Stages(p, b, s) ==
    /\ p \in Proc /\ b \in Blk /\ s \in Blk
    /\ op[p].pc = "write" /\ op[p].todo \in Seq(Blk) /\ op[p].todo # <<>> /\ b = Head(op[p].todo)
    /\ power = "on" /\ power' = "on" /\ setting' = setting /\ lock' = lock
    /\ home' = home /\ hdr' = hdr /\ dir' = dir /\ lazy' = lazy
    /\ shadow' \in [Blk -> Row] /\ shadow'[s] = dir[b]
    /\ \A t \in Blk : t # s => shadow'[t] = shadow[t]
    /\ slotOf' \in [Blk -> Blk \cup {None}] /\ slotOf'[b] = s
    /\ \A c \in Blk : c # b => slotOf'[c] = slotOf[c] /\ slotOf[c] # s
    /\ \/ slotOf[b] = s /\ count' = count
       \/ slotOf[b] = None /\ s = count /\ count' = count + 1
    /\ lazyN' = IF AllStaged(p) THEN 0 ELSE lazyN
    /\ OpType' /\ \A q \in Proc : q # p => op'[q] = op[q]
    /\ op'[p].pc = "stage" /\ op'[p].todo = Tail(op[p].todo) /\ op'[p].kind = op[p].kind
    /\ op'[p].carried = op[p].carried
    /\ op'[p].torn <=> (op[p].torn \/ (op[p].kind = "multi" /\ hdr # None
                                          /\ s < Len(hdr) /\ hdr[s + 1] = b))

\* vj_stage_block is such a step: a block without a slot finds a free one.
LEMMA StageBlockIs ==
    ASSUME JInv, NEW p \in Proc, StageBlock(p)
    PROVE  Stages(p, Head(op[p].todo), op[p].slot)
<1>1. /\ op[p].pc = "write" /\ Commits(p) /\ TypeOK /\ OpType
      /\ UNCHANGED <<setting, home, hdr, dir, lazy, lock, power>>
      /\ lazyN' = IF AllStaged(p) THEN 0 ELSE lazyN
  BY DEF StageBlock, Commits, JInv
<1>2. power = "on" /\ op[p].todo # <<>> /\ op[p].slot = SlotFor(Head(op[p].todo)) /\ op[p].todo \in Seq(Blk)
  BY <1>1 DEF JInv, Phases, PhaseOk, Steps, StepOk, OpType, OpRec
<1>3. PICK b : b = Head(op[p].todo)
  OBVIOUS
<1>4. PICK s : s = op[p].slot
  OBVIOUS
<1>5. /\ b \in Blk
      /\ \/ slotOf[b] # None /\ s = slotOf[b]
         \/ slotOf[b] = None /\ s = count
  BY <1>2, <1>3, <1>4 DEF SlotFor
<1>6. s \in Blk /\ s \in Nat
  <2>1. slotOf[b] # None => slotOf[b] \in Blk /\ slotOf[b] \in Nat
    BY <1>1, <1>5, SlotTypes
  <2>2. slotOf[b] = None => count \in Nat /\ count < NBlk
    BY <1>1, <1>5, FreeSlot DEF JInv
  <2> QED BY <1>5, <2>1, <2>2, VfsJournalAssumption DEF Blk
<1>7. /\ shadow' = [shadow EXCEPT ![s] = dir[b]]
      /\ slotOf' = [slotOf EXCEPT ![b] = s]
      /\ count' = IF slotOf[b] = None THEN s + 1 ELSE count
      /\ op' = [op EXCEPT ![p].pc = "stage", ![p].todo = Tail(@),
                          ![p].torn = @ \/ ((hdr # None /\ s < Len(hdr) /\ hdr[s + 1] = b)
                                              /\ op[p].kind = "multi")]
  BY <1>3, <1>4 DEF StageBlock, Source
<1>8. /\ shadow \in [Blk -> Row] /\ dir \in [Blk -> Row] /\ slotOf \in [Blk -> Blk \cup {None}]
  BY <1>1 DEF TypeOK
<1>9. /\ shadow' \in [Blk -> Row] /\ shadow'[s] = dir[b]
      /\ \A t \in Blk : t # s => shadow'[t] = shadow[t]
      /\ slotOf' \in [Blk -> Blk \cup {None}] /\ slotOf'[b] = s
      /\ \A c \in Blk : c # b => slotOf'[c] = slotOf[c]
  BY <1>5, <1>6, <1>7, <1>8
<1>10. \A c \in Blk : c # b => slotOf[c] # s
  <2>1. /\ \A c \in Blk : slotOf[c] # None => slotOf[c] < count /\ slotOf[c] \in Nat
        /\ \A c, d \in Blk : slotOf[c] = slotOf[d] /\ slotOf[c] # None => c = d
        /\ count \in Nat /\ None \notin Int
    BY <1>1, SlotTypes DEF JInv, Slots
  <2> QED BY <1>5, <1>6, <2>1
<1>11. PICK r : r = [op[p] EXCEPT !.pc = "stage", !.todo = Tail(op[p].todo),
                        !.torn = op[p].torn \/ ((hdr # None /\ s < Len(hdr) /\ hdr[s + 1] = b)
                                                  /\ op[p].kind = "multi")]
  OBVIOUS
<1>12. Tail(op[p].todo) \in Seq(Blk)
  BY <1>2
<1>13. r \in OpRec /\ op' = [op EXCEPT ![p] = r]
  BY <1>1, <1>7, <1>11, <1>12 DEF OpType, OpRec
<1>14. OpType' /\ op'[p] = r /\ \A q \in Proc : q # p => op'[q] = op[q]
  BY <1>1, <1>13, Moves
<1>15. /\ op'[p].pc = "stage" /\ op'[p].todo = Tail(op[p].todo) /\ op'[p].kind = op[p].kind
       /\ op'[p].carried = op[p].carried
  BY <1>1, <1>11, <1>14 DEF OpType, OpRec
<1>18. op'[p].torn = (op[p].torn \/ ((hdr # None /\ s < Len(hdr) /\ hdr[s + 1] = b)
                                       /\ op[p].kind = "multi"))
  BY <1>1, <1>11, <1>14 DEF OpType, OpRec
<1>19. op'[p].torn <=> (op[p].torn \/ (op[p].kind = "multi" /\ hdr # None
                                         /\ s < Len(hdr) /\ hdr[s + 1] = b))
  BY <1>18
<1>16. \/ slotOf[b] = s /\ count' = count
       \/ slotOf[b] = None /\ s = count /\ count' = count + 1
  BY <1>5, <1>7
<1>17. Stages(p, b, s)
  BY <1>1, <1>2, <1>3, <1>5, <1>6, <1>9, <1>10, <1>14, <1>15, <1>16, <1>19 DEF Stages
<1> QED BY <1>3, <1>4, <1>17

\* What the slots hold after it.
LEMMA StagesData ==
    ASSUME JInv, NEW p \in Proc, NEW b \in Blk, NEW s \in Blk, Stages(p, b, s)
    PROVE  /\ Published' = Published /\ Commits(p) /\ Commits(p)' /\ Committing'
           /\ \A c \in Blk : Journalled'[c] = IF c = b THEN dir[b] ELSE Journalled[c]
           /\ TypeOK' /\ Slots' /\ HeaderSound' /\ Fresh'
<1>0. /\ power = "on" /\ power' = "on" /\ setting' = setting /\ lock' = lock
      /\ home' = home /\ hdr' = hdr /\ dir' = dir /\ lazy' = lazy
      /\ shadow' \in [Blk -> Row] /\ shadow'[s] = dir[b]
      /\ \A t \in Blk : t # s => shadow'[t] = shadow[t]
      /\ slotOf' \in [Blk -> Blk \cup {None}] /\ slotOf'[b] = s
      /\ \A c \in Blk : c # b => slotOf'[c] = slotOf[c] /\ slotOf[c] # s
      /\ \/ slotOf[b] = s /\ count' = count
         \/ slotOf[b] = None /\ s = count /\ count' = count + 1
  BY DEF Stages
<1>1. Published' = Published /\ Commits(p) /\ Commits(p)' /\ Committing'
  BY DEF Published, Commits, Committing, Stages
<1>2. TypeOK /\ OpType /\ (\A c \in Blk : slotOf[c] # None => slotOf[c] \in Blk /\ slotOf[c] \in Nat)
      /\ None \notin Int /\ count \in Nat /\ Published \in Nat /\ s \in Nat /\ None # s
      /\ \A i \in 1 .. Published : hdr[i] \in Blk
  BY SlotTypes, VfsJournalAssumption DEF JInv, Blk
<1>3. ASSUME NEW c \in Blk
      PROVE  Journalled'[c] = IF c = b THEN dir[b] ELSE Journalled[c]
  <2>1. Journalled'[c] = IF slotOf'[c] # None THEN shadow'[slotOf'[c]] ELSE home'[c]
    BY DEF Journalled
  <2>2. Journalled[c] = IF slotOf[c] # None THEN shadow[slotOf[c]] ELSE home[c]
    BY DEF Journalled
  <2>3. CASE c = b
    BY <1>0, <1>2, <2>1, <2>3
  <2>4. CASE c # b
    BY <1>0, <1>2, <2>1, <2>2, <2>4
  <2> QED BY <2>3, <2>4
<1>4. /\ \A c \in Blk : slotOf[c] # None => slotOf[c] < count
      /\ \A c, d \in Blk : slotOf[c] = slotOf[d] /\ slotOf[c] # None => c = d
      /\ \A t \in 0 .. count - 1 : \E c \in Blk : slotOf[c] = t
  BY DEF JInv, Slots
<1>5. s < count' /\ count' \in Nat /\ count <= count' /\ count' <= NBlk
  <2>1. slotOf[b] = s => s < count
    BY <1>2, <1>4
  <2>2. slotOf[b] = None => count < NBlk
    BY <1>2, FreeSlot DEF JInv
  <2>3. count <= NBlk /\ NBlk \in Nat
    BY <1>2, SlotTypes
  <2> QED BY <1>0, <1>2, <2>1, <2>2, <2>3
<1>6. Slots'
  <2>1. \A c \in Blk : slotOf'[c] # None => slotOf'[c] < count'
    BY <1>0, <1>2, <1>4, <1>5
  <2>2. \A c, d \in Blk : slotOf'[c] = slotOf'[d] /\ slotOf'[c] # None => c = d
    BY <1>0, <1>4
  <2>3. ASSUME NEW t \in 0 .. count' - 1
        PROVE  \E c \in Blk : slotOf'[c] = t
    <3>1. CASE t = s
      BY <1>0, <3>1
    <3>2. CASE t # s
      <4>0. count' = count \/ (s = count /\ count' = count + 1)
        BY <1>0
      <4>1. t \in 0 .. count - 1
        BY <1>2, <2>3, <3>2, <4>0
      <4>2. PICK c \in Blk : slotOf[c] = t
        BY <1>4, <4>1
      <4>3. c # b
        BY <1>0, <1>2, <3>2, <4>1, <4>2
      <4> QED BY <1>0, <4>2, <4>3
    <3> QED BY <3>1, <3>2
  <2> QED BY <2>1, <2>2, <2>3 DEF Slots
<1>7. HeaderSound'
  <2>1. /\ \A i, j \in 1 .. Published : hdr[i] = hdr[j] => i = j
        /\ Published <= count /\ \A i \in 1 .. Published : slotOf[hdr[i]] = i - 1
    BY <1>0 DEF JInv, HeaderSound
  <2>2. ASSUME NEW i \in 1 .. Published
        PROVE  slotOf'[hdr[i]] = i - 1
    <3>1. hdr[i] \in Blk /\ slotOf[hdr[i]] = i - 1 /\ i - 1 # None
      BY <1>2, <2>1
    <3> QED BY <1>0, <3>1
  <2> QED BY <1>0, <1>1, <1>2, <1>5, <2>1, <2>2 DEF HeaderSound
<1>8. Fresh'
  <2>1. \A c \in Blk : slotOf[c] # None /\ slotOf[c] >= Published => shadow[slotOf[c]] = dir[c]
    BY <1>0 DEF JInv, Fresh
  <2> QED BY <1>0, <1>1, <1>2, <2>1 DEF Fresh
<1>9. TypeOK'
  <2>1. count' \in 0 .. NBlk
    BY <1>2, <1>5, SlotTypes
  <2>2. lazyN' \in 0 .. LazyMax
    BY <1>2, VfsJournalAssumption DEF TypeOK, Stages
  <2>3. \A q \in Proc : op'[q].todo \in Seq(Blk) /\ op'[q].slot \in 0 .. NBlk
    BY DEF OpType, OpRec, Stages
  <2> QED BY <1>0, <1>2, <2>1, <2>2, <2>3 DEF TypeOK
<1> QED BY <1>1, <1>3, <1>6, <1>7, <1>8, <1>9

\* A block that was to be staged and no longer is to be is the one just staged.
LEMMA StagesQueue ==
    ASSUME JInv, NEW p \in Proc, NEW b \in Blk, NEW s \in Blk, Stages(p, b, s)
    PROVE  /\ \A c \in Blk : Queued(p, c) => c = b \/ Queued(p, c)'
           /\ \A q \in Proc : q # p => ~Commits(q) /\ ~Commits(q)'
           /\ op'[p].todo = <<>> => \A c : ~Queued(p, c)'
           /\ Len(op[p].todo) = 1 <=> op'[p].todo = <<>>
<1>1. PICK t : t = op[p].todo
  OBVIOUS
<1>2. t \in Seq(Blk) /\ t # <<>> /\ b = Head(t) /\ op'[p].todo = Tail(t)
  BY <1>1 DEF Stages
<1>3. \A i \in 1 .. Len(t) : i = 1 \/ (i - 1 \in 1 .. Len(Tail(t)) /\ Tail(t)[i - 1] = t[i])
  BY <1>2
<1>4. \A c \in Blk : Queued(p, c) => c = b \/ Queued(p, c)'
  <2> SUFFICES ASSUME NEW c \in Blk, Queued(p, c), c # b
               PROVE  Queued(p, c)'
    OBVIOUS
  <2>1. PICK i \in 1 .. Len(t) : t[i] = c
    BY <1>1 DEF Queued
  <2>2. i # 1
    BY <1>2, <2>1
  <2>3. i - 1 \in 1 .. Len(Tail(t)) /\ Tail(t)[i - 1] = c
    BY <1>3, <2>1, <2>2
  <2> QED BY <1>2, <2>3 DEF Queued
<1>5. Busy(p)
  BY DEF Busy, Stages
<1>6. \A q \in Proc : q # p => ~Commits(q) /\ ~Commits(q)'
  BY <1>5, OnlyOne DEF Commits, Stages
<1>7. ASSUME op'[p].todo = <<>>, NEW c PROVE ~Queued(p, c)'
  <2>1. Len(op'[p].todo) = 0
    BY <1>7
  <2> QED BY <2>1 DEF Queued
<1>8. Len(t) = 1 <=> Tail(t) = <<>>
  <2>1. Tail(t) \in Seq(Blk) /\ Len(Tail(t)) = Len(t) - 1 /\ Len(t) \in Nat
    BY <1>2
  <2>2. Len(Tail(t)) = 0 <=> Tail(t) = <<>>
    BY <2>1, EmptySeq
  <2> QED BY <2>1, <2>2
<1> QED BY <1>1, <1>2, <1>4, <1>6, <1>7, <1>8

\* What a mount would recover moves to what the directory in RAM holds, and
\* finds no name twice.
LEMMA StagesRecovered ==
    ASSUME JInv, NEW p \in Proc, NEW b \in Blk, NEW s \in Blk, Stages(p, b, s),
           NamesDurable', DirUnique'
    PROVE  /\ UniqueNames'
           /\ \A c \in Blk : Recovered'[c] = Recovered[c] \/ Recovered'[c] = dir[c]
<1>0. /\ power = "on" /\ power' = "on" /\ setting' = setting /\ lock' = lock
      /\ home' = home /\ hdr' = hdr /\ dir' = dir /\ lazy' = lazy
      /\ shadow' \in [Blk -> Row] /\ shadow'[s] = dir[b]
      /\ \A t \in Blk : t # s => shadow'[t] = shadow[t]
      /\ slotOf' \in [Blk -> Blk \cup {None}] /\ slotOf'[b] = s
      /\ \A c \in Blk : c # b => slotOf'[c] = slotOf[c] /\ slotOf[c] # s
      /\ \/ slotOf[b] = s /\ count' = count
         \/ slotOf[b] = None /\ s = count /\ count' = count + 1
  BY DEF Stages
<1>a. /\ op[p].pc = "write" /\ op[p].todo # <<>> /\ op'[p].pc = "stage" /\ op'[p].kind = op[p].kind
      /\ op'[p].carried = op[p].carried
      /\ op'[p].torn <=> (op[p].torn \/ (op[p].kind = "multi" /\ hdr # None
                                            /\ s < Len(hdr) /\ hdr[s + 1] = b))
  BY DEF Stages
<1>1. /\ Published' = Published /\ Commits(p) /\ Commits(p)'
      /\ \A c \in Blk : Journalled'[c] = IF c = b THEN dir[b] ELSE Journalled[c]
      /\ TypeOK' /\ Slots' /\ HeaderSound'
  BY StagesData
<1>2. /\ None \notin Int /\ count \in Nat /\ Published \in Nat /\ s \in Nat /\ None # s
      /\ (hdr # None => Published = Len(hdr)) /\ (hdr = None => Published = 0)
      /\ \A i \in 1 .. Published : hdr[i] \in Blk
      /\ \A c \in Blk : slotOf[c] # None => slotOf[c] \in Nat /\ slotOf[c] \in Blk
  BY SlotTypes, VfsJournalAssumption DEF JInv, Blk, Published
<1>3. \A c \in Blk : Recovered[c] =
          IF slotOf[c] # None /\ slotOf[c] < Published THEN shadow[slotOf[c]] ELSE home[c]
  BY <1>0, RecoveredOn
<1>4. \A c \in Blk : Recovered'[c] =
          IF slotOf'[c] # None /\ slotOf'[c] < Published THEN shadow'[slotOf'[c]] ELSE home[c]
  BY <1>0, <1>1, RecoveredNext
<1>5. ASSUME NEW c \in Blk, c # b PROVE Recovered'[c] = Recovered[c]
  <2>1. slotOf'[c] = slotOf[c] /\ slotOf[c] # s
    BY <1>0, <1>5
  <2>2. slotOf[c] # None => shadow'[slotOf[c]] = shadow[slotOf[c]]
    BY <1>0, <1>2, <2>1
  <2> QED BY <1>3, <1>4, <2>1, <2>2
<1>6. Recovered'[b] = IF s < Published THEN dir[b] ELSE Recovered[b]
  <2>1. CASE s < Published
    BY <1>0, <1>2, <1>4, <2>1
  <2>2. CASE ~(s < Published)
    BY <1>0, <1>2, <1>3, <1>4, <2>2
  <2> QED BY <2>1, <2>2
<1>7. \A c \in Blk : Recovered'[c] = Recovered[c] \/ Recovered'[c] = dir[c]
  BY <1>5, <1>6
<1>8. /\ \A q \in Proc : q # p => ~Commits(q) /\ ~Commits(q)' /\ op[q].torn = FALSE
      /\ op'[p].todo = <<>> => \A c : ~Queued(p, c)'
      /\ Len(op[p].todo) = 1 <=> op'[p].todo = <<>>
  <2>1. Busy(p)
    BY <1>a DEF Busy
  <2>2. \A q \in Proc : q # p => op[q].torn = FALSE
    BY <2>1, OnlyOne
  <2> QED BY <2>2, StagesQueue
<1>9. CASE op'[p].todo = <<>> /\ count' = Published'
  <2>1. \A q \in Proc, c \in Blk : ~(Commits(q)' /\ ~op'[q].carried /\ Queued(q, c)')
    BY <1>8, <1>9
  <2>2. UniqueNames'
    BY <1>0, <1>1, <1>9, <2>1, SettledUnique
  <2> QED BY <1>7, <2>2
<1>10. CASE ~(s < Published)
  <2>1. \A c \in Blk : Recovered'[c] = Recovered[c]
    BY <1>5, <1>6, <1>10
  <2>2. ASSUME Mixed PROVE Mixed'
    <3>1. op[p].torn
      BY <1>8, <2>2 DEF Mixed
    <3>2. hdr # None
      BY <3>1 DEF JInv, Steps, StepOk
    <3>3. s < count'
      BY <1>0, <1>1, <1>2 DEF Slots
    <3>4. count' > Len(hdr)
      BY <1>1, <1>2, <1>10, <3>2, <3>3 DEF TypeOK
    <3>5. op'[p].torn /\ hdr' # None /\ count' > Len(hdr')
      BY <1>0, <1>a, <3>1, <3>2, <3>4
    <3> QED BY <3>5 DEF Mixed
  <2>3. UniqueNames'
    <3> SUFFICES ASSUME ~Mixed'
                 PROVE  \A e, f \in Ent :
                            (At(Recovered', e) # None /\ At(Recovered', f) # None /\ e # f)
                                => At(Recovered', e).name # At(Recovered', f).name
      BY DEF UniqueNames, At
    <3>1. \A e, f \in Ent :
              (At(Recovered, e) # None /\ At(Recovered, f) # None /\ e # f)
                  => At(Recovered, e).name # At(Recovered, f).name
      BY <2>2 DEF JInv, UniqueNames
    <3>2. \A e \in Ent : At(Recovered', e) = At(Recovered, e)
      BY <2>1 DEF At, Ent
    <3> QED BY <3>1, <3>2
  <2> QED BY <1>7, <2>3
<1>11. ASSUME s < Published, ~(op'[p].todo = <<>> /\ count' = Published')
       PROVE  UniqueNames'
  <2>1. slotOf[b] = s /\ count' = count /\ hdr # None /\ s < Len(hdr)
    <3>1. Published <= count
      BY <1>0 DEF JInv, HeaderSound
    <3> QED BY <1>0, <1>2, <1>11, <3>1
  <2>2. hdr[s + 1] = b
    <3>1. s + 1 \in 1 .. Published
      BY <1>2, <1>11
    <3>2. slotOf[hdr[s + 1]] = s
      BY <1>0, <1>2, <3>1 DEF JInv, HeaderSound
    <3>3. hdr[s + 1] \in Blk
      BY <1>2, <3>1
    <3> QED BY <1>0, <3>2, <3>3
  <2>3. CASE op[p].kind = "multi"
    <3>1. op'[p].torn
      BY <1>a, <2>1, <2>2, <2>3
    <3>2. op'[p].todo # <<>> \/ count' > Len(hdr')
      <4>1. Published <= count
        BY <1>0 DEF JInv, HeaderSound
      <4> QED BY <1>0, <1>1, <1>2, <1>11, <2>1, <4>1
    <3>3. Mixed'
      BY <1>0, <2>1, <3>1, <3>2 DEF Mixed
    <3> QED BY <3>3 DEF UniqueNames
  <2>4. CASE op[p].kind # "multi"
    <3>1. /\ op[p].torn => op[p].kind = "multi"
          /\ ~op[p].carried /\ op[p].kind \in {"flush", "sync"} => op[p].todo = <<>>
          /\ ~op[p].carried /\ op[p].kind = "idx" => Len(op[p].todo) = 1 /\ count = Published
      BY <1>1, <1>a DEF JInv, Steps, StepOk
    <3>2. ~Mixed
      BY <1>8, <2>4, <3>1 DEF Mixed
    <3>3. op[p].carried
      <4>1. op[p].kind \in {"idx", "flush", "sync"}
        <5>1. op[p].kind \in {"none", "idx", "multi", "flush", "sync", "mount"}
          BY DEF JInv, OpType, OpRec
        <5>2. op[p].kind # "none" /\ op[p].kind # "mount"
          BY <1>0, <1>a DEF JInv, Phases, PhaseOk, Busy
        <5> QED BY <2>4, <5>1, <5>2
      <4> QED BY <1>1, <1>8, <1>11, <1>a, <2>1, <3>1, <4>1
    <3>4. \A e \in Ent : SameName(At(Journalled, e), At(dir, e))
      BY <1>0, <1>8, <3>3 DEF JInv, NamesDurable
    <3>5. Recovered[b] = Journalled[b] /\ Recovered'[b] = dir[b]
      BY <1>2, <1>3, <1>6, <1>11, <2>1 DEF Journalled
    <3>6. ASSUME NEW e \in Ent
          PROVE  SameName(At(Recovered', e), At(Recovered, e))
      <4>1. CASE e[1] = b
        <5>1. At(Recovered', e) = At(dir, e) /\ At(Recovered, e) = At(Journalled, e)
          BY <3>5, <4>1 DEF At
        <5> QED BY <3>4, <5>1 DEF SameName
      <4>2. CASE e[1] # b
        <5>1. e[1] \in Blk
          BY DEF Ent
        <5> QED BY <1>5, <4>2, <5>1 DEF At, SameName
      <4> QED BY <4>1, <4>2
    <3>7. \A e, f \in Ent : (At(Recovered, e) # None /\ At(Recovered, f) # None /\ e # f)
                                => At(Recovered, e).name # At(Recovered, f).name
      BY <3>2 DEF JInv, UniqueNames
    <3>8. \A e, f \in Ent : (At(Recovered', e) # None /\ At(Recovered', f) # None /\ e # f)
                                => At(Recovered', e).name # At(Recovered', f).name
      BY <3>6, <3>7 DEF SameName
    <3> QED BY <3>8 DEF UniqueNames, At
  <2> QED BY <2>3, <2>4
<1> QED BY <1>7, <1>9, <1>10, <1>11

\* One block of a commit.
LEMMA StageBlockKeeps ==
    ASSUME JInv, NEW p \in Proc, StageBlock(p)
    PROVE  JInv' /\ \A c \in Blk : Recovered'[c] = Recovered[c] \/ Recovered'[c] = dir'[c]
<1>1. PICK b : b = Head(op[p].todo)
  OBVIOUS
<1>2. PICK s : s = op[p].slot
  OBVIOUS
<1>3. Stages(p, b, s)
  BY <1>1, <1>2, StageBlockIs
<1>4. /\ power = "on" /\ power' = "on" /\ setting' = setting /\ lock' = lock
      /\ hdr' = hdr /\ dir' = dir /\ lazy' = lazy /\ b \in Blk /\ s \in Blk
      /\ lazyN' = IF AllStaged(p) THEN 0 ELSE lazyN
      /\ OpType' /\ (\A q \in Proc : q # p => op'[q] = op[q])
      /\ op[p].pc = "write" /\ op'[p].pc = "stage" /\ op'[p].kind = op[p].kind
      /\ op'[p].carried = op[p].carried /\ op[p].todo # <<>>
  BY <1>3 DEF Stages
<1>5. op'[p].torn => op[p].torn \/ (op[p].kind = "multi" /\ hdr # None)
  BY <1>3 DEF Stages
<1>6. /\ Commits(p) /\ Commits(p)'
      /\ \A c \in Blk : Journalled'[c] = IF c = b THEN dir[b] ELSE Journalled[c]
      /\ TypeOK' /\ Slots' /\ HeaderSound' /\ Fresh'
  BY <1>3, <1>4, StagesData
<1>7. /\ \A c \in Blk : Queued(p, c) => c = b \/ Queued(p, c)'
      /\ \A q \in Proc : q # p => ~Commits(q) /\ ~Commits(q)'
      /\ Len(op[p].todo) = 1 <=> op'[p].todo = <<>>
  BY <1>3, <1>4, StagesQueue
<1>8. Busy(p) /\ Busy(p)'
  BY <1>4 DEF Busy
<1>9. /\ OneBusy'
      /\ \A q \in Proc : q # p => PhaseOk(q)' /\ StepOk(q)' /\ CopyOk(q)'
  BY <1>4, <1>8, Others
<1>10. Phases' /\ Copied' /\ Off'
  <2>1. PhaseOk(p)
    BY DEF JInv, Phases
  <2>2. PhaseOk(p)'
    BY <1>4, <1>6, <1>8, <2>1 DEF PhaseOk
  <2>3. CopyOk(p)'
    BY <1>4 DEF CopyOk
  <2> QED BY <1>4, <1>9, <2>2, <2>3 DEF Phases, Copied, Off
<1>11. StepOk(p)
  BY DEF JInv, Steps
<1>12. AllStaged(p) => lazy = {} /\ op'[p].todo = <<>>
  BY <1>7, <1>11 DEF AllStaged, StepOk
<1>13. Steps'
  <2>1. op[p].carried /\ op'[p].todo = <<>> => lazyN' = 0
    BY <1>4, <1>7 DEF AllStaged
  <2>2. ~op[p].carried /\ op[p].kind = "idx" => op'[p].todo = <<>>
    BY <1>4, <1>6, <1>7, <1>11 DEF StepOk
  <2>3. ~op[p].carried => op[p].kind \notin {"flush", "sync"}
    BY <1>4, <1>6, <1>11 DEF StepOk
  <2>4. StepOk(p)'
    BY <1>4, <1>5, <1>6, <1>11, <2>1, <2>2, <2>3 DEF StepOk
  <2> QED BY <1>9, <2>4 DEF Steps
<1>14. ASSUME NEW e \in Ent
       PROVE  At(Journalled', e) = IF e[1] = b THEN At(dir, e) ELSE At(Journalled, e)
  BY <1>6 DEF At, Ent
<1>15. ASSUME NEW e \in Ent
       PROVE  \/ e \in lazy
              \/ \E q \in Proc : Commits(q)' /\ Queued(q, e[1])'
              \/ At(Journalled', e) = At(dir, e)
  <2>1. e[1] \in Blk
    BY DEF Ent
  <2>2. \/ e \in lazy
        \/ \E q \in Proc : Commits(q) /\ Queued(q, e[1])
        \/ At(Journalled, e) = At(dir, e)
    BY <1>4 DEF JInv, Durable
  <2>3. ASSUME NEW q \in Proc, Commits(q), Queued(q, e[1])
        PROVE  e[1] = b \/ Queued(p, e[1])'
    BY <1>7, <2>1, <2>3
  <2> QED BY <1>6, <1>14, <2>2, <2>3
<1>16. ASSUME NEW e \in Ent
       PROVE  \/ \E q \in Proc : Commits(q)' /\ ~op'[q].carried /\ Queued(q, e[1])'
              \/ SameName(At(Journalled', e), At(dir, e))
  <2>1. e[1] \in Blk
    BY DEF Ent
  <2>2. \/ \E q \in Proc : Commits(q) /\ ~op[q].carried /\ Queued(q, e[1])
        \/ SameName(At(Journalled, e), At(dir, e))
    BY <1>4 DEF JInv, NamesDurable
  <2>3. ASSUME NEW q \in Proc, Commits(q), ~op[q].carried, Queued(q, e[1])
        PROVE  e[1] = b \/ (~op'[p].carried /\ Queued(p, e[1])')
    BY <1>4, <1>7, <2>1, <2>3
  <2>4. e[1] = b => SameName(At(Journalled', e), At(dir, e))
    BY <1>14 DEF SameName
  <2>5. e[1] # b => At(Journalled', e) = At(Journalled, e)
    BY <1>14
  <2> QED BY <1>6, <2>2, <2>3, <2>4, <2>5
<1>17. Durable' /\ NamesDurable'
  <2>1. Durable'
    BY <1>4, <1>15 DEF Durable, At
  <2>2. NamesDurable'
    BY <1>4, <1>16 DEF NamesDurable, At, SameName
  <2> QED BY <2>1, <2>2
<1>18. DirUnique'
  BY <1>4 DEF JInv, DirUnique, At
<1>19. NoForgottenAppend'
  BY <1>4, <1>12 DEF JInv, NoForgottenAppend
<1>20. LazyBound'
  <2> SUFFICES ASSUME lazyN' = LazyMax
               PROVE  Commits(p)' /\ op'[p].kind # "multi"
    BY DEF LazyBound
  <2>1. lazyN = LazyMax
    BY <1>4, VfsJournalAssumption
  <2>2. \E q \in Proc : Commits(q) /\ op[q].kind # "multi"
    BY <2>1 DEF JInv, LazyBound
  <2> QED BY <1>4, <1>6, <1>7, <2>2
<1>21. UniqueNames' /\ \A c \in Blk : Recovered'[c] = Recovered[c] \/ Recovered'[c] = dir[c]
  BY <1>3, <1>4, <1>17, <1>18, StagesRecovered
<1> QED BY <1>4, <1>6, <1>9, <1>10, <1>13, <1>17, <1>18, <1>19, <1>20, <1>21 DEF JInv

\* The blocks a set of deferred dirents is in, as a commit stages them.
LEMMA InOrderIs ==
    ASSUME NEW S \in SUBSET Blk, NEW t \in InOrder(S)
    PROVE  /\ t \in Seq(Blk)
           /\ \A b \in S : \E i \in 1 .. Len(t) : t[i] = b
           /\ t = <<>> => S = {}
<1>1. IsFiniteSet(Blk)
  BY VfsJournalAssumption, FS_Interval DEF Blk
<1>2. Cardinality(S) \in Nat
  BY <1>1, FS_Subset, FS_CardinalityType
<1>3. t \in [1 .. Cardinality(S) -> S] /\ Range(t) = S
  BY DEF InOrder
<1>4. PICK n \in Nat : n = Cardinality(S)
  BY <1>2
<1>5. t \in [1 .. n -> Blk] /\ DOMAIN t = 1 .. n
  BY <1>3, <1>4
<1>6. t \in Seq(Blk) /\ Len(t) = n
  BY <1>5
<1>7. \A b \in S : \E i \in 1 .. Len(t) : t[i] = b
  BY <1>3, <1>5, <1>6 DEF Range
<1> QED BY <1>6, <1>7

\* The deferred dirents' blocks join a commit.
LEMMA StageDeferredKeeps ==
    ASSUME JInv, NEW p \in Proc, StageDeferred(p)
    PROVE  JInv' /\ Recovered' = Recovered
<1>1. /\ op[p].pc = "stage" /\ op[p].todo = <<>> /\ op[p].kind # "multi" /\ ~op[p].carried /\ lazyN # 0
      /\ lazy' = {} /\ lazyN' = IF lazy = {} THEN 0 ELSE lazyN
      /\ UNCHANGED <<setting, disk, dir, slotOf, count, lock, power>>
  BY DEF StageDeferred, Staging, Deferring, Carries
<1>0. PICK S : S = {e[1] : e \in lazy}
  OBVIOUS
<1>2. PICK t \in InOrder(S) : op' = [op EXCEPT ![p].carried = TRUE, ![p].todo = t]
  BY <1>0 DEF StageDeferred
<1>3. TypeOK /\ OpType /\ Commits(p) /\ Busy(p) /\ lazy \in SUBSET Ent
  BY <1>1 DEF JInv, TypeOK, Commits, Busy
<1>4. power = "on"
  BY <1>3 DEF JInv, Phases, PhaseOk
<1>5. S \in SUBSET Blk /\ \A e \in lazy : e[1] \in S
  BY <1>0, <1>3 DEF Ent
<1>6. /\ t \in Seq(Blk)
      /\ \A e \in lazy : \E i \in 1 .. Len(t) : t[i] = e[1]
      /\ t = <<>> => lazy = {}
  BY <1>5, InOrderIs
<1>7. PICK r : r = [op[p] EXCEPT !.carried = TRUE, !.todo = t]
  OBVIOUS
<1>8. r \in OpRec /\ op' = [op EXCEPT ![p] = r]
  <2>1. op[p] \in OpRec /\ op \in [Proc -> OpRec] /\ t \in Seq(Blk)
    BY <1>3, <1>6 DEF OpType
  <2>2. r \in OpRec
    BY <1>7, <2>1 DEF OpRec
  <2>3. op' = [op EXCEPT ![p] = r]
    BY <1>2, <1>7, <2>1 DEF OpRec
  <2> QED BY <2>2, <2>3
<1>9. /\ OpType' /\ op'[p] = r /\ \A q \in Proc : q # p => op'[q] = op[q]
      /\ \A q \in Proc : op'[q].todo \in Seq(Blk) /\ op'[q].slot \in 0 .. NBlk
  BY <1>3, <1>8, Moves
<1>10. /\ op'[p].pc = "stage" /\ op'[p].todo = t /\ op'[p].carried = TRUE
       /\ op'[p].kind = op[p].kind /\ op'[p].torn = op[p].torn
  BY <1>1, <1>3, <1>7, <1>9 DEF OpType, OpRec
<1>11. /\ home' = home /\ shadow' = shadow /\ hdr' = hdr /\ dir' = dir /\ slotOf' = slotOf
       /\ count' = count /\ power' = "on" /\ lock' = lock /\ setting' = setting
       /\ Published' = Published /\ Journalled' = Journalled /\ Recovered' = Recovered
  BY <1>1, <1>4 DEF disk, Published, Journalled, Recovered
<1>12. Commits(p)' /\ Busy(p)' /\ Committing /\ Committing'
  BY <1>1, <1>10 DEF Commits, Busy, Committing
<1>13. /\ OneBusy'
       /\ \A q \in Proc : q # p => /\ PhaseOk(q)' /\ StepOk(q)' /\ CopyOk(q)'
                                   /\ ~Commits(q)' /\ op'[q].torn = FALSE
  BY <1>3, <1>4, <1>9, <1>11, <1>12, Others
<1>14. \A q \in Proc : q # p => ~Commits(q)
  BY <1>3, OnlyOne
<1>15. StepOk(p) /\ PhaseOk(p)
  BY DEF JInv, Steps, Phases
<1>16. ~op[p].torn
  BY <1>1, <1>15 DEF StepOk
<1>17. TypeOK'
  <2>1. lazyN' \in 0 .. LazyMax /\ lazy' \in SUBSET Ent
    BY <1>1, <1>3, VfsJournalAssumption DEF TypeOK
  <2> QED BY <1>3, <1>9, <1>11, <2>1 DEF TypeOK
<1>18. Phases' /\ Copied' /\ Off'
  <2>1. PhaseOk(p)'
    BY <1>1, <1>4, <1>10, <1>11, <1>12, <1>15 DEF PhaseOk, Busy, Commits
  <2>2. CopyOk(p)'
    BY <1>10 DEF CopyOk
  <2> QED BY <1>11, <1>13, <2>1, <2>2 DEF Phases, Copied, Off
<1>19. Steps'
  <2>1. StepOk(p)'
    BY <1>1, <1>6, <1>10, <1>16 DEF StepOk
  <2> QED BY <1>13, <2>1 DEF Steps
<1>20. Slots' /\ HeaderSound' /\ Fresh'
  <2>1. Slots'
    BY <1>11 DEF JInv, Slots
  <2>2. HeaderSound'
    BY <1>4, <1>11, <1>12 DEF JInv, HeaderSound
  <2>3. Fresh'
    BY <1>4, <1>11 DEF JInv, Fresh
  <2> QED BY <2>1, <2>2, <2>3
<1>21. \A b : ~Queued(p, b)
  BY <1>1 DEF Queued
<1>22. Durable'
  <2> SUFFICES ASSUME NEW e \in Ent
               PROVE  \/ \E q \in Proc : Commits(q)' /\ Queued(q, e[1])'
                      \/ At(Journalled', e) = At(dir', e)
    BY DEF Durable, At
  <2>1. e \in lazy \/ At(Journalled, e) = At(dir, e)
    BY <1>4, <1>14, <1>21 DEF JInv, Durable
  <2>2. e \in lazy => Queued(p, e[1])'
    BY <1>6, <1>10 DEF Queued
  <2> QED BY <1>11, <1>12, <2>1, <2>2
<1>23. NamesDurable'
  <2>1. \A e \in Ent : SameName(At(Journalled, e), At(dir, e))
    BY <1>4, <1>14, <1>21 DEF JInv, NamesDurable
  <2>2. \A e \in Ent : SameName(At(Journalled', e), At(dir', e))
    BY <1>11, <2>1
  <2> QED BY <2>2 DEF NamesDurable, At, SameName
<1>24. UniqueNames'
  <2>1. ~Mixed
    BY <1>16, Rests, OnlyOne, <1>3 DEF Mixed
  <2> QED BY <1>11, <2>1 DEF JInv, UniqueNames, At
<1>25. DirUnique' /\ NoForgottenAppend'
  BY <1>1, <1>4, <1>11 DEF JInv, DirUnique, NoForgottenAppend, At
<1>26. LazyBound'
  BY <1>1, <1>10, <1>12 DEF LazyBound
<1> QED BY <1>9, <1>11, <1>13, <1>17, <1>18, <1>19, <1>20, <1>22, <1>23, <1>24, <1>25, <1>26 DEF JInv

\* The header names the block of each slot in use.
LEMMA HeaderWritten ==
    ASSUME TypeOK, Slots, hdr' = [i \in 1 .. count |-> BlockIn(i - 1)]
    PROVE  /\ hdr' \in Seq(Blk) /\ Len(hdr') = count /\ Published' = count
           /\ \A i \in 1 .. count : slotOf[hdr'[i]] = i - 1
<1>1. count \in Nat /\ None \notin Seq(Blk)
  BY SlotTypes, VfsJournalAssumption
<1>2. ASSUME NEW i \in 1 .. count
      PROVE  BlockIn(i - 1) \in Blk /\ slotOf[BlockIn(i - 1)] = i - 1
  <2>1. PICK b \in Blk : slotOf[b] = i - 1
    <3>1. i - 1 \in 0 .. count - 1
      BY <1>1
    <3> QED BY <3>1 DEF Slots
  <2>2. i - 1 # None
    BY VfsJournalAssumption
  <2>3. Claims(i - 1) = {b}
    BY <2>1, <2>2 DEF Claims, Slots
  <2>4. b \in Int /\ b <= b
    BY VfsJournalAssumption DEF Blk
  <2>5. BlockIn(i - 1) = b
    BY <2>3, <2>4 DEF BlockIn
  <2> QED BY <2>1, <2>5
<1>3. hdr' \in [1 .. count -> Blk]
  BY <1>2
<1>4. hdr' \in Seq(Blk) /\ Len(hdr') = count
  BY <1>1, <1>3
<1>5. hdr' # None
  BY <1>1, <1>4
<1> QED BY <1>2, <1>4, <1>5 DEF Published

\* The header is written: everything staged is what a mount would find.
LEMMA PublishKeeps ==
    ASSUME JInv, NEW p \in Proc, Publish(p)
    PROVE  /\ JInv'
           /\ \A b \in Blk : Recovered'[b] = Recovered[b] \/ Recovered'[b] = dir'[b]
           /\ op[p].kind = "idx" => Recovered' = dir'
           /\ power' = power
<1>1. /\ op[p].pc = "stage" /\ op[p].todo = <<>> /\ ~Deferring(p)
      /\ hdr' = [i \in 1 .. count |-> BlockIn(i - 1)]
      /\ UNCHANGED <<setting, home, shadow, ram, power>>
  BY DEF Publish, Staging
<1>2. TypeOK /\ OpType /\ Slots /\ Commits(p) /\ Busy(p)
  BY <1>1 DEF JInv, Commits, Busy
<1>3. PhaseOk(p) /\ StepOk(p) /\ power = "on"
  BY <1>2 DEF JInv, Phases, Steps, PhaseOk
<1>4. /\ hdr' \in Seq(Blk) /\ Len(hdr') = count /\ Published' = count
      /\ \A i \in 1 .. count : slotOf[hdr'[i]] = i - 1
  BY <1>1, <1>2, HeaderWritten
<1>5. /\ home' = home /\ shadow' = shadow /\ dir' = dir /\ slotOf' = slotOf /\ count' = count
      /\ lazy' = lazy /\ lazyN' = lazyN /\ power' = "on" /\ setting' = setting
      /\ Journalled' = Journalled
  BY <1>1, <1>3 DEF ram, Journalled
<1>6. op[p].kind # "multi" => lazyN = 0
  BY <1>1, <1>2, <1>3 DEF Deferring, Carries, StepOk
<1>7. \A q \in Proc : q # p => ~Commits(q)
  BY <1>2, OnlyOne
<1>8. PICK r \in OpRec :
        /\ op' = [op EXCEPT ![p] = r] /\ r.torn = FALSE
        /\ \/ r.pc = "header" /\ r.kind = "sync" /\ op[p].kind = "sync" /\ lock' = lock
              /\ r.carried = op[p].carried
           \/ r = NoOp /\ lock' = None
  <2>1. CASE op[p].kind = "sync"
    <3>1. PICK r : r = [op[p] EXCEPT !.pc = "header"]
      OBVIOUS
    <3>2. op' = [op EXCEPT ![p].pc = "header"] /\ lock' = lock
      BY <2>1 DEF Publish
    <3>3. /\ r \in OpRec /\ op' = [op EXCEPT ![p] = r]
          /\ r.pc = "header" /\ r.kind = op[p].kind /\ r.torn = op[p].torn /\ r.carried = op[p].carried
      BY <1>2, <3>1, <3>2 DEF OpType, OpRec
    <3>4. op[p].torn = FALSE
      BY <1>2, <1>3, <2>1 DEF StepOk, OpType, OpRec
    <3> QED BY <2>1, <3>2, <3>3, <3>4
  <2>2. CASE op[p].kind # "sync"
    <3>1. op' = [op EXCEPT ![p] = NoOp] /\ Release(p)
      BY <2>2 DEF Publish
    <3>2. lock' = None
      BY <1>2, <3>1, OnlyOne DEF Release
    <3>3. NoOp.torn = FALSE
      BY DEF NoOp
    <3> QED BY <3>1, <3>2, <3>3, NoOpType
  <2> QED BY <2>1, <2>2
<1>9. /\ OpType' /\ op'[p] = r /\ \A q \in Proc : q # p => op'[q] = op[q]
      /\ \A q \in Proc : op'[q].todo \in Seq(Blk) /\ op'[q].slot \in 0 .. NBlk
  BY <1>2, <1>8, Moves
<1>10. /\ ~Commits(p)' /\ op'[p].torn = FALSE
       /\ \/ Busy(p)' /\ lock' = lock /\ power' = power
          \/ ~Busy(p)' /\ lock' = None
  BY <1>1, <1>8, <1>9 DEF Commits, Busy, NoOp
<1>11. /\ OneBusy' /\ lock' \in Proc \cup {None}
       /\ \A q \in Proc : q # p => /\ PhaseOk(q)' /\ StepOk(q)' /\ CopyOk(q)'
                                   /\ ~Commits(q)' /\ op'[q].torn = FALSE
  BY <1>2, <1>5, <1>9, <1>10, Others
<1>12. \A q \in Proc : ~Commits(q)'
  BY <1>10, <1>11
<1>13. TypeOK'
  <2>1. count <= NBlk
    BY <1>2, SlotTypes
  <2> QED BY <1>2, <1>4, <1>5, <1>9, <1>11, <2>1 DEF TypeOK
<1>14. Phases' /\ Copied' /\ Off'
  <2>1. PhaseOk(p)' /\ CopyOk(p)'
    <3>1. CASE r.pc = "header" /\ r.kind = "sync"
      BY <1>3, <1>5, <1>9, <1>10, <3>1 DEF PhaseOk, CopyOk
    <3>2. CASE r = NoOp
      <4>1. ~Busy(p)' /\ op'[p].pc = "idle" /\ op'[p] = NoOp
        BY <1>9, <3>2 DEF Busy, NoOp
      <4> QED BY <1>5, <1>10, <4>1 DEF PhaseOk, CopyOk
    <3> QED BY <1>8, <3>1, <3>2
  <2> QED BY <1>5, <1>11, <2>1 DEF Phases, Copied, Off
<1>15. Steps'
  <2>1. StepOk(p)'
    BY <1>3, <1>5, <1>6, <1>8, <1>9, <1>10 DEF StepOk, NoOp
  <2> QED BY <1>11, <2>1 DEF Steps
<1>16. Slots'
  BY <1>2, <1>5 DEF Slots
<1>17. HeaderSound'
  <2>1. ASSUME NEW i \in 1 .. count, NEW j \in 1 .. count, hdr'[i] = hdr'[j]
        PROVE  i = j
    <3>1. i - 1 = j - 1 /\ i \in Int /\ j \in Int
      BY <1>2, <1>4, <2>1, SlotTypes
    <3> QED BY <3>1
  <2>2. count <= count
    BY <1>2, SlotTypes
  <2> QED BY <1>4, <1>5, <2>1, <2>2 DEF HeaderSound
<1>18. Fresh'
  <2>1. \A b \in Blk : slotOf[b] # None => slotOf[b] < count /\ slotOf[b] \in Nat /\ count \in Nat
    BY <1>2, SlotTypes DEF Slots
  <2> QED BY <1>4, <1>5, <2>1 DEF Fresh
<1>19. \A b : ~Queued(p, b)
  BY <1>1 DEF Queued
<1>20. \A e \in Ent : e \in lazy \/ At(Journalled, e) = At(dir, e)
  BY <1>3, <1>7, <1>19 DEF JInv, Durable
<1>21. Durable'
  BY <1>5, <1>20 DEF Durable, At
<1>22. NamesDurable'
  <2>1. \A e \in Ent : SameName(At(Journalled, e), At(dir, e))
    BY <1>3, <1>7, <1>19 DEF JInv, NamesDurable
  <2>2. \A e \in Ent : SameName(At(Journalled', e), At(dir', e))
    BY <1>5, <2>1
  <2> QED BY <2>2 DEF NamesDurable, At, SameName
<1>23. DirUnique' /\ NoForgottenAppend'
  BY <1>3, <1>5 DEF JInv, DirUnique, NoForgottenAppend, At
<1>24. UniqueNames' /\ \A b \in Blk : Recovered'[b] = Journalled[b]
  BY <1>4, <1>5, <1>12, <1>13, <1>16, <1>17, <1>22, <1>23, SettledUnique
<1>25. LazyBound'
  <2> SUFFICES ASSUME lazyN = LazyMax PROVE FALSE
    BY <1>5 DEF LazyBound
  <2>1. op[p].kind # "multi"
    BY <1>7 DEF JInv, LazyBound
  <2> QED BY <1>6, <2>1, VfsJournalAssumption
<1>26. ASSUME NEW b \in Blk
       PROVE  Recovered'[b] = Recovered[b] \/ Recovered'[b] = dir'[b]
  <2>1. Journalled[b] = IF slotOf[b] # None THEN shadow[slotOf[b]] ELSE home[b]
    BY DEF Journalled
  <2>2. Recovered[b] = IF slotOf[b] # None /\ slotOf[b] < Published THEN shadow[slotOf[b]] ELSE home[b]
    BY <1>3, RecoveredOn
  <2>3. slotOf[b] # None /\ ~(slotOf[b] < Published) => shadow[slotOf[b]] = dir[b]
    <3>1. slotOf[b] # None => slotOf[b] \in Nat /\ Published \in Nat
      BY <1>2, SlotTypes
    <3> QED BY <1>3, <3>1 DEF JInv, Fresh
  <2> QED BY <1>5, <1>24, <2>1, <2>2, <2>3
<1>27. ASSUME op[p].kind = "idx"
       PROVE  Recovered' = dir'
  <2>1. lazy = {}
    BY <1>3, <1>6, <1>27 DEF JInv, NoForgottenAppend
  <2>2. \A e \in Ent : At(Recovered', e) = At(dir, e)
    <3>1. \A e \in Ent : At(Journalled, e) = At(dir, e)
      BY <1>20, <2>1
    <3> QED BY <1>24, <3>1 DEF At, Ent
  <2>3. Recovered' \in [Blk -> Row] /\ dir \in [Blk -> Row]
    BY <1>2, <1>5, <1>13, <1>16, <1>17, RecoveredNext DEF TypeOK
  <2>4. ASSUME NEW b \in Blk PROVE Recovered'[b] = dir[b]
    <3>1. Recovered'[b] \in [Pos -> Dirent] /\ dir[b] \in [Pos -> Dirent]
      BY <2>3 DEF Row
    <3>2. \A i \in Pos : Recovered'[b][i] = dir[b][i]
      <4>1. \A i \in Pos : <<b, i>> \in Ent
        BY DEF Ent
      <4> QED BY <2>2, <4>1 DEF At
    <3> QED BY <3>1, <3>2
  <2> QED BY <1>5, <2>3, <2>4
<1> QED BY <1>3, <1>5, <1>9, <1>11, <1>13, <1>14, <1>15, <1>16, <1>17, <1>18, <1>21, <1>22, <1>23,
           <1>24, <1>25, <1>26, <1>27 DEF JInv

-----------------------------------------------------------------------------
(* Applying the journal. *)

\* With a sync or a mount at work no commit is.
LEMMA Applying ==
    ASSUME JInv, NEW p \in Proc, op[p].pc \in {"header", "apply"}
    PROVE  /\ Busy(p) /\ power # "off" /\ op[p].kind \in {"sync", "mount"}
           /\ op[p].kind = "mount" <=> power = "boot"
           /\ power = "on" => count = Published /\ lazyN = 0
           /\ \A q \in Proc : ~Commits(q) /\ op[q].torn = FALSE
           /\ ~Mixed /\ lazyN # LazyMax
<1>1. Busy(p) /\ ~Commits(p)
  BY DEF Busy, Commits
<1>2. PhaseOk(p) /\ StepOk(p) /\ OpType
  BY DEF JInv, Phases, Steps
<1>3. op[p].torn = FALSE
  BY <1>1, <1>2 DEF StepOk, OpType, OpRec
<1>4. \A q \in Proc : ~Commits(q) /\ op[q].torn = FALSE
  BY <1>1, <1>3, OnlyOne
<1>5. ~Committing /\ ~Mixed
  BY <1>4 DEF Committing, Commits, Mixed
<1>6. lazyN # LazyMax
  BY <1>4 DEF JInv, LazyBound
<1>7. /\ power # "off" /\ op[p].kind \in {"sync", "mount"}
      /\ op[p].kind = "mount" <=> power = "boot"
  BY <1>1, <1>2 DEF PhaseOk, Busy, NoOp
<1>8. power = "on" => count = Published /\ lazyN = 0
  BY <1>2, <1>5, <1>7 DEF JInv, HeaderSound, StepOk
<1> QED BY <1>1, <1>4, <1>5, <1>6, <1>7, <1>8

\* The call goes on to what follows the apply.
LEMMA AppliedKeeps ==
    ASSUME JInv, NEW p \in Proc, op[p].pc \in {"header", "apply"}, Applied(p), hdr' = None,
           UNCHANGED <<setting, lazy, lazyN, power>>
    PROVE  /\ OpType' /\ OneBusy' /\ Phases' /\ Steps' /\ Copied'
           /\ lock' \in Proc \cup {None} /\ (power # "on" => lock' = None)
           /\ \A q \in Proc : ~Commits(q)' /\ op'[q].torn = FALSE
           /\ \A q \in Proc : op'[q].todo \in Seq(Blk) /\ op'[q].slot \in 0 .. NBlk
           /\ \A q \in Proc : q # p => op'[q] = op[q]
<1>1. /\ Busy(p) /\ power # "off" /\ op[p].kind \in {"sync", "mount"} /\ op[p].torn = FALSE
      /\ op[p].kind = "mount" <=> power = "boot"
  BY Applying
<1>2. TypeOK /\ OpType /\ StepOk(p)
  BY DEF JInv, Steps
<1>3. PICK r \in OpRec :
        /\ op' = [op EXCEPT ![p] = r] /\ r.torn = FALSE
        /\ \/ /\ r.pc = "load" /\ r.kind = "mount" /\ r.carried = op[p].carried
              /\ op[p].kind = "mount" /\ lock' = lock
           \/ r = NoOp /\ op[p].kind = "sync" /\ lock' = None
  <2>1. CASE op[p].kind = "mount"
    <3>1. PICK r : r = [op[p] EXCEPT !.pc = "load"]
      OBVIOUS
    <3>2. op' = [op EXCEPT ![p].pc = "load"] /\ lock' = lock
      BY <2>1 DEF Applied
    <3>3. /\ r \in OpRec /\ op' = [op EXCEPT ![p] = r]
          /\ r.pc = "load" /\ r.kind = op[p].kind /\ r.torn = op[p].torn /\ r.carried = op[p].carried
      BY <1>2, <3>1, <3>2 DEF OpType, OpRec
    <3> QED BY <1>1, <2>1, <3>2, <3>3
  <2>2. CASE op[p].kind = "sync"
    <3>1. op' = [op EXCEPT ![p] = NoOp] /\ Release(p)
      BY <2>2 DEF Applied
    <3>2. lock' = None
      BY <1>1, <3>1, OnlyOne DEF Release
    <3>3. NoOp.torn = FALSE
      BY DEF NoOp
    <3> QED BY <2>2, <3>1, <3>2, <3>3, NoOpType
  <2> QED BY <1>1, <2>1, <2>2
<1>4. /\ OpType' /\ op'[p] = r /\ \A q \in Proc : q # p => op'[q] = op[q]
      /\ \A q \in Proc : op'[q].todo \in Seq(Blk) /\ op'[q].slot \in 0 .. NBlk
  BY <1>2, <1>3, Moves
<1>5. /\ ~Commits(p)' /\ op'[p].torn = FALSE
      /\ \/ Busy(p)' /\ lock' = lock /\ power' = power
         \/ ~Busy(p)' /\ lock' = None
  BY <1>3, <1>4 DEF Commits, Busy, NoOp
<1>6. /\ OneBusy' /\ lock' \in Proc \cup {None}
      /\ \A q \in Proc : q # p => /\ PhaseOk(q)' /\ StepOk(q)' /\ CopyOk(q)'
                                  /\ ~Commits(q)' /\ op'[q].torn = FALSE
  BY <1>1, <1>4, <1>5, Others
<1>7. PhaseOk(p)' /\ StepOk(p)' /\ CopyOk(p)'
  <2>1. CASE r.pc = "load" /\ r.kind = "mount" /\ r.carried = op[p].carried /\ op[p].kind = "mount"
    BY <1>1, <1>2, <1>4, <1>5, <2>1 DEF PhaseOk, StepOk, CopyOk
  <2>2. CASE r = NoOp
    <3>1. /\ ~Busy(p)' /\ op'[p].pc = "idle" /\ op'[p] = NoOp
          /\ op'[p].carried = FALSE /\ op'[p].kind = "none"
      BY <1>4, <2>2 DEF Busy, NoOp
    <3> QED BY <1>1, <1>5, <3>1 DEF PhaseOk, StepOk, CopyOk
  <2> QED BY <1>3, <2>1, <2>2
<1>8. Phases' /\ Steps' /\ Copied'
  BY <1>6, <1>7 DEF Phases, Steps, Copied
<1>9. power # "on" => lock' = None
  BY <1>1, <1>3 DEF JInv, Off
<1> QED BY <1>4, <1>5, <1>6, <1>8, <1>9

\* No header, no slot in use.
LEMMA NoSlots ==
    ASSUME JInv, NEW p \in Proc, op[p].pc \in {"header", "apply", "load"}, hdr = None,
           op[p].pc = "load" => power = "boot"
    PROVE  slotOf = [b \in Blk |-> None] /\ count = 0
<1>1. CASE power # "on"
  BY <1>1 DEF JInv, Off
<1>2. CASE power = "on"
  <2>1. count = 0
    BY <1>2, Applying DEF Published
  <2>2. \A b \in Blk : slotOf[b] = None
    <3>1. TypeOK /\ \A b \in Blk : slotOf[b] # None => slotOf[b] < 0
      BY <2>1 DEF JInv, Slots
    <3> QED BY <3>1, SlotTypes
  <2>3. slotOf \in [Blk -> Blk \cup {None}]
    BY DEF JInv, TypeOK
  <2> QED BY <2>1, <2>2, <2>3
<1> QED BY <1>1, <1>2

\* vj_apply_pending and vfs_journal_apply read the header.
LEMMA ReadHeaderKeeps ==
    ASSUME JInv, NEW p \in Proc, ReadHeader(p)
    PROVE  JInv' /\ UNCHANGED disk
<1>1. op[p].pc = "header" /\ UNCHANGED <<setting, disk, dir, lazy, lazyN, power>>
  BY DEF ReadHeader
<1>2. /\ Busy(p) /\ power # "off" /\ op[p].kind \in {"sync", "mount"} /\ op[p].torn = FALSE
      /\ op[p].kind = "mount" <=> power = "boot"
      /\ \A q \in Proc : ~Commits(q) /\ op[q].torn = FALSE
  BY <1>1, Applying
<1>3. TypeOK /\ OpType /\ PhaseOk(p) /\ StepOk(p)
  BY DEF JInv, Phases, Steps
<1>4. CASE hdr = None
  <2>1. ResetSlots /\ Applied(p) /\ hdr' = None
    BY <1>1, <1>4 DEF ReadHeader, disk
  <2>2. UNCHANGED ram
    BY <1>1, <1>4, <2>1, NoSlots DEF ResetSlots, ram
  <2>3. /\ OpType' /\ OneBusy' /\ Phases' /\ Steps' /\ Copied'
        /\ lock' \in Proc \cup {None} /\ (power # "on" => lock' = None)
        /\ \A q \in Proc : ~Commits(q)' /\ op'[q].torn = FALSE
        /\ \A q \in Proc : op'[q].todo \in Seq(Blk) /\ op'[q].slot \in 0 .. NBlk
    BY <1>1, <2>1, AppliedKeeps
  <2>4. SameCommits
    BY <1>2, <2>3 DEF SameCommits
  <2>5. DataInv'
    BY <1>1, <2>2, <2>4, DataSame
  <2>6. /\ home' = home /\ shadow' = shadow /\ hdr' = hdr /\ dir' = dir /\ slotOf' = slotOf
        /\ count' = count /\ lazy' = lazy /\ lazyN' = lazyN
    BY <1>1, <2>2 DEF disk, ram
  <2>7. TypeOK' /\ Off'
    BY <1>1, <1>3, <2>3, <2>6 DEF TypeOK, JInv, Off
  <2> QED BY <1>1, <2>3, <2>5, <2>7 DEF JInv, DataInv
<1>5. CASE hdr # None
  <2>1. /\ op' = [op EXCEPT ![p].pc = "apply", ![p].todo = hdr, ![p].slot = 0]
        /\ slotOf' = slotOf /\ count' = count /\ lock' = lock
    BY <1>5 DEF ReadHeader
  <2>2. PICK r : r = [op[p] EXCEPT !.pc = "apply", !.todo = hdr, !.slot = 0]
    OBVIOUS
  <2>3. hdr \in Seq(Blk) /\ 0 \in 0 .. NBlk
    BY <1>3, <1>5, VfsJournalAssumption DEF TypeOK
  <2>4. r \in OpRec /\ op' = [op EXCEPT ![p] = r]
    <3>1. op[p] \in OpRec /\ op \in [Proc -> OpRec]
      BY <1>3 DEF OpType
    <3>2. r \in OpRec
      BY <2>2, <2>3, <3>1 DEF OpRec
    <3>3. op' = [op EXCEPT ![p] = r]
      BY <2>1, <2>2, <3>1 DEF OpRec
    <3> QED BY <3>2, <3>3
  <2>5. op'[p] = r /\ \A q \in Proc : q # p => op'[q] = op[q]
    BY <1>3, <2>4, Moves
  <2>6. /\ op'[p].pc = "apply" /\ op'[p].todo = hdr /\ op'[p].slot = 0 /\ op'[p].kind = op[p].kind
        /\ op'[p].carried = op[p].carried /\ op'[p].torn = op[p].torn
    BY <1>3, <2>2, <2>5 DEF OpType, OpRec
  <2>7. Busy(p)' /\ ~Commits(p)'
    BY <2>6 DEF Busy, Commits
  <2>8. SameCommits
    BY <1>2, <2>5, <2>6, <2>7 DEF SameCommits, Commits
  <2>9. OneBusy' /\ lock' \in Proc \cup {None}
    BY <1>1, <1>2, <2>1, <2>5, <2>7, Others
  <2>10. /\ hdr' = hdr /\ power' = power /\ lazy' = lazy /\ lazyN' = lazyN /\ setting' = setting
         /\ UNCHANGED ram
    BY <1>1, <2>1 DEF disk, ram
  <2>11. PhaseOk(p)' /\ StepOk(p)'
    BY <1>1, <1>2, <1>3, <2>6, <2>7, <2>10 DEF PhaseOk, StepOk
  <2>12. CopyOk(p)'
    <3>1. PICK n \in Nat : n = Len(hdr)
      BY <2>3
    <3>2. /\ 0 <= n /\ n = n - 0 /\ \A i \in 1 .. n : hdr[i] = hdr[0 + i]
      OBVIOUS
    <3> QED BY <1>5, <2>6, <2>10, <3>1, <3>2 DEF CopyOk
  <2>13. Off'
    BY <2>1, <2>10 DEF JInv, Off
  <2> QED BY <1>1, <2>4, <2>8, <2>9, <2>10, <2>11, <2>12, <2>13, ControlStep
<1> QED BY <1>1, <1>4, <1>5

\* One block is copied home, from the slot a mount would read it from.
HomeWith(h, s, r, k) == [h EXCEPT ![r[k]] = s[k - 1]]

\* Copying a block home from the slot the header names changes nothing a mount would see.
LEMMA CopiedHome ==
    ASSUME NEW h \in [Blk -> Row], NEW s \in [Blk -> Row], NEW r, NEW n, GoodHeader(r, n),
           NEW k \in 1 .. n
    PROVE  /\ HomeWith(h, s, r, k) \in [Blk -> Row]
           /\ r[k] \in Blk
           /\ RecoveredIn(HomeWith(h, s, r, k), s, r) = RecoveredIn(h, s, r)
<1>1. /\ NBlk \in Nat /\ n <= NBlk /\ n \in Nat /\ r \in Seq(Blk) /\ n = Len(r)
  BY VfsJournalAssumption DEF GoodHeader
<1>2. r[k] \in Blk /\ k - 1 \in Blk
  BY <1>1 DEF Blk
<1>3. PICK g : g = HomeWith(h, s, r, k)
  OBVIOUS
<1>4. g \in [Blk -> Row] /\ \A b \in Blk : b # r[k] => g[b] = h[b]
  BY <1>2, <1>3 DEF HomeWith
<1>5. HeaderReads(h, s, r, n) /\ HeaderReads(g, s, r, n)
  BY <1>4, RecoveredByHeader
<1>6. ASSUME NEW b \in Blk PROVE RecoveredIn(g, s, r)[b] = RecoveredIn(h, s, r)[b]
  <2>1. CASE \E i \in 1 .. n : r[i] = b
    BY <1>5, <2>1 DEF HeaderReads
  <2>2. CASE \A i \in 1 .. n : r[i] # b
    BY <1>4, <1>5, <2>2 DEF HeaderReads
  <2> QED BY <2>1, <2>2
<1>7. RecoveredIn(g, s, r) = RecoveredIn(h, s, r)
  BY <1>5, <1>6 DEF HeaderReads
<1> QED BY <1>2, <1>3, <1>4, <1>7

\* vj_apply_pending copies one block home.
LEMMA ApplyBlockKeeps ==
    ASSUME JInv, NEW p \in Proc, ApplyBlock(p)
    PROVE  JInv' /\ Recovered' = Recovered
<1>1. /\ op[p].pc = "apply" /\ op[p].todo # <<>>
      /\ home' = [home EXCEPT ![Head(op[p].todo)] = shadow[op[p].slot]]
      /\ hdr' = hdr
      /\ op' = [op EXCEPT ![p].todo = Tail(@), ![p].slot = @ + 1]
      /\ UNCHANGED <<setting, shadow, ram, lock, power>>
  BY DEF ApplyBlock, HeaderAfterCopy
<1>2. /\ Busy(p) /\ power # "off" /\ op[p].kind \in {"sync", "mount"} /\ op[p].torn = FALSE
      /\ \A q \in Proc : ~Commits(q) /\ op[q].torn = FALSE
      /\ ~Mixed /\ lazyN # LazyMax
  BY <1>1, Applying
<1>3. TypeOK /\ OpType /\ PhaseOk(p) /\ StepOk(p) /\ CopyOk(p) /\ HeaderSound
  BY DEF JInv, Phases, Steps, Copied
<1>4. PICK t : t = op[p].todo
  OBVIOUS
<1>5. PICK k : k = op[p].slot
  OBVIOUS
<1>6. /\ t \in Seq(Blk) /\ t # <<>> /\ k \in Nat /\ hdr \in Seq(Blk) /\ hdr # None
      /\ Published = Len(hdr) /\ Len(hdr) \in Nat /\ Len(hdr) <= NBlk /\ NBlk \in Nat
  BY <1>1, <1>3, <1>4, <1>5, SlotTypes DEF OpType, OpRec, CopyOk
<1>7. /\ Len(t) = Len(hdr) - k
      /\ \A i \in 1 .. Len(t) : t[i] = hdr[k + i]
      /\ \A i \in 1 .. k : home[hdr[i]] = shadow[i - 1]
  BY <1>1, <1>3, <1>4, <1>5 DEF CopyOk
<1>8. k + 1 \in 1 .. Len(hdr) /\ Head(t) = hdr[k + 1] /\ (k + 1) - 1 = k
  BY <1>6, <1>7
<1>9. GoodHeader(hdr, Published)
  BY <1>3, SlotTypes DEF GoodHeader, HeaderSound, Published, TypeOK
<1>10. home \in [Blk -> Row] /\ shadow \in [Blk -> Row]
  BY <1>3 DEF TypeOK
<1>11. home' = [home EXCEPT ![hdr[k + 1]] = shadow[(k + 1) - 1]]
  BY <1>1, <1>4, <1>5, <1>8
<1>12. /\ home' \in [Blk -> Row] /\ hdr[k + 1] \in Blk
       /\ RecoveredIn(home', shadow, hdr) = RecoveredIn(home, shadow, hdr)
  <2>1. PICK j \in 1 .. Published : j = k + 1
    BY <1>6, <1>8
  <2>2. home' = HomeWith(home, shadow, hdr, j)
    BY <1>11, <2>1 DEF HomeWith
  <2>3. /\ HomeWith(home, shadow, hdr, j) \in [Blk -> Row] /\ hdr[j] \in Blk
        /\ RecoveredIn(HomeWith(home, shadow, hdr, j), shadow, hdr) = RecoveredIn(home, shadow, hdr)
    BY <1>9, <1>10, CopiedHome
  <2> QED BY <2>1, <2>2, <2>3
<1>13. /\ shadow' = shadow /\ dir' = dir /\ slotOf' = slotOf /\ count' = count /\ lazy' = lazy
       /\ lazyN' = lazyN /\ lock' = lock /\ power' = power /\ setting' = setting
       /\ Published' = Published
  BY <1>1 DEF ram, Published
<1>14. Recovered' = Recovered
  BY <1>1, <1>12, <1>13, RecoveredIs
<1>15. home'[hdr[k + 1]] = shadow[k] /\ \A b \in Blk : b # hdr[k + 1] => home'[b] = home[b]
  BY <1>8, <1>10, <1>11, <1>12
<1>16. PICK r : r = [op[p] EXCEPT !.todo = Tail(t), !.slot = k + 1]
  OBVIOUS
<1>17. r \in OpRec /\ op' = [op EXCEPT ![p] = r]
  <2>1. op[p] \in OpRec /\ op \in [Proc -> OpRec] /\ Tail(t) \in Seq(Blk) /\ k + 1 \in 0 .. NBlk
    BY <1>3, <1>6, <1>8 DEF OpType
  <2>2. r \in OpRec
    BY <1>16, <2>1 DEF OpRec
  <2>3. op' = [op EXCEPT ![p] = r]
    BY <1>1, <1>4, <1>5, <1>16, <2>1 DEF OpRec
  <2> QED BY <2>2, <2>3
<1>18. /\ OpType' /\ op'[p] = r /\ \A q \in Proc : q # p => op'[q] = op[q]
       /\ \A q \in Proc : op'[q].todo \in Seq(Blk) /\ op'[q].slot \in 0 .. NBlk
  BY <1>3, <1>17, Moves
<1>19. /\ op'[p].pc = "apply" /\ op'[p].todo = Tail(t) /\ op'[p].slot = k + 1
       /\ op'[p].kind = op[p].kind /\ op'[p].carried = op[p].carried /\ op'[p].torn = FALSE
  <2>1. op[p] \in OpRec
    BY <1>3 DEF OpType
  <2>2. /\ r.pc = op[p].pc /\ r.todo = Tail(t) /\ r.slot = k + 1
        /\ r.kind = op[p].kind /\ r.carried = op[p].carried /\ r.torn = op[p].torn
    BY <1>16, <2>1 DEF OpRec
  <2> QED BY <1>1, <1>2, <1>18, <2>2
<1>20. Busy(p)' /\ ~Commits(p)'
  BY <1>19 DEF Busy, Commits
<1>21. /\ OneBusy'
       /\ \A q \in Proc : q # p => /\ PhaseOk(q)' /\ StepOk(q)' /\ CopyOk(q)'
                                   /\ ~Commits(q)' /\ op'[q].torn = FALSE
  BY <1>2, <1>13, <1>18, <1>20, Others
<1>22. PhaseOk(p)' /\ StepOk(p)'
  BY <1>1, <1>2, <1>3, <1>13, <1>19, <1>20 DEF PhaseOk, StepOk
<1>23. CopyOk(p)'
  <2>1. k + 1 <= Len(hdr) /\ Len(Tail(t)) = Len(hdr) - (k + 1)
    BY <1>6, <1>7
  <2>2. ASSUME NEW i \in 1 .. Len(Tail(t)) PROVE Tail(t)[i] = hdr[(k + 1) + i]
    <3>1. i + 1 \in 1 .. Len(t) /\ Tail(t)[i] = t[i + 1] /\ k + (i + 1) = (k + 1) + i
      BY <1>6, <2>2
    <3> QED BY <1>7, <3>1
  <2>3. ASSUME NEW i \in 1 .. k + 1 PROVE home'[hdr[i]] = shadow[i - 1]
    <3>1. CASE i = k + 1
      BY <1>8, <1>15, <3>1
    <3>2. CASE i # k + 1
      <4>1. i \in 1 .. k /\ i \in 1 .. Published /\ k + 1 \in 1 .. Published
        BY <1>6, <1>8, <2>3, <3>2
      <4>2. hdr[i] # hdr[k + 1] /\ hdr[i] \in Blk
        BY <1>3, <3>2, <4>1, SlotTypes DEF HeaderSound
      <4> QED BY <1>7, <1>15, <4>1, <4>2
    <3> QED BY <3>1, <3>2
  <2> QED BY <1>1, <1>6, <1>13, <1>19, <2>1, <2>2, <2>3 DEF CopyOk
<1>24. Phases' /\ Steps' /\ Copied' /\ Off'
  BY <1>13, <1>21, <1>22, <1>23 DEF Phases, Steps, Copied, JInv, Off
<1>25. TypeOK'
  BY <1>1, <1>3, <1>12, <1>13, <1>18 DEF TypeOK
<1>26. Committing' <=> Committing
  BY <1>2, <1>20, <1>21 DEF Committing, Commits
<1>27. Slots' /\ HeaderSound' /\ Fresh' /\ DirUnique' /\ NoForgottenAppend' /\ LazyBound'
  <2>1. Slots' /\ Fresh'
    BY <1>13 DEF JInv, Slots, Fresh
  <2>2. HeaderSound'
    BY <1>1, <1>13, <1>26 DEF JInv, HeaderSound
  <2>3. DirUnique' /\ NoForgottenAppend'
    BY <1>13 DEF JInv, DirUnique, NoForgottenAppend, At
  <2>4. LazyBound'
    BY <1>2, <1>13 DEF LazyBound
  <2> QED BY <2>1, <2>2, <2>3, <2>4
<1>28. UniqueNames'
  BY <1>2, <1>14 DEF JInv, UniqueNames, At
<1>29. ASSUME power = "on" PROVE \A b \in Blk : Journalled'[b] = Journalled[b]
  <2>1. slotOf[hdr[k + 1]] # None
    <3>1. slotOf[hdr[k + 1]] = (k + 1) - 1 /\ (k + 1) - 1 \in Int
      BY <1>3, <1>6, <1>8, <1>29 DEF HeaderSound
    <3> QED BY <3>1, VfsJournalAssumption
  <2> QED BY <1>13, <1>15, <2>1 DEF Journalled
<1>30. Durable'
  <2> SUFFICES ASSUME power' = "on", NEW e \in Ent
               PROVE  e \in lazy' \/ At(Journalled', e) = At(dir', e)
    BY DEF Durable, At
  <2>1. e \in lazy \/ At(Journalled, e) = At(dir, e)
    BY <1>2, <1>13 DEF JInv, Durable
  <2>2. At(Journalled', e) = At(Journalled, e)
    BY <1>13, <1>29 DEF At, Ent
  <2> QED BY <1>13, <2>1, <2>2
<1>31. NamesDurable'
  <2> SUFFICES ASSUME power' = "on", NEW e \in Ent
               PROVE  SameName(At(Journalled', e), At(dir', e))
    BY DEF NamesDurable, At, SameName
  <2>1. SameName(At(Journalled, e), At(dir, e))
    BY <1>2, <1>13 DEF JInv, NamesDurable
  <2>2. At(Journalled', e) = At(Journalled, e)
    BY <1>13, <1>29 DEF At, Ent
  <2> QED BY <1>13, <2>1, <2>2
<1> QED BY <1>14, <1>18, <1>21, <1>24, <1>25, <1>27, <1>28, <1>30, <1>31 DEF JInv

\* The header is cleared when every block it names is home.
LEMMA ApplyClearKeeps ==
    ASSUME JInv, NEW p \in Proc, ApplyClear(p)
    PROVE  JInv' /\ Recovered' = Recovered
<1>1. /\ op[p].pc = "apply" /\ op[p].todo = <<>> /\ hdr' = None
      /\ slotOf' = [b \in Blk |-> None] /\ count' = 0 /\ Applied(p)
      /\ UNCHANGED <<setting, home, shadow, dir, lazy, lazyN, power>>
  BY DEF ApplyClear, ResetSlots
<1>2. /\ \A q \in Proc : ~Commits(q) /\ op[q].torn = FALSE
      /\ ~Mixed /\ lazyN # LazyMax /\ (power = "on" => count = Published)
  BY <1>1, Applying
<1>3. TypeOK /\ OpType /\ CopyOk(p) /\ HeaderSound /\ home \in [Blk -> Row] /\ shadow \in [Blk -> Row]
  BY DEF JInv, Copied, TypeOK
<1>4. /\ OpType' /\ OneBusy' /\ Phases' /\ Steps' /\ Copied'
      /\ lock' \in Proc \cup {None} /\ (power # "on" => lock' = None)
      /\ \A q \in Proc : ~Commits(q)' /\ op'[q].torn = FALSE
      /\ \A q \in Proc : op'[q].todo \in Seq(Blk) /\ op'[q].slot \in 0 .. NBlk
  BY <1>1, AppliedKeeps
<1>5. op[p].slot = Published /\ \A i \in 1 .. Published : home[hdr[i]] = shadow[i - 1]
  <2>1. hdr # None /\ Len(op[p].todo) = 0 /\ Len(op[p].todo) = Len(hdr) - op[p].slot
        /\ \A i \in 1 .. op[p].slot : home[hdr[i]] = shadow[i - 1]
    BY <1>1, <1>3 DEF CopyOk
  <2>2. op[p].slot \in Nat /\ Len(hdr) \in Nat /\ Published = Len(hdr)
    BY <1>3, <2>1, SlotTypes DEF OpType, OpRec
  <2> QED BY <2>1, <2>2
<1>6. GoodHeader(hdr, Published)
  BY <1>3, SlotTypes DEF GoodHeader, HeaderSound, Published, TypeOK
<1>7. Recovered = home
  <2>1. HeaderReads(home, shadow, hdr, Published)
    BY <1>3, <1>6, RecoveredByHeader
  <2>2. ASSUME NEW b \in Blk PROVE RecoveredIn(home, shadow, hdr)[b] = home[b]
    <3>1. CASE \E i \in 1 .. Published : hdr[i] = b
      BY <1>5, <2>1, <3>1 DEF HeaderReads
    <3>2. CASE \A i \in 1 .. Published : hdr[i] # b
      BY <2>1, <3>2 DEF HeaderReads
    <3> QED BY <3>1, <3>2
  <2>3. RecoveredIn(home, shadow, hdr) = home
    BY <1>3, <2>1, <2>2 DEF HeaderReads
  <2> QED BY <2>3, RecoveredIs
<1>8. Published' = 0 /\ home' = home /\ dir' = dir /\ power' = power
      /\ shadow' = shadow /\ lazy' = lazy /\ lazyN' = lazyN /\ setting' = setting
      /\ \A b \in Blk : slotOf'[b] = None
  BY <1>1 DEF Published
<1>9. TypeOK'
  BY <1>1, <1>3, <1>4, <1>8, VfsJournalAssumption DEF TypeOK
<1>10. Slots' /\ HeaderSound' /\ Fresh' /\ Off'
  <2>1. Slots' /\ Fresh'
    BY <1>1, <1>8 DEF Slots, Fresh
  <2>2. HeaderSound'
    BY <1>1, <1>8 DEF HeaderSound
  <2>3. Off'
    BY <1>1, <1>4, <1>8 DEF JInv, Off
  <2> QED BY <2>1, <2>2, <2>3
<1>11. Recovered' = home
  <2>1. GoodHeader(hdr', 0)
    BY <1>1 DEF GoodHeader
  <2>2. HeaderReads(home, shadow, hdr', 0)
    BY <1>3, <2>1, RecoveredByHeader
  <2>3. RecoveredIn(home, shadow, hdr') = home
    BY <1>3, <2>2 DEF HeaderReads
  <2> QED BY <1>8, <2>3, RecoveredIs
<1>12. UniqueNames'
  BY <1>2, <1>7, <1>11 DEF JInv, UniqueNames, At
<1>13. ASSUME power = "on", NEW b \in Blk PROVE Journalled'[b] = Journalled[b]
  <2>1. Journalled'[b] = home[b]
    BY <1>8 DEF Journalled
  <2>2. slotOf[b] # None => slotOf[b] < Published
    BY <1>2, <1>13 DEF JInv, Slots
  <2>3. Journalled[b] = Recovered[b]
    BY <1>13, <2>2, RecoveredOn DEF Journalled
  <2> QED BY <1>7, <2>1, <2>3
<1>14. Durable'
  <2> SUFFICES ASSUME power' = "on", NEW e \in Ent
               PROVE  e \in lazy' \/ At(Journalled', e) = At(dir', e)
    BY DEF Durable, At
  <2>1. e \in lazy \/ At(Journalled, e) = At(dir, e)
    BY <1>2, <1>8 DEF JInv, Durable
  <2>2. At(Journalled', e) = At(Journalled, e)
    BY <1>8, <1>13 DEF At, Ent
  <2> QED BY <1>8, <2>1, <2>2
<1>15. NamesDurable'
  <2> SUFFICES ASSUME power' = "on", NEW e \in Ent
               PROVE  SameName(At(Journalled', e), At(dir', e))
    BY DEF NamesDurable, At, SameName
  <2>1. SameName(At(Journalled, e), At(dir, e))
    BY <1>2, <1>8 DEF JInv, NamesDurable
  <2>2. At(Journalled', e) = At(Journalled, e)
    BY <1>8, <1>13 DEF At, Ent
  <2> QED BY <1>8, <2>1, <2>2
<1>16. DirUnique' /\ NoForgottenAppend' /\ LazyBound'
  BY <1>2, <1>8 DEF JInv, DirUnique, NoForgottenAppend, LazyBound, At
<1> QED BY <1>4, <1>7, <1>9, <1>10, <1>11, <1>12, <1>14, <1>15, <1>16 DEF JInv

-----------------------------------------------------------------------------
(* Power. *)

\* cas_mount begins.
LEMMA MountKeeps ==
    ASSUME JInv, NEW p \in Proc, Mount(p)
    PROVE  JInv' /\ UNCHANGED disk
<1>1. /\ power = "off" /\ power' = "boot" /\ UNCHANGED <<setting, disk, ram, lock>>
      /\ op' = [op EXCEPT ![p] = [NoOp EXCEPT !.pc = "header", !.kind = "mount"]]
  BY DEF Mount
<1>2. TypeOK /\ OpType
  BY DEF JInv
<1>3. \A q \in Proc : op[q] = NoOp
  BY <1>1 DEF JInv, Phases, PhaseOk
<1>4. /\ home' = home /\ shadow' = shadow /\ hdr' = hdr /\ dir' = dir /\ slotOf' = slotOf
      /\ count' = count /\ lazy' = lazy /\ lazyN' = lazyN /\ lock' = lock /\ setting' = setting
      /\ Published' = Published /\ Recovered' = Recovered
  BY <1>1 DEF disk, ram, Published, Recovered
<1>5. PICK r : r = [NoOp EXCEPT !.pc = "header", !.kind = "mount"]
  OBVIOUS
<1>6. r \in OpRec /\ op' = [op EXCEPT ![p] = r]
  BY <1>1, <1>5, NoOpType DEF OpRec
<1>7. /\ OpType' /\ op'[p] = r /\ \A q \in Proc : q # p => op'[q] = op[q]
      /\ \A q \in Proc : op'[q].todo \in Seq(Blk) /\ op'[q].slot \in 0 .. NBlk
  BY <1>2, <1>6, Moves
<1>8. /\ op'[p].pc = "header" /\ op'[p].kind = "mount" /\ op'[p].carried = FALSE
      /\ op'[p].torn = FALSE
  BY <1>5, <1>7 DEF NoOp
<1>9. \A q \in Proc : q # p => /\ op'[q] = NoOp /\ op'[q].pc = "idle" /\ op'[q].kind = "none"
                               /\ op'[q].carried = FALSE /\ op'[q].torn = FALSE
  BY <1>3, <1>7 DEF NoOp
<1>10. /\ \A q \in Proc : q # p => ~Busy(q)' /\ ~Commits(q)'
       /\ Busy(p)' /\ ~Commits(p)'
  BY <1>8, <1>9 DEF Busy, Commits
<1>11. Off' /\ lock = None /\ lazyN = 0
  BY <1>1, <1>4 DEF JInv, Off
<1>12. OneBusy'
  BY <1>1, <1>4, <1>10, <1>11 DEF OneBusy
<1>13. \A q \in Proc : PhaseOk(q)' /\ StepOk(q)' /\ CopyOk(q)'
  <2>1. PhaseOk(p)' /\ StepOk(p)' /\ CopyOk(p)'
    BY <1>1, <1>8, <1>10 DEF PhaseOk, StepOk, CopyOk
  <2>2. ASSUME NEW q \in Proc, q # p PROVE PhaseOk(q)' /\ StepOk(q)' /\ CopyOk(q)'
    BY <1>1, <1>9, <1>10, <2>2 DEF PhaseOk, StepOk, CopyOk
  <2> QED BY <2>1, <2>2
<1>14. Phases' /\ Steps' /\ Copied'
  BY <1>13 DEF Phases, Steps, Copied
<1>15. TypeOK'
  BY <1>1, <1>2, <1>4, <1>7 DEF TypeOK
<1>16. Slots' /\ HeaderSound'
  BY <1>1, <1>4 DEF JInv, Slots, HeaderSound
<1>17. Fresh' /\ Durable' /\ NamesDurable' /\ DirUnique' /\ NoForgottenAppend'
  BY <1>1 DEF Fresh, Durable, NamesDurable, DirUnique, NoForgottenAppend
<1>18. UniqueNames'
  <2>1. ~Mixed
    BY <1>3 DEF Mixed, NoOp
  <2> QED BY <1>4, <2>1 DEF JInv, UniqueNames, At
<1>19. LazyBound'
  BY <1>4, <1>11, VfsJournalAssumption DEF LazyBound
<1> QED BY <1>1, <1>7, <1>11, <1>12, <1>14, <1>15, <1>16, <1>17, <1>18, <1>19 DEF JInv

\* The mount loads the directory.
LEMMA LoadKeeps ==
    ASSUME JInv, NEW p \in Proc, Load(p)
    PROVE  JInv' /\ UNCHANGED disk
<1>1. /\ op[p].pc = "load" /\ dir' = home /\ power' = "on" /\ op' = [op EXCEPT ![p] = NoOp]
      /\ UNCHANGED <<setting, disk, slotOf, count, lazy, lazyN, lock>>
  BY DEF Load
<1>2. TypeOK /\ OpType /\ Busy(p) /\ ~Commits(p)
  BY <1>1 DEF JInv, Busy, Commits
<1>3. power = "boot" /\ hdr = None
  <2>1. PhaseOk(p)
    BY DEF JInv, Phases
  <2> QED BY <1>1, <1>2, <2>1 DEF PhaseOk
<1>4. /\ lock = None /\ lazy = {} /\ lazyN = 0 /\ count = 0 /\ slotOf = [b \in Blk |-> None]
  BY <1>3 DEF JInv, Off
<1>5. /\ home' = home /\ shadow' = shadow /\ hdr' = hdr /\ slotOf' = slotOf /\ count' = 0
      /\ lazy' = {} /\ lazyN' = 0 /\ lock' = None /\ setting' = setting
      /\ Published' = 0 /\ Recovered' = Recovered /\ hdr' = None
      /\ \A b \in Blk : slotOf'[b] = None
  BY <1>1, <1>3, <1>4 DEF disk, Published, Recovered
<1>6. /\ OpType' /\ op'[p] = NoOp /\ \A q \in Proc : q # p => op'[q] = op[q]
      /\ \A q \in Proc : op'[q].todo \in Seq(Blk) /\ op'[q].slot \in 0 .. NBlk
  BY <1>1, <1>2, NoOpType, Moves
<1>7. /\ op'[p].pc = "idle" /\ op'[p].kind = "none" /\ op'[p].carried = FALSE /\ op'[p].torn = FALSE
  BY <1>6 DEF NoOp
<1>8. ~Busy(p)' /\ ~Commits(p)'
  BY <1>7 DEF Busy, Commits
<1>9. /\ OneBusy'
      /\ \A q \in Proc : q # p => PhaseOk(q)' /\ StepOk(q)' /\ CopyOk(q)'
  BY <1>1, <1>2, <1>5, <1>6, <1>8, Others
<1>10. Phases' /\ Steps' /\ Copied'
  <2>1. PhaseOk(p)' /\ StepOk(p)' /\ CopyOk(p)'
    BY <1>1, <1>6, <1>7, <1>8 DEF PhaseOk, StepOk, CopyOk
  <2> QED BY <1>9, <2>1 DEF Phases, Steps, Copied
<1>11. TypeOK'
  BY <1>1, <1>2, <1>5, <1>6, VfsJournalAssumption DEF TypeOK
<1>12. Off' /\ Slots' /\ HeaderSound' /\ Fresh'
  BY <1>1, <1>5 DEF Off, Slots, HeaderSound, Fresh
<1>13. \A b \in Blk : Journalled'[b] = dir'[b]
  BY <1>1, <1>5 DEF Journalled
<1>14. \A e \in Ent : At(Journalled', e) = At(dir', e)
  BY <1>13 DEF At, Ent
<1>15. Durable' /\ NamesDurable'
  <2>1. Durable'
    BY <1>14 DEF Durable, At
  <2>2. \A e \in Ent : SameName(At(Journalled', e), At(dir', e))
    BY <1>14 DEF SameName
  <2>3. NamesDurable'
    BY <2>2 DEF NamesDurable, At, SameName
  <2> QED BY <2>1, <2>3
<1>16. \A e, f \in Ent : (At(Recovered, e) # None /\ At(Recovered, f) # None /\ e # f)
                            => At(Recovered, e).name # At(Recovered, f).name
  <2>1. op[p].torn = FALSE
    BY <1>2 DEF JInv, Steps, StepOk, OpType, OpRec
  <2>2. \A q \in Proc : op[q].torn = FALSE
    BY <1>2, <2>1, OnlyOne
  <2>3. ~Mixed
    BY <2>2 DEF Mixed
  <2> QED BY <2>3 DEF JInv, UniqueNames
<1>17. UniqueNames'
  BY <1>5, <1>16 DEF UniqueNames, At
<1>18. DirUnique'
  <2>1. Recovered = home
    <3>1. GoodHeader(hdr, 0) /\ home \in [Blk -> Row] /\ shadow \in [Blk -> Row]
      BY <1>2, <1>3 DEF GoodHeader, TypeOK
    <3>2. HeaderReads(home, shadow, hdr, 0)
      BY <3>1, RecoveredByHeader
    <3>3. RecoveredIn(home, shadow, hdr) = home
      BY <3>1, <3>2 DEF HeaderReads
    <3> QED BY <3>3, RecoveredIs
  <2>2. dir' = Recovered
    BY <1>1, <2>1
  <2> QED BY <1>16, <2>2 DEF DirUnique, At
<1>19. NoForgottenAppend' /\ LazyBound'
  BY <1>5, VfsJournalAssumption DEF NoForgottenAppend, LazyBound
<1> QED BY <1>1, <1>6, <1>9, <1>10, <1>11, <1>12, <1>15, <1>17, <1>18, <1>19 DEF JInv

\* The state before anything is mounted, with a disk a mount can read.
Dark ==
    /\ dir = Blank /\ slotOf = [b \in Blk |-> None] /\ count = 0 /\ lazy = {} /\ lazyN = 0
    /\ lock = None /\ power = "off" /\ op = [p \in Proc |-> NoOp]
    /\ setting \in Settings /\ home \in [Blk -> Row] /\ shadow \in [Blk -> Row]
    /\ hdr = None \/ (hdr \in Seq(Blk) /\ Len(hdr) <= NBlk)
    /\ \A i, j \in 1 .. Published : hdr[i] = hdr[j] => i = j
    /\ \A e, f \in Ent : (At(Recovered, e) # None /\ At(Recovered, f) # None /\ e # f)
                              => At(Recovered, e).name # At(Recovered, f).name

\* An empty directory is a directory.
LEMMA BlankRow == Blank \in [Blk -> Row]
BY DEF Blank, Row, Dirent

\* With the power off the invariant asks only for a disk a mount can read.
LEMMA DarkKeeps == Dark => JInv
<1> SUFFICES ASSUME Dark PROVE JInv
  OBVIOUS
<1> USE DEF Dark
<1>1. \A p \in Proc : op[p] = NoOp
  OBVIOUS
<1>2. /\ NoOp.pc = "idle" /\ NoOp.kind = "none" /\ NoOp.carried = FALSE /\ NoOp.torn = FALSE
      /\ NoOp.todo = <<>> /\ NoOp.slot = 0
  BY DEF NoOp
<1>3. \A p \in Proc : ~Busy(p) /\ ~Commits(p)
  BY <1>1, <1>2 DEF Busy, Commits
<1>4. OpType
  BY NoOpType DEF OpType
<1>5. TypeOK
  <2>1. \A p \in Proc : op[p].todo \in Seq(Blk) /\ op[p].slot \in 0 .. NBlk
    BY <1>4 DEF OpType, OpRec
  <2>2. slotOf \in [Blk -> Blk \cup {None}] /\ count \in 0 .. NBlk /\ lazyN \in 0 .. LazyMax
    BY VfsJournalAssumption
  <2> QED BY <2>1, <2>2, BlankRow DEF TypeOK
<1>6. OneBusy /\ Off
  BY <1>3 DEF OneBusy, Off
<1>7. \A p \in Proc : PhaseOk(p) /\ StepOk(p) /\ CopyOk(p)
  BY <1>1, <1>2, <1>3 DEF PhaseOk, StepOk, CopyOk
<1>8. Phases /\ Steps /\ Copied
  BY <1>7 DEF Phases, Steps, Copied
<1>9. Slots /\ HeaderSound
  BY DEF Slots, HeaderSound
<1>10. Fresh /\ Durable /\ NamesDurable /\ DirUnique /\ NoForgottenAppend
  BY DEF Fresh, Durable, NamesDurable, DirUnique, NoForgottenAppend
<1>11. UniqueNames
  BY DEF UniqueNames
<1>12. LazyBound
  BY VfsJournalAssumption DEF LazyBound
<1> QED BY <1>4, <1>5, <1>6, <1>8, <1>9, <1>10, <1>11, <1>12 DEF JInv

\* A blank disk is one.
LEMMA InitHolds == Init => JInv
<1> SUFFICES ASSUME Init PROVE JInv
  OBVIOUS
<1>1. home = Blank /\ shadow = Blank /\ hdr = None
  BY DEF Init
<1>2. home \in [Blk -> Row] /\ shadow \in [Blk -> Row]
  BY <1>1, BlankRow
<1>3. \A i, j \in 1 .. Published : hdr[i] = hdr[j] => i = j
  BY <1>1 DEF Published
<1>4. Recovered = Blank
  <2>1. GoodHeader(hdr, 0)
    BY <1>1 DEF GoodHeader
  <2>2. HeaderReads(home, shadow, hdr, 0)
    BY <1>2, <2>1, RecoveredByHeader
  <2>3. RecoveredIn(home, shadow, hdr) = home
    BY <1>2, <2>2 DEF HeaderReads
  <2> QED BY <1>1, <2>3, RecoveredIs
<1>5. \A e \in Ent : At(Recovered, e) = None
  BY <1>4 DEF At, Blank, Ent
<1>6. Dark
  BY <1>1, <1>2, <1>3, <1>5 DEF Init, Dark
<1> QED BY <1>6, DarkKeeps

\* Power is lost, but not in the middle of a rename.
LEMMA CrashKeeps ==
    ASSUME JInv, Orderly, Crash
    PROVE  JInv' /\ UNCHANGED disk /\ power' = "off"
<1>1. UNCHANGED <<setting, disk>> /\ (Mixed => "mix" \in setting.windows) /\ power' = "off"
  BY DEF Crash
<1>2. TypeOK /\ HeaderSound /\ UniqueNames
  BY DEF JInv
<1>3. ~Mixed
  BY <1>1, <1>2 DEF Orderly, TypeOK
<1>4. /\ home' = home /\ shadow' = shadow /\ hdr' = hdr /\ setting' = setting
      /\ Published' = Published /\ Recovered' = Recovered
  BY <1>1 DEF disk, Published, Recovered
<1>5. /\ setting' \in Settings /\ home' \in [Blk -> Row] /\ shadow' \in [Blk -> Row]
      /\ hdr' = None \/ (hdr' \in Seq(Blk) /\ Len(hdr') <= NBlk)
  BY <1>2, <1>4 DEF TypeOK
<1>6. \A i, j \in 1 .. Published' : hdr'[i] = hdr'[j] => i = j
  BY <1>2, <1>4 DEF HeaderSound
<1>7. \A e, f \in Ent : (At(Recovered', e) # None /\ At(Recovered', f) # None /\ e # f)
                            => At(Recovered', e).name # At(Recovered', f).name
  BY <1>2, <1>3, <1>4 DEF UniqueNames
<1>8. /\ dir' = Blank /\ slotOf' = [b \in Blk |-> None] /\ count' = 0 /\ lazy' = {} /\ lazyN' = 0
      /\ lock' = None /\ op' = [p \in Proc |-> NoOp]
  BY DEF Crash, ResetSlots
<1>9. Dark'
  BY <1>1, <1>5, <1>6, <1>7, <1>8 DEF Dark, At, Blank, NoOp
<1>10. Dark' => JInv'
  BY DarkKeeps, PTL
<1> QED BY <1>1, <1>9, <1>10

-----------------------------------------------------------------------------
(* The theorems. *)

\* Each entry of what a mount would recover stays or becomes what RAM holds.
Forward ==
    \A e \in Ent :
        \/ At(Recovered', e) = At(Recovered, e)
        \/ power = "on" /\ power' = "on" /\ At(Recovered', e) = At(dir', e)

\* A commit of one dirent that returns leaves nothing in RAM alone.
Carried ==
    \A p \in Proc :
        (op[p].kind = "idx" /\ lock = p /\ power' = "on" /\ op'[p] = NoOp) => Recovered' = dir'

\* A step that leaves what a mount would recover alone moves it nowhere.
LEMMA StaysForward == Recovered' = Recovered => Forward
BY DEF Forward, At

\* A step that brings blocks of it to what RAM holds moves it forward.
LEMMA MovesForward ==
    ASSUME power = "on", power' = "on",
           \A b \in Blk : Recovered'[b] = Recovered[b] \/ Recovered'[b] = dir'[b]
    PROVE  Forward
BY DEF Forward, At, Ent

\* Only the process whose commit it is ends a commit.
LEMMA OthersStand ==
    ASSUME JInv, NEW p \in Proc, \A q \in Proc : q # p => op'[q] = op[q],
           op[p].kind # "idx" \/ op'[p] # NoOp
    PROVE  Carried
<1>1. \A q \in Proc : op[q].kind = "idx" => op[q] # NoOp
  BY DEF NoOp
<1> QED BY <1>1 DEF Carried

\* A step that writes nothing leaves it alone.
LEMMA DiskStands ==
    UNCHANGED disk => Recovered' = Recovered
BY DEF disk, Recovered

\* A call up to its commit.
LEMMA CallKeeps ==
    ASSUME JInv, Orderly, NEW p \in Proc, p \in setting.callers \cup setting.closers, Call(p)
    PROVE  JInv' /\ Forward /\ Carried
<1>1. JInv'
  BY WriteKeeps, UnlinkKeeps, ChmodKeeps, AppendKeeps, RenameKeeps, CloseSeesKeeps,
     CloseFlushKeeps, SyncKeeps DEF Call
<1>2. UNCHANGED disk /\ op[p].pc \in {"idle", "close"}
  <2>1. UNCHANGED disk
    BY DEF Call, Write, Unlink, Chmod, AppendFile, Rename, CloseSees, CloseFlush, Sync
  <2>2. Entering(p) \/ op[p] = NoOp \/ op[p].pc = "close"
    BY DEF Call, Write, Unlink, Chmod, AppendFile, Rename, CloseSees, CloseFlush, Sync
  <2>3. op[p] = NoOp \/ op[p].pc = "close"
    BY <2>2 DEF Entering
  <2> QED BY <2>1, <2>3 DEF NoOp
<1>3. \E r : op' = [op EXCEPT ![p] = r] \/ op' = op
  BY DEF Call, Write, Unlink, Chmod, AppendFile, Rename, CloseSees, CloseFlush, Sync, Commit
<1>4. \A q \in Proc : q # p => op'[q] = op[q]
  BY <1>3 DEF JInv, OpType
<1>5. op[p].kind # "idx"
  BY <1>2, Rests DEF Busy
<1> QED BY <1>1, <1>2, <1>4, <1>5, DiskStands, StaysForward, OthersStand

\* A step of a commit, of a sync or of a mount.
LEMMA WorkKeeps ==
    ASSUME JInv, NEW p \in Proc,
           \/ FindSlot(p) \/ StageBlock(p) \/ StageDeferred(p) \/ Publish(p)
           \/ ReadHeader(p) \/ ApplyBlock(p) \/ ApplyClear(p) \/ Mount(p) \/ Load(p)
    PROVE  JInv' /\ Forward /\ Carried
<1>1. PhaseOk(p) /\ OpType
  BY DEF JInv, Phases
<1>2. CASE FindSlot(p)
  <2>1. UNCHANGED disk /\ op' = [op EXCEPT ![p].pc = "write", ![p].slot = SlotFor(Head(op[p].todo))]
    BY <1>2 DEF FindSlot
  <2>2. op'[p].pc = "write" /\ \A q \in Proc : q # p => op'[q] = op[q]
    BY <1>1, <2>1 DEF OpType, OpRec
  <2>3. op'[p] # NoOp
    BY <2>2 DEF NoOp
  <2> QED BY <1>2, <2>1, <2>2, <2>3, FindSlotKeeps, DiskStands, StaysForward, OthersStand
<1>3. CASE StageBlock(p)
  <2>1. Stages(p, Head(op[p].todo), op[p].slot)
    BY <1>3, StageBlockIs
  <2>2. /\ power = "on" /\ power' = "on" /\ op'[p].pc = "stage"
        /\ \A q \in Proc : q # p => op'[q] = op[q]
    BY <2>1 DEF Stages
  <2>3. op'[p] # NoOp
    BY <2>2 DEF NoOp
  <2> QED BY <1>3, <2>2, <2>3, StageBlockKeeps, MovesForward, OthersStand
<1>4. CASE StageDeferred(p)
  <2>1. PICK t : op' = [op EXCEPT ![p].carried = TRUE, ![p].todo = t]
    BY <1>4 DEF StageDeferred
  <2>2. op[p].pc = "stage"
    BY <1>4 DEF StageDeferred, Staging
  <2>3. op'[p].pc = "stage" /\ \A q \in Proc : q # p => op'[q] = op[q]
    BY <1>1, <2>1, <2>2 DEF OpType, OpRec
  <2>4. op'[p] # NoOp
    BY <2>3 DEF NoOp
  <2> QED BY <1>4, <2>3, <2>4, StageDeferredKeeps, StaysForward, OthersStand
<1>5. CASE Publish(p)
  <2>1. Commits(p)
    BY <1>5 DEF Publish, Staging, Commits
  <2>2. power = "on"
    BY <1>1, <2>1 DEF PhaseOk
  <2>3. PICK r : op' = [op EXCEPT ![p] = r]
    BY <1>5 DEF Publish
  <2>4. \A q \in Proc : q # p => op'[q] = op[q]
    BY <1>1, <2>3 DEF OpType
  <2>5. op[p].kind = "idx" => Recovered' = dir'
    BY <1>5, PublishKeeps
  <2>6. Carried
    <3>1. \A q \in Proc : op[q].kind = "idx" => op[q] # NoOp
      BY DEF NoOp
    <3> QED BY <2>4, <2>5, <3>1 DEF Carried
  <2> QED BY <1>5, <2>2, <2>6, PublishKeeps, MovesForward
<1>6. CASE ReadHeader(p) \/ ApplyBlock(p) \/ ApplyClear(p) \/ Load(p)
  <2>1. op[p].pc \in {"header", "apply", "load"}
    BY <1>6 DEF ReadHeader, ApplyBlock, ApplyClear, Load
  <2>2. op[p].kind # "idx"
    BY <1>1, <2>1 DEF PhaseOk
  <2>3. PICK r : op' = [op EXCEPT ![p] = r]
    BY <1>6 DEF ReadHeader, ApplyBlock, ApplyClear, Load, Applied
  <2>4. \A q \in Proc : q # p => op'[q] = op[q]
    BY <1>1, <2>3 DEF OpType
  <2>5. JInv' /\ Recovered' = Recovered
    BY <1>6, ReadHeaderKeeps, ApplyBlockKeeps, ApplyClearKeeps, LoadKeeps, DiskStands
  <2> QED BY <2>2, <2>4, <2>5, StaysForward, OthersStand
<1>7. CASE Mount(p)
  <2>1. op[p] = NoOp
    BY <1>1, <1>7 DEF Mount, PhaseOk
  <2>2. op[p].kind # "idx"
    BY <2>1 DEF NoOp
  <2>3. PICK r : op' = [op EXCEPT ![p] = r]
    BY <1>7 DEF Mount
  <2>4. \A q \in Proc : q # p => op'[q] = op[q]
    BY <1>1, <2>3 DEF OpType
  <2> QED BY <1>7, <2>2, <2>4, MountKeeps, DiskStands, StaysForward, OthersStand
<1> QED BY <1>2, <1>3, <1>4, <1>5, <1>6, <1>7

\* Every step keeps the invariant and moves only forward.
LEMMA StepKeeps == JInv /\ Orderly /\ [Next]_vars => JInv' /\ Forward /\ Carried
<1> SUFFICES ASSUME JInv, Orderly, [Next]_vars PROVE JInv' /\ Forward /\ Carried
  OBVIOUS
<1>1. ASSUME NEW p \in setting.callers \cup setting.closers,
             \/ Call(p)
             \/ FindSlot(p) \/ StageBlock(p) \/ StageDeferred(p) \/ Publish(p)
             \/ ReadHeader(p) \/ ApplyBlock(p) \/ ApplyClear(p)
             \/ Mount(p) \/ Load(p)
      PROVE  JInv' /\ Forward /\ Carried
  <2>1. p \in Proc
    BY VfsJournalAssumption DEF JInv, TypeOK
  <2> QED BY <1>1, <2>1, CallKeeps, WorkKeeps
<1>2. CASE Crash
  <2>1. JInv' /\ UNCHANGED disk /\ power' = "off"
    BY <1>2, CrashKeeps
  <2>2. Carried
    BY <2>1 DEF Carried
  <2> QED BY <2>1, <2>2, DiskStands, StaysForward
<1>3. CASE UNCHANGED vars
  <2>1. /\ home' = home /\ shadow' = shadow /\ hdr' = hdr /\ setting' = setting /\ dir' = dir
        /\ slotOf' = slotOf /\ count' = count /\ lazy' = lazy /\ lazyN' = lazyN /\ lock' = lock
        /\ power' = power /\ op' = op
    BY <1>3 DEF vars, disk, ram
  <2>2. /\ Published' = Published /\ Journalled' = Journalled /\ Recovered' = Recovered
        /\ Committing' = Committing /\ Mixed' = Mixed
    BY <2>1 DEF Published, Journalled, Recovered, Committing, Mixed
  <2>3. TypeOK' /\ OpType' /\ OneBusy' /\ Off'
    BY <2>1 DEF JInv, TypeOK, OpType, OneBusy, Off, Busy
  <2>4. Phases' /\ Steps' /\ Copied'
    BY <2>1, <2>2 DEF JInv, Phases, PhaseOk, Steps, StepOk, Copied, CopyOk, Busy, Commits, SlotFor
  <2>5. DataInv'
    <3>1. UNCHANGED <<disk, ram, power>>
      BY <2>1 DEF disk, ram
    <3>2. SameCommits
      BY <2>1 DEF SameCommits, Commits
    <3> QED BY <3>1, <3>2, DataSame
  <2>6. Carried
    <3>1. \A q \in Proc : op[q].kind = "idx" => op[q] # NoOp
      BY DEF NoOp
    <3> QED BY <2>1, <3>1 DEF Carried
  <2> QED BY <2>2, <2>3, <2>4, <2>5, <2>6, StaysForward DEF JInv, DataInv
<1> QED BY <1>1, <1>2, <1>3 DEF Next

\* Whatever the processes do and wherever power is lost, the journal's invariant holds.
THEOREM JournalInductive == ASSUME Orderly PROVE Spec => []JInv
<1>1. Init => JInv
  BY InitHolds
<1>2. JInv /\ [Next]_vars => JInv'
  BY StepKeeps
<1> QED BY <1>1, <1>2, PTL DEF Spec

\* What was committed is what a mount would find, its names are unique and no deferred append is
\* forgotten.
THEOREM CommitsSurvive == ASSUME Orderly PROVE Spec => []DirectorySound
<1>1. JInv => DirectorySound
  <2> SUFFICES ASSUME JInv PROVE DirectorySound
    OBVIOUS
  <2>1. TypeOK /\ UniqueNames /\ NoForgottenAppend
    BY DEF JInv
  <2>2. CommittedSurvives
    <3> SUFFICES ASSUME power = "on", ~Committing, NEW e \in Ent \ lazy
                 PROVE  At(Recovered, e) = At(dir, e)
      BY DEF CommittedSurvives
    <3>1. \A q \in Proc : ~Commits(q)
      BY DEF Committing, Commits
    <3>2. At(Journalled, e) = At(dir, e)
      BY <3>1 DEF JInv, Durable
    <3>3. \A b \in Blk : slotOf[b] # None => slotOf[b] < Published
      BY DEF JInv, HeaderSound, Slots
    <3>4. \A b \in Blk : Recovered[b] = Journalled[b]
      BY <3>3, RecoveredOn DEF Journalled
    <3> QED BY <3>2, <3>4 DEF At, Ent
  <2> QED BY <2>1, <2>2 DEF DirectorySound
<1> QED BY <1>1, JournalInductive, PTL

\* No step brings an older directory back, and the commit of one dirent that returns has taken
\* every deferred append with it.
THEOREM JournalNeverBack == ASSUME Orderly PROVE Spec => JournalMoves
<1>1. JInv /\ [Next]_vars => Forward /\ Carried
  BY StepKeeps
<1>2. Forward => [\A e \in Ent :
                     \/ At(Recovered', e) = At(Recovered, e)
                     \/ power = "on" /\ power' = "on" /\ At(Recovered', e) = At(dir', e)]_vars
  BY DEF Forward
<1>3. Carried => [\A p \in Proc :
                     (op[p].kind = "idx" /\ lock = p /\ power' = "on" /\ op'[p] = NoOp)
                         => Recovered' = dir']_vars
  BY DEF Carried
<1>4. Spec => NeverOlder
  BY <1>1, <1>2, JournalInductive, PTL DEF Spec, NeverOlder
<1>5. Spec => WriteCarriesDeferred
  BY <1>1, <1>3, JournalInductive, PTL DEF Spec, WriteCarriesDeferred
<1> QED BY <1>4, <1>5 DEF JournalMoves
=============================================================================
