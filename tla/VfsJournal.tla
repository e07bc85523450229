----------------------------- MODULE VfsJournal -----------------------------
(***************************************************************************)
(* The directory journal of the VFS: the directory in RAM (g_dir), its     *)
(* home region on disk, and a journal of shadow slots with one header that *)
(* names the directory block each slot holds.  A commit stages blocks in   *)
(* slots and then writes the header; nothing reaches the home region until *)
(* SYS_VFS_SYNC or the next mount applies the journal.  An append defers   *)
(* its commit; a later commit, a close or a sync publishes it.             *)
(*                                                                         *)
(* Each disk write is a step and power may be lost between any two.  Every *)
(* caller holds g_vfs_lock over its commit, except SYS_CHMOD and SYS_CHOWN *)
(* which release it first; SYS_CLOSE reads the deferred count without it.  *)
(***************************************************************************)
EXTENDS Integers, Sequences, FiniteSets, Functions

CONSTANTS
    Proc,      \* the processes, each on a core of its own
    NBlk,      \* directory blocks
    PerBlk,    \* dirents in a block
    Name,      \* file names
    LazyMax,   \* VJ_LAZY_MAX
    Settings,  \* the circumstances considered, see setting
    None       \* an unused dirent, no header, no slot, no process

Blk    == 0 .. NBlk - 1
Pos    == 0 .. PerBlk - 1
Ent    == Blk \X Pos
Dirent == [name : Name, ver : {0, 1}] \cup {None}
Row    == [Pos -> Dirent]

ASSUME VfsJournalAssumption ==
    /\ NBlk \in Nat \ {0} /\ PerBlk \in Nat \ {0}
    /\ LazyMax \in Nat \ {0}
    /\ \A w \in Settings :
          /\ w.callers \cup w.closers \subseteq Proc
          /\ w.setters \subseteq w.callers
          /\ w.windows \subseteq {"mix"}
    /\ None \notin Proc /\ None \notin Int /\ None \notin Seq(Blk)
    /\ None \notin [name : Name, ver : {0, 1}]

VARIABLES
    setting,  \* chosen once: the processes that close files, those that make the
              \* other calls, those that call SYS_CHMOD or SYS_CHOWN, and the
              \* extra intervals in which power may be lost, see Crash
    home,     \* home[b]: the directory region on disk
    shadow,   \* shadow[s]: the journal's slots on disk
    hdr,      \* the header: the blocks of slots 0, 1, ... or None if cleared
    dir,      \* g_dir
    slotOf,   \* g_vj_slot_of
    count,    \* g_vj_count
    lazy,     \* g_vj_lazy: the dirents with a deferred commit
    lazyN,    \* g_vj_lazy_n
    lock,     \* who holds g_vfs_lock
    power,    \* "off", "boot" or "on"
    op        \* what each process is doing

disk == <<home, shadow, hdr>>
ram  == <<dir, slotOf, count, lazy, lazyN>>
vars == <<setting, disk, ram, lock, power, op>>

-----------------------------------------------------------------------------
At(d, e) == d[e[1]][e[2]]
Named(n, e) == At(dir, e) # None /\ At(dir, e).name = n
Exists(n) == \E e \in Ent : Named(n, e)

Before(e, f) == e[1] < f[1] \/ (e[1] = f[1] /\ e[2] < f[2])
FirstUnused(e) ==
    /\ At(dir, e) = None
    /\ \A f \in Ent : Before(f, e) => At(dir, f) # None

\* The dirent a write or a create goes to: the one with the name, or the first
\* unused one.
Target(n, e) == Named(n, e) \/ (~Exists(n) /\ FirstUnused(e))

Set(e, d) == [dir EXCEPT ![e[1]][e[2]] = d]

\* New content, or new attributes, for a file.
Changed(e) == Set(e, [At(dir, e) EXCEPT !.ver = 1 - @])

Blank == [b \in Blk |-> [i \in Pos |-> None]]
NoOp == [pc |-> "idle", kind |-> "none", todo |-> <<>>, slot |-> 0,
         carried |-> FALSE, torn |-> FALSE]

Init ==
    /\ setting \in Settings
    /\ home = Blank /\ shadow = Blank /\ hdr = None
    /\ dir = Blank /\ slotOf = [b \in Blk |-> None] /\ count = 0
    /\ lazy = {} /\ lazyN = 0
    /\ lock = None /\ power = "off"
    /\ op = [p \in Proc |-> NoOp]

-----------------------------------------------------------------------------
(* The operations, up to their commit. *)

Entering(p) ==
    p \in setting.callers /\ power = "on" /\ op[p] = NoOp /\ lock = None

\* A commit of the blocks in todo starts; the lock is kept by its holder.
Commit(p, kind, todo, holder) ==
    /\ op' = [op EXCEPT ![p] = [NoOp EXCEPT !.pc = "stage", !.kind = kind,
                                            !.todo = todo]]
    /\ lock' = holder

\* vfs_write_locked, vfs_write_at_locked, vfs_truncate, and SYS_OPEN creating or
\* truncating: one dirent, vfs_journal_commit_idx.
Write(p, n) ==
    /\ Entering(p)
    /\ \E e \in Ent :
          /\ Target(n, e)
          /\ dir' = IF Exists(n) THEN Changed(e)
                               ELSE Set(e, [name |-> n, ver |-> 0])
          /\ Commit(p, "idx", <<e[1]>>, p)
    /\ UNCHANGED <<setting, disk, slotOf, count, lazy, lazyN, power>>

Unlink(p, n) ==
    /\ Entering(p)
    /\ \E e \in Ent :
          /\ Named(n, e)
          /\ dir' = Set(e, None)
          /\ Commit(p, "idx", <<e[1]>>, p)
    /\ UNCHANGED <<setting, disk, slotOf, count, lazy, lazyN, power>>

RenamedBoth(e, f) == <<e[1], f[1]>>

\* vfs_rename: the moved entry takes the name and the replaced one is cleared;
\* vfs_journal_commit_multi.
Rename(p, m, n) ==
    /\ Entering(p) /\ m # n
    /\ \E e \in Ent :
          /\ Named(m, e)
          /\ \/ /\ ~Exists(n)
                /\ dir' = Set(e, [At(dir, e) EXCEPT !.name = n])
                /\ Commit(p, "multi", <<e[1]>>, p)
             \/ \E f \in Ent :
                /\ Named(n, f)
                /\ dir' = [Set(e, [At(dir, e) EXCEPT !.name = n])
                              EXCEPT ![f[1]][f[2]] = None]
                /\ Commit(p, "multi", RenamedBoth(e, f), p)
    /\ UNCHANGED <<setting, disk, slotOf, count, lazy, lazyN, power>>

\* SYS_CHMOD, SYS_CHOWN: the dirent changes under the lock, the commit runs
\* after the release.
Chmod(p, n) ==
    /\ p \in setting.setters
    /\ Entering(p)
    /\ \E e \in Ent :
          /\ Named(n, e)
          /\ dir' = Changed(e)
          /\ Commit(p, "idx", <<e[1]>>, None)
    /\ UNCHANGED <<setting, disk, slotOf, count, lazy, lazyN, power>>

\* vfs_append_locked, vfs_journal_commit_lazy: the dirent is marked; the flush is
\* forced by the number deferred or by the age of the oldest.
AppendFile(p, n) ==
    /\ Entering(p)
    /\ \E e \in Ent :
          /\ Named(n, e)
          /\ dir' = Changed(e)
          /\ lazy' = lazy \cup {e}
          /\ lazyN' = IF e \in lazy THEN lazyN ELSE lazyN + 1
    /\ \/ lazyN' < LazyMax /\ UNCHANGED <<op, lock>>
       \/ Commit(p, "flush", <<>>, p)
    /\ UNCHANGED <<setting, disk, slotOf, count, power>>

\* SYS_CLOSE: the count is read without the lock.
CloseSees(p) ==
    /\ p \in setting.closers /\ power = "on" /\ op[p] = NoOp
    /\ lazyN # 0
    /\ op' = [op EXCEPT ![p].pc = "close"]
    /\ UNCHANGED <<setting, disk, ram, lock, power>>

CloseFlush(p) ==
    /\ op[p].pc = "close" /\ lock = None
    /\ IF lazyN = 0
       THEN op' = [op EXCEPT ![p] = NoOp] /\ UNCHANGED lock
       ELSE Commit(p, "flush", <<>>, p)
    /\ UNCHANGED <<setting, disk, ram, power>>

\* SYS_VFS_SYNC: vfs_journal_apply, which flushes what is deferred first.
Sync(p) ==
    /\ Entering(p)
    /\ op' = [op EXCEPT ![p] = [NoOp EXCEPT !.kind = "sync",
                                  !.pc = IF lazyN = 0 THEN "header" ELSE "stage"]]
    /\ lock' = p
    /\ UNCHANGED <<setting, disk, ram, power>>

-----------------------------------------------------------------------------
(* The commit. *)

Staging(p) == op[p].pc = "stage"

\* Mutant: a block takes a new slot although it has one.
SlotAlways(b) == count
\* vj_stage_block: a block keeps its slot for as long as the journal is pending.
SlotFor(b) == IF slotOf[b] # None THEN slotOf[b] ELSE count

FindSlot(p) ==
    /\ Staging(p) /\ op[p].todo # <<>>
    /\ op' = [op EXCEPT ![p].pc = "write", ![p].slot = SlotFor(Head(op[p].todo))]
    /\ UNCHANGED <<setting, disk, ram, lock, power>>

Source(b) == dir[b]

AllStaged(p) == op[p].carried /\ Len(op[p].todo) = 1

\* The slot is taken, its shadow written.  vj_stage_lazy clears the count when
\* its last block is staged.
StageBlock(p) ==
    /\ op[p].pc = "write"
    /\ LET b == Head(op[p].todo)
           s == op[p].slot
           named == hdr # None /\ s < Len(hdr) /\ hdr[s + 1] = b
       IN /\ shadow' = [shadow EXCEPT ![s] = Source(b)]
          /\ slotOf' = [slotOf EXCEPT ![b] = s]
          /\ count' = IF slotOf[b] = None THEN s + 1 ELSE count
          /\ op' = [op EXCEPT ![p].pc = "stage", ![p].todo = Tail(@),
                              ![p].torn = @ \/ (named /\ op[p].kind = "multi")]
    /\ lazyN' = IF AllStaged(p) THEN 0 ELSE lazyN
    /\ UNCHANGED <<setting, home, hdr, dir, lazy, lock, power>>

\* Mutant: no commit but a flush takes the deferred dirents along.
CarriesNone(kind) == kind \in {"flush", "sync"}
\* vfs_journal_commit_multi does not call vj_stage_lazy.
Carries(kind) == kind # "multi"

Deferring(p) == Carries(op[p].kind) /\ ~op[p].carried /\ lazyN # 0

\* A set of blocks, each once and in ascending order.
InOrder(S) ==
    {t \in [1 .. Cardinality(S) -> S] :
        /\ Range(t) = S
        /\ \A i, j \in DOMAIN t : i < j => t[i] < t[j]}

\* vj_stage_lazy: the deferred dirents' blocks, in order.
StageDeferred(p) ==
    /\ Staging(p) /\ op[p].todo = <<>> /\ Deferring(p)
    /\ \E t \in InOrder({e[1] : e \in lazy}) :
          op' = [op EXCEPT ![p].carried = TRUE, ![p].todo = t]
    /\ lazy' = {}
    /\ lazyN' = IF lazy = {} THEN 0 ELSE lazyN
    /\ UNCHANGED <<setting, disk, dir, slotOf, count, lock, power>>

\* The header's block for slot s: the last block that claims it, or the zero
\* the header was cleared to.
Claims(s) == {b \in Blk : slotOf[b] = s}
BlockIn(s) == IF Claims(s) = {} THEN 0
              ELSE CHOOSE b \in Claims(s) : \A c \in Claims(s) : c <= b

Release(p) == lock' = IF lock = p THEN None ELSE lock

\* vj_publish, and the end of the commit.
Publish(p) ==
    /\ Staging(p) /\ op[p].todo = <<>> /\ ~Deferring(p)
    /\ hdr' = [i \in 1 .. count |-> BlockIn(i - 1)]
    /\ IF op[p].kind = "sync"
       THEN op' = [op EXCEPT ![p].pc = "header"] /\ UNCHANGED lock
       ELSE op' = [op EXCEPT ![p] = NoOp] /\ Release(p)
    /\ UNCHANGED <<setting, home, shadow, ram, power>>

-----------------------------------------------------------------------------
(* Applying the journal, for a sync and for a mount. *)

ResetSlots == slotOf' = [b \in Blk |-> None] /\ count' = 0

\* What follows the apply: the sync returns, the mount loads the directory.
Applied(p) ==
    IF op[p].kind = "mount"
    THEN op' = [op EXCEPT ![p].pc = "load"] /\ UNCHANGED lock
    ELSE op' = [op EXCEPT ![p] = NoOp] /\ Release(p)

ReadHeader(p) ==
    /\ op[p].pc = "header"
    /\ IF hdr = None
       THEN ResetSlots /\ Applied(p)
       ELSE /\ op' = [op EXCEPT ![p].pc = "apply", ![p].todo = hdr, ![p].slot = 0]
            /\ UNCHANGED <<slotOf, count, lock>>
    /\ UNCHANGED <<setting, disk, dir, lazy, lazyN, power>>

HeaderAfterCopy == hdr

ApplyBlock(p) ==
    /\ op[p].pc = "apply" /\ op[p].todo # <<>>
    /\ home' = [home EXCEPT ![Head(op[p].todo)] = shadow[op[p].slot]]
    /\ hdr' = HeaderAfterCopy
    /\ op' = [op EXCEPT ![p].todo = Tail(@), ![p].slot = @ + 1]
    /\ UNCHANGED <<setting, shadow, ram, lock, power>>

ApplyClear(p) ==
    /\ op[p].pc = "apply" /\ op[p].todo = <<>>
    /\ hdr' = None
    /\ ResetSlots
    /\ Applied(p)
    /\ UNCHANGED <<setting, home, shadow, dir, lazy, lazyN, power>>

\* cas_mount on the boot core, before any other process runs.
Mount(p) ==
    /\ p \in setting.callers /\ power = "off"
    /\ power' = "boot"
    /\ op' = [op EXCEPT ![p] = [NoOp EXCEPT !.pc = "header", !.kind = "mount"]]
    /\ UNCHANGED <<setting, disk, ram, lock>>

Load(p) ==
    /\ op[p].pc = "load"
    /\ dir' = home
    /\ power' = "on" /\ op' = [op EXCEPT ![p] = NoOp]
    /\ UNCHANGED <<setting, disk, slotOf, count, lazy, lazyN, lock>>

-----------------------------------------------------------------------------
(***************************************************************************)
(* Power loss.  The setting says whether it may also strike in the one     *)
(* interval the comments exclude: "mix", a rename that overwrote the slot  *)
(* a pending header names, while its other block is not staged or not in   *)
(* the header.                                                             *)
(***************************************************************************)
Mixed ==
    \E p \in Proc :
        op[p].torn /\ (op[p].todo # <<>> \/ (hdr # None /\ count > Len(hdr)))

Crash ==
    /\ power # "off"
    /\ Mixed => "mix" \in setting.windows
    /\ dir' = Blank /\ ResetSlots /\ lazy' = {} /\ lazyN' = 0
    /\ lock' = None /\ power' = "off" /\ op' = [p \in Proc |-> NoOp]
    /\ UNCHANGED <<setting, disk>>

Call(p) ==
    \/ \E n \in Name : \/ Write(p, n) \/ Unlink(p, n)
                        \/ Chmod(p, n) \/ AppendFile(p, n)
    \/ \E m, n \in Name : Rename(p, m, n)
    \/ CloseSees(p) \/ CloseFlush(p) \/ Sync(p)

Next ==
    \/ \E p \in setting.callers \cup setting.closers :
        \/ Call(p)
        \/ FindSlot(p) \/ StageBlock(p) \/ StageDeferred(p) \/ Publish(p)
        \/ ReadHeader(p) \/ ApplyBlock(p) \/ ApplyClear(p)
        \/ Mount(p) \/ Load(p)
    \/ Crash

Spec == Init /\ [][Next]_vars

-----------------------------------------------------------------------------
(* Properties. *)

TypeOK ==
    /\ setting \in Settings
    /\ home \in [Blk -> Row] /\ shadow \in [Blk -> Row] /\ dir \in [Blk -> Row]
    /\ hdr = None \/ (hdr \in Seq(Blk) /\ Len(hdr) <= NBlk)
    /\ slotOf \in [Blk -> Blk \cup {None}] /\ count \in 0 .. NBlk
    /\ lazy \in SUBSET Ent /\ lazyN \in 0 .. LazyMax
    /\ lock \in Proc \cup {None} /\ power \in {"off", "boot", "on"}
    /\ \A p \in Proc : op[p].todo \in Seq(Blk) /\ op[p].slot \in 0 .. NBlk

\* The directory a mount would load if power were lost now.
Recovered ==
    [b \in Blk |->
        LET in == {i \in 1 .. (IF hdr = None THEN 0 ELSE Len(hdr)) : hdr[i] = b}
        IN IF in = {} THEN home[b]
           ELSE shadow[(CHOOSE i \in in : \A j \in in : j <= i) - 1]]

Committing == \E p \in Proc : op[p].pc \in {"stage", "write"}

\* "That commit alone is what makes an update crash-safe": between commits the
\* recovered directory is the one in RAM, but for what is deferred.
CommittedSurvives ==
    (power = "on" /\ ~Committing) =>
        \A e \in Ent \ lazy : At(Recovered, e) = At(dir, e)

\* Recovery never finds two live dirents with one name (the rename that replaces
\* a file is one transaction).
UniqueNames ==
    ~Mixed =>
        \A e, f \in Ent :
            (At(Recovered, e) # None /\ At(Recovered, f) # None /\ e # f)
                => At(Recovered, e).name # At(Recovered, f).name

\* What a mount would recover only moves forward, to what the directory in RAM
\* holds; a crash, a replay and an interrupted replay do not move it at all.
NeverOlder ==
    [][\A e \in Ent :
          \/ At(Recovered', e) = At(Recovered, e)
          \/ power = "on" /\ power' = "on" /\ At(Recovered', e) = At(dir', e)]_vars

\* "ANY eager commit carries the deferred dirents with it": once a commit of one
\* dirent returns, the recovered directory is the one in RAM.  The commit of a
\* rename calls no vj_stage_lazy and is left out.
WriteCarriesDeferred ==
    [][\A p \in Proc :
          (op[p].kind = "idx" /\ lock = p /\ power' = "on" /\ op'[p] = NoOp)
              => Recovered' = dir']_vars

\* The count SYS_CLOSE reads without the lock never hides a deferred dirent.
NoForgottenAppend == (power = "on" /\ lazy # {}) => lazyN # 0

\* What was committed survives a power loss between any two disk writes, names stay unique and an
\* append whose commit was deferred is not forgotten.
DirectorySound == TypeOK /\ CommittedSurvives /\ UniqueNames /\ NoForgottenAppend

\* No step brings an older directory back, and no commit leaves a deferred append behind.
JournalMoves == NeverOlder /\ WriteCarriesDeferred
=============================================================================
