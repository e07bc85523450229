------------------------------ MODULE CasStore ------------------------------
(***************************************************************************)
(* The content-addressed store (CAS) of metal/kernel/kernel64.c: an index  *)
(* from content hash to data block, an allocation bitmap, a superblock and *)
(* a one-transaction metadata journal on disk; the bitmap, the superblock  *)
(* counters and the per-block reference counts in RAM.                     *)
(*                                                                         *)
(* Every access is made under g_cas_lock, so one operation is in flight at *)
(* a time; what interleaves with it is the power failing.  Each disk write *)
(* is therefore a step of its own, `step' names the next one, and Crash    *)
(* may come between any two of them.                                       *)
(*                                                                         *)
(* The client is the file layer: it puts a chunk, retains it, releases the *)
(* chunk it replaces and then commits a directory entry, in the order of   *)
(* vfs_write_locked and SYS_VFS_UNLINK.  The directory is abstracted to    *)
(* the number of committed map words naming each hash.                     *)
(***************************************************************************)
EXTENDS Naturals, FiniteSets

CONSTANTS
    Hash,        \* content hashes; two chunks with one hash are one chunk
    NSeg,        \* bitmap blocks on the disk
    NBit,        \* data blocks each bitmap block describes
    NSec,        \* index blocks on the disk
    NOff,        \* slots in each index block (CAS_SLOTS_PER_BLOCK)
    Pin,         \* CAS_REF_PIN, the count that no longer moves
    Settings,    \* the volumes and circumstances considered, see setting
    None,        \* no hash, no header, no superblock
    Empty, Tomb  \* the slot values "never used" and "deleted"

Seg  == 0 .. NSeg - 1
Bit  == 0 .. NBit - 1
Block == Seg \X Bit
Sec  == 0 .. NSec - 1
Off  == 0 .. NOff - 1
Slots == 1 .. NSec * NOff
LiveEntry == [hash : Hash, block : Block]
Entry == LiveEntry \cup {Empty, Tomb}

ASSUME CasAssumption ==
    /\ NSeg \in Nat \ {0} /\ NBit \in Nat \ {0}
    /\ NSec \in Nat \ {0} /\ NOff \in Nat \ {0}
    /\ \A w \in Settings :
          /\ w.blocks \subseteq Block /\ w.blocks # {}
          /\ w.slots \in Slots
          /\ w.probe \in [Hash -> [0 .. w.slots - 1 -> Sec \X Off]]
          /\ \A h \in Hash : \A i, j \in 0 .. w.slots - 1 :
                w.probe[h][i] = w.probe[h][j] => i = j
          /\ w.names \in Nat /\ w.raw \subseteq Hash
          /\ w.windows \subseteq {"shadow", "undir"}
    /\ Pin \in Nat \ {0}
    /\ None \notin Hash /\ None \notin Nat
    /\ None \notin [seg : Seg, sec : Sec]
    /\ Empty \notin LiveEntry /\ Tomb \notin LiveEntry /\ Empty # Tomb

VARIABLES
    setting, \* chosen once: the data blocks and the index slots of the volume,
             \* probe[h][i] the i-th slot the probe for h visits; a bound on
             \* the words naming one hash; the chunks put without a directory
             \* entry (by boot suites); the extra intervals in which power may
             \* be lost, see Crash
    dSb,     \* superblock on disk: the data blocks in use, or None if invalid
    dBm,     \* bitmap on disk: the allocated data blocks
    dIx,     \* index on disk: dIx[sec][off]
    dData,   \* data blocks on disk: the hash of what each holds
    jHdr,    \* journal header: None, or the bitmap and index block it targets
    jSb, jBm, jIx,   \* the journal's superblock, bitmap and index shadows
    named,   \* committed directory words naming each hash
    bm, used, dirty, \* RAM bitmap, SB->used_blocks, bitmap blocks to flush
    refs,    \* g_cas_refs
    step,    \* the next disk write of the operation in flight, or the boot
    txn,     \* the staged index block (g_idxbuf) and what it is for
    client   \* the file operation in flight

disk == <<dSb, dBm, dIx, dData, jHdr, jSb, jBm, jIx, named>>
ram  == <<bm, used, dirty, refs>>
rest == <<setting, ram, txn, client>>
vars == <<disk, step, rest>>

-----------------------------------------------------------------------------
(* The bitmap. *)

\* The bits of one bitmap block, and a bitmap with that block overwritten.
Row(m, g) == {t \in Bit : <<g, t>> \in m}
PutRow(m, g, row) == {b \in m : b[1] # g} \cup {<<g, t>> : t \in row}

MarkDirty(g) == dirty \cup {g}

\* bm_alloc scans upward from data_start.
Below(b, c) == b[1] < c[1] \/ (b[1] = c[1] /\ b[2] <= c[2])
FirstFree(m, b) ==
    /\ b \in setting.blocks \ m
    /\ \A c \in setting.blocks \ m : Below(b, c)

(* The index: open addressing, deleted slots keep a tombstone. *)

Probes == 0 .. setting.slots - 1
Slot(ix, h, i) == ix[setting.probe[h][i][1]][setting.probe[h][i][2]]

\* The probes cas_index_find makes before a never-used slot ends the chain.
Chain(ix, h) ==
    {i \in Probes : \A j \in 0 .. i : Slot(ix, h, j) # Empty}

IsHit(ix, h, i) ==
    /\ i \in Chain(ix, h)
    /\ Slot(ix, h, i) \in LiveEntry
    /\ Slot(ix, h, i).hash = h
    
FirstHit(ix, h, i) == IsHit(ix, h, i) /\ \A j \in 0 .. i - 1 : ~IsHit(ix, h, j)

Absent(ix, h) == \A i \in Probes : ~IsHit(ix, h, i)

\* cas_index_find: the block of the first matching slot.
FindsBlock(ix, h, b) ==
    \E i \in Probes : FirstHit(ix, h, i) /\ Slot(ix, h, i).block = b

\* cas_index_stage: the first tombstone of the chain, else the slot ending it.
StageAt(ix, h, i) ==
    /\ i \in Probes
    /\ \/ /\ i \in Chain(ix, h) /\ Slot(ix, h, i) = Tomb
          /\ \A j \in 0 .. i - 1 : Slot(ix, h, j) # Tomb
       \/ /\ Slot(ix, h, i) = Empty
          /\ \A j \in 0 .. i - 1 : Slot(ix, h, j) \notin {Empty, Tomb}

Removed == Tomb

\* One index block with slot i of h's probe sequence set to e, and the index
\* with one of its blocks replaced.
Staged(ix, h, i, e) ==
    [ix[setting.probe[h][i][1]] EXCEPT ![setting.probe[h][i][2]] = e]
PutSec(ix, s, buf) == [ix EXCEPT ![s] = buf]

-----------------------------------------------------------------------------
NoTxn == [kind |-> "none", hash |-> None, block |-> <<0, 0>>, sec |-> 0,
          buf |-> [o \in Off |-> Empty]]
NoClient == [pc |-> "idle", new |-> None, old |-> None]

BlankIx == [s \in Sec |-> [o \in Off |-> Empty]]

\* A disk nothing has been written to.
Init ==
    /\ setting \in Settings
    /\ dSb = None /\ dBm = {} /\ dIx = BlankIx
    /\ dData = [b \in Block |-> None]
    /\ jHdr = None /\ jSb = None /\ jBm = {} /\ jIx = [o \in Off |-> Empty]
    /\ named = [h \in Hash |-> 0]
    /\ bm = {} /\ used = 0 /\ dirty = {} /\ refs = [b \in Block |-> 0]
    /\ step = "off" /\ txn = NoTxn /\ client = NoClient

-----------------------------------------------------------------------------
(* Mount and format. *)

\* cas_mount reads block 0; without the magic the caller formats.
Mount ==
    /\ step = "off"
    /\ step' = IF dSb = None THEN "fmtIx"
               ELSE IF jHdr = None THEN "load" ELSE "replaySb"
    /\ UNCHANGED <<disk, rest>>

\* cas_journal_recover copies the three shadows home, then clears the header.
ReplaySb ==
    /\ step = "replaySb"
    /\ dSb' = jSb
    /\ step' = "replayBm"
    /\ UNCHANGED <<dBm, dIx, dData, jHdr, jSb, jBm, jIx, named, rest>>

ReplayBm ==
    /\ step = "replayBm"
    /\ dBm' = PutRow(dBm, jHdr.seg, jBm)
    /\ step' = "replayIx"
    /\ UNCHANGED <<dSb, dIx, dData, jHdr, jSb, jBm, jIx, named, rest>>

ReplayIx ==
    /\ step = "replayIx"
    /\ dIx' = PutSec(dIx, jHdr.sec, jIx)
    /\ step' = "replayClear"
    /\ UNCHANGED <<dSb, dBm, dData, jHdr, jSb, jBm, jIx, named, rest>>

ReplayClear ==
    /\ step = "replayClear"
    /\ jHdr' = None
    /\ step' = "load"
    /\ UNCHANGED <<dSb, dBm, dIx, dData, jSb, jBm, jIx, named, rest>>

\* cas_refs_rebuild: every committed directory word retains the block its hash
\* resolves to; a word whose hash is absent contributes nothing.
Capped(n) == IF n < Pin THEN n ELSE Pin
Rebuilt(b) ==
    IF \E h \in Hash : FindsBlock(dIx, h, b)
    THEN Capped(named[CHOOSE h \in Hash : FindsBlock(dIx, h, b)])
    ELSE 0

\* cas_mount after the replay: superblock, bitmap, reference counts.  A replayed
\* superblock without the magic leaves a volume of no blocks: nothing can run.
Load ==
    /\ step = "load"
    /\ IF dSb = None
       THEN /\ step' = "wedged" /\ UNCHANGED <<bm, used, dirty, refs>>
       ELSE /\ bm' = dBm /\ used' = dSb /\ dirty' = {}
            /\ refs' = [b \in Block |-> Rebuilt(b)]
            /\ step' = "idle"
    /\ UNCHANGED <<setting, disk, txn, client>>

\* cas_format: index, directory and journals are zeroed, then cas_flush_meta
\* writes the superblock and, after it, every bitmap block.
FormatIndex ==
    /\ step = "fmtIx"
    /\ dIx' = BlankIx /\ named' = [h \in Hash |-> 0]
    /\ jHdr' = None /\ jSb' = None /\ jBm' = {} /\ jIx' = [o \in Off |-> Empty]
    /\ bm' = {} /\ used' = 0 /\ dirty' = Seg
    /\ refs' = [b \in Block |-> 0]
    /\ step' = "flushSb"
    /\ UNCHANGED <<setting, dSb, dBm, dData, txn, client>>

-----------------------------------------------------------------------------
(* The file layer. *)

Idle == step = "idle" /\ client = NoClient

\* vfs_write_locked and SYS_VFS_UNLINK: replace, create or delete one chunk.
BeginWrite(new, old) ==
    /\ Idle
    /\ new # None \/ old # None
    /\ new # None => named[new] < setting.names
    /\ old # None => named[old] > 0
    /\ client' = [pc |-> IF new # None THEN "put" ELSE "drop",
                  new |-> new, old |-> old]
    /\ UNCHANGED <<setting, disk, ram, step, txn>>

\* cas_put by a caller that establishes no directory entry (cmd_cas, the boot
\* validation suites).
BeginRawPut(new) ==
    /\ Idle
    /\ client' = [pc |-> "rawput", new |-> new, old |-> None]
    /\ UNCHANGED <<setting, disk, ram, step, txn>>

\* Mutant: the old chunk is released before the new one is retained.
AfterReleaseFirst(pc) ==
    CASE pc = "put"    -> IF client.old = None THEN "retain" ELSE "drop"
      [] pc = "drop"   -> IF client.new = None THEN "commit" ELSE "retain"
      [] pc = "retain" -> "commit"

\* What the file layer does after a put, a retain and a release: the new map is
\* retained before the old one is released.
After(pc) ==
    CASE pc = "put"    -> "retain"
      [] pc = "retain" -> IF client.old = None THEN "commit" ELSE "drop"
      [] pc = "drop"   -> "commit"

Proceed == IF client.pc = "rawput" THEN NoClient
           ELSE [client EXCEPT !.pc = After(client.pc)]

Retained(r) == IF r < Pin THEN r + 1 ELSE r

\* Mutant: a pinned count is released like any other.
ReleasedUnpinned(r) == r - 1
Released(r) == IF r = Pin THEN r ELSE r - 1

IsLast(r) == Released(r) = 0

\* vfs_map_ref_one(RETAIN).
Retain ==
    /\ step = "idle" /\ client.pc = "retain"
    /\ refs' = [b \in Block |->
                   IF FindsBlock(dIx, client.new, b)
                   THEN Retained(refs[b]) ELSE refs[b]]
    /\ client' = Proceed
    /\ UNCHANGED <<setting, disk, bm, used, dirty, step, txn>>

\* vfs_journal_commit_idx, abstracted to one durable write.
Commit ==
    /\ step = "idle" /\ client.pc = "commit"
    /\ named' = [h \in Hash |->
                    (named[h] + (IF h = client.new THEN 1 ELSE 0))
                              - (IF h = client.old THEN 1 ELSE 0)]
    /\ client' = NoClient
    /\ UNCHANGED <<setting, dSb, dBm, dIx, dData, jHdr, jSb, jBm, jIx, ram, step, txn>>

-----------------------------------------------------------------------------
(* cas_put. *)

Putting == step = "idle" /\ client.pc \in {"put", "rawput"}

\* The content is indexed already: only the counters are flushed.
PutDedup ==
    /\ Putting
    /\ ~Absent(dIx, client.new)
    /\ step' = "flushSb"
    /\ client' = Proceed
    /\ UNCHANGED <<setting, disk, ram, txn>>

\* bm_alloc found nothing: the write is refused, nothing was changed.
PutVolumeFull ==
    /\ Putting
    /\ Absent(dIx, client.new) /\ setting.blocks \subseteq bm
    /\ client' = NoClient
    /\ UNCHANGED <<setting, disk, ram, step, txn>>

\* bm_alloc, then the data block is written.
PutData ==
    /\ Putting
    /\ Absent(dIx, client.new)
    /\ \E b \in Block :
          /\ FirstFree(bm, b)
          /\ bm' = bm \cup {b} /\ used' = used + 1 /\ dirty' = MarkDirty(b[1])
          /\ dData' = [dData EXCEPT ![b] = client.new]
          /\ txn' = [NoTxn EXCEPT !.kind = "put", !.hash = client.new, !.block = b]
    /\ step' = "stage"
    /\ UNCHANGED <<setting, dSb, dBm, dIx, jHdr, jSb, jBm, jIx, named, refs, client>>

\* cas_index_stage: the changed index block is built in g_idxbuf only.
PutStage ==
    /\ step = "stage"
    /\ \E i \in Probes :
          /\ StageAt(dIx, txn.hash, i)
          /\ txn' = [txn EXCEPT
                       !.sec = setting.probe[txn.hash][i][1],
                       !.buf = Staged(dIx, txn.hash, i,
                                      [hash |-> txn.hash, block |-> txn.block])]
    /\ step' = "jHdr"
    /\ UNCHANGED <<setting, disk, ram, client>>

\* The index is full: the block goes back (bm_free) and the put fails.
PutIndexFull ==
    /\ step = "stage"
    /\ \A i \in Probes : ~StageAt(dIx, txn.hash, i)
    /\ bm' = bm \ {txn.block} /\ used' = used - 1
    /\ dirty' = MarkDirty(txn.block[1])
    /\ step' = "flushSb" /\ txn' = NoTxn /\ client' = NoClient
    /\ UNCHANGED <<setting, disk, refs>>

-----------------------------------------------------------------------------
(* cas_free. *)

Freeing == step = "idle" /\ client.pc = "drop"

\* Nothing to do: the hash is absent, or its count is zero and the drop is an
\* underflow that is refused.
FreeRefused ==
    /\ Freeing
    /\ \/ Absent(dIx, client.old)
       \/ \E b \in Block : FindsBlock(dIx, client.old, b) /\ refs[b] = 0
    /\ client' = Proceed
    /\ UNCHANGED <<setting, disk, ram, step, txn>>

\* The count drops but the block stays; a pinned count does not move.
FreeShared ==
    /\ Freeing
    /\ \E b \in Block :
          /\ FindsBlock(dIx, client.old, b)
          /\ refs[b] > 0 /\ ~IsLast(refs[b])
          /\ refs' = [refs EXCEPT ![b] = Released(@)]
    /\ client' = Proceed
    /\ UNCHANGED <<setting, disk, bm, used, dirty, step, txn>>

\* The last reference: the entry is staged as a tombstone and the bit cleared
\* before the journal copies either.
FreeLast ==
    /\ Freeing
    /\ \E b \in Block, i \in Probes :
          /\ FirstHit(dIx, client.old, i) /\ Slot(dIx, client.old, i).block = b
          /\ refs[b] > 0 /\ IsLast(refs[b])
          /\ refs' = [refs EXCEPT ![b] = Released(@)]
          /\ txn' = [kind |-> "free", hash |-> client.old, block |-> b,
                     sec |-> setting.probe[client.old][i][1],
                     buf |-> Staged(dIx, client.old, i, Removed)]
          /\ bm' = bm \ {b} /\ used' = used - 1 /\ dirty' = MarkDirty(b[1])
    /\ step' = "jHdr"
    /\ UNCHANGED <<setting, disk, client>>

-----------------------------------------------------------------------------
(* The journal and the home writes both operations share. *)

\* cas_journal_write puts the header down first and the shadows after it.
JournalHeader ==
    /\ step = "jHdr"
    /\ jHdr' = [seg |-> txn.block[1], sec |-> txn.sec]
    /\ step' = "jSb"
    /\ UNCHANGED <<dSb, dBm, dIx, dData, jSb, jBm, jIx, named, rest>>

JournalSb ==
    /\ step = "jSb"
    /\ jSb' = used
    /\ step' = "jBm"
    /\ UNCHANGED <<dSb, dBm, dIx, dData, jHdr, jBm, jIx, named, rest>>

JournalBm ==
    /\ step = "jBm"
    /\ jBm' = Row(bm, txn.block[1])
    /\ step' = "jIx"
    /\ UNCHANGED <<dSb, dBm, dIx, dData, jHdr, jSb, jIx, named, rest>>

JournalIx ==
    /\ step = "jIx"
    /\ jIx' = txn.buf
    /\ step' = "homeIx"
    /\ UNCHANGED <<dSb, dBm, dIx, dData, jHdr, jSb, jBm, named, rest>>

HomeIndex ==
    /\ step = "homeIx"
    /\ dIx' = PutSec(dIx, txn.sec, txn.buf)
    /\ step' = "flushSb"
    /\ UNCHANGED <<dSb, dBm, dData, jHdr, jSb, jBm, jIx, named, rest>>

Flushed == IF jHdr = None THEN "idle" ELSE "jClear"

\* cas_flush_meta: the superblock, then the bitmap blocks of the dirty range.
FlushSb ==
    /\ step = "flushSb"
    /\ dSb' = used
    /\ step' = IF dirty = {} THEN Flushed ELSE "flushBm"
    /\ UNCHANGED <<dBm, dIx, dData, jHdr, jSb, jBm, jIx, named, rest>>

FlushBm ==
    /\ step = "flushBm"
    /\ dBm' = {b \in dBm : b[1] \notin dirty} \cup {b \in bm : b[1] \in dirty}
    /\ dirty' = {}
    /\ step' = Flushed
    /\ UNCHANGED <<setting, dSb, dIx, dData, jHdr, jSb, jBm, jIx, named,
                   bm, used, refs, txn, client>>

JournalClear ==
    /\ step = "jClear"
    /\ jHdr' = None
    /\ step' = "idle" /\ txn' = NoTxn
    /\ client' = Proceed
    /\ UNCHANGED <<setting, dSb, dBm, dIx, dData, jSb, jBm, jIx, named, ram>>

-----------------------------------------------------------------------------
(***************************************************************************)
(* Power loss: RAM is gone, the disk keeps what was written.  Two          *)
(* intervals are kept apart because the code's comments claim more of them *)
(* than it delivers; the setting says in which power may be lost too:      *)
(*   "shadow"  the journal header is down and a shadow is not              *)
(*   "undir"   a chunk was released and the directory still names it       *)
(***************************************************************************)
InShadow == step \in {"jSb", "jBm", "jIx"}
InUndir  == /\ client.old # None
            /\ \/ client.pc = "commit"
               \/ client.pc = "drop" /\ step # "idle"

Crash ==
    /\ step # "off"
    /\ InShadow => "shadow" \in setting.windows
    /\ InUndir  => "undir" \in setting.windows
    /\ bm' = {} /\ used' = 0 /\ dirty' = {} /\ refs' = [b \in Block |-> 0]
    /\ step' = "off" /\ txn' = NoTxn /\ client' = NoClient
    /\ UNCHANGED <<setting, disk>>

Boot == Mount \/ ReplaySb \/ ReplayBm \/ ReplayIx \/ ReplayClear \/ Load
        \/ FormatIndex

Begin == \/ \E new, old \in Hash \cup {None} : BeginWrite(new, old)
         \/ \E new \in setting.raw : BeginRawPut(new)

Put == PutDedup \/ PutVolumeFull \/ PutData \/ PutStage \/ PutIndexFull

Free == FreeRefused \/ FreeShared \/ FreeLast

Transact == JournalHeader \/ JournalSb \/ JournalBm \/ JournalIx \/ HomeIndex
            \/ FlushSb \/ FlushBm \/ JournalClear

Next == Boot \/ Begin \/ Put \/ Retain \/ Free \/ Commit \/ Transact \/ Crash

Spec == Init /\ [][Next]_vars

-----------------------------------------------------------------------------
(* Properties. *)

TypeOK ==
    /\ setting \in Settings
    /\ dSb \in Nat \cup {None} /\ jSb \in Nat \cup {None}
    /\ dBm \in SUBSET Block /\ jBm \in SUBSET Bit
    /\ dIx \in [Sec -> [Off -> Entry]] /\ jIx \in [Off -> Entry]
    /\ dData \in [Block -> Hash \cup {None}]
    /\ jHdr \in [seg : Seg, sec : Sec] \cup {None}
    /\ named \in [Hash -> Nat]
    /\ bm \in SUBSET Block /\ used \in Nat /\ dirty \in SUBSET Seg
    /\ refs \in [Block -> 0 .. Pin]
    /\ step \in {"off", "fmtIx", "replaySb", "replayBm", "replayIx",
                 "replayClear", "load", "wedged", "idle", "stage", "jHdr",
                 "jSb", "jBm", "jIx", "homeIx", "flushSb", "flushBm", "jClear"}
    /\ txn \in [kind : {"none", "put", "free"}, hash : Hash \cup {None},
               block : Block, sec : Sec, buf : [Off -> Entry]]
    /\ client \in [pc : {"idle", "put", "rawput", "retain", "drop", "commit"},
                  new : Hash \cup {None}, old : Hash \cup {None}]

\* The volume the next mount would find if power were lost now: the disk, with
\* the journal's transaction applied if its header is down.
Pending == jHdr # None
MountSb == IF Pending THEN jSb ELSE dSb
MountBm == IF Pending THEN PutRow(dBm, jHdr.seg, jBm) ELSE dBm
MountIx == IF Pending THEN PutSec(dIx, jHdr.sec, jIx) ELSE dIx

Indexed(ix) == {ix[p[1]][p[2]] : p \in Sec \X Off} \ {Empty, Tomb}

\* A volume is sound: every entry is where its probe finds it, names an
\* allocated block that holds its content, shares that block with no other
\* entry, no block is allocated without an entry, and the superblock's count is
\* the bitmap's.
Sound(sb, map, ix) ==
    /\ \A e \in Indexed(ix) :
          /\ FindsBlock(ix, e.hash, e.block)
          /\ dData[e.block] = e.hash
    /\ \A p, q \in Sec \X Off :
          /\ ix[p[1]][p[2]] \in LiveEntry
          /\ ix[q[1]][q[2]] \in LiveEntry
          /\ ix[p[1]][p[2]].block = ix[q[1]][q[2]].block
          => p = q
    /\ map = {e.block : e \in Indexed(ix)}
    /\ sb = Cardinality(map)

\* Whatever power loss does between two writes of cas_put or cas_free, the
\* volume the next mount recovers is sound (cas_journal_recover).
CrashSound ==
    (dSb # None /\ ~InShadow) => Sound(MountSb, MountBm, MountIx)

\* cas_journal_recover leaves "both writes landed", however far the interrupted
\* transaction and any interrupted replay got.
RecoveryLands == step = "load" => dSb # None /\ Sound(dSb, dBm, dIx)

\* Between two operations RAM and disk agree and no transaction is open
\* (cas_flush_meta writes every block bm_set and bm_free marked).
RamAgrees ==
    step = "idle" => /\ bm = dBm /\ used = dSb
                     /\ dirty = {} /\ jHdr = None

\* Power is never lost between cas_free and the commit.
Ordered == "undir" \notin setting.windows

\* The live reference table is what the directory says, plus the write in
\* flight: what cas_tally_verify compares.  A pinned count stays above it.
Owed(h) == (named[h] + (IF client.new = h /\ client.pc \in {"drop", "commit"}
                        THEN 1 ELSE 0))
                     - (IF client.old = h /\ client.pc = "commit" THEN 1 ELSE 0)
RefsMatchNames ==
    (Ordered /\ step = "idle") =>
        \A b \in Block :
            \/ \E h \in Hash : /\ FindsBlock(dIx, h, b)
                               /\ refs[b] = Owed(h) \/ refs[b] = Pin
            \/ refs[b] = 0 /\ \A h \in Hash : ~FindsBlock(dIx, h, b)

\* A block something still references is allocated (cas_gen_verify_locked).
RefsAllocated == step = "idle" => \A b \in Block : refs[b] > 0 => b \in bm

\* Whatever the committed directory names, the next mount resolves; the only
\* exception is the one name the write in flight is about to remove.
NamesResolve ==
    (Ordered /\ ~InShadow) =>
        \A h \in Hash :
            named[h] > 0 => \/ ~Absent(MountIx, h)
                            \/ (InUndir /\ client.old = h /\ named[h] = 1)

\* The directory never names a chunk that is not there, once mounted.
DirectoryResolves ==
    (step = "idle" /\ client = NoClient) =>
        \A h \in Hash : named[h] > 0 => ~Absent(dIx, h)

\* The store a client may rely on when power is not lost between a free and the
\* commit: see ContentStore.
Image == IF InShadow THEN dIx ELSE MountIx
Store == INSTANCE ContentStore WITH
            stored <- {h \in Hash : Ordered /\ ~Absent(Image, h)},
            named <- [h \in Hash |-> IF Ordered THEN named[h] ELSE 0]
ImplementsStore == Store!Spec

\* The mounted store is consistent wherever power is lost, what a replay lands on is consistent too,
\* memory agrees with the disk between operations, and every named chunk has the references and the
\* block that its names need.
StoreSound == /\ TypeOK /\ CrashSound /\ RecoveryLands /\ RamAgrees
              /\ RefsMatchNames /\ RefsAllocated /\ NamesResolve

-----------------------------------------------------------------------------
(***************************************************************************)
(* The small volumes of the runs.  The probe is the code's linear one:     *)
(* from the slot cas_slot_of picks for the hash, upward and around.  Two   *)
(* of the hashes start at the same slot, the third one behind them, so     *)
(* chains collide and tombstones have live entries beyond them.            *)
(***************************************************************************)
SlotOf(h) == IF h = "h3" THEN 1 ELSE 0
LinearProbe(n) ==
    [h \in Hash |->
        [i \in 0 .. n - 1 |->
            LET s == (SlotOf(h) + i) % n IN <<s \div NOff, s % NOff>>]]

SmallVolume(blocks, slots) ==
    [blocks |-> blocks, slots |-> slots, probe |-> LinearProbe(slots),
     names |-> 2, raw |-> Hash, windows |-> {}]

\* Two blocks for three chunks: the disk fills before the index.
Filling == SmallVolume({<<0, 0>>, <<1, 0>>}, 4)
\* Three blocks, two slots: the index fills before the disk.
ShortIndex == SmallVolume({<<0, 0>>, <<0, 1>>, <<1, 0>>}, 2)
\* A chunk is named more often than CAS_REF_PIN counts.
Pinning == [Filling EXCEPT !.names = 4, !.raw = {}]
\* Power is also lost between cas_free and the directory commit.
Undirected == [Filling EXCEPT !.windows = {"undir"}]
\* Power is also lost between the journal header and its shadows.
Shadowed == [Filling EXCEPT !.windows = {"shadow"}]

Everything == {Filling, ShortIndex, Pinning, Undirected}
OnlyShadowed == {Shadowed}
OnlyUndirected == {Undirected}
=============================================================================
