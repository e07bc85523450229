------------------------------ MODULE FileMap ------------------------------
(***************************************************************************)
(* File contents of metal/kernel/kernel64.c: a directory entry maps a file *)
(* to 512-byte chunks of the content-addressed store, the first ones named *)
(* in the entry, the others through a single-indirect block and two double *)
(* ones.  Indirect blocks are stored objects too, and every place of the   *)
(* map that names an object counts as one reference to it.                 *)
(*                                                                         *)
(* Each operation holds g_vfs_lock throughout, except that a positional    *)
(* write looks at the length in a section before (vfs_write_at).  A hash   *)
(* is the object itself: two objects with one hash are one object.  The    *)
(* store is the one CasStore describes, reduced to its reference counts;   *)
(* the journal commit that ends every operation is in VfsJournal.          *)
(***************************************************************************)
EXTENDS Integers, SequencesExt

CONSTANTS
    File,      \* directory entries
    Proc,      \* threads in a system call
    C,         \* bytes in a chunk
    D,         \* VFS_MAX_CHUNKS, chunks the entry names itself
    N,         \* VFS_IND_PER_BLK, hashes in an indirect block
    MaxBytes,  \* VFS_MAX_FILE_BYTES
    Caps,      \* numbers of objects a volume may hold
    Texts,     \* the buffers programs write
    Offsets,   \* the positions they seek to, besides the end of the file
    Sizes,     \* the lengths they truncate to
    Volumes,   \* the contents of the files, as earlier boots left them
    MaxCalls,  \* bound on the calls of a run
    None       \* no entry, no hash, no call in progress

VARIABLES
    cap,   \* the objects the volume holds at most
    dent,  \* the directory entries
    refs,  \* the stored objects and their reference counts
    pend,  \* a write between its look at the length and its second section
    full,  \* whether a put has been refused since the mount
    left   \* calls still allowed

vars == <<cap, dent, refs, pend, full, left>>

L1 == D + N                \* VFS_CHUNKS_L1
L2 == L1 + N * N           \* VFS_CHUNKS_L2
Words == 0 .. N - 1
Chunks(len) == (len + C - 1) \div C
Least(a, b) == IF a <= b THEN a ELSE b
Most(a, b) == IF a <= b THEN b ELSE a

(* The store. *)

\* cas_put: s is the store so far and whether every put succeeded.
Put(s, o) ==
    IF o \in DOMAIN s.r THEN s
    ELSE IF Cardinality(DOMAIN s.r) < cap THEN [s EXCEPT !.r = @ @@ (o :> 0)]
    ELSE [s EXCEPT !.ok = FALSE]

Retain(r, o) == IF o \in DOMAIN r THEN [r EXCEPT ![o] = @ + 1] ELSE r

\* cas_free: the last reference takes the object with it; a count of zero is
\* an underflow and refused.
Release(r, o) ==
    IF o \notin DOMAIN r \/ r[o] = 0 THEN r
    ELSE IF r[o] = 1 THEN [x \in DOMAIN r \ {o} |-> r[x]]
    ELSE [r EXCEPT ![o] = @ - 1]

(* Resolving a chunk. *)

Word(r, h, k) == IF h \in DOMAIN r THEN h.words[k] ELSE None

HashAt(r, d, i) ==
    IF i < D THEN d.direct[i]
    ELSE IF i < L1 THEN Word(r, d.ind1, i - D)
    ELSE LET j == i - L1
             k == j % (N * N)
             top == IF j < N * N THEN d.ind2 ELSE d.ind3
         IN Word(r, Word(r, top, k \div N), k % N)

\* A missing object leaves the zeroes the buffer was cleared to.
ChunkBytes(r, d, i) ==
    LET h == HashAt(r, d, i)
    IN [k \in 1 .. C |-> IF h \in DOMAIN r /\ k <= Len(h.bytes)
                         THEN h.bytes[k] ELSE 0]

\* Reading stops at the first chunk that is missing.
Readable(r, d) ==
    LET missing == {i \in 0 .. Chunks(d.len) - 1 : HashAt(r, d, i) \notin DOMAIN r}
    IN IF missing = {} THEN d.len ELSE C * Min(missing)

Bytes(r, d, from, n) ==
    [i \in 1 .. n |-> ChunkBytes(r, d, from + ((i - 1) \div C))[((i - 1) % C) + 1]]
ReadFile(r, d) == Bytes(r, d, 0, Readable(r, d))

\* The identity of a content: an injective fold, continued from `seed'.
Streamed(seed, r, d, from) == seed \o Bytes(r, d, from, d.len - from * C)

(* Building and walking a map. *)

Slot(ch, i) == IF i < Len(ch) THEN ch[i + 1] ELSE None
Indirect(ch, base) == [words |-> [k \in Words |-> Slot(ch, base + k)]]
Groups(ch, base) ==
    [g \in Words |-> IF base + g * N >= Len(ch) THEN None
                     ELSE Indirect(ch, base + g * N)]
Double(ch, base) == [words |-> Groups(ch, base)]

MapOf(ch) ==
    [direct |-> [i \in 0 .. D - 1 |-> Slot(ch, i)],
     ind1 |-> IF Len(ch) > D THEN Indirect(ch, D) ELSE None,
     ind2 |-> IF Len(ch) > L1 THEN Double(ch, L1) ELSE None,
     ind3 |-> IF Len(ch) > L2 THEN Double(ch, L2) ELSE None]

\* The blocks of a map, in the order they are put.
BlocksOf(m) ==
    LET double(h) == IF h = None THEN <<>>
                     ELSE [g \in 1 .. N |-> h.words[g - 1]] \o <<h>>
        named(s) == SelectSeq(s, LAMBDA h : h # None)
    IN named(<<m.ind1>> \o double(m.ind2) \o double(m.ind3))

\* Every place of the map, in the order a walk visits it: data first, because
\* finding a chunk reads the blocks.
Walk(d) ==
    LET groups(h) == [g \in 1 .. N |-> [at |-> "group", top |-> h, k |-> g - 1]]
        itself(h) == <<[at |-> "block", top |-> h, k |-> 0]>>
    IN [i \in 1 .. Chunks(d.len) |-> [at |-> "chunk", top |-> None, k |-> i - 1]]
       \o groups(d.ind3) \o itself(d.ind3) \o groups(d.ind2) \o itself(d.ind2)
       \o itself(d.ind1)

At(r, d, w) ==
    CASE w.at = "chunk" -> HashAt(r, d, w.k)
      [] w.at = "group" -> Word(r, w.top, w.k)
      [] w.at = "block" -> w.top

\* Retaining moves counts only, so the order of the walk does not matter.
RetainMap(r, d) ==
    [o \in DOMAIN r |-> r[o] + Cardinality({i \in DOMAIN Walk(d) : At(r, d, Walk(d)[i]) = o})]
ReleaseMap(r, d) == FoldLeft(LAMBDA s, w : Release(s, At(s, d, w)), r, Walk(d))

(* Replacing a map: the whole-file writer, the positional one, truncate. *)

Entry(m, len, ident) ==
    [len |-> len, direct |-> m.direct, ind1 |-> m.ind1, ind2 |-> m.ind2,
     ind3 |-> m.ind3, ident |-> ident]

\* Retain the new map before the old one is released; on a failed put the old
\* entry stays and what was stored is left behind.
Swapped(r, new, old) == ReleaseMap(RetainMap(r, new), old)

Replace(f, ch, len, from, seed) ==
    \E m \in {MapOf(ch)} :
    \E s \in {FoldLeft(Put, [r |-> refs, ok |-> None \notin ToSet(ch)],
                       SelectSeq(ch, LAMBDA h : h # None) \o BlocksOf(m))} :
    LET new == Entry(m, len, None)
        id == IF len = 0 THEN None ELSE Streamed(seed, s.r, new, from)
    IN /\ dent' = IF s.ok THEN [dent EXCEPT ![f] = [new EXCEPT !.ident = id]] ELSE dent
       /\ refs' = IF s.ok THEN Swapped(s.r, new, dent[f]) ELSE s.r
       /\ full' = (full \/ ~s.ok)

\* The bytes chunk i is stored with: the old ones, zeroes past the old end,
\* the caller's where the write covers them, no more than the new length.
Rebuilt(d, i, off, text, len) ==
    LET old == IF i * C < d.len THEN ChunkBytes(refs, d, i) ELSE [k \in 1 .. C |-> 0]
    IN [bytes |-> [k \in 1 .. Least(C, len - i * C) |->
           IF i * C + k > off /\ i * C + k <= off + Len(text)
           THEN text[i * C + k - off] ELSE old[k]]]

\* Mutant: the last byte of the write is forgotten when a chunk begins with it
JustShort(i, off, text) == i * C + 1 < off + Len(text) /\ (i + 1) * C > off
Overlaps(i, off, text) == i * C < off + Len(text) /\ (i + 1) * C > off

WasWhole(d, i) == (i + 1) * C <= d.len

WriteWhole(f, text) ==
    Replace(f, [i \in 1 .. Chunks(Len(text)) |->
                   [bytes |-> SubSeq(text, (i - 1) * C + 1, Least(i * C, Len(text)))]],
            Len(text), 0, <<>>)

WriteAtLocked(f, off, text) ==
    LET d == dent[f]
        len == Most(d.len, off + Len(text))
        grows == d.len > 0 /\ off = d.len /\ d.len % C = 0
    IN IF off + Len(text) > MaxBytes THEN UNCHANGED <<dent, refs, full>>
       ELSE Replace(f, [i \in 1 .. Chunks(len) |->
                           IF ~Overlaps(i - 1, off, text) /\ WasWhole(d, i - 1)
                           THEN HashAt(refs, d, i - 1)
                           ELSE Rebuilt(d, i - 1, off, text, len)],
                    len, IF grows THEN Chunks(d.len) ELSE 0,
                    IF grows THEN d.ident ELSE <<>>)

TruncateLocked(f, len) ==
    LET d == dent[f]
    IN IF len > MaxBytes \/ len = d.len THEN UNCHANGED <<dent, refs, full>>
       ELSE Replace(f, [i \in 1 .. Chunks(len) |->
                           IF WasWhole(d, i - 1) /\ i * C <= len
                           THEN HashAt(refs, d, i - 1)
                           ELSE Rebuilt(d, i - 1, len, <<>>, len)],
                    len, 0, <<>>)

(* The append fast path: put, patch, retain; release only at the end. *)

Load(r, h) == [k \in Words |-> Word(r, h, k)]

\* One indirect block re-stored.  The new block is retained here, the old one
\* is set aside.  p carries the store, the blocks set aside and the new hash.
Restore(p, h, b) ==
    LET s == Put([r |-> p.r, ok |-> TRUE], b)
    IN IF ~p.ok \/ ~s.ok THEN [p EXCEPT !.ok = FALSE]
       ELSE [r |-> IF h = b THEN s.r ELSE Retain(s.r, b), ok |-> TRUE, at |-> b,
             old |-> IF h \in {None, b} THEN p.old ELSE Append(p.old, h)]

Overlay(r, h, ch, base) ==
    [words |-> [k \in Words |->
        IF base + k \in DOMAIN ch THEN ch[base + k] ELSE Load(r, h)[k]]]

Touches(ch, base, n) == \E i \in DOMAIN ch : i >= base /\ i < base + n

PatchDouble(p, top, ch, base) ==
    LET group(a, g) ==
            IF ~Touches(ch, base + g * N, N) THEN a
            ELSE LET q == Restore(a.p, a.words[g],
                                  Overlay(a.p.r, a.words[g], ch, base + g * N))
                 IN [p |-> q, words |-> [a.words EXCEPT ![g] = IF q.ok THEN q.at ELSE @]]
        all == FoldLeft(group, [p |-> p, words |-> Load(p.r, top)],
                        [g \in 1 .. N |-> g - 1])
    IN IF Touches(ch, base, N * N)
       THEN Restore(all.p, top, [words |-> all.words])
       ELSE [p EXCEPT !.at = top]

CanAppend(d, off, text) ==
    /\ Len(text) > 0 /\ off = d.len /\ d.len % C = 0
    /\ off + Len(text) <= MaxBytes
    /\ Chunks(off + Len(text)) - d.len \div C <= 4 * N

AppendLocked(f, text) ==
    LET d == dent[f]
        first == d.len \div C
        len == d.len + Len(text)
        ch == [i \in first .. Chunks(len) - 1 |-> Rebuilt(d, i, d.len, text, len)]
        order == [i \in 1 .. Chunks(len) - first |-> ch[first + i - 1]]
        data == FoldLeft(Put, [r |-> refs, ok |-> TRUE], order)
        m0 == [r |-> data.r, ok |-> data.ok, old |-> <<>>, at |-> None]
        m1 == IF Touches(ch, D, N) THEN Restore(m0, d.ind1, Overlay(m0.r, d.ind1, ch, D))
              ELSE [m0 EXCEPT !.at = d.ind1]
        m2 == PatchDouble(m1, d.ind2, ch, L1)
        m3 == PatchDouble(m2, d.ind3, ch, L2)
        new == [len |-> len, ident |-> None,
                direct |-> [i \in 0 .. D - 1 |-> IF i \in DOMAIN ch THEN ch[i]
                                                 ELSE d.direct[i]],
                ind1 |-> m1.at, ind2 |-> m2.at, ind3 |-> m3.at]
        kept == FoldLeft(Retain, m3.r, order)
        seed == IF d.len > 0 THEN d.ident ELSE <<>>
        id == Streamed(seed, kept, new, first)
    IN /\ dent' = IF m3.ok THEN [dent EXCEPT ![f] = [new EXCEPT !.ident = id]] ELSE dent
       /\ refs' = IF m3.ok THEN FoldLeft(Release, kept, m3.old) ELSE m3.r
       /\ full' = (full \/ ~m3.ok)

(* System calls. *)

Call == left > 0 /\ left' = left - 1
Exists(f) == dent[f] # None

NewFile(f) ==
    /\ Call /\ ~Exists(f)
    /\ dent' = [dent EXCEPT ![f] = Entry(MapOf(<<>>), 0, None)]
    /\ UNCHANGED <<cap, refs, pend, full>>

\* vfs_write_at: a write at 0 that reaches the end it has just seen needs
\* nothing of the old file and takes the whole-file writer.
CoversAll(f, off, text) == off = 0 /\ Len(text) >= dent[f].len

LookWrite(p, f, off, text) ==
    /\ Call /\ pend[p] = None /\ Exists(f)
    /\ pend' = [pend EXCEPT ![p] = [f |-> f, off |-> off, text |-> text,
                                    whole |-> CoversAll(f, off, text)]]
    /\ UNCHANGED <<cap, dent, refs, full>>

FinishWrite(p) ==
    /\ pend[p] # None
    /\ LET w == pend[p]
       IN IF ~Exists(w.f) THEN UNCHANGED <<dent, refs, full>>
          ELSE IF w.whole THEN WriteWhole(w.f, w.text)
          ELSE IF CanAppend(dent[w.f], w.off, w.text) THEN AppendLocked(w.f, w.text)
          ELSE WriteAtLocked(w.f, w.off, w.text)
    /\ pend' = [pend EXCEPT ![p] = None]
    /\ UNCHANGED <<cap, left>>

\* O_APPEND: the end of the file is resolved inside the section that writes.
WriteAppend(p, f, text) ==
    /\ Call /\ pend[p] = None /\ Exists(f)
    /\ WriteAtLocked(f, dent[f].len, text)
    /\ UNCHANGED <<cap, pend>>

Truncate(p, f, len) ==
    /\ Call /\ pend[p] = None /\ Exists(f)
    /\ TruncateLocked(f, len)
    /\ UNCHANGED <<cap, pend>>

Unlink(p, f) ==
    /\ Call /\ pend[p] = None /\ Exists(f)
    /\ refs' = ReleaseMap(refs, dent[f])
    /\ dent' = [dent EXCEPT ![f] = None]
    /\ UNCHANGED <<cap, pend, full>>

\* A file whose map was built by the writers above.
Earlier(text) ==
    LET ch == [i \in 1 .. Chunks(Len(text)) |->
                  [bytes |-> SubSeq(text, (i - 1) * C + 1, Least(i * C, Len(text)))]]
    IN Entry(MapOf(ch), Len(text), IF text = <<>> THEN None ELSE text)

\* cas_refs_rebuild at mount: the counts of the files there are.
Objects(d) == ToSet(BlocksOf(d)) \cup
    {HashAt([o \in ToSet(BlocksOf(d)) |-> 0], d, i) : i \in 0 .. Chunks(d.len) - 1}

Init ==
    /\ cap \in Caps
    /\ \E v \in Volumes :
          dent = [f \in File |-> IF v[f] = None THEN None ELSE Earlier(v[f])]
    /\ LET live == {f \in File : Exists(f)}
       IN refs = FoldLeft(LAMBDA r, f : RetainMap(r, dent[f]),
                          [o \in UNION {Objects(dent[f]) : f \in live} |-> 0],
                          SetToSeq(live))
    /\ pend = [p \in Proc |-> None]
    /\ full = FALSE
    /\ left = MaxCalls

Next ==
    \/ \E f \in File : NewFile(f)
    \/ \E p \in Proc : FinishWrite(p)
    \/ \E p \in Proc, f \in File, text \in Texts :
          \/ WriteAppend(p, f, text)
          \/ Exists(f) /\ \E off \in Offsets \cup {dent[f].len} : LookWrite(p, f, off, text)
    \/ \E p \in Proc, f \in File :
          \/ Unlink(p, f)
          \/ \E len \in Sizes : Truncate(p, f, len)

Spec == Init /\ [][Next]_vars

(* Properties. *)

\* cas_tally_verify: the counts the directory says the store should have.
Tally == FoldLeft(LAMBDA r, f : IF Exists(f) THEN RetainMap(r, dent[f]) ELSE r,
                  [o \in DOMAIN refs |-> 0], SetToSeq(File))

TypeOK ==
    /\ \A f \in File : dent[f] # None =>
          /\ dent[f].len \in 0 .. MaxBytes
          /\ DOMAIN dent[f].direct = 0 .. D - 1
    /\ \A o \in DOMAIN refs : refs[o] \in Nat
    /\ left \in 0 .. MaxCalls

\* Nothing a live file names is ever freed: every stored object has at least
\* the references the maps hold, and every chunk of every file is there.
RefsCover ==
    /\ LET named == Tally IN \A o \in DOMAIN refs : refs[o] >= named[o]
    /\ \A f \in File : Exists(f) => Readable(refs, dent[f]) = dent[f].len

\* A volume that never refused a put counts every reference exactly.
RefsExact == ~full => refs = Tally

\* The identity of a file is that of the bytes a read returns, whichever path
\* wrote them.
IdentityExact ==
    \A f \in File : dent[f] # None =>
        dent[f].ident = IF dent[f].len = 0 THEN None ELSE ReadFile(refs, dent[f])

\* The bytes of a file are those its identity stands for; by IdentityExact
\* they are the bytes a read returns.
Abstract == INSTANCE ByteFiles WITH
    Data <- Texts,
    file <- [f \in File |-> IF ~Exists(f) THEN None
                            ELSE IF dent[f].len = 0 THEN <<>> ELSE dent[f].ident]

ImplementsBytes == Abstract!Spec

\* No object a file needs is freed, none that nobody needs is kept, and a file's identity is its content's.
MapSound == TypeOK /\ RefsCover /\ RefsExact /\ IdentityExact
=============================================================================
