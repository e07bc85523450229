--------------------------- MODULE CasStoreProofs ---------------------------
(***************************************************************************)
(* The mounted store is sound in every reachable state, and the store      *)
(* implements ContentStore, for every number of hashes, blocks and index   *)
(* slots, every probe order and every bound on the names.                  *)
(*                                                                         *)
(* The argument follows one volume through each transaction.  Image is the *)
(* volume a mount would recover now; no write changes it but one, the last *)
(* shadow of the journal (JournalIx), which replaces it by the volume the  *)
(* transaction has staged in RAM.  So the inductive invariant says that    *)
(* Image is a volume, that a staged one is a volume too, and how far the   *)
(* home writes of the transaction, or of its replay, have got.             *)
(***************************************************************************)
EXTENDS CasStore, FiniteSetTheorems, TLAPS

\* Power is not lost between the journal header and its shadows.
Safe == \A w \in Settings : "shadow" \notin w.windows

-----------------------------------------------------------------------------
(* Volumes. *)

Place == Sec \X Off
Index == [Sec -> [Off -> Entry]]
At(ix, p) == ix[p[1]][p[2]]
Live(ix, p) == At(ix, p) \in LiveEntry
Ent(h, b) == [hash |-> h, block |-> b]
Steps(w) == 0 .. w.slots - 1

\* The index with one slot changed.
WithSlot(ix, p, e) == PutSec(ix, p[1], [ix[p[1]] EXCEPT ![p[2]] = e])

\* A slot of h's probe that holds no entry, with every slot before it used.
CanTake(w, ix, h, i) ==
    /\ ~Live(ix, w.probe[h][i])
    /\ \A j \in 0 .. i - 1 : At(ix, w.probe[h][j]) # Empty

Holds(ix, h, b) == \E p \in Place : At(ix, p) = Ent(h, b)
Held(ix, h) == \E b \in Block : Holds(ix, h, b)

\* Every entry is on the probe of its hash, with nothing unused before it.
Reach(w, ix) ==
    \A p \in Place : Live(ix, p) =>
        \E i \in Steps(w) :
            /\ w.probe[At(ix, p).hash][i] = p
            /\ \A j \in 0 .. i : At(ix, w.probe[At(ix, p).hash][j]) # Empty

OneSlot(ix) ==
    \A p, q \in Place :
        Live(ix, p) /\ Live(ix, q) /\ At(ix, p).hash = At(ix, q).hash => p = q

Contents(data, ix) ==
    \A p \in Place : Live(ix, p) => data[At(ix, p).block] = At(ix, p).hash

Volume(w, data, map, ix) ==
    /\ ix \in Index
    /\ Reach(w, ix) /\ OneSlot(ix) /\ Contents(data, ix)
    /\ map = {b \in Block : \E h \in Hash : Holds(ix, h, b)}

-----------------------------------------------------------------------------
(* The inductive invariant. *)

Opening == {"jHdr", "jSb", "jBm", "jIx"}
Clearing == {"flushSb", "flushBm", "jClear"}
Landing == step = "homeIx" \/ (step \in Clearing /\ jHdr # None)
Running == step \in {"idle", "stage", "homeIx"} \cup Opening \cup Clearing
Replaying == {"replaySb", "replayBm", "replayIx", "replayClear"}

\* The index the transaction in flight leads to, and the one the reference
\* counts are about.
Target == PutSec(dIx, txn.sec, txn.buf)
View == IF step \in Opening \cup {"homeIx"} THEN Target ELSE dIx

ImageSb == IF InShadow THEN dSb ELSE MountSb
ImageBm == IF InShadow THEN dBm ELSE MountBm

\* A replay of the journal has done what its step says, and no more is known.
BootOk ==
    /\ step \in {"off", "fmtIx", "load"} \cup Replaying => client = NoClient
    /\ step # "wedged"
    /\ step = "fmtIx" => dSb = None
    /\ step = "load" => dSb # None /\ jHdr = None
    /\ step \in Replaying => dSb # None /\ jHdr # None
    /\ step \in Replaying \ {"replaySb"} => dSb = jSb
    /\ step \in {"replayIx", "replayClear"} => dBm = MountBm
    /\ step = "replayClear" => dIx = MountIx

\* Until the superblock is written the disk is blank.
BlankOk ==
    dSb = None =>
        /\ dBm = {} /\ dIx = BlankIx /\ jHdr = None
        /\ named = [h \in Hash |-> 0]
        /\ step \in {"off", "fmtIx", "flushSb"}
        /\ step = "flushSb" => bm = {} /\ client = NoClient

\* What a mount would recover is a volume.
ImageOk ==
    /\ Volume(setting, dData, ImageBm, Image)
    /\ dSb # None => ImageSb = Cardinality(ImageBm)

Counted == used = Cardinality(bm)

QuietOk ==
    step = "idle" => /\ bm = dBm /\ used = dSb /\ dirty = {}
                     /\ jHdr = None /\ dSb # None

\* A put has written its chunk to a block nothing names yet.
StageOk ==
    step = "stage" =>
        /\ jHdr = None /\ dSb # None
        /\ txn.block \notin dBm /\ bm = dBm \cup {txn.block}
        /\ used = dSb + 1 /\ dirty = {txn.block[1]}
        /\ txn.kind = "put" /\ txn.hash = client.new
        /\ client.pc \in {"put", "rawput"}
        /\ dData[txn.block] = txn.hash /\ ~Held(dIx, txn.hash)
        /\ refs[txn.block] = 0

\* The staged transaction, and the directory it was staged for.
PutOk ==
    /\ client.pc \in {"put", "rawput"} /\ txn.hash = client.new
    /\ \A h \in Hash : Held(Target, h) <=> (Held(dIx, h) \/ h = txn.hash)

FreeOk ==
    /\ client.pc = "drop" /\ txn.hash = client.old
    /\ Held(dIx, txn.hash)
    /\ \A h \in Hash : Held(Target, h) <=> (Held(dIx, h) /\ h # txn.hash)
    /\ Ordered => named[txn.hash] = 1 /\ client.new # txn.hash

\* While the journal is written, home is untouched and the target is a volume.
OpenOk ==
    step \in Opening =>
        /\ dSb # None
        /\ Volume(setting, dData, bm, Target)
        /\ PutRow(dBm, txn.block[1], Row(bm, txn.block[1])) = bm
        /\ dirty = {txn.block[1]}
        /\ IF step = "jHdr" THEN jHdr = None
           ELSE jHdr = [seg |-> txn.block[1], sec |-> txn.sec]
        /\ step \in {"jBm", "jIx"} => jSb = used
        /\ step = "jIx" => jBm = Row(bm, txn.block[1])
        /\ txn.hash \in Hash
        /\ PutOk \/ FreeOk

\* After it the journal holds the transaction, and home catches up.
LandOk ==
    Landing =>
        /\ dSb # None /\ jHdr # None
        /\ jSb = used /\ PutRow(dBm, jHdr.seg, jBm) = bm
        /\ step = "homeIx" => jHdr.sec = txn.sec /\ jIx = txn.buf
        /\ step # "homeIx" => dIx = PutSec(dIx, jHdr.sec, jIx)
        /\ step # "jClear" => dirty = {jHdr.seg}
        /\ step \in {"flushBm", "jClear"} => dSb = used
        /\ step = "jClear" => dirty = {} /\ dBm = bm
        /\ client.pc \in {"put", "rawput", "drop"}
        /\ client.pc = "drop" => ~Held(View, client.old)

\* A flush without a transaction writes what is there already.
FlushOk ==
    (step \in Clearing /\ jHdr = None) =>
        /\ step # "jClear" /\ bm = dBm
        /\ dSb # None => dSb = used
        /\ client.pc \in {"idle", "retain"}

\* How far the file operation is: what it replaces is still named, and what it
\* is about to name is in the store.
NewIsPut ==
    \/ client.pc \in {"retain", "drop", "commit"}
    \/ client.pc \in {"put", "rawput"} /\ step \notin {"idle", "stage"}
ClientOk ==
    /\ client.pc = "idle" => client = NoClient
    /\ client.pc \in {"put", "rawput", "retain"} => client.new # None
    /\ client.pc = "drop" => client.old # None
    /\ client.pc = "rawput" => client.old = None
    /\ client.old # None => named[client.old] > 0
    /\ (Ordered /\ client.new # None /\ NewIsPut) => Held(View, client.new)

\* Every reference is accounted for by a name.
RefsOk ==
    Running =>
        /\ \A b \in Block : b \notin bm => refs[b] = 0
        /\ Ordered => \A h \in Hash, b \in Block :
                          Holds(View, h, b) => refs[b] = Owed(h) \/ refs[b] = Pin

\* Every name resolves in what a mount would recover.
NamesOk ==
    Ordered => \A h \in Hash :
        named[h] > 0 => \/ Held(Image, h)
                        \/ InUndir /\ client.old = h /\ named[h] = 1

CInv == /\ TypeOK /\ BootOk /\ BlankOk /\ ImageOk /\ Counted /\ QuietOk
        /\ StageOk /\ OpenOk /\ LandOk /\ FlushOk /\ ClientOk /\ RefsOk /\ NamesOk

-----------------------------------------------------------------------------
(* Facts about indexes and volumes. *)

\* The constants are as CasAssumption says, for one of the settings.
LEMMA SettingFacts ==
    ASSUME NEW w \in Settings
    PROVE  /\ w.blocks \subseteq Block
           /\ w.slots \in Slots /\ w.slots \in Nat
           /\ w.probe \in [Hash -> [Steps(w) -> Place]]
           /\ \A h \in Hash : \A i, j \in Steps(w) :
                 w.probe[h][i] = w.probe[h][j] => i = j
BY CasAssumption DEF Steps, Place, Slots

LEMMA EntryFacts ==
    /\ Empty \notin LiveEntry /\ Tomb \notin LiveEntry /\ Empty # Tomb
    /\ Entry = LiveEntry \cup {Empty, Tomb}
    /\ \A h \in Hash, b \in Block : Ent(h, b) \in LiveEntry
    /\ \A h \in Hash, b \in Block : Ent(h, b).hash = h /\ Ent(h, b).block = b
    /\ \A e \in LiveEntry : e.hash \in Hash /\ e.block \in Block
                            /\ e = Ent(e.hash, e.block)
BY CasAssumption DEF Entry, LiveEntry, Ent

\* An index block staged with one slot changed, put into the index.
LEMMA WriteSlot ==
    ASSUME NEW ix \in Index, NEW p \in Place, NEW e \in Entry, NEW n,
           n = WithSlot(ix, p, e)
    PROVE  /\ n \in Index /\ At(n, p) = e
           /\ \A q \in Place : q # p => At(n, q) = At(ix, q)
<1>1. p[1] \in Sec /\ p[2] \in Off /\ p = <<p[1], p[2]>>
  BY DEF Place
<1>2. ix[p[1]] \in [Off -> Entry]
  BY <1>1 DEF Index
<1>3. [ix[p[1]] EXCEPT ![p[2]] = e] \in [Off -> Entry]
  BY <1>2
<1>4. n \in Index
  BY <1>3 DEF Index, PutSec, WithSlot
<1>5. At(n, p) = e
  BY <1>1, <1>2 DEF At, PutSec, WithSlot, Index
<1>6. ASSUME NEW q \in Place, q # p PROVE At(n, q) = At(ix, q)
  <2>1. q[1] \in Sec /\ q[2] \in Off /\ q = <<q[1], q[2]>>
    BY DEF Place
  <2>2. CASE q[1] = p[1]
    <3>1. q[2] # p[2]
      BY <1>1, <1>6, <2>1, <2>2
    <3> QED BY <3>1, <2>1, <2>2, <1>1, <1>2 DEF At, PutSec, WithSlot, Index
  <2>3. CASE q[1] # p[1]
    BY <2>3, <2>1, <1>1 DEF At, PutSec, WithSlot, Index
  <2> QED BY <2>2, <2>3
<1> QED BY <1>4, <1>5, <1>6

\* In a volume a hash and a block determine each other, the blocks are the map's
\* and they hold their content.
LEMMA Unique ==
    ASSUME NEW w, NEW data, NEW map, NEW ix, Volume(w, data, map, ix)
    PROVE  /\ map \subseteq Block
           /\ \A h \in Hash, b \in Block : Holds(ix, h, b) =>
                 b \in map /\ data[b] = h
           /\ \A h \in Hash : \A b, c \in Block :
                 Holds(ix, h, b) /\ Holds(ix, h, c) => b = c
           /\ \A g, h \in Hash : \A b \in Block :
                 Holds(ix, g, b) /\ Holds(ix, h, b) => g = h
           /\ \A b \in map : \E h \in Hash : Holds(ix, h, b)
<1>1. map = {b \in Block : \E h \in Hash : Holds(ix, h, b)}
  BY DEF Volume
<1>2. ASSUME NEW h \in Hash, NEW b \in Block, Holds(ix, h, b)
      PROVE  b \in map /\ data[b] = h
  <2>1. PICK p \in Place : At(ix, p) = Ent(h, b)
    BY <1>2 DEF Holds
  <2>2. data[At(ix, p).block] = At(ix, p).hash
    BY <2>1, EntryFacts DEF Volume, Contents, Live
  <2> QED BY <2>1, <2>2, <1>1, <1>2, EntryFacts
<1>3. ASSUME NEW h \in Hash, NEW b \in Block, NEW c \in Block,
             Holds(ix, h, b), Holds(ix, h, c)
      PROVE  b = c
  <2>1. PICK p \in Place : At(ix, p) = Ent(h, b)
    BY <1>3 DEF Holds
  <2>2. PICK q \in Place : At(ix, q) = Ent(h, c)
    BY <1>3 DEF Holds
  <2>3. p = q
    BY <2>1, <2>2, EntryFacts DEF Volume, OneSlot, Live
  <2>4. Ent(h, b) = Ent(h, c)
    BY <2>1, <2>2, <2>3
  <2> QED BY <2>4 DEF Ent
<1> QED BY <1>1, <1>2, <1>3

\* The slots one entry may be in: the live ones of a volume are at one place of
\* their hash's probe, which the search reaches.
LEMMA Reached ==
    ASSUME NEW w, NEW data, NEW map, NEW ix, Volume(w, data, map, ix),
           NEW h \in Hash, NEW b \in Block, Holds(ix, h, b)
    PROVE  \E i \in Steps(w) :
              /\ At(ix, w.probe[h][i]) = Ent(h, b)
              /\ \A j \in 0 .. i : At(ix, w.probe[h][j]) # Empty
<1>1. PICK p \in Place : At(ix, p) = Ent(h, b)
  BY DEF Holds
<1>2. Live(ix, p) /\ At(ix, p).hash = h
  BY <1>1, EntryFacts DEF Live
<1>3. PICK i \in Steps(w) :
         /\ w.probe[At(ix, p).hash][i] = p
         /\ \A j \in 0 .. i : At(ix, w.probe[At(ix, p).hash][j]) # Empty
  BY <1>2 DEF Volume, Reach
<1> QED BY <1>1, <1>2, <1>3

\* cas_index_find on a volume: it finds the block of a hash that is held, and
\* nothing for one that is not.
LEMMA Lookup ==
    ASSUME setting \in Settings, NEW data, NEW map, NEW ix,
           Volume(setting, data, map, ix), NEW h \in Hash
    PROVE  /\ \A b \in Block : FindsBlock(ix, h, b) <=> Holds(ix, h, b)
           /\ Absent(ix, h) <=> ~Held(ix, h)
           /\ \A i \in Probes : FirstHit(ix, h, i) =>
                 /\ Slot(ix, h, i).block \in Block
                 /\ At(ix, setting.probe[h][i])
                       = Ent(h, Slot(ix, h, i).block)
<1> DEFINE w == setting
           at(i) == At(ix, w.probe[h][i])
<1>a. w.probe \in [Hash -> [Steps(w) -> Place]] /\ w.slots \in Nat
      /\ \A i, j \in Steps(w) : w.probe[h][i] = w.probe[h][j] => i = j
  BY SettingFacts
<1>b. Probes = Steps(w) /\ \A i \in Probes : Slot(ix, h, i) = at(i)
  BY DEF Probes, Steps, Slot, At
<1>1. ASSUME NEW i \in Probes, IsHit(ix, h, i)
      PROVE  /\ at(i) \in LiveEntry /\ at(i).hash = h
             /\ at(i).block \in Block /\ at(i) = Ent(h, at(i).block)
             /\ Holds(ix, h, at(i).block)
  <2>1. at(i) \in LiveEntry /\ at(i).hash = h
    BY <1>1, <1>b DEF IsHit
  <2>2. at(i).block \in Block /\ at(i) = Ent(h, at(i).block)
    BY <2>1, EntryFacts
  <2>3. w.probe[h][i] \in Place
    BY <1>a, <1>b
  <2> QED BY <2>1, <2>2, <2>3 DEF Holds
<1>2. ASSUME NEW b \in Block, Holds(ix, h, b)
      PROVE  \E i \in Probes : FirstHit(ix, h, i) /\ at(i) = Ent(h, b)
  <2>1. PICK i \in Steps(w) :
           /\ at(i) = Ent(h, b)
           /\ \A j \in 0 .. i : at(j) # Empty
    BY <1>2, Reached
  <2>2. \A j \in 0 .. i : j \in Probes /\ Slot(ix, h, j) = at(j)
    BY <1>a, <1>b DEF Steps
  <2>3. IsHit(ix, h, i)
    <3>1. i \in Chain(ix, h)
      BY <2>1, <2>2, <1>b DEF Chain
    <3> QED BY <3>1, <2>1, <1>b, EntryFacts DEF IsHit
  <2>4. ASSUME NEW j \in 0 .. i - 1, IsHit(ix, h, j) PROVE FALSE
    <3>1. j \in Steps(w) /\ j \in Probes /\ j # i
      BY <1>a, <1>b DEF Steps
    <3>2. at(j) \in LiveEntry /\ at(j).hash = h
      BY <1>1, <2>4, <3>1
    <3>3. at(i) \in LiveEntry /\ at(i).hash = h
      BY <2>1, EntryFacts
    <3>4. w.probe[h][i] \in Place /\ w.probe[h][j] \in Place
      BY <1>a, <3>1
    <3>5. w.probe[h][i] = w.probe[h][j]
      BY <3>2, <3>3, <3>4 DEF Volume, OneSlot, Live
    <3> QED BY <3>5, <3>1, <1>a
  <2> QED BY <2>1, <2>3, <2>4, <1>b DEF FirstHit
<1>3. ASSUME NEW b \in Block
      PROVE  FindsBlock(ix, h, b) <=> Holds(ix, h, b)
  <2>1. ASSUME FindsBlock(ix, h, b) PROVE Holds(ix, h, b)
    <3>1. PICK i \in Probes : FirstHit(ix, h, i) /\ Slot(ix, h, i).block = b
      BY <2>1 DEF FindsBlock
    <3>2. IsHit(ix, h, i)
      BY <3>1 DEF FirstHit
    <3> QED BY <3>1, <3>2, <1>1, <1>b
  <2>2. ASSUME Holds(ix, h, b) PROVE FindsBlock(ix, h, b)
    <3>1. PICK i \in Probes : FirstHit(ix, h, i) /\ at(i) = Ent(h, b)
      BY <1>2, <2>2
    <3>2. Slot(ix, h, i).block = b
      BY <3>1, <1>b, EntryFacts
    <3> QED BY <3>1, <3>2 DEF FindsBlock
  <2> QED BY <2>1, <2>2
<1>4. Absent(ix, h) <=> ~Held(ix, h)
  <2>1. ASSUME Held(ix, h) PROVE ~Absent(ix, h)
    BY <2>1, <1>2 DEF Held, Absent, FirstHit
  <2>2. ASSUME ~Absent(ix, h) PROVE Held(ix, h)
    BY <2>2, <1>1 DEF Held, Absent
  <2> QED BY <2>1, <2>2
<1>5. ASSUME NEW i \in Probes, FirstHit(ix, h, i)
      PROVE  /\ Slot(ix, h, i).block \in Block
             /\ at(i) = Ent(h, Slot(ix, h, i).block)
  BY <1>5, <1>1, <1>b DEF FirstHit
<1> QED BY <1>3, <1>4, <1>5

\* A slot that can take an entry takes that of a hash and a block which the
\* volume does not have.
LEMMA Insert ==
    ASSUME NEW w \in Settings, NEW data, NEW map, NEW ix,
           Volume(w, data, map, ix),
           NEW h \in Hash, NEW b \in Block, NEW i \in Steps(w), NEW n,
           ~Held(ix, h), b \notin map, data[b] = h,
           CanTake(w, ix, h, i),
           n = WithSlot(ix, w.probe[h][i], Ent(h, b))
    PROVE  /\ Volume(w, data, map \cup {b}, n)
           /\ \A g \in Hash, c \in Block :
                 Holds(n, g, c) <=> Holds(ix, g, c) \/ (g = h /\ c = b)
<1>1. PICK p \in Place : p = w.probe[h][i]
  BY SettingFacts
<1>2. ix \in Index /\ Ent(h, b) \in Entry /\ Ent(h, b) \in LiveEntry
      /\ Ent(h, b).hash = h /\ Ent(h, b).block = b /\ Ent(h, b) # Empty
  BY EntryFacts DEF Volume
<1>3. /\ n \in Index /\ At(n, p) = Ent(h, b)
      /\ \A q \in Place : q # p => At(n, q) = At(ix, q)
  <2>1. n = WithSlot(ix, p, Ent(h, b))
    BY <1>1
  <2> QED BY <2>1, <1>2, WriteSlot
<1>4. \A q \in Place : At(ix, q) # Empty => At(n, q) # Empty
  BY <1>2, <1>3
<1>5. ~Live(ix, p) /\ \A j \in 0 .. i - 1 : At(ix, w.probe[h][j]) # Empty
  BY <1>1 DEF CanTake
<1>6. ASSUME NEW q \in Place, Live(n, q)
      PROVE  (q = p /\ At(n, q) = Ent(h, b)) \/ (q # p /\ Live(ix, q) /\ At(n, q) = At(ix, q))
  BY <1>6, <1>3 DEF Live
<1>7. ASSUME NEW q \in Place, Live(ix, q)
      PROVE  At(ix, q).hash # h /\ At(ix, q).block # b
             /\ At(ix, q).hash \in Hash /\ At(ix, q).block \in Block
             /\ Holds(ix, At(ix, q).hash, At(ix, q).block)
  <2>1. At(ix, q).hash \in Hash /\ At(ix, q).block \in Block
        /\ At(ix, q) = Ent(At(ix, q).hash, At(ix, q).block)
    BY <1>7, EntryFacts DEF Live
  <2>2. Holds(ix, At(ix, q).hash, At(ix, q).block)
    BY <2>1 DEF Holds
  <2> QED BY <2>1, <2>2, Unique DEF Held
<1>8. Reach(w, n)
  <2> SUFFICES ASSUME NEW q \in Place, Live(n, q)
               PROVE  \E k \in Steps(w) :
                         /\ w.probe[At(n, q).hash][k] = q
                         /\ \A j \in 0 .. k : At(n, w.probe[At(n, q).hash][j]) # Empty
    BY DEF Reach
  <2>0. \A g \in Hash : \A k \in Steps(w) : \A j \in 0 .. k : w.probe[g][j] \in Place
    <3>1. w.probe \in [Hash -> [Steps(w) -> Place]] /\ w.slots \in Nat
      BY SettingFacts
    <3>2. \A k \in Steps(w) : \A j \in 0 .. k : j \in Steps(w)
      BY <3>1 DEF Steps
    <3> QED BY <3>1, <3>2
  <2>1. CASE q = p
    <3>1. At(n, q).hash = h
      BY <2>1, <1>3, <1>2
    <3>2. ASSUME NEW j \in 0 .. i PROVE At(n, w.probe[h][j]) # Empty
      <4>1. CASE j = i
        BY <4>1, <1>1, <1>2, <1>3
      <4>2. CASE j # i
        <5>1. j \in 0 .. i - 1
          BY <4>2, SettingFacts DEF Steps
        <5> QED BY <5>1, <1>4, <1>5, <2>0
      <4> QED BY <4>1, <4>2
    <3> QED BY <3>1, <3>2, <2>1, <1>1
  <2>2. CASE q # p
    <3>1. Live(ix, q) /\ At(n, q) = At(ix, q) /\ At(ix, q).hash \in Hash
      BY <2>2, <1>6, <1>7
    <3>2. PICK k \in Steps(w) :
             /\ w.probe[At(ix, q).hash][k] = q
             /\ \A j \in 0 .. k : At(ix, w.probe[At(ix, q).hash][j]) # Empty
      BY <3>1 DEF Volume, Reach
    <3>3. \A j \in 0 .. k : At(n, w.probe[At(ix, q).hash][j]) # Empty
      BY <3>1, <3>2, <2>0, <1>4
    <3> QED BY <3>1, <3>2, <3>3
  <2> QED BY <2>1, <2>2
<1>9. OneSlot(n)
  <2> SUFFICES ASSUME NEW q \in Place, NEW r \in Place, Live(n, q), Live(n, r),
                      At(n, q).hash = At(n, r).hash
               PROVE  q = r
    BY DEF OneSlot
  <2>1. CASE q # p /\ r # p
    <3>1. Live(ix, q) /\ Live(ix, r) /\ At(ix, q).hash = At(ix, r).hash
      BY <2>1, <1>6
    <3> QED BY <3>1 DEF Volume, OneSlot
  <2>2. CASE q # p /\ r = p
    BY <2>2, <1>6, <1>7, <1>2
  <2>3. CASE q = p /\ r # p
    <3>1. Live(ix, r) /\ At(n, r) = At(ix, r) /\ At(n, q) = Ent(h, b)
      BY <2>3, <1>6
    <3>2. At(ix, r).hash # h
      BY <3>1, <1>7
    <3> QED BY <3>1, <3>2, <1>2
  <2> QED BY <2>1, <2>2, <2>3
<1>10. Contents(data, n)
  <2> SUFFICES ASSUME NEW q \in Place, Live(n, q)
               PROVE  data[At(n, q).block] = At(n, q).hash
    BY DEF Contents
  <2>1. CASE q = p
    BY <2>1, <1>2, <1>3
  <2>2. CASE q # p
    <3>1. Live(ix, q) /\ At(n, q) = At(ix, q)
      BY <2>2, <1>6
    <3> QED BY <3>1 DEF Volume, Contents
  <2> QED BY <2>1, <2>2
<1>11. ASSUME NEW g \in Hash, NEW c \in Block
       PROVE  Holds(n, g, c) <=> Holds(ix, g, c) \/ (g = h /\ c = b)
  <2>0. Ent(g, c) \in LiveEntry /\ Ent(g, c).hash = g /\ Ent(g, c).block = c
    BY EntryFacts
  <2>1. ASSUME Holds(n, g, c) PROVE Holds(ix, g, c) \/ (g = h /\ c = b)
    <3>1. PICK q \in Place : At(n, q) = Ent(g, c)
      BY <2>1 DEF Holds
    <3>2. CASE q = p
      BY <3>1, <3>2, <1>3, <2>0, <1>2
    <3>3. CASE q # p
      BY <3>1, <3>3, <1>3 DEF Holds
    <3> QED BY <3>2, <3>3
  <2>2. ASSUME Holds(ix, g, c) PROVE Holds(n, g, c)
    <3>1. PICK q \in Place : At(ix, q) = Ent(g, c)
      BY <2>2 DEF Holds
    <3>2. q # p
      BY <3>1, <1>5, <2>0 DEF Live
    <3> QED BY <3>1, <3>2, <1>3 DEF Holds
  <2>3. ASSUME g = h, c = b PROVE Holds(n, g, c)
    BY <2>3, <1>3 DEF Holds
  <2> QED BY <2>1, <2>2, <2>3
<1>12. map \cup {b} = {c \in Block : \E g \in Hash : Holds(n, g, c)}
  <2>1. map = {c \in Block : \E g \in Hash : Holds(ix, g, c)}
    BY DEF Volume
  <2> QED BY <2>1, <1>11
<1> QED BY <1>3, <1>8, <1>9, <1>10, <1>11, <1>12 DEF Volume

\* The slot of an entry can become a tombstone: what it named is gone.
LEMMA Delete ==
    ASSUME NEW w \in Settings, NEW data, NEW map, NEW ix,
           Volume(w, data, map, ix),
           NEW h \in Hash, NEW b \in Block, NEW p \in Place, NEW n,
           At(ix, p) = Ent(h, b),
           n = WithSlot(ix, p, Removed)
    PROVE  /\ Volume(w, data, map \ {b}, n)
           /\ \A g \in Hash, c \in Block :
                 Holds(n, g, c) <=> Holds(ix, g, c) /\ g # h
<1>1. ix \in Index /\ Removed \in Entry /\ Removed \notin LiveEntry /\ Removed # Empty
  BY EntryFacts DEF Volume, Removed
<1>2. /\ n \in Index /\ At(n, p) = Removed
      /\ \A q \in Place : q # p => At(n, q) = At(ix, q)
  BY <1>1, WriteSlot
<1>3. \A q \in Place : At(ix, q) # Empty => At(n, q) # Empty
  BY <1>1, <1>2
<1>4. ASSUME NEW q \in Place, Live(n, q)
      PROVE  q # p /\ Live(ix, q) /\ At(n, q) = At(ix, q)
  BY <1>4, <1>1, <1>2 DEF Live
<1>5. Live(ix, p) /\ At(ix, p).hash = h /\ At(ix, p).block = b /\ Holds(ix, h, b)
  BY EntryFacts DEF Live, Holds
<1>6. Reach(w, n)
  <2> SUFFICES ASSUME NEW q \in Place, Live(n, q)
               PROVE  \E k \in Steps(w) :
                         /\ w.probe[At(n, q).hash][k] = q
                         /\ \A j \in 0 .. k : At(n, w.probe[At(n, q).hash][j]) # Empty
    BY DEF Reach
  <2>1. Live(ix, q) /\ At(n, q) = At(ix, q) /\ At(ix, q).hash \in Hash
    BY <1>4, EntryFacts DEF Live
  <2>2. PICK k \in Steps(w) :
           /\ w.probe[At(ix, q).hash][k] = q
           /\ \A j \in 0 .. k : At(ix, w.probe[At(ix, q).hash][j]) # Empty
    BY <2>1 DEF Volume, Reach
  <2>3. \A j \in 0 .. k : w.probe[At(ix, q).hash][j] \in Place
    BY <2>1, SettingFacts DEF Steps
  <2> QED BY <2>1, <2>2, <2>3, <1>3
<1>7. OneSlot(n)
  <2> SUFFICES ASSUME NEW q \in Place, NEW r \in Place, Live(n, q), Live(n, r),
                      At(n, q).hash = At(n, r).hash
               PROVE  q = r
    BY DEF OneSlot
  <2>1. Live(ix, q) /\ Live(ix, r) /\ At(ix, q).hash = At(ix, r).hash
    BY <1>4
  <2> QED BY <2>1 DEF Volume, OneSlot
<1>8. Contents(data, n)
  <2> SUFFICES ASSUME NEW q \in Place, Live(n, q)
               PROVE  data[At(n, q).block] = At(n, q).hash
    BY DEF Contents
  <2>1. Live(ix, q) /\ At(n, q) = At(ix, q)
    BY <1>4
  <2> QED BY <2>1 DEF Volume, Contents
<1>9. ASSUME NEW g \in Hash, NEW c \in Block
      PROVE  Holds(n, g, c) <=> Holds(ix, g, c) /\ g # h
  <2>0. Ent(g, c) \in LiveEntry /\ Ent(g, c).hash = g /\ Ent(g, c).block = c
    BY EntryFacts
  <2>1. ASSUME Holds(n, g, c) PROVE Holds(ix, g, c) /\ g # h
    <3>1. PICK q \in Place : At(n, q) = Ent(g, c)
      BY <2>1 DEF Holds
    <3>2. Live(n, q)
      BY <3>1, <2>0 DEF Live
    <3>3. q # p /\ Live(ix, q) /\ At(ix, q) = Ent(g, c)
      BY <3>1, <3>2, <1>4
    <3>4. g # h
      BY <3>3, <1>5, <2>0 DEF Volume, OneSlot
    <3> QED BY <3>3, <3>4 DEF Holds
  <2>2. ASSUME Holds(ix, g, c), g # h PROVE Holds(n, g, c)
    <3>1. PICK q \in Place : At(ix, q) = Ent(g, c)
      BY <2>2 DEF Holds
    <3>2. q # p
      BY <3>1, <1>5, <2>0, <2>2
    <3> QED BY <3>1, <3>2, <1>2 DEF Holds
  <2> QED BY <2>1, <2>2
<1>10. map \ {b} = {c \in Block : \E g \in Hash : Holds(n, g, c)}
  <2>1. map = {c \in Block : \E g \in Hash : Holds(ix, g, c)}
    BY DEF Volume
  <2>2. \A g \in Hash : Holds(ix, g, b) => g = h
    BY <1>5, Unique
  <2>3. \A c \in Block : Holds(ix, h, c) => c = b
    BY <1>5, Unique
  <2> QED BY <2>1, <2>2, <2>3, <1>9
<1> QED BY <1>2, <1>6, <1>7, <1>8, <1>9, <1>10 DEF Volume

\* A volume does not mind what a block outside its map holds.
LEMMA Elsewhere ==
    ASSUME NEW w, NEW data \in [Block -> Hash \cup {None}], NEW map, NEW ix,
           Volume(w, data, map, ix), NEW b \in Block, b \notin map, NEW h
    PROVE  Volume(w, [data EXCEPT ![b] = h], map, ix)
<1>1. Contents([data EXCEPT ![b] = h], ix)
  <2> SUFFICES ASSUME NEW q \in Place, Live(ix, q)
               PROVE  [data EXCEPT ![b] = h][At(ix, q).block] = At(ix, q).hash
    BY DEF Contents
  <2>1. At(ix, q).hash \in Hash /\ At(ix, q).block \in Block
        /\ At(ix, q) = Ent(At(ix, q).hash, At(ix, q).block)
    BY EntryFacts DEF Live
  <2>2. Holds(ix, At(ix, q).hash, At(ix, q).block)
    BY <2>1 DEF Holds
  <2>3. At(ix, q).block # b
    BY <2>1, <2>2, Unique
  <2>4. data[At(ix, q).block] = At(ix, q).hash
    BY DEF Volume, Contents
  <2> QED BY <2>1, <2>3, <2>4
<1> QED BY <1>1 DEF Volume

\* The volume nothing was put on.
LEMMA Blank ==
    ASSUME NEW w, NEW data
    PROVE  /\ Volume(w, data, {}, BlankIx)
           /\ \A h \in Hash, b \in Block : ~Holds(BlankIx, h, b)
<1>1. BlankIx \in Index /\ \A p \in Place : At(BlankIx, p) = Empty
  BY EntryFacts DEF BlankIx, Index, At, Place
<1>2. \A p \in Place : ~Live(BlankIx, p)
  BY <1>1, EntryFacts DEF Live
<1>3. \A h \in Hash, b \in Block : ~Holds(BlankIx, h, b)
  BY <1>1, EntryFacts DEF Holds
<1> QED BY <1>1, <1>2, <1>3 DEF Volume, Reach, OneSlot, Contents

-----------------------------------------------------------------------------
(* Bitmaps and their blocks. *)

LEMMA BlocksFinite ==
    /\ IsFiniteSet(Block)
    /\ \A m \in SUBSET Block : IsFiniteSet(m) /\ Cardinality(m) \in Nat
<1>1. IsFiniteSet(0 .. NSeg - 1) /\ IsFiniteSet(0 .. NBit - 1)
  BY CasAssumption, FS_Interval
<1>2. IsFiniteSet(Block)
  BY <1>1, FS_Product DEF Block, Seg, Bit
<1> QED BY <1>2, FS_Subset, FS_CardinalityType

LEMMA CountOne ==
    ASSUME NEW m \in SUBSET Block, NEW b \in Block
    PROVE  /\ b \notin m => Cardinality(m \cup {b}) = Cardinality(m) + 1
           /\ b \in m => /\ Cardinality(m \ {b}) = Cardinality(m) - 1
                         /\ Cardinality(m) > 0
<1>1. IsFiniteSet(m) /\ Cardinality(m) \in Nat
  BY BlocksFinite
<1>2. b \notin m => Cardinality(m \cup {b}) = Cardinality(m) + 1
  BY <1>1, FS_AddElement
<1>3. b \in m => Cardinality(m \ {b}) = Cardinality(m) - 1
  BY <1>1, FS_RemoveElement
<1>4. b \in m => Cardinality(m) > 0
  BY <1>1, FS_EmptySet
<1> QED BY <1>2, <1>3, <1>4

\* Overwriting one bitmap block: with that block of n it makes n, when they
\* differ nowhere else; a second time it changes nothing.
LEMMA Patch ==
    ASSUME NEW m \in SUBSET Block, NEW g \in Seg
    PROVE  /\ \A row \in SUBSET Bit :
                 /\ PutRow(m, g, row) \in SUBSET Block
                 /\ PutRow(PutRow(m, g, row), g, row) = PutRow(m, g, row)
                 /\ {b \in m : b[1] \notin {g}}
                    \cup {b \in PutRow(m, g, row) : b[1] \in {g}} = PutRow(m, g, row)
           /\ Row(m, g) \in SUBSET Bit
<1>1. \A b \in Block : b[1] \in Seg /\ b[2] \in Bit /\ b = <<b[1], b[2]>>
  BY DEF Block
<1>2. \A t \in Bit : <<g, t>> \in Block /\ <<g, t>>[1] = g
  BY DEF Block
<1>3. ASSUME NEW row \in SUBSET Bit
      PROVE  /\ PutRow(m, g, row) \in SUBSET Block
             /\ PutRow(PutRow(m, g, row), g, row) = PutRow(m, g, row)
             /\ {b \in m : b[1] \notin {g}}
                \cup {b \in PutRow(m, g, row) : b[1] \in {g}} = PutRow(m, g, row)
  BY <1>1, <1>2 DEF PutRow
<1>4. Row(m, g) \in SUBSET Bit
  BY DEF Row
<1> QED BY <1>3, <1>4

LEMMA PatchOne ==
    ASSUME NEW m \in SUBSET Block, NEW b \in Block
    PROVE  /\ PutRow(m, b[1], Row(m \cup {b}, b[1])) = m \cup {b}
           /\ PutRow(m, b[1], Row(m \ {b}, b[1])) = m \ {b}
<1>1. \A c \in Block : c[1] \in Seg /\ c[2] \in Bit /\ c = <<c[1], c[2]>>
  BY DEF Block
<1>2. ASSUME NEW n \in SUBSET Block, \A c \in Block : c[1] # b[1] => (c \in m <=> c \in n)
      PROVE  PutRow(m, b[1], Row(n, b[1])) = n
  <2>1. \A c : c \in PutRow(m, b[1], Row(n, b[1]))
                 <=> (c \in m /\ c[1] # b[1])
                     \/ \E t \in Bit : <<b[1], t>> \in n /\ c = <<b[1], t>>
    BY DEF PutRow, Row
  <2>2. ASSUME NEW c \in n PROVE c \in PutRow(m, b[1], Row(n, b[1]))
    BY <2>1, <2>2, <1>1, <1>2
  <2>3. ASSUME NEW c \in PutRow(m, b[1], Row(n, b[1])) PROVE c \in n
    BY <2>1, <2>3, <1>1, <1>2
  <2> QED BY <2>2, <2>3
<1>3. \A c \in Block : c[1] # b[1] => c # b
  OBVIOUS
<1> QED BY <1>2, <1>3

LEMMA PutSecTwice ==
    ASSUME NEW ix \in Index, NEW s \in Sec, NEW buf \in [Off -> Entry]
    PROVE  /\ PutSec(ix, s, buf) \in Index
           /\ PutSec(PutSec(ix, s, buf), s, buf) = PutSec(ix, s, buf)
BY DEF PutSec, Index

-----------------------------------------------------------------------------
(* What the parts of the invariant say of the volume a mount would find. *)

Txn == [kind : {"none", "put", "free"}, hash : Hash \cup {None},
        block : Block, sec : Sec, buf : [Off -> Entry]]
Client == [pc : {"idle", "put", "rawput", "retain", "drop", "commit"},
           new : Hash \cup {None}, old : Hash \cup {None}]

LEMMA Fresh ==
    /\ NoTxn \in Txn /\ NoClient \in Client
    /\ NoClient.pc = "idle" /\ NoClient.new = None /\ NoClient.old = None
    /\ BlankIx \in Index /\ [b \in Block |-> 0] \in [Block -> 0 .. Pin]
<1>1. <<0, 0>> \in Block /\ 0 \in Sec
  BY CasAssumption DEF Block, Seg, Bit, Sec
<1>2. Empty \in Entry /\ Pin \in Nat
  BY CasAssumption DEF Entry
<1> QED BY <1>1, <1>2 DEF NoTxn, NoClient, Txn, Client, BlankIx, Index

LEMMA Types ==
    ASSUME TypeOK
    PROVE  /\ setting \in Settings /\ dIx \in Index
           /\ txn \in Txn /\ client \in Client
           /\ dBm \in SUBSET Block /\ bm \in SUBSET Block /\ used \in Nat
           /\ jBm \in SUBSET Bit /\ jIx \in [Off -> Entry]
           /\ jHdr # None => jHdr.seg \in Seg /\ jHdr.sec \in Sec
           /\ txn.block \in Block /\ txn.block[1] \in Seg
           /\ txn.sec \in Sec /\ txn.buf \in [Off -> Entry]
           /\ client.new # None => client.new \in Hash
           /\ client.old # None => client.old \in Hash
           /\ None \notin Hash /\ None \notin Nat
           /\ Target \in Index
<1>1. \A b \in Block : b[1] \in Seg
  BY DEF Block
<1>2. dIx \in Index /\ txn \in Txn /\ client \in Client
  BY DEF TypeOK, Index, Txn, Client
<1>3. txn.block \in Block /\ txn.sec \in Sec /\ txn.buf \in [Off -> Entry]
  BY <1>2 DEF Txn
<1>4. /\ client.new # None => client.new \in Hash
      /\ client.old # None => client.old \in Hash
  BY <1>2 DEF Client
<1>5. Target \in Index
  BY <1>2, <1>3, PutSecTwice DEF Target
<1>6. jHdr # None => jHdr.seg \in Seg /\ jHdr.sec \in Sec
  BY DEF TypeOK
<1> QED BY <1>1, <1>2, <1>3, <1>4, <1>5, <1>6, CasAssumption DEF TypeOK

\* Where the image is: home, or home with the journal applied.
LEMMA ImageIs ==
    /\ (jHdr = None \/ InShadow) => Image = dIx /\ ImageBm = dBm /\ ImageSb = dSb
    /\ (jHdr # None /\ ~InShadow) =>
          /\ Image = PutSec(dIx, jHdr.sec, jIx)
          /\ ImageBm = PutRow(dBm, jHdr.seg, jBm) /\ ImageSb = jSb
BY DEF Image, ImageBm, ImageSb, MountIx, MountBm, MountSb, Pending

\* A step that leaves the image where it is.
SameImage ==
    /\ UNCHANGED <<setting, dData>>
    /\ Image' = Image /\ ImageBm' = ImageBm /\ ImageSb' = ImageSb
    /\ dSb' = None <=> dSb = None

LEMMA ImageKept ==
    ASSUME CInv, SameImage
    PROVE  ImageOk'
BY DEF CInv, SameImage, ImageOk

LEMMA NamesKept ==
    ASSUME CInv, Image' = Image, UNCHANGED <<setting, named>>,
           InUndir => InUndir' /\ client'.old = client.old
    PROVE  NamesOk'
BY DEF CInv, NamesOk, Ordered

\* A home write of a transaction, or of its replay, that the journal covers.
LEMMA Covered ==
    ASSUME TypeOK, jHdr # None
    PROVE  /\ PutRow(dBm, jHdr.seg, jBm) \in SUBSET Block
           /\ PutRow(PutRow(dBm, jHdr.seg, jBm), jHdr.seg, jBm)
                 = PutRow(dBm, jHdr.seg, jBm)
           /\ PutSec(dIx, jHdr.sec, jIx) \in Index
           /\ PutSec(PutSec(dIx, jHdr.sec, jIx), jHdr.sec, jIx)
                 = PutSec(dIx, jHdr.sec, jIx)
BY Types, Patch, PutSecTwice

LEMMA ImageCount ==
    ASSUME CInv, dSb # None
    PROVE  ImageSb \in Nat /\ ImageSb # None
<1>1. ImageBm \in SUBSET Block
  BY Unique DEF CInv, ImageOk
<1> QED BY <1>1, BlocksFinite, Types DEF CInv, ImageOk

\* Between transactions the index at home is the image.
LEMMA HomeIsVolume ==
    ASSUME CInv, jHdr = None
    PROVE  Volume(setting, dData, dBm, dIx)
BY ImageIs DEF CInv, ImageOk

LEMMA ProceedIs ==
    ASSUME TypeOK, client.pc \in {"put", "rawput", "retain", "drop"}
    PROVE  /\ Proceed \in Client
           /\ client.pc = "rawput" => Proceed = NoClient
           /\ client.pc # "rawput" => /\ Proceed.new = client.new
                                      /\ Proceed.old = client.old
           /\ client.pc = "put" => Proceed.pc = "retain"
           /\ client.pc = "retain" =>
                 Proceed.pc = IF client.old = None THEN "commit" ELSE "drop"
           /\ client.pc = "drop" => Proceed.pc = "commit"
<1>1. client \in Client
  BY Types
<1> QED BY <1>1, Fresh DEF Proceed, After, Client

-----------------------------------------------------------------------------
(* Mount, replay and format. *)

LEMMA MountKeeps ==
    ASSUME CInv, Mount
    PROVE  CInv' /\ Image' = Image
<1>1. TypeOK'
  BY DEF CInv, Mount, disk, rest, ram, TypeOK
<1>2. SameImage
  BY DEF Mount, disk, rest, ram, SameImage, Image, ImageBm, ImageSb,
         MountIx, MountBm, MountSb, Pending, InShadow
<1>3. BootOk'
  BY DEF CInv, Mount, disk, rest, ram, BootOk, Replaying
<1>4. BlankOk'
  BY DEF CInv, Mount, disk, rest, ram, BlankOk
<1>5. Counted' /\ QuietOk' /\ StageOk' /\ OpenOk' /\ LandOk' /\ FlushOk'
  BY DEF CInv, Mount, disk, rest, ram, Counted, QuietOk, StageOk, OpenOk,
         LandOk, FlushOk, Opening, Clearing, Landing
<1>6. ClientOk'
  BY DEF CInv, Mount, disk, rest, ram, BootOk, ClientOk, NewIsPut, View,
         Opening, Target, Ordered
<1>7. RefsOk'
  BY DEF Mount, RefsOk, Running, Opening, Clearing
<1>8. NamesOk'
  BY <1>2, NamesKept, Fresh DEF CInv, BootOk, SameImage, InUndir, Mount, disk, rest, ram
<1> QED BY <1>1, <1>2, <1>3, <1>4, <1>5, <1>6, <1>7, <1>8, ImageKept DEF CInv, SameImage

LEMMA ReplaySbKeeps ==
    ASSUME CInv, ReplaySb
    PROVE  CInv' /\ Image' = Image
<1>0. jHdr # None /\ dSb # None /\ client = NoClient /\ ~InShadow
  BY DEF CInv, BootOk, ReplaySb, Replaying, InShadow
<1>1. dSb' \in Nat /\ dSb' # None
  BY <1>0, ImageIs, ImageCount DEF ReplaySb
<1>2. TypeOK'
  BY <1>1 DEF CInv, ReplaySb, rest, ram, TypeOK
<1>3. SameImage
  BY <1>0, <1>1 DEF ReplaySb, rest, ram, SameImage, Image, ImageBm, ImageSb,
         MountIx, MountBm, MountSb, Pending, InShadow
<1>4. BootOk' /\ BlankOk'
  BY <1>0, <1>1 DEF ReplaySb, rest, ram, BootOk, BlankOk, Replaying
<1>5. Counted' /\ QuietOk' /\ StageOk' /\ OpenOk' /\ LandOk' /\ FlushOk' /\ RefsOk'
  BY DEF CInv, ReplaySb, rest, ram, Counted, QuietOk, StageOk, OpenOk,
         LandOk, FlushOk, RefsOk, Opening, Clearing, Landing, Running
<1>6. ClientOk'
  BY <1>0, Fresh DEF ReplaySb, rest, ram, ClientOk
<1>7. NamesOk'
  BY <1>0, <1>3, NamesKept, Fresh DEF SameImage, InUndir, ReplaySb, rest
<1> QED BY <1>2, <1>3, <1>4, <1>5, <1>6, <1>7, ImageKept DEF CInv, SameImage

LEMMA ReplayBmKeeps ==
    ASSUME CInv, ReplayBm
    PROVE  CInv' /\ Image' = Image
<1>0. jHdr # None /\ dSb # None /\ client = NoClient /\ ~InShadow /\ dSb = jSb
  BY DEF CInv, BootOk, ReplayBm, Replaying, InShadow
<1>1. /\ dBm' = PutRow(dBm, jHdr.seg, jBm) /\ dBm' \in SUBSET Block
      /\ PutRow(dBm', jHdr.seg, jBm) = dBm'
  BY <1>0, Covered DEF ReplayBm, CInv
<1>2. TypeOK'
  BY <1>1 DEF CInv, ReplayBm, rest, ram, TypeOK
<1>3. SameImage
  BY <1>0, <1>1 DEF ReplayBm, rest, ram, SameImage, Image, ImageBm, ImageSb,
         MountIx, MountBm, MountSb, Pending, InShadow
<1>4. BootOk' /\ BlankOk'
  BY <1>0, <1>1 DEF ReplayBm, rest, ram, BootOk, BlankOk, Replaying, MountBm, Pending
<1>5. Counted' /\ QuietOk' /\ StageOk' /\ OpenOk' /\ LandOk' /\ FlushOk' /\ RefsOk'
  BY DEF CInv, ReplayBm, rest, ram, Counted, QuietOk, StageOk, OpenOk,
         LandOk, FlushOk, RefsOk, Opening, Clearing, Landing, Running
<1>6. ClientOk'
  BY <1>0, Fresh DEF ReplayBm, rest, ram, ClientOk
<1>7. NamesOk'
  BY <1>0, <1>3, NamesKept, Fresh DEF SameImage, InUndir, ReplayBm, rest
<1> QED BY <1>2, <1>3, <1>4, <1>5, <1>6, <1>7, ImageKept DEF CInv, SameImage

LEMMA ReplayIxKeeps ==
    ASSUME CInv, ReplayIx
    PROVE  CInv' /\ Image' = Image
<1>0. /\ jHdr # None /\ dSb # None /\ client = NoClient /\ ~InShadow
      /\ dSb = jSb /\ dBm = MountBm
  BY DEF CInv, BootOk, ReplayIx, Replaying, InShadow
<1>1. /\ dIx' = PutSec(dIx, jHdr.sec, jIx) /\ dIx' \in Index
      /\ PutSec(dIx', jHdr.sec, jIx) = dIx'
  BY <1>0, Covered DEF ReplayIx, CInv
<1>2. TypeOK'
  BY <1>1 DEF CInv, ReplayIx, rest, ram, TypeOK, Index
<1>3. SameImage
  BY <1>0, <1>1 DEF ReplayIx, rest, ram, SameImage, Image, ImageBm, ImageSb,
         MountIx, MountBm, MountSb, Pending, InShadow
<1>4. BootOk' /\ BlankOk'
  BY <1>0, <1>1 DEF ReplayIx, rest, ram, BootOk, BlankOk, Replaying,
         MountBm, MountIx, Pending
<1>5. Counted' /\ QuietOk' /\ StageOk' /\ OpenOk' /\ LandOk' /\ FlushOk' /\ RefsOk'
  BY DEF CInv, ReplayIx, rest, ram, Counted, QuietOk, StageOk, OpenOk,
         LandOk, FlushOk, RefsOk, Opening, Clearing, Landing, Running
<1>6. ClientOk'
  BY <1>0, Fresh DEF ReplayIx, rest, ram, ClientOk
<1>7. NamesOk'
  BY <1>0, <1>3, NamesKept, Fresh DEF SameImage, InUndir, ReplayIx, rest
<1> QED BY <1>2, <1>3, <1>4, <1>5, <1>6, <1>7, ImageKept DEF CInv, SameImage

LEMMA ReplayClearKeeps ==
    ASSUME CInv, ReplayClear
    PROVE  CInv' /\ Image' = Image
<1>0. /\ jHdr # None /\ dSb # None /\ client = NoClient /\ ~InShadow
      /\ dSb = jSb /\ dBm = MountBm /\ dIx = MountIx
  BY DEF CInv, BootOk, ReplayClear, Replaying, InShadow
<1>2. TypeOK'
  BY DEF CInv, ReplayClear, rest, ram, TypeOK
<1>3. SameImage
  BY <1>0 DEF ReplayClear, rest, ram, SameImage, Image, ImageBm, ImageSb,
         MountIx, MountBm, MountSb, Pending, InShadow
<1>4. BootOk' /\ BlankOk'
  BY <1>0 DEF ReplayClear, rest, ram, BootOk, BlankOk, Replaying
<1>5. Counted' /\ QuietOk' /\ StageOk' /\ OpenOk' /\ LandOk' /\ FlushOk' /\ RefsOk'
  BY DEF CInv, ReplayClear, rest, ram, Counted, QuietOk, StageOk, OpenOk,
         LandOk, FlushOk, RefsOk, Opening, Clearing, Landing, Running
<1>6. ClientOk'
  BY <1>0, Fresh DEF ReplayClear, rest, ram, ClientOk
<1>7. NamesOk'
  BY <1>0, <1>3, NamesKept, Fresh DEF SameImage, InUndir, ReplayClear, rest
<1> QED BY <1>2, <1>3, <1>4, <1>5, <1>6, <1>7, ImageKept DEF CInv, SameImage

\* cas_refs_rebuild: the count of a block is its one hash's names, or pinned.
LEMMA RebuiltIs ==
    ASSUME CInv, jHdr = None, NEW b \in Block
    PROVE  /\ Rebuilt(b) \in 0 .. Pin
           /\ b \notin dBm => Rebuilt(b) = 0
           /\ \A h \in Hash : Holds(dIx, h, b) =>
                 Rebuilt(b) = named[h] \/ Rebuilt(b) = Pin
<1>1. Volume(setting, dData, dBm, dIx) /\ setting \in Settings
  BY HomeIsVolume, Types DEF CInv
<1>2. \A h \in Hash : FindsBlock(dIx, h, b) <=> Holds(dIx, h, b)
  BY <1>1, Lookup
<1>3. \A n \in Nat : Capped(n) \in 0 .. Pin /\ (Capped(n) = n \/ Capped(n) = Pin)
  BY CasAssumption DEF Capped
<1>4. named \in [Hash -> Nat]
  BY DEF CInv, TypeOK
<1>5. CASE \E h \in Hash : FindsBlock(dIx, h, b)
  <2>1. PICK g \in Hash : /\ g = CHOOSE h \in Hash : FindsBlock(dIx, h, b)
                          /\ FindsBlock(dIx, g, b)
    BY <1>5
  <2>2. Rebuilt(b) = Capped(named[g])
    BY <1>5, <2>1 DEF Rebuilt
  <2>3. Holds(dIx, g, b) /\ b \in dBm
    BY <1>1, <1>2, <2>1, Unique
  <2>4. \A h \in Hash : Holds(dIx, h, b) => h = g
    BY <1>1, <2>3, Unique
  <2> QED BY <2>2, <2>3, <2>4, <1>3, <1>4
<1>6. CASE ~\E h \in Hash : FindsBlock(dIx, h, b)
  BY <1>2, <1>6, CasAssumption DEF Rebuilt
<1> QED BY <1>5, <1>6

LEMMA LoadKeeps ==
    ASSUME CInv, Load
    PROVE  CInv' /\ Image' = Image
<1>0. /\ jHdr = None /\ dSb # None /\ client = NoClient /\ step = "load"
      /\ bm' = dBm /\ used' = dSb /\ dirty' = {}
      /\ refs' = [b \in Block |-> Rebuilt(b)] /\ step' = "idle"
      /\ UNCHANGED <<setting, disk, txn, client>>
  BY DEF CInv, BootOk, Load
<1>1. ImageSb = dSb /\ ImageBm = dBm /\ Image = dIx /\ dSb = Cardinality(dBm)
  BY <1>0, ImageIs DEF CInv, ImageOk
<1>2. TypeOK'
  <2>1. refs' \in [Block -> 0 .. Pin]
    BY <1>0, RebuiltIs
  <2> QED BY <2>1, <1>0 DEF CInv, disk, TypeOK
<1>3. SameImage
  BY <1>0 DEF disk, SameImage, Image, ImageBm, ImageSb,
         MountIx, MountBm, MountSb, Pending, InShadow
<1>4. BootOk' /\ BlankOk' /\ Counted' /\ QuietOk'
  BY <1>0, <1>1 DEF disk, BootOk, BlankOk, Counted, QuietOk, Replaying
<1>5. StageOk' /\ OpenOk' /\ LandOk' /\ FlushOk'
  BY <1>0 DEF StageOk, OpenOk, LandOk, FlushOk, Opening, Clearing, Landing
<1>6. ClientOk'
  BY <1>0, Fresh DEF ClientOk
<1>7. RefsOk'
  <2>1. \A b \in Block : b \notin bm' => refs'[b] = 0
    BY <1>0, RebuiltIs
  <2>2. View' = dIx
    BY <1>0 DEF View, disk, Opening
  <2>3. \A h \in Hash : Owed(h)' = named[h]
    <3>1. \A h \in Hash : named[h] \in Nat
      BY DEF CInv, TypeOK
    <3> QED BY <3>1, <1>0, Fresh DEF Owed, disk
  <2>4. \A h \in Hash, b \in Block :
           Holds(dIx, h, b) => refs'[b] = named[h] \/ refs'[b] = Pin
    BY <1>0, RebuiltIs
  <2> QED BY <2>1, <2>2, <2>3, <2>4 DEF RefsOk
<1>8. NamesOk'
  BY <1>0, <1>3, NamesKept, Fresh DEF SameImage, InUndir, disk
<1> QED BY <1>2, <1>3, <1>4, <1>5, <1>6, <1>7, <1>8, ImageKept DEF CInv, SameImage

LEMMA FormatIndexKeeps ==
    ASSUME CInv, FormatIndex
    PROVE  CInv' /\ Image' = Image
<1>0. /\ dSb = None /\ dSb' = None /\ client = NoClient /\ client' = NoClient
      /\ dBm = {} /\ dIx = BlankIx /\ jHdr = None /\ jHdr' = None
      /\ dIx' = BlankIx /\ dBm' = {} /\ bm' = {} /\ used' = 0
      /\ named' = [h \in Hash |-> 0] /\ named' = named
      /\ refs' = [b \in Block |-> 0] /\ step' = "flushSb" /\ step = "fmtIx"
      /\ UNCHANGED <<setting, dData, txn>>
  BY DEF CInv, BootOk, BlankOk, FormatIndex
<1>1. TypeOK'
  <2>1. Empty \in Entry /\ dIx' \in [Sec -> [Off -> Entry]]
        /\ refs' \in [Block -> 0 .. Pin]
    BY <1>0, Fresh DEF Index, Entry
  <2>2. dirty' \in SUBSET Seg /\ jHdr' = None /\ jSb' = None /\ jBm' = {}
        /\ jIx' \in [Off -> Entry]
    BY <2>1 DEF FormatIndex
  <2> QED BY <1>0, <2>1, <2>2, CasAssumption DEF CInv, TypeOK
<1>2. SameImage
  BY <1>0 DEF SameImage, Image, ImageBm, ImageSb,
         MountIx, MountBm, MountSb, Pending, InShadow
<1>3. BootOk' /\ BlankOk' /\ QuietOk' /\ StageOk' /\ OpenOk' /\ LandOk' /\ FlushOk'
  BY <1>0, Fresh DEF BootOk, BlankOk, QuietOk, StageOk, OpenOk, LandOk, FlushOk,
         Replaying, Opening, Clearing, Landing
<1>4. Counted'
  BY <1>0, FS_EmptySet DEF Counted
<1>5. ClientOk'
  BY <1>0, Fresh DEF ClientOk
<1>6. RefsOk'
  <2>1. View' = BlankIx
    BY <1>0 DEF View, Opening
  <2> QED BY <2>1, <1>0, Blank DEF RefsOk
<1>7. NamesOk'
  BY <1>0, <1>2, NamesKept, Fresh DEF SameImage, InUndir
<1> QED BY <1>1, <1>2, <1>3, <1>4, <1>5, <1>6, <1>7, ImageKept DEF CInv, SameImage

-----------------------------------------------------------------------------
(* The file layer. *)

\* Between two writes the operations see home as it is.
LEMMA AtRest ==
    ASSUME CInv, step = "idle"
    PROVE  /\ jHdr = None /\ dSb # None /\ ~InShadow /\ ~Landing
           /\ bm = dBm /\ used = dSb /\ dirty = {}
           /\ Image = dIx /\ View = dIx
           /\ setting \in Settings /\ Volume(setting, dData, dBm, dIx)
           /\ \A h \in Hash : Absent(dIx, h) <=> ~Held(dIx, h)
           /\ \A h \in Hash, b \in Block : FindsBlock(dIx, h, b) <=> Holds(dIx, h, b)
           /\ client.pc # "commit" =>
                 \A h \in Hash : Ordered /\ named[h] > 0 => Held(dIx, h)
<1>1. /\ jHdr = None /\ dSb # None /\ ~InShadow /\ ~Landing
      /\ bm = dBm /\ used = dSb /\ dirty = {}
  BY DEF CInv, QuietOk, InShadow, Landing, Clearing
<1>2. Image = dIx /\ View = dIx
  BY <1>1, ImageIs DEF View, Opening
<1>3. setting \in Settings /\ Volume(setting, dData, dBm, dIx)
  BY <1>1, HomeIsVolume, Types DEF CInv
<1>4. client.pc # "commit" => \A h \in Hash : Ordered /\ named[h] > 0 => Held(dIx, h)
  BY <1>2 DEF CInv, NamesOk, InUndir
<1> QED BY <1>1, <1>2, <1>3, <1>4, Lookup

\* The parts of the invariant that say nothing between two operations.
LEMMA RestIsRest ==
    ASSUME CInv, step = "idle", step' = "idle",
           UNCHANGED <<disk, setting, bm, used, dirty, txn>>
    PROVE  /\ SameImage /\ BootOk' /\ BlankOk' /\ ImageOk' /\ Counted'
           /\ QuietOk' /\ StageOk' /\ OpenOk' /\ LandOk' /\ FlushOk'
           /\ View' = dIx /\ Image' = Image
<1>1. SameImage
  BY DEF disk, SameImage, Image, ImageBm, ImageSb, MountIx, MountBm, MountSb,
         Pending, InShadow
<1>2. BootOk' /\ BlankOk' /\ Counted' /\ QuietOk'
  BY DEF CInv, disk, BootOk, BlankOk, Counted, QuietOk, Replaying
<1>3. StageOk' /\ OpenOk' /\ LandOk' /\ FlushOk'
  BY DEF StageOk, OpenOk, LandOk, FlushOk, Opening, Clearing, Landing
<1>4. View' = dIx
  BY DEF View, Opening, disk
<1> QED BY <1>1, <1>2, <1>3, <1>4, ImageKept DEF SameImage

LEMMA BeginWriteKeeps ==
    ASSUME CInv, NEW new \in Hash \cup {None}, NEW old \in Hash \cup {None},
           BeginWrite(new, old)
    PROVE  CInv' /\ Image' = Image
<1>0. /\ step = "idle" /\ step' = "idle" /\ client = NoClient
      /\ UNCHANGED <<disk, setting, bm, used, dirty, refs, txn>>
      /\ new # None \/ old # None
      /\ old # None => named[old] > 0
      /\ client'.pc = IF new # None THEN "put" ELSE "drop"
      /\ client'.new = new /\ client'.old = old /\ client' \in Client
  BY DEF BeginWrite, Idle, ram, Client
<1>1. /\ SameImage /\ BootOk' /\ BlankOk' /\ ImageOk' /\ Counted'
      /\ QuietOk' /\ StageOk' /\ OpenOk' /\ LandOk' /\ FlushOk'
      /\ View' = dIx /\ Image' = Image
  BY <1>0, RestIsRest
<1>2. TypeOK'
  BY <1>0 DEF CInv, TypeOK, disk, Client
<1>3. ClientOk'
  BY <1>0 DEF BeginWrite, ClientOk, NewIsPut, disk, ram
<1>4. RefsOk'
  <2>1. View = dIx
    BY <1>0, AtRest
  <2>2. \A h \in Hash : Owed(h)' = Owed(h)
    BY <1>0, Fresh, CasAssumption DEF Owed, disk, CInv, TypeOK
  <2> QED BY <2>1, <2>2, <1>0, <1>1 DEF CInv, RefsOk, Running, Ordered
<1>5. NamesOk'
  BY <1>0, <1>1, NamesKept, Fresh DEF SameImage, InUndir, disk
<1> QED BY <1>1, <1>2, <1>3, <1>4, <1>5 DEF CInv

LEMMA BeginRawPutKeeps ==
    ASSUME CInv, NEW new \in Hash, BeginRawPut(new)
    PROVE  CInv' /\ Image' = Image
<1>0. /\ step = "idle" /\ step' = "idle" /\ client = NoClient
      /\ UNCHANGED <<disk, setting, bm, used, dirty, refs, txn>>
      /\ client'.pc = "rawput"
      /\ client'.new = new /\ client'.old = None /\ client' \in Client
      /\ new # None
  BY CasAssumption DEF BeginRawPut, Idle, ram, Client
<1>1. /\ SameImage /\ BootOk' /\ BlankOk' /\ ImageOk' /\ Counted'
      /\ QuietOk' /\ StageOk' /\ OpenOk' /\ LandOk' /\ FlushOk'
      /\ View' = dIx /\ Image' = Image
  BY <1>0, RestIsRest
<1>2. TypeOK'
  BY <1>0 DEF CInv, TypeOK, disk, Client
<1>3. ClientOk'
  BY <1>0 DEF ClientOk, NewIsPut
<1>4. RefsOk'
  <2>1. View = dIx
    BY <1>0, AtRest
  <2>2. \A h \in Hash : Owed(h)' = Owed(h)
    BY <1>0, Fresh, CasAssumption DEF Owed, disk, CInv, TypeOK
  <2> QED BY <2>1, <2>2, <1>0, <1>1 DEF CInv, RefsOk, Running, Ordered
<1>5. NamesOk'
  BY <1>0, <1>1, NamesKept, Fresh DEF SameImage, InUndir, disk
<1> QED BY <1>1, <1>2, <1>3, <1>4, <1>5 DEF CInv

LEMMA RetainKeeps ==
    ASSUME CInv, Retain
    PROVE  CInv' /\ Image' = Image
<1>0. /\ step = "idle" /\ step' = "idle" /\ client.pc = "retain"
      /\ UNCHANGED <<disk, setting, bm, used, dirty, txn>>
      /\ refs' = [b \in Block |-> IF FindsBlock(dIx, client.new, b)
                                  THEN Retained(refs[b]) ELSE refs[b]]
      /\ client' = Proceed /\ client.new # None /\ client.new \in Hash
  BY Types DEF Retain, CInv, ClientOk
<1>a. /\ client' \in Client /\ client'.new = client.new /\ client'.old = client.old
      /\ client'.pc = IF client.old = None THEN "commit" ELSE "drop"
  BY <1>0, ProceedIs DEF CInv
<1>1. /\ SameImage /\ BootOk' /\ BlankOk' /\ ImageOk' /\ Counted'
      /\ QuietOk' /\ StageOk' /\ OpenOk' /\ LandOk' /\ FlushOk'
      /\ View' = dIx /\ Image' = Image
  BY <1>0, RestIsRest
<1>b. /\ View = dIx /\ Volume(setting, dData, dBm, dIx) /\ bm = dBm
      /\ \A b \in Block : FindsBlock(dIx, client.new, b) <=> Holds(dIx, client.new, b)
  BY <1>0, AtRest
<1>c. /\ Pin \in Nat /\ refs \in [Block -> 0 .. Pin] /\ named \in [Hash -> Nat]
  BY CasAssumption DEF CInv, TypeOK
<1>d. \A r \in 0 .. Pin : /\ Retained(r) \in 0 .. Pin
                          /\ Retained(r) = r + 1 \/ (r = Pin /\ Retained(r) = Pin)
  BY <1>c DEF Retained
<1>2. TypeOK'
  <2>1. refs' \in [Block -> 0 .. Pin]
    BY <1>0, <1>c, <1>d
  <2> QED BY <2>1, <1>0, <1>a DEF CInv, TypeOK, disk, Client
<1>3. ClientOk'
  <2>1. Ordered => Held(dIx, client.new)
    BY <1>0, <1>b DEF CInv, ClientOk, NewIsPut
  <2> QED BY <2>1, <1>0, <1>1, <1>a DEF CInv, ClientOk, Ordered, disk
<1>4. RefsOk'
  <2>1. ASSUME NEW b \in Block, b \notin bm' PROVE refs'[b] = 0
    <3>1. ~Holds(dIx, client.new, b)
      BY <2>1, <1>0, <1>b, Unique
    <3> QED BY <2>1, <3>1, <1>0, <1>b DEF CInv, RefsOk, Running
  <2>2. ASSUME Ordered, NEW h \in Hash, NEW b \in Block, Holds(dIx, h, b)
        PROVE  refs'[b] = Owed(h)' \/ refs'[b] = Pin
    <3>1. refs[b] = Owed(h) \/ refs[b] = Pin
      BY <2>2, <1>0, <1>b DEF CInv, RefsOk, Running
    <3>2. Owed(h) = named[h] /\ named[h] \in Nat
      BY <1>0, <1>c DEF Owed
    <3>3. CASE h = client.new
      <4>1. Owed(h)' = named[h] + 1
        BY <3>2, <3>3, <1>0, <1>a DEF Owed, disk
      <4>2. refs'[b] = Retained(refs[b])
        BY <2>2, <3>3, <1>0, <1>b
      <4> QED BY <3>1, <3>2, <4>1, <4>2, <1>c, <1>d
    <3>4. CASE h # client.new
      <4>1. Owed(h)' = named[h]
        BY <3>2, <3>4, <1>0, <1>a, CasAssumption DEF Owed, disk
      <4>2. ~Holds(dIx, client.new, b)
        BY <2>2, <3>4, <1>0, <1>b, Unique
      <4>3. refs'[b] = refs[b]
        BY <4>2, <1>0, <1>b
      <4> QED BY <3>1, <3>2, <4>1, <4>3
    <3> QED BY <3>3, <3>4
  <2> QED BY <2>1, <2>2, <1>0, <1>1 DEF RefsOk, Ordered
<1>5. NamesOk'
  BY <1>0, <1>1, NamesKept DEF SameImage, InUndir, disk
<1> QED BY <1>1, <1>2, <1>3, <1>4, <1>5 DEF CInv

LEMMA CommitKeeps ==
    ASSUME CInv, Commit
    PROVE  CInv' /\ Image' = Image
<1>0. /\ step = "idle" /\ step' = "idle" /\ client.pc = "commit"
      /\ UNCHANGED <<setting, dSb, dBm, dIx, dData, jHdr, jSb, jBm, jIx,
                     bm, used, dirty, refs, txn>>
      /\ named' = [h \in Hash |->
                      (named[h] + (IF h = client.new THEN 1 ELSE 0))
                                - (IF h = client.old THEN 1 ELSE 0)]
      /\ client' = NoClient
  BY DEF Commit, ram
<1>a. /\ client.old # None => client.old \in Hash /\ named[client.old] > 0
      /\ client.new # None => client.new \in Hash
      /\ named \in [Hash -> Nat]
  BY Types DEF CInv, TypeOK, ClientOk
<1>b. \A h \in Hash : /\ named'[h] \in Nat
                      /\ Owed(h) = named'[h]
                      /\ Owed(h)' = named'[h]
  <2> SUFFICES ASSUME NEW h \in Hash
               PROVE  named'[h] \in Nat /\ Owed(h) = named'[h] /\ Owed(h)' = named'[h]
    OBVIOUS
  <2>1. named'[h] = (named[h] + (IF h = client.new THEN 1 ELSE 0))
                              - (IF h = client.old THEN 1 ELSE 0)
    BY <1>0
  <2>2. named[h] \in Nat /\ (h = client.old => named[h] > 0)
    BY <1>a, Types DEF CInv
  <2>3. named'[h] \in Nat
    BY <2>1, <2>2
  <2>4. Owed(h) = named'[h]
    BY <2>1, <1>0 DEF Owed
  <2>5. Owed(h)' = named'[h]
    BY <2>3, <1>0, Fresh DEF Owed
  <2> QED BY <2>3, <2>4, <2>5
<1>1. SameImage
  BY <1>0 DEF SameImage, Image, ImageBm, ImageSb, MountIx, MountBm, MountSb,
         Pending, InShadow
<1>c. /\ View = dIx /\ Image = dIx /\ View' = dIx /\ jHdr = None /\ dSb # None
      /\ bm = dBm /\ used = dSb /\ dirty = {}
  BY <1>0, AtRest DEF View, Opening
<1>2. TypeOK'
  <2>1. named' \in [Hash -> Nat]
    BY <1>0, <1>b
  <2> QED BY <2>1, <1>0, Fresh DEF CInv, TypeOK, Client
<1>3. BootOk' /\ BlankOk' /\ Counted' /\ QuietOk'
  BY <1>0, <1>c DEF CInv, BootOk, BlankOk, Counted, QuietOk, Replaying
<1>4. StageOk' /\ OpenOk' /\ LandOk' /\ FlushOk'
  BY <1>0 DEF StageOk, OpenOk, LandOk, FlushOk, Opening, Clearing, Landing
<1>5. ClientOk'
  BY <1>0, Fresh DEF ClientOk
<1>6. RefsOk'
  BY <1>0, <1>b, <1>c DEF CInv, RefsOk, Running, Ordered
<1>7. NamesOk'
  <2> SUFFICES ASSUME Ordered, NEW h \in Hash, named'[h] > 0
               PROVE  Held(dIx, h)
    BY <1>0, <1>1, <1>c DEF NamesOk, Ordered, SameImage
  <2>1. CASE h = client.new
    BY <2>1, <1>0, <1>a, <1>c, Types DEF CInv, ClientOk, NewIsPut
  <2>2. CASE h # client.new
    <3>1. named[h] > 0 /\ (h = client.old => named[h] # 1)
      BY <2>2, <1>0, <1>a
    <3> QED BY <3>1, <1>c DEF CInv, NamesOk
  <2> QED BY <2>1, <2>2
<1> QED BY <1>1, <1>2, <1>3, <1>4, <1>5, <1>6, <1>7, ImageKept DEF CInv, SameImage

-----------------------------------------------------------------------------
(* cas_put. *)

LEMMA PutDedupKeeps ==
    ASSUME CInv, PutDedup
    PROVE  CInv' /\ Image' = Image
<1>0. /\ step = "idle" /\ step' = "flushSb" /\ client.pc \in {"put", "rawput"}
      /\ UNCHANGED <<setting, disk, ram, txn>>
      /\ client' = Proceed /\ client.new \in Hash /\ ~Absent(dIx, client.new)
  BY Types DEF PutDedup, Putting, CInv, ClientOk
<1>a. /\ client' \in Client /\ client'.pc \in {"idle", "retain"}
      /\ client.pc = "rawput" => client' = NoClient
      /\ client.pc = "put" => /\ client'.pc = "retain" /\ client'.new = client.new
                              /\ client'.old = client.old
  BY <1>0, ProceedIs, Fresh DEF CInv
<1>b. /\ jHdr = None /\ dSb # None /\ View = dIx /\ Image = dIx
      /\ bm = dBm /\ used = dSb /\ Held(dIx, client.new)
  BY <1>0, AtRest
<1>1. TypeOK'
  BY <1>0, <1>a DEF CInv, TypeOK, disk, ram, Client
<1>2. SameImage /\ View' = dIx
  BY <1>0, <1>b DEF disk, SameImage, Image, ImageBm, ImageSb,
         MountIx, MountBm, MountSb, Pending, InShadow, View, Opening
<1>3. BootOk' /\ BlankOk' /\ Counted'
  BY <1>0, <1>b DEF CInv, BootOk, BlankOk, Counted, Replaying, disk, ram
<1>4. QuietOk' /\ StageOk' /\ OpenOk' /\ LandOk' /\ FlushOk'
  BY <1>0, <1>a, <1>b DEF QuietOk, StageOk, OpenOk, LandOk, FlushOk,
         Opening, Clearing, Landing, disk, ram
<1>5. ClientOk'
  BY <1>0, <1>a, <1>b, <1>2, Fresh DEF CInv, ClientOk, Ordered, disk
<1>6. RefsOk'
  <2>1. \A h \in Hash : Owed(h)' = Owed(h)
    BY <1>0, <1>a, Fresh DEF Owed, disk, CInv, TypeOK
  <2> QED BY <2>1, <1>0, <1>b, <1>2 DEF CInv, RefsOk, Running, Clearing, Ordered, ram
<1>7. NamesOk'
  BY <1>0, <1>2, NamesKept DEF SameImage, InUndir, disk
<1> QED BY <1>1, <1>2, <1>3, <1>4, <1>5, <1>6, <1>7, ImageKept DEF CInv, SameImage

LEMMA PutVolumeFullKeeps ==
    ASSUME CInv, PutVolumeFull
    PROVE  CInv' /\ Image' = Image
<1>0. /\ step = "idle" /\ step' = "idle" /\ client.pc \in {"put", "rawput"}
      /\ UNCHANGED <<disk, setting, bm, used, dirty, refs, txn>>
      /\ client' = NoClient
  BY DEF PutVolumeFull, Putting, ram
<1>1. /\ SameImage /\ BootOk' /\ BlankOk' /\ ImageOk' /\ Counted'
      /\ QuietOk' /\ StageOk' /\ OpenOk' /\ LandOk' /\ FlushOk'
      /\ View' = dIx /\ Image' = Image
  BY <1>0, RestIsRest
<1>2. TypeOK'
  BY <1>0, Fresh DEF CInv, TypeOK, disk, Client
<1>3. ClientOk'
  BY <1>0, Fresh DEF ClientOk
<1>4. RefsOk'
  <2>1. View = dIx
    BY <1>0, AtRest
  <2>2. \A h \in Hash : Owed(h)' = Owed(h)
    BY <1>0, Fresh DEF Owed, disk, CInv, TypeOK
  <2> QED BY <2>1, <2>2, <1>0, <1>1 DEF CInv, RefsOk, Running, Ordered
<1>5. NamesOk'
  BY <1>0, <1>1, NamesKept DEF SameImage, InUndir, disk
<1> QED BY <1>1, <1>2, <1>3, <1>4, <1>5 DEF CInv

LEMMA PutDataKeeps ==
    ASSUME CInv, PutData
    PROVE  CInv' /\ Image' = Image
<1>0. /\ step = "idle" /\ client.pc \in {"put", "rawput"} /\ client.new \in Hash
      /\ Absent(dIx, client.new)
  BY Types DEF PutData, Putting, CInv, ClientOk
<1>1. PICK b \in Block :
         /\ FirstFree(bm, b)
         /\ bm' = bm \cup {b} /\ used' = used + 1 /\ dirty' = MarkDirty(b[1])
         /\ dData' = [dData EXCEPT ![b] = client.new]
         /\ txn' = [NoTxn EXCEPT !.kind = "put", !.hash = client.new, !.block = b]
  BY DEF PutData
<1>2. /\ step' = "stage"
      /\ UNCHANGED <<setting, dSb, dBm, dIx, jHdr, jSb, jBm, jIx, named, refs, client>>
  BY DEF PutData
<1>3. /\ jHdr = None /\ dSb # None /\ bm = dBm /\ used = dSb /\ dirty = {}
      /\ View = dIx /\ Image = dIx /\ ~Held(dIx, client.new)
      /\ Volume(setting, dData, dBm, dIx) /\ used \in Nat /\ b[1] \in Seg
      /\ dData \in [Block -> Hash \cup {None}] /\ dBm \in SUBSET Block
  <2>1. b[1] \in Seg
    BY DEF Block
  <2> QED BY <2>1, <1>0, AtRest, Types DEF CInv, TypeOK
<1>4. b \notin bm
  BY <1>1 DEF FirstFree
<1>5. /\ txn' \in Txn /\ txn'.kind = "put" /\ txn'.hash = client.new
      /\ txn'.block = b
  BY <1>0, <1>1, Fresh DEF Txn
<1>6. /\ Image' = dIx /\ View' = dIx
      /\ ImageBm' = dBm /\ ImageBm = dBm /\ ImageSb' = dSb /\ ImageSb = dSb
  BY <1>0, <1>2, <1>3 DEF Image, ImageBm, ImageSb, MountIx, MountBm, MountSb,
         Pending, InShadow, View, Opening
<1>7. TypeOK'
  <2>1. dData' \in [Block -> Hash \cup {None}]
    BY <1>0, <1>1, <1>3
  <2>2. used' \in Nat /\ bm' \in SUBSET Block /\ dirty' \in SUBSET Seg
    BY <1>1, <1>3 DEF MarkDirty
  <2> QED BY <2>1, <2>2, <1>2, <1>5 DEF CInv, TypeOK, Txn
<1>8. ImageOk'
  <2>1. Volume(setting, dData', dBm, dIx)
    BY <1>1, <1>3, <1>4, Elsewhere
  <2> QED BY <2>1, <1>2, <1>6 DEF CInv, ImageOk
<1>9. BootOk' /\ BlankOk' /\ QuietOk' /\ OpenOk' /\ LandOk' /\ FlushOk'
  BY <1>2, <1>3 DEF BootOk, BlankOk, QuietOk, OpenOk, LandOk, FlushOk,
         Replaying, Opening, Clearing, Landing
<1>10. Counted'
  BY <1>1, <1>3, <1>4, CountOne DEF CInv, Counted
<1>11. StageOk'
  <2>1. refs[b] = 0
    BY <1>0, <1>4 DEF CInv, RefsOk, Running
  <2>2. dData'[b] = client.new
    BY <1>1, <1>3
  <2> QED BY <2>1, <2>2, <1>0, <1>1, <1>2, <1>3, <1>4, <1>5 DEF StageOk, MarkDirty
<1>12. ClientOk'
  BY <1>0, <1>2, <1>3, <1>6 DEF CInv, ClientOk, NewIsPut, Ordered
<1>13. RefsOk'
  <2>1. \A h \in Hash : Owed(h)' = Owed(h)
    BY <1>2 DEF Owed
  <2> QED BY <2>1, <1>0, <1>1, <1>2, <1>3, <1>6 DEF CInv, RefsOk, Running, Ordered
<1>14. NamesOk'
  BY <1>0, <1>2, <1>3, <1>6, NamesKept DEF InUndir
<1> QED BY <1>3, <1>6, <1>7, <1>8, <1>9, <1>10, <1>11, <1>12, <1>13, <1>14 DEF CInv

LEMMA StageFacts ==
    ASSUME CInv, step = "stage"
    PROVE  /\ jHdr = None /\ dSb # None /\ ~InShadow /\ ~InUndir
           /\ Image = dIx /\ View = dIx /\ ImageBm = dBm /\ ImageSb = dSb
           /\ Volume(setting, dData, dBm, dIx) /\ setting \in Settings
           /\ txn.hash = client.new /\ client.new \in Hash /\ txn.block \in Block
           /\ client.pc \in {"put", "rawput"}
           /\ txn.block \notin dBm /\ dBm \in SUBSET Block
           /\ bm = dBm \cup {txn.block} /\ used = dSb + 1 /\ dSb \in Nat
           /\ dirty = {txn.block[1]} /\ ~Held(dIx, txn.hash)
           /\ dData[txn.block] = txn.hash /\ refs[txn.block] = 0
<1>1. /\ jHdr = None /\ dSb # None /\ txn.hash = client.new
      /\ client.pc \in {"put", "rawput"}
      /\ txn.block \notin dBm /\ bm = dBm \cup {txn.block}
      /\ used = dSb + 1 /\ dirty = {txn.block[1]} /\ ~Held(dIx, txn.hash)
      /\ dData[txn.block] = txn.hash /\ refs[txn.block] = 0
  BY DEF CInv, StageOk
<1>2. client.new \in Hash /\ txn.block \in Block /\ dSb \in Nat /\ dBm \in SUBSET Block
      /\ setting \in Settings
  BY <1>1, Types DEF CInv, ClientOk, TypeOK
<1>3. ~InShadow /\ ~InUndir /\ View = dIx
  BY <1>1 DEF InShadow, InUndir, View, Opening
<1> QED BY <1>1, <1>2, <1>3, ImageIs, HomeIsVolume

LEMMA PutStageKeeps ==
    ASSUME CInv, PutStage
    PROVE  CInv' /\ Image' = Image
<1>0. step = "stage" /\ step' = "jHdr" /\ UNCHANGED <<setting, disk, ram, client>>
  BY DEF PutStage
<1>1. PICK i \in Probes :
         /\ StageAt(dIx, txn.hash, i)
         /\ txn' = [txn EXCEPT
                       !.sec = setting.probe[txn.hash][i][1],
                       !.buf = Staged(dIx, txn.hash, i,
                                      [hash |-> txn.hash, block |-> txn.block])]
  BY DEF PutStage
<1>2. /\ jHdr = None /\ dSb # None /\ ~InUndir
      /\ Image = dIx /\ View = dIx
      /\ Volume(setting, dData, dBm, dIx) /\ setting \in Settings
      /\ txn.hash = client.new /\ client.new \in Hash /\ txn.block \in Block
      /\ client.pc \in {"put", "rawput"}
      /\ txn.block \notin dBm /\ dBm \in SUBSET Block
      /\ bm = dBm \cup {txn.block}
      /\ dirty = {txn.block[1]} /\ ~Held(dIx, txn.hash)
      /\ dData[txn.block] = txn.hash /\ refs[txn.block] = 0
  BY <1>0, StageFacts
<1>3. /\ i \in Steps(setting) /\ setting.probe[txn.hash][i] \in Place
      /\ \A j \in 0 .. i - 1 : j \in Steps(setting)
      /\ \A j \in Probes : Slot(dIx, txn.hash, j) = At(dIx, setting.probe[txn.hash][j])
  BY <1>2, SettingFacts DEF Probes, Steps, Slot, At
<1>4. ~Live(dIx, setting.probe[txn.hash][i])
  BY <1>1, <1>3, EntryFacts DEF StageAt, Live
<1>5. \A j \in 0 .. i - 1 : At(dIx, setting.probe[txn.hash][j]) # Empty
  <2> SUFFICES ASSUME NEW j \in 0 .. i - 1
               PROVE  At(dIx, setting.probe[txn.hash][j]) # Empty
    OBVIOUS
  <2>1. j \in 0 .. i /\ j \in Probes
    BY <1>3 DEF Probes, Steps
  <2>2. Slot(dIx, txn.hash, j) # Empty
    BY <2>1, <1>1 DEF StageAt, Chain
  <2> QED BY <2>1, <2>2, <1>3
<1>6. PICK n : n = WithSlot(dIx, setting.probe[txn.hash][i],
                        Ent(txn.hash, txn.block))
  OBVIOUS
<1>7. /\ Volume(setting, dData, bm, n)
      /\ \A g \in Hash, c \in Block :
            Holds(n, g, c) <=> Holds(dIx, g, c) \/ (g = txn.hash /\ c = txn.block)
  <2>1. txn.hash \in Hash
    BY <1>2
  <2>2. /\ Volume(setting, dData, dBm \cup {txn.block}, n)
        /\ \A g \in Hash, c \in Block :
              Holds(n, g, c) <=> Holds(dIx, g, c) \/ (g = txn.hash /\ c = txn.block)
    <3>1. PICK h \in Hash, b \in Block : h = txn.hash /\ b = txn.block
      BY <2>1, <1>2
    <3>2. /\ ~Held(dIx, h) /\ b \notin dBm /\ dData[b] = h
          /\ CanTake(setting, dIx, h, i)
          /\ n = WithSlot(dIx, setting.probe[h][i], Ent(h, b))
      BY <3>1, <1>2, <1>4, <1>5, <1>6 DEF CanTake
    <3>3. /\ setting \in Settings /\ Volume(setting, dData, dBm, dIx)
          /\ i \in Steps(setting)
      BY <1>2, <1>3
    <3>4. /\ Volume(setting, dData, dBm \cup {b}, n)
          /\ \A g \in Hash, c \in Block :
                Holds(n, g, c) <=> Holds(dIx, g, c) \/ (g = h /\ c = b)
      BY <3>2, <3>3, Insert
    <3> QED BY <3>1, <3>4
  <2> QED BY <2>2, <1>2
<1>8. /\ txn' \in Txn /\ txn'.hash = txn.hash /\ txn'.block = txn.block
      /\ n = PutSec(dIx, txn'.sec, txn'.buf)
  <2>1. txn \in Txn /\ dIx \in Index
    BY Types DEF CInv
  <2>2. /\ setting.probe[txn.hash][i][1] \in Sec
        /\ Staged(dIx, txn.hash, i, [hash |-> txn.hash, block |-> txn.block])
              \in [Off -> Entry]
    BY <2>1, <1>2, <1>3, EntryFacts DEF Staged, Place, Index, Ent
  <2> QED BY <2>1, <2>2, <1>1, <1>6 DEF Txn, Staged, Ent, WithSlot
<1>9. Target' = n /\ View' = n
  BY <1>0, <1>8 DEF Target, View, Opening, disk
<1>10. TypeOK'
  BY <1>0, <1>8 DEF CInv, TypeOK, Txn, disk, ram
<1>11. SameImage
  BY <1>0 DEF disk, SameImage, Image, ImageBm, ImageSb,
         MountIx, MountBm, MountSb, Pending, InShadow
<1>12. BootOk' /\ BlankOk' /\ Counted' /\ QuietOk' /\ StageOk' /\ LandOk' /\ FlushOk'
  BY <1>0, <1>2 DEF CInv, BootOk, BlankOk, Counted, QuietOk, StageOk, LandOk,
         FlushOk, Replaying, Clearing, Landing, disk, ram
<1>13. \A h \in Hash : Held(n, h) <=> (Held(dIx, h) \/ h = txn.hash)
  BY <1>2, <1>7 DEF Held
<1>14. OpenOk'
  <2>1. PutRow(dBm, txn.block[1], Row(bm, txn.block[1])) = bm
    BY <1>2, PatchOne
  <2>2. PutOk'
    BY <1>0, <1>2, <1>8, <1>9, <1>13 DEF PutOk, disk
  <2> QED BY <2>1, <2>2, <1>0, <1>2, <1>7, <1>8, <1>9 DEF OpenOk, disk, ram
<1>15. ClientOk'
  BY <1>0, <1>2, <1>9, <1>13 DEF CInv, ClientOk, Ordered, disk
<1>16. RefsOk'
  <2>1. \A h \in Hash : Owed(h)' = Owed(h)
    BY <1>0 DEF Owed, disk
  <2>2. Ordered => Owed(txn.hash) = 0
    <3>1. Ordered => ~(named[txn.hash] > 0)
      BY <1>2 DEF CInv, NamesOk
    <3>2. named[txn.hash] \in Nat
      BY <1>2 DEF CInv, TypeOK
    <3> QED BY <3>1, <3>2, <1>2 DEF Owed
  <2>3. ASSUME Ordered, NEW h \in Hash, NEW b \in Block, Holds(n, h, b)
        PROVE  refs[b] = Owed(h) \/ refs[b] = Pin
    <3>1. CASE Holds(dIx, h, b)
      BY <3>1, <2>3, <1>0, <1>2 DEF CInv, RefsOk, Running
    <3>2. CASE h = txn.hash /\ b = txn.block
      BY <3>2, <2>2, <2>3, <1>2
    <3> QED BY <3>1, <3>2, <2>3, <1>7
  <2> QED BY <2>1, <2>3, <1>0, <1>9 DEF CInv, RefsOk, Running, Ordered, ram, Opening
<1>17. NamesOk'
  BY <1>0, <1>2, <1>11, NamesKept DEF SameImage, disk
<1> QED BY <1>10, <1>11, <1>12, <1>14, <1>15, <1>16, <1>17, ImageKept DEF CInv, SameImage

LEMMA PutIndexFullKeeps ==
    ASSUME CInv, PutIndexFull
    PROVE  CInv' /\ Image' = Image
<1>0. /\ step = "stage" /\ step' = "flushSb"
      /\ bm' = bm \ {txn.block} /\ used' = used - 1
      /\ dirty' = MarkDirty(txn.block[1])
      /\ txn' = NoTxn /\ client' = NoClient
      /\ UNCHANGED <<setting, disk, refs>>
  BY DEF PutIndexFull
<1>1. /\ jHdr = None /\ dSb # None /\ ~InUndir
      /\ Image = dIx /\ View = dIx
      /\ client.pc \in {"put", "rawput"} /\ txn.block \in Block
      /\ txn.block \notin dBm /\ dBm \in SUBSET Block
      /\ bm = dBm \cup {txn.block} /\ used = dSb + 1 /\ dSb \in Nat
      /\ refs[txn.block] = 0
  BY <1>0, StageFacts
<1>2. bm' = dBm /\ used' = dSb
  BY <1>0, <1>1
<1>3. TypeOK'
  <2>1. txn.block[1] \in Seg /\ dirty' \in SUBSET Seg
    BY <1>0, Types DEF CInv, TypeOK, MarkDirty
  <2> QED BY <2>1, <1>0, <1>1, <1>2, Fresh DEF CInv, TypeOK, Txn, Client, disk
<1>4. SameImage /\ View' = dIx
  BY <1>0 DEF disk, SameImage, Image, ImageBm, ImageSb,
         MountIx, MountBm, MountSb, Pending, InShadow, View, Opening
<1>5. Counted'
  <2>1. Cardinality(dBm \cup {txn.block}) = Cardinality(dBm) + 1
    BY <1>1, CountOne
  <2>2. Cardinality(dBm) \in Nat
    BY <1>1, BlocksFinite
  <2> QED BY <2>1, <2>2, <1>1, <1>2 DEF CInv, Counted
<1>6. BootOk' /\ BlankOk' /\ QuietOk' /\ StageOk' /\ OpenOk' /\ LandOk'
  BY <1>0, <1>1 DEF BootOk, BlankOk, QuietOk, StageOk, OpenOk, LandOk,
         Replaying, Opening, Clearing, Landing, disk
<1>7. FlushOk'
  BY <1>0, <1>1, <1>2, Fresh DEF FlushOk, disk
<1>8. ClientOk'
  BY <1>0, Fresh DEF ClientOk
<1>9. RefsOk'
  <2>1. \A h \in Hash : Owed(h)' = Owed(h)
    BY <1>0, <1>1, Fresh DEF Owed, disk, CInv, TypeOK
  <2> QED BY <2>1, <1>0, <1>1, <1>2, <1>4 DEF CInv, RefsOk, Running, Ordered, Clearing
<1>10. NamesOk'
  BY <1>0, <1>1, <1>4, NamesKept DEF SameImage, disk
<1> QED BY <1>3, <1>4, <1>5, <1>6, <1>7, <1>8, <1>9, <1>10, ImageKept DEF CInv, SameImage

-----------------------------------------------------------------------------
(* cas_free. *)

\* At a release: the block found is the one of the released hash, and, as long
\* as no name was lost, its count is what the names and this write owe it.
LEMMA FreeFacts ==
    ASSUME CInv, step = "idle", client.pc = "drop"
    PROVE  /\ client.old \in Hash /\ named[client.old] > 0
           /\ named \in [Hash -> Nat] /\ refs \in [Block -> 0 .. Pin]
           /\ Pin \in Nat \ {0}
           /\ Proceed \in Client /\ Proceed.pc = "commit"
           /\ Proceed.new = client.new /\ Proceed.old = client.old
           /\ Ordered => Held(dIx, client.old)
           /\ \A b \in Block :
                 (Ordered /\ Holds(dIx, client.old, b)) =>
                    refs[b] = Owed(client.old) \/ refs[b] = Pin
           /\ \A h \in Hash : Owed(h) = named[h] + (IF client.new = h THEN 1 ELSE 0)
<1>1. client.old \in Hash /\ named[client.old] > 0
  BY Types DEF CInv, ClientOk
<1>2. named \in [Hash -> Nat] /\ refs \in [Block -> 0 .. Pin] /\ Pin \in Nat \ {0}
  BY CasAssumption DEF CInv, TypeOK
<1>3. Ordered => Held(dIx, client.old)
  BY <1>1, AtRest
<1>4. \A b \in Block : (Ordered /\ Holds(dIx, client.old, b)) =>
                          refs[b] = Owed(client.old) \/ refs[b] = Pin
  BY <1>1, AtRest DEF CInv, RefsOk, Running
<1>5. \A h \in Hash : Owed(h) = named[h] + (IF client.new = h THEN 1 ELSE 0)
  BY <1>2 DEF Owed
<1>6. /\ Proceed \in Client /\ Proceed.pc = "commit"
      /\ Proceed.new = client.new /\ Proceed.old = client.old
  BY ProceedIs DEF CInv
<1> QED BY <1>1, <1>2, <1>3, <1>4, <1>5, <1>6

LEMMA FreeRefusedKeeps ==
    ASSUME CInv, FreeRefused
    PROVE  CInv' /\ Image' = Image
<1>0. /\ step = "idle" /\ step' = "idle" /\ client.pc = "drop"
      /\ UNCHANGED <<disk, setting, bm, used, dirty, refs, txn>>
      /\ client' = Proceed
      /\ \/ Absent(dIx, client.old)
         \/ \E b \in Block : FindsBlock(dIx, client.old, b) /\ refs[b] = 0
  BY DEF FreeRefused, Freeing, ram
<1>a. /\ client.old \in Hash /\ named[client.old] > 0
      /\ named \in [Hash -> Nat] /\ refs \in [Block -> 0 .. Pin]
      /\ Pin \in Nat \ {0}
      /\ client' \in Client /\ client'.pc = "commit"
      /\ client'.new = client.new /\ client'.old = client.old
  BY <1>0, FreeFacts
<1>1. ~Ordered
  <2> SUFFICES ASSUME Ordered PROVE FALSE
    OBVIOUS
  <2>1. ~Absent(dIx, client.old)
    BY <1>0, <1>a, FreeFacts, AtRest
  <2>2. PICK b \in Block : Holds(dIx, client.old, b) /\ refs[b] = 0
    BY <2>1, <1>0, <1>a, AtRest
  <2>3. refs[b] = Owed(client.old) \/ refs[b] = Pin
    BY <2>2, <1>0, FreeFacts
  <2>4. Owed(client.old) = named[client.old] + (IF client.new = client.old THEN 1 ELSE 0)
    BY <1>0, <1>a, FreeFacts
  <2>5. named[client.old] \in Nat
    BY <1>a
  <2> QED BY <2>2, <2>3, <2>4, <2>5, <1>a
<1>2. /\ SameImage /\ BootOk' /\ BlankOk' /\ ImageOk' /\ Counted'
      /\ QuietOk' /\ StageOk' /\ OpenOk' /\ LandOk' /\ FlushOk'
      /\ View' = dIx /\ Image' = Image
  BY <1>0, RestIsRest
<1>3. TypeOK'
  BY <1>0, <1>a DEF CInv, TypeOK, disk, Client
<1>4. ClientOk'
  BY <1>0, <1>1, <1>a DEF ClientOk, Ordered, disk
<1>5. RefsOk'
  BY <1>0, <1>1 DEF CInv, RefsOk, Running, Ordered
<1>6. NamesOk'
  BY <1>0, <1>1 DEF NamesOk, Ordered
<1> QED BY <1>2, <1>3, <1>4, <1>5, <1>6 DEF CInv

LEMMA FreeSharedKeeps ==
    ASSUME CInv, FreeShared
    PROVE  CInv' /\ Image' = Image
<1>0. /\ step = "idle" /\ step' = "idle" /\ client.pc = "drop"
      /\ UNCHANGED <<disk, setting, bm, used, dirty, txn>>
      /\ client' = Proceed
  BY DEF FreeShared, Freeing
<1>1. PICK b \in Block : /\ FindsBlock(dIx, client.old, b)
                         /\ refs[b] > 0 /\ ~IsLast(refs[b])
                         /\ refs' = [refs EXCEPT ![b] = Released(@)]
  BY DEF FreeShared
<1>a. /\ client.old \in Hash /\ named[client.old] > 0
      /\ named \in [Hash -> Nat] /\ refs \in [Block -> 0 .. Pin]
      /\ Pin \in Nat \ {0}
      /\ client' \in Client /\ client'.pc = "commit"
      /\ client'.new = client.new /\ client'.old = client.old
  BY <1>0, FreeFacts
<1>b. /\ View = dIx /\ Volume(setting, dData, dBm, dIx) /\ bm = dBm
      /\ Holds(dIx, client.old, b)
  BY <1>0, <1>1, <1>a, AtRest
<1>2. /\ SameImage /\ BootOk' /\ BlankOk' /\ ImageOk' /\ Counted'
      /\ QuietOk' /\ StageOk' /\ OpenOk' /\ LandOk' /\ FlushOk'
      /\ View' = dIx /\ Image' = Image
  BY <1>0, RestIsRest
<1>3. /\ Released(refs[b]) \in 0 .. Pin
      /\ refs[b] = Pin => Released(refs[b]) = Pin
      /\ refs[b] # Pin => Released(refs[b]) = refs[b] - 1
      /\ refs'[b] = Released(refs[b])
      /\ \A c \in Block : c # b => refs'[c] = refs[c]
      /\ refs' \in [Block -> 0 .. Pin]
  <2>1. refs[b] \in 0 .. Pin
    BY <1>a
  <2>2. Released(refs[b]) \in 0 .. Pin
    BY <2>1, <1>1, <1>a DEF Released
  <2> QED BY <2>1, <2>2, <1>1, <1>a DEF Released
<1>4. TypeOK'
  BY <1>0, <1>a, <1>3 DEF CInv, TypeOK, disk, Client
<1>5. ClientOk'
  BY <1>0, <1>a, <1>b, <1>2 DEF CInv, ClientOk, NewIsPut, Ordered, disk
<1>6. RefsOk'
  <2>1. ASSUME NEW c \in Block, c \notin bm' PROVE refs'[c] = 0
    <3>1. c # b
      BY <2>1, <1>0, <1>a, <1>b, Unique
    <3> QED BY <2>1, <3>1, <1>0, <1>3 DEF CInv, RefsOk, Running
  <2>2. ASSUME Ordered, NEW h \in Hash, NEW c \in Block, Holds(dIx, h, c)
        PROVE  refs'[c] = Owed(h)' \/ refs'[c] = Pin
    <3>1. refs[c] = Owed(h) \/ refs[c] = Pin
      BY <2>2, <1>0, <1>b DEF CInv, RefsOk, Running
    <3>2. /\ Owed(h) = named[h] + (IF client.new = h THEN 1 ELSE 0)
          /\ named[h] \in Nat
      BY <1>0, <1>a, FreeFacts
    <3>3. Owed(h)' = (named[h] + (IF client.new = h THEN 1 ELSE 0))
                               - (IF client.old = h THEN 1 ELSE 0)
      BY <1>0, <1>a DEF Owed, disk
    <3>4. CASE h = client.old
      <4>1. c = b
        BY <2>2, <3>4, <1>a, <1>b, Unique
      <4>2. Owed(h)' = Owed(h) - 1
        BY <3>2, <3>3, <3>4, <1>a
      <4> QED BY <4>1, <4>2, <3>1, <1>3
    <3>5. CASE h # client.old
      <4>1. c # b
        BY <2>2, <3>5, <1>a, <1>b, Unique
      <4>2. Owed(h)' = Owed(h)
        BY <3>2, <3>3, <3>5
      <4> QED BY <4>1, <4>2, <3>1, <1>3
    <3> QED BY <3>4, <3>5
  <2> QED BY <2>1, <2>2, <1>0, <1>2 DEF RefsOk, Ordered
<1>7. NamesOk'
  BY <1>0, <1>2, NamesKept DEF SameImage, InUndir, disk
<1> QED BY <1>2, <1>4, <1>5, <1>6, <1>7 DEF CInv

LEMMA FreeLastKeeps ==
    ASSUME CInv, FreeLast
    PROVE  CInv' /\ Image' = Image
<1>0. /\ step = "idle" /\ step' = "jHdr" /\ client.pc = "drop"
      /\ UNCHANGED <<setting, disk, client>>
  BY DEF FreeLast, Freeing
<1>1. PICK b \in Block, i \in Probes :
         /\ FirstHit(dIx, client.old, i) /\ Slot(dIx, client.old, i).block = b
         /\ refs[b] > 0 /\ IsLast(refs[b])
         /\ refs' = [refs EXCEPT ![b] = Released(@)]
         /\ txn' = [kind |-> "free", hash |-> client.old, block |-> b,
                    sec |-> setting.probe[client.old][i][1],
                    buf |-> Staged(dIx, client.old, i, Removed)]
         /\ bm' = bm \ {b} /\ used' = used - 1 /\ dirty' = MarkDirty(b[1])
  BY DEF FreeLast
<1>a. /\ client.old \in Hash /\ named[client.old] > 0
      /\ named \in [Hash -> Nat] /\ refs \in [Block -> 0 .. Pin]
      /\ Pin \in Nat \ {0}
      /\ Ordered => Held(dIx, client.old)
  BY <1>0, FreeFacts
<1>b. /\ jHdr = None /\ dSb # None /\ View = dIx /\ Image = dIx
      /\ bm = dBm /\ used = dSb /\ dirty = {}
      /\ setting \in Settings /\ Volume(setting, dData, dBm, dIx)
      /\ dBm \in SUBSET Block /\ dIx \in Index
  BY <1>0, AtRest, Types DEF CInv
<1>2. PICK p : p = setting.probe[client.old][i]
  OBVIOUS
<1>3. p \in Place /\ At(dIx, p) = Ent(client.old, b)
  <2>1. p \in Place
    BY <1>2, <1>a, <1>b, SettingFacts DEF Probes, Steps
  <2>2. At(dIx, setting.probe[client.old][i]) = Ent(client.old, Slot(dIx, client.old, i).block)
    BY <1>1, <1>a, <1>b, Lookup
  <2> QED BY <2>1, <2>2, <1>1, <1>2
<1>4. Holds(dIx, client.old, b) /\ b \in dBm
  BY <1>3, <1>a, <1>b, Unique DEF Holds
<1>5. PICK n : n = WithSlot(dIx, p, Removed)
  OBVIOUS
<1>6. /\ Volume(setting, dData, dBm \ {b}, n)
      /\ \A g \in Hash, c \in Block :
            Holds(n, g, c) <=> Holds(dIx, g, c) /\ g # client.old
  <2>1. PICK h \in Hash : h = client.old
    BY <1>a
  <2>2. At(dIx, p) = Ent(h, b) /\ p \in Place
    BY <2>1, <1>3
  <2>3. setting \in Settings /\ Volume(setting, dData, dBm, dIx)
    BY <1>b
  <2>4. /\ Volume(setting, dData, dBm \ {b}, n)
        /\ \A g \in Hash, c \in Block :
              Holds(n, g, c) <=> Holds(dIx, g, c) /\ g # h
    BY <2>2, <2>3, <1>5, Delete
  <2> QED BY <2>1, <2>4
<1>7. /\ txn' \in Txn /\ txn'.hash = client.old /\ txn'.block = b
      /\ n = PutSec(dIx, txn'.sec, txn'.buf)
  <2>1. p[1] \in Sec /\ p[2] \in Off
    BY <1>3 DEF Place
  <2>2. Staged(dIx, client.old, i, Removed) = [dIx[p[1]] EXCEPT ![p[2]] = Removed]
    BY <1>2 DEF Staged
  <2>3. Staged(dIx, client.old, i, Removed) \in [Off -> Entry]
    BY <2>1, <2>2, <1>b, EntryFacts DEF Index, Removed
  <2> QED BY <2>1, <2>2, <2>3, <1>1, <1>2, <1>5, <1>a DEF Txn, WithSlot
<1>8. Target' = n /\ View' = n
  BY <1>0, <1>7 DEF Target, View, Opening, disk
<1>9. refs[b] = 1 /\ refs' \in [Block -> 0 .. Pin] /\ refs'[b] = 0
      /\ \A c \in Block : c # b => refs'[c] = refs[c]
  <2>1. refs[b] \in 0 .. Pin
    BY <1>a
  <2>2. refs[b] = 1 /\ Released(refs[b]) = 0
    BY <2>1, <1>1, <1>a DEF IsLast, Released
  <2> QED BY <2>2, <1>1, <1>a
<1>10. Cardinality(dBm \ {b}) = Cardinality(dBm) - 1 /\ Cardinality(dBm) > 0
       /\ Cardinality(dBm) \in Nat
  BY <1>4, <1>b, CountOne, BlocksFinite
<1>11. TypeOK'
  <2>1. used' \in Nat
    BY <1>1, <1>10, <1>b DEF CInv, Counted
  <2>2. bm' \in SUBSET Block /\ dirty' \in SUBSET Seg
    BY <1>1, <1>b DEF MarkDirty, Block
  <2> QED BY <2>1, <2>2, <1>0, <1>7, <1>9 DEF CInv, TypeOK, Txn, disk
<1>12. SameImage
  BY <1>0 DEF disk, SameImage, Image, ImageBm, ImageSb,
         MountIx, MountBm, MountSb, Pending, InShadow
<1>13. BootOk' /\ BlankOk' /\ QuietOk' /\ StageOk' /\ LandOk' /\ FlushOk'
  BY <1>0, <1>b DEF BootOk, BlankOk, QuietOk, StageOk, LandOk, FlushOk,
         Replaying, Clearing, Landing, disk
<1>14. Counted'
  BY <1>1, <1>10, <1>b DEF CInv, Counted
<1>15. \A h \in Hash : Held(n, h) <=> (Held(dIx, h) /\ h # client.old)
  BY <1>6 DEF Held
<1>16. Ordered => named[client.old] = 1 /\ client.new # client.old
  <2> SUFFICES ASSUME Ordered
               PROVE  named[client.old] = 1 /\ client.new # client.old
    OBVIOUS
  <2>1. refs[b] = Owed(client.old) \/ refs[b] = Pin
    BY <1>0, <1>4, FreeFacts
  <2>2. refs[b] # Pin
    BY <1>1, <1>a DEF IsLast, Released
  <2>3. Owed(client.old) = named[client.old] + (IF client.new = client.old THEN 1 ELSE 0)
    BY <1>0, <1>a, FreeFacts
  <2>4. named[client.old] \in Nat
    BY <1>a
  <2> QED BY <2>1, <2>2, <2>3, <2>4, <1>9, <1>a
<1>17. OpenOk'
  <2>1. PutRow(dBm, b[1], Row(bm', b[1])) = bm'
    BY <1>1, <1>b, PatchOne
  <2>2. FreeOk'
    <3>1. Held(dIx, client.old)
      BY <1>4 DEF Held
    <3> QED BY <3>1, <1>0, <1>7, <1>8, <1>15, <1>16 DEF FreeOk, Ordered, disk
  <2> QED BY <2>1, <2>2, <1>0, <1>1, <1>6, <1>7, <1>8, <1>a, <1>b
          DEF OpenOk, disk, MarkDirty
<1>18. ClientOk'
  <2>1. (Ordered /\ client.new # None) => Held(n, client.new)
    <3> SUFFICES ASSUME Ordered, client.new # None PROVE Held(n, client.new)
      OBVIOUS
    <3>1. Held(dIx, client.new) /\ client.new \in Hash
      BY <1>0, <1>b, Types DEF CInv, ClientOk, NewIsPut
    <3> QED BY <3>1, <1>15, <1>16
  <2> QED BY <2>1, <1>0, <1>8 DEF CInv, ClientOk, Ordered, disk
<1>19. RefsOk'
  <2>1. \A h \in Hash : Owed(h)' = Owed(h)
    BY <1>0 DEF Owed, disk
  <2>2. ASSUME NEW c \in Block, c \notin bm' PROVE refs'[c] = 0
    BY <2>2, <1>0, <1>1, <1>9 DEF CInv, RefsOk, Running
  <2>3. ASSUME Ordered, NEW h \in Hash, NEW c \in Block, Holds(n, h, c)
        PROVE  refs'[c] = Owed(h) \/ refs'[c] = Pin
    <3>1. Holds(dIx, h, c) /\ h # client.old
      BY <2>3, <1>6
    <3>2. c # b
      BY <3>1, <1>4, <1>a, <1>b, Unique
    <3> QED BY <3>1, <3>2, <2>3, <1>0, <1>9, <1>b DEF CInv, RefsOk, Running
  <2> QED BY <2>1, <2>2, <2>3, <1>0, <1>8 DEF RefsOk, Ordered
<1>20. NamesOk'
  BY <1>0, <1>12, NamesKept DEF SameImage, InUndir, disk
<1> QED BY <1>11, <1>12, <1>13, <1>14, <1>17, <1>18, <1>19, <1>20, ImageKept
        DEF CInv, SameImage

-----------------------------------------------------------------------------
(* The journal and the home writes. *)

LEMMA JournalHeaderKeeps ==
    ASSUME CInv, JournalHeader
    PROVE  CInv' /\ Image' = Image
<1>0. /\ step = "jHdr" /\ step' = "jSb" /\ jHdr = None /\ dSb # None
      /\ jHdr' = [seg |-> txn.block[1], sec |-> txn.sec] /\ jHdr' # None
      /\ jHdr' \in [seg : Seg, sec : Sec]
      /\ UNCHANGED <<dSb, dBm, dIx, dData, jSb, jBm, jIx, named, rest>>
  BY Types, CasAssumption DEF CInv, OpenOk, JournalHeader, Opening
<1>1. TypeOK'
  BY <1>0 DEF CInv, TypeOK, rest, ram
<1>2. SameImage
  BY <1>0 DEF SameImage, Image, ImageBm, ImageSb, MountIx, MountBm, MountSb,
         Pending, InShadow, rest
<1>3. BootOk' /\ BlankOk' /\ Counted' /\ QuietOk' /\ StageOk' /\ LandOk' /\ FlushOk'
  BY <1>0 DEF CInv, BootOk, BlankOk, Counted, QuietOk, StageOk, LandOk, FlushOk,
         Replaying, Clearing, Landing, rest, ram
<1>4. OpenOk'
  BY <1>0 DEF CInv, OpenOk, Opening, PutOk, FreeOk, Ordered, Target, rest, ram
<1>5. ClientOk' /\ RefsOk'
  BY <1>0 DEF CInv, ClientOk, NewIsPut, RefsOk, Running, Ordered, Owed, View,
         Opening, Target, rest, ram
<1>6. NamesOk'
  BY <1>0, <1>2, NamesKept DEF SameImage, InUndir, rest
<1> QED BY <1>1, <1>2, <1>3, <1>4, <1>5, <1>6, ImageKept DEF CInv, SameImage

LEMMA JournalSbKeeps ==
    ASSUME CInv, JournalSb
    PROVE  CInv' /\ Image' = Image
<1>0. /\ step = "jSb" /\ step' = "jBm" /\ jHdr # None /\ dSb # None /\ jSb' = used
      /\ UNCHANGED <<dSb, dBm, dIx, dData, jHdr, jBm, jIx, named, rest>>
  BY CasAssumption DEF CInv, OpenOk, JournalSb, Opening, TypeOK
<1>1. TypeOK'
  BY <1>0 DEF CInv, TypeOK, rest, ram
<1>2. SameImage
  BY <1>0 DEF SameImage, Image, ImageBm, ImageSb, MountIx, MountBm, MountSb,
         Pending, InShadow, rest
<1>3. BootOk' /\ BlankOk' /\ Counted' /\ QuietOk' /\ StageOk' /\ LandOk' /\ FlushOk'
  BY <1>0 DEF CInv, BootOk, BlankOk, Counted, QuietOk, StageOk, LandOk, FlushOk,
         Replaying, Clearing, Landing, rest, ram
<1>4. OpenOk'
  BY <1>0 DEF CInv, OpenOk, Opening, PutOk, FreeOk, Ordered, Target, rest, ram
<1>5. ClientOk' /\ RefsOk'
  BY <1>0 DEF CInv, ClientOk, NewIsPut, RefsOk, Running, Ordered, Owed, View,
         Opening, Target, rest, ram
<1>6. NamesOk'
  BY <1>0, <1>2, NamesKept DEF SameImage, InUndir, rest
<1> QED BY <1>1, <1>2, <1>3, <1>4, <1>5, <1>6, ImageKept DEF CInv, SameImage

LEMMA JournalBmKeeps ==
    ASSUME CInv, JournalBm
    PROVE  CInv' /\ Image' = Image
<1>0. /\ step = "jBm" /\ step' = "jIx" /\ jHdr # None /\ dSb # None
      /\ jBm' = Row(bm, txn.block[1]) /\ jBm' \in SUBSET Bit
      /\ UNCHANGED <<dSb, dBm, dIx, dData, jHdr, jSb, jIx, named, rest>>
  BY CasAssumption DEF CInv, OpenOk, JournalBm, Opening, TypeOK, Row
<1>1. TypeOK'
  BY <1>0 DEF CInv, TypeOK, rest, ram
<1>2. SameImage
  BY <1>0 DEF SameImage, Image, ImageBm, ImageSb, MountIx, MountBm, MountSb,
         Pending, InShadow, rest
<1>3. BootOk' /\ BlankOk' /\ Counted' /\ QuietOk' /\ StageOk' /\ LandOk' /\ FlushOk'
  BY <1>0 DEF CInv, BootOk, BlankOk, Counted, QuietOk, StageOk, LandOk, FlushOk,
         Replaying, Clearing, Landing, rest, ram
<1>4. OpenOk'
  BY <1>0 DEF CInv, OpenOk, Opening, PutOk, FreeOk, Ordered, Target, rest, ram
<1>5. ClientOk' /\ RefsOk'
  BY <1>0 DEF CInv, ClientOk, NewIsPut, RefsOk, Running, Ordered, Owed, View,
         Opening, Target, rest, ram
<1>6. NamesOk'
  BY <1>0, <1>2, NamesKept DEF SameImage, InUndir, rest
<1> QED BY <1>1, <1>2, <1>3, <1>4, <1>5, <1>6, ImageKept DEF CInv, SameImage

\* The last shadow: from here on a mount finds the staged volume.
LEMMA JournalIxKeeps ==
    ASSUME CInv, JournalIx
    PROVE  CInv' /\ Image = dIx /\ Image' = Target
<1>0. /\ step = "jIx" /\ step' = "homeIx" /\ dSb # None
      /\ jHdr = [seg |-> txn.block[1], sec |-> txn.sec] /\ jHdr # None
      /\ jIx' = txn.buf /\ jSb = used /\ jBm = Row(bm, txn.block[1])
      /\ PutRow(dBm, txn.block[1], Row(bm, txn.block[1])) = bm
      /\ Volume(setting, dData, bm, Target) /\ dirty = {txn.block[1]}
      /\ txn.hash \in Hash /\ (PutOk \/ FreeOk)
      /\ UNCHANGED <<dSb, dBm, dIx, dData, jHdr, jSb, jBm, named, rest>>
  BY CasAssumption DEF CInv, OpenOk, JournalIx, Opening, TypeOK
<1>a. jHdr.seg = txn.block[1] /\ jHdr.sec = txn.sec
  BY <1>0
<1>1. TypeOK'
  BY <1>0, Types DEF CInv, TypeOK, rest, ram
<1>2. Image = dIx /\ Image' = Target /\ ImageBm' = bm /\ ImageSb' = used
  BY <1>0, <1>a DEF Image, ImageBm, ImageSb, MountIx, MountBm, MountSb,
         Pending, InShadow, Target
<1>3. ImageOk'
  BY <1>0, <1>2 DEF CInv, ImageOk, Counted, rest
<1>4. BootOk' /\ BlankOk' /\ Counted' /\ QuietOk' /\ StageOk' /\ OpenOk' /\ FlushOk'
  BY <1>0 DEF CInv, BootOk, BlankOk, Counted, QuietOk, StageOk, OpenOk, FlushOk,
         Replaying, Opening, Clearing, rest, ram
<1>5. View = Target /\ View' = Target
  BY <1>0 DEF View, Opening, Target, rest
<1>6. LandOk'
  <2>1. client.pc \in {"put", "rawput", "drop"}
        /\ (client.pc = "drop" => ~Held(Target, client.old))
    BY <1>0 DEF PutOk, FreeOk
  <2> QED BY <2>1, <1>0, <1>a, <1>5 DEF LandOk, Landing, Clearing, rest, ram
<1>7. ClientOk' /\ RefsOk'
  BY <1>0, <1>5 DEF CInv, ClientOk, NewIsPut, RefsOk, Running, Ordered, Owed,
         Opening, rest, ram
<1>8. NamesOk'
  <2> SUFFICES ASSUME Ordered, NEW h \in Hash, named[h] > 0
               PROVE  \/ Held(Target, h)
                      \/ InUndir' /\ client.old = h /\ named[h] = 1
    BY <1>0, <1>2 DEF NamesOk, Ordered, rest
  <2>1. Held(dIx, h) \/ (InUndir /\ client.old = h /\ named[h] = 1)
    BY <1>2 DEF CInv, NamesOk
  <2>2. CASE PutOk
    BY <2>1, <2>2, <1>0 DEF PutOk, InUndir
  <2>3. CASE FreeOk
    <3>1. InUndir' /\ (h = client.old => named[h] = 1)
      BY <2>3, <1>0, Types DEF FreeOk, InUndir, rest, CInv
    <3> QED BY <2>1, <2>3, <3>1 DEF FreeOk
  <2> QED BY <2>2, <2>3, <1>0
<1> QED BY <1>1, <1>2, <1>3, <1>4, <1>6, <1>7, <1>8 DEF CInv

\* A transaction on its way home: what the journal holds is what RAM holds.
LEMMA LandFacts ==
    ASSUME CInv, Landing
    PROVE  /\ dSb # None /\ jHdr # None /\ jSb = used /\ ~InShadow
           /\ PutRow(dBm, jHdr.seg, jBm) = bm
           /\ Image = PutSec(dIx, jHdr.sec, jIx) /\ ImageBm = bm /\ ImageSb = used
           /\ View = Image
           /\ client.pc \in {"put", "rawput", "drop"}
           /\ client.pc = "drop" => ~Held(View, client.old)
<1>1. ~InShadow
  BY DEF Landing, Clearing, InShadow
<1>2. View = PutSec(dIx, jHdr.sec, jIx)
  BY DEF CInv, LandOk, Landing, Clearing, View, Opening, Target
<1> QED BY <1>1, <1>2, ImageIs DEF CInv, LandOk

LEMMA HomeIndexKeeps ==
    ASSUME CInv, HomeIndex
    PROVE  CInv' /\ Image' = Image
<1>0. /\ step = "homeIx" /\ step' = "flushSb" /\ Landing
      /\ jHdr.sec = txn.sec /\ jIx = txn.buf /\ dirty = {jHdr.seg}
      /\ dIx' = PutSec(dIx, jHdr.sec, jIx)
      /\ UNCHANGED <<dSb, dBm, dData, jHdr, jSb, jBm, jIx, named, rest>>
  BY DEF CInv, LandOk, HomeIndex, Landing
<1>a. /\ dSb # None /\ jHdr # None /\ jSb = used
      /\ PutRow(dBm, jHdr.seg, jBm) = bm
      /\ Image = PutSec(dIx, jHdr.sec, jIx) /\ ImageBm = bm /\ ImageSb = used
      /\ View = Image
      /\ client.pc \in {"put", "rawput", "drop"}
      /\ client.pc = "drop" => ~Held(View, client.old)
  BY <1>0, LandFacts
<1>b. dIx' \in Index /\ PutSec(dIx', jHdr.sec, jIx) = dIx'
  BY <1>0, <1>a, Covered DEF CInv
<1>1. TypeOK'
  BY <1>0, <1>b DEF CInv, TypeOK, Index, rest, ram
<1>2. SameImage /\ View' = View
  <2>1. Image' = dIx' /\ ImageBm' = bm /\ ImageSb' = used /\ View' = dIx'
    BY <1>0, <1>a, <1>b DEF Image, ImageBm, ImageSb, MountIx, MountBm, MountSb,
           Pending, InShadow, View, Opening
  <2> QED BY <2>1, <1>0, <1>a DEF SameImage, rest
<1>3. BootOk' /\ BlankOk' /\ Counted' /\ QuietOk' /\ StageOk' /\ OpenOk' /\ FlushOk'
  BY <1>0, <1>a DEF CInv, BootOk, BlankOk, Counted, QuietOk, StageOk, OpenOk,
         FlushOk, Replaying, Opening, Clearing, rest, ram
<1>4. LandOk'
  BY <1>0, <1>a, <1>b, <1>2 DEF LandOk, Landing, Clearing, rest, ram
<1>5. ClientOk' /\ RefsOk'
  BY <1>0, <1>2 DEF CInv, ClientOk, NewIsPut, RefsOk, Running, Ordered, Owed,
         Clearing, rest, ram
<1>6. NamesOk'
  BY <1>0, <1>2, NamesKept DEF SameImage, InUndir, rest
<1> QED BY <1>1, <1>2, <1>3, <1>4, <1>5, <1>6, ImageKept DEF CInv, SameImage

\* A flush, with the transaction's header still down or without one.
LEMMA FlushFacts ==
    ASSUME CInv, step \in {"flushSb", "flushBm"}
    PROVE  /\ ~InShadow /\ View = dIx /\ View = Image
           /\ ImageBm = bm /\ used \in Nat /\ used # None
           /\ used = Cardinality(bm)
           /\ jHdr # None => Landing
           /\ jHdr = None => /\ bm = dBm /\ client.pc \in {"idle", "retain"}
                             /\ dSb # None => dSb = used
<1>1. ~InShadow /\ View = dIx
  BY DEF InShadow, View, Opening
<1>2. used \in Nat /\ used # None /\ used = Cardinality(bm)
  BY Types DEF CInv, Counted
<1>3. CASE jHdr # None
  <2>1. Landing
    BY <1>3 DEF Landing, Clearing
  <2> QED BY <2>1, <1>1, <1>2, <1>3, LandFacts
<1>4. CASE jHdr = None
  <2>1. bm = dBm /\ client.pc \in {"idle", "retain"} /\ (dSb # None => dSb = used)
    BY <1>4 DEF CInv, FlushOk, Clearing
  <2> QED BY <2>1, <1>1, <1>2, <1>4, ImageIs
<1> QED BY <1>3, <1>4

LEMMA FlushSbKeeps ==
    ASSUME CInv, FlushSb
    PROVE  CInv' /\ Image' = Image
<1>0. /\ step = "flushSb" /\ dSb' = used
      /\ step' = IF dirty = {} THEN Flushed ELSE "flushBm"
      /\ UNCHANGED <<dBm, dIx, dData, jHdr, jSb, jBm, jIx, named, rest>>
  BY DEF FlushSb
<1>a. /\ ~InShadow /\ View = dIx /\ View = Image
      /\ ImageBm = bm /\ used \in Nat /\ used # None
      /\ used = Cardinality(bm)
      /\ jHdr # None => Landing
      /\ jHdr = None => /\ bm = dBm /\ client.pc \in {"idle", "retain"}
                        /\ dSb # None => dSb = used
  BY <1>0, FlushFacts
<1>b. jHdr # None => /\ dirty = {jHdr.seg} /\ jSb = used
                     /\ PutRow(dBm, jHdr.seg, jBm) = bm
                     /\ dIx = PutSec(dIx, jHdr.sec, jIx)
                     /\ client.pc \in {"put", "rawput", "drop"}
                     /\ client.pc = "drop" => ~Held(View, client.old)
  BY <1>0, <1>a DEF CInv, LandOk
<1>c. /\ step' \in {"idle", "flushBm"}
      /\ step' = "idle" => dirty = {} /\ jHdr = None
  BY <1>0, <1>b DEF Flushed
<1>1. TypeOK'
  BY <1>0, <1>a, <1>c DEF CInv, TypeOK, rest, ram
<1>2. /\ Image' = Image /\ ImageBm' = ImageBm /\ View' = View
      /\ ImageSb' = used
  <2>1. Image' = dIx /\ View' = dIx /\ ImageSb' = used /\ ImageBm' = bm
    BY <1>0, <1>a, <1>b, <1>c DEF Image, ImageBm, ImageSb, MountIx, MountBm,
           MountSb, Pending, InShadow, View, Opening, rest, ram
  <2> QED BY <2>1, <1>a
<1>3. ImageOk'
  BY <1>0, <1>2, <1>a DEF CInv, ImageOk, rest
<1>4. BootOk' /\ BlankOk' /\ Counted' /\ QuietOk' /\ StageOk' /\ OpenOk' /\ FlushOk'
  BY <1>0, <1>a, <1>c DEF CInv, BootOk, BlankOk, Counted, QuietOk, StageOk,
         OpenOk, FlushOk, Replaying, Opening, Clearing, rest, ram
<1>5. LandOk'
  BY <1>0, <1>a, <1>b, <1>c, <1>2 DEF LandOk, Landing, Clearing, rest, ram
<1>6. ClientOk' /\ RefsOk'
  BY <1>0, <1>a, <1>b, <1>c, <1>2 DEF CInv, ClientOk, NewIsPut, RefsOk, Running,
         Ordered, Owed, Clearing, rest, ram
<1>7. NamesOk'
  BY <1>0, <1>a, <1>b, <1>c, <1>2, NamesKept DEF InUndir, rest
<1> QED BY <1>1, <1>2, <1>3, <1>4, <1>5, <1>6, <1>7 DEF CInv

LEMMA FlushBmKeeps ==
    ASSUME CInv, FlushBm
    PROVE  CInv' /\ Image' = Image
<1>0. /\ step = "flushBm" /\ dirty' = {} /\ step' = Flushed
      /\ dBm' = {b \in dBm : b[1] \notin dirty} \cup {b \in bm : b[1] \in dirty}
      /\ UNCHANGED <<setting, dSb, dIx, dData, jHdr, jSb, jBm, jIx, named,
                     bm, used, refs, txn, client>>
  BY DEF FlushBm
<1>a. /\ ~InShadow /\ View = dIx /\ View = Image
      /\ ImageBm = bm /\ used \in Nat /\ used # None
      /\ used = Cardinality(bm)
      /\ jHdr # None => Landing
      /\ jHdr = None => /\ bm = dBm /\ client.pc \in {"idle", "retain"}
                        /\ dSb # None => dSb = used
  BY <1>0, FlushFacts
<1>b. jHdr # None => /\ dirty = {jHdr.seg} /\ jSb = used /\ dSb = used
                     /\ PutRow(dBm, jHdr.seg, jBm) = bm
                     /\ dIx = PutSec(dIx, jHdr.sec, jIx)
                     /\ client.pc \in {"put", "rawput", "drop"}
                     /\ client.pc = "drop" => ~Held(View, client.old)
  BY <1>0, <1>a DEF CInv, LandOk
<1>c. dSb # None /\ dSb = used /\ dBm \in SUBSET Block /\ bm \in SUBSET Block
      /\ jBm \in SUBSET Bit
  BY <1>0, <1>a, <1>b, Types DEF CInv, BlankOk
<1>d. dBm' = bm
  <2>1. CASE jHdr # None
    <3>1. jHdr.seg \in Seg
      BY <2>1, Types DEF CInv
    <3> QED BY <3>1, <2>1, <1>0, <1>b, <1>c, Patch
  <2>2. CASE jHdr = None
    BY <2>2, <1>0, <1>a
  <2> QED BY <2>1, <2>2
<1>e. jHdr # None => PutRow(bm, jHdr.seg, jBm) = bm
  BY <1>b, Covered DEF CInv
<1>f. step' = IF jHdr = None THEN "idle" ELSE "jClear"
  BY <1>0 DEF Flushed
<1>1. TypeOK'
  BY <1>0, <1>c, <1>d, <1>f DEF CInv, TypeOK
<1>2. SameImage /\ View' = View
  <2>1. Image' = dIx /\ View' = dIx /\ ImageSb' = used /\ ImageBm' = bm
    BY <1>0, <1>b, <1>c, <1>d, <1>e, <1>f DEF Image, ImageBm, ImageSb, MountIx,
           MountBm, MountSb, Pending, InShadow, View, Opening
  <2>2. ImageSb = used
    BY <1>a, <1>b, <1>c, ImageIs
  <2> QED BY <2>1, <2>2, <1>0, <1>a DEF SameImage
<1>3. BootOk' /\ BlankOk' /\ Counted' /\ QuietOk' /\ StageOk' /\ OpenOk' /\ FlushOk'
  BY <1>0, <1>a, <1>c, <1>d, <1>f DEF CInv, BootOk, BlankOk, Counted, QuietOk,
         StageOk, OpenOk, FlushOk, Replaying, Opening, Clearing
<1>4. LandOk'
  BY <1>0, <1>b, <1>c, <1>d, <1>e, <1>f, <1>2 DEF LandOk, Landing, Clearing
<1>5. ClientOk' /\ RefsOk'
  BY <1>0, <1>a, <1>b, <1>f, <1>2 DEF CInv, ClientOk, NewIsPut, RefsOk, Running,
         Ordered, Owed, Clearing
<1>6. NamesOk'
  BY <1>0, <1>a, <1>b, <1>f, <1>2, NamesKept DEF SameImage, InUndir
<1> QED BY <1>1, <1>2, <1>3, <1>4, <1>5, <1>6, ImageKept DEF CInv, SameImage

LEMMA JournalClearKeeps ==
    ASSUME CInv, JournalClear
    PROVE  CInv' /\ Image' = Image
<1>0. /\ step = "jClear" /\ step' = "idle" /\ jHdr' = None /\ txn' = NoTxn
      /\ client' = Proceed
      /\ UNCHANGED <<setting, dSb, dBm, dIx, dData, jSb, jBm, jIx, named,
                     bm, used, dirty, refs>>
  BY DEF JournalClear, ram
<1>a. Landing
  BY <1>0 DEF CInv, FlushOk, Landing, Clearing
<1>b. /\ dSb # None /\ jHdr # None /\ jSb = used /\ ~InShadow
      /\ ImageBm = bm /\ ImageSb = used /\ View = Image
      /\ client.pc \in {"put", "rawput", "drop"}
      /\ client.pc = "drop" => ~Held(View, client.old)
  BY <1>a, LandFacts
<1>c. /\ View = dIx /\ dSb = used /\ dBm = bm /\ dirty = {}
  BY <1>0, <1>a DEF CInv, LandOk, View, Opening
<1>d. /\ client' \in Client
      /\ client.pc = "rawput" => client' = NoClient
      /\ client.pc # "rawput" => /\ client'.new = client.new
                                 /\ client'.old = client.old
      /\ client.pc = "put" => client'.pc = "retain"
      /\ client.pc = "drop" => client'.pc = "commit"
  BY <1>0, <1>b, ProceedIs DEF CInv
<1>1. TypeOK'
  BY <1>0, <1>d, Fresh DEF CInv, TypeOK, Txn, Client
<1>2. SameImage /\ View' = View
  BY <1>0, <1>b, <1>c DEF SameImage, Image, ImageBm, ImageSb, MountIx, MountBm,
         MountSb, Pending, InShadow, View, Opening
<1>3. BootOk' /\ BlankOk' /\ Counted' /\ QuietOk'
  BY <1>0, <1>b, <1>c DEF CInv, BootOk, BlankOk, Counted, QuietOk, Replaying
<1>4. StageOk' /\ OpenOk' /\ LandOk' /\ FlushOk'
  BY <1>0 DEF StageOk, OpenOk, LandOk, FlushOk, Opening, Clearing, Landing
<1>5. ClientOk'
  <2>1. CASE client.pc = "rawput"
    BY <2>1, <1>d, Fresh DEF ClientOk
  <2>2. CASE client.pc # "rawput"
    BY <2>2, <1>0, <1>b, <1>d, <1>2 DEF CInv, ClientOk, NewIsPut, Ordered
  <2> QED BY <2>1, <2>2
<1>6. RefsOk'
  <2>1. ASSUME Ordered, NEW h \in Hash, NEW b \in Block, Holds(View, h, b)
        PROVE  refs[b] = Owed(h)' \/ refs[b] = Pin
    <3>1. refs[b] = Owed(h) \/ refs[b] = Pin
      BY <2>1, <1>0 DEF CInv, RefsOk, Running, Clearing
    <3>2. named[h] \in Nat
      BY DEF CInv, TypeOK
    <3>3. client.pc = "drop" => h # client.old
      BY <2>1, <1>b DEF Held
    <3>4. Owed(h)' = Owed(h)
      BY <3>2, <3>3, <1>0, <1>b, <1>d, Fresh DEF Owed
    <3> QED BY <3>1, <3>4
  <2> QED BY <2>1, <1>0, <1>2 DEF CInv, RefsOk, Running, Clearing, Ordered
<1>7. NamesOk'
  BY <1>0, <1>b, <1>d, <1>2, NamesKept DEF SameImage, InUndir
<1> QED BY <1>1, <1>2, <1>3, <1>4, <1>5, <1>6, <1>7, ImageKept DEF CInv, SameImage

-----------------------------------------------------------------------------
(* Power loss. *)

LEMMA CrashKeeps ==
    ASSUME CInv, Safe, Crash
    PROVE  CInv' /\ Image' = Image
<1>0. /\ ~InShadow /\ (Ordered => ~InUndir)
      /\ bm' = {} /\ used' = 0 /\ dirty' = {} /\ refs' = [b \in Block |-> 0]
      /\ step' = "off" /\ txn' = NoTxn /\ client' = NoClient
      /\ UNCHANGED <<setting, disk>>
  BY DEF Crash, CInv, TypeOK, Safe, Ordered
<1>1. TypeOK'
  BY <1>0, Fresh DEF CInv, TypeOK, Txn, Client, disk
<1>2. SameImage
  BY <1>0 DEF disk, SameImage, Image, ImageBm, ImageSb, MountIx, MountBm, MountSb,
         Pending, InShadow
<1>3. BootOk' /\ BlankOk'
  BY <1>0 DEF CInv, BootOk, BlankOk, Replaying, disk
<1>4. Counted'
  BY <1>0, FS_EmptySet DEF Counted
<1>5. QuietOk' /\ StageOk' /\ OpenOk' /\ LandOk' /\ FlushOk' /\ RefsOk'
  BY <1>0 DEF QuietOk, StageOk, OpenOk, LandOk, FlushOk, RefsOk, Opening,
         Clearing, Landing, Running
<1>6. ClientOk'
  BY <1>0, Fresh DEF ClientOk
<1>7. NamesOk'
  BY <1>0, <1>2 DEF CInv, NamesOk, SameImage, Ordered, disk
<1> QED BY <1>1, <1>2, <1>3, <1>4, <1>5, <1>6, <1>7, ImageKept DEF CInv, SameImage

-----------------------------------------------------------------------------
(* The invariant is inductive. *)

LEMMA InitKeeps ==
    ASSUME Init
    PROVE  CInv
<1>1. TypeOK
  <2>1. Empty \in Entry /\ BlankIx \in [Sec -> [Off -> Entry]]
    BY Fresh DEF Index, Entry
  <2> QED BY <2>1, Fresh, CasAssumption DEF Init, TypeOK, Txn, Client
<1>2. ImageOk
  <2>1. Image = BlankIx /\ ImageBm = {} /\ ImageSb = None
    BY ImageIs DEF Init
  <2> QED BY <2>1, Blank DEF Init, ImageOk
<1>3. BootOk /\ BlankOk
  BY DEF Init, BootOk, BlankOk, Replaying
<1>4. Counted
  BY FS_EmptySet DEF Init, Counted
<1>5. QuietOk /\ StageOk /\ OpenOk /\ LandOk /\ FlushOk /\ RefsOk
  BY DEF Init, QuietOk, StageOk, OpenOk, LandOk, FlushOk, RefsOk, Opening,
         Clearing, Landing, Running
<1>6. ClientOk
  BY Fresh DEF Init, ClientOk
<1>7. NamesOk
  BY DEF Init, NamesOk
<1> QED BY <1>1, <1>2, <1>3, <1>4, <1>5, <1>6, <1>7 DEF CInv

LEMMA StutterKeeps ==
    ASSUME CInv, UNCHANGED vars
    PROVE  CInv' /\ Image' = Image
<1>1. TypeOK'
  BY DEF CInv, vars, disk, rest, ram, TypeOK
<1>2. SameImage
  BY DEF vars, disk, rest, ram, SameImage, Image, ImageBm, ImageSb,
         MountIx, MountBm, MountSb, Pending, InShadow
<1>3. BootOk' /\ BlankOk' /\ Counted' /\ QuietOk' /\ StageOk'
  BY DEF CInv, vars, disk, rest, ram, BootOk, BlankOk, Counted, QuietOk, StageOk,
         Replaying, MountBm, MountIx, Pending
<1>4. OpenOk'
  BY DEF CInv, vars, disk, rest, ram, OpenOk, Opening, PutOk, FreeOk, Ordered, Target
<1>5. LandOk' /\ FlushOk'
  BY DEF CInv, vars, disk, rest, ram, LandOk, Landing, FlushOk, Clearing, View,
         Opening, Target
<1>6. ClientOk' /\ RefsOk'
  BY DEF CInv, vars, disk, rest, ram, ClientOk, NewIsPut, RefsOk, Running, Ordered,
         Owed, View, Opening, Clearing, Target
<1>7. NamesOk'
  BY <1>2, NamesKept DEF SameImage, InUndir, vars, disk, rest
<1> QED BY <1>1, <1>2, <1>3, <1>4, <1>5, <1>6, <1>7, ImageKept DEF CInv, SameImage

\* Every step keeps the invariant, and only two kinds of step change what a
\* client of the store can see: the last shadow of the journal and the commit.
LEMMA StepKeeps ==
    ASSUME CInv, Safe, [Next]_vars
    PROVE  /\ CInv'
           /\ \/ JournalIx \/ Commit
              \/ Image' = Image /\ UNCHANGED <<setting, named>>
<1>1. CASE Boot
  <2>1. CInv' /\ Image' = Image
    BY <1>1, MountKeeps, ReplaySbKeeps, ReplayBmKeeps, ReplayIxKeeps,
       ReplayClearKeeps, LoadKeeps, FormatIndexKeeps DEF Boot
  <2>2. CASE FormatIndex
    <3>1. UNCHANGED <<setting, named>>
      BY <2>2 DEF CInv, BootOk, BlankOk, FormatIndex
    <3> QED BY <2>1, <3>1
  <2>3. CASE ~FormatIndex
    <3>1. UNCHANGED <<setting, named>>
      BY <2>3, <1>1 DEF Boot, Mount, ReplaySb, ReplayBm, ReplayIx, ReplayClear,
         Load, disk, rest
    <3> QED BY <2>1, <3>1
  <2> QED BY <2>2, <2>3
<1>2. CASE Begin
  <2>1. CASE \E new, old \in Hash \cup {None} : BeginWrite(new, old)
    <3>1. CInv' /\ Image' = Image
      BY <2>1, BeginWriteKeeps
    <3>2. UNCHANGED <<setting, named>>
      BY <2>1 DEF BeginWrite, disk
    <3> QED BY <3>1, <3>2
  <2>2. CASE \E new \in setting.raw : BeginRawPut(new)
    <3>1. setting.raw \subseteq Hash
      BY CasAssumption, Types DEF CInv
    <3>2. CInv' /\ Image' = Image
      BY <2>2, <3>1, BeginRawPutKeeps
    <3>3. UNCHANGED <<setting, named>>
      BY <2>2 DEF BeginRawPut, disk
    <3> QED BY <3>2, <3>3
  <2> QED BY <1>2, <2>1, <2>2 DEF Begin
<1>3. CASE Put
  <2>1. CInv' /\ Image' = Image
    BY <1>3, PutDedupKeeps, PutVolumeFullKeeps, PutDataKeeps, PutStageKeeps,
       PutIndexFullKeeps DEF Put
  <2>2. UNCHANGED <<setting, named>>
    BY <1>3 DEF Put, PutDedup, PutVolumeFull, PutData, PutStage, PutIndexFull, disk
  <2> QED BY <2>1, <2>2
<1>4. CASE Retain \/ Free
  <2>1. CInv' /\ Image' = Image
    BY <1>4, RetainKeeps, FreeRefusedKeeps, FreeSharedKeeps, FreeLastKeeps DEF Free
  <2>2. UNCHANGED <<setting, named>>
    BY <1>4 DEF Free, Retain, FreeRefused, FreeShared, FreeLast, disk
  <2> QED BY <2>1, <2>2
<1>5. CASE Commit
  BY <1>5, CommitKeeps
<1>6. CASE Transact
  <2>1. CASE JournalIx
    BY <2>1, JournalIxKeeps
  <2>2. CASE ~JournalIx
    <3>1. CInv' /\ Image' = Image
      BY <1>6, <2>2, JournalHeaderKeeps, JournalSbKeeps, JournalBmKeeps,
         HomeIndexKeeps, FlushSbKeeps, FlushBmKeeps, JournalClearKeeps DEF Transact
    <3>2. UNCHANGED <<setting, named>>
      BY <1>6, <2>2 DEF Transact, JournalHeader, JournalSb, JournalBm, HomeIndex,
         FlushSb, FlushBm, JournalClear, rest
    <3> QED BY <3>1, <3>2
  <2> QED BY <2>1, <2>2
<1>7. CASE Crash
  <2>1. UNCHANGED <<setting, named>>
    BY <1>7 DEF Crash, disk
  <2> QED BY <2>1, <1>7, CrashKeeps
<1>8. CASE UNCHANGED vars
  <2>1. UNCHANGED <<setting, named>>
    BY <1>8 DEF vars, disk, rest
  <2> QED BY <2>1, <1>8, StutterKeeps
<1> QED BY <1>1, <1>2, <1>3, <1>4, <1>5, <1>6, <1>7, <1>8 DEF Next

\* The invariant that the theorems below rest on: the image is a volume, and the
\* transaction in flight is as far as its step says (cas_journal_write,
\* cas_journal_recover).
THEOREM StoreInductive ==
    ASSUME Safe
    PROVE  Spec => []CInv
<1>1. Init => CInv
  BY InitKeeps
<1>2. CInv /\ [Next]_vars => CInv'
  BY StepKeeps
<1> QED BY <1>1, <1>2, PTL DEF Spec

-----------------------------------------------------------------------------
(* What it implies. *)

LEMMA VolumeSound ==
    ASSUME setting \in Settings, NEW map, NEW ix, NEW sb,
           Volume(setting, dData, map, ix), sb = Cardinality(map)
    PROVE  Sound(sb, map, ix)
<1>1. \A p \in Sec \X Off : At(ix, p) = ix[p[1]][p[2]] /\ At(ix, p) \in Entry
  BY DEF At, Volume, Index
<1>2. Indexed(ix) = {At(ix, p) : p \in Place} \cap LiveEntry
  BY <1>1, EntryFacts DEF Indexed, Place
<1>3. ASSUME NEW e \in Indexed(ix)
      PROVE  /\ e.hash \in Hash /\ e.block \in Block
             /\ e = Ent(e.hash, e.block) /\ Holds(ix, e.hash, e.block)
  <2>1. e \in LiveEntry /\ \E p \in Place : At(ix, p) = e
    BY <1>2
  <2>2. e.hash \in Hash /\ e.block \in Block /\ e = Ent(e.hash, e.block)
    BY <2>1, EntryFacts
  <2> QED BY <2>1, <2>2 DEF Holds
<1>4. ASSUME NEW e \in Indexed(ix)
      PROVE  FindsBlock(ix, e.hash, e.block) /\ dData[e.block] = e.hash
  BY <1>3, Lookup, Unique
<1>5. ASSUME NEW p \in Sec \X Off, NEW q \in Sec \X Off,
             ix[p[1]][p[2]] \in LiveEntry, ix[q[1]][q[2]] \in LiveEntry,
             ix[p[1]][p[2]].block = ix[q[1]][q[2]].block
      PROVE  p = q
  <2>1. Live(ix, p) /\ Live(ix, q) /\ At(ix, p).block = At(ix, q).block
    BY <1>5, <1>1 DEF Live
  <2>2. At(ix, p).hash = At(ix, q).hash
    BY <2>1, <1>1 DEF Volume, Contents, Place
  <2> QED BY <2>1, <2>2 DEF Volume, OneSlot, Place
<1>6. map = {e.block : e \in Indexed(ix)}
  <2>1. map = {b \in Block : \E h \in Hash : Holds(ix, h, b)}
    BY DEF Volume
  <2>2. ASSUME NEW h \in Hash, NEW b \in Block, Holds(ix, h, b)
        PROVE  Ent(h, b) \in Indexed(ix) /\ Ent(h, b).block = b
    BY <2>2, <1>2, EntryFacts DEF Holds
  <2> QED BY <2>1, <2>2, <1>3
<1> QED BY <1>4, <1>5, <1>6 DEF Sound

LEMMA InvariantSound ==
    ASSUME CInv
    PROVE  StoreSound
<1>0. TypeOK /\ setting \in Settings
  BY Types DEF CInv
<1>1. CrashSound
  <2> SUFFICES ASSUME dSb # None, ~InShadow
               PROVE  Sound(MountSb, MountBm, MountIx)
    BY DEF CrashSound
  <2>1. Image = MountIx /\ ImageBm = MountBm /\ ImageSb = MountSb
    BY DEF Image, ImageBm, ImageSb
  <2> QED BY <2>1, <1>0, VolumeSound DEF CInv, ImageOk
<1>2. RecoveryLands
  <2> SUFFICES ASSUME step = "load"
               PROVE  dSb # None /\ Sound(dSb, dBm, dIx)
    BY DEF RecoveryLands
  <2>1. dSb # None /\ jHdr = None
    BY DEF CInv, BootOk
  <2>2. Image = dIx /\ ImageBm = dBm /\ ImageSb = dSb
    BY <2>1, ImageIs
  <2> QED BY <2>1, <2>2, <1>0, VolumeSound DEF CInv, ImageOk
<1>3. RamAgrees
  BY DEF CInv, QuietOk, RamAgrees
<1>4. RefsMatchNames
  <2> SUFFICES ASSUME Ordered, step = "idle", NEW b \in Block
               PROVE  \/ \E h \in Hash : /\ FindsBlock(dIx, h, b)
                                         /\ refs[b] = Owed(h) \/ refs[b] = Pin
                      \/ refs[b] = 0 /\ \A h \in Hash : ~FindsBlock(dIx, h, b)
    BY DEF RefsMatchNames
  <2>1. /\ \A h \in Hash : FindsBlock(dIx, h, b) <=> Holds(dIx, h, b)
        /\ View = dIx /\ bm = dBm /\ Volume(setting, dData, dBm, dIx)
    BY AtRest
  <2>2. /\ b \notin bm => refs[b] = 0
        /\ \A h \in Hash : Holds(dIx, h, b) => refs[b] = Owed(h) \/ refs[b] = Pin
    BY <2>1 DEF CInv, RefsOk, Running
  <2>3. /\ b \in dBm => \E h \in Hash : Holds(dIx, h, b)
        /\ \A h \in Hash : Holds(dIx, h, b) => b \in dBm
    BY <2>1, Unique
  <2> QED BY <2>1, <2>2, <2>3
<1>5. RefsAllocated
  BY <1>0 DEF CInv, RefsOk, Running, RefsAllocated
<1>6. NamesResolve
  <2> SUFFICES ASSUME Ordered, ~InShadow, NEW h \in Hash, named[h] > 0
               PROVE  \/ ~Absent(MountIx, h)
                      \/ InUndir /\ client.old = h /\ named[h] = 1
    BY DEF NamesResolve
  <2>1. Image = MountIx
    BY DEF Image
  <2>2. Held(MountIx, h) \/ (InUndir /\ client.old = h /\ named[h] = 1)
    BY <2>1 DEF CInv, NamesOk
  <2>3. Absent(MountIx, h) <=> ~Held(MountIx, h)
    BY <2>1, <1>0, Lookup DEF CInv, ImageOk
  <2> QED BY <2>2, <2>3
<1> QED BY <1>0, <1>1, <1>2, <1>3, <1>4, <1>5, <1>6 DEF StoreSound

\* Wherever power is lost but between a journal header and its shadows, what the
\* next mount recovers is a sound volume; RAM and disk agree between operations;
\* and the reference counts and the directory agree with the index.
THEOREM SoundAlways ==
    ASSUME Safe
    PROVE  Spec => []StoreSound
<1>1. CInv => StoreSound
  BY InvariantSound
<1> QED BY <1>1, StoreInductive, PTL

\* A mounted directory names no chunk that is gone, unless power is lost between
\* cas_free and the commit (vfs_write_locked, SYS_VFS_UNLINK).
THEOREM NamesAlwaysResolve ==
    ASSUME Safe, \A w \in Settings : "undir" \notin w.windows
    PROVE  Spec => []DirectoryResolves
<1>1. CInv => DirectoryResolves
  <2> SUFFICES ASSUME CInv, step = "idle", client = NoClient,
                      NEW h \in Hash, named[h] > 0
               PROVE  ~Absent(dIx, h)
    BY DEF DirectoryResolves
  <2>1. Ordered
    BY Types DEF CInv, Ordered
  <2> QED BY <2>1, AtRest, Fresh
<1> QED BY <1>1, StoreInductive, PTL

-----------------------------------------------------------------------------
(* The store implements ContentStore. *)

\* The mapped variables.
Stored == {h \in Hash : Ordered /\ ~Absent(Image, h)}
Names == [h \in Hash |-> IF Ordered THEN named[h] ELSE 0]
Kept == {h \in Hash : Ordered /\ Held(Image, h)}

LEMMA StoredIsKept == CInv => Stored = Kept
<1> SUFFICES ASSUME CInv PROVE Stored = Kept
  OBVIOUS
<1>1. \A h \in Hash : Absent(Image, h) <=> ~Held(Image, h)
  BY Types, Lookup DEF CInv, ImageOk
<1> QED BY <1>1 DEF Stored, Kept

LEMMA StoreStep ==
    ASSUME CInv, Safe, [Next]_vars, Stored = Kept, Stored' = Kept'
    PROVE  [Store!Next]_<<Stored, Names>>
<1>1. CASE Image' = Image /\ UNCHANGED <<setting, named>>
  BY <1>1 DEF Stored, Kept, Names, Ordered
<1>2. CASE JournalIx
  <2>1. /\ Image = dIx /\ Image' = Target /\ Names' = Names
        /\ Ordered' = Ordered
    BY <1>2, JournalIxKeeps DEF JournalIx, rest, Names, Ordered
  <2>2. txn.hash \in Hash /\ (PutOk \/ FreeOk)
    BY <1>2 DEF CInv, OpenOk, Opening, JournalIx
  <2>3. CASE ~Ordered
    BY <2>1, <2>3 DEF Stored
  <2>4. CASE Ordered /\ PutOk
    <3>1. Stored' = Stored \cup {txn.hash}
      BY <2>1, <2>2, <2>4 DEF Kept, PutOk
    <3> QED BY <3>1, <2>1, <2>2 DEF Store!Next, Store!Deliver, Stored, Names
  <2>5. CASE Ordered /\ FreeOk
    <3>1. Stored' = Stored \ {txn.hash} /\ txn.hash \in Stored
      BY <2>1, <2>2, <2>5 DEF Kept, FreeOk
    <3>2. Names[txn.hash] <= 1
      BY <2>2, <2>5 DEF Names, FreeOk
    <3> QED BY <3>1, <3>2, <2>1, <2>2 DEF Store!Next, Store!Reclaim, Stored, Names
  <2> QED BY <2>2, <2>3, <2>4, <2>5
<1>3. CASE Commit
  <2>1. /\ Image' = Image /\ UNCHANGED setting /\ Stored' = Stored
        /\ named' = [h \in Hash |->
                        (named[h] + (IF h = client.new THEN 1 ELSE 0))
                                  - (IF h = client.old THEN 1 ELSE 0)]
    BY <1>3, CommitKeeps DEF Commit, Kept, Ordered
  <2>2. CASE ~Ordered
    BY <2>1, <2>2 DEF Names, Ordered
  <2>3. CASE Ordered
    <3>1. client.new # None => client.new \in Stored
      <4>1. client.new # None => client.new \in Hash /\ Held(Image, client.new)
        BY <1>3, <2>3, AtRest, Types DEF Commit, CInv, ClientOk, NewIsPut
      <4> QED BY <4>1, <2>3 DEF Kept
    <3>2. client.new \in Hash \cup {None} /\ client.old \in Hash \cup {None}
      BY Types DEF CInv
    <3>3. Names' = [h \in Hash |->
                       (Names[h] + (IF h = client.new THEN 1 ELSE 0))
                                 - (IF h = client.old THEN 1 ELSE 0)]
      BY <2>1, <2>3 DEF Names, Ordered
    <3> QED BY <3>1, <3>2, <3>3, <2>1 DEF Store!Next, Store!Name, Stored, Names
  <2> QED BY <2>2, <2>3
<1> QED BY <1>1, <1>2, <1>3, StepKeeps

\* To its clients the store is a set of durable chunks: a put delivers one with
\* the last shadow of its transaction, a free takes away one that at most one
\* name still holds, and crashes, replays and mounts do not show.
THEOREM StoreRefines ==
    ASSUME Safe
    PROVE  Spec => ImplementsStore
<1>1. Init => Store!Init
  <2> SUFFICES ASSUME Init PROVE Stored = {} /\ Names = [h \in Hash |-> 0]
    BY DEF Store!Init, Stored, Names
  <2>1. CInv /\ Image = BlankIx
    BY InitKeeps, ImageIs DEF Init
  <2>2. Stored = Kept
    BY <2>1, StoredIsKept
  <2>3. \A h \in Hash : ~Held(BlankIx, h)
    BY Blank DEF Held
  <2> QED BY <2>1, <2>2, <2>3 DEF Kept, Names, Init
<1>2. CInv /\ [Next]_vars /\ Stored = Kept /\ (Stored = Kept)'
         => [Store!Next]_<<Stored, Names>>
  BY StoreStep
<1>3. Spec => [][Store!Next]_<<Stored, Names>>
  BY <1>2, StoreInductive, StoredIsKept, PTL DEF Spec
<1> QED BY <1>1, <1>3, PTL DEF Spec, ImplementsStore, Store!Spec, Stored, Names
=============================================================================
