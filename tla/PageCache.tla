----------------------------- MODULE PageCache -----------------------------
(***************************************************************************)
(* File-backed mappings of metal/kernel/kernel64.c, for one file: the page *)
(* cache (one frame per page, however many processes map it), the faults   *)
(* that fill and dirty it, msync, munmap and the teardown of an exiting    *)
(* process.  g_vm_lock covers the table work only, so a fault that has to  *)
(* read the file and every flush consist of several sections, and other    *)
(* processes act in between; a step here is one section.                   *)
(*                                                                         *)
(* A page of the file, or a frame, holds the number of the last store or   *)
(* write whose bytes it has; 0 is what the file began with.  Frames are    *)
(* counted as in Vm, whose table entries these are.                        *)
(***************************************************************************)
EXTENDS Naturals, FiniteSets

CONSTANTS
    Proc,      \* single-threaded processes
    Writers,   \* those that map the file shared and writable
    Page,      \* pages of a mapping
    Length,    \* pages the file has: a mapping may reach past the end
    Frame,     \* frames of memory
    MaxCache,  \* MAX_PCACHE
    MaxFmap,   \* MAX_FMAP
    MaxWrites, \* bound on stores and writes
    None

VARIABLES
    file,   \* the pages of the file
    cache,  \* page -> None or its entry: frame and dirty mark
    mem,    \* frame -> references and what it holds
    fmap,   \* process -> None or its mapping of the file
    pte,    \* process -> page -> table entry
    busy,   \* g_wb_busy: who has the write-back buffer, and the buffer
    at,     \* process -> where it is
    owed,   \* stores to the mapped file no write-back has had yet
    last    \* the last number used

vars == <<file, cache, mem, fmap, pte, busy, at, owed, last>>

Cached(g) == cache[g] # None
Dirty == {g \in Page : Cached(g) /\ cache[g].dirty}
Free == {f \in Frame : mem[f].refs = 0}
NextFree(f) == f \in Free /\ \A x \in Free : f <= x      \* alloc_frame
Unused == [refs |-> 0, holds |-> 0]
FileHas(g) == g < Length
Idle(p) == at[p] = [at |-> "user"]

\* An entry of a page table: nothing, a promised page, a shared frame without
\* or with the write bit, a private copy.
Entry(kind, f) == [kind |-> kind, frame |-> f]
Promise == Entry("promise", None)
Nothing == Entry("nothing", None)

Init ==
    /\ file = [g \in Page |-> 0]
    /\ cache = [g \in Page |-> None]
    /\ mem = [f \in Frame |-> Unused]
    /\ fmap = [p \in Proc |-> None]
    /\ pte = [p \in Proc |-> [g \in Page |-> Nothing]]
    /\ busy = None
    /\ at = [p \in Proc |-> [at |-> "user"]]
    /\ owed = {} /\ last = 0

(* Mapping. *)

MmapFile(p, shared, writable) ==
    /\ Idle(p) /\ fmap[p] = None
    /\ \A g \in Page : pte[p][g] = Nothing
    /\ shared /\ writable => p \in Writers
    /\ Cardinality({q \in Proc : fmap[q] # None}) < MaxFmap
    /\ fmap' = [fmap EXCEPT ![p] = [shared |-> shared, writable |-> writable]]
    /\ pte' = [pte EXCEPT ![p] = [g \in Page |-> Promise]]
    /\ UNCHANGED <<file, cache, mem, busy, at, owed, last>>

\* fork: the child has the mapping; shared frames stay shared, private ones
\* are copied (copy on write, in Vm), promises are repeated.
Fork(p, q) ==
    /\ Idle(p) /\ Idle(q) /\ fmap[p] # None /\ fmap[q] = None
    /\ pte[q] = [g \in Page |-> Nothing]
    /\ fmap[p].shared /\ fmap[p].writable => q \in Writers
    /\ \A g \in Page : pte[p][g].kind # "private"
    /\ Cardinality({r \in Proc : fmap[r] # None}) < MaxFmap
    /\ fmap' = [fmap EXCEPT ![q] = fmap[p]]
    /\ pte' = [pte EXCEPT ![q] = pte[p]]
    /\ mem' = [f \in Frame |->
                  [mem[f] EXCEPT !.refs = @ + Cardinality({g \in Page : pte[p][g].frame = f})]]
    /\ UNCHANGED <<file, cache, busy, at, owed, last>>

(* Faults. *)

InstallShared(p, g, f) == pte' = [pte EXCEPT ![p][g] = Entry("read", f)]

\* pc_get_shared, first section: the frame is there already.
FaultHit(p, g) ==
    /\ Idle(p) /\ fmap[p] # None /\ fmap[p].shared /\ pte[p][g] = Promise
    /\ Cached(g)
    /\ mem' = [mem EXCEPT ![cache[g].frame].refs = @ + 1]
    /\ InstallShared(p, g, cache[g].frame)
    /\ UNCHANGED <<file, cache, fmap, busy, at, owed, last>>

\* It is not: a new frame is filled with no lock held.
FaultMiss(p, g, f) ==
    /\ Idle(p) /\ fmap[p] # None /\ fmap[p].shared /\ pte[p][g] = Promise
    /\ ~Cached(g) /\ NextFree(f)
    /\ mem' = [mem EXCEPT ![f] = [refs |-> 1, holds |-> IF FileHas(g) THEN file[g] ELSE 0]]
    /\ at' = [at EXCEPT ![p] = [at |-> "filled", page |-> g, frame |-> f]]
    /\ UNCHANGED <<file, cache, fmap, pte, busy, owed, last>>

\* Second section: another process may have filled the page meanwhile; its
\* frame is the one, and this one is given back.
Taken(g) == Cached(g)
FaultInstall(p) ==
    /\ at[p].at = "filled"
    /\ LET g == at[p].page
           f == at[p].frame
       IN IF Taken(g)
          THEN /\ mem' = [mem EXCEPT ![f] = Unused, ![cache[g].frame].refs = @ + 1]
               /\ InstallShared(p, g, cache[g].frame)
               /\ UNCHANGED cache
          ELSE IF Cardinality({h \in Page : Cached(h)}) < MaxCache
          THEN /\ cache' = [cache EXCEPT ![g] = [frame |-> f, dirty |-> FALSE]]
               /\ mem' = [mem EXCEPT ![f].refs = 2]
               /\ InstallShared(p, g, f)
          ELSE /\ mem' = [mem EXCEPT ![f] = Unused]   \* a fault nobody resolves
               /\ UNCHANGED <<cache, pte>>
    /\ at' = [at EXCEPT ![p] = [at |-> "user"]]
    /\ UNCHANGED <<file, fmap, busy, owed, last>>

FaultPrivate(p, g, f) ==
    /\ Idle(p) /\ fmap[p] # None /\ ~fmap[p].shared /\ pte[p][g] = Promise
    /\ NextFree(f)
    /\ mem' = [mem EXCEPT ![f] = [refs |-> 1, holds |-> IF FileHas(g) THEN file[g] ELSE 0]]
    /\ pte' = [pte EXCEPT ![p][g] = Entry("private", f)]
    /\ UNCHANGED <<file, cache, fmap, busy, at, owed, last>>

\* The first write to a shared page: mark it dirty, then allow the write.
Marked(g) == [cache EXCEPT ![g].dirty = TRUE]
FaultWrite(p, g) ==
    /\ Idle(p) /\ fmap[p] # None /\ fmap[p].shared /\ fmap[p].writable
    /\ pte[p][g].kind = "read"
    /\ cache' = IF Cached(g) THEN Marked(g) ELSE cache
    /\ pte' = [pte EXCEPT ![p][g].kind = "write"]
    /\ UNCHANGED <<file, mem, fmap, busy, at, owed, last>>

(* Stores and writes. *)

\* A store the hardware allows: no fault, no notice.
Store(p, g) ==
    /\ Idle(p) /\ last < MaxWrites
    /\ \/ pte[p][g].kind = "write"
       \/ pte[p][g].kind = "private" /\ fmap[p] # None /\ fmap[p].writable
    /\ mem' = [mem EXCEPT ![pte[p][g].frame].holds = last + 1]
    /\ last' = last + 1
    /\ owed' = IF pte[p][g].kind = "write" /\ FileHas(g) THEN owed \cup {last + 1} ELSE owed
    /\ UNCHANGED <<file, cache, fmap, pte, busy, at>>

\* SYS_WRITE to the file goes past the cache.
SysWrite(p, g) ==
    /\ Idle(p) /\ last < MaxWrites /\ FileHas(g)
    /\ file' = [file EXCEPT ![g] = last + 1]
    /\ last' = last + 1
    /\ UNCHANGED <<cache, mem, fmap, pte, busy, at, owed>>

(* Flushing, in the sections of pc_flush_file. *)

\* What the caller does when the flush is over.
Done(p, why) ==
    IF why = "msync" THEN [at |-> "protect"] ELSE [at |-> "release", why |-> why]

\* The dirty pages are listed; munmap and exit drop the mapping first.
FlushStart(p, why) ==
    /\ Idle(p) /\ fmap[p] # None
    /\ LET back == fmap[p].shared /\ fmap[p].writable
       IN at' = [at EXCEPT ![p] =
              IF back /\ Dirty # {} THEN [at |-> "list", why |-> why, pages |-> Dirty]
              ELSE IF why = "msync" /\ ~back THEN [at |-> "user"] ELSE Done(p, why)]
    /\ fmap' = IF why = "msync" THEN fmap ELSE [fmap EXCEPT ![p] = None]
    /\ UNCHANGED <<file, cache, mem, pte, busy, owed, last>>

\* The write-back buffer is taken and the whole file read into it.
FlushRead(p) ==
    /\ at[p].at = "list" /\ busy = None
    /\ busy' = [owner |-> p, buf |-> file]
    /\ at' = [at EXCEPT ![p].at = "read"]
    /\ UNCHANGED <<file, cache, mem, fmap, pte, owed, last>>

\* The listed pages that the file reaches are laid over it.
FlushOverlay(p) ==
    /\ at[p].at = "read"
    /\ busy' = [busy EXCEPT !.buf = [g \in Page |->
                   IF g \in at[p].pages /\ FileHas(g) THEN mem[cache[g].frame].holds
                   ELSE @[g]]]
    /\ at' = [at EXCEPT ![p].at = "overlaid"]
    /\ UNCHANGED <<file, cache, mem, fmap, pte, owed, last>>

\* vfs_write_by_dirent; a write the volume refuses leaves the pages dirty.
FlushWrite(p) ==
    /\ at[p].at = "overlaid"
    /\ \/ /\ file' = busy.buf
          /\ owed' = owed \ {busy.buf[g] : g \in Page}
          /\ at' = [at EXCEPT ![p].at = "written"]
       \/ /\ at' = [at EXCEPT ![p] = IF at[p].why = "msync" THEN [at |-> "user"]
                                     ELSE Done(p, at[p].why)]
          /\ UNCHANGED <<file, owed>>
    /\ busy' = None
    /\ UNCHANGED <<cache, mem, fmap, pte, last>>

FlushClear(p) ==
    /\ at[p].at = "written"
    /\ cache' = [g \in Page |-> IF g \in at[p].pages THEN [cache[g] EXCEPT !.dirty = FALSE]
                                ELSE cache[g]]
    /\ at' = [at EXCEPT ![p] = Done(p, at[p].why)]
    /\ UNCHANGED <<file, mem, fmap, pte, busy, owed, last>>

\* fmap_writeprotect: the next store to a clean page has to fault again.
\* Mutant: a flushed page stays writable
Unprotected(e) == e
Protected(e) == IF e.kind = "write" THEN [e EXCEPT !.kind = "read"] ELSE e

Protect(p) ==
    /\ at[p].at = "protect"
    /\ pte' = [pte EXCEPT ![p] = [g \in Page |-> Protected(pte[p][g])]]
    /\ at' = [at EXCEPT ![p] = [at |-> "user"]]
    /\ UNCHANGED <<file, cache, mem, fmap, busy, owed, last>>

\* The table entries go and with them their references; the cache keeps its own.
Unmapped(p) ==
    [f \in Frame |->
        LET n == Cardinality({g \in Page : pte[p][g].frame = f})
        IN IF mem[f].refs = n THEN Unused ELSE [mem[f] EXCEPT !.refs = @ - n]]
Unmap(p) ==
    /\ at[p].at = "release"
    /\ mem' = Unmapped(p)
    /\ pte' = [pte EXCEPT ![p] = [g \in Page |-> Nothing]]
    /\ at' = [at EXCEPT ![p] = [at |-> "user"]]
    /\ UNCHANGED <<file, cache, fmap, busy, owed, last>>

Next ==
    \E p \in Proc :
        \/ \E shared, writable \in BOOLEAN : MmapFile(p, shared, writable)
        \/ \E q \in Proc \ {p} : Fork(p, q)
        \/ \E g \in Page :
              \/ FaultHit(p, g) \/ FaultWrite(p, g) \/ Store(p, g) \/ SysWrite(p, g)
              \/ \E f \in Frame : FaultMiss(p, g, f) \/ FaultPrivate(p, g, f)
        \/ FaultInstall(p)
        \/ \E why \in {"msync", "munmap", "exit"} : FlushStart(p, why)
        \/ FlushRead(p) \/ FlushOverlay(p) \/ FlushWrite(p) \/ FlushClear(p)
        \/ Protect(p) \/ Unmap(p)

Spec == Init /\ [][Next]_vars

(* Properties. *)

Holders(f) ==
    Cardinality({g \in Page : Cached(g) /\ cache[g].frame = f})
    + Cardinality({<<p, g>> \in Proc \X Page : pte[p][g].frame = f})
    + Cardinality({p \in Proc : at[p].at = "filled" /\ at[p].frame = f})

\* Every holder of a frame is counted, and whoever maps a page of the file
\* shared maps the one frame the cache has for it.
OneFrame ==
    /\ \A f \in Frame : mem[f].refs = Holders(f)
    /\ \A p \in Proc, g \in Page : pte[p][g].kind \in {"read", "write"} =>
          Cached(g) /\ pte[p][g].frame = cache[g].frame

\* A store through the mapping is not forgotten: as long as the page holds it,
\* either a write-back has had it or the page is marked dirty for the next one.
StoresKept ==
    \A g \in Page : Cached(g) /\ mem[cache[g].frame].holds \in owed => cache[g].dirty

\* One counted frame for each cached page, and no store through a mapping is forgotten.
MappedSound == OneFrame /\ StoresKept
=============================================================================
