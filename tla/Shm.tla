-------------------------------- MODULE Shm --------------------------------
(***************************************************************************)
(* The two ways of sharing memory in kernel64.c.  A page sent with a       *)
(* message (g_ipc_shm) has one frame and a set of slots that hold it; its  *)
(* mappings are not counted, so they have to be gone before an address     *)
(* space is freed.  A segment (g_shm) has counted frames, one reference    *)
(* for its existence and one per mapping, and a count of the attached      *)
(* processes.  Processes run on cores of their own: each of the locked     *)
(* sections of a call is a step, and so is each part of the exit path.     *)
(***************************************************************************)
EXTENDS Integers, Sequences, FiniteSets, FiniteSetsExt

CONSTANTS Proc,     \* slots of kprocs, a set of numbers
          Entry,    \* the entries of g_ipc_shm, a set of numbers
          Seg,      \* the entries of g_shm, a set of numbers
          Pages,    \* the sizes of segment that are asked for
          Window,   \* pages of a process's window for segments
          Frame,    \* the frames of the pool
          QLen,     \* IPC_QLEN
          Execs,    \* may a process that holds a page call execve, as the code lets it?
          Refuses,  \* may a message demand a capability that its recipient lacks?
          MaxCalls  \* bound on the calls and the exits

\* What the constants have to satisfy.
ShmAssumption == /\ Proc \subseteq Nat /\ Entry \subseteq Nat /\ Seg \subseteq Nat
                 /\ Pages \subseteq Nat \ {0} /\ 0 \notin Frame
                 /\ Execs \in BOOLEAN /\ Refuses \in BOOLEAN

VARIABLES refs,   \* references to each frame; 0 means free
          entry,  \* g_ipc_shm
          seg,    \* g_shm
          page,   \* per slot: the frame mapped at each entry's address, 0 when none is
          win,    \* per slot: the frames mapped in its window for segments
          top,    \* per slot: shm_next, in pages of the window
          att,    \* per slot: shm_attached
          queue,  \* g_ipc_q
          pid,    \* per slot: the process that has it
          call,   \* per slot: the step of the call it is in
          calls   \* the number of calls and exits so far
vars == <<refs, entry, seg, page, win, top, att, queue, pid, call, calls>>

Idle   == [at |-> "idle", slot |-> 0, to |-> 0, id |-> 0, cap |-> FALSE]
NoPage == [used |-> FALSE, mask |-> {}, phys |-> 0]
NoSeg  == [used |-> FALSE, frames |-> <<>>, mappers |-> 0]

Init == /\ refs = [f \in Frame |-> 0]
        /\ entry = [e \in Entry |-> NoPage] /\ seg = [s \in Seg |-> NoSeg]
        /\ page = [p \in Proc |-> [e \in Entry |-> 0]]
        /\ win = [p \in Proc |-> <<>>] /\ top = [p \in Proc |-> 0] /\ att = [p \in Proc |-> {}]
        /\ queue = [p \in Proc |-> <<>>] /\ pid = [p \in Proc |-> p]
        /\ call = [p \in Proc |-> Idle] /\ calls = 0

At(p, l)   == call[p].at = l
Goes(p, l) == call' = [call EXCEPT ![p].at = l]
Begins(p)  == At(p, "idle") /\ calls < MaxCalls /\ calls' = calls + 1
IsFree(f)   == refs[f] = 0

----------------------------------------------------------------------------
\* SYS_IPC_SEND of a page: the recipient is looked up by its pid, in a slot that is used, whether
\* or not its process has left.  want is an entry the sender has mapped, or -1 for a new one.
SendTo(p, q, want, cap) ==
    /\ Begins(p) /\ (cap => Refuses)
    /\ want = -1 \/ (want \in Entry /\ page[p][want] # 0)
    /\ call' = [call EXCEPT ![p] = [at |-> "grant", slot |-> q, to |-> pid[q], id |-> want, cap |-> cap]]
    /\ UNCHANGED <<refs, entry, seg, page, win, top, att, queue, pid>>

\* ipc_shmem_grant: the first unused entry, or the one named if the sender holds it.
Unused == {e \in Entry : ~entry[e].used}
Grant(p) ==
    /\ At(p, "grant")
    /\ LET q == call[p].slot  want == call[p].id IN
       \/ /\ want = -1 /\ Unused # {}
          /\ LET e == Min(Unused) IN
             /\ entry' = [entry EXCEPT ![e] = [used |-> TRUE, mask |-> {p, q}, phys |-> 0]]
             /\ call' = [call EXCEPT ![p].at = "alloc", ![p].id = e]
       \/ /\ want \in Entry /\ entry[want].used /\ p \in entry[want].mask
          /\ entry' = [entry EXCEPT ![want].mask = @ \cup {q}]
          /\ Goes(p, "map")
       \/ /\ IF want = -1 THEN Unused = {} ELSE ~entry[want].used \/ p \notin entry[want].mask
          /\ entry' = entry /\ Goes(p, "idle")
    /\ UNCHANGED <<refs, seg, page, win, top, att, queue, pid, calls>>
\* The frame is allocated outside the lock and stored under it.
GrantFrame(p) ==
    /\ At(p, "alloc")
    /\ \E f \in Frame : /\ IsFree(f)
                        /\ refs' = [refs EXCEPT ![f] = 1]
                        /\ entry' = [entry EXCEPT ![call[p].id].phys = f]
    /\ Goes(p, "map")
    /\ UNCHANGED <<seg, page, win, top, att, queue, pid, calls>>

\* ipc_shmem_map_self: whoever holds the entry maps its frame at the entry's own address.
MapSelf(p, e) == IF entry[e].used /\ p \in entry[e].mask
                 THEN page' = [page EXCEPT ![p][e] = entry[e].phys] ELSE page' = page
SendMap(p) == /\ At(p, "map") /\ MapSelf(p, call[p].id) /\ Goes(p, "push")
              /\ UNCHANGED <<refs, entry, seg, win, top, att, queue, pid, calls>>
\* ipc_queue_push: a full mailbox refuses the message; what was granted stays granted.
SendPush(p) ==
    /\ At(p, "push") /\ Goes(p, "idle")
    /\ LET q == call[p].slot IN
       IF Len(queue[q]) >= QLen THEN queue' = queue
       ELSE queue' = [queue EXCEPT ![q] = Append(@, [to |-> call[p].to, id |-> call[p].id, cap |-> call[p].cap])]
    /\ UNCHANGED <<refs, entry, seg, page, win, top, att, pid, calls>>

\* SYS_IPC_RECV: the message is popped; a recipient without the capability it demands gives up its
\* hold of the entry, any other maps the page.
Refused(e, p) == [entry EXCEPT ![e].mask = @ \ {p}]
Recv(p) ==
    /\ Begins(p) /\ queue[p] # <<>>
    /\ queue' = [queue EXCEPT ![p] = Tail(@)]
    /\ LET m == Head(queue[p]) IN
       IF m.cap THEN entry' = Refused(m.id, p) /\ page' = page
       ELSE MapSelf(p, m.id) /\ entry' = entry
    /\ UNCHANGED <<refs, seg, win, top, att, pid, call>>

----------------------------------------------------------------------------
\* SYS_SHM_CREATE: the first unused segment; a pool that runs out gives everything back.
ShmCreate(p, n) ==
    /\ Begins(p)
    /\ LET free == {s \in Seg : ~seg[s].used} IN
       IF free = {} THEN UNCHANGED <<refs, seg>>
       ELSE \/ \E fs \in [1..n -> {f \in Frame : IsFree(f)}] :
                 /\ \A i, j \in 1..n : i < j => fs[i] < fs[j]
                 /\ refs' = [f \in Frame |-> IF \E i \in 1..n : fs[i] = f THEN 1 ELSE refs[f]]
                 /\ seg' = [seg EXCEPT ![Min(free)] = [used |-> TRUE, frames |-> fs, mappers |-> 0]]
            \/ /\ Cardinality({f \in Frame : IsFree(f)}) < n
               /\ UNCHANGED <<refs, seg>>
    /\ UNCHANGED <<entry, page, win, top, att, queue, pid, call>>

\* SYS_SHM_MAP: one more reference to every frame, one more mapper if the process had none.
Shared(s) == [f \in Frame |-> refs[f] + Cardinality({i \in DOMAIN seg[s].frames : seg[s].frames[i] = f})]

ShmMap(p, s) ==
    /\ Begins(p)
    /\ LET fs == seg[s].frames IN
       IF ~seg[s].used \/ top[p] + Len(fs) > Window
       THEN UNCHANGED <<refs, seg, win, top, att>>
       ELSE /\ refs' = Shared(s)
            /\ win' = [win EXCEPT ![p] = @ \o fs]
            /\ top' = [top EXCEPT ![p] = @ + Len(fs)]
            /\ att' = [att EXCEPT ![p] = @ \cup {s}]
            /\ seg' = [seg EXCEPT ![s].mappers = IF s \in att[p] THEN @ ELSE @ + 1]
    /\ UNCHANGED <<entry, page, queue, pid, call>>

----------------------------------------------------------------------------
\* The exit path, in its order: the mailbox, the entries one after another, the segments, the tree.
Leave(p) == /\ Begins(p)
            /\ queue' = [queue EXCEPT ![p] = <<>>]
            /\ call' = [call EXCEPT ![p] = [Idle EXCEPT !.at = "pages", !.id = Min(Entry)]]
            /\ UNCHANGED <<refs, entry, seg, page, win, top, att, pid>>

\* ipc_teardown_kproc, one entry: an entry that is held is unmapped, then given up under the lock,
\* its frame freed by its last holder.
\* Mutant: the mapping is left for page_free_tree
LeftMapped(p, e) == page
Unmapped(p, e) == [page EXCEPT ![p][e] = 0]

\* The next entry, or the segments after the last one.
Later(p) == LET later == {d \in Entry : d > call[p].id} IN
    call' = [call EXCEPT ![p].at = IF later = {} THEN "segs" ELSE "pages",
                         ![p].id = IF later = {} THEN 0 ELSE Min(later)]

LeavePage(p) ==
    /\ At(p, "pages")
    /\ LET e == call[p].id IN
       IF entry[e].used /\ p \in entry[e].mask
       THEN page' = Unmapped(p, e) /\ Goes(p, "drop")
       ELSE Later(p) /\ UNCHANGED page
    /\ UNCHANGED <<refs, entry, seg, win, top, att, queue, pid, calls>>

DropPage(p) ==
    /\ At(p, "drop") /\ Later(p)
    /\ LET e == call[p].id  rest == entry[e].mask \ {p} IN
       /\ entry' = [entry EXCEPT ![e].mask = rest, ![e].used = @ /\ rest # {}]
       /\ refs' = IF entry[e].used /\ rest = {} THEN [refs EXCEPT ![entry[e].phys] = @ - 1] ELSE refs
    /\ UNCHANGED <<page, seg, win, top, att, queue, pid, calls>>

\* shm_teardown_kproc: the last process attached to a segment drops the segment's own references.
LastMapper(s) == seg[s].mappers <= 1

LeaveSegs(p) ==
    /\ At(p, "segs")
    /\ LET mine == {s \in att[p] : seg[s].used}  ends == {s \in mine : LastMapper(s)} IN
       /\ seg' = [s \in Seg |-> CASE s \in ends -> NoSeg
                                  [] s \in mine \ ends -> [seg[s] EXCEPT !.mappers = @ - 1]
                                  [] OTHER -> seg[s]]
       /\ refs' = [f \in Frame |-> refs[f] - Cardinality(
                     {s \in ends : \E i \in DOMAIN seg[s].frames : seg[s].frames[i] = f})]
       /\ att' = [att EXCEPT ![p] = @ \ mine]
    /\ Goes(p, "tree")
    /\ UNCHANGED <<entry, page, win, top, queue, pid, calls>>

\* page_free_tree: every frame still mapped loses a reference, that of a sent page included; a
\* reference that is not there would halt the kernel.
FreeTree(p) == /\ refs' = [f \in Frame |-> refs[f]
                     - Cardinality({i \in DOMAIN win[p] : win[p][i] = f})
                     - Cardinality({e \in Entry : page[p][e] = f})]
               /\ win' = [win EXCEPT ![p] = <<>>]
               /\ page' = [page EXCEPT ![p] = [e \in Entry |-> 0]]
LeaveTree(p) == /\ At(p, "tree") /\ FreeTree(p) /\ Goes(p, "gone")
                /\ UNCHANGED <<entry, seg, top, att, queue, pid, calls>>
\* The slot is taken again (kproc_spawn): its mailbox is not cleared.
Reuse(p) == /\ At(p, "gone") /\ Goes(p, "idle")
            /\ pid' = [pid EXCEPT ![p] = Max({pid[q] : q \in Proc}) + 1]
            /\ top' = [top EXCEPT ![p] = 0] /\ att' = [att EXCEPT ![p] = {}]
            /\ UNCHANGED <<refs, entry, seg, page, win, queue, calls>>
\* SYS_EXECVE frees the old tree; the attachments, shm_next and the entries held stay.
Exec(p) == /\ Begins(p) /\ (Execs \/ \A e \in Entry : page[p][e] = 0) /\ FreeTree(p)
           /\ UNCHANGED <<entry, seg, top, att, queue, pid, call>>

Next == \E p \in Proc :
    \/ \E q \in Proc, w \in Entry \cup {-1}, cap \in BOOLEAN : SendTo(p, q, w, cap)
    \/ Grant(p) \/ GrantFrame(p) \/ SendMap(p) \/ SendPush(p) \/ Recv(p)
    \/ \E n \in Pages : ShmCreate(p, n)
    \/ \E s \in Seg : ShmMap(p, s)
    \/ Leave(p) \/ LeavePage(p) \/ DropPage(p) \/ LeaveSegs(p) \/ LeaveTree(p) \/ Reuse(p) \/ Exec(p)
Spec == Init /\ [][Next]_vars

----------------------------------------------------------------------------
\* A frame has exactly the references that are owed: one if an entry or a segment owns it, one for
\* every mapping in a window.
Owed(f) == Cardinality({e \in Entry : entry[e].used /\ entry[e].phys = f})
         + Cardinality({s \in Seg : seg[s].used /\ \E i \in DOMAIN seg[s].frames : seg[s].frames[i] = f})
         + MapThenSumSet(LAMBDA p : Cardinality({i \in DOMAIN win[p] : win[p][i] = f}), Proc)
Exact == \A f \in Frame : refs[f] = Owed(f)
\* A page that is mapped is the one its entry owns, and the process is one of the entry's holders.
Held == \A p \in Proc, e \in Entry : page[p][e] # 0 =>
           entry[e].used /\ p \in entry[e].mask /\ entry[e].phys = page[p][e]
\* An entry in use can still be given up by somebody, and a segment counts who is attached to it.
Counted == /\ \A e \in Entry : entry[e].used => entry[e].mask # {}
           /\ \A s \in Seg : seg[s].used => seg[s].mappers = Cardinality({p \in Proc : s \in att[p]})
\* A message waits in the mailbox of the process it names.
Addressed == \A p \in Proc : \A i \in DOMAIN queue[p] : queue[p][i].to = pid[p]
\* Shared memory keeps its books over sends, maps and exits in any order.
SharedSound == Exact /\ Held /\ Counted
=============================================================================
