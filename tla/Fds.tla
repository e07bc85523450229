-------------------------------- MODULE Fds --------------------------------
(***************************************************************************)
(* Descriptors: a table of numbers per process over shared open file        *)
(* descriptions, and what a description stands for - a file, a pipe end,    *)
(* an eventfd, an epoll instance.                                          *)
(*                                                                         *)
(* g_ofile_lock covers both layers, but hardly an operation is one section *)
(* under it: a description is claimed, then installed, perhaps after the   *)
(* table grew; a pipe's ends are installed before they become ends; a read *)
(* looks the number up and reads in a second section; a transfer installs, *)
(* releases and posts apart.  A section is a step.                         *)
(*                                                                         *)
(* A pipe's buffer and an eventfd's counter are abstracted to whether there *)
(* is something to read.  Watches are for EPOLLIN and level-triggered; the *)
(* sleeping and waking of epoll_wait is module Sched's.                    *)
(***************************************************************************)
EXTENDS Integers, Sequences, FiniteSets, FiniteSetsExt

CONSTANTS
    NSlot,           \* kproc slots
    NOfile,          \* OFILE_MAX
    Inline, FdMax,   \* FD_INLINE, FD_MAX
    NPipe, NEp, NEv, \* MAX_PIPES, MAX_EPOLL, MAX_EVENTFD
    MaxWatch,        \* EPOLL_MAXWATCH
    QLen,            \* IPC_QLEN
    File,            \* directory entries
    Settings,        \* the programs considered, see setting
    None

Slot == 0 .. NSlot - 1
Oi   == 0 .. NOfile - 1
Fd   == 0 .. FdMax - 1
Pipes == 0 .. NPipe - 1
Eps  == 0 .. NEp - 1
Evs  == 0 .. NEv - 1

ASSUME FdsAssumption ==
    /\ {NSlot, NOfile, Inline, FdMax, NPipe, NEp, NEv, MaxWatch, QLen} \subseteq Nat \ {0}
    /\ FdMax \in {Inline, 2 * Inline}
    /\ None \notin Nat /\ None \notin File
    /\ \A w \in Settings : /\ w.leader \in [Slot -> Slot]
                           /\ w.boot \subseteq Slot /\ w.orphan \in BOOLEAN
                           /\ w.ops \in [Slot -> SUBSET STRING]

VARIABLES
    setting, \* chosen once, what the programs do: tg_leader of the slots, the
             \* processes at the start, the calls each slot makes, and whether a file is
             \* unlinked while a descriptor names it
    of,      \* g_ofiles
    tab,     \* files_struct.fd of each leader
    size,    \* max_fds
    hint,    \* next_fd
    pipe,    \* g_pipes
    ep,      \* g_epoll: watch lists
    evfd,    \* g_evfd
    name,    \* the files the directory has
    redir,   \* redir_out of each leader
    mail,    \* g_ipc_q: descriptor numbers under way
    life,    \* of each process: "unborn", "live" or "dead"
    op       \* where each thread is in its system call

table == <<of, tab, hint, pipe, ep, evfd, redir>>
vars == <<setting, table, size, name, mail, life, op>>

Blank == [used |-> FALSE, kind |-> "file", obj |-> None, w |-> FALSE, nref |-> 0]
NoEvent == [used |-> FALSE, has |-> FALSE]
NoPipe == [used |-> FALSE, r |-> 0, w |-> 0, has |-> FALSE]
User == [pc |-> "user", k |-> "none", n |-> None, m |-> None, oi |-> None,
         obj |-> None, to |-> None, todo |-> {}]

Init ==
    /\ setting \in Settings
    /\ of = [o \in Oi |-> Blank]
    /\ tab = [p \in Slot |-> [n \in Fd |-> None]]
    /\ size = [p \in Slot |-> Inline] /\ hint = [p \in Slot |-> 0]
    /\ pipe = [i \in Pipes |-> NoPipe]
    /\ ep = [e \in Eps |-> [used |-> FALSE, watch |-> {}]]
    /\ evfd = [v \in Evs |-> NoEvent]
    /\ name = {}
    /\ redir = [p \in Slot |-> None] /\ mail = [p \in Slot |-> <<>>]
    /\ life = [p \in Slot |-> IF p \in setting.boot THEN "live" ELSE "unborn"]
    /\ op = [s \in Slot |-> User]

-----------------------------------------------------------------------------
(* Lookups. *)

Of(s) == setting.leader[s]
At(s, pc) == op[s].pc = pc
Calls(s, c) == At(s, "user") /\ life[Of(s)] = "live" /\ c \in setting.ops[s]
Go(s, f) == op' = [op EXCEPT ![s] = f]

\* fd_lookup_locked
Named(p, n) ==
    IF n < size[p] /\ tab[p][n] # None /\ of[tab[p][n]].used THEN tab[p][n] ELSE None

\* fd_find_free_locked
FreeNumbers(p) == {n \in Fd : n < size[p] /\ tab[p][n] = None}
FreeNumber(p) ==
    LET up == {n \in FreeNumbers(p) : n >= hint[p]}
    IN IF up # {} THEN Min(up) ELSE Min(FreeNumbers(p))

FreeOi == {o \in Oi : ~of[o].used}

-----------------------------------------------------------------------------
(* The two halves of a reference: fd_install_locked and fd_release_locked. *)

EndOf(o, i, w) == of[o].kind = "pipe" /\ of[o].obj = i /\ of[o].w = w
EndsOf(p, ns, i, w) == {n \in ns : EndOf(tab[p][n], i, w)}

\* Mutant: only the description is counted.
PipeKeeps(i, r, w) == pipe[i]
PipeGains(i, r, w) == [pipe[i] EXCEPT !.r = @ + r, !.w = @ + w]

\* Table old of process q gets the descriptions got, at their numbers.
Installs(q, old, from, got) ==
    LET ns == DOMAIN got
        Ref(o) == Cardinality({n \in ns : got[n] = o})
        End(i, w) == Cardinality({n \in ns : EndOf(got[n], i, w)})
    IN /\ tab' = [tab EXCEPT ![q] = [n \in Fd |-> IF n \in ns THEN got[n] ELSE old[n]]]
       /\ hint' = [hint EXCEPT ![q] = Max({from} \cup {n + 1 : n \in ns})]
       /\ of' = [o \in Oi |-> [of[o] EXCEPT !.nref = @ + Ref(o)]]
       /\ pipe' = [i \in Pipes |-> PipeGains(i, End(i, FALSE), End(i, TRUE))]
       /\ UNCHANGED <<ep, evfd>>

Purged(e, gone) == {x \in ep[e].watch : x.oi \notin gone}

RedirAfter(p, ns) == IF redir[p] \in ns THEN None ELSE redir[p]

Last(o, k) == of[o].nref <= k /\ k > 0

PipeLoses(i, r, w) ==
    LET a == [pipe[i] EXCEPT !.r = Max({0, @ - r}), !.w = Max({0, @ - w})]
    IN IF r + w > 0 /\ a.r = 0 /\ a.w = 0 THEN NoPipe ELSE a

\* Process p gives back the numbers asked for that name a description in use.
Held(p, asked) == {n \in asked : Named(p, n) # None}
PipesAfter(p, asked) ==
    [i \in Pipes |-> PipeLoses(i, Cardinality(EndsOf(p, Held(p, asked), i, FALSE)),
                                  Cardinality(EndsOf(p, Held(p, asked), i, TRUE)))]
Releases(p, asked) ==
    LET ns == Held(p, asked)
        Ref(o) == Cardinality({n \in ns : tab[p][n] = o})
        gone == {o \in Oi : of[o].used /\ Last(o, Ref(o))}
        Dies(kind, i) == \E o \in gone : of[o].kind = kind /\ of[o].obj = i
    IN /\ tab' = [tab EXCEPT ![p] = [n \in Fd |-> IF n \in ns THEN None ELSE @[n]]]
       /\ hint' = [hint EXCEPT ![p] = Min({@} \cup ns)]
       /\ of' = [o \in Oi |-> IF o \in gone THEN Blank
                              ELSE [of[o] EXCEPT !.nref = @ - Ref(o)]]
       /\ ep' = [e \in Eps |-> IF Dies("epoll", e) THEN [used |-> FALSE, watch |-> {}]
                               ELSE [ep[e] EXCEPT !.watch = Purged(e, gone)]]
       /\ evfd' = [v \in Evs |-> IF Dies("evfd", v) THEN NoEvent ELSE evfd[v]]
       /\ redir' = [redir EXCEPT ![p] = RedirAfter(p, ns)]

ReadEnds(i, fs) == {o \in Oi : fs[o].used /\ fs[o].kind = "pipe" /\ ~fs[o].w /\ fs[o].obj = i}
\* Mutant: nobody is told of an end of file.
EofNone(fs, ps) == {}
\* ep_collect_eof_locked
Eof(fs, ps) == UNION {ReadEnds(i, fs) : i \in {j \in Pipes : ps[j].used /\ ps[j].w = 0}}

\* ep_notify_oi is still to be called for each description in os.
Telling(s, os) == Go(s, IF os = {} THEN User ELSE [User EXCEPT !.pc = "notify", !.todo = os])

Notify(s) ==
    /\ At(s, "notify")
    /\ Telling(s, op[s].todo \ {Min(op[s].todo)})
    /\ UNCHANGED <<setting, table, size, name, mail, life>>

-----------------------------------------------------------------------------
(* Making a descriptor: k says for what, obj is the file, pipe or instance. *)

\* Unless the programs orphan files, none is unlinked or created anew while a
\* descriptor names its entry, or an open or an unlink of it is under way.
Undisturbed(f) ==
    \/ setting.orphan
    \/ \A t \in Slot : op[t].k = "file" => op[t].obj # f

\* vfs_open resolves (or creates) the entry and releases g_vfs_lock.
Open(s, f) ==
    /\ Calls(s, "open") /\ (f \notin name => Undisturbed(f))
    /\ name' = name \cup {f}
    /\ Go(s, [User EXCEPT !.pc = "new", !.k = "file", !.obj = f])
    /\ UNCHANGED <<setting, table, size, mail, life>>

\* pipe_create_for: the ring first.
Pipe(s) ==
    LET free == {i \in Pipes : ~pipe[i].used}
    IN /\ Calls(s, "pipe") /\ free # {}
       /\ pipe' = [pipe EXCEPT ![Min(free)] = [NoPipe EXCEPT !.used = TRUE]]
       /\ Go(s, [User EXCEPT !.pc = "new", !.k = "read", !.obj = Min(free)])
       /\ UNCHANGED <<setting, of, tab, hint, ep, evfd, redir, size, name, mail, life>>

Claims(o, kind, obj) ==
    of' = [of EXCEPT ![o] = [Blank EXCEPT !.used = TRUE, !.kind = kind, !.obj = obj]]

Ends == {"read", "write"}

\* ofile_claim: ofile_new_locked.  A pipe's end is not one yet.
New(s) ==
    LET o == op[s]
    IN /\ At(s, "new")
       /\ IF FreeOi = {}
          THEN Go(s, IF o.k \in Ends THEN [o EXCEPT !.pc = "unpipe"] ELSE User)
               /\ UNCHANGED of
          ELSE /\ IF o.k \in Ends THEN Claims(Min(FreeOi), "pipe", None)
                                  ELSE Claims(Min(FreeOi), o.k, o.obj)
               /\ Go(s, [o EXCEPT !.pc = "install", !.oi = Min(FreeOi)])
       /\ UNCHANGED <<setting, tab, hint, pipe, ep, evfd, redir, size, name, mail, life>>

\* SYS_EPOLL_CREATE, SYS_EVENTFD: description and instance in one section.
Create(s, k, i) ==
    /\ At(s, "user") /\ FreeOi # {}
    /\ Claims(Min(FreeOi), k, i)
    /\ Go(s, [User EXCEPT !.pc = "install", !.k = k, !.obj = i, !.oi = Min(FreeOi)])
    /\ UNCHANGED <<setting, tab, hint, pipe, redir, size, name, mail, life>>

EpollCreate(s) ==
    LET free == {e \in Eps : ~ep[e].used}
    IN /\ Calls(s, "epoll") /\ free # {}
       /\ Create(s, "epoll", Min(free))
       /\ ep' = [ep EXCEPT ![Min(free)] = [used |-> TRUE, watch |-> {}]]
       /\ UNCHANGED evfd

Eventfd(s, has) ==
    LET free == {v \in Evs : ~evfd[v].used}
    IN /\ Calls(s, "evfd") /\ free # {}
       /\ Create(s, "evfd", Min(free))
       /\ evfd' = [evfd EXCEPT ![Min(free)] = [used |-> TRUE, has |-> has]]
       /\ UNCHANGED ep

\* The table the new number goes into, and what follows once it is there.
Target(s) == IF op[s].k = "give" THEN op[s].to ELSE Of(s)
Installed(s, n) ==
    LET o == op[s]
    IN CASE o.k = "read"  -> [o EXCEPT !.pc = "new", !.k = "write", !.n = n, !.oi = None]
         [] o.k = "write" -> [o EXCEPT !.pc = "mark", !.m = n, !.oi = None]
         [] o.k = "give"  -> [o EXCEPT !.pc = "drop", !.m = n]
         [] OTHER -> User

\* fd_alloc_install, a round of its loop.
Install(s) ==
    LET t == Target(s)
        o == op[s]
    IN /\ At(s, "install")
       /\ IF of[o.oi].used /\ FreeNumbers(t) # {}
          THEN /\ Installs(t, tab[t], hint[t], [n \in {FreeNumber(t)} |-> o.oi])
               /\ Go(s, Installed(s, FreeNumber(t)))
          ELSE /\ Go(s, [o EXCEPT !.pc = IF of[o.oi].used THEN "full" ELSE "undo"])
               /\ UNCHANGED <<of, tab, hint, pipe, ep, evfd>>
       /\ UNCHANGED <<setting, redir, size, name, mail, life>>

\* It reads max_fds again after the unlock.
Full(s) ==
    /\ At(s, "full")
    /\ Go(s, [op[s] EXCEPT !.pc = IF size[Target(s)] >= FdMax THEN "undo" ELSE "grow"])
    /\ UNCHANGED <<setting, table, size, name, mail, life>>

\* files_expand; it fails when no frame is free.
Grow(s) ==
    /\ At(s, "grow")
    /\ \/ /\ size' = [size EXCEPT ![Target(s)] = FdMax]
          /\ Go(s, [op[s] EXCEPT !.pc = "install"])
       \/ /\ Go(s, [op[s] EXCEPT !.pc = "undo"])
          /\ UNCHANGED size
    /\ UNCHANGED <<setting, table, name, mail, life>>

Undone(s) == IF op[s].k = "give" THEN of ELSE [of EXCEPT ![op[s].oi] = Blank]

\* No number: the description goes back, and with it its instance.
Undo(s) ==
    LET o == op[s]
    IN /\ At(s, "undo")
       /\ of' = Undone(s)
       /\ ep' = IF o.k = "epoll" THEN [ep EXCEPT ![o.obj].used = FALSE] ELSE ep
       /\ evfd' = IF o.k = "evfd" THEN [evfd EXCEPT ![o.obj] = NoEvent] ELSE evfd
       /\ Go(s, IF o.k \in Ends THEN [o EXCEPT !.pc = "unpipe", !.oi = None] ELSE User)
       /\ UNCHANGED <<setting, tab, hint, pipe, redir, size, name, mail, life>>

\* pipe_create_for gives the ring back, and the read end's number if it has one.
Unpipe(s) ==
    LET o == op[s]
        ns == IF o.k = "write" THEN {o.n} ELSE {}
    IN /\ At(s, "unpipe")
       /\ Releases(Of(s), ns)
       /\ pipe' = [PipesAfter(Of(s), ns) EXCEPT ![o.obj] = NoPipe]
       /\ Go(s, User)
       /\ UNCHANGED <<setting, size, name, mail, life>>

Marked(i) == [pipe[i] EXCEPT !.r = 1, !.w = 1]

\* The two descriptions become the ends of the pipe.
Mark(s) ==
    LET o == op[s]
        ro == Named(Of(s), o.n)
        wo == Named(Of(s), o.m)
    IN /\ At(s, "mark")
       /\ IF None \in {ro, wo} THEN UNCHANGED <<of, pipe>>
          ELSE /\ of' = [of EXCEPT ![ro] = [@ EXCEPT !.obj = o.obj],
                                   ![wo] = [@ EXCEPT !.obj = o.obj, !.w = TRUE]]
               /\ pipe' = [pipe EXCEPT ![o.obj] = Marked(o.obj)]
       /\ Go(s, User)
       /\ UNCHANGED <<setting, tab, hint, ep, evfd, redir, size, name, mail, life>>

-----------------------------------------------------------------------------
(* Closing. *)

\* A sibling thread is in the middle of a pipe(), a redirection or a send of n.
\* The programs considered close no such number: the README says what happens.
InHand(s, n) == \E t \in Slot \ {s} : Of(t) = Of(s) /\ n \in {op[t].n, op[t].m}

Close(s, n) ==
    /\ Releases(Of(s), {n})
    /\ pipe' = PipesAfter(Of(s), {n})
    /\ Telling(s, Eof(of', pipe'))
    /\ UNCHANGED <<setting, size, name, mail, life>>

SysClose(s, n) ==
    /\ Calls(s, "close") /\ tab[Of(s)][n] # None /\ ~InHand(s, n)
    /\ Close(s, n)

\* The last of a process's threads is gone: ipc_teardown, descriptor_teardown.
\* No program considered exits while a descriptor is being sent to it.
Exit(s) ==
    /\ Calls(s, "exit") /\ Of(s) = s
    /\ \A t \in Slot : Of(t) = s => At(t, "user")
    /\ \A t \in Slot : op[t].to # s
    /\ Releases(s, Fd)
    /\ pipe' = PipesAfter(s, Fd)
    /\ Telling(s, Eof(of', pipe'))
    /\ mail' = [mail EXCEPT ![s] = <<>>]
    /\ size' = [size EXCEPT ![s] = Inline]
    /\ life' = [life EXCEPT ![s] = "dead"]
    /\ UNCHANGED <<setting, name>>

\* vfs_unlink, or a rename over f; the descriptions go in a second section.
Unlink(s, f) ==
    /\ Calls(s, "unlink") /\ f \in name
    /\ Undisturbed(f) /\ (setting.orphan \/ \A o \in Oi : of[o].obj # f)
    /\ name' = name \ {f}
    /\ Go(s, [User EXCEPT !.pc = "orphan", !.k = "file", !.obj = f])
    /\ UNCHANGED <<setting, table, size, mail, life>>

Orphan(s) ==
    /\ At(s, "orphan")
    /\ of' = [o \in Oi |-> IF of[o].used /\ of[o].kind = "file" /\ of[o].obj = op[s].obj
                           THEN Blank ELSE of[o]]
    /\ Go(s, User)
    /\ UNCHANGED <<setting, tab, hint, pipe, ep, evfd, redir, size, name, mail, life>>

-----------------------------------------------------------------------------
(* Using a descriptor. *)

\* ofile_deref; SYS_READ, SYS_WRITE_FILE, a redirected SYS_WRITE or SYS_SETREDIR
\* goes on in a section of its own.
Deref(s, n, k) ==
    /\ Calls(s, k) /\ Named(Of(s), n) # None
    /\ k \in Ends => of[Named(Of(s), n)].kind \in {"pipe", "evfd"}
    /\ Go(s, [User EXCEPT !.pc = "use", !.k = k, !.oi = Named(Of(s), n),
                          !.n = IF k = "redirect" THEN n ELSE None,
                          !.obj = of[Named(Of(s), n)].kind])
    /\ UNCHANGED <<setting, table, size, name, mail, life>>

\* The description still is one for this: an end of the right side, an eventfd.
Usable(s) ==
    LET o == of[op[s].oi]
    IN /\ o.used /\ o.kind = op[s].obj /\ o.obj # None
       /\ o.kind = "pipe" => o.w = (op[s].k = "write")

\* pipe_read_oi, evfd_read_oi: part of what is there, or all of it.
Read(s) ==
    /\ At(s, "use") /\ op[s].k = "read"
    /\ \E rest \in BOOLEAN :
          /\ pipe' = IF Usable(s) /\ op[s].obj = "pipe"
                     THEN [pipe EXCEPT ![of[op[s].oi].obj].has = @ /\ rest] ELSE pipe
          /\ evfd' = IF Usable(s) /\ op[s].obj = "evfd"
                     THEN [evfd EXCEPT ![of[op[s].oi].obj].has = @ /\ rest] ELSE evfd
    /\ Go(s, User)
    /\ UNCHANGED <<setting, of, tab, hint, ep, redir, size, name, mail, life>>

\* pipe_write_oi, evfd_write_oi: something is there, unless nobody will read it.
Write(s) ==
    LET o == of[op[s].oi]
    IN /\ At(s, "use") /\ op[s].k = "write"
       /\ IF Usable(s) /\ op[s].obj = "pipe" /\ pipe[o.obj].r > 0
          THEN /\ pipe' = [pipe EXCEPT ![o.obj].has = TRUE]
               /\ Telling(s, ReadEnds(o.obj, of))
               /\ UNCHANGED evfd
          ELSE IF Usable(s) /\ op[s].obj = "evfd"
          THEN /\ evfd' = [evfd EXCEPT ![o.obj].has = TRUE]
               /\ Telling(s, {op[s].oi})
               /\ UNCHANGED pipe
          ELSE Go(s, User) /\ UNCHANGED <<pipe, evfd>>
       /\ UNCHANGED <<setting, of, tab, hint, ep, redir, size, name, mail, life>>

\* SYS_SETREDIR stores the number it looked up; no lock is held.
Redirect(s) ==
    /\ At(s, "use") /\ op[s].k = "redirect"
    /\ redir' = [redir EXCEPT ![Of(s)] = op[s].n]
    /\ Go(s, User)
    /\ UNCHANGED <<setting, of, tab, hint, pipe, ep, evfd, size, name, mail, life>>

\* SYS_SETREDIR(-1): back to the console.
Console(s) ==
    /\ Calls(s, "redirect") /\ redir[Of(s)] # None
    /\ redir' = [redir EXCEPT ![Of(s)] = None]
    /\ UNCHANGED <<setting, of, tab, hint, pipe, ep, evfd, size, name, mail, life, op>>

\* The instance the number n of process p names.
Instance(p, n) == IF Named(p, n) # None /\ of[Named(p, n)].kind = "epoll"
                  THEN of[Named(p, n)].obj ELSE None

\* EPOLL_CTL_ADD of number n to the instance en names.
CtlAdd(s, en, n) ==
    LET e == Instance(Of(s), en)
    IN /\ Calls(s, "epoll") /\ e # None /\ Named(Of(s), n) # None
       /\ \A x \in ep[e].watch : x.fd # n
       /\ Cardinality(ep[e].watch) < MaxWatch
       /\ ep' = [ep EXCEPT ![e].watch = @ \cup {[fd |-> n, oi |-> Named(Of(s), n)]}]
       /\ UNCHANGED <<setting, of, tab, hint, pipe, evfd, redir, size, name, mail, life, op>>

CtlDel(s, en, n) ==
    LET e == Instance(Of(s), en)
    IN /\ Calls(s, "epoll") /\ e # None
       /\ \E x \in ep[e].watch : x.fd = n
       /\ ep' = [ep EXCEPT ![e].watch = {x \in @ : x.fd # n}]
       /\ UNCHANGED <<setting, of, tab, hint, pipe, evfd, redir, size, name, mail, life, op>>

-----------------------------------------------------------------------------
(* A process's descriptors reaching another: fork and IPC. *)

\* kproc_reset and the copy of the table, grown first where the parent's is.
Fork(s, ch) ==
    LET p == Of(s)
        ns == {n \in Fd : Named(p, n) # None}
    IN /\ Calls(s, "fork") /\ life[ch] # "live" /\ setting.leader[ch] = ch
       /\ At(ch, "user") /\ \A t \in Slot : op[t].to # ch
       /\ size' = [size EXCEPT ![ch] = size[p]]
       /\ Installs(ch, [n \in Fd |-> None], 0, [n \in ns |-> tab[p][n]])
       /\ Go(s, [User EXCEPT !.pc = "heir", !.to = ch])
       /\ UNCHANGED <<setting, redir, name, mail, life>>

\* Then the redirections, and the child runs.
Heir(s) ==
    /\ At(s, "heir")
    /\ redir' = [redir EXCEPT ![op[s].to] = redir[Of(s)]]
    /\ life' = [life EXCEPT ![op[s].to] = "live"]
    /\ Go(s, User)
    /\ UNCHANGED <<setting, of, tab, hint, pipe, ep, evfd, size, name, mail>>

\* SYS_IPC_SEND of a descriptor: the lookup ...
Send(s, q, n) ==
    /\ Calls(s, "send") /\ life[q] = "live" /\ q # Of(s) /\ Named(Of(s), n) # None
    /\ Go(s, [User EXCEPT !.pc = "install", !.k = "give", !.n = n, !.to = q,
                          !.oi = Named(Of(s), n)])
    /\ UNCHANGED <<setting, table, size, name, mail, life>>

\* ... then, installed in the recipient, the sender's number is released ...
Drop(s) ==
    /\ At(s, "drop")
    /\ Releases(Of(s), {op[s].n})
    /\ pipe' = PipesAfter(Of(s), {op[s].n})
    /\ Go(s, [op[s] EXCEPT !.pc = "post"])
    /\ UNCHANGED <<setting, size, name, mail, life>>

Room(q) == Len(mail[q]) < QLen

\* ... and the message posted, unless the queue is full.
Post(s) ==
    LET q == op[s].to
    IN /\ At(s, "post")
       /\ mail' = IF Room(q) THEN [mail EXCEPT ![q] = Append(@, op[s].m)] ELSE mail
       /\ Go(s, User)
       /\ UNCHANGED <<setting, table, size, name, life>>

\* SYS_IPC_RECV; a recipient without the capability asked for rejects.
Receive(s) ==
    /\ Calls(s, "receive") /\ mail[s] # <<>>
    /\ mail' = [mail EXCEPT ![s] = Tail(@)]
    /\ \/ Go(s, User)
       \/ Go(s, [User EXCEPT !.pc = "reject", !.n = Head(mail[s])])
    /\ UNCHANGED <<setting, table, size, name, life>>

Reject(s) == At(s, "reject") /\ Close(s, op[s].n)

-----------------------------------------------------------------------------
Making(s) ==
    \/ Pipe(s) \/ New(s) \/ EpollCreate(s) \/ Install(s) \/ Full(s) \/ Grow(s)
    \/ Undo(s) \/ Unpipe(s) \/ Mark(s)
    \/ \E f \in File : Open(s, f)
    \/ \E has \in BOOLEAN : Eventfd(s, has)
Closing(s) ==
    \/ Exit(s) \/ Orphan(s) \/ Notify(s)
    \/ \E n \in Fd : SysClose(s, n)
    \/ \E f \in File : Unlink(s, f)
Using(s) ==
    \/ Read(s) \/ Write(s) \/ Redirect(s) \/ Console(s)
    \/ \E n \in Fd : \/ \E k \in Ends \cup {"redirect"} : Deref(s, n, k)
                     \/ \E en \in Fd : CtlAdd(s, en, n) \/ CtlDel(s, en, n)
Sharing(s) ==
    \/ Heir(s) \/ Drop(s) \/ Post(s) \/ Receive(s) \/ Reject(s)
    \/ \E q \in Slot : Fork(s, q) \/ \E n \in Fd : Send(s, q, n)

Next == \E s \in Slot : Making(s) \/ Closing(s) \/ Using(s) \/ Sharing(s)

Spec == Init /\ [][Next]_vars

-----------------------------------------------------------------------------
(* Properties. *)

\* The descriptions, the tables and what they name stay typed, and no count
\* goes below zero.
TypeOK ==
    /\ setting \in Settings
    /\ of \in [Oi -> [used : BOOLEAN, kind : {"file", "pipe", "epoll", "evfd"},
                      obj : Pipes \cup Eps \cup Evs \cup File \cup {None}, w : BOOLEAN,
                      nref : Nat]]
    /\ tab \in [Slot -> [Fd -> Oi \cup {None}]]
    /\ \A p \in Slot : \A n \in Fd : n >= size[p] => tab[p][n] = None
    /\ size \in [Slot -> {Inline, FdMax}] /\ hint \in [Slot -> 0 .. FdMax]
    /\ pipe \in [Pipes -> [used : BOOLEAN, r : Nat, w : Nat, has : BOOLEAN]]
    /\ ep \in [Eps -> [used : BOOLEAN, watch : SUBSET [fd : Fd, oi : Oi]]]
    /\ \A e \in Eps : Cardinality(ep[e].watch) <= MaxWatch
    /\ evfd \in [Evs -> [used : BOOLEAN, has : BOOLEAN]]
    /\ name \subseteq File /\ redir \in [Slot -> Fd \cup {None}]
    /\ mail \in [Slot -> Seq(Fd)] /\ \A p \in Slot : Len(mail[p]) <= QLen
    /\ life \in [Slot -> {"unborn", "live", "dead"}]
    /\ \A s \in Slot : op[s].todo \subseteq Oi /\ op[s].oi \in Oi \cup {None}

Numbers(o) == {x \in Slot \X Fd : tab[x[1]][x[2]] = o}

\* A description's reference count is the number of table slots that name it,
\* and no slot names one that is gone: fork, transfer, failed creations and
\* exits, in any order, neither free a description in use nor keep one for ever.
RefsExact ==
    \A o \in Oi : IF of[o].used THEN of[o].nref = Cardinality(Numbers(o))
                  ELSE Numbers(o) = {}

\* While pipe() runs its ends are not counted yet.
BeingMade(i) == \E s \in Slot : /\ op[s].k \in Ends /\ ~At(s, "use")
                                /\ op[s].obj = i
EndSlots(i, w) == {x \in Slot \X Fd : tab[x[1]][x[2]] # None /\ EndOf(tab[x[1]][x[2]], i, w)}

\* A pipe's readers and writers are the descriptors that name its ends, so that
\* end of file and EPIPE are told exactly when no other right is left.
PipeEndsExact ==
    \A i \in Pipes : (pipe[i].used /\ ~BeingMade(i)) =>
        /\ pipe[i].r = Cardinality(EndSlots(i, FALSE))
        /\ pipe[i].w = Cardinality(EndSlots(i, TRUE))

Claimed(o) == \E s \in Slot : op[s].oi = o /\ op[s].pc \in {"install", "full", "grow", "undo"}
Home(kind, i) == {o \in Oi : of[o].used /\ of[o].kind = kind /\ of[o].obj = i}

\* Every description in use is named by a number or about to be, every pipe and
\* instance in use belongs to a description, and a dead process holds nothing.
NothingLeaks ==
    /\ \A o \in Oi : of[o].used => of[o].nref > 0 \/ Claimed(o)
    /\ \A i \in Pipes : pipe[i].used => BeingMade(i) \/ Home("pipe", i) # {}
    /\ \A e \in Eps : ep[e].used <=> Home("epoll", e) # {}
    /\ \A v \in Evs : evfd[v].used <=> Home("evfd", v) # {}
    /\ \A p \in Slot : life[p] = "dead" /\ (\A s \in Slot : op[s].to # p) =>
          mail[p] = <<>> /\ \A n \in Fd : tab[p][n] = None

\* No watch outlives the description it is on, and no redirection the number it
\* names: neither can come to stand for a stranger's object.
NoDangling ==
    /\ \A e \in Eps : \A x \in ep[e].watch : ep[e].used /\ of[x.oi].used
    /\ \A p \in Slot : redir[p] # None => tab[p][redir[p]] # None

\* A description sent to another process is in use, and the sender's, until the
\* recipient has it.
TransferHeld ==
    \A s \in Slot : (op[s].k = "give" /\ op[s].pc \in {"install", "full", "grow", "drop"})
        => of[op[s].oi].used /\ tab[Of(s)][op[s].n] = op[s].oi

Readable(o) ==
    /\ of[o].used /\ of[o].obj # None
    /\ CASE of[o].kind = "pipe" -> ~of[o].w /\ (pipe[of[o].obj].has \/ pipe[of[o].obj].w = 0)
         [] of[o].kind = "evfd" -> evfd[of[o].obj].has
         [] OTHER -> FALSE

\* A step that makes a watched description readable - bytes, a posted count, the
\* loss of the last writer - leaves its author about to notify the watchers.
Announced ==
    [][\A e \in Eps : \A x \in ep[e].watch \cap ep'[e].watch :
          (~Readable(x.oi) /\ Readable(x.oi)') => \E s \in Slot : x.oi \in op'[s].todo]_vars

\* A process whose descriptors were torn down names no description.
TeardownEmpties == \A p \in Slot : life[p] = "dead" => \A n \in Fd : tab[p][n] = None

\* A description is referenced exactly by the numbers and messages that name it, the ends of a pipe
\* are those of its descriptions, nothing outlives its last reference, no number names what is free,
\* and a descriptor sent to another process is held by one of the two throughout.
FdsSound == /\ TypeOK /\ RefsExact /\ PipeEndsExact /\ NothingLeaks /\ NoDangling
            /\ TransferHeld
=============================================================================
