-------------------------------- MODULE Exec --------------------------------
(***************************************************************************)
(* What a process runs, and as whom: SYS_EXECVE with its staging buffer,   *)
(* the ELF loader and the argument block; the six ids of a process, the    *)
(* calls that move them and the set-id bits of a program; the owner and    *)
(* the mode of the program files.  The ids live on the leader of a thread  *)
(* group and are mirrored on its threads.  Calls of one group do not       *)
(* overlap (no lock protects the ids), and a group with threads does not   *)
(* exec: see Procs.                                                        *)
(***************************************************************************)
EXTENDS Integers, Sequences, FiniteSets

CONSTANTS
    Slot,       \* kprocs[]; the first process is Boot
    Boot,
    Id,         \* user and group ids; 0 is root
    Prog,       \* names in the directory
    Installed,  \* the directory at the start
    Images,     \* what a file can hold: see Accepts
    Modes,      \* what chmod is asked for
    PageLen, UserMin, UserMax, SegMax,
    Alone,      \* TRUE: one execve at a time
    None, MaxCalls

VARIABLES
    leader,   \* tg_leader; None: the slot is free
    cred,     \* the real, effective and saved user and group ids
    dent,     \* owner, mode and content of each file, None: no such file
    buf,      \* g_execbuf and the slot that holds it
    kargv,    \* the slot whose arguments kargv and kenvp hold
    ex,       \* the execve of each slot
    space,    \* the pages of the image each process runs
    args,     \* the slot whose arguments each process started with
    ran,      \* history: the image each process was to run, and who asked
    gone,     \* history: the kinds of root id each process gave up
    calls
vars == <<leader, cred, dent, buf, kargv, ex, space, args, ran, gone, calls>>

Live == {s \in Slot : leader[s] # None}
Group(s) == {t \in Live : leader[t] = leader[s]}
Idle == [pc |-> "idle"]
Free(s) == leader[s] = None

Calls(p) ==
    /\ p \in Live /\ ex[p] = Idle
    /\ calls < MaxCalls /\ calls' = calls + 1

-----------------------------------------------------------------------------
(* Files *)

Default == [own |-> {"r", "w"}, grp |-> {"r"}, oth |-> {"r"}, suid |-> FALSE, sgid |-> FALSE]
Unset   == [own |-> {}, grp |-> {}, oth |-> {}, suid |-> FALSE, sgid |-> FALSE]

\* A mode of zero reads as the default.
ModeOf(d) == IF d.mode = Unset THEN Default ELSE d.mode

\* The first class that matches decides; root passes.
Permits(d, u, g, right) ==
    LET m == ModeOf(d)
    IN \/ u = 0
       \/ d.uid = u /\ right \in m.own
       \/ d.uid # u /\ d.gid = g /\ right \in m.grp
       \/ d.uid # u /\ d.gid # g /\ right \in m.oth

Euid(p) == cred[leader[p]].u.e
Egid(p) == cred[leader[p]].g.e

\* SYS_CHMOD keeps the nine permission bits: set-id bits do not survive it.
Chmod(p, f, m) ==
    /\ Calls(p) /\ dent[f] # None
    /\ Euid(p) \in {0, dent[f].uid}
    /\ dent' = [dent EXCEPT ![f].mode = [m EXCEPT !.suid = FALSE, !.sgid = FALSE]]
    /\ UNCHANGED <<leader, cred, buf, kargv, ex, space, args, ran, gone>>

Chown(p, f, u, g) ==
    /\ Calls(p) /\ dent[f] # None /\ Euid(p) = 0
    /\ dent' = [dent EXCEPT ![f].uid = u, ![f].gid = g]
    /\ UNCHANGED <<leader, cred, buf, kargv, ex, space, args, ran, gone>>

Rewrite(p, f, h) ==
    /\ Calls(p) /\ dent[f] # None
    /\ Permits(dent[f], Euid(p), Egid(p), "w")
    /\ dent' = [dent EXCEPT ![f].image = h]
    /\ UNCHANGED <<leader, cred, buf, kargv, ex, space, args, ran, gone>>

\* Removing a file is a write to it.
Unlink(p, f) ==
    /\ Calls(p) /\ dent[f] # None
    /\ Permits(dent[f], Euid(p), Egid(p), "w")
    /\ dent' = [dent EXCEPT ![f] = None]
    /\ UNCHANGED <<leader, cred, buf, kargv, ex, space, args, ran, gone>>

-----------------------------------------------------------------------------
(* The ELF loader: numbers are in bytes, a page has PageLen of them *)

Segs(h) == {h.segs[i] : i \in DOMAIN h.segs}
Covers(g) == g.type = "load" /\ (g.memsz > 0 \/ g.filesz > 0)

HeaderOk(h) == h.elf64 /\ h.table /\ h.entry >= UserMin /\ h.entry < UserMax

\* No interpreter, nothing to relocate, not writable and executable, in bounds.
SegOk(h, g) ==
    /\ g.type \notin {"interp", "dynamic"}
    /\ Covers(g) =>
          /\ g.off + g.filesz <= h.size
          /\ g.memsz >= g.filesz
          /\ ~(g.w /\ g.x)
          /\ g.memsz <= SegMax
          /\ g.vaddr >= UserMin /\ g.vaddr + g.memsz <= UserMax

Accepts(h) ==
    /\ HeaderOk(h)
    /\ \A g \in Segs(h) : SegOk(h, g)
    /\ \E g \in Segs(h) : Covers(g)

PageAt(a) == a - (a % PageLen)
PagesOf(g) == {v \in UserMin .. UserMax :
                  /\ v % PageLen = 0
                  /\ v >= PageAt(g.vaddr)
                  /\ v < PageAt(g.vaddr + g.memsz + PageLen - 1)}

\* The byte at b of the page v: from the file up to filesz, zero outside.
FileByte(h, i) == 100 * h.id + i
Filled(h, g, v, b) ==
    LET segOff == IF v > g.vaddr THEN v - g.vaddr ELSE 0
        skip   == IF g.vaddr > v THEN g.vaddr - v ELSE 0
        i      == segOff + b - skip
    IN IF v + b >= g.vaddr /\ i < g.filesz THEN FileByte(h, g.off + i) ELSE 0

\* A page two segments touch is the later one's.
LoadedBy(h, v) ==
    CHOOSE i \in DOMAIN h.segs :
        /\ Covers(h.segs[i]) /\ v \in PagesOf(h.segs[i])
        /\ \A j \in DOMAIN h.segs : j > i => ~(Covers(h.segs[j]) /\ v \in PagesOf(h.segs[j]))
Mapped(h) == UNION {PagesOf(g) : g \in {k \in Segs(h) : Covers(k)}}
Loaded(h) ==
    [v \in Mapped(h) |->
        LET g == h.segs[LoadedBy(h, v)]
        IN [w |-> g.w, x |-> g.x, byte |-> [b \in 0 .. PageLen - 1 |-> Filled(h, g, v, b)]]]

-----------------------------------------------------------------------------
(* SYS_EXECVE *)

\* Arguments are copied first, then the file is found and its ids are read.
Exec(p, f) ==
    /\ Calls(p) /\ Group(p) = {p}
    /\ Alone => \A q \in Slot : ex[q] = Idle
    /\ kargv' = p
    /\ \/ dent[f] = None /\ ex' = ex
       \/ dent[f] # None /\ ex' = [ex EXCEPT ![p] = [pc |-> "wait", file |-> f,
                uid |-> dent[f].uid, gid |-> dent[f].gid, mode |-> ModeOf(dent[f])]]
    /\ UNCHANGED <<leader, cred, dent, buf, space, args, ran, gone>>

\* execbuf_acquire.
TakeBuf(p) ==
    /\ ex[p].pc = "wait" /\ buf.holder = None
    /\ buf' = [buf EXCEPT !.holder = p]
    /\ ex' = [ex EXCEPT ![p].pc = "read"]
    /\ UNCHANGED <<leader, cred, dent, kargv, space, args, ran, gone, calls>>

\* Any failure before the end leaves the caller what it was.
Refuse(p) == buf' = [buf EXCEPT !.holder = None] /\ ex' = [ex EXCEPT ![p] = Idle]

\* The image is read into the staging buffer, or cannot be.
Fetch(p) ==
    /\ ex[p].pc = "read"
    /\ LET d == dent[ex[p].file]
       IN \/ /\ d # None
             /\ buf' = [buf EXCEPT !.image = d.image]
             /\ ex' = [ex EXCEPT ![p] = [file |-> ex[p].file, uid |-> ex[p].uid,
                   gid |-> ex[p].gid, mode |-> ex[p].mode, pc |-> "load", wants |-> d.image]]
          \/ Refuse(p)
    /\ UNCHANGED <<leader, cred, dent, kargv, space, args, ran, gone, calls>>

\* A fresh space, the image parsed into it, the buffer released.
Load(p) ==
    /\ ex[p].pc = "load"
    /\ \/ Refuse(p)
       \/ /\ Accepts(buf.image)
          /\ buf' = [buf EXCEPT !.holder = None]
          /\ ex' = [ex EXCEPT ![p] = [uid |-> ex[p].uid, gid |-> ex[p].gid,
                mode |-> ex[p].mode, pc |-> "commit", wants |-> ex[p].wants,
                pages |-> Loaded(buf.image)]]
    /\ UNCHANGED <<leader, cred, dent, kargv, space, args, ran, gone, calls>>

\* The effective ids of a program with set-id bits; a root owner is refused.
Taken(c, e) ==
    LET ue == IF e.mode.suid /\ e.uid # 0 THEN e.uid ELSE c.u.e
        ge == IF e.mode.sgid /\ e.gid # 0 THEN e.gid ELSE c.g.e
    IN [u |-> [c.u EXCEPT !.e = ue, !.s = ue], g |-> [c.g EXCEPT !.e = ge, !.s = ge]]

\* The point of no return: the arguments, the image, then the ids of the group.
Commit(p) ==
    /\ ex[p].pc = "commit"
    /\ args' = [args EXCEPT ![p] = kargv]
    /\ space' = [space EXCEPT ![p] = ex[p].pages]
    /\ cred' = [s \in Slot |-> IF s \in Group(p) THEN Taken(cred[leader[p]], ex[p])
                               ELSE cred[s]]
    /\ ran' = [ran EXCEPT ![p] = [image |-> ex[p].wants, by |-> p]]
    /\ ex' = [ex EXCEPT ![p] = Idle]
    /\ UNCHANGED <<leader, dent, buf, kargv, gone, calls>>

-----------------------------------------------------------------------------
(* The ids of a process *)

IdsOf(c) == {c.r, c.e, c.s}

\* setuid and setgid of a privileged process move all three, the rest only the
\* effective id, and only to one the process has.
Moved(c, priv, eff, want) ==
    IF priv /\ ~eff THEN [r |-> want, e |-> want, s |-> want] ELSE [c EXCEPT !.e = want]

SetId(p, kind, eff, want) ==
    LET c == cred[leader[p]]
        priv == c.u.e = 0
        new == [c EXCEPT ![kind] = Moved(c[kind], priv, eff, want)]
    IN /\ Calls(p) /\ \A t \in Group(p) : ex[t] = Idle
       /\ priv \/ want \in IdsOf(c[kind])
       /\ cred' = [s \in Slot |-> IF s \in Group(p) THEN new ELSE cred[s]]
       /\ gone' = [s \in Slot |->
             IF s \notin Group(p) \/ 0 \in IdsOf(new.u) \/ ~priv THEN gone[s]
             ELSE gone[s] \cup {"u"} \cup {k \in {"g"} : 0 \notin IdsOf(new.g)}]
       /\ UNCHANGED <<leader, dent, buf, kargv, ex, space, args, ran>>

\* A child gets the ids of the group's leader, image and arguments with them.
Fork(p, ch) ==
    /\ Calls(p) /\ Group(p) = {p} /\ Free(ch)
    /\ leader' = [leader EXCEPT ![ch] = ch]
    /\ cred' = [cred EXCEPT ![ch] = cred[leader[p]]]
    /\ space' = [space EXCEPT ![ch] = space[p]]
    /\ args' = [args EXCEPT ![ch] = args[p]]
    /\ ran' = [ran EXCEPT ![ch] = ran[p]]
    /\ gone' = [gone EXCEPT ![ch] = gone[p]]
    /\ UNCHANGED <<dent, buf, kargv, ex>>

Thread(p, t) ==
    /\ Calls(p) /\ Free(t)
    /\ leader' = [leader EXCEPT ![t] = leader[p]]
    /\ cred' = [cred EXCEPT ![t] = cred[leader[p]]]
    /\ space' = [space EXCEPT ![t] = space[leader[p]]]
    /\ args' = [args EXCEPT ![t] = args[leader[p]]]
    /\ ran' = [ran EXCEPT ![t] = ran[leader[p]]]
    /\ gone' = [gone EXCEPT ![t] = gone[leader[p]]]
    /\ UNCHANGED <<dent, buf, kargv, ex>>

\* A slot is root's again when it is claimed anew.
RootIds == [u |-> [r |-> 0, e |-> 0, s |-> 0], g |-> [r |-> 0, e |-> 0, s |-> 0]]
Exit(p) ==
    /\ Calls(p) /\ (leader[p] = p => Group(p) = {p})
    /\ leader' = [leader EXCEPT ![p] = None]
    /\ cred' = [cred EXCEPT ![p] = RootIds]
    /\ gone' = [gone EXCEPT ![p] = {}]
    /\ UNCHANGED <<dent, buf, kargv, ex, space, args, ran>>

-----------------------------------------------------------------------------
Nothing == [image |-> [id |-> 0, segs |-> <<>>], by |-> Boot]

Init ==
    /\ leader = [s \in Slot |-> IF s = Boot THEN s ELSE None]
    /\ cred = [s \in Slot |-> RootIds]
    /\ dent = Installed
    /\ buf = [holder |-> None, image |-> None]
    /\ kargv = Boot
    /\ ex = [s \in Slot |-> Idle]
    /\ space = [s \in Slot |-> <<>>]
    /\ args = [s \in Slot |-> Boot]
    /\ ran = [s \in Slot |-> Nothing]
    /\ gone = [s \in Slot |-> {}]
    /\ calls = 0

Next ==
    \E p \in Slot :
        \/ \E f \in Prog :
              \/ Exec(p, f) \/ Unlink(p, f)
              \/ \E m \in Modes : Chmod(p, f, m)
              \/ \E u, g \in Id : Chown(p, f, u, g)
              \/ \E h \in Images : Rewrite(p, f, h)
        \/ TakeBuf(p) \/ Fetch(p) \/ Load(p) \/ Commit(p)
        \/ \E kind \in {"u", "g"}, eff \in BOOLEAN, want \in Id : SetId(p, kind, eff, want)
        \/ \E t \in Slot : Fork(p, t) \/ Thread(p, t)
        \/ Exit(p)

Spec == Init /\ [][Next]_vars

-----------------------------------------------------------------------------
\* The bytes an image asks for, address by address: what the loader is to map.
Wanted(h, a) ==
    LET by == {g \in Segs(h) : Covers(g) /\ a >= g.vaddr /\ a < g.vaddr + g.filesz}
    IN IF by = {} THEN 0
       ELSE LET g == CHOOSE k \in by : TRUE IN FileByte(h, g.off + (a - g.vaddr))

\* Two segments that touch one page: the loader gives it to the later alone.
Apart(h) ==
    \A i, j \in DOMAIN h.segs :
        i # j /\ Covers(h.segs[i]) /\ Covers(h.segs[j])
            => PagesOf(h.segs[i]) \cap PagesOf(h.segs[j]) = {}

\* A process runs the image its own execve read, byte for byte and zero beyond
\* the file, whatever the other cores load through the one staging buffer.
ImageMine ==
    \A s \in Live :
        LET h == ran[s].image
        IN /\ DOMAIN space[s] = Mapped(h)
           /\ Apart(h) => \A v \in Mapped(h), b \in 0 .. PageLen - 1 :
                 space[s][v].byte[b] = Wanted(h, v + b)

\* It starts with the arguments of that execve, if no other ran beside it: kargv
\* and kenvp are one static copy, filled before the buffer is taken.
ArgsMine == Alone => \A s \in Live : args[s] = ran[s].by

\* Root given up for good stays given up: by the process, its threads, its
\* children and what they exec.
NoReturn ==
    \A s \in Live :
        /\ "u" \in gone[s] => 0 \notin IdsOf(cred[s].u)
        /\ "g" \in gone[s] => 0 \notin IdsOf(cred[s].g)

\* And nothing else takes the way back to root from a process born root.
Reversible == \A s \in Live : "u" \notin gone[s] => 0 \in IdsOf(cred[s].u)

\* A thread's slot shows the ids of its leader.
Mirrored == \A s \in Live : cred[s] = cred[leader[s]]

\* One image, one set of arguments, ids that only narrow.
ExecSound == ImageMine /\ ArgsMine /\ NoReturn /\ Reversible /\ Mirrored
=============================================================================
