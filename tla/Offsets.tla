------------------------------ MODULE Offsets ------------------------------
(***************************************************************************)
(* The position of an open description.  Fork and threads share it, and a  *)
(* read or a write takes it in one section of g_ofile_lock, moves the      *)
(* bytes in a section of the file layer and stores it in a third; a seek   *)
(* looks its number up twice.  An append takes the end of the file in the  *)
(* section that writes.  ByteFiles says what the file layer does with the  *)
(* bytes; descriptors that are not files are in Fds.                       *)
(***************************************************************************)
EXTENDS Naturals, Integers, Sequences

CONSTANTS
    Thread, ProcOf, First,   \* threads, their process, the process at the start
    Desc, Fd, File,          \* g_ofiles, numbers, files
    Lens,                    \* how much a call moves
    Moves, Sizes,            \* what a seek and a truncation ask for
    Overlap,                 \* TRUE: a number may be closed under a call of a sibling
    None, MaxCalls

VARIABLES
    file,    \* the bytes; a written one names the call that wrote it
    desc,    \* used, dirent, off and O_APPEND of each description
    fd,      \* the numbers of each process, None: not forked yet
    at,      \* the call of each thread
    told,    \* history: the position its last call left, as the caller reckons
    raced,   \* history: the descriptions that had two calls at once
    stays,   \* history: the bytes appended, and where
    calls
vars == <<file, desc, fd, at, told, raced, stays, calls>>

B == INSTANCE ByteFiles WITH Data <- {}

Process == {ProcOf[t] : t \in Thread}
Idle == [pc |-> "idle"]
Sibling(t) == {u \in Thread \ {t} : ProcOf[u] = ProcOf[t]}
On(u, x) == at[u] # Idle /\ "fd" \in DOMAIN at[u] /\ at[u].fd = x
Opening(u) == at[u].pc \in {"claim", "flag"}
Under(d) == {u \in Thread : at[u] # Idle /\ ~Opening(u) /\ at[u].d = d}
Lookup(t, x) == fd[ProcOf[t]][x]

Calls(t) ==
    /\ at[t] = Idle /\ fd[ProcOf[t]] # None
    /\ calls < MaxCalls /\ calls' = calls + 1

Go(t, c) == at' = [at EXCEPT ![t] = c]
Done(t) == Go(t, Idle)

-----------------------------------------------------------------------------
(* SYS_OPEN: the file, a number for it, then the flag *)

Open(t, f, trunc, append) ==
    /\ Calls(t)
    /\ file' = IF trunc THEN [file EXCEPT ![f] = <<>>] ELSE file
    /\ stays' = IF trunc THEN {e \in stays : e.file # f} ELSE stays
    /\ Go(t, [pc |-> "claim", file |-> f, append |-> append])
    /\ UNCHANGED <<desc, fd, told, raced>>

Claim(t) ==
    LET p == ProcOf[t]
        nums == {x \in Fd : fd[p][x] = None}
        ds == {d \in Desc : desc[d] = None}
        x == CHOOSE y \in nums : \A z \in nums : y <= z
        d == CHOOSE y \in ds : \A z \in ds : y <= z
    IN /\ at[t].pc = "claim"
       /\ \/ /\ nums = {} \/ ds = {}
             /\ Done(t) /\ UNCHANGED <<desc, fd, told, raced>>
          \/ /\ nums # {} /\ ds # {}
             /\ desc' = [desc EXCEPT ![d] = [file |-> at[t].file, off |-> 0, append |-> FALSE]]
             /\ fd' = [fd EXCEPT ![p][x] = d]
             /\ told' = [told EXCEPT ![d] = 0] /\ raced' = raced \ {d}
             /\ IF at[t].append THEN Go(t, [pc |-> "flag", fd |-> x]) ELSE Done(t)
       /\ UNCHANGED <<file, stays, calls>>

\* vfs_apply_oflags looks the number up again.
Flag(t) ==
    /\ at[t].pc = "flag"
    /\ LET d == Lookup(t, at[t].fd)
       IN desc' = IF d = None THEN desc ELSE [desc EXCEPT ![d].append = TRUE]
    /\ Done(t)
    /\ UNCHANGED <<file, fd, told, raced, stays, calls>>

Close(t, x) ==
    LET d == Lookup(t, x)
    IN /\ Calls(t) /\ d # None
       /\ Overlap \/ \A u \in Sibling(t) : ~On(u, x)
       /\ fd' = [fd EXCEPT ![ProcOf[t]][x] = None]
       /\ desc' = IF \E p \in Process : fd'[p] # None /\ \E y \in Fd : fd'[p][y] = d
                  THEN desc ELSE [desc EXCEPT ![d] = None]
       /\ UNCHANGED <<file, at, told, raced, stays>>

Fork(t, p) ==
    /\ Calls(t) /\ fd[p] = None /\ \A u \in Sibling(t) : at[u] = Idle
    /\ fd' = [fd EXCEPT ![p] = fd[ProcOf[t]]]
    /\ UNCHANGED <<file, desc, at, told, raced, stays>>

-----------------------------------------------------------------------------
(* Calls on a number: ofile_deref, then section by section *)

Deref(t, x, c) ==
    LET d == Lookup(t, x)
    IN /\ Calls(t) /\ d # None
       /\ Overlap \/ \A u \in Sibling(t) : ~(On(u, x) /\ Opening(u))
       /\ Go(t, [c EXCEPT !.fd = x, !.d = d, !.file = desc[d].file,
                          !.asked = desc[d].append, !.off = desc[d].off,
                          !.by = calls'])
       /\ raced' = IF Under(d) = {} THEN raced ELSE raced \cup {d}
       /\ UNCHANGED <<file, desc, fd, told, stays>>

Call(pc, n) == [pc |-> pc, n |-> n, op |-> pc, whence |-> 0, fd |-> 0, d |-> 0, file |-> None,
                asked |-> FALSE, off |-> 0, by |-> 0]

Read(t, x, n) == Deref(t, x, Call("read", n))
Write(t, x, n) == Deref(t, x, Call("write", n))
Seek(t, x, whence, n) == Deref(t, x, [Call("seek", n) EXCEPT !.whence = whence])
Truncate(t, x, n) == Deref(t, x, Call("size", n))

To(t, pc) == Go(t, [at[t] EXCEPT !.pc = pc])

\* Does the description append?  May the caller write the file?
Mode(t) ==
    LET d == at[t].d
    IN /\ at[t].pc = "write"
       /\ Done(t) \/ To(t, IF desc[d] # None /\ desc[d].append THEN "append" ELSE "take")
       /\ UNCHANGED <<file, desc, fd, told, raced, stays, calls>>

Take(t) ==
    LET d == at[t].d
    IN /\ at[t].pc \in {"take", "read"}
       /\ Go(t, [at[t] EXCEPT !.off = IF desc[d] = None THEN 0 ELSE desc[d].off,
                              !.pc = IF at[t].op = "read" THEN "in" ELSE "out"])
       /\ UNCHANGED <<file, desc, fd, told, raced, stays, calls>>

Least(m, n) == IF m < n THEN m ELSE n

\* vfs_read_range, tmp_read_range.
In(t) ==
    LET got == Least(at[t].n, Len(file[at[t].file]) - at[t].off)
    IN /\ at[t].pc = "in"
       /\ IF got <= 0 THEN Done(t)
          ELSE Go(t, [at[t] EXCEPT !.pc = "store", !.n = got])
       /\ UNCHANGED <<file, desc, fd, told, raced, stays, calls>>

Written(t) == [i \in 1 .. at[t].n |-> at[t].by]
Cells(t, off) == {[file |-> at[t].file, at |-> off + i] : i \in 1 .. at[t].n}
Marks(t, off) == {[file |-> at[t].file, at |-> off + i, by |-> at[t].by] : i \in 1 .. at[t].n}

\* vfs_write_at: the bytes it covers are no longer those appended there.
Out(t) ==
    /\ at[t].pc = "out"
    /\ file' = [file EXCEPT ![at[t].file] = B!Over(@, at[t].off, Written(t))]
    /\ stays' = IF at[t].asked THEN stays \cup Marks(t, at[t].off)
                ELSE {e \in stays : [file |-> e.file, at |-> e.at] \notin Cells(t, at[t].off)}
    /\ To(t, "store")
    /\ UNCHANGED <<desc, fd, told, raced, calls>>

End(t) == Len(file[at[t].file])

\* vfs_write_append: the end and the write in one section.
Append0(t, off) ==
    /\ at[t].pc = "append"
    /\ file' = [file EXCEPT ![at[t].file] = B!Over(@, off, Written(t))]
    /\ stays' = stays \cup Marks(t, off)
    /\ Go(t, [at[t] EXCEPT !.pc = "store", !.off = off])
    /\ UNCHANGED <<desc, fd, told, raced, calls>>
AppendAt(t) == Append0(t, End(t))

\* What the caller makes of the answer, if no other call was on the description.
Reckon(t, d, start) == told' = [told EXCEPT ![d] = IF d \in raced THEN 0 ELSE start + at[t].n]

Store(t) ==
    LET d == at[t].d
        pos == at[t].off + at[t].n
    IN /\ at[t].pc = "store"
       /\ desc' = IF desc[d] = None THEN desc ELSE [desc EXCEPT ![d].off = pos]
       /\ Reckon(t, d, IF at[t].asked /\ at[t].op = "write" THEN at[t].off ELSE told[d])
       /\ Done(t)
       /\ UNCHANGED <<file, fd, raced, stays, calls>>

\* From the start, from where the description was, from the end of the file.
Base(t) == CASE at[t].whence = 0 -> 0
             [] at[t].whence = 1 -> at[t].off
             [] at[t].whence = 2 -> End(t)

Resolve(t) ==
    LET want == Base(t) + at[t].n
    IN /\ at[t].pc = "seek"
       /\ IF want < 0 THEN Done(t) ELSE Go(t, [at[t] EXCEPT !.pc = "set", !.off = want])
       /\ UNCHANGED <<file, desc, fd, told, raced, stays, calls>>

\* The number is looked up again.
Set(t) ==
    LET d == Lookup(t, at[t].fd)
        from == CASE at[t].whence = 0 -> 0
                  [] at[t].whence = 1 -> told[d]
                  [] at[t].whence = 2 -> at[t].off - at[t].n
    IN /\ at[t].pc = "set"
       /\ IF d = None THEN UNCHANGED <<desc, told>>
          ELSE /\ desc' = [desc EXCEPT ![d].off = at[t].off]
               /\ Reckon(t, d, from)
       /\ Done(t)
       /\ UNCHANGED <<file, fd, raced, stays, calls>>

Resized(s, n) == [i \in 1 .. n |-> B!ByteAt(s, i)]
Size(t) ==
    LET f == at[t].file
    IN /\ at[t].pc = "size"
       /\ \/ UNCHANGED <<file, stays>>   \* refused
          \/ /\ file' = [file EXCEPT ![f] = Resized(@, at[t].n)]
             /\ stays' = {e \in stays : e.file = f => e.at <= at[t].n}
       /\ Done(t)
       /\ UNCHANGED <<desc, fd, told, raced, calls>>

-----------------------------------------------------------------------------
\* The first process has opened an empty file, in either way.
Init ==
    /\ file = [f \in File |-> <<>>]
    /\ \E append \in BOOLEAN, d \in Desc, x \in Fd :
          /\ \A e \in Desc : d <= e
          /\ \A y \in Fd : x <= y
          /\ desc = [e \in Desc |->
                IF e = d THEN [file |-> CHOOSE f \in File : TRUE, off |-> 0, append |-> append]
                ELSE None]
          /\ fd = [p \in Process |->
                IF p = First THEN [y \in Fd |-> IF y = x THEN d ELSE None] ELSE None]
    /\ at = [t \in Thread |-> Idle]
    /\ told = [d \in Desc |-> 0]
    /\ raced = {}
    /\ stays = {}
    /\ calls = 0

Next ==
    \E t \in Thread :
        \/ \E f \in File, trunc, append \in BOOLEAN : Open(t, f, trunc, append)
        \/ Claim(t) \/ Flag(t)
        \/ \E p \in Process : Fork(t, p)
        \/ \E x \in Fd :
              \/ Close(t, x)
              \/ \E n \in Lens : Read(t, x, n) \/ Write(t, x, n)
              \/ \E w \in 0 .. 2, n \in Moves : Seek(t, x, w, n)
              \/ \E n \in Sizes : Truncate(t, x, n)
        \/ Mode(t) \/ Take(t) \/ In(t) \/ Out(t) \/ AppendAt(t) \/ Store(t)
        \/ Resolve(t) \/ Set(t) \/ Size(t)

Spec == Init /\ [][Next]_vars

-----------------------------------------------------------------------------
\* One call at a time on a description, by whichever of the threads and
\* processes that share it: its position is the one their answers add up to.
Reckoned ==
    \A d \in Desc :
        desc[d] # None /\ d \notin raced /\ Under(d) = {} => desc[d].off = told[d]

\* Bytes appended through O_APPEND stay where they landed, however many append
\* at once and through how many descriptions, until the file is cut or a write
\* that does not append goes over them.
AppendsStay ==
    \A e \in stays : e.at <= Len(file[e.file]) /\ file[e.file][e.at] = e.by

\* Positions add up and appends are kept, while no number is closed under a call.
PositionsSound == ~Overlap => Reckoned /\ AppendsStay
=============================================================================
