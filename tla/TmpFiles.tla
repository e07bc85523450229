------------------------------ MODULE TmpFiles ------------------------------
(***************************************************************************)
(* The tmp volume of metal/kernel/kernel64.c: a few RAM-only files, each a *)
(* flat buffer with a length and the uid of its creator.  A descriptor     *)
(* holds the index of a slot, and slots are recycled: a call looks its     *)
(* descriptor up under g_ofile_lock, lets that lock go and then acts on    *)
(* the slot under g_vfs_lock, so another process may have unlinked the     *)
(* file, and a third created one, in between.  A step is one section.      *)
(*                                                                         *)
(* A byte is the uid that wrote it, None what was never written or has     *)
(* been cleared.  Root's uid is 0 and passes every check.                  *)
(***************************************************************************)
EXTENDS Integers, Sequences, FiniteSets

CONSTANTS
    Proc,      \* processes
    Uid(_),    \* the effective uid each started with
    Drop,      \* processes that may set their uid to another one, see SetUid
    Name,      \* file names
    Slot,      \* slots of the table (TMP_MAXFILES)
    MaxBytes,  \* TMP_MAXBYTES
    Lens,      \* lengths of the writes
    MaxCalls,  \* bound on the calls of a run
    None

VARIABLES
    euid,  \* process -> effective uid
    slot,  \* the table
    fd,    \* process -> the slot its descriptor names, or None
    at,    \* process -> the call it has looked a descriptor up for
    left   \* calls still allowed

vars == <<euid, slot, fd, at, left>>

Blank == [used |-> FALSE, name |-> None, uid |-> 0, len |-> 0,
          data |-> [i \in 1 .. MaxBytes |-> None]]

Init ==
    /\ euid = [p \in Proc |-> Uid(p)]
    /\ slot = [t \in Slot |-> Blank]
    /\ fd = [p \in Proc |-> None]
    /\ at = [p \in Proc |-> None]
    /\ left = MaxCalls

Call == left > 0 /\ left' = left - 1
Find(n) == {t \in Slot : slot[t].used /\ slot[t].name = n}
Unused == {t \in Slot : ~slot[t].used}

\* Owner or root, and nobody judges a slot that is not in use.
Permit(t, p) == ~slot[t].used \/ euid[p] = 0 \/ euid[p] = slot[t].uid

\* The name is resolved or created, judged and truncated in one section; only
\* the length goes, the bytes stay.  The descriptor is claimed afterwards.
Open(p, n, trunc) ==
    /\ Call /\ fd[p] = None /\ at[p] = None
    /\ \/ \E t \in Find(n) :
             IF Permit(t, p)
             THEN /\ slot' = [slot EXCEPT ![t].len = IF trunc THEN 0 ELSE @]
                  /\ at' = [at EXCEPT ![p] = [op |-> "claim", t |-> t]]
             ELSE UNCHANGED <<slot, at>>
       \/ /\ Find(n) = {} /\ Unused # {}
          /\ \E t \in Unused :
                /\ \A u \in Unused : t <= u
                /\ slot' = [slot EXCEPT ![t].used = TRUE, ![t].name = n, ![t].len = 0,
                                        ![t].uid = euid[p]]
                /\ at' = [at EXCEPT ![p] = [op |-> "claim", t |-> t]]
    /\ UNCHANGED <<euid, fd>>

Claim(p) ==
    /\ at[p] # None /\ at[p].op = "claim"
    /\ fd' = [fd EXCEPT ![p] = at[p].t]
    /\ at' = [at EXCEPT ![p] = None]
    /\ UNCHANGED <<euid, slot, left>>

Close(p) ==
    /\ at[p] = None /\ fd[p] # None
    /\ fd' = [fd EXCEPT ![p] = None]
    /\ UNCHANGED <<euid, slot, at, left>>

\* fork: the child has the descriptor; it may have given up its uid by the
\* time it uses it.
Inherit(p, q) ==
    /\ at[p] = None /\ at[q] = None /\ fd[p] # None /\ fd[q] = None
    /\ fd' = [fd EXCEPT ![q] = fd[p]]
    /\ UNCHANGED <<euid, slot, at, left>>

SetUid(p) ==
    /\ p \in Drop /\ euid[p] = 0 /\ at[p] = None
    /\ \E q \in Proc \ Drop : euid' = [euid EXCEPT ![p] = Uid(q)]
    /\ UNCHANGED <<slot, fd, at, left>>

\* The first section of a call on a descriptor.
Lookup(p, call) ==
    /\ Call /\ at[p] = None /\ fd[p] # None
    /\ at' = [at EXCEPT ![p] = [call EXCEPT !.t = fd[p]]]
    /\ UNCHANGED <<euid, slot, fd>>

May(p) == slot[at[p].t].used /\ Permit(at[p].t, p)

\* Bytes 1 .. len of the slot are replaced from off on; a gap is cleared.
Written(s, off, n, u) ==
    [s EXCEPT !.data = [i \in 1 .. MaxBytes |->
                           IF i > off /\ i <= off + n THEN u
                           ELSE IF i > s.len /\ i <= off THEN None ELSE s.data[i]],
              !.len = IF off + n > s.len THEN off + n ELSE s.len]

Cut(s, n) ==
    [s EXCEPT !.data = [i \in 1 .. MaxBytes |->
                           IF (i > n /\ i <= s.len) \/ (i > s.len /\ i <= n) THEN None
                           ELSE s.data[i]],
              !.len = n]

Act(p, op) == at[p] # None /\ at[p].op = op /\ at' = [at EXCEPT ![p] = None]

WriteAt(p) ==
    /\ Act(p, "write")
    /\ slot' = IF May(p) /\ at[p].off + at[p].n <= MaxBytes
               THEN [slot EXCEPT ![at[p].t] = Written(@, at[p].off, at[p].n, euid[p])]
               ELSE slot
    /\ UNCHANGED <<euid, fd, left>>

WriteAppend(p) ==
    /\ Act(p, "append")
    /\ LET off == slot[at[p].t].len
       IN slot' = IF May(p) /\ off + at[p].n <= MaxBytes
                  THEN [slot EXCEPT ![at[p].t] = Written(@, off, at[p].n, euid[p])]
                  ELSE slot
    /\ UNCHANGED <<euid, fd, left>>

Truncate(p) ==
    /\ Act(p, "truncate")
    /\ slot' = IF May(p) THEN [slot EXCEPT ![at[p].t] = Cut(@, at[p].n)] ELSE slot
    /\ UNCHANGED <<euid, fd, left>>

\* tmp_read_range copies the visible bytes out, or refuses: what it would copy
\* is `Seen'.
Read(p) ==
    /\ Act(p, "read")
    /\ UNCHANGED <<euid, slot, fd, left>>
Seen(p) ==
    IF at[p] # None /\ at[p].op = "read" /\ May(p)
    THEN {slot[at[p].t].data[i] : i \in 1 .. slot[at[p].t].len} ELSE {}

\* The slot is cleared in one section, the descriptions naming it in the next.
Unlink(p, n) ==
    /\ Call /\ at[p] = None
    /\ \E t \in Find(n) :
          IF Permit(t, p)
          THEN /\ slot' = [slot EXCEPT ![t] = Blank]
               /\ at' = [at EXCEPT ![p] = [op |-> "forget", t |-> t]]
          ELSE UNCHANGED <<slot, at>>
    /\ UNCHANGED <<euid, fd>>

Forget(p) ==
    /\ Act(p, "forget")
    /\ fd' = [q \in Proc |-> IF fd[q] = at[p].t THEN None ELSE fd[q]]
    /\ UNCHANGED <<euid, slot, left>>

Next ==
    \/ \E p \in Proc :
          \/ \E n \in Name : (\E trunc \in BOOLEAN : Open(p, n, trunc)) \/ Unlink(p, n)
          \/ Claim(p) \/ Close(p) \/ SetUid(p) \/ Forget(p)
          \/ WriteAt(p) \/ WriteAppend(p) \/ Truncate(p) \/ Read(p)
          \/ \E op \in {"write", "append"}, n \in Lens, off \in 0 .. MaxBytes - 1 :
                /\ op = "append" => off = 0
                /\ Lookup(p, [op |-> op, off |-> off, n |-> n, t |-> None])
          \/ \E n \in 0 .. MaxBytes : Lookup(p, [op |-> "truncate", n |-> n, t |-> None])
          \/ Lookup(p, [op |-> "read", t |-> None])
    \/ \E p \in Proc, q \in Proc : p # q /\ Inherit(p, q)

Spec == Init /\ [][Next]_vars

(* Properties. *)

\* A file holds only bytes of its owner and of root, and no process but root
\* reads bytes of another user, whatever slot its descriptor has come to name.
Private ==
    /\ \A t \in Slot : \A i \in 1 .. MaxBytes :
          slot[t].data[i] \in {None, 0, slot[t].uid}
    /\ \A p \in Proc : euid[p] # 0 => Seen(p) \subseteq {None, 0, euid[p]}

\* A gap and the part a truncation adds read as zeroes, never as the bytes that
\* were there before.
Visible(t) ==
    [i \in 1 .. slot[t].len |-> IF slot[t].data[i] = None THEN 0
                                ELSE 1 + slot[t].data[i]]
Abstract == INSTANCE ByteFiles WITH
    File <- Slot,
    Data <- {[i \in 1 .. n |-> 1 + u] : n \in Lens, u \in {0} \cup {Uid(p) : p \in Proc}},
    file <- [t \in Slot |-> IF slot[t].used THEN Visible(t) ELSE None]

ImplementsBytes == Abstract!Spec
=============================================================================
