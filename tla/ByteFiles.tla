----------------------------- MODULE ByteFiles -----------------------------
(***************************************************************************)
(* What the file layer promises its callers: a file is a sequence of       *)
(* bytes.  A write at a position replaces the bytes it covers, keeps every *)
(* other byte and fills a gap it leaves with zeroes; a truncation keeps a  *)
(* prefix or adds zeroes.  Chunks, maps and reference counts are invisible *)
(* here, and a refused call changes nothing.                               *)
(***************************************************************************)
EXTENDS Naturals, Sequences

CONSTANTS File, None, Data

VARIABLE file

ByteAt(s, i) == IF i <= Len(s) THEN s[i] ELSE 0

Over(s, off, d) ==
    [i \in 1 .. (IF off + Len(d) > Len(s) THEN off + Len(d) ELSE Len(s)) |->
        IF i > off /\ i <= off + Len(d) THEN d[i - off] ELSE ByteAt(s, i)]

Init == file \in [File -> Seq(Nat) \cup {None}]

\* One file goes from `old' to `new'.
Create(old, new) == old = None /\ new = <<>>
Remove(old, new) == old # None /\ new = None
WriteAt(old, new) ==
    /\ old # None /\ new # None
    /\ \E d \in Data : \E off \in 0 .. Len(new) :
          new = Over(old, off, d)
Resize(old, new) ==
    /\ old # None /\ new # None
    /\ new = [i \in 1 .. Len(new) |-> ByteAt(old, i)]

Next ==
    LET before == file
        after == file'
    IN \E f \in File :
          /\ after = [before EXCEPT ![f] = after[f]]
          /\ \/ Create(before[f], after[f]) \/ Remove(before[f], after[f])
             \/ WriteAt(before[f], after[f]) \/ Resize(before[f], after[f])

Step == Next \/ UNCHANGED file

Spec == Init /\ [][Next]_file
=============================================================================
