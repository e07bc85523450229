------------------------------- MODULE Spaces -------------------------------
(***************************************************************************)
(* What the memory of the processes promises: every process has its own    *)
(* pages, a new page reads as zero, a store changes one page of one        *)
(* process, fork copies.  Frames, reference counts, copy-on-write and      *)
(* translation caches are invisible here.                                  *)
(***************************************************************************)
EXTENDS Naturals

CONSTANTS Proc, Page, Value, Zero, Absent

VARIABLE mem

Empty == [v \in Page |-> Absent]
Init == mem = [p \in Proc |-> Empty]

Map(p, v)      == mem[p][v] = Absent /\ mem' = [mem EXCEPT ![p][v] = Zero]
Unmap(p, v)    == mem[p][v] # Absent /\ mem' = [mem EXCEPT ![p][v] = Absent]
Store(p, v, x) == mem[p][v] # Absent /\ mem' = [mem EXCEPT ![p][v] = x]
Exit(p)        == mem' = [mem EXCEPT ![p] = Empty]

\* The child's page is the parent's.  A page that was promised and never
\* touched may be missing: the code does not inherit promises.
Copied(p, h) == \A v \in Page : h[v] = mem[p][v] \/ (h[v] = Absent /\ mem[p][v] = Zero)
Fork(p, q) ==
    /\ mem[q] = Empty
    /\ \E h \in [Page -> Value \cup {Absent}] :
          Copied(p, h) /\ mem' = [mem EXCEPT ![q] = h]

Next == \E p \in Proc :
            \/ Exit(p)
            \/ \E q \in Proc \ {p} : Fork(p, q)
            \/ \E v \in Page : \/ Map(p, v) \/ Unmap(p, v)
                               \/ \E x \in Value : Store(p, v, x)

Spec == Init /\ [][Next]_mem
=============================================================================
