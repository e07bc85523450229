---------------------------- MODULE ContentStore ----------------------------
(***************************************************************************)
(* What the content-addressed store promises the file layer: a set of      *)
(* durable chunks that only grows by a put and only shrinks by the release *)
(* of a chunk at most one directory word still names.  A crash, a replayed *)
(* journal and a mount are invisible here.                                 *)
(***************************************************************************)
EXTENDS Naturals

CONSTANTS Hash, None

VARIABLES stored, named

Init == stored = {} /\ named = [h \in Hash |-> 0]

\* cas_put returned a hash: the chunk survives any later crash.
Deliver(h) == stored' = stored \cup {h} /\ UNCHANGED named

\* cas_free returned a block: no other word may still name the chunk.
Reclaim(h) ==
    /\ h \in stored /\ named[h] <= 1
    /\ stored' = stored \ {h}
    /\ UNCHANGED named

\* A directory entry is committed: it names a chunk that is stored.
Name(new, old) ==
    /\ new # None => new \in stored
    /\ named' = [h \in Hash |-> (named[h] + (IF h = new THEN 1 ELSE 0))
                                          - (IF h = old THEN 1 ELSE 0)]
    /\ UNCHANGED stored

Next == \/ \E h \in Hash : Deliver(h) \/ Reclaim(h)
        \/ \E new, old \in Hash \cup {None} : Name(new, old)

Spec == Init /\ [][Next]_<<stored, named>>
=============================================================================
