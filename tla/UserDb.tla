------------------------------- MODULE UserDb -------------------------------
(***************************************************************************)
(* The user database of metal/kernel/kernel64.c: accounts with a salted    *)
(* digest, authentication with a lock-out, and the two-slot image on the   *)
(* volume.  udb_auth looks the account up in one section of g_udb_lock,    *)
(* derives with no lock held and records the outcome in another section;   *)
(* every scrypt derivation of the machine runs in one static buffer, so    *)
(* one that overlaps another may come out as anything.  udb_save is        *)
(* serialised by a busy flag.  A power loss may tear the image that is     *)
(* being written, and nothing else.                                        *)
(*                                                                         *)
(* A digest is the scheme and the password it was derived from, or None    *)
(* for one that no password derives to.                                    *)
(***************************************************************************)
EXTENDS Naturals, FiniteSets, TLC

CONSTANTS
    Proc,      \* threads in a system call
    Name,      \* account names
    Password,
    Stored,    \* the images earlier boots may have left, one per slot
    MaxFails,  \* UDB_MAX_FAILS
    MaxUsers,  \* UDB_MAX
    MaxCalls,  \* bound on the calls of a run
    MaxLosses, \* bound on power losses
    None, Torn

VARIABLES
    acct,    \* g_udb: name -> None or its account
    gen,     \* g_udb_gen
    avail,   \* not g_udb_unavailable
    persist, \* g_udb_persist
    disk,    \* slot -> None, Torn or an image
    lock,    \* holder of g_udb_lock across a derivation, or None
    busy,    \* holder of g_udb_save_busy, or None
    at,      \* process -> where it is
    acked,   \* accounts whose creation has been reported
    failed,  \* whether a save has been refused
    wrong,   \* name -> wrong guesses compared since the last success or boot
    calls, losses

vars == <<acct, gen, avail, persist, disk, lock, busy, at, acked, failed, wrong, calls, losses>>
table == <<acct, lock>>
volume == <<gen, avail, persist, disk, busy, failed>>

Idle == [at |-> "user"]
Digest(scheme, pw) == [scheme |-> scheme, pw |-> pw]
Account(d) == [digest |-> d, scheme |-> "scrypt", fails |-> 0, locked |-> FALSE]
Slot == {0, 1}                              \* UDB_PATH_B, UDB_PATH_A

\* udb_load: the newest image that verifies; none stored is a fresh volume,
\* stored and unverifiable closes the door.
Winner(d) ==
    LET good == {s \in Slot : d[s] \notin {None, Torn}}
    IN {d[s] : s \in {t \in good : \A u \in good : d[u].gen <= d[t].gen}}

Load(d) ==
    /\ avail' = (Winner(d) # {} \/ \A s \in Slot : d[s] = None)
    /\ persist' = (Winner(d) # {} \/ \A s \in Slot : d[s] = None)
    /\ gen' = IF Winner(d) = {} THEN 0 ELSE (CHOOSE i \in Winner(d) : TRUE).gen
    /\ acct' = [n \in Name |->
           IF Winner(d) = {} THEN None
           ELSE LET i == CHOOSE i \in Winner(d) : TRUE
                IN IF i.acct[n] = None THEN None
                   ELSE [i.acct[n] EXCEPT !.fails = 0, !.locked = FALSE]]

Init ==
    /\ disk \in Stored
    /\ \E i \in Winner(disk) \cup {None} :
          /\ i = None <=> Winner(disk) = {}
          /\ acct = [n \in Name |-> IF i = None THEN None ELSE i.acct[n]]
          /\ gen = IF i = None THEN 0 ELSE i.gen
    /\ avail = TRUE /\ persist = TRUE
    /\ lock = None /\ busy = None /\ failed = FALSE
    /\ at = [p \in Proc |-> Idle]
    /\ acked = {n \in Name : acct[n] # None}
    /\ wrong = [n \in Name |-> 0]
    /\ calls = 0 /\ losses = 0

Call(p) == at[p] = Idle /\ calls < MaxCalls /\ calls' = calls + 1

(* udb_kdf_scheme: begun in one step and over in another. *)

Deriving(p) == at[p].at \in {"derive", "add", "upgrade"} /\ at[p].scheme = "scrypt"

\* A derivation begins: whatever else is in the buffer is spoilt, and so is this.
Begin(p, state) ==
    at' = [q \in Proc |->
              IF q = p THEN state @@ [mixed |-> state.scheme = "scrypt"
                                        /\ \E r \in Proc \ {p} : Deriving(r)]
              ELSE IF Deriving(q) /\ state.scheme = "scrypt" THEN [at[q] EXCEPT !.mixed = TRUE]
              ELSE at[q]]

Derived(p) == {Digest(at[p].scheme, at[p].pw)} \cup IF at[p].mixed THEN {None} ELSE {}

(* udb_add, with g_udb_lock held across its derivation. *)

AddBegin(p, n, pw) ==
    /\ Call(p) /\ lock = None
    /\ IF acct[n] = None /\ Cardinality({m \in Name : acct[m] # None}) < MaxUsers
       THEN /\ lock' = p
            /\ Begin(p, [at |-> "add", n |-> n, pw |-> pw, scheme |-> "scrypt"])
       ELSE UNCHANGED <<lock, at>>
    /\ UNCHANGED <<acct, volume, acked, wrong, losses>>

AddEnd(p) ==
    /\ at[p].at = "add"
    /\ \E d \in Derived(p) : acct' = [acct EXCEPT ![at[p].n] = Account(d)]
    /\ wrong' = [wrong EXCEPT ![at[p].n] = 0]
    /\ lock' = None
    /\ at' = [at EXCEPT ![p] = [at |-> "save", n |-> at[p].n]]
    /\ UNCHANGED <<volume, acked, calls, losses>>

(* udb_auth. *)

\* A closed database and a locked account answer at once; an unknown name
\* derives against a decoy.
AuthLook(p, n, pw) ==
    /\ Call(p)
    /\ IF ~avail THEN UNCHANGED at
       ELSE /\ lock = None
            /\ IF acct[n] = None
               THEN Begin(p, [at |-> "derive", n |-> None, pw |-> pw, scheme |-> "scrypt"])
               ELSE IF acct[n].locked THEN UNCHANGED at
               ELSE Begin(p, [at |-> "derive", n |-> n, pw |-> pw,
                              scheme |-> acct[n].scheme, want |-> acct[n].digest])
    /\ UNCHANGED <<table, volume, acked, wrong, losses>>

AuthDerived(p) ==
    /\ at[p].at = "derive"
    /\ IF at[p].n = None THEN at' = [at EXCEPT ![p] = Idle]
       ELSE \E d \in Derived(p) :
                at' = [at EXCEPT ![p] = [at |-> "record", n |-> at[p].n, pw |-> at[p].pw,
                                         ok |-> d # None /\ d = at[p].want]]
    /\ UNCHANGED <<table, volume, acked, wrong, calls, losses>>

Failed(a) == [a EXCEPT !.fails = @ + 1, !.locked = @ \/ a.fails + 1 >= MaxFails]

\* An account of the old scheme is derived anew, with the lock held.
AuthRecord(p) ==
    /\ at[p].at = "record" /\ lock = None
    /\ LET n == at[p].n
       IN IF acct[n] = None
          THEN at' = [at EXCEPT ![p] = Idle] /\ UNCHANGED <<acct, lock, wrong>>
          ELSE IF ~at[p].ok
          THEN /\ acct' = [acct EXCEPT ![n] = Failed(@)]
               /\ wrong' = [wrong EXCEPT ![n] = @ + 1]
               /\ at' = [at EXCEPT ![p] = Idle]
               /\ UNCHANGED lock
          ELSE /\ acct' = [acct EXCEPT ![n].fails = 0]
               /\ wrong' = [wrong EXCEPT ![n] = 0]
               /\ IF acct[n].scheme = "scrypt"
                  THEN at' = [at EXCEPT ![p] = Idle] /\ UNCHANGED lock
                  ELSE /\ lock' = p
                       /\ Begin(p, [at |-> "upgrade", n |-> n, pw |-> at[p].pw,
                                    scheme |-> "scrypt"])
    /\ UNCHANGED <<volume, acked, calls, losses>>

Upgraded(a, d) == [a EXCEPT !.digest = d, !.scheme = "scrypt"]
UpgradeEnd(p) ==
    /\ at[p].at = "upgrade"
    /\ \E d \in Derived(p) : acct' = [acct EXCEPT ![at[p].n] = Upgraded(@, d)]
    /\ lock' = None
    /\ at' = [at EXCEPT ![p] = [at |-> "save", n |-> None]]
    /\ UNCHANGED <<volume, acked, wrong, calls, losses>>

(* udb_save. *)

\* Mutant: every image goes to the same slot
OneSlot(g) == 0
SlotOf(g) == g % 2


\* The static buffers are taken and the generation counted; the table is read
\* when its lock is free.
SaveBegin(p) ==
    /\ at[p].at = "save" /\ persist /\ busy = None
    /\ busy' = p /\ gen' = gen + 1
    /\ at' = [at EXCEPT ![p].at = "serialize"]
    /\ UNCHANGED <<table, avail, persist, disk, acked, failed, wrong, calls, losses>>

SaveSerialize(p) ==
    /\ at[p].at = "serialize" /\ lock = None
    /\ at' = [at EXCEPT ![p] = [@ EXCEPT !.at = "write"] @@
                  [image |-> [gen |-> gen,
                              acct |-> [n \in Name |-> IF acct[n] = None THEN None
                                        ELSE [acct[n] EXCEPT !.fails = 0, !.locked = FALSE]]]]]
    /\ UNCHANGED <<table, volume, acked, wrong, calls, losses>>

Reported(p) ==
    acked' = IF at[p].n = None THEN acked ELSE acked \cup {at[p].n}

\* vfs_write_file succeeds, or is refused and leaves the slot as it was.
SaveWrite(p) ==
    /\ at[p].at = "write"
    /\ \/ /\ disk' = [disk EXCEPT ![SlotOf(at[p].image.gen)] = at[p].image]
          /\ UNCHANGED failed
       \/ failed' = TRUE /\ UNCHANGED disk
    /\ busy' = None
    /\ Reported(p)
    /\ at' = [at EXCEPT ![p] = Idle]
    /\ UNCHANGED <<table, gen, avail, persist, wrong, calls, losses>>

\* A database that could not be loaded is not saved over.
SaveSkip(p) ==
    /\ at[p].at = "save" /\ ~persist
    /\ at' = [at EXCEPT ![p] = Idle]
    /\ UNCHANGED <<table, volume, acked, wrong, calls, losses>>

(* Power loss, and the boot after it. *)

AfterLoss ==
    LET writers == {p \in Proc : at[p].at = "write"}
    IN {disk} \cup UNION {{[disk EXCEPT ![SlotOf(at[p].image.gen)] = x] :
                             x \in {Torn, at[p].image}} : p \in writers}

PowerLoss ==
    /\ losses < MaxLosses /\ losses' = losses + 1
    /\ \E d \in AfterLoss : disk' = d /\ Load(d)
    /\ lock' = None /\ busy' = None
    /\ at' = [p \in Proc |-> Idle]
    /\ wrong' = [n \in Name |-> 0]
    /\ UNCHANGED <<acked, failed, calls>>

Next ==
    \/ \E p \in Proc, n \in Name, pw \in Password : AddBegin(p, n, pw) \/ AuthLook(p, n, pw)
    \/ \E p \in Proc :
          \/ AddEnd(p) \/ AuthDerived(p) \/ AuthRecord(p) \/ UpgradeEnd(p)
          \/ SaveBegin(p) \/ SaveSerialize(p) \/ SaveWrite(p) \/ SaveSkip(p)
    \/ PowerLoss

Spec == Init /\ [][Next]_vars

(* Properties. *)

\* While no save is refused, losing power at any moment keeps the database
\* readable and every account whose creation was reported in it, though two
\* threads may be saving and the image being written may be torn.
Survives ==
    ~failed /\ acked # {} =>
        \A d \in AfterLoss : \E i \in Winner(d) : \A a \in acked : i.acct[a] # None

\* Between two successes no account has more wrong guesses compared than the
\* limit and one for every other call that was already deriving.
GuessBound == \A n \in Name : wrong[n] <= MaxFails + Cardinality(Proc) - 1

\* Reported accounts survive a power loss, and guesses are bounded however many derive at once.
AccountsSound == Survives /\ GuessBound
=============================================================================
