----------------------------- MODULE FdsProofs -----------------------------
(***************************************************************************)
(* Descriptions are counted exactly and nothing leaks in every reachable   *)
(* state, for every number of slots, descriptions, numbers and pipes and   *)
(* all programs that are Orderly.                                          *)
(*                                                                         *)
(* The invariant follows what a call holds between its sections: the       *)
(* description it has claimed and not numbered yet, the numbers of a pipe  *)
(* whose ends are none yet, the number it is sending, the child it is      *)
(* filling the table of.  Every step either leaves the tables alone, adds  *)
(* numbers to one of them (Installs) or takes some from one (Releases).    *)
(***************************************************************************)
EXTENDS Fds, FiniteSetTheorems, WellFoundedInduction, TLAPS

\* No other thread uses the table of s.
Alone(w, s) == \A t \in Slot : w.leader[t] = w.leader[s] => t = s

\* No program unlinks what is open, threads have a leader that leads itself, and
\* a process of several threads neither forks, sends, receives nor redirects.
Orderly ==
    \A w \in Settings :
        /\ ~w.orphan
        /\ \A s \in Slot : w.leader[w.leader[s]] = w.leader[s]
        /\ \A p \in w.boot : w.leader[p] = p
        /\ \A s \in Slot : w.ops[s] \cap {"fork", "send", "receive", "redirect"} # {} => Alone(w, s)

-----------------------------------------------------------------------------
(* The inductive invariant. *)

Kinds == {"file", "pipe", "epoll", "evfd"}
Objects == Pipes \cup Eps \cup Evs \cup File \cup {None}
Makes == Ends \cup {"file", "epoll", "evfd"}
Filling == {"install", "full", "grow", "undo"}
OpRec(obj) ==
    [pc : {"user", "notify", "new", "unpipe", "mark", "orphan", "use", "heir", "drop", "post",
           "reject"} \cup Filling,
     k : Makes \cup {"none", "give", "redirect"}, n : Fd \cup {None}, m : Fd \cup {None},
     oi : Oi \cup {None}, obj : obj, to : Slot \cup {None}, todo : SUBSET Oi]

\* What the position in a call says of the rest of its record.
Shape(o) ==
    /\ o.pc = "user" => o = User
    /\ o.pc \in {"notify", "heir", "reject"} => o.k = "none"
    /\ o.pc = "new" => o.k \in Ends \cup {"file"}
    /\ o.pc \in Filling => o.k \in Makes \cup {"give"} /\ o.oi \in Oi
    /\ o.pc = "unpipe" => o.k \in Ends
    /\ o.pc = "mark" => o.k = "write" /\ o.m # o.n
    /\ o.pc = "orphan" => o.k = "file"
    /\ o.pc = "use" => o.k \in Ends \cup {"redirect"} /\ o.oi \in Oi
    /\ o.pc \in {"drop", "post"} => o.k = "give"
    /\ o.pc = "drop" => o.oi \in Oi
    /\ o.k = "none" => o.pc \in {"user", "notify", "heir", "reject"}
    /\ o.k = "redirect" => o.pc = "use"
    /\ o.k = "give" => o.pc \in {"drop", "post"} \cup Filling
    /\ o.k \in {"epoll", "evfd"} => o.pc \in Filling
    /\ o.k = "file" => o.obj \in File
    /\ o.k = "epoll" => o.obj \in Eps
    /\ o.k = "evfd" => o.obj \in Evs
    /\ o.k \in Ends /\ o.pc # "use" => o.obj \in Pipes
    /\ o.to # None <=> o.k = "give" \/ o.pc = "heir"
    /\ o.n # None <=> \/ o.k \in {"give", "redirect"} \/ o.pc = "reject"
                      \/ o.k = "write" /\ o.pc # "use"
    /\ o.m # None <=> o.pc \in {"mark", "drop", "post"}
OpOk(o) == o \in OpRec(IF o.pc = "use" THEN Kinds ELSE Objects) /\ Shape(o)
OpsOk == op = [s \in Slot |-> op[s]] /\ \A s \in Slot : OpOk(op[s])

\* A call that is making a pipe; a call that has claimed a description.
PipingOp(o) == o.k \in Ends /\ o.pc # "use"
HoldingOp(o) == o.pc \in Filling /\ o.k # "give"
Piping(s) == PipingOp(op[s])
Holding(s) == HoldingOp(op[s])
InHands(o) == {o.n, o.m} \ {None}

\* A description claimed and not numbered yet is as it was claimed, one call's
\* alone, and nobody watches with it.
Claimed1(o) == [Blank EXCEPT !.used = TRUE, !.kind = IF o.k \in Ends THEN "pipe" ELSE o.k,
                             !.obj = IF o.k \in Ends THEN None ELSE o.obj]
ClaimsOk == \A s \in Slot : Holding(s) => of[op[s].oi] = Claimed1(op[s])
ClaimsApart == \A s, t \in Slot : Holding(s) /\ Holding(t) /\ op[s].oi = op[t].oi => s = t
Unwatching == \A s \in Slot : Holding(s) /\ op[s].k = "epoll" => ep[op[s].obj].watch = {}

\* A pipe being made has no ends and one maker, and the numbers its maker has
\* installed name descriptions no other number names.
HalfEnd == [Blank EXCEPT !.used = TRUE, !.kind = "pipe", !.nref = 1]
Half(p, n) == tab[p][n] # None /\ of[tab[p][n]] = HalfEnd
MakingOk ==
    \A s \in Slot : Piping(s) =>
        /\ pipe[op[s].obj].used /\ pipe[op[s].obj].r = 0 /\ pipe[op[s].obj].w = 0
        /\ \A o \in Oi : ~(of[o].used /\ of[o].kind = "pipe" /\ of[o].obj = op[s].obj)
MakersApart == \A s, t \in Slot : Piping(s) /\ Piping(t) /\ op[s].obj = op[t].obj => s = t
HalvesOk == \A s \in Slot : Piping(s) => \A n \in InHands(op[s]) : Half(Of(s), n)
HalvesApart ==
    \A s, t \in Slot : Piping(s) /\ Piping(t) /\ Of(s) = Of(t) /\ s # t
                       => InHands(op[s]) \cap InHands(op[t]) = {}

\* The call that makes a pipe of the description o.
MakesEnd(s, o) ==
    /\ Piping(s)
    /\ \/ Holding(s) /\ op[s].oi = o
       \/ \E n \in InHands(op[s]) : tab[Of(s)][n] = o

\* A description in use is numbered or claimed.  A pipe's end that is none yet is
\* being made, another's pipe is in use; an instance has one description.
Kept == \A o \in Oi : of[o].used => of[o].nref > 0 \/ \E s \in Slot : Holding(s) /\ op[s].oi = o
EndsOk == \A o \in Oi : of[o].used /\ of[o].kind = "pipe" =>
              IF of[o].obj = None THEN \E s \in Slot : MakesEnd(s, o)
              ELSE of[o].obj \in Pipes /\ pipe[of[o].obj].used
Twins(o, u) == /\ of[o].used /\ of[u].used /\ of[o].kind = of[u].kind
               /\ of[o].obj = of[u].obj /\ of[o].kind \in {"epoll", "evfd"}
InstancesOk ==
    /\ \A o \in Oi : of[o].used /\ of[o].kind = "epoll" => of[o].obj \in Eps /\ ep[of[o].obj].used
    /\ \A o \in Oi : of[o].used /\ of[o].kind = "evfd" => of[o].obj \in Evs /\ evfd[of[o].obj].used
    /\ \A e \in Eps : ep[e].used => \E o \in Oi : of[o].used /\ of[o].kind = "epoll" /\ of[o].obj = e
    /\ \A v \in Evs : evfd[v].used => \E o \in Oi : of[o].used /\ of[o].kind = "evfd" /\ of[o].obj = v
    /\ \A o, u \in Oi : Twins(o, u) => o = u
PipesOk == \A i \in Pipes : pipe[i].used /\ ~BeingMade(i) => pipe[i].r + pipe[i].w > 0

\* What is watched is numbered, and what standard output goes to.
WatchOk == \A e \in Eps : \A x \in ep[e].watch : ep[e].used /\ of[x.oi].used /\ of[x.oi].nref > 0
RedirOk == \A p \in Slot : redir[p] # None => tab[p][redir[p]] # None

\* Between an unlink's two sections nobody has the file or is getting it.
UnlinksOk ==
    \A s \in Slot : op[s].pc = "orphan" =>
        /\ op[s].obj \notin name
        /\ \A t \in Slot \ {s} : op[t].k = "file" => op[t].obj # op[s].obj
        /\ \A o \in Oi : ~(of[o].used /\ of[o].kind = "file" /\ of[o].obj = op[s].obj)

\* A process that is not live has no thread at work, and nothing but what a fork
\* is filling it with; a process is not sent to once it is not live.
IdleOk == \A s \in Slot : life[Of(s)] # "live" => op[s].pc \in {"user", "notify"}
DeadOk == \A p \in Slot : life[p] # "live" =>
              /\ redir[p] = None /\ mail[p] = <<>>
              /\ (\A s \in Slot : op[s].to # p) => \A n \in Fd : tab[p][n] = None
LeadOk == \A p \in Slot : life[p] = "live" => Of(p) = p
GivesOk == \A s \in Slot : op[s].k = "give" => life[op[s].to] = "live"
HeirsOk ==
    \A s \in Slot : op[s].pc = "heir" =>
        /\ life[op[s].to] # "live" /\ Of(op[s].to) = op[s].to
        /\ \A t \in Slot : op[t].to = op[s].to => t = s
        /\ redir[Of(s)] # None => tab[op[s].to][redir[Of(s)]] # None

\* The calls only a process of one thread makes, and the number a redirection has in hand.
AloneOk == \A s \in Slot : op[s].k \in {"give", "redirect"} \/ op[s].pc \in {"heir", "reject"}
                           => Alone(setting, s)
HandOk == \A s \in Slot : op[s].k = "redirect" => tab[Of(s)][op[s].n] # None

\* The type invariant, by parts.
OfRec == [used : BOOLEAN, kind : Kinds, obj : Objects, w : BOOLEAN, nref : Nat]
OfT == of \in [Oi -> OfRec]
TabT == tab \in [Slot -> [Fd -> Oi \cup {None}]]
SizedT == \A p \in Slot : \A n \in Fd : n >= size[p] => tab[p][n] = None
SizeT == size \in [Slot -> {Inline, FdMax}] /\ hint \in [Slot -> 0 .. FdMax]
PipeT == pipe \in [Pipes -> [used : BOOLEAN, r : Nat, w : Nat, has : BOOLEAN]]
EpT == /\ ep \in [Eps -> [used : BOOLEAN, watch : SUBSET [fd : Fd, oi : Oi]]]
       /\ \A e \in Eps : Cardinality(ep[e].watch) <= MaxWatch
EvT == evfd \in [Evs -> [used : BOOLEAN, has : BOOLEAN]]
NameT == setting \in Settings /\ name \subseteq File
RedirT == redir \in [Slot -> Fd \cup {None}]
MailT == mail \in [Slot -> Seq(Fd)] /\ \A p \in Slot : Len(mail[p]) <= QLen
LifeT == life \in [Slot -> {"unborn", "live", "dead"}]

Types == OfT /\ TabT /\ SizedT /\ SizeT /\ PipeT /\ EpT /\ EvT /\ NameT /\ RedirT /\ MailT /\ LifeT
Calls1 == OpsOk /\ ClaimsOk /\ ClaimsApart /\ MakingOk /\ MakersApart /\ HalvesOk /\ HalvesApart
Tables == RefsExact /\ PipeEndsExact /\ Kept /\ EndsOk /\ PipesOk /\ InstancesOk
Sides == Unwatching /\ WatchOk /\ RedirOk /\ UnlinksOk /\ HandOk /\ TransferHeld
Lives == IdleOk /\ DeadOk /\ LeadOk /\ GivesOk /\ HeirsOk /\ AloneOk
FInv == Types /\ Calls1 /\ Tables /\ Sides /\ Lives

-----------------------------------------------------------------------------
(* The constants, least and greatest elements, rows of a table. *)

\* What the assumption on the constants gives the steps below.
LEMMA Constants ==
    /\ NSlot \in Nat /\ NOfile \in Nat /\ Inline \in Nat /\ Inline > 0 /\ FdMax \in Nat
    /\ Inline <= FdMax /\ NPipe \in Nat /\ NEp \in Nat /\ NEv \in Nat /\ MaxWatch \in Nat
    /\ QLen \in Nat
    /\ None \notin Slot /\ None \notin Oi /\ None \notin Fd /\ None \notin Pipes
    /\ None \notin Eps /\ None \notin Evs /\ None \notin File
    /\ Slot \subseteq Nat /\ Oi \subseteq Nat /\ Fd \subseteq Nat /\ Pipes \subseteq Nat
    /\ Eps \subseteq Nat /\ Evs \subseteq Nat
<1>1. /\ NSlot \in Nat /\ NOfile \in Nat /\ Inline \in Nat /\ Inline > 0 /\ FdMax \in Nat
      /\ NPipe \in Nat /\ NEp \in Nat /\ NEv \in Nat /\ MaxWatch \in Nat /\ QLen \in Nat
      /\ FdMax \in {Inline, 2 * Inline} /\ None \notin Nat /\ None \notin File
  BY FdsAssumption
<1>2. Inline <= FdMax
  BY <1>1
<1> QED BY <1>1, <1>2 DEF Slot, Oi, Fd, Pipes, Eps, Evs

\* What a setting says of its threads.
LEMMA Chosen ==
    ASSUME Orderly, setting \in Settings
    PROVE  /\ setting.leader \in [Slot -> Slot] /\ setting.boot \subseteq Slot /\ ~setting.orphan
           /\ \A s \in Slot : Of(s) \in Slot /\ Of(Of(s)) = Of(s)
           /\ \A p \in setting.boot : Of(p) = p
           /\ \A s \in Slot : setting.ops[s] \cap {"fork", "send", "receive", "redirect"} # {}
                              => Alone(setting, s)
<1>1. setting.leader \in [Slot -> Slot] /\ setting.boot \subseteq Slot
  BY FdsAssumption
<1> QED BY <1>1 DEF Orderly, Of

\* Every set of naturals but the empty one has a least element.
LEMMA LeastOf ==
    ASSUME NEW S, S \subseteq Nat, S # {}
    PROVE  Min(S) \in S
<1> DEFINE Less == {p \in Nat \X Nat : p[1] < p[2]}
<1>0. IsWellFoundedOn(Less, Nat)
  BY NatLessThanWellFounded, Zenon DEF OpToRel
<1>1. PICK x \in S : \A y \in S : ~(<<y, x>> \in Less)
  <2> HIDE DEF Less
  <2> QED BY <1>0, WFMin
<1>2. ASSUME NEW y \in S, ~(x =< y) PROVE FALSE
  <2>1. x \in Nat /\ y \in Nat /\ y < x
    BY <1>2
  <2>2. <<y, x>> \in Less
    BY <2>1
  <2> QED BY <1>1, <2>2
<1> QED BY <1>2 DEF Min

\* Every bounded set of naturals but the empty one has a greatest element.
LEMMA GreatestOf ==
    ASSUME NEW N \in Nat, NEW S, S \subseteq 0 .. N, S # {}
    PROVE  Max(S) \in S
<1> DEFINE T == {N - x : x \in S}
<1>1. T \subseteq Nat /\ T # {}
  <2>1. \A x \in S : x \in Nat /\ x <= N
    OBVIOUS
  <2>2. \A x \in S : N - x \in Nat
    BY <2>1
  <2> QED BY <2>2
<1>3. \E x \in T : \A y \in T : x =< y
  <2> DEFINE Less == {p \in Nat \X Nat : p[1] < p[2]}
  <2>0. IsWellFoundedOn(Less, Nat)
    BY NatLessThanWellFounded, Zenon DEF OpToRel
  <2>1. PICK x \in T : \A y \in T : ~(<<y, x>> \in Less)
    <3> HIDE DEF Less, T
    <3> QED BY <1>1, <2>0, WFMin
  <2>2. ASSUME NEW y \in T, ~(x =< y) PROVE FALSE
    <3>1. x \in Nat /\ y \in Nat /\ y < x
      BY <2>2, <1>1
    <3>2. <<y, x>> \in Less
      BY <3>1
    <3> QED BY <2>1, <3>2
  <2> QED BY <2>2
<1>4. PICK x \in T : \A y \in T : x =< y
  BY <1>3
<1>5. PICK z \in S : x = N - z
  OBVIOUS
<1>6. \A y \in S : z >= y
  <2> TAKE y \in S
  <2>1. x =< N - y
    BY <1>4
  <2> QED BY <2>1, <1>5
<1> QED BY <1>6 DEF Max

\* A count that would go below zero stays at it.
LEMMA FloorOf ==
    ASSUME NEW x \in Int
    PROVE  Max({0, x}) = IF x > 0 THEN x ELSE 0
<1>1. CASE x > 0
  <2>1. \A y \in {0, x} : x >= y
    BY <1>1
  <2>2. \A z \in {0, x} : (\A y \in {0, x} : z >= y) => z = x
    BY <1>1
  <2> QED BY <1>1, <2>1, <2>2 DEF Max
<1>2. CASE ~(x > 0)
  <2>1. \A y \in {0, x} : 0 >= y
    BY <1>2
  <2>2. \A z \in {0, x} : (\A y \in {0, x} : z >= y) => z = 0
    BY <1>2
  <2> QED BY <1>2, <2>1, <2>2 DEF Max
<1> QED BY <1>1, <1>2

\* Tables and sets of their numbers are finite.
LEMMA Finite ==
    /\ IsFiniteSet(Slot) /\ IsFiniteSet(Fd) /\ IsFiniteSet(Oi) /\ IsFiniteSet(Slot \X Fd)
    /\ \A ns \in SUBSET Fd : IsFiniteSet(ns) /\ Cardinality(ns) \in Nat
    /\ \A xs \in SUBSET (Slot \X Fd) : IsFiniteSet(xs) /\ Cardinality(xs) \in Nat
<1>1. IsFiniteSet(Slot) /\ IsFiniteSet(Fd) /\ IsFiniteSet(Oi)
  BY Constants, FS_Interval DEF Slot, Fd, Oi
<1>2. IsFiniteSet(Slot \X Fd)
  BY <1>1, FS_Product
<1>3. \A ns \in SUBSET Fd : IsFiniteSet(ns) /\ Cardinality(ns) \in Nat
  BY <1>1, FS_Subset, FS_CardinalityType
<1>4. \A xs \in SUBSET (Slot \X Fd) : IsFiniteSet(xs) /\ Cardinality(xs) \in Nat
  BY <1>2, FS_Subset, FS_CardinalityType
<1> QED BY <1>1, <1>2, <1>3, <1>4

\* The numbers ns of the table of p.
Row(p, ns) == {p} \X ns

LEMMA RowCount ==
    ASSUME NEW p \in Slot, NEW ns \in SUBSET Fd
    PROVE  /\ Row(p, ns) \subseteq Slot \X Fd /\ IsFiniteSet(Row(p, ns))
           /\ Cardinality(Row(p, ns)) = Cardinality(ns)
<1>1. IsFiniteSet(ns) /\ Cardinality(ns) \in Nat
  BY Finite
<1>2. IsFiniteSet({p}) /\ Cardinality({p}) = 1
  BY FS_Singleton
<1>3. IsFiniteSet({p} \X ns) /\ Cardinality({p} \X ns) = 1 * Cardinality(ns)
  BY <1>1, <1>2, FS_Product
<1> QED BY <1>1, <1>3 DEF Row

\* Numbers added to a table, or taken from one, change a count by as much.
LEMMA RowAdded ==
    ASSUME NEW A \in SUBSET (Slot \X Fd), NEW p \in Slot, NEW ns \in SUBSET Fd,
           A \cap Row(p, ns) = {}
    PROVE  Cardinality(A \cup Row(p, ns)) = Cardinality(A) + Cardinality(ns)
<1>1. IsFiniteSet(A) /\ Cardinality(A) \in Nat /\ Cardinality(ns) \in Nat
  BY Finite
<1>2. IsFiniteSet(Row(p, ns)) /\ Cardinality(Row(p, ns)) = Cardinality(ns)
  BY RowCount
<1>3. Cardinality(A \cup Row(p, ns))
      = Cardinality(A) + Cardinality(Row(p, ns)) - Cardinality(A \cap Row(p, ns))
  BY <1>1, <1>2, FS_Union
<1>4. Cardinality(A \cap Row(p, ns)) = 0
  BY FS_EmptySet
<1> QED BY <1>1, <1>2, <1>3, <1>4

LEMMA RowTaken ==
    ASSUME NEW A \in SUBSET (Slot \X Fd), NEW p \in Slot, NEW ns \in SUBSET Fd,
           Row(p, ns) \subseteq A
    PROVE  /\ Cardinality(A \ Row(p, ns)) = Cardinality(A) - Cardinality(ns)
           /\ Cardinality(ns) <= Cardinality(A)
<1>1. IsFiniteSet(A) /\ Cardinality(A) \in Nat /\ Cardinality(ns) \in Nat
  BY Finite
<1>2. IsFiniteSet(Row(p, ns)) /\ Cardinality(Row(p, ns)) = Cardinality(ns)
  BY RowCount
<1>3. Cardinality(A \ Row(p, ns)) = Cardinality(A) - Cardinality(A \cap Row(p, ns))
  BY <1>1, FS_Difference
<1>4. A \cap Row(p, ns) = Row(p, ns)
  OBVIOUS
<1>5. Cardinality(Row(p, ns)) <= Cardinality(A)
  BY <1>1, FS_Subset
<1> QED BY <1>1, <1>2, <1>3, <1>4, <1>5

\* A count is zero when nothing is counted.
LEMMA ZeroCount ==
    ASSUME NEW A, IsFiniteSet(A)
    PROVE  Cardinality(A) = 0 <=> A = {}
BY FS_EmptySet

-----------------------------------------------------------------------------
(* What follows from the parts. *)

\* The types and the calls' records make up TypeOK.
LEMMA TypesGive == Types /\ OpsOk => TypeOK
<1> SUFFICES ASSUME Types, OpsOk PROVE TypeOK
  OBVIOUS
<1>1. \A s \in Slot : op[s].todo \subseteq Oi /\ op[s].oi \in Oi \cup {None}
  BY DEF OpsOk, OpOk, OpRec
<1>2. OfT /\ TabT /\ SizedT /\ SizeT /\ PipeT
  BY DEF Types
<1>3. EpT /\ EvT /\ NameT /\ RedirT /\ MailT /\ LifeT
  BY DEF Types
<1>4. of \in [Oi -> [used : BOOLEAN, kind : {"file", "pipe", "epoll", "evfd"},
                     obj : Pipes \cup Eps \cup Evs \cup File \cup {None}, w : BOOLEAN,
                     nref : Nat]]
  BY <1>2 DEF OfT, OfRec, Kinds, Objects
<1>5. /\ tab \in [Slot -> [Fd -> Oi \cup {None}]]
      /\ \A p \in Slot : \A n \in Fd : n >= size[p] => tab[p][n] = None
      /\ size \in [Slot -> {Inline, FdMax}] /\ hint \in [Slot -> 0 .. FdMax]
      /\ pipe \in [Pipes -> [used : BOOLEAN, r : Nat, w : Nat, has : BOOLEAN]]
  BY <1>2 DEF TabT, SizedT, SizeT, PipeT
<1>6. /\ ep \in [Eps -> [used : BOOLEAN, watch : SUBSET [fd : Fd, oi : Oi]]]
      /\ \A e \in Eps : Cardinality(ep[e].watch) <= MaxWatch
      /\ evfd \in [Evs -> [used : BOOLEAN, has : BOOLEAN]]
      /\ setting \in Settings /\ name \subseteq File /\ redir \in [Slot -> Fd \cup {None}]
  BY <1>3 DEF EpT, EvT, NameT, RedirT
<1>7. /\ mail \in [Slot -> Seq(Fd)] /\ \A p \in Slot : Len(mail[p]) <= QLen
      /\ life \in [Slot -> {"unborn", "live", "dead"}]
  BY <1>3 DEF MailT, LifeT
<1> QED BY <1>1, <1>4, <1>5, <1>6, <1>7 DEF TypeOK

\* A pipe that is being made is one call's that is making it.
LEMMA Makers ==
    ASSUME NEW i
    PROVE  BeingMade(i) <=> \E s \in Slot : Piping(s) /\ op[s].obj = i
BY DEF BeingMade, Piping, PipingOp, At

\* The same of the next state.
LEMMA MakersNext ==
    ASSUME NEW i
    PROVE  BeingMade(i)' <=> \E s \in Slot : PipingOp(op'[s]) /\ op'[s].obj = i
BY DEF BeingMade, PipingOp, At

\* Numbers of a description and of a pipe's end are numbers of tables.
LEMMA Counted ==
    /\ \A o : Numbers(o) \subseteq Slot \X Fd /\ IsFiniteSet(Numbers(o))
    /\ \A i, w : EndSlots(i, w) \subseteq Slot \X Fd /\ IsFiniteSet(EndSlots(i, w))
    /\ \A o, p \in Slot, n \in Fd : <<p, n>> \in Numbers(o) <=> tab[p][n] = o
    /\ \A i, w, p \in Slot, n \in Fd :
          <<p, n>> \in EndSlots(i, w) <=> tab[p][n] # None /\ EndOf(tab[p][n], i, w)
<1>1. \A o : Numbers(o) \subseteq Slot \X Fd
  BY DEF Numbers
<1>2. \A i, w : EndSlots(i, w) \subseteq Slot \X Fd
  BY DEF EndSlots
<1>3. \A o, p \in Slot, n \in Fd : <<p, n>> \in Numbers(o) <=> tab[p][n] = o
  BY DEF Numbers
<1>4. \A i, w, p \in Slot, n \in Fd :
          <<p, n>> \in EndSlots(i, w) <=> tab[p][n] # None /\ EndOf(tab[p][n], i, w)
  BY DEF EndSlots
<1> QED BY <1>1, <1>2, <1>3, <1>4, Finite

\* What a number names is in use, and counted.
LEMMA NamedUsed ==
    ASSUME TabT, OfT, RefsExact, NEW p \in Slot, NEW n \in Fd, tab[p][n] # None
    PROVE  tab[p][n] \in Oi /\ of[tab[p][n]].used /\ of[tab[p][n]].nref > 0
<1>1. tab[p][n] \in Oi
  BY DEF TabT
<1>2. PICK o \in Oi : o = tab[p][n]
  BY <1>1
<1>3. <<p, n>> \in Numbers(o)
  BY <1>2 DEF Numbers
<1>4. of[o].used /\ of[o].nref = Cardinality(Numbers(o))
  BY <1>3 DEF RefsExact
<1>5. Cardinality(Numbers(o)) # 0 /\ Cardinality(Numbers(o)) \in Nat
  BY <1>3, Counted, ZeroCount, FS_CardinalityType
<1> QED BY <1>1, <1>2, <1>4, <1>5

\* fd_lookup_locked finds what the table has.
LEMMA NamedIs ==
    ASSUME TabT, SizedT, SizeT, OfT, RefsExact, NEW p \in Slot, NEW n \in Fd
    PROVE  Named(p, n) = tab[p][n]
<1>1. CASE tab[p][n] = None
  BY <1>1 DEF Named
<1>2. CASE tab[p][n] # None
  <2>1. of[tab[p][n]].used
    BY <1>2, NamedUsed
  <2>2. n \in Nat /\ size[p] \in Nat
    BY Constants DEF SizeT
  <2>3. n < size[p]
    BY <1>2, <2>2 DEF SizedT
  <2> QED BY <1>2, <2>1, <2>3 DEF Named
<1> QED BY <1>1, <1>2

\* A description one number names is named by no other.
LEMMA OneNumber ==
    ASSUME TabT, RefsExact, NEW p \in Slot, NEW n \in Fd, NEW q \in Slot, NEW m \in Fd,
           tab[p][n] \in Oi, tab[q][m] = tab[p][n], of[tab[p][n]].nref = 1, of[tab[p][n]].used
    PROVE  p = q /\ n = m
<1>1. PICK o \in Oi : o = tab[p][n]
  OBVIOUS
<1>2. Cardinality(Numbers(o)) = 1
  BY <1>1 DEF RefsExact
<1>3. <<p, n>> \in Numbers(o) /\ <<q, m>> \in Numbers(o) /\ IsFiniteSet(Numbers(o))
  <2>1. <<p, n>> \in Numbers(o) /\ <<q, m>> \in Numbers(o)
    BY <1>1 DEF Numbers
  <2> QED BY <2>1, Counted
<1>4. /\ IsFiniteSet(Numbers(o) \ {<<p, n>>})
      /\ Cardinality(Numbers(o) \ {<<p, n>>}) = 0
  BY <1>2, <1>3, FS_RemoveElement
<1>5. Numbers(o) \ {<<p, n>>} = {}
  BY <1>4, ZeroCount
<1> QED BY <1>3, <1>5

\* A call's record after a step that moves one slot.
LEMMA GoFacts ==
    ASSUME OpsOk, NEW s \in Slot, NEW f, Go(s, f)
    PROVE  /\ op'[s] = f /\ \A t \in Slot \ {s} : op'[t] = op[t]
           /\ op' = [t \in Slot |-> op'[t]]
BY DEF OpsOk, Go

LEMMA GoOk ==
    ASSUME OpsOk, NEW s \in Slot, NEW f, Go(s, f), OpOk(f)
    PROVE  OpsOk'
<1>1. \A t \in Slot : OpOk(op'[t])
  BY GoFacts DEF OpsOk
<1> QED BY <1>1, GoFacts DEF OpsOk

-----------------------------------------------------------------------------
(* Steps that leave the descriptions and the tables alone. *)

\* What a call holds is the same before and after.
Keeps(o, f) ==
    /\ PipingOp(f) <=> PipingOp(o)
    /\ HoldingOp(f) <=> HoldingOp(o)
    /\ PipingOp(f) \/ HoldingOp(f) =>
          f.k = o.k /\ f.obj = o.obj /\ f.n = o.n /\ f.m = o.m /\ f.oi = o.oi

\* Whether pipes and instances are in use, and the counts of ends, are the same.
Even == /\ \A i \in Pipes : /\ pipe'[i].used = pipe[i].used
                            /\ pipe'[i].r = pipe[i].r /\ pipe'[i].w = pipe[i].w
        /\ \A e \in Eps : ep'[e].used = ep[e].used
        /\ \A v \in Evs : evfd'[v].used = evfd[v].used

LEMMA KeepsAll ==
    ASSUME OpsOk, NEW s \in Slot, NEW f, Go(s, f), Keeps(op[s], f)
    PROVE  \A t \in Slot : Keeps(op[t], op'[t])
<1>1. \A t \in Slot \ {s} : op'[t] = op[t]
  BY GoFacts
<1>2. \A t \in Slot \ {s} : Keeps(op[t], op'[t])
  BY <1>1 DEF Keeps
<1>3. Keeps(op[s], op'[s])
  BY GoFacts
<1> QED BY <1>2, <1>3

\* Then what calls hold, and what is counted, is as it was.
LEMMA Quiet ==
    ASSUME Calls1, Tables, UNCHANGED <<setting, of, tab>>, Even,
           \A t \in Slot : Keeps(op[t], op'[t])
    PROVE  /\ ClaimsOk' /\ ClaimsApart' /\ MakingOk' /\ MakersApart' /\ HalvesOk' /\ HalvesApart'
           /\ Tables'
<1>1. /\ \A t \in Slot : (PipingOp(op'[t]) <=> Piping(t)) /\ (HoldingOp(op'[t]) <=> Holding(t))
      /\ \A t \in Slot : Piping(t) \/ Holding(t) =>
            /\ op'[t].k = op[t].k /\ op'[t].obj = op[t].obj /\ op'[t].n = op[t].n
            /\ op'[t].m = op[t].m /\ op'[t].oi = op[t].oi
  BY DEF Keeps, Piping, Holding
<1>2. \A t \in Slot : Piping(t) => InHands(op'[t]) = InHands(op[t])
  BY <1>1 DEF InHands
<1>3. \A t \in Slot : Of(t)' = Of(t)
  BY DEF Of
<1>4. \A i : BeingMade(i)' <=> BeingMade(i)
  BY <1>1, Makers, MakersNext
<1>5. ClaimsOk'
  BY <1>1 DEF Calls1, ClaimsOk, Holding, Claimed1
<1>6. ClaimsApart'
  BY <1>1 DEF Calls1, ClaimsApart, Holding
<1>7. MakingOk'
  BY <1>1 DEF Calls1, MakingOk, Piping, Even, OpsOk, OpOk, Shape, PipingOp
<1>8. MakersApart'
  BY <1>1 DEF Calls1, MakersApart, Piping
<1>9. HalvesOk'
  BY <1>1, <1>2, <1>3 DEF Calls1, HalvesOk, Piping, Half
<1>10. HalvesApart'
  BY <1>1, <1>2, <1>3 DEF Calls1, HalvesApart, Piping
<1>11. RefsExact'
  BY DEF Tables, RefsExact, Numbers
<1>12. PipeEndsExact'
  <2>1. \A i, w : EndSlots(i, w)' = EndSlots(i, w)
    BY DEF EndSlots, EndOf
  <2> QED BY <2>1, <1>4 DEF Tables, PipeEndsExact, Even
<1>13. Kept'
  BY <1>1 DEF Tables, Kept, Holding
<1>14. EndsOk'
  <2>1. \A t \in Slot, o \in Oi : MakesEnd(t, o) => MakesEnd(t, o)'
    BY <1>1, <1>2, <1>3 DEF MakesEnd, Piping, Holding
  <2> QED BY <2>1 DEF Tables, EndsOk, Even
<1>15. PipesOk'
  BY <1>4 DEF Tables, PipesOk, Even
<1>16. InstancesOk'
  BY DEF Tables, InstancesOk, Twins, Even
<1> QED BY <1>5, <1>6, <1>7, <1>8, <1>9, <1>10, <1>11, <1>12, <1>13, <1>14, <1>15, <1>16 DEF Tables

-----------------------------------------------------------------------------
(* What leaves the other parts as they are. *)

\* What a step of s leaves of the tables and queues of processes that are not live.
Gentle(s) ==
    /\ \A p \in Slot : life[p] # "live" => tab'[p] = tab[p] /\ mail'[p] = mail[p]
    /\ \A p \in Slot : \/ redir'[p] = redir[p] \/ redir'[p] = None
                       \/ p = Of(s) /\ Alone(setting, s) /\ life[p] = "live"

\* Where a call that is not a fork may go next.
Moves(s, f) ==
    /\ life[Of(s)] = "live" \/ f.pc \in {"user", "notify"}
    /\ f.to # None => life[f.to] = "live"
    /\ op[s].to # None => f.to = op[s].to \/ life[op[s].to] = "live"
    /\ f.pc # "heir"
    /\ f.k \in {"give", "redirect"} \/ f.pc = "reject" => Alone(setting, s)
    /\ f.k = "give" => f.to # None

LEMMA LivesStay ==
    ASSUME Orderly, NameT, Lives, LifeT, OpsOk, NEW s \in Slot, NEW f, Go(s, f), Moves(s, f), Gentle(s),
           UNCHANGED <<setting, life>>
    PROVE  Lives'
<1>1. op'[s] = f /\ \A t \in Slot \ {s} : op'[t] = op[t]
  BY GoFacts
<1>2. \A t \in Slot : Of(t)' = Of(t)
  BY DEF Of
<1>3. IdleOk'
  BY <1>1, <1>2 DEF Lives, IdleOk, Moves
<1>4. DeadOk'
  <2> SUFFICES ASSUME NEW p \in Slot, life'[p] # "live"
               PROVE  /\ redir'[p] = None /\ mail'[p] = <<>>
                      /\ (\A t \in Slot : op'[t].to # p) => \A n \in Fd : tab'[p][n] = None
    BY DEF DeadOk
  <2>1. /\ redir[p] = None /\ mail[p] = <<>>
        /\ (\A t \in Slot : op[t].to # p) => \A n \in Fd : tab[p][n] = None
    BY DEF Lives, DeadOk
  <2>2. tab'[p] = tab[p] /\ mail'[p] = mail[p] /\ redir'[p] = None
    BY <2>1 DEF Gentle
  <2>3. (\A t \in Slot : op'[t].to # p) => \A t \in Slot : op[t].to # p
    BY <1>1, Constants DEF Moves
  <2> QED BY <2>1, <2>2, <2>3
<1>5. LeadOk'
  BY <1>2 DEF Lives, LeadOk
<1>6. GivesOk'
  BY <1>1 DEF Lives, GivesOk, Moves
<1>7. HeirsOk'
  <2> SUFFICES ASSUME NEW t \in Slot, op'[t].pc = "heir"
               PROVE  /\ life'[op'[t].to] # "live" /\ Of(op'[t].to) = op'[t].to
                      /\ \A u \in Slot : op'[u].to = op'[t].to => u = t
                      /\ redir'[Of(t)] # None => tab'[op'[t].to][redir'[Of(t)]] # None
    BY DEF HeirsOk, Of
  <2>1. t # s /\ op'[t] = op[t] /\ op[t].pc = "heir"
    BY <1>1 DEF Moves
  <2>2. /\ life[op[t].to] # "live" /\ Of(op[t].to) = op[t].to
        /\ \A u \in Slot : op[u].to = op[t].to => u = t
        /\ redir[Of(t)] # None => tab[op[t].to][redir[Of(t)]] # None
    BY <2>1 DEF Lives, HeirsOk
  <2>3. op[t].to \in Slot
    BY <2>1 DEF OpsOk, OpOk, OpRec, Shape
  <2>4. \A u \in Slot : op'[u].to = op[t].to => u = t
    BY <1>1, <2>1, <2>2, <2>3, Constants DEF Moves
  <2>5. tab'[op[t].to] = tab[op[t].to]
    BY <2>2, <2>3 DEF Gentle
  <2>6. Of(t) \in Slot
    BY Chosen DEF NameT
  <2>7. ~(Of(t) = Of(s) /\ Alone(setting, s))
    BY <2>1 DEF Alone, Of
  <2>8. redir'[Of(t)] = redir[Of(t)] \/ redir'[Of(t)] = None
    BY <2>6, <2>7 DEF Gentle
  <2> QED BY <2>1, <2>2, <2>3, <2>4, <2>5, <2>8
<1>8. AloneOk'
  BY <1>1 DEF Lives, AloneOk, Moves
<1> QED BY <1>3, <1>4, <1>5, <1>6, <1>7, <1>8 DEF Lives

\* What a call may take up.
TakesUp(s, f) ==
    /\ f.k = "redirect" => tab[Of(s)][f.n] # None
    /\ f.k = "give" /\ f.pc \in {"install", "full", "grow", "drop"}
          => of[f.oi].used /\ tab[Of(s)][f.n] = f.oi

\* Numbers in hand are left where they are.
LEMMA HandsStay ==
    ASSUME Orderly, NameT, HandOk, TransferHeld, OpsOk, NEW s \in Slot, NEW f, Go(s, f),
           OpOk(f), TakesUp(s, f), UNCHANGED <<setting, tab>>,
           \A o \in Oi : of[o].used /\ Numbers(o) # {} => of'[o].used
    PROVE  HandOk' /\ TransferHeld'
<1>1. op'[s] = f /\ \A t \in Slot \ {s} : op'[t] = op[t]
  BY GoFacts
<1>2. \A t \in Slot : Of(t)' = Of(t) /\ Of(t) \in Slot
  BY Chosen DEF Of, NameT
<1>3. HandOk'
  BY <1>1, <1>2 DEF HandOk, TakesUp
<1>4. TransferHeld'
  <2> SUFFICES ASSUME NEW t \in Slot, op'[t].k = "give",
                      op'[t].pc \in {"install", "full", "grow", "drop"}
               PROVE  of'[op'[t].oi].used /\ tab'[Of(t)'][op'[t].n] = op'[t].oi
    BY DEF TransferHeld
  <2>1. of[op'[t].oi].used /\ tab[Of(t)][op'[t].n] = op'[t].oi
    BY <1>1 DEF TransferHeld, TakesUp
  <2>2. OpOk(op'[t])
    BY <1>1 DEF OpsOk
  <2>3. op'[t].n \in Fd /\ op'[t].oi \in Oi
    BY <2>2, Constants DEF OpOk, Shape, OpRec, Filling
  <2>4. <<Of(t), op'[t].n>> \in Numbers(op'[t].oi)
    BY <1>2, <2>1, <2>3 DEF Numbers
  <2> QED BY <1>2, <2>1, <2>3, <2>4
<1> QED BY <1>3, <1>4

\* An instance that is not numbered yet is watched with by nobody.
Watchful(o, f) == HoldingOp(f) /\ f.k = "epoll" => HoldingOp(o) /\ o.k = "epoll" /\ f.obj = o.obj
LEMMA UnwatchingStays ==
    ASSUME Unwatching, OpsOk, NEW s \in Slot, NEW f, Go(s, f), Watchful(op[s], f),
           \A e \in Eps : ep'[e].watch \subseteq ep[e].watch
    PROVE  Unwatching'
<1> SUFFICES ASSUME NEW t \in Slot, HoldingOp(op'[t]), op'[t].k = "epoll"
             PROVE  ep'[op'[t].obj].watch = {}
  BY DEF Unwatching, Holding
<1>1. HoldingOp(op[t]) /\ op[t].k = "epoll" /\ op'[t].obj = op[t].obj
  BY GoFacts DEF Watchful
<1>2. ep[op[t].obj].watch = {} /\ op[t].obj \in Eps
  BY <1>1 DEF Unwatching, Holding, OpsOk, OpOk, Shape
<1> QED BY <1>1, <1>2

\* A call that opens or unlinks no other file leaves the files under way as they are.
NoFile(s, f) == /\ f.k = "file" => op[s].k = "file" /\ f.obj = op[s].obj
                /\ f.pc # "orphan"

LEMMA UnlinksStay ==
    ASSUME UnlinksOk, OpsOk, NEW s \in Slot, NEW f, Go(s, f), NoFile(s, f), name' = name,
           \A o \in Oi : of'[o].used /\ of'[o].kind = "file" => 
               \/ of[o].used /\ of[o].kind = "file" /\ of[o].obj = of'[o].obj
               \/ op[s].k = "file" /\ op[s].pc # "orphan" /\ op[s].obj = of'[o].obj
    PROVE  UnlinksOk'
<1>1. op'[s] = f /\ \A t \in Slot \ {s} : op'[t] = op[t]
  BY GoFacts
<1> SUFFICES ASSUME NEW t \in Slot, op'[t].pc = "orphan"
             PROVE  /\ op'[t].obj \notin name'
                    /\ \A u \in Slot \ {t} : op'[u].k = "file" => op'[u].obj # op'[t].obj
                    /\ \A o \in Oi : ~(of'[o].used /\ of'[o].kind = "file" /\ of'[o].obj = op'[t].obj)
  BY DEF UnlinksOk
<1>2. t # s /\ op'[t] = op[t]
  BY <1>1 DEF NoFile
<1>3. /\ op[t].obj \notin name
      /\ \A u \in Slot \ {t} : op[u].k = "file" => op[u].obj # op[t].obj
      /\ \A o \in Oi : ~(of[o].used /\ of[o].kind = "file" /\ of[o].obj = op[t].obj)
  BY <1>2 DEF UnlinksOk
<1>4. \A u \in Slot \ {t} : op'[u].k = "file" => op'[u].obj # op'[t].obj
  BY <1>1, <1>2, <1>3 DEF NoFile
<1> QED BY <1>2, <1>3, <1>4

-----------------------------------------------------------------------------
(* The steps that leave descriptions and tables alone. *)

LEMMA CallsStay ==
    ASSUME FInv, NEW s \in Slot, NEW f, Go(s, f), OpOk(f), Keeps(op[s], f),
           UNCHANGED <<setting, of, tab>>, Even
    PROVE  OpsOk' /\ Calls1' /\ Tables'
<1>1. OpsOk /\ Calls1 /\ Tables
  BY DEF FInv, Calls1
<1>2. OpsOk'
  BY <1>1, GoOk
<1>3. \A t \in Slot : Keeps(op[t], op'[t])
  BY <1>1, KeepsAll
<1> QED BY <1>1, <1>2, <1>3, Quiet DEF Calls1

\* The types that a step of this kind can touch.
Touched == SizedT /\ SizeT /\ PipeT /\ EvT /\ MailT

\* What the call of s does next, and that it holds what it held.
Proceeds(s, f) ==
    /\ Go(s, f) /\ OpOk(f) /\ Keeps(op[s], f) /\ Moves(s, f) /\ TakesUp(s, f)
    /\ UNCHANGED <<setting, of, tab>>

LEMMA PlainStep ==
    ASSUME Orderly, FInv, NEW s \in Slot, NEW f, Proceeds(s, f), Gentle(s), UNCHANGED life, Even,
           NameT', UnlinksOk', Touched', EpT', RedirT', RedirOk', WatchOk', Unwatching'
    PROVE  FInv'
<1>0. /\ Go(s, f) /\ OpOk(f) /\ Keeps(op[s], f) /\ Moves(s, f) /\ TakesUp(s, f)
      /\ UNCHANGED <<setting, of, tab>>
  BY DEF Proceeds
<1>1. OpsOk /\ Lives /\ Sides /\ NameT /\ LifeT /\ Types
  BY DEF FInv, Calls1, Types
<1>2. Calls1' /\ Tables'
  BY <1>0, CallsStay
<1>3. Types'
  <2>1. OfT' /\ TabT' /\ LifeT'
    BY <1>0, <1>1 DEF Types, OfT, TabT, LifeT
  <2> QED BY <2>1 DEF Types, Touched
<1>4. HandOk' /\ TransferHeld'
  BY <1>0, <1>1, HandsStay DEF Sides
<1>6. Lives'
  BY <1>0, <1>1, LivesStay
<1> QED BY <1>2, <1>3, <1>4, <1>6 DEF FInv, Sides

LEMMA QuietStep ==
    ASSUME Orderly, FInv, NEW s \in Slot, NEW f, Go(s, f), OpOk(f), Keeps(op[s], f),
           Moves(s, f), TakesUp(s, f), UNCHANGED <<setting, of, tab, ep, redir, life>>, Even,
           NameT', UnlinksOk', \A p \in Slot : life[p] # "live" => mail'[p] = mail[p], Touched'
    PROVE  FInv'
<1>1. EpT /\ RedirT /\ RedirOk /\ WatchOk /\ Unwatching /\ OpsOk
  BY DEF FInv, Types, Sides, Calls1
<1>2. EpT' /\ RedirT' /\ RedirOk' /\ WatchOk'
  BY <1>1 DEF EpT, RedirT, RedirOk, WatchOk
<1>3. Unwatching'
  <2>1. Watchful(op[s], f)
    BY DEF Keeps, Watchful
  <2> QED BY <1>1, <2>1, UnwatchingStays
<1>4. Gentle(s)
  BY DEF Gentle
<1>5. Proceeds(s, f)
  BY DEF Proceeds
<1> QED BY <1>2, <1>3, <1>4, <1>5, PlainStep

\* A step of the call, and perhaps of the directory.
LEMMA NameStep ==
    ASSUME Orderly, FInv, NEW s \in Slot, NEW f, Go(s, f), OpOk(f), Keeps(op[s], f),
           Moves(s, f), TakesUp(s, f), UNCHANGED <<setting, table, size, mail, life>>,
           NameT', UnlinksOk'
    PROVE  FInv'
<1>1. UNCHANGED <<setting, of, tab, hint, pipe, ep, evfd, redir, size, mail, life>>
  BY DEF table
<1>2. Touched'
  BY <1>1 DEF FInv, Types, Touched, SizedT, SizeT, PipeT, EvT, MailT
<1>3. Even
  BY <1>1 DEF Even
<1> QED BY <1>1, <1>2, <1>3, QuietStep

\* A step of the call alone.
LEMMA OpStep ==
    ASSUME Orderly, FInv, NEW s \in Slot, NEW f, Go(s, f), OpOk(f), Keeps(op[s], f),
           Moves(s, f), TakesUp(s, f), NoFile(s, f),
           UNCHANGED <<setting, table, size, name, mail, life>>
    PROVE  FInv'
<1>1. NameT' /\ UnlinksOk'
  <2>1. UnlinksOk /\ OpsOk /\ NameT
    BY DEF FInv, Sides, Calls1, Types
  <2>2. UNCHANGED <<of, setting, name>>
    BY DEF table
  <2>3. UnlinksOk'
    BY <2>1, <2>2, UnlinksStay
  <2> QED BY <2>1, <2>2, <2>3 DEF NameT
<1> QED BY <1>1, NameStep

\* A thread that starts a call.
LEMMA Starts ==
    ASSUME FInv, NEW s \in Slot, At(s, "user")
    PROVE  op[s] = User /\ OpOk(User) /\ ~PipingOp(op[s]) /\ ~HoldingOp(op[s])
<1>1. OpOk(op[s])
  BY DEF FInv, Calls1, OpsOk
<1>2. op[s] = User
  BY <1>1 DEF OpOk, Shape, At
<1> QED BY <1>1, <1>2 DEF PipingOp, HoldingOp, Ends, Filling, User

\* A thread that comes to the end of its call, or has only to notify.
LEMMA Rests ==
    ASSUME FInv, NEW s \in Slot, NEW os \in SUBSET Oi,
           NEW f, f = (IF os = {} THEN User ELSE [User EXCEPT !.pc = "notify", !.todo = os]),
           ~(op[s].to # None) \/ life[op[s].to] = "live"
    PROVE  OpOk(f) /\ Moves(s, f) /\ TakesUp(s, f) /\ NoFile(s, f) /\ ~PipingOp(f) /\ ~HoldingOp(f)
<1>1. /\ f \in [pc : {"user", "notify"}, k : {"none"}, n : {None}, m : {None}, oi : {None},
                obj : {None}, to : {None}, todo : SUBSET Oi]
      /\ f.pc = "user" => f = User
  BY DEF User
<1>2. OpOk(f)
  BY <1>1 DEF OpOk, OpRec, Shape, Objects, Makes, Filling, Ends
<1>3. Moves(s, f)
  BY <1>1 DEF Moves
<1>4. TakesUp(s, f) /\ NoFile(s, f)
  BY <1>1 DEF TakesUp, NoFile
<1> QED BY <1>1, <1>2, <1>3, <1>4 DEF PipingOp, HoldingOp, Ends, Filling

LEMMA NotifyKeeps ==
    ASSUME Orderly, FInv, NEW s \in Slot, Notify(s)
    PROVE  FInv'
<1> DEFINE os == op[s].todo \ {Min(op[s].todo)}
           f == IF os = {} THEN User ELSE [User EXCEPT !.pc = "notify", !.todo = os]
<1>1. OpOk(op[s])
  BY DEF FInv, Calls1, OpsOk
<1>2. op[s].pc = "notify" /\ op[s].k = "none" /\ op[s].to = None /\ op[s].todo \subseteq Oi
  BY <1>1 DEF Notify, At, OpOk, Shape, OpRec
<1>3. os \in SUBSET Oi
  BY <1>2
<1>4. Go(s, f) /\ UNCHANGED <<setting, table, size, name, mail, life>>
  BY DEF Notify, Telling
<1>5. f = (IF os = {} THEN User ELSE [User EXCEPT !.pc = "notify", !.todo = os])
  OBVIOUS
<1> HIDE DEF f, os
<1>6. OpOk(f) /\ Moves(s, f) /\ TakesUp(s, f) /\ NoFile(s, f) /\ ~PipingOp(f) /\ ~HoldingOp(f)
  BY <1>2, <1>3, <1>5, Rests
<1>7. ~PipingOp(op[s]) /\ ~HoldingOp(op[s])
  BY <1>2 DEF PipingOp, HoldingOp, Ends, Filling
<1>8. Keeps(op[s], f)
  BY <1>6, <1>7 DEF Keeps
<1> QED BY <1>4, <1>6, <1>8, OpStep

LEMMA OpenKeeps ==
    ASSUME Orderly, FInv, NEW s \in Slot, NEW g \in File, Open(s, g)
    PROVE  FInv'
<1> DEFINE f == [User EXCEPT !.pc = "new", !.k = "file", !.obj = g]
<1>1. Go(s, f) /\ name' = name \cup {g} /\ UNCHANGED <<setting, table, size, mail, life>>
  BY DEF Open
<1>2. /\ op[s] = User /\ ~PipingOp(op[s]) /\ ~HoldingOp(op[s]) /\ life[Of(s)] = "live"
      /\ (g \notin name => Undisturbed(g))
  BY Starts DEF Open, Calls
<1>3. /\ f.pc = "new" /\ f.k = "file" /\ f.n = None /\ f.m = None /\ f.oi = None /\ f.obj = g
      /\ f.to = None /\ f.todo = {} /\ f \in OpRec(Objects)
  BY DEF User, OpRec, Makes, Objects
<1>4. OpsOk /\ UnlinksOk /\ NameT
  BY DEF FInv, Calls1, Sides, Types
<1> HIDE DEF f
<1>5. OpOk(f)
  BY <1>3, Constants DEF OpOk, Shape, Filling, Ends
<1>6. Keeps(op[s], f)
  BY <1>2, <1>3 DEF Keeps, PipingOp, HoldingOp, Filling, Ends
<1>7. Moves(s, f) /\ TakesUp(s, f)
  BY <1>2, <1>3 DEF Moves, TakesUp, User
<1>8. NameT'
  BY <1>1, <1>4 DEF NameT
<1>9. UnlinksOk'
  <2>1. op'[s] = f /\ \A t \in Slot \ {s} : op'[t] = op[t]
    BY <1>1, <1>4, GoFacts
  <2>2. \A t \in Slot : op[t].pc = "orphan" => t # s /\ op[t].k = "file"
    BY <1>2, <1>4 DEF OpsOk, OpOk, Shape, User
  <2>3. \A t \in Slot : op[t].pc = "orphan" => op[t].obj # g
    <3>1. ~setting.orphan
      BY <1>4, Chosen DEF NameT
    <3> QED BY <1>2, <1>4, <2>2, <3>1 DEF UnlinksOk, Undisturbed
  <2>4. of' = of
    BY <1>1 DEF table
  <2> QED BY <1>1, <1>3, <1>4, <2>1, <2>2, <2>3, <2>4 DEF UnlinksOk
<1> QED BY <1>1, <1>5, <1>6, <1>7, <1>8, <1>9, NameStep

LEMMA UnlinkKeeps ==
    ASSUME Orderly, FInv, NEW s \in Slot, NEW g \in File, Unlink(s, g)
    PROVE  FInv'
<1> DEFINE f == [User EXCEPT !.pc = "orphan", !.k = "file", !.obj = g]
<1>1. Go(s, f) /\ name' = name \ {g} /\ UNCHANGED <<setting, table, size, mail, life>>
  BY DEF Unlink
<1>2. /\ op[s] = User /\ ~PipingOp(op[s]) /\ ~HoldingOp(op[s]) /\ life[Of(s)] = "live"
      /\ Undisturbed(g) /\ (setting.orphan \/ \A o \in Oi : of[o].obj # g)
  BY Starts DEF Unlink, Calls
<1>3. /\ f.pc = "orphan" /\ f.k = "file" /\ f.n = None /\ f.m = None /\ f.oi = None /\ f.obj = g
      /\ f.to = None /\ f.todo = {} /\ f \in OpRec(Objects)
  BY DEF User, OpRec, Makes, Objects
<1>4. OpsOk /\ UnlinksOk /\ NameT
  BY DEF FInv, Calls1, Sides, Types
<1> HIDE DEF f
<1>5. OpOk(f)
  BY <1>3, Constants DEF OpOk, Shape, Filling, Ends
<1>6. Keeps(op[s], f)
  BY <1>2, <1>3 DEF Keeps, PipingOp, HoldingOp, Filling, Ends
<1>7. Moves(s, f) /\ TakesUp(s, f)
  BY <1>2, <1>3 DEF Moves, TakesUp, User
<1>8. NameT'
  BY <1>1, <1>4 DEF NameT
<1>9. UnlinksOk'
  <2>1. op'[s] = f /\ \A t \in Slot \ {s} : op'[t] = op[t]
    BY <1>1, <1>4, GoFacts
  <2>2. \A t \in Slot : op[t].k = "file" => op[t].obj # g
    <3>1. ~setting.orphan
      BY <1>4, Chosen DEF NameT
    <3> QED BY <1>2, <3>1 DEF Undisturbed
  <2>3. \A t \in Slot : op[t].pc = "orphan" => op[t].k = "file"
    BY <1>4 DEF OpsOk, OpOk, Shape
  <2>4. of' = of /\ \A o \in Oi : of[o].obj # g
    BY <1>1, <1>2, <1>4, Chosen DEF table, NameT
  <2> QED BY <1>1, <1>3, <1>4, <2>1, <2>2, <2>3, <2>4 DEF UnlinksOk
<1> QED BY <1>1, <1>5, <1>6, <1>7, <1>8, <1>9, NameStep

\* A call that goes on filling a table: where it was in it, and where it goes.
Resumes(s, f) ==
    /\ op[s].pc \in {"install", "full", "grow"} /\ f.pc \in {"install", "full", "grow", "undo"}
    /\ f = [op[s] EXCEPT !.pc = f.pc]
    /\ op[s].k = "give" => Alone(setting, s)

\* What the frames ask for of such a step.
Resumed(s, f) == /\ OpOk(f) /\ Keeps(op[s], f) /\ Moves(s, f) /\ TakesUp(s, f) /\ NoFile(s, f)

LEMMA ResumesAt ==
    ASSUME FInv, NEW s \in Slot, op[s].pc \in {"install", "full", "grow"},
           NEW pc \in {"install", "full", "grow", "undo"}, NEW f, f = [op[s] EXCEPT !.pc = pc]
    PROVE  Resumes(s, f)
<1>1. op[s] \in OpRec(Objects)
  BY DEF FInv, Calls1, OpsOk, OpOk
<1>2. f.pc = pc /\ f = [op[s] EXCEPT !.pc = f.pc]
  BY <1>1 DEF OpRec
<1>3. op[s].k = "give" => Alone(setting, s)
  BY DEF FInv, Lives, AloneOk
<1> QED BY <1>2, <1>3 DEF Resumes

LEMMA ResumesOk ==
    ASSUME FInv, NEW s \in Slot, NEW f, Resumes(s, f)
    PROVE  Resumed(s, f)
<1>1. OpOk(op[s]) /\ op[s].pc \in {"install", "full", "grow"} /\ f.pc \in {"install", "full", "grow", "undo"}
  BY DEF FInv, Calls1, OpsOk, Resumes
<1>2. op[s] \in OpRec(Objects) /\ Shape(op[s])
  BY <1>1 DEF OpOk
<1>3. /\ f.k = op[s].k /\ f.n = op[s].n /\ f.m = op[s].m /\ f.oi = op[s].oi /\ f.obj = op[s].obj
      /\ f.to = op[s].to /\ f.todo = op[s].todo /\ f \in OpRec(Objects)
  BY <1>1, <1>2 DEF OpRec, Resumes, Filling
<1>4. OpOk(f)
  <2>1. Shape(f)
    BY <1>1, <1>2, <1>3 DEF Shape, Filling
  <2> QED BY <1>1, <1>3, <2>1 DEF OpOk
<1>5. Keeps(op[s], f)
  BY <1>1, <1>3 DEF Keeps, PipingOp, HoldingOp, Filling
<1>6. Moves(s, f)
  <2>1. IdleOk /\ GivesOk
    BY DEF FInv, Lives
  <2>2. op[s].to # None => op[s].k = "give"
    BY <1>1, <1>2 DEF Shape
  <2>3. op[s].k # "redirect"
    BY <1>1, <1>2 DEF Shape, Makes, Ends, Filling
  <2>4. op[s].k = "give" => op[s].to # None
    BY <1>2 DEF Shape
  <2> QED BY <1>1, <1>3, <2>1, <2>2, <2>3, <2>4 DEF Moves, IdleOk, GivesOk, Resumes
<1>7. TakesUp(s, f)
  <2>1. op[s].k # "redirect"
    BY <1>1, <1>2 DEF Shape, Makes, Ends, Filling
  <2>2. TransferHeld
    BY DEF FInv, Sides
  <2> QED BY <1>1, <1>3, <2>1, <2>2 DEF TakesUp, TransferHeld
<1>8. NoFile(s, f)
  BY <1>1, <1>3 DEF NoFile
<1> QED BY <1>4, <1>5, <1>6, <1>7, <1>8 DEF Resumed

LEMMA FullKeeps ==
    ASSUME Orderly, FInv, NEW s \in Slot, Full(s)
    PROVE  FInv'
<1> DEFINE f == [op[s] EXCEPT !.pc = IF size[Target(s)] >= FdMax THEN "undo" ELSE "grow"]
<1>1. Go(s, f) /\ op[s].pc = "full" /\ UNCHANGED <<setting, table, size, name, mail, life>>
  BY DEF Full, At
<1> HIDE DEF f
<1>2. Resumes(s, f)
  BY <1>1, ResumesAt DEF f
<1> QED BY <1>1, <1>2, ResumesOk, OpStep DEF Resumed

LEMMA GrowKeeps ==
    ASSUME Orderly, FInv, NEW s \in Slot, Grow(s)
    PROVE  FInv'
<1>1. op[s].pc = "grow" /\ UNCHANGED <<setting, table, name, mail, life>>
  BY DEF Grow, At
<1>2. CASE Go(s, [op[s] EXCEPT !.pc = "undo"]) /\ UNCHANGED size
  <2> DEFINE f == [op[s] EXCEPT !.pc = "undo"]
  <2>1. Go(s, f) /\ UNCHANGED <<setting, table, size, name, mail, life>>
    BY <1>1, <1>2
  <2>2. f = [op[s] EXCEPT !.pc = "undo"]
    OBVIOUS
  <2> HIDE DEF f
  <2>3. Resumes(s, f)
    BY <1>1, <2>2, ResumesAt
  <2> QED BY <2>1, <2>3, ResumesOk, OpStep DEF Resumed
<1>3. CASE /\ size' = [size EXCEPT ![Target(s)] = FdMax]
           /\ Go(s, [op[s] EXCEPT !.pc = "install"])
  <2> DEFINE f == [op[s] EXCEPT !.pc = "install"]
  <2>1. Go(s, f) /\ f = [op[s] EXCEPT !.pc = "install"]
    BY <1>3
  <2> HIDE DEF f
  <2>2. Resumed(s, f)
    BY <1>1, <2>1, ResumesAt, ResumesOk
  <2>3. UNCHANGED <<setting, of, tab, hint, pipe, ep, evfd, redir, name, mail, life>>
    BY <1>1 DEF table
  <2>4. SizedT /\ SizeT /\ PipeT /\ EvT /\ MailT /\ NameT /\ UnlinksOk /\ OpsOk /\ TabT
    BY DEF FInv, Types, Sides, Calls1
  <2>5. SizedT' /\ SizeT'
    <3>1. SizeT'
      BY <1>3, <2>3, <2>4 DEF SizeT
    <3>2. ASSUME NEW p \in Slot, NEW n \in Fd, n >= size'[p] PROVE tab'[p][n] = None
      <4>1. size'[p] = size[p] \/ size'[p] = FdMax
        BY <1>3, <2>4 DEF SizeT
      <4>2. n < FdMax
        BY Constants DEF Fd
      <4>3. size'[p] = size[p]
        BY <3>2, <4>1, <4>2, Constants
      <4> QED BY <2>3, <2>4, <3>2, <4>3 DEF SizedT
    <3> QED BY <3>1, <3>2 DEF SizedT
  <2>6. Touched'
    BY <2>3, <2>4, <2>5 DEF Touched, PipeT, EvT, MailT
  <2>7. NameT' /\ UnlinksOk'
    BY <2>1, <2>2, <2>3, <2>4, UnlinksStay DEF NameT, Resumed
  <2>8. Even
    BY <2>3 DEF Even
  <2> QED BY <2>1, <2>2, <2>3, <2>6, <2>7, <2>8, QuietStep DEF Resumed
<1> QED BY <1>2, <1>3 DEF Grow

LEMMA DerefKeeps ==
    ASSUME Orderly, FInv, NEW s \in Slot, NEW n \in Fd, NEW k \in Ends \cup {"redirect"},
           Deref(s, n, k)
    PROVE  FInv'
<1> DEFINE f == [User EXCEPT !.pc = "use", !.k = k, !.oi = Named(Of(s), n),
                             !.n = IF k = "redirect" THEN n ELSE None,
                             !.obj = of[Named(Of(s), n)].kind]
<1>1. Go(s, f) /\ Named(Of(s), n) # None /\ UNCHANGED <<setting, table, size, name, mail, life>>
  BY DEF Deref
<1>2. /\ op[s] = User /\ ~PipingOp(op[s]) /\ ~HoldingOp(op[s]) /\ life[Of(s)] = "live"
      /\ k \in setting.ops[s]
  BY Starts DEF Deref, Calls
<1>3. TabT /\ SizedT /\ SizeT /\ OfT /\ RefsExact /\ NameT
  BY DEF FInv, Types, Tables
<1>4. Of(s) \in Slot /\ (k = "redirect" => Alone(setting, s))
  BY <1>2, <1>3, Chosen DEF NameT
<1>5. Named(Of(s), n) = tab[Of(s)][n] /\ tab[Of(s)][n] # None
  BY <1>1, <1>3, <1>4, NamedIs
<1>6. tab[Of(s)][n] \in Oi
  BY <1>3, <1>4, <1>5, NamedUsed
<1>7. of[tab[Of(s)][n]].kind \in Kinds
  BY <1>3, <1>6 DEF OfT, OfRec
<1>8. /\ f.pc = "use" /\ f.k = k /\ f.n = (IF k = "redirect" THEN n ELSE None) /\ f.m = None
      /\ f.oi = tab[Of(s)][n] /\ f.obj = of[tab[Of(s)][n]].kind /\ f.to = None /\ f.todo = {}
      /\ f \in OpRec(Kinds)
  BY <1>5, <1>6, <1>7 DEF User, OpRec, Makes
<1> HIDE DEF f
<1>9. OpOk(f)
  BY <1>6, <1>8, Constants DEF OpOk, Shape, Filling, Ends
<1>10. Keeps(op[s], f)
  BY <1>2, <1>8 DEF Keeps, PipingOp, HoldingOp, Filling, Ends
<1>11. Moves(s, f) /\ TakesUp(s, f) /\ NoFile(s, f)
  BY <1>2, <1>4, <1>5, <1>8 DEF Moves, TakesUp, User, NoFile, Ends
<1> QED BY <1>1, <1>9, <1>10, <1>11, OpStep

LEMMA SendKeeps ==
    ASSUME Orderly, FInv, NEW s \in Slot, NEW q \in Slot, NEW n \in Fd, Send(s, q, n)
    PROVE  FInv'
<1> DEFINE f == [User EXCEPT !.pc = "install", !.k = "give", !.n = n, !.to = q,
                             !.oi = Named(Of(s), n)]
<1>1. /\ Go(s, f) /\ Named(Of(s), n) # None /\ life[q] = "live"
      /\ UNCHANGED <<setting, table, size, name, mail, life>>
  BY DEF Send
<1>2. /\ op[s] = User /\ ~PipingOp(op[s]) /\ ~HoldingOp(op[s]) /\ life[Of(s)] = "live"
      /\ "send" \in setting.ops[s]
  BY Starts DEF Send, Calls
<1>3. TabT /\ SizedT /\ SizeT /\ OfT /\ RefsExact /\ NameT
  BY DEF FInv, Types, Tables
<1>4. Of(s) \in Slot /\ Alone(setting, s)
  BY <1>2, <1>3, Chosen DEF NameT
<1>5. Named(Of(s), n) = tab[Of(s)][n] /\ tab[Of(s)][n] # None
  BY <1>1, <1>3, <1>4, NamedIs
<1>6. tab[Of(s)][n] \in Oi /\ of[tab[Of(s)][n]].used
  BY <1>3, <1>4, <1>5, NamedUsed
<1>8. /\ f.pc = "install" /\ f.k = "give" /\ f.n = n /\ f.m = None
      /\ f.oi = tab[Of(s)][n] /\ f.obj = None /\ f.to = q /\ f.todo = {}
      /\ f \in OpRec(Objects)
  BY <1>5, <1>6 DEF User, OpRec, Filling, Objects
<1> HIDE DEF f
<1>9. OpOk(f)
  BY <1>6, <1>8, Constants DEF OpOk, Shape, Filling, Ends
<1>10. Keeps(op[s], f)
  BY <1>2, <1>8 DEF Keeps, PipingOp, HoldingOp, Filling, Ends
<1>11. Moves(s, f) /\ TakesUp(s, f) /\ NoFile(s, f)
  BY <1>1, <1>2, <1>4, <1>5, <1>6, <1>8, Constants DEF Moves, TakesUp, User, NoFile
<1> QED BY <1>1, <1>9, <1>10, <1>11, OpStep

\* A step of the call and of a queue.
LEMMA MailStep ==
    ASSUME Orderly, FInv, NEW s \in Slot, NEW f, Go(s, f), OpOk(f), Keeps(op[s], f),
           Moves(s, f), TakesUp(s, f), NoFile(s, f), UNCHANGED <<setting, table, size, name, life>>,
           MailT', \A p \in Slot : life[p] # "live" => mail'[p] = mail[p]
    PROVE  FInv'
<1>1. UNCHANGED <<setting, of, tab, hint, pipe, ep, evfd, redir, size, name, life>>
  BY DEF table
<1>2. Touched'
  BY <1>1 DEF FInv, Types, Touched, SizedT, SizeT, PipeT, EvT
<1>3. Even
  BY <1>1 DEF Even
<1>4. NameT' /\ UnlinksOk'
  <2>1. UnlinksOk /\ OpsOk /\ NameT
    BY DEF FInv, Sides, Calls1, Types
  <2>2. UnlinksOk'
    BY <2>1, <1>1, UnlinksStay
  <2> QED BY <2>1, <1>1, <2>2 DEF NameT
<1> QED BY <1>1, <1>2, <1>3, <1>4, QuietStep

LEMMA PostKeeps ==
    ASSUME Orderly, FInv, NEW s \in Slot, Post(s)
    PROVE  FInv'
<1>1. PICK q : q = op[s].to
  OBVIOUS
<1>2. /\ op[s].pc = "post" /\ Go(s, User) /\ UNCHANGED <<setting, table, size, name, life>>
      /\ mail' = IF Room(q) THEN [mail EXCEPT ![q] = Append(@, op[s].m)] ELSE mail
  BY <1>1 DEF Post, At
<1>3. MailT /\ OpOk(op[s]) /\ GivesOk
  BY DEF FInv, Types, Calls1, OpsOk, Lives
<1>4. op[s].k = "give" /\ op[s].m \in Fd /\ q \in Slot
  BY <1>1, <1>2, <1>3 DEF OpOk, OpRec, Shape
<1>5. life[q] = "live"
  BY <1>1, <1>3, <1>4 DEF GivesOk
<1>6. MailT'
  <2>1. CASE Room(q)
    <3>1. Append(mail[q], op[s].m) \in Seq(Fd)
          /\ Len(Append(mail[q], op[s].m)) = Len(mail[q]) + 1
      BY <1>3, <1>4 DEF MailT
    <3>2. Len(mail[q]) + 1 <= QLen
      <4>1. Len(mail[q]) \in Nat
        BY <1>3, <1>4 DEF MailT
      <4> QED BY <2>1, <4>1, Constants DEF Room
    <3> QED BY <1>2, <1>3, <1>4, <2>1, <3>1, <3>2 DEF MailT
  <2>2. CASE ~Room(q)
    BY <1>2, <1>3, <2>2 DEF MailT
  <2> QED BY <2>1, <2>2
<1>7. \A p \in Slot : life[p] # "live" => mail'[p] = mail[p]
  BY <1>2, <1>3, <1>5 DEF MailT
<1>8. OpOk(User) /\ Moves(s, User) /\ TakesUp(s, User) /\ NoFile(s, User) /\ ~PipingOp(User)
      /\ ~HoldingOp(User)
  BY <1>1, <1>5, Rests
<1>9. Keeps(op[s], User)
  BY <1>2, <1>4, <1>8 DEF Keeps, PipingOp, HoldingOp, Filling, Ends
<1> QED BY <1>2, <1>6, <1>7, <1>8, <1>9, MailStep

LEMMA ReceiveKeeps ==
    ASSUME Orderly, FInv, NEW s \in Slot, Receive(s)
    PROVE  FInv'
<1>1. /\ mail[s] # <<>> /\ mail' = [mail EXCEPT ![s] = Tail(@)]
      /\ UNCHANGED <<setting, table, size, name, life>>
      /\ Go(s, User) \/ Go(s, [User EXCEPT !.pc = "reject", !.n = Head(mail[s])])
  BY DEF Receive
<1>2. /\ op[s] = User /\ ~PipingOp(op[s]) /\ ~HoldingOp(op[s]) /\ life[Of(s)] = "live"
      /\ "receive" \in setting.ops[s]
  BY Starts DEF Receive, Calls
<1>3. MailT /\ NameT /\ DeadOk
  BY DEF FInv, Types, Lives
<1>4. Alone(setting, s) /\ life[s] = "live"
  BY <1>1, <1>2, <1>3, Chosen DEF NameT, DeadOk
<1>5. Head(mail[s]) \in Fd /\ Tail(mail[s]) \in Seq(Fd) /\ Len(Tail(mail[s])) <= QLen
  <2>1. mail[s] \in Seq(Fd) /\ Len(mail[s]) <= QLen
    BY <1>3 DEF MailT
  <2>2. Len(Tail(mail[s])) = Len(mail[s]) - 1 /\ Len(mail[s]) \in Nat
    BY <1>1, <2>1
  <2> QED BY <1>1, <2>1, <2>2, Constants
<1>6. MailT' /\ \A p \in Slot : life[p] # "live" => mail'[p] = mail[p]
  BY <1>1, <1>3, <1>4, <1>5 DEF MailT
<1>7. CASE Go(s, User)
  <2>1. OpOk(User) /\ Moves(s, User) /\ TakesUp(s, User) /\ NoFile(s, User) /\ ~PipingOp(User)
        /\ ~HoldingOp(User)
    <3>1. op[s].to = None
      BY <1>2 DEF User
    <3> QED BY <3>1, Rests
  <2>2. Keeps(op[s], User)
    BY <1>2 DEF Keeps
  <2> QED BY <1>1, <1>6, <1>7, <2>1, <2>2, MailStep
<1>8. CASE Go(s, [User EXCEPT !.pc = "reject", !.n = Head(mail[s])])
  <2> DEFINE f == [User EXCEPT !.pc = "reject", !.n = Head(mail[s])]
  <2>1. Go(s, f)
    BY <1>8
  <2>2. /\ f.pc = "reject" /\ f.k = "none" /\ f.n = Head(mail[s]) /\ f.m = None
        /\ f.oi = None /\ f.obj = None /\ f.to = None /\ f.todo = {} /\ f \in OpRec(Objects)
    BY <1>5 DEF User, OpRec, Objects
  <2> HIDE DEF f
  <2>3. OpOk(f)
    BY <1>5, <2>2, Constants DEF OpOk, Shape, Filling, Ends
  <2>4. Keeps(op[s], f)
    BY <1>2, <2>2 DEF Keeps, PipingOp, HoldingOp, Filling, Ends
  <2>5. Moves(s, f) /\ TakesUp(s, f) /\ NoFile(s, f)
    BY <1>2, <1>4, <2>2 DEF Moves, TakesUp, NoFile, User
  <2> QED BY <1>1, <1>6, <2>1, <2>3, <2>4, <2>5, MailStep
<1> QED BY <1>1, <1>7, <1>8

\* A step that reads or writes what a description stands for.
LEMMA UseStep ==
    ASSUME Orderly, FInv, NEW s \in Slot, NEW os \in SUBSET Oi, Telling(s, os),
           At(s, "use"), UNCHANGED <<setting, of, tab, hint, ep, redir, size, name, mail, life>>,
           PipeT', EvT', Even
    PROVE  FInv'
<1> DEFINE f == IF os = {} THEN User ELSE [User EXCEPT !.pc = "notify", !.todo = os]
<1>1. Go(s, f) /\ f = (IF os = {} THEN User ELSE [User EXCEPT !.pc = "notify", !.todo = os])
  BY DEF Telling
<1> HIDE DEF f
<1>2. OpOk(op[s]) /\ op[s].pc = "use"
  BY DEF FInv, Calls1, OpsOk, At
<1>3. ~PipingOp(op[s]) /\ ~HoldingOp(op[s])
  BY <1>2 DEF PipingOp, HoldingOp, Filling
<1>4. op[s].to = None
  <2>1. op[s].k \in Ends \cup {"redirect"}
    BY <1>2 DEF OpOk, Shape
  <2> QED BY <1>2, <2>1 DEF OpOk, Shape, Ends
<1>5. OpOk(f) /\ Moves(s, f) /\ TakesUp(s, f) /\ NoFile(s, f) /\ ~PipingOp(f) /\ ~HoldingOp(f)
  BY <1>1, <1>4, Rests
<1>6. Keeps(op[s], f)
  BY <1>3, <1>5 DEF Keeps
<1>7. UnlinksOk /\ OpsOk /\ NameT /\ SizedT /\ SizeT /\ MailT
  BY DEF FInv, Sides, Calls1, Types
<1>8. UnlinksOk' /\ NameT'
  <2>1. UnlinksOk'
    BY <1>1, <1>5, <1>7, UnlinksStay
  <2> QED BY <1>7, <2>1 DEF NameT
<1>9. Touched'
  BY <1>7 DEF Touched, SizedT, SizeT, MailT
<1> QED BY <1>1, <1>5, <1>6, <1>8, <1>9, QuietStep

LEMMA ReadKeeps ==
    ASSUME Orderly, FInv, NEW s \in Slot, Read(s)
    PROVE  FInv'
<1>1. PICK rest \in BOOLEAN :
          /\ pipe' = IF Usable(s) /\ op[s].obj = "pipe"
                     THEN [pipe EXCEPT ![of[op[s].oi].obj].has = @ /\ rest] ELSE pipe
          /\ evfd' = IF Usable(s) /\ op[s].obj = "evfd"
                     THEN [evfd EXCEPT ![of[op[s].oi].obj].has = @ /\ rest] ELSE evfd
  BY DEF Read
<1>2. /\ At(s, "use") /\ Go(s, User)
      /\ UNCHANGED <<setting, of, tab, hint, ep, redir, size, name, mail, life>>
  BY DEF Read
<1>3. Telling(s, {})
  BY <1>2 DEF Telling
<1>4. PipeT /\ EvT
  BY DEF FInv, Types
<1>5. PipeT' /\ \A i \in Pipes : /\ pipe'[i].used = pipe[i].used
                                 /\ pipe'[i].r = pipe[i].r /\ pipe'[i].w = pipe[i].w
  BY <1>1, <1>4 DEF PipeT
<1>6. EvT' /\ \A v \in Evs : evfd'[v].used = evfd[v].used
  BY <1>1, <1>4 DEF EvT
<1>7. Even
  BY <1>2, <1>5, <1>6 DEF Even
<1> QED BY <1>2, <1>3, <1>5, <1>6, <1>7, UseStep

LEMMA WriteKeeps ==
    ASSUME Orderly, FInv, NEW s \in Slot, Write(s)
    PROVE  FInv'
<1>1. /\ At(s, "use")
      /\ UNCHANGED <<setting, of, tab, hint, ep, redir, size, name, mail, life>>
  BY DEF Write
<1>2. PICK i : i = of[op[s].oi].obj
  OBVIOUS
<1>3. \/ /\ pipe' = [pipe EXCEPT ![i].has = TRUE]
         /\ Telling(s, ReadEnds(i, of)) /\ UNCHANGED evfd
      \/ /\ evfd' = [evfd EXCEPT ![i].has = TRUE]
         /\ Telling(s, {op[s].oi}) /\ UNCHANGED pipe
      \/ Go(s, User) /\ UNCHANGED <<pipe, evfd>>
  BY <1>2 DEF Write
<1>4. PipeT /\ EvT /\ OpOk(op[s])
  BY DEF FInv, Types, Calls1, OpsOk
<1>5. CASE pipe' = [pipe EXCEPT ![i].has = TRUE] /\ Telling(s, ReadEnds(i, of)) /\ UNCHANGED evfd
  <2>1. ReadEnds(i, of) \in SUBSET Oi
    BY DEF ReadEnds
  <2>2. PipeT' /\ EvT' /\ \A j \in Pipes : /\ pipe'[j].used = pipe[j].used
                                 /\ pipe'[j].r = pipe[j].r /\ pipe'[j].w = pipe[j].w
    BY <1>4, <1>5 DEF PipeT, EvT
  <2>3. Even
    BY <1>1, <1>5, <2>2 DEF Even
  <2> QED BY <1>1, <1>5, <2>1, <2>2, <2>3, UseStep
<1>6. CASE evfd' = [evfd EXCEPT ![i].has = TRUE] /\ Telling(s, {op[s].oi}) /\ UNCHANGED pipe
  <2>1. {op[s].oi} \in SUBSET Oi
    BY <1>1, <1>4 DEF At, OpOk, Shape
  <2>2. PipeT' /\ EvT' /\ \A v \in Evs : evfd'[v].used = evfd[v].used
    BY <1>4, <1>6 DEF PipeT, EvT
  <2>3. Even
    BY <1>1, <1>6, <2>2 DEF Even
  <2> QED BY <1>1, <1>6, <2>1, <2>2, <2>3, UseStep
<1>7. CASE Go(s, User) /\ UNCHANGED <<pipe, evfd>>
  <2>1. Telling(s, {})
    BY <1>7 DEF Telling
  <2>2. PipeT' /\ EvT' /\ Even
    BY <1>1, <1>4, <1>7 DEF PipeT, EvT, Even
  <2> QED BY <1>1, <2>1, <2>2, UseStep
<1> QED BY <1>3, <1>5, <1>6, <1>7

\* Nobody has the file, so no description goes.
LEMMA OrphanKeeps ==
    ASSUME Orderly, FInv, NEW s \in Slot, Orphan(s)
    PROVE  FInv'
<1>1. OfT /\ UnlinksOk /\ OpOk(op[s])
  BY DEF FInv, Types, Sides, Calls1, OpsOk
<1>2. op[s].pc = "orphan" /\ op[s].k = "file" /\ op[s].to = None
  BY <1>1 DEF Orphan, At, OpOk, Shape, Filling
<1>3. of' = of
  <2>1. \A o \in Oi : ~(of[o].used /\ of[o].kind = "file" /\ of[o].obj = op[s].obj)
    BY <1>1, <1>2 DEF UnlinksOk
  <2>2. of' = [o \in Oi |-> of[o]]
    BY <2>1 DEF Orphan
  <2> QED BY <1>1, <2>2 DEF OfT
<1>4. Go(s, User) /\ UNCHANGED <<setting, table, size, name, mail, life>>
  BY <1>3 DEF Orphan, table
<1>5. OpOk(User) /\ Moves(s, User) /\ TakesUp(s, User) /\ NoFile(s, User) /\ ~PipingOp(User)
      /\ ~HoldingOp(User)
  BY <1>2, Rests
<1>6. Keeps(op[s], User)
  BY <1>2, <1>5 DEF Keeps, PipingOp, HoldingOp, Filling, Ends
<1> QED BY <1>4, <1>5, <1>6, OpStep

\* What an idle thread's step of no system call section asks of the frames.
LEMMA IdleStep ==
    ASSUME FInv, NEW s \in Slot, Go(s, User), op[s].to = None, ~PipingOp(op[s]), ~HoldingOp(op[s]),
           UNCHANGED <<setting, of, tab, name>>
    PROVE  Proceeds(s, User) /\ UnlinksOk' /\ NameT' /\ \A t \in Slot : Keeps(op[t], op'[t])
<1>1. OpOk(User) /\ Moves(s, User) /\ TakesUp(s, User) /\ NoFile(s, User) /\ ~PipingOp(User)
      /\ ~HoldingOp(User)
  BY Rests
<1>2. Keeps(op[s], User)
  BY <1>1 DEF Keeps
<1>3. UnlinksOk /\ OpsOk /\ NameT
  BY DEF FInv, Sides, Calls1, Types
<1>4. UnlinksOk'
  BY <1>1, <1>3, UnlinksStay
<1>5. \A t \in Slot : Keeps(op[t], op'[t])
  BY <1>2, <1>3, KeepsAll
<1> QED BY <1>1, <1>2, <1>3, <1>4, <1>5 DEF Proceeds, NameT

LEMMA RedirectKeeps ==
    ASSUME Orderly, FInv, NEW s \in Slot, Redirect(s)
    PROVE  FInv'
<1>1. /\ op[s].pc = "use" /\ op[s].k = "redirect" /\ redir' = [redir EXCEPT ![Of(s)] = op[s].n]
      /\ Go(s, User)
      /\ UNCHANGED <<setting, of, tab, hint, pipe, ep, evfd, size, name, mail, life>>
  BY DEF Redirect, At
<1>2. /\ Types /\ RedirOk /\ WatchOk /\ Unwatching /\ HandOk /\ AloneOk /\ IdleOk /\ OpsOk
  BY DEF FInv, Sides, Lives, Calls1
<1>3. op[s].n \in Fd /\ op[s].to = None /\ Of(s) \in Slot
  BY <1>1, <1>2, Chosen DEF OpsOk, OpOk, OpRec, Shape, Filling, Types, NameT
<1>4. ~PipingOp(op[s]) /\ ~HoldingOp(op[s])
  BY <1>1 DEF PipingOp, HoldingOp, Filling
<1>5. Proceeds(s, User) /\ UnlinksOk' /\ NameT' /\ \A t \in Slot : Keeps(op[t], op'[t])
  BY <1>1, <1>3, <1>4, IdleStep
<1>6. Alone(setting, s) /\ life[Of(s)] = "live" /\ tab[Of(s)][op[s].n] # None
  BY <1>1, <1>2 DEF AloneOk, IdleOk, HandOk
<1>7. RedirT /\ EpT /\ SizedT /\ SizeT /\ PipeT /\ EvT /\ MailT
  BY <1>2 DEF Types
<1>8. RedirT' /\ RedirOk'
  BY <1>1, <1>2, <1>3, <1>6, <1>7 DEF RedirT, RedirOk
<1>9. EpT' /\ WatchOk' /\ Touched'
  BY <1>1, <1>2, <1>7 DEF EpT, WatchOk, Touched, SizedT, SizeT, PipeT, EvT, MailT
<1>10. Unwatching'
  <2>1. Go(s, User) /\ Watchful(op[s], User)
    BY <1>5 DEF Proceeds, Keeps, Watchful
  <2> QED BY <1>1, <1>2, <1>5, <2>1, UnwatchingStays
<1>11. Gentle(s)
  BY <1>1, <1>6, <1>7 DEF Gentle, RedirT
<1>12. Even
  BY <1>1 DEF Even
<1> QED BY <1>1, <1>5, <1>8, <1>9, <1>10, <1>11, <1>12, PlainStep

LEMMA ConsoleKeeps ==
    ASSUME Orderly, FInv, NEW s \in Slot, Console(s)
    PROVE  FInv'
<1>1. /\ redir' = [redir EXCEPT ![Of(s)] = None] /\ op' = op
      /\ UNCHANGED <<setting, of, tab, hint, pipe, ep, evfd, size, name, mail, life>>
  BY DEF Console
<1>2. op[s] = User /\ ~PipingOp(op[s]) /\ ~HoldingOp(op[s])
  BY Starts DEF Console, Calls
<1>3. Types /\ RedirOk /\ WatchOk /\ Unwatching /\ OpsOk
  BY DEF FInv, Sides, Calls1
<1>4. Go(s, User) /\ op[s].to = None /\ Of(s) \in Slot
  <2>1. Go(s, User)
    BY <1>1, <1>2, <1>3 DEF Go, OpsOk
  <2>2. op[s].to = None
    BY <1>2 DEF User
  <2> QED BY <1>3, <2>1, <2>2, Chosen DEF Types, NameT
<1>5. Proceeds(s, User) /\ UnlinksOk' /\ NameT' /\ \A t \in Slot : Keeps(op[t], op'[t])
  BY <1>1, <1>2, <1>4, IdleStep
<1>7. RedirT /\ EpT /\ SizedT /\ SizeT /\ PipeT /\ EvT /\ MailT
  BY <1>3 DEF Types
<1>8. RedirT' /\ RedirOk'
  BY <1>1, <1>3, <1>4, <1>7 DEF RedirT, RedirOk
<1>9. EpT' /\ WatchOk' /\ Touched'
  BY <1>1, <1>3, <1>7 DEF EpT, WatchOk, Touched, SizedT, SizeT, PipeT, EvT, MailT
<1>10. Unwatching'
  <2>1. Go(s, User) /\ Watchful(op[s], User)
    BY <1>5 DEF Proceeds, Keeps, Watchful
  <2> QED BY <1>1, <1>3, <1>5, <2>1, UnwatchingStays
<1>11. Gentle(s)
  BY <1>1, <1>4, <1>7 DEF Gentle, RedirT
<1>12. Even
  BY <1>1 DEF Even
<1> QED BY <1>1, <1>5, <1>8, <1>9, <1>10, <1>11, <1>12, PlainStep

\* Watches are of numbers and descriptions, finitely many.
Watches == [fd : Fd, oi : Oi]
LEMMA WatchesFinite == IsFiniteSet(Watches) /\ \A W \in SUBSET Watches : IsFiniteSet(W) /\ Cardinality(W) \in Nat
<1> DEFINE f == [x \in Fd \X Oi |-> [fd |-> x[1], oi |-> x[2]]]
<1>1. IsFiniteSet(Fd \X Oi)
  BY Finite, FS_Product
<1>2. f \in Surjection(Fd \X Oi, Watches)
  <2>1. f \in [Fd \X Oi -> Watches]
    BY DEF Watches
  <2>2. ASSUME NEW y \in Watches PROVE \E x \in Fd \X Oi : f[x] = y
    <3>1. y = [fd |-> y.fd, oi |-> y.oi] /\ <<y.fd, y.oi>> \in Fd \X Oi
      BY DEF Watches
    <3>2. f[<<y.fd, y.oi>>] = y
      BY <3>1
    <3> QED BY <3>1, <3>2
  <2> QED BY <2>1, <2>2 DEF Surjection
<1>3. IsFiniteSet(Watches)
  <2> HIDE DEF f
  <2> QED BY <1>1, <1>2, FS_Surjection
<1> QED BY <1>3, FS_Subset, FS_CardinalityType

\* A number that names an instance names one in use, and counts in it.
LEMMA InstanceIs ==
    ASSUME FInv, NEW p \in Slot, NEW n \in Fd, Named(p, n) # None
    PROVE  /\ Named(p, n) \in Oi /\ of[Named(p, n)].used /\ of[Named(p, n)].nref > 0
           /\ Instance(p, n) # None => /\ Instance(p, n) \in Eps /\ ep[Instance(p, n)].used
                                       /\ \A t \in Slot : ~(Holding(t) /\ op[t].k = "epoll"
                                                             /\ op[t].obj = Instance(p, n))
<1>1. TabT /\ SizedT /\ SizeT /\ OfT /\ RefsExact /\ ClaimsOk /\ InstancesOk /\ OpsOk
  BY DEF FInv, Types, Tables, Calls1
<1>2. PICK o : o = Named(p, n)
  OBVIOUS
<1>3. o \in Oi /\ of[o].used /\ of[o].nref > 0
  BY <1>1, <1>2, NamedIs, NamedUsed
<1>4. ASSUME Instance(p, n) # None
      PROVE  /\ Instance(p, n) \in Eps /\ ep[Instance(p, n)].used
             /\ \A t \in Slot : ~(Holding(t) /\ op[t].k = "epoll" /\ op[t].obj = Instance(p, n))
  <2>1. of[o].kind = "epoll" /\ Instance(p, n) = of[o].obj
    BY <1>2, <1>4 DEF Instance
  <2>2. Instance(p, n) \in Eps /\ ep[Instance(p, n)].used
    BY <1>1, <1>3, <2>1 DEF InstancesOk
  <2>3. ASSUME NEW t \in Slot, Holding(t), op[t].k = "epoll", op[t].obj = Instance(p, n)
        PROVE  FALSE
    <3>1. of[op[t].oi] = Claimed1(op[t]) /\ op[t].oi \in Oi
      BY <1>1, <2>3 DEF ClaimsOk, Holding, HoldingOp, OpsOk, OpOk, Shape
    <3>2. /\ of[op[t].oi].used /\ of[op[t].oi].kind = "epoll" /\ of[op[t].oi].obj = of[o].obj
          /\ of[op[t].oi].nref = 0
      BY <2>1, <2>3, <3>1 DEF Claimed1, Blank, Ends
    <3>3. Twins(op[t].oi, o)
      BY <1>3, <2>1, <3>2 DEF Twins
    <3>4. op[t].oi = o
      BY <1>1, <1>3, <3>1, <3>3 DEF InstancesOk
    <3> QED BY <1>3, <3>2, <3>4
  <2> QED BY <2>2, <2>3
<1> QED BY <1>2, <1>3, <1>4

\* A step that changes what one instance watches.
LEMMA CtlStep ==
    ASSUME Orderly, FInv, NEW s \in Slot, NEW n \in Fd, NEW W \in SUBSET Watches,
           Instance(Of(s), n) # None, At(s, "user"),
           ep' = [ep EXCEPT ![Instance(Of(s), n)].watch = W], Cardinality(W) <= MaxWatch,
           \A x \in W : of[x.oi].used /\ of[x.oi].nref > 0,
           UNCHANGED <<setting, of, tab, hint, pipe, evfd, redir, size, name, mail, life, op>>
    PROVE  FInv'
<1>1. PICK e : e = Instance(Of(s), n)
  OBVIOUS
<1>2. op[s] = User /\ ~PipingOp(op[s]) /\ ~HoldingOp(op[s])
  BY Starts
<1>3. Types /\ RedirOk /\ WatchOk /\ Unwatching /\ OpsOk
  BY DEF FInv, Sides, Calls1
<1>4. Go(s, User) /\ op[s].to = None /\ Of(s) \in Slot
  <2>1. Go(s, User)
    BY <1>2, <1>3 DEF Go, OpsOk
  <2>2. op[s].to = None
    BY <1>2 DEF User
  <2> QED BY <1>3, <2>1, <2>2, Chosen DEF Types, NameT
<1>5. Proceeds(s, User) /\ UnlinksOk' /\ NameT' /\ \A t \in Slot : Keeps(op[t], op'[t])
  BY <1>2, <1>4, IdleStep
<1>6. /\ e \in Eps /\ ep[e].used
      /\ \A t \in Slot : ~(Holding(t) /\ op[t].k = "epoll" /\ op[t].obj = e)
  <2>1. Named(Of(s), n) # None
    BY DEF Instance
  <2> QED BY <1>1, <1>4, <2>1, InstanceIs
<1>7. RedirT /\ EpT /\ SizedT /\ SizeT /\ PipeT /\ EvT /\ MailT
  BY <1>3 DEF Types
<1>8. /\ \A d \in Eps : ep'[d].used = ep[d].used
      /\ \A d \in Eps \ {e} : ep'[d] = ep[d]
      /\ ep'[e].watch = W
  BY <1>1, <1>6, <1>7 DEF EpT
<1>9. EpT'
  <2>1. ep' \in [Eps -> [used : BOOLEAN, watch : SUBSET [fd : Fd, oi : Oi]]]
    BY <1>1, <1>6, <1>7 DEF EpT, Watches
  <2>2. \A d \in Eps : Cardinality(ep'[d].watch) <= MaxWatch
    BY <1>7, <1>8 DEF EpT
  <2> QED BY <2>1, <2>2 DEF EpT
<1>10. WatchOk'
  BY <1>3, <1>6, <1>8 DEF WatchOk
<1>11. Unwatching'
  <2> SUFFICES ASSUME NEW t \in Slot, HoldingOp(op[t]), op[t].k = "epoll"
               PROVE  ep'[op[t].obj].watch = {}
    BY DEF Unwatching, Holding
  <2>1. op[t].obj \in Eps /\ ep[op[t].obj].watch = {}
    BY <1>3 DEF Unwatching, Holding, OpsOk, OpOk, Shape
  <2>2. op[t].obj # e
    BY <1>6 DEF Holding
  <2> QED BY <1>8, <2>1, <2>2
<1>12. RedirT' /\ RedirOk' /\ Touched'
  BY <1>3, <1>7 DEF RedirT, RedirOk, Touched, SizedT, SizeT, PipeT, EvT, MailT
<1>13. Gentle(s) /\ Even
  BY <1>8 DEF Gentle, Even
<1> QED BY <1>5, <1>9, <1>10, <1>11, <1>12, <1>13, PlainStep

LEMMA CtlAddKeeps ==
    ASSUME Orderly, FInv, NEW s \in Slot, NEW en \in Fd, NEW n \in Fd, CtlAdd(s, en, n)
    PROVE  FInv'
<1>1. PICK e, x : e = Instance(Of(s), en) /\ x = [fd |-> n, oi |-> Named(Of(s), n)]
  OBVIOUS
<1>2. PICK W : W = ep[e].watch \cup {x}
  OBVIOUS
<1>3. /\ At(s, "user") /\ e # None /\ Named(Of(s), n) # None
      /\ \A y \in ep[e].watch : y.fd # n
      /\ Cardinality(ep[e].watch) < MaxWatch
      /\ ep' = [ep EXCEPT ![e].watch = W]
      /\ UNCHANGED <<setting, of, tab, hint, pipe, evfd, redir, size, name, mail, life, op>>
  BY <1>1, <1>2 DEF CtlAdd, Calls
<1>4. Of(s) \in Slot /\ EpT /\ WatchOk
  BY Chosen DEF FInv, Types, NameT, Sides
<1>5. x \in Watches /\ of[x.oi].used /\ of[x.oi].nref > 0
  BY <1>1, <1>3, <1>4, InstanceIs DEF Watches
<1>6. e \in Eps
  <2>1. Named(Of(s), en) # None
    BY <1>1, <1>3 DEF Instance
  <2> QED BY <1>1, <1>3, <1>4, <2>1, InstanceIs
<1>7. ep[e].watch \in SUBSET Watches
  BY <1>4, <1>6 DEF EpT, Watches
<1>8. Cardinality(W) <= MaxWatch
  <2>1. IsFiniteSet(ep[e].watch) /\ Cardinality(ep[e].watch) \in Nat
    BY <1>7, WatchesFinite
  <2>2. Cardinality(W) = Cardinality(ep[e].watch) + 1
    <3>1. x \notin ep[e].watch
      BY <1>1, <1>3
    <3> QED BY <1>2, <2>1, <3>1, FS_AddElement
  <2>3. Cardinality(W) \in Nat
    BY <1>2, <1>5, <1>7, WatchesFinite
  <2> QED BY <1>3, <2>1, <2>2, <2>3, Constants
<1>9. \A y \in W : of[y.oi].used /\ of[y.oi].nref > 0
  BY <1>2, <1>4, <1>5, <1>6 DEF WatchOk
<1>10. W \in SUBSET Watches
  BY <1>2, <1>5, <1>7
<1> QED BY <1>1, <1>3, <1>8, <1>9, <1>10, CtlStep

LEMMA CtlDelKeeps ==
    ASSUME Orderly, FInv, NEW s \in Slot, NEW en \in Fd, NEW n \in Fd, CtlDel(s, en, n)
    PROVE  FInv'
<1>1. PICK e : e = Instance(Of(s), en)
  OBVIOUS
<1>2. PICK W : W = {x \in ep[e].watch : x.fd # n}
  OBVIOUS
<1>3. /\ At(s, "user") /\ e # None /\ ep' = [ep EXCEPT ![e].watch = W]
      /\ UNCHANGED <<setting, of, tab, hint, pipe, evfd, redir, size, name, mail, life, op>>
  BY <1>1, <1>2 DEF CtlDel, Calls
<1>4. Of(s) \in Slot /\ EpT /\ WatchOk
  BY Chosen DEF FInv, Types, NameT, Sides
<1>5. e \in Eps
  <2>1. Named(Of(s), en) # None
    BY <1>1, <1>3 DEF Instance
  <2> QED BY <1>1, <1>3, <1>4, <2>1, InstanceIs
<1>6. ep[e].watch \in SUBSET Watches /\ Cardinality(ep[e].watch) <= MaxWatch
  BY <1>4, <1>5 DEF EpT, Watches
<1>7. W \subseteq ep[e].watch
  BY <1>2
<1>8. Cardinality(W) <= MaxWatch
  <2>1. IsFiniteSet(ep[e].watch) /\ Cardinality(ep[e].watch) \in Nat
    BY <1>6, WatchesFinite
  <2>2. Cardinality(W) <= Cardinality(ep[e].watch)
    BY <1>7, <2>1, FS_Subset
  <2>3. Cardinality(W) \in Nat
    BY <1>6, <1>7, WatchesFinite
  <2> QED BY <1>6, <2>1, <2>2, <2>3, Constants
<1>9. \A y \in W : of[y.oi].used /\ of[y.oi].nref > 0
  BY <1>4, <1>5, <1>7 DEF WatchOk
<1> QED BY <1>1, <1>3, <1>6, <1>7, <1>8, <1>9, CtlStep

\* The child runs, with the numbers a fork gave it.
LEMMA HeirKeeps ==
    ASSUME Orderly, FInv, NEW s \in Slot, Heir(s)
    PROVE  FInv'
<1>1. PICK ch : ch = op[s].to
  OBVIOUS
<1>2. /\ op[s].pc = "heir" /\ redir' = [redir EXCEPT ![ch] = redir[Of(s)]]
      /\ life' = [life EXCEPT ![ch] = "live"] /\ Go(s, User)
      /\ UNCHANGED <<setting, of, tab, hint, pipe, ep, evfd, size, name, mail>>
  BY <1>1 DEF Heir, At
<1>3. /\ OpsOk /\ Types /\ IdleOk /\ DeadOk /\ LeadOk /\ GivesOk /\ HeirsOk /\ AloneOk
      /\ RedirOk /\ WatchOk /\ Unwatching /\ UnlinksOk /\ HandOk /\ TransferHeld
  BY DEF FInv, Calls1, Lives, Sides
<1>4. RedirT /\ EpT /\ SizedT /\ SizeT /\ PipeT /\ EvT /\ MailT /\ OfT /\ TabT /\ NameT /\ LifeT
  BY <1>3 DEF Types
<1>5. /\ op[s].k = "none" /\ ch \in Slot /\ ch # None /\ op'[s] = User
      /\ \A t \in Slot \ {s} : op'[t] = op[t]
  <2>1. OpOk(op[s])
    BY <1>3 DEF OpsOk
  <2>2. op[s].k = "none" /\ op[s].to # None /\ op[s].to \in Slot
    BY <1>2, <2>1 DEF OpOk, OpRec, Shape
  <2> QED BY <1>1, <1>2, <1>3, <2>2, GoFacts
<1>6. /\ life[ch] # "live" /\ Of(ch) = ch /\ life[Of(s)] = "live" /\ Of(s) \in Slot
      /\ \A t \in Slot : op[t].to = ch => t = s
      /\ redir[Of(s)] # None => tab[ch][redir[Of(s)]] # None
  <2>1. life[Of(s)] = "live" /\ Of(s) \in Slot
    BY <1>2, <1>3, <1>4, Chosen DEF IdleOk, NameT
  <2>2. /\ life[ch] # "live" /\ Of(ch) = ch
        /\ \A t \in Slot : op[t].to = ch => t = s
        /\ redir[Of(s)] # None => tab[ch][redir[Of(s)]] # None
    BY <1>1, <1>2, <1>3 DEF HeirsOk
  <2> QED BY <2>1, <2>2
<1>7. User.pc = "user" /\ User.k = "none" /\ User.to = None
  BY DEF User
<1>8. OpOk(User) /\ ~PipingOp(User) /\ ~HoldingOp(User)
  <2>1. User.pc = "user"
    BY DEF User
  <2>2. User \in OpRec(Objects)
    BY DEF User, OpRec, Objects
  <2> QED BY <2>2 DEF OpOk, Shape, User, PipingOp, HoldingOp, Ends, Filling
<1>9. Keeps(op[s], User)
  BY <1>2, <1>5, <1>8 DEF Keeps, PipingOp, HoldingOp, Ends, Filling
<1>10. Even
  BY <1>2 DEF Even
<1>11. Calls1' /\ Tables'
  BY <1>2, <1>8, <1>9, <1>10, CallsStay
<1>12. \A t \in Slot : Of(t)' = Of(t)
  BY <1>2 DEF Of
<1>13. Types'
  <2>1. RedirT' /\ LifeT'
    BY <1>2, <1>4, <1>5, <1>6 DEF RedirT, LifeT
  <2>2. EpT' /\ SizedT' /\ SizeT' /\ PipeT' /\ EvT' /\ MailT'
    BY <1>2, <1>4 DEF EpT, SizedT, SizeT, PipeT, EvT, MailT
  <2>3. OfT' /\ TabT' /\ NameT'
    BY <1>2, <1>4 DEF OfT, TabT, NameT
  <2> QED BY <2>1, <2>2, <2>3 DEF Types
<1>14. Sides'
  <2>1. Watchful(op[s], User)
    BY <1>9 DEF Keeps, Watchful
  <2>2. Unwatching'
    BY <1>2, <1>3, <2>1, UnwatchingStays
  <2>3. WatchOk'
    BY <1>2, <1>3 DEF WatchOk
  <2>4. RedirOk'
    BY <1>2, <1>3, <1>4, <1>5, <1>6 DEF RedirOk, RedirT
  <2>5. UnlinksOk' /\ HandOk' /\ TransferHeld'
    <3>1. TakesUp(s, User) /\ NoFile(s, User)
      BY <1>7 DEF TakesUp, NoFile
    <3>2. UnlinksOk'
      BY <1>2, <1>3, <3>1, UnlinksStay
    <3> QED BY <1>2, <1>3, <1>4, <1>8, <3>1, <3>2, HandsStay
  <2> QED BY <2>2, <2>3, <2>4, <2>5 DEF Sides
<1>15. Lives'
  <2>1. IdleOk'
    BY <1>2, <1>3, <1>4, <1>5, <1>6, <1>7, <1>12 DEF IdleOk, LifeT
  <2>2. DeadOk'
    <3> SUFFICES ASSUME NEW p \in Slot, life'[p] # "live"
                 PROVE  /\ redir'[p] = None /\ mail'[p] = <<>>
                        /\ (\A t \in Slot : op'[t].to # p) => \A n \in Fd : tab'[p][n] = None
      BY DEF DeadOk
    <3>1. p # ch /\ life[p] # "live"
      BY <1>2, <1>4, <1>5 DEF LifeT
    <3>2. redir'[p] = redir[p] /\ mail'[p] = mail[p] /\ tab'[p] = tab[p]
      BY <1>2, <1>4, <3>1 DEF RedirT
    <3>3. (\A t \in Slot : op'[t].to # p) => \A t \in Slot : op[t].to # p
      BY <1>1, <1>5, <3>1
    <3> QED BY <1>3, <3>1, <3>2, <3>3 DEF DeadOk
  <2>3. LeadOk'
    BY <1>2, <1>3, <1>4, <1>5, <1>6, <1>12 DEF LeadOk, LifeT
  <2>4. GivesOk'
    BY <1>2, <1>3, <1>4, <1>5, <1>7 DEF GivesOk, LifeT
  <2>5. HeirsOk'
    <3> SUFFICES ASSUME NEW t \in Slot, op'[t].pc = "heir"
                 PROVE  /\ life'[op'[t].to] # "live" /\ Of(op'[t].to) = op'[t].to
                        /\ \A u \in Slot : op'[u].to = op'[t].to => u = t
                        /\ redir'[Of(t)] # None => tab'[op'[t].to][redir'[Of(t)]] # None
      BY <1>2 DEF HeirsOk, Of
    <3>1. t # s /\ op'[t] = op[t] /\ op[t].pc = "heir"
      BY <1>5, <1>7
    <3>2. /\ life[op[t].to] # "live" /\ Of(op[t].to) = op[t].to
          /\ \A u \in Slot : op[u].to = op[t].to => u = t
          /\ redir[Of(t)] # None => tab[op[t].to][redir[Of(t)]] # None
      BY <1>3, <3>1 DEF HeirsOk
    <3>3. op[t].to # ch /\ op[t].to # None /\ op[t].to \in Slot
      BY <1>3, <1>6, <3>1 DEF OpsOk, OpOk, OpRec, Shape
    <3>4. Of(t) # ch /\ Of(t) \in Slot
      BY <1>3, <1>4, <1>6, <3>1, Chosen DEF IdleOk, NameT
    <3>5. life'[op[t].to] = life[op[t].to] /\ redir'[Of(t)] = redir[Of(t)]
      BY <1>2, <1>4, <3>3, <3>4 DEF LifeT, RedirT
    <3>6. \A u \in Slot : op'[u].to = op[t].to => u = t
      BY <1>5, <1>7, <3>2, <3>3
    <3> QED BY <1>2, <3>1, <3>2, <3>5, <3>6
  <2>6. AloneOk'
    BY <1>2, <1>3, <1>5, <1>7 DEF AloneOk
  <2> QED BY <2>1, <2>2, <2>3, <2>4, <2>5, <2>6 DEF Lives
<1> QED BY <1>11, <1>13, <1>14, <1>15 DEF FInv

-----------------------------------------------------------------------------
(* Claiming a description and giving one up that no number names. *)

\* What a change of a description that no number names leaves alone.
LEMMA Loose ==
    ASSUME TabT, NEW o \in Oi, Numbers(o) = {}, UNCHANGED <<setting, tab>>,
           \A u \in Oi \ {o} : of'[u] = of[u]
    PROVE  /\ \A p \in Slot, n \in Fd : tab[p][n] # o
           /\ \A i, w : EndSlots(i, w)' = EndSlots(i, w)
           /\ \A u \in Oi : Numbers(u)' = Numbers(u)
           /\ \A p \in Slot, n \in Fd : Half(p, n) => Half(p, n)'
<1>1. \A p \in Slot, n \in Fd : tab[p][n] # o
  <2> SUFFICES ASSUME NEW p \in Slot, NEW n \in Fd, tab[p][n] = o PROVE FALSE
    OBVIOUS
  <2>1. <<p, n>> \in Numbers(o)
    BY DEF Numbers
  <2> QED BY <2>1
<1>2. \A p \in Slot, n \in Fd : tab[p][n] # None => tab[p][n] \in Oi \ {o}
  BY <1>1 DEF TabT
<1>3. \A i, w : EndSlots(i, w)' = EndSlots(i, w)
  BY <1>2 DEF EndSlots, EndOf
<1>4. \A p \in Slot, n \in Fd : Half(p, n) => Half(p, n)'
  BY <1>2 DEF Half
<1>5. \A u \in Oi : Numbers(u)' = Numbers(u)
  BY DEF Numbers
<1> QED BY <1>1, <1>3, <1>4, <1>5

\* Pipes are made by whom they were made by before.
SamePiping(o, f) ==
    /\ PipingOp(f) <=> PipingOp(o)
    /\ PipingOp(f) => f.obj = o.obj /\ f.n = o.n /\ f.m = o.m

\* What a step says of the pipes that are being made when nobody begins or ends making one.
LEMMA SameMakers ==
    ASSUME OpsOk, NEW s \in Slot, NEW f, Go(s, f), SamePiping(op[s], f), UNCHANGED <<setting, pipe>>
    PROVE  /\ \A t \in Slot : /\ PipingOp(op'[t]) <=> Piping(t)
                              /\ Piping(t) => op'[t].obj = op[t].obj /\ InHands(op'[t]) = InHands(op[t])
           /\ \A i : BeingMade(i)' <=> BeingMade(i)
           /\ MakersApart => MakersApart'
           /\ HalvesApart => HalvesApart'
           /\ PipesOk => PipesOk'
<1>1. op'[s] = f /\ \A t \in Slot \ {s} : op'[t] = op[t]
  BY GoFacts
<1>2. \A t \in Slot : /\ PipingOp(op'[t]) <=> Piping(t)
                      /\ Piping(t) => op'[t].obj = op[t].obj /\ InHands(op'[t]) = InHands(op[t])
  BY <1>1 DEF SamePiping, Piping, InHands
<1>3. \A i : BeingMade(i)' <=> BeingMade(i)
  BY <1>2, Makers, MakersNext
<1>4. MakersApart => MakersApart'
  BY <1>2 DEF MakersApart, Piping
<1>5. HalvesApart => HalvesApart'
  BY <1>2 DEF HalvesApart, Piping, Of
<1>6. PipesOk => PipesOk'
  BY <1>3 DEF PipesOk
<1> QED BY <1>2, <1>3, <1>4, <1>5, <1>6

\* A free description becomes what the call of s claims it as.
ClaimsIt(s, f, o) ==
    /\ o \in Oi /\ ~of[o].used /\ of' = [of EXCEPT ![o] = Claimed1(f)]
    /\ Go(s, f) /\ OpOk(f) /\ HoldingOp(f) /\ f.oi = o /\ ~HoldingOp(op[s])
    /\ SamePiping(op[s], f) /\ UNCHANGED <<setting, tab, pipe>>

LEMMA ClaimStep ==
    ASSUME Orderly, FInv, NEW s \in Slot, NEW f, NEW o, ClaimsIt(s, f, o)
    PROVE  /\ Calls1' /\ RefsExact' /\ PipeEndsExact' /\ Kept' /\ EndsOk' /\ PipesOk' /\ OfT'
           /\ Numbers(o) = {} /\ of'[o] = Claimed1(f) /\ \A u \in Oi \ {o} : of'[u] = of[u]
<1>0. /\ OpsOk /\ OfT /\ TabT /\ NameT /\ ClaimsOk /\ ClaimsApart /\ MakingOk /\ MakersApart /\ HalvesOk /\ HalvesApart
      /\ RefsExact /\ PipeEndsExact /\ Kept /\ EndsOk /\ PipesOk
  BY DEF FInv, Types, Calls1, Tables
<1>1. /\ o \in Oi /\ ~of[o].used /\ of' = [of EXCEPT ![o] = Claimed1(f)]
      /\ Go(s, f) /\ OpOk(f) /\ HoldingOp(f) /\ f.oi = o /\ ~HoldingOp(op[s])
      /\ SamePiping(op[s], f) /\ UNCHANGED <<setting, tab, pipe>>
  BY DEF ClaimsIt
<1>2. /\ f.k \in {"file", "epoll", "evfd"} \cup Ends
      /\ f.k \in Ends => f.obj \in Pipes
      /\ f.k \notin Ends => f.obj \in Objects
  BY <1>1 DEF OpOk, OpRec, Shape, HoldingOp, Filling, Makes, Ends, Objects
<1>3. /\ Claimed1(f).used /\ Claimed1(f).nref = 0 /\ Claimed1(f) \in OfRec
      /\ Claimed1(f).kind = (IF f.k \in Ends THEN "pipe" ELSE f.k)
      /\ Claimed1(f).obj = (IF f.k \in Ends THEN None ELSE f.obj)
  BY <1>2 DEF Claimed1, Blank, OfRec, Kinds, Objects, Ends
<1>4. /\ of'[o] = Claimed1(f) /\ \A u \in Oi \ {o} : of'[u] = of[u]
      /\ OfT'
  BY <1>0, <1>1, <1>3 DEF OfT
<1>5. Numbers(o) = {}
  BY <1>0, <1>1 DEF RefsExact
<1>6. op'[s] = f /\ \A t \in Slot \ {s} : op'[t] = op[t]
  BY <1>0, <1>1, GoFacts
<1>7. OpsOk'
  BY <1>0, <1>1, GoOk
<1>8. /\ \A p \in Slot, n \in Fd : tab[p][n] # o
      /\ \A i, w : EndSlots(i, w)' = EndSlots(i, w)
      /\ \A u \in Oi : Numbers(u)' = Numbers(u)
      /\ \A p \in Slot, n \in Fd : Half(p, n) => Half(p, n)'
  BY <1>0, <1>1, <1>4, <1>5, Loose
<1>9. /\ \A t \in Slot : /\ PipingOp(op'[t]) <=> Piping(t)
                         /\ Piping(t) => op'[t].obj = op[t].obj /\ InHands(op'[t]) = InHands(op[t])
      /\ \A i : BeingMade(i)' <=> BeingMade(i)
      /\ MakersApart' /\ HalvesApart' /\ PipesOk'
  BY <1>0, <1>1, SameMakers
<1>10. \A t \in Slot : Holding(t) => of[op[t].oi].used /\ op[t].oi \in Oi /\ op[t].oi # o /\ t # s
  <2>1. \A t \in Slot : Holding(t) => op[t].oi \in Oi
    BY <1>0 DEF Holding, HoldingOp, OpsOk, OpOk, Shape
  <2>2. \A t \in Slot : Holding(t) => of[op[t].oi].used
    BY <1>0 DEF ClaimsOk, Claimed1, Blank
  <2> QED BY <1>1, <2>1, <2>2 DEF Holding
<1>11. ClaimsOk'
  <2> SUFFICES ASSUME NEW t \in Slot, HoldingOp(op'[t]) PROVE of'[op'[t].oi] = Claimed1(op'[t])
    BY DEF ClaimsOk, Holding, Claimed1
  <2>1. CASE t = s
    BY <1>1, <1>4, <1>6, <2>1
  <2>2. CASE t # s
    <3>1. Holding(t) /\ op'[t] = op[t]
      BY <1>6, <2>2 DEF Holding
    <3> QED BY <1>0, <1>4, <1>10, <3>1 DEF ClaimsOk
  <2> QED BY <2>1, <2>2
<1>12. ClaimsApart'
  BY <1>0, <1>1, <1>6, <1>10 DEF ClaimsApart, Holding
<1>13. MakingOk'
  <2> SUFFICES ASSUME NEW t \in Slot, Piping(t)
               PROVE  /\ pipe[op[t].obj].used /\ pipe[op[t].obj].r = 0 /\ pipe[op[t].obj].w = 0
                      /\ \A u \in Oi : ~(of'[u].used /\ of'[u].kind = "pipe" /\ of'[u].obj = op[t].obj)
    BY <1>1, <1>9 DEF MakingOk, Piping
  <2>1. op[t].obj \in Pipes
    BY <1>0 DEF OpsOk, OpOk, Shape, Piping, PipingOp
  <2>2. ~(of'[o].kind = "pipe" /\ of'[o].obj = op[t].obj)
    BY <1>2, <1>3, <1>4, <2>1, Constants DEF Ends
  <2> QED BY <1>0, <1>4, <2>2 DEF MakingOk
<1>14. HalvesOk'
  <2> SUFFICES ASSUME NEW t \in Slot, Piping(t), NEW n \in InHands(op[t]) PROVE Half(Of(t), n)'
    BY <1>1, <1>9 DEF HalvesOk, Piping, Half, Of
  <2>1. PICK p \in Slot : p = Of(t)
    BY <1>0, Chosen DEF NameT
  <2>2. Half(p, n)
    BY <1>0, <2>1 DEF HalvesOk
  <2>3. n \in Fd
    BY <1>0 DEF OpsOk, OpOk, OpRec, InHands
  <2>4. tab'[p][n] # None /\ of'[tab'[p][n]] = HalfEnd
    BY <1>8, <2>2, <2>3 DEF Half
  <2> QED BY <1>1, <2>1, <2>4 DEF Half, Of
<1>15. RefsExact'
  <2> SUFFICES ASSUME NEW u \in Oi
               PROVE  IF of'[u].used THEN of'[u].nref = Cardinality(Numbers(u)) ELSE Numbers(u) = {}
    BY <1>8 DEF RefsExact
  <2>1. CASE u = o
    BY <1>3, <1>4, <1>5, <2>1, FS_EmptySet
  <2>2. CASE u # o
    BY <1>0, <1>4, <2>2 DEF RefsExact
  <2> QED BY <2>1, <2>2
<1>16. PipeEndsExact'
  BY <1>0, <1>1, <1>8, <1>9 DEF PipeEndsExact
<1>17. Kept'
  <2> SUFFICES ASSUME NEW u \in Oi, of'[u].used
               PROVE  of'[u].nref > 0 \/ \E t \in Slot : HoldingOp(op'[t]) /\ op'[t].oi = u
    BY DEF Kept, Holding
  <2>1. CASE u = o
    BY <1>1, <1>6, <2>1
  <2>2. CASE u # o
    BY <1>0, <1>4, <1>6, <1>10, <2>2 DEF Kept, Holding
  <2> QED BY <2>1, <2>2
<1>18. EndsOk'
  <2> SUFFICES ASSUME NEW u \in Oi, of'[u].used, of'[u].kind = "pipe"
               PROVE  IF of'[u].obj = None THEN \E t \in Slot : MakesEnd(t, u)'
                      ELSE of'[u].obj \in Pipes /\ pipe[of'[u].obj].used
    BY <1>1 DEF EndsOk
  <2>1. CASE u = o
    <3>1. f.k \in Ends /\ f.pc # "use"
      BY <1>1, <1>2, <1>3, <1>4, <2>1 DEF HoldingOp, Filling
    <3>2. MakesEnd(s, u)'
      BY <1>1, <1>6, <2>1, <3>1 DEF MakesEnd, Piping, PipingOp, Holding
    <3>3. of'[u].obj = None
      BY <1>3, <1>4, <2>1, <3>1
    <3> QED BY <3>2, <3>3
  <2>2. CASE u # o
    <3>1. of'[u] = of[u]
      BY <1>4, <2>2
    <3>2. \A t \in Slot : MakesEnd(t, u) => MakesEnd(t, u)'
      BY <1>1, <1>6, <1>9, <1>10 DEF MakesEnd, Piping, Holding, Of
    <3> QED BY <1>0, <3>1, <3>2 DEF EndsOk
  <2> QED BY <2>1, <2>2
<1>19. Calls1'
  BY <1>7, <1>9, <1>11, <1>12, <1>13, <1>14 DEF Calls1
<1> QED BY <1>4, <1>5, <1>9, <1>15, <1>16, <1>17, <1>18, <1>19

\* What else a claim leaves as it was.
ClaimsOnly(s, f, o) ==
    /\ ClaimsIt(s, f, o) /\ Moves(s, f) /\ NoFile(s, f) /\ op[s].pc \in {"user", "new"}
    /\ UNCHANGED <<hint, redir, size, name, mail, life>>
    /\ \A e \in Eps : ep'[e].watch \subseteq ep[e].watch /\ (ep[e].used => ep'[e].used)
    /\ f.k = "epoll" => ep'[f.obj].watch = {}

LEMMA ClaimKeeps ==
    ASSUME Orderly, FInv, NEW s \in Slot, NEW f, NEW o, ClaimsOnly(s, f, o),
           InstancesOk', EpT', EvT'
    PROVE  FInv'
<1>1. /\ ClaimsIt(s, f, o) /\ Moves(s, f) /\ NoFile(s, f) /\ op[s].pc \in {"user", "new"}
      /\ UNCHANGED <<hint, redir, size, name, mail, life>>
      /\ \A e \in Eps : ep'[e].watch \subseteq ep[e].watch /\ (ep[e].used => ep'[e].used)
      /\ f.k = "epoll" => ep'[f.obj].watch = {}
  BY DEF ClaimsOnly
<1>2. /\ o \in Oi /\ ~of[o].used /\ Go(s, f) /\ OpOk(f) /\ HoldingOp(f)
      /\ UNCHANGED <<setting, tab, pipe>>
  BY <1>1 DEF ClaimsIt
<1>3. /\ Calls1' /\ RefsExact' /\ PipeEndsExact' /\ Kept' /\ EndsOk' /\ PipesOk' /\ OfT'
      /\ Numbers(o) = {} /\ of'[o] = Claimed1(f) /\ \A u \in Oi \ {o} : of'[u] = of[u]
  BY <1>1, ClaimStep
<1>4. /\ OpsOk /\ Types /\ Lives /\ HandOk /\ TransferHeld /\ Unwatching /\ WatchOk /\ RedirOk /\ UnlinksOk
  BY DEF FInv, Calls1, Sides
<1>5. TabT /\ NameT /\ LifeT /\ SizedT /\ SizeT /\ PipeT /\ RedirT /\ MailT /\ EpT
  BY <1>4 DEF Types
<1>6. Types'
  <2>1. TabT' /\ NameT' /\ LifeT' /\ SizedT' /\ SizeT' /\ PipeT' /\ RedirT' /\ MailT'
    BY <1>1, <1>2, <1>5 DEF TabT, NameT, LifeT, SizedT, SizeT, PipeT, RedirT, MailT
  <2> QED BY <1>3, <2>1 DEF Types
<1>7. f.k # "give" /\ f.k # "redirect"
  BY <1>2 DEF HoldingOp, OpOk, Shape, Filling
<1>8. HandOk' /\ TransferHeld'
  <2>1. TakesUp(s, f)
    BY <1>7 DEF TakesUp
  <2>2. \A u \in Oi : of[u].used /\ Numbers(u) # {} => of'[u].used
    BY <1>2, <1>3
  <2> QED BY <1>2, <1>4, <1>5, <2>1, <2>2, HandsStay
<1>9. Unwatching'
  <2> SUFFICES ASSUME NEW t \in Slot, HoldingOp(op'[t]), op'[t].k = "epoll"
               PROVE  ep'[op'[t].obj].watch = {}
    BY DEF Unwatching, Holding
  <2>1. op'[s] = f /\ \A u \in Slot \ {s} : op'[u] = op[u]
    BY <1>2, <1>4, GoFacts
  <2>2. CASE t = s
    BY <1>1, <2>1, <2>2
  <2>3. CASE t # s
    <3>1. HoldingOp(op[t]) /\ op[t].k = "epoll" /\ op'[t] = op[t]
      BY <2>1, <2>3
    <3>2. ep[op[t].obj].watch = {} /\ op[t].obj \in Eps
      BY <1>4, <3>1 DEF Unwatching, Holding, OpsOk, OpOk, Shape
    <3> QED BY <1>1, <3>1, <3>2
  <2> QED BY <2>2, <2>3
<1>10. WatchOk'
  <2> SUFFICES ASSUME NEW e \in Eps, NEW x \in ep'[e].watch
               PROVE  ep'[e].used /\ of'[x.oi].used /\ of'[x.oi].nref > 0
    BY DEF WatchOk
  <2>1. x \in ep[e].watch
    BY <1>1
  <2>2. ep[e].used /\ of[x.oi].used /\ of[x.oi].nref > 0
    BY <1>4, <2>1 DEF WatchOk
  <2>3. x.oi \in Oi
    BY <1>5, <2>1 DEF EpT
  <2> QED BY <1>1, <1>2, <1>3, <2>2, <2>3
<1>11. RedirOk'
  BY <1>1, <1>2, <1>4 DEF RedirOk
<1>12. UnlinksOk'
  <2> SUFFICES ASSUME NEW u \in Oi, of'[u].used, of'[u].kind = "file"
               PROVE  \/ of[u].used /\ of[u].kind = "file" /\ of[u].obj = of'[u].obj
                      \/ op[s].k = "file" /\ op[s].pc # "orphan" /\ op[s].obj = of'[u].obj
    BY <1>1, <1>2, <1>4, UnlinksStay
  <2>1. CASE u = o
    <3>1. f.k = "file" /\ of'[u].obj = f.obj
      BY <1>2, <1>3, <2>1 DEF Claimed1, Blank, HoldingOp, OpOk, OpRec, Makes, Ends, Filling
    <3> QED BY <1>1, <3>1 DEF NoFile
  <2>2. CASE u # o
    BY <1>3, <2>2
  <2> QED BY <2>1, <2>2
<1>13. Lives'
  <2>1. Gentle(s)
    BY <1>1, <1>2 DEF Gentle
  <2> QED BY <1>1, <1>2, <1>4, <1>5, <2>1, LivesStay
<1> QED BY <1>3, <1>6, <1>8, <1>9, <1>10, <1>11, <1>12, <1>13 DEF FInv, Tables, Sides

\* A least free description, where there is one.
LEMMA FreeIs ==
    ASSUME FreeOi # {}
    PROVE  Min(FreeOi) \in Oi /\ ~of[Min(FreeOi)].used
<1>1. FreeOi \subseteq Nat
  BY Constants DEF FreeOi
<1>2. Min(FreeOi) \in FreeOi
  BY <1>1, LeastOf
<1> QED BY <1>2 DEF FreeOi

LEMMA NewKeeps ==
    ASSUME Orderly, FInv, NEW s \in Slot, New(s)
    PROVE  FInv'
<1>1. /\ op[s].pc = "new"
      /\ UNCHANGED <<setting, tab, hint, pipe, ep, evfd, redir, size, name, mail, life>>
  BY DEF New, At
<1>2. /\ OpOk(op[s]) /\ Types /\ IdleOk /\ InstancesOk /\ ClaimsOk
  BY DEF FInv, Calls1, OpsOk, Lives, Tables
<1>3. /\ op[s] \in OpRec(Objects) /\ op[s].k \in Ends \cup {"file"} /\ op[s].to = None
      /\ (op[s].n # None <=> op[s].k = "write") /\ op[s].m = None
      /\ (op[s].k = "file" => op[s].obj \in File) /\ (op[s].k \in Ends => op[s].obj \in Pipes)
  BY <1>1, <1>2 DEF OpOk, Shape, Filling, Ends
<1>4. life[Of(s)] = "live"
  BY <1>1, <1>2 DEF IdleOk
<1>5. CASE FreeOi = {}
  <2> DEFINE f == IF op[s].k \in Ends THEN [op[s] EXCEPT !.pc = "unpipe"] ELSE User
  <2>1. Go(s, f) /\ of' = of
    BY <1>5 DEF New
  <2>2. UNCHANGED <<setting, table, size, name, mail, life>>
    BY <1>1, <2>1 DEF table
  <2>3. \/ /\ op[s].k \in Ends /\ f = [op[s] EXCEPT !.pc = "unpipe"]
        \/ op[s].k = "file" /\ f = User
    BY <1>3
  <2> HIDE DEF f
  <2>4. CASE op[s].k \in Ends /\ f = [op[s] EXCEPT !.pc = "unpipe"]
    <3>1. /\ f.pc = "unpipe" /\ f.k = op[s].k /\ f.n = op[s].n /\ f.m = op[s].m /\ f.oi = op[s].oi
          /\ f.obj = op[s].obj /\ f.to = None /\ f \in OpRec(Objects)
      BY <1>3, <2>4 DEF OpRec
    <3>2. OpOk(f)
      BY <1>3, <2>4, <3>1 DEF OpOk, Shape, Filling, Ends
    <3>3. Keeps(op[s], f)
      BY <1>1, <3>1 DEF Keeps, PipingOp, HoldingOp, Filling
    <3>4. Moves(s, f) /\ TakesUp(s, f) /\ NoFile(s, f)
      BY <1>3, <1>4, <2>4, <3>1 DEF Moves, TakesUp, NoFile, Ends
    <3> QED BY <2>1, <2>2, <3>2, <3>3, <3>4, OpStep
  <2>5. CASE op[s].k = "file" /\ f = User
    <3>1. OpOk(User) /\ Moves(s, User) /\ TakesUp(s, User) /\ NoFile(s, User) /\ ~PipingOp(User)
          /\ ~HoldingOp(User)
      BY <1>3, Rests
    <3>2. Keeps(op[s], User)
      BY <1>1, <2>5, <3>1 DEF Keeps, PipingOp, HoldingOp, Filling, Ends
    <3> QED BY <2>1, <2>2, <2>5, <3>1, <3>2, OpStep
  <2> QED BY <2>3, <2>4, <2>5
<1>6. CASE FreeOi # {}
  <2>1. PICK o : o = Min(FreeOi)
    OBVIOUS
  <2>2. o \in Oi /\ ~of[o].used
    BY <1>6, <2>1, FreeIs
  <2> DEFINE f == [op[s] EXCEPT !.pc = "install", !.oi = o]
  <2>3. /\ Go(s, f)
        /\ IF op[s].k \in Ends THEN Claims(o, "pipe", None) ELSE Claims(o, op[s].k, op[s].obj)
    BY <1>6, <2>1 DEF New
  <2>4. /\ f.pc = "install" /\ f.k = op[s].k /\ f.n = op[s].n /\ f.m = op[s].m /\ f.oi = o
        /\ f.obj = op[s].obj /\ f.to = None /\ f \in OpRec(Objects)
    BY <1>3, <2>2 DEF OpRec, Filling
  <2> HIDE DEF f
  <2>5. OpOk(f)
    BY <1>3, <2>2, <2>4 DEF OpOk, Shape, Filling, Ends, Makes
  <2>6. of' = [of EXCEPT ![o] = Claimed1(f)]
    BY <2>3, <2>4 DEF Claims, Claimed1
  <2>7. HoldingOp(f) /\ ~HoldingOp(op[s]) /\ SamePiping(op[s], f)
    BY <1>1, <1>3, <2>4 DEF HoldingOp, SamePiping, PipingOp, Filling, Ends
  <2>8. ClaimsIt(s, f, o)
    BY <1>1, <2>2, <2>3, <2>4, <2>5, <2>6, <2>7 DEF ClaimsIt
  <2>9. Moves(s, f) /\ NoFile(s, f)
    BY <1>3, <1>4, <2>4 DEF Moves, NoFile, Ends
  <2>10. ClaimsOnly(s, f, o)
    BY <1>1, <1>3, <2>4, <2>8, <2>9 DEF ClaimsOnly, Ends
  <2>11. EpT' /\ EvT'
    BY <1>1, <1>2 DEF Types, EpT, EvT
  <2>12. InstancesOk'
    <3>1. /\ of'[o].kind \in {"file", "pipe"} /\ \A u \in Oi \ {o} : of'[u] = of[u]
      <4>1. Claimed1(f).kind \in {"file", "pipe"}
        BY <1>3, <2>4 DEF Claimed1, Blank, Ends
      <4> QED BY <1>2, <2>2, <2>6, <4>1 DEF Types, OfT
    <3> QED BY <1>1, <1>2, <2>2, <3>1 DEF InstancesOk, Twins
  <2> QED BY <2>10, <2>11, <2>12, ClaimKeeps
<1> QED BY <1>5, <1>6

\* The claim of an instance's description, in one section with the instance.
LEMMA CreateIs ==
    ASSUME FInv, NEW s \in Slot, NEW k \in {"epoll", "evfd"}, NEW i, Create(s, k, i),
           life[Of(s)] = "live", k = "epoll" => i \in Eps, k = "evfd" => i \in Evs,
           \A e \in Eps : ep'[e].watch \subseteq ep[e].watch /\ (ep[e].used => ep'[e].used),
           k = "epoll" => ep'[i].watch = {}
    PROVE  \E f, o : /\ ClaimsOnly(s, f, o) /\ of'[o].kind = k /\ of'[o].obj = i /\ of'[o].used
                     /\ o \in Oi /\ ~of[o].used /\ \A u \in Oi \ {o} : of'[u] = of[u]
<1>1. PICK o : o = Min(FreeOi)
  OBVIOUS
<1>2. /\ At(s, "user") /\ Claims(o, k, i)
      /\ Go(s, [User EXCEPT !.pc = "install", !.k = k, !.obj = i, !.oi = o])
      /\ UNCHANGED <<setting, tab, hint, pipe, redir, size, name, mail, life>>
  BY <1>1 DEF Create
<1>3. o \in Oi /\ ~of[o].used
  BY <1>1, FreeIs DEF Create
<1>4. op[s] = User /\ ~PipingOp(op[s]) /\ ~HoldingOp(op[s])
  BY <1>2, Starts
<1> DEFINE f == [User EXCEPT !.pc = "install", !.k = k, !.obj = i, !.oi = o]
<1>5. Go(s, f)
  BY <1>2
<1>6. /\ f.pc = "install" /\ f.k = k /\ f.n = None /\ f.m = None /\ f.oi = o
      /\ f.obj = i /\ f.to = None /\ f \in OpRec(Objects)
  BY <1>3 DEF User, OpRec, Filling, Makes, Objects
<1> HIDE DEF f
<1>7. OpOk(f)
  BY <1>3, <1>6 DEF OpOk, Shape, Filling, Ends, Makes
<1>8. of' = [of EXCEPT ![o] = Claimed1(f)] /\ Claimed1(f).kind = k /\ Claimed1(f).obj = i
      /\ Claimed1(f).used
  BY <1>2, <1>6 DEF Claims, Claimed1, Blank, Ends
<1>9. HoldingOp(f) /\ SamePiping(op[s], f)
  BY <1>4, <1>6 DEF HoldingOp, SamePiping, PipingOp, Filling, Ends
<1>10. ClaimsIt(s, f, o)
  BY <1>2, <1>3, <1>4, <1>5, <1>6, <1>7, <1>8, <1>9 DEF ClaimsIt
<1>11. Moves(s, f) /\ NoFile(s, f) /\ op[s].pc = "user"
  BY <1>2, <1>4, <1>6 DEF Moves, NoFile, User, At
<1>12. ClaimsOnly(s, f, o)
  BY <1>2, <1>6, <1>10, <1>11 DEF ClaimsOnly
<1>13. of'[o] = Claimed1(f) /\ \A u \in Oi \ {o} : of'[u] = of[u]
  BY <1>3, <1>8 DEF FInv, Types, OfT
<1> QED BY <1>3, <1>8, <1>12, <1>13

LEMMA EpollCreateKeeps ==
    ASSUME Orderly, FInv, NEW s \in Slot, EpollCreate(s)
    PROVE  FInv'
<1>1. PICK e : e = Min({d \in Eps : ~ep[d].used})
  OBVIOUS
<1>2. /\ life[Of(s)] = "live" /\ Create(s, "epoll", e) /\ UNCHANGED evfd
      /\ ep' = [ep EXCEPT ![e] = [used |-> TRUE, watch |-> {}]]
  BY <1>1 DEF EpollCreate, Calls
<1>3. e \in Eps /\ ~ep[e].used
  <2>1. {d \in Eps : ~ep[d].used} # {} /\ {d \in Eps : ~ep[d].used} \subseteq Nat
    BY Constants DEF EpollCreate
  <2>2. e \in {d \in Eps : ~ep[d].used}
    BY <1>1, <2>1, LeastOf
  <2> QED BY <2>2
<1>4. Types /\ InstancesOk
  BY DEF FInv, Tables
<1>5. /\ ep'[e].used /\ ep'[e].watch = {}
      /\ \A d \in Eps \ {e} : ep'[d] = ep[d]
      /\ EpT' /\ EvT'
  <2>1. ep'[e].used /\ ep'[e].watch = {} /\ \A d \in Eps \ {e} : ep'[d] = ep[d]
    BY <1>2, <1>3, <1>4 DEF Types, EpT
  <2>2. ep' \in [Eps -> [used : BOOLEAN, watch : SUBSET [fd : Fd, oi : Oi]]]
    BY <1>2, <1>3, <1>4 DEF Types, EpT
  <2>3. \A d \in Eps : Cardinality(ep'[d].watch) <= MaxWatch
    <3>1. Cardinality({}) = 0 /\ 0 <= MaxWatch
      BY FS_EmptySet, Constants
    <3>2. \A d \in Eps : Cardinality(ep[d].watch) <= MaxWatch
      BY <1>4 DEF Types, EpT
    <3> QED BY <2>1, <3>1, <3>2
  <2> QED BY <1>2, <1>4, <2>1, <2>2, <2>3 DEF EpT, EvT, Types
<1>6. PICK f, o : /\ ClaimsOnly(s, f, o) /\ of'[o].kind = "epoll" /\ of'[o].obj = e /\ of'[o].used
                  /\ o \in Oi /\ ~of[o].used /\ \A u \in Oi \ {o} : of'[u] = of[u]
  <2>1. \A d \in Eps : ep'[d].watch \subseteq ep[d].watch /\ (ep[d].used => ep'[d].used)
    BY <1>3, <1>5
  <2> QED BY <1>2, <1>3, <1>5, <2>1, CreateIs
<1>7. InstancesOk'
  <2>1. \A u \in Oi : of[u].used /\ of[u].kind = "epoll" => u # o /\ of[u].obj # e
    BY <1>3, <1>4, <1>6 DEF InstancesOk
  <2>2. \A u \in Oi : of'[u].used /\ of'[u].kind = "epoll" => of'[u].obj \in Eps /\ ep'[of'[u].obj].used
    BY <1>3, <1>4, <1>5, <1>6, <2>1 DEF InstancesOk
  <2>3. \A u \in Oi : of'[u].used /\ of'[u].kind = "evfd" => of'[u].obj \in Evs /\ evfd'[of'[u].obj].used
    BY <1>2, <1>4, <1>6 DEF InstancesOk
  <2>4. \A d \in Eps : ep'[d].used =>
            \E u \in Oi : of'[u].used /\ of'[u].kind = "epoll" /\ of'[u].obj = d
    BY <1>4, <1>5, <1>6 DEF InstancesOk
  <2>5. \A v \in Evs : evfd'[v].used =>
            \E u \in Oi : of'[u].used /\ of'[u].kind = "evfd" /\ of'[u].obj = v
    BY <1>2, <1>4, <1>6 DEF InstancesOk
  <2>6. \A u, w \in Oi : Twins(u, w)' => u = w
    BY <1>4, <1>6, <2>1 DEF InstancesOk, Twins
  <2> QED BY <2>2, <2>3, <2>4, <2>5, <2>6 DEF InstancesOk
<1> QED BY <1>5, <1>6, <1>7, ClaimKeeps

LEMMA EventfdKeeps ==
    ASSUME Orderly, FInv, NEW s \in Slot, NEW has \in BOOLEAN, Eventfd(s, has)
    PROVE  FInv'
<1>1. PICK v : v = Min({d \in Evs : ~evfd[d].used})
  OBVIOUS
<1>2. /\ life[Of(s)] = "live" /\ Create(s, "evfd", v) /\ UNCHANGED ep
      /\ evfd' = [evfd EXCEPT ![v] = [used |-> TRUE, has |-> has]]
  BY <1>1 DEF Eventfd, Calls
<1>3. v \in Evs /\ ~evfd[v].used
  <2>1. {d \in Evs : ~evfd[d].used} # {} /\ {d \in Evs : ~evfd[d].used} \subseteq Nat
    BY Constants DEF Eventfd
  <2>2. v \in {d \in Evs : ~evfd[d].used}
    BY <1>1, <2>1, LeastOf
  <2> QED BY <2>2
<1>4. Types /\ InstancesOk
  BY DEF FInv, Tables
<1>5. /\ evfd'[v].used /\ \A d \in Evs \ {v} : evfd'[d] = evfd[d]
      /\ EpT' /\ EvT'
  BY <1>2, <1>3, <1>4 DEF Types, EpT, EvT
<1>6. PICK f, o : /\ ClaimsOnly(s, f, o) /\ of'[o].kind = "evfd" /\ of'[o].obj = v /\ of'[o].used
                  /\ o \in Oi /\ ~of[o].used /\ \A u \in Oi \ {o} : of'[u] = of[u]
  <2>1. \A d \in Eps : ep'[d].watch \subseteq ep[d].watch /\ (ep[d].used => ep'[d].used)
    BY <1>2
  <2> QED BY <1>2, <1>3, <2>1, CreateIs
<1>7. InstancesOk'
  <2>1. \A u \in Oi : of[u].used /\ of[u].kind = "evfd" => u # o /\ of[u].obj # v
    BY <1>3, <1>4, <1>6 DEF InstancesOk
  <2>2. \A u \in Oi : of'[u].used /\ of'[u].kind = "evfd" => of'[u].obj \in Evs /\ evfd'[of'[u].obj].used
    BY <1>3, <1>4, <1>5, <1>6, <2>1 DEF InstancesOk
  <2>3. \A u \in Oi : of'[u].used /\ of'[u].kind = "epoll" => of'[u].obj \in Eps /\ ep'[of'[u].obj].used
    BY <1>2, <1>4, <1>6 DEF InstancesOk
  <2>4. \A d \in Evs : evfd'[d].used =>
            \E u \in Oi : of'[u].used /\ of'[u].kind = "evfd" /\ of'[u].obj = d
    BY <1>4, <1>5, <1>6 DEF InstancesOk
  <2>5. \A d \in Eps : ep'[d].used =>
            \E u \in Oi : of'[u].used /\ of'[u].kind = "epoll" /\ of'[u].obj = d
    BY <1>2, <1>4, <1>6 DEF InstancesOk
  <2>6. \A u, w \in Oi : Twins(u, w)' => u = w
    BY <1>4, <1>6, <2>1 DEF InstancesOk, Twins
  <2> QED BY <2>2, <2>3, <2>4, <2>5, <2>6 DEF InstancesOk
<1> QED BY <1>5, <1>6, <1>7, ClaimKeeps

\* A ring taken for a pipe that has no ends yet.
LEMMA RingKeeps ==
    ASSUME Orderly, FInv, NEW s \in Slot, Pipe(s)
    PROVE  FInv'
<1>1. PICK i : i = Min({j \in Pipes : ~pipe[j].used})
  OBVIOUS
<1> DEFINE f == [User EXCEPT !.pc = "new", !.k = "read", !.obj = i]
<1>2. /\ At(s, "user") /\ life[Of(s)] = "live" /\ Go(s, f)
      /\ pipe' = [pipe EXCEPT ![i] = [NoPipe EXCEPT !.used = TRUE]]
      /\ UNCHANGED <<setting, of, tab, hint, ep, evfd, redir, size, name, mail, life>>
  BY <1>1 DEF Pipe, Calls
<1>3. i \in Pipes /\ ~pipe[i].used
  <2>1. {j \in Pipes : ~pipe[j].used} # {} /\ {j \in Pipes : ~pipe[j].used} \subseteq Nat
    BY Constants DEF Pipe
  <2>2. i \in {j \in Pipes : ~pipe[j].used}
    BY <1>1, <2>1, LeastOf
  <2> QED BY <2>2
<1>4. op[s] = User /\ ~PipingOp(op[s]) /\ ~HoldingOp(op[s])
  BY <1>2, Starts
<1>5. /\ f.pc = "new" /\ f.k = "read" /\ f.n = None /\ f.m = None /\ f.oi = None
      /\ f.obj = i /\ f.to = None /\ f \in OpRec(Objects)
  BY <1>3 DEF User, OpRec, Makes, Ends, Objects
<1> HIDE DEF f
<1>6. OpOk(f) /\ PipingOp(f) /\ ~HoldingOp(f)
  BY <1>3, <1>5 DEF OpOk, Shape, PipingOp, HoldingOp, Filling, Ends
<1>7. /\ Types /\ Calls1 /\ Tables /\ Sides /\ Lives
      /\ OpsOk /\ ClaimsOk /\ ClaimsApart /\ MakingOk /\ MakersApart /\ HalvesOk /\ HalvesApart
      /\ RefsExact /\ PipeEndsExact /\ Kept /\ EndsOk /\ PipesOk /\ InstancesOk
      /\ HandOk /\ TransferHeld /\ Unwatching /\ WatchOk /\ RedirOk /\ UnlinksOk
  BY DEF FInv, Calls1, Tables, Sides
<1>8. /\ OfT /\ TabT /\ NameT /\ LifeT /\ SizedT /\ SizeT /\ PipeT /\ RedirT /\ MailT /\ EpT /\ EvT
  BY <1>7 DEF Types
<1>9. op'[s] = f /\ \A t \in Slot \ {s} : op'[t] = op[t]
  BY <1>2, <1>7, GoFacts
<1>10. /\ pipe'[i].used /\ pipe'[i].r = 0 /\ pipe'[i].w = 0
       /\ \A j \in Pipes \ {i} : pipe'[j] = pipe[j]
       /\ PipeT'
  BY <1>2, <1>3, <1>8 DEF PipeT, NoPipe
<1>11. /\ \A t \in Slot : PipingOp(op'[t]) <=> Piping(t) \/ t = s
       /\ \A t \in Slot : Piping(t) => t # s /\ op'[t] = op[t] /\ op[t].obj \in Pipes /\ op[t].obj # i
       /\ \A t \in Slot : HoldingOp(op'[t]) <=> Holding(t)
       /\ \A t \in Slot : Holding(t) => t # s /\ op'[t] = op[t]
  <2>1. \A t \in Slot : Piping(t) => op[t].obj \in Pipes
    BY <1>7 DEF OpsOk, OpOk, Shape, Piping, PipingOp
  <2>2. \A t \in Slot : Piping(t) => op[t].obj # i
    BY <1>3, <1>7 DEF MakingOk
  <2> QED BY <1>4, <1>6, <1>9, <2>1, <2>2 DEF Piping, Holding
<1>12. \A j \in Pipes \ {i} : BeingMade(j)' <=> BeingMade(j)
  BY <1>5, <1>9, <1>11, Makers, MakersNext
<1>13. BeingMade(i)'
  BY <1>5, <1>6, <1>9, MakersNext
<1>14. OpsOk'
  BY <1>2, <1>6, <1>7, GoOk
<1>15. \A t \in Slot : Of(t)' = Of(t)
  BY <1>2 DEF Of
<1>16. ClaimsOk' /\ ClaimsApart'
  BY <1>2, <1>7, <1>11 DEF ClaimsOk, ClaimsApart, Holding, Claimed1
<1>17. MakingOk'
  <2> SUFFICES ASSUME NEW t \in Slot, PipingOp(op'[t])
               PROVE  /\ pipe'[op'[t].obj].used /\ pipe'[op'[t].obj].r = 0 /\ pipe'[op'[t].obj].w = 0
                      /\ \A o \in Oi : ~(of[o].used /\ of[o].kind = "pipe" /\ of[o].obj = op'[t].obj)
    BY <1>2 DEF MakingOk, Piping
  <2>1. CASE t = s
    <3>1. \A o \in Oi : ~(of[o].used /\ of[o].kind = "pipe" /\ of[o].obj = i)
      BY <1>3, <1>7, Constants DEF EndsOk
    <3> QED BY <1>5, <1>9, <1>10, <2>1, <3>1
  <2>2. CASE t # s
    BY <1>7, <1>10, <1>11, <2>2 DEF MakingOk
  <2> QED BY <2>1, <2>2
<1>18. MakersApart'
  BY <1>5, <1>7, <1>9, <1>11 DEF MakersApart, Piping
<1>19. InHands(f) = {}
  BY <1>5 DEF InHands
<1>20. HalvesOk'
  BY <1>2, <1>7, <1>9, <1>11, <1>15, <1>19 DEF HalvesOk, Piping, Half
<1>21. HalvesApart'
  BY <1>7, <1>9, <1>11, <1>15, <1>19 DEF HalvesApart, Piping
<1>22. RefsExact'
  BY <1>2, <1>7 DEF RefsExact, Numbers
<1>23. PipeEndsExact'
  <2>1. \A j, w : EndSlots(j, w)' = EndSlots(j, w)
    BY <1>2 DEF EndSlots, EndOf
  <2> QED BY <1>7, <1>10, <1>12, <1>13, <2>1 DEF PipeEndsExact
<1>24. Kept'
  BY <1>2, <1>7, <1>11 DEF Kept, Holding
<1>25. EndsOk'
  <2>1. \A t \in Slot, o \in Oi : MakesEnd(t, o) => MakesEnd(t, o)'
    BY <1>2, <1>11, <1>15 DEF MakesEnd, Piping, Holding
  <2>2. \A j \in Pipes : pipe[j].used => pipe'[j].used
    BY <1>10
  <2> QED BY <1>2, <1>7, <2>1, <2>2 DEF EndsOk
<1>26. PipesOk'
  BY <1>7, <1>10, <1>12, <1>13 DEF PipesOk
<1>27. InstancesOk'
  BY <1>2, <1>7 DEF InstancesOk, Twins
<1>28. Types'
  <2>1. OfT' /\ TabT' /\ NameT' /\ LifeT' /\ SizedT' /\ SizeT'
    BY <1>2, <1>8 DEF OfT, TabT, NameT, LifeT, SizedT, SizeT
  <2>2. RedirT' /\ MailT' /\ EpT' /\ EvT'
    BY <1>2, <1>8 DEF RedirT, MailT, EpT, EvT
  <2> QED BY <1>10, <2>1, <2>2 DEF Types
<1>29. Sides'
  <2>1. TakesUp(s, f) /\ NoFile(s, f) /\ Watchful(op[s], f)
    BY <1>5, <1>6 DEF TakesUp, NoFile, Watchful
  <2>2. HandOk' /\ TransferHeld'
    BY <1>2, <1>6, <1>7, <1>8, <2>1, HandsStay
  <2>3. UnlinksOk'
    BY <1>2, <1>7, <2>1, UnlinksStay
  <2>4. Unwatching'
    BY <1>2, <1>7, <2>1, UnwatchingStays
  <2>5. WatchOk' /\ RedirOk'
    BY <1>2, <1>7 DEF WatchOk, RedirOk
  <2> QED BY <2>2, <2>3, <2>4, <2>5 DEF Sides
<1>30. Lives'
  <2>1. Gentle(s)
    BY <1>2 DEF Gentle
  <2>2. Moves(s, f)
    BY <1>2, <1>4, <1>5 DEF Moves, User
  <2> QED BY <1>2, <1>7, <1>8, <2>1, <2>2, LivesStay
<1>31. Calls1'
  BY <1>14, <1>16, <1>17, <1>18, <1>20, <1>21 DEF Calls1
<1>32. Tables'
  BY <1>22, <1>23, <1>24, <1>25, <1>26, <1>27 DEF Tables
<1> QED BY <1>28, <1>29, <1>30, <1>31, <1>32 DEF FInv

\* A transfer that found no number: the description stays the sender's.
LEMMA UndoGiveKeeps ==
    ASSUME Orderly, FInv, NEW s \in Slot, Undo(s), op[s].k = "give"
    PROVE  FInv'
<1>1. OpOk(op[s]) /\ GivesOk
  BY DEF FInv, Calls1, OpsOk, Lives
<1>2. op[s].k \notin Ends /\ life[op[s].to] = "live"
  BY <1>1 DEF GivesOk, Ends
<1>3. Go(s, User) /\ UNCHANGED <<setting, table, size, name, mail, life>>
  BY <1>2 DEF Undo, Undone, table
<1>4. OpOk(User) /\ Moves(s, User) /\ TakesUp(s, User) /\ NoFile(s, User) /\ ~PipingOp(User)
      /\ ~HoldingOp(User)
  BY <1>2, Rests
<1>5. Keeps(op[s], User)
  BY <1>2, <1>4 DEF Keeps, PipingOp, HoldingOp
<1> QED BY <1>3, <1>4, <1>5, OpStep

\* Another failed creation: the description goes back, and its instance.
LEMMA UndoClaimKeeps ==
    ASSUME Orderly, FInv, NEW s \in Slot, Undo(s), op[s].k # "give"
    PROVE  FInv'
<1>1. PICK o, k, i : o = op[s].oi /\ k = op[s].k /\ i = op[s].obj
  OBVIOUS
<1> DEFINE f == IF k \in Ends THEN [op[s] EXCEPT !.pc = "unpipe", !.oi = None] ELSE User
<1>2. /\ op[s].pc = "undo" /\ of' = [of EXCEPT ![o] = Blank]
      /\ ep' = (IF k = "epoll" THEN [ep EXCEPT ![i].used = FALSE] ELSE ep)
      /\ evfd' = (IF k = "evfd" THEN [evfd EXCEPT ![i] = NoEvent] ELSE evfd)
      /\ Go(s, f)
      /\ UNCHANGED <<setting, tab, hint, pipe, redir, size, name, mail, life>>
  BY <1>1 DEF Undo, Undone, At
<1>3. /\ Types /\ Calls1 /\ Tables /\ Sides /\ Lives
      /\ OpsOk /\ ClaimsOk /\ ClaimsApart /\ MakingOk /\ MakersApart /\ HalvesOk /\ HalvesApart
      /\ RefsExact /\ PipeEndsExact /\ Kept /\ EndsOk /\ PipesOk /\ InstancesOk
      /\ HandOk /\ TransferHeld /\ Unwatching /\ WatchOk /\ RedirOk /\ UnlinksOk
  BY DEF FInv, Calls1, Tables, Sides
<1>4. /\ OfT /\ TabT /\ NameT /\ LifeT /\ SizedT /\ SizeT /\ PipeT /\ RedirT /\ MailT /\ EpT /\ EvT
  BY <1>3 DEF Types
<1>5. /\ op[s] \in OpRec(Objects) /\ k \in Makes /\ o \in Oi /\ op[s].to = None
      /\ (op[s].n # None <=> k = "write") /\ op[s].m = None
      /\ (k \in Ends => i \in Pipes) /\ (k = "epoll" => i \in Eps) /\ (k = "evfd" => i \in Evs)
  <2>1. OpOk(op[s])
    BY <1>3 DEF OpsOk
  <2> QED BY <1>1, <1>2, <2>1 DEF OpOk, Shape, Filling
<1>6. Holding(s) /\ of[o] = Claimed1(op[s])
  BY <1>1, <1>2, <1>3 DEF Holding, HoldingOp, Filling, ClaimsOk
<1>7. /\ of[o].used /\ of[o].nref = 0
      /\ of[o].kind = (IF k \in Ends THEN "pipe" ELSE k)
      /\ k \notin Ends => of[o].obj = i
  BY <1>1, <1>6 DEF Claimed1, Blank
<1>8. Numbers(o) = {}
  <2>1. Cardinality(Numbers(o)) = 0
    BY <1>3, <1>5, <1>7 DEF RefsExact
  <2>2. IsFiniteSet(Numbers(o))
    BY Counted
  <2> QED BY <2>1, <2>2, ZeroCount
<1>9. /\ of'[o] = Blank /\ ~of'[o].used /\ \A u \in Oi \ {o} : of'[u] = of[u]
      /\ OfT'
  <2>1. Blank \in OfRec /\ ~Blank.used
    BY DEF Blank, OfRec, Kinds, Objects
  <2> QED BY <1>2, <1>4, <1>5, <2>1 DEF OfT
<1>10. /\ k \in Ends => /\ f.pc = "unpipe" /\ f.k = k /\ f.n = op[s].n /\ f.m = None /\ f.oi = None
                        /\ f.obj = i /\ f.to = None /\ f \in OpRec(Objects)
       /\ k \notin Ends => f = User
  BY <1>1, <1>5 DEF OpRec
<1> HIDE DEF f
<1>11. /\ OpOk(User) /\ Moves(s, User) /\ TakesUp(s, User) /\ NoFile(s, User) /\ ~PipingOp(User)
       /\ ~HoldingOp(User)
  BY <1>5, Rests
<1>12. life[Of(s)] = "live"
  BY <1>2, <1>3 DEF Lives, IdleOk
<1>13. OpOk(f) /\ Moves(s, f) /\ TakesUp(s, f) /\ NoFile(s, f) /\ ~HoldingOp(f)
  <2>1. CASE k \in Ends
    <3>1. OpOk(f)
      BY <1>5, <1>10, <2>1 DEF OpOk, Shape, Filling, Ends
    <3>2. Moves(s, f) /\ TakesUp(s, f) /\ NoFile(s, f) /\ ~HoldingOp(f)
      BY <1>5, <1>10, <1>12, <2>1 DEF Moves, TakesUp, NoFile, HoldingOp, Filling, Ends
    <3> QED BY <3>1, <3>2
  <2>2. CASE k \notin Ends
    BY <1>10, <1>11, <2>2
  <2> QED BY <2>1, <2>2
<1>14. SamePiping(op[s], f)
  BY <1>1, <1>2, <1>5, <1>10, <1>11 DEF SamePiping, PipingOp
<1>15. op'[s] = f /\ \A t \in Slot \ {s} : op'[t] = op[t]
  BY <1>2, <1>3, GoFacts
<1>16. /\ \A p \in Slot, n \in Fd : tab[p][n] # o
       /\ \A j, w : EndSlots(j, w)' = EndSlots(j, w)
       /\ \A u \in Oi : Numbers(u)' = Numbers(u)
       /\ \A p \in Slot, n \in Fd : Half(p, n) => Half(p, n)'
  BY <1>2, <1>4, <1>5, <1>8, <1>9, Loose
<1>17. /\ \A t \in Slot : /\ PipingOp(op'[t]) <=> Piping(t)
                          /\ Piping(t) => op'[t].obj = op[t].obj /\ InHands(op'[t]) = InHands(op[t])
       /\ \A j : BeingMade(j)' <=> BeingMade(j)
       /\ MakersApart' /\ HalvesApart' /\ PipesOk'
  BY <1>2, <1>3, <1>14, SameMakers
<1>18. OpsOk'
  BY <1>2, <1>3, <1>13, GoOk
<1>19. \A t \in Slot : /\ HoldingOp(op'[t]) <=> Holding(t) /\ t # s
                       /\ Holding(t) /\ t # s => op'[t] = op[t] /\ op[t].oi \in Oi \ {o}
  <2>1. \A t \in Slot : Holding(t) => op[t].oi \in Oi
    BY <1>3 DEF Holding, HoldingOp, OpsOk, OpOk, Shape
  <2>2. \A t \in Slot : Holding(t) /\ t # s => op[t].oi # o
    BY <1>1, <1>3, <1>6 DEF ClaimsApart
  <2> QED BY <1>13, <1>15, <2>1, <2>2 DEF Holding
<1>20. ClaimsOk' /\ ClaimsApart'
  <2>1. ASSUME NEW t \in Slot, HoldingOp(op'[t]) PROVE of'[op'[t].oi] = Claimed1(op'[t])
    <3>1. Holding(t) /\ op'[t] = op[t] /\ op[t].oi \in Oi \ {o}
      BY <1>19, <2>1
    <3> QED BY <1>3, <1>9, <3>1 DEF ClaimsOk
  <2>2. ClaimsOk'
    BY <2>1 DEF ClaimsOk, Holding, Claimed1
  <2>3. ClaimsApart'
    BY <1>3, <1>19 DEF ClaimsApart, Holding
  <2> QED BY <2>2, <2>3
<1>21. MakingOk'
  BY <1>2, <1>3, <1>9, <1>17 DEF MakingOk, Piping
<1>22. HalvesOk'
  <2> SUFFICES ASSUME NEW t \in Slot, Piping(t), NEW n \in InHands(op[t]) PROVE Half(Of(t), n)'
    BY <1>2, <1>17 DEF HalvesOk, Piping, Half, Of
  <2>1. PICK p \in Slot : p = Of(t)
    BY <1>4, Chosen DEF NameT
  <2>2. Half(p, n)
    BY <1>3, <2>1 DEF HalvesOk
  <2>3. n \in Fd
    BY <1>3 DEF OpsOk, OpOk, OpRec, InHands
  <2>4. tab'[p][n] # None /\ of'[tab'[p][n]] = HalfEnd
    BY <1>16, <2>2, <2>3 DEF Half
  <2> QED BY <1>2, <2>1, <2>4 DEF Half, Of
<1>23. RefsExact'
  <2> SUFFICES ASSUME NEW u \in Oi
               PROVE  IF of'[u].used THEN of'[u].nref = Cardinality(Numbers(u)) ELSE Numbers(u) = {}
    BY <1>16 DEF RefsExact
  <2> QED BY <1>3, <1>8, <1>9 DEF RefsExact
<1>24. PipeEndsExact'
  BY <1>2, <1>3, <1>16, <1>17 DEF PipeEndsExact
<1>25. Kept'
  <2> SUFFICES ASSUME NEW u \in Oi, of'[u].used
               PROVE  of'[u].nref > 0 \/ \E t \in Slot : HoldingOp(op'[t]) /\ op'[t].oi = u
    BY DEF Kept, Holding
  <2>1. u # o /\ of'[u] = of[u]
    BY <1>9
  <2> QED BY <1>1, <1>3, <1>19, <2>1 DEF Kept
<1>26. EndsOk'
  <2> SUFFICES ASSUME NEW u \in Oi, of'[u].used, of'[u].kind = "pipe"
               PROVE  IF of'[u].obj = None THEN \E t \in Slot : MakesEnd(t, u)'
                      ELSE of'[u].obj \in Pipes /\ pipe[of'[u].obj].used
    BY <1>2 DEF EndsOk
  <2>1. u # o /\ of'[u] = of[u]
    BY <1>9
  <2>2. \A t \in Slot : MakesEnd(t, u) => MakesEnd(t, u)'
    BY <1>1, <1>2, <1>17, <1>19, <2>1 DEF MakesEnd, Piping, Holding, Of
  <2> QED BY <1>3, <2>1, <2>2 DEF EndsOk
<1>27. /\ \A e \in Eps : ep'[e].watch = ep[e].watch
       /\ \A e \in Eps : ep'[e].used <=> ep[e].used /\ ~(k = "epoll" /\ e = i)
       /\ \A v \in Evs : evfd'[v].used <=> evfd[v].used /\ ~(k = "evfd" /\ v = i)
       /\ EpT' /\ EvT'
  <2>1. /\ \A e \in Eps : ep'[e].watch = ep[e].watch
        /\ \A e \in Eps : ep'[e].used <=> ep[e].used /\ ~(k = "epoll" /\ e = i)
    BY <1>2, <1>4, <1>5 DEF EpT
  <2>2. ep' \in [Eps -> [used : BOOLEAN, watch : SUBSET [fd : Fd, oi : Oi]]]
    BY <1>2, <1>4, <1>5 DEF EpT
  <2>3. /\ \A v \in Evs : evfd'[v].used <=> evfd[v].used /\ ~(k = "evfd" /\ v = i)
        /\ EvT'
    BY <1>2, <1>4, <1>5 DEF EvT, NoEvent
  <2> QED BY <1>4, <2>1, <2>2, <2>3 DEF EpT
<1>28. InstancesOk'
  <2>1. \A u \in Oi : of'[u].used => u # o /\ of'[u] = of[u]
    BY <1>9
  <2>2. \A u \in Oi \ {o} : ~(/\ of[u].used /\ of[u].kind = k /\ of[u].obj = i
                              /\ k \in {"epoll", "evfd"})
    BY <1>3, <1>5, <1>7 DEF InstancesOk, Twins, Ends
  <2>3. \A u \in Oi : of'[u].used /\ of'[u].kind = "epoll" => of'[u].obj \in Eps /\ ep'[of'[u].obj].used
    BY <1>3, <1>27, <2>1, <2>2 DEF InstancesOk
  <2>4. \A u \in Oi : of'[u].used /\ of'[u].kind = "evfd" => of'[u].obj \in Evs /\ evfd'[of'[u].obj].used
    BY <1>3, <1>27, <2>1, <2>2 DEF InstancesOk
  <2>5. \A e \in Eps : ep'[e].used =>
            \E u \in Oi : of'[u].used /\ of'[u].kind = "epoll" /\ of'[u].obj = e
    BY <1>3, <1>5, <1>7, <1>9, <1>27 DEF InstancesOk, Ends
  <2>6. \A v \in Evs : evfd'[v].used =>
            \E u \in Oi : of'[u].used /\ of'[u].kind = "evfd" /\ of'[u].obj = v
    BY <1>3, <1>5, <1>7, <1>9, <1>27 DEF InstancesOk, Ends
  <2>7. \A u, w \in Oi : Twins(u, w)' => u = w
    BY <1>3, <2>1 DEF InstancesOk, Twins
  <2> QED BY <2>3, <2>4, <2>5, <2>6, <2>7 DEF InstancesOk
<1>29. Types'
  <2>1. TabT' /\ NameT' /\ LifeT' /\ SizedT' /\ SizeT'
    BY <1>2, <1>4 DEF TabT, NameT, LifeT, SizedT, SizeT
  <2>2. RedirT' /\ MailT' /\ PipeT'
    BY <1>2, <1>4 DEF RedirT, MailT, PipeT
  <2> QED BY <1>9, <1>27, <2>1, <2>2 DEF Types
<1>30. Sides'
  <2>1. \A u \in Oi : of[u].used /\ Numbers(u) # {} => of'[u].used
    BY <1>8, <1>9
  <2>2. HandOk' /\ TransferHeld'
    BY <1>2, <1>3, <1>4, <1>13, <2>1, HandsStay
  <2>3. UnlinksOk'
    <3>1. \A u \in Oi : of'[u].used /\ of'[u].kind = "file" =>
               \/ of[u].used /\ of[u].kind = "file" /\ of[u].obj = of'[u].obj
               \/ op[s].k = "file" /\ op[s].pc # "orphan" /\ op[s].obj = of'[u].obj
      BY <1>9
    <3> QED BY <1>2, <1>3, <1>13, <3>1, UnlinksStay
  <2>4. Unwatching'
    <3>1. Watchful(op[s], f)
      BY <1>13 DEF Watchful
    <3> QED BY <1>2, <1>3, <1>27, <3>1, UnwatchingStays
  <2>5. WatchOk'
    <3> SUFFICES ASSUME NEW e \in Eps, NEW x \in ep'[e].watch
                 PROVE  ep'[e].used /\ of'[x.oi].used /\ of'[x.oi].nref > 0
      BY DEF WatchOk
    <3>1. x \in ep[e].watch /\ x.oi \in Oi
      BY <1>4, <1>27 DEF EpT
    <3>2. ep[e].used /\ of[x.oi].used /\ of[x.oi].nref > 0
      BY <1>3, <3>1 DEF WatchOk
    <3>3. ~(k = "epoll" /\ e = i)
      BY <1>1, <1>3, <1>6, <3>1 DEF Unwatching
    <3>4. x.oi # o
      BY <1>7, <3>2
    <3> QED BY <1>9, <1>27, <3>1, <3>2, <3>3, <3>4
  <2>6. RedirOk'
    BY <1>2, <1>3 DEF RedirOk
  <2> QED BY <2>2, <2>3, <2>4, <2>5, <2>6 DEF Sides
<1>31. Lives'
  <2>1. Gentle(s)
    BY <1>2 DEF Gentle
  <2> QED BY <1>2, <1>3, <1>4, <1>13, <2>1, LivesStay
<1>32. Calls1'
  BY <1>17, <1>18, <1>20, <1>21, <1>22 DEF Calls1
<1>33. Tables'
  BY <1>17, <1>23, <1>24, <1>25, <1>26, <1>28 DEF Tables
<1> QED BY <1>29, <1>30, <1>31, <1>32, <1>33 DEF FInv

\* The read and write end become ends: nobody else has their numbers or the pipe.
LEMMA MarkFacts ==
    ASSUME Orderly, FInv, NEW s \in Slot, op[s].pc = "mark",
           NEW p, p = Of(s), NEW i, i = op[s].obj,
           NEW n, n = op[s].n, NEW m, m = op[s].m
    PROVE  /\ p \in Slot /\ i \in Pipes /\ n \in Fd /\ m \in Fd /\ n # m /\ Piping(s)
           /\ n \in InHands(op[s]) /\ m \in InHands(op[s])
           /\ \A x \in {n, m} : /\ Named(p, x) = tab[p][x] /\ tab[p][x] \in Oi
                                /\ of[tab[p][x]] = HalfEnd
                                /\ \A q \in Slot, y \in Fd :
                                      tab[q][y] = tab[p][x] => q = p /\ y = x
           /\ tab[p][n] # tab[p][m]
<1>1. /\ OpOk(op[s]) /\ TabT /\ SizedT /\ SizeT /\ OfT /\ RefsExact /\ HalvesOk /\ NameT
  BY DEF FInv, Types, Calls1, OpsOk, Tables
<1>2. /\ p \in Slot /\ i \in Pipes /\ n \in Fd /\ m \in Fd /\ n # m /\ n # None /\ m # None
      /\ op[s].k = "write"
  <2>1. op[s].k = "write" /\ op[s].m # op[s].n /\ op[s].m # None /\ op[s].n # None
    BY <1>1 DEF OpOk, Shape
  <2>2. op[s].obj \in Pipes /\ op[s].n \in Fd /\ op[s].m \in Fd
    BY <1>1, <2>1 DEF OpOk, OpRec, Shape, Ends
  <2> QED BY <1>1, <2>1, <2>2, Chosen DEF NameT
<1>3. Piping(s)
  BY <1>2 DEF Piping, PipingOp, Ends
<1>4. n \in InHands(op[s]) /\ m \in InHands(op[s])
  BY <1>2 DEF InHands
<1>5. ASSUME NEW x \in {n, m}
      PROVE  /\ Named(p, x) = tab[p][x] /\ tab[p][x] \in Oi /\ of[tab[p][x]] = HalfEnd
             /\ \A q \in Slot, y \in Fd : tab[q][y] = tab[p][x] => q = p /\ y = x
  <2>1. x \in Fd /\ Half(p, x)
    BY <1>1, <1>2, <1>3, <1>4, <1>5 DEF HalvesOk
  <2>2. Named(p, x) = tab[p][x]
    BY <1>1, <1>2, <2>1, NamedIs
  <2>3. tab[p][x] \in Oi /\ of[tab[p][x]] = HalfEnd
    BY <1>1, <1>2, <2>1 DEF Half, TabT
  <2>4. of[tab[p][x]].nref = 1 /\ of[tab[p][x]].used
    BY <2>3 DEF HalfEnd, Blank
  <2>5. ASSUME NEW q \in Slot, NEW y \in Fd, tab[q][y] = tab[p][x] PROVE q = p /\ y = x
    BY <1>1, <1>2, <2>1, <2>3, <2>4, <2>5, OneNumber
  <2> QED BY <2>2, <2>3, <2>5
<1>6. tab[p][n] # tab[p][m]
  BY <1>2, <1>5
<1> QED BY <1>2, <1>3, <1>4, <1>5, <1>6

LEMMA MarkKeeps ==
    ASSUME Orderly, FInv, NEW s \in Slot, Mark(s)
    PROVE  FInv'
<1>1. PICK p, i, n, m : p = Of(s) /\ i = op[s].obj /\ n = op[s].n /\ m = op[s].m
  OBVIOUS
<1>2. op[s].pc = "mark"
  BY DEF Mark, At
<1>3. /\ p \in Slot /\ i \in Pipes /\ n \in Fd /\ m \in Fd /\ n # m /\ Piping(s)
      /\ n \in InHands(op[s]) /\ m \in InHands(op[s])
      /\ \A x \in {n, m} : /\ Named(p, x) = tab[p][x] /\ tab[p][x] \in Oi
                           /\ of[tab[p][x]] = HalfEnd
                           /\ \A q \in Slot, y \in Fd :
                                 tab[q][y] = tab[p][x] => q = p /\ y = x
      /\ tab[p][n] # tab[p][m]
  BY <1>1, <1>2, MarkFacts
<1>4. PICK ro, wo : ro = tab[p][n] /\ wo = tab[p][m]
  OBVIOUS
<1>5. /\ ro \in Oi /\ wo \in Oi /\ ro # wo /\ ro # None /\ wo # None
      /\ of[ro] = HalfEnd /\ of[wo] = HalfEnd
      /\ \A q \in Slot, y \in Fd : /\ tab[q][y] = ro => q = p /\ y = n
                                   /\ tab[q][y] = wo => q = p /\ y = m
  BY <1>3, <1>4, Constants
<1>6. /\ of' = [of EXCEPT ![ro] = [@ EXCEPT !.obj = i], ![wo] = [@ EXCEPT !.obj = i, !.w = TRUE]]
      /\ pipe' = [pipe EXCEPT ![i] = Marked(i)]
      /\ Go(s, User)
      /\ UNCHANGED <<setting, tab, hint, ep, evfd, redir, size, name, mail, life>>
  <2>1. Named(Of(s), op[s].n) = ro /\ Named(Of(s), op[s].m) = wo
    BY <1>1, <1>3, <1>4
  <2> QED BY <1>1, <1>5, <2>1 DEF Mark
<1>7. /\ Types /\ Calls1 /\ Tables /\ Sides /\ Lives
      /\ OpsOk /\ ClaimsOk /\ ClaimsApart /\ MakingOk /\ MakersApart /\ HalvesOk /\ HalvesApart
      /\ RefsExact /\ PipeEndsExact /\ Kept /\ EndsOk /\ PipesOk /\ InstancesOk
      /\ HandOk /\ TransferHeld /\ Unwatching /\ WatchOk /\ RedirOk /\ UnlinksOk
  BY DEF FInv, Calls1, Tables, Sides
<1>8. /\ OfT /\ TabT /\ NameT /\ LifeT /\ SizedT /\ SizeT /\ PipeT /\ RedirT /\ MailT /\ EpT /\ EvT
  BY <1>7 DEF Types
<1>9. /\ HalfEnd.used /\ HalfEnd.kind = "pipe" /\ HalfEnd.obj = None /\ HalfEnd.w = FALSE
      /\ HalfEnd.nref = 1 /\ HalfEnd \in OfRec /\ i \in Objects
  BY <1>3 DEF HalfEnd, Blank, OfRec, Kinds, Objects
<1>10. /\ \A u \in Oi : /\ of'[u].used = of[u].used /\ of'[u].kind = of[u].kind
                        /\ of'[u].nref = of[u].nref
                        /\ u \notin {ro, wo} => of'[u] = of[u]
       /\ of'[ro].obj = i /\ of'[ro].w = FALSE /\ of'[wo].obj = i /\ of'[wo].w = TRUE
       /\ OfT'
  <2>1. \A u \in Oi \ {ro, wo} : of'[u] = of[u]
    BY <1>5, <1>6, <1>8 DEF OfT
  <2>2. of'[ro] = [HalfEnd EXCEPT !.obj = i] /\ of'[wo] = [HalfEnd EXCEPT !.obj = i, !.w = TRUE]
    BY <1>5, <1>6, <1>8 DEF OfT
  <2>3. /\ of'[ro].used = of[ro].used /\ of'[ro].kind = of[ro].kind /\ of'[ro].nref = of[ro].nref
        /\ of'[ro].obj = i /\ of'[ro].w = FALSE /\ of'[ro] \in OfRec
    BY <1>5, <1>9, <2>2 DEF OfRec
  <2>4. /\ of'[wo].used = of[wo].used /\ of'[wo].kind = of[wo].kind /\ of'[wo].nref = of[wo].nref
        /\ of'[wo].obj = i /\ of'[wo].w = TRUE /\ of'[wo] \in OfRec
    BY <1>5, <1>9, <2>2 DEF OfRec
  <2>5. \A u \in Oi : of'[u] \in OfRec
    BY <1>8, <2>1, <2>3, <2>4 DEF OfT
  <2>6. of' = [u \in Oi |-> of'[u]]
    BY <1>6, <1>8 DEF OfT
  <2>7. OfT'
    BY <2>5, <2>6 DEF OfT
  <2> QED BY <2>1, <2>3, <2>4, <2>7
<1>11. /\ pipe'[i].used /\ pipe'[i].r = 1 /\ pipe'[i].w = 1
       /\ \A j \in Pipes \ {i} : pipe'[j] = pipe[j]
       /\ PipeT'
  <2>1. pipe[i].used
    BY <1>1, <1>3, <1>7 DEF MakingOk
  <2> QED BY <1>3, <1>6, <1>8, <2>1 DEF PipeT, Marked
<1>12. op'[s] = User /\ \A t \in Slot \ {s} : op'[t] = op[t]
  BY <1>6, <1>7, GoFacts
<1>13. op[s].to = None /\ ~HoldingOp(op[s])
  <2>1. OpOk(op[s])
    BY <1>7 DEF OpsOk
  <2> QED BY <1>2, <2>1 DEF OpOk, Shape, HoldingOp, Filling
<1>14. /\ OpOk(User) /\ Moves(s, User) /\ TakesUp(s, User) /\ NoFile(s, User) /\ ~PipingOp(User)
       /\ ~HoldingOp(User)
  BY <1>13, Rests
<1>15. OpsOk'
  BY <1>6, <1>7, <1>14, GoOk
<1>16. \A t \in Slot : Of(t)' = Of(t) /\ Of(t) \in Slot
  BY <1>6, <1>8, Chosen DEF Of, NameT
<1>17. /\ \A t \in Slot : PipingOp(op'[t]) <=> Piping(t) /\ t # s
       /\ \A t \in Slot : Piping(t) /\ t # s => op'[t] = op[t] /\ op[t].obj \in Pipes \ {i}
       /\ \A t \in Slot : HoldingOp(op'[t]) <=> Holding(t)
       /\ \A t \in Slot : Holding(t) => op'[t] = op[t] /\ op[t].oi \in Oi \ {ro, wo}
  <2>1. \A t \in Slot : Piping(t) => op[t].obj \in Pipes
    BY <1>7 DEF OpsOk, OpOk, Shape, Piping, PipingOp
  <2>2. \A t \in Slot : Piping(t) /\ t # s => op[t].obj # i
    BY <1>1, <1>3, <1>7 DEF MakersApart
  <2>3. \A t \in Slot : Holding(t) => op[t].oi \in Oi
    BY <1>7 DEF Holding, HoldingOp, OpsOk, OpOk, Shape
  <2>4. \A t \in Slot : Holding(t) => of[op[t].oi].nref = 0
    BY <1>7 DEF ClaimsOk, Claimed1, Blank
  <2>5. \A t \in Slot : Holding(t) => op[t].oi \notin {ro, wo}
    BY <1>5, <1>9, <2>4
  <2> QED BY <1>12, <1>13, <1>14, <2>1, <2>2, <2>3, <2>5 DEF Piping, Holding
<1>18. \A j \in Pipes \ {i} : BeingMade(j)' <=> BeingMade(j)
  BY <1>1, <1>17, Makers, MakersNext
<1>19. ~BeingMade(i)'
  BY <1>17, MakersNext
<1>20. ClaimsOk' /\ ClaimsApart'
  <2>1. ASSUME NEW t \in Slot, HoldingOp(op'[t]) PROVE of'[op'[t].oi] = Claimed1(op'[t])
    <3>1. Holding(t) /\ op'[t] = op[t] /\ op[t].oi \in Oi \ {ro, wo}
      BY <1>17, <2>1
    <3> QED BY <1>7, <1>10, <3>1 DEF ClaimsOk
  <2>2. ClaimsOk'
    BY <2>1 DEF ClaimsOk, Holding, Claimed1
  <2>3. ClaimsApart'
    BY <1>7, <1>17 DEF ClaimsApart, Holding
  <2> QED BY <2>2, <2>3
<1>21. MakingOk'
  <2> SUFFICES ASSUME NEW t \in Slot, PipingOp(op'[t])
               PROVE  /\ pipe'[op'[t].obj].used /\ pipe'[op'[t].obj].r = 0 /\ pipe'[op'[t].obj].w = 0
                      /\ \A u \in Oi : ~(of'[u].used /\ of'[u].kind = "pipe" /\ of'[u].obj = op'[t].obj)
    BY DEF MakingOk, Piping
  <2>1. Piping(t) /\ op'[t] = op[t] /\ op[t].obj \in Pipes \ {i}
    BY <1>17
  <2>2. \A u \in Oi : ~(of'[u].used /\ of'[u].kind = "pipe" /\ of'[u].obj = op[t].obj)
    BY <1>7, <1>10, <2>1 DEF MakingOk
  <2> QED BY <1>7, <1>11, <2>1, <2>2 DEF MakingOk
<1>22. MakersApart' /\ HalvesApart'
  BY <1>7, <1>16, <1>17 DEF MakersApart, HalvesApart, Piping
<1>23. HalvesOk'
  <2> SUFFICES ASSUME NEW t \in Slot, PipingOp(op'[t]), NEW x \in InHands(op'[t]) PROVE Half(Of(t), x)'
    BY <1>16 DEF HalvesOk, Piping, Half
  <2>1. Piping(t) /\ op'[t] = op[t] /\ t # s
    BY <1>17
  <2>2. PICK q \in Slot : q = Of(t)
    BY <1>16
  <2>3. Half(q, x) /\ x \in Fd
    BY <1>7, <2>1, <2>2 DEF HalvesOk, OpsOk, OpOk, OpRec, InHands
  <2>4. tab[q][x] \in Oi
    BY <1>8, <2>3 DEF Half, TabT
  <2>5. tab[q][x] \notin {ro, wo}
    <3>1. ASSUME tab[q][x] \in {ro, wo} PROVE FALSE
      <4>1. q = p /\ x \in {n, m}
        BY <1>5, <2>3, <3>1
      <4>2. x \in InHands(op[s]) \cap InHands(op[t])
        BY <1>3, <2>1, <4>1
      <4> QED BY <1>1, <1>3, <1>7, <2>1, <2>2, <4>1, <4>2 DEF HalvesApart
    <3> QED BY <3>1
  <2>6. tab'[q][x] # None /\ of'[tab'[q][x]] = HalfEnd
    BY <1>6, <1>10, <2>3, <2>4, <2>5 DEF Half
  <2> QED BY <1>16, <2>2, <2>6 DEF Half
<1>24. RefsExact'
  <2>1. \A u \in Oi : Numbers(u)' = Numbers(u)
    BY <1>6 DEF Numbers
  <2> QED BY <1>7, <1>10, <2>1 DEF RefsExact
<1>25. PipeEndsExact'
  <2>1. \A q \in Slot, y \in Fd : tab[q][y] # None => tab[q][y] \in Oi /\ of[tab[q][y]].used
    BY <1>7, <1>8, NamedUsed
  <2>2. ASSUME NEW j \in Pipes \ {i}, NEW w \in BOOLEAN PROVE EndSlots(j, w)' = EndSlots(j, w)
    <3>1. \A u \in Oi : (of'[u].kind = "pipe" /\ of'[u].obj = j /\ of'[u].w = w) <=>
                        (of[u].kind = "pipe" /\ of[u].obj = j /\ of[u].w = w)
      BY <1>3, <1>5, <1>9, <1>10, Constants
    <3> QED BY <1>6, <2>1, <3>1 DEF EndSlots, EndOf
  <2>3. \A u \in Oi : of[u].used /\ of[u].kind = "pipe" => of[u].obj # i
    BY <1>1, <1>3, <1>7 DEF MakingOk
  <2>4. EndSlots(i, FALSE)' = {<<p, n>>}
    <3>1. \A q \in Slot, y \in Fd : tab[q][y] # None =>
             ((of'[tab[q][y]].kind = "pipe" /\ of'[tab[q][y]].obj = i /\ of'[tab[q][y]].w = FALSE)
               <=> tab[q][y] = ro)
      BY <1>5, <1>9, <1>10, <2>1, <2>3
    <3>2. ASSUME NEW q \in Slot, NEW y \in Fd
          PROVE  <<q, y>> \in EndSlots(i, FALSE)' <=> q = p /\ y = n
      <4>1. PICK z : z = tab[q][y]
        OBVIOUS
      <4>2. <<q, y>> \in EndSlots(i, FALSE)'
               <=> z # None /\ of'[z].kind = "pipe" /\ of'[z].obj = i /\ of'[z].w = FALSE
        BY <1>6, <4>1 DEF EndSlots, EndOf
      <4>3. z # None => ((of'[z].kind = "pipe" /\ of'[z].obj = i /\ of'[z].w = FALSE) <=> z = ro)
        BY <3>1, <4>1
      <4>4. z = ro <=> q = p /\ y = n
        BY <1>3, <1>4, <1>5, <4>1
      <4>5. ro # None
        BY <1>5
      <4> QED BY <4>2, <4>3, <4>4, <4>5
    <3>3. PICK E : E = EndSlots(i, FALSE)'
      OBVIOUS
    <3>4. E \subseteq Slot \X Fd
      BY <3>3 DEF EndSlots
    <3>5. \A q \in Slot, y \in Fd : <<q, y>> \in E <=> q = p /\ y = n
      BY <3>2, <3>3
    <3>6. E = {<<p, n>>}
      BY <1>3, <3>4, <3>5
    <3> QED BY <3>3, <3>6
  <2>5. EndSlots(i, TRUE)' = {<<p, m>>}
    <3>1. \A q \in Slot, y \in Fd : tab[q][y] # None =>
             ((of'[tab[q][y]].kind = "pipe" /\ of'[tab[q][y]].obj = i /\ of'[tab[q][y]].w = TRUE)
               <=> tab[q][y] = wo)
      BY <1>5, <1>9, <1>10, <2>1, <2>3
    <3>2. ASSUME NEW q \in Slot, NEW y \in Fd
          PROVE  <<q, y>> \in EndSlots(i, TRUE)' <=> q = p /\ y = m
      <4>1. PICK z : z = tab[q][y]
        OBVIOUS
      <4>2. <<q, y>> \in EndSlots(i, TRUE)'
               <=> z # None /\ of'[z].kind = "pipe" /\ of'[z].obj = i /\ of'[z].w = TRUE
        BY <1>6, <4>1 DEF EndSlots, EndOf
      <4>3. z # None => ((of'[z].kind = "pipe" /\ of'[z].obj = i /\ of'[z].w = TRUE) <=> z = wo)
        BY <3>1, <4>1
      <4>4. z = wo <=> q = p /\ y = m
        BY <1>3, <1>4, <1>5, <4>1
      <4>5. wo # None
        BY <1>5
      <4> QED BY <4>2, <4>3, <4>4, <4>5
    <3>3. PICK E : E = EndSlots(i, TRUE)'
      OBVIOUS
    <3>4. E \subseteq Slot \X Fd
      BY <3>3 DEF EndSlots
    <3>5. \A q \in Slot, y \in Fd : <<q, y>> \in E <=> q = p /\ y = m
      BY <3>2, <3>3
    <3>6. E = {<<p, m>>}
      BY <1>3, <3>4, <3>5
    <3> QED BY <3>3, <3>6
  <2>6. Cardinality(EndSlots(i, FALSE)') = 1 /\ Cardinality(EndSlots(i, TRUE)') = 1
    BY <2>4, <2>5, FS_Singleton
  <2>7. ASSUME NEW j \in Pipes, pipe'[j].used, ~BeingMade(j)'
        PROVE  /\ pipe'[j].r = Cardinality(EndSlots(j, FALSE)')
               /\ pipe'[j].w = Cardinality(EndSlots(j, TRUE)')
    <3>1. CASE j = i
      BY <1>11, <2>6, <3>1
    <3>2. CASE j # i
      BY <1>7, <1>11, <1>18, <2>2, <2>7, <3>2 DEF PipeEndsExact
    <3> QED BY <3>1, <3>2
  <2> QED BY <2>7 DEF PipeEndsExact
<1>26. Kept'
  BY <1>7, <1>10, <1>17 DEF Kept, Holding
<1>27. EndsOk'
  <2> SUFFICES ASSUME NEW u \in Oi, of'[u].used, of'[u].kind = "pipe"
               PROVE  IF of'[u].obj = None THEN \E t \in Slot : MakesEnd(t, u)'
                      ELSE of'[u].obj \in Pipes /\ pipe'[of'[u].obj].used
    BY DEF EndsOk
  <2>1. CASE u \in {ro, wo}
    BY <1>3, <1>10, <1>11, <2>1, Constants
  <2>2. CASE u \notin {ro, wo}
    <3>1. of'[u] = of[u]
      BY <1>10, <2>2
    <3>2. \A t \in Slot : MakesEnd(t, u) => MakesEnd(t, u)'
      <4>1. ~MakesEnd(s, u)
        BY <1>1, <1>4, <1>13, <2>2 DEF MakesEnd, Holding, InHands
      <4>2. \A t \in Slot \ {s} : MakesEnd(t, u) => MakesEnd(t, u)'
        BY <1>6, <1>16, <1>17 DEF MakesEnd, Piping, Holding
      <4> QED BY <4>1, <4>2
    <3> QED BY <1>7, <1>11, <3>1, <3>2 DEF EndsOk
  <2> QED BY <2>1, <2>2
<1>28. PipesOk'
  BY <1>7, <1>11, <1>18 DEF PipesOk
<1>29. InstancesOk'
  <2>1. \A u \in Oi : of'[u].used /\ of'[u].kind \in {"epoll", "evfd"} => of'[u] = of[u]
    BY <1>5, <1>9, <1>10
  <2>2. \A u \in Oi : of[u].used /\ of[u].kind \in {"epoll", "evfd"} => of'[u] = of[u]
    BY <1>5, <1>9, <1>10
  <2>3. /\ \A u \in Oi : of[u].used /\ of[u].kind = "epoll" => of[u].obj \in Eps /\ ep[of[u].obj].used
        /\ \A u \in Oi : of[u].used /\ of[u].kind = "evfd" => of[u].obj \in Evs /\ evfd[of[u].obj].used
        /\ \A e \in Eps : ep[e].used => \E u \in Oi : of[u].used /\ of[u].kind = "epoll" /\ of[u].obj = e
        /\ \A v \in Evs : evfd[v].used => \E u \in Oi : of[u].used /\ of[u].kind = "evfd" /\ of[u].obj = v
    BY <1>7 DEF InstancesOk
  <2>4. ep' = ep /\ evfd' = evfd
    BY <1>6
  <2>5. /\ \A u \in Oi : of'[u].used /\ of'[u].kind = "epoll" => of'[u].obj \in Eps /\ ep'[of'[u].obj].used
        /\ \A u \in Oi : of'[u].used /\ of'[u].kind = "evfd" => of'[u].obj \in Evs /\ evfd'[of'[u].obj].used
    BY <2>1, <2>3, <2>4
  <2>6. /\ \A e \in Eps : ep'[e].used => \E u \in Oi : of'[u].used /\ of'[u].kind = "epoll" /\ of'[u].obj = e
        /\ \A v \in Evs : evfd'[v].used => \E u \in Oi : of'[u].used /\ of'[u].kind = "evfd" /\ of'[u].obj = v
    BY <2>2, <2>3, <2>4
  <2>7. \A u, w \in Oi : Twins(u, w)' => Twins(u, w)
    BY <2>1 DEF Twins
  <2>8. \A u, w \in Oi : Twins(u, w)' => u = w
    BY <1>7, <2>7 DEF InstancesOk
  <2> QED BY <2>5, <2>6, <2>8 DEF InstancesOk
<1>30. Types'
  <2>1. TabT' /\ NameT' /\ LifeT' /\ SizedT' /\ SizeT'
    BY <1>6, <1>8 DEF TabT, NameT, LifeT, SizedT, SizeT
  <2>2. RedirT' /\ MailT' /\ EpT' /\ EvT'
    BY <1>6, <1>8 DEF RedirT, MailT, EpT, EvT
  <2> QED BY <1>10, <1>11, <2>1, <2>2 DEF Types
<1>31. Sides'
  <2>1. \A u \in Oi : of[u].used /\ Numbers(u) # {} => of'[u].used
    BY <1>10
  <2>2. HandOk' /\ TransferHeld'
    BY <1>6, <1>7, <1>8, <1>14, <2>1, HandsStay
  <2>3. UnlinksOk'
    <3>1. \A u \in Oi : of'[u].used /\ of'[u].kind = "file" =>
               \/ of[u].used /\ of[u].kind = "file" /\ of[u].obj = of'[u].obj
               \/ op[s].k = "file" /\ op[s].pc # "orphan" /\ op[s].obj = of'[u].obj
      BY <1>5, <1>9, <1>10
    <3> QED BY <1>6, <1>7, <1>14, <3>1, UnlinksStay
  <2>4. Unwatching'
    <3>1. Watchful(op[s], User)
      BY <1>14 DEF Watchful
    <3> QED BY <1>6, <1>7, <3>1, UnwatchingStays
  <2>5. WatchOk'
    <3> SUFFICES ASSUME NEW e \in Eps, NEW x \in ep'[e].watch
                 PROVE  ep'[e].used /\ of'[x.oi].used /\ of'[x.oi].nref > 0
      BY DEF WatchOk
    <3>1. x \in ep[e].watch /\ x.oi \in Oi
      BY <1>6, <1>8 DEF EpT
    <3>2. ep[e].used /\ of[x.oi].used /\ of[x.oi].nref > 0
      BY <1>7, <3>1 DEF WatchOk
    <3> QED BY <1>6, <1>10, <3>1, <3>2
  <2>6. RedirOk'
    BY <1>6, <1>7 DEF RedirOk
  <2> QED BY <2>2, <2>3, <2>4, <2>5, <2>6 DEF Sides
<1>32. Lives'
  <2>1. Gentle(s)
    BY <1>6 DEF Gentle
  <2> QED BY <1>6, <1>7, <1>8, <1>14, <2>1, LivesStay
<1>33. Calls1'
  BY <1>15, <1>20, <1>21, <1>22, <1>23 DEF Calls1
<1>34. Tables'
  BY <1>24, <1>25, <1>26, <1>27, <1>28, <1>29 DEF Tables
<1> QED BY <1>30, <1>31, <1>32, <1>33, <1>34 DEF FInv

-----------------------------------------------------------------------------
(* Numbers added to a table. *)

\* The numbers ns of table q, free until now, come to name the descriptions got.
Gains(q, ns, got) ==
    /\ q \in Slot /\ ns \subseteq Fd
    /\ \A n \in ns : tab[q][n] = None /\ got[n] \in Oi /\ of[got[n]].used
    /\ \A p \in Slot \ {q} : tab'[p] = tab[p]
    /\ \A n \in Fd : tab'[q][n] = IF n \in ns THEN got[n] ELSE tab[q][n]
    /\ \A o \in Oi : /\ of'[o].used = of[o].used /\ of'[o].kind = of[o].kind
                     /\ of'[o].obj = of[o].obj /\ of'[o].w = of[o].w
                     /\ of'[o].nref >= of[o].nref
                     /\ (\A n \in ns : got[n] # o) => of'[o] = of[o]
    /\ \A i \in Pipes :
          /\ pipe'[i].used = pipe[i].used
          /\ pipe'[i].r >= pipe[i].r /\ pipe'[i].w >= pipe[i].w
          /\ pipe[i].r = Cardinality(EndSlots(i, FALSE)) => pipe'[i].r = Cardinality(EndSlots(i, FALSE)')
          /\ pipe[i].w = Cardinality(EndSlots(i, TRUE)) => pipe'[i].w = Cardinality(EndSlots(i, TRUE)')
          /\ (\A o \in Oi : ~(of[o].used /\ of[o].kind = "pipe" /\ of[o].obj = i))
                => pipe'[i].r = pipe[i].r /\ pipe'[i].w = pipe[i].w

\* fd_install_locked: every new number counts, for the description and the pipe's end.
LEMMA InstallsEffect ==
    ASSUME OfT, TabT, SizeT, PipeT, RefsExact, NEW q \in Slot, NEW got, NEW ns \in SUBSET Fd,
           ns = DOMAIN got, \A n \in ns : tab[q][n] = None /\ got[n] \in Oi /\ of[got[n]].used,
           NEW old, \A n \in Fd : old[n] = tab[q][n], NEW from \in 0 .. FdMax,
           Installs(q, old, from, got)
    PROVE  /\ Gains(q, ns, got) /\ TabT' /\ OfT' /\ PipeT' /\ RefsExact'
           /\ hint' \in [Slot -> 0 .. FdMax] /\ UNCHANGED <<ep, evfd>>
<1> DEFINE Ref(o) == {n \in ns : got[n] = o}
           End(i, w) == {n \in ns : EndOf(got[n], i, w)}
<1>1. /\ tab' = [tab EXCEPT ![q] = [n \in Fd |-> IF n \in ns THEN got[n] ELSE old[n]]]
      /\ hint' = [hint EXCEPT ![q] = Max({from} \cup {n + 1 : n \in ns})]
      /\ of' = [o \in Oi |-> [of[o] EXCEPT !.nref = @ + Cardinality(Ref(o))]]
      /\ pipe' = [i \in Pipes |-> PipeGains(i, Cardinality(End(i, FALSE)), Cardinality(End(i, TRUE)))]
      /\ UNCHANGED <<ep, evfd>>
  BY DEF Installs
<1>2. /\ \A p \in Slot \ {q} : tab'[p] = tab[p]
      /\ \A n \in Fd : tab'[q][n] = IF n \in ns THEN got[n] ELSE tab[q][n]
      /\ TabT'
  BY <1>1 DEF TabT
<1>3. /\ \A o : Ref(o) \subseteq Fd /\ Cardinality(Ref(o)) \in Nat
      /\ \A i, w : End(i, w) \subseteq Fd /\ Cardinality(End(i, w)) \in Nat
  <2>1. /\ \A o : Ref(o) \subseteq Fd
        /\ \A i, w : End(i, w) \subseteq Fd
    OBVIOUS
  <2> HIDE DEF Ref, End
  <2> QED BY <2>1, Finite
<1>4. \A o \in Oi : (\A n \in ns : got[n] # o) => Cardinality(Ref(o)) = 0
  <2> SUFFICES ASSUME NEW o \in Oi, \A n \in ns : got[n] # o PROVE Cardinality(Ref(o)) = 0
    OBVIOUS
  <2>1. Ref(o) = {}
    OBVIOUS
  <2> QED BY <2>1, FS_EmptySet
<1>5. /\ \A o \in Oi : /\ of'[o].used = of[o].used /\ of'[o].kind = of[o].kind
                       /\ of'[o].obj = of[o].obj /\ of'[o].w = of[o].w
                       /\ of'[o].nref = of[o].nref + Cardinality(Ref(o))
                       /\ of'[o] \in OfRec
                       /\ (\A n \in ns : got[n] # o) => of'[o] = of[o]
      /\ OfT'
  <2> HIDE DEF Ref
  <2>1. ASSUME NEW o \in Oi
        PROVE  /\ of'[o].used = of[o].used /\ of'[o].kind = of[o].kind
               /\ of'[o].obj = of[o].obj /\ of'[o].w = of[o].w
               /\ of'[o].nref = of[o].nref + Cardinality(Ref(o))
               /\ of'[o] \in OfRec
               /\ (\A n \in ns : got[n] # o) => of'[o] = of[o]
    <3>1. of[o] \in OfRec /\ of'[o] = [of[o] EXCEPT !.nref = @ + Cardinality(Ref(o))]
      BY <1>1 DEF OfT
    <3> QED BY <1>3, <1>4, <3>1 DEF OfRec
  <2>2. of' = [o \in Oi |-> of'[o]]
    BY <1>1
  <2> QED BY <2>1, <2>2 DEF OfT
<1>6. RefsExact'
  <2> SUFFICES ASSUME NEW o \in Oi
               PROVE  IF of'[o].used THEN of'[o].nref = Cardinality(Numbers(o)')
                      ELSE Numbers(o)' = {}
    BY DEF RefsExact
  <2>1. Numbers(o)' = Numbers(o) \cup Row(q, Ref(o))
    <3>1. ASSUME NEW p \in Slot, NEW n \in Fd
          PROVE  tab'[p][n] = o <=> tab[p][n] = o \/ (p = q /\ n \in ns /\ got[n] = o)
      BY <1>2, <3>1, Constants
    <3>2. Numbers(o)' = {x \in Slot \X Fd : tab'[x[1]][x[2]] = o}
      BY DEF Numbers
    <3>3. ASSUME NEW p \in Slot, NEW n \in Fd
          PROVE  <<p, n>> \in Numbers(o)' <=> <<p, n>> \in Numbers(o) \cup Row(q, Ref(o))
      BY <3>1, <3>2 DEF Numbers, Row
    <3>4. Numbers(o) \cup Row(q, Ref(o)) \subseteq Slot \X Fd /\ Numbers(o)' \subseteq Slot \X Fd
      BY <3>2 DEF Numbers, Row
    <3> HIDE DEF Ref
    <3> QED BY <3>3, <3>4
  <2>2. CASE of[o].used
    <3>1. Numbers(o) \cap Row(q, Ref(o)) = {}
      BY Constants DEF Numbers, Row
    <3>2. Numbers(o) \in SUBSET (Slot \X Fd)
      BY DEF Numbers
    <3>3. PICK ms : ms = Ref(o)
      OBVIOUS
    <3>4. ms \in SUBSET Fd
      BY <1>3, <3>3
    <3>5. PICK A : A = Numbers(o)
      OBVIOUS
    <3>6. Cardinality(A \cup Row(q, ms)) = Cardinality(A) + Cardinality(ms)
      <4> HIDE DEF Ref
      <4> QED BY <3>1, <3>2, <3>3, <3>4, <3>5, RowAdded
    <3>7. of[o].nref = Cardinality(Numbers(o))
      BY <2>2 DEF RefsExact
    <3> HIDE DEF Ref
    <3> QED BY <1>5, <2>1, <2>2, <3>3, <3>5, <3>6, <3>7
  <2>3. CASE ~of[o].used
    <3>1. Numbers(o) = {} /\ Ref(o) = {}
      BY <2>3 DEF RefsExact
    <3> QED BY <1>5, <2>1, <2>3, <3>1 DEF Row
  <2> QED BY <2>2, <2>3
<1>7. ASSUME NEW i \in Pipes, NEW w \in BOOLEAN
      PROVE  Cardinality(EndSlots(i, w)') = Cardinality(EndSlots(i, w)) + Cardinality(End(i, w))
  <2> HIDE DEF Ref
  <2>1. EndSlots(i, w)' = EndSlots(i, w) \cup Row(q, End(i, w))
    <3>1. \A p \in Slot, n \in Fd : tab'[p][n] \in Oi \cup {None}
      BY <1>2 DEF TabT
    <3>2. \A o \in Oi : EndOf(o, i, w)' <=> EndOf(o, i, w)
      BY <1>5 DEF EndOf
    <3>3. ASSUME NEW p \in Slot, NEW n \in Fd
          PROVE  <<p, n>> \in EndSlots(i, w)'
                    <=> tab'[p][n] # None /\ of'[tab'[p][n]].kind = "pipe"
                        /\ of'[tab'[p][n]].obj = i /\ of'[tab'[p][n]].w = w
      BY DEF EndSlots, EndOf
    <3>4. ASSUME NEW p \in Slot, NEW n \in Fd
          PROVE  <<p, n>> \in EndSlots(i, w) <=> tab[p][n] # None /\ EndOf(tab[p][n], i, w)
      BY DEF EndSlots
    <3>5. ASSUME NEW p \in Slot, NEW n \in Fd
          PROVE  <<p, n>> \in EndSlots(i, w)' <=> <<p, n>> \in EndSlots(i, w) \cup Row(q, End(i, w))
      <4>1. CASE p = q /\ n \in ns
        <5>1. tab'[p][n] = got[n] /\ got[n] \in Oi /\ got[n] # None /\ tab[p][n] = None
          BY <1>2, <4>1, Constants
        <5>2. <<p, n>> \in EndSlots(i, w)' <=> EndOf(got[n], i, w)
          <6>1. /\ of'[got[n]].kind = of[got[n]].kind /\ of'[got[n]].obj = of[got[n]].obj
                /\ of'[got[n]].w = of[got[n]].w
            BY <1>5, <5>1
          <6>2. <<p, n>> \in EndSlots(i, w)'
                    <=> tab'[p][n] # None /\ of'[tab'[p][n]].kind = "pipe"
                        /\ of'[tab'[p][n]].obj = i /\ of'[tab'[p][n]].w = w
            BY <3>3
          <6> QED BY <5>1, <6>1, <6>2 DEF EndOf
        <5>3. <<p, n>> \notin EndSlots(i, w)
          BY <3>4, <5>1
        <5>4. <<p, n>> \in Row(q, End(i, w)) <=> EndOf(got[n], i, w)
          BY <4>1 DEF Row
        <5> QED BY <5>2, <5>3, <5>4
      <4>2. CASE ~(p = q /\ n \in ns)
        <5>1. tab'[p][n] = tab[p][n]
          BY <1>2, <4>2
        <5>2. <<p, n>> \in EndSlots(i, w)' <=> <<p, n>> \in EndSlots(i, w)
          <6>1. tab[p][n] = None \/ (/\ of'[tab[p][n]].kind = of[tab[p][n]].kind
                                     /\ of'[tab[p][n]].obj = of[tab[p][n]].obj
                                     /\ of'[tab[p][n]].w = of[tab[p][n]].w)
            BY <1>5, <3>1, <5>1
          <6>2. <<p, n>> \in EndSlots(i, w)'
                    <=> tab'[p][n] # None /\ of'[tab'[p][n]].kind = "pipe"
                        /\ of'[tab'[p][n]].obj = i /\ of'[tab'[p][n]].w = w
            BY <3>3
          <6>3. <<p, n>> \in EndSlots(i, w) <=> tab[p][n] # None /\ EndOf(tab[p][n], i, w)
            BY <3>4
          <6> QED BY <5>1, <6>1, <6>2, <6>3 DEF EndOf
        <5>3. <<p, n>> \notin Row(q, End(i, w))
          BY <4>2 DEF Row
        <5> QED BY <5>2, <5>3
      <4> QED BY <4>1, <4>2
    <3>6. EndSlots(i, w)' \subseteq Slot \X Fd /\ EndSlots(i, w) \cup Row(q, End(i, w)) \subseteq Slot \X Fd
      BY DEF EndSlots, Row
    <3> HIDE DEF End
    <3> QED BY <3>5, <3>6
  <2>2. EndSlots(i, w) \cap Row(q, End(i, w)) = {}
    BY DEF EndSlots, Row
  <2>3. PICK A, ms : A = EndSlots(i, w) /\ ms = End(i, w)
    OBVIOUS
  <2>4. A \in SUBSET (Slot \X Fd) /\ ms \in SUBSET Fd
    BY <2>3 DEF EndSlots
  <2>5. Cardinality(A \cup Row(q, ms)) = Cardinality(A) + Cardinality(ms)
    <3> HIDE DEF End
    <3> QED BY <2>2, <2>3, <2>4, RowAdded
  <2> HIDE DEF End
  <2> QED BY <2>1, <2>3, <2>5
<1>8. /\ \A i \in Pipes : /\ pipe'[i].used = pipe[i].used
                          /\ pipe'[i].r = pipe[i].r + Cardinality(End(i, FALSE))
                          /\ pipe'[i].w = pipe[i].w + Cardinality(End(i, TRUE))
      /\ PipeT'
  <2> HIDE DEF End
  <2>1. ASSUME NEW i \in Pipes
        PROVE  /\ pipe'[i].used = pipe[i].used
               /\ pipe'[i].r = pipe[i].r + Cardinality(End(i, FALSE))
               /\ pipe'[i].w = pipe[i].w + Cardinality(End(i, TRUE))
               /\ pipe'[i] \in [used : BOOLEAN, r : Nat, w : Nat, has : BOOLEAN]
    <3>1. PICK a, b : a = Cardinality(End(i, FALSE)) /\ b = Cardinality(End(i, TRUE))
      OBVIOUS
    <3>2. pipe'[i] = [pipe[i] EXCEPT !.r = @ + a, !.w = @ + b] /\ a \in Nat /\ b \in Nat
      BY <1>1, <1>3, <3>1 DEF PipeGains
    <3>3. pipe[i] \in [used : BOOLEAN, r : Nat, w : Nat, has : BOOLEAN]
      BY DEF PipeT
    <3>4. /\ pipe'[i].used = pipe[i].used /\ pipe'[i].r = pipe[i].r + a /\ pipe'[i].w = pipe[i].w + b
      BY <3>2, <3>3
    <3>5. pipe[i].r + a \in Nat /\ pipe[i].w + b \in Nat
      BY <3>2, <3>3
    <3>6. pipe'[i] \in [used : BOOLEAN, r : Nat, w : Nat, has : BOOLEAN]
      BY <3>2, <3>3, <3>5
    <3> QED BY <3>1, <3>4, <3>6
  <2>2. pipe' = [i \in Pipes |-> pipe'[i]]
    BY <1>1
  <2> QED BY <2>1, <2>2 DEF PipeT
<1>9. \A i \in Pipes : (\A o \in Oi : ~(of[o].used /\ of[o].kind = "pipe" /\ of[o].obj = i))
         => Cardinality(End(i, FALSE)) = 0 /\ Cardinality(End(i, TRUE)) = 0
  <2> SUFFICES ASSUME NEW i \in Pipes, \A o \in Oi : ~(of[o].used /\ of[o].kind = "pipe" /\ of[o].obj = i)
               PROVE  Cardinality(End(i, FALSE)) = 0 /\ Cardinality(End(i, TRUE)) = 0
    OBVIOUS
  <2>1. End(i, FALSE) = {} /\ End(i, TRUE) = {}
    BY DEF EndOf
  <2> HIDE DEF End
  <2> QED BY <2>1, FS_EmptySet
<1>10. hint' \in [Slot -> 0 .. FdMax]
  <2> DEFINE S == {from} \cup {n + 1 : n \in ns}
  <2>1. S \subseteq 0 .. FdMax /\ S # {}
    BY Constants DEF Fd
  <2> HIDE DEF S
  <2>2. Max(S) \in 0 .. FdMax
    BY <2>1, Constants, GreatestOf
  <2> QED BY <1>1, <2>2 DEF SizeT, S
<1>11. Gains(q, ns, got)
  <2>1. \A o \in Oi : of'[o].nref >= of[o].nref
    <3> HIDE DEF Ref
    <3> QED BY <1>3, <1>5 DEF OfT, OfRec
  <2>2. ASSUME NEW i \in Pipes
        PROVE  /\ pipe'[i].used = pipe[i].used
               /\ pipe'[i].r >= pipe[i].r /\ pipe'[i].w >= pipe[i].w
               /\ pipe[i].r = Cardinality(EndSlots(i, FALSE)) => pipe'[i].r = Cardinality(EndSlots(i, FALSE)')
               /\ pipe[i].w = Cardinality(EndSlots(i, TRUE)) => pipe'[i].w = Cardinality(EndSlots(i, TRUE)')
               /\ (\A o \in Oi : ~(of[o].used /\ of[o].kind = "pipe" /\ of[o].obj = i))
                     => pipe'[i].r = pipe[i].r /\ pipe'[i].w = pipe[i].w
    <3> HIDE DEF End
    <3>1. pipe[i].r \in Nat /\ pipe[i].w \in Nat
      BY DEF PipeT
    <3>2. PICK a, b : a = Cardinality(End(i, FALSE)) /\ b = Cardinality(End(i, TRUE))
      OBVIOUS
    <3>3. a \in Nat /\ b \in Nat
      BY <1>3, <3>2
    <3>4. /\ pipe'[i].used = pipe[i].used /\ pipe'[i].r = pipe[i].r + a /\ pipe'[i].w = pipe[i].w + b
      BY <1>8, <3>2
    <3>5. /\ Cardinality(EndSlots(i, FALSE)') = Cardinality(EndSlots(i, FALSE)) + a
          /\ Cardinality(EndSlots(i, TRUE)') = Cardinality(EndSlots(i, TRUE)) + b
      BY <1>7, <3>2
    <3>6. (\A o \in Oi : ~(of[o].used /\ of[o].kind = "pipe" /\ of[o].obj = i)) => a = 0 /\ b = 0
      BY <1>9, <3>2
    <3>7. pipe'[i].r >= pipe[i].r /\ pipe'[i].w >= pipe[i].w
      BY <3>1, <3>3, <3>4
    <3>8. pipe[i].r = Cardinality(EndSlots(i, FALSE)) => pipe'[i].r = Cardinality(EndSlots(i, FALSE)')
      BY <3>4, <3>5
    <3>9. pipe[i].w = Cardinality(EndSlots(i, TRUE)) => pipe'[i].w = Cardinality(EndSlots(i, TRUE)')
      BY <3>4, <3>5
    <3>10. (\A o \in Oi : ~(of[o].used /\ of[o].kind = "pipe" /\ of[o].obj = i))
               => pipe'[i].r = pipe[i].r /\ pipe'[i].w = pipe[i].w
      BY <3>1, <3>4, <3>6
    <3> QED BY <3>4, <3>7, <3>8, <3>9, <3>10
  <2> HIDE DEF Ref, End
  <2> QED BY <1>2, <1>5, <2>1, <2>2 DEF Gains
<1> HIDE DEF Ref, End
<1> QED BY <1>1, <1>2, <1>5, <1>6, <1>8, <1>10, <1>11

\* What the call of s holds once its numbers are there.
Reaches(s, f, ns, got) ==
    /\ Go(s, f) /\ OpOk(f) /\ ~HoldingOp(f) /\ NoFile(s, f) /\ f.k # "redirect"
    /\ PipingOp(f) <=> Piping(s)
    /\ PipingOp(f) => f.obj = op[s].obj
    /\ Holding(s) => \E n \in ns : got[n] = op[s].oi
    /\ \A t \in Slot \ {s} : Holding(t) => \A n \in ns : got[n] # op[t].oi
    /\ \A t \in Slot \ {s} : Piping(t) => \A x \in InHands(op[t]) : \A n \in ns : got[n] # tab[Of(t)][x]
    /\ PipingOp(f) => \A x \in InHands(f) : Half(Of(s), x)'
    /\ PipingOp(f) => \A t \in Slot \ {s} : Piping(t) /\ Of(t) = Of(s)
                                            => InHands(f) \cap InHands(op[t]) = {}
    /\ \A u \in Oi : MakesEnd(s, u) => \E x \in InHands(f) : tab'[Of(s)][x] = u
    /\ f.k = "give" => of'[f.oi].used /\ tab'[Of(s)][f.n] = f.oi

LEMMA GainsStep ==
    ASSUME Orderly, FInv, NEW s \in Slot, NEW f, NEW q, NEW ns, NEW got,
           Gains(q, ns, got), Reaches(s, f, ns, got),
           UNCHANGED <<setting, redir, name, ep, evfd, mail>>,
           TabT', OfT', PipeT', RefsExact', SizedT', SizeT', LifeT', Lives'
    PROVE  FInv'
<1>1. /\ q \in Slot /\ ns \subseteq Fd
      /\ \A n \in ns : tab[q][n] = None /\ got[n] \in Oi /\ of[got[n]].used
      /\ \A p \in Slot \ {q} : tab'[p] = tab[p]
      /\ \A n \in Fd : tab'[q][n] = IF n \in ns THEN got[n] ELSE tab[q][n]
      /\ \A o \in Oi : /\ of'[o].used = of[o].used /\ of'[o].kind = of[o].kind
                       /\ of'[o].obj = of[o].obj /\ of'[o].w = of[o].w
                       /\ of'[o].nref >= of[o].nref
                       /\ (\A n \in ns : got[n] # o) => of'[o] = of[o]
  BY DEF Gains
<1>2. \A i \in Pipes :
          /\ pipe'[i].used = pipe[i].used
          /\ pipe'[i].r >= pipe[i].r /\ pipe'[i].w >= pipe[i].w
          /\ pipe[i].r = Cardinality(EndSlots(i, FALSE)) => pipe'[i].r = Cardinality(EndSlots(i, FALSE)')
          /\ pipe[i].w = Cardinality(EndSlots(i, TRUE)) => pipe'[i].w = Cardinality(EndSlots(i, TRUE)')
          /\ (\A o \in Oi : ~(of[o].used /\ of[o].kind = "pipe" /\ of[o].obj = i))
                => pipe'[i].r = pipe[i].r /\ pipe'[i].w = pipe[i].w
  BY DEF Gains
<1>3. /\ Go(s, f) /\ OpOk(f) /\ ~HoldingOp(f) /\ NoFile(s, f) /\ f.k # "redirect"
      /\ PipingOp(f) <=> Piping(s)
      /\ PipingOp(f) => f.obj = op[s].obj
      /\ Holding(s) => \E n \in ns : got[n] = op[s].oi
      /\ \A t \in Slot \ {s} : Holding(t) => \A n \in ns : got[n] # op[t].oi
      /\ \A t \in Slot \ {s} : Piping(t) => \A x \in InHands(op[t]) : \A n \in ns : got[n] # tab[Of(t)][x]
  BY DEF Reaches
<1>4. /\ PipingOp(f) => \A x \in InHands(f) : Half(Of(s), x)'
      /\ PipingOp(f) => \A t \in Slot \ {s} : Piping(t) /\ Of(t) = Of(s)
                                              => InHands(f) \cap InHands(op[t]) = {}
      /\ \A u \in Oi : MakesEnd(s, u) => \E x \in InHands(f) : tab'[Of(s)][x] = u
      /\ f.k = "give" => of'[f.oi].used /\ tab'[Of(s)][f.n] = f.oi
  BY DEF Reaches
<1>5. /\ Types /\ OpsOk /\ ClaimsOk /\ ClaimsApart /\ MakingOk /\ MakersApart /\ HalvesOk /\ HalvesApart
      /\ RefsExact /\ PipeEndsExact /\ Kept /\ EndsOk /\ PipesOk /\ InstancesOk
      /\ HandOk /\ TransferHeld /\ Unwatching /\ WatchOk /\ RedirOk /\ UnlinksOk
  BY DEF FInv, Calls1, Tables, Sides
<1>6. TabT /\ NameT /\ RedirT /\ MailT /\ EpT /\ EvT /\ PipeT /\ OfT
  BY <1>5 DEF Types
<1>7. op'[s] = f /\ \A t \in Slot \ {s} : op'[t] = op[t]
  BY <1>3, <1>5, GoFacts
<1>8. OpsOk'
  BY <1>3, <1>5, GoOk
<1>9. \A t \in Slot : Of(t)' = Of(t) /\ Of(t) \in Slot
  BY <1>6, Chosen DEF Of, NameT
<1>10. \A p \in Slot, n \in Fd : tab[p][n] # None => tab'[p][n] = tab[p][n] /\ tab[p][n] \in Oi
  BY <1>1, <1>6 DEF TabT
<1>11. /\ \A t \in Slot : /\ PipingOp(op'[t]) <=> Piping(t)
                          /\ Piping(t) => op'[t].obj = op[t].obj /\ op[t].obj \in Pipes
       /\ \A t \in Slot : /\ HoldingOp(op'[t]) <=> Holding(t) /\ t # s
                          /\ Holding(t) => op[t].oi \in Oi
  <2>1. \A t \in Slot : Holding(t) => op[t].oi \in Oi
    BY <1>5 DEF Holding, HoldingOp, OpsOk, OpOk, Shape
  <2>2. \A t \in Slot : Piping(t) => op[t].obj \in Pipes
    BY <1>5 DEF OpsOk, OpOk, Shape, Piping, PipingOp
  <2> QED BY <1>3, <1>7, <2>1, <2>2 DEF Piping, Holding
<1>12. \A i : BeingMade(i)' <=> BeingMade(i)
  BY <1>11, Makers, MakersNext
<1>13. ClaimsOk' /\ ClaimsApart'
  <2>1. ASSUME NEW t \in Slot, HoldingOp(op'[t]) PROVE of'[op'[t].oi] = Claimed1(op'[t])
    <3>1. Holding(t) /\ t # s /\ op'[t] = op[t] /\ op[t].oi \in Oi
      BY <1>7, <1>11, <2>1
    <3>2. of'[op[t].oi] = of[op[t].oi]
      BY <1>1, <1>3, <3>1
    <3> QED BY <1>5, <3>1, <3>2 DEF ClaimsOk
  <2>2. ClaimsOk'
    BY <2>1 DEF ClaimsOk, Holding, Claimed1
  <2>3. ClaimsApart'
    BY <1>5, <1>7, <1>11 DEF ClaimsApart, Holding
  <2> QED BY <2>2, <2>3
<1>14. MakingOk'
  <2> SUFFICES ASSUME NEW t \in Slot, PipingOp(op'[t])
               PROVE  /\ pipe'[op'[t].obj].used /\ pipe'[op'[t].obj].r = 0 /\ pipe'[op'[t].obj].w = 0
                      /\ \A u \in Oi : ~(of'[u].used /\ of'[u].kind = "pipe" /\ of'[u].obj = op'[t].obj)
    BY DEF MakingOk, Piping
  <2>1. Piping(t) /\ op'[t].obj = op[t].obj /\ op[t].obj \in Pipes
    BY <1>11
  <2>2. PICK i \in Pipes : i = op[t].obj
    BY <2>1
  <2>3. /\ pipe[i].used /\ pipe[i].r = 0 /\ pipe[i].w = 0
        /\ \A u \in Oi : ~(of[u].used /\ of[u].kind = "pipe" /\ of[u].obj = i)
    BY <1>5, <2>1, <2>2 DEF MakingOk
  <2>4. pipe'[i].used /\ pipe'[i].r = 0 /\ pipe'[i].w = 0
    BY <1>2, <2>3
  <2>5. \A u \in Oi : ~(of'[u].used /\ of'[u].kind = "pipe" /\ of'[u].obj = i)
    BY <1>1, <2>3
  <2> QED BY <2>1, <2>2, <2>4, <2>5
<1>15. MakersApart'
  BY <1>5, <1>11 DEF MakersApart, Piping
<1>16. HalvesOk'
  <2> SUFFICES ASSUME NEW t \in Slot, PipingOp(op'[t]), NEW x \in InHands(op'[t]) PROVE Half(Of(t), x)'
    BY <1>9 DEF HalvesOk, Piping, Half
  <2>1. CASE t = s
    BY <1>4, <1>7, <2>1
  <2>2. CASE t # s
    <3>1. Piping(t) /\ op'[t] = op[t]
      BY <1>7, <1>11, <2>2
    <3>2. PICK p \in Slot : p = Of(t)
      BY <1>9
    <3>3. Half(p, x) /\ x \in Fd
      BY <1>5, <3>1, <3>2 DEF HalvesOk, OpsOk, OpOk, OpRec, InHands
    <3>4. tab'[p][x] = tab[p][x] /\ tab[p][x] \in Oi /\ tab[p][x] # None
      BY <1>10, <3>3 DEF Half
    <3>5. of'[tab[p][x]] = of[tab[p][x]]
      BY <1>1, <1>3, <2>2, <3>1, <3>2, <3>4
    <3>6. tab'[p][x] # None /\ of'[tab'[p][x]] = HalfEnd
      BY <3>3, <3>4, <3>5 DEF Half
    <3> QED BY <1>9, <3>2, <3>6 DEF Half
  <2> QED BY <2>1, <2>2
<1>17. HalvesApart'
  <2> SUFFICES ASSUME NEW t \in Slot, NEW u \in Slot, PipingOp(op'[t]), PipingOp(op'[u]),
                      Of(t) = Of(u), t # u
               PROVE  InHands(op'[t]) \cap InHands(op'[u]) = {}
    BY <1>9 DEF HalvesApart, Piping
  <2>1. Piping(t) /\ Piping(u)
    BY <1>11
  <2>2. CASE t = s
    BY <1>4, <1>7, <2>1, <2>2
  <2>3. CASE u = s
    BY <1>4, <1>7, <2>1, <2>3
  <2>4. CASE t # s /\ u # s
    BY <1>5, <1>7, <2>1, <2>4 DEF HalvesApart
  <2> QED BY <2>2, <2>3, <2>4
<1>18. PipeEndsExact'
  BY <1>2, <1>5, <1>12 DEF PipeEndsExact
<1>19. Kept'
  <2> SUFFICES ASSUME NEW u \in Oi, of'[u].used
               PROVE  of'[u].nref > 0 \/ \E t \in Slot : HoldingOp(op'[t]) /\ op'[t].oi = u
    BY DEF Kept, Holding
  <2>1. of[u].used /\ of'[u].nref >= of[u].nref /\ of[u].nref \in Nat /\ of'[u].nref \in Nat
    BY <1>1, <1>6 DEF OfT, OfRec
  <2>2. CASE of[u].nref > 0
    BY <2>1, <2>2
  <2>3. CASE ~(of[u].nref > 0)
    <3>1. PICK t \in Slot : Holding(t) /\ op[t].oi = u
      BY <1>5, <2>1, <2>3 DEF Kept
    <3>2. CASE t # s
      BY <1>7, <1>11, <3>1, <3>2
    <3>3. CASE t = s
      <4>1. PICK n \in ns : got[n] = u
        BY <1>3, <3>1, <3>3
      <4>2. tab'[q][n] = u /\ n \in Fd /\ u # None
        BY <1>1, <4>1, Constants
      <4>3. <<q, n>> \in Numbers(u)'
        BY <1>1, <4>2 DEF Numbers
      <4>4. of'[u].nref = Cardinality(Numbers(u)')
        BY <2>1, <1>1 DEF RefsExact
      <4>5. IsFiniteSet(Numbers(u)')
        <5>1. Numbers(u)' \subseteq Slot \X Fd
          BY DEF Numbers
        <5> QED BY <5>1, Finite
      <4>6. Cardinality(Numbers(u)') # 0
        BY <4>3, <4>5, ZeroCount
      <4> QED BY <2>1, <4>4, <4>6
    <3> QED BY <3>2, <3>3
  <2> QED BY <2>2, <2>3
<1>20. EndsOk'
  <2> SUFFICES ASSUME NEW u \in Oi, of'[u].used, of'[u].kind = "pipe"
               PROVE  IF of'[u].obj = None THEN \E t \in Slot : MakesEnd(t, u)'
                      ELSE of'[u].obj \in Pipes /\ pipe'[of'[u].obj].used
    BY DEF EndsOk
  <2>1. of[u].used /\ of[u].kind = "pipe" /\ of'[u].obj = of[u].obj
    BY <1>1
  <2>2. CASE of[u].obj = None
    <3>1. PICK t \in Slot : MakesEnd(t, u)
      BY <1>5, <2>1, <2>2 DEF EndsOk
    <3>2. Piping(t)
      BY <3>1 DEF MakesEnd
    <3>3. CASE t = s
      <4>1. PICK x \in InHands(f) : tab'[Of(s)][x] = u
        BY <1>4, <3>1, <3>3
      <4>2. MakesEnd(s, u)'
        BY <1>7, <1>9, <1>11, <3>2, <3>3, <4>1 DEF MakesEnd, Piping
      <4> QED BY <2>1, <2>2, <4>2
    <3>4. CASE t # s
      <4>1. op'[t] = op[t] /\ PipingOp(op'[t])
        BY <1>7, <1>11, <3>2, <3>4
      <4>2. CASE Holding(t) /\ op[t].oi = u
        <5>1. MakesEnd(t, u)'
          BY <1>11, <3>4, <4>1, <4>2 DEF MakesEnd, Piping, Holding
        <5> QED BY <2>1, <2>2, <5>1
      <4>3. CASE \E x \in InHands(op[t]) : tab[Of(t)][x] = u
        <5>1. PICK x \in InHands(op[t]) : tab[Of(t)][x] = u
          BY <4>3
        <5>2. x \in Fd
          BY <1>5 DEF OpsOk, OpOk, OpRec, InHands
        <5>3. tab'[Of(t)][x] = u
          BY <1>9, <1>10, <5>1, <5>2, Constants
        <5>4. MakesEnd(t, u)'
          BY <1>9, <4>1, <5>1, <5>3 DEF MakesEnd, Piping
        <5> QED BY <2>1, <2>2, <5>4
      <4> QED BY <3>1, <4>2, <4>3 DEF MakesEnd
    <3> QED BY <3>3, <3>4
  <2>3. CASE of[u].obj # None
    BY <1>2, <1>5, <2>1, <2>3 DEF EndsOk
  <2> QED BY <2>2, <2>3
<1>21. PipesOk'
  <2> SUFFICES ASSUME NEW i \in Pipes, pipe'[i].used, ~BeingMade(i)' PROVE pipe'[i].r + pipe'[i].w > 0
    BY DEF PipesOk
  <2>1. pipe[i].r + pipe[i].w > 0
    BY <1>2, <1>5, <1>12 DEF PipesOk
  <2>2. pipe[i].r \in Nat /\ pipe[i].w \in Nat /\ pipe'[i].r \in Nat /\ pipe'[i].w \in Nat
    BY <1>6 DEF PipeT
  <2>3. pipe'[i].r >= pipe[i].r /\ pipe'[i].w >= pipe[i].w
    BY <1>2
  <2> QED BY <2>1, <2>2, <2>3
<1>22. InstancesOk'
  <2>1. \A u \in Oi : of'[u].used /\ of'[u].kind = "epoll" => of'[u].obj \in Eps /\ ep'[of'[u].obj].used
    BY <1>1, <1>5 DEF InstancesOk
  <2>2. \A u \in Oi : of'[u].used /\ of'[u].kind = "evfd" => of'[u].obj \in Evs /\ evfd'[of'[u].obj].used
    BY <1>1, <1>5 DEF InstancesOk
  <2>3. \A e \in Eps : ep'[e].used =>
            \E u \in Oi : of'[u].used /\ of'[u].kind = "epoll" /\ of'[u].obj = e
    BY <1>1, <1>5 DEF InstancesOk
  <2>4. \A v \in Evs : evfd'[v].used =>
            \E u \in Oi : of'[u].used /\ of'[u].kind = "evfd" /\ of'[u].obj = v
    BY <1>1, <1>5 DEF InstancesOk
  <2>5. \A u, w \in Oi : Twins(u, w)' => Twins(u, w)
    BY <1>1 DEF Twins
  <2>6. \A u, w \in Oi : Twins(u, w)' => u = w
    BY <1>5, <2>5 DEF InstancesOk
  <2> QED BY <2>1, <2>2, <2>3, <2>4, <2>6 DEF InstancesOk
<1>23. NameT' /\ RedirT' /\ MailT' /\ EpT' /\ EvT'
  BY <1>6 DEF NameT, RedirT, MailT, EpT, EvT
<1>24. HandOk' /\ TransferHeld'
  <2>1. \A t \in Slot \ {s} : op[t].k \in {"give", "redirect"} => op[t].n \in Fd
    BY <1>5, Constants DEF OpsOk, OpOk, OpRec, Shape
  <2>2. ASSUME NEW t \in Slot, op'[t].k = "redirect" PROVE tab'[Of(t)][op'[t].n] # None
    <3>1. t # s /\ op'[t] = op[t]
      BY <1>3, <1>7, <2>2
    <3>2. tab[Of(t)][op[t].n] # None /\ op[t].n \in Fd
      BY <1>5, <2>1, <2>2, <3>1 DEF HandOk
    <3> QED BY <1>9, <1>10, <3>1, <3>2
  <2>3. ASSUME NEW t \in Slot, op'[t].k = "give", op'[t].pc \in {"install", "full", "grow", "drop"}
        PROVE  of'[op'[t].oi].used /\ tab'[Of(t)][op'[t].n] = op'[t].oi
    <3>1. CASE t = s
      BY <1>4, <1>7, <2>3, <3>1
    <3>2. CASE t # s
      <4>1. op'[t] = op[t] /\ op[t].n \in Fd
        BY <1>7, <2>1, <2>3, <3>2
      <4>2. of[op[t].oi].used /\ tab[Of(t)][op[t].n] = op[t].oi
        BY <1>5, <2>3, <4>1 DEF TransferHeld
      <4>3. op[t].oi \in Oi
        BY <1>5, <2>3, <4>1 DEF OpsOk, OpOk, Shape, Filling
      <4>4. tab'[Of(t)][op[t].n] = op[t].oi
        BY <1>9, <1>10, <4>1, <4>2, <4>3, Constants
      <4>5. of'[op[t].oi].used
        BY <1>1, <4>2, <4>3
      <4> QED BY <4>1, <4>4, <4>5
    <3> QED BY <3>1, <3>2
  <2> QED BY <1>9, <2>2, <2>3 DEF HandOk, TransferHeld
<1>25. Unwatching'
  <2>1. Watchful(op[s], f)
    BY <1>3 DEF Watchful
  <2> QED BY <1>3, <1>5, <2>1, UnwatchingStays
<1>26. WatchOk'
  <2> SUFFICES ASSUME NEW e \in Eps, NEW x \in ep'[e].watch
               PROVE  ep'[e].used /\ of'[x.oi].used /\ of'[x.oi].nref > 0
    BY DEF WatchOk
  <2>1. x \in ep[e].watch /\ x.oi \in Oi
    BY <1>6 DEF EpT
  <2>2. ep[e].used /\ of[x.oi].used /\ of[x.oi].nref > 0
    BY <1>5, <2>1 DEF WatchOk
  <2>3. of[x.oi].nref \in Nat /\ of'[x.oi].nref \in Nat
    BY <1>6, <2>1 DEF OfT, OfRec
  <2> QED BY <1>1, <2>1, <2>2, <2>3
<1>27. RedirOk'
  <2> SUFFICES ASSUME NEW p \in Slot, redir[p] # None PROVE tab'[p][redir[p]] # None
    BY DEF RedirOk
  <2>1. redir[p] \in Fd /\ tab[p][redir[p]] # None
    BY <1>5, <1>6 DEF RedirT, RedirOk
  <2> QED BY <1>10, <2>1
<1>28. UnlinksOk'
  BY <1>1, <1>3, <1>5, UnlinksStay
<1>29. Calls1'
  BY <1>8, <1>13, <1>14, <1>15, <1>16, <1>17 DEF Calls1
<1>30. Tables'
  BY <1>18, <1>19, <1>20, <1>21, <1>22 DEF Tables
<1>31. Sides'
  BY <1>24, <1>25, <1>26, <1>27, <1>28 DEF Sides
<1>32. Types'
  BY <1>23 DEF Types
<1> QED BY <1>29, <1>30, <1>31, <1>32 DEF FInv

\* The free number an install takes.
LEMMA FreeNumberIs ==
    ASSUME SizeT, NEW p \in Slot, FreeNumbers(p) # {}
    PROVE  FreeNumber(p) \in Fd /\ tab[p][FreeNumber(p)] = None /\ FreeNumber(p) < size[p]
<1>1. FreeNumbers(p) \subseteq Nat
  BY Constants DEF FreeNumbers
<1>2. Min(FreeNumbers(p)) \in FreeNumbers(p)
  BY <1>1, LeastOf
<1>3. PICK up : up = {n \in FreeNumbers(p) : n >= hint[p]}
  OBVIOUS
<1>4. up # {} => Min(up) \in up
  <2>1. up \subseteq Nat
    BY <1>1, <1>3
  <2> QED BY <2>1, LeastOf
<1>5. FreeNumber(p) = IF up # {} THEN Min(up) ELSE Min(FreeNumbers(p))
  BY <1>3 DEF FreeNumber
<1>6. FreeNumber(p) \in FreeNumbers(p)
  BY <1>2, <1>3, <1>4, <1>5
<1> QED BY <1>6 DEF FreeNumbers

\* What an install that found a number leaves the call with.
LEMMA InstalledIs ==
    ASSUME FInv, NEW s \in Slot, op[s].pc = "install", NEW n \in Fd, op[s].k = "write" => op[s].n # n,
           NEW f, f = Installed(s, n)
    PROVE  /\ OpOk(f) /\ ~HoldingOp(f) /\ NoFile(s, f) /\ f.k # "redirect" /\ f.pc # "heir"
           /\ f.pc # "reject" /\ f.pc # "orphan"
           /\ (PipingOp(f) <=> Piping(s)) /\ (Piping(s) <=> op[s].k \in Ends)
           /\ Piping(s) => f.obj = op[s].obj /\ InHands(f) = InHands(op[s]) \cup {n}
           /\ f.k = "give" <=> op[s].k = "give"
           /\ f.k = "give" => f.oi = op[s].oi /\ f.n = op[s].n /\ f.to = op[s].to
           /\ f.k # "give" => f.to = None
<1>1. OpOk(op[s])
  BY DEF FInv, Calls1, OpsOk
<1>2. /\ op[s] \in OpRec(Objects) /\ op[s].k \in Makes \cup {"give"} /\ op[s].oi \in Oi
      /\ (op[s].to # None <=> op[s].k = "give")
      /\ (op[s].n # None <=> op[s].k \in {"give", "write"}) /\ op[s].m = None
      /\ (op[s].k \in Ends => op[s].obj \in Pipes)
  BY <1>1 DEF OpOk, Shape, Filling, Makes, Ends
<1>3. n # None
  BY Constants
<1>4. CASE op[s].k = "read"
  <2>1. f = [op[s] EXCEPT !.pc = "new", !.k = "write", !.n = n, !.oi = None]
    BY <1>4 DEF Installed
  <2>2. /\ f.pc = "new" /\ f.k = "write" /\ f.n = n /\ f.m = None /\ f.oi = None
        /\ f.obj = op[s].obj /\ f.to = None /\ f \in OpRec(Objects)
    BY <1>2, <1>4, <2>1 DEF OpRec, Makes, Ends
  <2>3. OpOk(f)
    BY <1>2, <1>3, <1>4, <2>2 DEF OpOk, Shape, Filling, Ends
  <2>4. InHands(op[s]) = {} /\ InHands(f) = {n}
    BY <1>2, <1>3, <1>4, <2>2 DEF InHands
  <2> QED BY <1>4, <2>2, <2>3, <2>4 DEF HoldingOp, NoFile, PipingOp, Piping, Filling, Ends
<1>5. CASE op[s].k = "write"
  <2>1. f = [op[s] EXCEPT !.pc = "mark", !.m = n, !.oi = None]
    BY <1>5 DEF Installed
  <2>2. /\ f.pc = "mark" /\ f.k = "write" /\ f.n = op[s].n /\ f.m = n /\ f.oi = None
        /\ f.obj = op[s].obj /\ f.to = None /\ f \in OpRec(Objects)
    BY <1>2, <1>5, <2>1 DEF OpRec
  <2>3. OpOk(f)
    BY <1>2, <1>3, <1>5, <2>2 DEF OpOk, Shape, Filling, Ends
  <2>4. InHands(op[s]) = {op[s].n} /\ InHands(f) = {op[s].n, n}
    BY <1>2, <1>3, <1>5, <2>2 DEF InHands
  <2> QED BY <1>5, <2>2, <2>3, <2>4 DEF HoldingOp, NoFile, PipingOp, Piping, Filling, Ends
<1>6. CASE op[s].k = "give"
  <2>1. f = [op[s] EXCEPT !.pc = "drop", !.m = n]
    BY <1>6 DEF Installed
  <2>2. /\ f.pc = "drop" /\ f.k = "give" /\ f.n = op[s].n /\ f.m = n /\ f.oi = op[s].oi
        /\ f.obj = op[s].obj /\ f.to = op[s].to /\ f \in OpRec(Objects)
    BY <1>2, <1>6, <2>1 DEF OpRec
  <2>3. OpOk(f)
    BY <1>2, <1>3, <1>6, <2>2 DEF OpOk, Shape, Filling, Ends
  <2> QED BY <1>6, <2>2, <2>3 DEF HoldingOp, NoFile, PipingOp, Piping, Filling, Ends
<1>7. CASE op[s].k \notin {"read", "write", "give"}
  <2>1. f = User
    BY <1>7 DEF Installed
  <2>2. OpOk(User) /\ NoFile(s, User) /\ ~PipingOp(User) /\ ~HoldingOp(User)
    BY <1>2, <1>7, Rests
  <2> QED BY <1>7, <2>1, <2>2 DEF Piping, PipingOp, Ends, User
<1> QED BY <1>4, <1>5, <1>6, <1>7

LEMMA InstallKeeps ==
    ASSUME Orderly, FInv, NEW s \in Slot, Install(s)
    PROVE  FInv'
<1>1. op[s].pc = "install" /\ UNCHANGED <<setting, redir, size, name, mail, life>>
  BY DEF Install, At
<1>2. /\ Types /\ OpsOk /\ ClaimsOk /\ ClaimsApart /\ HalvesOk /\ TransferHeld /\ RefsExact /\ Lives
      /\ IdleOk /\ GivesOk /\ AloneOk /\ OpOk(op[s])
  BY DEF FInv, Calls1, Tables, Sides, Lives, OpsOk
<1>3. OfT /\ TabT /\ SizedT /\ SizeT /\ PipeT /\ NameT /\ LifeT
  BY <1>2 DEF Types
<1>4. PICK o, t : o = op[s].oi /\ t = Target(s)
  OBVIOUS
<1>5. /\ o \in Oi /\ op[s].k \in Makes \cup {"give"} /\ op[s].to \in Slot \cup {None}
      /\ (op[s].to # None <=> op[s].k = "give") /\ op[s].n \in Fd \cup {None}
      /\ (op[s].k = "give" => op[s].n # None)
  BY <1>1, <1>2, <1>4 DEF OpOk, OpRec, Shape, Filling
<1>6. /\ Of(s) \in Slot /\ t \in Slot /\ life[Of(s)] = "live" /\ life[t] = "live"
      /\ (op[s].k # "give" => t = Of(s))
  BY <1>1, <1>2, <1>3, <1>4, <1>5, Chosen DEF Target, IdleOk, GivesOk, NameT
<1>7. /\ of[o].used
      /\ op[s].k # "give" => Holding(s) /\ of[o] = Claimed1(op[s]) /\ of[o].nref = 0
      /\ op[s].k = "give" => ~Holding(s) /\ tab[Of(s)][op[s].n] = o /\ of[o].nref > 0
  <2>1. CASE op[s].k # "give"
    <3>1. Holding(s) /\ of[o] = Claimed1(op[s])
      BY <1>1, <1>2, <1>4, <2>1 DEF Holding, HoldingOp, Filling, ClaimsOk
    <3> QED BY <2>1, <3>1 DEF Claimed1, Blank
  <2>2. CASE op[s].k = "give"
    <3>1. of[o].used /\ tab[Of(s)][op[s].n] = o /\ op[s].n \in Fd
      BY <1>1, <1>2, <1>4, <1>5, <2>2 DEF TransferHeld
    <3>2. of[o].nref > 0
      BY <1>2, <1>3, <1>5, <1>6, <3>1, NamedUsed, Constants
    <3> QED BY <2>2, <3>1, <3>2 DEF Holding, HoldingOp
  <2> QED BY <2>1, <2>2
<1>8. CASE FreeNumbers(t) = {}
  <2>1. PICK f : f = [op[s] EXCEPT !.pc = "full"]
    OBVIOUS
  <2>2. Go(s, f) /\ UNCHANGED <<of, tab, hint, pipe, ep, evfd>>
    BY <1>4, <1>7, <1>8, <2>1 DEF Install
  <2>3. Resumes(s, f)
    BY <1>1, <2>1, ResumesAt
  <2>4. Resumed(s, f)
    BY <2>3, ResumesOk
  <2>5. UNCHANGED <<setting, table, size, name, mail, life>>
    BY <1>1, <2>2 DEF table
  <2> QED BY <2>2, <2>4, <2>5, OpStep DEF Resumed
<1>9. CASE FreeNumbers(t) # {}
  <2>1. PICK n : n = FreeNumber(t)
    OBVIOUS
  <2>2. n \in Fd /\ tab[t][n] = None /\ n < size[t]
    BY <1>3, <1>6, <1>9, <2>1, FreeNumberIs
  <2>3. PICK f, got, ns : f = Installed(s, n) /\ got = [y \in {n} |-> o] /\ ns = {n}
    OBVIOUS
  <2>4. Installs(t, tab[t], hint[t], got) /\ Go(s, f)
    BY <1>4, <1>7, <1>9, <2>1, <2>3 DEF Install
  <2>5. ns \in SUBSET Fd /\ ns = DOMAIN got /\ \A y \in ns : got[y] = o
    BY <2>2, <2>3
  <2>6. op[s].k = "write" => op[s].n # n
    <3> SUFFICES ASSUME op[s].k = "write" PROVE op[s].n # n
      OBVIOUS
    <3>1. Piping(s) /\ op[s].n # None
      BY <1>1, <1>2 DEF Piping, PipingOp, OpOk, Shape, Filling, Ends
    <3>2. Half(Of(s), op[s].n)
      BY <1>2, <3>1 DEF HalvesOk, InHands
    <3> QED BY <1>6, <2>2, <3>2 DEF Half
  <2>7. /\ Gains(t, ns, got) /\ TabT' /\ OfT' /\ PipeT' /\ RefsExact'
        /\ hint' \in [Slot -> 0 .. FdMax] /\ UNCHANGED <<ep, evfd>>
    <3>1. \A y \in ns : tab[t][y] = None /\ got[y] \in Oi /\ of[got[y]].used
      BY <1>5, <1>7, <2>2, <2>3, <2>5
    <3>2. hint[t] \in 0 .. FdMax
      BY <1>3, <1>6 DEF SizeT
    <3>3. PICK old, from : old = tab[t] /\ from = hint[t]
      OBVIOUS
    <3>4. \A y \in Fd : old[y] = tab[t][y]
      BY <3>3
    <3>5. Installs(t, old, from, got) /\ from \in 0 .. FdMax
      BY <2>4, <3>2, <3>3
    <3> QED BY <1>2, <1>3, <1>6, <2>5, <3>1, <3>4, <3>5, InstallsEffect
  <2>8. /\ \A p \in Slot \ {t} : tab'[p] = tab[p]
        /\ \A y \in Fd : tab'[t][y] = IF y = n THEN o ELSE tab[t][y]
        /\ \A u \in Oi : /\ of'[u].used = of[u].used /\ of'[u].kind = of[u].kind
                         /\ of'[u].obj = of[u].obj /\ of'[u].w = of[u].w
                         /\ (u # o => of'[u] = of[u])
    BY <2>3, <2>5, <2>7 DEF Gains
  <2>9. /\ OpOk(f) /\ ~HoldingOp(f) /\ NoFile(s, f) /\ f.k # "redirect" /\ f.pc # "heir"
        /\ f.pc # "reject" /\ f.pc # "orphan"
        /\ (PipingOp(f) <=> Piping(s)) /\ (Piping(s) <=> op[s].k \in Ends)
        /\ Piping(s) => f.obj = op[s].obj /\ InHands(f) = InHands(op[s]) \cup {n}
        /\ f.k = "give" <=> op[s].k = "give"
        /\ f.k = "give" => f.oi = op[s].oi /\ f.n = op[s].n /\ f.to = op[s].to
        /\ f.k # "give" => f.to = None
    BY <1>1, <2>2, <2>3, <2>6, InstalledIs
  <2>10. \A p \in Slot, y \in Fd : tab[p][y] # None => tab'[p][y] = tab[p][y]
    BY <2>2, <2>8
  <2>11. \A u \in Slot \ {s} : Holding(u) => op[u].oi # o
    <3>1. \A u \in Slot : Holding(u) => of[op[u].oi].nref = 0
      BY <1>2 DEF ClaimsOk, Claimed1, Blank
    <3>2. CASE op[s].k = "give"
      BY <1>7, <3>1, <3>2
    <3>3. CASE op[s].k # "give"
      BY <1>2, <1>4, <1>7, <3>3 DEF ClaimsApart
    <3> QED BY <3>2, <3>3
  <2>12. ASSUME NEW u \in Slot, Piping(u), NEW x \in InHands(op[u])
         PROVE  /\ x \in Fd /\ Of(u) \in Slot /\ Half(Of(u), x) /\ tab[Of(u)][x] \in Oi
                /\ (u # s => tab[Of(u)][x] # o) /\ (Of(u) = t => x # n)
                /\ (op[s].k # "give" => tab[Of(u)][x] # o)
    <3>1. Half(Of(u), x) /\ x \in Fd /\ Of(u) \in Slot
      BY <1>2, <1>3, <2>12, Chosen DEF HalvesOk, OpsOk, OpOk, OpRec, InHands, NameT
    <3>2. PICK q \in Slot : q = Of(u)
      BY <3>1
    <3>3. tab[q][x] \in Oi /\ of[tab[q][x]].nref = 1 /\ of[tab[q][x]].used
      <4>1. Half(q, x) /\ x \in Fd
        BY <3>1, <3>2
      <4>2. tab[q][x] \in Oi /\ of[tab[q][x]] = HalfEnd
        BY <1>3, <4>1 DEF Half, TabT
      <4> QED BY <4>2 DEF HalfEnd, Blank
    <3>4. Of(u) = t => x # n
      BY <2>2, <3>1 DEF Half
    <3>5. op[s].k # "give" => tab[q][x] # o
      BY <1>7, <3>3
    <3>6. ASSUME op[s].k = "give", u # s, tab[q][x] = o PROVE FALSE
      <4>1. PICK p \in Slot, y \in Fd : p = Of(s) /\ y = op[s].n
        BY <1>5, <1>6, <3>6
      <4>2. tab[p][y] = tab[q][x]
        BY <1>7, <3>6, <4>1
      <4>3. q = p
        BY <1>2, <1>3, <3>1, <3>3, <4>2, OneNumber
      <4>4. Alone(setting, s)
        BY <1>2, <3>6 DEF AloneOk
      <4> QED BY <3>2, <3>6, <4>1, <4>3, <4>4 DEF Alone, Of
    <3> QED BY <3>1, <3>2, <3>3, <3>4, <3>5, <3>6
  <2>13. Reaches(s, f, ns, got)
    <3>1. Holding(s) => \E y \in ns : got[y] = op[s].oi
      BY <1>4, <2>3
    <3>2. \A u \in Slot \ {s} : Holding(u) => \A y \in ns : got[y] # op[u].oi
      BY <2>5, <2>11
    <3>3. \A u \in Slot \ {s} : Piping(u) => \A x \in InHands(op[u]) : \A y \in ns : got[y] # tab[Of(u)][x]
      BY <2>5, <2>12
    <3>4. PipingOp(f) => \A x \in InHands(f) : Half(Of(s), x)'
      <4> SUFFICES ASSUME PipingOp(f), NEW x \in InHands(f)
                   PROVE  tab'[t][x] # None /\ of'[tab'[t][x]] = HalfEnd
        BY <1>1, <1>6, <2>9 DEF Half, Of, Ends
      <4>1. op[s].k \in Ends /\ op[s].k # "give" /\ x \in InHands(op[s]) \cup {n}
        BY <2>9 DEF Ends
      <4>2. CASE x = n
        <5>1. tab'[t][x] = o
          BY <2>2, <2>8, <4>2
        <5>2. <<t, n>> \in Numbers(o)' /\ \A p \in Slot, y \in Fd : tab'[p][y] = o => p = t /\ y = n
          <6>1. <<t, n>> \in Numbers(o)'
            BY <1>6, <2>2, <4>2, <5>1 DEF Numbers
          <6>2. ASSUME NEW p \in Slot, NEW y \in Fd, tab[p][y] = o PROVE FALSE
            <7>1. of[o].nref > 0
              BY <1>2, <1>3, <1>5, <6>2, NamedUsed, Constants
            <7> QED BY <1>7, <4>1, <7>1
          <6> QED BY <2>8, <6>1, <6>2
        <5>3. Numbers(o)' = {<<t, n>>}
          <6>1. \A p \in Slot, y \in Fd : <<p, y>> \in Numbers(o)' => <<p, y>> = <<t, n>>
            BY <5>2 DEF Numbers
          <6>2. Numbers(o)' \subseteq Slot \X Fd
            BY DEF Numbers
          <6> QED BY <5>2, <6>1, <6>2
        <5>4. Cardinality(Numbers(o)') = 1
          BY <5>3, FS_Singleton
        <5>5. of'[o].nref = 1
          BY <1>5, <1>7, <2>7, <2>8, <5>4 DEF RefsExact
        <5>6. of[o].used /\ of[o].kind = "pipe" /\ of[o].obj = None /\ of[o].w = FALSE
          BY <1>7, <4>1 DEF Claimed1, Blank
        <5>7. of'[o] \in OfRec
          BY <1>5, <2>7 DEF OfT
        <5>8. of'[o] = HalfEnd
          <6>1. /\ HalfEnd \in OfRec /\ HalfEnd.used /\ HalfEnd.kind = "pipe" /\ HalfEnd.obj = None
                /\ HalfEnd.w = FALSE /\ HalfEnd.nref = 1
            BY DEF HalfEnd, Blank, OfRec, Kinds, Objects
          <6>2. /\ of'[o].used /\ of'[o].kind = "pipe" /\ of'[o].obj = None /\ of'[o].w = FALSE
                /\ of'[o].nref = 1
            BY <1>5, <2>8, <5>5, <5>6
          <6> QED BY <5>7, <6>1, <6>2 DEF OfRec
        <5> QED BY <1>5, <5>1, <5>8, Constants
      <4>3. CASE x \in InHands(op[s])
        <5>1. x \in Fd /\ Half(t, x) /\ tab[t][x] \in Oi /\ tab[t][x] # o
          BY <1>6, <2>9, <2>12, <4>1, <4>3
        <5> QED BY <1>6, <2>8, <2>10, <5>1 DEF Half
      <4> QED BY <4>1, <4>2, <4>3
    <3>5. PipingOp(f) => \A u \in Slot \ {s} : Piping(u) /\ Of(u) = Of(s)
                                              => InHands(f) \cap InHands(op[u]) = {}
      <4> SUFFICES ASSUME PipingOp(f), NEW u \in Slot \ {s}, Piping(u), Of(u) = Of(s)
                   PROVE  InHands(f) \cap InHands(op[u]) = {}
        OBVIOUS
      <4>1. Piping(s) /\ op[s].k # "give" /\ InHands(f) = InHands(op[s]) \cup {n}
        BY <2>9 DEF Ends
      <4>2. InHands(op[s]) \cap InHands(op[u]) = {}
        BY <4>1 DEF FInv, Calls1, HalvesApart
      <4>3. n \notin InHands(op[u])
        BY <1>6, <2>12, <4>1
      <4> QED BY <4>1, <4>2, <4>3
    <3>6. ASSUME NEW u \in Oi, MakesEnd(s, u) PROVE \E x \in InHands(f) : tab'[Of(s)][x] = u
      <4>1. Piping(s) /\ op[s].k # "give" /\ InHands(f) = InHands(op[s]) \cup {n}
        BY <2>9, <3>6 DEF Ends, MakesEnd
      <4>2. CASE Holding(s) /\ op[s].oi = u
        <5>1. tab'[t][n] = u
          BY <1>4, <2>2, <2>8, <4>2
        <5> QED BY <1>6, <4>1, <5>1
      <4>3. CASE \E x \in InHands(op[s]) : tab[Of(s)][x] = u
        <5>1. PICK x \in InHands(op[s]) : tab[Of(s)][x] = u
          BY <4>3
        <5>2. tab'[Of(s)][x] = u
          BY <1>6, <2>10, <2>12, <4>1, <5>1 DEF Half
        <5> QED BY <4>1, <5>1, <5>2
      <4> QED BY <3>6, <4>2, <4>3 DEF MakesEnd
    <3>7. f.k = "give" => of'[f.oi].used /\ tab'[Of(s)][f.n] = f.oi
      <4> SUFFICES ASSUME f.k = "give" PROVE of'[o].used /\ tab'[Of(s)][op[s].n] = o
        BY <1>4, <2>9
      <4>1. op[s].n \in Fd /\ tab[Of(s)][op[s].n] = o /\ o # None
        BY <1>5, <1>7, <2>9, Constants
      <4>2. tab'[Of(s)][op[s].n] = tab[Of(s)][op[s].n]
        BY <1>6, <2>10, <4>1
      <4> QED BY <1>5, <1>7, <2>8, <4>1, <4>2
    <3> QED BY <2>4, <2>9, <3>1, <3>2, <3>3, <3>4, <3>5, <3>6, <3>7 DEF Reaches
  <2>14. SizedT' /\ SizeT' /\ LifeT'
    <3>1. SizeT' /\ LifeT'
      BY <1>1, <1>3, <2>7 DEF SizeT, LifeT
    <3>2. ASSUME NEW p \in Slot, NEW y \in Fd, y >= size[p] PROVE tab'[p][y] = None
      <4>1. tab[p][y] = None
        BY <1>3, <3>2 DEF SizedT
      <4>2. ~(p = t /\ y = n)
        BY <1>3, <2>2, <3>2, Constants DEF SizeT
      <4> QED BY <2>8, <4>1, <4>2
    <3> QED BY <1>1, <3>1, <3>2 DEF SizedT
  <2>15. Lives'
    <3>1. Gentle(s)
      BY <1>1, <1>6, <2>8 DEF Gentle
    <3>2. Moves(s, f)
      BY <1>2, <1>5, <1>6, <2>9 DEF Moves, AloneOk, GivesOk
    <3> QED BY <1>1, <1>2, <1>3, <2>4, <3>1, <3>2, LivesStay
  <2> QED BY <1>1, <2>7, <2>13, <2>14, <2>15, GainsStep
<1> QED BY <1>8, <1>9

\* The child gets what the parent has; it is not live yet, and nobody else's business.
LEMMA ForkKeeps ==
    ASSUME Orderly, FInv, NEW s \in Slot, NEW ch \in Slot, Fork(s, ch)
    PROVE  FInv'
<1>1. PICK p, ns, got, f :
        /\ p = Of(s) /\ ns = {n \in Fd : Named(p, n) # None}
        /\ got = [n \in ns |-> tab[p][n]] /\ f = [User EXCEPT !.pc = "heir", !.to = ch]
  OBVIOUS
<1>2. /\ Calls(s, "fork") /\ life[ch] # "live" /\ setting.leader[ch] = ch
      /\ op[ch].pc = "user" /\ \A t \in Slot : op[t].to # ch
      /\ size' = [size EXCEPT ![ch] = size[p]]
      /\ Go(s, f)
      /\ UNCHANGED <<setting, redir, name, mail, life>>
  BY <1>1 DEF Fork, At
<1>3. Installs(ch, [n \in Fd |-> None], 0, got)
  BY <1>1 DEF Fork
<1>4. /\ Types /\ OpsOk /\ ClaimsOk /\ HalvesOk /\ RefsExact /\ Lives /\ RedirOk
      /\ IdleOk /\ DeadOk /\ LeadOk /\ GivesOk /\ HeirsOk /\ AloneOk
  BY DEF FInv, Calls1, Tables, Sides, Lives
<1>5. OfT /\ TabT /\ SizedT /\ SizeT /\ PipeT /\ NameT /\ LifeT /\ RedirT
  BY <1>4 DEF Types
<1>6. /\ op[s] = User /\ OpOk(User) /\ ~Piping(s) /\ ~Holding(s) /\ life[p] = "live"
      /\ "fork" \in setting.ops[s] /\ p \in Slot /\ p # ch
  BY <1>1, <1>2, <1>5, Starts, Chosen DEF Calls, Piping, Holding, NameT
<1>7. Alone(setting, s)
  BY <1>5, <1>6, Chosen DEF NameT
<1>8. /\ \A n \in Fd : Named(p, n) = tab[p][n]
      /\ ns \in SUBSET Fd /\ ns = DOMAIN got
      /\ \A n \in Fd : n \in ns <=> tab[p][n] # None
      /\ \A n \in ns : got[n] = tab[p][n]
  <2>1. \A n \in Fd : Named(p, n) = tab[p][n]
    BY <1>4, <1>5, <1>6, NamedIs
  <2> QED BY <1>1, <2>1
<1>9. \A n \in ns : got[n] \in Oi /\ of[got[n]].used /\ of[got[n]].nref > 0
  BY <1>4, <1>5, <1>6, <1>8, NamedUsed
<1>10. redir[ch] = None /\ mail[ch] = <<>> /\ \A n \in Fd : tab[ch][n] = None
  BY <1>2, <1>4 DEF DeadOk
<1>11. /\ Gains(ch, ns, got) /\ TabT' /\ OfT' /\ PipeT' /\ RefsExact'
       /\ hint' \in [Slot -> 0 .. FdMax] /\ UNCHANGED <<ep, evfd>>
  <2>1. PICK old, from : old = [n \in Fd |-> None] /\ from = 0
    OBVIOUS
  <2>2. Installs(ch, old, from, got) /\ from \in 0 .. FdMax
    BY <1>3, <2>1, Constants
  <2>3. \A n \in Fd : old[n] = tab[ch][n]
    BY <1>10, <2>1
  <2>4. \A n \in ns : tab[ch][n] = None /\ got[n] \in Oi /\ of[got[n]].used
    BY <1>8, <1>9, <1>10
  <2> QED BY <1>4, <1>5, <1>8, <2>2, <2>3, <2>4, InstallsEffect
<1>12. /\ \A q \in Slot \ {ch} : tab'[q] = tab[q]
       /\ \A n \in Fd : tab'[ch][n] = tab[p][n]
  <2>1. /\ \A q \in Slot \ {ch} : tab'[q] = tab[q]
        /\ \A n \in Fd : tab'[ch][n] = IF n \in ns THEN got[n] ELSE tab[ch][n]
    BY <1>11 DEF Gains
  <2> QED BY <1>8, <1>10, <2>1
<1>13. /\ f.pc = "heir" /\ f.k = "none" /\ f.n = None /\ f.m = None /\ f.oi = None /\ f.obj = None
       /\ f.to = ch /\ f \in OpRec(Objects)
  BY <1>1 DEF User, OpRec, Makes, Objects
<1>14. OpOk(f)
  BY <1>13, Constants DEF OpOk, Shape, Filling, Ends
<1>15. ~HoldingOp(f) /\ ~PipingOp(f) /\ NoFile(s, f)
  BY <1>13 DEF HoldingOp, PipingOp, NoFile, Filling, Ends
<1>16. Reaches(s, f, ns, got)
  <2>1. ASSUME NEW t \in Slot, Holding(t), NEW n \in ns PROVE got[n] # op[t].oi
    <3>1. of[op[t].oi].nref = 0
      BY <1>4, <2>1 DEF ClaimsOk, Claimed1, Blank
    <3> QED BY <1>9, <3>1
  <2>2. ASSUME NEW t \in Slot, Piping(t), NEW x \in InHands(op[t]), NEW n \in ns
        PROVE  got[n] # tab[Of(t)][x]
    <3>1. PICK q \in Slot : q = Of(t)
      BY <1>5, Chosen DEF NameT
    <3>2. Half(q, x) /\ x \in Fd
      BY <1>4, <2>2, <3>1 DEF HalvesOk, OpsOk, OpOk, OpRec, InHands
    <3>3. tab[q][x] \in Oi /\ of[tab[q][x]].nref = 1 /\ of[tab[q][x]].used
      BY <1>5, <3>2 DEF Half, TabT, HalfEnd, Blank
    <3>4. ASSUME got[n] = tab[q][x] PROVE FALSE
      <4>1. tab[p][n] = tab[q][x] /\ n \in Fd
        BY <1>8, <3>4
      <4>2. q = p
        BY <1>4, <1>5, <1>6, <3>2, <3>3, <4>1, OneNumber
      <4>3. t = s
        BY <1>1, <1>7, <3>1, <4>2 DEF Alone, Of
      <4> QED BY <1>6, <2>2, <4>3
    <3> QED BY <3>1, <3>4
  <2>3. \A u \in Oi : ~MakesEnd(s, u)
    BY <1>6 DEF MakesEnd
  <2>4. f.k # "give" /\ f.k # "redirect"
    BY <1>13
  <2> QED BY <1>2, <1>6, <1>14, <1>15, <2>1, <2>2, <2>3, <2>4 DEF Reaches
<1>17. SizedT' /\ SizeT' /\ LifeT'
  <2>1. SizeT' /\ LifeT'
    BY <1>2, <1>5, <1>6, <1>11 DEF SizeT, LifeT
  <2>2. ASSUME NEW q \in Slot, NEW y \in Fd, y >= size'[q] PROVE tab'[q][y] = None
    <3>1. CASE q = ch
      <4>1. y >= size[p]
        BY <1>2, <1>5, <2>2, <3>1 DEF SizeT
      <4> QED BY <1>5, <1>6, <1>12, <3>1, <4>1 DEF SizedT
    <3>2. CASE q # ch
      BY <1>2, <1>5, <1>12, <2>2, <3>2 DEF SizedT, SizeT
    <3> QED BY <3>1, <3>2
  <2> QED BY <2>1, <2>2 DEF SizedT
<1>18. op'[s] = f /\ \A t \in Slot \ {s} : op'[t] = op[t]
  BY <1>2, <1>4, GoFacts
<1>19. \A t \in Slot : Of(t)' = Of(t) /\ Of(t) \in Slot
  BY <1>2, <1>5, Chosen DEF Of, NameT
<1>20. Lives'
  <2>1. IdleOk'
    BY <1>1, <1>2, <1>4, <1>6, <1>18, <1>19 DEF IdleOk
  <2>2. DeadOk'
    <3> SUFFICES ASSUME NEW q \in Slot, life[q] # "live"
                 PROVE  /\ redir[q] = None /\ mail[q] = <<>>
                        /\ (\A t \in Slot : op'[t].to # q) => \A n \in Fd : tab'[q][n] = None
      BY <1>2 DEF DeadOk
    <3>1. /\ redir[q] = None /\ mail[q] = <<>>
          /\ (\A t \in Slot : op[t].to # q) => \A n \in Fd : tab[q][n] = None
      BY <1>4 DEF DeadOk
    <3>2. CASE q = ch
      BY <1>13, <1>18, <3>1, <3>2
    <3>3. CASE q # ch
      <4>1. op[s].to # q
        BY <1>6, Constants DEF User
      <4> QED BY <1>12, <1>18, <3>1, <3>3, <4>1
    <3> QED BY <3>2, <3>3
  <2>3. LeadOk'
    BY <1>2, <1>4, <1>19 DEF LeadOk
  <2>4. GivesOk'
    BY <1>2, <1>4, <1>13, <1>18 DEF GivesOk
  <2>5. HeirsOk'
    <3> SUFFICES ASSUME NEW t \in Slot, op'[t].pc = "heir"
                 PROVE  /\ life[op'[t].to] # "live" /\ Of(op'[t].to) = op'[t].to
                        /\ \A u \in Slot : op'[u].to = op'[t].to => u = t
                        /\ redir[Of(t)] # None => tab'[op'[t].to][redir[Of(t)]] # None
      BY <1>2, <1>19 DEF HeirsOk, Of
    <3>1. CASE t = s
      <4>1. op'[t].to = ch
        BY <1>13, <1>18, <3>1
      <4>2. \A u \in Slot : op'[u].to = ch => u = s
        BY <1>2, <1>18
      <4>3. redir[p] # None => tab'[ch][redir[p]] # None
        BY <1>4, <1>5, <1>6, <1>12 DEF RedirOk, RedirT
      <4> QED BY <1>1, <1>2, <3>1, <4>1, <4>2, <4>3 DEF Of
    <3>2. CASE t # s
      <4>1. op'[t] = op[t] /\ op[t].pc = "heir"
        BY <1>18, <3>2
      <4>2. /\ life[op[t].to] # "live" /\ Of(op[t].to) = op[t].to
            /\ \A u \in Slot : op[u].to = op[t].to => u = t
            /\ redir[Of(t)] # None => tab[op[t].to][redir[Of(t)]] # None
        BY <1>4, <4>1 DEF HeirsOk
      <4>3. op[t].to \in Slot /\ op[t].to # ch
        BY <1>2, <1>4, <4>1 DEF OpsOk, OpOk, OpRec, Shape
      <4>4. \A u \in Slot : op'[u].to = op[t].to => u = t
        BY <1>13, <1>18, <4>2, <4>3
      <4> QED BY <1>12, <4>1, <4>2, <4>3, <4>4
    <3> QED BY <3>1, <3>2
  <2>6. AloneOk'
    BY <1>2, <1>4, <1>7, <1>18 DEF AloneOk
  <2> QED BY <2>1, <2>2, <2>3, <2>4, <2>5, <2>6 DEF Lives
<1> QED BY <1>2, <1>11, <1>16, <1>17, <1>20, GainsStep

-----------------------------------------------------------------------------
(* Numbers taken from a table. *)

\* The numbers ns of table p name nothing any more, the descriptions gone are free
\* again, and what was kept for them goes with them.
Drops(p, ns, gone) ==
    /\ p \in Slot /\ ns \subseteq Fd /\ gone \subseteq Oi
    /\ \A n \in ns : tab[p][n] # None
    /\ \A q \in Slot \ {p} : tab'[q] = tab[q]
    /\ \A n \in Fd : tab'[p][n] = IF n \in ns THEN None ELSE tab[p][n]
    /\ \A o \in gone : of[o].used /\ of[o].nref > 0 /\ of'[o] = Blank /\ Numbers(o)' = {}
    /\ \A o \in Oi \ gone : /\ of'[o].used = of[o].used /\ of'[o].kind = of[o].kind
                            /\ of'[o].obj = of[o].obj /\ of'[o].w = of[o].w
                            /\ of[o].nref > 0 => of'[o].nref > 0
                            /\ (\A n \in ns : tab[p][n] # o) => of'[o] = of[o]

\* The instances of the descriptions gone.
Dying(gone, kind, i) == \E o \in gone : of[o].kind = kind /\ of[o].obj = i

Clears(p, ns, gone) ==
    /\ \A e \in Eps : IF Dying(gone, "epoll", e) THEN ep'[e] = [used |-> FALSE, watch |-> {}]
                      ELSE /\ ep'[e].used = ep[e].used
                           /\ ep'[e].watch = {x \in ep[e].watch : x.oi \notin gone}
    /\ \A v \in Evs : evfd'[v] = IF Dying(gone, "evfd", v) THEN NoEvent ELSE evfd[v]
    /\ redir' = [redir EXCEPT ![p] = RedirAfter(p, ns)]

\* The numbers of a table that name the description o, and what is left of it.
LEMMA CountTaken ==
    ASSUME OfT, TabT, RefsExact, NEW p \in Slot, NEW ns \in SUBSET Fd, NEW o \in Oi,
           \A q \in Slot \ {p} : tab'[q] = tab[q],
           \A n \in Fd : tab'[p][n] = IF n \in ns THEN None ELSE tab[p][n],
           NEW c, c = Cardinality({n \in ns : tab[p][n] = o})
    PROVE  /\ c \in Nat /\ (of[o].used => c <= of[o].nref)
           /\ of[o].used => Cardinality(Numbers(o)') = of[o].nref - c
           /\ ~of[o].used => Numbers(o)' = {} /\ c = 0
           /\ (\A n \in ns : tab[p][n] # o) => c = 0
           /\ Numbers(o)' = {} \/ Cardinality(Numbers(o)') # 0
<1>1. PICK ms : ms = {n \in ns : tab[p][n] = o}
  OBVIOUS
<1>2. ms \in SUBSET Fd /\ c = Cardinality(ms) /\ c \in Nat
  BY <1>1, Finite
<1>3. PICK A : A = Numbers(o)
  OBVIOUS
<1>4. A \in SUBSET (Slot \X Fd) /\ Row(p, ms) \subseteq A
  BY <1>1, <1>3 DEF Numbers, Row
<1>5. Numbers(o)' = A \ Row(p, ms)
  <2>1. o # None
    BY Constants
  <2>2. ASSUME NEW q \in Slot, NEW y \in Fd
        PROVE  <<q, y>> \in Numbers(o)' <=> <<q, y>> \in A \ Row(p, ms)
    <3>1. <<q, y>> \in Numbers(o)' <=> tab'[q][y] = o
      BY DEF Numbers
    <3>2. <<q, y>> \in A <=> tab[q][y] = o
      BY <1>3 DEF Numbers
    <3>3. <<q, y>> \in Row(p, ms) <=> q = p /\ y \in ns /\ tab[p][y] = o
      BY <1>1 DEF Row
    <3>4. CASE q = p /\ y \in ns
      BY <2>1, <3>1, <3>2, <3>3, <3>4
    <3>5. CASE ~(q = p /\ y \in ns)
      <4>1. tab'[q][y] = tab[q][y]
        BY <3>5
      <4> QED BY <3>1, <3>2, <3>3, <3>5, <4>1
    <3> QED BY <3>4, <3>5
  <2>3. Numbers(o)' \subseteq Slot \X Fd
    BY DEF Numbers
  <2> QED BY <1>4, <2>2, <2>3
<1>6. Cardinality(A \ Row(p, ms)) = Cardinality(A) - Cardinality(ms) /\ Cardinality(ms) <= Cardinality(A)
  BY <1>2, <1>4, RowTaken
<1>7. of[o].used => of[o].nref = Cardinality(A)
  BY <1>3 DEF RefsExact
<1>8. ASSUME ~of[o].used PROVE Numbers(o)' = {} /\ c = 0
  <2>1. A = {}
    BY <1>3, <1>8 DEF RefsExact
  <2>2. ASSUME NEW y \in ms PROVE FALSE
    <3>1. <<p, y>> \in Row(p, ms)
      BY DEF Row
    <3> QED BY <1>4, <2>1, <3>1
  <2> QED BY <1>2, <1>5, <2>1, <2>2, FS_EmptySet
<1>9. ASSUME \A n \in ns : tab[p][n] # o PROVE c = 0
  <2>1. ms = {}
    BY <1>1, <1>9
  <2> QED BY <1>2, <2>1, FS_EmptySet
<1>10. Numbers(o)' = {} \/ Cardinality(Numbers(o)') # 0
  <2>1. Numbers(o)' \in SUBSET (Slot \X Fd)
    BY DEF Numbers
  <2>2. IsFiniteSet(Numbers(o)')
    BY <2>1, Finite
  <2> QED BY <2>2, ZeroCount
<1>11. of[o].used => c <= of[o].nref
  BY <1>2, <1>6, <1>7
<1>12. of[o].used => Cardinality(Numbers(o)') = of[o].nref - c
  BY <1>2, <1>5, <1>6, <1>7
<1> QED BY <1>2, <1>8, <1>9, <1>10, <1>11, <1>12

LEMMA ReleasesEffect ==
    ASSUME OfT, TabT, SizedT, SizeT, EpT, EvT, RedirT, RefsExact, NEW p \in Slot,
           NEW asked \in SUBSET Fd, NEW ns, ns = Held(p, asked), Releases(p, asked)
    PROVE  /\ \A n \in Fd : n \in ns <=> n \in asked /\ tab[p][n] # None
           /\ \E gone : Drops(p, ns, gone) /\ Clears(p, ns, gone)
           /\ TabT' /\ OfT' /\ EpT' /\ EvT' /\ RedirT' /\ RefsExact' /\ hint' \in [Slot -> 0 .. FdMax]
<1> DEFINE Ref(o) == Cardinality({n \in ns : tab[p][n] = o})
<1>1. PICK gone : gone = {o \in Oi : of[o].used /\ Last(o, Ref(o))}
  OBVIOUS
<1>2. /\ tab' = [tab EXCEPT ![p] = [n \in Fd |-> IF n \in ns THEN None ELSE @[n]]]
      /\ hint' = [hint EXCEPT ![p] = Min({@} \cup ns)]
      /\ of' = [o \in Oi |-> IF o \in gone THEN Blank ELSE [of[o] EXCEPT !.nref = @ - Ref(o)]]
      /\ ep' = [e \in Eps |-> IF Dying(gone, "epoll", e) THEN [used |-> FALSE, watch |-> {}]
                              ELSE [ep[e] EXCEPT !.watch = Purged(e, gone)]]
      /\ evfd' = [v \in Evs |-> IF Dying(gone, "evfd", v) THEN NoEvent ELSE evfd[v]]
      /\ redir' = [redir EXCEPT ![p] = RedirAfter(p, ns)]
  BY <1>1 DEF Releases, Dying
<1>3. ns \in SUBSET Fd /\ \A n \in Fd : n \in ns <=> n \in asked /\ tab[p][n] # None
  <2>1. \A n \in Fd : Named(p, n) = tab[p][n]
    BY NamedIs
  <2> QED BY <2>1 DEF Held
<1>4. /\ \A q \in Slot \ {p} : tab'[q] = tab[q]
      /\ \A n \in Fd : tab'[p][n] = IF n \in ns THEN None ELSE tab[p][n]
      /\ TabT'
  BY <1>2 DEF TabT
<1>5. ASSUME NEW o \in Oi
      PROVE  /\ Ref(o) \in Nat /\ (of[o].used => Ref(o) <= of[o].nref)
             /\ of[o].used => Cardinality(Numbers(o)') = of[o].nref - Ref(o)
             /\ ~of[o].used => Numbers(o)' = {} /\ Ref(o) = 0
             /\ (\A n \in ns : tab[p][n] # o) => Ref(o) = 0
             /\ Numbers(o)' = {} \/ Cardinality(Numbers(o)') # 0
  <2>1. PICK c : c = Ref(o)
    OBVIOUS
  <2> HIDE DEF Ref
  <2>2. /\ c \in Nat /\ (of[o].used => c <= of[o].nref)
        /\ of[o].used => Cardinality(Numbers(o)') = of[o].nref - c
        /\ ~of[o].used => Numbers(o)' = {} /\ c = 0
        /\ (\A n \in ns : tab[p][n] # o) => c = 0
        /\ Numbers(o)' = {} \/ Cardinality(Numbers(o)') # 0
    <3>1. c = Cardinality({n \in ns : tab[p][n] = o})
      BY <2>1 DEF Ref
    <3>2. ns \in SUBSET Fd
      BY <1>3
    <3>3. \A q \in Slot \ {p} : tab'[q] = tab[q]
      BY <1>4
    <3>4. \A n \in Fd : tab'[p][n] = IF n \in ns THEN None ELSE tab[p][n]
      BY <1>4
    <3> QED BY <3>1, <3>2, <3>3, <3>4, CountTaken
  <2> QED BY <2>1, <2>2
<1>6. \A o \in Oi : of[o] \in OfRec /\ of[o].nref \in Nat
  BY DEF OfT, OfRec
<1>7. \A o \in gone : /\ o \in Oi /\ of[o].used /\ of[o].nref > 0 /\ of'[o] = Blank
                      /\ Numbers(o)' = {}
  <2> SUFFICES ASSUME NEW o \in gone
               PROVE  /\ o \in Oi /\ of[o].used /\ of[o].nref > 0 /\ of'[o] = Blank
                      /\ Numbers(o)' = {}
    OBVIOUS
  <2> HIDE DEF Ref
  <2>1. o \in Oi /\ of[o].used /\ of[o].nref <= Ref(o) /\ Ref(o) > 0 /\ of'[o] = Blank
    BY <1>1, <1>2 DEF Last
  <2>2. /\ Ref(o) \in Nat /\ Ref(o) <= of[o].nref
        /\ Cardinality(Numbers(o)') = of[o].nref - Ref(o)
        /\ Numbers(o)' = {} \/ Cardinality(Numbers(o)') # 0
    BY <1>5, <2>1
  <2> QED BY <1>6, <2>1, <2>2
<1>8. \A o \in Oi \ gone : /\ of'[o].used = of[o].used /\ of'[o].kind = of[o].kind
                           /\ of'[o].obj = of[o].obj /\ of'[o].w = of[o].w
                           /\ of[o].nref > 0 => of'[o].nref > 0
                           /\ (\A n \in ns : tab[p][n] # o) => of'[o] = of[o]
                           /\ of'[o].nref = of[o].nref - Ref(o) /\ of'[o] \in OfRec
  <2> SUFFICES ASSUME NEW o \in Oi \ gone
               PROVE  /\ of'[o].used = of[o].used /\ of'[o].kind = of[o].kind
                      /\ of'[o].obj = of[o].obj /\ of'[o].w = of[o].w
                      /\ of[o].nref > 0 => of'[o].nref > 0
                      /\ (\A n \in ns : tab[p][n] # o) => of'[o] = of[o]
                      /\ of'[o].nref = of[o].nref - Ref(o) /\ of'[o] \in OfRec
    OBVIOUS
  <2> HIDE DEF Ref
  <2>1. of'[o] = [of[o] EXCEPT !.nref = @ - Ref(o)] /\ (of[o].used => ~Last(o, Ref(o)))
    BY <1>1, <1>2
  <2>2. /\ Ref(o) \in Nat /\ (of[o].used => Ref(o) <= of[o].nref)
        /\ ~of[o].used => Ref(o) = 0
        /\ (\A n \in ns : tab[p][n] # o) => Ref(o) = 0
    BY <1>5
  <2>3. /\ of'[o].used = of[o].used /\ of'[o].kind = of[o].kind
        /\ of'[o].obj = of[o].obj /\ of'[o].w = of[o].w /\ of'[o].nref = of[o].nref - Ref(o)
    BY <1>6, <2>1 DEF OfRec
  <2>4. of'[o].nref \in Nat
    BY <1>6, <2>2, <2>3
  <2>5. of'[o] \in OfRec
    BY <1>6, <2>1, <2>3, <2>4 DEF OfRec
  <2>6. of[o].nref > 0 => of'[o].nref > 0
    BY <1>6, <2>1, <2>2, <2>3 DEF Last
  <2>7. Ref(o) = 0 => of'[o] = of[o]
    BY <1>6, <2>3, <2>5 DEF OfRec
  <2> QED BY <2>2, <2>3, <2>5, <2>6, <2>7
<1>9. OfT'
  <2>1. Blank \in OfRec
    BY DEF Blank, OfRec, Kinds, Objects
  <2>2. \A o \in Oi : of'[o] \in OfRec
    BY <1>7, <1>8, <2>1
  <2>3. of' = [o \in Oi |-> of'[o]]
    BY <1>2
  <2> QED BY <2>2, <2>3 DEF OfT
<1>10. RefsExact'
  <2> SUFFICES ASSUME NEW o \in Oi
               PROVE  IF of'[o].used THEN of'[o].nref = Cardinality(Numbers(o)')
                      ELSE Numbers(o)' = {}
    BY DEF RefsExact
  <2>1. CASE o \in gone
    BY <1>7, <2>1 DEF Blank
  <2>2. CASE o \notin gone
    <3> HIDE DEF Ref
    <3> QED BY <1>5, <1>8, <2>2
  <2> QED BY <2>1, <2>2
<1>11. Drops(p, ns, gone)
  <2> HIDE DEF Ref
  <2>1. gone \subseteq Oi
    BY <1>1
  <2> QED BY <1>3, <1>4, <1>7, <1>8, <2>1 DEF Drops
<1>12. Clears(p, ns, gone) /\ EpT' /\ EvT' /\ RedirT'
  <2> HIDE DEF Ref
  <2>1. ASSUME NEW e \in Eps
        PROVE  /\ IF Dying(gone, "epoll", e) THEN ep'[e] = [used |-> FALSE, watch |-> {}]
                  ELSE /\ ep'[e].used = ep[e].used
                       /\ ep'[e].watch = {x \in ep[e].watch : x.oi \notin gone}
               /\ ep'[e] \in [used : BOOLEAN, watch : SUBSET [fd : Fd, oi : Oi]]
               /\ Cardinality(ep'[e].watch) <= MaxWatch
    <3>1. ep[e] \in [used : BOOLEAN, watch : SUBSET [fd : Fd, oi : Oi]]
      BY DEF EpT
    <3>2. CASE Dying(gone, "epoll", e)
      <4>1. ep'[e] = [used |-> FALSE, watch |-> {}]
        BY <1>2, <3>2
      <4> QED BY <3>2, <4>1, FS_EmptySet, Constants
    <3>3. CASE ~Dying(gone, "epoll", e)
      <4>1. ep'[e] = [ep[e] EXCEPT !.watch = Purged(e, gone)]
        BY <1>2, <3>3
      <4>2. /\ ep'[e].used = ep[e].used /\ ep'[e].watch = {x \in ep[e].watch : x.oi \notin gone}
            /\ ep'[e] \in [used : BOOLEAN, watch : SUBSET [fd : Fd, oi : Oi]]
        BY <3>1, <4>1 DEF Purged
      <4>3. ep[e].watch \in SUBSET Watches
        BY <3>1 DEF Watches
      <4>4. Cardinality(ep'[e].watch) <= Cardinality(ep[e].watch)
        <5>1. IsFiniteSet(ep[e].watch) /\ ep'[e].watch \subseteq ep[e].watch
          BY <4>2, <4>3, WatchesFinite
        <5> QED BY <5>1, FS_Subset
      <4>5. Cardinality(ep[e].watch) <= MaxWatch
        BY DEF EpT
      <4>6. Cardinality(ep'[e].watch) \in Nat /\ Cardinality(ep[e].watch) \in Nat
        <5>1. ep'[e].watch \in SUBSET Watches
          BY <4>2, <4>3
        <5> QED BY <4>3, <5>1, WatchesFinite
      <4> QED BY <3>3, <4>2, <4>4, <4>5, <4>6, Constants
    <3> QED BY <3>2, <3>3
  <2>2. ep' = [e \in Eps |-> ep'[e]]
    BY <1>2
  <2>3. EpT'
    BY <2>1, <2>2 DEF EpT
  <2>4. /\ \A v \in Evs : evfd'[v] = IF Dying(gone, "evfd", v) THEN NoEvent ELSE evfd[v]
        /\ EvT'
    BY <1>2 DEF EvT, NoEvent
  <2>5. RedirT'
    BY <1>2 DEF RedirT, RedirAfter
  <2> QED BY <1>2, <2>1, <2>3, <2>4, <2>5 DEF Clears
<1>13. hint' \in [Slot -> 0 .. FdMax]
  <2>1. PICK S : S = {hint[p]} \cup ns
    OBVIOUS
  <2>2. S \subseteq 0 .. FdMax /\ S \subseteq Nat /\ S # {}
    BY <1>3, <2>1, Constants DEF SizeT, Fd
  <2>3. Min(S) \in S
    BY <2>2, LeastOf
  <2>4. hint' = [hint EXCEPT ![p] = Min(S)]
    BY <1>2, <2>1
  <2> QED BY <2>2, <2>3, <2>4 DEF SizeT
<1> HIDE DEF Ref
<1> QED BY <1>3, <1>4, <1>9, <1>10, <1>11, <1>12, <1>13

\* What the pipes of the numbers taken are left with.
Lessens(ps) ==
    /\ ps \in [Pipes -> [used : BOOLEAN, r : Nat, w : Nat, has : BOOLEAN]]
    /\ \A i \in Pipes :
          /\ ps[i].used => pipe[i].used
          /\ pipe[i].r = Cardinality(EndSlots(i, FALSE)) => ps[i].r = Cardinality(EndSlots(i, FALSE)')
          /\ pipe[i].w = Cardinality(EndSlots(i, TRUE)) => ps[i].w = Cardinality(EndSlots(i, TRUE)')
          /\ pipe[i].used /\ ps[i].r + ps[i].w > 0 => ps[i].used
          /\ ps[i].used /\ pipe[i].r + pipe[i].w > 0 => ps[i].r + ps[i].w > 0
          /\ EndSlots(i, FALSE) = {} /\ EndSlots(i, TRUE) = {} => ps[i] = pipe[i]

\* The ends of a pipe that the numbers taken were.
LEMMA EndsTaken ==
    ASSUME TabT, NEW p, NEW ns, NEW gone, Drops(p, ns, gone), NEW i \in Pipes, NEW w \in BOOLEAN,
           NEW c, c = Cardinality(EndsOf(p, ns, i, w))
    PROVE  /\ c \in Nat /\ c <= Cardinality(EndSlots(i, w)) /\ Cardinality(EndSlots(i, w)) \in Nat
           /\ Cardinality(EndSlots(i, w)') = Cardinality(EndSlots(i, w)) - c
           /\ EndSlots(i, w) = {} => c = 0
<1>1. /\ p \in Slot /\ ns \subseteq Fd /\ gone \subseteq Oi
      /\ \A n \in ns : tab[p][n] # None
      /\ \A q \in Slot \ {p} : tab'[q] = tab[q]
      /\ \A n \in Fd : tab'[p][n] = IF n \in ns THEN None ELSE tab[p][n]
      /\ \A o \in gone : Numbers(o)' = {}
      /\ \A o \in Oi \ gone : /\ of'[o].kind = of[o].kind /\ of'[o].obj = of[o].obj
                              /\ of'[o].w = of[o].w
  BY DEF Drops
<1>2. PICK ms, A : ms = EndsOf(p, ns, i, w) /\ A = EndSlots(i, w)
  OBVIOUS
<1>3. ms \in SUBSET Fd /\ c = Cardinality(ms) /\ c \in Nat
  <2>1. ms \in SUBSET Fd
    BY <1>1, <1>2 DEF EndsOf
  <2> QED BY <1>2, <2>1, Finite
<1>4. /\ A \in SUBSET (Slot \X Fd) /\ Cardinality(A) \in Nat /\ IsFiniteSet(A)
      /\ \A q \in Slot, y \in Fd : <<q, y>> \in A <=> tab[q][y] # None /\ EndOf(tab[q][y], i, w)
  <2>1. A \in SUBSET (Slot \X Fd)
    BY <1>2 DEF EndSlots
  <2> QED BY <1>2, <2>1, Finite DEF EndSlots
<1>5. \A q \in Slot, y \in Fd : <<q, y>> \in Row(p, ms) <=> q = p /\ y \in ns /\ EndOf(tab[q][y], i, w)
  BY <1>1, <1>2 DEF Row, EndsOf
<1>6. Row(p, ms) \subseteq A
  <2> SUFFICES ASSUME NEW y \in ms PROVE <<p, y>> \in A
    BY <1>1 DEF Row
  <2>1. y \in ns /\ y \in Fd /\ EndOf(tab[p][y], i, w)
    BY <1>1, <1>2 DEF EndsOf
  <2> QED BY <1>1, <1>4, <2>1
<1>7. EndSlots(i, w)' = A \ Row(p, ms)
  <2>1. ASSUME NEW q \in Slot, NEW y \in Fd
        PROVE  <<q, y>> \in EndSlots(i, w)' <=> <<q, y>> \in A \ Row(p, ms)
    <3>1. PICK z : z = tab'[q][y]
      OBVIOUS
    <3>2. <<q, y>> \in EndSlots(i, w)'
             <=> z # None /\ of'[z].kind = "pipe" /\ of'[z].obj = i /\ of'[z].w = w
      BY <3>1 DEF EndSlots, EndOf
    <3>3. CASE q = p /\ y \in ns
      <4>1. z = None
        BY <1>1, <3>1, <3>3
      <4> QED BY <1>4, <1>5, <3>2, <3>3, <4>1
    <3>4. CASE ~(q = p /\ y \in ns)
      <4>1. tab[q][y] = z
        BY <1>1, <3>1, <3>4
      <4>2. CASE z = None
        BY <1>4, <3>2, <4>1, <4>2
      <4>3. CASE z # None
        <5>1. z \in Oi
          BY <4>1, <4>3 DEF TabT
        <5>2. <<q, y>> \in Numbers(z)'
          BY <3>1 DEF Numbers
        <5>3. z \in Oi \ gone
          BY <1>1, <5>1, <5>2
        <5>4. of'[z].kind = of[z].kind /\ of'[z].obj = of[z].obj /\ of'[z].w = of[z].w
          BY <1>1, <5>3
        <5>5. <<q, y>> \in EndSlots(i, w)' <=> EndOf(z, i, w)
          BY <3>2, <4>3, <5>4 DEF EndOf
        <5>6. <<q, y>> \in A <=> EndOf(z, i, w)
          BY <1>4, <4>1, <4>3
        <5>7. <<q, y>> \notin Row(p, ms)
          BY <1>5, <3>4
        <5> QED BY <5>5, <5>6, <5>7
      <4> QED BY <4>2, <4>3
    <3> QED BY <3>3, <3>4
  <2>2. PICK E : E = EndSlots(i, w)'
    OBVIOUS
  <2>3. E \subseteq Slot \X Fd
    BY <2>2 DEF EndSlots
  <2>4. \A q \in Slot, y \in Fd : <<q, y>> \in E <=> <<q, y>> \in A \ Row(p, ms)
    BY <2>1, <2>2
  <2>5. E = A \ Row(p, ms)
    BY <1>4, <2>3, <2>4
  <2> QED BY <2>2, <2>5
<1>8. Cardinality(A \ Row(p, ms)) = Cardinality(A) - Cardinality(ms) /\ Cardinality(ms) <= Cardinality(A)
  BY <1>1, <1>3, <1>4, <1>6, RowTaken
<1>9. A = {} => c = 0
  <2> SUFFICES ASSUME A = {} PROVE c = 0
    OBVIOUS
  <2>1. ASSUME NEW y \in ms PROVE FALSE
    <3>1. <<p, y>> \in Row(p, ms)
      BY DEF Row
    <3> QED BY <1>6, <3>1
  <2>2. ms = {}
    BY <2>1
  <2> QED BY <1>3, <2>2, FS_EmptySet
<1> QED BY <1>2, <1>3, <1>4, <1>7, <1>8, <1>9

\* What is left of a pipe without a readers and b writers.
Losing(i, a, b, x) ==
    /\ x \in [used : BOOLEAN, r : Nat, w : Nat, has : BOOLEAN]
    /\ x.used => pipe[i].used
    /\ x.r = IF pipe[i].r > a THEN pipe[i].r - a ELSE 0
    /\ x.w = IF pipe[i].w > b THEN pipe[i].w - b ELSE 0
    /\ pipe[i].used /\ x.r + x.w > 0 => x.used
    /\ x.used /\ pipe[i].r + pipe[i].w > 0 => x.r + x.w > 0
    /\ a = 0 /\ b = 0 => x = pipe[i]

\* PipeLoses: a pipe's ends go down by as much, and with the last of them the pipe.
LEMMA LosesIs ==
    ASSUME PipeT, NEW i \in Pipes, NEW a \in Nat, NEW b \in Nat,
           NEW x, x = PipeLoses(i, a, b)
    PROVE  Losing(i, a, b, x)
<1>1. /\ pipe[i] \in [used : BOOLEAN, r : Nat, w : Nat, has : BOOLEAN]
      /\ pipe[i].r \in Nat /\ pipe[i].w \in Nat
  BY DEF PipeT
<1>2. PICK r, w : /\ r = (IF pipe[i].r > a THEN pipe[i].r - a ELSE 0)
                  /\ w = (IF pipe[i].w > b THEN pipe[i].w - b ELSE 0)
  OBVIOUS
<1>3. r \in Nat /\ w \in Nat
  BY <1>1, <1>2
<1>4. Max({0, pipe[i].r - a}) = r /\ Max({0, pipe[i].w - b}) = w
  <2>1. pipe[i].r - a \in Int /\ pipe[i].w - b \in Int
    BY <1>1
  <2>2. PICK u, v : u = pipe[i].r - a /\ v = pipe[i].w - b
    OBVIOUS
  <2>3. Max({0, u}) = (IF u > 0 THEN u ELSE 0) /\ Max({0, v}) = (IF v > 0 THEN v ELSE 0)
    BY <2>1, <2>2, FloorOf
  <2>4. (IF u > 0 THEN u ELSE 0) = r /\ (IF v > 0 THEN v ELSE 0) = w
    BY <1>1, <1>2, <2>2
  <2> QED BY <2>2, <2>3, <2>4
<1>5. PICK y : y = [pipe[i] EXCEPT !.r = r, !.w = w]
  OBVIOUS
<1>6. /\ y \in [used : BOOLEAN, r : Nat, w : Nat, has : BOOLEAN]
      /\ y.used = pipe[i].used /\ y.r = r /\ y.w = w
  BY <1>1, <1>3, <1>5
<1>7. x = IF a + b > 0 /\ y.r = 0 /\ y.w = 0 THEN NoPipe ELSE y
  <2>1. y = [pipe[i] EXCEPT !.r = Max({0, @ - a}), !.w = Max({0, @ - b})]
    BY <1>4, <1>5
  <2> QED BY <2>1 DEF PipeLoses
<1>8. CASE a + b > 0 /\ r = 0 /\ w = 0
  <2>1. x = NoPipe
    BY <1>6, <1>7, <1>8
  <2>2. x \in [used : BOOLEAN, r : Nat, w : Nat, has : BOOLEAN] /\ ~x.used /\ x.r = 0 /\ x.w = 0
    BY <2>1 DEF NoPipe
  <2> QED BY <1>2, <1>8, <2>2 DEF Losing
<1>9. CASE ~(a + b > 0 /\ r = 0 /\ w = 0)
  <2>1. x = y
    BY <1>6, <1>7, <1>9
  <2>2. a = 0 /\ b = 0 => r = pipe[i].r /\ w = pipe[i].w
    BY <1>1, <1>2
  <2>3. a = 0 /\ b = 0 => y = pipe[i]
    BY <1>1, <1>5, <2>2
  <2>4. pipe[i].r + pipe[i].w > 0 => r + w > 0
    BY <1>1, <1>2, <1>3, <1>9, <2>2
  <2> QED BY <1>2, <1>6, <2>1, <2>3, <2>4 DEF Losing
<1> QED BY <1>8, <1>9

LEMMA PipesLessen ==
    ASSUME TabT, PipeT, NEW p, NEW asked, NEW ns, ns = Held(p, asked), NEW gone, Drops(p, ns, gone),
           NEW ps, ps = PipesAfter(p, asked)
    PROVE  Lessens(ps)
<1>1. ASSUME NEW i \in Pipes
      PROVE  /\ ps[i] \in [used : BOOLEAN, r : Nat, w : Nat, has : BOOLEAN]
             /\ ps[i].used => pipe[i].used
             /\ pipe[i].r = Cardinality(EndSlots(i, FALSE)) => ps[i].r = Cardinality(EndSlots(i, FALSE)')
             /\ pipe[i].w = Cardinality(EndSlots(i, TRUE)) => ps[i].w = Cardinality(EndSlots(i, TRUE)')
             /\ pipe[i].used /\ ps[i].r + ps[i].w > 0 => ps[i].used
             /\ ps[i].used /\ pipe[i].r + pipe[i].w > 0 => ps[i].r + ps[i].w > 0
             /\ EndSlots(i, FALSE) = {} /\ EndSlots(i, TRUE) = {} => ps[i] = pipe[i]
  <2>1. PICK a, b, x : /\ a = Cardinality(EndsOf(p, ns, i, FALSE))
                       /\ b = Cardinality(EndsOf(p, ns, i, TRUE)) /\ x = PipeLoses(i, a, b)
    OBVIOUS
  <2>2. ps[i] = x
    BY <2>1 DEF PipesAfter
  <2>3. PICK w : w = TRUE
    OBVIOUS
  <2>4. PICK v : v = FALSE
    OBVIOUS
  <2>5. /\ a \in Nat /\ a <= Cardinality(EndSlots(i, v)) /\ Cardinality(EndSlots(i, v)) \in Nat
        /\ Cardinality(EndSlots(i, v)') = Cardinality(EndSlots(i, v)) - a
        /\ EndSlots(i, v) = {} => a = 0
    <3>1. v \in BOOLEAN /\ a = Cardinality(EndsOf(p, ns, i, v))
      BY <2>1, <2>4
    <3> QED BY <3>1, EndsTaken
  <2>6. /\ b \in Nat /\ b <= Cardinality(EndSlots(i, w)) /\ Cardinality(EndSlots(i, w)) \in Nat
        /\ Cardinality(EndSlots(i, w)') = Cardinality(EndSlots(i, w)) - b
        /\ EndSlots(i, w) = {} => b = 0
    <3>1. w \in BOOLEAN /\ b = Cardinality(EndsOf(p, ns, i, w))
      BY <2>1, <2>3
    <3> QED BY <3>1, EndsTaken
  <2>7. /\ x \in [used : BOOLEAN, r : Nat, w : Nat, has : BOOLEAN]
        /\ x.used => pipe[i].used
        /\ x.r = IF pipe[i].r > a THEN pipe[i].r - a ELSE 0
        /\ x.w = IF pipe[i].w > b THEN pipe[i].w - b ELSE 0
        /\ pipe[i].used /\ x.r + x.w > 0 => x.used
        /\ x.used /\ pipe[i].r + pipe[i].w > 0 => x.r + x.w > 0
        /\ a = 0 /\ b = 0 => x = pipe[i]
    <3>1. a \in Nat /\ b \in Nat /\ x = PipeLoses(i, a, b)
      BY <2>1, <2>5, <2>6
    <3>2. Losing(i, a, b, x)
      BY <3>1, LosesIs
    <3> QED BY <3>2 DEF Losing
  <2>8. pipe[i].r = Cardinality(EndSlots(i, v)) => x.r = Cardinality(EndSlots(i, v)')
    BY <2>5, <2>7
  <2>9. pipe[i].w = Cardinality(EndSlots(i, w)) => x.w = Cardinality(EndSlots(i, w)')
    BY <2>6, <2>7
  <2>10. EndSlots(i, v) = {} /\ EndSlots(i, w) = {} => x = pipe[i]
    BY <2>5, <2>6, <2>7
  <2>11. /\ EndSlots(i, v) = EndSlots(i, FALSE) /\ EndSlots(i, v)' = EndSlots(i, FALSE)'
         /\ EndSlots(i, w) = EndSlots(i, TRUE) /\ EndSlots(i, w)' = EndSlots(i, TRUE)'
    BY <2>3, <2>4
  <2> QED BY <2>2, <2>7, <2>8, <2>9, <2>10, <2>11
<1>2. ps = [i \in Pipes |-> ps[i]]
  BY DEF PipesAfter
<1> QED BY <1>1, <1>2 DEF Lessens

\* The call of s has done with its numbers ns, and with the pipe it was making.
Yields(s, f, ns, lost) ==
    /\ Go(s, f) /\ OpOk(f) /\ ~HoldingOp(f) /\ ~PipingOp(f) /\ NoFile(s, f) /\ ~Holding(s)
    /\ f.k # "redirect" /\ (f.k = "give" => f.pc = "post")
    /\ Piping(s) => InHands(op[s]) \subseteq ns
    /\ \A t \in Slot \ {s} : Piping(t) /\ Of(t) = Of(s) => InHands(op[t]) \cap ns = {}
    /\ lost = IF Piping(s) THEN {op[s].obj} ELSE {}

LEMMA ReleaseStep ==
    ASSUME Orderly, FInv, NEW s \in Slot, NEW f, NEW p, p = Of(s), NEW ns, NEW gone, NEW ps, NEW lost,
           Drops(p, ns, gone), Clears(p, ns, gone), Lessens(ps), Yields(s, f, ns, lost),
           pipe' = [i \in Pipes |-> IF i \in lost THEN NoPipe ELSE ps[i]],
           UNCHANGED <<setting, name>>,
           TabT', OfT', EpT', EvT', RedirT', RefsExact', SizedT', SizeT', MailT', LifeT', Lives'
    PROVE  FInv'
<1>1. /\ p \in Slot /\ ns \subseteq Fd /\ gone \subseteq Oi
      /\ \A n \in ns : tab[p][n] # None
      /\ \A q \in Slot \ {p} : tab'[q] = tab[q]
      /\ \A n \in Fd : tab'[p][n] = IF n \in ns THEN None ELSE tab[p][n]
      /\ \A o \in gone : of[o].used /\ of[o].nref > 0 /\ ~of'[o].used /\ Numbers(o)' = {}
      /\ \A o \in Oi \ gone : /\ of'[o].used = of[o].used /\ of'[o].kind = of[o].kind
                              /\ of'[o].obj = of[o].obj /\ of'[o].w = of[o].w
                              /\ of[o].nref > 0 => of'[o].nref > 0
                              /\ (\A n \in ns : tab[p][n] # o) => of'[o] = of[o]
  BY DEF Drops, Blank
<1>2. /\ \A e \in Eps : ~Dying(gone, "epoll", e) =>
            ep'[e].used = ep[e].used /\ ep'[e].watch = {x \in ep[e].watch : x.oi \notin gone}
      /\ \A e \in Eps : Dying(gone, "epoll", e) => ~ep'[e].used /\ ep'[e].watch = {}
      /\ \A v \in Evs : evfd'[v] = IF Dying(gone, "evfd", v) THEN NoEvent ELSE evfd[v]
      /\ redir' = [redir EXCEPT ![p] = RedirAfter(p, ns)]
  BY DEF Clears
<1>3. /\ Go(s, f) /\ OpOk(f) /\ ~HoldingOp(f) /\ ~PipingOp(f) /\ NoFile(s, f) /\ ~Holding(s)
      /\ f.k # "redirect" /\ (f.k = "give" => f.pc = "post")
      /\ Piping(s) => InHands(op[s]) \subseteq ns
      /\ \A t \in Slot \ {s} : Piping(t) /\ Of(t) = Of(s) => InHands(op[t]) \cap ns = {}
      /\ Piping(s) => op[s].obj \in lost
      /\ \A i \in lost : Piping(s) /\ i = op[s].obj
  BY DEF Yields
<1>4. /\ Types /\ OpsOk /\ ClaimsOk /\ ClaimsApart /\ MakingOk /\ MakersApart /\ HalvesOk /\ HalvesApart
      /\ RefsExact /\ PipeEndsExact /\ Kept /\ EndsOk /\ PipesOk /\ InstancesOk
      /\ HandOk /\ TransferHeld /\ Unwatching /\ WatchOk /\ RedirOk /\ UnlinksOk /\ AloneOk
  BY DEF FInv, Calls1, Tables, Sides, Lives
<1>5. TabT /\ NameT /\ RedirT /\ MailT /\ EpT /\ EvT /\ PipeT /\ OfT
  BY <1>4 DEF Types
<1>6. op'[s] = f /\ (\A t \in Slot \ {s} : op'[t] = op[t]) /\ OpsOk'
  BY <1>3, <1>4, GoFacts, GoOk
<1>7. \A t \in Slot : Of(t)' = Of(t) /\ Of(t) \in Slot
  BY <1>5, Chosen DEF Of, NameT
<1>8. /\ \A t \in Slot : /\ PipingOp(op'[t]) <=> Piping(t) /\ t # s
                         /\ Piping(t) => op[t].obj \in Pipes /\ InHands(op[t]) \subseteq Fd
      /\ \A t \in Slot : /\ HoldingOp(op'[t]) <=> Holding(t)
                         /\ Holding(t) => t # s /\ op[t].oi \in Oi
  <2>1. \A t \in Slot : Holding(t) => op[t].oi \in Oi
    BY <1>4 DEF Holding, HoldingOp, OpsOk, OpOk, Shape
  <2>2. \A t \in Slot : Piping(t) => op[t].obj \in Pipes
    BY <1>4 DEF OpsOk, OpOk, Shape, Piping, PipingOp
  <2>3. \A t \in Slot : InHands(op[t]) \subseteq Fd
    BY <1>4 DEF OpsOk, OpOk, OpRec, InHands
  <2> QED BY <1>3, <1>6, <2>1, <2>2, <2>3 DEF Piping, Holding
\* A number that is not one of those taken names what it named.
<1>9. \A q \in Slot, n \in Fd : ~(q = p /\ n \in ns) => tab'[q][n] = tab[q][n]
  BY <1>1
<1>10. ASSUME NEW q \in Slot, NEW n \in Fd, tab'[q][n] # None
       PROVE  tab[q][n] = tab'[q][n] /\ tab'[q][n] \in Oi \ gone /\ ~(q = p /\ n \in ns)
  <2>1. ~(q = p /\ n \in ns) /\ tab[q][n] = tab'[q][n]
    BY <1>1, <1>9, <1>10
  <2>2. tab'[q][n] \in Oi
    BY <1>5, <1>10, <2>1 DEF TabT
  <2>3. PICK z \in Oi : z = tab'[q][n]
    BY <2>2
  <2>4. <<q, n>> \in Numbers(z)'
    BY <2>3 DEF Numbers
  <2>5. z \notin gone
    BY <1>1, <2>4
  <2> QED BY <2>1, <2>2, <2>3, <2>5
\* A description another call has claimed, or a half of the pipe it is making, is as it was.
<1>11. ASSUME NEW t \in Slot, Holding(t)
       PROVE  op[t].oi \in Oi \ gone /\ of'[op[t].oi] = of[op[t].oi]
  <2>1. op[t].oi \in Oi /\ of[op[t].oi].nref = 0
    BY <1>4, <1>8, <1>11 DEF ClaimsOk, Claimed1, Blank
  <2>2. op[t].oi \notin gone
    BY <1>1, <2>1
  <2>3. \A n \in ns : tab[p][n] # op[t].oi
    BY <1>1, <1>4, <1>5, <2>1, NamedUsed
  <2> QED BY <1>1, <2>1, <2>2, <2>3
<1>12. ASSUME NEW t \in Slot, t # s, Piping(t), NEW x \in InHands(op[t])
       PROVE  Half(Of(t), x)' /\ tab'[Of(t)][x] = tab[Of(t)][x]
  <2>1. PICK q \in Slot : q = Of(t)
    BY <1>7
  <2>2. tab[q][x] # None /\ of[tab[q][x]] = HalfEnd /\ x \in Fd
    BY <1>4, <1>8, <1>12, <2>1 DEF HalvesOk, Half
  <2>3. ~(q = p /\ x \in ns)
    BY <1>3, <1>12, <2>1
  <2>4. tab'[q][x] = tab[q][x]
    BY <1>9, <2>2, <2>3
  <2>5. tab[q][x] \in Oi \ gone
    BY <1>10, <2>2, <2>4
  <2>6. of[tab[q][x]].nref = 1 /\ of[tab[q][x]].used
    BY <2>2 DEF HalfEnd
  <2>7. ASSUME NEW n \in ns, tab[p][n] = tab[q][x] PROVE FALSE
    <3>1. q = p /\ x = n
      BY <1>1, <1>4, <1>5, <2>2, <2>5, <2>6, <2>7, OneNumber
    <3> QED BY <2>3, <3>1
  <2>8. of'[tab[q][x]] = of[tab[q][x]]
    BY <1>1, <2>5, <2>7
  <2>9. Half(q, x)'
    BY <2>2, <2>4, <2>8 DEF Half
  <2> QED BY <1>7, <2>1, <2>4, <2>9 DEF Half
<1>13. ClaimsOk' /\ ClaimsApart'
  <2>1. ASSUME NEW t \in Slot, HoldingOp(op'[t]) PROVE of'[op'[t].oi] = Claimed1(op'[t])
    BY <1>4, <1>6, <1>8, <1>11, <2>1 DEF ClaimsOk
  <2>2. ClaimsOk'
    BY <2>1 DEF ClaimsOk, Holding, Claimed1
  <2>3. ClaimsApart'
    BY <1>4, <1>6, <1>8 DEF ClaimsApart, Holding
  <2> QED BY <2>2, <2>3
\* Another pipe being made has no numbers, so it is left alone.
<1>14. ASSUME NEW i \in Pipes, i \notin lost
       PROVE  pipe'[i] = ps[i]
  BY <1>14
<1>15. MakingOk'
  <2> SUFFICES ASSUME NEW t \in Slot, PipingOp(op'[t])
               PROVE  /\ pipe'[op'[t].obj].used /\ pipe'[op'[t].obj].r = 0 /\ pipe'[op'[t].obj].w = 0
                      /\ \A u \in Oi : ~(of'[u].used /\ of'[u].kind = "pipe" /\ of'[u].obj = op'[t].obj)
    BY DEF MakingOk, Piping
  <2>1. Piping(t) /\ t # s /\ op'[t] = op[t] /\ op[t].obj \in Pipes
    BY <1>6, <1>8
  <2>2. PICK i \in Pipes : i = op[t].obj
    BY <2>1
  <2>3. /\ pipe[i].used /\ pipe[i].r = 0 /\ pipe[i].w = 0
        /\ \A u \in Oi : ~(of[u].used /\ of[u].kind = "pipe" /\ of[u].obj = i)
    BY <1>4, <2>1, <2>2 DEF MakingOk
  <2>4. i \notin lost
    BY <1>3, <1>4, <2>1, <2>2 DEF MakersApart
  <2>5. ASSUME NEW w \in BOOLEAN PROVE EndSlots(i, w) = {}
    <3>1. ASSUME NEW q \in Slot, NEW y \in Fd, tab[q][y] # None PROVE ~EndOf(tab[q][y], i, w)
      <4>1. tab[q][y] \in Oi /\ of[tab[q][y]].used
        BY <1>4, <1>5, <3>1, NamedUsed
      <4> QED BY <2>3, <4>1 DEF EndOf
    <3> QED BY <3>1 DEF EndSlots
  <2>6. ps[i] = pipe[i]
    <3>1. EndSlots(i, FALSE) = {} /\ EndSlots(i, TRUE) = {}
      BY <2>5
    <3> QED BY <3>1 DEF Lessens
  <2>7. pipe'[i].used /\ pipe'[i].r = 0 /\ pipe'[i].w = 0
    BY <1>14, <2>3, <2>4, <2>6
  <2>8. \A u \in Oi : ~(of'[u].used /\ of'[u].kind = "pipe" /\ of'[u].obj = i)
    BY <1>1, <2>3
  <2> QED BY <2>1, <2>2, <2>7, <2>8
<1>16. MakersApart'
  BY <1>4, <1>6, <1>8 DEF MakersApart, Piping
<1>17. HalvesOk'
  <2> SUFFICES ASSUME NEW t \in Slot, PipingOp(op'[t]), NEW x \in InHands(op'[t]) PROVE Half(Of(t), x)'
    BY <1>7 DEF HalvesOk, Piping, Half
  <2> QED BY <1>6, <1>8, <1>12
<1>18. HalvesApart'
  <2> SUFFICES ASSUME NEW t \in Slot, NEW u \in Slot, PipingOp(op'[t]), PipingOp(op'[u]),
                      Of(t) = Of(u), t # u
               PROVE  InHands(op'[t]) \cap InHands(op'[u]) = {}
    BY <1>7 DEF HalvesApart, Piping
  <2> QED BY <1>4, <1>6, <1>8 DEF HalvesApart
<1>19. \A i \in Pipes : ~BeingMade(i)' /\ i \notin lost => ~BeingMade(i)
  <2> SUFFICES ASSUME NEW i \in Pipes, BeingMade(i), i \notin lost PROVE BeingMade(i)'
    OBVIOUS
  <2>1. PICK t \in Slot : Piping(t) /\ op[t].obj = i
    BY Makers
  <2>2. t # s
    BY <1>3, <2>1
  <2>3. PipingOp(op'[t]) /\ op'[t].obj = i
    BY <1>6, <1>8, <2>1, <2>2
  <2> QED BY <2>3, MakersNext
<1>20. \A i \in Pipes : pipe'[i].used => i \notin lost /\ pipe[i].used /\ pipe'[i] = ps[i]
  BY <1>14 DEF Lessens, NoPipe
<1>21. PipeEndsExact'
  <2> SUFFICES ASSUME NEW i \in Pipes, pipe'[i].used, ~BeingMade(i)'
               PROVE  /\ pipe'[i].r = Cardinality(EndSlots(i, FALSE)')
                      /\ pipe'[i].w = Cardinality(EndSlots(i, TRUE)')
    BY DEF PipeEndsExact
  <2>1. i \notin lost /\ pipe[i].used /\ pipe'[i] = ps[i] /\ ~BeingMade(i)
    BY <1>19, <1>20
  <2>2. pipe[i].r = Cardinality(EndSlots(i, FALSE)) /\ pipe[i].w = Cardinality(EndSlots(i, TRUE))
    BY <1>4, <2>1 DEF PipeEndsExact
  <2>3. ps[i].r = Cardinality(EndSlots(i, FALSE)') /\ ps[i].w = Cardinality(EndSlots(i, TRUE)')
    BY <2>2 DEF Lessens
  <2> QED BY <2>1, <2>3
<1>22. Kept'
  <2> SUFFICES ASSUME NEW u \in Oi, of'[u].used
               PROVE  of'[u].nref > 0 \/ \E t \in Slot : HoldingOp(op'[t]) /\ op'[t].oi = u
    BY DEF Kept, Holding
  <2>1. u \notin gone /\ of[u].used
    BY <1>1
  <2>2. CASE of[u].nref > 0
    BY <1>1, <2>1, <2>2
  <2>3. CASE ~(of[u].nref > 0)
    <3>1. PICK t \in Slot : Holding(t) /\ op[t].oi = u
      BY <1>4, <2>1, <2>3 DEF Kept
    <3> QED BY <1>6, <1>8, <3>1
  <2> QED BY <2>2, <2>3
<1>23. EndsOk'
  <2> SUFFICES ASSUME NEW u \in Oi, of'[u].used, of'[u].kind = "pipe"
               PROVE  IF of'[u].obj = None THEN \E t \in Slot : MakesEnd(t, u)'
                      ELSE of'[u].obj \in Pipes /\ pipe'[of'[u].obj].used
    BY DEF EndsOk
  <2>1. u \notin gone /\ of[u].used /\ of[u].kind = "pipe" /\ of'[u].obj = of[u].obj
    BY <1>1
  <2>2. PICK A : A = Numbers(u)'
    OBVIOUS
  <2>3. IsFiniteSet(A) /\ A \subseteq Slot \X Fd /\ of'[u].nref = Cardinality(A)
    <3>1. A \subseteq Slot \X Fd
      BY <2>2 DEF Numbers
    <3>2. of'[u].nref = Cardinality(A)
      BY <2>2 DEF RefsExact
    <3> QED BY <3>1, <3>2, Finite
  <2>4. CASE of[u].obj = None
    <3>1. PICK t \in Slot : MakesEnd(t, u)
      BY <1>4, <2>1, <2>4 DEF EndsOk
    <3>2. Piping(t)
      BY <3>1 DEF MakesEnd
    <3>3. CASE t = s
      <4>1. PICK x \in InHands(op[s]) : tab[p][x] = u
        BY <1>3, <3>1, <3>3 DEF MakesEnd
      <4>2. x \in ns /\ x \in Fd /\ of[u] = HalfEnd
        BY <1>1, <1>3, <1>4, <3>2, <3>3, <4>1 DEF HalvesOk, Half
      <4>3. of[u].nref = 1
        BY <4>2 DEF HalfEnd
      <4>4. Cardinality(A) > 0
        BY <1>1, <2>1, <2>3, <4>3
      <4>5. A # {}
        BY <2>3, <4>4, FS_EmptySet
      <4>6. PICK q \in Slot, y \in Fd : <<q, y>> \in A
        BY <2>3, <4>5
      <4>7. tab'[q][y] = u /\ u # None
        BY <2>2, <4>6, Constants DEF Numbers
      <4>8. tab[q][y] = u /\ ~(q = p /\ y \in ns)
        BY <1>10, <4>7
      <4>9. q = p /\ y = x
        BY <1>1, <1>4, <1>5, <2>1, <4>1, <4>2, <4>3, <4>8, OneNumber
      <4> QED BY <4>2, <4>8, <4>9
    <3>4. CASE t # s
      <4>1. op'[t] = op[t] /\ PipingOp(op'[t])
        BY <1>6, <1>8, <3>2, <3>4
      <4>2. CASE Holding(t) /\ op[t].oi = u
        <5>1. MakesEnd(t, u)'
          BY <1>8, <4>1, <4>2 DEF MakesEnd, Piping, Holding
        <5> QED BY <2>1, <2>4, <5>1
      <4>3. CASE \E x \in InHands(op[t]) : tab[Of(t)][x] = u
        <5>1. PICK x \in InHands(op[t]) : tab[Of(t)][x] = u
          BY <4>3
        <5>2. tab'[Of(t)][x] = u
          BY <1>12, <3>2, <3>4, <5>1
        <5>3. MakesEnd(t, u)'
          BY <1>7, <4>1, <5>1, <5>2 DEF MakesEnd, Piping
        <5> QED BY <2>1, <2>4, <5>3
      <4> QED BY <3>1, <4>2, <4>3 DEF MakesEnd
    <3> QED BY <3>3, <3>4
  <2>5. CASE of[u].obj # None
    <3>1. PICK i \in Pipes : i = of[u].obj /\ pipe[i].used
      BY <1>4, <2>1, <2>5 DEF EndsOk
    <3>2. \A t \in Slot : Piping(t) => op[t].obj # i
      BY <1>4, <2>1, <3>1 DEF MakingOk
    <3>3. ~BeingMade(i) /\ i \notin lost
      BY <1>3, <3>2, Makers
    <3>4. of[u].nref > 0
      <4>1. ASSUME NEW t \in Slot, Holding(t), op[t].oi = u PROVE FALSE
        <5>1. of[u] = Claimed1(op[t])
          BY <1>4, <4>1 DEF ClaimsOk
        <5>2. op[t].k # "pipe"
          BY <1>4 DEF OpsOk, OpOk, OpRec, Makes, Ends
        <5>3. op[t].k \in Ends
          BY <2>1, <5>1, <5>2 DEF Claimed1, Blank
        <5>4. of[u].obj = None
          BY <5>1, <5>3 DEF Claimed1, Blank
        <5> QED BY <2>5, <5>4
      <4> QED BY <1>4, <2>1, <4>1 DEF Kept
    <3>5. A # {}
      BY <1>1, <2>1, <2>3, <3>4, FS_EmptySet
    <3>6. PICK q \in Slot, y \in Fd : <<q, y>> \in A
      BY <2>3, <3>5
    <3>7. PICK w \in BOOLEAN : w = of'[u].w
      BY DEF OfT, OfRec
    <3>8. <<q, y>> \in EndSlots(i, w)'
      <4>1. tab'[q][y] = u /\ u # None
        BY <2>2, <3>6, Constants DEF Numbers
      <4> QED BY <2>1, <3>1, <3>7, <4>1 DEF EndSlots, EndOf
    <3>9. PICK E : E = EndSlots(i, w)'
      OBVIOUS
    <3>10. E \subseteq Slot \X Fd /\ <<q, y>> \in E
      BY <3>8, <3>9 DEF EndSlots
    <3>11. Cardinality(E) \in Nat /\ Cardinality(E) # 0
      <4>1. IsFiniteSet(E) /\ Cardinality(E) \in Nat
        BY <3>10, Finite
      <4> QED BY <3>10, <4>1, FS_EmptySet
    <3>12. ps[i].r + ps[i].w > 0
      <4>1. /\ ps[i].r = Cardinality(EndSlots(i, FALSE)') /\ ps[i].w = Cardinality(EndSlots(i, TRUE)')
            /\ ps[i].r \in Nat /\ ps[i].w \in Nat
        <5>1. pipe[i].r = Cardinality(EndSlots(i, FALSE)) /\ pipe[i].w = Cardinality(EndSlots(i, TRUE))
          BY <1>4, <3>1, <3>3 DEF PipeEndsExact
        <5> QED BY <5>1 DEF Lessens
      <4>2. CASE w = TRUE
        <5>1. ps[i].w = Cardinality(E)
          BY <3>9, <4>1, <4>2
        <5>2. ps[i].w \in Nat /\ ps[i].r \in Nat /\ ps[i].w # 0
          BY <3>11, <4>1, <5>1
        <5> QED BY <5>2
      <4>3. CASE w = FALSE
        <5>1. ps[i].r = Cardinality(E)
          BY <3>9, <4>1, <4>3
        <5>2. ps[i].w \in Nat /\ ps[i].r \in Nat /\ ps[i].r # 0
          BY <3>11, <4>1, <5>1
        <5> QED BY <5>2
      <4> QED BY <4>2, <4>3
    <3>13. ps[i].used
      BY <3>1, <3>12 DEF Lessens
    <3>14. pipe'[i].used
      BY <1>14, <3>3, <3>13
    <3> QED BY <2>1, <2>5, <3>1, <3>14
  <2> QED BY <2>4, <2>5
<1>24. PipesOk'
  <2> SUFFICES ASSUME NEW i \in Pipes, pipe'[i].used, ~BeingMade(i)' PROVE pipe'[i].r + pipe'[i].w > 0
    BY DEF PipesOk
  <2>1. i \notin lost /\ pipe[i].used /\ pipe'[i] = ps[i] /\ ~BeingMade(i)
    BY <1>19, <1>20
  <2>2. pipe[i].r + pipe[i].w > 0
    BY <1>4, <2>1 DEF PipesOk
  <2> QED BY <2>1, <2>2 DEF Lessens
<1>25. InstancesOk'
  <2>1. ASSUME NEW u \in Oi, of'[u].used, NEW o \in gone, of[o].kind = of[u].kind, of[o].obj = of[u].obj,
               of[u].kind \in {"epoll", "evfd"}
        PROVE  FALSE
    <3>1. u \notin gone /\ of[u].used /\ of[o].used /\ o \in Oi
      BY <1>1, <2>1
    <3>2. Twins(o, u)
      BY <2>1, <3>1 DEF Twins
    <3> QED BY <1>4, <3>1, <3>2 DEF InstancesOk
  <2>2. ASSUME NEW u \in Oi, of'[u].used, of'[u].kind = "epoll"
        PROVE  of'[u].obj \in Eps /\ ep'[of'[u].obj].used
    <3>1. of[u].used /\ of[u].kind = "epoll" /\ of'[u].obj = of[u].obj
      BY <1>1, <2>2
    <3>2. PICK e \in Eps : e = of[u].obj /\ ep[e].used
      BY <1>4, <3>1 DEF InstancesOk
    <3>3. ~Dying(gone, "epoll", e)
      BY <2>1, <2>2, <3>1, <3>2 DEF Dying
    <3> QED BY <1>2, <3>1, <3>2, <3>3
  <2>3. ASSUME NEW u \in Oi, of'[u].used, of'[u].kind = "evfd"
        PROVE  of'[u].obj \in Evs /\ evfd'[of'[u].obj].used
    <3>1. of[u].used /\ of[u].kind = "evfd" /\ of'[u].obj = of[u].obj
      BY <1>1, <2>3
    <3>2. PICK v \in Evs : v = of[u].obj /\ evfd[v].used
      BY <1>4, <3>1 DEF InstancesOk
    <3>3. ~Dying(gone, "evfd", v)
      BY <2>1, <2>3, <3>1, <3>2 DEF Dying
    <3> QED BY <1>2, <3>1, <3>2, <3>3
  <2>4. ASSUME NEW e \in Eps, ep'[e].used
        PROVE  \E u \in Oi : of'[u].used /\ of'[u].kind = "epoll" /\ of'[u].obj = e
    <3>1. ~Dying(gone, "epoll", e) /\ ep[e].used
      BY <1>2, <2>4
    <3>2. PICK u \in Oi : of[u].used /\ of[u].kind = "epoll" /\ of[u].obj = e
      BY <1>4, <3>1 DEF InstancesOk
    <3>3. u \notin gone
      BY <3>1, <3>2 DEF Dying
    <3> QED BY <1>1, <3>2, <3>3
  <2>5. ASSUME NEW v \in Evs, evfd'[v].used
        PROVE  \E u \in Oi : of'[u].used /\ of'[u].kind = "evfd" /\ of'[u].obj = v
    <3>1. ~Dying(gone, "evfd", v) /\ evfd[v].used
      BY <1>2, <2>5 DEF NoEvent
    <3>2. PICK u \in Oi : of[u].used /\ of[u].kind = "evfd" /\ of[u].obj = v
      BY <1>4, <3>1 DEF InstancesOk
    <3>3. u \notin gone
      BY <3>1, <3>2 DEF Dying
    <3> QED BY <1>1, <3>2, <3>3
  <2>6. \A u, w \in Oi : Twins(u, w)' => u = w
    <3>1. \A u, w \in Oi : Twins(u, w)' => Twins(u, w)
      BY <1>1 DEF Twins
    <3> QED BY <1>4, <3>1 DEF InstancesOk
  <2> QED BY <2>2, <2>3, <2>4, <2>5, <2>6 DEF InstancesOk
<1>26. PipeT' /\ NameT'
  <2>1. \A i \in Pipes : pipe'[i] \in [used : BOOLEAN, r : Nat, w : Nat, has : BOOLEAN]
    BY <1>14 DEF Lessens, NoPipe
  <2> QED BY <1>5, <2>1 DEF PipeT, NameT
<1>27. HandOk' /\ TransferHeld'
  <2>1. \A t \in Slot : op[t].k \in {"give", "redirect"} => op[t].n \in Fd
    BY <1>4, Constants DEF OpsOk, OpOk, OpRec, Shape
  <2>2. \A t \in Slot \ {s} : op[t].k \in {"give", "redirect"} => Of(t) # p
    BY <1>4 DEF AloneOk, Alone, Of
  <2>3. ASSUME NEW t \in Slot, op'[t].k = "redirect" PROVE tab'[Of(t)][op'[t].n] # None
    <3>1. t # s /\ op'[t] = op[t] /\ op[t].n \in Fd
      BY <1>3, <1>6, <2>1, <2>3
    <3>2. tab[Of(t)][op[t].n] # None
      BY <1>4, <2>3, <3>1 DEF HandOk
    <3> QED BY <1>7, <1>9, <2>2, <2>3, <3>1, <3>2
  <2>4. ASSUME NEW t \in Slot, op'[t].k = "give", op'[t].pc \in {"install", "full", "grow", "drop"}
        PROVE  of'[op'[t].oi].used /\ tab'[Of(t)][op'[t].n] = op'[t].oi
    <3>1. t # s /\ op'[t] = op[t] /\ op[t].n \in Fd
      BY <1>3, <1>6, <2>1, <2>4
    <3>2. of[op[t].oi].used /\ tab[Of(t)][op[t].n] = op[t].oi
      BY <1>4, <2>4, <3>1 DEF TransferHeld
    <3>3. op[t].oi \in Oi
      BY <1>4, <2>4, <3>1 DEF OpsOk, OpOk, Shape, Filling
    <3>4. tab'[Of(t)][op[t].n] = op[t].oi
      BY <1>7, <1>9, <2>2, <2>4, <3>1, <3>2
    <3>5. op[t].oi \notin gone
      BY <1>7, <1>10, <3>1, <3>3, <3>4, Constants
    <3> QED BY <1>1, <3>1, <3>2, <3>3, <3>4, <3>5
  <2> QED BY <1>7, <2>3, <2>4 DEF HandOk, TransferHeld
<1>28. WatchOk' /\ Unwatching'
  <2>1. Watchful(op[s], f)
    BY <1>3 DEF Watchful
  <2>2. \A e \in Eps : ep'[e].watch \subseteq ep[e].watch
    BY <1>2
  <2>3. Unwatching'
    BY <1>3, <1>4, <2>1, <2>2, UnwatchingStays
  <2>4. ASSUME NEW e \in Eps, NEW x \in ep'[e].watch
        PROVE  ep'[e].used /\ of'[x.oi].used /\ of'[x.oi].nref > 0
    <3>1. ~Dying(gone, "epoll", e)
      BY <1>2
    <3>2. x \in ep[e].watch /\ x.oi \notin gone /\ ep'[e].used = ep[e].used
      BY <1>2, <3>1
    <3>3. x.oi \in Oi /\ ep[e].used /\ of[x.oi].used /\ of[x.oi].nref > 0
      BY <1>4, <1>5, <3>2 DEF WatchOk, EpT
    <3> QED BY <1>1, <3>2, <3>3
  <2> QED BY <2>3, <2>4 DEF WatchOk
<1>29. RedirOk'
  <2> SUFFICES ASSUME NEW q \in Slot, redir'[q] # None PROVE tab'[q][redir'[q]] # None
    BY DEF RedirOk
  <2>1. redir'[q] = redir[q] /\ (q = p => redir[q] \notin ns)
    BY <1>1, <1>2, <1>5 DEF RedirAfter, RedirT
  <2>2. redir[q] \in Fd /\ tab[q][redir[q]] # None
    BY <1>4, <1>5, <2>1 DEF RedirT, RedirOk
  <2> QED BY <1>9, <2>1, <2>2
<1>30. UnlinksOk'
  BY <1>1, <1>3, <1>4, UnlinksStay
<1>31. Calls1'
  BY <1>6, <1>13, <1>15, <1>16, <1>17, <1>18 DEF Calls1
<1>32. Tables'
  BY <1>21, <1>22, <1>23, <1>24, <1>25 DEF Tables
<1>33. Sides'
  BY <1>27, <1>28, <1>29, <1>30 DEF Sides
<1>34. Types'
  BY <1>26 DEF Types
<1> QED BY <1>31, <1>32, <1>33, <1>34 DEF FInv

\* A release by a process that goes on living.
LEMMA TakenKeeps ==
    ASSUME Orderly, FInv, NEW s \in Slot, NEW f, NEW p, p = Of(s), NEW asked \in SUBSET Fd,
           NEW ns, ns = Held(p, asked), NEW lost, Releases(p, asked),
           NEW ps, ps = PipesAfter(p, asked),
           pipe' = [i \in Pipes |-> IF i \in lost THEN NoPipe ELSE ps[i]],
           Yields(s, f, ns, lost), Moves(s, f), life[p] = "live",
           UNCHANGED <<setting, size, name, mail, life>>
    PROVE  FInv'
<1>1. Types /\ OpsOk /\ RefsExact /\ Lives
  BY DEF FInv, Calls1, Tables
<1>2. /\ OfT /\ TabT /\ SizedT /\ SizeT /\ EpT /\ EvT /\ RedirT /\ PipeT /\ NameT /\ LifeT /\ MailT
      /\ p \in Slot
  BY <1>1, Chosen DEF Types, NameT
<1>3. /\ \E gone : Drops(p, ns, gone) /\ Clears(p, ns, gone)
      /\ TabT' /\ OfT' /\ EpT' /\ EvT' /\ RedirT' /\ RefsExact' /\ hint' \in [Slot -> 0 .. FdMax]
  BY <1>1, <1>2, ReleasesEffect
<1>4. PICK gone : Drops(p, ns, gone) /\ Clears(p, ns, gone)
  BY <1>3
<1>5. Lessens(ps)
  BY <1>2, <1>4, PipesLessen
<1>6. /\ \A q \in Slot \ {p} : tab'[q] = tab[q]
      /\ \A n \in Fd : tab'[p][n] = IF n \in ns THEN None ELSE tab[p][n]
  BY <1>4 DEF Drops
<1>7. redir' = [redir EXCEPT ![p] = RedirAfter(p, ns)]
  BY <1>4 DEF Clears
<1>8. SizedT' /\ SizeT' /\ MailT' /\ LifeT'
  <2>1. SizeT' /\ MailT' /\ LifeT'
    BY <1>2, <1>3 DEF SizeT, MailT, LifeT
  <2>2. SizedT'
    BY <1>2, <1>6 DEF SizedT
  <2> QED BY <2>1, <2>2
<1>9. Gentle(s)
  BY <1>2, <1>6, <1>7 DEF Gentle, RedirAfter, RedirT
<1>10. Lives'
  <2>1. Go(s, f)
    BY DEF Yields
  <2> QED BY <1>1, <1>2, <1>9, <2>1, LivesStay
<1> QED BY <1>3, <1>4, <1>5, <1>8, <1>10, ReleaseStep

\* A close, by a program or of a number it rejects.
LEMMA CloseKeeps ==
    ASSUME Orderly, FInv, NEW s \in Slot, NEW n \in Fd, Close(s, n), ~Piping(s), ~Holding(s),
           op[s].to = None, life[Of(s)] = "live",
           \A t \in Slot \ {s} : Of(t) = Of(s) => n \notin InHands(op[t])
    PROVE  FInv'
<1>1. PICK p, asked, ns, lost, ps, os : /\ p = Of(s) /\ asked = {n} /\ ns = Held(p, asked) /\ lost = {}
                                        /\ ps = PipesAfter(p, asked) /\ os = Eof(of', pipe')
  OBVIOUS
<1>2. PICK f : f = (IF os = {} THEN User ELSE [User EXCEPT !.pc = "notify", !.todo = os])
  OBVIOUS
<1>3. /\ Releases(p, asked) /\ pipe' = ps /\ Go(s, f)
      /\ UNCHANGED <<setting, size, name, mail, life>>
  BY <1>1, <1>2 DEF Close, Telling
<1>4. os \in SUBSET Oi
  BY <1>1 DEF Eof, ReadEnds
<1>5. OpOk(f) /\ Moves(s, f) /\ NoFile(s, f) /\ ~PipingOp(f) /\ ~HoldingOp(f)
  BY <1>2, <1>4, Rests
<1>6. f.k = "none"
  BY <1>2 DEF User
<1>7. ns \subseteq asked
  BY <1>1 DEF Held
<1>8. Yields(s, f, ns, lost)
  BY <1>1, <1>3, <1>5, <1>6, <1>7 DEF Yields
<1>9. ps = [i \in Pipes |-> IF i \in lost THEN NoPipe ELSE ps[i]]
  BY <1>1 DEF PipesAfter
<1>10. asked \in SUBSET Fd /\ life[p] = "live"
  BY <1>1
<1> QED BY <1>1, <1>3, <1>5, <1>8, <1>9, <1>10, TakenKeeps

LEMMA SysCloseKeeps ==
    ASSUME Orderly, FInv, NEW s \in Slot, NEW n \in Fd, SysClose(s, n)
    PROVE  FInv'
<1>1. Close(s, n) /\ At(s, "user") /\ life[Of(s)] = "live" /\ ~InHand(s, n)
  BY DEF SysClose, Calls
<1>2. op[s] = User /\ ~Piping(s) /\ ~Holding(s)
  BY <1>1, Starts DEF Piping, Holding
<1>3. op[s].to = None
  BY <1>2 DEF User
<1>4. \A t \in Slot \ {s} : Of(t) = Of(s) => n \notin InHands(op[t])
  BY <1>1 DEF InHand, InHands
<1> QED BY <1>1, <1>2, <1>3, <1>4, CloseKeeps

LEMMA RejectKeeps ==
    ASSUME Orderly, FInv, NEW s \in Slot, Reject(s)
    PROVE  FInv'
<1>1. PICK n : n = op[s].n
  OBVIOUS
<1>2. Close(s, n) /\ op[s].pc = "reject"
  BY <1>1 DEF Reject, At
<1>3. OpOk(op[s]) /\ IdleOk /\ AloneOk
  BY DEF FInv, Calls1, OpsOk, Lives
<1>4. /\ n \in Fd /\ op[s].k = "none" /\ op[s].to = None
  BY <1>1, <1>2, <1>3, Constants DEF OpOk, OpRec, Shape
<1>5. ~Piping(s) /\ ~Holding(s)
  BY <1>2, <1>4 DEF Piping, Holding, PipingOp, HoldingOp, Ends, Filling
<1>6. life[Of(s)] = "live"
  BY <1>2, <1>3 DEF IdleOk
<1>7. \A t \in Slot \ {s} : Of(t) # Of(s)
  BY <1>2, <1>3 DEF AloneOk, Alone, Of
<1> QED BY <1>2, <1>4, <1>5, <1>6, <1>7, CloseKeeps

\* The sender's number goes once the recipient has its own.
LEMMA DropKeeps ==
    ASSUME Orderly, FInv, NEW s \in Slot, Drop(s)
    PROVE  FInv'
<1>1. PICK p, asked, ns, lost, ps, f : /\ p = Of(s) /\ asked = {op[s].n} /\ ns = Held(p, asked)
                                       /\ lost = {} /\ ps = PipesAfter(p, asked)
                                       /\ f = [op[s] EXCEPT !.pc = "post"]
  OBVIOUS
<1>2. /\ op[s].pc = "drop" /\ Releases(p, asked) /\ pipe' = ps /\ Go(s, f)
      /\ UNCHANGED <<setting, size, name, mail, life>>
  BY <1>1 DEF Drop, At
<1>3. OpOk(op[s]) /\ IdleOk /\ AloneOk /\ GivesOk
  BY DEF FInv, Calls1, OpsOk, Lives
<1>4. /\ op[s] \in OpRec(Objects) /\ op[s].k = "give" /\ op[s].n \in Fd /\ op[s].n # None
      /\ op[s].m # None /\ op[s].to # None
  BY <1>2, <1>3, Constants DEF OpOk, OpRec, Shape
<1>5. /\ f \in OpRec(Objects) /\ f.pc = "post" /\ f.k = "give" /\ f.n = op[s].n /\ f.m = op[s].m
      /\ f.to = op[s].to
  BY <1>1, <1>4 DEF OpRec
<1>6. OpOk(f)
  BY <1>4, <1>5 DEF OpOk, Shape, Filling, Ends
<1>7. /\ ~PipingOp(f) /\ ~HoldingOp(f) /\ NoFile(s, f) /\ ~Piping(s) /\ ~Holding(s)
  BY <1>4, <1>5 DEF Piping, Holding, PipingOp, HoldingOp, NoFile, Ends, Filling
<1>8. life[p] = "live" /\ life[op[s].to] = "live" /\ Alone(setting, s)
  BY <1>1, <1>2, <1>3, <1>4 DEF IdleOk, AloneOk, GivesOk
<1>9. \A t \in Slot \ {s} : Of(t) # Of(s)
  BY <1>8 DEF Alone, Of
<1>10. Moves(s, f)
  BY <1>1, <1>4, <1>5, <1>8 DEF Moves
<1>11. Yields(s, f, ns, lost)
  BY <1>1, <1>2, <1>5, <1>6, <1>7, <1>9 DEF Yields
<1>12. ps = [i \in Pipes |-> IF i \in lost THEN NoPipe ELSE ps[i]] /\ asked \in SUBSET Fd
  BY <1>1, <1>4 DEF PipesAfter
<1> QED BY <1>1, <1>2, <1>8, <1>10, <1>11, <1>12, TakenKeeps

\* A pipe that could not be made: the ring goes back, and the number its read end has.
LEMMA UnpipeKeeps ==
    ASSUME Orderly, FInv, NEW s \in Slot, Unpipe(s)
    PROVE  FInv'
<1>1. PICK p, asked, ns, i, lost, ps :
        /\ p = Of(s) /\ asked = (IF op[s].k = "write" THEN {op[s].n} ELSE {}) /\ ns = Held(p, asked)
        /\ i = op[s].obj /\ lost = {i} /\ ps = PipesAfter(p, asked)
  OBVIOUS
<1>2. /\ op[s].pc = "unpipe" /\ Releases(p, asked) /\ pipe' = [ps EXCEPT ![i] = NoPipe] /\ Go(s, User)
      /\ UNCHANGED <<setting, size, name, mail, life>>
  BY <1>1 DEF Unpipe, At
<1>3. /\ OpOk(op[s]) /\ IdleOk /\ AloneOk /\ HalvesOk /\ HalvesApart /\ TabT /\ SizedT /\ SizeT /\ OfT
      /\ RefsExact /\ NameT
  BY DEF FInv, Calls1, OpsOk, Lives, Types, Tables
<1>4. /\ op[s].k \in Ends /\ i \in Pipes /\ op[s].m = None /\ op[s].to = None
      /\ op[s].n \in Fd \cup {None} /\ (op[s].n # None <=> op[s].k = "write")
  BY <1>1, <1>2, <1>3 DEF OpOk, OpRec, Shape, Ends
<1>5. Piping(s) /\ ~Holding(s) /\ InHands(op[s]) = asked /\ asked \in SUBSET Fd
  BY <1>1, <1>2, <1>4, Constants DEF Piping, Holding, PipingOp, HoldingOp, Filling, Ends, InHands
<1>6. p \in Slot /\ life[p] = "live"
  BY <1>1, <1>2, <1>3, Chosen DEF IdleOk, NameT
<1>7. ns = asked
  <2>1. \A n \in asked : tab[p][n] # None
    BY <1>1, <1>3, <1>5 DEF HalvesOk, Half
  <2>2. \A n \in asked : Named(p, n) = tab[p][n]
    BY <1>3, <1>5, <1>6, NamedIs
  <2> QED BY <1>1, <2>1, <2>2 DEF Held
<1>8. OpOk(User) /\ Moves(s, User) /\ NoFile(s, User) /\ ~PipingOp(User) /\ ~HoldingOp(User)
  <2>1. PICK os, f : os = {} /\ f = User
    OBVIOUS
  <2>2. os \in SUBSET Oi /\ f = (IF os = {} THEN User ELSE [User EXCEPT !.pc = "notify", !.todo = os])
    BY <2>1
  <2>3. OpOk(f) /\ Moves(s, f) /\ NoFile(s, f) /\ ~PipingOp(f) /\ ~HoldingOp(f)
    BY <1>4, <2>2, Rests
  <2> QED BY <2>1, <2>3
<1>9. \A t \in Slot \ {s} : Piping(t) /\ Of(t) = Of(s) => InHands(op[t]) \cap ns = {}
  BY <1>3, <1>5, <1>7 DEF HalvesApart
<1>10. PICK f : f = User
  OBVIOUS
<1>11. Yields(s, f, ns, lost)
  <2>1. f.k = "none"
    BY <1>10 DEF User
  <2> QED BY <1>1, <1>2, <1>5, <1>7, <1>8, <1>9, <1>10, <2>1 DEF Yields
<1>12. pipe' = [j \in Pipes |-> IF j \in lost THEN NoPipe ELSE ps[j]]
  BY <1>1, <1>2, <1>4 DEF PipesAfter
<1>13. Moves(s, f)
  BY <1>8, <1>10
<1> QED BY <1>1, <1>2, <1>5, <1>6, <1>11, <1>12, <1>13, TakenKeeps

\* A process's teardown: every number goes, its queue and its redirection.
LEMMA ExitKeeps ==
    ASSUME Orderly, FInv, NEW s \in Slot, Exit(s)
    PROVE  FInv'
<1>1. PICK asked, ns, lost, ps, os : /\ asked = Fd /\ ns = Held(s, asked) /\ lost = {}
                                     /\ ps = PipesAfter(s, asked) /\ os = Eof(of', pipe')
  OBVIOUS
<1>2. PICK f : f = (IF os = {} THEN User ELSE [User EXCEPT !.pc = "notify", !.todo = os])
  OBVIOUS
<1>3. /\ Releases(s, asked) /\ pipe' = ps /\ Go(s, f)
      /\ At(s, "user") /\ life[s] = "live" /\ Of(s) = s
      /\ \A t \in Slot : Of(t) = s => op[t].pc = "user"
      /\ \A t \in Slot : op[t].to # s
      /\ mail' = [mail EXCEPT ![s] = <<>>] /\ size' = [size EXCEPT ![s] = Inline]
      /\ life' = [life EXCEPT ![s] = "dead"]
      /\ UNCHANGED <<setting, name>>
  BY <1>1, <1>2 DEF Exit, Telling, Calls, At
<1>4. /\ Types /\ OpsOk /\ RefsExact /\ RedirOk
      /\ IdleOk /\ DeadOk /\ LeadOk /\ GivesOk /\ HeirsOk /\ AloneOk
  BY DEF FInv, Calls1, Tables, Sides, Lives
<1>5. /\ OfT /\ TabT /\ SizedT /\ SizeT /\ EpT /\ EvT /\ RedirT /\ PipeT /\ NameT /\ LifeT /\ MailT
  BY <1>4 DEF Types
<1>6. op[s] = User /\ op[s].to = None /\ ~Piping(s) /\ ~Holding(s)
  <2>1. op[s] = User /\ ~Piping(s) /\ ~Holding(s)
    BY <1>3, Starts DEF Piping, Holding
  <2> QED BY <2>1 DEF User
<1>7. os \in SUBSET Oi
  BY <1>1 DEF Eof, ReadEnds
<1>8. OpOk(f) /\ NoFile(s, f) /\ ~PipingOp(f) /\ ~HoldingOp(f)
  BY <1>2, <1>6, <1>7, Rests
<1>9. f.k = "none" /\ f.pc \in {"user", "notify"} /\ f.to = None
  BY <1>2 DEF User
<1>10. op'[s] = f /\ \A t \in Slot \ {s} : op'[t] = op[t]
  BY <1>3, <1>4, GoFacts
<1>11. asked \in SUBSET Fd
  BY <1>1
<1>12. /\ \A n \in Fd : n \in ns <=> n \in asked /\ tab[s][n] # None
       /\ \E gone : Drops(s, ns, gone) /\ Clears(s, ns, gone)
       /\ TabT' /\ OfT' /\ EpT' /\ EvT' /\ RedirT' /\ RefsExact' /\ hint' \in [Slot -> 0 .. FdMax]
  BY <1>1, <1>3, <1>4, <1>5, <1>11, ReleasesEffect
<1>13. PICK gone : Drops(s, ns, gone) /\ Clears(s, ns, gone)
  BY <1>12
<1>14. Lessens(ps)
  BY <1>1, <1>5, <1>13, PipesLessen
<1>15. /\ \A q \in Slot \ {s} : tab'[q] = tab[q]
       /\ \A n \in Fd : tab'[s][n] = None
  <2>1. /\ \A q \in Slot \ {s} : tab'[q] = tab[q]
        /\ \A n \in Fd : tab'[s][n] = IF n \in ns THEN None ELSE tab[s][n]
    BY <1>13 DEF Drops
  <2> QED BY <1>1, <1>12, <2>1
<1>16. redir'[s] = None /\ \A q \in Slot \ {s} : redir'[q] = redir[q]
  <2>1. redir' = [redir EXCEPT ![s] = RedirAfter(s, ns)]
    BY <1>13 DEF Clears
  <2>2. redir[s] # None => redir[s] \in ns
    BY <1>1, <1>4, <1>5, <1>12 DEF RedirOk, RedirT
  <2> QED BY <1>5, <2>1, <2>2 DEF RedirAfter, RedirT
<1>17. SizedT' /\ SizeT' /\ MailT' /\ LifeT'
  <2>1. SizeT' /\ LifeT'
    BY <1>3, <1>5, <1>12 DEF SizeT, LifeT
  <2>2. SizedT'
    BY <1>3, <1>5, <1>15 DEF SizedT, SizeT
  <2>3. MailT'
    <3>1. <<>> \in Seq(Fd) /\ Len(<<>>) <= QLen
      BY Constants
    <3> QED BY <1>3, <1>5, <3>1 DEF MailT
  <2> QED BY <2>1, <2>2, <2>3
<1>18. Yields(s, f, ns, lost)
  <2>1. \A t \in Slot \ {s} : Of(t) = Of(s) => ~Piping(t)
    <3>1. \A t \in Slot : op[t].pc = "user" => ~Piping(t)
      <4>1. \A t \in Slot : op[t].pc = "user" => op[t] = User
        BY <1>4 DEF OpsOk, OpOk, Shape
      <4> QED BY <4>1 DEF Piping, PipingOp, User, Ends
    <3> QED BY <1>3, <3>1
  <2> QED BY <1>1, <1>3, <1>6, <1>8, <1>9, <2>1 DEF Yields
<1>19. \A t \in Slot : Of(t)' = Of(t) /\ Of(t) \in Slot
  BY <1>3, <1>5, Chosen DEF Of, NameT
<1>20. life'[s] = "dead" /\ mail'[s] = <<>>
       /\ \A q \in Slot \ {s} : life'[q] = life[q] /\ mail'[q] = mail[q]
  BY <1>3, <1>5 DEF LifeT, MailT
<1>21. Lives'
  <2>1. IdleOk'
    <3> SUFFICES ASSUME NEW t \in Slot, life'[Of(t)] # "live" PROVE op'[t].pc \in {"user", "notify"}
      BY <1>19 DEF IdleOk
    <3>1. CASE Of(t) = s
      BY <1>3, <1>9, <1>10, <3>1
    <3>2. CASE Of(t) # s
      <4>1. life[Of(t)] # "live" /\ t # s
        BY <1>3, <1>19, <1>20, <3>2
      <4> QED BY <1>4, <1>10, <4>1 DEF IdleOk
    <3> QED BY <3>1, <3>2
  <2>2. DeadOk'
    <3> SUFFICES ASSUME NEW q \in Slot, life'[q] # "live"
                 PROVE  /\ redir'[q] = None /\ mail'[q] = <<>>
                        /\ (\A t \in Slot : op'[t].to # q) => \A n \in Fd : tab'[q][n] = None
      BY DEF DeadOk
    <3>1. CASE q = s
      BY <1>15, <1>16, <1>20, <3>1
    <3>2. CASE q # s
      <4>1. life[q] # "live" /\ q # None
        BY <1>20, <3>2, Constants
      <4>2. /\ redir[q] = None /\ mail[q] = <<>>
            /\ (\A t \in Slot : op[t].to # q) => \A n \in Fd : tab[q][n] = None
        BY <1>4, <4>1 DEF DeadOk
      <4>3. (\A t \in Slot : op'[t].to # q) => \A t \in Slot : op[t].to # q
        BY <1>6, <1>10, <4>1
      <4> QED BY <1>15, <1>16, <1>20, <3>2, <4>2, <4>3
    <3> QED BY <3>1, <3>2
  <2>3. LeadOk'
    BY <1>4, <1>19, <1>20 DEF LeadOk
  <2>4. GivesOk'
    <3> SUFFICES ASSUME NEW t \in Slot, op'[t].k = "give" PROVE life'[op'[t].to] = "live"
      BY DEF GivesOk
    <3>1. t # s /\ op'[t] = op[t]
      BY <1>9, <1>10
    <3>2. life[op[t].to] = "live" /\ op[t].to # s
      BY <1>3, <1>4, <3>1 DEF GivesOk
    <3>3. op[t].to \in Slot
      BY <1>4, <3>1 DEF OpsOk, OpOk, OpRec, Shape
    <3> QED BY <1>20, <3>1, <3>2, <3>3
  <2>5. HeirsOk'
    <3> SUFFICES ASSUME NEW t \in Slot, op'[t].pc = "heir"
                 PROVE  /\ life'[op'[t].to] # "live" /\ Of(op'[t].to) = op'[t].to
                        /\ \A u \in Slot : op'[u].to = op'[t].to => u = t
                        /\ redir'[Of(t)] # None => tab'[op'[t].to][redir'[Of(t)]] # None
      BY <1>3, <1>19 DEF HeirsOk, Of
    <3>1. t # s /\ op'[t] = op[t] /\ op[t].pc = "heir"
      BY <1>9, <1>10
    <3>2. /\ life[op[t].to] # "live" /\ Of(op[t].to) = op[t].to
          /\ \A u \in Slot : op[u].to = op[t].to => u = t
          /\ redir[Of(t)] # None => tab[op[t].to][redir[Of(t)]] # None
      BY <1>4, <3>1 DEF HeirsOk
    <3>3. op[t].to \in Slot /\ op[t].to # s
      BY <1>3, <1>4, <3>1 DEF OpsOk, OpOk, OpRec, Shape
    <3>4. \A u \in Slot : op'[u].to = op[t].to => u = t
      BY <1>9, <1>10, <3>2, <3>3, Constants
    <3>5. Of(t) # s
      BY <1>3, <3>1
    <3> QED BY <1>15, <1>16, <1>19, <1>20, <3>1, <3>2, <3>3, <3>4, <3>5
  <2>6. AloneOk'
    BY <1>3, <1>4, <1>9, <1>10 DEF AloneOk
  <2> QED BY <2>1, <2>2, <2>3, <2>4, <2>5, <2>6 DEF Lives
<1>22. pipe' = [i \in Pipes |-> IF i \in lost THEN NoPipe ELSE ps[i]]
  BY <1>1, <1>3 DEF PipesAfter
<1> QED BY <1>3, <1>12, <1>13, <1>14, <1>17, <1>18, <1>21, <1>22, ReleaseStep

-----------------------------------------------------------------------------
(* The invariant holds at the start, and every step keeps it. *)

LEMMA NothingNumbered ==
    ASSUME Init
    PROVE  /\ \A p \in Slot, n \in Fd : tab[p][n] = None
           /\ \A o \in Oi : Numbers(o) = {} /\ ~of[o].used
           /\ \A s \in Slot : /\ op[s] = User /\ op[s].pc = "user" /\ op[s].k = "none" /\ op[s].to = None
                              /\ ~Piping(s) /\ ~Holding(s)
<1>1. \A p \in Slot, n \in Fd : tab[p][n] = None
  BY DEF Init
<1>2. \A o \in Oi : Numbers(o) = {} /\ ~of[o].used
  BY <1>1, Constants DEF Init, Numbers, Blank
<1>3. \A s \in Slot : /\ op[s] = User /\ op[s].pc = "user" /\ op[s].k = "none" /\ op[s].to = None
                      /\ ~Piping(s) /\ ~Holding(s)
  BY DEF Init, User, Piping, Holding, PipingOp, HoldingOp, Ends, Filling
<1> QED BY <1>1, <1>2, <1>3

LEMMA InitTypes ==
    ASSUME Init
    PROVE  Types
<1>1. OfT
  <2>1. Blank \in OfRec
    BY DEF Blank, OfRec, Kinds, Objects
  <2> QED BY <2>1 DEF Init, OfT
<1>2. TabT /\ SizedT /\ NameT /\ RedirT /\ LifeT
  BY DEF Init, TabT, SizedT, NameT, RedirT, LifeT
<1>3. SizeT
  BY Constants DEF Init, SizeT
<1>4. PipeT /\ EvT
  BY DEF Init, PipeT, EvT, NoPipe, NoEvent
<1>5. EpT
  <2>1. Cardinality({}) <= MaxWatch
    BY FS_EmptySet, Constants
  <2> QED BY <2>1 DEF Init, EpT
<1>6. MailT
  <2>1. <<>> \in Seq(Fd) /\ Len(<<>>) <= QLen
    BY Constants
  <2> QED BY <2>1 DEF Init, MailT
<1> QED BY <1>1, <1>2, <1>3, <1>4, <1>5, <1>6 DEF Types

LEMMA InitKeeps ==
    ASSUME Orderly, Init
    PROVE  FInv
<1>1. /\ \A p \in Slot, n \in Fd : tab[p][n] = None
      /\ \A o \in Oi : Numbers(o) = {} /\ ~of[o].used
      /\ \A s \in Slot : /\ op[s] = User /\ op[s].pc = "user" /\ op[s].k = "none" /\ op[s].to = None
                         /\ ~Piping(s) /\ ~Holding(s)
  BY NothingNumbered
<1>2. /\ \A i \in Pipes : ~pipe[i].used
      /\ \A e \in Eps : ~ep[e].used /\ ep[e].watch = {}
      /\ \A v \in Evs : ~evfd[v].used
      /\ \A p \in Slot : redir[p] = None /\ mail[p] = <<>>
      /\ \A p \in Slot : life[p] = "live" => p \in setting.boot
  BY DEF Init, NoPipe, NoEvent
<1>3. Types
  BY InitTypes
<1>4. OpsOk
  <2>1. User \in OpRec(Objects)
    BY DEF User, OpRec, Makes, Objects
  <2>2. OpOk(User)
    BY <2>1 DEF OpOk, Shape, User, Filling, Ends
  <2> QED BY <1>1, <2>2 DEF Init, OpsOk
<1>5. Calls1
  BY <1>1, <1>4 DEF Calls1, ClaimsOk, ClaimsApart, MakingOk, MakersApart, HalvesOk, HalvesApart
<1>6. Tables
  BY <1>1, <1>2 DEF Tables, RefsExact, PipeEndsExact, Kept, EndsOk, PipesOk, InstancesOk, Twins
<1>7. Sides
  BY <1>1, <1>2 DEF Sides, Unwatching, WatchOk, RedirOk, UnlinksOk, HandOk, TransferHeld
<1>8. Lives
  <2>1. \A p \in Slot : life[p] = "live" => Of(p) = p
    BY <1>2, Chosen DEF Init
  <2> QED BY <1>1, <1>2, <2>1 DEF Lives, IdleOk, DeadOk, LeadOk, GivesOk, HeirsOk, AloneOk
<1> QED BY <1>3, <1>5, <1>6, <1>7, <1>8 DEF FInv

LEMMA StutterKeeps ==
    ASSUME FInv, UNCHANGED vars
    PROVE  FInv'
<1>1. UNCHANGED <<setting, of, tab, size, hint, pipe, ep, evfd, name, redir, mail, life, op>>
  BY DEF vars, table
<1>2. Types'
  BY <1>1 DEF FInv, Types, OfT, TabT, SizedT, SizeT, PipeT, EpT, EvT, NameT, RedirT, MailT, LifeT
<1>3. Calls1'
  BY <1>1 DEF FInv, Calls1, OpsOk, ClaimsOk, ClaimsApart, MakingOk, MakersApart, HalvesOk, HalvesApart,
              Piping, Holding, Of, Half
<1>4. Tables'
  <2>1. RefsExact'
    BY <1>1 DEF FInv, Tables, RefsExact, Numbers
  <2>2. PipeEndsExact' /\ PipesOk'
    <3>1. \A i \in Pipes : BeingMade(i)' <=> BeingMade(i)
      BY <1>1 DEF BeingMade, At
    <3>2. \A i, w : EndSlots(i, w)' = EndSlots(i, w)
      BY <1>1 DEF EndSlots, EndOf
    <3> QED BY <1>1, <3>1, <3>2 DEF FInv, Tables, PipeEndsExact, PipesOk
  <2>3. Kept'
    BY <1>1 DEF FInv, Tables, Kept, Holding
  <2>4. EndsOk'
    BY <1>1 DEF FInv, Tables, EndsOk, MakesEnd, Piping, Holding, Of
  <2>5. InstancesOk'
    BY <1>1 DEF FInv, Tables, InstancesOk, Twins
  <2> QED BY <2>1, <2>2, <2>3, <2>4, <2>5 DEF Tables
<1>5. Sides'
  BY <1>1 DEF FInv, Sides, Unwatching, WatchOk, RedirOk, UnlinksOk, HandOk, TransferHeld, Holding, Of
<1>6. Lives'
  BY <1>1 DEF FInv, Lives, IdleOk, DeadOk, LeadOk, GivesOk, HeirsOk, AloneOk, Of
<1> QED BY <1>2, <1>3, <1>4, <1>5, <1>6 DEF FInv

LEMMA MakingKeeps ==
    ASSUME Orderly, FInv, NEW s \in Slot, Making(s)
    PROVE  FInv'
<1>1. CASE Pipe(s)
  BY <1>1, RingKeeps
<1>2. CASE New(s)
  BY <1>2, NewKeeps
<1>3. CASE EpollCreate(s)
  BY <1>3, EpollCreateKeeps
<1>4. CASE Install(s)
  BY <1>4, InstallKeeps
<1>5. CASE Full(s)
  BY <1>5, FullKeeps
<1>6. CASE Grow(s)
  BY <1>6, GrowKeeps
<1>7. CASE Undo(s)
  BY <1>7, UndoGiveKeeps, UndoClaimKeeps
<1>8. CASE Unpipe(s)
  BY <1>8, UnpipeKeeps
<1>9. CASE Mark(s)
  BY <1>9, MarkKeeps
<1>10. ASSUME NEW g \in File, Open(s, g) PROVE FInv'
  BY <1>10, OpenKeeps
<1>11. ASSUME NEW has \in BOOLEAN, Eventfd(s, has) PROVE FInv'
  BY <1>11, EventfdKeeps
<1> QED BY <1>1, <1>2, <1>3, <1>4, <1>5, <1>6, <1>7, <1>8, <1>9, <1>10, <1>11 DEF Making

LEMMA ClosingKeeps ==
    ASSUME Orderly, FInv, NEW s \in Slot, Closing(s)
    PROVE  FInv'
<1>1. CASE Exit(s)
  BY <1>1, ExitKeeps
<1>2. CASE Orphan(s)
  BY <1>2, OrphanKeeps
<1>3. CASE Notify(s)
  BY <1>3, NotifyKeeps
<1>4. ASSUME NEW n \in Fd, SysClose(s, n) PROVE FInv'
  BY <1>4, SysCloseKeeps
<1>5. ASSUME NEW g \in File, Unlink(s, g) PROVE FInv'
  BY <1>5, UnlinkKeeps
<1> QED BY <1>1, <1>2, <1>3, <1>4, <1>5 DEF Closing

LEMMA UsingKeeps ==
    ASSUME Orderly, FInv, NEW s \in Slot, Using(s)
    PROVE  FInv'
<1>1. CASE Read(s)
  BY <1>1, ReadKeeps
<1>2. CASE Write(s)
  BY <1>2, WriteKeeps
<1>3. CASE Redirect(s)
  BY <1>3, RedirectKeeps
<1>4. CASE Console(s)
  BY <1>4, ConsoleKeeps
<1>5. ASSUME NEW n \in Fd, NEW k \in Ends \cup {"redirect"}, Deref(s, n, k) PROVE FInv'
  BY <1>5, DerefKeeps
<1>6. ASSUME NEW n \in Fd, NEW en \in Fd, CtlAdd(s, en, n) \/ CtlDel(s, en, n) PROVE FInv'
  BY <1>6, CtlAddKeeps, CtlDelKeeps
<1> QED BY <1>1, <1>2, <1>3, <1>4, <1>5, <1>6 DEF Using

LEMMA SharingKeeps ==
    ASSUME Orderly, FInv, NEW s \in Slot, Sharing(s)
    PROVE  FInv'
<1>1. CASE Heir(s)
  BY <1>1, HeirKeeps
<1>2. CASE Drop(s)
  BY <1>2, DropKeeps
<1>3. CASE Post(s)
  BY <1>3, PostKeeps
<1>4. CASE Receive(s)
  BY <1>4, ReceiveKeeps
<1>5. CASE Reject(s)
  BY <1>5, RejectKeeps
<1>6. ASSUME NEW q \in Slot, Fork(s, q) PROVE FInv'
  BY <1>6, ForkKeeps
<1>7. ASSUME NEW q \in Slot, NEW n \in Fd, Send(s, q, n) PROVE FInv'
  BY <1>7, SendKeeps
<1> QED BY <1>1, <1>2, <1>3, <1>4, <1>5, <1>6, <1>7 DEF Sharing

LEMMA NextKeeps ==
    ASSUME Orderly, FInv, [Next]_vars
    PROVE  FInv'
<1>1. CASE UNCHANGED vars
  BY <1>1, StutterKeeps
<1>2. ASSUME NEW s \in Slot, Making(s) \/ Closing(s) \/ Using(s) \/ Sharing(s) PROVE FInv'
  BY <1>2, MakingKeeps, ClosingKeeps, UsingKeeps, SharingKeeps
<1> QED BY <1>1, <1>2 DEF Next

-----------------------------------------------------------------------------
(* What it implies. *)

\* Nothing outlives its last reference.
LEMMA NothingKept ==
    ASSUME FInv
    PROVE  NothingLeaks
<1>1. /\ OfT /\ PipeT /\ RefsExact /\ PipeEndsExact /\ Kept /\ EndsOk /\ PipesOk /\ InstancesOk /\ DeadOk
      /\ TabT
  BY DEF FInv, Types, Tables, Lives
<1>2. \A o \in Oi : of[o].used => of[o].nref > 0 \/ Claimed(o)
  BY <1>1 DEF Kept, Claimed, Holding, HoldingOp, Filling
<1>3. ASSUME NEW i \in Pipes, pipe[i].used, ~BeingMade(i)
      PROVE  Home("pipe", i) # {}
  <2>1. /\ pipe[i].r = Cardinality(EndSlots(i, FALSE)) /\ pipe[i].w = Cardinality(EndSlots(i, TRUE))
        /\ pipe[i].r + pipe[i].w > 0 /\ pipe[i].r \in Nat /\ pipe[i].w \in Nat
    BY <1>1, <1>3 DEF PipeEndsExact, PipesOk, PipeT
  <2>2. PICK w \in BOOLEAN : Cardinality(EndSlots(i, w)) # 0
    <3>1. pipe[i].r # 0 \/ pipe[i].w # 0
      <4>1. PICK a, b : a = pipe[i].r /\ b = pipe[i].w
        OBVIOUS
      <4>2. a \in Nat /\ b \in Nat /\ a + b > 0
        BY <2>1, <4>1
      <4>3. a # 0 \/ b # 0
        BY <4>2
      <4> QED BY <4>1, <4>3
    <3>2. Cardinality(EndSlots(i, FALSE)) # 0 \/ Cardinality(EndSlots(i, TRUE)) # 0
      BY <2>1, <3>1
    <3> QED BY <3>2
  <2>3. EndSlots(i, w) # {}
    BY <2>2, FS_EmptySet
  <2>4. PICK q \in Slot, y \in Fd : tab[q][y] # None /\ EndOf(tab[q][y], i, w)
    BY <2>3 DEF EndSlots
  <2>5. tab[q][y] \in Oi /\ of[tab[q][y]].used
    BY <1>1, <2>4, NamedUsed
  <2>6. tab[q][y] \in Home("pipe", i)
    BY <2>4, <2>5 DEF Home, EndOf
  <2> QED BY <2>6
<1>4. \A e \in Eps : ep[e].used <=> Home("epoll", e) # {}
  BY <1>1 DEF InstancesOk, Home
<1>5. \A v \in Evs : evfd[v].used <=> Home("evfd", v) # {}
  BY <1>1 DEF InstancesOk, Home
<1>6. \A p \in Slot : life[p] = "dead" /\ (\A s \in Slot : op[s].to # p) =>
          mail[p] = <<>> /\ \A n \in Fd : tab[p][n] = None
  BY <1>1 DEF DeadOk
<1> QED BY <1>2, <1>3, <1>4, <1>5, <1>6 DEF NothingLeaks

LEMMA InvariantSound ==
    ASSUME FInv
    PROVE  FdsSound
<1>1. /\ Types /\ OpsOk /\ RefsExact /\ PipeEndsExact /\ TransferHeld /\ WatchOk /\ RedirOk
  BY DEF FInv, Calls1, Tables, Sides
<1>2. TypeOK
  BY <1>1, TypesGive
<1>3. NoDangling
  BY <1>1 DEF NoDangling, WatchOk, RedirOk
<1>4. NothingLeaks
  BY NothingKept
<1> QED BY <1>1, <1>2, <1>3, <1>4 DEF FdsSound

\* The tables, the descriptions and what every call holds of them fit at every
\* step of every operation on descriptors.
THEOREM FdsInductive ==
    ASSUME Orderly
    PROVE  Spec => []FInv
<1>1. Init => FInv
  BY InitKeeps
<1>2. FInv /\ [Next]_vars => FInv'
  BY NextKeeps
<1> QED BY <1>1, <1>2, PTL DEF Spec

\* However open, pipe, close, fork, send, redirect, unlink and exit interleave, a
\* description is counted exactly and freed with its last number, a pipe's ends are
\* exact, nothing leaks or dangles, and what is sent is one of the two's throughout
\* (fd_install_locked, fd_release_locked, ofile_put_locked, pipe_create_for).
THEOREM DescriptorsSound ==
    ASSUME Orderly
    PROVE  Spec => []FdsSound
<1>1. FInv => FdsSound
  BY InvariantSound
<1> QED BY <1>1, FdsInductive, PTL
=============================================================================
