------------------------------- MODULE Clock -------------------------------
(***************************************************************************)
(* The two clocks of metal/kernel/kernel64.c, and the processor time of a  *)
(* process, which is charged by the fine one.                              *)
(*                                                                         *)
(* The coarse clock is the tick count refined by the ACPI timer since the  *)
(* tick; the fine one is the TSC since an anchor that the tick handler     *)
(* renews against the ACPI timer about once a second.  Both are read       *)
(* without a lock, with the tick count and the count of anchors as         *)
(* sequence numbers.  The tick handler runs on the boot core and stores    *)
(* one word at a time; a reader of that core sees all of its stores or     *)
(* none, a reader of another core any prefix of them.  Time is in counts   *)
(* of the ACPI timer.  The TSC was found to run at Khz cycles a count, and *)
(* runs at any of Rates.                                                   *)
(*                                                                         *)
(* Charging takes the fine clock as exact (ChargeSpec, apart from          *)
(* ClockSpec): each task's open excursion into ring 3 and open system      *)
(* call, the totals its leader keeps, and a timer scan on another core     *)
(* that reads them field by field while they are folded.  The clock's unit *)
(* is then whatever the stores are separated by.                           *)
(***************************************************************************)
EXTENDS Integers, FiniteSets, FiniteSetsExt

CONSTANTS
    Core,      \* cores that read the clocks
    BootCore,  \* the core the tick interrupts
    TickLen,   \* units between two ticks
    Second,    \* units between two anchors, ACPI_PM_HZ
    Wrap,      \* values of the ACPI timer: 2^24 or 2^32
    Khz,       \* g_tsc_khz
    Rates,     \* the rates the TSC really has
    MaxNow,    \* bound on time
    None,
    Thread,    \* tasks of the process
    Main,      \* its leader, the slot the scan looks at
    MaxSpan,   \* bound on time while charging
    MaxCalls,  \* system calls
    Chunk      \* a sleep is charged after at most this long

\* What the constants have to satisfy.
MainAssumption == Main \in Thread
\* What the constants have to satisfy.
ChunkAssumption == Chunk \in Nat

VARIABLES
    now,     \* true time
    \* the clocks
    tsc,     \* the TSC
    ticks,   \* g_ticks
    tickPm,  \* g_tick_pm
    anchor,  \* g_anchor_ns, _tsc, _pm and _count
    isr,     \* what the tick handler still has to store
    rd,      \* core -> where its reader is
    out,     \* core -> what it last read from each clock
    \* the charges
    pc,      \* task -> "off", "user", "sys", "sleep" or a step of a fold
    run,     \* task -> cpu_run_t0, cpu_run_excl0; t0 = 0 outside an excursion
    enter,   \* task -> sys_enter_ns, sys_enter_excl0
    excl,    \* task -> cpu_excl_ns: time slept
    stime,   \* task -> cpu_stime_run
    kept,    \* task -> locals of the fold
    grp,     \* cpu_grp_ns and cpu_grp_stime_ns of the leader
    scan,    \* the reader: its step and what it read
    spent,   \* true user and system time (history)
    calls

clocks == <<now, tsc, ticks, tickPm, anchor, isr, rd, out>>
fields == <<run, enter, excl, stime, kept, grp>>
charging == <<now, pc, fields, scan, spent, calls>>

Pm == now % Wrap                       \* acpi_pm_read
PmDelta(a, b) == (b - a) % Wrap        \* acpi_pm_delta
TscNs(a, b) == (b - a) \div Khz
Larger(a, b) == IF a >= b THEN a ELSE b

ClockInit ==
    /\ now = 0 /\ tsc = 0 /\ ticks = 0 /\ tickPm = 0
    /\ anchor = [ns |-> 0, tsc |-> 0, pm |-> 0, count |-> 0]
    /\ isr = <<>>
    /\ rd = [c \in Core |-> None]
    /\ out = [c \in Core |-> [fine |-> 0, coarse |-> 0]]

\* Time passes; no stall lasts as long as the timer takes to wrap.
Pass ==
    /\ now < MaxNow /\ PmDelta(anchor.pm, now) < Wrap - 1
    /\ now' = now + 1
    /\ \E r \in Rates : tsc' = tsc + r
    /\ UNCHANGED <<ticks, tickPm, anchor, isr, rd, out>>

(* The tick handler: g_ticks++, ktime_tick_stamp, ktime_reanchor. *)

\* A tick may be late, and then several come in a row.
Tick ==
    /\ isr = <<>> /\ (ticks + 1) * TickLen <= now
    /\ ticks' = ticks + 1
    /\ isr' = <<"stamp">>
    /\ UNCHANGED <<now, tsc, tickPm, anchor, rd, out>>

Stamp ==
    /\ isr = <<"stamp">>
    /\ tickPm' = Pm
    /\ isr' = <<"anchor">>
    /\ UNCHANGED <<now, tsc, ticks, anchor, rd, out>>

\* Mutant: the anchor trusts the ACPI timer alone
PmOnly(trueNs, tscNs) == trueNs
\* Whichever of the two clocks says more time has passed.
Advance(trueNs, tscNs) == Larger(trueNs, tscNs)

Measure ==
    /\ isr = <<"anchor">>
    /\ LET d == PmDelta(anchor.pm, Pm)
       IN isr' = IF d < Second THEN <<>>
                 ELSE <<"store", [ns |-> anchor.ns + Advance(d, TscNs(anchor.tsc, tsc)),
                                  tsc |-> tsc, pm |-> Pm, count |-> anchor.count + 1]>>
    /\ UNCHANGED <<now, tsc, ticks, tickPm, anchor, rd, out>>

\* Three stores in program order; the timer's is read by the handler alone.
StoreNs ==
    /\ isr # <<>> /\ isr[1] = "store"
    /\ anchor' = [anchor EXCEPT !.ns = isr[2].ns]
    /\ isr' = <<"tsc", isr[2]>>
    /\ UNCHANGED <<now, tsc, ticks, tickPm, rd, out>>
StoreTsc ==
    /\ isr # <<>> /\ isr[1] = "tsc"
    /\ anchor' = [anchor EXCEPT !.tsc = isr[2].tsc, !.pm = isr[2].pm]
    /\ isr' = <<"count", isr[2]>>
    /\ UNCHANGED <<now, tsc, ticks, tickPm, rd, out>>
StoreCount ==
    /\ isr # <<>> /\ isr[1] = "count"
    /\ anchor' = [anchor EXCEPT !.count = isr[2].count]
    /\ isr' = <<>>
    /\ UNCHANGED <<now, tsc, ticks, tickPm, rd, out>>

(* The readers. *)

Runs(c) == c = BootCore => isr = <<>>
Moves(c, r) ==
    /\ Runs(c)
    /\ rd' = [rd EXCEPT ![c] = r]
    /\ UNCHANGED <<now, tsc, ticks, tickPm, anchor, isr>>

\* ktime_get_ns.
FineBegin(c) ==
    /\ rd[c] = None
    /\ Moves(c, [at |-> "ns", count |-> anchor.count]) /\ UNCHANGED out
FineNs(c) ==
    /\ rd[c] # None /\ rd[c].at = "ns"
    /\ Moves(c, [at |-> "tsc", count |-> rd[c].count, ns |-> anchor.ns]) /\ UNCHANGED out
FineTsc(c) ==
    /\ rd[c] # None /\ rd[c].at = "tsc"
    /\ Moves(c, [at |-> "now", count |-> rd[c].count, ns |-> rd[c].ns, tsc |-> anchor.tsc])
    /\ UNCHANGED out
FineNow(c) ==
    /\ rd[c] # None /\ rd[c].at = "now"
    /\ Moves(c, [at |-> "check", count |-> rd[c].count,
                 ns |-> rd[c].ns + TscNs(rd[c].tsc, tsc)])
    /\ UNCHANGED out

\* An anchor renewed meanwhile: read again.
SameCount(c) == anchor.count = rd[c].count
FineEnd(c) ==
    /\ rd[c] # None /\ rd[c].at = "check"
    /\ Moves(c, None)
    /\ out' = IF SameCount(c) THEN [out EXCEPT ![c].fine = rd[c].ns] ELSE out

\* ktime_get_us.
CoarseBegin(c) ==
    /\ rd[c] = None
    /\ Moves(c, [at |-> "base", ticks |-> ticks]) /\ UNCHANGED out
CoarseBase(c) ==
    /\ rd[c] # None /\ rd[c].at = "base"
    /\ Moves(c, [at |-> "sub", ticks |-> rd[c].ticks, base |-> tickPm]) /\ UNCHANGED out
Clamped(d) == IF d < TickLen THEN d ELSE TickLen - 1
CoarseSub(c) ==
    /\ rd[c] # None /\ rd[c].at = "sub"
    /\ Moves(c, [at |-> "same", ticks |-> rd[c].ticks,
                 us |-> rd[c].ticks * TickLen
                        + IF rd[c].base = 0 THEN 0 ELSE Clamped(PmDelta(rd[c].base, Pm))])
    /\ UNCHANGED out
CoarseEnd(c) ==
    /\ rd[c] # None /\ rd[c].at = "same"
    /\ Moves(c, None)
    /\ out' = IF ticks = rd[c].ticks THEN [out EXCEPT ![c].coarse = rd[c].us] ELSE out

ClockNext ==
    \/ Pass \/ Tick \/ Stamp \/ Measure \/ StoreNs \/ StoreTsc \/ StoreCount
    \/ \E c \in Core :
          \/ FineBegin(c) \/ FineNs(c) \/ FineTsc(c) \/ FineNow(c) \/ FineEnd(c)
          \/ CoarseBegin(c) \/ CoarseBase(c) \/ CoarseSub(c) \/ CoarseEnd(c)

ClockSpec == ClockInit /\ [][ClockNext]_clocks

(* What the clocks promise. *)

Later(c) == out'[c].fine >= out[c].fine /\ out'[c].coarse >= out[c].coarse

\* On the boot core neither clock ever goes back, whatever the TSC's rate,
\* however late the ticks, and across every anchor.
BootForward == [][Later(BootCore)]_clocks

\* What the comments above both clocks claim of every core. It fails for a core
\* other than the boot core, which sees the handler's stores one by one.
Forward == [][\A c \in Core : Later(c)]_clocks

-----------------------------------------------------------------------------
(* Charging. *)

Zero == [t0 |-> 0, ex |-> 0]

ChargeInit ==
  /\ now = 1
  /\ pc = [t \in Thread |-> "off"]
  /\ run = [t \in Thread |-> Zero] /\ enter = [t \in Thread |-> Zero]
  /\ excl = [t \in Thread |-> 0] /\ stime = [t \in Thread |-> 0]
  /\ kept = [t \in Thread |-> [t0 |-> 0, ex |-> 0, net |-> 0, sys |-> 0]]
  /\ grp = [cpu |-> 0, sys |-> 0]
  /\ scan = [step |-> 0, tot |-> 0, sys |-> 0]
  /\ spent = [user |-> 0, sys |-> 0]
  /\ calls = 0

\* Time passes for everyone; what a task is doing decides whose time it is.  A
\* fold is too short to be charged for.
Spend ==
  /\ now < MaxSpan /\ now' = now + 1
  /\ \A t \in Thread : pc[t] \in {"off", "user", "sys", "sleep"}
  /\ \A t \in Thread : pc[t] = "sleep" => now - kept[t].t0 < Chunk
  /\ spent' = [user |-> spent.user + Cardinality({t \in Thread : pc[t] = "user"}),
               sys |-> spent.sys + Cardinality({t \in Thread : pc[t] = "sys"})]
  /\ UNCHANGED <<pc, fields, scan, calls>>

-----------------------------------------------------------------------------
(* The task, on its core.                                                  *)

Step(t, from, to) ==
  /\ pc[t] = from /\ pc' = [pc EXCEPT ![t] = to]
  /\ UNCHANGED <<now, spent, scan>>

Dispatch(t) ==
  /\ Step(t, "off", "user")
  /\ run' = [run EXCEPT ![t] = [t0 |-> now, ex |-> excl[t]]]
  /\ stime' = [stime EXCEPT ![t] = 0]
  /\ kept' = [kept EXCEPT ![t] = [@ EXCEPT !.t0 = now, !.ex = excl[t]]]
  /\ UNCHANGED <<enter, excl, grp, calls>>

\* The baseline is stored before the stamp.
EnterBase(t) ==
  /\ calls < MaxCalls /\ calls' = calls + 1
  /\ Step(t, "user", "entering")
  /\ enter' = [enter EXCEPT ![t].ex = excl[t]]
  /\ UNCHANGED <<run, excl, stime, kept, grp>>

EnterStamp(t) ==
  /\ Step(t, "entering", "sys")
  /\ enter' = [enter EXCEPT ![t].t0 = now]
  /\ UNCHANGED <<run, excl, stime, kept, grp, calls>>

SleepBegin(t) ==
  /\ Step(t, "sys", "sleep")
  /\ kept' = [kept EXCEPT ![t].sys = now]
  /\ UNCHANGED <<run, enter, excl, stime, grp, calls>>

SleepCharge(t) ==
  /\ Step(t, "sleep", "sys")
  /\ excl' = [excl EXCEPT ![t] = @ + (now - kept[t].sys)]
  /\ UNCHANGED <<run, enter, stime, kept, grp, calls>>

\* sys_charge_close: the stamp is cleared first, then the interval is added.
Charge(t) ==
  LET el == now - kept[t].sys
      sl == excl[t] - enter[t].ex
  IN  IF kept[t].sys # 0 /\ el > sl THEN el - sl ELSE 0

CloseClear(t, from, to) ==
  /\ Step(t, from, to)
  /\ kept' = [kept EXCEPT ![t].sys = enter[t].t0]
  /\ enter' = [enter EXCEPT ![t].t0 = 0]
  /\ UNCHANGED <<run, excl, stime, grp, calls>>

CloseFold(t, from, to) ==
  /\ Step(t, from, to)
  /\ stime' = [stime EXCEPT ![t] = @ + Charge(t)]
  /\ UNCHANGED <<run, enter, excl, kept, grp, calls>>

\* The excursion ends, from ring 3 or from inside a call: the start stamp is
\* cleared, an open call is closed, and only then are the totals added to.
EndClear(t) ==
  /\ \E from \in {"user", "sys"} : Step(t, from, "ended")
  /\ run' = [run EXCEPT ![t].t0 = 0]
  /\ UNCHANGED <<enter, excl, stime, kept, grp, calls>>

\* Mutant: the sleeps are charged
NetAll(t) == now - kept[t].t0
\* What the excursion used, with its sleeps taken out.
Net(t) ==
  LET el == now - kept[t].t0
      sl == excl[t] - kept[t].ex
  IN  IF el > sl THEN el - sl ELSE 0

Used(t) ==
  /\ Step(t, "closed", "measured")
  /\ kept' = [kept EXCEPT ![t].net = Net(t),
                          ![t].sys = IF stime[t] > Net(t) THEN Net(t) ELSE stime[t]]
  /\ stime' = [stime EXCEPT ![t] = 0]
  /\ UNCHANGED <<run, enter, excl, grp, calls>>

FoldTotal(t) ==
  /\ Step(t, "measured", "folded")
  /\ grp' = [grp EXCEPT !.cpu = @ + kept[t].net]
  /\ UNCHANGED <<run, enter, excl, stime, kept, calls>>

FoldSystem(t) ==
  /\ Step(t, "folded", "off")
  /\ grp' = [grp EXCEPT !.sys = @ + kept[t].sys]
  /\ UNCHANGED <<run, enter, excl, stime, kept, calls>>

-----------------------------------------------------------------------------
(* The scan: the total first, the system time second.                      *)

InFlight(x) ==
  LET sl == excl[Main] - x.ex
  IN  IF x.t0 = 0 \/ now - x.t0 <= sl THEN 0 ELSE now - x.t0 - sl

Read ==
  /\ scan' = CASE scan.step = 0 -> [step |-> 1, tot |-> grp.cpu, sys |-> 0]
               [] scan.step = 1 -> [scan EXCEPT !.step = 2, !.tot = @ + InFlight(run[Main])]
               [] scan.step = 2 -> [scan EXCEPT !.step = 3, !.sys = grp.sys]
               [] scan.step = 3 -> [scan EXCEPT !.step = 4, !.sys = @ + stime[Main]]
               [] scan.step = 4 -> [scan EXCEPT !.step = 5, !.sys = @ + InFlight(enter[Main])]
               [] scan.step = 5 -> [step |-> 0, tot |-> 0, sys |-> 0]
  /\ UNCHANGED <<now, pc, fields, spent, calls>>

ChargeNext ==
  \/ Spend \/ Read
  \/ \E t \in Thread :
       \/ Dispatch(t) \/ EnterBase(t) \/ EnterStamp(t) \/ SleepBegin(t) \/ SleepCharge(t)
       \/ CloseClear(t, "sys", "closing") \/ CloseFold(t, "closing", "user")
       \/ EndClear(t) \/ CloseClear(t, "ended", "ending") \/ CloseFold(t, "ending", "closed")
       \/ Used(t) \/ FoldTotal(t) \/ FoldSystem(t)

ChargeSpec == ChargeInit /\ [][ChargeNext]_charging

-----------------------------------------------------------------------------
(* What charging promises.                                                 *)

\* Between excursions the leader's totals are the time its tasks really used:
\* nothing is charged twice or lost on any way out of ring 3.
FoldExact ==
  (\A t \in Thread : pc[t] = "off") =>
    grp = [cpu |-> spent.user + spent.sys, sys |-> spent.sys]

\* A reader of the total never sees more than was used, but for a sleep that is
\* not charged yet: a profiling timer does not fire early.
TotalSound ==
  scan.step >= 2 => scan.tot <= spent.user + spent.sys + Chunk

\* Both, whoever reads while an excursion is being folded.
CpuSound == FoldExact /\ TotalSound

\* The user time a reader computes is never more than was used.
UserSound ==
  scan.step = 5 => scan.tot - scan.sys <= spent.user
=============================================================================
