------------------------------ MODULE Signals ------------------------------
(***************************************************************************)
(* Signals of processes and their threads, process groups and interval     *)
(* timers.  A task is a kproc slot; its process is the slot of its leader. *)
(* Dispositions and pending signals belong to the process, masks and the   *)
(* frame of a running handler to the thread.  Delivery happens at a        *)
(* boundary, where one step picks a signal and a later one clears and      *)
(* delivers it; raising is one atomic or.  Deadlines are claimed by        *)
(* compare-and-swap on every core; the owner re-arms in four stores.       *)
(***************************************************************************)
EXTENDS Integers, Sequences, FiniteSets

CONSTANTS Task,        \* slots
          LeaderOf,    \* task -> its process
          ParentOf,    \* leader -> leader, or None
          Core,        \* cores that scan the timers
          Sig,         \* the signals in use, by number
          Catches,     \* the signals a program may install a handler for
          Kinds,       \* timers: "real" and "virt", the second on CPU time
          Spans,       \* what a timer is set to; 0 disarms
          Periods,     \* reload intervals
          None,
          MaxTime, MaxCalls, MaxRaises, Depth

SIGINT == 2
SIGKILL == 9
SIGSEGV == 11
SIGALRM == 14
SIGCHLD == 17
SIGVTALRM == 26

SignalOf == [k \in {"real", "virt"} |-> IF k = "real" THEN SIGALRM ELSE SIGVTALRM]

Leaders == {LeaderOf[t] : t \in Task}
Members(l) == {t \in Task : LeaderOf[t] = l}
Timer == Task \X Kinds

VARIABLES
  dead,     \* tasks that left
  handler,  \* leader, signal -> "dfl", "ign" or "fn"
  pending,  \* task -> signals
  mask,     \* task -> signals blocked
  frames,   \* task -> the frames on its user stack: signal and saved mask
  framesp,  \* task -> the depth sigframe_sp names; 0 none
  group,    \* leader -> its process group, named by a leader
  fg,       \* the group that owns the console
  dl, iv,   \* timer -> deadline, reload interval
  armed,    \* g_alarms_armed
  clock,    \* kind -> now
  at,       \* task or core -> what it is in the middle of
  due, fired, \* timer -> expirations set up, signals raised (history)
  calls, raises

vars == <<dead, handler, pending, mask, frames, framesp, group, fg, dl, iv,
          armed, clock, at, due, fired, calls, raises>>
sigvars == <<handler, pending, mask, frames, framesp, raises>>
timevars == <<dl, iv, armed, clock, due, fired>>

Idle == [op |-> "idle"]

Init ==
  /\ dead = {}
  /\ handler = [l \in Leaders |-> [s \in Sig |-> "dfl"]]
  /\ pending = [t \in Task |-> {}]
  /\ mask = [t \in Task |-> {}]
  /\ frames = [t \in Task |-> <<>>]
  /\ framesp = [t \in Task |-> 0]
  /\ group = [l \in Leaders |-> l]
  /\ fg \in Leaders
  /\ dl = [x \in Timer |-> 0]
  /\ iv = [x \in Timer |-> 0]
  /\ armed = 0
  /\ clock = [k \in Kinds |-> 1]
  /\ at = [x \in Task \cup Core |-> Idle]
  /\ due = [x \in Timer |-> 0]
  /\ fired = [x \in Timer |-> 0]
  /\ calls = 0 /\ raises = 0

---------------------------------------------------------------------------
(* Raising.                                                                *)

\* Raising s on the processes ls: the bit lands on a leader that has not exited.
Raised(ls, s) ==
  [t \in Task |-> IF t \in ls \ dead THEN pending[t] \cup {s} ELSE pending[t]]

Call(t) == t \notin dead /\ at[t] = Idle /\ calls < MaxCalls /\ calls' = calls + 1

\* A process may signal itself and its children.
MayKill(me, l) == l = me \/ ParentOf[l] = me

Kill(t, target, s) ==
  /\ Call(t) /\ raises < MaxRaises /\ raises' = raises + 1
  /\ target \notin dead /\ MayKill(LeaderOf[t], LeaderOf[target])
  /\ pending' = Raised({LeaderOf[target]}, s)
  /\ UNCHANGED <<dead, handler, mask, frames, framesp, group, fg, at, timevars>>

\* Members of a group a caller may signal: its own group, or children.
KillPg(t, g, s) ==
  /\ Call(t) /\ raises < MaxRaises /\ raises' = raises + 1
  /\ LET me == LeaderOf[t]
         hit == {l \in Leaders \ dead : group[l] = g
                                        /\ (MayKill(me, l) \/ group[me] = g)}
     IN  pending' = Raised(hit, s)
  /\ UNCHANGED <<dead, handler, mask, frames, framesp, group, fg, at, timevars>>

SetPgid(t, target, g, foreground) ==
  /\ Call(t)
  /\ target \notin dead /\ MayKill(LeaderOf[t], target)
  /\ group' = [group EXCEPT ![target] = g]
  /\ fg' = IF foreground THEN g ELSE fg
  /\ UNCHANGED <<dead, sigvars, at, timevars>>

\* The interrupt character goes to every leader of the foreground group.
TtyIntr ==
  /\ raises < MaxRaises /\ raises' = raises + 1
  /\ pending' = Raised({l \in Leaders : group[l] = fg}, SIGINT)
  /\ UNCHANGED <<dead, handler, mask, frames, framesp, group, fg, at, calls, timevars>>

---------------------------------------------------------------------------
(* Dispositions and masks.                                                 *)

SigAction(t, s, h) ==
  /\ Call(t) /\ s # SIGKILL
  /\ handler' = [handler EXCEPT ![LeaderOf[t]][s] = h]
  /\ UNCHANGED <<dead, pending, mask, frames, framesp, raises, group, fg, at, timevars>>

\* Ordinary code blocks and unblocks; a handler is taken to leave its mask alone.
SigProcMask(t, how, set) ==
  /\ Call(t) /\ frames[t] = <<>>
  /\ LET m == set \ {SIGKILL}
     IN  mask' = [mask EXCEPT ![t] = CASE how = "block" -> @ \cup m
                                       [] how = "unblock" -> @ \ m
                                       [] how = "set" -> m]
  /\ UNCHANGED <<dead, handler, pending, frames, framesp, raises, group, fg, at, timevars>>

\* A handler that leaves by longjmp unblocks its signal and gives up its frame.
SigUnmask(t) ==
  /\ Call(t) /\ frames[t] # <<>>
  /\ mask' = [mask EXCEPT ![t] = @ \ {Head(frames[t]).sig}]
  /\ framesp' = [framesp EXCEPT ![t] = 0]
  /\ frames' = [frames EXCEPT ![t] = Tail(@)]
  /\ UNCHANGED <<dead, handler, pending, raises, group, fg, at, timevars>>

\* A new image: caught signals go back to the default, in the caller's own slot;
\* mask and frame are cleared, what is pending stays.
Exec(t) ==
  /\ Call(t) /\ Members(LeaderOf[t]) \ dead = {t}
  /\ mask' = [mask EXCEPT ![t] = {}]
  /\ framesp' = [framesp EXCEPT ![t] = 0]
  /\ frames' = [frames EXCEPT ![t] = <<>>]
  /\ handler' = IF t \in Leaders
                THEN [handler EXCEPT ![t] = [s \in Sig |-> IF @[s] = "fn" THEN "dfl" ELSE @[s]]]
                ELSE handler
  /\ UNCHANGED <<dead, pending, raises, group, fg, at, timevars>>

---------------------------------------------------------------------------
(* Delivery.                                                               *)

Deliverable(t) == (pending[LeaderOf[t]] \cup pending[t]) \ mask[t]
Lowest(S) == CHOOSE s \in S : \A r \in S : s <= r

Fatal(l, s) == s = SIGKILL \/ (handler[l][s] = "dfl" /\ s \in {SIGSEGV, SIGINT})

\* At a boundary - the return of a call, a dispatch - the lowest signal is picked.
Pick(t) ==
  /\ t \notin dead /\ at[t] = Idle /\ Deliverable(t) # {}
  /\ at' = [at EXCEPT ![t] = [op |-> "deliver", sig |-> Lowest(Deliverable(t))]]
  /\ UNCHANGED <<dead, sigvars, group, fg, calls, timevars>>

Cleared(t, s) == [x \in Task |-> IF x \in {t, LeaderOf[t]} THEN pending[x] \ {s} ELSE pending[x]]

\* The last member of a group tells a living parent.
Leave(t, p) ==
  LET l == LeaderOf[t] IN
  /\ dead' = dead \cup {t}
  /\ pending' = IF Members(l) \ dead = {t} /\ ParentOf[l] \notin dead \cup {None}
                THEN [p EXCEPT ![ParentOf[l]] = @ \cup {SIGCHLD}] ELSE p

\* Mutant: the signal stays unblocked in its handler
FrameOpen(t, s) ==
  \/ /\ Len(frames[t]) < Depth
     /\ frames' = [frames EXCEPT ![t] = <<[sig |-> s, saved |-> mask[t]]>> \o @]
     /\ framesp' = [framesp EXCEPT ![t] = Len(frames[t]) + 1]
     /\ pending' = Cleared(t, s) /\ UNCHANGED <<dead, mask>>
  \/ Leave(t, Cleared(t, s)) /\ UNCHANGED <<mask, frames, framesp>>
\* Writing the frame and entering the handler; the signal is blocked meanwhile.
\* Where rsp leaves no room for the frame, which depth allows or not, the thread dies.
Frame(t, s) ==
  \/ /\ Len(frames[t]) < Depth
     /\ frames' = [frames EXCEPT ![t] = <<[sig |-> s, saved |-> mask[t]]>> \o @]
     /\ framesp' = [framesp EXCEPT ![t] = Len(frames[t]) + 1]
     /\ mask' = [mask EXCEPT ![t] = @ \cup {s}]
     /\ pending' = Cleared(t, s) /\ UNCHANGED dead
  \/ Leave(t, Cleared(t, s)) /\ UNCHANGED <<mask, frames, framesp>>

Deliver(t) ==
  /\ at[t].op = "deliver"
  /\ at' = [at EXCEPT ![t] = Idle]
  /\ LET s == at[t].sig
         l == LeaderOf[t]
     IN  \/ Fatal(l, s) /\ Leave(t, Cleared(t, s)) /\ UNCHANGED <<mask, frames, framesp>>
         \/ ~Fatal(l, s) /\ handler[l][s] = "fn" /\ Frame(t, s)
         \/ /\ ~Fatal(l, s) /\ handler[l][s] # "fn"
            /\ pending' = Cleared(t, s) /\ UNCHANGED <<dead, mask, frames, framesp>>
  /\ UNCHANGED <<handler, raises, group, fg, calls, timevars>>

\* The trampoline: the frame sigframe_sp names is popped; without one the task dies.
SigReturn(t) ==
  /\ t \notin dead /\ at[t] = Idle /\ frames[t] # <<>>
  /\ IF framesp[t] # 0
     THEN /\ mask' = [mask EXCEPT ![t] = Head(frames[t]).saved]
          /\ frames' = [frames EXCEPT ![t] = Tail(@)]
          /\ framesp' = [framesp EXCEPT ![t] = 0]
          /\ UNCHANGED <<dead, pending>>
     ELSE Leave(t, pending) /\ UNCHANGED <<mask, frames, framesp>>
  /\ UNCHANGED <<handler, raises, group, fg, at, calls, timevars>>

\* A fault in ring 3: caught only when the slot's own table has a handler and
\* the signal is not blocked; only a leader's slot ever has one.
Fault(t) ==
  /\ Call(t) /\ SIGSEGV \in Sig
  /\ IF t \in Leaders /\ handler[LeaderOf[t]][SIGSEGV] = "fn" /\ SIGSEGV \notin mask[t]
     THEN Frame(t, SIGSEGV)
     ELSE Leave(t, pending) /\ UNCHANGED <<mask, frames, framesp>>
  /\ UNCHANGED <<handler, raises, group, fg, at, timevars>>

Exit(t) ==
  /\ Call(t) /\ Leave(t, pending)
  /\ UNCHANGED <<handler, mask, frames, framesp, raises, group, fg, at, timevars>>

---------------------------------------------------------------------------
(* Timers: SYS_ALARM and SYS_SETITIMER.                                    *)

\* The old deadline is read and, if there was one, taken off the count.
SetTimer(t, k, span, period) ==
  /\ Call(t)
  /\ at' = [at EXCEPT ![t] = [op |-> "store", timer |-> <<t, k>>, period |-> period,
                              to |-> IF span = 0 THEN 0 ELSE clock[k] + span,
                              was |-> dl[<<t, k>>]]]
  /\ UNCHANGED <<dead, sigvars, group, fg, timevars>>

Uncount(t) ==
  /\ at[t].op = "store"
  /\ armed' = IF at[t].was # 0 THEN armed - 1 ELSE armed
  /\ at' = [at EXCEPT ![t].op = "write"]
  /\ UNCHANGED <<dead, sigvars, group, fg, calls, dl, iv, clock, due, fired>>

Store(t) ==
  /\ at[t].op = "write"
  /\ iv' = [iv EXCEPT ![at[t].timer] = at[t].period]
  /\ dl' = [dl EXCEPT ![at[t].timer] = at[t].to]
  /\ due' = IF at[t].to # 0 THEN [due EXCEPT ![at[t].timer] = @ + 1] ELSE due
  /\ at' = [at EXCEPT ![t].op = "count"]
  /\ UNCHANGED <<dead, sigvars, group, fg, calls, armed, clock, fired>>

Count(t) ==
  /\ at[t].op = "count"
  /\ armed' = IF dl[at[t].timer] # 0 THEN armed + 1 ELSE armed
  /\ at' = [at EXCEPT ![t] = Idle]
  /\ UNCHANGED <<dead, sigvars, group, fg, calls, dl, iv, clock, due, fired>>

(* The scan, on any core: nothing is looked at while the count is zero.  A *)
(* CPU-time timer is looked at on leaders only.                            *)

Next0(d, i, now) ==      \* itimer_next
  IF i = 0 THEN 0 ELSE d + i * (((now - d) \div i) + 1)

ScanRead(c, x) ==
  LET t == x[1] k == x[2] IN
  /\ at[c] = Idle /\ armed # 0 /\ dl[x] # 0
  /\ t \in dead \/ clock[k] >= dl[x]
  /\ k = "real" \/ t \in Leaders
  /\ at' = [at EXCEPT ![c] = [op |-> "claim", timer |-> x, was |-> dl[x],
                              to |-> IF t \in dead THEN 0 ELSE Next0(dl[x], iv[x], clock[k])]]
  /\ UNCHANGED <<dead, sigvars, group, fg, calls, timevars>>

\* The compare-and-swap on the deadline.
Claims(x, was) == dl[x] = was

ScanClaim(c) ==
  /\ at[c].op = "claim"
  /\ LET x == at[c].timer IN
     IF Claims(x, at[c].was)
     THEN /\ dl' = [dl EXCEPT ![x] = at[c].to]
          /\ due' = IF at[c].to # 0 THEN [due EXCEPT ![x] = @ + 1] ELSE due
          /\ at' = [at EXCEPT ![c].op = "raise"]
     ELSE at' = [at EXCEPT ![c] = Idle] /\ UNCHANGED <<dl, due>>
  /\ UNCHANGED <<dead, sigvars, group, fg, calls, iv, armed, clock, fired>>

ScanRaise(c) ==
  /\ at[c].op = "raise"
  /\ LET x == at[c].timer IN
     /\ armed' = IF at[c].to = 0 THEN armed - 1 ELSE armed
     /\ pending' = IF x[1] \in dead THEN pending
                   ELSE Raised({LeaderOf[x[1]]}, SignalOf[x[2]])
     /\ fired' = IF x[1] \in dead THEN fired ELSE [fired EXCEPT ![x] = @ + 1]
  /\ at' = [at EXCEPT ![c] = Idle]
  /\ UNCHANGED <<dead, handler, mask, frames, framesp, raises, group, fg, calls, dl, iv, clock, due>>

Tick(k) ==
  /\ clock[k] < MaxTime
  /\ clock' = [clock EXCEPT ![k] = @ + 1]
  /\ UNCHANGED <<dead, sigvars, group, fg, calls, at, dl, iv, armed, due, fired>>

Next ==
  \/ \E t \in Task :
       \/ \E u \in Task, s \in Sig : Kill(t, u, s)
       \/ \E l \in Leaders, s \in Sig : KillPg(t, l, s)
       \/ \E l, g \in Leaders, f \in BOOLEAN : SetPgid(t, l, g, f)
       \/ \E s \in Catches, h \in {"dfl", "ign", "fn"} : SigAction(t, s, h)
       \/ \E s \in Sig, how \in {"block", "unblock", "set"} : SigProcMask(t, how, {s})
       \/ SigUnmask(t) \/ Exec(t) \/ Pick(t) \/ Deliver(t) \/ SigReturn(t)
       \/ Fault(t) \/ Exit(t)
       \/ \E k \in Kinds, v \in Spans, p \in Periods : SetTimer(t, k, v, p)
       \/ Uncount(t) \/ Store(t) \/ Count(t)
  \/ \E c \in Core : (\E x \in Timer : ScanRead(c, x)) \/ ScanClaim(c) \/ ScanRaise(c)
  \/ \E k \in Kinds : Tick(k)
  \/ TtyIntr

Spec == Init /\ [][Next]_vars

---------------------------------------------------------------------------
(* Properties.                                                             *)

\* A handler is never entered for a signal it, or one it interrupted, is already
\* handling: delivery blocks the signal until the frame is popped in order.
NoRecursion ==
  \A t \in Task : \A i, j \in 1..Len(frames[t]) :
    frames[t][i].sig = frames[t][j].sig => i = j

\* However many cores see one deadline expired, it raises its signal once.
FiresOnce == \A x \in Timer : fired[x] <= due[x]

\* Both, for every order of calls, faults, deliveries and scans.
SignalsSound == NoRecursion /\ FiresOnce

\* The count that gates the scan is not zero while a timer is armed and nobody
\* is changing one.
GateOpen ==
  (\A x \in Task \cup Core : at[x] = Idle) =>
    ((\E x \in Timer : dl[x] # 0 /\ x[1] \notin dead) => armed # 0)
=============================================================================
