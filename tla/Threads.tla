------------------------------ MODULE Threads ------------------------------
(***************************************************************************)
(* The boot core's kernel threads: creation, round-robin switching,        *)
(* blocking, waking and exit (thread_create_ex, uthread_create,            *)
(* pick_next, sched_switch_to, thread_trampoline, uthread_exit).           *)
(*                                                                         *)
(* A thread's context is what the core holds while the thread runs: the    *)
(* process it acts for, its address space, the point its ring-3 excursion  *)
(* resumes at and the stacks its traps land on.  A switch first names the  *)
(* next thread in g_cur, then exchanges the contexts; interrupts are off,  *)
(* but the other cores go on.  Remote is the set of other cores that       *)
(* create threads.                                                         *)
(***************************************************************************)
EXTENDS Naturals, FiniteSets

CONSTANTS NThreads,   \* MAX_THREADS; thread 0 boots, thread 1 idles
          Proc,       \* the processes whose threads may be created
          Remote,     \* cores other than the boot core that create threads: numbers
                      \* above MAX_THREADS
          MaxMade,    \* bound: threads ever created
          MaxTrips    \* bound: excursions ever entered

VARIABLES state,      \* per slot: "free", "claimed", "runnable", "running", "blocked"
          g_cur,      \* the running thread's slot
          off,        \* whether preemption is disabled
          live,       \* the core's context: [proc, space, resume, stack]
          pcb,        \* per slot: the saved context
          moving,     \* the slot a switch under way comes from, or NoSlot
          making,     \* per creator: [slot, ctx, user, step] of the thread it builds
          own,        \* per slot: the context its thread must run in (history)
          made,       \* how many threads were created
          trips       \* how many excursions were entered

vars == <<state, g_cur, off, live, pcb, moving, making, own, made, trips>>

-----------------------------------------------------------------------------
Pcbs == 0 .. NThreads - 1
Idle == 1
NoSlot == NThreads
Makers == Pcbs \cup Remote

\* What thread_create_ex fills in: a kernel thread of no process.
Plain == [proc |-> "kernel", space |-> "kernel", resume |-> 0, stack |-> "core"]

\* What uthread_create installs over it.
UserCtx(p) == [Plain EXCEPT !.proc = p, !.space = p, !.stack = "own"]

Nobody == [slot |-> NoSlot, ctx |-> Plain, user |-> FALSE, step |-> "none"]

\* sched_init: the boot thread runs, and the idle thread is created first.
Init ==
  /\ state = [t \in Pcbs |-> CASE t = 0 -> "running"
                                [] t = Idle -> "runnable"
                                [] OTHER -> "free"]
  /\ g_cur = 0
  /\ off = FALSE
  /\ live = Plain
  /\ pcb = [t \in Pcbs |-> Plain]
  /\ moving = NoSlot
  /\ making = [m \in Makers |-> Nobody]
  /\ own = [t \in Pcbs |-> Plain]
  /\ made = 0
  /\ trips = 0

-----------------------------------------------------------------------------
(* Switching. *)

\* Round robin from the slot after the current one; idle only when nobody else
\* can run.
pick_next(st) ==
  LET ready == {t \in Pcbs \ {Idle} : st[t] = "runnable"}
      after(t) == (t + NThreads - g_cur - 1) % NThreads
  IN  IF ready # {}
      THEN CHOOSE t \in ready : \A u \in ready : after(t) <= after(u)
      ELSE IF st[Idle] = "runnable" \/ g_cur # Idle THEN Idle ELSE g_cur

\* The first half of sched_switch_to: states and g_cur change.
SwitchTo(st) ==
  LET n == pick_next(st) IN
  IF n = g_cur
  THEN state' = st /\ UNCHANGED <<g_cur, moving>>
  ELSE /\ state' = [st EXCEPT ![g_cur] = IF @ = "running" THEN "runnable" ELSE @,
                              ![n] = "running"]
       /\ g_cur' = n
       /\ moving' = g_cur

\* A thread woken before it has yielded runs on although its state says runnable.
Runs(t) == moving = NoSlot /\ g_cur = t /\ state[t] \in {"running", "runnable"}

building == <<making, own, made, trips>>

\* sched_yield by the running thread.
Yield ==
  /\ moving = NoSlot /\ state[g_cur] # "free"
  /\ SwitchTo(state)
  /\ UNCHANGED <<off, live, pcb, building>>

\* The timer's sched_preempt.
Tick ==
  /\ moving = NoSlot /\ ~off /\ state[g_cur] # "free"
  /\ SwitchTo(state)
  /\ UNCHANGED <<off, live, pcb, building>>

Preemption ==
  /\ Runs(0)
  /\ off' = ~off
  /\ UNCHANGED <<state, g_cur, live, pcb, moving, building>>

\* Mutant: the excursion's resume point stays with the core.
CoreResume(from) == [live EXCEPT !.resume = pcb[from].resume]

\* What is saved of the thread that leaves the core.
Saved(from) == live

\* What is loaded for the thread that takes it; uthread_ctx_load sets the stacks.
Loaded(to) == pcb[to]

\* The second half of sched_switch_to: the contexts are exchanged.
Exchange ==
  /\ moving # NoSlot
  /\ pcb' = [pcb EXCEPT ![moving] = Saved(moving)]
  /\ live' = Loaded(g_cur)
  /\ moving' = NoSlot
  /\ UNCHANGED <<state, g_cur, off, building>>

\* A wait marks the thread blocked with interrupts off and then yields; the
\* timer may come in between.
Block ==
  /\ Runs(g_cur) /\ g_cur # Idle /\ making[g_cur] = Nobody
  /\ state' = [state EXCEPT ![g_cur] = "blocked"]
  /\ UNCHANGED <<g_cur, off, live, pcb, moving, building>>

\* thread_wake, from an interrupt or another core.
thread_wake(t) ==
  /\ state[t] = "blocked"
  /\ state' = [state EXCEPT ![t] = "runnable"]
  /\ UNCHANGED <<g_cur, off, live, pcb, moving, building>>

\* The end of a thread, with interrupts off: its slot is free while it is still
\* on its stack, and it switches away.
Exit ==
  /\ Runs(g_cur) /\ g_cur \notin {0, Idle} /\ live = Plain /\ making[g_cur] = Nobody
  /\ SwitchTo([state EXCEPT ![g_cur] = "free"])
  /\ UNCHANGED <<off, live, pcb, building>>

\* uthread_exit of a process's thread: what the process held is given back under
\* its locks before interrupts go off, and the core leaves its address space.
uthread_exit ==
  /\ Runs(g_cur) /\ live.stack = "own" /\ making[g_cur] = Nobody
  /\ live' = [live EXCEPT !.space = "kernel"]
  /\ SwitchTo([state EXCEPT ![g_cur] = "free"])
  /\ UNCHANGED <<off, pcb, building>>

-----------------------------------------------------------------------------
(* The running thread's own changes of its context. *)

\* A kernel thread enters a program (enter_user_mode saves where it resumes) ...
Enter(p) ==
  /\ Runs(g_cur) /\ g_cur # Idle /\ live.resume = 0 /\ live.stack = "core"
  /\ making[g_cur] = Nobody /\ trips < MaxTrips
  /\ live' = [live EXCEPT !.proc = p, !.space = p, !.resume = trips + 1]
  /\ own' = [own EXCEPT ![g_cur] = live']
  /\ trips' = trips + 1
  /\ UNCHANGED <<state, g_cur, off, pcb, moving, making, made>>

\* ... and comes back from it (resume_kernel).
Resume ==
  /\ Runs(g_cur) /\ live.resume # 0 /\ making[g_cur] = Nobody
  /\ live' = [live EXCEPT !.proc = "kernel", !.space = "kernel", !.resume = 0]
  /\ own' = [own EXCEPT ![g_cur] = live']
  /\ UNCHANGED <<state, g_cur, off, pcb, moving, making, made, trips>>

-----------------------------------------------------------------------------
(* Creation. *)

others == <<off, live, trips>>

Active(m) == m \in Remote \/ Runs(m)

\* A slot is claimed atomically; the current one is never taken.
Claim(m, p) ==
  /\ Active(m) /\ making[m] = Nobody /\ made < MaxMade /\ m # Idle
  /\ \E i \in Pcbs \ {g_cur} :
       /\ state[i] = "free"
       /\ \A j \in Pcbs \ {g_cur} : state[j] = "free" => i <= j
       /\ state' = [state EXCEPT ![i] = "claimed"]
       /\ making' = [making EXCEPT ![m] =
            [slot |-> i, ctx |-> IF p = "kernel" THEN Plain ELSE UserCtx(p),
             user |-> p # "kernel", step |-> "fill"]]
  /\ made' = made + 1
  /\ UNCHANGED <<g_cur, pcb, moving, own, others>>

\* start_suspended: a thread with more to install is not yet published.
PublishedAs(u) == IF u THEN "claimed" ELSE "runnable"

Fill(m) ==
  /\ Active(m) /\ making[m].step = "fill"
  /\ LET b == making[m] IN
       /\ pcb' = [pcb EXCEPT ![b.slot] = Plain]
       /\ own' = [own EXCEPT ![b.slot] = b.ctx]
       /\ state' = [state EXCEPT ![b.slot] = PublishedAs(b.user)]
       /\ making' = [making EXCEPT ![m] = IF b.user THEN [b EXCEPT !.step = "install"]
                                                    ELSE Nobody]
  /\ UNCHANGED <<g_cur, moving, made, others>>

\* uthread_create installs the process, its address space and its stacks.
Install(m) ==
  /\ Active(m) /\ making[m].step = "install"
  /\ pcb' = [pcb EXCEPT ![making[m].slot] = making[m].ctx]
  /\ making' = [making EXCEPT ![m].step = "release"]
  /\ UNCHANGED <<state, g_cur, moving, own, made, others>>

thread_release(m) ==
  /\ Active(m) /\ making[m].step = "release"
  /\ state' = [state EXCEPT ![making[m].slot] = "runnable"]
  /\ making' = [making EXCEPT ![m] = Nobody]
  /\ UNCHANGED <<g_cur, pcb, moving, own, made, others>>

Next ==
  \/ Yield \/ Tick \/ Preemption \/ Exchange \/ Block \/ Exit \/ uthread_exit \/ Resume
  \/ \E t \in Pcbs : thread_wake(t)
  \/ \E p \in Proc : Enter(p)
  \/ \E m \in Makers : \/ \E p \in Proc \cup {"kernel"} : Claim(m, p)
                       \/ Fill(m) \/ Install(m) \/ thread_release(m)

Spec == Init /\ [][Next]_vars

-----------------------------------------------------------------------------
\* Whenever a thread has the core, the core is in that thread's context: the
\* process it acts for (the capability gate reads it), its address space, its
\* resume point and its stacks, whatever ran in between; and what is kept of a
\* thread that waits is its own.
ContextsHeld ==
  /\ moving = NoSlot /\ state[g_cur] # "free" => live = own[g_cur]
  /\ \A t \in Pcbs \ {g_cur, moving} :
       state[t] \in {"runnable", "blocked"} => pcb[t] = own[t]

\* One thread is running: the one g_cur names.
OneRunning == \A t \in Pcbs : state[t] = "running" => t = g_cur

ThreadsSound == ContextsHeld /\ OneRunning
=============================================================================
