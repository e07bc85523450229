------------------------------- MODULE Sched -------------------------------
(***************************************************************************)
(* Run queues, the executor every core runs, and the blocking primitive.   *)
(*                                                                         *)
(* A runnable task is an entry in one core's ring; an idle core pops its   *)
(* own ring, else steals the head of a sibling's.  A blocked task is in no *)
(* ring: it arms a wait in its syscall, unwinds, and cpu_exec_proc parks   *)
(* it on the core that captured its context - or requeues it if a wake     *)
(* came in between.  A wake collects parked tasks under g_futex_lock and   *)
(* pushes them one by one after releasing it.                              *)
(*                                                                         *)
(* A section under g_futex_lock or one rq_lock is a step; everything       *)
(* between two of them interleaves.  Slots are not recycled, so that a     *)
(* thread's slot stands for its tid; return values and signals are left    *)
(* out.                                                                    *)
(***************************************************************************)
EXTENDS Integers, Sequences, FiniteSets, FiniteSetsExt

CONSTANTS
    NCore,      \* online cores
    NTask,      \* kproc slots
    LeaderOf,   \* tg_leader of each slot
    QLen,       \* RQ_LEN - 1
    Word, Poll, \* a futex word, an epoll instance
    Settings,   \* the programs considered, see setting
    None

Core == 0 .. NCore - 1
Task == 0 .. NTask - 1
Threads == {t \in Task : LeaderOf[t] # t}
Key  == {Word, Poll} \cup Threads      \* a thread is the key its joiners wait on

ASSUME SchedAssumption ==
    /\ NCore \in Nat \ {0} /\ NTask \in Nat \ {0} /\ QLen \in Nat \ {0}
    /\ LeaderOf \in [Task -> Task]
    /\ Word \notin Task /\ Poll \notin Task /\ Word # Poll
    /\ \A w \in Settings :
          /\ w.boot \in Seq(Task) /\ Len(w.boot) <= QLen
          /\ \A i, j \in DOMAIN w.boot : w.boot[i] = w.boot[j] => i = j
          /\ w.born \subseteq Task /\ w.movable \subseteq Task
          /\ w.keys \subseteq {Word, Poll} /\ w.quotas \subseteq Nat \ {0}
          /\ w.masks \subseteq SUBSET Core
          /\ w.pins \subseteq (SUBSET Core) \ {Core}
    /\ None \notin Core \cup Task \cup {Word, Poll}

VARIABLES
    setting,  \* chosen once, what the programs do: the ring of core 0 at the
              \* start and the tasks created later, the keys waited on, how many
              \* waiters a wake asks for, the masks passed to SYS_SET_AFFINITY and
              \* SYS_CORE_PIN, the tasks another core directs to migrate
    rq,       \* the rings
    core,     \* what each core does
    life,     \* "unborn", "live" or "dead"
    wait,     \* per task: wait_key, wait_armed, wake_pending, parked
    due,      \* tasks whose wait_deadline has passed
    held,     \* keys whose condition holds: word changed, event ready, thread done
    iso,      \* g_cpu_isolated
    aff,      \* affinity; {} is unrestricted
    pin,      \* migrate_pin
    mig       \* migrate_to

place == <<iso, aff, pin, mig>>
vars == <<setting, rq, core, life, wait, due, held, place>>

Awake == [key |-> None, armed |-> FALSE, pending |-> FALSE, parked |-> FALSE]
Resting == [pc |-> "idle", cur |-> None, key |-> None, todo |-> {}, pref |-> 0,
            seen |-> {}]

Init ==
    /\ setting \in Settings
    /\ rq = [c \in Core |-> IF c = 0 THEN setting.boot ELSE <<>>]
    /\ core = [c \in Core |-> Resting]
    /\ life = [t \in Task |-> IF \E i \in DOMAIN setting.boot : setting.boot[i] = t
                              THEN "live" ELSE "unborn"]
    /\ wait = [t \in Task |-> Awake]
    /\ due = {} /\ held = {}
    /\ iso = {} /\ aff = [t \in Task |-> {}]
    /\ pin = [t \in Task |-> None] /\ mig = [t \in Task |-> None]

-----------------------------------------------------------------------------
(* Where a task may go. *)

May(t, c) == aff[t] = {} \/ c \in aff[t]
Room(c) == Len(rq[c]) < QLen
Confined(t, i) == i # {} /\ aff[t] # {} /\ aff[t] \subseteq i
Open(t, c, i) == c \notin i \/ Confined(t, i)

\* rq_push_any: the preferred core - its mask is not consulted - or the first
\* other one that the mask, the isolated set i and the ring's room allow.
Siblings(t, c, i) == {d \in Core \ {c} : May(t, d) /\ Open(t, d, i) /\ Room(d)}
Landing(t, c, i) ==
    IF Open(t, c, i) /\ Room(c) THEN c
    ELSE IF Siblings(t, c, i) # {} THEN Min(Siblings(t, c, i)) ELSE None

\* cpu_exec_proc: the directed core, or this one; the mask outranks both.
Home(t, c) ==
    LET d == IF mig[t] # None THEN mig[t] ELSE c
    IN IF May(t, d) THEN d ELSE Min(aff[t])

-----------------------------------------------------------------------------
(* The core loop. *)

At(c, pc) == core[c].pc = pc
Running(c) == At(c, "user")
Cur(c) == core[c].cur

\* The core goes back to the task in whose syscall it is, or to its loop.
Back(c) == [Resting EXCEPT !.pc = IF Cur(c) = None THEN "idle" ELSE "user",
                           !.cur = Cur(c)]

\* The core has to push the tasks in ts; rq_push_any reads g_cpu_isolated first.
Pushing(c, ts, pref) ==
    [Back(c) EXCEPT !.pc = "push", !.todo = ts, !.pref = pref, !.seen = iso]

Dispatch(c, t) ==
    /\ core' = [core EXCEPT ![c] = [Resting EXCEPT !.pc = "user", !.cur = t]]
    /\ pin' = [pin EXCEPT ![t] = None]

Pop(c) ==
    /\ At(c, "idle") /\ rq[c] # <<>>
    /\ Dispatch(c, Head(rq[c]))
    /\ rq' = [rq EXCEPT ![c] = Tail(@)]
    /\ UNCHANGED <<setting, life, wait, due, held, iso, aff, mig>>

Stealable(t, c) == May(t, c) /\ pin[t] \in {None, c}

\* rq_steal: the head of a sibling's ring; isolated cores neither rob nor are
\* robbed, and a victim whose lock is busy is skipped.
Steal(c, v) ==
    /\ At(c, "idle") /\ rq[c] = <<>> /\ c # v
    /\ rq[v] # <<>> /\ {c, v} \cap iso = {}
    /\ Stealable(Head(rq[v]), c)
    /\ Dispatch(c, Head(rq[v]))
    /\ rq' = [rq EXCEPT ![v] = Tail(@)]
    /\ UNCHANGED <<setting, life, wait, due, held, iso, aff, mig>>

\* Mutant: a wait whose wake never came has no deadline.
OverdueNever(t) == FALSE
Overdue(t) == wait[t].parked /\ t \in due

Unparked(ts) ==
    [t \in Task |-> IF t \in ts THEN [wait[t] EXCEPT !.parked = FALSE, !.armed = FALSE]
                    ELSE wait[t]]

\* futex_timeout_scan, by a core that found nothing to run.
Scan(c) ==
    LET late == {t \in Task : Overdue(t)}
    IN /\ At(c, "idle") /\ rq[c] = <<>> /\ late # {}
       /\ wait' = Unparked(late)
       /\ core' = [core EXCEPT ![c] = Pushing(c, late, c)]
       /\ UNCHANGED <<setting, rq, life, due, held, place>>

\* The slice tick, or another core's preempt IPI, catches ring 3.
Preempt(c) ==
    /\ Running(c)
    /\ core' = [core EXCEPT ![c].pc = "unwind"]
    /\ UNCHANGED <<setting, rq, life, wait, due, held, place>>

WokenEarly(t) == wait[t].pending

\* cpu_exec_proc after RET_PREEMPTED: futex_park.
Park(c) ==
    LET t == Cur(c)
    IN /\ At(c, "unwind") /\ wait[t].armed /\ ~WokenEarly(t)
       /\ wait' = [wait EXCEPT ![t].parked = TRUE]
       /\ core' = [core EXCEPT ![c] = Resting]
       /\ UNCHANGED <<setting, rq, life, due, held, place>>

\* cpu_exec_proc after RET_PREEMPTED: the task is not to park, it is requeued.
Requeue(c) ==
    LET t == Cur(c)
    IN /\ At(c, "unwind") /\ (wait[t].armed => WokenEarly(t))
       /\ wait' = [wait EXCEPT ![t] = Awake]
       /\ due' = due \ {t}
       /\ core' = [core EXCEPT ![c] =
                    [Pushing(c, {t}, Home(t, c)) EXCEPT !.cur = None]]
       /\ mig' = [mig EXCEPT ![t] = None]
       /\ pin' = IF Home(t, c) = c THEN pin ELSE [pin EXCEPT ![t] = Home(t, c)]
       /\ UNCHANGED <<setting, rq, life, held, iso, aff>>

\* rq_push_any of the next task; futex_requeue clears its wait first.
Push(c) ==
    /\ At(c, "push")
    /\ LET t == Min(core[c].todo)
           d == Landing(t, core[c].pref, core[c].seen)
       IN /\ rq' = IF d = None THEN rq ELSE [rq EXCEPT ![d] = Append(@, t)]
          /\ wait' = [wait EXCEPT ![t].key = None]
          /\ due' = due \ {t}
          /\ core' = [core EXCEPT ![c] =
                        IF core[c].todo = {t} THEN Back(c)
                        ELSE Pushing(c, core[c].todo \ {t}, core[c].pref)]
    /\ UNCHANGED <<setting, life, held, place>>

-----------------------------------------------------------------------------
(* What the running task does. *)

Armed(t, k) == [wait EXCEPT ![t] = [Awake EXCEPT !.key = k, !.armed = TRUE]]

\* A condition a task may wait on: a word, an epoll instance, a thread of its
\* own group.
MayWait(t, k) ==
    IF k \in Threads
    THEN t # k /\ LeaderOf[t] = LeaderOf[k] /\ life[k] # "unborn"
    ELSE k \in setting.keys

\* block_ring3_restart arms in a section of its own, block_ring3_locked in the
\* one that checked the condition.
Apart(k) == k = Poll

\* sys_futex_wait, sys_thread_join, sys_epoll_wait: the condition does not hold.
Wait(c, k) ==
    /\ Running(c) /\ MayWait(Cur(c), k) /\ k \notin held
    /\ core' = [core EXCEPT ![c].pc = IF Apart(k) THEN "arm" ELSE "unwind",
                            ![c].key = IF Apart(k) THEN k ELSE None]
    /\ wait' = IF Apart(k) THEN wait ELSE Armed(Cur(c), k)
    /\ due' = due \ {Cur(c)}
    /\ UNCHANGED <<setting, rq, life, held, place>>

Arm(c) ==
    /\ At(c, "arm")
    /\ wait' = Armed(Cur(c), core[c].key)
    /\ core' = [core EXCEPT ![c].pc = "unwind", ![c].key = None]
    /\ UNCHANGED <<setting, rq, life, due, held, place>>

\* A task changes the word or makes the event ready, and will call the wake.
Post(c, k) ==
    /\ Running(c) /\ k \in setting.keys
    /\ held' = held \cup {k}
    /\ core' = [core EXCEPT ![c].pc = "wake", ![c].key = k]
    /\ UNCHANGED <<setting, rq, life, wait, due, place>>

\* The word is set back, the event consumed.
Consume(c, k) ==
    /\ Running(c) /\ k \in held \cap setting.keys
    /\ held' = held \ {k}
    /\ UNCHANGED <<setting, rq, core, life, wait, due, place>>

Waiter(t, k) ==
    /\ wait[t].key = k
    /\ wait[t].parked \/ (wait[t].armed /\ ~wait[t].pending)

\* Mutant: a woken task stays parked, and a second wake requeues it again.
WokenStays(ts) == wait
Woken(ts) ==
    [t \in Task |->
        IF t \notin ts THEN wait[t]
        ELSE IF wait[t].parked
             THEN [wait[t] EXCEPT !.parked = FALSE, !.armed = FALSE]
             ELSE [wait[t] EXCEPT !.pending = TRUE]]

\* futex_wake_key: the first n waiters in slot order.  The parked ones are this
\* core's to push; the arming ones requeue themselves.
Wake(c, n) ==
    LET all == {t \in Task : Waiter(t, core[c].key)}
        ts  == {t \in all : Cardinality({u \in all : u < t}) < n}
        mine == {t \in ts : wait[t].parked}
    IN /\ At(c, "wake")
       /\ core[c].key \in Threads => n = NTask
       /\ wait' = Woken(ts)
       /\ core' = [core EXCEPT ![c] = IF mine = {} THEN Back(c)
                                      ELSE Pushing(c, mine, c)]
       /\ UNCHANGED <<setting, rq, life, due, held, place>>

\* SYS_EXIT, SYS_THREAD_EXIT: a thread publishes its end and wakes its joiners.
Exit(c) ==
    LET t == Cur(c)
    IN /\ Running(c)
       /\ life' = [life EXCEPT ![t] = "dead"]
       /\ held' = IF t \in Threads THEN held \cup {t} ELSE held
       /\ core' = [core EXCEPT ![c] =
                    IF t \in Threads THEN [Resting EXCEPT !.pc = "wake", !.key = t]
                    ELSE Resting]
       /\ UNCHANGED <<setting, rq, wait, due, place>>

\* sys_fork, SYS_THREAD_CREATE: the new task inherits the affinity and is pushed.
Create(c, t) ==
    /\ Running(c) /\ t \in setting.born /\ life[t] = "unborn"
    /\ t \in Threads => LeaderOf[t] = LeaderOf[Cur(c)]
    /\ life' = [life EXCEPT ![t] = "live"]
    /\ aff' = [aff EXCEPT ![t] = aff[IF t \in Threads THEN LeaderOf[t] ELSE Cur(c)]]
    /\ core' = [core EXCEPT ![c] = Pushing(c, {t}, c)]
    /\ UNCHANGED <<setting, rq, wait, due, held, iso, pin, mig>>

SetAffinity(c, m) ==
    /\ Running(c)
    /\ aff' = [aff EXCEPT ![Cur(c)] = m]
    /\ UNCHANGED <<setting, rq, core, life, wait, due, held, iso, pin, mig>>

\* SYS_CORE_PIN: the cores are isolated, the leader's affinity is set to them.
CorePin(c, m) ==
    /\ Running(c)
    /\ iso' = m
    /\ aff' = IF m = {} THEN aff ELSE [aff EXCEPT ![LeaderOf[Cur(c)]] = m]
    /\ UNCHANGED <<setting, rq, core, life, wait, due, held, pin, mig>>

\* A supervisor on another core directs a running task to core d.
Direct(t, d) ==
    /\ t \in setting.movable /\ \E c \in Core : Cur(c) = t
    /\ mig' = [mig EXCEPT ![t] = d]
    /\ UNCHANGED <<setting, rq, core, life, wait, due, held, iso, aff, pin>>

\* The deadline every wait has passes.
Expire(t) ==
    /\ wait[t].armed /\ t \notin due
    /\ due' = due \cup {t}
    /\ UNCHANGED <<setting, rq, core, life, wait, held, place>>

-----------------------------------------------------------------------------
Kernel(c) ==
    \/ Pop(c) \/ Scan(c) \/ Preempt(c) \/ Park(c) \/ Requeue(c) \/ Push(c) \/ Arm(c)
    \/ \E v \in Core : Steal(c, v)
    \/ \E n \in setting.quotas : Wake(c, n)

User(c) ==
    \/ \E k \in Key : Wait(c, k) \/ Post(c, k) \/ Consume(c, k)
    \/ Exit(c)
    \/ \E t \in Task : Create(c, t)
    \/ \E m \in setting.masks : SetAffinity(c, m)
    \/ \E m \in setting.pins : CorePin(c, m)

Next ==
    \/ \E c \in Core : Kernel(c) \/ User(c)
    \/ \E t \in Task : Expire(t) \/ \E d \in Core : Direct(t, d)

Spec == Init /\ [][Next]_vars

\* The kernel's own steps go on, the slice tick catches ring 3, time passes.
FairSpec ==
    /\ Spec
    /\ \A c \in Core : WF_vars(Kernel(c))
    /\ \A t \in Task : WF_vars(Expire(t))

-----------------------------------------------------------------------------
(* Properties. *)

TypeOK ==
    /\ setting \in Settings
    /\ rq \in [Core -> Seq(Task)] /\ \A c \in Core : Len(rq[c]) <= QLen
    /\ core \in [Core -> [pc : {"idle", "user", "unwind", "push", "arm", "wake"},
                          cur : Task \cup {None}, key : Key \cup {None},
                          todo : SUBSET Task, pref : Core, seen : SUBSET Core]]
    /\ life \in [Task -> {"unborn", "live", "dead"}]
    /\ wait \in [Task -> [key : Key \cup {None}, armed : BOOLEAN,
                          pending : BOOLEAN, parked : BOOLEAN]]
    /\ due \subseteq Task /\ held \subseteq Key
    /\ iso \subseteq Core /\ aff \in [Task -> SUBSET Core]
    /\ pin \in [Task -> Core \cup {None}] /\ mig \in [Task -> Core \cup {None}]

\* The places a task can be: a ring entry, a core that runs it, a core that is
\* about to push it, parked.
Entries(t) == {e \in Core \X (1 .. QLen) : e[2] <= Len(rq[e[1]]) /\ rq[e[1]][e[2]] = t}
Cores(t)   == {c \in Core : Cur(c) = t}
Hands(t)   == {c \in Core : t \in core[c].todo}
Places(t)  == Cardinality(Entries(t)) + Cardinality(Cores(t))
              + Cardinality(Hands(t)) + (IF wait[t].parked THEN 1 ELSE 0)

\* A live task is in exactly one place: never lost, and its one saved context
\* never resumed by two cores.
OnePlace == \A t \in Task : Places(t) = IF life[t] = "live" THEN 1 ELSE 0

\* A futex or join waiter whose condition holds is asleep only while the wake
\* that follows the change is still to come: no wakeup falls between the check
\* and the arming, or between the arming and the park.
Coming(k) == \E c \in Core : At(c, "wake") /\ core[c].key = k
NoLostWake ==
    \A t \in Task :
        (setting.quotas = {NTask} /\ wait[t].armed /\ ~wait[t].pending /\ wait[t].key \in held \ {Poll})
            => Coming(wait[t].key)

Starts(c) == core'[c].cur \in Task /\ core'[c].cur # Cur(c)

\* What is preempted, requeued or stolen starts only on a core of its affinity
\* mask, whatever a supervisor directs.  A wake and a creation push on the caller's
\* core and do not look at the mask, so programs that wait, join or create are left
\* out.
Plain == /\ setting.keys = {} /\ setting.born = {}
         /\ \A t \in Threads : life[t] = "unborn"
MovesRespectMask == [][Plain => \A c \in Core : Starts(c) => May(core'[c].cur, c)]_vars

\* A directed migration is not undone by a thief: the task runs next on the core
\* it was sent to.
PinHome == [][\A c \in Core : Starts(c) => pin[core'[c].cur] \in {None, c}]_vars

\* When every live task is parked, a deadline frees one.
AllParked == /\ \E t \in Task : life[t] = "live"
             /\ \A t \in Task : life[t] = "live" => wait[t].parked
Rescued == AllParked ~> ~AllParked

\* A live task is in exactly one place, a run queue, a core or a core's hands, and no wake that has
\* been posted is lost by a task that is about to park.
RunSound == TypeOK /\ OnePlace /\ NoLostWake

\* A task starts only where its mask and its pinned home allow, and a state in which every live task
\* is parked does not last.
DispatchSound == MovesRespectMask /\ PinHome /\ Rescued
=============================================================================
