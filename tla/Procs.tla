------------------------------- MODULE Procs -------------------------------
(***************************************************************************)
(* The process table of kernel64.c: slots that are claimed under           *)
(* g_kproc_lock, reset, filled in and published by fork and thread         *)
(* creation; threads that share their leader's address space; the two      *)
(* halves of leaving (a thread gives back its stack and its slot, the last *)
(* member tears the group down against the leader's slot); execve; and the *)
(* readers getppid, waitpid and thread_join.                               *)
(*                                                                         *)
(* One core runs one member at a time and a system call is not preempted,  *)
(* so the steps of a call interleave with those of other cores only.       *)
(* Ids are never reused: `made` numbers pids and address spaces alike.     *)
(***************************************************************************)
EXTENDS Naturals, FiniteSets, Sequences

CONSTANTS Slots,     \* MAX_KPROC entries of kprocs
          Core,      \* the executors
          ThrMax,    \* THR_MAX thread numbers of one process
          Code,      \* exit statuses
          LogSize,   \* REAP_LOG
          MaxMade,   \* bound: pids and address spaces handed out
          Overlap,   \* may a member leave while a sibling has left but still
                     \* holds its stack, as the code lets it?
          LoneExec   \* do programs call execve from an unthreaded process
                     \* only? The code does not insist on it.

\* What the constants have to satisfy.
ProcsAssumption ==
  /\ Slots \subseteq Nat \ {0} /\ 1 \in Slots
  /\ ThrMax \in Nat /\ LogSize \in Nat \ {0} /\ Overlap \in BOOLEAN /\ LoneExec \in BOOLEAN

VARIABLES k,        \* kprocs
          n,        \* slots ever taken (n_kproc)
          spaces,   \* page trees not yet freed
          made,     \* g_next_pid
          on,       \* core -> member it runs, 0 when idle
          pc,       \* core -> step of the call it is inside
          arg,      \* core -> what that call remembers
          log,      \* g_reap, newest last
          ended,    \* ghost: <<pid, thread number or 0, status>> of who left
          parent    \* ghost: pid -> pid of the process that forked it

vars == <<k, n, spaces, made, on, pc, arg, log, ended, parent>>

\* Thread numbers start at 1 here: 0 is the leader's tg_tid of -1, and slot 0
\* the tables' -1.
Tids == 1..ThrMax
Nil == 0
NoArg == [slot |-> 0, code |-> 0, tid |-> Nil, last |-> FALSE, what |-> "none"]

\* kproc_reset: everything but the generation starts over, and that moves on.
Blank(gen) ==
  [used |-> FALSE, torn |-> FALSE, pid |-> 0, gen |-> gen, leader |-> Nil,
   tid |-> Nil, nthr |-> 1, next |-> 0, exit |-> [t \in Tids |-> 0],
   done |-> {}, exited |-> FALSE, code |-> 0, auth |-> FALSE, cr3 |-> 0,
   stack |-> FALSE, par |-> Nil, pargen |-> 0, ready |-> FALSE]

Init ==
  /\ k = [s \in Slots |-> IF s = 1
            THEN [Blank(1) EXCEPT !.used = TRUE, !.pid = 1, !.leader = 1,
                                  !.cr3 = 1, !.ready = TRUE]
            ELSE Blank(0)]
  /\ n = {1} /\ spaces = {1} /\ made = 1 /\ log = <<>>
  /\ on = [c \in Core |-> 0] /\ pc = [c \in Core |-> "idle"]
  /\ arg = [c \in Core |-> NoArg]
  /\ ended = {} /\ parent = <<0>>

-----------------------------------------------------------------------------
\* tg_of
Leader(s) == IF k[s].leader = Nil THEN s ELSE k[s].leader

\* ppid_live: the recorded parent slot counts only in the generation in
\* which the fork happened.
\* Mutant: the generation is not compared.
AnyGen(s) ==
  IF k[s].par = Nil \/ ~k[k[s].par].used THEN Nil ELSE k[s].par
LiveParent(s) ==
  IF \/ k[s].par = Nil
     \/ ~k[k[s].par].used
     \/ k[k[s].par].gen # k[s].pargen
  THEN Nil ELSE k[s].par

Goto(c, step) == pc' = [pc EXCEPT ![c] = step]
Calls(c) == pc[c] = "user" /\ arg[c] = NoArg

Dispatch(c) ==
  /\ pc[c] = "idle"
  /\ \E s \in n : /\ k[s].ready /\ \A d \in Core : on[d] # s
                  /\ on' = [on EXCEPT ![c] = s]
  /\ Goto(c, "user")
  /\ UNCHANGED <<k, n, spaces, made, arg, log, ended, parent>>

Preempt(c) ==
  /\ Calls(c)
  /\ on' = [on EXCEPT ![c] = 0] /\ Goto(c, "idle")
  /\ UNCHANGED <<k, n, spaces, made, arg, log, ended, parent>>

\* sys_fork refuses a process that has other members.
Fork(c) ==
  /\ Calls(c) /\ k[Leader(on[c])].nthr = 1 /\ made < MaxMade
  /\ Goto(c, "claim")
  /\ arg' = [arg EXCEPT ![c] = [NoArg EXCEPT !.what = "fork"]]
  /\ UNCHANGED <<k, n, spaces, made, on, log, ended, parent>>

\* SYS_THREAD_CREATE: the thread number is taken for good, then the stack is
\* mapped into the leader's space.
Create(c) ==
  LET l == Leader(on[c]) IN
  /\ Calls(c) /\ k[l].next < ThrMax /\ made < MaxMade
  /\ k' = [k EXCEPT ![l].next = @ + 1]
  /\ arg' = [arg EXCEPT ![c] = [NoArg EXCEPT !.what = "thread", !.tid = k[l].next + 1]]
  /\ Goto(c, "claim")
  /\ UNCHANGED <<n, spaces, made, on, log, ended, parent>>

\* Under g_kproc_lock: the first torn-down slot, else a fresh one, else the
\* call fails (a thread's stack frames stay mapped, its number stays spent).
Gone == {s \in n : k[s].used /\ k[s].torn}
Lowest(S) == CHOOSE s \in S : \A r \in S : s <= r

Claim(c) ==
  /\ pc[c] = "claim"
  /\ \/ /\ Gone # {}
        /\ LET s == Lowest(Gone) IN
             /\ k' = [k EXCEPT ![s].torn = FALSE]
             /\ arg' = [arg EXCEPT ![c].slot = s]
             /\ Goto(c, IF arg[c].what = "thread" /\ s = Leader(on[c])
                        THEN "back" ELSE "reset")
        /\ UNCHANGED n
     \/ /\ Gone = {} /\ n # Slots
        /\ LET s == Lowest(Slots \ n) IN
             n' = n \cup {s} /\ arg' = [arg EXCEPT ![c].slot = s]
        /\ Goto(c, "reset") /\ UNCHANGED k
     \/ /\ Gone = {} /\ n = Slots
        /\ Goto(c, "back") /\ UNCHANGED <<k, n, arg>>
  /\ UNCHANGED <<spaces, made, on, log, ended, parent>>

Reset(c) ==
  /\ pc[c] = "reset"
  /\ k' = [k EXCEPT ![arg[c].slot] = Blank(@.gen + 1)]
  /\ Goto(c, arg[c].what)
  /\ UNCHANGED <<n, spaces, made, on, arg, log, ended, parent>>

\* kproc_spawn publishes the slot before sys_fork clones the space into it and
\* records the parent.
Publish(c) ==
  LET s == arg[c].slot IN
  /\ pc[c] = "fork" /\ made' = made + 1
  /\ k' = [k EXCEPT ![s].pid = made', ![s].cr3 = made', ![s].leader = s,
                    ![s].used = TRUE]
  /\ spaces' = spaces \cup {made'}
  /\ parent' = Append(parent, k[Leader(on[c])].pid)
  /\ Goto(c, "clone")
  /\ UNCHANGED <<n, on, arg, log, ended>>

Link(c) ==
  LET s == arg[c].slot  l == Leader(on[c]) IN
  /\ pc[c] = "clone"
  /\ k' = [k EXCEPT ![s].par = l, ![s].pargen = k[l].gen, ![s].ready = TRUE]
  /\ Goto(c, "back")
  /\ UNCHANGED <<n, spaces, made, on, arg, log, ended, parent>>

\* vm_clone_user ran out of frames: the slot is given back, its space freed.
CloneFails(c) ==
  LET s == arg[c].slot IN
  /\ pc[c] = "clone"
  /\ k' = [k EXCEPT ![s].torn = TRUE, ![s].exited = TRUE]
  /\ spaces' = spaces \ {k[s].cr3}
  /\ ended' = ended \cup {<<k[s].pid, 0, 0>>}
  /\ Goto(c, "back")
  /\ UNCHANGED <<n, made, on, arg, log, parent>>

\* kproc_spawn_thread fills the slot from its leader's.
PublishThread(c) ==
  LET s == arg[c].slot  l == Leader(on[c]) IN
  /\ pc[c] = "thread" /\ made' = made + 1
  /\ k' = [k EXCEPT ![s] = [@ EXCEPT
       !.pid = made', !.cr3 = k[l].cr3, !.leader = l, !.tid = arg[c].tid,
       !.par = k[l].par, !.pargen = k[l].pargen, !.nthr = 0, !.used = TRUE,
       !.stack = TRUE]]
  /\ parent' = Append(parent, parent[k[l].pid])
  /\ Goto(c, "count")
  /\ UNCHANGED <<n, spaces, on, arg, log, ended>>

\* The member is counted, and only then put on a run queue.
Count(c) ==
  /\ pc[c] = "count"
  /\ k' = [k EXCEPT ![Leader(on[c])].nthr = @ + 1]
  /\ Goto(c, "queue")
  /\ UNCHANGED <<n, spaces, made, on, arg, log, ended, parent>>
Enqueue(c) ==
  LET s == arg[c].slot  l == Leader(on[c]) IN
  /\ pc[c] = "queue"
  /\ \/ k' = [k EXCEPT ![s].ready = TRUE]
     \/ k' = [k EXCEPT ![l].nthr = @ - 1, ![s].stack = FALSE, ![s].torn = TRUE]
  /\ Goto(c, "back")
  /\ UNCHANGED <<n, spaces, made, on, arg, log, ended, parent>>

Return(c) ==
  /\ pc[c] = "back"
  /\ Goto(c, "user") /\ arg' = [arg EXCEPT ![c] = NoArg]
  /\ UNCHANGED <<k, n, spaces, made, on, log, ended, parent>>

-----------------------------------------------------------------------------
\* Is a member of l's group past its leave and not yet rid of its stack?
Releasing(l) == \E c \in Core : /\ pc[c] \in {"stack", "note", "code", "done", "free"}
                                /\ arg[c].slot # 0 /\ Leader(arg[c].slot) = l

\* posix_thread_leave, atomically: who brings the count to zero owns the
\* teardown. A leader that is not the last records the group's status; a
\* thread goes on to release its slot, last or not.
Leave(c) ==
  LET s == on[c]  l == Leader(s)  last == k[l].nthr <= 1 IN
  \E code \in Code :
  /\ Calls(c) /\ (Overlap \/ ~Releasing(l))
  /\ k' = [k EXCEPT ![l].nthr = IF @ > 0 THEN @ - 1 ELSE 0, ![s].ready = FALSE,
                    ![s].code = IF s = l /\ ~last THEN code ELSE @,
                    ![s].auth = (s = l /\ ~last) \/ @,
                    ![s].exited = (s = l /\ ~last) \/ @]
  /\ ended' = ended \cup {<<k[l].pid, k[s].tid, code>>}
       \cup IF last /\ s # l /\ ~k[l].auth THEN {<<k[l].pid, 0, code>>} ELSE {}
  /\ arg' = [arg EXCEPT ![c] = [NoArg EXCEPT !.slot = s, !.code = code,
                                  !.tid = l, !.last = last]]
  /\ Goto(c, IF s # l THEN "stack" ELSE IF last THEN "exit" ELSE "gone")
  /\ UNCHANGED <<n, spaces, made, on, log, parent>>

\* thread_slot_release: the stack, the reap log, the join table (the status
\* before the bit that announces it), the slot.
ReleaseStack(c) ==
  /\ pc[c] = "stack"
  /\ k' = [k EXCEPT ![arg[c].slot].stack = FALSE]
  /\ Goto(c, "note")
  /\ UNCHANGED <<n, spaces, made, on, arg, log, ended, parent>>

Logged(s, code) ==
  LET l == Append(log, <<k[s].pid, code>>)
  IN  IF Len(l) > LogSize THEN Tail(l) ELSE l

Note(c) ==
  /\ pc[c] = "note"
  /\ log' = Logged(arg[c].slot, arg[c].code)
  /\ k' = [k EXCEPT ![arg[c].slot].exited = TRUE, ![arg[c].slot].code = arg[c].code]
  /\ Goto(c, "code")
  /\ UNCHANGED <<n, spaces, made, on, arg, ended, parent>>

JoinCode(c) ==
  /\ pc[c] = "code"
  /\ k' = [k EXCEPT ![arg[c].tid].exit[k[arg[c].slot].tid] = arg[c].code]
  /\ Goto(c, "done")
  /\ UNCHANGED <<n, spaces, made, on, arg, log, ended, parent>>
JoinDone(c) ==
  /\ pc[c] = "done"
  /\ k' = [k EXCEPT ![arg[c].tid].done = @ \cup {k[arg[c].slot].tid}]
  /\ Goto(c, "free")
  /\ UNCHANGED <<n, spaces, made, on, arg, log, ended, parent>>
FreeSlot(c) ==
  /\ pc[c] = "free"
  /\ k' = [k EXCEPT ![arg[c].slot].torn = TRUE]
  /\ Goto(c, IF arg[c].last THEN "exit" ELSE "gone")
  /\ UNCHANGED <<n, spaces, made, on, arg, log, ended, parent>>

\* The last member: status, page tree, reap log and SIGCHLD, and only then the
\* leader's slot.
Exit(c) ==
  LET l == arg[c].tid IN
  /\ pc[c] = "exit"
  /\ k' = [k EXCEPT ![l].code = IF k[l].auth THEN @ ELSE arg[c].code,
                    ![l].exited = TRUE]
  /\ Goto(c, "tear")
  /\ UNCHANGED <<n, spaces, made, on, arg, log, ended, parent>>
Tear(c) ==
  LET l == arg[c].tid IN
  /\ pc[c] = "tear"
  /\ spaces' = spaces \ {k[l].cr3}
  /\ log' = Logged(l, k[l].code)
  /\ Goto(c, "torn")
  /\ UNCHANGED <<k, n, made, on, arg, ended, parent>>
Torn(c) ==
  /\ pc[c] = "torn"
  /\ k' = [k EXCEPT ![arg[c].tid].torn = TRUE]
  /\ Goto(c, "gone")
  /\ UNCHANGED <<n, spaces, made, on, arg, log, ended, parent>>
Idle(c) ==
  /\ pc[c] = "gone"
  /\ on' = [on EXCEPT ![c] = 0] /\ Goto(c, "idle")
  /\ arg' = [arg EXCEPT ![c] = NoArg]
  /\ UNCHANGED <<k, n, spaces, made, log, ended, parent>>

\* execve: a new space in the calling slot, the old one freed, siblings or not.
Exec(c) ==
  LET s == on[c] IN
  /\ Calls(c) /\ made < MaxMade /\ made' = made + 1
  /\ LoneExec => s = Leader(s) /\ k[s].nthr = 1 /\ ~Releasing(s)
  /\ k' = [k EXCEPT ![s].cr3 = made']
  /\ spaces' = (spaces \ {k[s].cr3}) \cup {made'}
  /\ parent' = Append(parent, 0)
  /\ UNCHANGED <<n, on, pc, arg, log, ended>>

-----------------------------------------------------------------------------
Step(c) ==
  \/ Dispatch(c) \/ Preempt(c) \/ Fork(c) \/ Create(c) \/ Claim(c) \/ Reset(c)
  \/ Publish(c) \/ Link(c) \/ CloneFails(c) \/ PublishThread(c) \/ Count(c)
  \/ Enqueue(c) \/ Return(c) \/ Leave(c) \/ ReleaseStack(c) \/ Note(c)
  \/ JoinCode(c) \/ JoinDone(c) \/ FreeSlot(c) \/ Exit(c) \/ Tear(c) \/ Torn(c)
  \/ Idle(c) \/ Exec(c)
Next == \E c \in Core : Step(c)
Spec == Init /\ [][Next]_vars

-----------------------------------------------------------------------------
\* What SYS_WAITPID and SYS_THREAD_JOIN would answer now.
Answers == {<<k[s].pid, 0, k[s].code>> : s \in {t \in n :
              k[t].used /\ k[t].exited /\ ~k[t].torn /\ Leader(t) = t}}
Joins == UNION {{<<k[s].pid, t, k[s].exit[t]>> : t \in k[s].done} : s \in n}

(* A member that can run, or is running, has its page tree and its leader's  *)
(* slot: nothing frees them while anybody is inside (15538-15544).           *)
SpaceHeld ==
  \A s \in n : k[s].ready => /\ k[s].cr3 \in spaces
                             /\ ~k[Leader(s)].torn /\ k[Leader(s)].used
                             /\ k[Leader(s)].pid <= k[s].pid

(* getppid, SIGCHLD and waitpid resolve the parent slot to the process that  *)
(* forked the child or to nobody, however often the slot was recycled.       *)
ParentExact ==
  \A s \in n : (k[s].used /\ k[s].ready /\ LiveParent(s) # Nil) =>
                  k[LiveParent(s)].pid = parent[k[s].pid]

(* A status given to a waiter or to a joiner is the one that member left     *)
(* with: the leader's if it left, else the last thread's.                    *)
StatusExact == Answers \cup Joins \subseteq ended

(* A thread still releasing its stack and its join entry does so in a group  *)
(* that is not torn down: the last one to leave does the teardown.           *)
LastOutTearsDown ==
  \A c \in Core : pc[c] \in {"stack", "note", "code", "done"} =>
     k[arg[c].slot].cr3 \in spaces /\ ~k[arg[c].tid].torn

MembersSafe == SpaceHeld /\ ParentExact /\ StatusExact
=============================================================================
