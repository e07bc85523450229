-------------------------------- MODULE Smp --------------------------------
(***************************************************************************)
(* Starting the other cores (madt_scan, smp_init, the trampoline's mailbox *)
(* and ap_main) and the jobs the boot core then hands them through the     *)
(* mailbox word g_work_go: the xadd storm and the page probes of cmd_smp   *)
(* and the shared-cursor job of par_dispatch_kind.                         *)
(*                                                                         *)
(* A core looks at the mailbox once per lap of its loop: it reads the      *)
(* mode, then its own work_done flag, works, and sets the flag.  The boot  *)
(* core clears the flags, publishes the mode, waits, and withdraws it.     *)
(* The two reads of a core are two steps.  A wait of the boot core is a    *)
(* number of ticks: it runs out only on a core that is busy with a ring-3  *)
(* program (Busy), or, while starting cores, on one that never answers     *)
(* (Dead) or answers after the wait (Late).                                *)
(***************************************************************************)
EXTENDS Naturals, Sequences, FiniteSets, SequencesExt

CONSTANTS Madt,       \* the MADT's processor entries, in order: [id, enabled]
          Bsp,        \* the APIC id of the boot core
          MaxCpus,    \* MAX_CPUS
          Dead,       \* processors that never answer a start-up message
          Late,       \* whether a processor may answer after smp_init gave up
          Busy,       \* whether a core may be busy with a ring-3 program
          Commands,   \* the commands the boot core runs: "smp", "parallel"
          Units       \* units of a shared job

VARIABLES bsp,        \* [pc, i, cpu, tries, job]: where the boot core is
          mail,       \* the mailbox's core number (and with it the stack)
          ap,         \* per processor: [pc, id, mode, unit, for]
          online,     \* g_cpu[..].online, by core number
          go,         \* g_work_go: the mode, or "none"
          workdone,   \* g_cpu[..].work_done, by core number
          job,        \* g_pjob: [cursor, done, parts]; parts: the units folded
          counter,    \* g_work_counter
          page,       \* what the probed page holds
          seen,       \* g_cpu[..].probe_val, by core number
          took        \* the last job each core worked on (history)

vars == <<bsp, mail, ap, online, go, workdone, job, counter, page, seen, took>>

-----------------------------------------------------------------------------
Procs == {Madt[k].id : k \in DOMAIN Madt} \ {Bsp}
Numbers == 1 .. MaxCpus

\* The processors the table lists as enabled, at most MaxCpus.
Found ==
  LET all == SelectSeq(Madt, LAMBDA e : e.enabled)
  IN  SubSeq(all, 1, IF Len(all) < MaxCpus THEN Len(all) ELSE MaxCpus)

\* The cores that came up, by number; the boot core is not among them.
Up == 1 .. bsp.cpu - 1

\* The self test of the cross-core protocols: the additions, then the page read
\* under its first frame and, remapped, under its second.
CmdSmp == <<"storm", "probe", "probe">>

\* The parallel suite folds one buffer three times.
CmdParallel == <<"share", "share", "share">>

\* The kinds of job the boot core dispatches, in order.
Jobs == FlattenSeq([k \in DOMAIN Commands |-> IF Commands[k] = "smp" THEN CmdSmp ELSE CmdParallel])

NoJob == [cursor |-> 0, done |-> 0, parts |-> <<>>]

Init ==
  /\ bsp = [pc |-> "start", i |-> 1, cpu |-> 1, tries |-> 0, job |-> 0]
  /\ mail = 0
  /\ ap = [a \in Procs |-> [pc |-> "off", id |-> 0, mode |-> "none", unit |-> 0,
                         for |-> 0]]
  /\ online = {}
  /\ go = "none"
  /\ workdone = [c \in Numbers |-> FALSE]
  /\ job = NoJob
  /\ counter = 0
  /\ page = 0
  /\ seen = [c \in Numbers |-> 0]
  /\ took = [c \in Numbers |-> 0]

-----------------------------------------------------------------------------
(* Starting cores. *)

jobs == <<go, workdone, job, counter, page, seen, took>>

\* The next processor of the table: its core number and stack go into the
\* mailbox and the start-up messages are sent.
Start ==
  /\ bsp.pc = "start" /\ bsp.i <= Len(Found) /\ bsp.cpu < MaxCpus
  /\ LET a == Found[bsp.i].id IN
       IF a = Bsp
       THEN /\ bsp' = [bsp EXCEPT !.i = @ + 1]
            /\ UNCHANGED <<mail, ap>>
       ELSE /\ mail' = bsp.cpu
            /\ ap' = [ap EXCEPT ![a].pc = IF @ = "off" /\ a \notin Dead
                                          THEN "climbing" ELSE @]
            /\ bsp' = [bsp EXCEPT !.pc = "wait", !.tries = 1]
  /\ UNCHANGED <<online, jobs>>

\* The trampoline loads the stack and the core number from the mailbox.
Climb(a) ==
  /\ ap[a].pc = "climbing"
  /\ Late \/ (bsp.pc = "wait" /\ Found[bsp.i].id = a)
  /\ ap' = [ap EXCEPT ![a].pc = "arrived", ![a].id = mail]
  /\ UNCHANGED <<bsp, mail, online, jobs>>

\* ap_main sets the core up and announces it.
Announce(a) ==
  /\ ap[a].pc = "arrived"
  /\ online' = online \cup {ap[a].id}
  /\ ap' = [ap EXCEPT ![a].pc = "loop"]
  /\ UNCHANGED <<bsp, mail, jobs>>

\* The first wait ran out: the start-up message is sent once more.
Again ==
  /\ bsp.pc = "wait" /\ bsp.cpu \notin online /\ bsp.tries = 1
  /\ bsp' = [bsp EXCEPT !.tries = 2]
  /\ UNCHANGED <<mail, ap, online, jobs>>

\* Whether the core the boot core waits for counts as started.
Started == bsp.cpu \in online

Next1 == bsp' = [bsp EXCEPT !.pc = "start", !.i = @ + 1, !.cpu = @ + 1, !.tries = 0]

CountIt ==
  /\ bsp.pc = "wait" /\ Started
  /\ Next1
  /\ UNCHANGED <<mail, ap, online, jobs>>

\* Both waits ran out: the number and the stack go to the next processor.
GiveUp ==
  /\ bsp.pc = "wait" /\ bsp.tries = 2 /\ ~Started
  /\ Late \/ Found[bsp.i].id \in Dead
  /\ bsp' = [bsp EXCEPT !.pc = "start", !.i = @ + 1, !.tries = 0]
  /\ UNCHANGED <<mail, ap, online, jobs>>

-----------------------------------------------------------------------------
(* A core's loop. *)

boot == <<bsp, mail, online>>

Exec(a) ==
  /\ ap[a].pc = "loop" /\ Busy
  /\ ap' = [ap EXCEPT ![a].pc = "exec"]
  /\ UNCHANGED <<boot, jobs>>

Back(a) ==
  /\ ap[a].pc = "exec"
  /\ ap' = [ap EXCEPT ![a].pc = "loop"]
  /\ UNCHANGED <<boot, jobs>>

ReadMode(a) ==
  /\ ap[a].pc = "loop" /\ go # "none"
  /\ ap' = [ap EXCEPT ![a].pc = "read", ![a].mode = go]
  /\ UNCHANGED <<boot, jobs>>

\* It works when a mode was read and its flag is clear.
Enter(a) ==
  /\ ap[a].pc = "read"
  /\ LET join == ~workdone[ap[a].id] IN
       ap' = [ap EXCEPT ![a].pc = IF ~join THEN "loop"
                                  ELSE IF ap[a].mode = "share" THEN "claim" ELSE "work",
                        ![a].for = IF ap[a].mode = Jobs[bsp.job] THEN bsp.job ELSE 0]
  /\ UNCHANGED <<boot, jobs>>

\* One atomic addition stands for the storm of them; a probe reads the page.
Work(a) ==
  LET c == ap[a].id IN
  /\ ap[a].pc = "work"
  /\ IF ap[a].mode = "storm"
     THEN counter' = counter + 1 /\ UNCHANGED seen
     ELSE seen' = [seen EXCEPT ![c] = page] /\ UNCHANGED counter
  /\ ap' = [ap EXCEPT ![a].pc = "leave"]
  /\ UNCHANGED <<boot, go, workdone, job, page, took>>

\* Mutant: the bound is one too large.
OneMore(u) == u > Units

\* pjob_run: an atomic fetch-and-add hands out each unit of the job.
Exhausted(u) == u >= Units

Fold(u) == [job EXCEPT !.cursor = @ + 1, !.parts = Append(@, u)]

Finish == [job EXCEPT !.cursor = @ + 1, !.done = @ + 1]

Claim(a) ==
  /\ ap[a].pc = "claim"
  /\ IF Exhausted(job.cursor)
     THEN job' = Finish /\ ap' = [ap EXCEPT ![a].pc = "leave"]
     ELSE /\ ap' = [ap EXCEPT ![a].pc = "fold", ![a].unit = job.cursor]
          /\ job' = [job EXCEPT !.cursor = @ + 1]
  /\ UNCHANGED <<boot, go, workdone, counter, page, seen, took>>

\* The unit's hash goes into the core's partial result.
FoldUnit(a) ==
  /\ ap[a].pc = "fold"
  /\ job' = [job EXCEPT !.parts = Append(@, ap[a].unit)]
  /\ ap' = [ap EXCEPT ![a].pc = "claim"]
  /\ UNCHANGED <<boot, go, workdone, counter, page, seen, took>>

Leave(a) ==
  LET c == ap[a].id IN
  /\ ap[a].pc = "leave"
  /\ workdone' = [workdone EXCEPT ![c] = TRUE]
  /\ took' = [took EXCEPT ![c] = ap[a].for]
  /\ ap' = [ap EXCEPT ![a].pc = "loop", ![a].mode = "none", ![a].for = 0]
  /\ UNCHANGED <<boot, go, job, counter, page, seen>>

-----------------------------------------------------------------------------
(* The boot core's dispatch. *)

rest == <<mail, ap, online>>

\* The next job: its results are reset.
Reset ==
  /\ bsp.pc = "start" /\ (bsp.i > Len(Found) \/ bsp.cpu = MaxCpus)
  /\ bsp.job < Len(Jobs)
  /\ bsp' = [bsp EXCEPT !.pc = "clear", !.job = @ + 1]
  /\ job' = IF Jobs[bsp.job + 1] = "share" THEN NoJob ELSE job
  /\ counter' = IF Jobs[bsp.job + 1] = "storm" THEN 0 ELSE counter
  /\ page' = IF Jobs[bsp.job + 1] = "probe" THEN bsp.job + 1 ELSE page
  /\ UNCHANGED <<rest, go, workdone, seen, took>>

\* The flags of the cores are cleared ...
ClearFlags ==
  /\ bsp.pc = "clear"
  /\ workdone' = [c \in Numbers |-> IF c \in Up THEN FALSE ELSE workdone[c]]
  /\ bsp' = [bsp EXCEPT !.pc = "publish"]
  /\ UNCHANGED <<rest, go, job, counter, page, seen, took>>

\* ... and the mode is published.
Publish ==
  /\ bsp.pc = "publish"
  /\ go' = Jobs[bsp.job]
  /\ bsp' = [bsp EXCEPT !.pc = IF Jobs[bsp.job] = "share" THEN "share" ELSE "gather"]
  /\ counter' = IF Jobs[bsp.job] = "storm" THEN counter + 1 ELSE counter
  /\ UNCHANGED <<rest, workdone, job, page, seen, took>>

\* The boot core claims units like any other; what it claims it folds at once.
Share ==
  /\ bsp.pc = "share"
  /\ IF Exhausted(job.cursor)
     THEN job' = Finish /\ bsp' = [bsp EXCEPT !.pc = "gather"]
     ELSE job' = Fold(job.cursor) /\ bsp' = bsp
  /\ UNCHANGED <<rest, go, workdone, counter, page, seen, took>>

\* A core the boot core does not wait for to the end: it runs a program.
Away(c) == \A a \in Procs : ap[a].id = c => ap[a].pc = "exec"

Everyone ==
  IF Jobs[bsp.job] = "share" THEN job.done >= bsp.cpu
                             ELSE \A c \in Up : workdone[c]

\* The others have finished, or the wait ran out on those that are away.
Gather ==
  /\ bsp.pc = "gather"
  /\ Everyone \/ \E c \in Up : Away(c) /\ \A d \in Up : workdone[d] \/ Away(d)
  /\ go' = "none"
  /\ bsp' = [bsp EXCEPT !.pc = IF Jobs[bsp.job] = "share" THEN "barrier" ELSE "start"]
  /\ UNCHANGED <<rest, workdone, job, counter, page, seen, took>>

\* par_dispatch_kind also waits until every core has set its flag, so that the
\* next dispatch cannot clear it too early.
Returned == \A c \in Up : workdone[c] \/ Away(c)

Barrier ==
  /\ bsp.pc = "barrier" /\ Returned
  /\ bsp' = [bsp EXCEPT !.pc = "start"]
  /\ UNCHANGED <<rest, go, workdone, job, counter, page, seen, took>>

-----------------------------------------------------------------------------
Next ==
  \/ Start \/ Again \/ CountIt \/ GiveUp
  \/ Reset \/ ClearFlags \/ Publish \/ Share \/ Gather \/ Barrier
  \/ \E a \in Procs : \/ Climb(a) \/ Announce(a) \/ Exec(a) \/ Back(a) \/ ReadMode(a)
                      \/ Enter(a) \/ Work(a) \/ Claim(a) \/ FoldUnit(a) \/ Leave(a)

Spec == Init /\ [][Next]_vars

-----------------------------------------------------------------------------
\* No two processors run on one stack: each that took its number and stack
\* from the mailbox took its own.
OwnStack ==
  \A a, b \in Procs : a # b /\ ap[a].id # 0 => ap[a].id # ap[b].id

\* When a shared job is over, every unit has been folded exactly once,
\* whichever cores took part.
EachUnitOnce ==
  bsp.pc = "start" /\ bsp.job > 0 /\ Jobs[bsp.job] = "share" =>
    /\ Len(job.parts) = Units
    /\ \A u \in 0 .. Units - 1 : \E k \in DOMAIN job.parts : job.parts[k] = u

\* When a storm is over that nobody was away from, every core has added once.
StormCounted ==
  bsp.pc = "start" /\ bsp.job > 0 /\ Jobs[bsp.job] = "storm" /\ ~Busy => counter = bsp.cpu

\* A core whose flag says it is finished while a job is on has worked on that
\* job and not on an earlier one: nobody is counted for, or misses, a job
\* because of the one before it.
NoneSkips == go # "none" => \A c \in Up : workdone[c] => took[c] = bsp.job

JobsSound == OwnStack /\ EachUnitOnce /\ StormCounted
=============================================================================
