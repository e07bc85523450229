------------------------------- MODULE Media -------------------------------
(***************************************************************************)
(* The virtio-gpu and virtio-sound drivers of kernel64.c: one command slot *)
(* per queue, the sequence numbers that say which command has ended, the   *)
(* system calls made of several commands, and what the exit of a process   *)
(* releases.  A command is written into the slot, executed by the device   *)
(* at some later time (Execute, SndExecute, TxExecute), and its completion *)
(* is taken by whoever looks first: a synchronous submitter (Take), or one *)
(* that waits for a fence (Poll).                                          *)
(*                                                                         *)
(* The lock of a queue is held from one label of the code to the next and  *)
(* released inside the spins, so a submitter's two waits are two actions.  *)
(***************************************************************************)
EXTENDS Integers, FiniteSets

CONSTANTS Proc,      \* the processes, one thread each
          Slot,      \* the entries of g_gpu_res, a set of numbers
          Refused,   \* the kinds of command the host may answer with an error
          Overlap,   \* may two processes configure the sound stream at once?
          MaxCalls   \* bound on the system calls

\* What the constants have to satisfy.
MediaAssumption == /\ Slot \subseteq Nat /\ IsFiniteSet(Slot) /\ IsFiniteSet(Proc)
                   /\ Overlap \in BOOLEAN /\ MaxCalls \in Nat

None == "none"

VARIABLES gpu,     \* the control queue: commands submitted, answered, taken; the slot; the answer
          host,    \* the host's resources: those that exist, those with backing, the one shown
          res,     \* g_gpu_res
          nextid,  \* g_gpu_next_resid
          scan,    \* g_gpu_scanout_owner and g_gpu_scanout_resid
          ctl, tx, \* the sound card's control queue and transfer queue
          stream,  \* the state of the host's stream
          owner,   \* g_audio_owner
          call,    \* per process: where its system call stands
          held,    \* per process: the resources whose frames its DMA grants hold
          fired,   \* the fences reported as fired
          calls    \* the number of calls made
vars == <<gpu, host, res, nextid, scan, ctl, tx, stream, owner, call, held, fired, calls>>
sndVars == <<ctl, tx, stream, owner>>
gpuVars == <<gpu, host, res, nextid, scan, held, fired>>

Queue == [sub |-> 0, used |-> 0, done |-> 0, by |-> None, kind |-> None, id |-> 0, ok |-> TRUE]
Idle  == [at |-> "idle", ph |-> "run", kind |-> None, id |-> 0, slot |-> 0, ok |-> TRUE, fence |-> 0]

Init == /\ gpu = Queue /\ ctl = Queue /\ tx = Queue
        /\ host = [made |-> {}, backed |-> {}, shown |-> 0]
        /\ res = [i \in Slot |-> [used |-> FALSE, owner |-> None, id |-> 0]]
        /\ nextid = 1 /\ scan = [owner |-> None, id |-> 0]
        /\ stream = "idle" /\ owner = None
        /\ call = [p \in Proc |-> Idle]
        /\ held = [p \in Proc |-> {}] /\ fired = {} /\ calls = 0

At(p, l)      == call[p].at = l /\ call[p].ph = "run"
Goes(p, l)    == call' = [call EXCEPT ![p].at = l]
Ends(p)       == call' = [call EXCEPT ![p].at = "idle", ![p].ph = "run"]
\* A process asks for a command: it goes on at l when the command has been answered.
Asks(p, ph, kind, id, l) ==
    call' = [call EXCEPT ![p].at = l, ![p].ph = ph, ![p].kind = kind, ![p].id = id]
Calls(p)      == At(p, "idle") /\ calls < MaxCalls /\ calls' = calls + 1
Owns(p, id)   == \E i \in Slot : res[i].used /\ res[i].id = id /\ res[i].owner = p
----------------------------------------------------------------------------
(* The control queue of the GPU. *)

\* Mutant: the slot is written without waiting for the command before.
AtOnce(q) == TRUE

Drained(q) == q.sub = q.done

\* gpu_fill_desc_and_notify
Filled(q, p) == [q EXCEPT !.sub = @ + 1, !.by = p, !.kind = call[p].kind, !.id = call[p].id]

\* The device executes the command in the slot and writes its answer.
Works(k, id) == CASE k = "create"             -> TRUE
                  [] k \in {"attach", "scanout", "unref"} -> id \in host.made
                  [] OTHER                    -> id \in host.backed
Execute ==
  /\ gpu.used < gpu.sub
  /\ \E ok \in IF gpu.kind \in Refused THEN BOOLEAN ELSE {TRUE} :
       LET good == ok /\ Works(gpu.kind, gpu.id) IN
       /\ gpu' = [gpu EXCEPT !.used = @ + 1, !.ok = good]
       /\ host' = IF ~good THEN host
                  ELSE CASE gpu.kind = "create"  -> [host EXCEPT !.made = @ \cup {gpu.id}]
                         [] gpu.kind = "attach"  -> [host EXCEPT !.backed = @ \cup {gpu.id}]
                         [] gpu.kind = "scanout" -> [host EXCEPT !.shown = gpu.id]
                         [] gpu.kind = "unref"   ->
                              [host EXCEPT !.made = @ \ {gpu.id}, !.backed = @ \ {gpu.id},
                                           !.shown = IF @ = gpu.id THEN 0 ELSE @]
                         [] OTHER -> host
  /\ UNCHANGED <<res, nextid, scan, sndVars, call, held, fired, calls>>

\* gpu_submit_wait: the wait for the command before it, and the slot's filling
Submit(p) ==
  /\ call[p].ph = "gate" /\ Drained(gpu)
  /\ gpu' = Filled(gpu, p)
  /\ call' = [call EXCEPT ![p].ph = "spin"]
  /\ UNCHANGED <<host, res, nextid, scan, sndVars, held, fired, calls>>

\* gpu_submit_wait: a completion is there; it is taken and the answer is read
Take(p) ==
  /\ call[p].ph = "spin" /\ gpu.used # gpu.done
  /\ gpu' = [gpu EXCEPT !.done = @ + 1]
  /\ call' = [call EXCEPT ![p].ph = "run", ![p].ok = gpu.ok]
  /\ UNCHANGED <<host, res, nextid, scan, sndVars, held, fired, calls>>

\* gpu_submit_async
SubmitAsync(p) ==
  /\ call[p].ph = "async" /\ Drained(gpu)
  /\ gpu' = Filled(gpu, p)
  /\ call' = [call EXCEPT ![p].ph = "run", ![p].fence = gpu.sub + 1]
  /\ UNCHANGED <<host, res, nextid, scan, sndVars, held, fired, calls>>

\* gpu_poll_completion, from the two loops that call it
Poll(p) ==
  /\ \/ call[p].ph = "async" /\ ~Drained(gpu)
     \/ call[p].ph = "fence" /\ gpu.done < call[p].fence
  /\ gpu.used # gpu.done
  /\ gpu' = [gpu EXCEPT !.done = @ + 1]
  /\ UNCHANGED <<host, res, nextid, scan, sndVars, call, held, fired, calls>>

HasFired(q, fence) == q.done >= fence

\* gpu_fence_wait: the loop ends when the fence has fired or the time is over
FenceEnd(p) ==
  /\ call[p].ph = "fence"
  /\ fired' = IF HasFired(gpu, call[p].fence) THEN fired \cup {call[p].fence} ELSE fired
  /\ Ends(p)
  /\ UNCHANGED <<gpu, host, res, nextid, scan, sndVars, held, calls>>
----------------------------------------------------------------------------
(* The system calls on GPU resources. *)

\* SYS_GPU_RESOURCE_CREATE claims an entry and asks for the resource,
GpuCreate(p) ==
  /\ Calls(p)
  /\ \E i \in Slot :
       /\ ~res[i].used /\ \A j \in Slot : ~res[j].used => i <= j
       /\ res' = [res EXCEPT ![i].used = TRUE, ![i].owner = p]
       /\ nextid' = nextid + 1
       /\ call' = [call EXCEPT ![p] = [Idle EXCEPT !.at = "made", !.ph = "gate", !.kind = "create",
                                                   !.id = nextid, !.slot = i, !.fence = call[p].fence]]
  /\ UNCHANGED <<gpu, host, scan, sndVars, held, fired>>

\* then for its backing,
Made(p) ==
  /\ At(p, "made")
  /\ IF call[p].ok THEN Asks(p, "gate", "attach", call[p].id, "attached") /\ UNCHANGED res
     ELSE res' = [res EXCEPT ![call[p].slot].used = FALSE] /\ Ends(p)
  /\ UNCHANGED <<gpu, host, nextid, scan, sndVars, held, fired, calls>>

\* and maps the frames, grants them to the process and publishes the resource.
Attached(p) ==
  /\ At(p, "attached")
  /\ IF call[p].ok
     THEN /\ held' = [held EXCEPT ![p] = @ \cup {call[p].id}]
          /\ res' = [res EXCEPT ![call[p].slot].id = call[p].id]
          /\ Ends(p)
     ELSE Asks(p, "gate", "unref", call[p].id, "undone") /\ UNCHANGED <<held, res>>
  /\ UNCHANGED <<gpu, host, nextid, scan, sndVars, fired, calls>>

Undone(p) ==
  /\ At(p, "undone")
  /\ res' = [res EXCEPT ![call[p].slot].used = FALSE] /\ Ends(p)
  /\ UNCHANGED <<gpu, host, nextid, scan, sndVars, held, fired, calls>>

\* SYS_GPU_SET_SCANOUT
SetScanout(p) ==
  /\ Calls(p)
  /\ \E id \in 1..nextid : Owns(p, id) /\ Asks(p, "gate", "scanout", id, "shown")
  /\ UNCHANGED <<gpuVars, sndVars>>

Shown(p) ==
  /\ At(p, "shown") /\ Ends(p)
  /\ scan' = IF call[p].ok THEN [owner |-> p, id |-> call[p].id] ELSE scan
  /\ UNCHANGED <<gpu, host, res, nextid, held, fired, sndVars, calls>>

\* SYS_GPU_SUBMIT_FLUSH: the transfer is waited for, the flush is not
SubmitFlush(p) ==
  /\ Calls(p)
  /\ \E id \in 1..nextid : Owns(p, id) /\ Asks(p, "gate", "transfer", id, "sent")
  /\ UNCHANGED <<gpuVars, sndVars>>

Sent(p) ==
  /\ At(p, "sent")
  /\ IF call[p].ok THEN Asks(p, "async", "flush", call[p].id, "flushed") ELSE Ends(p)
  /\ UNCHANGED <<gpuVars, sndVars, calls>>

Flushed(p) == At(p, "flushed") /\ Ends(p) /\ UNCHANGED <<gpuVars, sndVars, calls>>

\* SYS_GPU_FENCE_WAIT
FenceWait(p) ==
  /\ Calls(p) /\ call[p].fence # 0
  /\ call' = [call EXCEPT ![p].ph = "fence"]
  /\ UNCHANGED <<gpuVars, sndVars>>
----------------------------------------------------------------------------
(* The sound card: commands on its control queue have no gate.  They write *)
(* the one request buffer whoever else is waiting.                         *)

\* snd_ctrl_cmd up to the first release of the lock
SndSubmit(p) ==
  /\ call[p].ph = "command"
  /\ ctl' = Filled(ctl, p)
  /\ call' = [call EXCEPT ![p].ph = "answer"]
  /\ UNCHANGED <<gpuVars, tx, stream, owner, calls>>

\* snd_ctrl_cmd: a completion is there
SndTake(p) ==
  /\ call[p].ph = "answer" /\ ctl.used # ctl.done
  /\ ctl' = [ctl EXCEPT !.done = @ + 1]
  /\ call' = [call EXCEPT ![p].ph = "run", ![p].ok = ctl.ok]
  /\ UNCHANGED <<gpuVars, tx, stream, owner, calls>>

\* The host's stream: set, prepared, started, stopped, in this order.
After(k) == CASE k = "stop" -> "stopped" [] k = "set" -> "set"
              [] k = "prepare" -> "prepared" [] k = "start" -> "running"
Takes(k) == CASE k = "stop"    -> stream = "running"
              [] k = "set"     -> stream # "running"
              [] k = "prepare" -> stream \in {"set", "prepared"}
              [] k = "start"   -> stream \in {"prepared", "stopped"}
SndExecute ==
  /\ ctl.used < ctl.sub
  /\ \E ok \in IF ctl.kind \in Refused THEN BOOLEAN ELSE {TRUE} :
       LET good == ok /\ Takes(ctl.kind) IN
       /\ ctl' = [ctl EXCEPT !.used = @ + 1, !.ok = good]
       /\ stream' = IF good THEN After(ctl.kind) ELSE stream
  /\ UNCHANGED <<gpuVars, tx, owner, call, calls>>

SoundCalls == {p \in Proc : call[p].at \in {"set", "prepare", "start", "owned", "silenced"}}

\* SYS_AUDIO_CONFIGURE: stop the stream, whatever the answer,
Configure(p) ==
  /\ Calls(p) /\ owner \in {None, p} /\ (Overlap \/ SoundCalls = {})
  /\ Asks(p, "command", "stop", 0, "set")
  /\ UNCHANGED <<gpuVars, sndVars>>

Steps == {<<"set", "prepare">>, <<"prepare", "start">>, <<"start", "owned">>}

\* then set, prepare and start it,
ConfigureNext(p) ==
  /\ \E s \in Steps :
       /\ At(p, s[1])
       /\ IF s[1] = "set" \/ call[p].ok THEN Asks(p, "command", s[1], 0, s[2]) ELSE Ends(p)
  /\ UNCHANGED <<gpuVars, sndVars, calls>>

\* and become its owner.
Configured(p) ==
  /\ At(p, "owned") /\ Ends(p)
  /\ owner' = IF call[p].ok THEN p ELSE owner
  /\ UNCHANGED <<gpuVars, ctl, tx, stream, calls>>

\* SYS_AUDIO_WRITE: audio_submit_tx, whose loop polls, then audio_fence_wait
Write(p) ==
  /\ Calls(p) /\ owner = p
  /\ Asks(p, "txgate", "play", 0, "idle")
  /\ UNCHANGED <<gpuVars, sndVars>>

TxSubmit(p) ==
  /\ call[p].ph = "txgate" /\ Drained(tx)
  /\ tx' = [Filled(tx, p) EXCEPT !.id = tx.sub + 1]
  /\ call' = [call EXCEPT ![p].ph = "txfence", ![p].id = tx.sub + 1]
  /\ UNCHANGED <<gpuVars, ctl, stream, owner, calls>>

\* audio_poll_tx
TxPoll(p) ==
  /\ \/ call[p].ph = "txgate" /\ ~Drained(tx)
     \/ call[p].ph = "txfence" /\ tx.done < call[p].id
  /\ tx.used # tx.done
  /\ tx' = [tx EXCEPT !.done = @ + 1]
  /\ UNCHANGED <<gpuVars, ctl, stream, owner, call, calls>>

TxEnd(p) == call[p].ph = "txfence" /\ Ends(p) /\ UNCHANGED <<gpuVars, sndVars, calls>>

\* The device plays the period while the stream runs.
TxExecute ==
  /\ tx.used < tx.sub /\ stream = "running"
  /\ tx' = [tx EXCEPT !.used = @ + 1]
  /\ UNCHANGED <<gpuVars, ctl, stream, owner, call, calls>>
----------------------------------------------------------------------------
(* The exit of a process: its GPU resources first, then its sound stream,  *)
(* then its DMA grants (dma_teardown_kproc).                               *)

Exit(p) ==
  /\ Calls(p)
  /\ call' = [call EXCEPT ![p].at = "reclaim", ![p].slot = 0]
  /\ UNCHANGED <<gpuVars, sndVars>>

Left(p) == {i \in Slot : i > call[p].slot}

\* gpu_teardown_kproc: the look at one entry
Reclaim(p) ==
  /\ At(p, "reclaim")
  /\ \E i \in Left(p) :
       /\ \A j \in Left(p) : i <= j
       /\ call' = IF res[i].used /\ res[i].owner = p
                  THEN [call EXCEPT ![p].slot = i, ![p].at = "unrefd", ![p].ph = "gate",
                                    ![p].kind = "unref", ![p].id = res[i].id]
                  ELSE [call EXCEPT ![p].slot = i]
  /\ UNCHANGED <<gpuVars, sndVars, calls>>

ScanWithout(p, id) == IF scan.owner = p /\ scan.id = id THEN [owner |-> None, id |-> 0] ELSE scan

Unrefd(p) ==
  /\ At(p, "unrefd")
  /\ res' = [res EXCEPT ![call[p].slot].used = FALSE, ![call[p].slot].owner = None]
  /\ scan' = ScanWithout(p, call[p].id)
  /\ Goes(p, "reclaim")
  /\ UNCHANGED <<gpu, host, nextid, held, fired, sndVars, calls>>

\* audio_teardown_kproc: the owner stops the stream first
Silence(p) ==
  /\ At(p, "reclaim") /\ Left(p) = {} /\ (Overlap \/ SoundCalls = {})
  /\ IF owner = p THEN Asks(p, "command", "stop", 0, "silenced") ELSE Goes(p, "grants")
  /\ UNCHANGED <<gpuVars, sndVars, calls>>

Silenced(p) ==
  /\ At(p, "silenced") /\ Goes(p, "grants")
  /\ owner' = IF owner = p THEN None ELSE owner
  /\ UNCHANGED <<gpuVars, ctl, tx, stream, calls>>

\* dma_teardown_kproc
Grants(p) ==
  /\ At(p, "grants") /\ Goes(p, "dead")
  /\ held' = [held EXCEPT ![p] = {}]
  /\ UNCHANGED <<gpu, host, res, nextid, scan, fired, sndVars, calls>>

Device == Execute \/ SndExecute \/ TxExecute
Step(p) == \/ Submit(p) \/ Take(p) \/ SubmitAsync(p) \/ Poll(p) \/ FenceEnd(p)
           \/ GpuCreate(p) \/ Made(p) \/ Attached(p) \/ Undone(p) \/ SetScanout(p) \/ Shown(p)
           \/ SubmitFlush(p) \/ Sent(p) \/ Flushed(p) \/ FenceWait(p)
           \/ SndSubmit(p) \/ SndTake(p) \/ Configure(p) \/ ConfigureNext(p) \/ Configured(p)
           \/ Write(p) \/ TxSubmit(p) \/ TxPoll(p) \/ TxEnd(p)
           \/ Exit(p) \/ Reclaim(p) \/ Unrefd(p) \/ Silence(p) \/ Silenced(p) \/ Grants(p)
Next == Device \/ \E p \in Proc : Step(p)
Spec == Init /\ [][Next]_vars
----------------------------------------------------------------------------
\* The slot of a queue holds at most one command the device has not answered, whatever is being
\* waited for at the same time: gpu_submit_wait, gpu_submit_async and audio_submit_tx write it only
\* when the last one's completion was taken.
OneInFlight == \A q \in {gpu, tx} : q.done <= q.used /\ q.used <= q.sub /\ q.sub <= q.done + 1

\* A fence that was reported as fired belongs to a command the device has answered.
FenceKept == \A f \in fired : f <= gpu.used

\* What a process had is given back when it has exited: its entries of g_gpu_res, the scanout and
\* the stream, so that no later process is refused for the sake of a dead one.
GivenBack == \A p \in Proc : call[p].at = "dead" =>
               /\ \A i \in Slot : res[i].used => res[i].owner # p
               /\ scan.owner # p /\ owner # p

\* The frames behind a host resource are held until the host has dropped the resource: the exit of
\* a process unreferences its resources before dma_teardown_kproc frees its grants, whoever takes
\* whose completion meanwhile.  Between the attaching and the grant the call itself holds them.
Backed == host.backed \subseteq UNION {held[p] : p \in Proc}
                                 \cup {call[p].id : p \in {q \in Proc : call[q].at \in {"attached", "undone"}}}

\* When no process is configuring or silencing the stream, it runs only for an owner.
Tuned == SoundCalls = {} /\ stream = "running" => owner # None

MediaSound == OneInFlight /\ FenceKept /\ GivenBack /\ Backed /\ (~Overlap => Tuned)

\* gpu_submit_wait reads the answer to its own command ("ALL under g_gpu_lock held continuously").
OwnAnswer == [][\A p \in Proc : call[p].ph = "spin" /\ call'[p].ph = "run" => gpu.by = p]_vars

\* A process at the gate waits for a command that somebody will take.
GateOpens == \A p \in Proc : call[p].ph = "gate" /\ ~Drained(gpu) /\ gpu.used = gpu.sub =>
               \E q \in Proc : call[q].ph \in {"spin", "async", "fence"}

\* Only one process at a time was told that the stream is its own.
OneOwner == [][\A p \in Proc : owner' = p => owner \in {None, p}]_vars
=============================================================================
