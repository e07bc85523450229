------------------------------- MODULE Probe -------------------------------
(***************************************************************************)
(* How kernel64.c brings a virtio device up: the probes of virtio-blk,     *)
(* virtio-net, virtio-gpu, virtio-sound and virtio-rng, each a script of   *)
(* register accesses in its function's order, pci_probe_fn, which marks    *)
(* the function as bound, and the quiescing of virtio-rng, the one driver  *)
(* that gives its device back.                                             *)
(*                                                                         *)
(* The device takes time to reset: until it has (ResetDone) its status     *)
(* reads as before and what is written to it is lost.  Firmware may have   *)
(* left it running.                                                        *)
(***************************************************************************)
EXTENDS Naturals, Sequences, FiniteSets

CONSTANTS Drivers,   \* the drivers to try
          Late,      \* the bounded waits that may end before the reset does
          QMax,      \* the queue sizes a device may report
          Starved    \* may the allocator be out of frames?

\* What the constants have to satisfy.
ProbeAssumption == /\ Drivers \subseteq {"blk", "net", "gpu", "snd", "rng"}
                   /\ Late \subseteq {"probe", "quiesce"} /\ QMax \subseteq Nat
                   /\ Starved \in BOOLEAN

VARIABLES drv,     \* the driver of the function
          dev,     \* the device's registers
          made,    \* what the device is: its capabilities, offers and queue size
          at,      \* the position in the driver's script, 0 when the probe has returned
          bound,   \* g_pcifn[].bound
          ready,   \* g_vblk_ready, g_vnet_ready, g_gpu_ready, g_snd_ready, g_vrng_ready
          ring,    \* the queues for which the driver holds frames
          quiet    \* the state of a quiescing
vars == <<drv, dev, made, at, bound, ready, ring, quiet>>

Ack    == {"ack"}
Driver == {"ack", "driver"}
FeatOk == {"ack", "driver", "feat_ok"}
Live   == {"ack", "driver", "feat_ok", "driver_ok"}

Op(o)       == [op |-> o, set |-> {}, q |-> 0, max |-> 0]
Status(s)   == [Op("status") EXCEPT !.set = s]
Needs(caps) == [Op("caps") EXCEPT !.set = caps]
Fill(n, m)  == [Op("fill") EXCEPT !.q = n, !.max = m]
Enable(n)   == [Op("enable") EXCEPT !.q = n]
Reset       == <<Op("reset"), Op("await")>>
Shake       == <<Status(Ack), Status(Driver), Op("features"), Status(FeatOk)>>

\* The scripts: one entry per group of register accesses, in the order of the code.
Blk == <<Needs({"common", "notify"})>> \o Reset \o Shake
         \o <<Op("check_fail"), Fill(0, 64), Enable(0), Status(Live), Op("ready")>>
Net == <<Needs({"common"})>> \o Reset \o Shake
         \o <<Op("check"), Fill(0, 16), Enable(0), Fill(1, 16), Enable(1), Status(Live), Op("ready")>>
Gpu == <<Needs({"common", "notify"})>> \o Reset \o Shake
         \o <<Op("check_fail"), Fill(0, 16), Enable(0), Status(Live), Op("ready")>>
Snd == <<Needs({"common", "notify"})>> \o Reset \o Shake
         \o <<Op("check"), Fill(0, 8), Enable(0), Fill(2, 8), Enable(2), Status(Live), Op("ready")>>
Rng == <<Needs({"common"}), Op("reset"), Op("await_ever"), Status(Ack), Status(Driver), Op("version")>>
         \o <<Op("features"), Status(FeatOk), Op("check_fail"), Fill(0, 64), Enable(0)>>
         \o <<Status(Live), Op("ready")>>
Scripts == [d \in {"blk", "net", "gpu", "snd", "rng"} |->
              CASE d = "blk" -> Blk [] d = "net" -> Net [] d = "gpu" -> Gpu
                [] d = "snd" -> Snd [] d = "rng" -> Rng]

NoQueue == [size |-> 0, addr |-> "none", on |-> FALSE]
Blank   == [status |-> {}, resetting |-> FALSE, features |-> {}, queue |-> [n \in 0..2 |-> NoQueue]]
\* As firmware may have left it: running, with rings of its own.
Running == [status |-> Live, resetting |-> FALSE, features |-> {"version"},
            queue |-> [n \in 0..2 |-> [size |-> 4, addr |-> "firmware", on |-> TRUE]]]

Init == /\ drv \in Drivers
        /\ dev \in {Blank, Running}
        /\ made \in [caps : {{}, {"common"}, {"common", "notify"}},
                     offers : SUBSET {"version", "platform"}, strict : BOOLEAN, qmax : QMax]
        /\ at = 1 /\ bound = FALSE /\ ready = FALSE /\ ring = {} /\ quiet = "no"

Now        == Scripts[drv][at]
Is(o)      == at > 0 /\ Now.op = o
Goes       == at' = IF at = Len(Scripts[drv]) THEN 0 ELSE at + 1
\* A register write: lost while the device resets.
Writes(d)  == dev' = IF dev.resetting THEN dev ELSE d
\* The probe gives up: only virtio-rng's answer decides whether the function is bound.
GivesUp    == at' = 0 /\ bound' = (drv # "rng") /\ UNCHANGED <<drv, made, ready, ring, quiet>>
GoesOn     == Goes /\ UNCHANGED <<drv, made, bound, ready, ring, quiet>>

Caps == /\ Is("caps") /\ UNCHANGED dev
        /\ IF Now.set \subseteq made.caps THEN GoesOn ELSE GivesUp

WriteReset == /\ Is("reset") /\ GoesOn
              /\ dev' = [dev EXCEPT !.resetting = TRUE]

Reached == dev.status = {} /\ ~dev.resetting
Await == /\ \/ Is("await") /\ (Reached \/ "probe" \in Late)
            \/ Is("await_ever") /\ Reached
         /\ GoesOn /\ UNCHANGED dev

\* The features the driver writes back: the version it insists on, and the platform bit if offered.
Chosen == {"version"} \cup (made.offers \cap {"platform"})
Features == /\ Is("features") /\ GoesOn
            /\ Writes([dev EXCEPT !.features = Chosen])

\* A device that wants its accesses translated refuses a driver that does not say so.
Accepts == /\ dev.features \subseteq made.offers /\ "version" \in dev.features
           /\ (made.strict => "platform" \in dev.features)
WriteStatus ==
  /\ Is("status") /\ GoesOn
  /\ Writes([dev EXCEPT !.status = IF Accepts THEN Now.set ELSE Now.set \ {"feat_ok"}])

Version == /\ Is("version")
           /\ IF "version" \in made.offers THEN GoesOn /\ UNCHANGED dev
              ELSE GivesUp /\ Writes([dev EXCEPT !.status = {"failed"}])

\* Mutant: the driver does not look whether the device took its features.
Unchecked == TRUE

FeaturesTaken == "feat_ok" \in dev.status

Check ==
  /\ Is("check") \/ Is("check_fail")
  /\ IF FeaturesTaken THEN GoesOn /\ UNCHANGED dev
     ELSE GivesUp /\ Writes(IF Is("check_fail") THEN [dev EXCEPT !.status = {"failed"}] ELSE dev)

Smaller(m) == IF made.qmax > m THEN m ELSE made.qmax
\* The queue is selected and sized and its addresses are written.  virtio-rng leaves a device
\* without a queue alone, and gives up when there is no frame; the others do not look.
FillQueue ==
  /\ Is("fill")
  /\ IF drv = "rng" /\ made.qmax = 0 THEN GoesOn /\ UNCHANGED dev
     ELSE \/ /\ drv = "rng" /\ Starved
             /\ GivesUp /\ Writes([dev EXCEPT !.status = {"failed"}])
          \/ /\ ring' = ring \cup {Now.q}
             /\ Writes([dev EXCEPT !.queue[Now.q].size = Smaller(Now.max),
                                   !.queue[Now.q].addr = "kernel"])
             /\ Goes /\ UNCHANGED <<drv, made, bound, ready, quiet>>

EnableQueue ==
  /\ Is("enable") /\ GoesOn
  /\ Writes(IF Now.q \in ring THEN [dev EXCEPT !.queue[Now.q].on = TRUE] ELSE dev)

\* The end of a probe that succeeded, and pci_probe_fn's mark.
Ready == /\ Is("ready") /\ at' = 0 /\ ready' = TRUE /\ bound' = TRUE
         /\ UNCHANGED <<drv, dev, made, ring, quiet>>

\* The device has reset.
ResetDone == /\ dev.resetting /\ dev' = Blank
             /\ UNCHANGED <<drv, made, at, bound, ready, ring, quiet>>
----------------------------------------------------------------------------
(* virtio_rng_quiesce *)
QuiesceStart ==
  /\ at = 0 /\ drv = "rng" /\ ready /\ quiet \in {"no", "failed"}
  /\ dev' = [dev EXCEPT !.resetting = TRUE]
  /\ quiet' = "wait"
  /\ UNCHANGED <<drv, made, at, bound, ready, ring>>

StoodDown == Reached

QuiesceEnd ==
  /\ quiet = "wait" /\ StoodDown
  /\ quiet' = "done" /\ ready' = FALSE /\ ring' = {}
  /\ UNCHANGED <<drv, dev, made, at, bound>>

QuiesceFails ==
  /\ quiet = "wait" /\ "quiesce" \in Late /\ quiet' = "failed"
  /\ UNCHANGED <<drv, dev, made, at, bound, ready, ring>>

Next == \/ Caps \/ WriteReset \/ Await \/ Features \/ WriteStatus \/ Version \/ Check
        \/ FillQueue \/ EnableQueue \/ Ready \/ ResetDone
        \/ QuiesceStart \/ QuiesceEnd \/ QuiesceFails
Spec == Init /\ [][Next]_vars
----------------------------------------------------------------------------
TypeOK == /\ dev.status \subseteq Live \cup {"failed"} /\ at \in 0..16 /\ ring \subseteq 0..2
          /\ bound \in BOOLEAN /\ ready \in BOOLEAN

\* A driver takes its device for ready only when the device has taken its features and runs with
\* the driver's rings alone: nothing of what firmware set up is left in it.
ReadyIsLive == ready /\ quiet = "no" =>
                 /\ dev.status = Live /\ "version" \in dev.features
                 /\ \A n \in 0..2 : dev.queue[n].addr # "firmware"

\* A running device has only queues whose addresses were written before they were enabled and whose
\* frames the driver still holds: virtio_rng_quiesce frees the ring after the reset was seen.
RingsHeld == \A n \in 0..2 : dev.queue[n].on /\ dev.queue[n].addr = "kernel" => n \in ring
NoBlindQueue == \A n \in 0..2 : dev.queue[n].on => dev.queue[n].addr # "none"

\* A function that virtio-rng's probe left claimable is not driven by the kernel: no ring of the
\* kernel's is enabled in it.
ClaimableIsIdle == at = 0 /\ ~bound => ~ready /\ \A n \in 0..2 : dev.queue[n].on => dev.queue[n].addr = "firmware"

ProbeSound == ReadyIsLive /\ RingsHeld /\ NoBlindQueue /\ ClaimableIsIdle
=============================================================================
