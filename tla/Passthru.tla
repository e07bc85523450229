------------------------------ MODULE Passthru ------------------------------
(***************************************************************************)
(* Device passthrough: the PCI scan and the table of claimable devices,    *)
(* SYS_CLAIM_PCI_DEVICE and its companions, SYS_HW_PASSTHROUGH and         *)
(* SYS_VFIO_MAP_BAR, the per-process IOMMU domains with their DMA grants,  *)
(* the hand-over of a device the kernel drives, and what an exit revokes.  *)
(*                                                                         *)
(* A system call releases g_dev_lock before it programs the IOMMU, so      *)
(* another core's call, or another process's exit, falls between.          *)
(* A process is one thread in one slot; an IOMMU table is the number of    *)
(* its allocation, 0 the kernel's identity table.                          *)
(***************************************************************************)
EXTENDS Naturals, Sequences, SequencesExt, FiniteSets, TLC

CONSTANTS Slot,      \* process table slots
          Capable,   \* the slots whose processes hold PCAP_VFIO
          Buses,     \* the bus listings a boot may find: sequences of functions
          MaxFn,     \* MAX_PCIFN
          MaxKdev,   \* MAX_KDEV
          MaxGrants, \* MAX_DMA_GRANTS
          Page,      \* pages SYS_DMA_ALLOC may hand out
          Flags,     \* the claim flags callers pass: sets of {"exclusive", "dma"}
          Dmar,      \* the IOMMU descriptions the firmware may offer
          MaxGen,    \* bound: processes a slot may hold one after the other
          MaxCalls   \* bound: system calls made

VARIABLES table, \* listed: functions in g_pcifn; known: devices in kdevs; on: g_iommu_on
          dev,   \* per device: owner, owner_gen, claim_flags, KDEV_BOUND_HOST
          ctx,   \* the table each device's context entry names
          proc,  \* per slot: generation, phase of its life, DMA domain, pages, grants
          pages, \* per domain built: the pages it maps
          pc,    \* per slot: the rest of the system call or of the exit it is in
          rng,   \* the virtio-rng driver and its device
          unbind,\* where kdev_unbind_host stands: 0, or the device it works on
          slip,  \* devices claimed from under an exiting owner, or retaken (history)
          calls  \* calls made so far
vars == <<table, dev, ctx, proc, pages, pc, rng, unbind, slip, calls>>

Idle == <<"idle">>
Nobody == [owner |-> 0, gen |-> 0, flags |-> {}]

------------------------------------------------------------------------------
(* Boot. A function is [bdf, bridge, bar, driver, self, offers]: self when   *)
(* its driver registers the device itself, offers what a virtio-rng answers. *)

RngBinds(f) == {"common", "version1", "features"} \subseteq f.offers
Driven(f) == f.driver = "fixed" \/ (f.driver = "rng" /\ RngBinds(f))

Listed(bus) == SubSeq(bus, 1, IF Len(bus) < MaxFn THEN Len(bus) ELSE MaxFn)

\* The drivers' own registrations come first, while the bus is walked.
Early(bus) ==
    LET own == SelectSeq(bus, LAMBDA f : f.self)
    IN {own[i].bdf : i \in 1..(IF Len(own) < MaxKdev THEN Len(own) ELSE MaxKdev)}

Register(t, f) ==
    IF f.bridge \/ ~f.bar \/ (f.bdf \notin t.known /\ Cardinality(t.known) >= MaxKdev)
    THEN t
    ELSE [known |-> t.known \cup {f.bdf},
          bound |-> IF Driven(f) THEN t.bound \cup {f.bdf} ELSE t.bound]

Registered(bus) ==
    FoldLeft(Register, [known |-> Early(bus), bound |-> {}], Listed(bus))

Bdfs == UNION {{b[i].bdf : i \in 1..Len(b)} : b \in Buses}

\* DMA remapping is on only if the firmware describes a unit with a page-table
\* depth the driver knows and the unit reports that it translates.
Translates(d) == {"table", "checksum", "unit", "depth", "enabled"} \subseteq d

\* A process that has no domain, no page and no grant yet.
Spawned(gen) == [gen |-> gen, phase |-> "live", dom |-> 0, mapped |-> {}, grants |-> <<>>]

Init ==
    \E bus \in Buses, d \in Dmar :
        LET r == Registered(bus)
            mine == {i \in 1..Len(bus) : bus[i].driver = "rng" /\ RngBinds(bus[i])}
        IN /\ table = [listed |-> {Listed(bus)[i].bdf : i \in 1..Len(Listed(bus))},
                       known |-> r.known, on |-> Translates(d),
                       fixed |-> {bus[i].bdf : i \in {j \in 1..Len(bus) :
                                                          bus[j].driver = "fixed"}}]
           /\ dev = [b \in Bdfs |-> Nobody @@ [bound |-> b \in r.bound]]
           /\ rng = [bdf |-> IF mine = {} THEN 0 ELSE bus[CHOOSE i \in mine : TRUE].bdf,
                     ready |-> mine # {}, ring |-> mine # {}, live |-> mine # {}]
           /\ ctx = [b \in Bdfs |-> 0]
           /\ proc = [p \in Slot |-> Spawned(1)]
           /\ pages = <<>>
           /\ pc = [p \in Slot |-> Idle]
           /\ unbind = <<0, "idle">>
           /\ slip = {}
           /\ calls = 0

Driving(b) == b \in table.fixed \/ (rng.ready /\ rng.bdf = b)

------------------------------------------------------------------------------
(* Domains and grants. *)

OwnerLive(b) ==
    LET d == dev[b] IN /\ d.owner \in Slot
                       /\ proc[d.owner].phase = "live"
                       /\ proc[d.owner].gen = d.gen

Owns(p, b) == dev[b].owner = p /\ OwnerLive(b)

\* The first attach builds the process's domain from what it has mapped; every
\* later one uses it as it stands.
Table(p) == IF proc[p].dom = 0 THEN Len(pages) + 1 ELSE proc[p].dom
Built(p) == IF proc[p].dom = 0 THEN Append(pages, proc[p].mapped) ELSE pages

Detach(b) == ctx' = IF table.on THEN [ctx EXCEPT ![b] = 0] ELSE ctx

Full(p) == Len(proc[p].grants) >= MaxGrants
Busy(p) == proc[p].phase = "live" /\ pc[p] # Idle
CanCall(p) == /\ proc[p].phase = "live" /\ pc[p] = Idle
              /\ p \in Capable /\ calls < MaxCalls
Enter(p, rest) == pc' = [pc EXCEPT ![p] = rest] /\ calls' = calls + 1
Return(p) == pc' = [pc EXCEPT ![p] = Idle]

------------------------------------------------------------------------------
(* System calls. *)

\* Mutant: a claim asks only whether somebody else owns the device.
FreeOnly(p, b) == OwnerLive(b) => dev[b].owner = p
Claimable(p, b) == /\ ~dev[b].bound
                   /\ OwnerLive(b) => dev[b].owner = p

\* A claim takes the device under g_dev_lock and attaches its domain after.
Claim(p, b, f) ==
    /\ CanCall(p)
    /\ b \in table.listed \cap table.known
    /\ Claimable(p, b)
    /\ dev' = [dev EXCEPT ![b] = [owner |-> p, gen |-> proc[p].gen, flags |-> f,
                                  bound |-> @.bound]]
    /\ slip' = IF dev[b].owner = 0 THEN slip ELSE slip \cup {b}
    /\ Enter(p, IF "dma" \in f THEN <<"attach", b>> ELSE Idle)
    /\ UNCHANGED <<table, ctx, proc, pages, rng, unbind>>

ClaimAttach(p) ==
    /\ Busy(p) /\ pc[p][1] = "attach"
    /\ LET b == pc[p][2]
       IN IF table.on
          THEN /\ pages' = Built(p)
               /\ proc' = [proc EXCEPT ![p].dom = Table(p)]
               /\ ctx' = [ctx EXCEPT ![b] = Table(p)]
               /\ UNCHANGED dev
          ELSE /\ dev' = IF dev[b].owner = p /\ dev[b].gen = proc[p].gen
                         THEN [dev EXCEPT ![b] = Nobody @@ [bound |-> @.bound]]
                         ELSE dev
               /\ UNCHANGED <<ctx, proc, pages>>
    /\ Return(p)
    /\ UNCHANGED <<table, rng, unbind, slip, calls>>

\* Release clears the owner under the lock and detaches after.
ReleaseDevice(p, b) ==
    /\ CanCall(p) /\ b \in table.known /\ Owns(p, b)
    /\ dev' = [dev EXCEPT ![b] = Nobody @@ [bound |-> @.bound]]
    /\ Enter(p, <<"detach", b>>)
    /\ UNCHANGED <<table, ctx, proc, pages, rng, unbind, slip>>

ReleaseDetach(p) ==
    /\ Busy(p) /\ pc[p][1] = "detach"
    /\ Detach(pc[p][2])
    /\ Return(p)
    /\ UNCHANGED <<table, dev, proc, pages, rng, unbind, slip, calls>>

\* SYS_MAP_PCI_BAR asks for the claim; SYS_HW_PASSTHROUGH and SYS_VFIO_MAP_BAR
\* for a capability only. All three map the window and then record a grant.
MapBar(p, b, claimed) ==
    /\ CanCall(p) /\ b \in table.known
    /\ claimed => Owns(p, b)
    /\ Enter(p, <<"grant", b>>)
    /\ UNCHANGED <<table, dev, ctx, proc, pages, rng, unbind, slip>>

\* dma_grant_create: a full table refuses before the IOMMU is touched; an attach
\* that is refused is not noticed.
Grant(p) ==
    /\ Busy(p) /\ pc[p][1] = "grant"
    /\ IF Full(p)
       THEN UNCHANGED <<proc, pages, ctx>>
       ELSE /\ pages' = IF table.on THEN Built(p) ELSE pages
            /\ proc' = [proc EXCEPT ![p].dom = IF table.on THEN Table(p) ELSE @,
                                    ![p].grants = Append(@, <<"mmio", pc[p][2]>>)]
            /\ ctx' = IF table.on THEN [ctx EXCEPT ![pc[p][2]] = Table(p)] ELSE ctx
    /\ Return(p)
    /\ UNCHANGED <<table, dev, rng, unbind, slip, calls>>

\* SYS_DMA_ALLOC maps the page; a full grant table leaves it out of the domain.
AddPage(p, g) == pages' = IF proc[p].dom = 0 THEN pages
                          ELSE [pages EXCEPT ![proc[p].dom] = @ \cup {g}]

DmaAlloc(p, g) ==
    /\ CanCall(p)
    /\ \A q \in Slot : g \notin proc[q].mapped
    /\ IF Full(p)
       THEN /\ proc' = [proc EXCEPT ![p].mapped = @ \cup {g}]
            /\ UNCHANGED pages
       ELSE /\ proc' = [proc EXCEPT ![p].mapped = @ \cup {g},
                                    ![p].grants = Append(@, <<"page", g>>)]
            /\ AddPage(p, g)
    /\ Enter(p, Idle)
    /\ UNCHANGED <<table, dev, ctx, rng, unbind, slip>>

------------------------------------------------------------------------------
(* Exit: the slot reads as exited first; then the claims, the grants, the    *)
(* domain and the frames go, in this order.                                  *)

Exit(p) ==
    /\ proc[p].phase = "live" /\ pc[p] = Idle
    /\ proc' = [proc EXCEPT ![p].phase = "exited"]
    /\ pc' = [pc EXCEPT ![p] = <<"claims", Bdfs \cap table.known>>]
    /\ UNCHANGED <<table, dev, ctx, pages, rng, unbind, slip, calls>>

\* vfio_teardown_kproc takes no lock: it tests the owner, detaches, then clears.
TearDetach(p, b) == IF "dma" \in dev[b].flags THEN Detach(b) ELSE UNCHANGED ctx

DropClaim(p) ==
    /\ proc[p].phase = "exited" /\ pc[p][1] = "claims"
    /\ \E b \in pc[p][2] :
          IF dev[b].owner = p
          THEN TearDetach(p, b) /\ pc' = [pc EXCEPT ![p] = <<"clear", @[2] \ {b}, b>>]
          ELSE UNCHANGED ctx /\ pc' = [pc EXCEPT ![p] = <<"claims", @[2] \ {b}>>]
    /\ UNCHANGED <<table, dev, proc, pages, rng, unbind, slip, calls>>

ClearClaim(p) ==
    /\ proc[p].phase = "exited" /\ pc[p][1] = "clear"
    /\ dev' = [dev EXCEPT ![pc[p][3]] = Nobody @@ [bound |-> @.bound]]
    /\ pc' = [pc EXCEPT ![p] = <<"claims", @[2]>>]
    /\ UNCHANGED <<table, ctx, proc, pages, rng, unbind, slip, calls>>

\* dma_grant_revoke, once per grant.
RevokeGrant(g) == IF g[1] = "mmio" THEN Detach(g[2]) ELSE UNCHANGED ctx

Revoke(p) ==
    /\ proc[p].phase = "exited" /\ pc[p] = <<"claims", {}>> /\ proc[p].grants # <<>>
    /\ RevokeGrant(Head(proc[p].grants))
    /\ proc' = [proc EXCEPT ![p].grants = Tail(@)]
    /\ UNCHANGED <<table, dev, pages, pc, rng, unbind, slip, calls>>

FreeDomain(p) ==
    /\ proc[p].phase = "exited" /\ pc[p] = <<"claims", {}>> /\ proc[p].grants = <<>>
    /\ proc' = [proc EXCEPT ![p].dom = 0, ![p].phase = "gone", ![p].mapped = {}]
    /\ Return(p)
    /\ UNCHANGED <<table, dev, ctx, pages, rng, unbind, slip, calls>>

Recycle(p) ==
    /\ proc[p].phase = "gone" /\ proc[p].gen < MaxGen
    /\ proc' = [proc EXCEPT ![p].phase = "live", ![p].gen = @ + 1]
    /\ UNCHANGED <<table, dev, ctx, pages, pc, rng, unbind, slip, calls>>

------------------------------------------------------------------------------
(* kdev_unbind_host: only the virtio-rng driver has a quiesce hook. *)

UnbindStart(b) ==
    /\ unbind[2] = "idle" /\ calls < MaxCalls
    /\ b \in table.known /\ dev[b].bound /\ ~OwnerLive(b)
    /\ rng.bdf = b /\ rng.ready
    /\ unbind' = <<b, "reset">> /\ calls' = calls + 1
    /\ UNCHANGED <<table, dev, ctx, proc, pages, pc, rng, slip>>

\* The device confirms the reset, or the driver stops waiting for it.
Quiesced(done) == IF done THEN [rng EXCEPT !.ready = FALSE, !.ring = FALSE, !.live = FALSE]
                  ELSE rng

Quiesce(done) ==
    /\ unbind[2] = "reset"
    /\ rng' = Quiesced(done)
    /\ unbind' = IF done THEN <<unbind[1], "recheck">> ELSE <<0, "idle">>
    /\ UNCHANGED <<table, dev, ctx, proc, pages, pc, slip, calls>>

UnbindFinish ==
    /\ unbind[2] = "recheck"
    /\ dev' = IF dev[unbind[1]].bound /\ ~OwnerLive(unbind[1])
              THEN [dev EXCEPT ![unbind[1]].bound = FALSE] ELSE dev
    /\ unbind' = <<0, "idle">>
    /\ UNCHANGED <<table, ctx, proc, pages, pc, rng, slip, calls>>

Next ==
    \/ \E p \in Slot, b \in Bdfs :
          \/ \E f \in Flags : Claim(p, b, f)
          \/ ReleaseDevice(p, b)
          \/ \E claimed \in BOOLEAN : MapBar(p, b, claimed)
    \/ \E p \in Slot, g \in Page : DmaAlloc(p, g)
    \/ \E p \in Slot : \/ ClaimAttach(p) \/ ReleaseDetach(p) \/ Grant(p)
                       \/ Exit(p) \/ DropClaim(p) \/ ClearClaim(p) \/ Revoke(p)
                       \/ FreeDomain(p) \/ Recycle(p)
    \/ \E b \in Bdfs : UnbindStart(b)
    \/ \E done \in BOOLEAN : Quiesce(done)
    \/ UnbindFinish

Spec == Init /\ [][Next]_vars

------------------------------------------------------------------------------
TablesInUse == {proc[p].dom : p \in Slot} \cup {0}

\* A device's context entry names the kernel's table or one in use: an exit
\* leaves no device pointing into a table it freed, unless the device changed
\* hands while its owner was exiting or its owner claimed it a second time.
NoCorpse == \A b \in Bdfs \ slip : ctx[b] \in TablesInUse

\* A device attached to a live process reaches every page granted to it.
GrantsReach ==
    \A p \in Slot, b \in Bdfs :
        proc[p].phase = "live" /\ ctx[b] # 0 /\ ctx[b] = proc[p].dom =>
            \A i \in 1..Len(proc[p].grants) :
                proc[p].grants[i][1] = "page" => proc[p].grants[i][2] \in pages[ctx[b]]

\* No live process holds a claim on a device a kernel driver still works with,
\* whatever the tables had room for at boot and whatever the hand-over did.
KernelsOwn == \A b \in Bdfs : Driving(b) => ~OwnerLive(b)

\* The kernel's driver keeps the ring's frame while its device may write there.
RingHeld == rng.live => rng.ring

PassthruSound == NoCorpse /\ GrantsReach /\ KernelsOwn /\ RingHeld

\* What vfio_teardown_kproc's comment promises of every exit.
AlwaysDetached == \A b \in Bdfs : ctx[b] \in TablesInUse
=============================================================================
