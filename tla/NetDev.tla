------------------------------- MODULE NetDev -------------------------------
(***************************************************************************)
(* The virtio-net driver, the ARP cache, next-hop selection and DHCP:      *)
(* frames the device puts into the receive ring, the bottom half that      *)
(* dispatches them, the one transmit buffer, the threads of the boot-time  *)
(* network commands and what they wait for.                                *)
(*                                                                         *)
(* An address is a number; a network mask is the size of its block of      *)
(* addresses, 0 a malformed one. TCP and ring-3 datagrams are Tcp, Dgram.  *)
(***************************************************************************)
EXTENDS Naturals, Sequences, FiniteSets, SequencesExt

CONSTANTS Addr,      \* addresses frames speak of and datagrams go to
          Frames,    \* frames the network may deliver
          Ring,      \* VNET_RXN: receive buffers
          Slots,     \* NUDP
          Cache,     \* ARP_CACHE_N
          Default,   \* the built-in configuration: ip, mask, gw
          Prompt,    \* TRUE: the device sends a frame before the kick returns
          Apart,     \* TRUE: senders run on other cores than the bottom half
          MaxRuns,   \* bound: runs of the DHCP client
          MaxSends,  \* bound: datagrams handed to the wire
          MaxResets  \* bound: uses of vnet_reinit

VARIABLES rx,      \* posted: buffers the device may fill; used: filled, not yet dispatched
          tx,      \* queued: descriptors the device has not sent; torn: the one buffer
                   \*   was filled again while it still had to send it
          arp,     \* the cache: sequence of [ip, mac, seen]
          half,    \* what the bottom half has still to store of an ARP entry
          said,    \* the hardware address each address announced last (history)
          bad,     \* a frame went to a hardware address its next hop never announced
          cfg,     \* g_netcfg
          lease,   \* what dhcp_apply has still to store
          netd,    \* the ARP command's thread: "off", "run", "blocked", "done"
          pending, \* g_vnet_rx_pending
          udp,     \* g_udp: sequence of [owner, ready]
          dhcp,    \* per run of the DHCP client: "bind", "run", "blocked", "done"
          clock, sends, resets
vars == <<rx, tx, arp, half, said, bad, cfg, lease, netd, pending, udp, dhcp,
          clock, sends, resets>>
config == <<cfg, lease>>
threads == <<netd, pending, udp, dhcp>>
counts == <<sends, resets>>

Nil == 0
Broadcast == 0

\* Both queues as the probe leaves them: every receive buffer posted, nothing to send.
Posted == [posted |-> Ring, used |-> <<>>, ready |-> TRUE]
Unsent == [queued |-> 0, torn |-> FALSE]

Init ==
    /\ rx = Posted
    /\ tx = Unsent
    /\ arp = <<>>
    /\ half = <<>>
    /\ said = [a \in Addr |-> {}]
    /\ bad = FALSE
    /\ cfg = Default
    /\ lease = <<>>
    /\ netd = "off" /\ pending = FALSE
    /\ udp = <<>>
    /\ dhcp = <<>>
    /\ clock = 0 /\ sends = 0 /\ resets = 0

------------------------------------------------------------------------------
(* Transmit. There is one buffer, and nobody waits for the device to read it;  *)
(* a device that sends within the kick never sees it change.                   *)

Put == tx' = [queued |-> IF Prompt THEN 0 ELSE tx.queued + 1,
              torn |-> tx.torn \/ tx.queued > 0]

\* arp_build and arp_request: an ARP frame is put like any other.
PutArp == Put

\* The request a miss puts in front of its frame, and the frame.
PutBoth == tx' = [queued |-> IF Prompt THEN 0 ELSE tx.queued + 2, torn |-> tx.torn \/ ~Prompt]

DeviceSends ==
    /\ tx.queued > 0
    /\ tx' = [tx EXCEPT !.queued = @ - 1]
    /\ UNCHANGED <<rx, arp, half, said, bad, config, threads, clock, counts>>

------------------------------------------------------------------------------
(* The ARP cache. *)

Hit(ip) == {i \in 1..Len(arp) : arp[i].ip = ip}

\* The slot an address is stored in: its own, a free one, or the one seen longest ago.
\* Mutant: a free slot is taken before the cache is searched for the address.
FreeFirst(ip) == IF Len(arp) < Cache THEN Len(arp) + 1
                 ELSE CHOOSE i \in 1..Len(arp) : \A j \in 1..Len(arp) : arp[i].seen <= arp[j].seen
SlotFor(ip) ==
    IF Hit(ip) # {} THEN CHOOSE i \in Hit(ip) : \A j \in Hit(ip) : i <= j
    ELSE IF Len(arp) < Cache THEN Len(arp) + 1
    ELSE CHOOSE i \in 1..Len(arp) : \A j \in 1..Len(arp) : arp[i].seen <= arp[j].seen

At(i, e) == IF i > Len(arp) THEN Append(arp, e) ELSE [arp EXCEPT ![i] = e]

\* arp_learn stores the address first and the hardware address after it.
LearnIp(ip, mac) ==
    LET i == SlotFor(ip)
        old == IF i > Len(arp) THEN Broadcast ELSE arp[i].mac
    IN /\ arp' = At(i, [ip |-> ip, mac |-> old, seen |-> clock])
       /\ half' = <<i, mac>>
       /\ said' = [said EXCEPT ![ip] = {mac}]

LearnMac ==
    /\ half # <<>>
    /\ arp' = [arp EXCEPT ![half[1]].mac = half[2]]
    /\ half' = <<>>
    /\ UNCHANGED <<rx, tx, said, bad, config, threads, clock, counts>>

------------------------------------------------------------------------------
(* Next hop and addressing. *)

OnLink(c, a, b) == a \div c.mask = b \div c.mask

NextHop(c, d) == IF OnLink(c, d, c.ip) \/ c.gw = Nil THEN d ELSE c.gw

\* net_dst_mac and the frame that follows it: a miss broadcasts the frame and
\* puts a request in front of it.
HopOf(c, d) == NextHop(c, d)

Send(d) ==
    /\ sends < MaxSends /\ rx.ready
    /\ Apart \/ (half = <<>> /\ lease = <<>>)
    /\ LET hop == HopOf(cfg, d)
       IN IF Hit(hop) # {}
          THEN LET i == CHOOSE i \in Hit(hop) : \A j \in Hit(hop) : i <= j
               IN /\ Put
                  /\ bad' = (bad \/ arp[i].mac \notin said[hop]
                                 \/ (cfg.gw # Nil /\ ~OnLink(cfg, hop, cfg.ip)))
          ELSE PutBoth /\ UNCHANGED bad
    /\ sends' = sends + 1
    /\ UNCHANGED <<rx, arp, half, said, config, threads, clock, resets>>

------------------------------------------------------------------------------
(* Receive. *)

Arrives(f) ==
    /\ rx.posted > 0
    /\ rx' = [rx EXCEPT !.posted = @ - 1, !.used = Append(@, f)]
    /\ clock' = clock + 1
    /\ UNCHANGED <<tx, arp, half, said, bad, config, threads, counts>>

WakeNetd == netd' = IF netd = "blocked" THEN "run" ELSE netd

\* The first slot bound to the port gets the payload and its owner is woken.
DeliverUdp(o) ==
    IF udp = <<>> THEN UNCHANGED <<udp, dhcp>>
    ELSE /\ udp' = [udp EXCEPT ![1].ready = TRUE, ![1].offer = o]
         /\ dhcp' = [dhcp EXCEPT ![udp[1].owner] = IF @ = "blocked" THEN "run" ELSE @]

\* virtionet_bh takes the next used buffer; it is never posted again.
Dispatch ==
    /\ rx.ready /\ rx.used # <<>> /\ half = <<>>
    /\ LET f == Head(rx.used)
       IN CASE f.kind = "arp" ->
                 /\ LearnIp(f.ip, f.mac)
                 /\ IF f.op = "ask" THEN PutArp ELSE UNCHANGED tx
                 /\ pending' = TRUE
                 /\ WakeNetd
                 /\ UNCHANGED <<udp, dhcp>>
            [] f.kind = "dhcp" ->
                 /\ DeliverUdp(f.mac)
                 /\ UNCHANGED <<arp, half, said, tx, netd, pending>>
    /\ rx' = [rx EXCEPT !.used = Tail(@)]
    /\ UNCHANGED <<bad, config, clock, counts>>

\* vnet_reinit builds both rings anew; what the old ones held is gone. The
\* device either takes the features again or the driver stays down.
Reinit(ok) ==
    /\ resets < MaxResets /\ half = <<>>
    /\ rx' = [posted |-> IF ok THEN Ring ELSE 0, used |-> <<>>, ready |-> ok]
    /\ tx' = [tx EXCEPT !.queued = 0]
    /\ resets' = resets + 1
    /\ UNCHANGED <<arp, half, said, bad, config, threads, clock, sends>>

------------------------------------------------------------------------------
(* The ARP command: one request, then a wait for any ARP frame. *)

NetdStart ==
    /\ netd = "off" /\ rx.ready
    /\ netd' = "run" /\ pending' = FALSE
    /\ PutArp
    /\ UNCHANGED <<rx, arp, half, said, bad, config, udp, dhcp, clock, counts>>

\* net_wait_rx tests and blocks with interrupts off on the bottom half's core.
WaitRx == IF pending THEN UNCHANGED netd ELSE netd' = "blocked"

NetdWait ==
    /\ netd = "run"
    /\ WaitRx
    /\ UNCHANGED <<rx, tx, arp, half, said, bad, config, pending, udp, dhcp, clock, counts>>

\* Its loop ends on a frame, or once the time is up and it runs again.
NetdEnd ==
    /\ netd = "run"
    /\ netd' = "done"
    /\ UNCHANGED <<rx, tx, arp, half, said, bad, config, pending, udp, dhcp, clock, counts>>

------------------------------------------------------------------------------
(* The DHCP command: each run binds a slot of its own and never returns it. *)

Run == 1..Len(dhcp)

DhcpStart ==
    /\ Len(dhcp) < MaxRuns /\ \A r \in Run : dhcp[r] = "done"
    /\ IF Len(udp) < Slots
       THEN /\ udp' = Append(udp, [owner |-> Len(dhcp) + 1, ready |-> FALSE, offer |-> Default])
            /\ dhcp' = Append(dhcp, "run")
            /\ Put
       ELSE /\ dhcp' = Append(dhcp, "done") /\ UNCHANGED <<udp, tx>>
    /\ UNCHANGED <<rx, arp, half, said, bad, config, netd, pending, clock, counts>>

Mine(r) == udp[CHOOSE i \in 1..Len(udp) : udp[i].owner = r]

DhcpWait(r) ==
    /\ dhcp[r] = "run" /\ lease = <<>>
    /\ ~Mine(r).ready
    /\ dhcp' = [dhcp EXCEPT ![r] = "blocked"]
    /\ UNCHANGED <<rx, tx, arp, half, said, bad, config, netd, pending, udp, clock, counts>>

DhcpTimeout(r) ==
    /\ dhcp[r] = "run" /\ lease = <<>> /\ ~Mine(r).ready
    /\ dhcp' = [dhcp EXCEPT ![r] = "done"]
    /\ UNCHANGED <<rx, tx, arp, half, said, bad, config, netd, pending, udp, clock, counts>>

\* dhcp_apply: no address keeps everything; a malformed mask keeps the old one; a
\* gateway that is not on the new link is not taken.
Applied(o) == LET m == IF o.mask = 0 THEN cfg.mask ELSE o.mask
                  new == [ip |-> o.ip, mask |-> m, gw |-> Nil]
              IN [new EXCEPT !.gw = IF o.gw # Nil /\ OnLink(new, o.gw, o.ip) THEN o.gw ELSE Nil]

DhcpApply(r) ==
    /\ dhcp[r] = "run" /\ lease = <<>> /\ Mine(r).ready
    /\ IF Mine(r).offer.ip = Nil
       THEN UNCHANGED config
       ELSE LET n == Applied(Mine(r).offer)
            IN cfg' = [cfg EXCEPT !.ip = n.ip, !.mask = n.mask] /\ lease' = <<n>>
    /\ dhcp' = [dhcp EXCEPT ![r] = "done"]
    /\ UNCHANGED <<rx, tx, arp, half, said, bad, netd, pending, udp, clock, counts>>

ApplyGateway ==
    /\ lease # <<>>
    /\ cfg' = lease[1] /\ lease' = <<>>
    /\ UNCHANGED <<rx, tx, arp, half, said, bad, threads, clock, counts>>

Next ==
    \/ DeviceSends \/ LearnMac \/ Dispatch
    \/ \E d \in Addr : Send(d)
    \/ \E f \in Frames : Arrives(f)
    \/ \E ok \in BOOLEAN : Reinit(ok)
    \/ NetdStart \/ NetdWait \/ NetdEnd
    \/ DhcpStart \/ ApplyGateway
    \/ \E r \in Run : DhcpWait(r) \/ DhcpTimeout(r) \/ DhcpApply(r)

Spec == Init /\ [][Next]_vars

------------------------------------------------------------------------------
\* No frame goes to a hardware address other than the one its next hop announced
\* last, and none to a gateway outside the network the host is on.
WellAddressed == ~bad

\* The gateway in force is on the link of the address in force.
GatewayOnLink == lease = <<>> /\ cfg.gw # Nil => OnLink(cfg, cfg.gw, cfg.ip)

\* A thread does not stay blocked over the frame it waits for, in the first run.
NoSleepOverFrame ==
    /\ netd = "blocked" => ~pending
    /\ \A i \in 1..Len(udp) : udp[i].ready => dhcp[udp[i].owner] # "blocked"

\* The cache holds an address once.
OnePerAddress == \A i, j \in 1..Len(arp) : arp[i].ip = arp[j].ip => i = j

NetDevSound == WellAddressed /\ GatewayOnLink /\ NoSleepOverFrame /\ OnePerAddress

\* "fired a request so the NEXT frame is addressed properly": a frame handed to
\* the device is the frame it sends.
SentAsHanded == ~tx.torn

\* A run of the client that blocked can still be woken by an offer.
RunCanWake == \A r \in Run : dhcp[r] = "blocked" => udp[1].owner = r

\* The device can always be given a frame.
CanReceive == rx.ready => rx.posted > 0 \/ rx.used # <<>>
=============================================================================
