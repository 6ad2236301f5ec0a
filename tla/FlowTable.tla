----------------------------- MODULE FlowTable -----------------------------
(***************************************************************************)
(* The transmit flow table of firmware/dante_tx.c and the packetizer       *)
(* contexts it programs.  The firmware is a single polling loop, so every  *)
(* request handler is one step here: the flow-control request of           *)
(* dante_flows.c, the create/delete/latency requests of dante_arc.c, the   *)
(* policy commands of dstats.c and the phase re-seed that every media      *)
(* clock anchor performs.  What the gateware sees BETWEEN the register     *)
(* writes of one handler is the subject of a separate module.              *)
(***************************************************************************)
EXTENDS Integers, Sequences

CONSTANTS
  NFlows,       \* N_FLOWS, the number of packetizer contexts
  MaxSlots,     \* slots of a context (8 in the gateware)
  NChannels,    \* DANTE_TX_CHANNELS
  Hosts,        \* addresses of receivers: a request's sender and its target
  Ports,        \* UDP ports receivers ask to be sent to
  MediaPort,    \* DANTE_PORT_MEDIA, the port of every multicast bundle
  flow_ip,      \* flow_ip[f], the group address of context f
  NoAddr,       \* an address field that was never written
  FlowIds,      \* Dante Controller's flow handles (0 is refused by ARC)
  ChanLists,    \* channel lists a request may carry
  FppAsked,     \* packet sizes receivers and the operator may ask for
  Latencies,    \* latency settings the operator may choose
  TimeWrap,     \* modulus of gptp_uptime_ms (2^32)
  AgeClamp      \* ages beyond this are not trusted (3600000 ms)

Ctx == 0..(NFlows - 1)

(* k_fpp_table, which mirrors FPP_TABLE of dante_packetizer.py; entry 0 is 8. *)
k_fpp_table == {8, 16, 24, 32, 60, 4, 2, 48}

Groups == {flow_ip[f] : f \in Ctx}
Addrs  == Hosts \cup Groups \cup {NoAddr}
Fpp    == k_fpp_table \cup {0}

ASSUME FlowTableAssumption ==
  /\ NFlows \in Nat \ {0}
  /\ MaxSlots \in Nat \ {0}
  /\ NChannels \in Nat
  /\ flow_ip \in [Ctx -> Groups]
  /\ \A f, g \in Ctx : flow_ip[f] = flow_ip[g] => f = g
  /\ Groups \cap Hosts = {}
  /\ NoAddr \notin Hosts \cup Groups
  /\ FlowIds \subseteq Nat \ {0}
  /\ ChanLists \subseteq Seq(Nat)
  /\ Ports \subseteq Nat
  /\ MediaPort \in Nat
  /\ FppAsked \subseteq Nat
  /\ TimeWrap \in Nat \ {0}
  /\ AgeClamp \in Nat

VARIABLES
  flows,             \* the firmware's flow_slot_t table
  hw,                \* the context registers latched in the packetizer
  chmap,             \* the chmap_lo/chmap_hi CSRs, shared by all contexts
  g_mcast_fpp,       \* packet size used for multicast bundles
  g_fpp_max_accept,  \* largest packet size accepted from a receiver
  g_fpp_clamp,       \* clamp an oversized packet size instead of refusing it
  g_latency_ns,      \* the configured latency
  now                \* gptp_uptime_ms

policy == <<g_mcast_fpp, g_fpp_max_accept, g_fpp_clamp, g_latency_ns>>
vars   == <<flows, hw, chmap, policy, now>>

-----------------------------------------------------------------------------
Slots == 1..MaxSlots

(* flows[f].chans: the named channels, then silent slots. *)
TableMap(chans) == [i \in Slots |-> IF i <= Len(chans) THEN chans[i] ELSE 0]

(* The chmap registers: a channel that does not exist is a silent slot. *)
ChanMap(chans) ==
  [i \in Slots |->
     IF i <= Len(chans) /\ chans[i] \in 1..NChannels THEN chans[i] ELSE 0]

(* What the chmap registers must hold for a table entry's channel map. *)
Programmed(tmap) == [i \in Slots |-> IF tmap[i] \in 1..NChannels THEN tmap[i] ELSE 0]

dante_tx_fpp_supported(fpp) == fpp <= g_fpp_max_accept /\ fpp \in k_fpp_table

Age(f)        == (now - flows[f].last_ms) % TimeWrap
ClampedAge(f) == IF Age(f) > AgeClamp THEN AgeClamp ELSE Age(f)

(* The first context of S, as an ascending scan finds it ({} if S is empty). *)
First(S) == {f \in S : \A g \in S : f <= g}

(* The scan "age >= oldest": a largest age, the last index among equals.    *)
Stalest(S, age) ==
  {f \in S : \A g \in S : age[g] < age[f] \/ (age[g] = age[f] /\ g <= f)}

(* Mutant: the earlier key, the peer alone. *)
MatchingPeerOnly(peer, dst, dport) ==
  {f \in Ctx : flows[f].in_use /\ flows[f].peer = peer}

Matching(peer, dst, dport) ==
  {f \in Ctx : /\ flows[f].in_use
               /\ flows[f].dport = dport
               /\ flows[f].peer = peer
               /\ flows[f].dst = dst}

ServingId(ext_id) ==
  {f \in Ctx : flows[f].in_use /\ flows[f].mcast /\ flows[f].ext_id = ext_id}

Free    == {f \in Ctx : ~flows[f].in_use}
Unicast == {f \in Ctx : ~flows[f].mcast}

(* Mutant: every request allocates. *)
UnicastTargetNoReuse(peer, dst, dport) ==
  IF Free # {} THEN First(Free) ELSE Stalest(Ctx, [f \in Ctx |-> Age(f)])

(* Mutant: age order alone picks the victim. *)
UnicastTargetByAge(peer, dst, dport) ==
  LET m == Matching(peer, dst, dport)
  IN  IF m # {} THEN First(m)
      ELSE IF Free # {} THEN First(Free)
      ELSE Stalest(Ctx, [f \in Ctx |-> Age(f)])

(* The context dante_tx_bind_unicast uses: the one already bound to this    *)
(* socket, else a free one, else the stalest unicast, else the stalest.     *)
UnicastTarget(peer, dst, dport) ==
  LET age == [f \in Ctx |-> Age(f)]
      m   == Matching(peer, dst, dport)
  IN  IF m # {} THEN First(m)
      ELSE IF Free # {} THEN First(Free)
      ELSE IF Unicast # {} THEN Stalest(Unicast, age)
      ELSE Stalest(Ctx, age)

(* The context dante_tx_bind_multicast uses.                                *)
MulticastTarget(ext_id) ==
  LET s == ServingId(ext_id)
  IN  IF s # {} THEN First(s)
      ELSE IF Free # {} THEN First(Free)
      ELSE Stalest(Ctx, [f \in Ctx |-> ClampedAge(f)])

-----------------------------------------------------------------------------
(* write_ctx: the header fields latch on udp_dport and dst_mac_lo; flow_cfg *)
(* latches the channel map CSRs with the slot count and the packet size.    *)
write_ctx(f, dst, dmac, dport, chans, fpp) ==
  /\ chmap' = ChanMap(chans)
  /\ hw' = [hw EXCEPT ![f] =
              [dst |-> dst, dmac |-> dmac, dport |-> dport,
               chmap |-> ChanMap(chans), nslots |-> Len(chans), fpp |-> fpp]]

(* The registers after flow_cfg_write(0): slot count 0, packet size index 0,*)
(* and whatever the channel map CSRs hold at that moment.                   *)
Silenced(c) == [c EXCEPT !.nslots = 0, !.fpp = 8, !.chmap = chmap]

(* Mutant: unbind forgets to silence the context. *)
UnbindTableOnly(S) ==
  /\ flows' = [f \in Ctx |-> IF f \in S THEN [flows[f] EXCEPT !.in_use = FALSE]
                                         ELSE flows[f]]
  /\ UNCHANGED <<hw, chmap>>

(* dante_tx_unbind on every bound context of S.                             *)
Unbind(S) ==
  /\ flows' = [f \in Ctx |-> IF f \in S THEN [flows[f] EXCEPT !.in_use = FALSE]
                                         ELSE flows[f]]
  /\ hw' = [f \in Ctx |-> IF f \in S THEN Silenced(hw[f]) ELSE hw[f]]
  /\ UNCHANGED chmap

Bound == {f \in Ctx : flows[f].in_use}

(* dante_tx_drop_all *)
DropAll == Unbind(Bound)

(* dante_tx_bind_unicast once the destination's MAC is known.  A MAC is     *)
(* represented by the address it belongs to.                                *)
BindUnicast(peer, dst, dport, chans, fpp) ==
  \E f \in UnicastTarget(peer, dst, dport) :
    /\ write_ctx(f, dst, dst, dport, chans, fpp)
    /\ flows' = [flows EXCEPT ![f] =
                   [in_use |-> TRUE, peer |-> peer, dst |-> dst, dmac |-> dst,
                    dport |-> dport, nslots |-> Len(chans), fpp |-> fpp,
                    mcast |-> FALSE, ext_id |-> flows[f].ext_id,
                    chans |-> TableMap(chans), last_ms |-> now]]

(* dante_tx_bind_multicast: the peer and dmac fields are left as they were. *)
BindMulticast(ext_id, chans) ==
  \E f \in MulticastTarget(ext_id) :
    /\ write_ctx(f, flow_ip[f], flow_ip[f], MediaPort, chans, g_mcast_fpp)
    /\ flows' = [flows EXCEPT ![f] =
                   [in_use |-> TRUE, peer |-> flows[f].peer, dst |-> flow_ip[f],
                    dmac |-> flows[f].dmac, dport |-> MediaPort,
                    nslots |-> Len(chans), fpp |-> g_mcast_fpp, mcast |-> TRUE,
                    ext_id |-> ext_id, chans |-> TableMap(chans),
                    last_ms |-> now]]

-----------------------------------------------------------------------------
(* dante_tx_init: every context carries its group's header and is silent.   *)
Init ==
  /\ flows = [f \in Ctx |->
       [in_use |-> FALSE, peer |-> NoAddr, dst |-> NoAddr, dmac |-> NoAddr,
        dport |-> 0, nslots |-> 0, fpp |-> 0, mcast |-> FALSE, ext_id |-> 0,
        chans |-> TableMap(<<>>), last_ms |-> 0]]
  /\ chmap = ChanMap(<<>>)
  /\ hw = [f \in Ctx |->
       [dst |-> flow_ip[f], dmac |-> flow_ip[f], dport |-> MediaPort,
        chmap |-> ChanMap(<<>>), nslots |-> 0, fpp |-> 8]]
  /\ g_mcast_fpp = 16
  /\ g_fpp_max_accept = 60
  /\ g_fpp_clamp = FALSE
  /\ g_latency_ns \in Latencies
  /\ now = 0

(* The packet size a request is bound with, after the optional clamp.       *)
GrantedFpp(fpp) ==
  IF g_fpp_clamp /\ fpp > g_fpp_max_accept THEN g_fpp_max_accept ELSE fpp

(* flows_rx accepts: supported packet size, no odd slot count at fpp 2, and *)
(* one to eight slots.                                                      *)
Acceptable(chans, fpp) ==
  /\ dante_tx_fpp_supported(fpp)
  /\ ~(fpp = 2 /\ Len(chans) % 2 = 1)
  /\ Len(chans) \in 1..MaxSlots

(* flows_rx, request 0x0100 that binds a flow; also the keepalive, which is *)
(* the same request repeated.  A request refused for its parameters or for  *)
(* want of an ARP entry changes nothing here.                               *)
RequestFlow(peer, dst, dport, chans, asked) ==
  /\ Acceptable(chans, GrantedFpp(asked))
  /\ BindUnicast(peer, dst, dport, chans, GrantedFpp(asked))
  /\ UNCHANGED <<policy, now>>

(* arc_rx 0x2201, one descriptor of the request; also dstats command 'M'.   *)
CreateMulticast(ext_id, chans) ==
  /\ Len(chans) \in 1..MaxSlots
  /\ BindMulticast(ext_id, chans)
  /\ UNCHANGED <<policy, now>>

(* dante_tx_ctx_for_id: the first bound context whose ext_id matches.       *)
dante_tx_ctx_for_id(ext_id) ==
  First({f \in Ctx : flows[f].in_use /\ flows[f].ext_id = ext_id})

(* arc_rx 0x2202, one flow id of the request.                               *)
DeleteFlow(ext_id) ==
  /\ dante_tx_ctx_for_id(ext_id) # {}
  /\ Unbind(dante_tx_ctx_for_id(ext_id))
  /\ UNCHANGED <<policy, now>>

(* arc_rx 0x1101: a changed latency drops every flow to force renegotiation,*)
(* a repeated one drops none.                                               *)
SetLatency(v) ==
  /\ g_latency_ns' = v
  /\ IF v # g_latency_ns THEN DropAll ELSE UNCHANGED <<flows, hw, chmap>>
  /\ UNCHANGED <<g_mcast_fpp, g_fpp_max_accept, g_fpp_clamp, now>>

(* dstats command 'L' sets the latency and drops nothing.                   *)
StatsLatency(v) ==
  /\ v # g_latency_ns
  /\ g_latency_ns' = v
  /\ UNCHANGED <<flows, hw, chmap, g_mcast_fpp, g_fpp_max_accept, g_fpp_clamp, now>>

(* Mutant: bound flows survive a new acceptance limit. *)
StatsMaxFppKeep(v) ==
  /\ g_fpp_max_accept' = IF v = 0 THEN 60 ELSE v
  /\ UNCHANGED <<flows, hw, chmap, g_mcast_fpp, g_fpp_clamp, g_latency_ns, now>>

(* dstats command 'X': a new acceptance limit (0 restores 60).              *)
StatsMaxFpp(v) ==
  /\ g_fpp_max_accept' = IF v = 0 THEN 60 ELSE v
  /\ DropAll
  /\ UNCHANGED <<g_mcast_fpp, g_fpp_clamp, g_latency_ns, now>>

(* dstats command 'C': clamp or refuse oversized packets.                   *)
StatsClamp(on) ==
  /\ g_fpp_clamp' = on
  /\ DropAll
  /\ UNCHANGED <<g_mcast_fpp, g_fpp_max_accept, g_latency_ns, now>>

(* dstats command 'M' with a number: the packet size of later bundles.      *)
StatsMcastFpp(v) ==
  /\ dante_tx_fpp_supported(v)
  /\ g_mcast_fpp' = v
  /\ UNCHANGED <<flows, hw, chmap, g_fpp_max_accept, g_fpp_clamp, g_latency_ns, now>>

(* dante_tx_reseed_phases, run by every ts_anchor: flow_cfg is rewritten    *)
(* for each bound context, which latches the channel map CSRs again.        *)
ReseedPhases ==
  /\ hw' = [f \in Ctx |->
       IF flows[f].in_use /\ flows[f].fpp # 0
         THEN [hw[f] EXCEPT !.nslots = flows[f].nslots, !.fpp = flows[f].fpp,
                            !.chmap = chmap]
         ELSE hw[f]]
  /\ UNCHANGED <<flows, chmap, policy, now>>

(* Time passes; gptp_uptime_ms is a 32-bit counter.                         *)
Tick ==
  /\ now' = (now + 1) % TimeWrap
  /\ UNCHANGED <<flows, hw, chmap, policy>>

Next ==
  \/ \E peer, dst \in Hosts, dport \in Ports, chans \in ChanLists, asked \in FppAsked :
       RequestFlow(peer, dst, dport, chans, asked)
  \/ \E ext_id \in FlowIds, chans \in ChanLists : CreateMulticast(ext_id, chans)
  \/ \E ext_id \in FlowIds : DeleteFlow(ext_id)
  \/ \E v \in Latencies : SetLatency(v) \/ StatsLatency(v)
  \/ \E v \in FppAsked : StatsMaxFpp(v) \/ StatsMcastFpp(v)
  \/ \E on \in BOOLEAN : StatsClamp(on)
  \/ ReseedPhases
  \/ Tick

Spec == Init /\ [][Next]_vars
-----------------------------------------------------------------------------
(* Types.  The table's channel maps are padded to MaxSlots; a context's     *)
(* destination is a receiver, one of the six groups, or never written.      *)
FlowSlot ==
  [in_use : BOOLEAN, peer : Hosts \cup {NoAddr}, dst : Addrs, dmac : Addrs,
   dport : Nat, nslots : 0..MaxSlots, fpp : Fpp, mcast : BOOLEAN, ext_id : Nat,
   chans : [Slots -> Nat], last_ms : 0..(TimeWrap - 1)]

Context ==
  [dst : Addrs, dmac : Addrs, dport : Nat, chmap : [Slots -> 0..NChannels],
   nslots : 0..MaxSlots, fpp : k_fpp_table]

(* The type invariant: no handler stores a slot count, a packet size or a   *)
(* channel number the gateware's register fields cannot hold.               *)
TypeOK ==
  /\ flows \in [Ctx -> FlowSlot]
  /\ hw \in [Ctx -> Context]
  /\ chmap \in [Slots -> 0..NChannels]
  /\ g_mcast_fpp \in k_fpp_table
  /\ g_fpp_max_accept \in Nat
  /\ g_fpp_clamp \in BOOLEAN
  /\ g_latency_ns \in Latencies
  /\ now \in 0..(TimeWrap - 1)

Socket(f) == <<flows[f].peer, flows[f].dst, flows[f].dport>>

(* dante_tx_bind_unicast keys a flow on (peer, dst_ip, dst_port) so that a  *)
(* keepalive never takes a second context: after any history of binds,      *)
(* evictions, deletes and drops no two bound unicast contexts send to the   *)
(* same socket of the same peer.                                            *)
OneContextPerSocket ==
  \A f, g \in Bound :
    (~flows[f].mcast /\ ~flows[g].mcast /\ Socket(f) = Socket(g)) => f = g

(* dante_tx_bind_multicast reuses the context serving Dante Controller's    *)
(* flow id: no two bundles on the air carry the same handle.                *)
OneContextPerFlowId ==
  \A f, g \in Bound :
    (flows[f].mcast /\ flows[g].mcast /\ flows[f].ext_id = flows[g].ext_id) => f = g

(* A bundle is addressed to the group of the context it sits in, whatever   *)
(* handle it has and whoever used the context before: no two bundles share  *)
(* a group, and no receiver's flow ever matches a bundle's socket.          *)
BundlesOwnTheirGroup ==
  \A f \in Bound :
    flows[f].mcast => flows[f].dst = flow_ip[f] /\ flows[f].dport = MediaPort

(* The packetizer transmits what the table says: a bound context has the    *)
(* table's destination, port, slot count and packet size latched, addressed *)
(* to that destination's MAC, and a context that is not bound is silent.    *)
GatewareMirrorsTable ==
  \A f \in Ctx :
    IF flows[f].in_use
      THEN /\ hw[f].dst = flows[f].dst
           /\ hw[f].dmac = flows[f].dst
           /\ hw[f].dport = flows[f].dport
           /\ hw[f].nslots = flows[f].nslots
           /\ hw[f].fpp = flows[f].fpp
      ELSE hw[f].nslots = 0

(* A unicast flow never outlives the acceptance limit it was granted under, *)
(* and its payload (3 bytes per slot per sample) is a whole number of       *)
(* 32-bit words, which the packetizer's last-word index relies on.          *)
UnicastWithinLimits ==
  \A f \in Bound :
    ~flows[f].mcast => /\ flows[f].fpp <= g_fpp_max_accept
                       /\ (flows[f].nslots * 3 * flows[f].fpp) % 4 = 0

Serves(f) == <<flows[f].mcast, IF flows[f].mcast THEN <<flows[f].ext_id>> ELSE Socket(f)>>

(* The flows on the air, as an operator sees them.                          *)
OnAir == {[key |-> Serves(f), chans |-> flows[f].chans, fpp |-> flows[f].fpp] : f \in Bound}

Registry == INSTANCE FlowRegistry WITH Capacity <- NFlows, entries <- OnAir

(* The flow table implements a registry of one entry per key: a keepalive   *)
(* refreshes its own flow and no other, a new flow takes a bound context    *)
(* only when all are bound, and then exactly one.                           *)
ImplementsRegistry == Registry!Spec

(* "PREFER A UNICAST VICTIM": a receiver's request never takes the context  *)
(* of an operator's multicast bundle while a unicast context exists, and    *)
(* the unicast context it takes is the longest without a keepalive.         *)
UnicastBindSparesMulticast ==
  [][\A f \in Bound :
       (flows'[f].in_use /\ ~flows'[f].mcast /\ Serves(f)' # Serves(f)) =>
         \A g \in Ctx : ~flows[g].mcast => ~flows[f].mcast /\ Age(g) <= Age(f)]_vars

(* "So 0x2200 reports what a flow really carries", dante_tx_flow_chan: a    *)
(* bound context's slots carry the channels the table reports for it.       *)
GatewareCarriesBoundChannels ==
  \A f \in Bound : hw[f].chmap = Programmed(flows[f].chans)

(* One context per flow: however often requests are repeated and contexts   *)
(* change hands, no socket and no bundle is served twice, and a bundle has  *)
(* the group of its context to itself.                                      *)
OneContextPerFlow == OneContextPerSocket /\ OneContextPerFlowId /\ BundlesOwnTheirGroup

(* What is stored fits the gateware: table and registers stay within their  *)
(* fields, and every unicast flow within the limits, after any requests and *)
(* changes of policy.                                                       *)
FlowsFit == TypeOK /\ UnicastWithinLimits
=============================================================================
