-------------------------- MODULE FlowTable_proofs --------------------------
(***************************************************************************)
(* Safety of the flow table for any number of contexts, receivers, ports,  *)
(* flow ids, channel lists and clock widths; that it implements the        *)
(* registry; and that what the mDNS responder tells the network about it   *)
(* stays true or is on its way to be corrected.                            *)
(***************************************************************************)
EXTENDS Discovery, FiniteSetTheorems, TLAPS

(* The channel map registers hold channel numbers, whatever list is asked.  *)
LEMMA ChanMapType ==
  ASSUME NEW chans \in ChanLists
  PROVE  /\ ChanMap(chans) \in [Slots -> 0..NChannels]
         /\ TableMap(chans) \in [Slots -> Nat]
         /\ Len(chans) \in Nat
BY FlowTableAssumption DEF ChanMap, TableMap, Slots

(* Targets are contexts: every scan of the table returns an index of it.    *)
LEMMA UnicastTargetIsCtx ==
  ASSUME NEW peer, NEW dst, NEW dport
  PROVE  UnicastTarget(peer, dst, dport) \subseteq Ctx
BY DEF UnicastTarget, First, Stalest, Matching, Free, Unicast

LEMMA MulticastTargetIsCtx ==
  ASSUME NEW ext_id
  PROVE  MulticastTarget(ext_id) \subseteq Ctx
BY DEF MulticastTarget, First, Stalest, ServingId, Free

(* Silencing contexts keeps the types.                                      *)
LEMMA UnbindType ==
  ASSUME TypeOK, NEW S, Unbind(S)
  PROVE  /\ flows' \in [Ctx -> FlowSlot]
         /\ hw' \in [Ctx -> Context]
         /\ chmap' \in [Slots -> 0..NChannels]
<1>1. ASSUME NEW f \in Ctx
      PROVE  [flows[f] EXCEPT !.in_use = FALSE] \in FlowSlot
  BY DEF TypeOK, FlowSlot
<1>2. ASSUME NEW f \in Ctx
      PROVE  Silenced(hw[f]) \in Context
  <2>1. hw[f] \in Context /\ chmap \in [Slots -> 0..NChannels]
    BY DEF TypeOK
  <2>2. 0 \in 0..MaxSlots /\ 8 \in k_fpp_table
    BY FlowTableAssumption DEF k_fpp_table
  <2>. QED
    BY <2>1, <2>2 DEF Context, Silenced
<1>3. flows' \in [Ctx -> FlowSlot]
  BY <1>1 DEF Unbind, TypeOK
<1>4. hw' \in [Ctx -> Context]
  BY <1>2 DEF Unbind, TypeOK
<1>. QED
  BY <1>3, <1>4 DEF Unbind, TypeOK

LEMMA InitType == Init => TypeOK
<1> SUFFICES ASSUME Init PROVE TypeOK
  OBVIOUS
<1>1. /\ ChanMap(<<>>) \in [Slots -> 0..NChannels]
      /\ TableMap(<<>>) \in [Slots -> Nat]
  BY FlowTableAssumption DEF ChanMap, TableMap, Slots
<1>2. flows \in [Ctx -> FlowSlot]
  BY <1>1, FlowTableAssumption DEF Init, FlowSlot, Addrs, Fpp
<1>3. hw \in [Ctx -> Context]
  BY <1>1, FlowTableAssumption DEF Init, Context, Addrs, Groups, k_fpp_table
<1>4. now \in 0..(TimeWrap - 1)
  BY FlowTableAssumption DEF Init
<1>5. g_mcast_fpp \in k_fpp_table /\ g_fpp_max_accept \in Nat
  BY DEF Init, k_fpp_table
<1>. QED
  BY <1>1, <1>2, <1>3, <1>4, <1>5 DEF Init, TypeOK

(* What a bind stores is well typed, for a receiver's flow and for a bundle. *)
LEMMA BindUnicastType ==
  ASSUME TypeOK,
         NEW peer \in Hosts, NEW dst \in Hosts, NEW dport \in Ports,
         NEW chans \in ChanLists, NEW fpp \in k_fpp_table,
         Len(chans) \in 1..MaxSlots,
         BindUnicast(peer, dst, dport, chans, fpp)
  PROVE  /\ flows' \in [Ctx -> FlowSlot]
         /\ hw' \in [Ctx -> Context]
         /\ chmap' \in [Slots -> 0..NChannels]
<1>1. PICK f \in Ctx :
        /\ write_ctx(f, dst, dst, dport, chans, fpp)
        /\ flows' = [flows EXCEPT ![f] =
                   [in_use |-> TRUE, peer |-> peer, dst |-> dst, dmac |-> dst,
                    dport |-> dport, nslots |-> Len(chans), fpp |-> fpp,
                    mcast |-> FALSE, ext_id |-> flows[f].ext_id,
                    chans |-> TableMap(chans), last_ms |-> now]]
  BY UnicastTargetIsCtx DEF BindUnicast
<1>2. /\ dst \in Addrs /\ dport \in Nat /\ fpp \in Fpp
      /\ Len(chans) \in 0..MaxSlots
      /\ flows[f].ext_id \in Nat
      /\ now \in 0..(TimeWrap - 1)
      /\ ChanMap(chans) \in [Slots -> 0..NChannels]
      /\ TableMap(chans) \in [Slots -> Nat]
  <2>1. dport \in Nat
    BY FlowTableAssumption
  <2>2. flows[f].ext_id \in Nat
    BY DEF TypeOK, FlowSlot
  <2>. QED
    BY <2>1, <2>2, ChanMapType DEF TypeOK, Addrs, Fpp
<1>3. flows' \in [Ctx -> FlowSlot]
  BY <1>1, <1>2 DEF TypeOK, FlowSlot
<1>4. hw' \in [Ctx -> Context]
  BY <1>1, <1>2 DEF TypeOK, Context, write_ctx
<1>. QED
  BY <1>1, <1>2, <1>3, <1>4 DEF write_ctx

LEMMA BindMulticastType ==
  ASSUME TypeOK,
         NEW ext_id \in FlowIds, NEW chans \in ChanLists,
         Len(chans) \in 1..MaxSlots,
         BindMulticast(ext_id, chans)
  PROVE  /\ flows' \in [Ctx -> FlowSlot]
         /\ hw' \in [Ctx -> Context]
         /\ chmap' \in [Slots -> 0..NChannels]
<1>1. PICK f \in Ctx :
        /\ write_ctx(f, flow_ip[f], flow_ip[f], MediaPort, chans, g_mcast_fpp)
        /\ flows' = [flows EXCEPT ![f] =
                   [in_use |-> TRUE, peer |-> flows[f].peer, dst |-> flow_ip[f],
                    dmac |-> flows[f].dmac, dport |-> MediaPort,
                    nslots |-> Len(chans), fpp |-> g_mcast_fpp, mcast |-> TRUE,
                    ext_id |-> ext_id, chans |-> TableMap(chans),
                    last_ms |-> now]]
  BY MulticastTargetIsCtx DEF BindMulticast
<1>2. /\ flow_ip[f] \in Addrs /\ MediaPort \in Nat
      /\ g_mcast_fpp \in Fpp /\ g_mcast_fpp \in k_fpp_table
      /\ Len(chans) \in 0..MaxSlots
      /\ ext_id \in Nat
      /\ flows[f].peer \in Hosts \cup {NoAddr} /\ flows[f].dmac \in Addrs
      /\ now \in 0..(TimeWrap - 1)
      /\ ChanMap(chans) \in [Slots -> 0..NChannels]
      /\ TableMap(chans) \in [Slots -> Nat]
  <2>1. ext_id \in Nat /\ MediaPort \in Nat
    BY FlowTableAssumption
  <2>2. flow_ip[f] \in Addrs
    BY DEF Addrs, Groups
  <2>3. flows[f].peer \in Hosts \cup {NoAddr} /\ flows[f].dmac \in Addrs
    BY DEF TypeOK, FlowSlot
  <2>. QED
    BY <2>1, <2>2, <2>3, ChanMapType DEF TypeOK, Fpp
<1>3. flows' \in [Ctx -> FlowSlot]
  BY <1>1, <1>2 DEF TypeOK, FlowSlot
<1>4. hw' \in [Ctx -> Context]
  BY <1>1, <1>2 DEF TypeOK, Context, write_ctx
<1>. QED
  BY <1>1, <1>2, <1>3, <1>4 DEF write_ctx

(* A granted packet size is one of the table, and a natural number bounds it. *)
LEMMA AcceptableFpp ==
  ASSUME TypeOK, NEW chans \in ChanLists, NEW fpp, Acceptable(chans, fpp)
  PROVE  /\ fpp \in k_fpp_table
         /\ fpp <= g_fpp_max_accept
         /\ Len(chans) \in 1..MaxSlots
         /\ ~(fpp = 2 /\ Len(chans) % 2 = 1)
BY DEF Acceptable, dante_tx_fpp_supported

LEMMA ReseedType ==
  ASSUME TypeOK, ReseedPhases
  PROVE  hw' \in [Ctx -> Context]
<1>1. ASSUME NEW f \in Ctx, flows[f].fpp # 0
      PROVE  [hw[f] EXCEPT !.nslots = flows[f].nslots, !.fpp = flows[f].fpp,
                           !.chmap = chmap] \in Context
  <2>1. hw[f] \in Context /\ chmap \in [Slots -> 0..NChannels]
    BY DEF TypeOK
  <2>2. flows[f].nslots \in 0..MaxSlots /\ flows[f].fpp \in k_fpp_table
    BY <1>1 DEF TypeOK, FlowSlot, Fpp
  <2>. QED
    BY <2>1, <2>2 DEF Context
<1>. QED
  BY <1>1 DEF ReseedPhases, TypeOK

LEMMA NextType == TypeOK /\ [Next]_vars => TypeOK'
<1> SUFFICES ASSUME TypeOK, [Next]_vars PROVE TypeOK'
  OBVIOUS
<1>1. ASSUME NEW peer \in Hosts, NEW dst \in Hosts, NEW dport \in Ports,
             NEW chans \in ChanLists, NEW asked \in FppAsked,
             RequestFlow(peer, dst, dport, chans, asked)
      PROVE  TypeOK'
  <2>1. /\ GrantedFpp(asked) \in k_fpp_table
        /\ Len(chans) \in 1..MaxSlots
    BY <1>1, AcceptableFpp DEF RequestFlow
  <2>. QED
    BY <1>1, <2>1, BindUnicastType DEF RequestFlow, policy, TypeOK
<1>2. ASSUME NEW ext_id \in FlowIds, NEW chans \in ChanLists,
             CreateMulticast(ext_id, chans)
      PROVE  TypeOK'
  BY <1>2, BindMulticastType DEF CreateMulticast, policy, TypeOK
<1>3. ASSUME NEW ext_id \in FlowIds, DeleteFlow(ext_id)
      PROVE  TypeOK'
  BY <1>3, UnbindType DEF DeleteFlow, policy, TypeOK
<1>4. ASSUME NEW v \in Latencies, SetLatency(v)
      PROVE  TypeOK'
  BY <1>4, UnbindType DEF SetLatency, DropAll, TypeOK
<1>5. ASSUME NEW v \in Latencies, StatsLatency(v)
      PROVE  TypeOK'
  BY <1>5 DEF StatsLatency, TypeOK
<1>6. ASSUME NEW v \in FppAsked, StatsMaxFpp(v)
      PROVE  TypeOK'
  <2>1. v \in Nat
    BY FlowTableAssumption
  <2>. QED
    BY <1>6, <2>1, UnbindType DEF StatsMaxFpp, DropAll, TypeOK
<1>7. ASSUME NEW v \in FppAsked, StatsMcastFpp(v)
      PROVE  TypeOK'
  BY <1>7 DEF StatsMcastFpp, dante_tx_fpp_supported, TypeOK
<1>8. ASSUME NEW on \in BOOLEAN, StatsClamp(on)
      PROVE  TypeOK'
  BY <1>8, UnbindType DEF StatsClamp, DropAll, TypeOK
<1>9. CASE ReseedPhases
  BY <1>9, ReseedType DEF ReseedPhases, policy, TypeOK
<1>10. CASE Tick
  <2>1. (now + 1) % TimeWrap \in 0..(TimeWrap - 1)
    BY FlowTableAssumption DEF TypeOK
  <2>. QED
    BY <1>10, <2>1 DEF Tick, policy, TypeOK
<1>11. CASE UNCHANGED vars
  BY <1>11 DEF vars, policy, TypeOK
<1>. QED
  BY <1>1, <1>2, <1>3, <1>4, <1>5, <1>6, <1>7, <1>8, <1>9, <1>10, <1>11 DEF Next

(* Type correctness: every reachable table entry and context register fits  *)
(* its field, for any number of contexts, receivers and flow ids.           *)
THEOREM TypeCorrect == Spec => []TypeOK
BY InitType, NextType, PTL DEF Spec

-----------------------------------------------------------------------------
(* The safety part of the table's inductive invariant.  OneContextPerSocket *)
(* is not inductive by itself: dante_tx_bind_unicast matches on the socket  *)
(* without looking at mcast, so it needs to know that a bundle's address is *)
(* a group and can never equal a receiver's.                                *)
TableInv ==
  /\ TypeOK
  /\ BundlesOwnTheirGroup
  /\ OneContextPerSocket
  /\ OneContextPerFlowId
  /\ GatewareMirrorsTable

LEMMA InitTable == Init => TableInv
<1> SUFFICES ASSUME Init PROVE TableInv
  OBVIOUS
<1>1. Bound = {}
  BY DEF Init, Bound
<1>2. GatewareMirrorsTable
  BY DEF Init, GatewareMirrorsTable
<1>. QED
  BY <1>1, <1>2, InitType DEF TableInv, BundlesOwnTheirGroup,
     OneContextPerSocket, OneContextPerFlowId

(* Unbinding removes contexts from the bound set and silences exactly them. *)
LEMMA UnbindTable ==
  ASSUME TableInv, NEW S, Unbind(S)
  PROVE  /\ BundlesOwnTheirGroup'
         /\ OneContextPerSocket'
         /\ OneContextPerFlowId'
         /\ GatewareMirrorsTable'
<1>1. \A f \in Ctx :
        /\ flows'[f].in_use => f \notin S /\ flows'[f] = flows[f] /\ hw'[f] = hw[f]
        /\ ~flows'[f].in_use => hw'[f].nslots = 0
  <2> TAKE f \in Ctx
  <2>1. flows[f] \in FlowSlot /\ hw[f] \in Context
    BY DEF TableInv, TypeOK
  <2>2. CASE f \in S
    <3>1. flows'[f].in_use = FALSE
      BY <2>1, <2>2 DEF Unbind, FlowSlot
    <3>2. hw'[f].nslots = 0
      BY <2>1, <2>2 DEF Unbind, Silenced, Context
    <3>. QED
      BY <3>1, <3>2
  <2>3. CASE f \notin S
    BY <2>3 DEF Unbind, TableInv, GatewareMirrorsTable
  <2>. QED
    BY <2>2, <2>3
<1>2. \A f \in Bound' : f \in Bound /\ flows'[f] = flows[f]
  BY <1>1 DEF Bound
<1>3. BundlesOwnTheirGroup'
  BY <1>2 DEF TableInv, BundlesOwnTheirGroup
<1>4. OneContextPerSocket'
  BY <1>2 DEF TableInv, OneContextPerSocket, Socket
<1>5. OneContextPerFlowId'
  BY <1>2 DEF TableInv, OneContextPerFlowId
<1>6. GatewareMirrorsTable'
  BY <1>1 DEF TableInv, GatewareMirrorsTable
<1>. QED
  BY <1>3, <1>4, <1>5, <1>6

(* A receiver's request lands in the context already bound to its socket,   *)
(* and if it lands elsewhere no context is bound to that socket.            *)
LEMMA UnicastTargetUnique ==
  ASSUME TableInv,
         NEW peer \in Hosts, NEW dst \in Hosts, NEW dport,
         NEW f \in UnicastTarget(peer, dst, dport),
         NEW g \in Bound, ~flows[g].mcast, Socket(g) = <<peer, dst, dport>>
  PROVE  g = f
<1>1. g \in Matching(peer, dst, dport)
  BY DEF Matching, Socket, Bound
<1>2. f \in Matching(peer, dst, dport)
  BY <1>1 DEF UnicastTarget, First
<1>3. f \in Bound /\ Socket(f) = Socket(g)
  BY <1>1, <1>2 DEF Matching, Bound, Socket
<1>4. ~flows[f].mcast
  <2>1. flows[f].dst \in Hosts
    BY <1>2 DEF Matching
  <2>2. flow_ip[f] \notin Hosts
    BY <1>3, FlowTableAssumption DEF Bound, Groups
  <2>. QED
    BY <1>3, <2>1, <2>2 DEF TableInv, BundlesOwnTheirGroup
<1>. QED
  BY <1>3, <1>4 DEF TableInv, OneContextPerSocket

(* A create request lands in the context serving its id, if there is one.   *)
LEMMA MulticastTargetUnique ==
  ASSUME TableInv,
         NEW ext_id, NEW f \in MulticastTarget(ext_id),
         NEW g \in Bound, flows[g].mcast, flows[g].ext_id = ext_id
  PROVE  g = f
<1>1. g \in ServingId(ext_id)
  BY DEF ServingId, Bound
<1>2. f \in ServingId(ext_id)
  BY <1>1 DEF MulticastTarget, First
<1>. QED
  BY <1>1, <1>2 DEF ServingId, Bound, TableInv, OneContextPerFlowId

LEMMA BindUnicastTable ==
  ASSUME TableInv,
         NEW peer \in Hosts, NEW dst \in Hosts, NEW dport \in Ports,
         NEW chans \in ChanLists, NEW fpp \in k_fpp_table,
         BindUnicast(peer, dst, dport, chans, fpp)
  PROVE  /\ BundlesOwnTheirGroup'
         /\ OneContextPerSocket'
         /\ OneContextPerFlowId'
         /\ GatewareMirrorsTable'
<1>1. PICK f \in UnicastTarget(peer, dst, dport) :
        /\ write_ctx(f, dst, dst, dport, chans, fpp)
        /\ flows' = [flows EXCEPT ![f] =
                   [in_use |-> TRUE, peer |-> peer, dst |-> dst, dmac |-> dst,
                    dport |-> dport, nslots |-> Len(chans), fpp |-> fpp,
                    mcast |-> FALSE, ext_id |-> flows[f].ext_id,
                    chans |-> TableMap(chans), last_ms |-> now]]
  BY DEF BindUnicast
<1>2. f \in Ctx
  BY UnicastTargetIsCtx
<1>3. /\ flows'[f].in_use /\ ~flows'[f].mcast
      /\ flows'[f].peer = peer /\ flows'[f].dst = dst /\ flows'[f].dport = dport
      /\ flows'[f].nslots = Len(chans) /\ flows'[f].fpp = fpp
      /\ hw'[f].dst = dst /\ hw'[f].dmac = dst /\ hw'[f].dport = dport
      /\ hw'[f].nslots = Len(chans) /\ hw'[f].fpp = fpp
  BY <1>1, <1>2 DEF TableInv, TypeOK, write_ctx
<1>4. \A g \in Ctx : g # f => flows'[g] = flows[g] /\ hw'[g] = hw[g]
  BY <1>1 DEF TableInv, TypeOK, write_ctx
<1>5. \A g \in Bound' : g # f => g \in Bound /\ flows'[g] = flows[g]
  BY <1>4 DEF Bound
<1>6. BundlesOwnTheirGroup'
  BY <1>3, <1>5 DEF TableInv, BundlesOwnTheirGroup
<1>7. OneContextPerFlowId'
  BY <1>3, <1>5 DEF TableInv, OneContextPerFlowId
<1>8. GatewareMirrorsTable'
  BY <1>3, <1>4 DEF TableInv, GatewareMirrorsTable
<1>9. OneContextPerSocket'
  <2>1. \A g \in Bound : ~flows[g].mcast /\ Socket(g) = <<peer, dst, dport>> => g = f
    BY UnicastTargetUnique
  <2>2. Socket(f)' = <<peer, dst, dport>>
    BY <1>3 DEF Socket
  <2>3. \A g \in Bound' : g # f => Socket(g)' = Socket(g)
    BY <1>5 DEF Socket
  <2>. QED
    BY <1>3, <1>5, <2>1, <2>2, <2>3 DEF TableInv, OneContextPerSocket
<1>. QED
  BY <1>6, <1>7, <1>8, <1>9

LEMMA BindMulticastTable ==
  ASSUME TableInv,
         NEW ext_id \in FlowIds, NEW chans \in ChanLists,
         BindMulticast(ext_id, chans)
  PROVE  /\ BundlesOwnTheirGroup'
         /\ OneContextPerSocket'
         /\ OneContextPerFlowId'
         /\ GatewareMirrorsTable'
<1>1. PICK f \in MulticastTarget(ext_id) :
        /\ write_ctx(f, flow_ip[f], flow_ip[f], MediaPort, chans, g_mcast_fpp)
        /\ flows' = [flows EXCEPT ![f] =
                   [in_use |-> TRUE, peer |-> flows[f].peer, dst |-> flow_ip[f],
                    dmac |-> flows[f].dmac, dport |-> MediaPort,
                    nslots |-> Len(chans), fpp |-> g_mcast_fpp, mcast |-> TRUE,
                    ext_id |-> ext_id, chans |-> TableMap(chans),
                    last_ms |-> now]]
  BY DEF BindMulticast
<1>2. f \in Ctx
  BY MulticastTargetIsCtx
<1>3. /\ flows'[f].in_use /\ flows'[f].mcast /\ flows'[f].ext_id = ext_id
      /\ flows'[f].dst = flow_ip[f] /\ flows'[f].dport = MediaPort
      /\ flows'[f].nslots = Len(chans) /\ flows'[f].fpp = g_mcast_fpp
      /\ hw'[f].dst = flow_ip[f] /\ hw'[f].dmac = flow_ip[f]
      /\ hw'[f].dport = MediaPort
      /\ hw'[f].nslots = Len(chans) /\ hw'[f].fpp = g_mcast_fpp
  BY <1>1, <1>2 DEF TableInv, TypeOK, write_ctx
<1>4. \A g \in Ctx : g # f => flows'[g] = flows[g] /\ hw'[g] = hw[g]
  BY <1>1 DEF TableInv, TypeOK, write_ctx
<1>5. \A g \in Bound' : g # f => g \in Bound /\ flows'[g] = flows[g]
  BY <1>4 DEF Bound
<1>6. BundlesOwnTheirGroup'
  BY <1>3, <1>5 DEF TableInv, BundlesOwnTheirGroup
<1>7. OneContextPerFlowId'
  <2>1. \A g \in Bound : flows[g].mcast /\ flows[g].ext_id = ext_id => g = f
    BY MulticastTargetUnique
  <2>. QED
    BY <1>3, <1>5, <2>1 DEF TableInv, OneContextPerFlowId
<1>8. GatewareMirrorsTable'
  BY <1>3, <1>4 DEF TableInv, GatewareMirrorsTable
<1>9. OneContextPerSocket'
  <2>1. \A g \in Bound' : g # f => Socket(g)' = Socket(g)
    BY <1>5 DEF Socket
  <2>. QED
    BY <1>3, <1>5, <2>1 DEF TableInv, OneContextPerSocket
<1>. QED
  BY <1>6, <1>7, <1>8, <1>9

(* Steps that leave the table and the registers alone.                      *)
LEMMA SameTable ==
  ASSUME TableInv, UNCHANGED <<flows, hw>>
  PROVE  /\ BundlesOwnTheirGroup'
         /\ OneContextPerSocket'
         /\ OneContextPerFlowId'
         /\ GatewareMirrorsTable'
BY DEF TableInv, BundlesOwnTheirGroup, OneContextPerSocket, OneContextPerFlowId,
       GatewareMirrorsTable, Bound, Socket

LEMMA NextTable == TableInv /\ [Next]_vars => TableInv'
<1> SUFFICES ASSUME TableInv, [Next]_vars PROVE TableInv'
  OBVIOUS
<1>0. TypeOK'
  BY NextType DEF TableInv
<1>1. ASSUME NEW peer \in Hosts, NEW dst \in Hosts, NEW dport \in Ports,
             NEW chans \in ChanLists, NEW asked \in FppAsked,
             RequestFlow(peer, dst, dport, chans, asked)
      PROVE  TableInv'
  <2>1. GrantedFpp(asked) \in k_fpp_table
    BY <1>1, AcceptableFpp DEF RequestFlow, TableInv
  <2>. QED
    BY <1>0, <1>1, <2>1, BindUnicastTable DEF RequestFlow, TableInv
<1>2. ASSUME NEW ext_id \in FlowIds, NEW chans \in ChanLists,
             CreateMulticast(ext_id, chans)
      PROVE  TableInv'
  BY <1>0, <1>2, BindMulticastTable DEF CreateMulticast, TableInv
<1>3. ASSUME NEW ext_id \in FlowIds, DeleteFlow(ext_id)
      PROVE  TableInv'
  BY <1>0, <1>3, UnbindTable DEF DeleteFlow, TableInv
<1>4. ASSUME NEW v \in Latencies, SetLatency(v)
      PROVE  TableInv'
  BY <1>0, <1>4, UnbindTable, SameTable DEF SetLatency, DropAll, TableInv
<1>5. ASSUME NEW v \in Latencies, StatsLatency(v)
      PROVE  TableInv'
  BY <1>0, <1>5, SameTable DEF StatsLatency, TableInv
<1>6. ASSUME NEW v \in FppAsked, StatsMaxFpp(v)
      PROVE  TableInv'
  BY <1>0, <1>6, UnbindTable DEF StatsMaxFpp, DropAll, TableInv
<1>7. ASSUME NEW v \in FppAsked, StatsMcastFpp(v)
      PROVE  TableInv'
  BY <1>0, <1>7, SameTable DEF StatsMcastFpp, TableInv
<1>8. ASSUME NEW on \in BOOLEAN, StatsClamp(on)
      PROVE  TableInv'
  BY <1>0, <1>8, UnbindTable DEF StatsClamp, DropAll, TableInv
<1>9. CASE ReseedPhases
  <2>1. \A f \in Ctx :
          /\ hw'[f].dst = hw[f].dst
          /\ hw'[f].dmac = hw[f].dmac
          /\ hw'[f].dport = hw[f].dport
          /\ flows[f].in_use =>
               (hw'[f].nslots = flows[f].nslots /\ hw'[f].fpp = flows[f].fpp)
          /\ ~flows[f].in_use => hw'[f].nslots = hw[f].nslots
    <3> TAKE f \in Ctx
    <3>1. hw[f] \in Context
      BY DEF TableInv, TypeOK
    <3>2. CASE flows[f].in_use /\ flows[f].fpp # 0
      BY <1>9, <3>1, <3>2 DEF ReseedPhases, Context
    <3>3. CASE ~(flows[f].in_use /\ flows[f].fpp # 0)
      BY <1>9, <3>3 DEF ReseedPhases, TableInv, GatewareMirrorsTable
    <3>. QED
      BY <3>2, <3>3
  <2>2. GatewareMirrorsTable'
    <3>1. flows' = flows
      BY <1>9 DEF ReseedPhases
    <3>2. \A f \in Ctx : IF flows[f].in_use
                            THEN /\ hw'[f].dst = flows[f].dst
                                 /\ hw'[f].dmac = flows[f].dst
                                 /\ hw'[f].dport = flows[f].dport
                                 /\ hw'[f].nslots = flows[f].nslots
                                 /\ hw'[f].fpp = flows[f].fpp
                            ELSE hw'[f].nslots = 0
      <4> TAKE f \in Ctx
      <4>1. CASE flows[f].in_use
        BY <2>1, <4>1 DEF TableInv, GatewareMirrorsTable
      <4>2. CASE ~flows[f].in_use
        BY <2>1, <4>2 DEF TableInv, GatewareMirrorsTable
      <4>. QED
        BY <4>1, <4>2
    <3>. QED
      BY <3>1, <3>2 DEF GatewareMirrorsTable
  <2>3. BundlesOwnTheirGroup' /\ OneContextPerSocket' /\ OneContextPerFlowId'
    BY <1>9 DEF ReseedPhases, TableInv, BundlesOwnTheirGroup, OneContextPerSocket,
                OneContextPerFlowId, Bound, Socket
  <2>. QED
    BY <1>0, <2>2, <2>3 DEF TableInv
<1>10. CASE Tick
  BY <1>0, <1>10, SameTable DEF Tick, TableInv
<1>11. CASE UNCHANGED vars
  BY <1>0, <1>11, SameTable DEF vars, TableInv
<1>. QED
  BY <1>1, <1>2, <1>3, <1>4, <1>5, <1>6, <1>7, <1>8, <1>9, <1>10, <1>11 DEF Next

(* No keepalive, eviction, delete or drop ever leaves two contexts sending  *)
(* to one receiver socket, for any number of contexts and receivers.        *)
THEOREM SocketUnique == Spec => []OneContextPerSocket
<1>1. TableInv => OneContextPerSocket
  BY DEF TableInv
<1>. QED
  BY <1>1, InitTable, NextTable, PTL DEF Spec

(* No two bundles on the air carry the same Dante Controller handle.        *)
THEOREM FlowIdUnique == Spec => []OneContextPerFlowId
<1>1. TableInv => OneContextPerFlowId
  BY DEF TableInv
<1>. QED
  BY <1>1, InitTable, NextTable, PTL DEF Spec

(* Every bundle is addressed to its own context's group.                    *)
THEOREM BundleGroups == Spec => []BundlesOwnTheirGroup
<1>1. TableInv => BundlesOwnTheirGroup
  BY DEF TableInv
<1>. QED
  BY <1>1, InitTable, NextTable, PTL DEF Spec

(* The packetizer transmits exactly the bound flows, to the destination,    *)
(* port and MAC and in the packet format the table records.                 *)
THEOREM GatewareFaithful == Spec => []GatewareMirrorsTable
<1>1. TableInv => GatewareMirrorsTable
  BY DEF TableInv
<1>. QED
  BY <1>1, InitTable, NextTable, PTL DEF Spec

(* One context per flow, for any number of contexts, receivers and ids: the *)
(* three facts above together.                                              *)
THEOREM FlowUnique == Spec => []OneContextPerFlow
BY SocketUnique, FlowIdUnique, BundleGroups, PTL DEF OneContextPerFlow

-----------------------------------------------------------------------------
(* The payload of an acceptable request fills whole words: only packet size *)
(* 2 is not a multiple of 4, and there the slot count is even.              *)
LEMMA WholeWords ==
  ASSUME NEW n \in Nat, NEW fpp \in k_fpp_table, ~(fpp = 2 /\ n % 2 = 1)
  PROVE  (n * 3 * fpp) % 4 = 0
<1>1. CASE fpp = 2
  <2>1. n % 2 = 0
    BY <1>1
  <2>2. PICK k \in Nat : n = 2 * k
    BY <2>1
  <2>3. n * 3 * fpp = 4 * (3 * k)
    BY <1>1, <2>2
  <2>. QED
    BY <2>3
<1>2. CASE fpp # 2
  <2>1. PICK k \in Nat : fpp = 4 * k
    <3>1. fpp \in {4 * 1, 4 * 2, 4 * 4, 4 * 6, 4 * 8, 4 * 12, 4 * 15}
      BY <1>2 DEF k_fpp_table
    <3>. QED
      BY <3>1
  <2>2. n * 3 * fpp = 4 * (n * 3 * k)
    BY <2>1
  <2>3. n * 3 * k \in Nat
    BY <2>1
  <2>4. \A m \in Nat : (4 * m) % 4 = 0
    OBVIOUS
  <2>. QED
    BY <2>2, <2>3, <2>4
<1>. QED
  BY <1>1, <1>2

(* Steps after which every bound unicast flow was bound before, under the   *)
(* same limit.                                                              *)
LEMMA FewerFlows ==
  ASSUME UnicastWithinLimits, UNCHANGED g_fpp_max_accept,
         \A f \in Bound' : f \in Bound /\ flows'[f] = flows[f]
  PROVE  UnicastWithinLimits'
BY DEF UnicastWithinLimits

LEMMA UnbindFewer ==
  ASSUME TypeOK, NEW S, Unbind(S)
  PROVE  \A f \in Bound' : f \in Bound /\ f \notin S /\ flows'[f] = flows[f]
<1> SUFFICES ASSUME NEW f \in Ctx, flows'[f].in_use
             PROVE  f \in Bound /\ f \notin S /\ flows'[f] = flows[f]
  BY DEF Bound
<1>1. flows[f] \in FlowSlot
  BY DEF TypeOK
<1>2. f \notin S
  BY <1>1 DEF Unbind, FlowSlot
<1>. QED
  BY <1>2 DEF Unbind, Bound

LEMMA NextLimits == TypeOK /\ UnicastWithinLimits /\ [Next]_vars => UnicastWithinLimits'
<1> SUFFICES ASSUME TypeOK, UnicastWithinLimits, [Next]_vars PROVE UnicastWithinLimits'
  OBVIOUS
<1>1. ASSUME NEW peer \in Hosts, NEW dst \in Hosts, NEW dport \in Ports,
             NEW chans \in ChanLists, NEW asked \in FppAsked,
             RequestFlow(peer, dst, dport, chans, asked)
      PROVE  UnicastWithinLimits'
  <2> DEFINE fpp == GrantedFpp(asked)
  <2>1. /\ fpp \in k_fpp_table /\ fpp <= g_fpp_max_accept
        /\ Len(chans) \in Nat /\ ~(fpp = 2 /\ Len(chans) % 2 = 1)
    BY <1>1, AcceptableFpp, ChanMapType DEF RequestFlow
  <2>2. (Len(chans) * 3 * fpp) % 4 = 0
    BY <2>1, WholeWords
  <2>3. PICK f \in Ctx :
          flows' = [flows EXCEPT ![f] =
                   [in_use |-> TRUE, peer |-> peer, dst |-> dst, dmac |-> dst,
                    dport |-> dport, nslots |-> Len(chans), fpp |-> fpp,
                    mcast |-> FALSE, ext_id |-> flows[f].ext_id,
                    chans |-> TableMap(chans), last_ms |-> now]]
    BY <1>1, UnicastTargetIsCtx DEF RequestFlow, BindUnicast
  <2>4. /\ flows'[f].nslots = Len(chans) /\ flows'[f].fpp = fpp
        /\ \A g \in Ctx : g # f => flows'[g] = flows[g]
    BY <2>3 DEF TypeOK
  <2>5. g_fpp_max_accept' = g_fpp_max_accept
    BY <1>1 DEF RequestFlow, policy
  <2>. QED
    BY <2>1, <2>2, <2>4, <2>5 DEF UnicastWithinLimits, Bound
<1>2. ASSUME NEW ext_id \in FlowIds, NEW chans \in ChanLists,
             CreateMulticast(ext_id, chans)
      PROVE  UnicastWithinLimits'
  <2>1. PICK f \in Ctx :
          flows' = [flows EXCEPT ![f] =
                   [in_use |-> TRUE, peer |-> flows[f].peer, dst |-> flow_ip[f],
                    dmac |-> flows[f].dmac, dport |-> MediaPort,
                    nslots |-> Len(chans), fpp |-> g_mcast_fpp, mcast |-> TRUE,
                    ext_id |-> ext_id, chans |-> TableMap(chans),
                    last_ms |-> now]]
    BY <1>2, MulticastTargetIsCtx DEF CreateMulticast, BindMulticast
  <2>2. flows'[f].mcast /\ \A g \in Ctx : g # f => flows'[g] = flows[g]
    BY <2>1 DEF TypeOK
  <2>3. g_fpp_max_accept' = g_fpp_max_accept
    BY <1>2 DEF CreateMulticast, policy
  <2>. QED
    BY <2>2, <2>3 DEF UnicastWithinLimits, Bound
<1>3. ASSUME NEW ext_id \in FlowIds, DeleteFlow(ext_id)
      PROVE  UnicastWithinLimits'
  BY <1>3, UnbindFewer, FewerFlows DEF DeleteFlow, policy
<1>4. ASSUME NEW v \in Latencies, SetLatency(v)
      PROVE  UnicastWithinLimits'
  BY <1>4, UnbindFewer, FewerFlows DEF SetLatency, DropAll, Bound
<1>5. ASSUME NEW v \in FppAsked, StatsMaxFpp(v)
      PROVE  UnicastWithinLimits'
  <2>1. Bound' = {}
    BY <1>5, UnbindFewer DEF StatsMaxFpp, DropAll
  <2>. QED
    BY <2>1 DEF UnicastWithinLimits
<1>6. ASSUME NEW on \in BOOLEAN, StatsClamp(on)
      PROVE  UnicastWithinLimits'
  BY <1>6, UnbindFewer, FewerFlows DEF StatsClamp, DropAll
<1>7. ASSUME UNCHANGED <<flows, g_fpp_max_accept>>
      PROVE  UnicastWithinLimits'
  BY <1>7, FewerFlows DEF Bound
<1>8. ASSUME NEW v, StatsLatency(v) \/ StatsMcastFpp(v) \/ ReseedPhases \/ Tick \/ UNCHANGED vars
      PROVE  UnicastWithinLimits'
  BY <1>7, <1>8 DEF StatsLatency, StatsMcastFpp, ReseedPhases, Tick, vars, policy
<1>. QED
  BY <1>1, <1>2, <1>3, <1>4, <1>5, <1>6, <1>8 DEF Next

(* No unicast flow outlives the acceptance limit it was granted under, and  *)
(* every payload is a whole number of words, whatever is asked in whatever  *)
(* order.                                                                   *)
THEOREM LimitsKept == Spec => []UnicastWithinLimits
<1>1. Init => UnicastWithinLimits
  BY DEF Init, UnicastWithinLimits, Bound
<1>. QED
  BY <1>1, NextLimits, TypeCorrect, PTL DEF Spec

(* Everything the table and the registers hold fits, in the fields and in   *)
(* the limits: the two facts above together.                                *)
THEOREM FlowsAlwaysFit == Spec => []FlowsFit
BY TypeCorrect, LimitsKept, PTL DEF FlowsFit

-----------------------------------------------------------------------------
(* The keys of the abstract registry.                                       *)
SocketKey(peer, dst, dport) == <<FALSE, <<peer, dst, dport>>>>
BundleKey(ext_id)           == <<TRUE, <<ext_id>>>>

(* A receiver's flow that a request finds by its socket is unicast: no      *)
(* bundle is addressed to a host.                                           *)
LEMMA MatchIsUnicast ==
  ASSUME TableInv, NEW peer \in Hosts, NEW dst \in Hosts, NEW dport,
         NEW f \in Matching(peer, dst, dport)
  PROVE  /\ f \in Bound /\ ~flows[f].mcast
         /\ Socket(f) = <<peer, dst, dport>>
         /\ Serves(f) = SocketKey(peer, dst, dport)
<1>1. f \in Bound /\ Socket(f) = <<peer, dst, dport>> /\ flows[f].dst \in Hosts
  BY DEF Matching, Bound, Socket
<1>2. flow_ip[f] \notin Hosts
  BY <1>1, FlowTableAssumption DEF Bound, Groups
<1>3. ~flows[f].mcast
  BY <1>1, <1>2 DEF TableInv, BundlesOwnTheirGroup
<1>4. flows[f].mcast = FALSE
  BY <1>1, <1>3 DEF TableInv, TypeOK, FlowSlot, Bound
<1>. QED
  BY <1>1, <1>3, <1>4 DEF Serves, SocketKey

(* What a request's bind does to the table, seen by what contexts serve.    *)
LEMMA BindUnicastServes ==
  ASSUME TableInv,
         NEW peer \in Hosts, NEW dst \in Hosts, NEW dport \in Ports,
         NEW chans \in ChanLists, NEW fpp \in k_fpp_table,
         BindUnicast(peer, dst, dport, chans, fpp)
  PROVE  \E t \in UnicastTarget(peer, dst, dport) :
           /\ t \in Ctx
           /\ flows'[t].in_use
           /\ Serves(t)' = SocketKey(peer, dst, dport)
           /\ flows'[t].chans = TableMap(chans) /\ flows'[t].fpp = fpp
           /\ \A g \in Ctx : g # t => flows'[g] = flows[g]
<1>1. PICK t \in UnicastTarget(peer, dst, dport) :
        flows' = [flows EXCEPT ![t] =
                   [in_use |-> TRUE, peer |-> peer, dst |-> dst, dmac |-> dst,
                    dport |-> dport, nslots |-> Len(chans), fpp |-> fpp,
                    mcast |-> FALSE, ext_id |-> flows[t].ext_id,
                    chans |-> TableMap(chans), last_ms |-> now]]
  BY DEF BindUnicast
<1>2. t \in Ctx
  BY UnicastTargetIsCtx
<1>3. /\ flows'[t].in_use /\ flows'[t].mcast = FALSE
      /\ flows'[t].peer = peer /\ flows'[t].dst = dst /\ flows'[t].dport = dport
      /\ flows'[t].chans = TableMap(chans) /\ flows'[t].fpp = fpp
      /\ \A g \in Ctx : g # t => flows'[g] = flows[g]
  BY <1>1, <1>2 DEF TableInv, TypeOK
<1>4. Serves(t)' = SocketKey(peer, dst, dport)
  BY <1>3 DEF Serves, Socket, SocketKey
<1>. QED
  BY <1>2, <1>3, <1>4

LEMMA BindMulticastServes ==
  ASSUME TableInv, NEW ext_id \in FlowIds, NEW chans \in ChanLists,
         BindMulticast(ext_id, chans)
  PROVE  \E t \in MulticastTarget(ext_id) :
           /\ t \in Ctx
           /\ flows'[t].in_use /\ flows'[t].mcast
           /\ Serves(t)' = BundleKey(ext_id)
           /\ flows'[t].chans = TableMap(chans) /\ flows'[t].fpp = g_mcast_fpp
           /\ \A g \in Ctx : g # t => flows'[g] = flows[g]
<1>1. PICK t \in MulticastTarget(ext_id) :
        flows' = [flows EXCEPT ![t] =
                   [in_use |-> TRUE, peer |-> flows[t].peer, dst |-> flow_ip[t],
                    dmac |-> flows[t].dmac, dport |-> MediaPort,
                    nslots |-> Len(chans), fpp |-> g_mcast_fpp, mcast |-> TRUE,
                    ext_id |-> ext_id, chans |-> TableMap(chans),
                    last_ms |-> now]]
  BY DEF BindMulticast
<1>2. t \in Ctx
  BY MulticastTargetIsCtx
<1>3. /\ flows'[t].in_use /\ flows'[t].mcast = TRUE /\ flows'[t].ext_id = ext_id
      /\ flows'[t].chans = TableMap(chans) /\ flows'[t].fpp = g_mcast_fpp
      /\ \A g \in Ctx : g # t => flows'[g] = flows[g]
  BY <1>1, <1>2 DEF TableInv, TypeOK
<1>4. Serves(t)' = BundleKey(ext_id)
  BY <1>3 DEF Serves, BundleKey
<1>. QED
  BY <1>2, <1>3, <1>4

(* The action of UnicastBindSparesMulticast.                                *)
SparesMulticast ==
  \A f \in Bound :
    (flows'[f].in_use /\ ~flows'[f].mcast /\ Serves(f)' # Serves(f)) =>
      \A g \in Ctx : ~flows[g].mcast => ~flows[f].mcast /\ Age(g) <= Age(f)

(* A context whose entry is unchanged or unbound gives nothing up.          *)
LEMMA KeptOrReleased ==
  ASSUME \A f \in Bound : flows'[f].in_use /\ ~flows'[f].mcast => flows'[f] = flows[f]
  PROVE  SparesMulticast
BY DEF SparesMulticast, Serves, Socket

LEMMA StepSparesMulticast == TableInv /\ [Next]_vars => SparesMulticast
<1> SUFFICES ASSUME TableInv, [Next]_vars PROVE SparesMulticast
  OBVIOUS
<1>0. TypeOK
  BY DEF TableInv
<1>1. ASSUME NEW peer \in Hosts, NEW dst \in Hosts, NEW dport \in Ports,
             NEW chans \in ChanLists, NEW asked \in FppAsked,
             RequestFlow(peer, dst, dport, chans, asked)
      PROVE  SparesMulticast
  <2> DEFINE m == Matching(peer, dst, dport)
             age == [f \in Ctx |-> Age(f)]
  <2>0. /\ GrantedFpp(asked) \in k_fpp_table
        /\ BindUnicast(peer, dst, dport, chans, GrantedFpp(asked))
    BY <1>0, <1>1, AcceptableFpp DEF RequestFlow
  <2>1. PICK t \in UnicastTarget(peer, dst, dport) :
          /\ t \in Ctx
          /\ Serves(t)' = SocketKey(peer, dst, dport)
          /\ \A g \in Ctx : g # t => flows'[g] = flows[g]
    BY <2>0, BindUnicastServes
  <2> SUFFICES ASSUME NEW f \in Bound, Serves(f)' # Serves(f),
                      NEW g \in Ctx, ~flows[g].mcast
               PROVE  ~flows[f].mcast /\ Age(g) <= Age(f)
    BY DEF SparesMulticast
  <2>2. f = t
    BY <2>1 DEF Bound, Serves, Socket
  <2>3. m = {}
    <3> SUFFICES ASSUME m # {} PROVE FALSE
      OBVIOUS
    <3>1. t \in m
      BY <2>1 DEF UnicastTarget, First
    <3>. QED
      BY <2>1, <2>2, <3>1, MatchIsUnicast
  <2>4. Free = {}
    BY <2>1, <2>2, <2>3 DEF UnicastTarget, First, Free, Bound
  <2>5. g \in Unicast
    BY DEF Unicast
  <2>6. t \in Stalest(Unicast, age)
    BY <2>1, <2>3, <2>4, <2>5 DEF UnicastTarget
  <2>7. t \in Unicast /\ (age[g] < age[t] \/ (age[g] = age[t] /\ g <= t))
    BY <2>5, <2>6 DEF Stalest
  <2>8. Age(g) \in Int /\ Age(t) \in Int
    <3>1. now \in Int /\ flows[g].last_ms \in Int /\ flows[t].last_ms \in Int
      BY <1>0, <2>1 DEF TypeOK, FlowSlot
    <3>. QED
      BY <3>1, FlowTableAssumption DEF Age
  <2>. QED
    BY <2>1, <2>2, <2>7, <2>8 DEF Unicast
<1>2. ASSUME NEW ext_id \in FlowIds, NEW chans \in ChanLists,
             CreateMulticast(ext_id, chans)
      PROVE  SparesMulticast
  <2>1. PICK t \in Ctx :
          flows'[t].mcast /\ \A g \in Ctx : g # t => flows'[g] = flows[g]
    BY <1>2, BindMulticastServes DEF CreateMulticast
  <2>. QED
    BY <2>1, KeptOrReleased DEF Bound
<1>3. ASSUME NEW S, Unbind(S)
      PROVE  SparesMulticast
  BY <1>0, <1>3, UnbindFewer, KeptOrReleased DEF Bound
<1>4. ASSUME NEW ext_id \in FlowIds, DeleteFlow(ext_id)
      PROVE  SparesMulticast
  BY <1>3, <1>4 DEF DeleteFlow
<1>5. ASSUME flows' = flows
      PROVE  SparesMulticast
  BY <1>5, KeptOrReleased
<1>6. ASSUME NEW v \in Latencies, SetLatency(v)
      PROVE  SparesMulticast
  BY <1>3, <1>5, <1>6 DEF SetLatency, DropAll
<1>7. ASSUME NEW v, StatsMaxFpp(v) \/ StatsClamp(v)
      PROVE  SparesMulticast
  BY <1>3, <1>7 DEF StatsMaxFpp, StatsClamp, DropAll
<1>8. ASSUME NEW v, StatsLatency(v) \/ StatsMcastFpp(v) \/ ReseedPhases \/ Tick \/ UNCHANGED vars
      PROVE  SparesMulticast
  BY <1>5, <1>8 DEF StatsLatency, StatsMcastFpp, ReseedPhases, Tick, vars
<1>. QED
  BY <1>1, <1>2, <1>4, <1>6, <1>7, <1>8 DEF Next

(* No receiver's request evicts a multicast bundle while a unicast context  *)
(* exists, and the unicast context it evicts is the longest without a       *)
(* keepalive, for any number of contexts and any width of the clock.        *)
THEOREM MulticastSpared == Spec => UnicastBindSparesMulticast
<1>1. TableInv /\ [Next]_vars => [SparesMulticast]_vars
  BY StepSparesMulticast
<1>. QED
  BY <1>1, InitTable, NextTable, PTL DEF Spec, UnicastBindSparesMulticast, SparesMulticast

-----------------------------------------------------------------------------
(* The flow on the air in context f, as the registry sees it.               *)
Entry(f) == [key |-> Serves(f), chans |-> flows[f].chans, fpp |-> flows[f].fpp]

LEMMA OnAirEntries == OnAir = {Entry(f) : f \in Bound} /\ OnAir' = {Entry(f)' : f \in Bound'}
BY DEF OnAir, Entry

(* No two bound contexts serve the same key.                                *)
LEMMA KeysDiffer ==
  ASSUME TableInv, NEW f \in Bound, NEW g \in Bound, Serves(f) = Serves(g)
  PROVE  f = g
<1>1. flows[f] \in FlowSlot /\ flows[g] \in FlowSlot
  BY DEF TableInv, TypeOK, Bound
<1>2. flows[f].mcast = flows[g].mcast
  BY DEF Serves
<1>3. CASE flows[f].mcast
  <2>1. flows[f].ext_id = flows[g].ext_id
    BY <1>2, <1>3 DEF Serves
  <2>. QED
    BY <1>2, <1>3, <2>1 DEF TableInv, OneContextPerFlowId
<1>4. CASE ~flows[f].mcast
  <2>1. Socket(f) = Socket(g)
    BY <1>2, <1>4 DEF Serves
  <2>. QED
    BY <1>2, <1>4, <2>1 DEF TableInv, OneContextPerSocket
<1>. QED
  BY <1>3, <1>4

LEMMA EntriesDiffer ==
  ASSUME TableInv, NEW f \in Bound, NEW g \in Bound, Entry(f) = Entry(g)
  PROVE  f = g
<1>1. Serves(f) = Serves(g)
  BY DEF Entry
<1>. QED
  BY <1>1, KeysDiffer

(* The registry has as many entries as there are bound contexts.            *)
LEMMA OnAirSize ==
  ASSUME TableInv
  PROVE  /\ Free # {} => Cardinality(OnAir) < NFlows
         /\ Free = {} => Cardinality(OnAir) = NFlows
<1>1. IsFiniteSet(Ctx) /\ Cardinality(Ctx) = NFlows
  <2>1. NFlows - 1 \in Int /\ ~(0 > NFlows - 1) /\ (NFlows - 1) - 0 + 1 = NFlows
    BY FlowTableAssumption
  <2>. QED
    BY <2>1, FS_Interval DEF Ctx
<1>2. Bound \in SUBSET Ctx
  BY DEF Bound
<1>3. /\ IsFiniteSet(Bound) /\ Cardinality(Bound) <= NFlows
      /\ Cardinality(Bound) = NFlows => Bound = Ctx
  BY <1>1, <1>2, FS_Subset
<1>4. Cardinality(OnAir) = Cardinality(Bound)
  <2> DEFINE e == [f \in Bound |-> Entry(f)]
  <2>1. e \in Bijection(Bound, OnAir)
    <3>1. e \in [Bound -> OnAir]
      BY OnAirEntries
    <3>2. \A f, g \in Bound : e[f] = e[g] => f = g
      BY EntriesDiffer
    <3>3. \A x \in OnAir : \E f \in Bound : e[f] = x
      BY OnAirEntries
    <3> HIDE DEF e
    <3>. QED
      BY <3>1, <3>2, <3>3 DEF Bijection, Injection, Surjection, IsInjective
  <2>2. ExistsBijection(Bound, OnAir)
    BY <2>1 DEF ExistsBijection
  <2>. QED
    BY <1>3, <2>2, FS_Bijection
<1>5. Cardinality(Bound) \in Nat
  BY <1>3, FS_CardinalityType
<1>6. Free = {} <=> Bound = Ctx
  BY DEF Free, Bound
<1>. QED
  BY <1>1, <1>3, <1>4, <1>5, <1>6, FlowTableAssumption

DistinctKeys == \A f, g \in Bound : Serves(f) = Serves(g) => f = g

LEMMA KeysAlwaysDiffer == TableInv => DistinctKeys
BY KeysDiffer DEF DistinctKeys

LEMMA KeysStillDiffer == TableInv' => DistinctKeys'
BY KeysAlwaysDiffer, PTL

(* The registry counts its entries as this module does.                     *)
LEMMA SameCount == Registry!Cardinality(OnAir) = Cardinality(OnAir)
BY DEF Registry!Cardinality, Cardinality

(* A bind of context t is a refresh, an admission or an eviction of the     *)
(* registry, according to what t was before.                                *)
LEMMA BindImplements ==
  ASSUME TableInv, TableInv', NEW t \in Ctx, flows'[t].in_use,
         \A g \in Ctx : g # t => flows'[g] = flows[g],
         t \in Bound /\ Serves(t)' # Serves(t) => Free = {}
  PROVE  Registry!Next
<1> DEFINE others == {Entry(g) : g \in Bound \ {t}}
           e == Entry(t)'
<1>1. \A g \in Bound \ {t} : g \in Bound' /\ Entry(g)' = Entry(g) /\ Serves(g)' = Serves(g)
  BY DEF Bound, Entry, Serves, Socket
<1>2. t \in Bound' /\ e.key = Serves(t)'
  BY DEF Bound, Entry
<1>3. Bound' = (Bound \ {t}) \cup {t}
  BY <1>1, <1>2 DEF Bound
<1>4. OnAir' = others \cup {e}
  BY <1>1, <1>3, OnAirEntries
<1>5. \A g \in Bound \ {t} : Serves(g) # e.key
  <2> SUFFICES ASSUME NEW g \in Bound \ {t}, Serves(g) = e.key PROVE FALSE
    OBVIOUS
  <2>1. g \in Bound' /\ t \in Bound' /\ Serves(g)' = Serves(t)'
    BY <1>1, <1>2
  <2>2. g = t
    BY <2>1, KeysStillDiffer DEF DistinctKeys
  <2>. QED
    BY <2>2
<1>6. \A x \in OnAir : x.key = e.key => t \in Bound /\ x = Entry(t)
  BY <1>5, OnAirEntries DEF Entry
<1>7. CASE t \notin Bound
  <2>1. OnAir = others
    BY <1>7, OnAirEntries
  <2>2. e.key \notin Registry!Keys(OnAir)
    BY <1>6, <1>7 DEF Registry!Keys
  <2>3. Cardinality(OnAir) < NFlows
    <3>1. Free # {}
      BY <1>7 DEF Free, Bound
    <3>. QED
      BY <3>1, OnAirSize
  <2>4. OnAir' = OnAir \cup {e} /\ e \in OnAir'
    BY <1>4, <2>1
  <2>5. Registry!Admit
    BY <2>2, <2>3, <2>4, SameCount DEF Registry!Admit
  <2>. QED
    BY <2>5 DEF Registry!Next
<1>8. CASE t \in Bound /\ Serves(t)' = Serves(t)
  <2>1. Entry(t) \in OnAir /\ Entry(t).key = e.key
    BY <1>2, <1>8, OnAirEntries DEF Entry
  <2>2. {x \in OnAir : x.key # e.key} = others
    BY <1>5, <2>1, OnAirEntries DEF Entry
  <2>3. e.key \in Registry!Keys(OnAir)
    BY <2>1 DEF Registry!Keys
  <2>4. e \in OnAir' /\ OnAir' = {x \in OnAir : x.key # e.key} \cup {e}
    BY <1>4, <2>2
  <2>5. Registry!Refresh
    BY <2>3, <2>4 DEF Registry!Refresh
  <2>. QED
    BY <2>5 DEF Registry!Next
<1>9. CASE t \in Bound /\ Serves(t)' # Serves(t)
  <2>1. Entry(t) \in OnAir /\ Entry(t).key # e.key
    BY <1>2, <1>9, OnAirEntries DEF Entry
  <2>2. e.key \notin Registry!Keys(OnAir)
    BY <1>6, <2>1 DEF Registry!Keys
  <2>3. Cardinality(OnAir) = NFlows
    BY <1>9, OnAirSize
  <2>4. OnAir \ {Entry(t)} = others
    BY <1>9, EntriesDiffer, OnAirEntries
  <2>5. e \in OnAir' /\ OnAir' = (OnAir \ {Entry(t)}) \cup {e}
    BY <1>4, <2>4
  <2>6. Registry!Evict
    BY <2>1, <2>2, <2>3, <2>5, SameCount DEF Registry!Evict
  <2>. QED
    BY <2>6 DEF Registry!Next
<1>. QED
  BY <1>7, <1>8, <1>9

LEMMA RequestImplements ==
  ASSUME TableInv, TableInv',
         NEW peer \in Hosts, NEW dst \in Hosts, NEW dport \in Ports,
         NEW chans \in ChanLists, NEW asked \in FppAsked,
         RequestFlow(peer, dst, dport, chans, asked)
  PROVE  Registry!Next
<1>1. /\ GrantedFpp(asked) \in k_fpp_table
      /\ BindUnicast(peer, dst, dport, chans, GrantedFpp(asked))
  BY AcceptableFpp DEF RequestFlow, TableInv
<1>2. PICK t \in UnicastTarget(peer, dst, dport) :
        /\ t \in Ctx /\ flows'[t].in_use
        /\ Serves(t)' = SocketKey(peer, dst, dport)
        /\ \A g \in Ctx : g # t => flows'[g] = flows[g]
  BY <1>1, BindUnicastServes
<1>3. ASSUME t \in Bound, Serves(t)' # Serves(t)
      PROVE  Free = {}
  <2>1. t \notin Matching(peer, dst, dport)
    BY <1>2, <1>3, MatchIsUnicast
  <2>2. t \notin Free
    BY <1>3 DEF Bound, Free
  <2>. QED
    BY <1>2, <2>1, <2>2 DEF UnicastTarget, First
<1>. QED
  BY <1>2, <1>3, BindImplements

LEMMA CreateImplements ==
  ASSUME TableInv, TableInv', NEW ext_id \in FlowIds, NEW chans \in ChanLists,
         CreateMulticast(ext_id, chans)
  PROVE  Registry!Next
<1>1. PICK t \in MulticastTarget(ext_id) :
        /\ t \in Ctx /\ flows'[t].in_use
        /\ Serves(t)' = BundleKey(ext_id)
        /\ \A g \in Ctx : g # t => flows'[g] = flows[g]
  BY BindMulticastServes DEF CreateMulticast
<1>2. ASSUME t \in Bound, Serves(t)' # Serves(t)
      PROVE  Free = {}
  <2>1. t \notin ServingId(ext_id)
    <3> SUFFICES ASSUME t \in ServingId(ext_id) PROVE FALSE
      OBVIOUS
    <3>1. flows[t].mcast = TRUE /\ flows[t].ext_id = ext_id
      BY <1>1 DEF ServingId, TableInv, TypeOK, FlowSlot
    <3>2. Serves(t) = BundleKey(ext_id)
      BY <3>1 DEF Serves, BundleKey
    <3>. QED
      BY <1>1, <1>2, <3>2
  <2>2. t \notin Free
    BY <1>2 DEF Bound, Free
  <2>. QED
    BY <1>1, <2>1, <2>2 DEF MulticastTarget, First
<1>. QED
  BY <1>1, <1>2, BindImplements

(* A delete releases one entry.                                             *)
LEMMA DeleteImplements ==
  ASSUME TableInv, NEW ext_id \in FlowIds, DeleteFlow(ext_id)
  PROVE  Registry!Next
<1> DEFINE C == {f \in Ctx : flows[f].in_use /\ flows[f].ext_id = ext_id}
<1>1. PICK t \in First(C) : TRUE
  BY DEF DeleteFlow, dante_tx_ctx_for_id
<1>2. t \in Bound /\ t \in Ctx
  BY DEF First, Bound
<1>3. First(C) = {t}
  <2> SUFFICES ASSUME NEW f \in First(C) PROVE f = t
    BY <1>1
  <2>1. f <= t /\ t <= f /\ f \in Int /\ t \in Int
    BY FlowTableAssumption DEF First, Ctx
  <2>. QED
    BY <2>1
<1>4. Unbind({t})
  BY <1>3 DEF DeleteFlow, dante_tx_ctx_for_id
<1>5. \A g \in Ctx : g # t => flows'[g] = flows[g]
  BY <1>4 DEF Unbind
<1>6. Bound' = Bound \ {t}
  <2>1. \A f \in Bound' : f \in Bound /\ f # t
    BY <1>4, UnbindFewer DEF TableInv
  <2>2. \A f \in Bound \ {t} : f \in Bound'
    BY <1>5 DEF Bound
  <2>. QED
    BY <2>1, <2>2
<1>7. \A g \in Bound \ {t} : Entry(g)' = Entry(g)
  BY <1>5 DEF Bound, Entry, Serves, Socket
<1>8. OnAir' = OnAir \ {Entry(t)}
  BY <1>2, <1>6, <1>7, EntriesDiffer, OnAirEntries
<1>9. Entry(t) \in OnAir
  BY <1>2, OnAirEntries
<1>. QED
  BY <1>8, <1>9 DEF Registry!Next, Registry!Release

(* Dropping every flow empties the registry.                                *)
LEMMA DropAllImplements ==
  ASSUME TableInv, DropAll
  PROVE  Registry!Next
<1>1. Bound' = {}
  BY UnbindFewer DEF DropAll, TableInv
<1>2. OnAir' = {}
  BY <1>1, OnAirEntries
<1>. QED
  BY <1>2 DEF Registry!Next, Registry!Release

LEMMA StepImplements == TableInv /\ TableInv' /\ [Next]_vars => [Registry!Next]_OnAir
<1> SUFFICES ASSUME TableInv, TableInv', [Next]_vars
             PROVE  Registry!Next \/ UNCHANGED OnAir
  OBVIOUS
<1>1. ASSUME NEW peer \in Hosts, NEW dst \in Hosts, NEW dport \in Ports,
             NEW chans \in ChanLists, NEW asked \in FppAsked,
             RequestFlow(peer, dst, dport, chans, asked)
      PROVE  Registry!Next
  BY <1>1, RequestImplements
<1>2. ASSUME NEW ext_id \in FlowIds, NEW chans \in ChanLists,
             CreateMulticast(ext_id, chans)
      PROVE  Registry!Next
  BY <1>2, CreateImplements
<1>3. ASSUME NEW ext_id \in FlowIds, DeleteFlow(ext_id)
      PROVE  Registry!Next
  BY <1>3, DeleteImplements
<1>4. ASSUME flows' = flows
      PROVE  UNCHANGED OnAir
  BY <1>4 DEF OnAir, Bound, Serves, Socket
<1>5. ASSUME NEW v \in Latencies, SetLatency(v)
      PROVE  Registry!Next \/ UNCHANGED OnAir
  BY <1>4, <1>5, DropAllImplements DEF SetLatency
<1>6. ASSUME NEW v, StatsMaxFpp(v) \/ StatsClamp(v)
      PROVE  Registry!Next
  BY <1>6, DropAllImplements DEF StatsMaxFpp, StatsClamp
<1>7. ASSUME NEW v, StatsLatency(v) \/ StatsMcastFpp(v) \/ ReseedPhases \/ Tick \/ UNCHANGED vars
      PROVE  UNCHANGED OnAir
  BY <1>4, <1>7 DEF StatsLatency, StatsMcastFpp, ReseedPhases, Tick, vars
<1>. QED
  BY <1>1, <1>2, <1>3, <1>5, <1>6, <1>7 DEF Next

(* The flow table implements the registry of one entry per key, for any     *)
(* number of contexts: a keepalive refreshes its own flow, a new flow takes *)
(* a bound context only when none is free, and then exactly one.            *)
THEOREM TableImplementsRegistry == Spec => ImplementsRegistry
<1>1. Init => Registry!Init
  BY DEF Init, Registry!Init, OnAir, Bound
<1>. QED
  BY <1>1, InitTable, NextTable, StepImplements, PTL DEF Spec, ImplementsRegistry, Registry!Spec

-----------------------------------------------------------------------------
(* The responder: a composition that leaves the flow table's behaviour as   *)
(* it was.                                                                  *)
LEMMA DiscoveryStepIsTableStep == [DiscoveryNext]_<<vars, dvars>> => [Next]_vars
<1> SUFFICES ASSUME [DiscoveryNext]_<<vars, dvars>> PROVE [Next]_vars
  OBVIOUS
<1>1. CASE FlowStep
  BY <1>1 DEF FlowStep, Next
<1>2. ASSUME NEW ext_id \in FlowIds, NEW chans \in ChanLists, CreateBundle(ext_id, chans)
      PROVE  [Next]_vars
  BY <1>2 DEF CreateBundle, Next
<1>3. ASSUME NEW v \in Latencies, ChangeLatency(v)
      PROVE  [Next]_vars
  BY <1>3 DEF ChangeLatency, Next
<1>4. ASSUME NEW x, StatsAutoRaise(x) \/ dante_tx_poll \/ mdns_poll(x) \/ mdns_rx(x)
      PROVE  [Next]_vars
  BY <1>4 DEF StatsAutoRaise, dante_tx_poll, mdns_poll, mdns_rx
<1>. QED
  BY <1>1, <1>2, <1>3, <1>4 DEF DiscoveryNext

(* Everything proved of the table holds with the responder beside it.       *)
THEOREM DiscoveryRunsTable == DiscoverySpec => Spec
<1>1. DiscoveryInit => Init
  BY DEF DiscoveryInit
<1>. QED
  BY <1>1, DiscoveryStepIsTableStep, PTL DEF DiscoverySpec, Spec

(* LatencyRepublished is not inductive: a change of the latency that is     *)
(* undone would leave a record sent in between unaccounted for.  What is    *)
(* kept is that a record says what the last poll saw, or is still to be     *)
(* sent, or was sent between a change and its poll.                         *)
MdnsFields ==
  mdns = [left |-> mdns.left, resweep |-> mdns.resweep, start |-> mdns.start,
          last_eff |-> mdns.last_eff, autoraise |-> mdns.autoraise]

LatencyKnown == \A c \in Chans : pub[c].lat = mdns.last_eff \/ Due(c) \/ c \in raced

SweepInv == MdnsFields /\ mdns.resweep \in 0..NChannels /\ LatencyKnown /\ BundleAdvertised

(* A sweep that starts covers every channel.                                *)
LEMMA AnnounceSweeps ==
  ASSUME MdnsFields, NEW m, mdns_announce(m),
         \/ m = mdns
         \/ \E on : m = [mdns EXCEPT !.autoraise = on]
         \/ \E eff : m = [mdns EXCEPT !.last_eff = eff]
  PROVE  SweepInv'
<1>1. m = [left |-> m.left, resweep |-> m.resweep, start |-> m.start,
           last_eff |-> m.last_eff, autoraise |-> m.autoraise]
  <2>1. CASE m = mdns
    BY <2>1 DEF MdnsFields
  <2>2. ASSUME NEW on, m = [mdns EXCEPT !.autoraise = on]
        PROVE  m = [left |-> m.left, resweep |-> m.resweep, start |-> m.start,
                    last_eff |-> m.last_eff, autoraise |-> m.autoraise]
    BY <2>2 DEF MdnsFields
  <2>3. ASSUME NEW eff, m = [mdns EXCEPT !.last_eff = eff]
        PROVE  m = [left |-> m.left, resweep |-> m.resweep, start |-> m.start,
                    last_eff |-> m.last_eff, autoraise |-> m.autoraise]
    BY <2>3 DEF MdnsFields
  <2>. QED
    BY <2>1, <2>2, <2>3
<1>2. MdnsFields' /\ mdns'.resweep = NChannels
  BY <1>1 DEF MdnsFields, mdns_announce, Announced
<1>3. \A c \in Chans : Due(c)'
  BY <1>2, FlowTableAssumption DEF Due, Chans
<1>. QED
  BY <1>2, <1>3, FlowTableAssumption DEF SweepInv, LatencyKnown, BundleAdvertised

(* Channels that no bundle carried are carried by none after a request, a   *)
(* delete or a drop: only a create adds to a bundle.                        *)
LEMMA NoNewBundle ==
  ASSUME \A f \in Bound' : flows'[f].mcast => f \in Bound /\ flows'[f] = flows[f],
         NEW c, dante_tx_chan_bundle(c)'
  PROVE  dante_tx_chan_bundle(c)
BY DEF dante_tx_chan_bundle

LEMMA FlowStepNoNewBundle ==
  ASSUME TableInv, FlowStep
  PROVE  \A f \in Bound' : flows'[f].mcast => f \in Bound /\ flows'[f] = flows[f]
<1>0. TypeOK
  BY DEF TableInv
<1> DEFINE P == \A f \in Bound' : flows'[f].mcast => f \in Bound /\ flows'[f] = flows[f]
<1>1. ASSUME NEW peer \in Hosts, NEW dst \in Hosts, NEW dport \in Ports,
             NEW chans \in ChanLists, NEW asked \in FppAsked,
             RequestFlow(peer, dst, dport, chans, asked)
      PROVE  P
  <2>1. PICK t \in Ctx :
          flows' = [flows EXCEPT ![t] =
                   [in_use |-> TRUE, peer |-> peer, dst |-> dst, dmac |-> dst,
                    dport |-> dport, nslots |-> Len(chans), fpp |-> GrantedFpp(asked),
                    mcast |-> FALSE, ext_id |-> flows[t].ext_id,
                    chans |-> TableMap(chans), last_ms |-> now]]
    BY <1>1, UnicastTargetIsCtx DEF RequestFlow, BindUnicast
  <2>2. ~flows'[t].mcast /\ \A g \in Ctx : g # t => flows'[g] = flows[g]
    BY <1>0, <2>1 DEF TypeOK
  <2>. QED
    BY <2>2 DEF Bound
<1>2. ASSUME NEW S, Unbind(S)
      PROVE  P
  BY <1>0, <1>2, UnbindFewer
<1>3. ASSUME flows' = flows
      PROVE  P
  BY <1>3 DEF Bound
<1>4. ASSUME NEW x, DeleteFlow(x) \/ StatsMaxFpp(x) \/ StatsClamp(x)
      PROVE  P
  BY <1>2, <1>4 DEF DeleteFlow, StatsMaxFpp, StatsClamp, DropAll
<1>5. ASSUME NEW x, StatsMcastFpp(x) \/ ReseedPhases \/ Tick
      PROVE  P
  BY <1>3, <1>5 DEF StatsMcastFpp, ReseedPhases, Tick
<1> HIDE DEF P
<1>6. P
  BY <1>1, <1>4, <1>5 DEF FlowStep
<1>. QED
  BY <1>6 DEF P

(* Records sent carry what holds now; the sweep moves past a record only    *)
(* when it has been sent.                                                   *)
LEMMA PublishSweep ==
  ASSUME SweepInv, NEW S, Publish(S), UNCHANGED vars, MdnsFields',
         mdns'.last_eff = mdns.last_eff, mdns'.resweep \in 0..NChannels,
         mdns'.autoraise = mdns.autoraise,
         \A c \in Chans : Due(c) => Due(c)' \/ c \in S
  PROVE  SweepInv'
<1> DEFINE eff == dante_tx_latency_effective
<1>1. \A c \in Chans : pub'[c] = IF c \in S THEN Record(c) ELSE pub[c]
  BY DEF Publish
<1>2. \A c : Record(c).lat = eff /\ (Record(c).bundle <=> dante_tx_chan_bundle(c))
  BY DEF Record
<1>3. \A c \in Chans : dante_tx_chan_bundle(c)' <=> dante_tx_chan_bundle(c)
  BY DEF dante_tx_chan_bundle, Bound, vars
<1>4. LatencyKnown'
  <2> SUFFICES ASSUME NEW c \in Chans
               PROVE  pub'[c].lat = mdns'.last_eff \/ Due(c)' \/ c \in raced'
    BY DEF LatencyKnown
  <2>1. CASE c \in S
    <3>1. pub'[c].lat = eff
      BY <1>1, <1>2, <2>1
    <3>. QED
      BY <2>1, <3>1 DEF Publish
  <2>2. CASE c \notin S
    <3>1. pub'[c] = pub[c] /\ (c \in raced => c \in raced')
      BY <1>1, <2>2 DEF Publish
    <3>. QED
      BY <2>2, <3>1 DEF SweepInv, LatencyKnown
  <2>. QED
    BY <2>1, <2>2
<1>5. BundleAdvertised'
  <2> SUFFICES ASSUME NEW c \in Chans, dante_tx_chan_bundle(c)'
               PROVE  pub'[c].bundle \/ Due(c)'
    BY DEF BundleAdvertised
  <2>1. CASE c \in S
    BY <1>1, <1>2, <1>3, <2>1
  <2>2. CASE c \notin S
    BY <1>1, <1>3, <2>2 DEF SweepInv, BundleAdvertised
  <2>. QED
    BY <2>1, <2>2
<1>. QED
  BY <1>4, <1>5 DEF SweepInv

LEMMA NextSweep ==
  TableInv /\ SweepInv /\ [DiscoveryNext]_<<vars, dvars>> => SweepInv'
<1> SUFFICES ASSUME TableInv, SweepInv, [DiscoveryNext]_<<vars, dvars>> PROVE SweepInv'
  OBVIOUS
<1>0. MdnsFields
  BY DEF SweepInv
<1>1. CASE FlowStep
  <2>1. \A c \in Chans : dante_tx_chan_bundle(c)' => dante_tx_chan_bundle(c)
    BY <1>1, FlowStepNoNewBundle, NoNewBundle
  <2>2. UNCHANGED <<mdns, pub, raced>>
    BY <1>1 DEF FlowStep, dvars
  <2>. QED
    BY <2>1, <2>2 DEF SweepInv, MdnsFields, LatencyKnown, BundleAdvertised, Due
<1>2. ASSUME NEW ext_id \in FlowIds, NEW chans \in ChanLists, CreateBundle(ext_id, chans)
      PROVE  SweepInv'
  BY <1>0, <1>2, AnnounceSweeps DEF CreateBundle
<1>3. ASSUME NEW v \in Latencies, ChangeLatency(v)
      PROVE  SweepInv'
  BY <1>0, <1>3, AnnounceSweeps DEF ChangeLatency
<1>4. ASSUME NEW on \in AutoRaise, StatsAutoRaise(on)
      PROVE  SweepInv'
  BY <1>0, <1>4, AnnounceSweeps DEF StatsAutoRaise
<1>5. CASE dante_tx_poll
  BY <1>0, <1>5, AnnounceSweeps DEF dante_tx_poll
<1>6. ASSUME NEW passed \in BOOLEAN, mdns_poll(passed)
      PROVE  SweepInv'
  <2> DEFINE S == IF mdns.resweep > 0 THEN {NChannels - mdns.resweep + 1} ELSE {}
  <2>1. Publish(S) /\ UNCHANGED vars
    BY <1>6 DEF mdns_poll
  <2>2. /\ MdnsFields' /\ mdns'.last_eff = mdns.last_eff /\ mdns'.autoraise = mdns.autoraise
        /\ mdns'.resweep = IF mdns.resweep > 0 THEN mdns.resweep - 1 ELSE 0
    BY <1>0, <1>6 DEF mdns_poll, MdnsFields
  <2>3. mdns.resweep \in 0..NChannels /\ NChannels \in Nat
    BY FlowTableAssumption DEF SweepInv
  <2>4. mdns'.resweep \in 0..NChannels
    BY <2>2, <2>3
  <2>5. \A c \in Chans : Due(c) => Due(c)' \/ c \in S
    BY <2>2, <2>3 DEF Due, Chans
  <2> HIDE DEF S
  <2>. QED
    BY <2>1, <2>2, <2>4, <2>5, PublishSweep
<1>7. ASSUME NEW q, mdns_rx(q)
      PROVE  SweepInv'
  <2>1. PICK kinds, want : send_response(kinds, want)
    BY <1>7 DEF mdns_rx
  <2>2. PICK S : Publish(S)
    BY <2>1 DEF send_response
  <2>3. UNCHANGED vars
    BY <1>7 DEF mdns_rx
  <2>4. /\ MdnsFields' /\ mdns'.last_eff = mdns.last_eff /\ mdns'.resweep = mdns.resweep
        /\ mdns'.autoraise = mdns.autoraise
    BY <1>0, <2>1 DEF send_response, MdnsFields
  <2>5. mdns'.resweep \in 0..NChannels /\ \A c \in Chans : Due(c) => Due(c)'
    BY <2>4 DEF Due, SweepInv
  <2>. QED
    BY <2>2, <2>3, <2>4, <2>5, PublishSweep
<1>8. CASE UNCHANGED <<vars, dvars>>
  BY <1>8 DEF vars, dvars, SweepInv, MdnsFields, LatencyKnown, BundleAdvertised, Due,
              dante_tx_chan_bundle, Bound
<1>. QED
  BY <1>1, <1>2, <1>3, <1>4, <1>5, <1>6, <1>7, <1>8 DEF DiscoveryNext

LEMMA InitSweep == DiscoveryInit => SweepInv
<1> SUFFICES ASSUME DiscoveryInit PROVE SweepInv
  OBVIOUS
<1>1. MdnsFields /\ mdns.resweep = NChannels
  BY DEF DiscoveryInit, MdnsFields
<1>2. \A c \in Chans : Due(c)
  BY <1>1, FlowTableAssumption DEF Due, Chans
<1>. QED
  BY <1>1, <1>2, FlowTableAssumption DEF SweepInv, LatencyKnown, BundleAdvertised

LEMMA SweepAlways == DiscoverySpec => []SweepInv
<1>1. DiscoveryInit => TableInv
  BY InitTable DEF DiscoveryInit
<1>2. TableInv /\ [DiscoveryNext]_<<vars, dvars>> => TableInv'
  BY DiscoveryStepIsTableStep, NextTable
<1>. QED
  BY <1>1, <1>2, InitSweep, NextSweep, PTL DEF DiscoverySpec

(* A channel record whose latency is out of date is still to be sent, or    *)
(* the next poll will see the change, whatever flows come and go.           *)
THEOREM LatencyReachesReceivers == DiscoverySpec => []LatencyRepublished
<1>1. SweepInv => LatencyRepublished
  BY DEF SweepInv, LatencyKnown, LatencyRepublished
<1>. QED
  BY <1>1, SweepAlways, PTL

(* Every channel of a bundle on the air is advertised with it, or its       *)
(* record is still to be sent.                                              *)
THEOREM BundlesReachReceivers == DiscoverySpec => []BundleAdvertised
<1>1. SweepInv => BundleAdvertised
  BY DEF SweepInv
<1>. QED
  BY <1>1, SweepAlways, PTL
=============================================================================
