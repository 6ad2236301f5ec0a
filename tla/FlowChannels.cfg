\* A re-anchor after two binds with different channels.
SPECIFICATION Spec
CONSTANTS
  NFlows = 2
  MaxSlots = 2
  NChannels = 2
  Hosts <- OneHost
  h1 = h1
  h2 = h2
  g0 = g0
  g1 = g1
  Ports = {11, 12}
  MediaPort = 10
  flow_ip <- MCFlowIp
  NoAddr = NoAddr
  FlowIds = {1}
  ChanLists <- PairLists
  FppAsked = {16}
  Latencies = {0}
  TimeWrap = 1
  AgeClamp = 1
INVARIANT GatewareCarriesBoundChannels
