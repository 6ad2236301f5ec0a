\* Two contexts, two receivers with two ports, two bundle ids: every bind
\* path, eviction included, with ages that wrap.
SPECIFICATION Spec
CONSTANTS
  NFlows = 2
  MaxSlots = 2
  NChannels = 2
  Hosts <- TwoHosts
  h1 = h1
  h2 = h2
  g0 = g0
  g1 = g1
  Ports = {11}
  MediaPort = 10
  flow_ip <- MCFlowIp
  NoAddr = NoAddr
  FlowIds = {1, 2}
  ChanLists <- ShortLists
  FppAsked = {16}
  Latencies = {0, 1}
  TimeWrap = 4
  AgeClamp = 2
SYMMETRY Receivers
INVARIANTS OneContextPerFlow GatewareMirrorsTable
PROPERTIES ImplementsRegistry UnicastBindSparesMulticast
