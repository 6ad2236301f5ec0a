\* One context and one receiver; every packet-size and slot-count boundary,
\* latency changes, and a latency that follows the flows.
SPECIFICATION DiscoverySpec
CONSTANTS
  NFlows = 1
  MaxSlots = 2
  NChannels = 2
  Hosts <- OneHost
  h1 = h1
  g0 = g0
  Ports = {11}
  MediaPort = 10
  flow_ip <- MCFlowIp
  NoAddr = NoAddr
  FlowIds = {1}
  ChanLists <- EdgeLists
  FppAsked = {0, 2, 16}
  Latencies = {250000, 500000}
  TimeWrap = 1
  AgeClamp = 1
  PtrBatch = 1
  Patience = 1
  Announces = 1
  MaxQuestions = 2
  Asked = {2}
  AutoRaise = {TRUE, FALSE}
INVARIANTS FlowsFit LatencyRepublished BundleAdvertised
