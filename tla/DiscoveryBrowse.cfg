\* Only browses: 48 channels, of which 24 fit one response.
SPECIFICATION DiscoverySpec
CONSTANTS
  NFlows = 1
  MaxSlots = 1
  NChannels = 48
  Hosts <- NoHost
  h1 = h1
  g0 = g0
  Ports = {11}
  MediaPort = 10
  flow_ip <- MCFlowIp
  NoAddr = NoAddr
  FlowIds = {}
  ChanLists <- NoLists
  FppAsked = {}
  Latencies = {1000000}
  TimeWrap = 1
  AgeClamp = 1
  PtrBatch = 24
  Patience = 8
  Announces = 3
  MaxQuestions = 1
  Asked = {}
  AutoRaise = {FALSE}
INVARIANT EveryChannelListed
