\* A flow request may name any receiver, and nobody answers its sender.
SPECIFICATION Spec
CONSTANTS
  Peers = {p1, p2, p3}
  Macs = {m1, m2}
  None = None
  ARP_CACHE_N = 2
  ETHMAC_TX_SLOTS = 2
  CapReplies = 2
  RevertTicks = 2
  Wrap = 6
  ArmTimes = {4}
SYMMETRY Symmetry
INVARIANT EveryRequestAnswered
