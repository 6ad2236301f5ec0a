\* Two talkers, two listener slots and two registrar entries for three streams.
SPECIFICATION SrpSpec
CONSTANTS
  t1 = t1
  t2 = t2
  Talkers <- TwoTalkers
  Remote = {r1, r2, r3}
  Macs = {bridge, peer}
  NoMac = NoMac
  Listeners = 2
  RemoteSlots = 2
  JoinPeriod = 2
  LeaveAllPeriod = 3
  MaxEvents = 3
CHECK_DEADLOCK FALSE
INVARIANTS TablesSound TalkersStayRegistered
PROPERTIES OldestEvicted
SYMMETRY StreamsAndMacs
