\* A listener more than the table of a talker stream has slots.
SPECIFICATION Spec
CONSTANTS
  Uids = {0}
  Luids = {0}
  CrfLuid = 0
  MaxPerTalker = 1
  CtrlSlots = 1
  Remotes = {e1, e2}
  Inputs = {1}
  RemoteTalkers = {t1, t2}
  Controllers = {c1, c2}
  Nobody = Nobody
  ResolveTimeout = 1
  Stall = 2
  Retry = 3
  MaxTries = 1
  MaxCommands = 3
  SeqWrap = 2
  MaxSeq = 4
CHECK_DEADLOCK FALSE
INVARIANT AnyKeepsStreaming
