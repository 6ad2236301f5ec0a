\* One leader; up to four stale timestamps at start.
SPECIFICATION Spec
CONSTANTS
  Masters = {1}
  RingDepth = 4
  NSlots = 2
  ResyncLimit = 2
  DrainBudget = 2
  MaxCommits = 5
  MaxSync = 2
  MaxReq = 2
CHECK_DEADLOCK FALSE
INVARIANTS RingSound OwnTimestamp PairsOneSync DelaySampleOwn
