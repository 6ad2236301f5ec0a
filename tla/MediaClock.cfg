\* The servo and the talker gate over a rough network that becomes calm,
\* over more than one wrap of the millisecond counter.
SPECIFICATION Spec
CONSTANTS
  LOCK_STREAK = 2
  UNLOCK_STREAK = 2
  PD_MIN_SAMPLES = 2
  MEDIAN_N = 3
  ACQ_WINDOW = 1
  GRACE = 2
  Bands <- SomeBands
  Backlog = 1
  PTP_SETTLE = 1
  PHASE_SETTLE_MAX = 2
  UptimeWrap = 3
INVARIANTS LockMeansReady OnTimeline
PROPERTIES SettledLock PhaseFinal AudioStarts
