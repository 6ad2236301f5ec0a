\* The media clock and its flash copy, with power loss at any moment.
SPECIFICATION Spec
CONSTANTS
  None = None
  Erased = Erased
  CFG_MAGIC = CFG_MAGIC
  SLEW_PPB = 2
  MAX_PPB = 8
  RATE_READY_PPB = 5
  NV_SAVE_DELTA_PPB = 4
  LSB = 5
  NV_SAVE = 1
  TRIP_STREAK = 2
  SETPOINT_SETTLE = 1
  Rates <- MCRates
  PhaseTerms <- MCPhaseTerms
  Addends = {a1}
INVARIANTS StoreSound AppliedIsNco RestoresConverged
PROPERTIES NcoSlews RateConverges ImplementsStore
