------------------------------ MODULE McrDante ------------------------------
(***************************************************************************)
(* The Dante media clock, firmware/mcr_dante.c: once a second it slews the *)
(* NCO towards the rate the PTP servo has learnt, gives up when the ring   *)
(* keeps starving, and remembers the converged rate in flash for the next  *)
(* boot.  The PTP servo appears as its lock and its rate estimate, and by  *)
(* the addend it saves through the same configuration.                     *)
(***************************************************************************)
EXTENDS ConfigFlash

CONSTANTS
  SLEW_PPB, MAX_PPB, RATE_READY_PPB, NV_SAVE_DELTA_PPB,
  LSB,             \* ppb of one unit of the NCO increment
  NV_SAVE,         \* polls between two saves
  TRIP_STREAK,     \* polls of partial underrun before the clock gives up
  SETPOINT_SETTLE, \* polls after an anchor before the phase term acts
  Rates,           \* rate estimates of the PTP servo
  PhaseTerms,      \* outputs of the phase loop
  Addends          \* converged addends the PTP servo may save

(* What the two saved parameters can be.                                    *)
AddendVals == Addends \cup {None}
PpbVals    == (-MAX_PPB..MAX_PPB) \cup {None}

(* Erased flash is told apart from every value and every checksum.          *)
ASSUME McrAssumption ==
  /\ SLEW_PPB \in Nat \ {0} /\ MAX_PPB \in Nat \ {0} /\ RATE_READY_PPB \in Nat
  /\ NV_SAVE_DELTA_PPB \in Nat /\ LSB \in Nat \ {0} /\ NV_SAVE \in Nat
  /\ TRIP_STREAK \in Nat \ {0} /\ SETPOINT_SETTLE \in Nat
  /\ Rates \subseteq Int /\ PhaseTerms \subseteq Int
  /\ None \notin Int
  /\ Erased \notin AddendVals \cup PpbVals
  /\ \A a \in AddendVals \cup {Erased}, p \in PpbVals \cup {Erased} :
       Erased # cfg_crc(CFG_MAGIC, a, p)

VARIABLES
  locked, rate_ppb,  \* g_ptpv1
  enabled,
  applied_ppb,       \* what the NCO is set to
  target_ppb,
  last_written_inc,  \* cache of the last increment written
  nco,               \* the NCO's increment register, relative to base_inc
  trip_streak,
  phase_enabled, setpoint_valid,
  setpoint_wait,     \* polls until the setpoint is armed
  nv_wait,           \* polls until a further save is allowed
  anchored,          \* g_tx_stats.anchors # seen_anchors
  converged,         \* history: rates the slew has reached under lock
  steady             \* history: lock and rate no longer change

mcr  == <<enabled, applied_ppb, target_ppb, last_written_inc, nco, trip_streak,
          phase_enabled, setpoint_valid, setpoint_wait, nv_wait>>
vars == <<config, mcr, locked, rate_ppb, anchored, converged, steady>>

Clamp(v, lim) == IF v > lim THEN lim ELSE IF v < -lim THEN -lim ELSE v
Abs(v) == IF v < 0 THEN -v ELSE v

(* The increment for a rate, relative to base_inc: C division truncates.    *)
inc_for_ppb(ppb) == IF ppb < 0 THEN -((-ppb) \div LSB) ELSE ppb \div LSB

(* The firmware runs only while no save blocks it.                          *)
Running == saving = Idle
NoSave  == UNCHANGED config
-----------------------------------------------------------------------------
(* mcr_dante_init: a warm start applies the saved rate and arms the clock.  *)
mcr_dante_init(c) ==
  LET warm == c.mclk_ppb # None /\ Abs(c.mclk_ppb) < MAX_PPB
      ppb  == IF warm THEN c.mclk_ppb ELSE 0
  IN  /\ enabled' = warm /\ applied_ppb' = ppb /\ target_ppb' = 0
      /\ nco' = inc_for_ppb(ppb) /\ last_written_inc' = inc_for_ppb(ppb)
      /\ trip_streak' = 0 /\ phase_enabled' = FALSE
      /\ setpoint_valid' = FALSE /\ setpoint_wait' = 0 /\ nv_wait' = NV_SAVE

(* Power fails, at any moment of a save too, and the board boots.           *)
PowerCycle ==
  /\ ~steady
  /\ g_cfg' = cfg_load(flash) /\ saving' = Idle /\ stored' = cfg_load(flash)
  /\ mcr_dante_init(cfg_load(flash))
  /\ locked' = FALSE /\ rate_ppb' \in Rates /\ anchored' = FALSE
  /\ UNCHANGED <<flash, converged, steady>>

(* The escape hatch: a step back to nominal.                                *)
Disable ==
  /\ enabled' = FALSE /\ applied_ppb' = 0
  /\ nco' = 0 /\ last_written_inc' = 0

Enable ==
  /\ enabled' = TRUE
  /\ nco' = inc_for_ppb(applied_ppb) /\ last_written_inc' = inc_for_ppb(applied_ppb)
  /\ UNCHANGED applied_ppb

mcr_dante_set_enabled(on) ==
  /\ Running /\ ~steady
  /\ IF on THEN Enable ELSE Disable
  /\ NoSave
  /\ UNCHANGED <<target_ppb, trip_streak, phase_enabled, setpoint_valid, setpoint_wait,
                 nv_wait, locked, rate_ppb, anchored, converged, steady>>

mcr_dante_set_phase_enabled(on) ==
  /\ Running /\ ~steady
  /\ phase_enabled' = on
  /\ NoSave
  /\ UNCHANGED <<enabled, applied_ppb, target_ppb, last_written_inc, nco, trip_streak,
                 setpoint_valid, setpoint_wait, nv_wait, locked, rate_ppb, anchored,
                 converged, steady>>

-----------------------------------------------------------------------------
(* The phase loop's setpoint: dropped at an anchor, valid again when the    *)
(* drift has settled and audio is sent (talker).                            *)
Setpoint(talker) ==
  LET wait == IF anchored THEN SETPOINT_SETTLE ELSE setpoint_wait
      held == setpoint_valid /\ ~anchored
  IN  /\ anchored' = FALSE
      /\ setpoint_wait' = IF wait > 0 THEN wait - 1 ELSE 0
      /\ setpoint_valid' = (held \/ (talker /\ locked /\ wait = 0))

(* phase_ppb, from the loop's output for this second (0 for an outlier).    *)
PhasePpb(term) == IF phase_enabled /\ setpoint_valid' /\ locked THEN term ELSE 0

(* Mutant: the applied rate advances only with the NCO's increment. *)
SlewedByIncrement(target) ==
  LET d == Clamp(target - applied_ppb, SLEW_PPB)
  IN  IF inc_for_ppb(applied_ppb + d) = inc_for_ppb(applied_ppb)
        THEN applied_ppb ELSE applied_ppb + d

(* Mutant: no slew limit. *)
SlewedWhole(target) == target

(* At most SLEW_PPB towards the target.                                     *)
Slewed(target) == applied_ppb + Clamp(target - applied_ppb, SLEW_PPB)

(* Mutant: the rate is saved before the slew has arrived. *)
SaveDueEarly(ppb, target) == g_cfg.mclk_ppb = None \/ nv_wait = 0

(* The converged rate is due for a save.                                    *)
SaveDue(ppb, target) == ppb = target /\ (g_cfg.mclk_ppb = None \/ nv_wait = 0)

NvTime == nv_wait' = IF nv_wait > 0 THEN nv_wait - 1 ELSE 0

Persist(ppb, target) ==
  IF SaveDue(ppb, target)
    THEN /\ nv_wait' = NV_SAVE
         /\ IF g_cfg.mclk_ppb = None \/ Abs(g_cfg.mclk_ppb - ppb) > NV_SAVE_DELTA_PPB
              THEN cfg_save([g_cfg EXCEPT !.mclk_ppb = ppb])
              ELSE NoSave
    ELSE NvTime /\ NoSave

(* Mutant: the dry run slews as well. *)
DisciplineDryRun(target) ==
  IF ~locked
    THEN UNCHANGED <<applied_ppb, last_written_inc, nco, converged>> /\ NvTime /\ NoSave
    ELSE LET ppb == Slewed(target) IN
         /\ applied_ppb' = ppb
         /\ IF enabled
              THEN /\ nco' = inc_for_ppb(ppb) /\ last_written_inc' = inc_for_ppb(ppb)
                   /\ converged' = IF ppb = target THEN converged \cup {ppb} ELSE converged
                   /\ Persist(ppb, target)
              ELSE UNCHANGED <<last_written_inc, nco, converged>> /\ NvTime /\ NoSave

(* What the poll does with the target: hold when unlocked, stay nominal     *)
(* when disabled, else slew, write the NCO if its increment changes, and    *)
(* save a converged rate.                                                   *)
Discipline(target) ==
  IF ~locked
    THEN UNCHANGED <<applied_ppb, last_written_inc, nco, converged>> /\ NvTime /\ NoSave
  ELSE IF ~enabled
    THEN applied_ppb' = 0 /\ UNCHANGED <<last_written_inc, nco, converged>> /\ NvTime /\ NoSave
  ELSE LET ppb == Slewed(target)
           inc == inc_for_ppb(ppb)
       IN  /\ applied_ppb' = ppb
           /\ last_written_inc' = inc
           /\ nco' = IF inc # last_written_inc THEN inc ELSE nco
           /\ converged' = IF ppb = target THEN converged \cup {ppb} ELSE converged
           /\ Persist(ppb, target)

(* mcr_dante_poll, once a second: partial is the ring's underrun in the     *)
(* trip band, talker whether audio is sent, term the phase loop's output.   *)
mcr_dante_poll(partial, talker, term) ==
  LET streak == IF enabled /\ partial THEN trip_streak + 1 ELSE 0
      target == Clamp(rate_ppb + PhasePpb(term), MAX_PPB)
  IN  /\ Running /\ (steady => ~partial /\ term = 0)
      /\ IF streak >= TRIP_STREAK
           THEN /\ trip_streak' = 0 /\ Disable
                /\ NvTime /\ NoSave
                /\ setpoint_wait' = IF setpoint_wait > 0 THEN setpoint_wait - 1 ELSE 0
                /\ UNCHANGED <<target_ppb, setpoint_valid, anchored, converged>>
           ELSE /\ trip_streak' = streak
                /\ Setpoint(talker)
                /\ target_ppb' = target
                /\ Discipline(target)
                /\ UNCHANGED enabled
      /\ UNCHANGED <<phase_enabled, locked, rate_ppb, steady>>

mcr_dante_rate_ready ==
  ~enabled \/ (locked /\ Abs(target_ppb - applied_ppb) < RATE_READY_PPB)

-----------------------------------------------------------------------------
(* The PTP servo: a lock edge saves a changed addend, the estimate moves,   *)
(* the talker anchors the media clock.                                      *)
PtpLock(addend) ==
  /\ Running /\ ~locked /\ locked' = TRUE
  /\ IF g_cfg.ptp_addend # addend
       THEN cfg_save([g_cfg EXCEPT !.ptp_addend = addend]) ELSE NoSave
  /\ UNCHANGED <<mcr, rate_ppb, anchored, converged, steady>>

PtpUnlock ==
  /\ Running /\ ~steady /\ locked /\ locked' = FALSE
  /\ NoSave
  /\ UNCHANGED <<mcr, rate_ppb, anchored, converged, steady>>

RateMoves ==
  /\ Running /\ ~steady /\ locked /\ rate_ppb' \in Rates
  /\ NoSave
  /\ UNCHANGED <<mcr, locked, anchored, converged, steady>>

Anchor ==
  /\ Running /\ ~steady /\ locked /\ anchored' = TRUE
  /\ NoSave
  /\ UNCHANGED <<mcr, locked, rate_ppb, converged, steady>>

FlashStep ==
  /\ Erase \/ Program
  /\ UNCHANGED <<mcr, locked, rate_ppb, anchored, converged, steady>>

BecomesSteady ==
  /\ steady' = TRUE
  /\ UNCHANGED <<config, mcr, locked, rate_ppb, anchored, converged>>

-----------------------------------------------------------------------------
Init ==
  /\ ConfigInit
  /\ locked = FALSE /\ rate_ppb \in Rates
  /\ enabled = FALSE /\ applied_ppb = 0 /\ target_ppb = 0
  /\ last_written_inc = 0 /\ nco = 0 /\ trip_streak = 0
  /\ phase_enabled = FALSE /\ setpoint_valid = FALSE /\ setpoint_wait = 0
  /\ nv_wait = NV_SAVE
  /\ anchored = FALSE /\ converged = {} /\ steady = FALSE

AnyPoll == \E partial, talker \in BOOLEAN, term \in PhaseTerms :
             mcr_dante_poll(partial, talker, term)
AnyLock == \E addend \in Addends : PtpLock(addend)

Next ==
  \/ AnyPoll \/ AnyLock
  \/ \E on \in BOOLEAN : mcr_dante_set_enabled(on) \/ mcr_dante_set_phase_enabled(on)
  \/ PtpUnlock \/ RateMoves \/ Anchor
  \/ FlashStep \/ PowerCycle \/ BecomesSteady

(* The loop polls, flash operations end, and the servo locks.               *)
Spec == /\ Init /\ [][Next]_vars
        /\ WF_vars(AnyPoll) /\ WF_vars(AnyLock) /\ SF_vars(FlashStep)
-----------------------------------------------------------------------------
(* The type invariant.                                                      *)
TypeOK ==
  /\ saving \in 0..5
  /\ locked \in BOOLEAN /\ rate_ppb \in Rates
  /\ enabled \in BOOLEAN /\ applied_ppb \in -MAX_PPB..MAX_PPB
  /\ target_ppb \in -MAX_PPB..MAX_PPB
  /\ last_written_inc \in Int /\ nco \in Int
  /\ trip_streak \in 0..(TRIP_STREAK - 1)
  /\ phase_enabled \in BOOLEAN /\ setpoint_valid \in BOOLEAN
  /\ setpoint_wait \in 0..SETPOINT_SETTLE /\ nv_wait \in 0..NV_SAVE
  /\ anchored \in BOOLEAN /\ steady \in BOOLEAN

(* "applied_ppb must always describe WHAT THE NCO IS ACTUALLY SET TO":      *)
(* through warm starts, trips, operators and skipped register writes.       *)
AppliedIsNco == nco = inc_for_ppb(applied_ppb)

(* The NCO never jumps: between two boots it moves by one slew step at most *)
(* unless it is put back to nominal.                                        *)
NcoSlews ==
  [][(nco' # nco /\ nco' # 0 /\ ~PowerCycle) =>
       Abs(nco' - nco) <= SLEW_PPB \div LSB + 1]_vars

(* "The saved rate is one this board already converged on": whatever power  *)
(* loss does to the flash, a warm start uses a rate reached under lock.     *)
RestoresConverged == g_cfg.mclk_ppb = None \/ g_cfg.mclk_ppb \in converged

(* With lock and rate steady the slew arrives and the talker's rate gate    *)
(* opens for good, though a slew step is smaller than the NCO can express.  *)
RateConverges == <>steady => <>[]mcr_dante_rate_ready

(* Flash, memory and registers stay in range, and cfg_load finds a whole    *)
(* configuration or none.                                                   *)
StoreSound == TypeOK /\ ConfigWhole
=============================================================================
