------------------------------ MODULE PtpServo ------------------------------
(***************************************************************************)
(* The PTPv1 slave's servo, firmware/ptpv1.c: what every resolved Sync     *)
(* pair (servo_update) and every accepted Delay_Resp do to the lock and    *)
(* acquisition state.  Rates are left out; an offset is abstracted to the  *)
(* band it falls into, signed, which is all the control flow tells apart   *)
(* and which the median filter, an order statistic, commutes with:         *)
(*                                                                         *)
(*   0  below LOCK_THRESHOLD_NS          3  "wild", up to SERVO_STEP_NS    *)
(*   1  up to UNLOCK_THRESHOLD_NS        4  beyond SERVO_STEP_NS           *)
(*   2  up to 4 * UNLOCK_THRESHOLD_NS                                      *)
(*                                                                         *)
(* step_count is only ever compared with the talker's copy of it, so the   *)
(* model keeps the outcome of that comparison, stepped.                    *)
(***************************************************************************)
EXTENDS Integers, Sequences, FiniteSets

CONSTANTS
  LOCK_STREAK,     \* good samples in a row needed to lock
  UNLOCK_STREAK,   \* bad samples in a row needed to unlock
  PD_MIN_SAMPLES,  \* path-delay measurements before the estimate is trusted
  MEDIAN_N,        \* the median filter's largest window
  ACQ_WINDOW,      \* ticks of the frequency-acquisition window
  GRACE,           \* ticks without a path delay before locking anyway
  Bands            \* the offset bands that occur (a subset of -4..4)

ASSUME PtpServoAssumption ==
  /\ LOCK_STREAK \in Nat \ {0} /\ UNLOCK_STREAK \in Nat \ {0}
  /\ PD_MIN_SAMPLES \in Nat \ {0} /\ MEDIAN_N \in Nat \ {0}
  /\ ACQ_WINDOW \in Nat \ {0} /\ GRACE \in Nat \ {0}
  /\ Bands \subseteq -4..4

VARIABLES
  locked, lock_streak, unlock_streak,
  acq_active,      \* measuring the crystal; the servo is held off
  acq_have_base,
  acq_age,         \* ticks since the window's base (up to ACQ_WINDOW)
  pd_samples, pd_step_done,
  delay_nonzero,   \* mean_path_delay_ns # 0
  phase_settled,
  rt_median_n,     \* the filter's window
  median_buf,      \* offsets since the filter was last emptied, oldest first
  waited,          \* ticks since the first Sync, up to GRACE; -1 before it
  stepped,         \* step_count differs from the talker's seen_steps
  moved            \* history: the TSU's time was moved since the last anchor

servo == <<locked, lock_streak, unlock_streak, acq_active, acq_have_base, acq_age,
           pd_samples, pd_step_done, delay_nonzero, phase_settled, rt_median_n, median_buf,
           waited, stepped, moved>>

Mag(band)  == IF band < 0 THEN -band ELSE band
Wild(band) == Mag(band) = 3
Upto(n, cap) == IF n < cap THEN n ELSE cap

(* median_of: tmp[count / 2] of the buffer sorted.                          *)
Median(buf) ==
  CHOOSE v \in {buf[i] : i \in DOMAIN buf} :
    /\ Cardinality({i \in DOMAIN buf : buf[i] < v}) <= Len(buf) \div 2
    /\ Cardinality({i \in DOMAIN buf : buf[i] <= v}) > Len(buf) \div 2

Push(buf, v) == Append(IF Len(buf) < rt_median_n THEN buf ELSE Tail(buf), v)

DelayKnown == pd_samples >= PD_MIN_SAMPLES \/ waited = GRACE

SyncSeen == waited' = IF waited < 0 THEN 0 ELSE waited

(* Mutant: a time jump leaves the phase marked final. *)
StepTimeKeepsPhase ==
  /\ stepped' = TRUE /\ moved' = TRUE
  /\ acq_active' = TRUE /\ acq_have_base' = FALSE /\ acq_age' = 0
  /\ lock_streak' = 0 /\ locked' = FALSE
  /\ median_buf' = <<>>
  /\ UNCHANGED <<unlock_streak, pd_samples, pd_step_done, delay_nonzero, phase_settled>>

(* Mutant: a time jump leaves the servo locked. *)
StepTimeKeepsLock ==
  /\ stepped' = TRUE /\ moved' = TRUE
  /\ phase_settled' = FALSE
  /\ acq_active' = TRUE /\ acq_have_base' = FALSE /\ acq_age' = 0
  /\ lock_streak' = 0
  /\ median_buf' = <<>>
  /\ UNCHANGED <<locked, unlock_streak, pd_samples, pd_step_done, delay_nonzero>>

(* A time jump: the TSU is set to the master's time and the frequency is    *)
(* measured afresh.                                                         *)
StepTime ==
  /\ stepped' = TRUE /\ moved' = TRUE
  /\ phase_settled' = FALSE
  /\ acq_active' = TRUE /\ acq_have_base' = FALSE /\ acq_age' = 0
  /\ lock_streak' = 0 /\ locked' = FALSE
  /\ median_buf' = <<>>
  /\ UNCHANGED <<unlock_streak, pd_samples, pd_step_done, delay_nonzero>>

(* The acquisition window: its base, the wait, and its end, which moves the *)
(* TSU without counting a step and forgets the path delay.                  *)
AcqBase ==
  /\ acq_have_base' = TRUE /\ acq_age' = 0
  /\ UNCHANGED <<locked, lock_streak, unlock_streak, acq_active, pd_samples, pd_step_done,
                 delay_nonzero, phase_settled, median_buf, stepped, moved>>

AcqWait ==
  UNCHANGED <<locked, lock_streak, unlock_streak, acq_active, acq_have_base, acq_age,
              pd_samples, pd_step_done, delay_nonzero, phase_settled, median_buf, stepped, moved>>

AcqDone ==
  /\ moved' = TRUE
  /\ acq_active' = FALSE
  /\ delay_nonzero' = FALSE /\ pd_samples' = 0 /\ pd_step_done' = FALSE
  /\ median_buf' = <<>> /\ lock_streak' = 0
  /\ UNCHANGED <<locked, unlock_streak, acq_have_base, acq_age, phase_settled, stepped>>

(* Mutant: the phase correction is not announced. *)
PhaseStepSilent ==
  /\ pd_step_done' = TRUE /\ moved' = TRUE
  /\ phase_settled' = TRUE
  /\ median_buf' = <<>> /\ lock_streak' = 0
  /\ UNCHANGED <<locked, unlock_streak, acq_active, acq_have_base, acq_age, pd_samples,
                 delay_nonzero, stepped>>

(* The one residual phase correction once the path delay is trusted.        *)
PhaseStep ==
  /\ pd_step_done' = TRUE /\ moved' = TRUE
  /\ stepped' = TRUE /\ phase_settled' = TRUE
  /\ median_buf' = <<>> /\ lock_streak' = 0
  /\ UNCHANGED <<locked, unlock_streak, acq_active, acq_have_base, acq_age, pd_samples,
                 delay_nonzero>>

(* Lock and unlock hysteresis on the filtered offset.                       *)
Hysteresis(filtered) ==
  \/ /\ Mag(filtered) = 0 /\ DelayKnown
     /\ unlock_streak' = 0
     /\ lock_streak' = Upto(lock_streak + 1, LOCK_STREAK)
     /\ locked' = (locked \/ lock_streak + 1 >= LOCK_STREAK)
  \/ /\ Mag(filtered) > 1
     /\ lock_streak' = 0
     /\ unlock_streak' = Upto(unlock_streak + 1, UNLOCK_STREAK)
     /\ locked' = (locked /\ unlock_streak + 1 < UNLOCK_STREAK)
  \/ /\ Mag(filtered) <= 1 /\ ~(Mag(filtered) = 0 /\ DelayKnown)
     /\ unlock_streak' = 0
     /\ UNCHANGED <<lock_streak, locked>>

(* Tracking: a wild filtered offset leaves a locked servo alone.            *)
Track(offset) ==
  LET buf == Push(median_buf, offset)
      filtered == Median(buf)
  IN  /\ median_buf' = buf
      /\ IF locked /\ Wild(filtered)
           THEN UNCHANGED <<locked, lock_streak, unlock_streak>>
           ELSE Hysteresis(filtered)
      /\ UNCHANGED <<acq_active, acq_have_base, acq_age, pd_samples, pd_step_done,
                     delay_nonzero, phase_settled, stepped, moved>>

(* servo_update, for the offset of one resolved Sync pair.                  *)
servo_update(offset) ==
  /\ \/ Mag(offset) = 4 /\ StepTime
     \/ /\ Mag(offset) < 4 /\ acq_active
        /\ \/ ~acq_have_base /\ AcqBase
           \/ acq_have_base /\ acq_age < ACQ_WINDOW /\ AcqWait
           \/ acq_have_base /\ acq_age = ACQ_WINDOW /\ AcqDone
     \/ /\ Mag(offset) < 4 /\ ~acq_active
        /\ IF ~pd_step_done /\ pd_samples >= PD_MIN_SAMPLES
             THEN PhaseStep ELSE Track(offset)
  /\ SyncSeen
  /\ UNCHANGED rt_median_n

(* A Delay_Resp that answers our latest request, d below 10 ms.  A measured *)
(* delay may be clamped to zero, and so may the average.                    *)
DelayResp(nonzero) ==
  /\ ~acq_active /\ waited >= 0
  /\ pd_samples' = Upto(pd_samples + 1, PD_MIN_SAMPLES)
  /\ delay_nonzero' = nonzero
  /\ UNCHANGED <<locked, lock_streak, unlock_streak, acq_active, acq_have_base, acq_age,
                 pd_step_done, phase_settled, rt_median_n, median_buf, waited, stepped, moved>>

(* ptpv1_set_tuning: a new window, and an empty filter.                     *)
SetTuning(n) ==
  /\ rt_median_n' = n
  /\ median_buf' = <<>>
  /\ UNCHANGED <<locked, lock_streak, unlock_streak, acq_active, acq_have_base, acq_age,
                 pd_samples, pd_step_done, delay_nonzero, phase_settled, waited, stepped, moved>>

(* Time passes.                                                             *)
ServoTime ==
  /\ acq_age' = IF acq_active /\ acq_have_base THEN Upto(acq_age + 1, ACQ_WINDOW) ELSE acq_age
  /\ waited' = IF waited < 0 THEN waited ELSE Upto(waited + 1, GRACE)
  /\ UNCHANGED <<locked, lock_streak, unlock_streak, acq_active, acq_have_base, pd_samples,
                 pd_step_done, delay_nonzero, phase_settled, rt_median_n, median_buf, stepped, moved>>

(* ptpv1_init, cold or with a converged addend restored from flash.         *)
ServoInit ==
  /\ acq_active \in BOOLEAN
  /\ locked = FALSE /\ lock_streak = 0 /\ unlock_streak = 0
  /\ acq_have_base = FALSE /\ acq_age = 0
  /\ pd_samples = 0 /\ pd_step_done = FALSE
  /\ delay_nonzero = FALSE /\ phase_settled = FALSE
  /\ rt_median_n = MEDIAN_N
  /\ median_buf = <<>> /\ waited = -1 /\ stepped = FALSE /\ moved = FALSE

ServoTypeOK ==
  /\ locked \in BOOLEAN
  /\ lock_streak \in 0..LOCK_STREAK /\ unlock_streak \in 0..UNLOCK_STREAK
  /\ acq_active \in BOOLEAN /\ acq_have_base \in BOOLEAN /\ acq_age \in 0..ACQ_WINDOW
  /\ pd_samples \in 0..PD_MIN_SAMPLES /\ pd_step_done \in BOOLEAN
  /\ delay_nonzero \in BOOLEAN /\ phase_settled \in BOOLEAN
  /\ rt_median_n \in 1..MEDIAN_N /\ waited \in -1..GRACE
  /\ stepped \in BOOLEAN /\ moved \in BOOLEAN
=============================================================================
