-------------------------- MODULE MediaClock_proofs --------------------------
(***************************************************************************)
(* Safety of the PTP servo and the talker gate, for any thresholds,        *)
(* streaks, windows and settle times.  Nothing is used of the median       *)
(* filter: whatever value it returns, the properties hold.                 *)
(***************************************************************************)
EXTENDS MediaClock, TLAPS

(* What the servo keeps true: no lock during an acquisition, and a phase    *)
(* called final only after the correction that makes it so.                 *)
ServoInv ==
  /\ ServoTypeOK
  /\ LockKnowsDelay
  /\ acq_active => ~locked
  /\ phase_settled => pd_step_done /\ ~acq_active

(* What a poll may rely on: while audio is sent, a TSU that was moved or is *)
(* about to be shows as a step; a lock that broke since the last poll has   *)
(* not had the samples to come back; and a lock both polls saw has held as  *)
(* long as lock_since says, or longer than matters.                         *)
GateInv ==
  /\ enable = talker_on
  /\ talker_on /\ (moved \/ acq_active) => stepped
  /\ talker_on /\ unpolled = 0 => ~moved /\ locked
  /\ was_locked /\ ~locked => lock_streak < unpolled
  /\ was_locked /\ locked => lock_age <= held \/ held = PHASE_SETTLE_MAX

ClockInv == TypeOK /\ ServoInv /\ GateInv
-----------------------------------------------------------------------------
LEMMA ClockInvInit == Init => ClockInv
<1> SUFFICES ASSUME Init PROVE ClockInv
  OBVIOUS
<1>1. /\ locked = FALSE /\ acq_have_base = FALSE /\ pd_step_done = FALSE
      /\ delay_nonzero = FALSE /\ phase_settled = FALSE /\ stepped = FALSE /\ moved = FALSE
      /\ was_locked = FALSE /\ talker_on = FALSE /\ enable = FALSE
      /\ calm = FALSE /\ acq_active \in BOOLEAN
  BY DEF Init, ServoInit
<1>2. /\ lock_streak = 0 /\ unlock_streak = 0 /\ acq_age = 0 /\ pd_samples = 0
      /\ rt_median_n = MEDIAN_N /\ waited = -1 /\ unpolled = 0 /\ lock_age = 0
      /\ bad_streak = 0 /\ held = 0
  BY DEF Init, ServoInit
<1>3. /\ locked \in BOOLEAN /\ acq_have_base \in BOOLEAN /\ pd_step_done \in BOOLEAN
      /\ delay_nonzero \in BOOLEAN /\ phase_settled \in BOOLEAN /\ stepped \in BOOLEAN
      /\ moved \in BOOLEAN /\ was_locked \in BOOLEAN /\ talker_on \in BOOLEAN
      /\ enable \in BOOLEAN /\ calm \in BOOLEAN
  BY <1>1
<1>4. ServoTypeOK
  BY <1>1, <1>2, <1>3, PtpServoAssumption DEF ServoTypeOK
<1>5. TypeOK
  BY <1>2, <1>3, <1>4, MediaClockAssumption DEF TypeOK
<1>6. ServoInv
  BY <1>1, <1>4 DEF ServoInv, LockKnowsDelay
<1>7. GateInv
  BY <1>1 DEF GateInv
<1>. QED
  BY <1>5, <1>6, <1>7 DEF ClockInv

LEMMA UptoRange ==
  ASSUME NEW n \in Nat, NEW cap \in Nat, n <= cap
  PROVE  Upto(n + 1, cap) \in 0..cap /\ Upto(n + 1, cap) >= n
BY DEF Upto

(* What one resolved Sync pair can do to the lock, the streaks and the TSU. *)
SyncEffect ==
  /\ ServoInv'
  /\ locked' /\ ~locked => lock_streak + 1 >= LOCK_STREAK
  /\ ~locked' => lock_streak' = 0 \/ (~locked /\ lock_streak' <= lock_streak + 1)
  /\ moved' => moved \/ stepped' \/ acq_active
  /\ acq_active' => acq_active \/ stepped'
  /\ stepped => stepped'
  /\ (phase_settled /\ ~moved /\ moved') => ~phase_settled'

LEMMA SeenType ==
  ASSUME ServoTypeOK, SyncSeen
  PROVE  waited' \in -1..GRACE /\ (waited = GRACE => waited' = GRACE)
BY PtpServoAssumption DEF SyncSeen, ServoTypeOK

LEMMA StepTimeEffect ==
  ASSUME ServoInv, StepTime, SyncSeen, UNCHANGED rt_median_n
  PROVE  SyncEffect
<1>1. /\ stepped' = TRUE /\ moved' = TRUE /\ phase_settled' = FALSE
      /\ acq_active' = TRUE /\ acq_have_base' = FALSE /\ locked' = FALSE
      /\ pd_step_done' = pd_step_done /\ delay_nonzero' = delay_nonzero
      /\ acq_age' = 0 /\ lock_streak' = 0 /\ unlock_streak' = unlock_streak
      /\ pd_samples' = pd_samples /\ rt_median_n' = rt_median_n
  BY DEF StepTime
<1>2. /\ stepped' \in BOOLEAN /\ moved' \in BOOLEAN /\ phase_settled' \in BOOLEAN
      /\ acq_active' \in BOOLEAN /\ acq_have_base' \in BOOLEAN /\ locked' \in BOOLEAN
      /\ pd_step_done' \in BOOLEAN /\ delay_nonzero' \in BOOLEAN
  BY <1>1 DEF ServoInv, ServoTypeOK
<1>3. waited' \in -1..GRACE
  BY SeenType DEF ServoInv
<1>4. ServoTypeOK'
  BY <1>1, <1>2, <1>3, PtpServoAssumption DEF ServoInv, ServoTypeOK
<1>5. ServoInv'
  BY <1>1, <1>4 DEF ServoInv, LockKnowsDelay
<1>. QED
  BY <1>1, <1>5 DEF SyncEffect

LEMMA AcqEffect ==
  ASSUME ServoInv, acq_active, AcqBase \/ AcqWait \/ AcqDone, SyncSeen, UNCHANGED rt_median_n
  PROVE  SyncEffect
<1>0. ~locked /\ ~phase_settled
  BY DEF ServoInv
<1>1. /\ locked' = locked /\ stepped' = stepped /\ phase_settled' = phase_settled
      /\ unlock_streak' = unlock_streak
  BY DEF AcqBase, AcqWait, AcqDone
<1>2. /\ acq_active' \in BOOLEAN /\ acq_have_base' \in BOOLEAN /\ moved' \in BOOLEAN
      /\ pd_step_done' \in BOOLEAN /\ delay_nonzero' \in BOOLEAN
      /\ locked' \in BOOLEAN /\ stepped' \in BOOLEAN /\ phase_settled' \in BOOLEAN
  BY <1>1 DEF AcqBase, AcqWait, AcqDone, ServoInv, ServoTypeOK
<1>3. /\ lock_streak' \in {0, lock_streak} /\ pd_samples' \in {0, pd_samples}
      /\ acq_age' \in {0, acq_age}
  BY DEF AcqBase, AcqWait, AcqDone
<1>4. waited' \in -1..GRACE
  BY SeenType DEF ServoInv
<1>5. ServoTypeOK'
  BY <1>1, <1>2, <1>3, <1>4, PtpServoAssumption DEF ServoInv, ServoTypeOK
<1>6. ServoInv'
  BY <1>0, <1>1, <1>5 DEF ServoInv, LockKnowsDelay
<1>7. lock_streak' = 0 \/ lock_streak' <= lock_streak + 1
  BY <1>3 DEF ServoInv, ServoTypeOK
<1>. QED
  BY <1>0, <1>1, <1>6, <1>7 DEF SyncEffect

LEMMA PhaseStepEffect ==
  ASSUME ServoInv, ~acq_active, ~pd_step_done, PhaseStep, SyncSeen, UNCHANGED rt_median_n
  PROVE  SyncEffect
<1>0. ~phase_settled
  BY DEF ServoInv
<1>1. /\ pd_step_done' = TRUE /\ moved' = TRUE /\ stepped' = TRUE /\ phase_settled' = TRUE
      /\ lock_streak' = 0 /\ locked' = locked /\ unlock_streak' = unlock_streak
      /\ acq_active' = acq_active /\ acq_have_base' = acq_have_base /\ acq_age' = acq_age
      /\ pd_samples' = pd_samples /\ delay_nonzero' = delay_nonzero
      /\ rt_median_n' = rt_median_n
  BY DEF PhaseStep
<1>2. /\ stepped' \in BOOLEAN /\ moved' \in BOOLEAN /\ phase_settled' \in BOOLEAN
      /\ acq_active' \in BOOLEAN /\ acq_have_base' \in BOOLEAN /\ locked' \in BOOLEAN
      /\ pd_step_done' \in BOOLEAN /\ delay_nonzero' \in BOOLEAN
  BY <1>1 DEF ServoInv, ServoTypeOK
<1>3. waited' \in -1..GRACE /\ (waited = GRACE => waited' = GRACE)
  BY SeenType DEF ServoInv
<1>4. ServoTypeOK'
  BY <1>1, <1>2, <1>3, PtpServoAssumption DEF ServoInv, ServoTypeOK
<1>5. LockKnowsDelay'
  BY <1>1, <1>3 DEF ServoInv, LockKnowsDelay, DelayKnown
<1>6. ServoInv'
  BY <1>1, <1>4, <1>5 DEF ServoInv
<1>. QED
  BY <1>0, <1>1, <1>6 DEF SyncEffect

(* The hysteresis, whatever the filter returns.                             *)
LEMMA HysteresisEffect ==
  ASSUME ServoTypeOK, NEW filtered, Hysteresis(filtered)
  PROVE  /\ locked' \in BOOLEAN
         /\ lock_streak' \in 0..LOCK_STREAK /\ unlock_streak' \in 0..UNLOCK_STREAK
         /\ locked' /\ ~locked => lock_streak + 1 >= LOCK_STREAK /\ DelayKnown
         /\ ~locked' => lock_streak' = 0 \/ (~locked /\ lock_streak' <= lock_streak + 1)
<1>1. /\ lock_streak \in 0..LOCK_STREAK /\ unlock_streak \in 0..UNLOCK_STREAK
      /\ LOCK_STREAK \in Nat \ {0} /\ UNLOCK_STREAK \in Nat \ {0} /\ locked \in BOOLEAN
  BY PtpServoAssumption DEF ServoTypeOK
<1>2. CASE /\ DelayKnown
           /\ unlock_streak' = 0
           /\ lock_streak' = Upto(lock_streak + 1, LOCK_STREAK)
           /\ locked' = (locked \/ lock_streak + 1 >= LOCK_STREAK)
  <2>1. lock_streak' \in 0..LOCK_STREAK /\ lock_streak' <= lock_streak + 1 /\ unlock_streak' = 0
    BY <1>1, <1>2 DEF Upto
  <2>2. /\ locked' \in BOOLEAN
        /\ locked' /\ ~locked => lock_streak + 1 >= LOCK_STREAK
        /\ ~locked' => ~locked
    BY <1>2
  <2>. QED
    BY <1>1, <1>2, <2>1, <2>2
<1>3. CASE /\ lock_streak' = 0
           /\ unlock_streak' = Upto(unlock_streak + 1, UNLOCK_STREAK)
           /\ locked' = (locked /\ unlock_streak + 1 < UNLOCK_STREAK)
  <2>1. unlock_streak' \in 0..UNLOCK_STREAK /\ lock_streak' \in 0..LOCK_STREAK
    BY <1>1, <1>3 DEF Upto
  <2>2. locked' \in BOOLEAN /\ (locked' => locked)
    BY <1>3
  <2>. QED
    BY <1>3, <2>1, <2>2
<1>4. CASE unlock_streak' = 0 /\ UNCHANGED <<lock_streak, locked>>
  BY <1>1, <1>4
<1>. QED
  BY <1>2, <1>3, <1>4 DEF Hysteresis

LEMMA TrackEffect ==
  ASSUME ServoInv, ~acq_active, NEW offset, Track(offset), SyncSeen, UNCHANGED rt_median_n
  PROVE  SyncEffect
<1>1. /\ acq_active' = acq_active /\ acq_have_base' = acq_have_base /\ acq_age' = acq_age
      /\ pd_samples' = pd_samples /\ pd_step_done' = pd_step_done
      /\ delay_nonzero' = delay_nonzero /\ phase_settled' = phase_settled
      /\ stepped' = stepped /\ moved' = moved /\ rt_median_n' = rt_median_n
  BY DEF Track
<1>2. /\ locked' \in BOOLEAN
      /\ lock_streak' \in 0..LOCK_STREAK /\ unlock_streak' \in 0..UNLOCK_STREAK
      /\ locked' /\ ~locked => lock_streak + 1 >= LOCK_STREAK /\ DelayKnown
      /\ ~locked' => lock_streak' = 0 \/ (~locked /\ lock_streak' <= lock_streak + 1)
  <2>1. PICK filtered : \/ locked /\ UNCHANGED <<locked, lock_streak, unlock_streak>>
                        \/ Hysteresis(filtered)
    BY DEF Track
  <2>2. CASE locked /\ UNCHANGED <<locked, lock_streak, unlock_streak>>
    BY <2>2 DEF ServoInv, ServoTypeOK
  <2>3. CASE Hysteresis(filtered)
    BY <2>3, HysteresisEffect DEF ServoInv
  <2>. QED
    BY <2>1, <2>2, <2>3
<1>3. waited' \in -1..GRACE /\ (waited = GRACE => waited' = GRACE)
  BY SeenType DEF ServoInv
<1>4. ServoTypeOK'
  BY <1>1, <1>2, <1>3 DEF ServoInv, ServoTypeOK
<1>5. LockKnowsDelay'
  BY <1>1, <1>2, <1>3 DEF ServoInv, LockKnowsDelay, DelayKnown
<1>6. ServoInv'
  BY <1>1, <1>4, <1>5 DEF ServoInv
<1>. QED
  BY <1>1, <1>2, <1>6 DEF SyncEffect

LEMMA ServoUpdateEffect ==
  ASSUME ServoInv, NEW offset, servo_update(offset)
  PROVE  SyncEffect
<1>0. SyncSeen /\ UNCHANGED rt_median_n
  BY DEF servo_update
<1>1. CASE StepTime
  BY <1>0, <1>1, StepTimeEffect
<1>2. CASE acq_active /\ (AcqBase \/ AcqWait \/ AcqDone)
  BY <1>0, <1>2, AcqEffect
<1>3. CASE ~acq_active /\ ~pd_step_done /\ PhaseStep
  BY <1>0, <1>3, PhaseStepEffect
<1>4. CASE ~acq_active /\ Track(offset)
  BY <1>0, <1>4, TrackEffect
<1>. QED
  BY <1>1, <1>2, <1>3, <1>4 DEF servo_update
-----------------------------------------------------------------------------
LEMMA SyncInv ==
  ASSUME ClockInv, NEW offset, Sync(offset)
  PROVE  ClockInv'
<1>1. /\ unpolled < Backlog /\ unpolled' = unpolled + 1
      /\ held' = (IF locked' THEN held ELSE 0) /\ servo_update(offset)
      /\ UNCHANGED <<was_locked, lock_age, talker_on, enable, bad_streak, calm>>
  BY DEF Sync, Held, talker
<1>2. SyncEffect
  BY <1>1, ServoUpdateEffect DEF ClockInv
<1>3. /\ unpolled \in 0..Backlog /\ held \in 0..PHASE_SETTLE_MAX /\ lock_age \in 0..(UptimeWrap - 1)
      /\ lock_streak \in 0..LOCK_STREAK /\ lock_streak' \in 0..LOCK_STREAK
      /\ Backlog \in Nat /\ Backlog < LOCK_STREAK /\ LOCK_STREAK \in Nat
      /\ PHASE_SETTLE_MAX \in Nat
  BY <1>2, MediaClockAssumption, PtpServoAssumption
     DEF ClockInv, TypeOK, ServoInv, ServoTypeOK, SyncEffect
<1>4. TypeOK'
  <2>1. unpolled' \in 0..Backlog /\ held' \in 0..PHASE_SETTLE_MAX
    BY <1>1, <1>3
  <2>2. ServoTypeOK'
    BY <1>2 DEF SyncEffect, ServoInv
  <2>. QED
    BY <1>1, <2>1, <2>2 DEF ClockInv, TypeOK
<1>5. talker_on' /\ (moved' \/ acq_active') => stepped'
  BY <1>1, <1>2 DEF ClockInv, GateInv, SyncEffect
<1>6. was_locked' /\ ~locked' => lock_streak' < unpolled'
  <2> SUFFICES ASSUME was_locked', ~locked' PROVE lock_streak' < unpolled'
    OBVIOUS
  <2>1. was_locked /\ (lock_streak' = 0 \/ (~locked /\ lock_streak' <= lock_streak + 1))
    BY <1>1, <1>2 DEF SyncEffect
  <2>2. ~locked => lock_streak < unpolled
    BY <2>1 DEF ClockInv, GateInv
  <2>. QED
    BY <1>1, <1>3, <2>1, <2>2
<1>7. was_locked' /\ locked' => lock_age' <= held' \/ held' = PHASE_SETTLE_MAX
  <2> SUFFICES ASSUME was_locked', locked' PROVE lock_age' <= held' \/ held' = PHASE_SETTLE_MAX
    OBVIOUS
  <2>1. was_locked /\ lock_age' = lock_age /\ held' = held
    BY <1>1
  <2>2. CASE locked
    BY <2>1, <2>2 DEF ClockInv, GateInv
  <2>3. CASE ~locked
    <3>1. lock_streak < unpolled /\ lock_streak + 1 >= LOCK_STREAK
      BY <2>1, <2>3, <1>2 DEF ClockInv, GateInv, SyncEffect
    <3>. QED
      BY <3>1, <1>1, <1>3
  <2>. QED
    BY <2>2, <2>3
<1>8. unpolled' # 0
  BY <1>1, <1>3
<1>9. enable' = talker_on'
  BY <1>1 DEF ClockInv, GateInv
<1>10. GateInv'
  BY <1>5, <1>6, <1>7, <1>8, <1>9 DEF GateInv
<1>. QED
  BY <1>2, <1>4, <1>10 DEF ClockInv, SyncEffect

(* The poll: it decides on a lock it can vouch for.                         *)
LEMMA PollInv ==
  ASSUME ClockInv, NEW active \in BOOLEAN, NEW rate_ready \in BOOLEAN, NEW bad \in BOOLEAN,
         Poll(active, rate_ready, bad)
  PROVE  /\ ClockInv'
         /\ talker_on' /\ ~talker_on =>
              held >= PTP_SETTLE /\ (phase_settled \/ held >= PHASE_SETTLE_MAX)
         /\ moved' => moved
<1> DEFINE want == Settled /\ active /\ rate_ready
<1>0. enable = talker_on /\ talker_on \in BOOLEAN /\ moved \in BOOLEAN
  BY DEF ClockInv, GateInv, TypeOK, ServoTypeOK
<1>1. /\ was_locked' = locked /\ lock_age' = LockAge /\ stepped' = FALSE
      /\ bad_streak' = BadStreak(want, bad)
      /\ moved' = (moved /\ ~Anchors(want, bad))
      /\ talker_on' = want
      /\ enable' = (IF want = talker_on THEN enable ELSE want)
  BY <1>0 DEF Poll, dante_tx_poll
<1>2. /\ unpolled' = 0
      /\ UNCHANGED <<locked, lock_streak, unlock_streak, acq_active, acq_have_base, acq_age,
                 pd_samples, pd_step_done, delay_nonzero, phase_settled, rt_median_n,
                 median_buf, waited, held, calm>>
  BY DEF Poll
<1>3. want \in BOOLEAN /\ (want => locked /\ PhaseOk /\ LockAge >= PTP_SETTLE)
  BY DEF Settled
<1>4. /\ held \in 0..PHASE_SETTLE_MAX /\ lock_age \in 0..(UptimeWrap - 1)
      /\ PTP_SETTLE \in Nat \ {0} /\ PHASE_SETTLE_MAX \in Nat /\ PTP_SETTLE <= PHASE_SETTLE_MAX
      /\ bad_streak \in 0..1
  BY MediaClockAssumption DEF ClockInv, TypeOK
<1>5. LockAge \in 0..(UptimeWrap - 1)
  BY <1>4, MediaClockAssumption DEF LockAge
<1>6. locked => LockAge <= held \/ held = PHASE_SETTLE_MAX
  BY <1>4 DEF LockAge, ClockInv, GateInv
<1>7. want => held >= PTP_SETTLE /\ (phase_settled \/ held >= PHASE_SETTLE_MAX)
  <2> SUFFICES ASSUME want
               PROVE  held >= PTP_SETTLE /\ (phase_settled \/ held >= PHASE_SETTLE_MAX)
    OBVIOUS
  <2>1. locked /\ LockAge >= PTP_SETTLE /\ (phase_settled \/ LockAge >= PHASE_SETTLE_MAX)
    BY <1>3 DEF PhaseOk
  <2>. QED
    BY <2>1, <1>4, <1>5, <1>6
<1>8. want => ~moved' /\ ~acq_active
  <2> SUFFICES ASSUME want PROVE ~moved' /\ ~acq_active
    OBVIOUS
  <2>1. ~acq_active
    BY <1>3 DEF ClockInv, ServoInv
  <2>2. CASE ~talker_on
    BY <2>1, <2>2, <1>1 DEF Anchors
  <2>3. CASE talker_on
    <3>1. moved => stepped
      BY <2>3 DEF ClockInv, GateInv
    <3>. QED
      BY <2>1, <2>3, <3>1, <1>1 DEF Anchors
  <2>. QED
    BY <2>2, <2>3
<1>9. bad_streak' \in 0..1
  BY <1>1, <1>4 DEF BadStreak
<1>w. moved' => moved
  BY <1>1
<1>10. moved' \in BOOLEAN /\ stepped' \in BOOLEAN
  BY <1>1
<1> HIDE DEF want
<1>11. enable' = want
  BY <1>0, <1>1, <1>3
<1>12. ServoTypeOK'
  BY <1>2, <1>10 DEF ClockInv, TypeOK, ServoTypeOK
<1>13. TypeOK'
  <2>1. /\ was_locked' \in BOOLEAN /\ talker_on' \in BOOLEAN /\ enable' \in BOOLEAN
        /\ calm' \in BOOLEAN
    BY <1>1, <1>2, <1>3, <1>11 DEF ClockInv, TypeOK, ServoTypeOK
  <2>2. /\ unpolled' \in 0..Backlog /\ lock_age' \in 0..(UptimeWrap - 1)
        /\ held' \in 0..PHASE_SETTLE_MAX
    BY <1>1, <1>2, <1>4, <1>5, MediaClockAssumption
  <2>. QED
    BY <1>9, <1>12, <2>1, <2>2 DEF TypeOK
<1>14. ServoInv'
  BY <1>2, <1>12 DEF ClockInv, ServoInv, LockKnowsDelay, DelayKnown
<1>15. GateInv'
  <2>1. enable' = talker_on'
    BY <1>1, <1>11 DEF ClockInv, GateInv
  <2>2. talker_on' => ~moved' /\ ~acq_active' /\ locked'
    BY <1>1, <1>2, <1>3, <1>8
  <2>3. was_locked' /\ locked' => lock_age' <= held' \/ held' = PHASE_SETTLE_MAX
    BY <1>1, <1>2, <1>6
  <2>4. ~(was_locked' /\ ~locked')
    BY <1>1, <1>2
  <2>. QED
    BY <2>1, <2>2, <2>3, <2>4 DEF GateInv
<1>. QED
  BY <1>1, <1>7, <1>w, <1>13, <1>14, <1>15 DEF ClockInv
LEMMA TickInv ==
  ASSUME ClockInv, Tick
  PROVE  ClockInv' /\ moved' = moved
<1>1. /\ unpolled = 0 /\ unpolled' = 0
      /\ acq_age' = (IF acq_active /\ acq_have_base THEN Upto(acq_age + 1, ACQ_WINDOW) ELSE acq_age)
      /\ waited' = (IF waited < 0 THEN waited ELSE Upto(waited + 1, GRACE))
      /\ lock_age' = (lock_age + 1) % UptimeWrap
      /\ held' = (IF locked THEN Upto(held + 1, PHASE_SETTLE_MAX) ELSE 0)
      /\ UNCHANGED <<was_locked, talker_on, enable, bad_streak, calm>>
      /\ UNCHANGED <<locked, lock_streak, unlock_streak, acq_active, acq_have_base, pd_samples,
                 pd_step_done, delay_nonzero, phase_settled, rt_median_n, median_buf, stepped, moved>>
  BY DEF Tick, ServoTime
<1>2. /\ acq_age \in 0..ACQ_WINDOW /\ waited \in -1..GRACE /\ ACQ_WINDOW \in Nat /\ GRACE \in Nat
      /\ held \in 0..PHASE_SETTLE_MAX /\ lock_age \in 0..(UptimeWrap - 1)
      /\ PHASE_SETTLE_MAX \in Nat
  BY MediaClockAssumption, PtpServoAssumption DEF ClockInv, TypeOK, ServoTypeOK
<1>3. acq_age' \in 0..ACQ_WINDOW /\ waited' \in -1..GRACE /\ (waited = GRACE => waited' = GRACE)
  BY <1>1, <1>2, PtpServoAssumption DEF Upto
<1>u. UptimeWrap \in Nat /\ PHASE_SETTLE_MAX < UptimeWrap
  BY MediaClockAssumption
<1>a. lock_age' \in 0..(UptimeWrap - 1) /\ lock_age' <= lock_age + 1
  BY <1>1, <1>2, <1>u
<1>4. lock_age' \in 0..(UptimeWrap - 1) /\ held' \in 0..PHASE_SETTLE_MAX
  BY <1>1, <1>2, <1>a DEF Upto
<1>5. ServoTypeOK'
  BY <1>1, <1>3 DEF ClockInv, TypeOK, ServoTypeOK
<1>6. TypeOK'
  BY <1>1, <1>4, <1>5, MediaClockAssumption DEF ClockInv, TypeOK
<1>7. ServoInv'
  BY <1>1, <1>3, <1>5 DEF ClockInv, ServoInv, LockKnowsDelay, DelayKnown
<1>8. was_locked /\ locked => lock_age' <= held' \/ held' = PHASE_SETTLE_MAX
  <2> SUFFICES ASSUME was_locked, locked PROVE lock_age' <= held' \/ held' = PHASE_SETTLE_MAX
    OBVIOUS
  <2>1. (lock_age <= held \/ held = PHASE_SETTLE_MAX) /\ held' = Upto(held + 1, PHASE_SETTLE_MAX)
    BY <1>1 DEF ClockInv, GateInv
  <2>. QED
    BY <2>1, <1>2, <1>a, <1>u DEF Upto
<1>9. GateInv'
  BY <1>1, <1>8 DEF ClockInv, GateInv
<1>. QED
  BY <1>1, <1>6, <1>7, <1>9 DEF ClockInv

LEMMA DelayInv ==
  ASSUME ClockInv, NEW nonzero \in BOOLEAN, Delay(nonzero)
  PROVE  ClockInv' /\ moved' = moved
<1>1. /\ pd_samples' = Upto(pd_samples + 1, PD_MIN_SAMPLES) /\ delay_nonzero' = nonzero
      /\ UNCHANGED <<locked, lock_streak, unlock_streak, acq_active, acq_have_base, acq_age,
                 pd_step_done, phase_settled, rt_median_n, median_buf, waited, stepped, moved>>
      /\ UNCHANGED <<was_locked, lock_age, talker_on, enable, bad_streak,
                     unpolled, held, calm>>
  BY DEF Delay, DelayResp, talker
<1>2. /\ pd_samples \in 0..PD_MIN_SAMPLES /\ PD_MIN_SAMPLES \in Nat
  BY PtpServoAssumption DEF ClockInv, TypeOK, ServoTypeOK
<1>3. pd_samples' \in 0..PD_MIN_SAMPLES /\ (pd_samples >= PD_MIN_SAMPLES => pd_samples' >= PD_MIN_SAMPLES)
  BY <1>1, <1>2 DEF Upto
<1>4. delay_nonzero' \in BOOLEAN
  BY <1>1
<1>5. ServoTypeOK'
  BY <1>1, <1>3, <1>4 DEF ClockInv, TypeOK, ServoTypeOK
<1>6. TypeOK'
  BY <1>1, <1>5 DEF ClockInv, TypeOK
<1>7. ServoInv'
  BY <1>1, <1>3, <1>5 DEF ClockInv, ServoInv, LockKnowsDelay, DelayKnown
<1>8. GateInv'
  BY <1>1 DEF ClockInv, GateInv
<1>. QED
  BY <1>1, <1>6, <1>7, <1>8 DEF ClockInv

(* Steps that touch neither the lock nor the talker: they may shorten the   *)
(* filter's window, anchor the media clock, or mark the network calm.       *)
LEMMA QuietInv ==
  ASSUME ClockInv,
         UNCHANGED <<locked, lock_streak, unlock_streak, acq_active, acq_have_base, acq_age,
                     pd_samples, pd_step_done, delay_nonzero, phase_settled, waited, stepped>>,
         UNCHANGED <<was_locked, lock_age, talker_on, enable, bad_streak,
                     unpolled, held>>,
         rt_median_n' \in 1..MEDIAN_N, moved' \in BOOLEAN, moved' => moved, calm' \in BOOLEAN
  PROVE  ClockInv'
<1>1. ServoTypeOK'
  BY DEF ClockInv, TypeOK, ServoTypeOK
<1>2. TypeOK'
  BY <1>1 DEF ClockInv, TypeOK
<1>3. ServoInv'
  BY <1>1 DEF ClockInv, ServoInv, LockKnowsDelay, DelayKnown
<1>4. GateInv'
  BY DEF ClockInv, GateInv
<1>. QED
  BY <1>2, <1>3, <1>4 DEF ClockInv

(* Every step keeps the invariant, and obeys the two action properties.     *)
LEMMA ClockStep ==
  ASSUME ClockInv, [Next]_vars
  PROVE  /\ ClockInv'
         /\ talker_on' /\ ~talker_on =>
              held >= PTP_SETTLE /\ (phase_settled \/ held >= PHASE_SETTLE_MAX)
         /\ (phase_settled /\ ~moved /\ moved') => ~phase_settled'
<1>1. CASE AnySync
  <2>1. PICK offset \in Bands : Sync(offset)
    BY <1>1 DEF AnySync
  <2>2. ClockInv'
    BY <2>1, SyncInv
  <2>3. SyncEffect /\ talker_on' = talker_on
    BY <2>1, ServoUpdateEffect DEF Sync, ClockInv, talker
  <2>. QED
    BY <2>2, <2>3 DEF SyncEffect
<1>2. CASE \E nonzero \in BOOLEAN : Delay(nonzero)
  <2>1. PICK nonzero \in BOOLEAN : Delay(nonzero)
    BY <1>2
  <2>2. talker_on' = talker_on
    BY <2>1 DEF Delay, talker
  <2>. QED
    BY <2>1, <2>2, DelayInv
<1>3. CASE Tick
  <2>1. talker_on' = talker_on
    BY <1>3 DEF Tick
  <2>. QED
    BY <1>3, <2>1, TickInv
<1>4. CASE AnyPoll
  <2>1. PICK active \in BOOLEAN, rate_ready \in BOOLEAN, bad \in BOOLEAN :
          Poll(active, rate_ready, bad)
    BY <1>4 DEF AnyPoll
  <2>. QED
    BY <2>1, PollInv
<1>5. CASE \/ \E n \in 1..MEDIAN_N : Tuning(n)
           \/ SetTsOffset \/ BecomesCalm \/ UNCHANGED vars
  <2>0. TypeOK
    BY DEF ClockInv
  <2>1. /\ UNCHANGED <<locked, lock_streak, unlock_streak, acq_active, acq_have_base, acq_age,
                     pd_samples, pd_step_done, delay_nonzero, phase_settled, waited, stepped>>
        /\ UNCHANGED <<was_locked, lock_age, talker_on, enable, bad_streak,
                     unpolled, held>>
    BY <1>5 DEF Tuning, SetTuning, SetTsOffset, BecomesCalm, vars, servo, talker
  <2>2. rt_median_n' \in 1..MEDIAN_N
    BY <1>5, <2>0 DEF Tuning, SetTuning, SetTsOffset, BecomesCalm, vars, servo, TypeOK, ServoTypeOK
  <2>3. moved' \in BOOLEAN /\ (moved' => moved) /\ calm' \in BOOLEAN
    <3>1. moved' \in {moved, FALSE} /\ calm' \in {calm, TRUE}
      BY <1>5 DEF Tuning, SetTuning, SetTsOffset, BecomesCalm, vars, servo
    <3>2. moved \in BOOLEAN /\ calm \in BOOLEAN
      BY <2>0 DEF TypeOK, ServoTypeOK
    <3>3. CASE moved' = moved
      BY <3>1, <3>2, <3>3, Zenon
    <3>4. CASE moved' = FALSE
      BY <3>1, <3>2, <3>4, Zenon
    <3>. QED
      BY <3>1, <3>3, <3>4, Zenon
  <2>4. ClockInv'
    BY <2>1, <2>2, <2>3, QuietInv
  <2>. QED
    BY <2>1, <2>3, <2>4
<1>. QED
  BY <1>1, <1>2, <1>3, <1>4, <1>5 DEF Next

LEMMA SafeClock == Spec => []ClockInv
<1>1. ClockInv /\ [Next]_vars => ClockInv'
  BY ClockStep
<1>. QED
  BY <1>1, ClockInvInit, PTL DEF Spec
-----------------------------------------------------------------------------
(* servo_update, Delay_Resps, polls and time keep every counter in bounds.  *)
THEOREM TypeCorrect == Spec => []TypeOK
<1>1. ClockInv => TypeOK
  BY DEF ClockInv
<1>. QED
  BY <1>1, SafeClock, PTL

(* servo_update reports lock only with a trusted path delay or after the    *)
(* grace time.                                                              *)
THEOREM LockDelay == Spec => []LockKnowsDelay
<1>1. ClockInv => LockKnowsDelay
  BY DEF ClockInv, ServoInv
<1>. QED
  BY <1>1, SafeClock, PTL

(* dante_tx_poll leaves no transmitting talker on an old timeline, though   *)
(* the end of an acquisition is not counted in step_count.                  *)
THEOREM AnchorFollowsClock == Spec => []OnTimeline
<1>1. ClockInv => OnTimeline
  BY DEF ClockInv, GateInv, OnTimeline
<1>. QED
  BY <1>1, SafeClock, PTL

(* After dante_tx_poll the packetizer is enabled only under lock.           *)
THEOREM GateNeedsLock == Spec => []TransmitsLocked
<1>1. ClockInv => TransmitsLocked
  BY DEF ClockInv, GateInv, TransmitsLocked
<1>. QED
  BY <1>1, SafeClock, PTL

(* dante_tx_poll samples the lock only once per loop pass, yet a lock that  *)
(* broke and came back in between never passes for a settled one, as long   *)
(* as one pass handles fewer Syncs than LOCK_STREAK.                        *)
THEOREM TalkerWaits == Spec => SettledLock
<1>1. ClockInv /\ [Next]_vars =>
        [(talker_on' /\ ~talker_on) =>
           /\ held >= PTP_SETTLE
           /\ phase_settled \/ held >= PHASE_SETTLE_MAX]_vars
  BY ClockStep
<1>. QED
  BY <1>1, SafeClock, PTL DEF Spec, SettledLock

(* Once servo_update has called the phase settled, only a time jump moves   *)
(* the TSU, and it withdraws the claim.                                     *)
THEOREM PhaseIsFinal == Spec => PhaseFinal
<1>1. ClockInv /\ [Next]_vars =>
        [(phase_settled /\ ~moved /\ moved') => ~phase_settled']_vars
  BY ClockStep
<1>. QED
  BY <1>1, SafeClock, PTL DEF Spec, PhaseFinal

(* What a lock stands for: servo_update reports it only with the path delay *)
(* known or waited for, and the packetizer is enabled only under it.        *)
THEOREM LockIsReady == Spec => []LockMeansReady
BY TypeCorrect, LockDelay, GateNeedsLock, PTL DEF LockMeansReady
=============================================================================
