----------------------------- MODULE MediaClock -----------------------------
(***************************************************************************)
(* The talker gate of firmware/dante_tx.c on top of the PTP servo: when    *)
(* the gateware packetizer may transmit and when the media clock, a        *)
(* free-running counter, is anchored to PTP time.  One pass of the main    *)
(* loop handles a few PTP messages and then polls; time passes between     *)
(* polls, in ticks of PTP_SETTLE_MS.                                       *)
(***************************************************************************)
EXTENDS PtpServo

CONSTANTS
  Backlog,         \* Sync pairs one loop pass can find in the receive slots
  PTP_SETTLE,      \* ticks a lock must hold
  PHASE_SETTLE_MAX,\* ticks of lock after which a final phase is not awaited
  UptimeWrap       \* modulus of gptp_uptime_ms in ticks (2^32 ms)

ASSUME MediaClockAssumption ==
  /\ Backlog \in Nat \ {0} /\ Backlog < LOCK_STREAK
  /\ PTP_SETTLE \in Nat \ {0} /\ PHASE_SETTLE_MAX \in Nat /\ PTP_SETTLE <= PHASE_SETTLE_MAX
  /\ UptimeWrap \in Nat /\ PHASE_SETTLE_MAX < UptimeWrap

VARIABLES
  unpolled,        \* Sync pairs resolved since the last poll
  was_locked,
  lock_age,        \* gptp_uptime_ms() - lock_since, a uint32_t that wraps
  talker_on,
  enable,          \* the packetizer's enable CSR
  bad_streak,
  held,            \* history: ticks the present lock has held
  calm             \* history: the network and the demand have become steady

talker == <<was_locked, lock_age, talker_on, enable, bad_streak>>
vars   == <<servo, talker, unpolled, held, calm>>

Held == held' = IF locked' THEN held ELSE 0

-----------------------------------------------------------------------------
(* dispatch_rx: a Sync pair or a Delay_Resp.  A calm network shows offsets  *)
(* inside the lock threshold and a path delay that is not zero.             *)
Sync(offset) ==
  /\ unpolled < Backlog /\ (calm => offset = 0)
  /\ servo_update(offset)
  /\ unpolled' = unpolled + 1
  /\ Held
  /\ UNCHANGED <<talker, calm>>

Delay(nonzero) ==
  /\ calm => nonzero
  /\ DelayResp(nonzero)
  /\ UNCHANGED <<talker, unpolled, held, calm>>

Tuning(n) ==
  /\ ~calm /\ SetTuning(n)
  /\ UNCHANGED <<talker, unpolled, held, calm>>

(* Time passes while the loop goes round.                                   *)
Tick ==
  /\ unpolled = 0 /\ unpolled' = 0
  /\ ServoTime
  /\ lock_age' = (lock_age + 1) % UptimeWrap
  /\ held' = IF locked THEN Upto(held + 1, PHASE_SETTLE_MAX) ELSE 0
  /\ UNCHANGED <<was_locked, talker_on, enable, bad_streak, calm>>

-----------------------------------------------------------------------------
(* dante_tx_poll.  Its inputs: whether any flow is bound, whether the media *)
(* clock's rate has converged, and whether the emitted timestamp is out of  *)
(* the band around PTP time.                                                *)

(* Mutant: lock_since is not restarted by a new lock. *)
LockAgeStale == lock_age

(* Mutant: every poll under lock restarts lock_since. *)
LockAgeRestarted == IF locked THEN 0 ELSE lock_age

(* lock_since, restarted when the poll sees a new lock.                     *)
LockAge == IF locked /\ ~was_locked THEN 0 ELSE lock_age

PhaseOk == phase_settled \/ LockAge >= PHASE_SETTLE_MAX

Settled ==
  /\ locked /\ PhaseOk /\ delay_nonzero
  /\ LockAge >= PTP_SETTLE

(* The phase guard: two bad readings in a row re-anchor.                    *)
GuardTrips(want, bad) == talker_on /\ want /\ bad /\ bad_streak + 1 >= 2
BadStreak(want, bad) ==
  IF ~(talker_on /\ want) THEN bad_streak
  ELSE IF bad /\ bad_streak + 1 < 2 THEN bad_streak + 1 ELSE 0

(* ts_anchor: on a step seen while transmitting, when the guard trips, and  *)
(* always before the talker is enabled.                                     *)
Anchors(want, bad) ==
  \/ talker_on /\ stepped
  \/ GuardTrips(want, bad)
  \/ want /\ ~talker_on

dante_tx_poll(active, rate_ready, bad) ==
  LET want == Settled /\ active /\ rate_ready
  IN  /\ was_locked' = locked
      /\ lock_age' = LockAge
      /\ stepped' = FALSE
      /\ bad_streak' = BadStreak(want, bad)
      /\ moved' = (moved /\ ~Anchors(want, bad))
      /\ talker_on' = want
      /\ enable' = IF want = talker_on THEN enable ELSE want

(* The talker gate of the main loop.                                        *)
Poll(active, rate_ready, bad) ==
  /\ calm => active /\ rate_ready /\ ~bad
  /\ dante_tx_poll(active, rate_ready, bad)
  /\ unpolled' = 0
  /\ UNCHANGED <<locked, lock_streak, unlock_streak, acq_active, acq_have_base, acq_age,
                 pd_samples, pd_step_done, delay_nonzero, phase_settled, rt_median_n,
                 median_buf, waited, held, calm>>

(* dante_tx_set_ts_offset anchors at once, whether or not audio is sent.    *)
SetTsOffset ==
  /\ ~calm
  /\ moved' = FALSE
  /\ UNCHANGED <<locked, lock_streak, unlock_streak, acq_active, acq_have_base, acq_age,
                 pd_samples, pd_step_done, delay_nonzero, phase_settled, rt_median_n,
                 median_buf, waited, stepped, talker, unpolled, held, calm>>

(* From some point on the network is calm, a flow is bound and the rate has *)
(* converged.                                                               *)
BecomesCalm ==
  /\ calm' = TRUE
  /\ UNCHANGED <<servo, talker, unpolled, held>>

-----------------------------------------------------------------------------
Init ==
  /\ ServoInit
  /\ unpolled = 0 /\ was_locked = FALSE /\ lock_age = 0
  /\ talker_on = FALSE /\ enable = FALSE /\ bad_streak = 0
  /\ held = 0 /\ calm = FALSE

AnySync == \E offset \in Bands : Sync(offset)
AnyPoll == \E active, rate_ready, bad \in BOOLEAN : Poll(active, rate_ready, bad)

Next ==
  \/ AnySync
  \/ \E nonzero \in BOOLEAN : Delay(nonzero)
  \/ \E n \in 1..MEDIAN_N : Tuning(n)
  \/ Tick
  \/ AnyPoll
  \/ SetTsOffset
  \/ BecomesCalm

(* The loop polls for ever, the master sends Sync, and time passes, though  *)
(* the model lets it pass only between a poll and the next Sync.  A pass of *)
(* the loop is far shorter than a tick, so an age of the lock that comes    *)
(* round again and again is also polled.                                    *)
Fairness == /\ WF_vars(AnySync) /\ WF_vars(AnyPoll) /\ SF_vars(Tick)
            /\ SF_vars(AnyPoll /\ lock_age = PHASE_SETTLE_MAX)

(* The master also answers Delay_Req.                                       *)
Spec == Init /\ [][Next]_vars /\ Fairness /\ WF_vars(\E nonzero \in BOOLEAN : Delay(nonzero))

-----------------------------------------------------------------------------
(* The type invariant.                                                      *)
TypeOK ==
  /\ ServoTypeOK
  /\ unpolled \in 0..Backlog /\ was_locked \in BOOLEAN
  /\ lock_age \in 0..(UptimeWrap - 1) /\ held \in 0..PHASE_SETTLE_MAX
  /\ talker_on \in BOOLEAN /\ enable \in BOOLEAN /\ bad_streak \in 0..1
  /\ calm \in BOOLEAN

(* "Hold lock off until the path delay is known -- but never indefinitely": *)
(* whatever steps, acquisitions and lost answers came before, a servo that  *)
(* reports lock has a trusted path delay or has waited out the grace time.  *)
LockKnowsDelay == locked => DelayKnown

(* After every poll a transmitting talker's media clock sits on the current *)
(* PTP timeline: every correction of the TSU since the last anchor, counted *)
(* as a step or not, has led to a new anchor or stopped the talker.         *)
OnTimeline == (talker_on /\ unpolled = 0) => ~moved

(* The talker is enabled only on a lock that has held PTP_SETTLE_MS without *)
(* a break, with the final phase applied or PHASE_SETTLE_MAX_MS waited for  *)
(* it, however often the lock came and went before.                         *)
SettledLock ==
  [][(talker_on' /\ ~talker_on) =>
       /\ held >= PTP_SETTLE
       /\ phase_settled \/ held >= PHASE_SETTLE_MAX]_vars

(* phase_settled means "no further phase steps expected": the TSU is moved  *)
(* from then on only by a time jump, which withdraws it.                    *)
PhaseFinal == [][(phase_settled /\ ~moved /\ moved') => ~phase_settled']_vars

(* "The PTP-lock gate in the main loop turns aaf_pkt ON only once the clock *)
(* is locked": after every poll the packetizer is enabled only under lock.  *)
TransmitsLocked == (enable /\ unpolled = 0) => locked

(* Once the network is calm and a flow is bound, audio starts, from         *)
(* whatever state the rough time before left the servo and the gate in      *)
(* ("audio must not be blocked forever"), and whenever the gate closes      *)
(* again it opens again: silence never lasts.                               *)
AudioStarts == <>calm => []<>(talker_on /\ enable)

(* Requiring the lock to hold "costs a few seconds of silence at startup":  *)
(* on a calm network audio that has started goes on for good.               *)
AudioGoesOn == <>calm => <>[](talker_on /\ enable)

(* What a lock stands for: servo_update reports it only with the path delay *)
(* known or waited for, and the main loop transmits only under it.          *)
LockMeansReady == TypeOK /\ LockKnowsDelay /\ TransmitsLocked
=============================================================================
