----------------------------- MODULE PtpPairing -----------------------------
(***************************************************************************)
(* From the wire to the servo: the receive slots and the ring of receive   *)
(* timestamps (avb_soc.py), the dispatcher that takes one timestamp per    *)
(* frame (dispatch_rx of firmware/main.c), and the PTPv1 slave that pairs  *)
(* Syncs with Follow_Ups and its Delay_Reqs with Delay_Resps (ptpv1_rx,    *)
(* ptpv1_poll).  The gateware commits frames between any two steps of the  *)
(* firmware.  The network loses, repeats and reorders messages.            *)
(*                                                                         *)
(* A timestamp is the number of the committed frame it was taken for; the  *)
(* entries the boot loader left behind are negative.  What the servo does  *)
(* with a pair is the module PtpServo: here it may start or end frequency  *)
(* acquisition.                                                            *)
(***************************************************************************)
EXTENDS Integers, Sequences, FiniteSets

CONSTANTS
  Masters,
  RingDepth,      \* entries of rx_ts_fifo (8)
  NSlots,         \* receive slots of the MAC (2)
  ResyncLimit,    \* the level above which dispatch_rx drops timestamps (2)
  DrainBudget,    \* frames taken by one dispatch_rx (64)
  MaxCommits, MaxSync, MaxReq   \* bounds of a behaviour

ASSUME PairingAssumption ==
  /\ {RingDepth, NSlots, ResyncLimit, DrainBudget} \subseteq Nat \ {0}
  /\ ResyncLimit = NSlots       \* "stat_fifo is nslots deep, so anything above 2 is backlog"
  /\ ResyncLimit < RingDepth
  /\ {MaxCommits, MaxSync, MaxReq} \subseteq Nat

VARIABLES
  air,            \* messages the network may still deliver
  nsync,          \* the last sequence number of each master
  commits, slots, ring, popped,
  pc, lvl, budget,
  ptp,            \* the statics of ptpv1.c
  inStep,         \* history: a resync found every slot filled
  since,          \* history: the frames committed before that resync
  pair,           \* history: the last resolved pair
  delay           \* history: the last path-delay measurement

gateware == <<air, nsync, commits, slots, ring>>
vars == <<gateware, popped, pc, lvl, budget, ptp, inStep, since, pair, delay>>

Msg(kind, m, n) == [kind |-> kind, m |-> m, n |-> n]
Audio == Msg("audio", 0, 0)          \* another device's stream, flooded
NoSync == <<0, 0>>

NoPair  == [t1 |-> NoSync, t2 |-> NoSync, ts |-> 0, frame |-> 0, inStep |-> FALSE]
NoDelay == [req |-> 0, resp |-> 0, again |-> FALSE]

Init ==
  /\ air = {} /\ nsync = [m \in Masters |-> 0] /\ commits = 0 /\ slots = <<>>
  /\ \E k \in 0..RingDepth : ring = [i \in 1..k |-> -i]     \* left by the loader
  /\ popped = 0 /\ pc = "idle" /\ lvl = 0 /\ budget = 0
  /\ \E acq \in BOOLEAN :                    \* a warm start skips acquisition
     ptp = [have_t1 |-> FALSE, have_t2 |-> FALSE, have_t3 |-> FALSE, awaiting |-> FALSE,
            pending |-> 0, t1 |-> NoSync, t2 |-> NoSync, ts |-> 0, frame |-> 0,
            t3 |-> 0, seq |-> 1, have_master |-> FALSE,
            have_t2_t1 |-> FALSE, acq_active |-> acq]
  /\ inStep = FALSE /\ since = 0 /\ pair = NoPair /\ delay = NoDelay

----------------------------------------------------------------------------
(* The network and the gateware.                                            *)

SendSync(m, twoStep) ==
  /\ nsync[m] < MaxSync
  /\ nsync' = [nsync EXCEPT ![m] = @ + 1]
  /\ air' = air \cup (IF twoStep
       THEN {Msg("sync2", m, nsync[m] + 1), Msg("followup", m, nsync[m] + 1)}
       ELSE {Msg("sync1", m, nsync[m] + 1)})
  /\ UNCHANGED <<commits, slots, ring, popped, pc, lvl, budget, ptp, inStep, since, pair, delay>>

(* The ring's push is lost when it is full.                                 *)
Pushed(r, ts) == IF Len(r) < RingDepth THEN Append(r, ts) ELSE r

(* A frame is committed to a free slot; without one it is dropped and has   *)
(* no timestamp either.                                                     *)
Commit(msg) ==
  /\ commits < MaxCommits /\ Len(slots) < NSlots
  /\ commits' = commits + 1
  /\ slots' = Append(slots, [id |-> commits + 1, msg |-> msg])
  /\ ring' = Pushed(ring, commits + 1)
  /\ UNCHANGED <<air, nsync, popped, pc, lvl, budget, ptp, inStep, since, pair, delay>>

----------------------------------------------------------------------------
(* dispatch_rx.                                                             *)

(* Mutant: the value is read after the ring has moved on. *)
PopNext == /\ popped' = IF Len(ring) > 1 THEN ring[2] ELSE popped
           /\ ring' = IF ring # <<>> THEN Tail(ring) ELSE ring

(* main_rx_ts_pop_write: an empty ring leaves the popped value alone.       *)
Pop == /\ popped' = IF ring # <<>> THEN Head(ring) ELSE popped
       /\ ring' = IF ring # <<>> THEN Tail(ring) ELSE ring

ReadLevel ==
  /\ pc = "idle" /\ pc' = "resync" /\ lvl' = Len(ring)
  /\ inStep' = (inStep \/ Len(slots) = NSlots)
  /\ since' = IF inStep THEN since ELSE commits
  /\ UNCHANGED <<gateware, popped, budget, ptp, pair, delay>>

Excess(level) == level > ResyncLimit

ResyncPop ==
  /\ pc = "resync" /\ Excess(lvl)
  /\ lvl' = lvl - 1 /\ Pop
  /\ UNCHANGED <<air, nsync, commits, slots, pc, budget, ptp, inStep, since, pair, delay>>

ResyncDone ==
  /\ pc = "resync" /\ ~Excess(lvl)
  /\ pc' = "drain" /\ budget' = DrainBudget
  /\ UNCHANGED <<gateware, popped, lvl, ptp, inStep, since, pair, delay>>

(* The early drop by destination address.                                   *)
Keep(msg) == msg # Audio

(* Mutant: a filtered frame keeps its timestamp. *)
DropUnpopped ==
  /\ pc = "drain" /\ budget > 0 /\ slots # <<>> /\ ~Keep(Head(slots).msg)
  /\ budget' = budget - 1
  /\ slots' = Tail(slots)
  /\ UNCHANGED <<ring, popped, air, nsync, commits, pc, lvl, ptp, inStep, since, pair, delay>>

(* A filtered frame: its timestamp goes with it.                            *)
Drop ==
  /\ pc = "drain" /\ budget > 0 /\ slots # <<>> /\ ~Keep(Head(slots).msg)
  /\ budget' = budget - 1
  /\ Pop /\ slots' = Tail(slots)
  /\ UNCHANGED <<air, nsync, commits, pc, lvl, ptp, inStep, since, pair, delay>>

(* A frame that is kept: the timestamp is popped before its handler runs,   *)
(* and the slot is released after it.                                       *)
Take ==
  /\ pc = "drain" /\ budget > 0 /\ slots # <<>> /\ Keep(Head(slots).msg)
  /\ budget' = budget - 1
  /\ Pop /\ pc' = "handle"
  /\ UNCHANGED <<air, nsync, commits, slots, lvl, ptp, inStep, since, pair, delay>>

DrainDone ==
  /\ pc = "drain" /\ (slots = <<>> \/ budget = 0)
  /\ pc' = "idle" /\ lvl' = 0 /\ budget' = 0
  /\ UNCHANGED <<gateware, popped, ptp, inStep, since, pair, delay>>

----------------------------------------------------------------------------
(* ptpv1_rx.                                                                *)

(* servo_update as seen from here: afterwards frequency acquisition runs or *)
(* does not.                                                                *)
Servo(p) == \E acq \in BOOLEAN : ptp' = [p EXCEPT !.acq_active = acq]

(* try_compute_offset: a t1 and a t2 make a pair, and both are used up.     *)
try_compute_offset(p) ==
  IF p.have_t1 /\ p.have_t2
    THEN /\ pair' = [t1 |-> p.t1, t2 |-> p.t2, ts |-> p.ts, frame |-> p.frame,
                     inStep |-> inStep /\ p.frame > since]
         /\ Servo([p EXCEPT !.have_t1 = FALSE, !.have_t2 = FALSE,
                            !.have_t2_t1 = TRUE])
    ELSE ptp' = p /\ UNCHANGED pair

(* CTRL_SYNC: whoever sends it is the leader; t2 is the popped timestamp.   *)
(* A two-step Sync waits for its Follow_Up, a one-step Sync carries t1.     *)
RxSync(f) ==
  LET m == f.msg.m  n == f.msg.n  two == f.msg.kind = "sync2"
      p == [ptp EXCEPT !.have_master = TRUE, !.have_t2 = TRUE,
                       !.t2 = <<m, n>>, !.ts = popped, !.frame = f.id]
  IN  /\ try_compute_offset(IF two
           THEN [p EXCEPT !.pending = n, !.awaiting = TRUE, !.have_t1 = FALSE]
           ELSE [p EXCEPT !.t1 = <<m, n>>, !.awaiting = FALSE, !.have_t1 = TRUE])
      /\ UNCHANGED delay

(* Mutant: any Follow_Up is taken. *)
AssociatedAny(msg) == ptp.awaiting

(* Is this the Follow_Up of the Sync we hold a t2 for?                      *)
Associated(msg) == ptp.awaiting /\ msg.n = ptp.pending

RxFollowUp(f) ==
  /\ IF Associated(f.msg)
       THEN try_compute_offset([ptp EXCEPT !.t1 = <<f.msg.m, f.msg.n>>, !.have_t1 = TRUE,
                                           !.awaiting = FALSE])
       ELSE UNCHANGED <<ptp, pair>>
  /\ UNCHANGED delay

(* Mutant: the answer's sequence number is not compared. *)
AnswersAny(msg) == ~ptp.acq_active /\ ptp.have_t3 /\ ptp.have_t2_t1

(* Does this Delay_Resp answer our last Delay_Req?  (Answers to other       *)
(* slaves and absurd delays are left out.)                                  *)
Answers(msg) == ~ptp.acq_active /\ ptp.have_t3 /\ msg.n = ptp.seq - 1 /\ ptp.have_t2_t1

RxDelayResp(f) ==
  /\ IF Answers(f.msg)
       THEN /\ ptp' = [ptp EXCEPT !.have_t3 = FALSE]
            /\ delay' = [req |-> ptp.t3, resp |-> f.msg.n, again |-> delay.req = ptp.t3]
       ELSE UNCHANGED <<ptp, delay>>
  /\ UNCHANGED pair

Handle ==
  /\ pc = "handle" /\ pc' = "drain"
  /\ LET f == Head(slots)
     IN  CASE f.msg.kind \in {"sync1", "sync2"} -> RxSync(f)
           [] f.msg.kind = "followup" -> RxFollowUp(f)
           [] f.msg.kind = "resp" -> RxDelayResp(f)
           [] OTHER -> UNCHANGED <<ptp, pair, delay>>     \* ARP, mDNS, ...
  /\ slots' = Tail(slots)
  /\ UNCHANGED <<air, nsync, commits, ring, popped, lvl, budget, inStep, since>>

(* ptpv1_poll and send_delay_req: a request replaces the one before, t3 is  *)
(* read back once the frame has left.                                       *)
ptpv1_poll ==
  /\ pc = "idle" /\ ptp.have_master /\ ptp.seq <= MaxReq
  /\ ptp' = [ptp EXCEPT !.t3 = ptp.seq, !.have_t3 = TRUE, !.seq = @ + 1]
  /\ air' = air \cup {Msg("resp", 0, ptp.seq)}
  /\ UNCHANGED <<nsync, commits, slots, ring, popped, pc, lvl, budget, inStep, since, pair, delay>>

dispatch_rx == ReadLevel \/ ResyncPop \/ ResyncDone \/ Drop \/ Take \/ Handle \/ DrainDone

Next == \/ \E m \in Masters, two \in BOOLEAN : SendSync(m, two)
        \/ \E msg \in air \cup {Audio, Msg("other", 0, 0)} : Commit(msg)
        \/ dispatch_rx
        \/ ptpv1_poll

Spec == Init /\ [][Next]_vars

----------------------------------------------------------------------------
TypeOK ==
  /\ commits \in 0..MaxCommits /\ nsync \in [Masters -> 0..MaxSync]
  /\ Len(ring) <= RingDepth /\ Len(slots) <= NSlots
  /\ \A i \in DOMAIN ring : ring[i] \in (-RingDepth)..MaxCommits
  /\ pc \in {"idle", "resync", "drain", "handle"}
  /\ lvl \in 0..RingDepth /\ budget \in 0..DrainBudget
  /\ ptp.seq \in 1..(MaxReq + 1)

(* Frames in the slots whose timestamp has not been popped yet.             *)
Unpopped == Len(slots) - (IF pc = "handle" THEN 1 ELSE 0)

(* Once a dispatch has found every slot filled, the ring and the slots stay *)
(* in step for good: whatever the loader left, whatever was filtered and    *)
(* whenever the gateware commits, the ring holds one timestamp per frame.   *)
RingInStep == inStep /\ pc # "resync" => Len(ring) = Unpopped

(* The t2 of a Sync committed after that dispatch is its own receive time.  *)
(* (A frame committed before, while the ring was full, has none.)           *)
OwnTimestamp == pair.inStep => pair.ts = pair.frame

(* t1 and t2 of a resolved pair are of one Sync, however Syncs and          *)
(* Follow_Ups are lost, repeated and reordered: ptpv1.c:758-759, "otherwise *)
(* we would pair mismatched timestamps".  With two leaders it fails.        *)
PairsOneSync == pair.t1 = pair.t2

(* TELEMETRY_AND_PTP.md:60-62: "A lost FollowUp or DelayResp mispairs with  *)
(* the wrong Sync", that is, a Follow_Up that finds another Sync waiting    *)
(* makes a pair with it.  It does not: it is ignored.                       *)
LossMispairs ==
  [][(/\ pc = "handle" /\ pc' = "drain" /\ Head(slots).msg.kind = "followup"
      /\ ptp.awaiting /\ Head(slots).msg.n # ptp.pending)
       => pair' # pair]_vars

(* A path delay is measured from the very request that the answer is for,   *)
(* and at most once.                                                        *)
DelaySampleOwn == delay.req = delay.resp /\ ~delay.again

(* Ring and slots within their depths and, once found filled, in step.      *)
RingSound == TypeOK /\ RingInStep
=============================================================================
