----------------------------- MODULE Packetizer -----------------------------
(***************************************************************************)
(* The pacing and frame-building half of dante_packetizer.py, with the     *)
(* firmware accesses of dante_tx.c that race with it.  The gateware is     *)
(* synchronous, so a step of this model is one (scaled) system-clock       *)
(* cycle in which every register takes its next value at once: the media   *)
(* clock and its timestamp, the per-context pacing phases and pending      *)
(* bits, the builder, and at most one CSR access of the firmware.          *)
(*                                                                         *)
(* The talker is enabled, the sample ring primed and the timestamp counter *)
(* left to run throughout: ts_anchor and the read alignment of the first   *)
(* block after enabling are not part of this model.  Sample values,        *)
(* channel maps and destinations are left out: a frame is its timestamp    *)
(* and the position of the audio window it copies.  The constant skew      *)
(* that g_phase_adj compensates is taken as zero on both sides, and        *)
(* ts_offset is the zero that the firmware writes.                         *)
(***************************************************************************)
EXTENDS Integers, FiniteSets

CONSTANTS
    N_CTX,          \* flow contexts (n_ctx)
    FPP_TABLE,      \* frames per packet a flow may ask for
    FPP0,           \* entry 0 of the table: what a cleared flow_cfg selects
    SLOTS,          \* slot counts of a flow that is on
    SUBSEC_MAX,     \* samples per second
    SECONDS,        \* the seconds counter wraps here
    DIV,            \* system-clock cycles per sample strobe
    BEAT,           \* slot-samples copied in one cycle of BUILD
    BYTE_WRAP,      \* byte_idx wraps here
    WORD_WRAP,      \* rd_idx wraps here
    STALL,          \* cycles for which the MAC may hold one frame back
    MAX_TRIES,      \* seqlock attempts of write_ctx
    BURST,          \* contexts one request may clear (all of them, in the code)
    REST            \* strobes between two requests the firmware serves

Ctx == 0 .. N_CTX - 1

ASSUME PacketizerAssumption ==
    /\ {N_CTX, SECONDS, DIV, BEAT, MAX_TRIES} \subseteq Nat \ {0}
    /\ BURST \in 1 .. N_CTX
    /\ {STALL, REST} \subseteq Nat /\ SUBSEC_MAX \in Nat \ {0}
    /\ DIV >= 5 /\ MAX_TRIES >= 2    \* a second attempt of the seqlock ends before the next strobe
    /\ FPP0 \in FPP_TABLE /\ SLOTS \subseteq Nat \ {0}
    /\ \A f \in FPP_TABLE : /\ f \in Nat \ {0}
                            /\ SUBSEC_MAX % f = 0
    /\ \A f \in FPP_TABLE, s \in SLOTS :
          /\ BEAT <= s * f             \* at least one cycle of samples follows the header
          /\ 1 + (s * f) \div BEAT < BYTE_WRAP
          /\ 1 + (s * f) \div BEAT <= WORD_WRAP
    /\ {BYTE_WRAP, WORD_WRAP} \subseteq Nat \ {0}

VARIABLES
    clk,      \* cycles since the last sample strobe
    ts,       \* the media-clock timestamp counter, ts_sec and ts_sub
    rd,       \* the ring's read position in samples, modulo SUBSEC_MAX
    latch,    \* ts_sec_emit, ts_sub_emit and rd_snap, shared by all contexts
    ctx,      \* cfg_arr: slot count (0 is off) and fpp of each context
    phase,    \* phase_arr
    pend,     \* pend: a frame of this context is due
    b,        \* the builder: FSM state, stream_idx, byte_idx, rd_idx
    frame,    \* the frame in frame_mem
    fw,       \* the firmware: what it is doing to which context
    due       \* history: what each context was last due for

vars == <<clk, ts, rd, latch, ctx, phase, pend, b, frame, fw, due>>

Off == [slots |-> 0, fpp |-> FPP0]
Flow == [slots : SLOTS, fpp : FPP_TABLE]
Time == [sec : 0 .. SECONDS - 1, sub : 0 .. SUBSEC_MAX - 1]

Zero == [sec |-> 0, sub |-> 0]
Start == [time |-> Zero, rd |-> 0]
Blank == [time |-> Zero, fpp |-> FPP0, base |-> {}, due |-> Start,
          same |-> FALSE, own |-> FALSE]

-----------------------------------------------------------------------------
(* The media clock. *)

Strobe == clk = DIV - 1

(* A context is due on the strobe that completes its group of fpp samples. *)
Due(i) == ctx[i].slots # 0 /\ phase[i] = ctx[i].fpp - 1
AnyDue == \E i \in Ctx : Due(i)
AnyPend == \E i \in Ctx : pend[i]

NextTime(t) ==
    IF t.sub = SUBSEC_MAX - 1
    THEN [sec |-> (t.sec + 1) % SECONDS, sub |-> 0]
    ELSE [t EXCEPT !.sub = @ + 1]

Tick ==
    /\ clk' = (clk + 1) % DIV
    /\ ts' = IF Strobe THEN NextTime(ts) ELSE ts
    /\ rd' = IF Strobe THEN (rd + 1) % SUBSEC_MAX ELSE rd
    /\ latch' = IF Strobe /\ AnyDue THEN [time |-> ts, rd |-> rd] ELSE latch

(* The firmware's write of flow_cfg in this cycle, if any. *)
CfgWrite(i) == fw.step \in {"cfg", "off"} /\ fw.ctx = i

(* A flow_cfg write loads flow_phase; otherwise every strobe counts.  The  *)
(* phase of a context that is off is never read before it is loaded again, *)
(* and is kept at 0.                                                       *)
AdvancePhase(p, f) == IF p = f - 1 THEN 0 ELSE p + 1

Phases ==
    phase' = [i \in Ctx |-> IF CfgWrite(i) THEN fw.seed
                            ELSE IF ctx[i].slots = 0 THEN 0
                            ELSE IF Strobe THEN AdvancePhase(phase[i], ctx[i].fpp)
                            ELSE phase[i]]

-----------------------------------------------------------------------------
(* The builder. *)

(* f_total, in build cycles: one for the header and the rest for samples. *)
FrameBeats(c) == 1 + (c.slots * c.fpp) \div BEAT

(* The start of the window that ends at the latched time, with the borrow  *)
(* into seconds.                                                           *)
WindowStart(t, f) ==
    IF t.sub < f - 1
    THEN [sec |-> (t.sec - 1) % SECONDS, sub |-> t.sub + SUBSEC_MAX - (f - 1)]
    ELSE [t EXCEPT !.sub = @ - (f - 1)]

(* Mutant: the live read pointer instead of its snapshot. *)
BaseLive(f) == (rd - f) % SUBSEC_MAX

(* f_base: where the audio window starts in the ring. *)
Base(f) == (latch.rd - f) % SUBSEC_MAX

Cur == ctx[b.idx]

At0 == [state |-> "IDLE", idx |-> 0, byte |-> 0, word |-> 0, stall |-> 0]
Goto(s) == b' = [b EXCEPT !.state = s]

(* The walk goes on to the next context, or the builder is done. *)
Advance ==
    IF b.idx # N_CTX - 1
    THEN b' = [At0 EXCEPT !.state = "CHECK", !.idx = b.idx + 1]
    ELSE b' = At0

(* Mutant: the walk starts only on the cycle after a due. *)
WalkStartsOnPulse == clk = 0 /\ \E i \in Ctx : ctx[i].slots # 0 /\ phase[i] = 0

(* A walk starts while anything is pending, not on the send_req pulse. *)
WalkStarts == AnyPend

Idle ==
    /\ b.state = "IDLE"
    /\ IF WalkStarts
       THEN Goto("CHECK")
       ELSE UNCHANGED b
    /\ UNCHANGED frame

Check ==
    /\ b.state = "CHECK"
    /\ IF Cur.slots = 0 \/ ~pend[b.idx]
       THEN Goto("SKIP") /\ UNCHANGED frame
       ELSE /\ Goto("BUILD")
            /\ frame' = [frame EXCEPT !.base = {}, !.due = due[b.idx].at,
                                      !.same = due[b.idx].same /\ ~CfgWrite(b.idx),
                                      !.own = TRUE]

Skip == b.state = "SKIP" /\ Advance /\ UNCHANGED frame

(* One cycle of BUILD: the header with the timestamp first, then samples,  *)
(* each cycle from the registers as they are in that cycle.  The length is *)
(* compared for equality, so byte_idx runs on and wraps when the context   *)
(* is rewritten to something shorter than what is already built.           *)
Build ==
    /\ b.state = "BUILD"
    /\ frame' =
         [frame EXCEPT
            !.time  = IF b.byte = 0 THEN WindowStart(latch.time, Cur.fpp) ELSE @,
            !.fpp   = IF b.byte = 0 THEN Cur.fpp ELSE @,
            !.base  = IF b.byte = 0 THEN {} ELSE @ \cup {Base(Cur.fpp)},
            !.same  = @ /\ ~CfgWrite(b.idx),
            !.own   = @ /\ due[b.idx].own]
    /\ b' = IF b.byte = FrameBeats(Cur) - 1
            THEN [b EXCEPT !.state = "PREFETCH", !.byte = 0]
            ELSE [b EXCEPT !.byte = (@ + 1) % BYTE_WRAP]

Prefetch == b.state = "PREFETCH" /\ Goto("STREAM") /\ UNCHANGED frame

(* The MAC takes the last word of the frame in this cycle. *)
LastBeat == b.state = "STREAM" /\ b.word = FrameBeats(Cur) - 1

StreamBeat ==
    /\ b.state = "STREAM"
    /\ IF LastBeat THEN Advance /\ frame' = Blank
       ELSE b' = [b EXCEPT !.word = (@ + 1) % WORD_WRAP] /\ UNCHANGED frame

(* The arbiter or the MAC is not ready. *)
StreamStall ==
    /\ b.state = "STREAM" /\ b.stall < STALL
    /\ b' = [b EXCEPT !.stall = @ + 1]
    /\ UNCHANGED frame

(* A due sets the bit and wins over the builder's clear in the same cycle. *)
NextPend(i, served) ==
    IF Strobe /\ Due(i) THEN TRUE ELSE pend[i] /\ ~(served /\ b.idx = i)

(* The pending bits, and the history of each context: the time and ring    *)
(* position at which it was last due, whether the shared latch is still    *)
(* the one of that strobe, whether its flow is the one that came due, and  *)
(* how many of that flow's due frames have not been sent.                  *)
Pending(served) ==
    /\ pend' = [i \in Ctx |-> NextPend(i, served)]
    /\ due' = [i \in Ctx |->
         LET now  == Strobe /\ Due(i)
             bit  == IF NextPend(i, served) THEN 1 ELSE 0
             same == bit = 0 \/ (due[i].same /\ ~CfgWrite(i))
             n    == due[i].owed + (IF now THEN 1 ELSE 0)
                                 - (IF served /\ b.idx = i THEN 1 ELSE 0)
         IN  [at   |-> IF now THEN [time |-> ts, rd |-> rd]
                       ELSE IF bit = 0 THEN Start ELSE due[i].at,
              own  |-> bit = 1 /\ IF Strobe /\ AnyDue THEN Due(i) ELSE due[i].own,
              same |-> same,
              owed |-> IF due[i].same /\ same THEN IF n > 2 THEN 2 ELSE n ELSE bit]]

Builder ==
    \/ (Idle \/ Check \/ Skip \/ Build \/ Prefetch \/ StreamStall) /\ Pending(FALSE)
    \/ StreamBeat /\ Pending(LastBeat)

-----------------------------------------------------------------------------
(* The firmware: one CSR access per cycle while it is at work. *)

(* No request in progress.  left is the number of contexts that a request  *)
(* may still clear.                                                        *)
Rest == [step |-> "none", ctx |-> 0, flow |-> Off, s0 |-> 0, seed |-> 0,
         tries |-> 0, rest |-> 0, left |-> 0]
Done == [Rest EXCEPT !.rest = REST]
Quiet == fw.step = "none"
Ready == Quiet /\ fw.rest = 0

(* Contexts the flow table has in use. *)
Bound == {i \in Ctx : ctx[i].slots # 0}

FwWait ==
    /\ Quiet
    /\ fw' = [fw EXCEPT !.rest = IF Strobe /\ @ > 0 THEN @ - 1 ELSE @]
    /\ UNCHANGED ctx

(* write_ctx for context i: the seqlock of the pacing phase. *)
BindStart ==
    /\ Ready
    /\ \E i \in Ctx, f \in Flow :
          fw' = [fw EXCEPT !.step = "read", !.ctx = i, !.flow = f, !.tries = 0]
    /\ UNCHANGED ctx

ReadNow ==
    /\ fw.step = "read"
    /\ fw' = [fw EXCEPT !.step = "cfg", !.s0 = ts.sub, !.seed = ts.sub % fw.flow.fpp]
    /\ UNCHANGED ctx

WriteCfg ==
    /\ fw.step = "cfg"
    /\ ctx' = [ctx EXCEPT ![fw.ctx] = fw.flow]
    /\ fw' = [fw EXCEPT !.step = "again", !.tries = @ + 1]

(* Mutant: one attempt, whatever the counter did meanwhile. *)
SeqlockDoneAtOnce == TRUE

(* The loop ends when the counter has not moved or the attempts are used up. *)
SeqlockDone == ts.sub = fw.s0 \/ fw.tries = MAX_TRIES

ReadAgain ==
    /\ fw.step = "again"
    /\ fw' = IF SeqlockDone THEN Done
             ELSE [fw EXCEPT !.step = "read"]
    /\ UNCHANGED ctx

(* dante_tx_unbind clears flow_cfg, whatever the builder is doing.  One    *)
(* request may clear several contexts: dante_tx_drop_all, the sweep of     *)
(* stale flows and a deletion of several ids do so in one loop.            *)
UnbindStart ==
    /\ Ready
    /\ \E i \in Bound : fw' = [fw EXCEPT !.step = "off", !.ctx = i,
                                         !.left = BURST - 1]
    /\ UNCHANGED ctx

WriteOff ==
    /\ fw.step = "off"
    /\ ctx' = [ctx EXCEPT ![fw.ctx] = Off]
    /\ fw' = [fw EXCEPT !.step = "next"]

(* After a clear the loop looks for another context, for any number of     *)
(* cycles, and clears it ...                                               *)
BurstWait == fw.step = "next" /\ UNCHANGED <<fw, ctx>>

BurstUnbind ==
    /\ fw.step = "next" /\ fw.left > 0
    /\ \E i \in Bound : fw' = [fw EXCEPT !.step = "off", !.ctx = i, !.left = @ - 1]
    /\ UNCHANGED ctx

(* ... or a bundle takes the one context that was evicted for it ...       *)
EvictedBind ==
    /\ fw.step = "next" /\ fw.left = BURST - 1
    /\ \E f \in Flow : fw' = [fw EXCEPT !.step = "read", !.flow = f, !.tries = 0]
    /\ UNCHANGED ctx

(* ... or the request is served.                                           *)
BurstEnd == fw.step = "next" /\ fw' = Done /\ UNCHANGED ctx

Bind == BindStart \/ ReadNow \/ WriteCfg \/ ReadAgain
Burst == BurstWait \/ BurstUnbind \/ EvictedBind \/ BurstEnd
Unbind == UnbindStart \/ WriteOff \/ Burst

-----------------------------------------------------------------------------
Init ==
    /\ clk = 0 /\ rd = 0
    /\ ts = Zero
    /\ latch = Start
    /\ ctx = [i \in Ctx |-> Off]
    /\ phase = [i \in Ctx |-> 0]
    /\ pend = [i \in Ctx |-> FALSE]
    /\ b = At0
    /\ due = [i \in Ctx |-> [at |-> Start, own |-> FALSE, same |-> TRUE, owed |-> 0]]
    /\ frame = Blank
    /\ fw = Rest

Gateware == Tick /\ Phases /\ Builder

Next == Gateware /\ (FwWait \/ Bind \/ Unbind)

Spec == Init /\ [][Next]_vars

-----------------------------------------------------------------------------
(* Properties. *)

Position == [time : Time, rd : 0 .. SUBSEC_MAX - 1]

(* Every register stays within its field; in particular the timestamp of a *)
(* frame is a second and a sample within it, also when the window starts   *)
(* in the previous second.                                                 *)
TypeOK ==
    /\ clk \in 0 .. DIV - 1
    /\ ts \in Time
    /\ rd \in 0 .. SUBSEC_MAX - 1
    /\ latch \in Position
    /\ ctx \in [Ctx -> Flow \cup {Off}]
    /\ phase \in [Ctx -> Nat] /\ \A i \in Ctx : phase[i] < ctx[i].fpp
    /\ pend \in [Ctx -> BOOLEAN]
    /\ b \in [state : {"IDLE", "CHECK", "SKIP", "BUILD", "PREFETCH", "STREAM"},
              idx : Ctx, byte : 0 .. BYTE_WRAP - 1, word : 0 .. WORD_WRAP - 1,
              stall : 0 .. STALL]
    /\ frame \in [time : Time, fpp : FPP_TABLE, base : SUBSET (0 .. SUBSEC_MAX - 1),
                  due : Position, same : BOOLEAN, own : BOOLEAN]
    /\ fw \in [step : {"none", "read", "cfg", "again", "off", "next"},
               ctx : Ctx, flow : Flow \cup {Off}, s0 : 0 .. SUBSEC_MAX - 1,
               seed : 0 .. SUBSEC_MAX - 1, tries : 0 .. MAX_TRIES,
               rest : 0 .. REST, left : 0 .. BURST - 1]
    /\ due \in [Ctx -> [at : Position, own : BOOLEAN, same : BOOLEAN,
                       owed : 0 .. 2]]

(* No due frame is lost and none is sent twice: whatever the interleaving  *)
(* of strobes, walks of the builder and CSR writes, the frames a context   *)
(* owes for its flow are exactly its pending bit.                          *)
NoDueLost == \A i \in Ctx : due[i].owed = IF pend[i] THEN 1 ELSE 0

(* write_ctx's seqlock: once a context is bound, its pacing phase is the   *)
(* sample counter modulo its packet size, for ever and across seconds, so  *)
(* that it comes due on the last sample of an aligned group.               *)
PhaseAligned ==
    \A i \in Ctx : ctx[i].slots # 0 /\ Quiet
                      => phase[i] = ts.sub % ctx[i].fpp

(* A frame that goes out untouched by CSR writes, and before another       *)
(* context came due, is stamped with the first sample of the group that    *)
(* made its context due, and copies that group and no other from the ring. *)
StampAndWindow ==
    b.state = "STREAM" /\ frame.same /\ frame.own
       => /\ frame.time = WindowStart(frame.due.time, frame.fpp)
          /\ frame.base = {(frame.due.rd - frame.fpp) % SUBSEC_MAX}

(* Counters and window starts stay within a second (the borrow of the       *)
(* builder), and phases on the sample grid.                                 *)
PhaseSound == TypeOK /\ PhaseAligned
=============================================================================
