------------------------- MODULE Packetizer_proofs -------------------------
(***************************************************************************)
(* Pacing and frame building for any number of contexts, any packet sizes  *)
(* that divide a second and any lengths of frames and back-pressure.       *)
(***************************************************************************)
EXTENDS Packetizer, WellFoundedInduction, TLAPS

(* The seqlock of write_ctx: an attempt that saw the counter move has at    *)
(* most two cycles behind it since the strobe, so the next attempt ends     *)
(* before another.                                                          *)
Binding(i) == fw.step \in {"read", "cfg", "again"} /\ fw.ctx = i
PhaseInv ==
  /\ \A i \in Ctx : ctx[i].slots # 0 /\ ~Binding(i) => phase[i] = ts.sub % ctx[i].fpp
  /\ fw.step \in {"none", "off", "next"} => fw.seed = 0
  /\ fw.step \in {"read", "cfg", "again"} => fw.flow \in Flow
  /\ fw.step = "read" => fw.tries = 0 \/ (fw.tries = 1 /\ clk \in {1, 2})
  /\ fw.step = "cfg" => /\ fw.seed = fw.s0 % fw.flow.fpp
                        /\ \/ fw.tries = 0 /\ (ts.sub = fw.s0 \/ clk = 0)
                           \/ fw.tries = 1 /\ ts.sub = fw.s0 /\ clk \in {2, 3}
  /\ fw.step = "again" => /\ ctx[fw.ctx] = fw.flow /\ phase[fw.ctx] = fw.s0 % fw.flow.fpp
                          /\ \/ fw.tries = 1 /\ (ts.sub = fw.s0 \/ clk \in {0, 1})
                             \/ fw.tries = 2 /\ ts.sub = fw.s0

(* The window of the group for which a frame was due.                       *)
Window(f) == {(f.due.rd - f.fpp) % SUBSEC_MAX}
Stamped(f) == f.time = WindowStart(f.due.time, f.fpp)

(* A frame is built or sent only for a pending context, and a pending       *)
(* context owes a frame: what is served is never taken from nothing.        *)
BusyInv ==
  /\ b.state \in {"IDLE", "CHECK", "SKIP"} => b.byte = 0
  /\ b.state \in {"BUILD", "PREFETCH", "STREAM"} => pend[b.idx]
  /\ \A i \in Ctx : pend[i] => due[i].owed >= 1

(* While a frame is built undisturbed, what is built so far is taken from   *)
(* the due it was started for, and the latch is the one of that due.        *)
FrameInv ==
  /\ b.state = "BUILD" /\ frame.same =>
       /\ due[b.idx].same /\ frame.due = due[b.idx].at /\ Cur.slots # 0
       /\ frame.own /\ b.byte > 0 =>
            /\ frame.fpp = Cur.fpp /\ Stamped(frame)
            /\ frame.base = IF b.byte = 1 THEN {} ELSE Window(frame)
  /\ b.state \in {"PREFETCH", "STREAM"} /\ frame.same /\ frame.own =>
       Stamped(frame) /\ frame.base = Window(frame)
StampInv ==
  /\ \A i \in Ctx : due[i].own => pend[i] /\ latch = due[i].at
  /\ FrameInv

(* The registers, one by one.                                               *)
Subs == 0 .. SUBSEC_MAX - 1
States == {"IDLE", "CHECK", "SKIP", "BUILD", "PREFETCH", "STREAM"}
BuilderState == [state : States, idx : Ctx, byte : 0 .. BYTE_WRAP - 1,
                 word : 0 .. WORD_WRAP - 1, stall : 0 .. STALL]
FrameState == [time : Time, fpp : FPP_TABLE, base : SUBSET Subs, due : Position,
               same : BOOLEAN, own : BOOLEAN]
FwState == [step : {"none", "read", "cfg", "again", "off", "next"}, ctx : Ctx,
            flow : Flow \cup {Off}, s0 : Subs, seed : Subs, tries : 0 .. MAX_TRIES,
            rest : 0 .. REST, left : 0 .. BURST - 1]
DueState == [at : Position, own : BOOLEAN, same : BOOLEAN, owed : 0 .. 2]

ClockType == clk \in 0 .. DIV - 1 /\ ts \in Time /\ rd \in Subs /\ latch \in Position
PhaseType == phase \in [Ctx -> Nat] /\ \A i \in Ctx : phase[i] < ctx[i].fpp
ContextType == ctx \in [Ctx -> Flow \cup {Off}] /\ fw \in FwState
BuilderType == b \in BuilderState /\ frame \in FrameState
PendingType == pend \in [Ctx -> BOOLEAN] /\ due \in [Ctx -> DueState]

-----------------------------------------------------------------------------
LEMMA ConstantTypes ==
  /\ N_CTX \in Nat /\ N_CTX > 0 /\ SECONDS \in Nat /\ SECONDS > 0 /\ DIV \in Nat /\ DIV >= 5
  /\ BEAT \in Nat /\ BEAT > 0 /\ MAX_TRIES \in Nat /\ MAX_TRIES >= 2 /\ STALL \in Nat /\ REST \in Nat
  /\ BURST \in Nat /\ BURST > 0
  /\ SUBSEC_MAX \in Nat /\ SUBSEC_MAX > 0 /\ BYTE_WRAP \in Nat /\ BYTE_WRAP > 0
  /\ WORD_WRAP \in Nat /\ WORD_WRAP > 0 /\ FPP0 \in FPP_TABLE
  /\ \A f \in FPP_TABLE : f \in Nat \ {0} /\ f > 0 /\ SUBSEC_MAX % f = 0
  /\ \A s \in SLOTS : s \in Nat /\ s > 0
  /\ \A f \in FPP_TABLE, s \in SLOTS : BEAT <= s * f /\ 1 + (s * f) \div BEAT < BYTE_WRAP
BY PacketizerAssumption

LEMMA ZeroTypes ==
  /\ 0 \in Subs /\ 0 \in Ctx /\ Zero \in Time /\ Start \in Position /\ 0 \in 0 .. BYTE_WRAP - 1
  /\ 0 \in 0 .. WORD_WRAP - 1 /\ 0 \in 0 .. STALL /\ Off.slots = 0 /\ Off.fpp = FPP0
  /\ \A f \in Flow : f.slots \in SLOTS /\ f.fpp \in FPP_TABLE /\ f.slots # 0
  /\ \A f \in Flow \cup {Off} : f.fpp \in FPP_TABLE /\ (f.slots # 0 => f \in Flow)
<1>1. 0 \in Subs /\ 0 \in Ctx /\ 0 \in 0 .. SECONDS - 1 /\ 0 \in 0 .. BYTE_WRAP - 1
      /\ 0 \in 0 .. WORD_WRAP - 1 /\ 0 \in 0 .. STALL
  BY ConstantTypes DEF Subs, Ctx
<1>2. Zero \in Time
  BY <1>1 DEF Zero, Time, Subs
<1>3. Start \in Position
  BY <1>1, <1>2 DEF Start, Position, Subs
<1>4. Off.slots = 0 /\ Off.fpp = FPP0
  BY DEF Off
<1>5. \A f \in Flow : f.slots \in SLOTS /\ f.fpp \in FPP_TABLE /\ f.slots # 0
  BY ConstantTypes DEF Flow
<1>. QED
  BY <1>1, <1>2, <1>3, <1>4, <1>5, ConstantTypes

LEMMA TypeParts ==
  TypeOK <=> ClockType /\ PhaseType /\ ContextType /\ BuilderType /\ PendingType
BY DEF TypeOK, ClockType, PhaseType, ContextType, BuilderType, PendingType, Subs, States,
       BuilderState, FrameState, FwState, DueState

(* Remainders.                                                              *)
LEMMA DivMod ==
  ASSUME NEW x \in Nat, NEW f \in Nat \ {0}
  PROVE  x = (f * (x \div f)) + (x % f) /\ x \div f \in Int /\ x % f \in 0 .. f - 1
OBVIOUS

LEMMA ModUnique ==
  ASSUME NEW q \in Int, NEW r \in Int, NEW f \in Nat \ {0}, 0 <= r, r < f
  PROVE  ((f * q) + r) % f = r
OBVIOUS

LEMMA ModRange ==
  ASSUME NEW x \in Int, NEW f \in Nat, f > 0
  PROVE  x % f \in 0 .. f - 1
OBVIOUS

LEMMA ModZero ==
  ASSUME NEW f \in Nat \ {0}
  PROVE  0 % f = 0
OBVIOUS

LEMMA ModNext ==
  ASSUME NEW x \in Nat, NEW f \in Nat \ {0}
  PROVE  (x + 1) % f = AdvancePhase(x % f, f)
<1> DEFINE q == x \div f
           r == x % f
<1>1. x = (f * q) + r /\ q \in Int /\ r \in 0 .. f - 1
  BY DivMod
<1> HIDE DEF q, r
<1>2. CASE r = f - 1
  <2>1. x + 1 = (f * (q + 1)) + 0
    BY <1>1, <1>2
  <2>2. ((f * (q + 1)) + 0) % f = 0
    BY <1>1, ModUnique
  <2>. QED
    BY <1>2, <2>1, <2>2 DEF r, AdvancePhase
<1>3. CASE r # f - 1
  <2>1. x + 1 = (f * q) + (r + 1) /\ r + 1 < f /\ r + 1 \in Int /\ 0 <= r + 1
    BY <1>1, <1>3
  <2>2. ((f * q) + (r + 1)) % f = r + 1
    BY <1>1, <2>1, ModUnique
  <2>. QED
    BY <1>3, <2>1, <2>2 DEF r, AdvancePhase
<1>. QED
  BY <1>2, <1>3

(* A packet size divides a second, so a strobe moves the phase and the      *)
(* sample counter alike, also where the counter wraps.                      *)
LEMMA StrobePhase ==
  ASSUME NEW t \in Time, NEW f \in FPP_TABLE
  PROVE  /\ NextTime(t) \in Time /\ t.sub \in Subs
         /\ NextTime(t).sub % f = AdvancePhase(t.sub % f, f)
<1>1. f \in Nat \ {0} /\ SUBSEC_MAX % f = 0
  BY ConstantTypes
<1>2. t.sub \in Subs /\ t.sub \in Nat /\ t.sec \in 0 .. SECONDS - 1
  BY ConstantTypes DEF Time, Subs
<1>3. (t.sub + 1) % f = AdvancePhase(t.sub % f, f)
  BY <1>1, <1>2, ModNext
<1>4. CASE t.sub = SUBSEC_MAX - 1
  <2>1. NextTime(t) = [sec |-> (t.sec + 1) % SECONDS, sub |-> 0]
    BY <1>4 DEF NextTime
  <2>2. (t.sec + 1) % SECONDS \in 0 .. SECONDS - 1
    BY <1>2, ModRange, ConstantTypes
  <2>3. NextTime(t) \in Time /\ NextTime(t).sub = 0
    BY <2>1, <2>2, ConstantTypes DEF Time
  <2>4. t.sub + 1 = SUBSEC_MAX
    BY <1>4, ConstantTypes
  <2>. QED
    BY <1>1, <1>2, <1>3, <2>3, <2>4, ModZero
<1>5. CASE t.sub # SUBSEC_MAX - 1
  <2>1. NextTime(t) = [t EXCEPT !.sub = @ + 1]
    BY <1>5 DEF NextTime
  <2>2. t.sub + 1 \in Subs
    BY <1>2, <1>5, ConstantTypes DEF Subs
  <2>3. NextTime(t) \in Time /\ NextTime(t).sub = t.sub + 1
    BY <2>1, <2>2 DEF Time, Subs
  <2>. QED
    BY <1>2, <1>3, <2>3
<1>. QED
  BY <1>4, <1>5

LEMMA WindowInTime ==
  ASSUME NEW t \in Time, NEW f \in FPP_TABLE
  PROVE  WindowStart(t, f) \in Time
<1>1. f \in Nat /\ f > 0 /\ t.sub \in 0 .. SUBSEC_MAX - 1 /\ t.sec \in 0 .. SECONDS - 1
  BY ConstantTypes DEF Time
<1>2. CASE t.sub < f - 1
  <2>1. (t.sec - 1) % SECONDS \in 0 .. SECONDS - 1
    BY <1>1, ModRange, ConstantTypes
  <2>2. t.sub + SUBSEC_MAX - (f - 1) \in 0 .. SUBSEC_MAX - 1
    <3>1. f <= SUBSEC_MAX
      <4>1. SUBSEC_MAX % f = 0 /\ SUBSEC_MAX \in Nat /\ SUBSEC_MAX > 0 /\ f \in Nat \ {0}
        BY ConstantTypes
      <4>2. f > SUBSEC_MAX => SUBSEC_MAX % f = SUBSEC_MAX
        BY <4>1
      <4>. QED
        BY <4>1, <4>2
    <3>. QED
      BY <1>1, <1>2, <3>1, ConstantTypes
  <2>. QED
    BY <1>2, <2>1, <2>2 DEF WindowStart, Time
<1>3. CASE ~(t.sub < f - 1)
  <2>1. t.sub - (f - 1) \in 0 .. SUBSEC_MAX - 1
    BY <1>1, <1>3, ConstantTypes
  <2>. QED
    BY <1>3, <2>1 DEF WindowStart, Time
<1>. QED
  BY <1>2, <1>3

-----------------------------------------------------------------------------
(* The media clock.                                                         *)
LEMMA ClockStep ==
  ASSUME ClockType, Tick
  PROVE  /\ ClockType'
         /\ Strobe => clk' = 0 /\ ts' = NextTime(ts)
         /\ ~Strobe => clk' = clk + 1 /\ ts' = ts
<1>1. clk \in 0 .. DIV - 1 /\ ts \in Time /\ rd \in Subs /\ latch \in Position /\ DIV \in Nat /\ DIV >= 5
  BY ConstantTypes DEF ClockType
<1>2. /\ Strobe => clk' = 0
      /\ ~Strobe => clk' = clk + 1
      /\ clk' \in 0 .. DIV - 1
  <2>1. CASE clk = DIV - 1
    <3>1. clk + 1 = DIV /\ DIV % DIV = 0
      BY <1>1, <2>1
    <3>. QED
      BY <1>1, <2>1, <3>1 DEF Tick, Strobe
  <2>2. CASE clk # DIV - 1
    <3>1. clk + 1 \in 0 .. DIV - 1
      BY <1>1, <2>2
    <3>2. (clk + 1) % DIV = clk + 1
      BY <1>1, <3>1
    <3>. QED
      BY <2>2, <3>1, <3>2 DEF Tick, Strobe
  <2>. QED
    BY <2>1, <2>2
<1>3. (Strobe => ts' = NextTime(ts)) /\ (~Strobe => ts' = ts)
  BY DEF Tick
<1>4. ts' \in Time
  BY <1>1, <1>3, StrobePhase, ConstantTypes
<1>5. rd' \in Subs
  <2>1. (rd + 1) % SUBSEC_MAX \in 0 .. SUBSEC_MAX - 1
    BY <1>1, ModRange, ConstantTypes DEF Subs
  <2>. QED
    BY <1>1, <2>1 DEF Tick, Subs
<1>6. latch' \in Position
  <2>1. [time |-> ts, rd |-> rd] \in Position
    BY <1>1 DEF Position, Subs
  <2>. QED
    BY <1>1, <2>1 DEF Tick
<1>. QED
  BY <1>2, <1>3, <1>4, <1>5, <1>6 DEF ClockType

-----------------------------------------------------------------------------
(* The firmware.                                                            *)
LEMMA FwFields ==
  ASSUME fw \in FwState
  PROVE  /\ fw.step \in {"none", "read", "cfg", "again", "off", "next"} /\ fw.ctx \in Ctx
         /\ fw.flow \in Flow \cup {Off} /\ fw.s0 \in Subs /\ fw.seed \in Subs
         /\ fw.tries \in 0 .. MAX_TRIES /\ fw.rest \in 0 .. REST /\ fw.left \in 0 .. BURST - 1
BY DEF FwState

LEMMA DoneFacts ==
  Done \in FwState /\ Done.step = "none" /\ Done.seed = 0 /\ Rest \in FwState
  /\ Rest.step = "none" /\ Rest.seed = 0
<1>1. /\ Off \in Flow \cup {Off} /\ 0 \in Subs /\ 0 \in Ctx /\ 0 \in 0 .. MAX_TRIES
      /\ 0 \in 0 .. REST /\ REST \in 0 .. REST /\ 0 \in 0 .. BURST - 1
  BY ZeroTypes, ConstantTypes
<1>2. Rest \in FwState
  BY <1>1 DEF Rest, FwState
<1>3. Done = [step |-> "none", ctx |-> 0, flow |-> Off, s0 |-> 0, seed |-> 0, tries |-> 0, rest |-> REST,
             left |-> 0]
  BY DEF Done, Rest
<1>. QED
  BY <1>1, <1>2, <1>3 DEF FwState, Rest

LEMMA WaitFacts ==
  ASSUME ContextType, FwWait
  PROVE  /\ ContextType' /\ ctx' = ctx /\ fw.step = "none" /\ fw'.step = "none" /\ fw'.seed = fw.seed
<1>1. fw' = [fw EXCEPT !.rest = IF Strobe /\ @ > 0 THEN @ - 1 ELSE @] /\ ctx' = ctx /\ fw.step = "none"
  BY DEF FwWait, Quiet
<1>2. fw \in FwState
  BY DEF ContextType
<1> DEFINE r == IF Strobe /\ fw.rest > 0 THEN fw.rest - 1 ELSE fw.rest
<1>3. fw' = [fw EXCEPT !.rest = r]
  BY <1>1
<1>4. r \in 0 .. REST
  BY <1>2, FwFields, ConstantTypes
<1> HIDE DEF r
<1>5. fw' \in FwState /\ fw'.step = fw.step /\ fw'.seed = fw.seed
  BY <1>2, <1>3, <1>4 DEF FwState
<1>. QED
  BY <1>1, <1>5 DEF ContextType

LEMMA BindFacts ==
  ASSUME ContextType, BindStart
  PROVE  /\ ContextType' /\ ctx' = ctx /\ fw.step = "none"
         /\ fw'.step = "read" /\ fw'.flow \in Flow /\ fw'.tries = 0
<1>1. PICK i \in Ctx, f \in Flow :
        fw' = [fw EXCEPT !.step = "read", !.ctx = i, !.flow = f, !.tries = 0]
  BY DEF BindStart
<1>2. ctx' = ctx /\ fw.step = "none" /\ fw \in FwState
  BY DEF BindStart, Ready, Quiet, ContextType
<1>3. 0 \in 0 .. MAX_TRIES
  BY ConstantTypes
<1>4. fw' \in FwState /\ fw'.step = "read" /\ fw'.flow = f /\ fw'.tries = 0
  BY <1>1, <1>2, <1>3 DEF FwState
<1>. QED
  BY <1>2, <1>4 DEF ContextType

LEMMA ReadFacts ==
  ASSUME ContextType, ClockType, ReadNow, fw.flow \in Flow
  PROVE  /\ ContextType' /\ ctx' = ctx /\ fw.step = "read"
         /\ fw'.step = "cfg" /\ fw'.flow = fw.flow /\ fw'.tries = fw.tries /\ fw'.ctx = fw.ctx
         /\ fw'.s0 = ts.sub /\ fw'.seed = ts.sub % fw.flow.fpp
<1> DEFINE s == ts.sub % fw.flow.fpp
<1>1. fw' = [fw EXCEPT !.step = "cfg", !.s0 = ts.sub, !.seed = s]
  BY DEF ReadNow
<1>2. ctx' = ctx /\ fw.step = "read" /\ fw \in FwState
  BY DEF ReadNow, ContextType
<1>3. ts.sub \in Subs /\ ts.sub \in Nat /\ fw.flow.fpp \in Nat \ {0}
  BY ZeroTypes, ConstantTypes DEF ClockType, Time, Subs
<1>4. s \in Subs
  <2>1. s \in Nat /\ s <= ts.sub
    BY <1>3
  <2>. QED
    BY <1>3, <2>1, ConstantTypes DEF Subs
<1> HIDE DEF s
<1>5. /\ fw' \in FwState /\ fw'.step = "cfg" /\ fw'.flow = fw.flow /\ fw'.tries = fw.tries
      /\ fw'.ctx = fw.ctx /\ fw'.s0 = ts.sub /\ fw'.seed = s
  BY <1>1, <1>2, <1>3, <1>4 DEF FwState
<1>. QED
  BY <1>2, <1>5 DEF ContextType, s

LEMMA WriteFacts ==
  ASSUME ContextType, WriteCfg, fw.flow \in Flow, fw.tries \in {0, 1}
  PROVE  /\ ContextType' /\ ctx' = [ctx EXCEPT ![fw.ctx] = fw.flow] /\ fw.step = "cfg"
         /\ fw'.step = "again" /\ fw'.flow = fw.flow /\ fw'.tries = fw.tries + 1 /\ fw'.ctx = fw.ctx
         /\ fw'.s0 = fw.s0
<1>1. fw' = [fw EXCEPT !.step = "again", !.tries = fw.tries + 1]
  BY DEF WriteCfg
<1>2. ctx' = [ctx EXCEPT ![fw.ctx] = fw.flow] /\ fw.step = "cfg" /\ fw \in FwState
      /\ ctx \in [Ctx -> Flow \cup {Off}] /\ fw.ctx \in Ctx
  BY FwFields DEF WriteCfg, ContextType
<1>3. fw.tries + 1 \in 0 .. MAX_TRIES
  BY ConstantTypes
<1>4. /\ fw' \in FwState /\ fw'.step = "again" /\ fw'.flow = fw.flow /\ fw'.tries = fw.tries + 1
      /\ fw'.ctx = fw.ctx /\ fw'.s0 = fw.s0
  BY <1>1, <1>2, <1>3 DEF FwState
<1>5. ctx' \in [Ctx -> Flow \cup {Off}]
  BY <1>2
<1>. QED
  BY <1>2, <1>4, <1>5 DEF ContextType

LEMMA AgainFacts ==
  ASSUME ContextType, ReadAgain
  PROVE  /\ ContextType' /\ ctx' = ctx /\ fw.step = "again"
         /\ \/ SeqlockDone /\ fw'.step = "none" /\ fw'.seed = 0
            \/ /\ ~SeqlockDone /\ fw'.step = "read" /\ fw'.flow = fw.flow /\ fw'.tries = fw.tries
               /\ fw'.ctx = fw.ctx
<1>1. ctx' = ctx /\ fw.step = "again" /\ fw \in FwState
  BY DEF ReadAgain, ContextType
<1>2. CASE SeqlockDone
  BY <1>1, <1>2, DoneFacts DEF ReadAgain, ContextType
<1>3. CASE ~SeqlockDone
  <2>1. fw' = [fw EXCEPT !.step = "read"]
    BY <1>3 DEF ReadAgain
  <2>2. /\ fw' \in FwState /\ fw'.step = "read" /\ fw'.flow = fw.flow /\ fw'.tries = fw.tries
        /\ fw'.ctx = fw.ctx
    BY <1>1, <2>1 DEF FwState
  <2>. QED
    BY <1>1, <1>3, <2>2 DEF ContextType
<1>. QED
  BY <1>2, <1>3

LEMMA UnbindFacts ==
  ASSUME ContextType, UnbindStart
  PROVE  /\ ContextType' /\ ctx' = ctx /\ fw.step = "none" /\ fw'.step = "off" /\ fw'.seed = fw.seed
         /\ fw'.left = BURST - 1
<1>1. PICK i \in Ctx : fw' = [fw EXCEPT !.step = "off", !.ctx = i, !.left = BURST - 1]
  BY DEF UnbindStart, Bound
<1>2. ctx' = ctx /\ fw.step = "none" /\ fw \in FwState
  BY DEF UnbindStart, Ready, Quiet, ContextType
<1>3. BURST - 1 \in 0 .. BURST - 1
  BY ConstantTypes
<1>4. fw' \in FwState /\ fw'.step = "off" /\ fw'.seed = fw.seed /\ fw'.left = BURST - 1
  BY <1>1, <1>2, <1>3 DEF FwState
<1>. QED
  BY <1>2, <1>4 DEF ContextType

LEMMA OffFacts ==
  ASSUME ContextType, WriteOff
  PROVE  /\ ContextType' /\ ctx' = [ctx EXCEPT ![fw.ctx] = Off] /\ fw.step = "off"
         /\ fw'.step = "next" /\ fw'.seed = fw.seed /\ fw'.left = fw.left
<1>1. ctx' = [ctx EXCEPT ![fw.ctx] = Off] /\ fw.step = "off" /\ fw' = [fw EXCEPT !.step = "next"]
      /\ ctx \in [Ctx -> Flow \cup {Off}] /\ fw \in FwState
  BY DEF WriteOff, ContextType
<1>2. ctx' \in [Ctx -> Flow \cup {Off}]
  BY <1>1
<1>3. fw' \in FwState /\ fw'.step = "next" /\ fw'.seed = fw.seed /\ fw'.left = fw.left
  BY <1>1 DEF FwState
<1>. QED
  BY <1>1, <1>2, <1>3 DEF ContextType

(* Between the calls of a request that clears several contexts.             *)
LEMMA BurstFacts ==
  ASSUME ContextType, Burst
  PROVE  /\ ContextType' /\ ctx' = ctx /\ fw.step = "next"
         /\ \/ fw' = fw
            \/ fw'.step = "off" /\ fw'.seed = fw.seed /\ fw.left > 0 /\ fw'.left = fw.left - 1
            \/ fw'.step = "read" /\ fw'.flow \in Flow /\ fw'.tries = 0
            \/ fw' = Done
<1>1. ctx' = ctx /\ fw.step = "next" /\ fw \in FwState
  BY DEF Burst, BurstWait, BurstUnbind, EvictedBind, BurstEnd, ContextType
<1>2. CASE BurstWait
  BY <1>1, <1>2 DEF BurstWait, ContextType
<1>3. CASE BurstUnbind
  <2>1. PICK i \in Ctx : fw' = [fw EXCEPT !.step = "off", !.ctx = i, !.left = fw.left - 1]
    BY <1>3 DEF BurstUnbind, Bound
  <2>2. fw.left > 0 /\ fw.left - 1 \in 0 .. BURST - 1
    BY <1>1, <1>3, FwFields, ConstantTypes DEF BurstUnbind
  <2>3. fw' \in FwState /\ fw'.step = "off" /\ fw'.seed = fw.seed /\ fw'.left = fw.left - 1
    BY <1>1, <2>1, <2>2 DEF FwState
  <2>. QED
    BY <1>1, <2>2, <2>3 DEF ContextType
<1>4. CASE EvictedBind
  <2>1. PICK f \in Flow : fw' = [fw EXCEPT !.step = "read", !.flow = f, !.tries = 0]
    BY <1>4 DEF EvictedBind
  <2>2. 0 \in 0 .. MAX_TRIES
    BY ConstantTypes
  <2>3. fw' \in FwState /\ fw'.step = "read" /\ fw'.flow = f /\ fw'.tries = 0
    BY <1>1, <2>1, <2>2 DEF FwState
  <2>. QED
    BY <1>1, <2>3 DEF ContextType
<1>5. CASE BurstEnd
  BY <1>1, <1>5, DoneFacts DEF BurstEnd, ContextType
<1>. QED
  BY <1>2, <1>3, <1>4, <1>5 DEF Burst

-----------------------------------------------------------------------------
(* The phases in a cycle: a context whose registers are not written counts, *)
(* and keeps to the grid if it was on it.                                   *)
LEMMA PhaseMoves ==
  ASSUME ClockType, ContextType, PhaseType, Tick, Phases, NEW i \in Ctx
  PROVE  /\ CfgWrite(i) => phase'[i] = fw.seed
         /\ ~CfgWrite(i) => /\ phase'[i] \in Nat /\ phase'[i] < ctx[i].fpp
                            /\ ctx[i].slots # 0 /\ phase[i] = ts.sub % ctx[i].fpp
                                 => phase'[i] = ts'.sub % ctx[i].fpp
<1>1. phase'[i] = IF CfgWrite(i) THEN fw.seed
                  ELSE IF ctx[i].slots = 0 THEN 0
                  ELSE IF Strobe THEN AdvancePhase(phase[i], ctx[i].fpp) ELSE phase[i]
  BY DEF Phases
<1>2. ctx[i] \in Flow \cup {Off} /\ ctx[i].fpp \in FPP_TABLE
  BY ZeroTypes DEF ContextType
<1>3. ctx[i].fpp \in Nat /\ ctx[i].fpp > 0 /\ phase[i] \in Nat /\ phase[i] < ctx[i].fpp /\ ts \in Time
  BY <1>2, ConstantTypes DEF PhaseType, ClockType
<1>4. AdvancePhase(phase[i], ctx[i].fpp) \in Nat /\ AdvancePhase(phase[i], ctx[i].fpp) < ctx[i].fpp
  BY <1>3 DEF AdvancePhase
<1>5. ASSUME ~CfgWrite(i), ctx[i].slots # 0, phase[i] = ts.sub % ctx[i].fpp
      PROVE  phase'[i] = ts'.sub % ctx[i].fpp
  <2>1. CASE Strobe
    <3>1. ts' = NextTime(ts) /\ phase'[i] = AdvancePhase(ts.sub % ctx[i].fpp, ctx[i].fpp)
      BY <1>1, <1>5, <2>1, ClockStep
    <3>. QED
      BY <1>2, <1>3, <3>1, StrobePhase
  <2>2. CASE ~Strobe
    BY <1>1, <1>5, <2>2, ClockStep
  <2>. QED
    BY <2>1, <2>2
<1>. QED
  BY <1>1, <1>3, <1>4, <1>5

(* No register of a context is written in this cycle.                       *)
LEMMA IdlePhases ==
  ASSUME ClockType, ContextType, PhaseType, PhaseInv, Tick, Phases, ctx' = ctx,
         fw.step \notin {"cfg", "off"}
  PROVE  /\ PhaseType'
         /\ \A i \in Ctx : ctx'[i].slots # 0 /\ ~Binding(i) => phase'[i] = ts'.sub % ctx'[i].fpp
<1>1. \A i \in Ctx : ~CfgWrite(i)
  BY DEF CfgWrite
<1>2. \A i \in Ctx : phase'[i] \in Nat /\ phase'[i] < ctx'[i].fpp
  BY <1>1, PhaseMoves
<1>3. phase' \in [Ctx -> Nat]
  BY <1>2 DEF Phases
<1>4. ASSUME NEW i \in Ctx, ctx'[i].slots # 0, ~Binding(i)
      PROVE  phase'[i] = ts'.sub % ctx'[i].fpp
  <2>1. phase[i] = ts.sub % ctx[i].fpp /\ ctx[i].slots # 0
    BY <1>4 DEF PhaseInv
  <2>. QED
    BY <1>1, <2>1, PhaseMoves
<1>. QED
  BY <1>2, <1>3, <1>4 DEF PhaseType

(* The registers of one context are written.                                *)
LEMMA WrittenPhases ==
  ASSUME ClockType, ContextType, PhaseType, PhaseInv, Tick, Phases,
         fw.step \in {"cfg", "off"}, NEW c \in Flow \cup {Off}, ctx' = [ctx EXCEPT ![fw.ctx] = c],
         fw.seed < c.fpp
  PROVE  /\ PhaseType' /\ ctx'[fw.ctx] = c /\ phase'[fw.ctx] = fw.seed
         /\ \A i \in Ctx \ {fw.ctx} : ctx'[i].slots # 0 => phase'[i] = ts'.sub % ctx'[i].fpp
<1>1. /\ fw.ctx \in Ctx /\ fw.seed \in Nat /\ ctx \in [Ctx -> Flow \cup {Off}]
  BY FwFields, ConstantTypes DEF ContextType, Subs
<1>2. /\ CfgWrite(fw.ctx) /\ \A i \in Ctx \ {fw.ctx} : ~CfgWrite(i) /\ ~Binding(i)
  BY DEF CfgWrite, Binding
<1>3. /\ ctx'[fw.ctx] = c /\ \A i \in Ctx \ {fw.ctx} : ctx'[i] = ctx[i]
  BY <1>1
<1>4. phase'[fw.ctx] = fw.seed
  BY <1>1, <1>2, PhaseMoves
<1>5. ASSUME NEW i \in Ctx \ {fw.ctx}
      PROVE  /\ phase'[i] \in Nat /\ phase'[i] < ctx'[i].fpp
             /\ ctx'[i].slots # 0 => phase'[i] = ts'.sub % ctx'[i].fpp
  <2>1. ctx[i].slots # 0 => phase[i] = ts.sub % ctx[i].fpp
    BY <1>2 DEF PhaseInv
  <2>. QED
    BY <1>2, <1>3, <2>1, PhaseMoves
<1>6. \A i \in Ctx : phase'[i] \in Nat /\ phase'[i] < ctx'[i].fpp
  BY <1>1, <1>3, <1>4, <1>5
<1>7. phase' \in [Ctx -> Nat]
  BY <1>6 DEF Phases
<1>. QED
  BY <1>3, <1>4, <1>5, <1>6, <1>7 DEF PhaseType

LEMMA PhaseStep ==
  ASSUME ClockType, ContextType, PhaseType, PhaseInv, Tick, Phases, FwWait \/ Bind \/ Unbind
  PROVE  ContextType' /\ PhaseType' /\ PhaseInv'
<1>1. /\ clk \in 0 .. DIV - 1 /\ DIV \in Nat /\ DIV >= 5 /\ ts \in Time /\ fw \in FwState
      /\ fw.tries \in 0 .. MAX_TRIES /\ MAX_TRIES \in Nat /\ MAX_TRIES >= 2
  BY FwFields, ConstantTypes DEF ClockType, ContextType
<1>2. CASE FwWait
  <2>1. ContextType' /\ ctx' = ctx /\ fw.step = "none" /\ fw'.step = "none" /\ fw'.seed = 0
    BY <1>2, WaitFacts DEF PhaseInv
  <2>2. PhaseType' /\ \A i \in Ctx : ctx'[i].slots # 0 => phase'[i] = ts'.sub % ctx'[i].fpp
    BY <2>1, IdlePhases DEF Binding
  <2>3. PhaseInv'
    BY <2>1, <2>2 DEF PhaseInv
  <2>. QED
    BY <2>1, <2>2, <2>3
<1>3. CASE BindStart
  <2>1. /\ ContextType' /\ ctx' = ctx /\ fw.step = "none"
        /\ fw'.step = "read" /\ fw'.flow \in Flow /\ fw'.tries = 0
    BY <1>3, BindFacts
  <2>2. PhaseType' /\ \A i \in Ctx : ctx'[i].slots # 0 => phase'[i] = ts'.sub % ctx'[i].fpp
    BY <2>1, IdlePhases DEF Binding
  <2>3. PhaseInv'
    BY <2>1, <2>2 DEF PhaseInv
  <2>. QED
    BY <2>1, <2>2, <2>3
<1>4. CASE ReadNow
  <2>1. fw.step = "read" /\ fw.flow \in Flow /\ (fw.tries = 0 \/ (fw.tries = 1 /\ clk \in {1, 2}))
    BY <1>4 DEF ReadNow, PhaseInv
  <2>2. /\ ContextType' /\ ctx' = ctx
        /\ fw'.step = "cfg" /\ fw'.flow = fw.flow /\ fw'.tries = fw.tries /\ fw'.ctx = fw.ctx
        /\ fw'.s0 = ts.sub /\ fw'.seed = ts.sub % fw.flow.fpp
    BY <1>4, <2>1, ReadFacts
  <2>3. PhaseType' /\ \A i \in Ctx : ctx'[i].slots # 0 /\ ~Binding(i) => phase'[i] = ts'.sub % ctx'[i].fpp
    BY <2>1, <2>2, IdlePhases
  <2>4. \A i \in Ctx : Binding(i)' <=> Binding(i)
    BY <2>1, <2>2 DEF Binding
  <2>5. \/ fw'.tries = 0 /\ (ts'.sub = fw'.s0 \/ clk' = 0)
        \/ fw'.tries = 1 /\ ts'.sub = fw'.s0 /\ clk' \in {2, 3}
    <3>1. CASE Strobe
      <4>1. clk' = 0 /\ clk = DIV - 1
        BY <3>1, ClockStep DEF Strobe
      <4>. QED
        BY <1>1, <2>1, <2>2, <4>1
    <3>2. CASE ~Strobe
      <4>1. clk' = clk + 1 /\ ts' = ts
        BY <3>2, ClockStep
      <4>. QED
        BY <1>1, <2>1, <2>2, <4>1
    <3>. QED
      BY <3>1, <3>2
  <2>6. PhaseInv'
    BY <2>1, <2>2, <2>3, <2>4, <2>5 DEF PhaseInv
  <2>. QED
    BY <2>2, <2>3, <2>6
<1>5. CASE WriteCfg
  <2>1. /\ fw.step = "cfg" /\ fw.flow \in Flow /\ fw.seed = fw.s0 % fw.flow.fpp
        /\ \/ fw.tries = 0 /\ (ts.sub = fw.s0 \/ clk = 0)
           \/ fw.tries = 1 /\ ts.sub = fw.s0 /\ clk \in {2, 3}
    BY <1>5 DEF WriteCfg, PhaseInv
  <2>2. /\ ContextType' /\ ctx' = [ctx EXCEPT ![fw.ctx] = fw.flow]
        /\ fw'.step = "again" /\ fw'.flow = fw.flow /\ fw'.tries = fw.tries + 1 /\ fw'.ctx = fw.ctx
        /\ fw'.s0 = fw.s0
    <3>1. fw.tries \in {0, 1}
      BY <2>1
    <3>. QED
      BY <1>5, <2>1, <3>1, WriteFacts
  <2>3. fw.seed < fw.flow.fpp
    <3>1. fw.flow.fpp \in Nat /\ fw.flow.fpp > 0 /\ fw.s0 \in Int
      BY <1>1, <2>1, FwFields, ZeroTypes, ConstantTypes DEF Subs
    <3>2. fw.s0 % fw.flow.fpp \in 0 .. fw.flow.fpp - 1
      BY <3>1, ModRange
    <3>. QED
      BY <2>1, <3>1, <3>2
  <2>4. /\ PhaseType' /\ ctx'[fw.ctx] = fw.flow /\ phase'[fw.ctx] = fw.seed
        /\ \A i \in Ctx \ {fw.ctx} : ctx'[i].slots # 0 => phase'[i] = ts'.sub % ctx'[i].fpp
    BY <2>1, <2>2, <2>3, WrittenPhases
  <2>5. Binding(fw.ctx)'
    BY <2>2 DEF Binding
  <2>6. \/ fw'.tries = 1 /\ (ts'.sub = fw'.s0 \/ clk' \in {0, 1})
        \/ fw'.tries = 2 /\ ts'.sub = fw'.s0
    <3>1. CASE Strobe
      <4>1. clk' = 0 /\ clk = DIV - 1
        BY <3>1, ClockStep DEF Strobe
      <4>. QED
        BY <1>1, <2>1, <2>2, <4>1
    <3>2. CASE ~Strobe
      <4>1. clk' = clk + 1 /\ ts' = ts
        BY <3>2, ClockStep
      <4>. QED
        BY <1>1, <2>1, <2>2, <4>1
    <3>. QED
      BY <3>1, <3>2
  <2>7. \A i \in Ctx : ctx'[i].slots # 0 /\ ~Binding(i)' => phase'[i] = ts'.sub % ctx'[i].fpp
    BY <2>2, <2>4 DEF Binding
  <2>8. PhaseInv'
    BY <2>1, <2>2, <2>4, <2>6, <2>7 DEF PhaseInv
  <2>. QED
    BY <2>2, <2>4, <2>8
<1>6. CASE ReadAgain
  <2>1. /\ fw.step = "again" /\ fw.flow \in Flow
        /\ ctx[fw.ctx] = fw.flow /\ phase[fw.ctx] = fw.s0 % fw.flow.fpp
        /\ \/ fw.tries = 1 /\ (ts.sub = fw.s0 \/ clk \in {0, 1})
           \/ fw.tries = 2 /\ ts.sub = fw.s0
    BY <1>6 DEF ReadAgain, PhaseInv
  <2>2. /\ ContextType' /\ ctx' = ctx
        /\ \/ SeqlockDone /\ fw'.step = "none" /\ fw'.seed = 0
           \/ /\ ~SeqlockDone /\ fw'.step = "read" /\ fw'.flow = fw.flow /\ fw'.tries = fw.tries
              /\ fw'.ctx = fw.ctx
    BY <1>6, AgainFacts
  <2>3. PhaseType' /\ \A i \in Ctx : ctx'[i].slots # 0 /\ ~Binding(i) => phase'[i] = ts'.sub % ctx'[i].fpp
    BY <2>1, <2>2, IdlePhases
  <2>4. CASE SeqlockDone
    <3>1. ts.sub = fw.s0
      BY <1>1, <2>1, <2>4 DEF SeqlockDone
    <3>2. /\ fw.ctx \in Ctx /\ ~CfgWrite(fw.ctx) /\ ctx[fw.ctx].slots # 0
          /\ phase[fw.ctx] = ts.sub % ctx[fw.ctx].fpp
      BY <1>1, <2>1, <3>1, FwFields, ZeroTypes DEF CfgWrite
    <3>3. phase'[fw.ctx] = ts'.sub % ctx'[fw.ctx].fpp
      BY <2>2, <3>2, PhaseMoves
    <3>4. \A i \in Ctx : ctx'[i].slots # 0 => phase'[i] = ts'.sub % ctx'[i].fpp
      BY <2>3, <3>3 DEF Binding
    <3>5. fw'.step = "none" /\ fw'.seed = 0
      BY <2>2, <2>4
    <3>6. PhaseInv'
      BY <3>4, <3>5 DEF PhaseInv
    <3>. QED
      BY <2>2, <2>3, <3>6
  <2>5. CASE ~SeqlockDone
    <3>1. ts.sub # fw.s0 /\ fw.tries = 1 /\ clk \in {0, 1}
      BY <2>1, <2>5 DEF SeqlockDone
    <3>2. ~Strobe
      BY <1>1, <3>1 DEF Strobe
    <3>3. clk' \in {1, 2}
      BY <1>1, <3>1, <3>2, ClockStep
    <3>4. fw'.step = "read" /\ fw'.flow = fw.flow /\ fw'.tries = 1 /\ fw'.ctx = fw.ctx
      BY <2>2, <2>5, <3>1
    <3>5. \A i \in Ctx : Binding(i)' <=> Binding(i)
      BY <2>1, <3>4 DEF Binding
    <3>6. PhaseInv'
      BY <2>1, <2>3, <3>3, <3>4, <3>5 DEF PhaseInv
    <3>. QED
      BY <2>2, <2>3, <3>6
  <2>. QED
    BY <2>4, <2>5
<1>7. CASE UnbindStart
  <2>1. ContextType' /\ ctx' = ctx /\ fw.step = "none" /\ fw'.step = "off" /\ fw'.seed = 0
    BY <1>7, UnbindFacts DEF PhaseInv
  <2>2. PhaseType' /\ \A i \in Ctx : ctx'[i].slots # 0 => phase'[i] = ts'.sub % ctx'[i].fpp
    BY <2>1, IdlePhases DEF Binding
  <2>3. PhaseInv'
    BY <2>1, <2>2 DEF PhaseInv
  <2>. QED
    BY <2>1, <2>2, <2>3
<1>8. CASE WriteOff
  <2>1. /\ ContextType' /\ ctx' = [ctx EXCEPT ![fw.ctx] = Off] /\ fw.step = "off"
        /\ fw'.step = "next" /\ fw'.seed = 0
    BY <1>8, OffFacts DEF PhaseInv
  <2>2. fw.seed < Off.fpp
    BY <2>1, ZeroTypes, ConstantTypes DEF PhaseInv
  <2>3. /\ PhaseType' /\ ctx'[fw.ctx] = Off
        /\ \A i \in Ctx \ {fw.ctx} : ctx'[i].slots # 0 => phase'[i] = ts'.sub % ctx'[i].fpp
    BY <2>1, <2>2, WrittenPhases
  <2>4. PhaseInv'
    BY <2>1, <2>3, ZeroTypes DEF PhaseInv
  <2>. QED
    BY <2>1, <2>3, <2>4
<1>9. CASE Burst
  <2>1. /\ ContextType' /\ ctx' = ctx /\ fw.step = "next"
        /\ \/ fw'.step \in {"none", "off", "next"} /\ fw'.seed = 0
           \/ fw'.step = "read" /\ fw'.flow \in Flow /\ fw'.tries = 0
    BY <1>9, BurstFacts, DoneFacts DEF PhaseInv
  <2>2. PhaseType' /\ \A i \in Ctx : ctx'[i].slots # 0 => phase'[i] = ts'.sub % ctx'[i].fpp
    BY <2>1, IdlePhases DEF Binding
  <2>3. PhaseInv'
    BY <2>1, <2>2 DEF PhaseInv
  <2>. QED
    BY <2>1, <2>2, <2>3
<1>. QED
  BY <1>2, <1>3, <1>4, <1>5, <1>6, <1>7, <1>8, <1>9 DEF Bind, Unbind

-----------------------------------------------------------------------------
(* The builder.                                                             *)
LEMMA BuilderFields ==
  ASSUME NEW x \in BuilderState
  PROVE  /\ x.state \in States /\ x.idx \in Ctx /\ x.byte \in 0 .. BYTE_WRAP - 1
         /\ x.word \in 0 .. WORD_WRAP - 1 /\ x.stall \in 0 .. STALL
BY DEF BuilderState

LEMMA FrameFields ==
  ASSUME NEW f \in FrameState
  PROVE  /\ f.time \in Time /\ f.fpp \in FPP_TABLE /\ f.base \in SUBSET Subs /\ f.due \in Position
         /\ f.same \in BOOLEAN /\ f.own \in BOOLEAN
BY DEF FrameState

LEMMA DueFields ==
  ASSUME NEW d \in DueState
  PROVE  d.at \in Position /\ d.own \in BOOLEAN /\ d.same \in BOOLEAN /\ d.owed \in 0 .. 2
BY DEF DueState

(* What CHECK and BUILD make of the frame.                                  *)
Started(f, d, s, o) == [f EXCEPT !.base = {}, !.due = d, !.same = s, !.own = o]
Extended(f, t, p, w, s, o) ==
  [f EXCEPT !.time = t, !.fpp = p, !.base = w, !.same = s, !.own = o]

LEMMA StartFrame ==
  ASSUME NEW f \in FrameState, NEW d \in Position, NEW s \in BOOLEAN, NEW o \in BOOLEAN
  PROVE  /\ Started(f, d, s, o) \in FrameState /\ Started(f, d, s, o).due = d
         /\ Started(f, d, s, o).same = s /\ Started(f, d, s, o).own = o
BY DEF FrameState, Started

LEMMA ExtendFrame ==
  ASSUME NEW f \in FrameState, NEW t \in Time, NEW p \in FPP_TABLE, NEW w \in SUBSET Subs,
         NEW s \in BOOLEAN, NEW o \in BOOLEAN
  PROVE  LET e == Extended(f, t, p, w, s, o) IN
         /\ e \in FrameState /\ e.time = t /\ e.fpp = p /\ e.base = w /\ e.due = f.due
         /\ e.same = s /\ e.own = o
BY DEF FrameState, Extended

LEMMA BlankFacts ==
  Blank \in FrameState /\ Blank.same = FALSE /\ Blank.own = FALSE
<1>1. Zero \in Time /\ FPP0 \in FPP_TABLE /\ Start \in Position
  BY ZeroTypes, ConstantTypes
<1>. QED
  BY <1>1 DEF Blank, FrameState

LEMMA GotoFacts ==
  ASSUME b \in BuilderState, NEW s \in States, Goto(s)
  PROVE  b' \in BuilderState /\ b'.state = s /\ b'.idx = b.idx /\ b'.byte = b.byte /\ b'.word = b.word
BY DEF BuilderState, Goto

LEMMA AdvanceFacts ==
  ASSUME b \in BuilderState, Advance
  PROVE  b' \in BuilderState /\ b'.state \in {"IDLE", "CHECK"} /\ b'.byte = 0
<1>1. b.idx \in Ctx /\ N_CTX \in Nat
  BY BuilderFields, ConstantTypes
<1>2. At0 \in BuilderState /\ At0.state = "IDLE" /\ At0.byte = 0
  BY ZeroTypes DEF At0, BuilderState, States
<1>3. CASE b.idx # N_CTX - 1
  <2>1. b.idx + 1 \in Ctx
    BY <1>1, <1>3 DEF Ctx
  <2>2. b' = [state |-> "CHECK", idx |-> b.idx + 1, byte |-> 0, word |-> 0, stall |-> 0]
    BY <1>3 DEF Advance, At0
  <2>. QED
    BY <2>1, <2>2, ZeroTypes DEF BuilderState, States
<1>4. CASE b.idx = N_CTX - 1
  BY <1>2, <1>4 DEF Advance
<1>. QED
  BY <1>3, <1>4

LEMMA CurFacts ==
  ASSUME ContextType, b \in BuilderState
  PROVE  Cur \in Flow \cup {Off} /\ Cur.fpp \in FPP_TABLE /\ Base(Cur.fpp) = (latch.rd - Cur.fpp) % SUBSEC_MAX
<1>1. Cur \in Flow \cup {Off}
  BY BuilderFields DEF Cur, ContextType
<1>. QED
  BY <1>1, ZeroTypes DEF Base

LEMMA IdleFacts ==
  ASSUME BuilderType, Idle
  PROVE  BuilderType' /\ b'.state \in {"IDLE", "CHECK"} /\ b.state = "IDLE" /\ b'.byte = b.byte
<1>1. b \in BuilderState /\ frame' = frame /\ b.state = "IDLE" /\ frame \in FrameState
  BY DEF BuilderType, Idle
<1>2. b' = b \/ Goto("CHECK")
  BY DEF Idle
<1>3. b' \in BuilderState /\ b'.state \in {"IDLE", "CHECK"} /\ b'.byte = b.byte
  BY <1>1, <1>2, GotoFacts DEF States
<1>. QED
  BY <1>1, <1>3 DEF BuilderType

LEMMA CheckFacts ==
  ASSUME BuilderType, PendingType, Check
  PROVE  /\ BuilderType' /\ b'.idx = b.idx /\ b.state = "CHECK" /\ b'.byte = b.byte
         /\ \/ b'.state = "SKIP"
            \/ /\ b'.state = "BUILD" /\ Cur.slots # 0 /\ pend[b.idx]
               /\ frame'.due = due[b.idx].at
               /\ frame'.same = (due[b.idx].same /\ ~CfgWrite(b.idx))
<1>1. b \in BuilderState /\ b.state = "CHECK" /\ frame \in FrameState /\ b.idx \in Ctx
  BY BuilderFields DEF BuilderType, Check
<1>2. CASE Cur.slots = 0 \/ ~pend[b.idx]
  <2>1. Goto("SKIP") /\ frame' = frame
    BY <1>2 DEF Check
  <2>. QED
    BY <1>1, <2>1, GotoFacts DEF BuilderType, States
<1>3. CASE Cur.slots # 0 /\ pend[b.idx]
  <2> DEFINE s == due[b.idx].same /\ ~CfgWrite(b.idx)
             d == due[b.idx].at
             o == TRUE
  <2>1. Goto("BUILD") /\ frame' = Started(frame, d, s, o)
    BY <1>3 DEF Check, Started
  <2>2. s \in BOOLEAN /\ o \in BOOLEAN
    OBVIOUS
  <2>3. d \in Position
    <3>1. due[b.idx] \in DueState
      BY <1>1 DEF PendingType
    <3>. QED
      BY <3>1, DueFields
  <2>4. b' \in BuilderState /\ b'.state = "BUILD" /\ b'.idx = b.idx /\ b'.byte = b.byte
    BY <1>1, <2>1, GotoFacts DEF States
  <2> HIDE DEF s, d, o
  <2>5. frame' \in FrameState /\ frame'.due = d /\ frame'.same = s
    BY <1>1, <2>1, <2>2, <2>3, StartFrame
  <2>. QED
    BY <1>1, <1>3, <2>4, <2>5 DEF BuilderType, s, d
<1>. QED
  BY <1>2, <1>3

LEMMA BuildFacts ==
  ASSUME ClockType, ContextType, BuilderType, Build
  PROVE  /\ BuilderType' /\ b'.idx = b.idx /\ frame'.due = frame.due
         /\ frame'.same = (frame.same /\ ~CfgWrite(b.idx))
         /\ frame'.own = (frame.own /\ due[b.idx].own)
         /\ b.byte = 0 => /\ frame'.time = WindowStart(latch.time, Cur.fpp)
                          /\ frame'.fpp = Cur.fpp /\ frame'.base = {}
         /\ b.byte # 0 => /\ frame'.time = frame.time /\ frame'.fpp = frame.fpp
                          /\ frame'.base = frame.base \cup {Base(Cur.fpp)}
         /\ b.byte = FrameBeats(Cur) - 1 => b'.state = "PREFETCH" /\ b'.byte = 0
         /\ b.byte # FrameBeats(Cur) - 1 => b'.state = "BUILD" /\ b'.byte = (b.byte + 1) % BYTE_WRAP
<1>1. /\ b \in BuilderState /\ b.state = "BUILD" /\ frame \in FrameState /\ b.idx \in Ctx
      /\ b.byte \in 0 .. BYTE_WRAP - 1 /\ BYTE_WRAP \in Nat /\ BYTE_WRAP > 0
  BY BuilderFields, ConstantTypes DEF BuilderType, Build
<1>2. /\ Cur.fpp \in FPP_TABLE /\ Base(Cur.fpp) = (latch.rd - Cur.fpp) % SUBSEC_MAX
      /\ latch \in Position
  BY <1>1, CurFacts DEF ClockType
<1>3. latch.time \in Time /\ latch.rd \in Int /\ Cur.fpp \in Int /\ SUBSEC_MAX \in Nat /\ SUBSEC_MAX > 0
  BY <1>2, ConstantTypes DEF Position
<1>4. Base(Cur.fpp) \in Subs
  BY <1>2, <1>3, ModRange DEF Subs
<1> DEFINE t == IF b.byte = 0 THEN WindowStart(latch.time, Cur.fpp) ELSE frame.time
           p == IF b.byte = 0 THEN Cur.fpp ELSE frame.fpp
           w == IF b.byte = 0 THEN {} ELSE frame.base \cup {Base(Cur.fpp)}
           s == frame.same /\ ~CfgWrite(b.idx)
           o == frame.own /\ due[b.idx].own
<1>5. frame' = Extended(frame, t, p, w, s, o)
  BY DEF Build, Extended
<1>6. t \in Time /\ p \in FPP_TABLE /\ w \in SUBSET Subs
  BY <1>1, <1>2, <1>3, <1>4, WindowInTime, FrameFields
<1>7. s \in BOOLEAN /\ o \in BOOLEAN
  OBVIOUS
<1>8. /\ b.byte = 0 => t = WindowStart(latch.time, Cur.fpp) /\ p = Cur.fpp /\ w = {}
      /\ b.byte # 0 => t = frame.time /\ p = frame.fpp /\ w = frame.base \cup {Base(Cur.fpp)}
  OBVIOUS
<1> HIDE DEF t, p, w, s, o
<1>9. /\ frame' \in FrameState /\ frame'.time = t /\ frame'.fpp = p /\ frame'.base = w
      /\ frame'.due = frame.due /\ frame'.same = s /\ frame'.own = o
  BY <1>1, <1>5, <1>6, <1>7, ExtendFrame
<1>10. /\ b' \in BuilderState /\ b'.idx = b.idx
       /\ b.byte = FrameBeats(Cur) - 1 => b'.state = "PREFETCH" /\ b'.byte = 0
       /\ b.byte # FrameBeats(Cur) - 1 => b'.state = "BUILD" /\ b'.byte = (b.byte + 1) % BYTE_WRAP
  <2>1. CASE b.byte = FrameBeats(Cur) - 1
    <3>1. b' = [b EXCEPT !.state = "PREFETCH", !.byte = 0]
      BY <2>1 DEF Build
    <3>. QED
      BY <1>1, <2>1, <3>1, ZeroTypes DEF BuilderState, States
  <2>2. CASE b.byte # FrameBeats(Cur) - 1
    <3> DEFINE n == (b.byte + 1) % BYTE_WRAP
    <3>1. b' = [b EXCEPT !.byte = n]
      BY <2>2 DEF Build
    <3>2. n \in 0 .. BYTE_WRAP - 1
      BY <1>1, ModRange
    <3> HIDE DEF n
    <3>3. b' \in BuilderState /\ b'.idx = b.idx /\ b'.state = b.state /\ b'.byte = n
      BY <1>1, <3>1, <3>2 DEF BuilderState
    <3>. QED
      BY <1>1, <2>2, <3>3 DEF n
  <2>. QED
    BY <2>1, <2>2
<1>. QED
  BY <1>8, <1>9, <1>10 DEF BuilderType, s, o

LEMMA StreamFacts ==
  ASSUME BuilderType, StreamBeat \/ StreamStall
  PROVE  /\ BuilderType'
         /\ \/ StreamBeat /\ LastBeat /\ b'.state \in {"IDLE", "CHECK"} /\ b'.byte = 0
            \/ /\ (StreamBeat => ~LastBeat) /\ b'.state = "STREAM" /\ b'.idx = b.idx /\ frame' = frame
<1>1. /\ b \in BuilderState /\ b.state = "STREAM" /\ frame \in FrameState
      /\ b.word \in 0 .. WORD_WRAP - 1 /\ WORD_WRAP \in Nat /\ WORD_WRAP > 0
      /\ b.stall \in 0 .. STALL /\ STALL \in Nat
  BY BuilderFields, ConstantTypes DEF BuilderType, StreamBeat, StreamStall
<1>2. CASE StreamBeat /\ LastBeat
  BY <1>1, <1>2, AdvanceFacts, BlankFacts DEF BuilderType, StreamBeat
<1>3. CASE StreamBeat /\ ~LastBeat
  <2> DEFINE n == (b.word + 1) % WORD_WRAP
  <2>1. b' = [b EXCEPT !.word = n] /\ frame' = frame
    BY <1>3 DEF StreamBeat
  <2>2. n \in 0 .. WORD_WRAP - 1
    BY <1>1, ModRange
  <2> HIDE DEF n
  <2>3. b' \in BuilderState /\ b'.idx = b.idx /\ b'.state = b.state
    BY <1>1, <2>1, <2>2 DEF BuilderState
  <2>. QED
    BY <1>1, <1>3, <2>1, <2>3 DEF BuilderType
<1>4. CASE ~StreamBeat
  <2> DEFINE n == b.stall + 1
  <2>1. b' = [b EXCEPT !.stall = n] /\ frame' = frame /\ b.stall < STALL
    BY <1>4 DEF StreamStall
  <2>2. n \in 0 .. STALL
    BY <1>1, <2>1
  <2> HIDE DEF n
  <2>3. b' \in BuilderState /\ b'.idx = b.idx /\ b'.state = b.state
    BY <1>1, <2>1, <2>2 DEF BuilderState
  <2>. QED
    BY <1>1, <1>4, <2>1, <2>3 DEF BuilderType
<1>. QED
  BY <1>2, <1>3, <1>4

LEMMA OtherFacts ==
  ASSUME BuilderType, Skip \/ Prefetch
  PROVE  /\ BuilderType'
         /\ \/ Skip /\ b'.state \in {"IDLE", "CHECK"} /\ b'.byte = 0
            \/ Prefetch /\ b.state = "PREFETCH" /\ b'.state = "STREAM" /\ b'.idx = b.idx /\ frame' = frame
<1>1. b \in BuilderState /\ frame \in FrameState /\ frame' = frame
  BY DEF BuilderType, Skip, Prefetch
<1>2. CASE Skip
  BY <1>1, <1>2, AdvanceFacts DEF Skip, BuilderType
<1>3. CASE Prefetch
  BY <1>1, <1>3, GotoFacts DEF Prefetch, BuilderType, States
<1>. QED
  BY <1>2, <1>3

-----------------------------------------------------------------------------
(* Pending bits and what they stand for.                                    *)
DueRecord(a, o, s, n) == [at |-> a, own |-> o, same |-> s, owed |-> n]
NowDue(i) == Strobe /\ Due(i)
Served(i, served) == served /\ b.idx = i
NextAt(i, served) ==
  IF NowDue(i) THEN [time |-> ts, rd |-> rd] ELSE IF NextPend(i, served) THEN due[i].at ELSE Start
NextOwn(i, served) == NextPend(i, served) /\ IF Strobe /\ AnyDue THEN Due(i) ELSE due[i].own
NextSame(i, served) == ~NextPend(i, served) \/ (due[i].same /\ ~CfgWrite(i))
Count(i, served) ==
  due[i].owed + (IF NowDue(i) THEN 1 ELSE 0) - (IF Served(i, served) THEN 1 ELSE 0)
NextOwed(i, served) ==
  IF due[i].same /\ NextSame(i, served)
  THEN IF Count(i, served) > 2 THEN 2 ELSE Count(i, served)
  ELSE IF NextPend(i, served) THEN 1 ELSE 0

LEMMA RecordFacts ==
  ASSUME NEW a \in Position, NEW o \in BOOLEAN, NEW s \in BOOLEAN, NEW n \in 0 .. 2
  PROVE  /\ DueRecord(a, o, s, n) \in DueState /\ DueRecord(a, o, s, n).at = a
         /\ DueRecord(a, o, s, n).own = o /\ DueRecord(a, o, s, n).same = s
         /\ DueRecord(a, o, s, n).owed = n
BY DEF DueRecord, DueState

LEMMA NextDue ==
  ASSUME NEW served, Pending(served), NEW i \in Ctx
  PROVE  /\ pend'[i] = NextPend(i, served)
         /\ due'[i] = DueRecord(NextAt(i, served), NextOwn(i, served), NextSame(i, served),
                                NextOwed(i, served))
<1>1. pend'[i] = NextPend(i, served)
  BY DEF Pending
<1>2. CASE NextPend(i, served)
  BY <1>1, <1>2 DEF Pending, DueRecord, NextAt, NextOwn, NextSame, NextOwed, Count, NowDue, Served
<1>3. CASE ~NextPend(i, served)
  BY <1>1, <1>3 DEF Pending, DueRecord, NextAt, NextOwn, NextSame, NextOwed, Count, NowDue, Served
<1>. QED
  BY <1>2, <1>3

LEMMA PendingFacts ==
  ASSUME ClockType, PendingType, BusyInv, NEW served \in BOOLEAN, Pending(served),
         served => pend[b.idx], NEW i \in Ctx
  PROVE  /\ pend'[i] \in BOOLEAN /\ due'[i] \in DueState
         /\ pend'[i] <=> NextPend(i, served)
         /\ pend'[i] => due'[i].owed >= 1
         /\ due'[i].at = NextAt(i, served) /\ due'[i].own = NextOwn(i, served)
         /\ due'[i].same = NextSame(i, served) /\ due'[i].owed = NextOwed(i, served)
<1>1. due[i] \in DueState /\ pend[i] \in BOOLEAN /\ (pend[i] => due[i].owed >= 1)
  BY DEF PendingType, BusyInv
<1>2. due[i].at \in Position /\ due[i].own \in BOOLEAN /\ due[i].same \in BOOLEAN /\ due[i].owed \in 0 .. 2
  BY <1>1, DueFields
<1>3. NextAt(i, served) \in Position
  <2>1. [time |-> ts, rd |-> rd] \in Position
    BY DEF Position, ClockType, Subs
  <2>. QED
    BY <1>2, <2>1, ZeroTypes DEF NextAt
<1>4. NextOwn(i, served) \in BOOLEAN /\ NextSame(i, served) \in BOOLEAN /\ NextPend(i, served) \in BOOLEAN
  BY <1>1 DEF NextOwn, NextSame, NextPend
<1>5. Served(i, served) => due[i].owed >= 1
  BY <1>1 DEF Served
<1>6. /\ NowDue(i) => NextPend(i, served)
      /\ ~NowDue(i) => (NextPend(i, served) <=> pend[i] /\ ~Served(i, served))
  BY DEF NowDue, NextPend, Served
<1>7. Count(i, served) \in Nat /\ (NextPend(i, served) => Count(i, served) >= 1)
  <2>1. CASE NowDue(i)
    BY <1>2, <1>5, <2>1 DEF Count
  <2>2. CASE ~NowDue(i) /\ Served(i, served)
    BY <1>2, <1>5, <1>6, <2>2 DEF Count
  <2>3. CASE ~NowDue(i) /\ ~Served(i, served)
    BY <1>1, <1>2, <1>6, <2>3 DEF Count
  <2>. QED
    BY <2>1, <2>2, <2>3
<1>8. NextOwed(i, served) \in 0 .. 2 /\ (NextPend(i, served) => NextOwed(i, served) >= 1)
  <2>1. CASE due[i].same /\ NextSame(i, served)
    BY <1>7, <2>1 DEF NextOwed
  <2>2. CASE ~(due[i].same /\ NextSame(i, served))
    BY <2>2 DEF NextOwed
  <2>. QED
    BY <2>1, <2>2
<1> DEFINE r == DueRecord(NextAt(i, served), NextOwn(i, served), NextSame(i, served), NextOwed(i, served))
<1>9. /\ r \in DueState /\ r.at = NextAt(i, served) /\ r.own = NextOwn(i, served)
      /\ r.same = NextSame(i, served) /\ r.owed = NextOwed(i, served)
  BY <1>3, <1>4, <1>8, RecordFacts
<1>10. pend'[i] = NextPend(i, served) /\ due'[i] = r
  BY NextDue
<1> HIDE DEF r
<1>. QED
  BY <1>4, <1>8, <1>9, <1>10

LEMMA PendingStep ==
  ASSUME ClockType, PendingType, BusyInv, NEW served \in BOOLEAN, Pending(served),
         served => pend[b.idx]
  PROVE  PendingType' /\ \A i \in Ctx : pend'[i] => due'[i].owed >= 1
<1>1. \A i \in Ctx : pend'[i] \in BOOLEAN /\ due'[i] \in DueState /\ (pend'[i] => due'[i].owed >= 1)
  BY PendingFacts
<1>2. DOMAIN pend' = Ctx /\ DOMAIN due' = Ctx /\ pend' = [i \in Ctx |-> pend'[i]] /\ due' = [i \in Ctx |-> due'[i]]
  BY DEF Pending
<1>. QED
  BY <1>1, <1>2 DEF PendingType

(* A bit that is not served stays set, so the context under construction    *)
(* stays pending until its last word has gone.                              *)
LEMMA StaysPending ==
  ASSUME ClockType, PendingType, BusyInv, Pending(FALSE), NEW i \in Ctx, pend[i]
  PROVE  pend'[i]
<1>1. NextPend(i, FALSE)
  BY DEF NextPend
<1>. QED
  BY <1>1, PendingFacts

LEMMA BuilderStep ==
  ASSUME ClockType, ContextType, BuilderType, PendingType, BusyInv, Builder
  PROVE  BuilderType' /\ PendingType' /\ BusyInv'
<1> DEFINE Working == b.state \in {"BUILD", "PREFETCH", "STREAM"}
<1>1. b.idx \in Ctx /\ (Working => pend[b.idx]) /\ (b.state \in {"IDLE", "CHECK", "SKIP"} => b.byte = 0)
  BY BuilderFields DEF BuilderType, BusyInv
<1>2. SUFFICES /\ BuilderType' /\ PendingType' /\ \A i \in Ctx : pend'[i] => due'[i].owed >= 1
               /\ b'.state \in {"BUILD", "PREFETCH", "STREAM"} => pend'[b'.idx]
               /\ b'.state \in {"IDLE", "CHECK", "SKIP"} => b'.byte = 0
  BY DEF BusyInv
<1>3. CASE (Idle \/ Check \/ Skip \/ Build \/ Prefetch \/ StreamStall) /\ Pending(FALSE)
  <2>1. PendingType' /\ \A i \in Ctx : pend'[i] => due'[i].owed >= 1
    BY <1>3, PendingStep
  <2>2. pend[b.idx] => pend'[b.idx]
    BY <1>1, <1>3, StaysPending
  <2>3. CASE Idle
    <3>1. BuilderType' /\ b'.state \in {"IDLE", "CHECK"} /\ b'.byte = 0
      BY <1>1, <2>3, IdleFacts
    <3>. QED
      BY <2>1, <3>1
  <2>4. CASE Check
    <3>1. /\ BuilderType' /\ b'.idx = b.idx /\ b'.byte = 0
          /\ b'.state = "SKIP" \/ (b'.state = "BUILD" /\ pend[b.idx])
      BY <1>1, <2>4, CheckFacts
    <3>. QED
      BY <2>1, <2>2, <3>1
  <2>5. CASE Build
    <3>1. BuilderType' /\ b'.idx = b.idx /\ b'.state \in {"BUILD", "PREFETCH"}
      BY <2>5, BuildFacts
    <3>2. pend[b.idx]
      BY <1>1, <2>5 DEF Build
    <3>. QED
      BY <2>1, <2>2, <3>1, <3>2
  <2>6. CASE Skip
    <3>1. BuilderType' /\ b'.state \in {"IDLE", "CHECK"} /\ b'.byte = 0
      BY <2>6, OtherFacts DEF Skip, Prefetch
    <3>. QED
      BY <2>1, <3>1
  <2>7. CASE Prefetch
    <3>1. BuilderType' /\ b'.idx = b.idx /\ b.state = "PREFETCH" /\ b'.state = "STREAM"
      BY <2>7, OtherFacts DEF Skip, Prefetch
    <3>. QED
      BY <1>1, <2>1, <2>2, <3>1
  <2>8. CASE StreamStall
    <3>1. /\ BuilderType' /\ b.state = "STREAM"
          /\ \/ b'.state \in {"IDLE", "CHECK"} /\ b'.byte = 0
             \/ b'.state = "STREAM" /\ b'.idx = b.idx
      BY <2>8, StreamFacts DEF StreamStall
    <3>. QED
      BY <1>1, <2>1, <2>2, <3>1
  <2>. QED
    BY <1>3, <2>3, <2>4, <2>5, <2>6, <2>7, <2>8
<1>4. CASE StreamBeat /\ Pending(LastBeat)
  <2>1. b.state = "STREAM" /\ pend[b.idx] /\ LastBeat \in BOOLEAN
    BY <1>1, <1>4 DEF StreamBeat, LastBeat
  <2>2. PendingType' /\ \A i \in Ctx : pend'[i] => due'[i].owed >= 1
    BY <1>4, <2>1, PendingStep
  <2>3. CASE LastBeat
    <3>1. BuilderType' /\ b'.state \in {"IDLE", "CHECK"} /\ b'.byte = 0
      BY <1>4, <2>3, StreamFacts
    <3>. QED
      BY <2>2, <3>1
  <2>4. CASE ~LastBeat
    <3>1. BuilderType' /\ b'.idx = b.idx /\ b'.state = "STREAM"
      BY <1>4, <2>4, StreamFacts
    <3>2. NextPend(b.idx, LastBeat)
      BY <2>1, <2>4 DEF NextPend
    <3>3. pend'[b.idx]
      BY <1>1, <1>4, <2>1, <3>2, PendingFacts
    <3>. QED
      BY <2>2, <3>1, <3>3
  <2>. QED
    BY <2>3, <2>4
<1>. QED
  BY <1>3, <1>4 DEF Builder

-----------------------------------------------------------------------------
Sound == TypeOK /\ PhaseInv /\ BusyInv

LEMMA InitSound == Init => Sound
<1> SUFFICES ASSUME Init PROVE Sound
  OBVIOUS
<1>1. ClockType
  BY ZeroTypes, ConstantTypes DEF Init, ClockType
<1>2. ContextType /\ fw.step = "none" /\ fw.seed = 0
  BY DoneFacts DEF Init, ContextType
<1>3. PhaseType
  BY ZeroTypes, ConstantTypes DEF Init, PhaseType
<1>4. BuilderType /\ b.state = "IDLE" /\ b.byte = 0
  <2>1. b \in BuilderState /\ b.state = "IDLE" /\ b.byte = 0
    BY ZeroTypes DEF Init, At0, BuilderState, States
  <2>. QED
    BY <2>1, BlankFacts DEF Init, BuilderType
<1>5. PendingType /\ \A i \in Ctx : ~pend[i] /\ due[i].own = FALSE
  <2> DEFINE o == FALSE
             s == TRUE
  <2>1. pend = [i \in Ctx |-> o] /\ due = [i \in Ctx |-> DueRecord(Start, o, s, 0)]
    BY DEF Init, DueRecord
  <2>2. o \in BOOLEAN /\ s \in BOOLEAN /\ o = FALSE
    OBVIOUS
  <2> HIDE DEF o, s
  <2>3. DueRecord(Start, o, s, 0) \in DueState /\ DueRecord(Start, o, s, 0).own = o
    BY <2>2, ZeroTypes, RecordFacts
  <2>. QED
    BY <2>1, <2>2, <2>3 DEF PendingType
<1>6. PhaseInv
  BY <1>2, ZeroTypes DEF Init, PhaseInv
<1>7. BusyInv
  BY <1>4, <1>5 DEF BusyInv
<1>. QED
  BY <1>1, <1>2, <1>3, <1>4, <1>5, <1>6, <1>7, TypeParts DEF Sound

LEMMA NextSound == Sound /\ [Next]_vars => Sound'
<1> SUFFICES ASSUME Sound, [Next]_vars PROVE Sound'
  OBVIOUS
<1>1. ClockType /\ PhaseType /\ ContextType /\ BuilderType /\ PendingType /\ PhaseInv /\ BusyInv
  BY TypeParts DEF Sound
<1>2. CASE Next
  <2>1. Tick /\ Phases /\ Builder /\ (FwWait \/ Bind \/ Unbind)
    BY <1>2 DEF Next, Gateware
  <2>2. ClockType'
    BY <1>1, <2>1, ClockStep
  <2>3. ContextType' /\ PhaseType' /\ PhaseInv'
    BY <1>1, <2>1, PhaseStep
  <2>4. BuilderType' /\ PendingType' /\ BusyInv'
    BY <1>1, <2>1, BuilderStep
  <2>5. TypeOK'
    BY <2>2, <2>3, <2>4, TypeParts, PTL
  <2>. QED
    BY <2>3, <2>4, <2>5 DEF Sound
<1>3. CASE UNCHANGED vars
  <2>1. TypeOK'
    BY <1>3 DEF Sound, TypeOK, vars
  <2>2. PhaseInv'
    BY <1>1, <1>3 DEF PhaseInv, Binding, vars
  <2>3. BusyInv'
    BY <1>1, <1>3 DEF BusyInv, vars
  <2>. QED
    BY <2>1, <2>2, <2>3 DEF Sound
<1>. QED
  BY <1>2, <1>3

(* Every register stays in its field, and a bound context paces on the     *)
(* sample grid of the media clock for ever: the seqlock of write_ctx needs *)
(* at most two of its attempts, wherever a strobe falls between its reads  *)
(* and its write, and the wrap of a second keeps the grid.                 *)
THEOREM PhasesOnGrid == Spec => []PhaseSound
<1>1. Sound => PhaseSound
  BY DEF Sound, PhaseSound, PhaseAligned, PhaseInv, Binding, Quiet
<1>. QED
  BY <1>1, InitSound, NextSound, PTL DEF Spec

-----------------------------------------------------------------------------
(* What a frame is made of.                                                 *)
LEMMA BeatsFit ==
  ASSUME NEW c \in Flow
  PROVE  FrameBeats(c) \in Nat /\ FrameBeats(c) >= 2 /\ FrameBeats(c) < BYTE_WRAP
<1>1. c.slots \in SLOTS /\ c.fpp \in FPP_TABLE
  BY ZeroTypes
<1> DEFINE m == c.slots * c.fpp
<1>2. BEAT <= m /\ 1 + (m \div BEAT) < BYTE_WRAP /\ m \in Nat /\ BEAT \in Nat /\ BEAT > 0
  BY <1>1, ConstantTypes
<1>3. FrameBeats(c) = 1 + (m \div BEAT)
  BY DEF FrameBeats
<1> HIDE DEF m
<1>4. m \div BEAT \in Nat /\ m \div BEAT >= 1
  BY <1>2
<1>. QED
  BY <1>2, <1>3, <1>4

LEMMA ContextKept ==
  ASSUME ContextType, ClockType, PhaseInv, FwWait \/ Bind \/ Unbind, NEW i \in Ctx, ~CfgWrite(i)
  PROVE  ctx'[i] = ctx[i]
<1>1. ctx \in [Ctx -> Flow \cup {Off}]
  BY DEF ContextType
<1>2. CASE WriteCfg \/ WriteOff
  BY <1>1, <1>2 DEF WriteCfg, WriteOff, CfgWrite
<1>3. CASE ~(WriteCfg \/ WriteOff)
  BY <1>3, BurstFacts DEF Bind, Unbind, FwWait, BindStart, ReadNow, ReadAgain, UnbindStart
<1>. QED
  BY <1>2, <1>3

(* A context that is neither rewritten nor served keeps what it is due for: *)
(* a second due would leave two frames owed for one pending bit.            *)
LEMMA DueKept ==
  ASSUME ClockType, PendingType, BusyInv, NEW o \in BOOLEAN, ~o, Pending(o), NoDueLost',
         NEW i \in Ctx, pend[i], due[i].same, ~CfgWrite(i)
  PROVE  due'[i].same /\ due'[i].at = due[i].at
<1>1. /\ due'[i].at = NextAt(i, o) /\ due'[i].same = NextSame(i, o)
      /\ due'[i].owed = NextOwed(i, o) /\ pend'[i] = NextPend(i, o)
  BY PendingFacts, NextDue
<1>2. NextSame(i, o) /\ NextPend(i, o) /\ ~Served(i, o)
  BY DEF NextSame, NextPend, Served
<1>3. NextOwed(i, o) = 1
  BY <1>1, <1>2 DEF NoDueLost
<1>4. NextOwed(i, o) = IF Count(i, o) > 2 THEN 2 ELSE Count(i, o)
  BY <1>2 DEF NextOwed
<1>5. due[i].owed \in 0 .. 2 /\ due[i].owed >= 1
  BY DueFields DEF PendingType, BusyInv
<1>6. NowDue(i) => Count(i, o) = due[i].owed + 1
  BY <1>2, <1>5 DEF Count
<1>7. ~NowDue(i)
  BY <1>3, <1>4, <1>5, <1>6
<1>. QED
  BY <1>1, <1>2, <1>7 DEF NextAt

(* The shared latch belongs to every context whose due is its last.         *)
LEMMA LatchStep ==
  ASSUME ClockType, PendingType, BusyInv, StampInv, Tick, NEW served \in BOOLEAN, Pending(served),
         served => pend[b.idx], NEW i \in Ctx, due'[i].own
  PROVE  pend'[i] /\ latch' = due'[i].at
<1>1. /\ due'[i].at = NextAt(i, served) /\ due'[i].own = NextOwn(i, served)
      /\ pend'[i] <=> NextPend(i, served)
  BY PendingFacts
<1>2. NextPend(i, served) /\ IF Strobe /\ AnyDue THEN Due(i) ELSE due[i].own
  BY <1>1 DEF NextOwn
<1>3. CASE Strobe /\ AnyDue
  BY <1>1, <1>2, <1>3 DEF NextAt, NowDue, Tick
<1>4. CASE ~(Strobe /\ AnyDue)
  <2>1. latch' = latch /\ latch = due[i].at
    BY <1>2, <1>4 DEF Tick, StampInv
  <2>2. ~NowDue(i)
    BY <1>4 DEF NowDue, AnyDue
  <2>. QED
    BY <1>1, <1>2, <2>1, <2>2 DEF NextAt
<1>. QED
  BY <1>3, <1>4

LEMMA CheckStamp ==
  ASSUME ClockType, ContextType, BuilderType, PendingType, PhaseInv, BusyInv, FrameInv, NoDueLost',
         FwWait \/ Bind \/ Unbind, Check, Pending(FALSE)
  PROVE  FrameInv'
<1>1. /\ b'.idx = b.idx /\ b'.byte = 0 /\ b.idx \in Ctx
      /\ \/ b'.state = "SKIP"
         \/ /\ b'.state = "BUILD" /\ Cur.slots # 0 /\ pend[b.idx]
            /\ frame'.due = due[b.idx].at
            /\ frame'.same = (due[b.idx].same /\ ~CfgWrite(b.idx))
  BY CheckFacts, BuilderFields DEF BusyInv, BuilderType
<1>2. CASE b'.state = "SKIP"
  BY <1>2 DEF FrameInv
<1>3. CASE b'.state = "BUILD" /\ frame'.same
  <2>1. due[b.idx].same /\ ~CfgWrite(b.idx) /\ pend[b.idx] /\ Cur.slots # 0 /\ frame'.due = due[b.idx].at
    BY <1>1, <1>3
  <2>2. due'[b.idx].same /\ due'[b.idx].at = due[b.idx].at
    BY <1>1, <2>1, DueKept
  <2>3. ctx'[b.idx] = ctx[b.idx]
    BY <1>1, <2>1, ContextKept
  <2>4. Cur'.slots # 0
    BY <1>1, <2>1, <2>3 DEF Cur
  <2>. QED
    BY <1>1, <1>3, <2>1, <2>2, <2>4 DEF FrameInv
<1>4. CASE b'.state = "BUILD" /\ ~frame'.same
  BY <1>4 DEF FrameInv
<1>. QED
  BY <1>1, <1>2, <1>3, <1>4

LEMMA BuildStamp ==
  ASSUME ClockType, ContextType, BuilderType, PendingType, PhaseInv, BusyInv, StampInv, FrameInv,
         NoDueLost', FwWait \/ Bind \/ Unbind, Build, Pending(FALSE)
  PROVE  FrameInv'
<1>1. /\ b.state = "BUILD" /\ b.idx \in Ctx /\ b.byte \in 0 .. BYTE_WRAP - 1 /\ b \in BuilderState
      /\ pend[b.idx] /\ BYTE_WRAP \in Nat
  BY BuilderFields, ConstantTypes DEF BuilderType, Build, BusyInv
<1>2. /\ b'.idx = b.idx /\ frame'.due = frame.due
      /\ frame'.same = (frame.same /\ ~CfgWrite(b.idx))
      /\ frame'.own = (frame.own /\ due[b.idx].own)
  BY BuildFacts
<1>3. /\ b.byte = 0 => /\ frame'.time = WindowStart(latch.time, Cur.fpp)
                       /\ frame'.fpp = Cur.fpp /\ frame'.base = {}
      /\ b.byte # 0 => /\ frame'.time = frame.time /\ frame'.fpp = frame.fpp
                       /\ frame'.base = frame.base \cup {Base(Cur.fpp)}
  BY BuildFacts
<1>4. /\ b.byte = FrameBeats(Cur) - 1 => b'.state = "PREFETCH" /\ b'.byte = 0
      /\ b.byte # FrameBeats(Cur) - 1 => b'.state = "BUILD" /\ b'.byte = (b.byte + 1) % BYTE_WRAP
  BY BuildFacts
<1>5. b'.state \in {"BUILD", "PREFETCH"}
  BY <1>4
<1>6. CASE ~frame'.same
  BY <1>5, <1>6 DEF FrameInv
<1>7. CASE frame'.same
  <2>1. /\ frame.same /\ ~CfgWrite(b.idx)
    BY <1>2, <1>7
  <2>2. due[b.idx].same /\ frame.due = due[b.idx].at /\ Cur.slots # 0
    BY <1>1, <2>1 DEF FrameInv
  <2>3. due'[b.idx].same /\ due'[b.idx].at = due[b.idx].at
    BY <1>1, <2>1, <2>2, DueKept
  <2>4. ctx'[b.idx] = ctx[b.idx]
    BY <1>1, <2>1, ContextKept
  <2>5. Cur' = Cur
    BY <1>2, <2>4 DEF Cur
  <2>6. /\ FrameBeats(Cur) \in Nat /\ FrameBeats(Cur) >= 2 /\ FrameBeats(Cur) < BYTE_WRAP
    BY <1>1, <2>2, CurFacts, ZeroTypes, BeatsFit
  <2>7. ASSUME frame'.own
        PROVE  frame.own /\ latch = frame.due /\ Base(Cur.fpp) = (frame.due.rd - Cur.fpp) % SUBSEC_MAX
    <3>1. frame.own /\ due[b.idx].own
      BY <1>2, <2>7
    <3>2. latch = due[b.idx].at
      BY <1>1, <3>1 DEF StampInv
    <3>. QED
      BY <2>2, <3>1, <3>2 DEF Base
  <2>8. ASSUME frame'.own, b.byte = 0
        PROVE  frame'.fpp = Cur.fpp /\ Stamped(frame') /\ frame'.base = {}
    BY <1>2, <1>3, <2>7, <2>8 DEF Stamped
  <2>9. ASSUME frame'.own, b.byte # 0
        PROVE  frame'.fpp = Cur.fpp /\ Stamped(frame') /\ frame'.base = Window(frame')
    <3>1. b.byte > 0 /\ frame.own
      BY <1>1, <2>7, <2>9
    <3>2. /\ frame.fpp = Cur.fpp /\ Stamped(frame)
          /\ frame.base = IF b.byte = 1 THEN {} ELSE Window(frame)
      BY <1>1, <2>1, <3>1 DEF FrameInv
    <3>3. Base(Cur.fpp) = (frame.due.rd - frame.fpp) % SUBSEC_MAX
      BY <2>7, <2>9, <3>2
    <3>4. frame.base \cup {Base(Cur.fpp)} = Window(frame)
      BY <3>2, <3>3 DEF Window
    <3>5. /\ frame'.time = frame.time /\ frame'.fpp = frame.fpp /\ frame'.due = frame.due
          /\ frame'.base = Window(frame)
      BY <1>2, <1>3, <2>9, <3>4
    <3>. QED
      BY <3>2, <3>5 DEF Stamped, Window
  <2>10. CASE b.byte = FrameBeats(Cur) - 1
    <3>1. b'.state = "PREFETCH" /\ b.byte # 0
      BY <1>4, <2>6, <2>10
    <3>. QED
      BY <2>9, <3>1 DEF FrameInv
  <2>11. CASE b.byte # FrameBeats(Cur) - 1
    <3>1. b'.state = "BUILD" /\ b'.byte = (b.byte + 1) % BYTE_WRAP
      BY <1>4, <2>11
    <3>2. CASE b.byte = 0
      <4>1. b'.byte = 1
        BY <1>1, <2>6, <3>1, <3>2
      <4>. QED
        BY <1>2, <2>2, <2>3, <2>5, <2>8, <3>1, <3>2, <4>1 DEF FrameInv
    <3>3. CASE b.byte # 0
      <4>1. b'.byte # 1
        <5>1. CASE b.byte = BYTE_WRAP - 1
          BY <1>1, <3>1, <5>1
        <5>2. CASE b.byte # BYTE_WRAP - 1
          <6>1. b.byte + 1 \in 0 .. BYTE_WRAP - 1
            BY <1>1, <5>2
          <6>2. (b.byte + 1) % BYTE_WRAP = b.byte + 1
            BY <1>1, <6>1
          <6>. QED
            BY <1>1, <3>1, <3>3, <6>2
        <5>. QED
          BY <5>1, <5>2
      <4>. QED
        BY <1>2, <2>2, <2>3, <2>5, <2>9, <3>1, <3>3, <4>1 DEF FrameInv
    <3>. QED
      BY <3>2, <3>3
  <2>. QED
    BY <2>10, <2>11
<1>. QED
  BY <1>6, <1>7

LEMMA StampStep ==
  ASSUME ClockType, ContextType, BuilderType, PendingType, PhaseInv, BusyInv, StampInv, NoDueLost',
         Tick, Builder, FwWait \/ Bind \/ Unbind
  PROVE  StampInv'
<1>1. FrameInv
  BY DEF StampInv
<1>2. SUFFICES FrameInv' /\ \A i \in Ctx : due'[i].own => pend'[i] /\ latch' = due'[i].at
  BY DEF StampInv
<1>3. CASE (Idle \/ Check \/ Skip \/ Build \/ Prefetch \/ StreamStall) /\ Pending(FALSE)
  <2>1. \A i \in Ctx : due'[i].own => pend'[i] /\ latch' = due'[i].at
    BY <1>3, LatchStep
  <2>2. CASE Idle
    <3>1. b'.state \in {"IDLE", "CHECK"}
      BY <2>2, IdleFacts
    <3>. QED
      BY <2>1, <3>1 DEF FrameInv
  <2>3. CASE Check
    BY <1>1, <1>3, <2>1, <2>3, CheckStamp
  <2>4. CASE Build
    BY <1>1, <1>3, <2>1, <2>4, BuildStamp
  <2>5. CASE Skip
    <3>1. b'.state \in {"IDLE", "CHECK"}
      BY <2>5, OtherFacts DEF Skip, Prefetch
    <3>. QED
      BY <2>1, <3>1 DEF FrameInv
  <2>6. CASE Prefetch
    <3>1. b.state = "PREFETCH" /\ b'.state = "STREAM" /\ frame' = frame
      BY <2>6, OtherFacts DEF Skip, Prefetch
    <3>. QED
      BY <1>1, <2>1, <3>1 DEF FrameInv, Stamped, Window
  <2>7. CASE StreamStall
    <3>1. b.state = "STREAM" /\ (b'.state \in {"IDLE", "CHECK"} \/ (b'.state = "STREAM" /\ frame' = frame))
      BY <2>7, StreamFacts DEF StreamStall
    <3>. QED
      BY <1>1, <2>1, <3>1 DEF FrameInv, Stamped, Window
  <2>. QED
    BY <1>3, <2>2, <2>3, <2>4, <2>5, <2>6, <2>7
<1>4. CASE StreamBeat /\ Pending(LastBeat)
  <2>1. b.state = "STREAM" /\ pend[b.idx] /\ LastBeat \in BOOLEAN
    BY <1>4 DEF StreamBeat, LastBeat, BusyInv
  <2>2. \A i \in Ctx : due'[i].own => pend'[i] /\ latch' = due'[i].at
    BY <1>4, <2>1, LatchStep
  <2>3. b'.state \in {"IDLE", "CHECK"} \/ (b'.state = "STREAM" /\ frame' = frame)
    BY <1>4, StreamFacts
  <2>. QED
    BY <1>1, <2>1, <2>2, <2>3 DEF FrameInv, Stamped, Window
<1>. QED
  BY <1>3, <1>4 DEF Builder

LEMMA InitStamp == Init => StampInv
<1> SUFFICES ASSUME Init PROVE StampInv
  OBVIOUS
<1>1. \A i \in Ctx : ~due[i].own
  BY DEF Init
<1>2. b.state = "IDLE"
  BY DEF Init, At0
<1>. QED
  BY <1>1, <1>2 DEF StampInv, FrameInv

LEMMA NextStamp == Sound /\ StampInv /\ NoDueLost' /\ [Next]_vars => StampInv'
<1> SUFFICES ASSUME Sound, StampInv, NoDueLost', [Next]_vars PROVE StampInv'
  OBVIOUS
<1>1. ClockType /\ PhaseType /\ ContextType /\ BuilderType /\ PendingType /\ PhaseInv /\ BusyInv
  BY TypeParts DEF Sound
<1>2. CASE Next
  BY <1>1, <1>2, StampStep DEF Next, Gateware
<1>3. CASE UNCHANGED vars
  BY <1>3 DEF vars, StampInv, FrameInv, Stamped, Window, Cur
<1>. QED
  BY <1>2, <1>3

(* As long as no due frame is lost, a frame that no CSR write touches and  *)
(* no later due of another context overtakes carries the time of its own   *)
(* group and copies exactly that group's window, although the timestamp    *)
(* and ring position it is built from are latched once for all contexts.   *)
THEOREM StampsAreOwn == Spec /\ []NoDueLost => []StampAndWindow
<1>1. StampInv => StampAndWindow
  BY DEF StampInv, FrameInv, StampAndWindow, Stamped, Window
<1>. QED
  BY <1>1, InitSound, NextSound, InitStamp, NextStamp, PTL DEF Spec

-----------------------------------------------------------------------------
(* No due frame is lost.                                                    *)

(* The longest frame of any flow.                                           *)
Lengths == {n \in Nat : \A c \in Flow \cup {Off} : FrameBeats(c) <= n}
Longest == CHOOSE n \in Lengths : \A m \in Lengths : n <= m

(* The longest a context takes the builder, from CHECK to its last word,    *)
(* and what a write of flow_cfg may add to that: while its frame is built   *)
(* or sent, the counter of that state goes once around.                     *)
Cost == 2 + (2 * Longest) + STALL
Wrap == IF BYTE_WRAP > WORD_WRAP THEN BYTE_WRAP ELSE WORD_WRAP

(* Every packet lasts longer than a walk over all contexts and the frame    *)
(* that is under way at its start, with a counter sent around by the last   *)
(* request of the firmware and others by every write of the next, which may *)
(* clear BURST contexts; and no two requests come within it.                *)
Schedulable ==
  \A f \in FPP_TABLE :
    f <= REST /\ 2 + ((BURST + 2) * Wrap) + ((N_CTX + 1) * Cost) <= f * DIV

(* Cycles until a counter that wraps at w has passed t.                     *)
Left(t, x, w) == IF x <= t THEN t - x + 1 ELSE t - x + 1 + w

(* Cycles until the builder leaves the context it is at.                    *)
Leave ==
  IF b.state = "CHECK" THEN Cost
  ELSE IF b.state = "BUILD"
       THEN Left(FrameBeats(Cur) - 1, b.byte, BYTE_WRAP) + 1 + Longest + STALL
  ELSE IF b.state = "PREFETCH" THEN 1 + Longest + STALL
  ELSE IF b.state = "STREAM"
       THEN Left(FrameBeats(Cur) - 1, b.word, WORD_WRAP) + STALL - b.stall
  ELSE 1

(* And from there until context i has been sent: the contexts that come     *)
(* before it in this walk or the next.                                      *)
Ahead(i) == b.idx < i \/ (b.idx = i /\ b.state # "SKIP")
Way(i) ==
  IF b.state = "IDLE" THEN (i + 1) * Cost
  ELSE IF Ahead(i) THEN (i - b.idx) * Cost
  ELSE ((N_CTX - b.idx + i) * Cost) + 1

(* The write of flow_cfg in this cycle changes the context: it clears it or *)
(* is the first of its call.  A second attempt of the seqlock writes what   *)
(* is there already.                                                        *)
Changes == fw.step = "off" \/ (fw.step = "cfg" /\ fw.tries = 0)
SecondWrite == fw.step \in {"read", "cfg"} /\ fw.tries # 0 => ctx[fw.ctx] = fw.flow

(* Such writes that may still come before context i is due again.           *)
Writes(i) ==
  IF fw.step = "none" THEN IF phase[i] + fw.rest >= ctx[i].fpp THEN 0 ELSE BURST + 1
  ELSE IF fw.step = "off" THEN fw.left + 2
  ELSE IF fw.step = "next" THEN fw.left + 1
  ELSE IF fw.tries = 0 THEN 1 ELSE 0

(* A pending context is sent before its next due: the cycles since its due, *)
(* those the builder still needs and those that writes may still cost fit   *)
(* into its packet.                                                         *)
Age(i) == (phase[i] * DIV) + clk
InTime(i) ==
  /\ ctx[i] \in Flow
  /\ Age(i) + Leave + Way(i) + (Writes(i) * Wrap) < ctx[i].fpp * DIV
RegistersInv ==
  /\ b.state = "IDLE" => b.idx = 0
  /\ b.state # "STREAM" => b.word = 0 /\ b.stall = 0
WaitInv ==
  /\ RegistersInv
  /\ SecondWrite
  /\ \A i \in Ctx : pend[i] /\ due[i].same => InTime(i)
  /\ NoDueLost

LEMMA LeftFacts ==
  ASSUME NEW w \in Nat, NEW t \in 0 .. w - 1, NEW x \in 0 .. w - 1
  PROVE  /\ Left(t, x, w) \in 1 .. w
         /\ x # t => Left(t, (x + 1) % w, w) = Left(t, x, w) - 1
         /\ x = t => Left(t, x, w) = 1
         /\ Left(t, 0, w) = t + 1
<1>1. CASE x = w - 1
  <2>1. (x + 1) % w = 0
    BY <1>1
  <2>. QED
    BY <1>1, <2>1 DEF Left
<1>2. CASE x # w - 1
  <2>1. x + 1 \in 0 .. w - 1
    BY <1>2
  <2>2. (x + 1) % w = x + 1
    BY <2>1
  <2>. QED
    BY <2>1, <2>2 DEF Left
<1>. QED
  BY <1>1, <1>2

LEMMA TargetFits ==
  ASSUME NEW c \in Flow \cup {Off}
  PROVE  /\ FrameBeats(c) - 1 \in 0 .. BYTE_WRAP - 1 /\ FrameBeats(c) - 1 \in 0 .. WORD_WRAP - 1
         /\ FrameBeats(c) \in Nat /\ FrameBeats(c) <= WORD_WRAP
<1>1. CASE c \in Flow
  <2>1. FrameBeats(c) \in Nat /\ FrameBeats(c) >= 2 /\ FrameBeats(c) < BYTE_WRAP
    BY <1>1, BeatsFit
  <2>2. c.slots \in SLOTS /\ c.fpp \in FPP_TABLE
    BY <1>1, ZeroTypes
  <2>3. FrameBeats(c) <= WORD_WRAP
    BY <2>2, PacketizerAssumption DEF FrameBeats
  <2>. QED
    BY <2>1, <2>3, ConstantTypes
<1>2. CASE c = Off
  <2>1. c.slots = 0 /\ c.fpp \in Nat /\ BEAT \in Nat /\ BEAT > 0
    BY <1>2, ZeroTypes, ConstantTypes
  <2>2. c.slots * c.fpp = 0
    BY <2>1
  <2>3. FrameBeats(c) = 1
    BY <2>1, <2>2 DEF FrameBeats
  <2>. QED
    BY <2>3, ConstantTypes
<1>. QED
  BY <1>1, <1>2

(* A longest frame exists, and none is longer.                              *)
LEMMA LongestFits ==
  Longest \in Nat /\ \A c \in Flow \cup {Off} : FrameBeats(c) <= Longest
<1> DEFINE R == OpToRel(<, Nat)
<1>1. Lengths \subseteq Nat /\ Lengths # {}
  <2>1. WORD_WRAP \in Lengths
    BY TargetFits, ConstantTypes DEF Lengths
  <2>. QED
    BY <2>1 DEF Lengths
<1>2. IsWellFoundedOn(R, Nat)
  BY NatLessThanWellFounded
<1>3. PICK x \in Lengths : \A y \in Lengths : ~(<<y, x>> \in R)
  <2> HIDE DEF R
  <2>. QED
    BY <1>1, <1>2, WFMin
<1>4. \A y \in Nat, z \in Nat : y < z => <<y, z>> \in R
  BY DEF OpToRel
<1> HIDE DEF R
<1>5. ASSUME NEW k \in Lengths PROVE x <= k
  <2>1. k \in Nat /\ x \in Nat
    BY <1>1
  <2>2. ~(k < x)
    BY <1>3, <1>4, <2>1, Zenon
  <2>. QED
    BY <2>1, <2>2
<1>6. Longest \in Lengths
  BY <1>5 DEF Longest
<1>. QED
  BY <1>6 DEF Lengths

LEMMA CostType == Cost \in Nat /\ Cost >= 2 /\ Wrap \in Nat /\ BYTE_WRAP <= Wrap /\ WORD_WRAP <= Wrap
                  /\ WORD_WRAP \in Nat /\ WORD_WRAP > 0 /\ BYTE_WRAP \in Nat /\ BYTE_WRAP > 0
                  /\ STALL \in Nat /\ N_CTX \in Nat /\ N_CTX > 0 /\ Longest \in Nat
BY ConstantTypes, LongestFits DEF Cost, Wrap

(* The length of the frame at the builder, before and after a cycle.        *)
LEMMA Targets ==
  ASSUME ContextType, BuilderType, ContextType', BuilderType'
  PROVE  /\ b.idx \in Ctx /\ b'.idx \in Ctx /\ b.byte \in 0 .. BYTE_WRAP - 1 /\ b.word \in 0 .. WORD_WRAP - 1
         /\ b.stall \in 0 .. STALL
         /\ b'.byte \in 0 .. BYTE_WRAP - 1 /\ b'.word \in 0 .. WORD_WRAP - 1 /\ b'.stall \in 0 .. STALL
         /\ FrameBeats(Cur) - 1 \in 0 .. BYTE_WRAP - 1 /\ FrameBeats(Cur) - 1 \in 0 .. WORD_WRAP - 1
         /\ FrameBeats(Cur)' - 1 \in 0 .. BYTE_WRAP - 1 /\ FrameBeats(Cur)' - 1 \in 0 .. WORD_WRAP - 1
         /\ FrameBeats(Cur)' \in Nat /\ FrameBeats(Cur)' <= Longest
         /\ b.idx \in Nat /\ b'.idx \in Nat
<1>1. b \in BuilderState /\ b' \in BuilderState
  BY DEF BuilderType
<1>2. Cur \in Flow \cup {Off}
  BY <1>1, CurFacts
<1>3. Cur' \in Flow \cup {Off}
  BY <1>1, BuilderFields DEF Cur, ContextType
<1>4. FrameBeats(Cur)' = FrameBeats(Cur')
  BY DEF FrameBeats
<1>5. b.idx \in Ctx /\ b'.idx \in Ctx
  BY <1>1, BuilderFields
<1>6. b.idx \in Nat /\ b'.idx \in Nat
  BY <1>5, ConstantTypes DEF Ctx
<1>. QED
  BY <1>1, <1>2, <1>3, <1>4, <1>5, <1>6, TargetFits, LongestFits, BuilderFields

LEMMA LeaveBounds ==
  ASSUME ContextType, BuilderType
  PROVE  Leave \in Nat /\ Leave >= 1 /\ Leave <= Cost + Wrap
<1>1. b \in BuilderState
  BY DEF BuilderType
<1>2. /\ b.byte \in 0 .. BYTE_WRAP - 1 /\ b.word \in 0 .. WORD_WRAP - 1 /\ b.stall \in 0 .. STALL
      /\ FrameBeats(Cur) - 1 \in 0 .. BYTE_WRAP - 1 /\ FrameBeats(Cur) - 1 \in 0 .. WORD_WRAP - 1
  BY <1>1, BuilderFields, CurFacts, TargetFits
<1> DEFINE l == Left(FrameBeats(Cur) - 1, b.byte, BYTE_WRAP)
           m == Left(FrameBeats(Cur) - 1, b.word, WORD_WRAP)
<1>3. l \in 1 .. BYTE_WRAP /\ m \in 1 .. WORD_WRAP
  BY <1>2, CostType, LeftFacts
<1> HIDE DEF l, m
<1>4. Leave = IF b.state = "CHECK" THEN Cost
              ELSE IF b.state = "BUILD" THEN l + 1 + Longest + STALL
              ELSE IF b.state = "PREFETCH" THEN 1 + Longest + STALL
              ELSE IF b.state = "STREAM" THEN m + STALL - b.stall ELSE 1
  BY DEF Leave, l, m
<1>5. Cost = 2 + (2 * Longest) + STALL
  BY DEF Cost
<1>. QED
  BY <1>2, <1>3, <1>4, <1>5, CostType

LEMMA WayBounds ==
  ASSUME BuilderType, NEW i \in Ctx
  PROVE  Way(i) \in Nat /\ Way(i) <= (N_CTX * Cost) + 1
<1>1. b.idx \in Ctx
  BY BuilderFields DEF BuilderType
<1>2. i \in Nat /\ i < N_CTX /\ b.idx \in Nat /\ b.idx < N_CTX
  BY <1>1, CostType DEF Ctx
<1>3. \A n \in 0 .. N_CTX : n * Cost \in Nat /\ n * Cost <= N_CTX * Cost
  BY CostType
<1>4. CASE b.state = "IDLE"
  BY <1>2, <1>3, <1>4, CostType DEF Way
<1>5. CASE b.state # "IDLE" /\ Ahead(i)
  <2>1. i - b.idx \in 0 .. N_CTX
    <3>1. b.idx < i \/ b.idx = i
      BY <1>5 DEF Ahead
    <3>. QED
      BY <1>2, <3>1, CostType
  <2>. QED
    BY <1>3, <1>5, <2>1, CostType DEF Way
<1>6. CASE b.state # "IDLE" /\ ~Ahead(i)
  <2>1. N_CTX - b.idx + i \in 0 .. N_CTX
    <3>1. ~(b.idx < i)
      BY <1>6 DEF Ahead
    <3>. QED
      BY <1>2, <3>1, CostType
  <2>. QED
    BY <1>3, <1>6, <2>1, CostType DEF Way
<1>. QED
  BY <1>4, <1>5, <1>6

LEMMA AdvanceTo ==
  ASSUME b \in BuilderState, Advance
  PROVE  /\ b'.word = 0 /\ b'.stall = 0
         /\ b.idx # N_CTX - 1 => b'.state = "CHECK" /\ b'.idx = b.idx + 1
         /\ b.idx = N_CTX - 1 => b'.state = "IDLE" /\ b'.idx = 0
<1>1. CASE b.idx # N_CTX - 1
  <2>1. b' = [state |-> "CHECK", idx |-> b.idx + 1, byte |-> 0, word |-> 0, stall |-> 0]
    BY <1>1 DEF Advance, At0
  <2>. QED
    BY <1>1, <2>1
<1>2. CASE b.idx = N_CTX - 1
  BY <1>2 DEF Advance, At0
<1>. QED
  BY <1>1, <1>2

LEMMA GotoKeeps ==
  ASSUME b \in BuilderState, NEW s \in States, Goto(s)
  PROVE  b'.state = s /\ b'.idx = b.idx /\ b'.word = b.word /\ b'.stall = b.stall
BY DEF BuilderState, Goto

LEMMA BuildKeeps ==
  ASSUME b \in BuilderState, Build
  PROVE  b'.word = b.word /\ b'.stall = b.stall
<1>1. CASE b.byte = FrameBeats(Cur) - 1
  <2>1. b' = [b EXCEPT !.state = "PREFETCH", !.byte = 0]
    BY <1>1 DEF Build
  <2>. QED
    BY <2>1 DEF BuilderState
<1>2. CASE b.byte # FrameBeats(Cur) - 1
  <2> DEFINE n == (b.byte + 1) % BYTE_WRAP
  <2>1. b' = [b EXCEPT !.byte = n]
    BY <1>2 DEF Build
  <2> HIDE DEF n
  <2>. QED
    BY <2>1 DEF BuilderState
<1>. QED
  BY <1>1, <1>2

LEMMA StreamKeeps ==
  ASSUME b \in BuilderState, (StreamBeat /\ ~LastBeat) \/ StreamStall
  PROVE  /\ b.state = "STREAM" /\ b'.state = "STREAM" /\ b'.idx = b.idx
         /\ \/ ~LastBeat /\ b'.word = (b.word + 1) % WORD_WRAP /\ b'.stall = b.stall
            \/ b'.word = b.word /\ b'.stall = b.stall + 1
<1>1. CASE StreamBeat /\ ~LastBeat
  <2> DEFINE n == (b.word + 1) % WORD_WRAP
  <2>1. b' = [b EXCEPT !.word = n] /\ b.state = "STREAM"
    BY <1>1 DEF StreamBeat
  <2> HIDE DEF n
  <2>2. b'.state = b.state /\ b'.idx = b.idx /\ b'.word = n /\ b'.stall = b.stall
    BY <2>1 DEF BuilderState
  <2>. QED
    BY <1>1, <2>1, <2>2 DEF n
<1>2. CASE StreamStall
  <2>1. b' = [b EXCEPT !.stall = b.stall + 1] /\ b.state = "STREAM"
    BY <1>2 DEF StreamStall
  <2>2. b'.state = b.state /\ b'.idx = b.idx /\ b'.word = b.word /\ b'.stall = b.stall + 1
    BY <2>1 DEF BuilderState
  <2>. QED
    BY <2>1, <2>2
<1>. QED
  BY <1>1, <1>2

LEMMA RegistersStep ==
  ASSUME BuilderType, RegistersInv, Builder
  PROVE  RegistersInv'
<1>1. b \in BuilderState
  BY DEF BuilderType
<1>2. CASE Idle
  <2>1. b.state = "IDLE" /\ (b' = b \/ Goto("CHECK"))
    BY <1>2 DEF Idle
  <2>. QED
    BY <1>1, <2>1, GotoKeeps DEF RegistersInv, States
<1>3. CASE Check
  <2>1. b.state = "CHECK" /\ (Goto("SKIP") \/ Goto("BUILD"))
    BY <1>3 DEF Check
  <2>. QED
    BY <1>1, <2>1, GotoKeeps DEF RegistersInv, States
<1>4. CASE Skip
  BY <1>1, <1>4, AdvanceTo DEF Skip, RegistersInv
<1>5. CASE Build
  <2>1. b.state = "BUILD" /\ b'.word = b.word /\ b'.stall = b.stall
    BY <1>1, <1>5, BuildKeeps DEF Build
  <2>2. b'.state # "IDLE"
    <3>1. CASE b.byte = FrameBeats(Cur) - 1
      <4>1. b' = [b EXCEPT !.state = "PREFETCH", !.byte = 0]
        BY <1>5, <3>1 DEF Build
      <4>. QED
        BY <1>1, <4>1 DEF BuilderState
    <3>2. CASE b.byte # FrameBeats(Cur) - 1
      <4>1. b' = [b EXCEPT !.byte = (b.byte + 1) % BYTE_WRAP]
        BY <1>5, <3>2 DEF Build
      <4>2. b'.state = b.state
        BY <1>1, <4>1 DEF BuilderState
      <4>. QED
        BY <2>1, <4>2
    <3>. QED
      BY <3>1, <3>2
  <2>. QED
    BY <2>1, <2>2 DEF RegistersInv
<1>6. CASE Prefetch
  BY <1>1, <1>6, GotoKeeps DEF Prefetch, RegistersInv, States
<1>7. CASE StreamStall \/ (StreamBeat /\ ~LastBeat)
  BY <1>1, <1>7, StreamKeeps DEF RegistersInv
<1>8. CASE StreamBeat /\ LastBeat
  BY <1>1, <1>8, AdvanceTo DEF StreamBeat, RegistersInv
<1>. QED
  BY <1>2, <1>3, <1>4, <1>5, <1>6, <1>7, <1>8 DEF Builder

(* In every cycle the builder comes one cycle nearer to a pending context,  *)
(* unless a write sends the counters of the present one around.             *)
Extra == IF CfgWrite(b.idx) /\ Changes THEN Wrap ELSE 0

LEMMA ExtraType == Extra \in Nat /\ Extra >= 0
BY CostType DEF Extra

LEMMA CurKept ==
  ASSUME ClockType, ContextType, PhaseInv, SecondWrite, FwWait \/ Bind \/ Unbind,
         b'.idx = b.idx, b.idx \in Ctx, ~(CfgWrite(b.idx) /\ Changes)
  PROVE  Cur' = Cur
<1>1. CASE ~CfgWrite(b.idx)
  BY <1>1, ContextKept DEF Cur
<1>2. CASE CfgWrite(b.idx)
  <2>1. fw.step = "cfg" /\ fw.tries # 0 /\ ctx[fw.ctx] = fw.flow /\ fw.ctx = b.idx
    BY <1>2 DEF CfgWrite, Changes, SecondWrite
  <2>2. WriteCfg
    BY <2>1, BurstFacts
       DEF FwWait, Quiet, Bind, BindStart, Ready, ReadNow, ReadAgain, Unbind, UnbindStart, WriteOff
  <2>3. ctx' = [ctx EXCEPT ![b.idx] = ctx[b.idx]] /\ ctx \in [Ctx -> Flow \cup {Off}]
    BY <2>1, <2>2 DEF WriteCfg, ContextType
  <2>. QED
    BY <2>3 DEF Cur
<1>. QED
  BY <1>1, <1>2

LEMMA AdvanceDrop ==
  ASSUME BuilderType, Advance, b.state # "IDLE", NEW i \in Ctx, i # b.idx \/ b.state = "SKIP"
  PROVE  Leave' + Way(i)' <= Way(i)
<1>1. b \in BuilderState
  BY DEF BuilderType
<1>2. /\ b.idx # N_CTX - 1 => b'.state = "CHECK" /\ b'.idx = b.idx + 1
      /\ b.idx = N_CTX - 1 => b'.state = "IDLE" /\ b'.idx = 0
  BY <1>1, AdvanceTo
<1>3. i \in Nat /\ i < N_CTX /\ b.idx \in Nat /\ b.idx < N_CTX /\ Cost \in Nat /\ N_CTX \in Nat
  BY <1>1, BuilderFields, CostType DEF Ctx
<1>4. ASSUME NEW n \in Int PROVE ((n - 1) * Cost) + Cost = n * Cost /\ n * Cost \in Int /\ (n - 1) * Cost \in Int
  BY <1>3, <1>4
<1>5. CASE b.idx # N_CTX - 1 /\ b.idx < i
  <2>1. Ahead(i) /\ Ahead(i)'
    BY <1>2, <1>3, <1>5 DEF Ahead
  <2>2. Leave' = Cost /\ Way(i)' = (i - (b.idx + 1)) * Cost /\ Way(i) = (i - b.idx) * Cost
    BY <1>2, <1>5, <2>1 DEF Leave, Way
  <2>3. i - b.idx \in Int /\ i - (b.idx + 1) = (i - b.idx) - 1
    BY <1>3
  <2>. QED
    BY <1>3, <1>4, <2>2, <2>3
<1>6. CASE b.idx # N_CTX - 1 /\ ~(b.idx < i)
  <2>1. ~Ahead(i) /\ ~Ahead(i)'
    BY <1>2, <1>3, <1>6 DEF Ahead
  <2>2. /\ Leave' = Cost /\ Way(i)' = ((N_CTX - (b.idx + 1) + i) * Cost) + 1
        /\ Way(i) = ((N_CTX - b.idx + i) * Cost) + 1
    BY <1>2, <1>6, <2>1 DEF Leave, Way
  <2>3. N_CTX - b.idx + i \in Int /\ N_CTX - (b.idx + 1) + i = (N_CTX - b.idx + i) - 1
    BY <1>3
  <2>. QED
    BY <1>3, <1>4, <2>2, <2>3
<1>7. CASE b.idx = N_CTX - 1
  <2>1. ~Ahead(i)
    BY <1>3, <1>7 DEF Ahead
  <2>2. /\ Leave' = 1 /\ Way(i)' = (i + 1) * Cost /\ Way(i) = ((N_CTX - b.idx + i) * Cost) + 1
    BY <1>2, <1>7, <2>1 DEF Leave, Way
  <2>3. N_CTX - b.idx + i = i + 1 /\ i + 1 \in Int
    BY <1>3, <1>7
  <2>4. (i + 1) * Cost \in Int
    BY <1>3
  <2>. QED
    BY <2>2, <2>3, <2>4
<1>. QED
  BY <1>5, <1>6, <1>7

(* The builder stays at its context: the way from there is the same.        *)
LEMMA WayKept ==
  ASSUME NEW i \in Ctx, b'.idx = b.idx, b.state \notin {"IDLE", "SKIP"}, b'.state # "IDLE",
         i = b.idx => b'.state # "SKIP"
  PROVE  Way(i)' = Way(i)
<1>1. Ahead(i)' <=> Ahead(i)
  BY DEF Ahead
<1>. QED
  BY <1>1 DEF Way

LEMMA IdleDrop ==
  ASSUME BuilderType, RegistersInv, Idle, NEW i \in Ctx, pend[i]
  PROVE  Leave' + Way(i)' < Leave + Way(i)
<1>1. b \in BuilderState /\ b.state = "IDLE" /\ b.idx = 0
  BY DEF BuilderType, Idle, RegistersInv
<1>2. Goto("CHECK")
  BY DEF Idle, WalkStarts, AnyPend
<1>3. b'.state = "CHECK" /\ b'.idx = 0
  BY <1>1, <1>2, GotoKeeps DEF States
<1>4. i \in Nat /\ Cost \in Nat
  BY CostType DEF Ctx
<1>5. Ahead(i)'
  BY <1>3, <1>4 DEF Ahead
<1>6. Leave = 1 /\ Leave' = Cost /\ Way(i) = (i + 1) * Cost /\ Way(i)' = (i - 0) * Cost
  BY <1>1, <1>3, <1>5 DEF Leave, Way
<1>7. (i + 1) * Cost = (i * Cost) + Cost /\ i - 0 = i /\ i * Cost \in Int
  BY <1>4
<1>. QED
  BY <1>4, <1>6, <1>7

LEMMA CheckDrop ==
  ASSUME ContextType, BuilderType, PendingType, BusyInv, ContextType', BuilderType', Check,
         NEW i \in Ctx, pend[i], ctx[i].slots # 0
  PROVE  Leave' + Way(i)' < Leave + Way(i)
<1>1. /\ b'.idx = b.idx /\ b.state = "CHECK" /\ b'.byte = 0
      /\ b'.state = "SKIP" \/ b'.state = "BUILD"
  BY CheckFacts DEF BusyInv
<1>2. i = b.idx => b'.state # "SKIP"
  <2>1. SUFFICES ASSUME i = b.idx PROVE Goto("BUILD")
    BY GotoKeeps DEF States, BuilderType
  <2>. QED
    BY <2>1 DEF Check, Cur
<1>3. Way(i)' = Way(i) /\ Way(i) \in Nat
  BY <1>1, <1>2, WayKept, WayBounds
<1>4. Leave = Cost /\ Cost = 2 + (2 * Longest) + STALL
  BY <1>1 DEF Leave, Cost
<1>5. CASE b'.state = "SKIP"
  <2>1. Leave' = 1
    BY <1>5 DEF Leave
  <2>. QED
    BY <1>3, <1>4, <2>1, CostType
<1>6. CASE b'.state = "BUILD"
  <2> DEFINE n == FrameBeats(Cur)'
  <2>1. n \in Nat /\ n <= Longest /\ n - 1 \in 0 .. BYTE_WRAP - 1
    BY Targets
  <2>2. Leave' = Left(n - 1, 0, BYTE_WRAP) + 1 + Longest + STALL
    BY <1>1, <1>6 DEF Leave
  <2> HIDE DEF n
  <2>3. Left(n - 1, 0, BYTE_WRAP) = n
    BY <2>1 DEF Left
  <2>. QED
    BY <1>3, <1>4, <2>1, <2>2, <2>3, CostType
<1>. QED
  BY <1>1, <1>5, <1>6

LEMMA BuildDrop ==
  ASSUME ClockType, ContextType, BuilderType, PhaseInv, SecondWrite, ContextType', BuilderType', Build,
         FwWait \/ Bind \/ Unbind, NEW i \in Ctx
  PROVE  Leave' + Way(i)' < Leave + Way(i) + Extra
<1>1. b.state = "BUILD" /\ b'.idx = b.idx /\ b.idx \in Ctx
  BY BuildFacts, Targets DEF Build
<1>2. /\ b.byte = FrameBeats(Cur) - 1 => b'.state = "PREFETCH"
      /\ b.byte # FrameBeats(Cur) - 1 => b'.state = "BUILD" /\ b'.byte = (b.byte + 1) % BYTE_WRAP
  BY BuildFacts
<1>3. Way(i)' = Way(i) /\ Way(i) \in Nat
  BY <1>1, <1>2, WayKept, WayBounds
<1> DEFINE t == FrameBeats(Cur) - 1
           u == FrameBeats(Cur)' - 1
           x == b.byte
           y == b'.byte
<1>4. /\ t \in 0 .. BYTE_WRAP - 1 /\ u \in 0 .. BYTE_WRAP - 1
      /\ x \in 0 .. BYTE_WRAP - 1 /\ y \in 0 .. BYTE_WRAP - 1
  BY Targets
<1>5. ~(CfgWrite(b.idx) /\ Changes) => u = t
  <2>1. ~(CfgWrite(b.idx) /\ Changes) => Cur' = Cur
    BY <1>1, CurKept
  <2>2. FrameBeats(Cur)' = FrameBeats(Cur')
    BY DEF FrameBeats
  <2>. QED
    BY <2>1, <2>2
<1>6. Leave = Left(t, x, BYTE_WRAP) + 1 + Longest + STALL
  BY <1>1 DEF Leave
<1>7. Left(t, x, BYTE_WRAP) \in 1 .. BYTE_WRAP /\ Left(u, y, BYTE_WRAP) \in 1 .. BYTE_WRAP
  BY <1>4, CostType, LeftFacts
<1>8. CASE x = t
  <2>1. Leave' = 1 + Longest + STALL
    BY <1>2, <1>8 DEF Leave
  <2> HIDE DEF t, u, x, y
  <2>. QED
    BY <1>3, <1>6, <1>7, <2>1, CostType, ExtraType
<1>9. CASE x # t
  <2>1. b'.state = "BUILD" /\ y = (x + 1) % BYTE_WRAP
    BY <1>2, <1>9
  <2>2. Leave' = Left(u, y, BYTE_WRAP) + 1 + Longest + STALL
    BY <2>1 DEF Leave
  <2> HIDE DEF t, u, x, y
  <2>3. Left(t, y, BYTE_WRAP) = Left(t, x, BYTE_WRAP) - 1
    BY <1>4, <1>9, <2>1, CostType, LeftFacts
  <2>4. CASE CfgWrite(b.idx) /\ Changes
    <3>1. Extra = Wrap
      BY <2>4 DEF Extra
    <3>. QED
      BY <1>3, <1>6, <1>7, <2>2, <3>1, CostType
  <2>5. CASE ~(CfgWrite(b.idx) /\ Changes)
    <3>1. Extra = 0 /\ u = t
      BY <1>5, <2>5 DEF Extra
    <3>. QED
      BY <1>3, <1>6, <1>7, <2>2, <2>3, <3>1, CostType
  <2>. QED
    BY <2>4, <2>5
<1>. QED
  BY <1>8, <1>9

LEMMA PrefetchDrop ==
  ASSUME ContextType, BuilderType, RegistersInv, ContextType', BuilderType', Prefetch, NEW i \in Ctx
  PROVE  Leave' + Way(i)' < Leave + Way(i)
<1>1. b \in BuilderState /\ b.state = "PREFETCH" /\ b.word = 0 /\ b.stall = 0
  BY DEF BuilderType, Prefetch, RegistersInv
<1>2. b'.state = "STREAM" /\ b'.idx = b.idx /\ b'.word = 0 /\ b'.stall = 0
  BY <1>1, GotoKeeps DEF Prefetch, States
<1>3. Way(i)' = Way(i) /\ Way(i) \in Nat
  BY <1>1, <1>2, WayKept, WayBounds
<1> DEFINE n == FrameBeats(Cur)'
<1>4. n \in Nat /\ n <= Longest /\ n - 1 \in 0 .. WORD_WRAP - 1
  BY Targets
<1>5. Leave' = Left(n - 1, 0, WORD_WRAP) + STALL - 0 /\ Leave = 1 + Longest + STALL
  BY <1>1, <1>2 DEF Leave
<1> HIDE DEF n
<1>6. Left(n - 1, 0, WORD_WRAP) = n
  BY <1>4 DEF Left
<1>. QED
  BY <1>3, <1>4, <1>5, <1>6, CostType

LEMMA StreamDrop ==
  ASSUME ClockType, ContextType, BuilderType, PhaseInv, SecondWrite, ContextType', BuilderType',
         (StreamBeat /\ ~LastBeat) \/ StreamStall, FwWait \/ Bind \/ Unbind, NEW i \in Ctx
  PROVE  Leave' + Way(i)' < Leave + Way(i) + Extra
<1>1. /\ b.state = "STREAM" /\ b'.state = "STREAM" /\ b'.idx = b.idx
      /\ \/ ~LastBeat /\ b'.word = (b.word + 1) % WORD_WRAP /\ b'.stall = b.stall
         \/ b'.word = b.word /\ b'.stall = b.stall + 1
  BY StreamKeeps DEF BuilderType
<1>2. Way(i)' = Way(i) /\ Way(i) \in Nat
  BY <1>1, WayKept, WayBounds
<1> DEFINE t == FrameBeats(Cur) - 1
           u == FrameBeats(Cur)' - 1
           x == b.word
           y == b'.word
<1>3. /\ t \in 0 .. WORD_WRAP - 1 /\ u \in 0 .. WORD_WRAP - 1 /\ b.idx \in Ctx
      /\ x \in 0 .. WORD_WRAP - 1 /\ y \in 0 .. WORD_WRAP - 1
      /\ b.stall \in 0 .. STALL /\ b'.stall \in 0 .. STALL
  BY Targets
<1>4. ~(CfgWrite(b.idx) /\ Changes) => u = t
  <2>1. ~(CfgWrite(b.idx) /\ Changes) => Cur' = Cur
    BY <1>1, <1>3, CurKept
  <2>2. FrameBeats(Cur)' = FrameBeats(Cur')
    BY DEF FrameBeats
  <2>. QED
    BY <2>1, <2>2
<1>5. Leave = Left(t, x, WORD_WRAP) + STALL - b.stall /\ Leave' = Left(u, y, WORD_WRAP) + STALL - b'.stall
  BY <1>1 DEF Leave
<1>6. Left(t, x, WORD_WRAP) \in 1 .. WORD_WRAP /\ Left(u, y, WORD_WRAP) \in 1 .. WORD_WRAP
  BY <1>3, CostType, LeftFacts
<1>7. \/ Left(t, y, WORD_WRAP) = Left(t, x, WORD_WRAP) - 1 /\ b'.stall = b.stall
      \/ Left(t, y, WORD_WRAP) = Left(t, x, WORD_WRAP) /\ b'.stall = b.stall + 1
  <2>1. CASE ~LastBeat /\ y = (x + 1) % WORD_WRAP /\ b'.stall = b.stall
    <3>1. x # t
      BY <1>1, <2>1 DEF LastBeat
    <3> HIDE DEF t, u, x, y
    <3>. QED
      BY <1>3, <2>1, <3>1, CostType, LeftFacts
  <2>2. CASE y = x /\ b'.stall = b.stall + 1
    BY <2>2
  <2>. QED
    BY <1>1, <2>1, <2>2
<1> HIDE DEF t, u, x, y
<1>8. CASE CfgWrite(b.idx) /\ Changes
  <2>1. Extra = Wrap
    BY <1>8 DEF Extra
  <2>. QED
    BY <1>2, <1>3, <1>5, <1>6, <1>7, <2>1, CostType
<1>9. CASE ~(CfgWrite(b.idx) /\ Changes)
  <2>1. Extra = 0 /\ u = t
    BY <1>4, <1>9 DEF Extra
  <2>. QED
    BY <1>2, <1>3, <1>5, <1>6, <1>7, <2>1, CostType
<1>. QED
  BY <1>8, <1>9

Bounded ==
  /\ Leave \in Nat /\ Leave <= Cost + Wrap
  /\ \A i \in Ctx : Way(i) \in Nat /\ Way(i) <= (N_CTX * Cost) + 1

LEMMA Bounds == ContextType /\ BuilderType => Bounded
BY LeaveBounds, WayBounds DEF Bounded

LEMMA NextBounds ==
  ASSUME ContextType', BuilderType', NEW i \in Ctx
  PROVE  /\ Leave' \in Nat /\ Leave' <= Cost + Wrap
         /\ Way(i)' \in Nat /\ Way(i)' <= (N_CTX * Cost) + 1
<1>1. Bounded'
  BY Bounds, PTL
<1>. QED
  BY <1>1 DEF Bounded

(* A context that is pending and not sent in this cycle.                    *)
LEMMA Drop ==
  ASSUME ClockType, ContextType, BuilderType, PendingType, PhaseInv, SecondWrite, BusyInv,
         RegistersInv, ContextType', BuilderType', Builder, FwWait \/ Bind \/ Unbind,
         NEW i \in Ctx, pend[i], ctx[i].slots # 0, LastBeat /\ StreamBeat => i # b.idx
  PROVE  Leave' + Way(i)' < Leave + Way(i) + Extra
<1>1. Leave \in Nat /\ Leave >= 1 /\ Way(i) \in Nat /\ Extra \in Nat /\ Extra >= 0
  BY LeaveBounds, WayBounds, ExtraType
<1>2. Leave' \in Nat /\ Way(i)' \in Nat
  BY NextBounds
<1>3. CASE Idle
  BY <1>1, <1>2, <1>3, IdleDrop
<1>4. CASE Check
  BY <1>1, <1>2, <1>4, CheckDrop
<1>5. CASE Skip
  <2>1. Leave' + Way(i)' <= Way(i)
    BY <1>5, AdvanceDrop DEF Skip
  <2>. QED
    BY <1>1, <1>2, <2>1
<1>6. CASE Build
  BY <1>6, BuildDrop
<1>7. CASE Prefetch
  BY <1>1, <1>2, <1>7, PrefetchDrop
<1>8. CASE StreamStall \/ (StreamBeat /\ ~LastBeat)
  BY <1>8, StreamDrop
<1>9. CASE StreamBeat /\ LastBeat
  <2>1. Leave' + Way(i)' <= Way(i)
    BY <1>9, AdvanceDrop DEF StreamBeat
  <2>. QED
    BY <1>1, <1>2, <2>1
<1>. QED
  BY <1>3, <1>4, <1>5, <1>6, <1>7, <1>8, <1>9 DEF Builder

(* The firmware's writes.                                                   *)
LEMMA DoneRest == Done.rest = REST
BY DEF Done, Rest

LEMMA WaitRest ==
  ASSUME fw \in FwState, FwWait
  PROVE  fw'.rest = IF Strobe /\ fw.rest > 0 THEN fw.rest - 1 ELSE fw.rest
<1> DEFINE r == IF Strobe /\ fw.rest > 0 THEN fw.rest - 1 ELSE fw.rest
<1>1. fw' = [fw EXCEPT !.rest = r]
  BY DEF FwWait
<1> HIDE DEF r
<1>2. fw'.rest = r
  BY <1>1 DEF FwState
<1>. QED
  BY <1>2 DEF r

WritesFew == \A i \in Ctx : Writes(i) \in 0 .. (BURST + 1)

LEMMA WritesType == ContextType => WritesFew
<1> SUFFICES ASSUME ContextType, NEW i \in Ctx PROVE Writes(i) \in 0 .. (BURST + 1)
  BY DEF WritesFew
<1>1. fw.left \in 0 .. BURST - 1 /\ BURST \in Nat /\ BURST > 0
  BY FwFields, ConstantTypes DEF ContextType
<1>. QED
  BY <1>1 DEF Writes

Writing == IF Changes THEN 1 ELSE 0

LEMMA WritesDrop ==
  ASSUME Schedulable, ClockType, ContextType, PhaseInv, FwWait \/ Bind \/ Unbind,
         NEW i \in Ctx, ctx'[i] = ctx[i], phase[i] \in Nat, phase[i] < ctx[i].fpp,
         phase'[i] = IF Strobe THEN phase[i] + 1 ELSE phase[i]
  PROVE  Writes(i)' + Writing <= Writes(i)
<1>1. /\ ctx[i].fpp \in FPP_TABLE /\ ctx[i].fpp \in Nat /\ ctx[i].fpp <= REST /\ REST \in Nat
  BY ZeroTypes, ConstantTypes DEF ContextType, Schedulable
<1>2. fw \in FwState /\ fw.rest \in Nat /\ phase'[i] \in Nat /\ phase'[i] >= phase[i]
  BY FwFields, ConstantTypes DEF ContextType
<1>3. Writes(i)' = IF fw'.step = "none" THEN IF phase'[i] + fw'.rest >= ctx[i].fpp THEN 0 ELSE BURST + 1
                   ELSE IF fw'.step = "off" THEN fw'.left + 2
                   ELSE IF fw'.step = "next" THEN fw'.left + 1
                   ELSE IF fw'.tries = 0 THEN 1 ELSE 0
  BY DEF Writes
<1>0. fw.left \in Nat /\ fw.left <= BURST - 1 /\ BURST \in Nat /\ BURST > 0
  BY <1>2, FwFields, ConstantTypes
<1>4. CASE FwWait
  <2>1. fw.step = "none" /\ fw'.step = "none"
    BY <1>4, WaitFacts
  <2>2. phase'[i] + fw'.rest >= phase[i] + fw.rest \/ fw.rest = 0
    BY <1>2, <1>4, WaitRest
  <2>3. fw'.rest \in Nat
    BY <1>2, <1>4, WaitRest
  <2>4. Writes(i) = IF phase[i] + fw.rest >= ctx[i].fpp THEN 0 ELSE BURST + 1
    BY <2>1 DEF Writes
  <2>5. Writes(i)' = IF phase'[i] + fw'.rest >= ctx[i].fpp THEN 0 ELSE BURST + 1
    BY <1>3, <2>1
  <2>6. Writing = 0
    BY <2>1 DEF Writing, Changes
  <2>. QED
    BY <1>0, <1>1, <1>2, <2>2, <2>3, <2>4, <2>5, <2>6
<1>5. CASE BindStart
  <2>1. fw.step = "none" /\ fw'.step = "read" /\ fw'.tries = 0
    BY <1>5, BindFacts
  <2>2. fw.rest = 0
    BY <1>5 DEF BindStart, Ready
  <2>. QED
    BY <1>0, <1>1, <1>2, <1>3, <2>1, <2>2 DEF Writes, Writing, Changes
<1>6. CASE ReadNow
  <2>1. fw.step = "read" /\ fw.flow \in Flow /\ (fw.tries = 0 \/ fw.tries = 1)
    BY <1>6 DEF ReadNow, PhaseInv
  <2>2. fw'.step = "cfg" /\ fw'.tries = fw.tries
    BY <1>6, <2>1, ReadFacts
  <2>. QED
    BY <1>3, <2>1, <2>2 DEF Writes, Writing, Changes
<1>7. CASE WriteCfg
  <2>1. fw.step = "cfg" /\ fw.flow \in Flow /\ (fw.tries = 0 \/ fw.tries = 1)
    BY <1>7 DEF WriteCfg, PhaseInv
  <2>2. fw'.step = "again" /\ fw'.tries = fw.tries + 1
    <3>1. fw.tries \in {0, 1}
      BY <2>1
    <3>. QED
      BY <1>7, <2>1, <3>1, WriteFacts
  <2>. QED
    BY <1>3, <2>1, <2>2 DEF Writes, Writing, Changes
<1>8. CASE ReadAgain
  <2>1. fw.step = "again" /\ (fw.tries = 1 \/ fw.tries = 2)
    BY <1>8 DEF ReadAgain, PhaseInv
  <2>2. Writing = 0 /\ Writes(i) = 0
    BY <2>1 DEF Writes, Writing, Changes
  <2>3. CASE SeqlockDone
    <3>1. fw' = Done
      BY <1>8, <2>3 DEF ReadAgain
    <3>2. fw'.step = "none" /\ fw'.rest = REST
      BY <3>1, DoneFacts, DoneRest
    <3>3. Writes(i)' = 0
      BY <1>1, <1>2, <1>3, <3>2
    <3>. QED
      BY <2>1, <2>2, <3>3
  <2>4. CASE ~SeqlockDone
    <3>1. fw'.step = "read" /\ fw'.tries = fw.tries
      BY <1>8, <2>4, AgainFacts
    <3>. QED
      BY <1>3, <2>1, <2>2, <3>1
  <2>. QED
    BY <2>3, <2>4
<1>9. CASE UnbindStart
  <2>1. fw.step = "none" /\ fw'.step = "off" /\ fw'.left = BURST - 1
    BY <1>9, UnbindFacts
  <2>2. fw.rest = 0
    BY <1>9 DEF UnbindStart, Ready
  <2>. QED
    BY <1>0, <1>1, <1>2, <1>3, <2>1, <2>2 DEF Writes, Writing, Changes
<1>10. CASE WriteOff
  <2>1. fw.step = "off" /\ fw'.step = "next" /\ fw'.left = fw.left
    BY <1>10, OffFacts
  <2>. QED
    BY <1>0, <1>3, <2>1 DEF Writes, Writing, Changes
<1>11. CASE Burst
  <2>1. /\ fw.step = "next"
        /\ \/ fw' = fw
           \/ fw'.step = "off" /\ fw'.left = fw.left - 1
           \/ fw'.step = "read" /\ fw'.tries = 0
           \/ fw' = Done
    BY <1>11, BurstFacts
  <2>2. Writing = 0 /\ Writes(i) = fw.left + 1
    BY <2>1 DEF Writes, Writing, Changes
  <2>3. CASE fw' = Done
    <3>1. fw'.step = "none" /\ fw'.rest = REST
      BY <2>3, DoneFacts, DoneRest
    <3>2. Writes(i)' = 0
      BY <1>1, <1>2, <1>3, <3>1
    <3>. QED
      BY <1>0, <2>2, <3>2
  <2>4. CASE fw' # Done
    <3>1. Writes(i)' = fw.left + 1 \/ Writes(i)' = 1
      BY <1>0, <1>3, <2>1, <2>4
    <3>. QED
      BY <1>0, <2>2, <3>1
  <2>. QED
    BY <2>3, <2>4
<1>. QED
  BY <1>4, <1>5, <1>6, <1>7, <1>8, <1>9, <1>10, <1>11 DEF Bind, Unbind

(* A context that is in time does not come due again while it waits.        *)
LEMMA NotYetDue ==
  ASSUME ClockType, ContextType, PhaseType, BuilderType, PhaseInv, NEW i \in Ctx, InTime(i)
  PROVE  ~NowDue(i)
<1>1. /\ ctx[i].fpp \in Nat /\ DIV \in Nat /\ phase[i] \in Nat /\ clk \in Nat
  BY ZeroTypes, ConstantTypes DEF InTime, PhaseType, ClockType
<1>2. Leave \in Nat /\ Leave >= 1 /\ Way(i) \in Nat
  BY LeaveBounds, WayBounds
<1> DEFINE p == Writes(i) * Wrap
<1>3. p \in Nat
  <2>1. Writes(i) \in Nat /\ Wrap \in Nat
    BY WritesType, CostType, ConstantTypes DEF WritesFew
  <2>. QED
    BY <2>1
<1>4. Age(i) + Leave + Way(i) + p < ctx[i].fpp * DIV
  BY DEF InTime
<1> HIDE DEF p
<1>5. SUFFICES ASSUME NowDue(i) PROVE FALSE
  OBVIOUS
<1>6. phase[i] = ctx[i].fpp - 1 /\ clk = DIV - 1
  BY <1>5 DEF NowDue, Due, Strobe
<1>7. Age(i) = (ctx[i].fpp * DIV) - 1
  BY <1>1, <1>6 DEF Age
<1>8. ctx[i].fpp * DIV \in Nat
  BY <1>1
<1>. QED
  BY <1>2, <1>3, <1>4, <1>7, <1>8

LEMMA ProductGrows ==
  ASSUME NEW w \in Nat
  PROVE  \A m, n \in Nat : m <= n => m * w <= n * w /\ m * w \in Nat
<1> SUFFICES ASSUME NEW m \in Nat, NEW n \in Nat, m <= n PROVE m * w <= n * w /\ m * w \in Nat
  OBVIOUS
<1>1. n - m \in Nat
  OBVIOUS
<1>2. (n - m) * w \in Nat /\ m * w \in Nat /\ n * w \in Nat
  BY <1>1
<1>3. n * w = ((n - m) * w) + (m * w)
  OBVIOUS
<1>. QED
  BY <1>2, <1>3

LEMMA Waiting ==
  ASSUME Schedulable, ClockType, ContextType, PhaseType, BuilderType, PendingType, PhaseInv, SecondWrite,
         BusyInv, RegistersInv, ContextType', BuilderType', PhaseInv', Tick, Phases, Builder,
         FwWait \/ Bind \/ Unbind, NEW i \in Ctx, pend[i], InTime(i), ~CfgWrite(i),
         LastBeat /\ StreamBeat => i # b.idx
  PROVE  InTime(i)'
<1>1. ctx[i] \in Flow /\ ctx'[i] = ctx[i] /\ ctx[i].slots # 0
  BY ContextKept, ZeroTypes DEF InTime
<1>2. /\ ctx[i].fpp \in Nat /\ DIV \in Nat /\ phase[i] \in Nat /\ phase[i] < ctx[i].fpp /\ clk \in Nat
  BY <1>1, ZeroTypes, ConstantTypes DEF PhaseType, ClockType
<1>3. phase'[i] = IF Strobe THEN phase[i] + 1 ELSE phase[i]
  <2>1. ~NowDue(i)
    BY NotYetDue
  <2>2. Strobe => phase[i] # ctx[i].fpp - 1
    BY <1>1, <2>1 DEF NowDue, Due
  <2>3. phase'[i] = IF Strobe THEN AdvancePhase(phase[i], ctx[i].fpp) ELSE phase[i]
    BY <1>1 DEF Phases
  <2>. QED
    BY <2>2, <2>3 DEF AdvancePhase
<1>4. Age(i)' = Age(i) + 1 /\ Age(i) \in Nat
  <2>1. CASE Strobe
    <3>1. clk' = 0 /\ clk = DIV - 1 /\ phase'[i] = phase[i] + 1
      BY <1>3, <2>1, ClockStep DEF Strobe
    <3>2. (phase[i] + 1) * DIV = (phase[i] * DIV) + DIV /\ phase[i] * DIV \in Nat
      BY <1>2
    <3>. QED
      BY <1>2, <3>1, <3>2 DEF Age
  <2>2. CASE ~Strobe
    <3>1. clk' = clk + 1 /\ phase'[i] = phase[i]
      BY <1>3, <2>2, ClockStep
    <3>2. phase[i] * DIV \in Nat
      BY <1>2
    <3>. QED
      BY <1>2, <3>1, <3>2 DEF Age
  <2>. QED
    BY <2>1, <2>2
<1>5. Leave' + Way(i)' < Leave + Way(i) + Extra
  BY <1>1, Drop
<1>6. Writes(i)' + Writing <= Writes(i)
  BY <1>1, <1>2, <1>3, WritesDrop
<1>7. /\ Leave \in Nat /\ Way(i) \in Nat /\ Leave' \in Nat /\ Way(i)' \in Nat /\ Extra \in Nat
  BY LeaveBounds, WayBounds, NextBounds, ExtraType
<1>8. Writes(i) \in Nat /\ Writes(i)' \in Nat
  <2>1. WritesFew'
    BY WritesType, PTL
  <2>. QED
    BY <2>1, WritesType, ConstantTypes DEF WritesFew
<1> DEFINE p == Writes(i) * Wrap
           q == Writes(i)' * Wrap
<1>9. p \in Nat /\ q \in Nat /\ q + Extra <= p
  <2>1. Wrap \in Nat /\ (Extra = 0 \/ (Extra = Wrap /\ Writing = 1)) /\ Writing \in {0, 1}
    BY CostType DEF Extra, Writing
  <2>2. \A m, n \in Nat : m <= n => m * Wrap <= n * Wrap /\ m * Wrap \in Nat
    BY <2>1, ProductGrows
  <2>3. \A m, n \in Nat : m + 1 <= n => (m * Wrap) + Wrap <= n * Wrap
    <3> TAKE m, n \in Nat
    <3> HAVE m + 1 <= n
    <3>1. (m + 1) * Wrap <= n * Wrap
      BY <2>1, ProductGrows
    <3>2. (m + 1) * Wrap = (m * Wrap) + Wrap
      BY <2>1
    <3>. QED
      BY <3>1, <3>2
  <2>4. p \in Nat /\ q \in Nat
    BY <1>8, <2>1
  <2>5. CASE Extra = 0
    <3>1. Writes(i)' <= Writes(i)
      BY <1>6, <1>8, <2>1
    <3>. QED
      BY <1>8, <2>2, <2>4, <2>5, <3>1
  <2>6. CASE Extra = Wrap /\ Writing = 1
    BY <1>6, <1>8, <2>3, <2>4, <2>6
  <2>. QED
    BY <2>1, <2>5, <2>6
<1>10. Age(i) + Leave + Way(i) + p < ctx[i].fpp * DIV /\ ctx[i].fpp * DIV \in Nat
  BY <1>2 DEF InTime
<1> HIDE DEF p, q
<1>11. Age(i)' + Leave' + Way(i)' + q < ctx[i].fpp * DIV
  BY <1>4, <1>5, <1>7, <1>9, <1>10
<1>. QED
  BY <1>1, <1>11 DEF InTime, q

(* A context that has just come due.                                        *)
LEMMA NewlyDue ==
  ASSUME Schedulable, ClockType, ContextType, PhaseType, PhaseInv, ContextType', BuilderType', PhaseInv',
         Tick, Phases, FwWait \/ Bind \/ Unbind, NEW i \in Ctx, NowDue(i), ~CfgWrite(i)
  PROVE  InTime(i)'
<1>1. ctx[i].slots # 0 /\ phase[i] = ctx[i].fpp - 1 /\ Strobe
  BY DEF NowDue, Due
<1>2. ctx[i] \in Flow /\ ctx'[i] = ctx[i]
  BY <1>1, ContextKept, ZeroTypes DEF ContextType
<1>3. phase'[i] = 0 /\ clk' = 0
  BY <1>1, ClockStep DEF Phases, AdvancePhase
<1>4. /\ ctx[i].fpp \in FPP_TABLE /\ ctx[i].fpp \in Nat /\ DIV \in Nat
      /\ 2 + ((BURST + 2) * Wrap) + ((N_CTX + 1) * Cost) <= ctx[i].fpp * DIV
  BY <1>2, ZeroTypes, ConstantTypes DEF Schedulable
<1>5. Age(i)' = 0
  BY <1>3, <1>4 DEF Age
<1>6. /\ Leave' \in Nat /\ Leave' <= Cost + Wrap
      /\ Way(i)' \in Nat /\ Way(i)' <= (N_CTX * Cost) + 1
  BY NextBounds
<1> DEFINE q == Writes(i)' * Wrap
<1>7. q \in Nat /\ q <= (BURST + 1) * Wrap /\ Wrap \in Nat
  <2>1. WritesFew'
    BY WritesType, PTL
  <2>2. /\ Writes(i)' \in Nat /\ Writes(i)' <= BURST + 1 /\ BURST + 1 \in Nat /\ Wrap \in Nat
    BY <2>1, CostType, ConstantTypes DEF WritesFew
  <2>. QED
    BY <2>2, ProductGrows
<1>8. /\ (N_CTX + 1) * Cost = (N_CTX * Cost) + Cost /\ N_CTX * Cost \in Nat /\ Cost \in Nat
      /\ (BURST + 2) * Wrap = ((BURST + 1) * Wrap) + Wrap /\ (BURST + 1) * Wrap \in Nat
      /\ ctx[i].fpp * DIV \in Nat /\ Wrap \in Nat
  BY <1>4, CostType, ConstantTypes
<1> HIDE DEF q
<1>9. Age(i)' + Leave' + Way(i)' + q < ctx[i].fpp * DIV
  BY <1>4, <1>5, <1>6, <1>7, <1>8
<1>. QED
  BY <1>2, <1>9 DEF InTime, q

(* Between the attempts of one call nobody else writes the context.         *)
LEMMA SecondKept ==
  ASSUME ClockType, ContextType, PhaseInv, SecondWrite, FwWait \/ Bind \/ Unbind
  PROVE  SecondWrite'
<1>1. SUFFICES ASSUME fw'.step \in {"read", "cfg"}, fw'.tries # 0
               PROVE  ctx'[fw'.ctx] = fw'.flow
  BY DEF SecondWrite
<1>2. CASE ReadNow
  <2>1. fw.step = "read" /\ fw.flow \in Flow
    BY <1>2 DEF ReadNow, PhaseInv
  <2>. QED
    BY <1>1, <1>2, <2>1, ReadFacts DEF SecondWrite
<1>3. CASE ReadAgain
  <2>1. fw'.step = "read" /\ fw'.flow = fw.flow /\ fw'.ctx = fw.ctx /\ ctx' = ctx
    BY <1>1, <1>3, AgainFacts
  <2>. QED
    BY <1>3, <2>1 DEF ReadAgain, PhaseInv
<1>4. CASE WriteCfg
  <2>1. fw.step = "cfg" /\ fw.flow \in Flow /\ fw.tries \in {0, 1}
    BY <1>4 DEF WriteCfg, PhaseInv
  <2>. QED
    BY <1>1, <1>4, <2>1, WriteFacts
<1>5. CASE FwWait \/ BindStart \/ UnbindStart \/ WriteOff
  BY <1>1, <1>5, WaitFacts, BindFacts, UnbindFacts, OffFacts
<1>6. CASE Burst
  BY <1>1, <1>6, BurstFacts, DoneFacts
<1>. QED
  BY <1>2, <1>3, <1>4, <1>5, <1>6 DEF Bind, Unbind

LEMMA WhoIsServed ==
  ASSUME BuilderType, Builder
  PROVE  \E o \in BOOLEAN : Pending(o) /\ (o <=> LastBeat /\ StreamBeat)
<1>1. b \in BuilderState
  BY DEF BuilderType
<1>2. CASE StreamBeat /\ Pending(LastBeat)
  <2>1. LastBeat \in BOOLEAN
    BY DEF LastBeat
  <2>. QED
    BY <1>2, <2>1
<1>3. CASE (Idle \/ Check \/ Skip \/ Build \/ Prefetch \/ StreamStall) /\ Pending(FALSE)
  <2>1. ~(LastBeat /\ StreamBeat)
    <3>1. SUFFICES ASSUME LastBeat, StreamBeat PROVE FALSE
      OBVIOUS
    <3>2. b.state = "STREAM" /\ Advance
      BY <3>1 DEF StreamBeat
    <3>3. b'.state # "STREAM"
      BY <1>1, <3>2, AdvanceFacts
    <3>4. CASE StreamStall
      BY <1>1, <3>3, <3>4, StreamKeeps
    <3>5. CASE Idle \/ Check \/ Skip \/ Build \/ Prefetch
      BY <3>2, <3>5 DEF Idle, Check, Skip, Build, Prefetch
    <3>. QED
      BY <1>3, <3>4, <3>5
  <2>. QED
    BY <1>3, <2>1
<1>. QED
  BY <1>2, <1>3 DEF Builder

LEMMA WaitStep ==
  ASSUME Schedulable, ClockType, ContextType, PhaseType, BuilderType, PendingType, PhaseInv, BusyInv,
         ContextType', BuilderType', PhaseInv', WaitInv, Tick, Phases, Builder, FwWait \/ Bind \/ Unbind
  PROVE  WaitInv'
<1>1. PICK o \in BOOLEAN : Pending(o) /\ (o <=> LastBeat /\ StreamBeat)
  BY WhoIsServed
<1>2. o => pend[b.idx]
  BY <1>1 DEF StreamBeat, BusyInv
<1>3. RegistersInv /\ RegistersInv' /\ NoDueLost /\ SecondWrite /\ SecondWrite'
  BY RegistersStep, SecondKept DEF WaitInv
<1>4. ASSUME NEW i \in Ctx
      PROVE  /\ pend[i] /\ due[i].same => InTime(i) /\ ~NowDue(i)
             /\ Served(i, o) => pend[i]
             /\ pend'[i] <=> NextPend(i, o)
             /\ due'[i].same = NextSame(i, o) /\ due'[i].owed = NextOwed(i, o)
             /\ NowDue(i) => NextPend(i, o)
             /\ ~NowDue(i) => (NextPend(i, o) <=> pend[i] /\ ~Served(i, o))
             /\ due[i].owed = IF pend[i] THEN 1 ELSE 0
  <2>1. pend[i] /\ due[i].same => InTime(i) /\ ~NowDue(i)
    BY NotYetDue DEF WaitInv
  <2>2. Served(i, o) => pend[i]
    BY <1>2 DEF Served
  <2>3. /\ pend'[i] <=> NextPend(i, o)
        /\ due'[i].same = NextSame(i, o) /\ due'[i].owed = NextOwed(i, o)
    BY <1>1, <1>2, PendingFacts
  <2>4. /\ NowDue(i) => NextPend(i, o)
        /\ ~NowDue(i) => (NextPend(i, o) <=> pend[i] /\ ~Served(i, o))
    BY DEF NowDue, NextPend, Served
  <2>5. due[i].owed = IF pend[i] THEN 1 ELSE 0
    BY <1>3 DEF NoDueLost
  <2>. QED
    BY <2>1, <2>2, <2>3, <2>4, <2>5
<1>5. ASSUME NEW i \in Ctx, pend'[i], due'[i].same PROVE InTime(i)'
  <2>1. NextPend(i, o) /\ due[i].same /\ ~CfgWrite(i)
    BY <1>4, <1>5 DEF NextSame
  <2>2. CASE pend[i]
    <3>1. InTime(i) /\ ~Served(i, o)
      BY <1>4, <2>1, <2>2
    <3>2. LastBeat /\ StreamBeat => i # b.idx
      BY <1>1, <3>1 DEF Served
    <3>. QED
      BY <1>3, <2>1, <2>2, <3>1, <3>2, Waiting
  <2>3. CASE ~pend[i]
    <3>1. NowDue(i)
      BY <1>4, <2>1, <2>3
    <3>. QED
      BY <2>1, <3>1, NewlyDue
  <2>. QED
    BY <2>2, <2>3
<1>6. ASSUME NEW i \in Ctx PROVE due'[i].owed = IF pend'[i] THEN 1 ELSE 0
  <2>1. CASE ~(due[i].same /\ NextSame(i, o))
    <3>1. NextOwed(i, o) = IF NextPend(i, o) THEN 1 ELSE 0
      BY <2>1 DEF NextOwed
    <3>. QED
      BY <1>4, <3>1
  <2>2. CASE due[i].same /\ NextSame(i, o)
    <3>1. NextOwed(i, o) = IF Count(i, o) > 2 THEN 2 ELSE Count(i, o)
      BY <2>2 DEF NextOwed
    <3>2. CASE NowDue(i)
      <4>1. ~pend[i] /\ ~Served(i, o) /\ pend'[i]
        BY <1>4, <2>2, <3>2
      <4>2. due[i].owed = 0
        BY <1>4, <4>1
      <4>3. Count(i, o) = 1
        BY <3>2, <4>1, <4>2 DEF Count
      <4>. QED
        BY <1>4, <3>1, <4>1, <4>3
    <3>3. CASE ~NowDue(i) /\ Served(i, o)
      <4>1. ~pend'[i] /\ pend[i]
        BY <1>4, <3>3
      <4>2. due[i].owed = 1
        BY <1>4, <4>1
      <4>3. Count(i, o) = 0
        BY <3>3, <4>2 DEF Count
      <4>. QED
        BY <1>4, <3>1, <4>1, <4>3
    <3>4. CASE ~NowDue(i) /\ ~Served(i, o)
      <4>1. pend'[i] <=> pend[i]
        BY <1>4, <3>4
      <4>2. due[i].owed \in {0, 1}
        BY <1>4
      <4>3. Count(i, o) = due[i].owed
        BY <3>4, <4>2 DEF Count
      <4>4. due'[i].owed = due[i].owed
        BY <1>4, <3>1, <4>2, <4>3
      <4>. QED
        BY <1>4, <4>1, <4>4
    <3>. QED
      BY <3>2, <3>3, <3>4
  <2>. QED
    BY <2>1, <2>2
<1>. QED
  BY <1>3, <1>5, <1>6 DEF WaitInv, NoDueLost

LEMMA InitWait == Init => WaitInv
<1> SUFFICES ASSUME Init PROVE WaitInv
  OBVIOUS
<1>1. RegistersInv /\ SecondWrite
  BY DEF Init, At0, RegistersInv, Rest, SecondWrite
<1>2. \A i \in Ctx : ~pend[i] /\ due[i].owed = 0
  BY DEF Init
<1>. QED
  BY <1>1, <1>2 DEF WaitInv, NoDueLost

LEMMA NextWait ==
  ASSUME Schedulable
  PROVE  Sound /\ WaitInv /\ [Next]_vars => WaitInv'
<1> SUFFICES ASSUME Sound, WaitInv, [Next]_vars PROVE WaitInv'
  OBVIOUS
<1>1. ClockType /\ PhaseType /\ ContextType /\ BuilderType /\ PendingType /\ PhaseInv /\ BusyInv
  BY TypeParts DEF Sound
<1>2. CASE Next
  <2>1. Tick /\ Phases /\ Builder /\ (FwWait \/ Bind \/ Unbind)
    BY <1>2 DEF Next, Gateware
  <2>2. ContextType' /\ PhaseType' /\ PhaseInv' /\ BuilderType'
    BY <1>1, <2>1, PhaseStep, BuilderStep
  <2>. QED
    BY <1>1, <2>1, <2>2, WaitStep
<1>3. CASE UNCHANGED vars
  <2>1. UNCHANGED <<clk, ctx, phase, pend, b, fw, due>>
    BY <1>3 DEF vars
  <2>2. RegistersInv' /\ NoDueLost' /\ SecondWrite'
    BY <2>1 DEF WaitInv, RegistersInv, NoDueLost, SecondWrite
  <2>3. ASSUME NEW i \in Ctx PROVE InTime(i)' <=> InTime(i)
    BY <2>1 DEF InTime, Age, Leave, Way, Ahead, Writes, Cur, FrameBeats, Left
  <2>. QED
    BY <2>1, <2>2, <2>3 DEF WaitInv
<1>. QED
  BY <1>2, <1>3

(* No due frame is lost and none is sent twice, whenever strobes, walks,    *)
(* back-pressure and CSR writes come, if a packet lasts longer than a walk  *)
(* over all contexts and what one request to the firmware can add to it,    *)
(* be it one that drops every flow.                                         *)
THEOREM NoFrameLost ==
  ASSUME Schedulable
  PROVE  Spec => []NoDueLost
<1>1. WaitInv => NoDueLost
  BY DEF WaitInv
<1>. QED
  BY <1>1, InitSound, NextSound, InitWait, NextWait, PTL DEF Spec

(* Under the same condition every undisturbed frame carries the stamp and   *)
(* the window of the group that made its context due.                       *)
COROLLARY FramesAreOwn ==
  ASSUME Schedulable
  PROVE  Spec => []StampAndWindow
BY NoFrameLost, StampsAreOwn, PTL

=============================================================================
