------------------------- MODULE PtpPairing_proofs -------------------------
(***************************************************************************)
(* The pairing of timestamps with frames and of messages with each other,  *)
(* for any ring depth, number of slots, drain budget and any number of     *)
(* frames, Syncs and requests.                                             *)
(***************************************************************************)
EXTENDS PtpPairing, TLAPS

Message == [kind : {"sync1", "sync2", "followup"}, m : Masters, n : Nat]
             \cup [kind : {"resp", "audio", "other"}, m : {0}, n : Nat]
Slot    == [id : 1..MaxCommits, msg : Message]
Stamp   == (Masters \cup {0}) \X Nat

(* At rest a t1 is never held: try_compute_offset consumes it at once.      *)
PtpState ==
  [have_t1 : {FALSE}, have_t2 : BOOLEAN, have_t3 : BOOLEAN, awaiting : BOOLEAN,
   pending : Nat, t1 : Stamp, t2 : Stamp, ts : Int, frame : Nat, t3 : Nat,
   seq : 1..(MaxReq + 1), have_master : BOOLEAN, have_t2_t1 : BOOLEAN,
   acq_active : BOOLEAN]

(* The wire: what the air, the slots and the ring hold.                     *)
WireInv ==
  /\ commits \in 0..MaxCommits /\ nsync \in [Masters -> 0..MaxSync]
  /\ air \subseteq Message
  /\ slots \in Seq(Slot) /\ Len(slots) <= NSlots
  /\ ring \in Seq((-RingDepth)..MaxCommits) /\ Len(ring) <= RingDepth
  /\ \A i \in 1..Len(slots) : slots[i].id <= commits
  /\ popped \in Int

(* The dispatcher: the ring never runs short of the frames still to be      *)
(* taken, nor of the entries a resync is about to drop.                     *)
DispatchInv ==
  /\ pc \in {"idle", "resync", "drain", "handle"}
  /\ lvl \in 0..RingDepth /\ budget \in 0..DrainBudget
  /\ inStep \in BOOLEAN /\ since \in 0..commits
  /\ pc = "handle" => slots # <<>>
  /\ Unpopped <= Len(ring)
  /\ pc = "resync" => lvl <= Len(ring)

Handling == IF pc = "handle" THEN 1 ELSE 0

(* In step: the ring has one entry per frame still to be taken, and for a   *)
(* frame committed since, it is that frame's own.                           *)
Aligned ==
  /\ Len(ring) = Unpopped
  /\ \A i \in 1..Len(ring) :
       slots[i + Handling].id > since => ring[i] = slots[i + Handling].id
  /\ pc = "handle" /\ slots[1].id > since => popped = slots[1].id
  /\ pc = "resync" => lvl <= NSlots

(* The resync that found every slot filled has not dropped the excess yet.  *)
Aligning ==
  /\ pc = "resync" /\ Len(slots) = NSlots /\ Len(ring) = lvl /\ NSlots <= lvl
  /\ \A i \in 1..Len(slots) : slots[i].id <= since

(* The slave: what the two handshakes remember between messages.            *)
SlaveInv ==
  /\ ptp \in PtpState
  /\ ptp.awaiting => ptp.have_t2 /\ ptp.t2[2] = ptp.pending /\ ptp.t2[1] \in Masters
  /\ ptp.frame <= commits
  /\ ptp.have_t2 /\ inStep /\ ptp.frame > since => ptp.ts = ptp.frame
  /\ ptp.have_t3 => ptp.t3 = ptp.seq - 1 /\ delay.req < ptp.t3
  /\ delay.req \in Nat /\ delay.req < ptp.seq

PairingInv == WireInv /\ DispatchInv /\ (inStep => Aligned \/ Aligning) /\ SlaveInv

(* All Syncs come from one clock, as on a network with an elected leader.   *)
OneLeader == \A a, b \in Masters : a = b

-----------------------------------------------------------------------------
LEMMA ConstantTypes ==
  /\ RingDepth \in Nat /\ NSlots \in Nat /\ ResyncLimit \in Nat /\ DrainBudget \in Nat
  /\ NSlots > 0 /\ ResyncLimit = NSlots /\ NSlots < RingDepth /\ DrainBudget > 0
  /\ MaxCommits \in Nat /\ MaxSync \in Nat /\ MaxReq \in Nat
BY PairingAssumption

LEMMA TailFacts ==
  ASSUME NEW S, NEW s \in Seq(S), s # <<>>
  PROVE  /\ Tail(s) \in Seq(S) /\ Len(s) \in Nat /\ Len(s) > 0
         /\ Len(Tail(s)) = Len(s) - 1
         /\ Head(s) = s[1] /\ s[1] \in S
         /\ \A i \in 1..Len(Tail(s)) : Tail(s)[i] = s[i + 1]
OBVIOUS

LEMMA AppendFacts ==
  ASSUME NEW S, NEW s \in Seq(S), NEW e \in S
  PROVE  /\ Append(s, e) \in Seq(S) /\ Len(s) \in Nat
         /\ Len(Append(s, e)) = Len(s) + 1
         /\ \A i \in 1..Len(s) : Append(s, e)[i] = s[i]
         /\ Append(s, e)[Len(s) + 1] = e
OBVIOUS

LEMMA EmptySeq ==
  ASSUME NEW S, NEW s \in Seq(S)
  PROVE  Len(s) \in Nat /\ (s = <<>> <=> Len(s) = 0)
OBVIOUS

LEMMA SeqElements ==
  ASSUME NEW S, NEW s \in Seq(S)
  PROVE  \A i \in DOMAIN s : s[i] \in S
OBVIOUS

(* A pop of a ring that is not empty.                                       *)
LEMMA PopFacts ==
  ASSUME WireInv, Pop, Len(ring) > 0
  PROVE  /\ ring' \in Seq((-RingDepth)..MaxCommits)
         /\ Len(ring) \in Nat /\ Len(ring') = Len(ring) - 1
         /\ popped' = ring[1] /\ popped' \in Int
         /\ \A i \in 1..Len(ring') : ring'[i] = ring[i + 1]
<1>1. ring \in Seq((-RingDepth)..MaxCommits)
  BY DEF WireInv
<1>2. ring # <<>>
  BY <1>1, EmptySeq
<1>3. ring' = Tail(ring) /\ popped' = Head(ring)
  BY <1>2 DEF Pop
<1>. QED
  BY <1>1, <1>2, <1>3, TailFacts, ConstantTypes

(* The initial states.                                                      *)
LEMMA InitPairing == Init => PairingInv
<1> SUFFICES ASSUME Init PROVE PairingInv
  OBVIOUS
<1>1. PICK k \in 0..RingDepth : ring = [i \in 1..k |-> -i]
  BY DEF Init
<1>2. ring \in Seq((-RingDepth)..MaxCommits) /\ Len(ring) = k
  BY <1>1, ConstantTypes
<1>3. slots = <<>> /\ slots \in Seq(Slot) /\ Len(slots) = 0
  BY DEF Init
<1>4. WireInv
  BY <1>2, <1>3, ConstantTypes DEF Init, WireInv
<1>5. DispatchInv
  <2>1. /\ pc = "idle" /\ lvl = 0 /\ budget = 0 /\ inStep = FALSE /\ since = 0
        /\ commits = 0
    BY DEF Init
  <2>2. Unpopped <= Len(ring)
    BY <1>2, <1>3, <2>1 DEF Unpopped
  <2>3. lvl \in 0..RingDepth /\ budget \in 0..DrainBudget /\ since \in 0..commits
    BY <2>1, ConstantTypes
  <2>. QED
    BY <2>1, <2>2, <2>3 DEF DispatchInv
<1>6. SlaveInv
  <2>1. PICK acq \in BOOLEAN :
          ptp = [have_t1 |-> FALSE, have_t2 |-> FALSE, have_t3 |-> FALSE, awaiting |-> FALSE,
            pending |-> 0, t1 |-> NoSync, t2 |-> NoSync, ts |-> 0, frame |-> 0,
            t3 |-> 0, seq |-> 1, have_master |-> FALSE,
            have_t2_t1 |-> FALSE, acq_active |-> acq]
    BY DEF Init
  <2>2. NoSync \in Stamp
    BY DEF NoSync, Stamp
  <2>3. ptp \in PtpState
    BY <2>1, <2>2, ConstantTypes DEF PtpState
  <2>. QED
    BY <2>1, <2>3 DEF SlaveInv, Init, NoDelay
<1>. QED
  BY <1>4, <1>5, <1>6 DEF PairingInv, Init

(* A frame is committed.                                                    *)
LEMMA CommitKeeps ==
  ASSUME PairingInv, NEW msg \in Message, Commit(msg)
  PROVE  WireInv' /\ DispatchInv' /\ (inStep => Aligned \/ Aligning)'
<1> DEFINE new == [id |-> commits + 1, msg |-> msg]
<1>1. /\ slots \in Seq(Slot) /\ ring \in Seq((-RingDepth)..MaxCommits)
      /\ commits \in Nat /\ commits + 1 \in 1..MaxCommits
      /\ commits + 1 \in (-RingDepth)..MaxCommits
      /\ Len(slots) \in Nat /\ Len(slots) < NSlots /\ Len(ring) \in Nat
  BY ConstantTypes DEF PairingInv, WireInv, Commit
<1>2. new \in Slot
  BY <1>1 DEF Slot
<1>3. /\ slots' \in Seq(Slot) /\ Len(slots') = Len(slots) + 1 /\ slots' # <<>>
      /\ \A i \in 1..Len(slots) : slots'[i] = slots[i]
      /\ slots'[Len(slots) + 1] = new
  <2>1. slots' = Append(slots, new)
    BY DEF Commit
  <2> HIDE DEF new
  <2>. QED
    BY <1>1, <1>2, <2>1, AppendFacts, EmptySeq
<1>4. /\ new.id = commits + 1 /\ commits' = commits + 1
      /\ UNCHANGED <<air, nsync, popped, pc, lvl, budget, inStep, since>>
      /\ \A i \in 1..Len(slots') : slots'[i].id <= commits'
  <2>1. /\ new.id = commits + 1 /\ commits' = commits + 1
        /\ UNCHANGED <<air, nsync, popped, pc, lvl, budget, inStep, since>>
    BY DEF Commit
  <2>2. ASSUME NEW i \in 1..Len(slots') PROVE slots'[i].id <= commits'
    <3>1. CASE i = Len(slots) + 1
      BY <1>1, <1>3, <2>1, <3>1
    <3>2. CASE i # Len(slots) + 1
      <4>1. i \in 1..Len(slots)
        BY <1>1, <1>3, <3>2
      <4>2. slots[i].id <= commits /\ slots[i].id \in Int
        <5>1. slots[i] \in Slot
          BY <1>1, <4>1
        <5>2. slots[i].id \in 1..MaxCommits
          BY <5>1 DEF Slot
        <5>. QED
          BY <4>1, <5>2, ConstantTypes DEF PairingInv, WireInv
      <4>. QED
        BY <1>1, <1>3, <2>1, <4>1, <4>2
    <3>. QED
      BY <3>1, <3>2
  <2>. QED
    BY <2>1, <2>2
<1>5. CASE Len(ring) < RingDepth
  <2>1. /\ ring' \in Seq((-RingDepth)..MaxCommits) /\ Len(ring') = Len(ring) + 1
        /\ \A i \in 1..Len(ring) : ring'[i] = ring[i]
        /\ ring'[Len(ring) + 1] = commits + 1
    BY <1>1, <1>5, AppendFacts DEF Commit, Pushed
  <2>2. WireInv'
    <3>1. Len(slots') <= NSlots /\ Len(ring') <= RingDepth
      BY <1>1, <1>3, <1>5, <2>1, ConstantTypes
    <3>. QED
      BY <1>1, <1>3, <1>4, <2>1, <3>1 DEF PairingInv, WireInv
  <2>3. DispatchInv'
    <3>1. Unpopped <= Len(ring) => Unpopped' <= Len(ring')
      BY <1>1, <1>3, <1>4, <2>1 DEF Unpopped
    <3>2. since \in 0..commits'
      BY <1>1, <1>4 DEF PairingInv, DispatchInv
    <3>3. pc = "resync" => lvl <= Len(ring')
      BY <1>1, <2>1 DEF PairingInv, DispatchInv
    <3>. QED
      BY <1>3, <1>4, <3>1, <3>2, <3>3 DEF PairingInv, DispatchInv
  <2>4. ASSUME inStep PROVE Aligned'
    <3>1. Aligned
      BY <1>1, <2>4 DEF PairingInv, Aligning
    <3>2. Handling' = Handling /\ Handling \in {0, 1} /\ pc' = pc /\ since' = since
          /\ popped' = popped /\ lvl' = lvl
      BY DEF Handling, Commit
    <3>3. Len(ring) = Len(slots) - Handling
      BY <3>1 DEF Aligned, Unpopped, Handling
    <3>4. \A i \in 1..Len(ring') :
            slots'[i + Handling].id > since => ring'[i] = slots'[i + Handling].id
      <4> SUFFICES ASSUME NEW i \in 1..Len(ring'), slots'[i + Handling].id > since
                   PROVE  ring'[i] = slots'[i + Handling].id
        OBVIOUS
      <4>1. CASE i = Len(ring) + 1
        BY <1>1, <1>3, <1>4, <2>1, <3>2, <3>3, <4>1
      <4>2. CASE i # Len(ring) + 1
        <5>1. i \in 1..Len(ring) /\ i + Handling \in 1..Len(slots)
          BY <1>1, <2>1, <3>2, <3>3, <4>2
        <5>. QED
          BY <1>3, <2>1, <3>1, <5>1 DEF Aligned
      <4>. QED
        BY <4>1, <4>2
    <3>5. pc = "handle" => slots # <<>> /\ slots'[1] = slots[1]
      BY <1>1, <1>3, EmptySeq DEF PairingInv, DispatchInv
    <3>6. Len(ring') = Unpopped'
      BY <1>1, <1>3, <2>1, <3>1, <3>2 DEF Aligned, Unpopped
    <3>. QED
      BY <3>1, <3>2, <3>4, <3>5, <3>6 DEF Aligned
  <2>5. inStep' = inStep
    BY DEF Commit
  <2>. QED
    BY <2>2, <2>3, <2>4, <2>5
<1>6. CASE ~(Len(ring) < RingDepth)
  <2>1. ring' = ring /\ Len(ring) = RingDepth
    BY <1>1, <1>6, ConstantTypes DEF Commit, Pushed, PairingInv, WireInv
  <2>2. WireInv'
    <3>1. Len(slots') <= NSlots /\ Len(ring') <= RingDepth
      BY <1>1, <1>3, <2>1, ConstantTypes
    <3>. QED
      BY <1>1, <1>3, <1>4, <2>1, <3>1 DEF PairingInv, WireInv
  <2>3. DispatchInv'
    <3>1. Unpopped' <= Len(ring')
      BY <1>1, <1>3, <1>4, <2>1, ConstantTypes DEF Unpopped
    <3>2. since \in 0..commits'
      BY <1>1, <1>4 DEF PairingInv, DispatchInv
    <3>. QED
      BY <1>3, <1>4, <2>1, <3>1, <3>2 DEF PairingInv, DispatchInv
  <2>4. ~inStep
    <3>1. ~Aligning
      BY <1>1 DEF Aligning
    <3>2. ~Aligned
      BY <1>1, <2>1, ConstantTypes DEF Aligned, Unpopped
    <3>. QED
      BY <3>1, <3>2 DEF PairingInv
  <2>. QED
    BY <2>2, <2>3, <2>4 DEF Commit
<1>. QED
  BY <1>5, <1>6

(* What the invariant says of the current state, unfolded once.             *)
LEMMA StateFacts ==
  ASSUME PairingInv
  PROVE  /\ slots \in Seq(Slot) /\ Len(slots) \in Nat /\ Len(slots) <= NSlots
         /\ ring \in Seq((-RingDepth)..MaxCommits)
         /\ Len(ring) \in Nat /\ Len(ring) <= RingDepth
         /\ \A i \in 1..Len(slots) : slots[i].id \in Nat /\ slots[i].id <= commits
         /\ commits \in Nat /\ since \in Nat /\ since <= commits
         /\ lvl \in Nat /\ lvl <= RingDepth
<1>1. slots \in Seq(Slot) /\ ring \in Seq((-RingDepth)..MaxCommits)
  BY DEF PairingInv, WireInv
<1>2. Len(slots) \in Nat /\ Len(ring) \in Nat
  BY <1>1, EmptySeq
<1>3. ASSUME NEW i \in 1..Len(slots) PROVE slots[i].id \in Nat
  <2>1. slots[i] \in Slot
    BY <1>1
  <2>2. slots[i].id \in 1..MaxCommits
    BY <2>1 DEF Slot
  <2>. QED
    BY <2>2, ConstantTypes
<1>4. commits \in Nat /\ since \in Nat /\ since <= commits /\ lvl \in Nat /\ lvl <= RingDepth
  BY ConstantTypes DEF PairingInv, WireInv, DispatchInv
<1>. QED
  BY <1>1, <1>2, <1>3, <1>4 DEF PairingInv, WireInv

LEMMA ReadLevelKeeps ==
  ASSUME PairingInv, ReadLevel
  PROVE  WireInv' /\ DispatchInv' /\ (inStep => Aligned \/ Aligning)'
<1>1. /\ UNCHANGED <<commits, nsync, air, slots, ring, popped, budget>>
      /\ pc = "idle" /\ pc' = "resync" /\ lvl' = Len(ring)
      /\ inStep' = (inStep \/ Len(slots) = NSlots)
      /\ since' = IF inStep THEN since ELSE commits
  BY DEF ReadLevel, gateware
<1>2. WireInv'
  BY <1>1 DEF PairingInv, WireInv
<1>3. Unpopped' = Len(slots) /\ Unpopped = Len(slots) /\ Handling = 0 /\ Handling' = 0
  BY <1>1, StateFacts DEF Unpopped, Handling
<1>4. DispatchInv'
  <2>1. lvl' \in 0..RingDepth /\ since' \in 0..commits' /\ lvl' <= Len(ring')
    BY <1>1, StateFacts, ConstantTypes DEF PairingInv, WireInv
  <2>2. inStep' \in BOOLEAN
    BY <1>1 DEF PairingInv, DispatchInv
  <2>3. Unpopped' <= Len(ring')
    BY <1>1, <1>3 DEF PairingInv, DispatchInv
  <2>. QED
    BY <1>1, <2>1, <2>2, <2>3 DEF PairingInv, DispatchInv
<1>5. CASE inStep
  <2>1. Aligned /\ since' = since
    BY <1>1, <1>5 DEF PairingInv, Aligning
  <2>2. Len(ring') = Unpopped' /\ lvl' <= NSlots
    BY <1>1, <1>3, <2>1, StateFacts DEF Aligned
  <2>3. \A i \in 1..Len(ring') :
          slots'[i + Handling'].id > since' => ring'[i] = slots'[i + Handling'].id
    BY <1>1, <1>3, <2>1 DEF Aligned
  <2>4. Aligned'
    BY <1>1, <2>2, <2>3 DEF Aligned
  <2>. QED
    BY <1>2, <1>4, <2>4
<1>6. CASE ~inStep /\ Len(slots) = NSlots
  <2>1. NSlots <= lvl'
    BY <1>1, <1>3, <1>6 DEF PairingInv, DispatchInv
  <2>2. \A i \in 1..Len(slots') : slots'[i].id <= since'
    BY <1>1, <1>6, StateFacts
  <2>3. Aligning'
    BY <1>1, <1>6, <2>1, <2>2 DEF Aligning
  <2>. QED
    BY <1>2, <1>4, <2>3
<1>. QED
  BY <1>1, <1>2, <1>4, <1>5, <1>6

LEMMA ResyncPopKeeps ==
  ASSUME PairingInv, ResyncPop
  PROVE  WireInv' /\ DispatchInv' /\ (inStep => Aligned \/ Aligning)'
<1>1. /\ UNCHANGED <<commits, nsync, air, slots, pc, budget, inStep, since>>
      /\ pc = "resync" /\ lvl > NSlots /\ lvl' = lvl - 1 /\ Pop
  BY ConstantTypes DEF ResyncPop, Excess
<1>2. lvl <= Len(ring) /\ Len(ring) > 0 /\ lvl - 1 >= NSlots
  BY <1>1, StateFacts, ConstantTypes DEF PairingInv, DispatchInv
<1>3. /\ ring' \in Seq((-RingDepth)..MaxCommits) /\ Len(ring') = Len(ring) - 1
      /\ popped' \in Int
  BY <1>1, <1>2, PopFacts DEF PairingInv
<1>4. Len(ring') <= RingDepth /\ lvl' <= Len(ring') /\ lvl' \in 0..RingDepth
  <2>1. /\ Len(ring) \in Nat /\ Len(ring) <= RingDepth /\ lvl \in Nat /\ lvl <= RingDepth
        /\ RingDepth \in Nat /\ NSlots \in Nat
    BY StateFacts, ConstantTypes
  <2>2. Len(ring') <= RingDepth
    BY <1>3, <2>1
  <2>3. lvl' <= Len(ring')
    BY <1>1, <1>2, <1>3, <2>1
  <2>4. lvl' \in 0..RingDepth
    BY <1>1, <2>1
  <2>. QED
    BY <2>2, <2>3, <2>4
<1>5. WireInv'
  BY <1>1, <1>3, <1>4 DEF PairingInv, WireInv
<1>6. Unpopped' = Len(slots)
  BY <1>1, StateFacts DEF Unpopped
<1>7. Unpopped' <= Len(ring')
  BY <1>1, <1>2, <1>3, <1>6, StateFacts, ConstantTypes
<1>8. DispatchInv'
  BY <1>1, <1>4, <1>7 DEF PairingInv, DispatchInv
<1>9. ASSUME inStep PROVE Aligning'
  <2>1. Aligning
    BY <1>1, <1>9, StateFacts, ConstantTypes DEF PairingInv, Aligned
  <2>2. Len(ring') = lvl' /\ NSlots <= lvl'
    BY <1>1, <1>2, <1>3, <2>1 DEF Aligning
  <2>. QED
    BY <1>1, <2>1, <2>2 DEF Aligning
<1>. QED
  BY <1>1, <1>5, <1>8, <1>9

LEMMA ResyncDoneKeeps ==
  ASSUME PairingInv, ResyncDone
  PROVE  WireInv' /\ DispatchInv' /\ (inStep => Aligned \/ Aligning)'
<1>1. /\ UNCHANGED <<commits, nsync, air, slots, ring, popped, lvl, inStep, since>>
      /\ pc = "resync" /\ pc' = "drain" /\ ~(lvl > NSlots) /\ budget' = DrainBudget
  BY ConstantTypes DEF ResyncDone, Excess, gateware
<1>2. WireInv'
  BY <1>1 DEF PairingInv, WireInv
<1>3. Unpopped' = Unpopped /\ Unpopped = Len(slots) /\ Handling = 0 /\ Handling' = 0
  BY <1>1, StateFacts DEF Unpopped, Handling
<1>4. DispatchInv'
  BY <1>1, <1>3, ConstantTypes DEF PairingInv, DispatchInv
<1>5. ASSUME Aligned PROVE Aligned'
  <2>1. Len(ring') = Unpopped'
    BY <1>1, <1>3, <1>5 DEF Aligned
  <2>2. \A i \in 1..Len(ring') :
          slots'[i + Handling'].id > since' => ring'[i] = slots'[i + Handling'].id
    BY <1>1, <1>3, <1>5 DEF Aligned
  <2>. QED
    BY <1>1, <2>1, <2>2 DEF Aligned
<1>6. ASSUME Aligning PROVE Aligned'
  <2>1. Len(ring') = Unpopped' /\ Len(ring') = Len(slots)
    BY <1>1, <1>3, <1>6, StateFacts, ConstantTypes DEF Aligning
  <2>2. \A i \in 1..Len(ring') : ~(slots'[i + Handling'].id > since')
    BY <1>1, <1>3, <1>6, <2>1, StateFacts DEF Aligning
  <2>. QED
    BY <1>1, <2>1, <2>2 DEF Aligned
<1>. QED
  BY <1>1, <1>2, <1>4, <1>5, <1>6 DEF PairingInv

(* Facts about a slot list whose head leaves.                               *)
LEMMA ReleaseFacts ==
  ASSUME PairingInv, slots # <<>>, slots' = Tail(slots)
  PROVE  /\ slots' \in Seq(Slot) /\ Len(slots) > 0 /\ Len(slots') = Len(slots) - 1
         /\ Head(slots) = slots[1] /\ slots[1] \in Slot
         /\ \A i \in 1..Len(slots') : slots'[i] = slots[i + 1] /\ i + 1 \in 1..Len(slots)
<1>1. slots \in Seq(Slot)
  BY StateFacts
<1>2. /\ slots' \in Seq(Slot) /\ Len(slots) > 0 /\ Len(slots') = Len(slots) - 1
      /\ Head(slots) = slots[1] /\ slots[1] \in Slot
      /\ \A i \in 1..Len(slots') : slots'[i] = slots[i + 1]
  BY <1>1, TailFacts
<1>3. \A i \in 1..Len(slots') : i + 1 \in 1..Len(slots)
  BY <1>2, StateFacts
<1>. QED
  BY <1>2, <1>3

LEMMA DropKeeps ==
  ASSUME PairingInv, Drop
  PROVE  WireInv' /\ DispatchInv' /\ (inStep => Aligned \/ Aligning)'
<1>1. /\ UNCHANGED <<commits, nsync, air, pc, lvl, inStep, since>>
      /\ pc = "drain" /\ budget > 0 /\ budget' = budget - 1
      /\ slots # <<>> /\ slots' = Tail(slots) /\ Pop
  BY DEF Drop
<1>2. /\ slots' \in Seq(Slot) /\ Len(slots) > 0 /\ Len(slots') = Len(slots) - 1
      /\ \A i \in 1..Len(slots') : slots'[i] = slots[i + 1] /\ i + 1 \in 1..Len(slots)
  BY <1>1, ReleaseFacts
<1>3. Unpopped = Len(slots) /\ Unpopped' = Len(slots') /\ Handling = 0 /\ Handling' = 0
  BY <1>1, <1>2, StateFacts DEF Unpopped, Handling
<1>4. Len(slots) <= Len(ring) /\ Len(ring) > 0
  BY <1>2, <1>3, StateFacts DEF PairingInv, DispatchInv
<1>5. /\ ring' \in Seq((-RingDepth)..MaxCommits) /\ Len(ring') = Len(ring) - 1
      /\ popped' \in Int /\ \A i \in 1..Len(ring') : ring'[i] = ring[i + 1]
  BY <1>1, <1>4, PopFacts DEF PairingInv
<1>6. WireInv'
  <2>1. Len(slots') <= NSlots /\ Len(ring') <= RingDepth
    BY <1>2, <1>5, StateFacts, ConstantTypes DEF PairingInv, WireInv
  <2>2. \A i \in 1..Len(slots') : slots'[i].id <= commits'
    BY <1>1, <1>2, StateFacts
  <2>. QED
    BY <1>1, <1>2, <1>5, <2>1, <2>2 DEF PairingInv, WireInv
<1>7. DispatchInv'
  <2>1. budget' \in 0..DrainBudget
    BY <1>1, ConstantTypes DEF PairingInv, DispatchInv
  <2>2. Unpopped' <= Len(ring')
    BY <1>2, <1>3, <1>4, <1>5, StateFacts
  <2>. QED
    BY <1>1, <2>1, <2>2 DEF PairingInv, DispatchInv
<1>8. ASSUME inStep PROVE Aligned'
  <2>1. Aligned
    BY <1>1, <1>8 DEF PairingInv, Aligning
  <2>2. Len(ring') = Unpopped' /\ Len(ring) = Len(slots) /\ Len(ring') = Len(slots')
    BY <1>2, <1>3, <1>5, <2>1 DEF Aligned
  <2>3. ASSUME NEW i \in 1..Len(ring'), slots'[i].id > since'
        PROVE  ring'[i] = slots'[i].id
    <3>1. i + 1 \in 1..Len(ring) /\ slots'[i] = slots[i + 1] /\ ring'[i] = ring[i + 1]
      BY <1>2, <1>5, <2>2
    <3>2. (i + 1) + Handling = i + 1
      BY <1>3
    <3>. QED
      BY <1>1, <2>1, <2>3, <3>1, <3>2 DEF Aligned
  <2>4. \A i \in 1..Len(ring') : i + Handling' = i
    BY <1>3
  <2>. QED
    BY <1>1, <2>2, <2>3, <2>4 DEF Aligned
<1>. QED
  BY <1>1, <1>6, <1>7, <1>8

LEMMA TakeKeeps ==
  ASSUME PairingInv, Take
  PROVE  WireInv' /\ DispatchInv' /\ (inStep => Aligned \/ Aligning)'
<1>1. /\ UNCHANGED <<commits, nsync, air, slots, lvl, inStep, since>>
      /\ pc = "drain" /\ pc' = "handle" /\ budget > 0 /\ budget' = budget - 1
      /\ slots # <<>> /\ Pop
  BY DEF Take
<1>2. Len(slots) > 0
  BY <1>1, StateFacts, EmptySeq
<1>3. /\ Unpopped = Len(slots) /\ Unpopped' = Len(slots) - 1
      /\ Handling = 0 /\ Handling' = 1
  BY <1>1, StateFacts DEF Unpopped, Handling
<1>4. Len(slots) <= Len(ring) /\ Len(ring) > 0
  BY <1>2, <1>3, StateFacts DEF PairingInv, DispatchInv
<1>5. /\ ring' \in Seq((-RingDepth)..MaxCommits) /\ Len(ring') = Len(ring) - 1
      /\ popped' \in Int /\ popped' = ring[1]
      /\ \A i \in 1..Len(ring') : ring'[i] = ring[i + 1]
  BY <1>1, <1>4, PopFacts DEF PairingInv
<1>6. WireInv'
  <2>1. Len(ring') <= RingDepth
    BY <1>5, StateFacts, ConstantTypes
  <2>. QED
    BY <1>1, <1>5, <2>1 DEF PairingInv, WireInv
<1>7. DispatchInv'
  <2>1. budget' \in 0..DrainBudget
    BY <1>1, ConstantTypes DEF PairingInv, DispatchInv
  <2>2. Unpopped' <= Len(ring')
    BY <1>3, <1>4, <1>5, StateFacts
  <2>. QED
    BY <1>1, <2>1, <2>2 DEF PairingInv, DispatchInv
<1>8. ASSUME inStep PROVE Aligned'
  <2>1. Aligned
    BY <1>1, <1>8 DEF PairingInv, Aligning
  <2>2. Len(ring') = Unpopped' /\ Len(ring) = Len(slots)
    BY <1>3, <1>5, <2>1 DEF Aligned
  <2>3. \A j \in 1..Len(ring) : j + Handling = j
    BY <1>3
  <2>4. \A j \in 1..Len(ring) : slots[j].id > since => ring[j] = slots[j].id
    BY <2>1, <2>3 DEF Aligned
  <2>5. ASSUME NEW i \in 1..Len(ring'), slots'[i + 1].id > since'
        PROVE  ring'[i] = slots'[i + 1].id
    <3>1. i + 1 \in 1..Len(ring) /\ ring'[i] = ring[i + 1]
      BY <1>5, StateFacts
    <3>. QED
      BY <1>1, <2>4, <2>5, <3>1
  <2>6. slots'[1].id > since' => popped' = slots'[1].id
    <3>1. 1 \in 1..Len(ring)
      BY <1>4, StateFacts
    <3>. QED
      BY <1>1, <1>5, <2>4, <3>1
  <2>. QED
    BY <1>1, <1>3, <2>2, <2>5, <2>6 DEF Aligned
<1>. QED
  BY <1>1, <1>6, <1>7, <1>8

(* A handler leaves the ring alone and releases its slot.                   *)
LEMMA HandleKeeps ==
  ASSUME PairingInv, Handle
  PROVE  WireInv' /\ DispatchInv' /\ (inStep => Aligned \/ Aligning)'
<1>1. /\ UNCHANGED <<air, nsync, commits, ring, popped, lvl, budget, inStep, since>>
      /\ pc = "handle" /\ pc' = "drain" /\ slots' = Tail(slots) /\ slots # <<>>
  BY DEF Handle, PairingInv, DispatchInv
<1>2. /\ slots' \in Seq(Slot) /\ Len(slots) > 0 /\ Len(slots') = Len(slots) - 1
      /\ \A i \in 1..Len(slots') : slots'[i] = slots[i + 1] /\ i + 1 \in 1..Len(slots)
  BY <1>1, ReleaseFacts
<1>3. /\ Unpopped = Len(slots) - 1 /\ Unpopped' = Len(slots')
      /\ Handling = 1 /\ Handling' = 0
  BY <1>1, <1>2, StateFacts DEF Unpopped, Handling
<1>4. WireInv'
  <2>1. Len(slots') <= NSlots
    BY <1>2, StateFacts, ConstantTypes
  <2>2. \A i \in 1..Len(slots') : slots'[i].id <= commits'
    BY <1>1, <1>2, StateFacts
  <2>. QED
    BY <1>1, <1>2, <2>1, <2>2 DEF PairingInv, WireInv
<1>5. DispatchInv'
  BY <1>1, <1>2, <1>3 DEF PairingInv, DispatchInv
<1>6. ASSUME inStep PROVE Aligned'
  <2>1. Aligned
    BY <1>1, <1>6 DEF PairingInv, Aligning
  <2>2. Len(ring') = Unpopped' /\ Len(ring') = Len(slots')
    BY <1>1, <1>2, <1>3, <2>1 DEF Aligned
  <2>3. ASSUME NEW i \in 1..Len(ring'), slots'[i].id > since'
        PROVE  ring'[i] = slots'[i].id
    BY <1>1, <1>2, <1>3, <2>1, <2>2, <2>3 DEF Aligned
  <2>4. \A i \in 1..Len(ring') : i + Handling' = i
    BY <1>3
  <2>. QED
    BY <1>1, <2>2, <2>3, <2>4 DEF Aligned
<1>. QED
  BY <1>1, <1>4, <1>5, <1>6

LEMMA DrainDoneKeeps ==
  ASSUME PairingInv, DrainDone
  PROVE  WireInv' /\ DispatchInv' /\ (inStep => Aligned \/ Aligning)'
<1>1. /\ UNCHANGED <<commits, nsync, air, slots, ring, popped, inStep, since>>
      /\ pc = "drain" /\ pc' = "idle" /\ lvl' = 0 /\ budget' = 0
  BY DEF DrainDone, gateware
<1>2. WireInv'
  BY <1>1 DEF PairingInv, WireInv
<1>3. Unpopped' = Unpopped /\ Handling' = Handling
  BY <1>1 DEF Unpopped, Handling
<1>4. DispatchInv'
  <2>1. lvl' \in 0..RingDepth /\ budget' \in 0..DrainBudget
    BY <1>1, ConstantTypes
  <2>. QED
    BY <1>1, <1>3, <2>1 DEF PairingInv, DispatchInv
<1>5. ASSUME inStep PROVE Aligned'
  <2>1. Aligned
    BY <1>1, <1>5 DEF PairingInv, Aligning
  <2>. QED
    BY <1>1, <1>3, <2>1 DEF Aligned
<1>. QED
  BY <1>1, <1>2, <1>4, <1>5

(* Steps of the network and of the poll: only the air grows.                *)
LEMMA AirKeeps ==
  ASSUME PairingInv, air' \subseteq Message, nsync' \in [Masters -> 0..MaxSync],
         UNCHANGED <<commits, slots, ring, popped, pc, lvl, budget, inStep, since>>
  PROVE  WireInv' /\ DispatchInv' /\ (inStep => Aligned \/ Aligning)'
<1>1. WireInv'
  BY DEF PairingInv, WireInv
<1>2. DispatchInv'
  BY DEF PairingInv, DispatchInv, Unpopped
<1>3. Aligned => Aligned'
  BY DEF Aligned, Unpopped, Handling
<1>4. Aligning => Aligning'
  BY DEF Aligning
<1>. QED
  BY <1>1, <1>2, <1>3, <1>4 DEF PairingInv

-----------------------------------------------------------------------------
(* The pairs and samples made so far, next to the invariant.                *)
SampleInv == OwnTimestamp /\ (OneLeader => PairsOneSync) /\ DelaySampleOwn

(* The frame being handled: its timestamp is its own once in step.          *)
LEMMA HandledFrame ==
  ASSUME PairingInv, pc = "handle"
  PROVE  /\ Head(slots) \in Slot /\ Head(slots).id \in Nat /\ Head(slots).id <= commits
         /\ Head(slots).msg \in Message
         /\ inStep /\ Head(slots).id > since => popped = Head(slots).id
<1>1. slots # <<>> /\ slots \in Seq(Slot)
  BY StateFacts DEF PairingInv, DispatchInv
<1>2. Head(slots) = slots[1] /\ slots[1] \in Slot /\ Len(slots) > 0
  BY <1>1, TailFacts
<1>3. slots[1].id \in Nat /\ slots[1].id <= commits
  BY <1>2, StateFacts
<1>4. slots[1].msg \in Message
  BY <1>2 DEF Slot
<1>5. inStep /\ slots[1].id > since => popped = slots[1].id
  BY DEF PairingInv, Aligned, Aligning
<1>. QED
  BY <1>2, <1>3, <1>4, <1>5

LEMMA SyncMessage ==
  ASSUME NEW x \in Message, x.kind \in {"sync1", "sync2", "followup"}
  PROVE  x.m \in Masters /\ x.n \in Nat /\ <<x.m, x.n>> \in Stamp
BY DEF Message, Stamp

(* A two-step Sync: t2 is held until its Follow_Up comes.                   *)
LEMMA Sync2Keeps ==
  ASSUME PairingInv, SampleInv, pc = "handle", commits' = commits,
         UNCHANGED <<inStep, since>>,
         Head(slots).msg.kind = "sync2", RxSync(Head(slots))
  PROVE  SlaveInv' /\ SampleInv'
<1> DEFINE f == Head(slots)
           q == [ptp EXCEPT !.have_master = TRUE, !.have_t2 = TRUE,
                            !.t2 = <<f.msg.m, f.msg.n>>, !.ts = popped, !.frame = f.id]
           r == [q EXCEPT !.pending = f.msg.n, !.awaiting = TRUE, !.have_t1 = FALSE]
<1>0. ptp \in PtpState
  BY DEF PairingInv, SlaveInv
<1>1. f.msg.m \in Masters /\ f.msg.n \in Nat /\ <<f.msg.m, f.msg.n>> \in Stamp
  BY HandledFrame, SyncMessage
<1>2. f.id \in Nat /\ popped \in Int
  BY HandledFrame DEF PairingInv, WireInv
<1>3. /\ r \in PtpState /\ ~r.have_t1 /\ r.have_t2 /\ r.t2 = <<f.msg.m, f.msg.n>>
      /\ r.pending = f.msg.n /\ r.frame = f.id /\ r.ts = popped
      /\ r.have_t3 = ptp.have_t3 /\ r.t3 = ptp.t3 /\ r.seq = ptp.seq
  BY <1>0, <1>1, <1>2 DEF PtpState
<1>4. ptp' = r /\ pair' = pair /\ delay' = delay
  <2>1. try_compute_offset(r) /\ UNCHANGED delay
    BY DEF RxSync
  <2> HIDE DEF r
  <2>. QED
    BY <1>3, <2>1 DEF try_compute_offset
<1> HIDE DEF f, q, r
<1>5. SlaveInv'
  <2>1. ptp'.awaiting => ptp'.have_t2 /\ ptp'.t2[2] = ptp'.pending /\ ptp'.t2[1] \in Masters
    BY <1>1, <1>3, <1>4
  <2>2. ptp'.frame <= commits' /\ (inStep' /\ ptp'.frame > since' => ptp'.ts = ptp'.frame)
    BY <1>3, <1>4, HandledFrame DEF f
  <2>. QED
    BY <1>3, <1>4, <2>1, <2>2 DEF PairingInv, SlaveInv
<1>6. SampleInv'
  BY <1>4 DEF SampleInv, OwnTimestamp, PairsOneSync, DelaySampleOwn
<1>. QED
  BY <1>5, <1>6

(* A pair is resolved: both halves are used up.                             *)
HeldState ==
  [have_t1 : {TRUE}, have_t2 : BOOLEAN, have_t3 : BOOLEAN, awaiting : {FALSE},
   pending : Nat, t1 : Stamp, t2 : Stamp, ts : Int, frame : Nat, t3 : Nat,
   seq : 1..(MaxReq + 1), have_master : BOOLEAN, have_t2_t1 : BOOLEAN,
   acq_active : BOOLEAN]

LEMMA PairResolved ==
  ASSUME NEW q \in HeldState, q.have_t2, try_compute_offset(q)
  PROVE  /\ ptp' \in PtpState /\ ~ptp'.have_t2 /\ ~ptp'.awaiting
         /\ ptp'.frame = q.frame /\ ptp'.have_t3 = q.have_t3
         /\ ptp'.t3 = q.t3 /\ ptp'.seq = q.seq
         /\ pair'.t1 = q.t1 /\ pair'.t2 = q.t2
         /\ pair'.ts = q.ts /\ pair'.frame = q.frame
         /\ pair'.inStep => inStep /\ q.frame > since
<1> DEFINE r == [q EXCEPT !.have_t1 = FALSE, !.have_t2 = FALSE, !.have_t2_t1 = TRUE]
<1>1. q.have_t1
  BY DEF HeldState
<1>2. /\ pair' = [t1 |-> q.t1, t2 |-> q.t2, ts |-> q.ts, frame |-> q.frame,
                  inStep |-> inStep /\ q.frame > since]
      /\ Servo(r)
  BY <1>1 DEF try_compute_offset
<1>3. PICK acq \in BOOLEAN : ptp' = [r EXCEPT !.acq_active = acq]
  BY <1>2, Zenon DEF Servo
<1>4. /\ ptp' \in PtpState /\ ~ptp'.have_t2 /\ ~ptp'.awaiting
      /\ ptp'.frame = q.frame /\ ptp'.have_t3 = q.have_t3
      /\ ptp'.t3 = q.t3 /\ ptp'.seq = q.seq
  BY <1>3 DEF PtpState, HeldState
<1>. QED
  BY <1>2, <1>4

(* What a resolved pair leaves behind, whichever message resolved it.       *)
LEMMA ResolvedKeeps ==
  ASSUME PairingInv, SampleInv, commits' = commits, UNCHANGED <<inStep, since, delay>>,
         NEW q \in HeldState, q.have_t2, try_compute_offset(q),
         q.frame <= commits, inStep /\ q.frame > since => q.ts = q.frame,
         OneLeader => q.t1 = q.t2,
         q.have_t3 = ptp.have_t3, q.t3 = ptp.t3, q.seq = ptp.seq
  PROVE  SlaveInv' /\ SampleInv'
<1>1. /\ ptp' \in PtpState /\ ~ptp'.have_t2 /\ ~ptp'.awaiting
      /\ ptp'.frame = q.frame /\ ptp'.have_t3 = q.have_t3
      /\ ptp'.t3 = q.t3 /\ ptp'.seq = q.seq
      /\ pair'.t1 = q.t1 /\ pair'.t2 = q.t2
      /\ pair'.ts = q.ts /\ pair'.frame = q.frame
      /\ pair'.inStep => inStep /\ q.frame > since
  BY PairResolved
<1>2. SlaveInv'
  BY <1>1 DEF PairingInv, SlaveInv
<1>3. SampleInv'
  BY <1>1 DEF SampleInv, OwnTimestamp, PairsOneSync, DelaySampleOwn
<1>. QED
  BY <1>2, <1>3

(* A one-step Sync carries its own t1.                                      *)
LEMMA Sync1Keeps ==
  ASSUME PairingInv, SampleInv, pc = "handle", commits' = commits,
         UNCHANGED <<inStep, since>>,
         Head(slots).msg.kind = "sync1", RxSync(Head(slots))
  PROVE  SlaveInv' /\ SampleInv'
<1> DEFINE f == Head(slots)
           q == [ptp EXCEPT !.have_master = TRUE, !.have_t2 = TRUE,
                            !.t2 = <<f.msg.m, f.msg.n>>, !.ts = popped, !.frame = f.id]
           r == [q EXCEPT !.t1 = <<f.msg.m, f.msg.n>>, !.awaiting = FALSE, !.have_t1 = TRUE]
<1>0. ptp \in PtpState
  BY DEF PairingInv, SlaveInv
<1>1. f.msg.m \in Masters /\ f.msg.n \in Nat /\ <<f.msg.m, f.msg.n>> \in Stamp
  BY HandledFrame, SyncMessage
<1>2. f.id \in Nat /\ popped \in Int
  BY HandledFrame DEF PairingInv, WireInv
<1>3. /\ r \in HeldState /\ r.have_t2 /\ r.t2 = r.t1 /\ r.frame = f.id /\ r.ts = popped
      /\ r.have_t3 = ptp.have_t3 /\ r.t3 = ptp.t3 /\ r.seq = ptp.seq
  BY <1>0, <1>1, <1>2 DEF PtpState, HeldState
<1>4. try_compute_offset(r) /\ delay' = delay
  BY DEF RxSync
<1>5. f.id <= commits /\ (inStep /\ f.id > since => popped = f.id)
  BY HandledFrame
<1> HIDE DEF f, q, r
<1>. QED
  BY <1>3, <1>4, <1>5, ResolvedKeeps

(* A Follow_Up resolves the pair of the Sync it belongs to, or is ignored.  *)
LEMMA FollowUpKeeps ==
  ASSUME PairingInv, SampleInv, pc = "handle", commits' = commits,
         UNCHANGED <<inStep, since>>,
         Head(slots).msg.kind = "followup", RxFollowUp(Head(slots))
  PROVE  SlaveInv' /\ SampleInv'
<1> DEFINE f == Head(slots)
           r == [ptp EXCEPT !.t1 = <<f.msg.m, f.msg.n>>, !.have_t1 = TRUE, !.awaiting = FALSE]
<1>0. ptp \in PtpState /\ SlaveInv
  BY DEF PairingInv, SlaveInv
<1>1. f.msg.m \in Masters /\ f.msg.n \in Nat /\ <<f.msg.m, f.msg.n>> \in Stamp
  BY HandledFrame, SyncMessage
<1>2. CASE Associated(f.msg)
  <2>1. /\ ptp.awaiting /\ f.msg.n = ptp.pending /\ ptp.have_t2
        /\ ptp.t2[2] = ptp.pending /\ ptp.t2[1] \in Masters
    BY <1>0, <1>2 DEF Associated, SlaveInv
  <2>2. /\ r \in HeldState /\ r.have_t2 /\ r.t2 = ptp.t2 /\ r.t1 = <<f.msg.m, f.msg.n>>
        /\ r.frame = ptp.frame /\ r.ts = ptp.ts
        /\ r.have_t3 = ptp.have_t3 /\ r.t3 = ptp.t3 /\ r.seq = ptp.seq
    BY <1>0, <1>1, <2>1 DEF PtpState, HeldState
  <2>3. try_compute_offset(r) /\ delay' = delay
    BY <1>2 DEF RxFollowUp
  <2>4. ptp.t2 = <<ptp.t2[1], ptp.t2[2]>>
    BY <1>0 DEF PtpState, Stamp
  <2>5. OneLeader => r.t1 = r.t2
    BY <1>1, <2>1, <2>2, <2>4 DEF OneLeader
  <2>6. ptp.frame <= commits /\ (inStep /\ ptp.frame > since => ptp.ts = ptp.frame)
    BY <1>0, <2>1 DEF SlaveInv
  <2> HIDE DEF f, r
  <2>. QED
    BY <2>2, <2>3, <2>5, <2>6, ResolvedKeeps
<1>3. CASE ~Associated(f.msg)
  <2>1. UNCHANGED <<ptp, pair, delay>>
    BY <1>3 DEF RxFollowUp
  <2>. QED
    BY <2>1 DEF PairingInv, SlaveInv, SampleInv, OwnTimestamp, PairsOneSync, DelaySampleOwn
<1>. QED
  BY <1>2, <1>3

(* A Delay_Resp is used for the request it answers, once.                   *)
LEMMA DelayRespKeeps ==
  ASSUME PairingInv, SampleInv, commits' = commits,
         UNCHANGED <<inStep, since>>, RxDelayResp(Head(slots))
  PROVE  SlaveInv' /\ SampleInv'
<1> DEFINE f == Head(slots)
<1>0. ptp \in PtpState /\ SlaveInv
  BY DEF PairingInv, SlaveInv
<1>1. CASE Answers(f.msg)
  <2>1. /\ ptp' = [ptp EXCEPT !.have_t3 = FALSE] /\ pair' = pair
        /\ delay' = [req |-> ptp.t3, resp |-> f.msg.n, again |-> delay.req = ptp.t3]
    BY <1>1 DEF RxDelayResp
  <2>2. ptp.have_t3 /\ f.msg.n = ptp.seq - 1
    BY <1>1 DEF Answers
  <2>3. ptp.t3 = ptp.seq - 1 /\ delay.req < ptp.t3 /\ ptp.t3 \in Nat /\ ptp.seq \in Nat
        /\ delay.req \in Nat
    BY <1>0, <2>2, ConstantTypes DEF SlaveInv, PtpState
  <2>4. delay'.req = ptp.t3 /\ delay'.resp = f.msg.n /\ ~delay'.again
    <3>1. (delay.req = ptp.t3) = FALSE
      BY <2>3
    <3>2. delay' = [req |-> ptp.t3, resp |-> f.msg.n, again |-> FALSE]
      BY <2>1, <3>1, Zenon
    <3>. QED
      BY <3>2
  <2>5. /\ ptp' \in PtpState /\ ~ptp'.have_t3 /\ ptp'.seq = ptp.seq /\ ptp'.awaiting = ptp.awaiting
        /\ ptp'.have_t2 = ptp.have_t2 /\ ptp'.t2 = ptp.t2 /\ ptp'.pending = ptp.pending
        /\ ptp'.frame = ptp.frame /\ ptp'.ts = ptp.ts
    BY <1>0, <2>1 DEF PtpState
  <2>6. SlaveInv'
    BY <1>0, <2>3, <2>4, <2>5 DEF SlaveInv
  <2>7. SampleInv'
    BY <2>1, <2>2, <2>3, <2>4 DEF SampleInv, OwnTimestamp, PairsOneSync, DelaySampleOwn
  <2>. QED
    BY <2>6, <2>7
<1>2. CASE ~Answers(f.msg)
  <2>1. UNCHANGED <<ptp, pair, delay>>
    BY <1>2 DEF RxDelayResp
  <2>. QED
    BY <2>1 DEF PairingInv, SlaveInv, SampleInv, OwnTimestamp, PairsOneSync, DelaySampleOwn
<1>. QED
  BY <1>1, <1>2

LEMMA HandleSamples ==
  ASSUME PairingInv, SampleInv, Handle
  PROVE  SlaveInv' /\ SampleInv'
<1> DEFINE f == Head(slots)
<1>1. pc = "handle" /\ commits' = commits /\ UNCHANGED <<inStep, since>>
  BY DEF Handle
<1>2. CASE f.msg.kind = "sync1"
  BY <1>1, <1>2, Sync1Keeps DEF Handle
<1>3. CASE f.msg.kind = "sync2"
  BY <1>1, <1>3, Sync2Keeps DEF Handle
<1>4. CASE f.msg.kind = "followup"
  BY <1>1, <1>4, FollowUpKeeps DEF Handle
<1>5. CASE f.msg.kind = "resp"
  BY <1>1, <1>5, DelayRespKeeps DEF Handle
<1>6. CASE f.msg.kind \notin {"sync1", "sync2", "followup", "resp"}
  <2>1. UNCHANGED <<ptp, pair, delay>>
    BY <1>6 DEF Handle
  <2>. QED
    BY <1>1, <2>1 DEF PairingInv, SlaveInv, SampleInv, OwnTimestamp, PairsOneSync, DelaySampleOwn
<1>. QED
  BY <1>2, <1>3, <1>4, <1>5, <1>6

(* A request takes the place of the one before; no sample was made of it.   *)
LEMMA PollSamples ==
  ASSUME PairingInv, SampleInv, ptpv1_poll
  PROVE  SlaveInv' /\ SampleInv' /\ air' \subseteq Message
<1>0. ptp \in PtpState /\ SlaveInv
  BY DEF PairingInv, SlaveInv
<1>1. /\ ptp.seq <= MaxReq /\ UNCHANGED <<commits, inStep, since, pair, delay>>
      /\ ptp' = [ptp EXCEPT !.t3 = ptp.seq, !.have_t3 = TRUE, !.seq = @ + 1]
  BY DEF ptpv1_poll
<1>2. ptp.seq \in Nat /\ ptp.seq \in 1..(MaxReq + 1) /\ ptp.seq + 1 \in 1..(MaxReq + 1)
  BY <1>0, <1>1, ConstantTypes DEF PtpState
<1>3. /\ ptp' \in PtpState /\ ptp'.have_t3 /\ ptp'.t3 = ptp.seq /\ ptp'.seq = ptp.seq + 1
      /\ ptp'.awaiting = ptp.awaiting /\ ptp'.have_t2 = ptp.have_t2 /\ ptp'.t2 = ptp.t2
      /\ ptp'.pending = ptp.pending /\ ptp'.frame = ptp.frame /\ ptp'.ts = ptp.ts
  BY <1>0, <1>1, <1>2 DEF PtpState
<1>4. SlaveInv'
  <2>1. /\ ptp'.t3 = ptp'.seq - 1 /\ delay'.req < ptp'.t3
        /\ delay'.req \in Nat /\ delay'.req < ptp'.seq
    BY <1>0, <1>1, <1>2, <1>3 DEF SlaveInv
  <2>. QED
    BY <1>0, <1>1, <1>3, <2>1 DEF SlaveInv
<1>5. SampleInv'
  BY <1>1 DEF SampleInv, OwnTimestamp, PairsOneSync, DelaySampleOwn
<1>6. air' \subseteq Message
  <2>1. Msg("resp", 0, ptp.seq) \in Message
    BY <1>2 DEF Msg, Message
  <2>. QED
    BY <2>1 DEF ptpv1_poll, PairingInv, WireInv
<1>. QED
  BY <1>4, <1>5, <1>6

(* Steps that touch neither the slave nor its samples: commits only grow,   *)
(* and the mark of a resync covers every frame the slave has seen.          *)
LEMMA OtherSamples ==
  ASSUME PairingInv, SampleInv, UNCHANGED <<ptp, pair, delay>>,
         commits' \in Nat, commits <= commits',
         \/ UNCHANGED <<inStep, since>>
         \/ ~inStep /\ since' = commits
  PROVE  SlaveInv' /\ SampleInv'
<1>1. ptp.frame \in Nat /\ ptp.frame <= commits /\ commits \in Nat
  BY StateFacts DEF PairingInv, SlaveInv, PtpState
<1>2. ptp.frame <= commits'
  BY <1>1
<1>3. ptp.have_t2 /\ inStep' /\ ptp.frame > since' => ptp.ts = ptp.frame
  <2>1. CASE UNCHANGED <<inStep, since>>
    BY <2>1 DEF PairingInv, SlaveInv
  <2>2. CASE since' = commits
    BY <1>1, <2>2
  <2>. QED
    BY <2>1, <2>2
<1>4. SlaveInv'
  BY <1>2, <1>3 DEF PairingInv, SlaveInv
<1>5. SampleInv'
  BY DEF SampleInv, OwnTimestamp, PairsOneSync, DelaySampleOwn
<1>. QED
  BY <1>4, <1>5

LEMMA NextPairing == PairingInv /\ SampleInv /\ [Next]_vars => (PairingInv /\ SampleInv)'
<1> SUFFICES ASSUME PairingInv, SampleInv, [Next]_vars
             PROVE  PairingInv' /\ SampleInv'
  OBVIOUS
<1> DEFINE Ring == WireInv' /\ DispatchInv' /\ (inStep => Aligned \/ Aligning)'
<1> SUFFICES Ring /\ SlaveInv' /\ SampleInv'
  BY DEF PairingInv
<1>0. commits \in Nat
  BY StateFacts
<1>1. ASSUME NEW m \in Masters, NEW two \in BOOLEAN, SendSync(m, two)
      PROVE  Ring /\ SlaveInv' /\ SampleInv'
  <2>1. nsync \in [Masters -> 0..MaxSync] /\ nsync[m] < MaxSync
    BY <1>1 DEF PairingInv, WireInv, SendSync
  <2>2. nsync[m] + 1 \in 0..MaxSync /\ nsync[m] + 1 \in Nat
    BY <2>1, ConstantTypes
  <2>3. nsync' \in [Masters -> 0..MaxSync]
    BY <1>1, <2>1, <2>2 DEF SendSync
  <2>4. air' \subseteq Message
    <3>1. \A k \in {"sync1", "sync2", "followup"} : Msg(k, m, nsync[m] + 1) \in Message
      BY <2>2 DEF Msg, Message
    <3>2. air \subseteq Message
      BY DEF PairingInv, WireInv
    <3>. QED
      BY <1>1, <3>1, <3>2 DEF SendSync
  <2>5. UNCHANGED <<commits, slots, ring, popped, pc, lvl, budget, ptp, inStep, since, pair, delay>>
    BY <1>1 DEF SendSync
  <2>6. Ring
    BY <2>3, <2>4, <2>5, AirKeeps
  <2>. QED
    BY <1>0, <2>5, <2>6, OtherSamples
<1>2. ASSUME NEW msg \in air \cup {Audio, Msg("other", 0, 0)}, Commit(msg)
      PROVE  Ring /\ SlaveInv' /\ SampleInv'
  <2>1. msg \in Message
    <3>1. Audio \in Message /\ Msg("other", 0, 0) \in Message
      BY DEF Audio, Msg, Message
    <3>. QED
      BY <3>1 DEF PairingInv, WireInv
  <2>2. commits' = commits + 1 /\ UNCHANGED <<ptp, pair, delay, inStep, since>>
    BY <1>2 DEF Commit
  <2>. QED
    BY <1>0, <1>2, <2>1, <2>2, CommitKeeps, OtherSamples
<1>3. CASE ReadLevel
  <2>1. /\ UNCHANGED <<commits, ptp, pair, delay>> /\ since' = IF inStep THEN since ELSE commits
        /\ inStep' = (inStep \/ Len(slots) = NSlots)
    BY <1>3 DEF ReadLevel, gateware
  <2>2. UNCHANGED <<inStep, since>> \/ (~inStep /\ since' = commits)
    BY <2>1 DEF PairingInv, DispatchInv
  <2>. QED
    BY <1>0, <1>3, <2>1, <2>2, ReadLevelKeeps, OtherSamples
<1>4. CASE ResyncPop \/ ResyncDone \/ Drop \/ Take \/ DrainDone
  <2>1. UNCHANGED <<commits, ptp, pair, delay, inStep, since>>
    BY <1>4 DEF ResyncPop, ResyncDone, Drop, Take, DrainDone, gateware
  <2>2. SlaveInv' /\ SampleInv'
    BY <1>0, <2>1, OtherSamples
  <2>3. Ring
    BY <1>4, ResyncPopKeeps, ResyncDoneKeeps, DropKeeps, TakeKeeps, DrainDoneKeeps
  <2>. QED
    BY <2>2, <2>3
<1>5. CASE Handle
  BY <1>5, HandleKeeps, HandleSamples
<1>6. CASE ptpv1_poll
  <2>1. SlaveInv' /\ SampleInv' /\ air' \subseteq Message
    BY <1>6, PollSamples
  <2>2. UNCHANGED <<nsync, commits, slots, ring, popped, pc, lvl, budget, inStep, since>>
    BY <1>6 DEF ptpv1_poll
  <2>3. nsync' \in [Masters -> 0..MaxSync]
    BY <2>2 DEF PairingInv, WireInv
  <2>. QED
    BY <2>1, <2>2, <2>3, AirKeeps
<1>7. CASE UNCHANGED vars
  <2>1. /\ UNCHANGED <<commits, slots, ring, popped, pc, lvl, budget, inStep, since>>
        /\ UNCHANGED <<ptp, pair, delay, air, nsync>>
    BY <1>7 DEF vars, gateware
  <2>2. air' \subseteq Message /\ nsync' \in [Masters -> 0..MaxSync]
    BY <2>1 DEF PairingInv, WireInv
  <2>. QED
    BY <1>0, <2>1, <2>2, AirKeeps, OtherSamples
<1> HIDE DEF Ring
<1>. QED
  BY <1>1, <1>2, <1>3, <1>4, <1>5, <1>6, <1>7 DEF Next, dispatch_rx

LEMMA InitSamples == Init => SampleInv
BY DEF Init, SampleInv, OwnTimestamp, PairsOneSync, DelaySampleOwn, NoPair, NoDelay, NoSync

LEMMA PairingAlways == Spec => [](PairingInv /\ SampleInv)
BY InitPairing, InitSamples, NextPairing, PTL DEF Spec

(* Whatever the loader left in the ring and whenever the gateware commits,  *)
(* the ring and the slots stay within their depths, and once a dispatch has *)
(* found every slot filled they stay in step for good.                      *)
THEOREM RingStaysInStep == Spec => []RingSound
<1>1. PairingInv => RingSound
  <2> SUFFICES ASSUME PairingInv PROVE RingSound
    OBVIOUS
  <2>1. \A i \in DOMAIN ring : ring[i] \in (-RingDepth)..MaxCommits
    <3>1. ring \in Seq((-RingDepth)..MaxCommits)
      BY StateFacts
    <3>. QED
      BY <3>1, SeqElements
  <2>2. ptp.seq \in 1..(MaxReq + 1)
    BY DEF PairingInv, SlaveInv, PtpState
  <2>3. TypeOK
    BY <2>1, <2>2, StateFacts DEF TypeOK, PairingInv, WireInv, DispatchInv
  <2>4. RingInStep
    BY DEF RingInStep, PairingInv, Aligned, Aligning
  <2>. QED
    BY <2>3, <2>4 DEF RingSound
<1>. QED
  BY <1>1, PairingAlways, PTL

(* From then on the t2 of every pair is its own Sync's receive time.        *)
THEOREM T2IsOwn == Spec => []OwnTimestamp
<1>1. SampleInv => OwnTimestamp
  BY DEF SampleInv
<1>. QED
  BY <1>1, PairingAlways, PTL

(* While one clock sends the Syncs, no loss, repetition or reordering ever  *)
(* pairs the t1 of one Sync with the t2 of another.                         *)
THEOREM PairIsOneSync ==
  ASSUME \A a, b \in Masters : a = b
  PROVE  Spec => []PairsOneSync
<1>1. SampleInv => PairsOneSync
  BY DEF SampleInv, OneLeader
<1>. QED
  BY <1>1, PairingAlways, PTL

(* A path delay is measured from the very request its answer is for, and    *)
(* from each request at most once.                                          *)
THEOREM DelayIsOwn == Spec => []DelaySampleOwn
<1>1. SampleInv => DelaySampleOwn
  BY DEF SampleInv
<1>. QED
  BY <1>1, PairingAlways, PTL
=============================================================================
