------------------------ MODULE AvbReference_proofs ------------------------
(***************************************************************************)
(* The two protocol endpoints of the AVB reference firmware.               *)
(*                                                                         *)
(* AVDECC: connection management for any number of streams, listeners,     *)
(* talkers, controllers and commands.                                      *)
(* SRP: declarations, LeaveAlls and the tables of talkers and listeners,   *)
(* for any streams, table sizes, periods and received vectors.             *)
(***************************************************************************)
EXTENDS Avdecc, Srp, FiniteSetTheorems, WellFoundedInduction, TLAPS

Talker == [slots : [Slots -> Remotes \cup {Nobody}], n : 0..CountCap, connected : BOOLEAN,
           start : Nat, stop : Nat]
Taken(t) == {i \in Slots : t.slots[i] # Nobody}
Holds(t, e) == \E i \in Slots : t.slots[i] = e

(* A talker stream is on and counted as started while its count is not 0.   *)
Counted(t) ==
  /\ t \in Talker
  /\ t.connected = (t.n > 0)
  /\ t.start = t.stop + (IF t.n > 0 THEN 1 ELSE 0)

(* Its count is that of the slots taken.                                    *)
Exact(t) == t.n = Cardinality(Taken(t))

(* Who found room is in the table, and the count is exact as long as every  *)
(* command named its listener.                                              *)
TalkersInv ==
  /\ talkers \in [Uids -> Talker] /\ want \in [Uids -> SUBSET (Remotes \X Inputs)]
  /\ counted \in [Uids -> SUBSET Remotes] /\ unnamed \in [Uids -> BOOLEAN]
  /\ commands \in 0..MaxCommands
  /\ \A u \in Uids : /\ Counted(talkers[u]) /\ talkers[u].start + commands <= MaxCommands
                     /\ ~unnamed[u] => Exact(talkers[u])
                     /\ \A x \in counted[u] : x # Nobody /\ Holds(talkers[u], x)

Reconnect == [patched : BOOLEAN, tries : 0..MaxTries, phase : {0, 1}, age : 0..Retry]
Dog == [init : BOOLEAN, recovery : BOOLEAN, flow : 0..Stall, retry : 0..Retry]

(* The clocks of the two watchdogs.                                         *)
TimersInv ==
  /\ reconnect \in [Uids -> Reconnect]
  /\ axc_eid_valid \in BOOLEAN
  /\ watchdog \in Dog
  /\ crfFrames \in BOOLEAN

Resolve == [active : BOOLEAN, seq : 0..MaxSeq, talker : RemoteTalkers \cup {Nobody},
            age : 0..ResolveTimeout]

(* A number, before it is cut to 16 bits, names one command: of two         *)
(* resolves that wait, of a resolve and a command on the wire.              *)
ResolvesInv ==
  /\ next_acmp_seq \in 0..MaxSeq
  /\ resolves \in [Luids -> Resolve]
  /\ wire \subseteq [seq : 0..MaxSeq, talker : RemoteTalkers \cup {Nobody}]
  /\ answered \subseteq Luids /\ answeredTwice = FALSE
  /\ \A m \in wire : m.seq < next_acmp_seq
  /\ \A l \in Luids : resolves[l].active =>
       /\ resolves[l].seq < next_acmp_seq /\ l \notin answered
       /\ \A m \in wire : m.seq = resolves[l].seq => m.talker = resolves[l].talker
       /\ \A k \in Luids : resolves[k].active /\ resolves[k].seq = resolves[l].seq => k = l

Streams == {StreamOf(t) : t \in RemoteTalkers \cup {Nobody}} \cup {Nobody}
Listener == [connected : BOOLEAN, talker : RemoteTalkers \cup {Nobody}, stream : Streams,
             by : {"none", "controller", "answer", "turn"},
             locked : Nat, unlocked : Nat, last_locked : BOOLEAN]

Locks(l) == l.locked = l.unlocked + (IF l.last_locked THEN 1 ELSE 0)

ListenersInv ==
  /\ listeners \in [Luids -> Listener]
  /\ \A l \in Luids : Locks(listeners[l])
  /\ BoundToAnswer

InfoType == [known : BOOLEAN, connected : BOOLEAN, talker : RemoteTalkers \cup {Nobody},
             stream : Streams]
Ctrl == [active : BOOLEAN, eid : Controllers \cup {Nobody}, view : [Descriptors -> InfoType]]

ViewsInv == unsol_ctrl \in [1..CtrlSlots -> Ctrl] /\ ViewsCurrent

AvdeccInv == TalkersInv /\ TimersInv /\ ResolvesInv /\ ListenersInv /\ ViewsInv

-----------------------------------------------------------------------------
LEMMA ConstantTypes ==
  /\ Uids \subseteq Nat /\ Luids \subseteq Nat /\ CrfLuid \in Luids
  /\ IsFiniteSet(Uids) /\ SeqWrap \in Nat /\ SeqWrap > 0
  /\ MaxPerTalker \in Nat /\ MaxPerTalker > 0 /\ CtrlSlots \in Nat /\ CtrlSlots > 0
  /\ ResolveTimeout \in Nat /\ ResolveTimeout > 0 /\ Stall \in Nat /\ Stall > 0
  /\ Retry \in Nat /\ Retry > 0 /\ MaxTries \in Nat /\ MaxTries > 0
  /\ MaxCommands \in Nat /\ MaxSeq \in Nat
BY AvdeccAssumption

(* The least of a set of numbers.                                           *)
LEMMA LowestIn ==
  ASSUME NEW S \in SUBSET Nat, S # {}
  PROVE  Lowest(S) \in S /\ \A k \in S : Lowest(S) <= k
<1> DEFINE R == OpToRel(<, Nat)
<1>1. IsWellFoundedOn(R, Nat)
  BY NatLessThanWellFounded
<1>2. PICK x \in S : \A y \in S : ~(<<y, x>> \in R)
  <2> HIDE DEF R
  <2>. QED
    BY <1>1, WFMin
<1>3. \A y \in Nat, z \in Nat : y < z => <<y, z>> \in R
  BY DEF OpToRel
<1> HIDE DEF R
<1>4. ASSUME NEW k \in S PROVE x <= k
  <2>1. k \in Nat /\ x \in Nat
    OBVIOUS
  <2>2. ~(k < x)
    BY <1>2, <1>3, <2>1, Zenon
  <2>. QED
    BY <2>1, <2>2
<1>. QED
  BY <1>4 DEF Lowest

LEMMA SlotSets ==
  ASSUME NEW T \in SUBSET Slots
  PROVE  /\ IsFiniteSet(T) /\ Cardinality(T) \in Nat /\ Cardinality(T) <= MaxPerTalker
         /\ Cardinality(T) = 0 <=> T = {}
         /\ T # {} => Lowest(T) \in T
<1>1. IsFiniteSet(Slots) /\ Cardinality(Slots) = MaxPerTalker
  BY ConstantTypes, FS_Interval DEF Slots
<1>2. IsFiniteSet(T) /\ Cardinality(T) <= MaxPerTalker
  BY <1>1, FS_Subset
<1>3. T \in SUBSET Nat
  BY ConstantTypes DEF Slots
<1>. QED
  BY <1>2, <1>3, LowestIn, FS_CardinalityType, FS_EmptySet

Written(t, k, e, m) == [t EXCEPT !.slots[k] = e, !.n = m]

LEMMA SlotWritten ==
  ASSUME NEW t \in Talker, NEW k \in Slots, NEW e \in Remotes \cup {Nobody}, NEW m \in 0..CountCap,
         NEW a, a = Written(t, k, e, m)
  PROVE  /\ a \in Talker /\ a.slots = [t.slots EXCEPT ![k] = e] /\ a.n = m
         /\ a.start = t.start /\ a.stop = t.stop
<1>1. a = [slots |-> [t.slots EXCEPT ![k] = e], n |-> m, connected |-> t.connected,
           start |-> t.start, stop |-> t.stop]
  BY DEF Talker, Written
<1>2. [t.slots EXCEPT ![k] = e] \in [Slots -> Remotes \cup {Nobody}]
  BY DEF Talker
<1>. QED
  BY <1>1, <1>2 DEF Talker

LEMMA CounterWritten ==
  ASSUME NEW t \in Talker, NEW c \in BOOLEAN, NEW x \in Nat, NEW y \in Nat,
         NEW a, a = [slots |-> t.slots, n |-> t.n, connected |-> c, start |-> x, stop |-> y]
  PROVE  /\ a \in Talker /\ a.slots = t.slots /\ a.n = t.n /\ a.connected = c
         /\ a.start = x /\ a.stop = y
BY DEF Talker

(* CONNECT_TX keeps a stream's books, and a listener that found room is in  *)
(* them.                                                                    *)
LEMMA ConnectKeeps ==
  ASSUME NEW t, Counted(t), NEW e \in Remotes, t.n < CountCap,
         NEW r, r = Started(Admitted(t, e), t.n)
  PROVE  /\ Counted(r) /\ r.start <= t.start + 1
         /\ Exact(t) /\ e # Nobody => Exact(r)
         /\ \A x : x # Nobody /\ Holds(t, x) => Holds(r, x)
         /\ e # Nobody /\ Holds(t, Nobody) => Holds(r, e)
         /\ (t.n = 0 /\ r.n > 0) \/ r.connected = t.connected
<1> DEFINE free == {i \in Slots : t.slots[i] = Nobody}
           known == e # Nobody /\ Holds(t, e)
           a == Admitted(t, e)
<1>1. /\ t \in Talker /\ t.slots \in [Slots -> Remotes \cup {Nobody}] /\ t.n \in 0..CountCap
      /\ t.start \in Nat /\ t.stop \in Nat
  BY DEF Counted, Talker
<1>3. /\ a \in Talker /\ a.n >= t.n
      /\ Exact(t) /\ e # Nobody => Exact(a)
      /\ a.start = t.start /\ a.stop = t.stop
      /\ \A x : x # Nobody /\ Holds(t, x) => Holds(a, x)
      /\ e # Nobody /\ Holds(t, Nobody) => Holds(a, e)
  <2>1. CASE known \/ free = {}
    <3>1. a = t
      BY <2>1 DEF Admitted, Holds
    <3>2. e # Nobody /\ Holds(t, Nobody) => Holds(t, e)
      BY <2>1 DEF Holds
    <3>. QED
      BY <1>1, <3>1, <3>2
  <2>2. CASE ~known /\ free # {}
    <3> DEFINE k == Lowest(free)
    <3>1. k \in Slots /\ t.slots[k] = Nobody
      <4>1. free \in SUBSET Slots
        OBVIOUS
      <4>. QED
        BY <2>2, <4>1, SlotSets
    <3>2. a = [t EXCEPT !.slots[k] = e, !.n = @ + 1]
      BY <2>2 DEF Admitted, Holds
    <3> HIDE DEF k, a, free, known
    <3>3. /\ a.slots = [t.slots EXCEPT ![k] = e] /\ a.n = t.n + 1
          /\ a.start = t.start /\ a.stop = t.stop /\ a \in Talker
      <4>1. t.n + 1 \in 0..CountCap
        BY <1>1 DEF CountCap
      <4>2. a = Written(t, k, e, t.n + 1)
        BY <3>2 DEF Written
      <4>. QED
        BY <1>1, <3>1, <4>1, <4>2, SlotWritten
    <3>4. e # Nobody =>
            Taken(a) = Taken(t) \cup {k} /\ k \notin Taken(t) /\ Taken(t) \in SUBSET Slots
      BY <1>1, <3>1, <3>3 DEF Taken
    <3>5. Exact(t) /\ e # Nobody => Exact(a)
      BY <3>3, <3>4, SlotSets, FS_AddElement DEF Exact
    <3>6. Holds(a, e) /\ \A x : x # Nobody /\ Holds(t, x) => Holds(a, x)
      BY <1>1, <3>1, <3>3 DEF Holds
    <3>. QED
      BY <1>1, <3>3, <3>5, <3>6
  <2>. QED
    BY <2>1, <2>2
<1> HIDE DEF a
<1>4. /\ r.slots = a.slots /\ r.n = a.n /\ r.stop = a.stop /\ r.connected = (a.n > 0)
      /\ r.start = IF t.n = 0 /\ a.n > 0 /\ a.start <= a.stop THEN a.start + 1 ELSE a.start
      /\ r \in Talker
  <2> DEFINE c == a.n > 0
             x == IF t.n = 0 /\ a.n > 0 /\ a.start <= a.stop THEN a.start + 1 ELSE a.start
  <2>1. a \in Talker /\ c \in BOOLEAN /\ x \in Nat /\ a.stop \in Nat
    BY <1>3 DEF Talker
  <2>2. r = [a EXCEPT !.connected = c, !.start = x]
    BY DEF Started, a
  <2> HIDE DEF c, x
  <2>3. r = [slots |-> a.slots, n |-> a.n, connected |-> c, start |-> x, stop |-> a.stop]
    BY <2>1, <2>2 DEF Talker
  <2>4. r \in Talker /\ r.slots = a.slots /\ r.n = a.n /\ r.connected = c
        /\ r.start = x /\ r.stop = a.stop
    BY <2>1, <2>3, CounterWritten
  <2>. QED
    BY <2>4 DEF c, x
<1>5. (Exact(a) => Exact(r)) /\ \A x : Holds(r, x) <=> Holds(a, x)
  <2>1. Taken(r) = Taken(a)
    BY <1>4 DEF Taken
  <2>. QED
    BY <1>4, <2>1 DEF Exact, Holds
<1>6. a.n \in Nat /\ t.start = t.stop + (IF t.n > 0 THEN 1 ELSE 0) /\ t.connected = (t.n > 0)
  BY <1>3 DEF Talker, Counted
<1>7. r.start = r.stop + (IF r.n > 0 THEN 1 ELSE 0) /\ r.start <= t.start + 1
  BY <1>1, <1>3, <1>4, <1>6
<1>8. (t.n = 0 /\ r.n > 0) \/ r.connected = t.connected
  <2>1. CASE t.n = 0 /\ a.n > 0
    BY <2>1, <1>4
  <2>2. CASE t.n = 0 /\ a.n = 0
    BY <2>2, <1>4, <1>6
  <2>3. CASE t.n > 0
    BY <2>3, <1>1, <1>3, <1>4, <1>6
  <2>. QED
    BY <1>1, <1>6, <2>1, <2>2, <2>3
<1>9. Counted(r)
  BY <1>4, <1>7 DEF Counted
<1> HIDE DEF free, known
<1>. QED
  BY <1>3, <1>5, <1>7, <1>8, <1>9

(* DISCONNECT_TX keeps them too, and removes no other listener.             *)
LEMMA DisconnectKeeps ==
  ASSUME NEW t, Counted(t), NEW e \in Remotes,
         NEW r, r = Stopped(Removed(t, e))
  PROVE  /\ Counted(r) /\ r.start = t.start
         /\ Exact(t) /\ e # Nobody => Exact(r)
         /\ \A x : x # e /\ Holds(t, x) => Holds(r, x)
         /\ r.n = 0 \/ r.connected = t.connected
<1> DEFINE same == {i \in Slots : t.slots[i] = e}
           a == Removed(t, e)
<1>1. /\ t \in Talker /\ t.slots \in [Slots -> Remotes \cup {Nobody}] /\ t.n \in 0..CountCap
      /\ t.start \in Nat /\ t.stop \in Nat
  BY DEF Counted, Talker
<1>3. /\ a \in Talker /\ a.n <= t.n
      /\ Exact(t) /\ e # Nobody => Exact(a)
      /\ a.start = t.start /\ a.stop = t.stop
      /\ \A x : x # e /\ Holds(t, x) => Holds(a, x)
  <2>1. CASE same = {}
    <3>1. a = t
      BY <2>1 DEF Removed
    <3>. QED
      BY <1>1, <3>1
  <2>2. CASE same # {}
    <3> DEFINE k == Lowest(same)
    <3>1. k \in Slots /\ t.slots[k] = e
      <4>1. same \in SUBSET Slots
        OBVIOUS
      <4>. QED
        BY <2>2, <4>1, SlotSets
    <3>2. a = [t EXCEPT !.slots[k] = Nobody, !.n = IF @ > 0 THEN @ - 1 ELSE 0]
      BY <2>2 DEF Removed
    <3> HIDE DEF k, a, same
    <3>3. /\ a.slots = [t.slots EXCEPT ![k] = Nobody] /\ a.n = (IF t.n > 0 THEN t.n - 1 ELSE 0)
          /\ a.start = t.start /\ a.stop = t.stop /\ a \in Talker
      <4> DEFINE m == IF t.n > 0 THEN t.n - 1 ELSE 0
      <4>1. m \in 0..CountCap
        BY <1>1 DEF CountCap
      <4>2. a = Written(t, k, Nobody, m)
        BY <3>2 DEF Written
      <4> HIDE DEF m
      <4>3. /\ a.slots = [t.slots EXCEPT ![k] = Nobody] /\ a.n = m
            /\ a.start = t.start /\ a.stop = t.stop /\ a \in Talker
        <5>1. t \in Talker /\ k \in Slots /\ Nobody \in Remotes \cup {Nobody}
          BY <1>1, <3>1
        <5>. QED
          BY <4>1, <4>2, <5>1, SlotWritten
      <4>. QED
        BY <4>3 DEF m
    <3>4. ASSUME Exact(t), e # Nobody PROVE Exact(a)
      <4>1. Taken(a) = Taken(t) \ {k} /\ k \in Taken(t) /\ Taken(t) \in SUBSET Slots
        BY <1>1, <3>1, <3>3, <3>4 DEF Taken
      <4>2. IsFiniteSet(Taken(t)) /\ t.n = Cardinality(Taken(t)) /\ t.n > 0
        BY <1>1, <3>4, <4>1, SlotSets DEF Exact
      <4>3. Cardinality(Taken(t) \ {k}) = Cardinality(Taken(t)) - 1
        BY <4>1, <4>2, FS_RemoveElement
      <4>. QED
        BY <1>1, <3>3, <4>1, <4>2, <4>3 DEF Exact
    <3>5. \A x : x # e /\ Holds(t, x) => Holds(a, x)
      BY <1>1, <3>1, <3>3 DEF Holds
    <3>6. a.n <= t.n
      BY <1>1, <3>3
    <3>. QED
      BY <1>1, <3>3, <3>4, <3>5, <3>6
  <2>. QED
    BY <2>1, <2>2
<1> HIDE DEF a
<1>4. /\ r.slots = a.slots /\ r.n = a.n /\ r.start = a.start /\ r.connected = (a.n > 0)
      /\ r.stop = IF a.n = 0 /\ a.stop < a.start THEN a.stop + 1 ELSE a.stop
      /\ r \in Talker
  <2> DEFINE c == a.n > 0
             y == IF a.n = 0 /\ a.stop < a.start THEN a.stop + 1 ELSE a.stop
  <2>1. a \in Talker /\ c \in BOOLEAN /\ y \in Nat /\ a.start \in Nat
    BY <1>3 DEF Talker
  <2>2. r = [a EXCEPT !.connected = c, !.stop = y]
    BY DEF Stopped, a
  <2> HIDE DEF c, y
  <2>3. r = [slots |-> a.slots, n |-> a.n, connected |-> c, start |-> a.start, stop |-> y]
    BY <2>1, <2>2 DEF Talker
  <2>4. r \in Talker /\ r.slots = a.slots /\ r.n = a.n /\ r.connected = c
        /\ r.start = a.start /\ r.stop = y
    BY <2>1, <2>3, CounterWritten
  <2>. QED
    BY <2>4 DEF c, y
<1>5. (Exact(a) => Exact(r)) /\ \A x : Holds(r, x) <=> Holds(a, x)
  <2>1. Taken(r) = Taken(a)
    BY <1>4 DEF Taken
  <2>. QED
    BY <1>4, <2>1 DEF Exact, Holds
<1>6. a.n \in Nat /\ t.start = t.stop + (IF t.n > 0 THEN 1 ELSE 0) /\ t.connected = (t.n > 0)
  BY <1>3 DEF Talker, Counted
<1>7. r.start = r.stop + (IF r.n > 0 THEN 1 ELSE 0) /\ r.start = t.start
  BY <1>1, <1>3, <1>4, <1>6
<1>8. r.n = 0 \/ r.connected = t.connected
  <2>1. CASE a.n > 0
    BY <2>1, <1>1, <1>3, <1>4, <1>6
  <2>. QED
    BY <2>1, <1>4, <1>6
<1>9. Counted(r)
  BY <1>4, <1>7 DEF Counted
<1>. QED
  BY <1>3, <1>5, <1>7, <1>8, <1>9

-----------------------------------------------------------------------------
(* An action of Next that leaves the talkers alone.                         *)
LEMMA TalkersAlone ==
  ASSUME TalkersInv, UNCHANGED <<talkers, historyVars>>, commands' = commands \/ Command
  PROVE  TalkersInv'
<1>1. commands' \in 0..MaxCommands /\ commands' <= commands /\ commands \in Int
  BY ConstantTypes DEF TalkersInv, Command
<1>2. ASSUME NEW u \in Uids PROVE talkers[u].start + commands' <= MaxCommands
  <2>1. talkers[u].start \in Nat /\ talkers[u].start + commands <= MaxCommands
    BY DEF TalkersInv, Talker
  <2>. QED
    BY <1>1, <2>1, ConstantTypes
<1>. QED
  BY <1>1, <1>2 DEF TalkersInv, historyVars

(* A command of a listener writes the books of one stream.                  *)
LEMMA OneTalker ==
  ASSUME TalkersInv, NEW u \in Uids, NEW r \in Talker, NEW w \in SUBSET (Remotes \X Inputs),
         NEW c \in SUBSET Remotes, NEW b \in BOOLEAN,
         talkers' = [talkers EXCEPT ![u] = r], want' = [want EXCEPT ![u] = w],
         counted' = [counted EXCEPT ![u] = c], unnamed' = [unnamed EXCEPT ![u] = b], Command,
         Counted(r), r.start <= talkers[u].start + 1,
         ~b => Exact(r), \A x \in c : x # Nobody /\ Holds(r, x)
  PROVE  TalkersInv'
<1>1. /\ talkers \in [Uids -> Talker] /\ want \in [Uids -> SUBSET (Remotes \X Inputs)]
      /\ counted \in [Uids -> SUBSET Remotes] /\ unnamed \in [Uids -> BOOLEAN]
      /\ commands \in 0..MaxCommands /\ commands > 0 /\ commands' = commands - 1
  BY DEF TalkersInv, Command
<1>2. /\ talkers' \in [Uids -> Talker] /\ want' \in [Uids -> SUBSET (Remotes \X Inputs)]
      /\ counted' \in [Uids -> SUBSET Remotes] /\ unnamed' \in [Uids -> BOOLEAN]
  BY <1>1
<1>3. commands' \in 0..MaxCommands
  BY <1>1, ConstantTypes
<1>4. ASSUME NEW v \in Uids
      PROVE  /\ Counted(talkers'[v]) /\ talkers'[v].start + commands' <= MaxCommands
             /\ ~unnamed'[v] => Exact(talkers'[v])
             /\ \A x \in counted'[v] : x # Nobody /\ Holds(talkers'[v], x)
  <2>1. talkers[v].start \in Nat /\ talkers[v].start + commands <= MaxCommands
    BY DEF TalkersInv, Talker
  <2>2. CASE v = u
    <3>1. talkers'[v] = r /\ counted'[v] = c /\ unnamed'[v] = b
      BY <1>1, <2>2
    <3>2. r.start + commands' <= MaxCommands
      <4>1. r.start \in Nat
        BY DEF Talker
      <4>. QED
        BY <1>1, <2>1, <2>2, <4>1, ConstantTypes
    <3>. QED
      BY <3>1, <3>2
  <2>3. CASE v # u
    <3>1. talkers'[v] = talkers[v] /\ counted'[v] = counted[v] /\ unnamed'[v] = unnamed[v]
      BY <1>1, <2>3
    <3>2. talkers[v].start + commands' <= MaxCommands
      BY <1>1, <2>1, ConstantTypes
    <3>. QED
      BY <3>1, <3>2 DEF TalkersInv
  <2>. QED
    BY <2>2, <2>3
<1>. QED
  BY <1>2, <1>3, <1>4 DEF TalkersInv

LEMMA ConnectTalkers ==
  ASSUME TalkersInv, NEW u \in Uids, NEW e \in Remotes, NEW input \in Inputs,
         acmp_handle_connect_tx(u, e, input)
  PROVE  TalkersInv'
<1> DEFINE t == talkers[u]
           r == Started(Admitted(t, e), t.n)
           w == IF e = Nobody THEN want[u] ELSE want[u] \cup {<<e, input>>}
           c == IF e # Nobody /\ Holds(t, Nobody) THEN counted[u] \cup {e} ELSE counted[u]
           b == unnamed[u] \/ e = Nobody
<1>1. /\ talkers \in [Uids -> Talker] /\ want[u] \in SUBSET (Remotes \X Inputs)
      /\ counted[u] \in SUBSET Remotes /\ unnamed[u] \in BOOLEAN /\ Counted(t)
      /\ ~unnamed[u] => Exact(t)
      /\ \A x \in counted[u] : x # Nobody /\ Holds(t, x)
  BY DEF TalkersInv
<1>2. /\ talkers' = [talkers EXCEPT ![u] = r] /\ want' = [want EXCEPT ![u] = w]
      /\ counted' = [counted EXCEPT ![u] = c] /\ unnamed' = [unnamed EXCEPT ![u] = b]
      /\ Command /\ t.n < CountCap
  BY DEF acmp_handle_connect_tx, Connected, Holds
<1>3. w \in SUBSET (Remotes \X Inputs) /\ c \in SUBSET Remotes /\ b \in BOOLEAN
  BY <1>1
<1>4. /\ Counted(r) /\ r.start <= t.start + 1
      /\ Exact(t) /\ e # Nobody => Exact(r)
      /\ \A x : x # Nobody /\ Holds(t, x) => Holds(r, x)
      /\ e # Nobody /\ Holds(t, Nobody) => Holds(r, e)
  BY <1>1, <1>2, ConnectKeeps
<1>5. ~b => Exact(r)
  BY <1>1, <1>4
<1>6. \A x \in c : x # Nobody /\ Holds(r, x)
  <2> HIDE DEF r, t
  <2>. QED
    BY <1>1, <1>4
<1>7. r \in Talker
  BY <1>4 DEF Counted
<1> HIDE DEF r, w, c, b
<1>. QED
  BY <1>2, <1>3, <1>4, <1>5, <1>6, <1>7, OneTalker

LEMMA DisconnectTalkers ==
  ASSUME TalkersInv, NEW u \in Uids, NEW e \in Remotes, NEW input \in Inputs,
         acmp_handle_disconnect_tx(u, e, input)
  PROVE  TalkersInv'
<1> DEFINE t == talkers[u]
           r == Stopped(Removed(t, e))
           w == want[u] \ {<<e, input>>}
           c == counted[u] \ {e}
           b == unnamed[u] \/ e = Nobody
<1>1. /\ talkers \in [Uids -> Talker] /\ want[u] \in SUBSET (Remotes \X Inputs)
      /\ counted[u] \in SUBSET Remotes /\ unnamed[u] \in BOOLEAN /\ Counted(t)
      /\ ~unnamed[u] => Exact(t)
      /\ \A x \in counted[u] : x # Nobody /\ Holds(t, x)
  BY DEF TalkersInv
<1>2. /\ talkers' = [talkers EXCEPT ![u] = r] /\ want' = [want EXCEPT ![u] = w]
      /\ counted' = [counted EXCEPT ![u] = c] /\ unnamed' = [unnamed EXCEPT ![u] = b]
      /\ Command
  BY DEF acmp_handle_disconnect_tx, Disconnected
<1>3. w \in SUBSET (Remotes \X Inputs) /\ c \in SUBSET Remotes /\ b \in BOOLEAN
  BY <1>1
<1>4. /\ Counted(r) /\ r.start = t.start
      /\ Exact(t) /\ e # Nobody => Exact(r)
      /\ \A x : x # e /\ Holds(t, x) => Holds(r, x)
  BY <1>1, DisconnectKeeps
<1>5. ~b => Exact(r)
  BY <1>1, <1>4
<1>6. \A x \in c : x # Nobody /\ Holds(r, x)
  <2> HIDE DEF r, t
  <2>. QED
    BY <1>1, <1>4
<1>7. r \in Talker /\ r.start <= t.start + 1
  BY <1>1, <1>4 DEF Counted, Talker
<1> HIDE DEF r, w, c, b
<1>. QED
  BY <1>2, <1>3, <1>4, <1>5, <1>6, <1>7, OneTalker

(* What a step does to the talkers and to the budget of commands.           *)
LEMMA TalkerSteps ==
  ASSUME [Next]_vars
  PROVE  \/ \E u \in Uids, e \in Remotes, input \in Inputs :
              acmp_handle_connect_tx(u, e, input) \/ acmp_handle_disconnect_tx(u, e, input)
         \/ UNCHANGED <<talkers, historyVars>> /\ (commands' = commands \/ Command)
<1>1. CASE TalkerNext
  BY <1>1, Zenon DEF TalkerNext, acmp_snoop_switch_connect_rx
<1>2. CASE ListenerNext
  BY <1>2 DEF ListenerNext, ConnectRxSlow, ConnectRxFast, acmp_handle_disconnect_rx, avdecc_poll,
    avdecc_listener_lock_changed, acmp_handle_connect_tx_response, talkerVars
<1>3. CASE Tick \/ CrfFrame \/ avdecc_talker_reconnect_watchdog \/ avdecc_crf_flow_watchdog
  BY <1>3 DEF Tick, CrfFrame, avdecc_talker_reconnect_watchdog, avdecc_crf_flow_watchdog, talkerVars
<1>4. CASE \E c \in Controllers : register_unsolicited(c) \/ deregister_unsolicited(c)
  BY <1>4 DEF register_unsolicited, deregister_unsolicited, talkerVars
<1>5. CASE UNCHANGED vars
  BY <1>5 DEF vars, talkerVars
<1>. QED
  BY <1>1, <1>2, <1>3, <1>4, <1>5 DEF Next

LEMMA TalkersKept == TalkersInv /\ [Next]_vars => TalkersInv'
BY TalkerSteps, TalkersAlone, ConnectTalkers, DisconnectTalkers

-----------------------------------------------------------------------------
LEMMA OlderStays ==
  ASSUME NEW n \in Nat, NEW a \in 0..n
  PROVE  Older(a, n) \in 0..n
BY DEF Older

LEMMA DrivenType ==
  ASSUME NEW r \in Reconnect, r.tries < MaxTries
  PROVE  Driven(r) \in Reconnect
<1>1. /\ r.tries + 1 \in 0..MaxTries /\ 0 \in 0..Retry /\ 0 \in {0, 1} /\ 1 \in {0, 1}
  BY ConstantTypes DEF Reconnect
<1>2. [r EXCEPT !.age = 0, !.phase = 1] \in Reconnect
  BY <1>1 DEF Reconnect
<1>3. [r EXCEPT !.age = 0, !.phase = 0, !.tries = r.tries + 1] \in Reconnect
  BY <1>1 DEF Reconnect
<1>. QED
  BY <1>2, <1>3 DEF Driven

LEMMA InitialTimers == NoReconnect \in Reconnect /\ IdleDog \in Dog /\ Baseline \in Dog
BY ConstantTypes DEF NoReconnect, Reconnect, IdleDog, Baseline, Dog

LEMMA SnoopTimers ==
  ASSUME TimersInv, NEW u \in Uids, acmp_snoop_switch_connect_rx(u)
  PROVE  TimersInv'
<1>1. [NoReconnect EXCEPT !.patched = TRUE] \in Reconnect
  BY InitialTimers DEF Reconnect
<1>. QED
  BY <1>1 DEF TimersInv, acmp_snoop_switch_connect_rx, watchdogVars

LEMMA ReconnectTimers ==
  ASSUME TimersInv, TalkersInv, avdecc_talker_reconnect_watchdog
  PROVE  TimersInv'
<1> DEFINE next(u) == IF Drives(u) THEN Driven(reconnect[u])
                      ELSE IF reconnect[u].patched /\ talkers[u].n > 0
                        THEN [reconnect[u] EXCEPT !.tries = 0, !.phase = 0] ELSE reconnect[u]
<1>1. reconnect' = [u \in Uids |-> next(u)] /\ UNCHANGED <<axc_eid_valid, watchdog, crfFrames>>
  BY DEF avdecc_talker_reconnect_watchdog, watchdogVars
<1>2. ASSUME NEW u \in Uids PROVE next(u) \in Reconnect
  <2>1. reconnect[u] \in Reconnect
    BY DEF TimersInv
  <2>2. Drives(u) => Driven(reconnect[u]) \in Reconnect
    BY <2>1, DrivenType DEF Drives
  <2>3. [reconnect[u] EXCEPT !.tries = 0, !.phase = 0] \in Reconnect
    <3>1. 0 \in 0..MaxTries /\ 0 \in {0, 1}
      BY ConstantTypes
    <3>. QED
      BY <2>1, <3>1 DEF Reconnect
  <2>4. \/ Drives(u) /\ next(u) = Driven(reconnect[u])
        \/ next(u) = [reconnect[u] EXCEPT !.tries = 0, !.phase = 0]
        \/ next(u) = reconnect[u]
    OBVIOUS
  <2> HIDE DEF next
  <2>. QED
    BY <2>1, <2>2, <2>3, <2>4, Zenon
<1> HIDE DEF next
<1>3. reconnect' \in [Uids -> Reconnect]
  BY <1>1, <1>2
<1>. QED
  BY <1>1, <1>3 DEF TimersInv

LEMMA DogReset ==
  ASSUME NEW w \in Dog, NEW c \in BOOLEAN, NEW x \in 0..Retry
  PROVE  [w EXCEPT !.recovery = c, !.retry = x] \in Dog /\ [w EXCEPT !.retry = x] \in Dog
BY DEF Dog

LEMMA FlowTimers ==
  ASSUME TimersInv, avdecc_crf_flow_watchdog
  PROVE  TimersInv'
<1>1. watchdog \in Dog /\ crfFrames \in BOOLEAN
  BY DEF TimersInv
<1>2. [watchdog EXCEPT !.recovery = TRUE, !.retry = 0] \in Dog /\ [watchdog EXCEPT !.retry = 0] \in Dog
  <2>1. 0 \in 0..Retry
    BY ConstantTypes
  <2>2. TRUE \in BOOLEAN /\ watchdog.recovery \in BOOLEAN
    BY <1>1 DEF Dog
  <2>. QED
    BY <1>1, <2>1, <2>2, DogReset
<1>3. watchdog' \in Dog
  <2>1. \/ watchdog' = IdleDog \/ watchdog' = Baseline \/ watchdog' = watchdog
        \/ watchdog' = [watchdog EXCEPT !.recovery = TRUE, !.retry = 0]
        \/ watchdog' = [watchdog EXCEPT !.retry = 0]
    BY Zenon DEF avdecc_crf_flow_watchdog, Resend
  <2>. QED
    BY <1>1, <1>2, <2>1, InitialTimers, Zenon
<1>4. crfFrames' \in BOOLEAN
  BY <1>1 DEF avdecc_crf_flow_watchdog
<1>. QED
  BY <1>3, <1>4 DEF TimersInv, avdecc_crf_flow_watchdog, talkerVars

LEMMA TickTimers ==
  ASSUME TimersInv, Tick
  PROVE  TimersInv'
<1>1. ASSUME NEW u \in Uids PROVE [reconnect[u] EXCEPT !.age = Older(@, Retry)] \in Reconnect
  <2>1. reconnect[u] \in Reconnect /\ Older(reconnect[u].age, Retry) \in 0..Retry
    BY OlderStays, ConstantTypes DEF TimersInv, Reconnect
  <2>. QED
    BY <2>1 DEF Reconnect
<1>2. reconnect' \in [Uids -> Reconnect]
  BY <1>1 DEF Tick
<1>3. watchdog' \in Dog
  <2>1. /\ watchdog \in Dog /\ Older(watchdog.flow, Stall) \in 0..Stall
        /\ Older(watchdog.retry, Retry) \in 0..Retry /\ watchdog.retry \in 0..Retry
    BY OlderStays, ConstantTypes DEF TimersInv, Dog
  <2> DEFINE x == IF watchdog.recovery THEN Older(watchdog.retry, Retry) ELSE watchdog.retry
  <2>2. x \in 0..Retry
    BY <2>1
  <2>3. watchdog' = IF watchdog.init
          THEN [watchdog EXCEPT !.flow = Older(watchdog.flow, Stall), !.retry = x] ELSE watchdog
    BY DEF Tick
  <2> HIDE DEF x
  <2>4. [watchdog EXCEPT !.flow = Older(watchdog.flow, Stall), !.retry = x] \in Dog
    BY <2>1, <2>2 DEF Dog
  <2>. QED
    BY <2>1, <2>3, <2>4
<1>. QED
  BY <1>2, <1>3 DEF TimersInv, Tick

(* What a step does to the clocks.                                          *)
LEMMA TimerSteps ==
  ASSUME [Next]_vars
  PROVE  \/ \E u \in Uids : acmp_snoop_switch_connect_rx(u)
         \/ Tick \/ avdecc_talker_reconnect_watchdog \/ avdecc_crf_flow_watchdog
         \/ UNCHANGED <<reconnect, axc_eid_valid, watchdog>> /\ (crfFrames' = crfFrames \/ crfFrames' = TRUE)
<1>1. CASE TalkerNext
  BY <1>1 DEF TalkerNext, acmp_handle_connect_tx, acmp_handle_disconnect_tx, watchdogVars
<1>2. CASE ListenerNext
  BY <1>2 DEF ListenerNext, ConnectRxSlow, ConnectRxFast, acmp_handle_disconnect_rx, avdecc_poll,
    avdecc_listener_lock_changed, acmp_handle_connect_tx_response, talkerVars, watchdogVars
<1>3. CASE CrfFrame
  BY <1>3 DEF CrfFrame, talkerVars
<1>4. CASE \E c \in Controllers : register_unsolicited(c) \/ deregister_unsolicited(c)
  BY <1>4 DEF register_unsolicited, deregister_unsolicited, talkerVars, watchdogVars
<1>5. CASE UNCHANGED vars
  BY <1>5 DEF vars, talkerVars, watchdogVars
<1>. QED
  BY <1>1, <1>2, <1>3, <1>4, <1>5 DEF Next

LEMMA TimersAlone ==
  ASSUME TimersInv, UNCHANGED <<reconnect, axc_eid_valid, watchdog>>,
         crfFrames' = crfFrames \/ crfFrames' = TRUE
  PROVE  TimersInv'
BY DEF TimersInv

LEMMA TimersKept == TimersInv /\ TalkersInv /\ [Next]_vars => TimersInv'
BY TimerSteps, TimersAlone, SnoopTimers, ReconnectTimers, FlowTimers, TickTimers

-----------------------------------------------------------------------------
(* The watchdogs take numbers and wait for no answer.                       *)
LEMMA ResolvesAlone ==
  ASSUME ResolvesInv, UNCHANGED resolveVars,
         next_acmp_seq' \in Nat, next_acmp_seq <= next_acmp_seq', next_acmp_seq' <= MaxSeq
  PROVE  ResolvesInv'
<1>1. UNCHANGED <<resolves, wire, answered, answeredTwice>>
  BY DEF resolveVars
<1>2. next_acmp_seq \in 0..MaxSeq /\ next_acmp_seq' \in 0..MaxSeq
  BY ConstantTypes DEF ResolvesInv
<1>3. /\ \A m \in wire : m.seq \in Int /\ m.seq < next_acmp_seq
      /\ \A l \in Luids : resolves[l].seq \in Int
  BY DEF ResolvesInv, Resolve
<1>4. /\ \A m \in wire : m.seq < next_acmp_seq'
      /\ \A l \in Luids : resolves[l].active => resolves[l].seq < next_acmp_seq'
  <2>1. \A x \in Int : x < next_acmp_seq => x < next_acmp_seq'
    BY <1>2
  <2>2. \A l \in Luids : resolves[l].active => resolves[l].seq < next_acmp_seq
    BY DEF ResolvesInv
  <2>. QED
    BY <1>3, <2>1, <2>2
<1>. QED
  BY <1>1, <1>2, <1>4 DEF ResolvesInv

(* A command goes out under a fresh number that no resolve waits for.       *)
LEMMA SentResolves ==
  ASSUME ResolvesInv, NEW t \in RemoteTalkers \cup {Nobody}, next_acmp_seq < MaxSeq,
         next_acmp_seq' = next_acmp_seq + 1,
         wire' = wire \cup {[seq |-> next_acmp_seq, talker |-> t]},
         UNCHANGED <<resolves, answered, answeredTwice>>
  PROVE  ResolvesInv'
<1> DEFINE q == next_acmp_seq
           c == [seq |-> q, talker |-> t]
<1>1. /\ q \in 0..MaxSeq /\ q < MaxSeq /\ next_acmp_seq' = q + 1 /\ wire' = wire \cup {c}
      /\ resolves' = resolves /\ answered' = answered /\ answeredTwice' = answeredTwice
  BY DEF ResolvesInv
<1>2. c \in [seq : 0..MaxSeq, talker : RemoteTalkers \cup {Nobody}] /\ c.seq = q
  BY <1>1
<1> HIDE DEF c
<1>3. /\ wire' \subseteq [seq : 0..MaxSeq, talker : RemoteTalkers \cup {Nobody}]
      /\ next_acmp_seq' \in 0..MaxSeq
  BY <1>1, <1>2, ConstantTypes DEF ResolvesInv
<1>4. /\ \A m \in wire : m.seq \in Int /\ m.seq < q
      /\ \A k \in Luids : resolves[k].seq \in Int
      /\ \A k \in Luids : resolves[k].active => resolves[k].seq < q
  BY DEF ResolvesInv, Resolve
<1>5. q < q + 1 /\ \A x \in Int : x < q => x < q + 1 /\ x # q
  BY <1>1
<1> HIDE DEF q
<1>6. \A m \in wire' : m.seq < next_acmp_seq'
  BY <1>1, <1>2, <1>4, <1>5
<1>7. ASSUME NEW k \in Luids, resolves'[k].active
      PROVE  /\ resolves'[k].seq < next_acmp_seq' /\ k \notin answered'
             /\ \A m \in wire' : m.seq = resolves'[k].seq => m.talker = resolves'[k].talker
             /\ \A j \in Luids : resolves'[j].active /\ resolves'[j].seq = resolves'[k].seq => j = k
  <2>1. /\ resolves[k].active /\ resolves[k].seq # q /\ resolves[k].seq < q + 1 /\ k \notin answered
        /\ \A m \in wire : m.seq = resolves[k].seq => m.talker = resolves[k].talker
        /\ \A j \in Luids : resolves[j].active /\ resolves[j].seq = resolves[k].seq => j = k
    BY <1>1, <1>4, <1>5, <1>7 DEF ResolvesInv
  <2>. QED
    BY <1>1, <1>2, <2>1
<1>8. /\ resolves' \in [Luids -> Resolve] /\ answered' \subseteq Luids /\ answeredTwice' = FALSE
  BY <1>1 DEF ResolvesInv
<1>. QED
  BY <1>3, <1>6, <1>7, <1>8 DEF ResolvesInv

LEMMA AskResolves ==
  ASSUME ResolvesInv, NEW l \in Luids, NEW t \in RemoteTalkers, Ask(l, t),
         UNCHANGED answeredTwice
  PROVE  ResolvesInv'
<1> DEFINE q == next_acmp_seq
           r == [active |-> TRUE, seq |-> q, talker |-> t, age |-> 0]
           c == [seq |-> q, talker |-> t]
<1>1. /\ q \in 0..MaxSeq /\ q < MaxSeq /\ next_acmp_seq' = q + 1
      /\ resolves' = [resolves EXCEPT ![l] = r] /\ wire' = wire \cup {c}
      /\ answered' = answered \ {l} /\ answeredTwice' = answeredTwice
  BY DEF ResolvesInv, Ask
<1>2. r \in Resolve /\ c \in [seq : 0..MaxSeq, talker : RemoteTalkers \cup {Nobody}]
  BY <1>1, ConstantTypes DEF Resolve
<1>3. r.active /\ r.seq = q /\ r.talker = t /\ c.seq = q /\ c.talker = t
  OBVIOUS
<1> HIDE DEF r, c
<1>4. /\ resolves' \in [Luids -> Resolve]
      /\ wire' \subseteq [seq : 0..MaxSeq, talker : RemoteTalkers \cup {Nobody}]
      /\ resolves'[l] = r /\ \A k \in Luids \ {l} : resolves'[k] = resolves[k]
      /\ next_acmp_seq' \in 0..MaxSeq
  BY <1>1, <1>2, ConstantTypes DEF ResolvesInv
<1>5. /\ \A m \in wire : m.seq \in Int /\ m.seq < q
      /\ \A k \in Luids : resolves[k].seq \in Int
      /\ \A k \in Luids : resolves[k].active => resolves[k].seq < q
  BY DEF ResolvesInv, Resolve
<1>6. q < q + 1 /\ \A x \in Int : x < q => x < q + 1 /\ x # q
  BY <1>1
<1> HIDE DEF q
<1>7. \A m \in wire' : m.seq < next_acmp_seq'
  BY <1>1, <1>3, <1>5, <1>6
<1>8. ASSUME NEW k \in Luids, resolves'[k].active
      PROVE  /\ resolves'[k].seq < next_acmp_seq' /\ k \notin answered'
             /\ \A m \in wire' : m.seq = resolves'[k].seq => m.talker = resolves'[k].talker
             /\ \A j \in Luids : resolves'[j].active /\ resolves'[j].seq = resolves'[k].seq => j = k
  <2>1. CASE k = l
    BY <1>1, <1>3, <1>4, <1>5, <1>6, <2>1
  <2>2. CASE k # l
    <3>1. resolves'[k] = resolves[k] /\ resolves[k].active
      BY <1>4, <1>8, <2>2
    <3>2. /\ resolves[k].seq < q /\ resolves[k].seq # q /\ resolves[k].seq < q + 1
          /\ k \notin answered
          /\ \A m \in wire : m.seq = resolves[k].seq => m.talker = resolves[k].talker
          /\ \A j \in Luids : resolves[j].active /\ resolves[j].seq = resolves[k].seq => j = k
      BY <1>5, <1>6, <3>1 DEF ResolvesInv
    <3>. QED
      BY <1>1, <1>3, <1>4, <2>2, <3>1, <3>2
  <2>. QED
    BY <2>1, <2>2
<1>9. answered' \subseteq Luids /\ answeredTwice' = FALSE
  BY <1>1 DEF ResolvesInv
<1>. QED
  BY <1>4, <1>7, <1>8, <1>9 DEF ResolvesInv

(* The answer, or the timeout, ends a resolve and sends the one response.   *)
LEMMA AnswerResolves ==
  ASSUME ResolvesInv, NEW l \in Luids, resolves[l].active, Answer(l),
         resolves' = [resolves EXCEPT ![l] = Done(@)], UNCHANGED <<next_acmp_seq, wire>>
  PROVE  ResolvesInv'
<1>1. resolves \in [Luids -> Resolve] /\ resolves[l] \in Resolve
  BY DEF ResolvesInv, Resolve
<1>2. /\ Done(resolves[l]) \in Resolve /\ Done(resolves[l]).active = FALSE
  BY <1>1 DEF Done, Resolve
<1>3. /\ resolves' \in [Luids -> Resolve] /\ ~resolves'[l].active
      /\ \A k \in Luids \ {l} : resolves'[k] = resolves[k]
  BY <1>1, <1>2
<1>4. l \notin answered /\ answered \subseteq Luids /\ answeredTwice = FALSE
  BY DEF ResolvesInv
<1>5. answered' = answered \cup {l} /\ answeredTwice' = FALSE
  BY <1>4 DEF Answer
<1>6. ASSUME NEW k \in Luids, resolves'[k].active
      PROVE  /\ resolves'[k].seq < next_acmp_seq' /\ k \notin answered'
             /\ \A m \in wire' : m.seq = resolves'[k].seq => m.talker = resolves'[k].talker
             /\ \A j \in Luids : resolves'[j].active /\ resolves'[j].seq = resolves'[k].seq => j = k
  <2>1. k # l /\ resolves'[k] = resolves[k] /\ resolves[k].active
    BY <1>3, <1>6
  <2>2. /\ resolves[k].seq < next_acmp_seq /\ k \notin answered
        /\ \A m \in wire : m.seq = resolves[k].seq => m.talker = resolves[k].talker
        /\ \A j \in Luids : resolves[j].active /\ resolves[j].seq = resolves[k].seq => j = k
    BY <2>1 DEF ResolvesInv
  <2>. QED
    BY <1>3, <1>5, <2>1, <2>2
<1>. QED
  BY <1>3, <1>4, <1>5, <1>6 DEF ResolvesInv

LEMMA TickResolves ==
  ASSUME ResolvesInv, Tick
  PROVE  ResolvesInv'
<1>1. UNCHANGED <<next_acmp_seq, wire, answered, answeredTwice>>
  BY DEF Tick
<1>2. ASSUME NEW l \in Luids
      PROVE  /\ resolves'[l] \in Resolve /\ resolves'[l].active = resolves[l].active
             /\ resolves'[l].seq = resolves[l].seq /\ resolves'[l].talker = resolves[l].talker
  <2>1. resolves[l] \in Resolve /\ Older(resolves[l].age, ResolveTimeout) \in 0..ResolveTimeout
    BY OlderStays, ConstantTypes DEF ResolvesInv, Resolve
  <2>2. resolves'[l] = IF resolves[l].active
          THEN [resolves[l] EXCEPT !.age = Older(resolves[l].age, ResolveTimeout)] ELSE resolves[l]
    BY DEF Tick
  <2>. QED
    BY <2>1, <2>2 DEF Resolve
<1>3. resolves' \in [Luids -> Resolve]
  BY <1>2 DEF Tick
<1>. QED
  BY <1>1, <1>2, <1>3 DEF ResolvesInv

(* The numbers the reconnect watchdog takes.                                *)
LEMMA ReconnectNumbers ==
  ASSUME ResolvesInv, avdecc_talker_reconnect_watchdog
  PROVE  /\ next_acmp_seq' \in Nat /\ next_acmp_seq <= next_acmp_seq' /\ next_acmp_seq' <= MaxSeq
         /\ UNCHANGED resolveVars
<1>1. PICK S \in SUBSET Uids : next_acmp_seq' = next_acmp_seq + Cardinality(S) /\ next_acmp_seq' <= MaxSeq
  BY Zenon DEF avdecc_talker_reconnect_watchdog
<1>2. Cardinality(S) \in Nat
  BY ConstantTypes, FS_Subset, FS_CardinalityType
<1>3. next_acmp_seq \in Nat
  BY DEF ResolvesInv
<1>4. UNCHANGED resolveVars
  BY DEF avdecc_talker_reconnect_watchdog
<1>. QED
  BY <1>1, <1>2, <1>3, <1>4

LEMMA FlowResolves ==
  ASSUME ResolvesInv, ListenersInv, avdecc_crf_flow_watchdog
  PROVE  ResolvesInv'
<1> DEFINE t == listeners[CrfLuid].talker
           Sends == next_acmp_seq < MaxSeq /\ next_acmp_seq' = next_acmp_seq + 1
<1>1. t \in RemoteTalkers \cup {Nobody}
  BY ConstantTypes DEF ListenersInv, Listener
<1>2. \/ UNCHANGED <<next_acmp_seq, wire>>
      \/ Sends /\ UNCHANGED wire
      \/ Sends /\ wire' = wire \cup {[seq |-> next_acmp_seq, talker |-> t]}
  BY DEF avdecc_crf_flow_watchdog, Resend
<1>3. UNCHANGED <<resolves, answered, answeredTwice>>
  BY DEF avdecc_crf_flow_watchdog
<1> HIDE DEF t
<1>4. CASE UNCHANGED wire
  <2>1. UNCHANGED resolveVars
    BY <1>3, <1>4 DEF resolveVars
  <2>2. UNCHANGED next_acmp_seq \/ Sends
    BY <1>2
  <2>3. next_acmp_seq' \in Nat /\ next_acmp_seq <= next_acmp_seq' /\ next_acmp_seq' <= MaxSeq
    BY <2>2, ConstantTypes DEF ResolvesInv
  <2>. QED
    BY <2>1, <2>3, ResolvesAlone
<1>5. CASE Sends /\ wire' = wire \cup {[seq |-> next_acmp_seq, talker |-> t]}
  BY <1>1, <1>3, <1>5, SentResolves
<1>. QED
  BY <1>2, <1>4, <1>5

(* What a step does to the resolves.                                        *)
LEMMA ResolveSteps ==
  ASSUME [Next]_vars
  PROVE  \/ \E l \in Luids, t \in RemoteTalkers : ConnectRxSlow(l, t)
         \/ \E msg \in wire, success \in BOOLEAN : acmp_handle_connect_tx_response(msg, success)
         \/ \E l \in Luids : avdecc_poll(l)
         \/ Tick \/ avdecc_talker_reconnect_watchdog \/ avdecc_crf_flow_watchdog
         \/ UNCHANGED <<resolveVars, next_acmp_seq>>
<1>1. CASE TalkerNext
  BY <1>1 DEF TalkerNext, acmp_handle_connect_tx, acmp_handle_disconnect_tx, acmp_snoop_switch_connect_rx
<1>2. CASE ListenerNext
  BY <1>2 DEF ListenerNext, ConnectRxFast, acmp_handle_disconnect_rx, avdecc_listener_lock_changed
<1>3. CASE CrfFrame
  BY <1>3 DEF CrfFrame
<1>4. CASE \E c \in Controllers : register_unsolicited(c) \/ deregister_unsolicited(c)
  BY <1>4 DEF register_unsolicited, deregister_unsolicited
<1>5. CASE UNCHANGED vars
  BY <1>5 DEF vars
<1>. QED
  BY <1>1, <1>2, <1>3, <1>4, <1>5 DEF Next

LEMMA AwaitedOne ==
  ASSUME NEW msg, Awaited(msg) # {}
  PROVE  /\ Lowest(Awaited(msg)) \in Luids /\ resolves[Lowest(Awaited(msg))].active
         /\ Seq16(resolves[Lowest(Awaited(msg))].seq) = Seq16(msg.seq)
<1>1. Awaited(msg) \in SUBSET Nat
  BY ConstantTypes DEF Awaited
<1>2. Lowest(Awaited(msg)) \in Awaited(msg)
  BY <1>1, LowestIn
<1>. QED
  BY <1>2 DEF Awaited

LEMMA ResolvesKept == ResolvesInv /\ ListenersInv /\ [Next]_vars => ResolvesInv'
<1> SUFFICES ASSUME ResolvesInv, ListenersInv, [Next]_vars PROVE ResolvesInv'
  OBVIOUS
<1>1. ASSUME NEW l \in Luids, NEW t \in RemoteTalkers, ConnectRxSlow(l, t) PROVE ResolvesInv'
  BY <1>1, AskResolves DEF ConnectRxSlow
<1>2. ASSUME NEW msg \in wire, NEW success \in BOOLEAN, acmp_handle_connect_tx_response(msg, success)
      PROVE  ResolvesInv'
  <2> DEFINE l == Lowest(Awaited(msg))
  <2>1. l \in Luids /\ resolves[l].active
    BY <1>2, AwaitedOne DEF acmp_handle_connect_tx_response
  <2>2. Answer(l) /\ resolves' = [resolves EXCEPT ![l] = Done(@)]
        /\ UNCHANGED <<next_acmp_seq, wire>>
    BY <1>2 DEF acmp_handle_connect_tx_response
  <2> HIDE DEF l
  <2>. QED
    BY <2>1, <2>2, AnswerResolves
<1>3. ASSUME NEW l \in Luids, avdecc_poll(l) PROVE ResolvesInv'
  BY <1>3, AnswerResolves DEF avdecc_poll
<1>4. CASE Tick
  BY <1>4, TickResolves
<1>5. CASE avdecc_talker_reconnect_watchdog \/ avdecc_crf_flow_watchdog
  BY <1>5, ReconnectNumbers, FlowResolves, ResolvesAlone
<1>6. CASE UNCHANGED <<resolveVars, next_acmp_seq>>
  <2>1. next_acmp_seq' \in Nat /\ next_acmp_seq <= next_acmp_seq' /\ next_acmp_seq' <= MaxSeq
    BY <1>6, ConstantTypes DEF ResolvesInv
  <2>. QED
    BY <1>6, <2>1, ResolvesAlone
<1>. QED
  BY <1>1, <1>2, <1>3, <1>4, <1>5, <1>6, ResolveSteps

-----------------------------------------------------------------------------
LockedTo(l, x, b) == [l EXCEPT !.locked = x, !.last_locked = b]
UnlockedTo(l, x, b) == [l EXCEPT !.unlocked = x, !.last_locked = b]

LEMMA LockCounted ==
  ASSUME NEW l \in Listener, NEW x \in Nat, NEW b \in BOOLEAN,
         NEW r, r = LockedTo(l, x, b)
  PROVE  /\ r \in Listener /\ r.last_locked = b /\ r.locked = x /\ r.unlocked = l.unlocked
         /\ r.connected = l.connected /\ r.talker = l.talker /\ r.stream = l.stream /\ r.by = l.by
BY DEF Listener, LockedTo

LEMMA UnlockCounted ==
  ASSUME NEW l \in Listener, NEW x \in Nat, NEW b \in BOOLEAN,
         NEW r, r = UnlockedTo(l, x, b)
  PROVE  /\ r \in Listener /\ r.last_locked = b /\ r.unlocked = x /\ r.locked = l.locked
         /\ r.connected = l.connected /\ r.talker = l.talker /\ r.stream = l.stream /\ r.by = l.by
BY DEF Listener, UnlockedTo

LEMMA LockKept ==
  ASSUME NEW l \in Listener, Locks(l)
  PROVE  /\ notify_listener_connected(l) \in Listener /\ Locks(notify_listener_connected(l))
         /\ notify_listener_disconnected(l) \in Listener /\ Locks(notify_listener_disconnected(l))
         /\ \A b \in BOOLEAN : LockChanged(l, b) \in Listener /\ Locks(LockChanged(l, b))
         /\ \A r \in {notify_listener_connected(l), notify_listener_disconnected(l),
                      LockChanged(l, TRUE), LockChanged(l, FALSE)} :
              r.connected = l.connected /\ r.talker = l.talker /\ r.stream = l.stream /\ r.by = l.by
<1> DEFINE up == [l EXCEPT !.locked = @ + 1, !.last_locked = TRUE]
           down == [l EXCEPT !.unlocked = @ + 1, !.last_locked = FALSE]
<1>1. l.locked \in Nat /\ l.unlocked \in Nat /\ l.last_locked \in BOOLEAN
  BY DEF Listener
<1>2. /\ up \in Listener /\ up.locked = l.locked + 1 /\ up.unlocked = l.unlocked /\ up.last_locked = TRUE
      /\ up.connected = l.connected /\ up.talker = l.talker /\ up.stream = l.stream /\ up.by = l.by
  <2> DEFINE x == l.locked + 1
             b == TRUE
  <2>1. x \in Nat /\ b \in BOOLEAN
    BY <1>1
  <2>2. up = LockedTo(l, x, b)
    BY DEF LockedTo
  <2> HIDE DEF up, x, b
  <2>3. /\ up \in Listener /\ up.locked = x /\ up.unlocked = l.unlocked /\ up.last_locked = b
        /\ up.connected = l.connected /\ up.talker = l.talker /\ up.stream = l.stream /\ up.by = l.by
    BY <2>1, <2>2, LockCounted
  <2>. QED
    BY <2>3 DEF x, b
<1>3. /\ down \in Listener /\ down.locked = l.locked /\ down.unlocked = l.unlocked + 1
      /\ down.last_locked = FALSE
      /\ down.connected = l.connected /\ down.talker = l.talker /\ down.stream = l.stream /\ down.by = l.by
  <2> DEFINE x == l.unlocked + 1
             b == FALSE
  <2>1. x \in Nat /\ b \in BOOLEAN
    BY <1>1
  <2>2. down = UnlockedTo(l, x, b)
    BY DEF UnlockedTo
  <2> HIDE DEF down, x, b
  <2>3. /\ down \in Listener /\ down.locked = l.locked /\ down.unlocked = x /\ down.last_locked = b
        /\ down.connected = l.connected /\ down.talker = l.talker /\ down.stream = l.stream /\ down.by = l.by
    BY <2>1, <2>2, UnlockCounted
  <2>. QED
    BY <2>3 DEF x, b
<1>4. /\ notify_listener_connected(l) = IF l.locked = l.unlocked THEN up ELSE l
      /\ notify_listener_disconnected(l) = IF l.unlocked < l.locked THEN down ELSE l
      /\ \A b \in BOOLEAN : LockChanged(l, b) =
           IF b = l.last_locked THEN l ELSE IF b THEN up ELSE down
  BY DEF notify_listener_connected, notify_listener_disconnected, LockChanged
<1> HIDE DEF up, down
<1>5. (l.locked = l.unlocked => Locks(up)) /\ (l.unlocked < l.locked => Locks(down))
  BY <1>1, <1>2, <1>3 DEF Locks
<1>6. (l.last_locked = FALSE => l.locked = l.unlocked) /\ (l.last_locked = TRUE => l.unlocked < l.locked)
  BY <1>1 DEF Locks
<1>7. ASSUME NEW b \in BOOLEAN
      PROVE  \/ LockChanged(l, b) = l
             \/ l.locked = l.unlocked /\ LockChanged(l, b) = up
             \/ l.unlocked < l.locked /\ LockChanged(l, b) = down
  BY <1>1, <1>4, <1>6
<1>. QED
  BY <1>2, <1>3, <1>4, <1>5, <1>7

(* Writing one listener that is right keeps all right.                      *)
LEMMA ListenerWritten ==
  ASSUME ListenersInv, NEW l \in Luids, NEW r \in Listener, Locks(r),
         r.connected /\ r.by = "answer" => r.stream = StreamOf(r.talker),
         listeners' = [listeners EXCEPT ![l] = r]
  PROVE  ListenersInv'
<1>1. /\ listeners' \in [Luids -> Listener] /\ listeners'[l] = r
      /\ \A k \in Luids \ {l} : listeners'[k] = listeners[k]
  BY DEF ListenersInv
<1>. QED
  BY <1>1 DEF ListenersInv, BoundToAnswer

Binders == {"controller", "answer", "turn"}

LEMMA BindListeners ==
  ASSUME ListenersInv, NEW l \in Luids, NEW t \in RemoteTalkers \cup {Nobody},
         NEW m \in Streams, NEW by \in Binders, by = "answer" => m = StreamOf(t),
         Bind(l, t, m, by)
  PROVE  ListenersInv'
<1> DEFINE b == [listeners[l] EXCEPT !.connected = TRUE, !.talker = t, !.stream = m, !.by = by]
           r == notify_listener_connected(b)
<1>1. listeners' = [listeners EXCEPT ![l] = r]
  BY DEF Bind
<1>2. /\ listeners[l] \in Listener /\ Locks(listeners[l])
      /\ by \in {"none", "controller", "answer", "turn"}
  BY DEF ListenersInv, Binders
<1>3. /\ b \in Listener /\ b.talker = t /\ b.stream = m /\ b.by = by
      /\ b.locked = listeners[l].locked /\ b.unlocked = listeners[l].unlocked
      /\ b.last_locked = listeners[l].last_locked
  BY <1>2 DEF Listener
<1> HIDE DEF b
<1>4. Locks(b)
  BY <1>2, <1>3 DEF Locks
<1>5. r \in Listener /\ Locks(r) /\ r.talker = t /\ r.stream = m /\ r.by = by
  BY <1>3, <1>4, LockKept
<1> HIDE DEF r
<1>. QED
  BY <1>1, <1>5, ListenerWritten

LEMMA UnbindListeners ==
  ASSUME ListenersInv, NEW l \in Luids, acmp_handle_disconnect_rx(l)
  PROVE  ListenersInv'
<1> DEFINE b == [listeners[l] EXCEPT !.connected = FALSE]
           r == notify_listener_disconnected(b)
<1>1. listeners' = [listeners EXCEPT ![l] = r]
  BY DEF acmp_handle_disconnect_rx
<1>2. listeners[l] \in Listener /\ Locks(listeners[l])
  BY DEF ListenersInv
<1>3. /\ b \in Listener /\ b.connected = FALSE
      /\ b.locked = listeners[l].locked /\ b.unlocked = listeners[l].unlocked
      /\ b.last_locked = listeners[l].last_locked
  BY <1>2 DEF Listener
<1> HIDE DEF b
<1>4. Locks(b)
  BY <1>2, <1>3 DEF Locks
<1>5. r \in Listener /\ Locks(r) /\ r.connected = FALSE
  BY <1>3, <1>4, LockKept
<1> HIDE DEF r
<1>. QED
  BY <1>1, <1>5, ListenerWritten

LEMMA LockListeners ==
  ASSUME ListenersInv, NEW l \in Luids, NEW b \in BOOLEAN, avdecc_listener_lock_changed(l, b)
  PROVE  /\ ListenersInv'
         /\ \A k \in Luids : /\ listeners'[k].connected = listeners[k].connected
                             /\ listeners'[k].talker = listeners[k].talker
                             /\ listeners'[k].stream = listeners[k].stream
<1> DEFINE r == LockChanged(listeners[l], b)
<1>1. listeners' = [listeners EXCEPT ![l] = r] /\ listeners \in [Luids -> Listener]
  BY DEF avdecc_listener_lock_changed, ListenersInv
<1>2. listeners[l] \in Listener /\ Locks(listeners[l])
  BY DEF ListenersInv
<1>3. /\ r \in Listener /\ Locks(r) /\ r.connected = listeners[l].connected
      /\ r.talker = listeners[l].talker /\ r.stream = listeners[l].stream
      /\ r.by = listeners[l].by
  BY <1>2, LockKept
<1> HIDE DEF r
<1>4. r.connected /\ r.by = "answer" => r.stream = StreamOf(r.talker)
  BY <1>3 DEF ListenersInv, BoundToAnswer
<1>. QED
  BY <1>1, <1>3, <1>4, ListenerWritten

(* What a step does to the listeners: an answer to the command that was     *)
(* asked names that resolve's talker.                                       *)
LEMMA ListenerSteps ==
  ASSUME ResolvesInv, [Next]_vars
  PROVE  \/ \E l \in Luids, t \in RemoteTalkers \cup {Nobody}, m \in Streams, by \in Binders :
              (by = "answer" => m = StreamOf(t)) /\ Bind(l, t, m, by) /\ UNCHANGED talkers
         \/ \E l \in Luids : acmp_handle_disconnect_rx(l)
         \/ \E l \in Luids, b \in BOOLEAN : avdecc_listener_lock_changed(l, b)
         \/ UNCHANGED listeners
<1>1. CASE TalkerNext
  BY <1>1 DEF TalkerNext, acmp_handle_connect_tx, acmp_handle_disconnect_tx, acmp_snoop_switch_connect_rx
<1>2. ASSUME NEW msg \in wire, NEW success \in BOOLEAN, acmp_handle_connect_tx_response(msg, success)
      PROVE  \/ \E l \in Luids, t \in RemoteTalkers \cup {Nobody}, m \in Streams, by \in Binders :
                  (by = "answer" => m = StreamOf(t)) /\ Bind(l, t, m, by) /\ UNCHANGED talkers
             \/ UNCHANGED listeners
  <2> DEFINE l == Lowest(Awaited(msg))
             t == resolves[l].talker
             m == StreamOf(msg.talker)
             by == By(msg, l)
  <2>1. l \in Luids /\ resolves[l].active /\ Seq16(resolves[l].seq) = Seq16(msg.seq)
    BY <1>2, AwaitedOne DEF acmp_handle_connect_tx_response
  <2>2. \/ Bind(l, t, m, by) /\ UNCHANGED talkers
        \/ UNCHANGED listeners
    BY <1>2 DEF acmp_handle_connect_tx_response, talkerVars
  <2> HIDE DEF l
  <2>3. t \in RemoteTalkers \cup {Nobody} /\ msg.talker \in RemoteTalkers \cup {Nobody}
    BY <2>1 DEF ResolvesInv, Resolve
  <2>4. m \in Streams
    BY <2>3 DEF Streams
  <2>5. by \in Binders
    BY DEF By, Binders
  <2>6. by = "answer" => msg.seq = resolves[l].seq
    BY <2>1 DEF By
  <2>7. by = "answer" => m = StreamOf(t)
    BY <2>1, <2>6 DEF ResolvesInv
  <2> HIDE DEF t, m, by
  <2>. QED
    BY <2>1, <2>2, <2>3, <2>4, <2>5, <2>7
<1>3. ASSUME NEW l \in Luids, NEW t \in RemoteTalkers, NEW m \in {StreamOf(t), Nobody},
             ConnectRxFast(l, t, m)
      PROVE  \E k \in Luids, r \in RemoteTalkers \cup {Nobody}, n \in Streams, by \in Binders :
               (by = "answer" => n = StreamOf(r)) /\ Bind(k, r, n, by) /\ UNCHANGED talkers
  <2>1. Bind(l, t, m, "controller") /\ UNCHANGED talkers
    BY <1>3 DEF ConnectRxFast, talkerVars
  <2>2. t \in RemoteTalkers \cup {Nobody} /\ m \in Streams
    BY DEF Streams
  <2>3. "controller" \in Binders /\ "controller" # "answer"
    BY DEF Binders
  <2>. QED
    BY <2>1, <2>2, <2>3, Zenon
<1>4. ASSUME NEW l \in Luids, NEW t \in RemoteTalkers, ConnectRxSlow(l, t)
      PROVE  UNCHANGED listeners
  BY <1>4 DEF ConnectRxSlow
<1>5. ASSUME NEW l \in Luids, avdecc_poll(l)
      PROVE  UNCHANGED listeners
  BY <1>5 DEF avdecc_poll
<1>6. CASE Tick \/ CrfFrame \/ avdecc_talker_reconnect_watchdog \/ avdecc_crf_flow_watchdog
  BY <1>6 DEF Tick, CrfFrame, avdecc_talker_reconnect_watchdog, avdecc_crf_flow_watchdog
<1>7. CASE \E c \in Controllers : register_unsolicited(c) \/ deregister_unsolicited(c)
  BY <1>7 DEF register_unsolicited, deregister_unsolicited
<1>8. CASE UNCHANGED vars
  BY <1>8 DEF vars
<1>9. CASE ListenerNext
  BY <1>2, <1>3, <1>4, <1>5, <1>9 DEF ListenerNext
<1>. QED
  BY <1>1, <1>6, <1>7, <1>8, <1>9 DEF Next

LEMMA ListenersKept == ListenersInv /\ ResolvesInv /\ [Next]_vars => ListenersInv'
<1>1. ListenersInv /\ UNCHANGED listeners => ListenersInv'
  BY DEF ListenersInv, BoundToAnswer
<1>. QED
  BY <1>1, ListenerSteps, BindListeners, UnbindListeners, LockListeners

-----------------------------------------------------------------------------
LEMMA InfoOut ==
  ASSUME NEW u, NEW ts, NEW ls
  PROVE  StreamInfo(<<"out", u>>, ts, ls) = Info(ts[u].connected, Nobody, Nobody)
BY DEF StreamInfo

InputInfo(c, t, m) == IF c THEN Info(TRUE, t, m) ELSE Info(FALSE, Nobody, Nobody)

LEMMA InfoIn ==
  ASSUME NEW l, NEW ts, NEW ls
  PROVE  StreamInfo(<<"in", l>>, ts, ls) = InputInfo(ls[l].connected, ls[l].talker, ls[l].stream)
BY DEF StreamInfo, InputInfo

LEMMA InfoTyped ==
  ASSUME NEW c \in BOOLEAN, NEW t \in RemoteTalkers \cup {Nobody}, NEW m \in Streams
  PROVE  Info(c, t, m) \in InfoType
BY DEF Info, InfoType

LEMMA StreamInfoType ==
  ASSUME NEW ts \in [Uids -> Talker], NEW ls \in [Luids -> Listener], NEW d \in Descriptors
  PROVE  StreamInfo(d, ts, ls) \in InfoType
<1>1. Nobody \in RemoteTalkers \cup {Nobody} /\ Nobody \in Streams
  BY DEF Streams
<1>2. ASSUME NEW u \in Uids, d = <<"out", u>> PROVE StreamInfo(d, ts, ls) \in InfoType
  <2>1. ts[u].connected \in BOOLEAN
    BY DEF Talker
  <2>. QED
    BY <1>1, <1>2, <2>1, InfoOut, InfoTyped
<1>3. ASSUME NEW l \in Luids, d = <<"in", l>> PROVE StreamInfo(d, ts, ls) \in InfoType
  <2>1. ls[l].talker \in RemoteTalkers \cup {Nobody} /\ ls[l].stream \in Streams
    BY DEF Listener
  <2>2. Info(TRUE, ls[l].talker, ls[l].stream) \in InfoType /\ Info(FALSE, Nobody, Nobody) \in InfoType
    BY <1>1, <2>1, InfoTyped
  <2>. QED
    BY <1>3, <2>2, InfoIn DEF InputInfo
<1>. QED
  BY <1>2, <1>3 DEF Descriptors

SameStream(d, ts, ls, ts2, ls2) ==
  /\ \A u \in Uids : d = <<"out", u>> => ts2[u].connected = ts[u].connected
  /\ \A l \in Luids : d = <<"in", l>> =>
       /\ ls2[l].connected = ls[l].connected /\ ls2[l].talker = ls[l].talker
       /\ ls2[l].stream = ls[l].stream

(* What is said of a stream depends on that stream alone.                   *)
LEMMA SameInfo ==
  ASSUME NEW ts, NEW ls, NEW ts2, NEW ls2, NEW d \in Descriptors, SameStream(d, ts, ls, ts2, ls2)
  PROVE  StreamInfo(d, ts2, ls2) = StreamInfo(d, ts, ls)
<1>1. ASSUME NEW u \in Uids, d = <<"out", u>> PROVE StreamInfo(d, ts2, ls2) = StreamInfo(d, ts, ls)
  BY <1>1, InfoOut DEF SameStream
<1>2. ASSUME NEW l \in Luids, d = <<"in", l>> PROVE StreamInfo(d, ts2, ls2) = StreamInfo(d, ts, ls)
  <2>1. ls2[l].connected = ls[l].connected /\ ls2[l].talker = ls[l].talker /\ ls2[l].stream = ls[l].stream
    BY <1>2 DEF SameStream
  <2>2. StreamInfo(<<"in", l>>, ts, ls) =
          InputInfo(ls[l].connected, ls[l].talker, ls[l].stream)
    BY InfoIn
  <2>3. StreamInfo(<<"in", l>>, ts2, ls2) =
          InputInfo(ls2[l].connected, ls2[l].talker, ls2[l].stream)
    BY InfoIn
  <2>4. StreamInfo(<<"in", l>>, ts2, ls2) = StreamInfo(<<"in", l>>, ts, ls)
    BY <2>1, <2>2, <2>3
  <2>. QED
    BY <1>2, <2>4
<1>. QED
  BY <1>1, <1>2 DEF Descriptors

(* A push keeps the views current, if what is said of the other streams is  *)
(* as before.                                                               *)
LEMMA PushKeeps ==
  ASSUME ViewsInv, NEW pushed, push_unsol_stream_info(pushed),
         talkers' \in [Uids -> Talker], listeners' \in [Luids -> Listener],
         \A d \in Descriptors : d \notin pushed =>
            StreamInfo(d, talkers', listeners') = StreamInfo(d, talkers, listeners)
  PROVE  ViewsInv'
<1> DEFINE new(i) == [d \in Descriptors |->
             IF d \in pushed THEN StreamInfo(d, talkers', listeners') ELSE unsol_ctrl[i].view[d]]
<1>1. unsol_ctrl' = [i \in 1..CtrlSlots |-> IF unsol_ctrl[i].active
                       THEN [unsol_ctrl[i] EXCEPT !.view = new(i)] ELSE unsol_ctrl[i]]
  BY DEF push_unsol_stream_info
<1>2. ASSUME NEW i \in 1..CtrlSlots
      PROVE  /\ unsol_ctrl'[i] \in Ctrl /\ unsol_ctrl'[i].active = unsol_ctrl[i].active
             /\ unsol_ctrl[i].active => unsol_ctrl'[i].view = new(i)
  <2>1. unsol_ctrl[i] \in Ctrl
    BY DEF ViewsInv
  <2>2. ASSUME NEW d \in Descriptors PROVE new(i)[d] \in InfoType
    BY <2>1, StreamInfoType DEF Ctrl
  <2>3. new(i) \in [Descriptors -> InfoType]
    BY <2>2
  <2>4. unsol_ctrl'[i] = IF unsol_ctrl[i].active
          THEN [unsol_ctrl[i] EXCEPT !.view = new(i)] ELSE unsol_ctrl[i]
    BY <1>1
  <2> HIDE DEF new
  <2>. QED
    BY <2>1, <2>3, <2>4 DEF Ctrl
<1>3. unsol_ctrl' \in [1..CtrlSlots -> Ctrl]
  BY <1>1, <1>2
<1>4. ASSUME NEW i \in 1..CtrlSlots, NEW d \in Descriptors,
             unsol_ctrl'[i].active, unsol_ctrl'[i].view[d].known
      PROVE  unsol_ctrl'[i].view[d] = StreamInfo(d, talkers', listeners')
  <2>1. unsol_ctrl[i].active /\ unsol_ctrl'[i].view[d] =
          IF d \in pushed THEN StreamInfo(d, talkers', listeners') ELSE unsol_ctrl[i].view[d]
    BY <1>2, <1>4
  <2>2. CASE d \in pushed
    BY <2>1, <2>2
  <2>3. CASE d \notin pushed
    <3>1. unsol_ctrl[i].view[d].known
      BY <1>4, <2>1, <2>3
    <3>. QED
      BY <2>1, <2>3, <3>1 DEF ViewsInv, ViewsCurrent
  <2>. QED
    BY <2>2, <2>3
<1>. QED
  BY <1>3, <1>4 DEF ViewsInv, ViewsCurrent

(* A step that changes neither the views nor what is said of a stream.      *)
LEMMA ViewsAlone ==
  ASSUME ViewsInv, UNCHANGED unsol_ctrl,
         \A d \in Descriptors :
            StreamInfo(d, talkers', listeners') = StreamInfo(d, talkers, listeners)
  PROVE  ViewsInv'
BY DEF ViewsInv, ViewsCurrent

LEMMA ConnectViews ==
  ASSUME AvdeccInv, TalkersInv', NEW u \in Uids, NEW e \in Remotes,
         NEW input \in Inputs, acmp_handle_connect_tx(u, e, input)
  PROVE  ViewsInv'
<1> DEFINE r == Started(Admitted(talkers[u], e), talkers[u].n)
           pushed == IF talkers[u].n = 0 /\ r.n > 0 THEN {<<"out", u>>} ELSE {}
<1>1. /\ push_unsol_stream_info(pushed) /\ talkers' = [talkers EXCEPT ![u] = r]
      /\ UNCHANGED listeners /\ talkers[u].n < CountCap
  BY DEF acmp_handle_connect_tx
<1>2. /\ ViewsInv /\ talkers \in [Uids -> Talker] /\ talkers' \in [Uids -> Talker]
      /\ listeners \in [Luids -> Listener] /\ Counted(talkers[u])
  BY DEF AvdeccInv, TalkersInv, ListenersInv
<1>3. (talkers[u].n = 0 /\ r.n > 0) \/ r.connected = talkers[u].connected
  BY <1>1, <1>2, ConnectKeeps
<1>4. <<"out", u>> \in pushed \/ r.connected = talkers[u].connected
  BY <1>3
<1> HIDE DEF r, pushed
<1>5. ASSUME NEW d \in Descriptors, d \notin pushed
      PROVE  StreamInfo(d, talkers', listeners') = StreamInfo(d, talkers, listeners)
  <2>1. \A v \in Uids : d = <<"out", v>> => talkers'[v].connected = talkers[v].connected
    BY <1>1, <1>2, <1>4, <1>5
  <2>2. \A l \in Luids : d = <<"in", l>> =>
          /\ listeners'[l].connected = listeners[l].connected /\ listeners'[l].talker = listeners[l].talker
          /\ listeners'[l].stream = listeners[l].stream
    BY <1>1
  <2>3. SameStream(d, talkers, listeners, talkers', listeners')
    BY <2>1, <2>2 DEF SameStream
  <2>. QED
    BY <2>3, SameInfo
<1>. QED
  BY <1>1, <1>2, <1>5, PushKeeps

LEMMA DisconnectViews ==
  ASSUME AvdeccInv, TalkersInv', NEW u \in Uids, NEW e \in Remotes,
         NEW input \in Inputs, acmp_handle_disconnect_tx(u, e, input)
  PROVE  ViewsInv'
<1> DEFINE r == Stopped(Removed(talkers[u], e))
           pushed == IF r.n = 0 THEN {<<"out", u>>} ELSE {}
<1>1. /\ push_unsol_stream_info(pushed) /\ talkers' = [talkers EXCEPT ![u] = r]
      /\ UNCHANGED listeners
  BY DEF acmp_handle_disconnect_tx
<1>2. /\ ViewsInv /\ talkers \in [Uids -> Talker] /\ talkers' \in [Uids -> Talker]
      /\ listeners \in [Luids -> Listener] /\ Counted(talkers[u])
  BY DEF AvdeccInv, TalkersInv, ListenersInv
<1>3. r.n = 0 \/ r.connected = talkers[u].connected
  BY <1>2, DisconnectKeeps
<1>4. <<"out", u>> \in pushed \/ r.connected = talkers[u].connected
  BY <1>3
<1> HIDE DEF r, pushed
<1>5. ASSUME NEW d \in Descriptors, d \notin pushed
      PROVE  StreamInfo(d, talkers', listeners') = StreamInfo(d, talkers, listeners)
  <2>1. \A v \in Uids : d = <<"out", v>> => talkers'[v].connected = talkers[v].connected
    BY <1>1, <1>2, <1>4, <1>5
  <2>2. \A l \in Luids : d = <<"in", l>> =>
          /\ listeners'[l].connected = listeners[l].connected /\ listeners'[l].talker = listeners[l].talker
          /\ listeners'[l].stream = listeners[l].stream
    BY <1>1
  <2>3. SameStream(d, talkers, listeners, talkers', listeners')
    BY <2>1, <2>2 DEF SameStream
  <2>. QED
    BY <2>3, SameInfo
<1>. QED
  BY <1>1, <1>2, <1>5, PushKeeps

(* A listener is written and its info pushed.                               *)
LEMMA ListenerViews ==
  ASSUME AvdeccInv, ListenersInv', NEW l \in Luids, NEW r, listeners' = [listeners EXCEPT ![l] = r],
         push_unsol_stream_info({<<"in", l>>}), UNCHANGED talkers
  PROVE  ViewsInv'
<1>1. /\ ViewsInv /\ talkers' \in [Uids -> Talker] /\ listeners \in [Luids -> Listener]
      /\ listeners' \in [Luids -> Listener]
  BY DEF AvdeccInv, TalkersInv, ListenersInv
<1>2. ASSUME NEW d \in Descriptors, d \notin {<<"in", l>>}
      PROVE  StreamInfo(d, talkers', listeners') = StreamInfo(d, talkers, listeners)
  <2>1. \A k \in Luids : d = <<"in", k>> => listeners'[k] = listeners[k]
    BY <1>1, <1>2
  <2>2. \A k \in Luids : d = <<"in", k>> =>
          /\ listeners'[k].connected = listeners[k].connected /\ listeners'[k].talker = listeners[k].talker
          /\ listeners'[k].stream = listeners[k].stream
    BY <2>1
  <2>3. \A v \in Uids : d = <<"out", v>> => talkers'[v].connected = talkers[v].connected
    OBVIOUS
  <2>4. SameStream(d, talkers, listeners, talkers', listeners')
    BY <2>2, <2>3 DEF SameStream
  <2>. QED
    BY <2>4, SameInfo
<1>. QED
  BY <1>1, <1>2, PushKeeps

LEMMA RegisterViews ==
  ASSUME AvdeccInv, NEW c \in Controllers, register_unsolicited(c)
  PROVE  ViewsInv'
<1> DEFINE free == {i \in 1..CtrlSlots : ~unsol_ctrl[i].active}
           v == [d \in Descriptors |->
                   IF d[1] = "out" THEN StreamInfo(d, talkers, listeners) ELSE Unknown]
           r == [active |-> TRUE, eid |-> c, view |-> v]
<1>1. /\ free # {} /\ unsol_ctrl' = [unsol_ctrl EXCEPT ![Lowest(free)] = r]
      /\ UNCHANGED <<talkers, listeners>>
  BY DEF register_unsolicited, talkerVars
<1>2. Lowest(free) \in 1..CtrlSlots
  <2>1. free \in SUBSET Nat
    OBVIOUS
  <2>. QED
    BY <1>1, <2>1, LowestIn
<1>3. Unknown \in InfoType /\ Unknown.known = FALSE
  BY DEF Unknown, Info, InfoType, Streams
<1>4. v \in [Descriptors -> InfoType]
  <2>1. talkers \in [Uids -> Talker] /\ listeners \in [Luids -> Listener]
    BY DEF AvdeccInv, TalkersInv, ListenersInv
  <2>2. ASSUME NEW d \in Descriptors PROVE StreamInfo(d, talkers, listeners) \in InfoType
    BY <2>1, StreamInfoType
  <2>. QED
    BY <1>3, <2>2
<1>5. \A d \in Descriptors : v[d].known => v[d] = StreamInfo(d, talkers, listeners)
  BY <1>3
<1> DEFINE k == Lowest(free)
<1> HIDE DEF v, k, free
<1>6. r \in Ctrl /\ r.view = v
  BY <1>4 DEF Ctrl
<1> HIDE DEF r
<1>7. /\ unsol_ctrl' \in [1..CtrlSlots -> Ctrl]
      /\ \A i \in 1..CtrlSlots : unsol_ctrl'[i] = IF i = k THEN r ELSE unsol_ctrl[i]
  BY <1>1, <1>6 DEF AvdeccInv, ViewsInv, k
<1>8. ASSUME NEW i \in 1..CtrlSlots, NEW d \in Descriptors,
             unsol_ctrl'[i].active, unsol_ctrl'[i].view[d].known
      PROVE  unsol_ctrl'[i].view[d] = StreamInfo(d, talkers, listeners)
  <2>1. CASE i = k
    BY <1>5, <1>6, <1>7, <1>8, <2>1
  <2>2. CASE i # k
    BY <1>7, <1>8, <2>2 DEF AvdeccInv, ViewsInv, ViewsCurrent
  <2>. QED
    BY <2>1, <2>2
<1>. QED
  BY <1>1, <1>7, <1>8 DEF ViewsInv, ViewsCurrent

LEMMA DeregisterViews ==
  ASSUME AvdeccInv, NEW c \in Controllers, deregister_unsolicited(c)
  PROVE  ViewsInv'
<1>1. PICK k \in 1..CtrlSlots : unsol_ctrl' = [unsol_ctrl EXCEPT ![k] = NoCtrl]
  BY DEF deregister_unsolicited
<1>2. UNCHANGED <<talkers, listeners>>
  BY DEF deregister_unsolicited, talkerVars
<1>3. Unknown \in InfoType
  BY DEF Unknown, Info, InfoType, Streams
<1>4. NoCtrl \in Ctrl /\ NoCtrl.active = FALSE
  BY <1>3 DEF NoCtrl, Ctrl
<1>5. /\ unsol_ctrl' \in [1..CtrlSlots -> Ctrl]
      /\ \A i \in 1..CtrlSlots : unsol_ctrl'[i] = IF i = k THEN NoCtrl ELSE unsol_ctrl[i]
  BY <1>1, <1>4 DEF AvdeccInv, ViewsInv
<1>6. ASSUME NEW i \in 1..CtrlSlots, NEW d \in Descriptors,
             unsol_ctrl'[i].active, unsol_ctrl'[i].view[d].known
      PROVE  unsol_ctrl'[i].view[d] = StreamInfo(d, talkers, listeners)
  <2>1. i # k
    BY <1>4, <1>5, <1>6
  <2>. QED
    BY <1>5, <1>6, <2>1 DEF AvdeccInv, ViewsInv, ViewsCurrent
<1>. QED
  BY <1>2, <1>5, <1>6 DEF ViewsInv, ViewsCurrent

LEMMA ViewsKept == AvdeccInv /\ TalkersInv' /\ ListenersInv' /\ [Next]_vars => ViewsInv'
<1> SUFFICES ASSUME AvdeccInv, TalkersInv', ListenersInv', [Next]_vars PROVE ViewsInv'
  OBVIOUS
<1>1. ViewsInv /\ ResolvesInv /\ ListenersInv
  BY DEF AvdeccInv
<1>2. UNCHANGED <<talkers, listeners, unsol_ctrl>> => ViewsInv'
  BY <1>1, ViewsAlone
<1>3. /\ \A u \in Uids, e \in Remotes, input \in Inputs :
           acmp_handle_connect_tx(u, e, input) \/ acmp_handle_disconnect_tx(u, e, input) => ViewsInv'
      /\ \A u \in Uids : acmp_snoop_switch_connect_rx(u) => ViewsInv'
  <2>1. ASSUME NEW u \in Uids, acmp_snoop_switch_connect_rx(u) PROVE ViewsInv'
    BY <1>2, <2>1 DEF acmp_snoop_switch_connect_rx
  <2>. QED
    BY <2>1, ConnectViews, DisconnectViews
<1>4. ASSUME NEW l \in Luids, NEW t, NEW m, NEW by, Bind(l, t, m, by), UNCHANGED talkers PROVE ViewsInv'
  BY <1>4, ListenerViews DEF Bind
<1>5. ASSUME NEW l \in Luids, acmp_handle_disconnect_rx(l) PROVE ViewsInv'
  BY <1>5, ListenerViews DEF acmp_handle_disconnect_rx, talkerVars
<1>6. ASSUME NEW l \in Luids, NEW b \in BOOLEAN, avdecc_listener_lock_changed(l, b) PROVE ViewsInv'
  <2>1. UNCHANGED <<talkers, unsol_ctrl>>
    BY <1>6 DEF avdecc_listener_lock_changed, talkerVars
  <2>2. \A k \in Luids : /\ listeners'[k].connected = listeners[k].connected
                         /\ listeners'[k].talker = listeners[k].talker
                         /\ listeners'[k].stream = listeners[k].stream
    BY <1>1, <1>6, LockListeners
  <2>3. ASSUME NEW d \in Descriptors
        PROVE  StreamInfo(d, talkers', listeners') = StreamInfo(d, talkers, listeners)
    <3>1. SameStream(d, talkers, listeners, talkers', listeners')
      BY <2>1, <2>2 DEF SameStream
    <3>. QED
      BY <3>1, SameInfo
  <2>. QED
    BY <1>1, <2>1, <2>3, ViewsAlone
<1>7. ASSUME NEW l \in Luids, NEW t, NEW m, ConnectRxFast(l, t, m) PROVE ViewsInv'
  BY <1>4, <1>7 DEF ConnectRxFast, talkerVars
<1>8. ASSUME NEW l \in Luids, NEW t \in RemoteTalkers, ConnectRxSlow(l, t) PROVE ViewsInv'
  BY <1>2, <1>8 DEF ConnectRxSlow, talkerVars
<1>9. ASSUME NEW l \in Luids, avdecc_poll(l) PROVE ViewsInv'
  BY <1>2, <1>9 DEF avdecc_poll, talkerVars
<1>10. ASSUME NEW msg \in wire, NEW success \in BOOLEAN, acmp_handle_connect_tx_response(msg, success)
       PROVE  ViewsInv'
  <2> DEFINE l == Lowest(Awaited(msg))
  <2>1. l \in Luids /\ UNCHANGED talkers
    BY <1>10, AwaitedOne DEF acmp_handle_connect_tx_response, talkerVars
  <2>2. \/ Bind(l, resolves[l].talker, StreamOf(msg.talker), By(msg, l))
        \/ UNCHANGED <<listeners, unsol_ctrl>>
    BY <1>10 DEF acmp_handle_connect_tx_response
  <2> HIDE DEF l
  <2>. QED
    BY <1>2, <1>4, <2>1, <2>2
<1>11. CASE Tick \/ CrfFrame \/ avdecc_talker_reconnect_watchdog \/ avdecc_crf_flow_watchdog
  BY <1>2, <1>11 DEF Tick, CrfFrame, avdecc_talker_reconnect_watchdog, avdecc_crf_flow_watchdog, talkerVars
<1>12. CASE \E c \in Controllers : register_unsolicited(c) \/ deregister_unsolicited(c)
  BY <1>12, RegisterViews, DeregisterViews
<1>13. CASE UNCHANGED vars
  BY <1>2, <1>13 DEF vars, talkerVars
<1>14. CASE TalkerNext
  BY <1>3, <1>14 DEF TalkerNext
<1>15. CASE ListenerNext
  BY <1>5, <1>6, <1>7, <1>8, <1>9, <1>10, <1>15 DEF ListenerNext
<1>. QED
  BY <1>11, <1>12, <1>13, <1>14, <1>15 DEF Next

-----------------------------------------------------------------------------
LEMMA InitInv == Init => AvdeccInv
<1> SUFFICES ASSUME Init PROVE AvdeccInv
  OBVIOUS
<1>1. TalkersInv
  <2> DEFINE t == [slots |-> [i \in Slots |-> Nobody], n |-> 0, connected |-> FALSE,
                   start |-> 0, stop |-> 0]
  <2>1. talkers = [u \in Uids |-> t] /\ commands = MaxCommands
        /\ want = [u \in Uids |-> {}] /\ counted = [u \in Uids |-> {}]
        /\ unnamed = [u \in Uids |-> FALSE]
    BY DEF Init, avdecc_init
  <2>2. t \in Talker /\ t.n = 0 /\ t.start = 0 /\ t.stop = 0 /\ t.connected = FALSE
        /\ \A i \in Slots : t.slots[i] = Nobody
    BY DEF Talker, CountCap
  <2> HIDE DEF t
  <2>3. Taken(t) = {}
    BY <2>2 DEF Taken
  <2>4. (t.n > 0) = FALSE
    BY <2>2
  <2>5. Counted(t)
    <3>2. t.connected = (t.n > 0)
      BY <2>2, <2>4, Zenon
    <3>3. t.start = t.stop + (IF t.n > 0 THEN 1 ELSE 0)
      BY <2>2
    <3>. QED
      BY <2>2, <3>2, <3>3, Zenon DEF Counted
  <2>6. Exact(t)
    BY <2>2, <2>3, FS_EmptySet DEF Exact
  <2>. QED
    <3>1. /\ talkers \in [Uids -> Talker] /\ \A u \in Uids : talkers[u] = t /\ counted[u] = {}
          /\ want \in [Uids -> SUBSET (Remotes \X Inputs)] /\ counted \in [Uids -> SUBSET Remotes]
          /\ unnamed \in [Uids -> BOOLEAN] /\ commands \in 0..MaxCommands
      BY <2>1, <2>2, ConstantTypes
    <3>2. t.start + commands <= MaxCommands
      BY <2>1, <2>2, ConstantTypes
    <3>. QED
      BY <2>5, <2>6, <3>1, <3>2 DEF TalkersInv
<1>2. TimersInv
  BY InitialTimers DEF Init, avdecc_init, TimersInv
<1>3. ResolvesInv
  <2>1. NoResolve \in Resolve /\ NoResolve.active = FALSE
    BY ConstantTypes DEF NoResolve, Resolve
  <2>2. resolves \in [Luids -> Resolve] /\ \A l \in Luids : ~resolves[l].active
    BY <2>1 DEF Init, avdecc_init
  <2>. QED
    BY <2>2, ConstantTypes DEF Init, avdecc_init, ResolvesInv
<1>4. ListenersInv
  <2>1. /\ Unbound \in Listener /\ Unbound.connected = FALSE /\ Unbound.last_locked = FALSE
        /\ Unbound.locked = 0 /\ Unbound.unlocked = 0
    BY DEF Unbound, Listener, Streams
  <2>2. Locks(Unbound)
    BY <2>1 DEF Locks
  <2>3. listeners = [l \in Luids |-> Unbound]
    BY DEF Init, avdecc_init
  <2>. QED
    BY <2>1, <2>2, <2>3 DEF ListenersInv, BoundToAnswer
<1>5. ViewsInv
  <2>1. Unknown \in InfoType
    BY DEF Unknown, Info, InfoType, Streams
  <2>2. NoCtrl \in Ctrl /\ NoCtrl.active = FALSE
    BY <2>1 DEF NoCtrl, Ctrl
  <2>3. unsol_ctrl = [i \in 1..CtrlSlots |-> NoCtrl]
    BY DEF Init, avdecc_init
  <2>. QED
    BY <2>2, <2>3 DEF ViewsInv, ViewsCurrent
<1>. QED
  BY <1>1, <1>2, <1>3, <1>4, <1>5 DEF AvdeccInv

LEMMA NextInv == AvdeccInv /\ [Next]_vars => AvdeccInv'
BY TalkersKept, TimersKept, ResolvesKept, ListenersKept, ViewsKept DEF AvdeccInv

LEMMA InvAlways == Spec => []AvdeccInv
BY InitInv, NextInv, PTL DEF Spec

LEMMA InvSound == AvdeccInv => EndpointSound /\ KeepsStreaming /\ BoundToAnswer /\ ViewsCurrent
<1> SUFFICES ASSUME AvdeccInv PROVE EndpointSound /\ KeepsStreaming /\ BoundToAnswer /\ ViewsCurrent
  OBVIOUS
<1>1. TalkersInv /\ TimersInv /\ ResolvesInv /\ ListenersInv /\ ViewsInv
  BY DEF AvdeccInv
<1>2. ASSUME NEW u \in Uids
      PROVE  /\ talkers[u] \in [slots : [Slots -> Remotes \cup {Nobody}], n : 0..CountCap,
                      connected : BOOLEAN, start : 0..MaxCommands, stop : 0..MaxCommands]
             /\ talkers[u].start = talkers[u].stop + (IF talkers[u].n > 0 THEN 1 ELSE 0)
  <2> DEFINE t == talkers[u]
  <2>1. Counted(t) /\ t.start + commands <= MaxCommands /\ commands \in Nat
    BY <1>1 DEF TalkersInv
  <2>2. t \in Talker /\ t.n \in Nat /\ t.start \in Nat /\ t.stop \in Nat
    BY <2>1 DEF Counted, Talker
  <2>3. t.n \in 0..CountCap
    BY <2>2 DEF Talker
  <2>4. t.start = t.stop + (IF t.n > 0 THEN 1 ELSE 0)
    BY <2>1 DEF Counted
  <2> HIDE DEF t
  <2>5. t.start \in 0..MaxCommands /\ t.stop \in 0..MaxCommands
    BY <2>1, <2>2, <2>4, ConstantTypes
  <2>. QED
    BY <2>2, <2>3, <2>4, <2>5 DEF Talker, t
<1>3. \A l \in Luids : listeners[l].connected \in BOOLEAN
                        /\ listeners[l].talker \in RemoteTalkers \cup {Nobody}
  BY <1>1 DEF ListenersInv, Listener
<1>4. talkers \in [Uids -> [slots : [Slots -> Remotes \cup {Nobody}], n : 0..CountCap,
                      connected : BOOLEAN, start : 0..MaxCommands, stop : 0..MaxCommands]]
  <2>1. talkers \in [Uids -> Talker]
    BY <1>1 DEF TalkersInv
  <2>. QED
    BY <1>2, <2>1
<1>5. TypeOK
  BY <1>1, <1>3, <1>4 DEF TypeOK, TalkersInv, TimersInv, ResolvesInv, Reconnect, Dog, Resolve
<1>6. MilanCounters
  BY <1>1, <1>2 DEF MilanCounters, ListenersInv, Locks
<1>7. AnsweredOnce
  BY <1>1 DEF ResolvesInv, AnsweredOnce
<1>8. KeepsStreaming
  <2>1. ASSUME NEW u \in Uids, ~unnamed[u], NEW e \in counted[u]
        PROVE  talkers[u].connected
    <3> DEFINE t == talkers[u]
    <3>1. Counted(t) /\ Exact(t) /\ Holds(t, e) /\ e # Nobody
      BY <1>1, <2>1 DEF TalkersInv
    <3>2. Taken(t) # {} /\ Taken(t) \in SUBSET Slots
      BY <3>1 DEF Holds, Taken
    <3>3. t.n \in Nat /\ t.n # 0
      BY <3>1, <3>2, SlotSets DEF Exact
    <3>4. t.connected = (t.n > 0)
      BY <3>1 DEF Counted
    <3>5. t.n > 0
      BY <3>3
    <3>. QED
      BY <3>4, <3>5, Zenon
  <2>. QED
    BY <2>1 DEF KeepsStreaming
<1>. QED
  BY <1>1, <1>5, <1>6, <1>7, <1>8 DEF EndpointSound, ListenersInv, ViewsInv

(* The endpoint's books are right: a stream's Milan counters and its count  *)
(* of listeners agree, an input's lock counters agree with its last state,  *)
(* and no CONNECT_RX is answered both by the talker and by the timeout.     *)
THEOREM EndpointStaysSound == Spec => []EndpointSound
BY InvAlways, InvSound, PTL

(* A listener entity that found room in the table and has not left keeps    *)
(* the stream on, whoever else comes or leaves, full tables, repeated       *)
(* commands and several inputs of one entity included.                      *)
THEOREM StreamKept == Spec => []KeepsStreaming
BY InvAlways, InvSound, PTL

(* A late, repeated or misdirected answer never binds one talker's stream   *)
(* under another's name, unless it is late by a whole turn of the counter.  *)
THEOREM BindingIsAnswered == Spec => []BoundToAnswer
BY InvAlways, InvSound, PTL

(* What a registered controller was last told of a stream is still so.      *)
THEOREM ControllersCurrent == Spec => []ViewsCurrent
BY InvAlways, InvSound, PTL

-----------------------------------------------------------------------------
(* The SRP endpoint.                                                        *)

SrpListener == [enabled : BOOLEAN, stream_id : Remote \cup {"none"},
                substate : {"Ignore", "Ready"}, new_count : 0..2,
                talker_registered : BOOLEAN, age : 0..Timeout]
RemoteTalker == [valid : BOOLEAN, stream_id : Remote \cup {"none"}, age : 0..Timeout,
                 before : BOOLEAN]

(* The tables and the clocks on their own, without the bridge.              *)
ListenersType == /\ srp_listeners \in [1..Listeners -> SrpListener]
                 /\ \A li \in 1..Listeners :
                      srp_listeners[li].enabled => srp_listeners[li].stream_id \in Remote
RemotesType == remote_talkers \in [1..RemoteSlots -> RemoteTalker]

ListenerOnce == \A i, k \in 1..Listeners :
  srp_listeners[i].enabled /\ srp_listeners[k].enabled
    /\ srp_listeners[i].stream_id = srp_listeners[k].stream_id => i = k
RemoteOnce == \A i, k \in 1..RemoteSlots :
  remote_talkers[i].valid /\ remote_talkers[k].valid
    /\ remote_talkers[i].stream_id = remote_talkers[k].stream_id => i = k

LEMMA SrpConstants ==
  /\ Listeners \in Nat /\ Listeners > 0 /\ RemoteSlots \in Nat /\ RemoteSlots > 0
  /\ JoinPeriod \in Nat /\ JoinPeriod > 0 /\ LeaveAllPeriod \in Nat /\ LeaveAllPeriod > 1
  /\ Timeout \in Nat /\ Timeout > 0 /\ MaxEvents \in Nat /\ NoMac \notin Macs
BY SrpAssumption DEF Timeout

LEMMA TalkersAreStreams ==
  Len(Talkers) \in Nat /\ TalkerStreams = {Talkers[i] : i \in 1..Len(Talkers)}
<1>1. Talkers \in Seq(TalkerStreams)
  BY SrpAssumption DEF TalkerStreams
<1>2. Len(Talkers) \in Nat /\ DOMAIN Talkers = 1..Len(Talkers)
  BY <1>1
<1>3. TalkerStreams = {Talkers[i] : i \in DOMAIN Talkers}
  BY DEF TalkerStreams, ToSet
<1>. QED
  BY <1>2, <1>3

LEMMA SmallestIn ==
  ASSUME NEW S \in SUBSET Nat, S # {}
  PROVE  Smallest(S) \in S /\ \A k \in S : Smallest(S) <= k
BY LowestIn DEF Smallest, Lowest

(* A bounded set of numbers has a greatest one.                             *)
LEMMA GreatestOf ==
  ASSUME NEW n \in Nat, NEW S \in SUBSET (0..n), S # {}
  PROVE  \E m \in S : \A k \in S : k <= m
<1> DEFINE T == {n - k : k \in S}
<1>1. T \in SUBSET Nat /\ T # {}
  <2>1. \A k \in S : n - k \in Nat /\ n - k \in T
    OBVIOUS
  <2>. QED
    BY <2>1
<1>2. Smallest(T) \in T /\ \A k \in T : Smallest(T) <= k
  <2> HIDE DEF T
  <2>. QED
    BY <1>1, SmallestIn
<1>3. PICK m \in S : n - m = Smallest(T)
  BY <1>2
<1>4. \A k \in S : n - m <= n - k
  BY <1>2, <1>3
<1>. QED
  BY <1>4

LEMMA AgedType ==
  ASSUME NEW a \in 0..Timeout
  PROVE  Aged(a) \in 0..Timeout
BY SrpConstants DEF Aged

(* A talker's advertisement goes to its own entry, else to a free one, else *)
(* to one that no entry stamped on the same side of a wrap is older than.   *)
LEMMA SlotChosen ==
  ASSUME RemotesType, NEW st
  PROVE  /\ RemoteSlot(st) \in 1..RemoteSlots
         /\ \A i \in 1..RemoteSlots :
              remote_talkers[i].valid /\ remote_talkers[i].stream_id = st =>
                /\ remote_talkers[RemoteSlot(st)].valid
                /\ remote_talkers[RemoteSlot(st)].stream_id = st
         /\ \/ ~remote_talkers[RemoteSlot(st)].valid
            \/ remote_talkers[RemoteSlot(st)].stream_id = st
            \/ \A k \in 1..RemoteSlots :
                 /\ remote_talkers[k].valid
                 /\ remote_talkers[k].before = remote_talkers[RemoteSlot(st)].before
                      => remote_talkers[k].age <= remote_talkers[RemoteSlot(st)].age
<1> DEFINE same  == {i \in 1..RemoteSlots : remote_talkers[i].valid /\ remote_talkers[i].stream_id = st}
           free  == {i \in 1..RemoteSlots : ~remote_talkers[i].valid}
           stale == {i \in 1..RemoteSlots : \A k \in 1..RemoteSlots :
                       SeenFirst(remote_talkers[i], remote_talkers[k])}
           after == {i \in 1..RemoteSlots : ~remote_talkers[i].before}
           first == IF after = {} THEN 1..RemoteSlots ELSE after
           ages  == {remote_talkers[i].age : i \in first}
<1>1. stale # {}
  <2>1. /\ first # {} /\ first \subseteq 1..RemoteSlots
        /\ \A i, k \in first : remote_talkers[i].before = remote_talkers[k].before
        /\ \A i \in first, k \in (1..RemoteSlots) \ first :
             ~remote_talkers[i].before /\ remote_talkers[k].before
    <3>1. \A i \in 1..RemoteSlots : remote_talkers[i].before \in BOOLEAN
      BY DEF RemotesType, RemoteTalker
    <3>. QED
      BY <3>1, SrpConstants
  <2> HIDE DEF first
  <2>2. ages # {} /\ ages \in SUBSET (0..Timeout)
    <3>1. \A i \in first : remote_talkers[i].age \in 0..Timeout
      BY <2>1 DEF RemotesType, RemoteTalker
    <3>2. ASSUME NEW x \in ages PROVE x \in 0..Timeout
      BY <3>1, Zenon
    <3>3. PICK i \in first : TRUE
      BY <2>1
    <3>4. remote_talkers[i].age \in ages
      OBVIOUS
    <3> HIDE DEF ages
    <3>. QED
      BY <3>2, <3>4
  <2>3. PICK m \in ages : \A k \in ages : k <= m
    BY <2>2, GreatestOf, SrpConstants
  <2>4. PICK i \in first : remote_talkers[i].age = m
    BY <2>3
  <2>5. ASSUME NEW k \in 1..RemoteSlots PROVE SeenFirst(remote_talkers[i], remote_talkers[k])
    BY <2>1, <2>3, <2>4 DEF SeenFirst
  <2>. QED
    BY <2>1, <2>4, <2>5
<1>2. same \in SUBSET Nat /\ free \in SUBSET Nat /\ stale \in SUBSET Nat
  BY SrpConstants
<1>3. RemoteSlot(st) = IF same # {} THEN Smallest(same) ELSE
                       IF free # {} THEN Smallest(free) ELSE Smallest(stale)
  BY DEF RemoteSlot
<1>4. CASE same # {}
  <2>1. Smallest(same) \in same
    <3> HIDE DEF same
    <3>. QED
      BY <1>2, <1>4, SmallestIn
  <2>. QED
    BY <1>3, <1>4, <2>1
<1>5. CASE same = {} /\ free # {}
  <2>1. Smallest(free) \in free
    <3> HIDE DEF free
    <3>. QED
      BY <1>2, <1>5, SmallestIn
  <2>. QED
    BY <1>3, <1>5, <2>1
<1>6. CASE same = {} /\ free = {}
  <2>1. Smallest(stale) \in stale
    <3> HIDE DEF stale
    <3>. QED
      BY <1>1, <1>2, SmallestIn
  <2>2. \A k \in 1..RemoteSlots : remote_talkers[k].valid
    BY <1>6 DEF RemotesType, RemoteTalker
  <2>. QED
    BY <1>3, <1>6, <2>1, <2>2 DEF SeenFirst
<1>. QED
  BY <1>4, <1>5, <1>6

-----------------------------------------------------------------------------
(* The table of listeners.                                                  *)
LEMMA EnableListeners ==
  ASSUME ListenersType, ListenerOnce, NEW st \in Remote, ListenerEnable(st)
  PROVE  ListenersType' /\ ListenerOnce'
<1> DEFINE slots == IF Matching(st) # {} THEN Matching(st) ELSE Free
           li    == Smallest(slots)
           new   == [enabled |-> TRUE, stream_id |-> st, substate |-> "Ready", new_count |-> 0,
                     talker_registered |-> FALSE, age |-> 0]
<1>1. srp_listeners' = IF slots = {} THEN srp_listeners ELSE [srp_listeners EXCEPT ![li] = new]
  BY DEF ListenerEnable
<1>2. CASE slots = {}
  BY <1>1, <1>2 DEF ListenersType, ListenerOnce
<1>3. CASE slots # {}
  <2>1. slots \in SUBSET (1..Listeners)
    BY DEF Matching, Free
  <2>2. li \in slots
    <3>1. slots \in SUBSET Nat
      BY <2>1, SrpConstants
    <3> HIDE DEF slots
    <3>. QED
      BY <1>3, <3>1, SmallestIn
  <2>3. new \in SrpListener
    BY SrpConstants DEF SrpListener
  <2>4. \A k \in 1..Listeners :
          srp_listeners[k].enabled /\ srp_listeners[k].stream_id = st => k = li
    <3>1. CASE Matching(st) # {}
      <4>1. srp_listeners[li].enabled /\ srp_listeners[li].stream_id = st /\ li \in 1..Listeners
        BY <2>2, <3>1 DEF Matching
      <4>. QED
        BY <4>1 DEF ListenerOnce
    <3>2. CASE Matching(st) = {}
      BY <3>2 DEF Matching
    <3>. QED
      BY <3>1, <3>2
  <2> HIDE DEF slots, li, new
  <2>5. srp_listeners' = [srp_listeners EXCEPT ![li] = new] /\ li \in 1..Listeners
    BY <1>1, <1>3, <2>1, <2>2
  <2>6. new.stream_id = st
    BY DEF new
  <2>. QED
    BY <2>3, <2>4, <2>5, <2>6 DEF ListenersType, ListenerOnce
<1>. QED
  BY <1>2, <1>3

LEMMA DisableListeners ==
  ASSUME ListenersType, ListenerOnce, NEW st \in Remote, ListenerDisable(st)
  PROVE  ListenersType' /\ ListenerOnce'
<1> DEFINE li == Smallest(Matching(st))
<1>1. srp_listeners' = [srp_listeners EXCEPT ![li].enabled = FALSE]
  BY DEF ListenerDisable
<1>2. li \in 1..Listeners
  <2>1. Matching(st) # {} /\ Matching(st) \in SUBSET Nat
    BY SrpConstants DEF ListenerDisable, Matching
  <2>2. li \in Matching(st)
    BY <2>1, SmallestIn
  <2>. QED
    BY <2>2 DEF Matching
<1> HIDE DEF li
<1> DEFINE off == [srp_listeners[li] EXCEPT !.enabled = FALSE]
<1>3. off \in SrpListener /\ off.enabled = FALSE
  BY <1>2 DEF ListenersType, SrpListener
<1>4. srp_listeners' = [srp_listeners EXCEPT ![li] = off]
  BY <1>1
<1> HIDE DEF off
<1>5. ListenersType'
  BY <1>2, <1>3, <1>4 DEF ListenersType
<1>6. \A k \in 1..Listeners : srp_listeners'[k].enabled =>
        k # li /\ srp_listeners'[k] = srp_listeners[k]
  BY <1>2, <1>3, <1>4 DEF ListenersType
<1>. QED
  BY <1>5, <1>6 DEF ListenerOnce

(* An entry that keeps its stream and its state keeps the table in order.   *)
LEMMA SameListeners ==
  ASSUME ListenersType, ListenerOnce,
         srp_listeners' = [li \in 1..Listeners |-> srp_listeners'[li]],
         \A li \in 1..Listeners :
           /\ srp_listeners'[li] \in SrpListener
           /\ srp_listeners'[li].enabled = srp_listeners[li].enabled
           /\ srp_listeners'[li].stream_id = srp_listeners[li].stream_id
  PROVE  ListenersType' /\ ListenerOnce'
BY DEF ListenersType, ListenerOnce

LEMMA BumpType ==
  ASSUME NEW n \in 0..2
  PROVE  Bump(n) \in 0..2
BY DEF Bump

LEMMA ListenerTypes ==
  ASSUME NEW l \in SrpListener
  PROVE  /\ Cleared(l) \in SrpListener
         /\ Cleared(l).enabled = l.enabled /\ Cleared(l).stream_id = l.stream_id
         /\ AgedListener(l) \in SrpListener
         /\ AgedListener(l).enabled = l.enabled /\ AgedListener(l).stream_id = l.stream_id
<1> DEFINE gone(m)  == [m EXCEPT !.talker_registered = FALSE, !.age = 0]
           ready(m) == [m EXCEPT !.substate = "Ready", !.new_count = 0]
           off      == IF l.enabled /\ l.talker_registered /\ l.age >= Timeout
                         THEN gone(l) ELSE l
<1>1. 0 \in 0..Timeout
  BY SrpConstants
<1>2. \A m \in SrpListener : gone(m) \in SrpListener
  BY <1>1 DEF SrpListener
<1>3. ASSUME NEW m \in SrpListener PROVE ready(m) \in SrpListener
  <2> DEFINE u == [m EXCEPT !.substate = "Ready"]
  <2>1. u \in SrpListener
    BY DEF SrpListener
  <2>2. ready(m) = [u EXCEPT !.new_count = 0]
    OBVIOUS
  <2> HIDE DEF u
  <2>3. [u EXCEPT !.new_count = 0] \in SrpListener
    BY <2>1 DEF SrpListener
  <2>. QED
    BY <2>2, <2>3
<1>4. \A m \in SrpListener : gone(m).enabled = m.enabled /\ gone(m).stream_id = m.stream_id
  BY Zenon DEF SrpListener
<1>5. \A m \in SrpListener : ready(m).enabled = m.enabled /\ ready(m).stream_id = m.stream_id
  BY Zenon DEF SrpListener
<1>6. Cleared(l) \in SrpListener
  BY DEF SrpListener, Cleared
<1>7. Cleared(l).enabled = l.enabled /\ Cleared(l).stream_id = l.stream_id
  BY Zenon DEF SrpListener, Cleared
<1>8. AgedListener(l) = IF l.enabled /\ l.substate # "Ready" THEN ready(off) ELSE off
  BY DEF AgedListener
<1> HIDE DEF gone, ready
<1>9. off = l \/ off = gone(l)
  OBVIOUS
<1> HIDE DEF off
<1>10. off \in SrpListener
  BY <1>2, <1>9
<1>11. off.enabled = l.enabled /\ off.stream_id = l.stream_id
  BY <1>4, <1>9, Zenon
<1>12. AgedListener(l) = off \/ AgedListener(l) = ready(off)
  BY <1>8, Zenon
<1>13. AgedListener(l) \in SrpListener
  BY <1>3, <1>10, <1>12
<1>14. AgedListener(l).enabled = l.enabled /\ AgedListener(l).stream_id = l.stream_id
  BY <1>5, <1>10, <1>11, <1>12, Zenon
<1>. QED
  BY <1>6, <1>7, <1>13, <1>14

LEMMA PollListeners ==
  ASSUME ListenersType, ListenerOnce, srp_poll
  PROVE  ListenersType' /\ ListenerOnce'
<1> DEFINE base(li) == AgedListener(IF rx_leaveall THEN Cleared(srp_listeners[li])
                                                   ELSE srp_listeners[li])
           sent(li) == [base(li) EXCEPT !.new_count = Bump(@)]
<1>1. srp_listeners' = [li \in 1..Listeners |->
         IF JoinAge >= JoinPeriod /\ base(li).enabled THEN sent(li) ELSE base(li)]
  BY DEF srp_poll
<1>2. ASSUME NEW l \in SrpListener
      PROVE  /\ Cleared(l) \in SrpListener
             /\ Cleared(l).enabled = l.enabled /\ Cleared(l).stream_id = l.stream_id
             /\ AgedListener(l) \in SrpListener
             /\ AgedListener(l).enabled = l.enabled /\ AgedListener(l).stream_id = l.stream_id
  BY <1>2, ListenerTypes
<1>3. ASSUME NEW li \in 1..Listeners
      PROVE  /\ base(li) \in SrpListener
             /\ base(li).enabled = srp_listeners[li].enabled
             /\ base(li).stream_id = srp_listeners[li].stream_id
  BY <1>2 DEF ListenersType
<1>4. ASSUME NEW li \in 1..Listeners
      PROVE  /\ sent(li) \in SrpListener
             /\ sent(li).enabled = srp_listeners[li].enabled
             /\ sent(li).stream_id = srp_listeners[li].stream_id
  <2> DEFINE l == base(li)
  <2>1. l \in SrpListener
    BY <1>3
  <2> HIDE DEF l
  <2>2. Bump(l.new_count) \in 0..2
    BY <2>1, BumpType DEF SrpListener
  <2>3. [l EXCEPT !.new_count = Bump(@)] \in SrpListener
    BY <2>1, <2>2 DEF SrpListener
  <2>4. /\ [l EXCEPT !.new_count = Bump(@)].enabled = l.enabled
        /\ [l EXCEPT !.new_count = Bump(@)].stream_id = l.stream_id
    BY <2>1 DEF SrpListener
  <2>. QED
    BY <1>3, <2>3, <2>4 DEF l
<1> HIDE DEF base, sent
<1>. QED
  BY <1>1, <1>3, <1>4, SameListeners

LEMMA TickListeners ==
  ASSUME ListenersType, ListenerOnce, SrpTick
  PROVE  ListenersType' /\ ListenerOnce'
<1>1. \A li \in 1..Listeners : Aged(srp_listeners[li].age) \in 0..Timeout
  BY AgedType DEF ListenersType, SrpListener
<1>2. srp_listeners' = [li \in 1..Listeners |->
        IF srp_listeners[li].talker_registered
          THEN [srp_listeners[li] EXCEPT !.age = Aged(@)] ELSE srp_listeners[li]]
  BY DEF SrpTick
<1>. QED
  BY <1>1, <1>2, SameListeners DEF ListenersType, SrpListener

LEMMA AdvListeners ==
  ASSUME ListenersType, ListenerOnce, NEW st \in Remote, NEW lva, RxTalkerAdv(st, lva)
  PROVE  ListenersType' /\ ListenerOnce'
<1>1. srp_listeners' = [li \in 1..Listeners |->
       IF li \in Matching(st)
         THEN [srp_listeners[li] EXCEPT !.talker_registered = TRUE, !.age = 0, !.substate = "Ready"]
         ELSE srp_listeners[li]]
  BY DEF RxTalkerAdv
<1>2. 0 \in 0..Timeout
  BY SrpConstants
<1>. QED
  BY <1>1, <1>2, SameListeners DEF ListenersType, SrpListener

LEMMA DeclarersKept ==
  ListenersType /\ ListenerOnce /\ [SrpNext]_srp_vars => ListenersType' /\ ListenerOnce'
<1> SUFFICES ASSUME ListenersType, ListenerOnce, [SrpNext]_srp_vars
             PROVE  ListenersType' /\ ListenerOnce'
  OBVIOUS
<1>1. ASSUME srp_listeners' = srp_listeners PROVE ListenersType' /\ ListenerOnce'
  BY <1>1 DEF ListenersType, ListenerOnce
<1>2. CASE srp_talker_set
  BY <1>1, <1>2 DEF srp_talker_set
<1>3. ASSUME NEW enable \in BOOLEAN, srp_talker_enable(enable)
      PROVE  ListenersType' /\ ListenerOnce'
  BY <1>1, <1>3 DEF srp_talker_enable
<1>4. ASSUME NEW mac \in Macs, srp_set_bridge_mac(mac)
      PROVE  ListenersType' /\ ListenerOnce'
  BY <1>1, <1>4 DEF srp_set_bridge_mac
<1>5. ASSUME NEW mac \in Macs, NEW lva \in BOOLEAN, RxDomain(mac, lva)
      PROVE  ListenersType' /\ ListenerOnce'
  BY <1>1, <1>5 DEF RxDomain
<1>6. ASSUME NEW st, NEW lva \in BOOLEAN, RxListener(st, lva)
      PROVE  ListenersType' /\ ListenerOnce'
  BY <1>1, <1>6 DEF RxListener
<1>7. CASE RxMvrpLeaveAll \/ UNCHANGED srp_vars
  BY <1>1, <1>7 DEF RxMvrpLeaveAll, srp_vars, endpoint
<1>. QED
  BY <1>2, <1>3, <1>4, <1>5, <1>6, <1>7, EnableListeners, DisableListeners, PollListeners,
     TickListeners, AdvListeners DEF SrpNext

-----------------------------------------------------------------------------
(* The table of remote talkers.                                             *)
LEMMA SameRemotes ==
  ASSUME RemotesType, RemoteOnce,
         remote_talkers' = [i \in 1..RemoteSlots |-> remote_talkers'[i]],
         \A i \in 1..RemoteSlots :
           /\ remote_talkers'[i] \in RemoteTalker
           /\ remote_talkers'[i].valid =>
                /\ remote_talkers[i].valid
                /\ remote_talkers'[i].stream_id = remote_talkers[i].stream_id
  PROVE  RemotesType' /\ RemoteOnce'
BY DEF RemotesType, RemoteOnce

LEMMA AgedRemotes ==
  ASSUME RemotesType, SrpTick, NEW i \in 1..RemoteSlots
  PROVE  /\ remote_talkers'[i] \in RemoteTalker
         /\ remote_talkers'[i].valid = remote_talkers[i].valid
         /\ remote_talkers'[i].stream_id = remote_talkers[i].stream_id
<1> DEFINE t == remote_talkers[i]
<1>1. t \in RemoteTalker
  BY DEF RemotesType
<1>2. Aged(t.age) \in 0..Timeout
  BY <1>1, AgedType DEF RemoteTalker
<1>3. PICK wraps \in BOOLEAN : remote_talkers'[i] =
        IF t.valid THEN [t EXCEPT !.age = Aged(@), !.before = @ \/ wraps] ELSE t
  BY DEF SrpTick
<1> HIDE DEF t
<1> DEFINE u == [t EXCEPT !.age = Aged(@), !.before = @ \/ wraps]
<1>4. u \in RemoteTalker
  BY <1>1, <1>2 DEF RemoteTalker
<1>5. u.valid = t.valid /\ u.stream_id = t.stream_id
  BY <1>1, Zenon DEF RemoteTalker
<1>. QED
  BY <1>1, <1>3, <1>4, <1>5, Zenon DEF t

LEMMA PolledRemotes ==
  ASSUME RemotesType, srp_poll, NEW i \in 1..RemoteSlots
  PROVE  /\ remote_talkers'[i] \in RemoteTalker
         /\ remote_talkers'[i].valid =>
              /\ remote_talkers[i].valid
              /\ remote_talkers'[i].stream_id = remote_talkers[i].stream_id
<1>1. remote_talkers'[i] = remote_talkers[i] \/ remote_talkers'[i] = NoRemote
  BY DEF srp_poll, AgedRemote
<1>2. NoRemote \in RemoteTalker /\ NoRemote.valid = FALSE
  BY SrpConstants DEF NoRemote, RemoteTalker
<1>3. remote_talkers[i] \in RemoteTalker
  BY DEF RemotesType
<1>. QED
  BY <1>1, <1>2, <1>3, Zenon

LEMMA AdvRemotes ==
  ASSUME RemotesType, RemoteOnce, NEW st \in Remote, NEW lva, RxTalkerAdv(st, lva)
  PROVE  RemotesType' /\ RemoteOnce'
<1> DEFINE n   == RemoteSlot(st)
           new == [valid |-> TRUE, stream_id |-> st, age |-> 0, before |-> FALSE]
<1>1. remote_talkers' = [remote_talkers EXCEPT ![n] = new]
  BY DEF RxTalkerAdv
<1>2. new \in RemoteTalker /\ new.stream_id = st
  BY SrpConstants DEF RemoteTalker
<1>3. /\ n \in 1..RemoteSlots
      /\ \A i \in 1..RemoteSlots :
           remote_talkers[i].valid /\ remote_talkers[i].stream_id = st => i = n
  BY SlotChosen DEF RemoteOnce
<1> HIDE DEF n, new
<1>. QED
  BY <1>1, <1>2, <1>3 DEF RemotesType, RemoteOnce

LEMMA RemotesKept ==
  RemotesType /\ RemoteOnce /\ [SrpNext]_srp_vars => RemotesType' /\ RemoteOnce'
<1> SUFFICES ASSUME RemotesType, RemoteOnce, [SrpNext]_srp_vars
             PROVE  RemotesType' /\ RemoteOnce'
  OBVIOUS
<1>1. ASSUME remote_talkers' = remote_talkers PROVE RemotesType' /\ RemoteOnce'
  BY <1>1 DEF RemotesType, RemoteOnce
<1>2. CASE srp_poll
  <2>1. remote_talkers' = [i \in 1..RemoteSlots |-> remote_talkers'[i]]
    BY <1>2 DEF srp_poll
  <2>. QED
    BY <1>2, <2>1, PolledRemotes, SameRemotes
<1>3. CASE SrpTick
  <2>1. remote_talkers' = [i \in 1..RemoteSlots |-> remote_talkers'[i]]
    BY <1>3 DEF SrpTick
  <2>. QED
    BY <1>3, <2>1, AgedRemotes, SameRemotes
<1>4. CASE srp_talker_set
  BY <1>1, <1>4 DEF srp_talker_set
<1>5. ASSUME NEW enable \in BOOLEAN, srp_talker_enable(enable)
      PROVE  RemotesType' /\ RemoteOnce'
  BY <1>1, <1>5 DEF srp_talker_enable
<1>6. ASSUME NEW mac \in Macs, srp_set_bridge_mac(mac)
      PROVE  RemotesType' /\ RemoteOnce'
  BY <1>1, <1>6 DEF srp_set_bridge_mac
<1>7. ASSUME NEW mac \in Macs, NEW lva \in BOOLEAN, RxDomain(mac, lva)
      PROVE  RemotesType' /\ RemoteOnce'
  BY <1>1, <1>7 DEF RxDomain
<1>8. ASSUME NEW st, NEW lva \in BOOLEAN, RxListener(st, lva)
      PROVE  RemotesType' /\ RemoteOnce'
  BY <1>1, <1>8 DEF RxListener
<1>9. ASSUME NEW st \in Remote, ListenerEnable(st) \/ ListenerDisable(st)
      PROVE  RemotesType' /\ RemoteOnce'
  BY <1>1, <1>9 DEF ListenerEnable, ListenerDisable
<1>10. CASE RxMvrpLeaveAll \/ UNCHANGED srp_vars
  BY <1>1, <1>10 DEF RxMvrpLeaveAll, srp_vars, endpoint
<1>. QED
  BY <1>2, <1>3, <1>4, <1>5, <1>6, <1>7, <1>8, <1>9, <1>10, AdvRemotes DEF SrpNext

-----------------------------------------------------------------------------
(* The counters, the clocks and the domain.                                 *)
ClocksInv ==
  /\ talker_enabled \in BOOLEAN /\ n_talkers \in 0..Len(Talkers)
  /\ talker_new_count \in 0..2 /\ domain_new_count \in 0..2 /\ mvrp_new_count \in 0..2
  /\ seen \in BOOLEAN /\ seenAge \in 0..Timeout
  /\ domain_received \in BOOLEAN
  /\ rx_domain \in Macs \cup {NoMac} /\ bridge_mac \in Macs \cup {NoMac}
  /\ rx_leaveall \in BOOLEAN /\ joinAge \in 0..JoinPeriod
  /\ lvaPeriod \in NextPeriods /\ lvaAge \in 0..lvaPeriod
  /\ polled \in BOOLEAN /\ events \in 0..MaxEvents
  /\ DomainFromBridge

LEMMA PeriodType == \A p \in NextPeriods : p \in Nat
BY SrpConstants DEF NextPeriods

LEMMA PollClocks ==
  ASSUME ClocksInv, srp_poll
  PROVE  ClocksInv'
<1>1. \A n \in 0..2 : Bump(n) \in 0..2
  BY BumpType
<1>2. /\ talker_new_count' \in 0..2 /\ domain_new_count' \in 0..2 /\ mvrp_new_count' \in 0..2
  BY <1>1 DEF ClocksInv, srp_poll
<1>3. seen' \in BOOLEAN /\ seenAge' \in 0..Timeout
  BY SrpConstants DEF ClocksInv, srp_poll
<1>4. joinAge' \in 0..JoinPeriod
  BY SrpConstants DEF ClocksInv, srp_poll
<1>5. lvaPeriod' \in NextPeriods /\ lvaAge' \in 0..lvaPeriod'
  <2> DEFINE fired == rx_leaveall \/ (~rx_leaveall /\ lvaAge >= lvaPeriod)
  <2>1. /\ lvaAge' = IF fired THEN 0 ELSE lvaAge
        /\ IF fired THEN lvaPeriod' \in NextPeriods ELSE lvaPeriod' = lvaPeriod
    BY DEF srp_poll
  <2> HIDE DEF fired
  <2>2. CASE fired
    BY <2>1, <2>2, PeriodType
  <2>3. CASE ~fired
    BY <2>1, <2>3 DEF ClocksInv
  <2>. QED
    BY <2>2, <2>3
<1>. QED
  BY <1>2, <1>3, <1>4, <1>5 DEF ClocksInv, srp_poll, DomainFromBridge

LEMMA TickClocks ==
  ASSUME ClocksInv, SrpTick
  PROVE  ClocksInv'
<1>1. Aged(seenAge) \in 0..Timeout
  BY AgedType DEF ClocksInv
<1>2. seenAge' \in 0..Timeout
  BY <1>1 DEF ClocksInv, SrpTick
<1>0. /\ joinAge' = IF joinAge < JoinPeriod THEN joinAge + 1 ELSE joinAge
      /\ lvaAge' = IF lvaAge < lvaPeriod THEN lvaAge + 1 ELSE lvaAge
  BY Zenon DEF SrpTick
<1>3. joinAge' \in 0..JoinPeriod
  BY <1>0, SrpConstants DEF ClocksInv
<1>4. lvaAge' \in 0..lvaPeriod
  BY <1>0, PeriodType DEF ClocksInv
<1>. QED
  BY <1>2, <1>3, <1>4 DEF ClocksInv, SrpTick, DomainFromBridge

LEMMA HappensType == ASSUME ClocksInv, Happens PROVE events' \in 0..MaxEvents /\ polled' \in BOOLEAN
<1>1. events \in 0..MaxEvents /\ events > 0 /\ events' = events - 1
  BY DEF ClocksInv, Happens
<1>2. events' \in 0..MaxEvents
  BY <1>1, SrpConstants
<1>. QED
  BY <1>2 DEF Happens

LEMMA ClocksKept == ClocksInv /\ [SrpNext]_srp_vars => ClocksInv'
<1> SUFFICES ASSUME ClocksInv, [SrpNext]_srp_vars PROVE ClocksInv'
  OBVIOUS
<1>1. CASE srp_talker_set
  <2>1. n_talkers' \in 0..Len(Talkers)
    BY <1>1, TalkersAreStreams DEF ClocksInv, srp_talker_set
  <2>. QED
    BY <1>1, <2>1 DEF ClocksInv, srp_talker_set, DomainFromBridge
<1>2. ASSUME NEW enable \in BOOLEAN, srp_talker_enable(enable) PROVE ClocksInv'
  <2>1. talker_new_count' \in 0..2
    BY <1>2 DEF ClocksInv, srp_talker_enable
  <2>2. Happens
    BY <1>2 DEF srp_talker_enable
  <2>. QED
    BY <1>2, <2>1, <2>2, HappensType DEF ClocksInv, srp_talker_enable, DomainFromBridge
<1>3. ASSUME NEW mac \in Macs, srp_set_bridge_mac(mac) PROVE ClocksInv'
  <2>1. Happens
    BY <1>3 DEF srp_set_bridge_mac
  <2>2. DomainFromBridge'
    BY <1>3, SrpConstants DEF ClocksInv, srp_set_bridge_mac, DomainFromBridge
  <2>. QED
    BY <1>3, <2>1, <2>2, HappensType DEF ClocksInv, srp_set_bridge_mac
<1>4. ASSUME NEW mac \in Macs, NEW lva \in BOOLEAN, RxDomain(mac, lva) PROVE ClocksInv'
  <2>1. Happens /\ rx_leaveall' = (rx_leaveall \/ lva)
    BY <1>4 DEF RxDomain, RxLeaveAll
  <2>2. rx_domain' \in Macs \cup {NoMac} /\ domain_received' \in BOOLEAN
    BY <1>4 DEF ClocksInv, RxDomain
  <2>3. DomainFromBridge'
    BY <1>4 DEF ClocksInv, RxDomain, DomainFromBridge
  <2>. QED
    BY <1>4, <2>1, <2>2, <2>3, HappensType DEF ClocksInv, RxDomain
<1>5. ASSUME NEW st, NEW lva \in BOOLEAN, RxListener(st, lva) PROVE ClocksInv'
  <2>1. Happens /\ rx_leaveall' = (rx_leaveall \/ lva)
    BY <1>5 DEF RxListener, RxLeaveAll
  <2>2. seen' \in BOOLEAN /\ seenAge' \in 0..Timeout
    BY <1>5, SrpConstants DEF ClocksInv, RxListener
  <2>. QED
    BY <1>5, <2>1, <2>2, HappensType DEF ClocksInv, RxListener, DomainFromBridge
<1>6. ASSUME NEW st \in Remote, NEW lva \in BOOLEAN, RxTalkerAdv(st, lva) PROVE ClocksInv'
  <2>1. Happens /\ rx_leaveall' = (rx_leaveall \/ lva)
    BY <1>6 DEF RxTalkerAdv, RxLeaveAll
  <2>. QED
    BY <1>6, <2>1, HappensType DEF ClocksInv, RxTalkerAdv, DomainFromBridge
<1>7. ASSUME NEW st \in Remote, ListenerEnable(st) \/ ListenerDisable(st) PROVE ClocksInv'
  <2>1. Happens
    BY <1>7 DEF ListenerEnable, ListenerDisable
  <2>. QED
    BY <1>7, <2>1, HappensType DEF ClocksInv, ListenerEnable, ListenerDisable, DomainFromBridge
<1>8. CASE UNCHANGED srp_vars
  BY <1>8 DEF ClocksInv, srp_vars, endpoint, DomainFromBridge
<1>9. CASE RxMvrpLeaveAll
  <2>1. Happens /\ UNCHANGED endpoint
    BY <1>9 DEF RxMvrpLeaveAll
  <2>. QED
    BY <2>1, HappensType DEF ClocksInv, endpoint, DomainFromBridge
<1>. QED
  BY <1>1, <1>2, <1>3, <1>4, <1>5, <1>6, <1>7, <1>8, <1>9, PollClocks, TickClocks DEF SrpNext

-----------------------------------------------------------------------------
(* What a sequence of vectors does to the registrar of one attribute.       *)
Own(v, a)  == {i \in 1..Len(v) : <<v[i].type, v[i].stream>> = a}
Lvas(v, a) == {i \in 1..Len(v) : v[i].type = a[1] /\ v[i].lva}

LEMMA ReceiveOne ==
  ASSUME NEW r, NEW v, Len(v) \in Nat, NEW a \in Attributes
  PROVE  /\ Own(v, a) = {} => Receive(r, v)[a] = IF Lvas(v, a) # {} /\ r[a] = "IN"
                                                   THEN "LeftAll" ELSE r[a]
         /\ Own(v, a) # {} => \E last \in Own(v, a) :
              /\ \A k \in Own(v, a) : k <= last
              /\ v[last].event = "Lv" => Receive(r, v)[a] = "Left"
              /\ v[last].event # "Lv" => Receive(r, v)[a] =
                   IF {i \in Lvas(v, a) : i > last} # {} THEN "LeftAll" ELSE "IN"
<1> DEFINE last == CHOOSE i \in Own(v, a) : \A k \in Own(v, a) : k <= i
           now  == IF Own(v, a) = {} THEN r[a] ELSE IF v[last].event = "Lv" THEN "Left" ELSE "IN"
           late == IF Own(v, a) = {} THEN Lvas(v, a) ELSE {i \in Lvas(v, a) : i > last}
<1>1. Receive(r, v)[a] = IF late # {} /\ now = "IN" THEN "LeftAll" ELSE now
  BY DEF Receive, Own, Lvas
<1>2. ASSUME Own(v, a) # {}
      PROVE  last \in Own(v, a) /\ \A k \in Own(v, a) : k <= last
  <2>1. Own(v, a) \in SUBSET (0..Len(v))
    BY DEF Own
  <2>2. \E m \in Own(v, a) : \A k \in Own(v, a) : k <= m
    BY <1>2, <2>1, GreatestOf
  <2>. QED
    BY <2>2, Zenon
<1> HIDE DEF last
<1>. QED
  BY <1>1, <1>2, Zenon

(* Joined and not taken back.                                               *)
LEMMA ReceiveJoined ==
  ASSUME NEW r, NEW v, Len(v) \in Nat, NEW a \in Attributes, Own(v, a) # {},
         \A i \in Own(v, a) : v[i].event # "Lv",
         \A i \in Lvas(v, a) : \E k \in Own(v, a) : i <= k
  PROVE  Receive(r, v)[a] = "IN"
<1>1. PICK last \in Own(v, a) :
        /\ \A k \in Own(v, a) : k <= last
        /\ v[last].event # "Lv" => Receive(r, v)[a] =
             IF {i \in Lvas(v, a) : i > last} # {} THEN "LeftAll" ELSE "IN"
  BY ReceiveOne
<1>2. Own(v, a) \in SUBSET Nat /\ Lvas(v, a) \in SUBSET Nat
  BY DEF Own, Lvas
<1>3. {i \in Lvas(v, a) : i > last} = {}
  <2>1. ASSUME NEW i \in Lvas(v, a), i > last PROVE FALSE
    <3>1. PICK k \in Own(v, a) : i <= k
      OBVIOUS
    <3>2. i \in Nat /\ k \in Nat /\ last \in Nat /\ k <= last
      BY <1>1, <1>2
    <3>. QED
      BY <2>1, <3>1, <3>2
  <2>. QED
    BY <2>1
<1>. QED
  BY <1>1, <1>3

LEMMA ReceiveLeave ==
  ASSUME NEW r, NEW v, Len(v) \in Nat, NEW a \in Attributes, Own(v, a) # {},
         \A i \in Own(v, a) : v[i].event = "Lv"
  PROVE  Receive(r, v)[a] = "Left"
BY ReceiveOne

LEMMA ReceiveOther ==
  ASSUME NEW r, NEW v, Len(v) \in Nat, NEW a \in Attributes, Own(v, a) = {},
         Lvas(v, a) = {} \/ r[a] # "IN"
  PROVE  Receive(r, v)[a] = r[a]
BY ReceiveOne

LEMMA RegistrarType ==
  ASSUME NEW r \in [Attributes -> {"IN", "MT", "Left", "LeftAll"}]
  PROVE  /\ \A v : Len(v) \in Nat => Receive(r, v) \in [Attributes -> {"IN", "MT", "Left", "LeftAll"}]
         /\ \A type : LeaveAll(r, type) \in [Attributes -> {"IN", "MT", "Left", "LeftAll"}]
<1>1. ASSUME NEW v, Len(v) \in Nat
      PROVE  Receive(r, v) \in [Attributes -> {"IN", "MT", "Left", "LeftAll"}]
  <2>1. ASSUME NEW a \in Attributes PROVE Receive(r, v)[a] \in {"IN", "MT", "Left", "LeftAll"}
    <3>1. r[a] \in {"IN", "MT", "Left", "LeftAll"}
      OBVIOUS
    <3>. QED
      BY <1>1, <3>1, ReceiveOne
  <2>2. Receive(r, v) = [a \in Attributes |-> Receive(r, v)[a]]
    BY DEF Receive
  <2>. QED
    BY <2>1, <2>2
<1>2. ASSUME NEW type
      PROVE  LeaveAll(r, type) \in [Attributes -> {"IN", "MT", "Left", "LeftAll"}]
  BY DEF LeaveAll
<1>. QED
  BY <1>1, <1>2

-----------------------------------------------------------------------------
(* The declarations, position by position.                                  *)
Packed(d, ls, ts, w) == <<d>> \o ls \o ts \o <<w>>
IsTuple(s) == Len(s) \in Nat /\ s = [i \in 1..Len(s) |-> s[i]]

LEMMA FourParts ==
  ASSUME NEW x, NEW y, NEW xs, NEW ys, IsTuple(xs), IsTuple(ys)
  PROVE  LET v == Packed(x, xs, ys, y)
             p == Len(xs)
             q == Len(ys)
         IN  /\ Len(v) = p + q + 2 /\ v[1] = x /\ v[p + q + 2] = y
             /\ \A i \in 1..p : v[i + 1] = xs[i]
             /\ \A i \in 1..q : v[p + 1 + i] = ys[i]
<1> DEFINE p == Len(xs)
           q == Len(ys)
<1>0. p \in Nat /\ q \in Nat
  BY DEF IsTuple
<1>a. xs = [i \in 1..p |-> xs[i]] /\ ys = [i \in 1..q |-> ys[i]]
  BY DEF IsTuple
<1> HIDE DEF p, q
<1> DEFINE V == {x, y} \cup {xs[i] : i \in 1..p} \cup {ys[i] : i \in 1..q}
<1>1. <<x>> \in Seq(V) /\ <<y>> \in Seq(V) /\ Len(<<x>>) = 1 /\ Len(<<y>>) = 1
  OBVIOUS
<1>2. xs \in Seq(V) /\ Len(xs) = p
  <2>1. xs \in [1..p -> V]
    BY <1>0, <1>a
  <2> HIDE DEF V
  <2>. QED
    BY <2>1 DEF p, q
<1>3. ys \in Seq(V) /\ Len(ys) = q
  <2>1. ys \in [1..q -> V]
    BY <1>0, <1>a
  <2> HIDE DEF V
  <2>. QED
    BY <2>1 DEF p, q
<1> HIDE DEF V
<1> DEFINE s1 == <<x>> \o xs
           s2 == s1 \o ys
           s3 == s2 \o <<y>>
<1>4. /\ s1 \in Seq(V) /\ Len(s1) = p + 1 /\ s1[1] = x
      /\ \A i \in 1..p : s1[i + 1] = xs[i]
  BY <1>0, <1>1, <1>2
<1> HIDE DEF s1
<1>5. /\ s2 \in Seq(V) /\ Len(s2) = p + q + 1
      /\ \A i \in 1..(p + 1) : s2[i] = s1[i]
      /\ \A i \in 1..q : s2[p + 1 + i] = ys[i]
  BY <1>0, <1>3, <1>4
<1> HIDE DEF s2
<1>6. /\ Len(s3) = p + q + 2 /\ s3[p + q + 2] = y
      /\ \A i \in 1..(p + q + 1) : s3[i] = s2[i]
  BY <1>0, <1>1, <1>5
<1> HIDE DEF s3
<1>7. s3[1] = x
  <2>1. 1 \in 1..(p + q + 1) /\ 1 \in 1..(p + 1)
    BY <1>0
  <2>. QED
    BY <1>0, <1>4, <1>5, <1>6, <2>1
<1>8. ASSUME NEW i \in 1..p PROVE s3[i + 1] = xs[i]
  <2>1. i + 1 \in 1..(p + q + 1) /\ i + 1 \in 1..(p + 1)
    BY <1>0
  <2>. QED
    BY <1>0, <1>4, <1>5, <1>6, <2>1
<1>9. ASSUME NEW i \in 1..q PROVE s3[p + 1 + i] = ys[i]
  <2>1. p + 1 + i \in 1..(p + q + 1)
    BY <1>0
  <2>. QED
    BY <1>0, <1>5, <1>6, <2>1
<1>. QED
  BY <1>6, <1>7, <1>8, <1>9 DEF s1, s2, s3, p, q, Packed

LEMMA ListenerPart ==
  ASSUME NEW ls, NEW lva
  PROVE  LET v == ListenerVectors(ls, lva)
         IN  /\ Len(v) \in Nat /\ v = [i \in 1..Len(v) |-> v[i]]
             /\ \A i \in 1..Len(v) : v[i].type = "Listener"
<1> DEFINE enabled == {li \in 1..Listeners : ls[li].enabled}
           n == Cardinality(enabled)
           inOrder == CHOOSE f \in [1..n -> enabled] : \A i, k \in 1..n : i < k => f[i] < f[k]
           u(i) == Vector("Listener", ls[inOrder[i]].stream_id, lva, Event(ls[inOrder[i]].new_count))
           v == ListenerVectors(ls, lva)
<1>1. n \in Nat
  <2>1. IsFiniteSet(1..Listeners)
    BY SrpConstants, FS_Interval
  <2>2. IsFiniteSet(enabled)
    BY <2>1, FS_Subset
  <2>. QED
    BY <2>2, FS_CardinalityType
<1>2. v = [i \in 1..n |-> u(i)]
  BY DEF ListenerVectors
<1>3. \A i : u(i).type = "Listener"
  BY DEF Vector
<1> HIDE DEF n, u, v
<1>. QED
  BY <1>1, <1>2, <1>3 DEF v

LEMMA TalkerPart ==
  ASSUME ClocksInv, NEW lva \in BOOLEAN, NEW new_count
  PROVE  LET v == TalkerVectors(lva, new_count)
         IN  /\ Len(v) = n_talkers /\ v = [i \in 1..n_talkers |-> v[i]]
             /\ \A i \in 1..n_talkers :
                  /\ v[i].type = "Talker" /\ v[i].stream = Talkers[i]
                  /\ v[i].event # "Lv"
                  /\ v[i].lva => i = 1
<1> DEFINE event == IF new_count < 2 THEN "New" ELSE IF seen THEN "JoinIn" ELSE "JoinMt"
           u(i) == Vector("Talker", Talkers[i], lva /\ i = 1, event)
           v == TalkerVectors(lva, new_count)
<1>1. n_talkers \in Nat
  BY TalkersAreStreams DEF ClocksInv
<1>2. v = [i \in 1..n_talkers |-> u(i)]
  BY DEF TalkerVectors
<1>3. event # "Lv"
  OBVIOUS
<1>4. \A i : /\ u(i).type = "Talker" /\ u(i).stream = Talkers[i]
             /\ u(i).event = event /\ u(i).lva = (lva /\ i = 1)
  BY DEF Vector
<1>5. \A i : u(i).event # "Lv" /\ (u(i).lva => i = 1)
  BY <1>3, <1>4
<1> HIDE DEF event, u
<1>6. Len(v) = n_talkers /\ DOMAIN v = 1..n_talkers
  <2> HIDE DEF v
  <2>. QED
    BY <1>1, <1>2
<1>7. \A i \in 1..n_talkers : v[i] = u(i)
  <2> HIDE DEF v
  <2>. QED
    BY <1>2
<1> HIDE DEF v
<1>8. v = [i \in 1..n_talkers |-> v[i]]
  BY <1>2, <1>7
<1>. QED
  BY <1>4, <1>5, <1>6, <1>7, <1>8 DEF v

(* After our declarations the domain, the VLAN and the talkers we declare   *)
(* are registered, with or without a LeaveAll of our own in them.           *)
LEMMA DeclaredRegister ==
  ASSUME ClocksInv, NEW r, NEW ls, NEW lva \in BOOLEAN, NEW d, NEW t, NEW w
  PROVE  LET v == Declarations(ls, lva, d, t, w)
         IN  /\ Len(v) \in Nat
             /\ Receive(r, v)[<<"Domain", "A">>] = "IN"
             /\ Receive(r, v)[<<"Vid", 2>>] = "IN"
             /\ \A st \in TalkerStreams :
                  IF talker_enabled /\ \E i \in 1..n_talkers : Talkers[i] = st
                    THEN Receive(r, v)[<<"Talker", st>>] = "IN"
                    ELSE r[<<"Talker", st>>] # "IN" =>
                           Receive(r, v)[<<"Talker", st>>] = r[<<"Talker", st>>]
<1> DEFINE L == ListenerVectors(ls, lva)
           T == IF talker_enabled THEN TalkerVectors(lva, t) ELSE <<>>
           D == DomainVector(lva, d)
           W == VidVector(w)
           n == Len(L)
           m == IF talker_enabled THEN n_talkers ELSE 0
           v == Declarations(ls, lva, d, t, w)
<1>1. n \in Nat /\ L = [i \in 1..n |-> L[i]] /\ \A i \in 1..n : L[i].type = "Listener"
  BY ListenerPart
<1>2. /\ m \in Nat /\ Len(T) = m /\ T = [i \in 1..m |-> T[i]]
      /\ \A i \in 1..m : /\ talker_enabled /\ m = n_talkers
                         /\ T[i].type = "Talker" /\ T[i].stream = Talkers[i]
                         /\ T[i].event # "Lv" /\ (T[i].lva => i = 1)
  <2>1. CASE talker_enabled
    <3>1. n_talkers \in Nat
      BY TalkersAreStreams DEF ClocksInv
    <3>. QED
      BY <2>1, <3>1, TalkerPart
  <2>2. CASE ~talker_enabled
    BY <2>2
  <2>. QED
    BY <2>1, <2>2
<1>3. /\ D.type = "Domain" /\ D.stream = "A" /\ D.event # "Lv"
      /\ W.type = "Vid" /\ W.stream = 2 /\ W.event # "Lv" /\ W.lva = FALSE
  BY DEF DomainVector, VidVector, Vector, Event
<1>4. v = Packed(D, L, T, W)
  BY DEF Declarations, Packed
<1> HIDE DEF L, T, D, W, n, v
<1>5. /\ Len(v) = n + m + 2 /\ v[1] = D /\ v[n + m + 2] = W
      /\ \A i \in 1..n : v[i + 1] = L[i]
      /\ \A i \in 1..m : v[n + 1 + i] = T[i]
  <2> HIDE DEF m
  <2>1. IsTuple(L) /\ IsTuple(T) /\ Len(T) = m
    BY <1>1, <1>2 DEF IsTuple, n
  <2>. QED
    BY <1>4, <2>1, FourParts DEF n
<1>6. /\ v[1].type = "Domain" /\ v[1].stream = "A" /\ v[1].event # "Lv"
      /\ \A i \in 2..(n + 1) : v[i].type = "Listener"
      /\ \A i \in (n + 2)..(n + m + 1) :
           /\ v[i].type = "Talker" /\ v[i].stream = Talkers[i - n - 1]
           /\ v[i].event # "Lv" /\ (v[i].lva => i = n + 2)
      /\ v[n + m + 2].type = "Vid" /\ v[n + m + 2].stream = 2
      /\ v[n + m + 2].event # "Lv" /\ v[n + m + 2].lva = FALSE
  <2>1. ASSUME NEW i \in 2..(n + 1) PROVE v[i].type = "Listener"
    <3>1. i - 1 \in 1..n /\ (i - 1) + 1 = i
      BY <1>1
    <3>2. v[(i - 1) + 1] = L[i - 1]
      BY <1>5, <3>1
    <3>. QED
      BY <1>1, <3>1, <3>2
  <2>2. ASSUME NEW i \in (n + 2)..(n + m + 1)
        PROVE  /\ v[i].type = "Talker" /\ v[i].stream = Talkers[i - n - 1]
               /\ v[i].event # "Lv" /\ (v[i].lva => i = n + 2)
    <3> DEFINE k == i - n - 1
    <3> HIDE DEF m
    <3>1. k \in 1..m /\ n + 1 + k = i
      BY <1>1, <1>2
    <3>2. v[n + 1 + k] = T[k]
      BY <1>5, <3>1
    <3>3. k = 1 => i = n + 2
      BY <1>1, <3>1
    <3>. QED
      BY <1>2, <3>1, <3>2, <3>3
  <2>. QED
    BY <1>3, <1>5, <2>1, <2>2
<1>7. /\ Len(v) \in Nat /\ n + m + 2 \in 1..Len(v) /\ 1 \in 1..Len(v)
      /\ \A i \in 1..Len(v) : \/ i = 1 \/ i \in 2..(n + 1) \/ i \in (n + 2)..(n + m + 1)
                              \/ i = n + m + 2
  <2> HIDE DEF m
  <2>. QED
    BY <1>1, <1>2, <1>5
<1>8. Receive(r, v)[<<"Domain", "A">>] = "IN"
  <2> DEFINE a == <<"Domain", "A">>
  <2>1. a \in Attributes
    BY DEF Attributes
  <2>2. Own(v, a) = {1} /\ Lvas(v, a) \in SUBSET {1}
    <3> HIDE DEF m
    <3>. QED
      BY <1>6, <1>7 DEF Own, Lvas
  <2>3. \A i \in Own(v, a) : v[i].event # "Lv"
    BY <1>6, <2>2
  <2>4. \A i \in Lvas(v, a) : \E k \in Own(v, a) : i <= k
    BY <2>2
  <2>5. Own(v, a) # {}
    BY <2>2
  <2> HIDE DEF a
  <2>6. Receive(r, v)[a] = "IN"
    BY <1>7, <2>1, <2>3, <2>4, <2>5, ReceiveJoined
  <2>. QED
    BY <2>6 DEF a
<1>9. Receive(r, v)[<<"Vid", 2>>] = "IN"
  <2> DEFINE a == <<"Vid", 2>>
  <2>1. a \in Attributes
    BY DEF Attributes
  <2>2. Own(v, a) = {n + m + 2} /\ Lvas(v, a) = {}
    <3> HIDE DEF m
    <3>. QED
      BY <1>6, <1>7 DEF Own, Lvas
  <2> HIDE DEF a, m
  <2>3. \A i \in Own(v, a) : v[i].event # "Lv"
    BY <1>6, <2>2
  <2>4. \A i \in Lvas(v, a) : \E k \in Own(v, a) : i <= k
    BY <2>2
  <2>5. Receive(r, v)[a] = "IN"
    BY <1>7, <2>1, <2>2, <2>3, <2>4, ReceiveJoined
  <2>. QED
    BY <2>5 DEF a
<1>10. ASSUME NEW st \in TalkerStreams
       PROVE  IF talker_enabled /\ \E i \in 1..n_talkers : Talkers[i] = st
                THEN Receive(r, v)[<<"Talker", st>>] = "IN"
                ELSE r[<<"Talker", st>>] # "IN" =>
                       Receive(r, v)[<<"Talker", st>>] = r[<<"Talker", st>>]
  <2> DEFINE a == <<"Talker", st>>
  <2>1. a \in Attributes
    BY DEF Attributes
  <2>2. Own(v, a) = {i \in (n + 2)..(n + m + 1) : Talkers[i - n - 1] = st}
    <3>1. ASSUME NEW i \in 1..Len(v), v[i].type = "Talker" PROVE i \in (n + 2)..(n + m + 1)
      <4> HIDE DEF m
      <4>. QED
        BY <1>6, <1>7, <3>1
    <3>2. (n + 2)..(n + m + 1) \in SUBSET (1..Len(v))
      <4> HIDE DEF m
      <4>. QED
        BY <1>1, <1>2, <1>5
    <3> HIDE DEF m
    <3>. QED
      BY <1>6, <3>1, <3>2 DEF Own
  <2>3. Lvas(v, a) \in SUBSET {n + 2}
    <3> HIDE DEF m
    <3>. QED
      BY <1>6, <1>7 DEF Lvas
  <2>4. CASE talker_enabled /\ \E i \in 1..n_talkers : Talkers[i] = st
    <3>1. PICK k \in 1..m : Talkers[k] = st
      BY <2>4
    <3> HIDE DEF m
    <3>2. n + 1 + k \in (n + 2)..(n + m + 1) /\ (n + 1 + k) - n - 1 = k /\ n + 2 <= n + 1 + k
      BY <1>1, <1>2
    <3>3. n + 1 + k \in Own(v, a)
      BY <2>2, <3>1, <3>2
    <3>4. \A i \in Own(v, a) : v[i].event # "Lv"
      BY <1>6, <2>2
    <3> HIDE DEF a
    <3>5. Receive(r, v)[a] = "IN"
      BY <1>7, <2>1, <2>3, <3>2, <3>3, <3>4, ReceiveJoined
    <3>. QED
      BY <2>4, <3>5 DEF a
  <2>5. CASE ~(talker_enabled /\ \E i \in 1..n_talkers : Talkers[i] = st)
    <3>1. \A k \in 1..m : Talkers[k] # st
      BY <2>5
    <3> HIDE DEF m
    <3>2. Own(v, a) = {}
      <4>1. ASSUME NEW i \in Own(v, a) PROVE FALSE
        <5>1. i \in (n + 2)..(n + m + 1) /\ Talkers[i - n - 1] = st
          BY <2>2, <4>1
        <5>2. i - n - 1 \in 1..m
          BY <1>1, <1>2, <5>1
        <5>. QED
          BY <3>1, <5>1, <5>2
      <4>. QED
        BY <4>1
    <3> HIDE DEF a
    <3>. QED
      BY <1>7, <2>1, <2>5, <3>2, ReceiveOther DEF a
  <2>. QED
    BY <2>4, <2>5
<1>. QED
  BY <1>7, <1>8, <1>9, <1>10 DEF v

-----------------------------------------------------------------------------
(* The bridge port: a talker is registered, or about to be forgotten, only  *)
(* while we declare it, and what a LeaveAll is about to make the bridge     *)
(* forget waits for a poll that knows of this LeaveAll.                     *)
RegType == /\ reg \in [Attributes -> {"IN", "MT", "Left", "LeftAll"}]
           /\ lapsed \subseteq Attributes
IsDeclared(st) == talker_enabled /\ \E i \in 1..n_talkers : Talkers[i] = st
OnlyDeclared == \A st \in TalkerStreams :
  reg[<<"Talker", st>>] \in {"IN", "LeftAll"} => IsDeclared(st)
PollKnows == \A a \in Attributes :
  a[1] \in {"Talker", "Domain"} /\ reg[a] = "LeftAll" => rx_leaveall

RegInv == /\ RegType /\ OnlyDeclared /\ PollKnows
          /\ polled => ~rx_leaveall
          /\ TalkersStayRegistered

LEMMA AttributeKinds ==
  /\ \A st \in TalkerStreams : <<"Talker", st>> \in Attributes
  /\ \A st \in Remote : <<"Listener", st>> \in Attributes
  /\ <<"Domain", "A">> \in Attributes /\ <<"Vid", 2>> \in Attributes
  /\ \A a \in Attributes : a[1] # "Listener" =>
       \/ a = <<"Domain", "A">> \/ a = <<"Vid", 2>>
       \/ \E st \in TalkerStreams : a = <<"Talker", st>>
BY DEF Attributes

LEMMA PollReg ==
  ASSUME ClocksInv, RegInv, srp_poll
  PROVE  RegInv'
<1>1. /\ rx_leaveall' = FALSE /\ lapsed' = lapsed
      /\ talker_enabled' = talker_enabled /\ n_talkers' = n_talkers
  BY DEF srp_poll
<1>2. CASE JoinAge >= JoinPeriod
  <2> DEFINE ls == [li \in 1..Listeners |->
               AgedListener(IF rx_leaveall THEN Cleared(srp_listeners[li]) ELSE srp_listeners[li])]
             lva == ~rx_leaveall /\ lvaAge >= lvaPeriod
             v == Declarations(ls, lva, IF rx_leaveall THEN 0 ELSE domain_new_count,
                    IF rx_leaveall THEN 0 ELSE talker_new_count,
                    IF rx_leaveall THEN 0 ELSE mvrp_new_count)
  <2>1. reg' = Receive(reg, v)
    BY <1>2 DEF srp_poll
  <2>2. lva \in BOOLEAN
    OBVIOUS
  <2> HIDE DEF ls, lva
  <2>3. /\ Len(v) \in Nat
        /\ Receive(reg, v)[<<"Domain", "A">>] = "IN"
        /\ Receive(reg, v)[<<"Vid", 2>>] = "IN"
        /\ \A st \in TalkerStreams :
             IF IsDeclared(st)
               THEN Receive(reg, v)[<<"Talker", st>>] = "IN"
               ELSE reg[<<"Talker", st>>] # "IN" =>
                      Receive(reg, v)[<<"Talker", st>>] = reg[<<"Talker", st>>]
    BY <2>2, DeclaredRegister DEF IsDeclared
  <2> HIDE DEF v
  <2>4. RegType'
    BY <1>1, <2>1, <2>3, RegistrarType DEF RegInv, RegType
  <2>5. \A st \in TalkerStreams :
          IF IsDeclared(st) THEN reg'[<<"Talker", st>>] = "IN"
                            ELSE reg'[<<"Talker", st>>] \notin {"IN", "LeftAll"}
    BY <2>1, <2>3 DEF RegInv, OnlyDeclared
  <2>6. OnlyDeclared'
    BY <1>1, <2>5 DEF OnlyDeclared, IsDeclared
  <2>7. PollKnows'
    BY <2>1, <2>3, <2>5, AttributeKinds DEF PollKnows
  <2>. QED
    BY <1>1, <2>4, <2>6, <2>7 DEF RegInv, TalkersStayRegistered
<1>3. CASE ~(JoinAge >= JoinPeriod)
  <2>1. reg' = reg
    BY <1>3 DEF srp_poll
  <2>2. ~rx_leaveall
    BY <1>3, SrpConstants DEF JoinAge
  <2>. QED
    BY <1>1, <2>1, <2>2 DEF RegInv, RegType, OnlyDeclared, IsDeclared, PollKnows,
                            TalkersStayRegistered
<1>. QED
  BY <1>2, <1>3

LEMMA DeclaredKinds ==
  ASSUME ClocksInv, ListenersType
  PROVE  Declared \subseteq Attributes
<1>1. \A i \in 1..n_talkers : Talkers[i] \in TalkerStreams
  BY TalkersAreStreams DEF ClocksInv
<1>. QED
  BY <1>1, AttributeKinds DEF Declared, ListenersType

LEMMA TickReg ==
  ASSUME ClocksInv, ListenersType, RegInv, SrpTick
  PROVE  RegInv'
<1>1. /\ reg' = [a \in Attributes |-> IF reg[a] = "IN" THEN "IN" ELSE "MT"]
      /\ lapsed' = lapsed \cup {a \in Declared : reg[a] = "LeftAll"}
      /\ rx_leaveall' = rx_leaveall /\ polled /\ polled' = FALSE
      /\ talker_enabled' = talker_enabled /\ n_talkers' = n_talkers
  BY DEF SrpTick
<1>2. RegType'
  BY <1>1, DeclaredKinds DEF RegInv, RegType
<1>3. OnlyDeclared'
  BY <1>1, AttributeKinds DEF RegInv, OnlyDeclared, IsDeclared
<1>4. PollKnows'
  BY <1>1 DEF PollKnows
<1>5. TalkersStayRegistered'
  <2>1. ASSUME NEW a \in Declared, reg[a] = "LeftAll" PROVE a[1] \notin {"Talker", "Domain"}
    BY <1>1, <2>1, DeclaredKinds DEF RegInv, PollKnows
  <2>. QED
    BY <1>1, <2>1 DEF RegInv, TalkersStayRegistered
<1>. QED
  BY <1>1, <1>2, <1>3, <1>4, <1>5 DEF RegInv

(* A LeaveAll of the bridge is known to the next poll.                      *)
LEMMA LeaveAllReg ==
  ASSUME RegInv, NEW type, NEW lva \in BOOLEAN, RxLeaveAll(type, lva), polled' = FALSE,
         UNCHANGED <<lapsed, talker_enabled, n_talkers>>
  PROVE  RegInv'
<1>1. CASE lva
  <2>1. reg' = LeaveAll(reg, type) /\ rx_leaveall' = TRUE
    BY <1>1 DEF RxLeaveAll
  <2>2. \A a \in Attributes : reg'[a] \in {"IN", "LeftAll"} => reg[a] \in {"IN", "LeftAll"}
    BY <2>1 DEF LeaveAll
  <2>3. RegType'
    BY <2>1, RegistrarType DEF RegInv, RegType
  <2>4. OnlyDeclared'
    BY <2>2, AttributeKinds DEF RegInv, OnlyDeclared, IsDeclared
  <2>. QED
    BY <2>1, <2>3, <2>4 DEF RegInv, PollKnows, TalkersStayRegistered
<1>2. CASE ~lva
  <2>1. reg' = reg /\ (rx_leaveall => rx_leaveall')
    BY <1>2 DEF RxLeaveAll
  <2>. QED
    BY <2>1 DEF RegInv, RegType, OnlyDeclared, IsDeclared, PollKnows, TalkersStayRegistered
<1>. QED
  BY <1>1, <1>2

(* An MVRP LeaveAll is not known to it, and touches the VLAN only.          *)
LEMMA VidLeaveAllReg ==
  ASSUME RegInv, RxMvrpLeaveAll
  PROVE  RegInv'
<1>1. /\ reg' = LeaveAll(reg, "Vid") /\ polled' = FALSE
      /\ UNCHANGED <<lapsed, talker_enabled, n_talkers, rx_leaveall>>
  BY DEF RxMvrpLeaveAll, Happens, endpoint
<1>2. \A a \in Attributes : a[1] # "Vid" => reg'[a] = reg[a]
  BY <1>1 DEF LeaveAll
<1>3. RegType'
  BY <1>1, RegistrarType DEF RegInv, RegType
<1>4. OnlyDeclared'
  BY <1>1, <1>2, AttributeKinds DEF RegInv, OnlyDeclared, IsDeclared
<1>5. PollKnows'
  BY <1>1, <1>2 DEF RegInv, PollKnows
<1>. QED
  BY <1>1, <1>3, <1>4, <1>5 DEF RegInv, TalkersStayRegistered

LEMMA LeaveReg ==
  ASSUME RegInv, NEW st \in Remote, ListenerDisable(st)
  PROVE  RegInv'
<1> DEFINE v == <<Vector("Listener", st, FALSE, "Lv")>>
<1>1. /\ reg' = Receive(reg, v) /\ polled' = FALSE
      /\ UNCHANGED <<lapsed, talker_enabled, n_talkers, rx_leaveall>>
  BY DEF ListenerDisable, Happens
<1>2. Len(v) = 1 /\ v[1].type = "Listener"
  BY DEF Vector
<1> HIDE DEF v
<1>3. ASSUME NEW a \in Attributes, a[1] # "Listener" PROVE reg'[a] = reg[a]
  <2>1. Own(v, a) = {} /\ Lvas(v, a) = {}
    BY <1>2, <1>3, AttributeKinds DEF Own, Lvas
  <2>. QED
    BY <1>1, <1>2, <2>1, ReceiveOther
<1>4. RegType'
  BY <1>1, <1>2, RegistrarType DEF RegInv, RegType
<1>5. OnlyDeclared'
  BY <1>1, <1>3, AttributeKinds DEF RegInv, OnlyDeclared, IsDeclared
<1>6. PollKnows'
  BY <1>1, <1>3 DEF RegInv, PollKnows
<1>. QED
  BY <1>1, <1>4, <1>5, <1>6 DEF RegInv, TalkersStayRegistered

LEMMA TalkerOffReg ==
  ASSUME ClocksInv, RegInv, talker_enabled, srp_talker_enable(FALSE)
  PROVE  RegInv'
<1> DEFINE u(i) == Vector("Talker", Talkers[i], FALSE, "Lv")
           v == TalkerLeave
<1>1. /\ reg' = Receive(reg, v) /\ polled' = FALSE
      /\ UNCHANGED <<lapsed, n_talkers, rx_leaveall>>
  BY DEF srp_talker_enable, Happens
<1>2. n_talkers \in Nat /\ v = [i \in 1..n_talkers |-> u(i)]
  BY TalkersAreStreams DEF ClocksInv, TalkerLeave
<1>3. \A i : /\ u(i).type = "Talker" /\ u(i).stream = Talkers[i]
             /\ u(i).lva = FALSE /\ u(i).event = "Lv"
  BY DEF Vector
<1> HIDE DEF u, v
<1>4. Len(v) = n_talkers /\ \A i \in 1..n_talkers : v[i] = u(i)
  BY <1>2
<1>5. \A a : Lvas(v, a) = {}
  BY <1>3, <1>4 DEF Lvas
<1>6. ASSUME NEW st \in TalkerStreams PROVE reg'[<<"Talker", st>>] \notin {"IN", "LeftAll"}
  <2> DEFINE a == <<"Talker", st>>
  <2>1. a \in Attributes
    BY AttributeKinds
  <2>2. Own(v, a) = {i \in 1..n_talkers : Talkers[i] = st}
    BY <1>3, <1>4 DEF Own
  <2>3. CASE \E i \in 1..n_talkers : Talkers[i] = st
    <3>1. Own(v, a) # {} /\ \A i \in Own(v, a) : v[i].event = "Lv"
      BY <1>3, <1>4, <2>2, <2>3
    <3> HIDE DEF a
    <3>2. reg'[a] = "Left"
      BY <1>1, <1>2, <1>4, <2>1, <3>1, ReceiveLeave
    <3>. QED
      BY <3>2 DEF a
  <2>4. CASE ~\E i \in 1..n_talkers : Talkers[i] = st
    <3>1. Own(v, a) = {}
      BY <2>2, <2>4
    <3>2. reg[a] \notin {"IN", "LeftAll"}
      BY <2>4 DEF RegInv, OnlyDeclared, IsDeclared
    <3> HIDE DEF a
    <3>3. reg'[a] = reg[a]
      BY <1>1, <1>2, <1>4, <1>5, <2>1, <3>1, ReceiveOther
    <3>. QED
      BY <3>2, <3>3 DEF a
  <2>. QED
    BY <2>3, <2>4
<1>7. ASSUME NEW a \in Attributes, a = <<"Domain", "A">> \/ a = <<"Vid", 2>>
      PROVE  reg'[a] = reg[a]
  <2>1. Own(v, a) = {}
    BY <1>3, <1>4, <1>7 DEF Own
  <2>. QED
    BY <1>1, <1>2, <1>4, <1>5, <2>1, ReceiveOther
<1>8. RegType'
  BY <1>1, <1>2, <1>4, RegistrarType DEF RegInv, RegType
<1>9. OnlyDeclared'
  BY <1>6 DEF OnlyDeclared
<1>10. PollKnows'
  <2>1. ASSUME NEW a \in Attributes, a[1] \in {"Talker", "Domain"}, reg'[a] = "LeftAll"
        PROVE  rx_leaveall'
    <3>1. a = <<"Domain", "A">> \/ a = <<"Vid", 2>>
      BY <1>6, <2>1, AttributeKinds
    <3>. QED
      BY <1>1, <1>7, <2>1, <3>1 DEF RegInv, PollKnows
  <2>. QED
    BY <2>1 DEF PollKnows
<1>. QED
  BY <1>1, <1>8, <1>9, <1>10 DEF RegInv, TalkersStayRegistered

LEMMA RegKept == ListenersType /\ ClocksInv /\ RegInv /\ [SrpNext]_srp_vars => RegInv'
<1> SUFFICES ASSUME ListenersType, ClocksInv, RegInv, [SrpNext]_srp_vars PROVE RegInv'
  OBVIOUS
<1>1. ASSUME UNCHANGED <<reg, lapsed, talker_enabled, n_talkers, rx_leaveall>>,
             polled' = FALSE \/ polled' = polled
      PROVE  RegInv'
  BY <1>1 DEF RegInv, RegType, OnlyDeclared, IsDeclared, PollKnows, TalkersStayRegistered
<1>2. CASE srp_talker_set
  <2>1. \A i \in 1..n_talkers : i \in 1..n_talkers'
    BY <1>2, TalkersAreStreams DEF srp_talker_set, ClocksInv
  <2>2. OnlyDeclared'
    BY <1>2, <2>1 DEF srp_talker_set, RegInv, OnlyDeclared, IsDeclared
  <2>. QED
    BY <1>2, <2>2 DEF srp_talker_set, RegInv, RegType, PollKnows, TalkersStayRegistered
<1>3. ASSUME NEW enable \in BOOLEAN, srp_talker_enable(enable) PROVE RegInv'
  <2>1. CASE talker_enabled /\ ~enable
    BY <1>3, <2>1, TalkerOffReg
  <2>2. CASE ~talker_enabled \/ enable
    <3>1. reg' = reg /\ lapsed' = lapsed /\ rx_leaveall' = rx_leaveall /\ polled' = FALSE
          /\ n_talkers' = n_talkers /\ (talker_enabled => talker_enabled')
      BY <1>3, <2>2 DEF srp_talker_enable, Happens
    <3>. QED
      BY <3>1 DEF RegInv, RegType, OnlyDeclared, IsDeclared, PollKnows, TalkersStayRegistered
  <2>. QED
    BY <2>1, <2>2
<1>4. ASSUME NEW mac \in Macs, srp_set_bridge_mac(mac) PROVE RegInv'
  BY <1>1, <1>4 DEF srp_set_bridge_mac, Happens
<1>5. ASSUME NEW mac \in Macs, NEW lva \in BOOLEAN, RxDomain(mac, lva) PROVE RegInv'
  BY <1>5, LeaveAllReg DEF RxDomain, Happens
<1>6. ASSUME NEW st, NEW lva \in BOOLEAN, RxListener(st, lva) PROVE RegInv'
  BY <1>6, LeaveAllReg DEF RxListener, Happens
<1>7. ASSUME NEW st \in Remote, NEW lva \in BOOLEAN, RxTalkerAdv(st, lva) PROVE RegInv'
  BY <1>7, LeaveAllReg DEF RxTalkerAdv, Happens
<1>8. ASSUME NEW st \in Remote, ListenerEnable(st) PROVE RegInv'
  BY <1>1, <1>8 DEF ListenerEnable, Happens
<1>9. CASE UNCHANGED srp_vars
  BY <1>1, <1>9 DEF srp_vars, endpoint
<1>. QED
  BY <1>2, <1>3, <1>4, <1>5, <1>6, <1>7, <1>8, <1>9, PollReg, TickReg, LeaveReg, VidLeaveAllReg
  DEF SrpNext

-----------------------------------------------------------------------------
SrpInv == ListenersType /\ ListenerOnce /\ RemotesType /\ RemoteOnce /\ ClocksInv /\ RegInv

LEMMA SrpInvInit == SrpInit => SrpInv
<1> SUFFICES ASSUME SrpInit PROVE SrpInv
  OBVIOUS
<1>1. NoListener \in SrpListener /\ NoListener.enabled = FALSE
  BY SrpConstants DEF NoListener, SrpListener
<1>2. NoRemote \in RemoteTalker /\ NoRemote.valid = FALSE
  BY SrpConstants DEF NoRemote, RemoteTalker
<1>3. ListenersType /\ ListenerOnce
  BY <1>1 DEF SrpInit, srp_init, ListenersType, ListenerOnce
<1>4. RemotesType /\ RemoteOnce
  BY <1>2 DEF SrpInit, srp_init, RemotesType, RemoteOnce
<1>5. ClocksInv
  <2>1. lvaPeriod \in Nat
    BY PeriodType DEF SrpInit, srp_init
  <2>2. n_talkers \in 0..Len(Talkers)
    BY TalkersAreStreams DEF SrpInit, srp_init
  <2>3. seenAge \in 0..Timeout /\ joinAge \in 0..JoinPeriod /\ events \in 0..MaxEvents
    BY SrpConstants DEF SrpInit, srp_init
  <2>4. lvaAge \in 0..lvaPeriod
    BY <2>1 DEF SrpInit, srp_init
  <2>5. talker_new_count \in 0..2 /\ domain_new_count \in 0..2 /\ mvrp_new_count \in 0..2
    BY DEF SrpInit, srp_init
  <2>6. /\ talker_enabled \in BOOLEAN /\ seen \in BOOLEAN /\ domain_received \in BOOLEAN
        /\ rx_leaveall \in BOOLEAN /\ polled \in BOOLEAN
    BY DEF SrpInit, srp_init
  <2>7. /\ rx_domain \in Macs \cup {NoMac} /\ bridge_mac \in Macs \cup {NoMac}
        /\ lvaPeriod \in NextPeriods /\ DomainFromBridge
    BY DEF SrpInit, srp_init, DomainFromBridge
  <2>. QED
    BY <2>2, <2>3, <2>4, <2>5, <2>6, <2>7 DEF ClocksInv
<1>6. RegInv
  BY AttributeKinds DEF SrpInit, srp_init, RegInv, RegType, OnlyDeclared, PollKnows,
                        TalkersStayRegistered
<1>. QED
  BY <1>3, <1>4, <1>5, <1>6 DEF SrpInv

LEMMA SrpInvNext == SrpInv /\ [SrpNext]_srp_vars => SrpInv'
BY DeclarersKept, RemotesKept, ClocksKept, RegKept DEF SrpInv

LEMMA SrpInvAlways == SrpSpec => []SrpInv
BY SrpInvInit, SrpInvNext, PTL DEF SrpSpec

LEMMA SrpInvSound == SrpInv => TablesSound /\ TalkersStayRegistered
<1> SUFFICES ASSUME SrpInv PROVE TablesSound /\ TalkersStayRegistered
  OBVIOUS
<1>1. SrpTypeOK
  <2>1. /\ srp_listeners \in [1..Listeners -> SrpListener]
        /\ remote_talkers \in [1..RemoteSlots -> RemoteTalker]
    BY DEF SrpInv, ListenersType, RemotesType
  <2>. QED
    BY <2>1 DEF SrpInv, SrpTypeOK, SrpListener, RemoteTalker, ClocksInv, RegInv, RegType
<1>2. OneEntryPerStream
  BY DEF SrpInv, ListenerOnce, RemoteOnce, OneEntryPerStream
<1>. QED
  BY <1>1, <1>2 DEF SrpInv, ClocksInv, RegInv, TablesSound

(* What is in an entry changes its stream only through an advertisement.    *)
LEMMA EvictsOldest ==
  ASSUME RemotesType, [SrpNext]_srp_vars, NEW i \in 1..RemoteSlots,
         remote_talkers[i].valid, remote_talkers'[i].valid,
         remote_talkers'[i].stream_id # remote_talkers[i].stream_id
  PROVE  \A k \in 1..RemoteSlots :
           /\ remote_talkers[k].valid
           /\ remote_talkers[k].before = remote_talkers[i].before
                => remote_talkers[k].age <= remote_talkers[i].age
<1>1. remote_talkers' # remote_talkers
  OBVIOUS
<1>2. ~srp_poll /\ ~SrpTick
  BY PolledRemotes, AgedRemotes
<1>3. PICK st \in Remote, lva \in BOOLEAN : RxTalkerAdv(st, lva)
  BY <1>1, <1>2 DEF SrpNext, srp_vars, endpoint, srp_talker_set, ListenerEnable, ListenerDisable,
     srp_talker_enable, srp_set_bridge_mac, RxDomain, RxListener, RxMvrpLeaveAll
<1>4. remote_talkers' = [remote_talkers EXCEPT ![RemoteSlot(st)] =
        [valid |-> TRUE, stream_id |-> st, age |-> 0, before |-> FALSE]]
  BY <1>3 DEF RxTalkerAdv
<1>5. RemoteSlot(st) = i
  BY <1>4 DEF RemotesType
<1>6. remote_talkers'[i].stream_id = st
  BY <1>4, <1>5 DEF RemotesType
<1>. QED
  BY <1>5, <1>6, SlotChosen

(* The tables of the endpoint hold a stream once and are in range, and the  *)
(* SR domain is the bridge's: srp_find_talker and srp_find_listener find    *)
(* the one entry there is.                                                  *)
THEOREM SrpTablesSound == SrpSpec => []TablesSound
BY SrpInvAlways, SrpInvSound, PTL

(* No LeaveAll of either side costs a talker or the domain its registration *)
(* at the bridge.                                                           *)
THEOREM RegistrationsLast == SrpSpec => []TalkersStayRegistered
BY SrpInvAlways, SrpInvSound, PTL

(* srp_process_rx gives up a remote talker only from a full table, and then *)
(* one that was not heard of for longest on its side of a wrap of the       *)
(* millisecond counter.                                                     *)
THEOREM OldestGoes == SrpSpec => OldestEvicted
<1>1. SrpInv /\ [SrpNext]_srp_vars =>
        [\A i \in 1..RemoteSlots :
          (/\ remote_talkers[i].valid
           /\ remote_talkers'[i].valid /\ remote_talkers'[i].stream_id # remote_talkers[i].stream_id)
            => \A k \in 1..RemoteSlots :
                 /\ remote_talkers[k].valid
                 /\ remote_talkers[k].before = remote_talkers[i].before
                      => remote_talkers[k].age <= remote_talkers[i].age]_srp_vars
  BY EvictsOldest DEF SrpInv
<1>. QED
  BY <1>1, SrpInvAlways, PTL DEF SrpSpec, OldestEvicted

=============================================================================
