-------------------------- MODULE NetStack_proofs --------------------------
(***************************************************************************)
(* The IP stack and the receive gate for any number of peers, cache        *)
(* entries, transmit slots and replies, and any length of the revert.      *)
(***************************************************************************)
EXTENDS NetStack, FiniteSetTheorems, FunctionTheorems, TLAPS

Slots == 0..(ETHMAC_TX_SLOTS - 1)
GroupNames == {"ptp", "mdns", "heart", "info"}
Texts == {"reply", "mirror", "pong", "begun", "flow", "heartbeat", "device", "product", "network",
          "clock", "rates", "formats", "0x1009", "0x0084", "arp", "whohas"}
Pays == Texts \cup ({"report"} \X GroupNames)
Calls ==
  [op : {"build", "finish"}, pay : Texts]
    \cup [op : {"commit"}, ip : Peers \cup {Group}, pay : Texts]
    \cup [op : {"lookup"}, ip : Peers \cup {None}] \cup [op : {"arpreply"}, mac : Macs]
    \cup [op : {"report", "join"}, g : GroupNames] \cup [op : {"bind"}, port : Nat]
    \cup [op : {"gate"}]

(* The cache: an address has one entry, and it names the interface the      *)
(* address was last heard from.                                             *)
Entry == [ip : Peers, mac : Macs]
ArpInv ==
  /\ arp_cache \in [0..(ARP_CACHE_N - 1) -> Entry \cup {None}]
  /\ arp_next \in 0..(ARP_CACHE_N - 1)
  /\ heard \in [Peers -> Macs \cup {None}]
  /\ \A i, j \in 0..(ARP_CACHE_N - 1) :
       arp_cache[i] # None /\ arp_cache[j] # None /\ arp_cache[i].ip = arp_cache[j].ip => i = j
  /\ \A i \in 0..(ARP_CACHE_N - 1) :
       arp_cache[i] # None => arp_cache[i].mac = heard[arp_cache[i].ip]

GateState == [enable : BOOLEAN, local : BOOLEAN, pending : BOOLEAN, at : 0..(Wrap - 1),
              now : 0..(Wrap - 1), age : 0..RevertTicks]

(* The deadline is as far ahead as the revert has left to run, in the       *)
(* counter's arithmetic.                                                    *)
GateInv ==
  /\ gate \in GateState
  /\ gate.pending => /\ gate.enable /\ gate.age < RevertTicks
                     /\ \/ gate.at = gate.now + (RevertTicks - gate.age)
                        \/ gate.at = gate.now + (RevertTicks - gate.age) - Wrap
  /\ ~gate.pending => gate.age \in {0, RevertTicks}

(* A port or group of the boot sequence is in its table or still to come.   *)
BootInv ==
  /\ todo \in Seq(Calls)
  /\ udp_bindings \subseteq Ports
  /\ igmp_groups \in Seq(Groups)
  /\ \A i, j \in 1..Len(igmp_groups) : igmp_groups[i] = igmp_groups[j] => i = j
  /\ \A i \in 1..Len(todo) :
       /\ todo[i].op = "bind" => todo[i].port \in Ports
       /\ todo[i].op = "join" => todo[i].g \in Groups
       /\ todo[i].op = "gate" => ~gate.pending /\ gate.age = 0
  /\ \A p \in Ports : p \in udp_bindings
       \/ \E i \in 1..Len(todo) : todo[i].op = "bind" /\ todo[i].port = p
  /\ \A g \in Groups : g \in Joined
       \/ \E i \in 1..Len(todo) : todo[i].op = "join" /\ todo[i].g = g

SlotInv ==
  /\ tx \in [Slots -> Pays \cup {None}] /\ txslot \in Slots /\ buf \in Slots
  /\ queue \in Seq([slot : Slots, to : Macs \cup {Group}, pay : Pays]) /\ Len(queue) <= 1

TablesInv == ArpInv /\ GateInv /\ BootInv /\ SlotInv

(* A message is committed right after it was built, or after it was         *)
(* finished, and only a lookup lies between the two.                        *)
Follows(b, c) ==
  /\ c.op = "commit" => /\ b.op \in {"build", "finish"} /\ b.pay = c.pay
                        /\ b.op = "finish" => c.pay = "flow"
  /\ c.op = "finish" => b.op = "lookup"
  /\ c.op = "lookup" => b.op = "build"
Opens(c) == c.op \notin {"commit", "finish", "lookup"}
Chained(s) == \A i \in 2..Len(s) : Follows(s[i - 1], s[i])

(* What the next call relies on, and the flow handler whose lookup missed   *)
(* does not find.                                                           *)
Loaded(c) ==
  /\ c.op = "commit" => tx[txslot] = c.pay \/ (stray = "missed" /\ c.pay = "flow")
  /\ c.op = "finish" => buf = txslot \/ stray = "missed"
  /\ c.op = "lookup" => buf = txslot

(* The call that answers at interface m with p.                             *)
Sends(c, m, p) ==
  \/ c.op = "commit" /\ c.pay = p /\ Known(c.ip) /\ MacOf(c.ip) = m
  \/ c.op = "report" /\ m = Group /\ p = <<"report", c.g>>
  \/ c.op = "arpreply" /\ c.mac = m /\ p = "arp"

ChainInv ==
  /\ Chained(todo)
  /\ todo # <<>> => Loaded(todo[1])
  /\ \A i \in 1..Len(todo) : todo[i].op = "lookup" => Known(todo[i].ip) \/ stray # "no"

(* What the MAC reads from a slot is the payload it was handed for.         *)
Carries(slot, pay) == tx[slot] = pay \/ (stray = "missed" /\ pay = "flow")
QueueInv == /\ queue # <<>> => Carries(queue[1].slot, queue[1].pay)
            /\ SentAsBuilt

(* Every answer owed is with the MAC or still to be sent, unless the lookup *)
(* between missed.                                                          *)
Underway(d) == \/ \E i \in 1..Len(todo) : Sends(todo[i], d[1], d[2])
               \/ queue # <<>> /\ queue[1].to = d[1] /\ queue[1].pay = d[2]
DueInv ==
  /\ due \subseteq (Macs \cup {Group}) \X Pays
  /\ stray # "missed" => \A d \in due : Underway(d)

AnswerInv == ChainInv /\ QueueInv /\ DueInv

-----------------------------------------------------------------------------
LEMMA ConstantTypes ==
  /\ ARP_CACHE_N \in Nat /\ ARP_CACHE_N > 0 /\ ETHMAC_TX_SLOTS \in Nat /\ ETHMAC_TX_SLOTS > 0
  /\ CapReplies \in Nat /\ CapReplies > 0 /\ RevertTicks \in Nat /\ RevertTicks > 0
  /\ Wrap \in Nat /\ Wrap > 0 /\ 2 * RevertTicks < Wrap
  /\ RevertTicks < Wrap \div 2 /\ Wrap \div 2 <= Wrap - RevertTicks
  /\ ArmTimes \subseteq 0..(Wrap - 1)
  /\ Group \notin Peers /\ None \notin Peers /\ None \notin Macs /\ None \notin Entry
BY NetAssumption DEF Group, Entry

LEMMA TailFacts ==
  ASSUME NEW S, NEW s \in Seq(S), s # <<>>
  PROVE  /\ Tail(s) \in Seq(S) /\ Len(s) \in Nat /\ Len(s) > 0 /\ Head(s) = s[1] /\ s[1] \in S
         /\ Len(Tail(s)) = Len(s) - 1
         /\ \A i \in 1..Len(Tail(s)) : Tail(s)[i] = s[i + 1]
OBVIOUS

LEMMA AppendFacts ==
  ASSUME NEW S, NEW s \in Seq(S), NEW e \in S
  PROVE  /\ Append(s, e) \in Seq(S) /\ Len(s) \in Nat /\ Len(Append(s, e)) = Len(s) + 1
         /\ \A i \in 1..Len(s) : Append(s, e)[i] = s[i]
         /\ Append(s, e)[Len(s) + 1] = e
OBVIOUS

LEMMA EmptySeq ==
  ASSUME NEW S, NEW s \in Seq(S)
  PROVE  (s = <<>> <=> Len(s) = 0) /\ Len(s) \in Nat /\ DOMAIN s = 1..Len(s)
OBVIOUS

LEMMA ModFacts ==
  ASSUME NEW W \in Nat, W > 0, NEW x \in 0..(W - 1)
  PROVE  x % W = x /\ (x + W) % W = x /\ (x - W) % W = x
OBVIOUS

(* The boot sequence, as a program.                                         *)
LEMMA BootFacts ==
  /\ Boot \in Seq(Calls) /\ Len(Boot) = 16 /\ DOMAIN Boot = 1..16
  /\ Boot[1].op = "gate"
  /\ \A i \in 1..16 : Opens(Boot[i])
  /\ \A i \in 1..16 : Boot[i].op = "join" => Boot[i].g \in GroupNames
<1>1. GateInit \in Calls /\ \A g \in GroupNames : Join(g) \in Calls
  BY DEF GateInit, Join, Calls
<1>2. \A n \in Nat : Bind(n) \in Calls
  BY DEF Bind, Calls
<1>4. \A i \in 1..16 : Boot[i] \in {GateInit} \cup {Join(g) : g \in GroupNames}
                                      \cup {Bind(n) : n \in Nat}
  BY DEF Boot, GroupNames
<1>3. Boot \in Seq(Calls) /\ Len(Boot) = 16 /\ DOMAIN Boot = 1..16
  <2>1. Len(Boot) = 16 /\ DOMAIN Boot = 1..16 /\ Boot = [i \in 1..16 |-> Boot[i]]
    BY DEF Boot
  <2>2. \A i \in 1..16 : Boot[i] \in Calls
    <3>1. \A i \in 1..16 : \/ Boot[i] = GateInit \/ \E n \in Nat : Boot[i] = Bind(n)
                           \/ \E g \in GroupNames : Boot[i] = Join(g)
      BY <1>4
    <3>. QED
      BY <1>1, <1>2, <3>1
  <2>3. [i \in 1..16 |-> Boot[i]] \in Seq(Calls)
    BY <2>2
  <2>. QED
    BY <2>1, <2>3
<1>5. ASSUME NEW i \in 1..16
      PROVE  /\ Opens(Boot[i])
             /\ Boot[i].op = "join" => Boot[i].g \in GroupNames
  BY <1>4 DEF Opens, GateInit, Join, Bind
<1>. QED
  BY <1>3, <1>4, <1>5 DEF Boot, GateInit

(* Both tables have room for what boot puts into them.                      *)
LEMMA BootFits ==
  /\ IsFiniteSet(Ports) /\ Cardinality(Ports) < UDP_BINDINGS
  /\ Groups \subseteq GroupNames /\ IsFiniteSet(Groups) /\ Cardinality(Groups) < IGMP_N
<1> DEFINE J == {j \in DOMAIN Boot : Boot[j].op = "bind"}
           f == [i \in J |-> Boot[i].port]
<1>1. J \subseteq 2..16
  <2>1. ASSUME NEW j \in DOMAIN Boot, Boot[j].op = "bind" PROVE j \in 2..16
    <3>1. j \in 1..16 /\ j # 1
      BY <2>1, BootFacts
    <3>. QED
      BY <3>1
  <2>. QED
    BY <2>1
<1>2. IsFiniteSet(2..16) /\ Cardinality(2..16) = 15
  <2>1. \A a, b \in Int : a <= b => IsFiniteSet(a..b) /\ Cardinality(a..b) = b - a + 1
    BY FS_Interval
  <2>2. IsFiniteSet(2..16) /\ Cardinality(2..16) = 16 - 2 + 1
    <3>1. 2 \in Int /\ 16 \in Int /\ 2 <= 16
      OBVIOUS
    <3>. QED
      BY <2>1, <3>1, Zenon
  <2>. QED
    <3>1. 16 - 2 + 1 = 15
      OBVIOUS
    <3>. QED
      BY <2>2, <3>1, Zenon
<1>3. IsFiniteSet(J) /\ Cardinality(J) <= 15 /\ Cardinality(J) \in Nat
  BY <1>1, <1>2, FS_Subset, FS_CardinalityType
<1>4. Ports = {Boot[i].port : i \in J}
  BY DEF Ports
<1>5. f \in Surjection(J, Ports)
  <2> HIDE DEF J
  <2>. QED
    BY <1>4 DEF Surjection
<1> HIDE DEF f, J
<1>6. IsFiniteSet(Ports) /\ Cardinality(Ports) <= Cardinality(J) /\ Cardinality(Ports) \in Nat
  BY <1>3, <1>5, FS_Surjection, FS_CardinalityType
<1>7. Groups \subseteq GroupNames
  BY BootFacts DEF Groups
<1>8. IsFiniteSet(GroupNames) /\ Cardinality(GroupNames) <= 4
  <2>1. IsFiniteSet({"ptp"}) /\ Cardinality({"ptp"}) = 1
    BY FS_Singleton
  <2>2. IsFiniteSet({"ptp"} \cup {"mdns"}) /\ Cardinality({"ptp"} \cup {"mdns"}) <= 2
    BY <2>1, FS_AddElement
  <2> DEFINE B == {"ptp"} \cup {"mdns"}
  <2>3. IsFiniteSet(B) /\ Cardinality(B) <= 2 /\ Cardinality(B) \in Nat
    BY <2>2, FS_CardinalityType
  <2>4. GroupNames = (B \cup {"heart"}) \cup {"info"}
    BY DEF GroupNames
  <2> HIDE DEF B
  <2>5. IsFiniteSet(B \cup {"heart"}) /\ Cardinality(B \cup {"heart"}) <= 3
        /\ Cardinality(B \cup {"heart"}) \in Nat
    <3>1. /\ IsFiniteSet(B \cup {"heart"})
          /\ Cardinality(B \cup {"heart"}) = IF "heart" \in B THEN Cardinality(B) ELSE Cardinality(B) + 1
      BY <2>3, FS_AddElement
    <3>. QED
      BY <2>3, <3>1, FS_CardinalityType
  <2> DEFINE C == B \cup {"heart"}
  <2> HIDE DEF C
  <2>6. IsFiniteSet(C \cup {"info"}) /\ Cardinality(C \cup {"info"}) <= 4
    BY <2>5, FS_AddElement DEF C
  <2>. QED
    <3>1. GroupNames = C \cup {"info"}
      BY <2>4 DEF C
    <3>. QED
      BY <2>6, <3>1
<1>9. IsFiniteSet(Groups) /\ Cardinality(Groups) <= Cardinality(GroupNames)
      /\ Cardinality(Groups) \in Nat /\ Cardinality(GroupNames) \in Nat
  BY <1>7, <1>8, FS_Subset, FS_CardinalityType
<1>. QED
  BY <1>3, <1>6, <1>7, <1>8, <1>9 DEF UDP_BINDINGS, IGMP_N

-----------------------------------------------------------------------------
(* What the cache says of an address.                                       *)
CacheFacts ==
  \A i \in 0..(ARP_CACHE_N - 1) : arp_cache[i] # None =>
     /\ Cached(arp_cache[i].ip) = {i} /\ Known(arp_cache[i].ip)
     /\ MacOf(arp_cache[i].ip) = arp_cache[i].mac

LEMMA CacheRead == ArpInv => CacheFacts
<1> SUFFICES ASSUME ArpInv, NEW i \in 0..(ARP_CACHE_N - 1), arp_cache[i] # None
             PROVE  /\ Cached(arp_cache[i].ip) = {i} /\ Known(arp_cache[i].ip)
                    /\ MacOf(arp_cache[i].ip) = arp_cache[i].mac
  BY DEF CacheFacts
<1>1. DOMAIN arp_cache = 0..(ARP_CACHE_N - 1) /\ arp_cache[i] \in Entry
  BY DEF ArpInv
<1>2. arp_cache[i].ip \in Peers /\ arp_cache[i].ip # Group
  BY <1>1, ConstantTypes DEF Entry
<1>3. Cached(arp_cache[i].ip) = {i}
  BY <1>1 DEF Cached, ArpInv
<1>4. First({i}) = i
  BY DEF First
<1>. QED
  BY <1>2, <1>3, <1>4 DEF Known, MacOf

LEMMA CacheReadNext == ArpInv' => CacheFacts'
BY CacheRead, PTL

(* A frame from ip, mac: the address now leads there, and no other entry    *)
(* went stale.                                                              *)
LEMMA LearnKeeps ==
  ASSUME ArpInv, NEW ip \in Peers, NEW mac \in Macs, arp_learn(ip, mac)
  PROVE  ArpInv' /\ Known(ip)' /\ MacOf(ip)' = mac
<1> DEFINE D == 0..(ARP_CACHE_N - 1)
           e == [ip |-> ip, mac |-> mac]
<1>1. /\ arp_cache \in [D -> Entry \cup {None}] /\ arp_next \in D
      /\ heard \in [Peers -> Macs \cup {None}] /\ DOMAIN arp_cache = D
  BY DEF ArpInv
<1>2. e \in Entry /\ e # None /\ e.ip = ip /\ e.mac = mac
  BY ConstantTypes DEF Entry
<1>3. PICK k \in D :
        /\ arp_cache' = [arp_cache EXCEPT ![k] = e] /\ arp_next' \in D
        /\ \A i \in D \ {k} : arp_cache[i] # None => arp_cache[i].ip # ip
  <2>1. CASE Cached(ip) # {}
    <3>1. PICK k \in D : arp_cache[k] # None /\ arp_cache[k].ip = ip
      BY <1>1, <2>1 DEF Cached
    <3>2. Cached(ip) = {k}
      BY <3>1, CacheRead DEF CacheFacts
    <3>3. First(Cached(ip)) = k
      BY <3>2 DEF First
    <3>4. arp_cache' = [arp_cache EXCEPT ![k].mac = mac] /\ arp_next' = arp_next
      BY <2>1, <3>3 DEF arp_learn, Learnt
    <3>5. arp_cache[k] \in Entry
      BY <1>1, <3>1
    <3>6. [arp_cache[k] EXCEPT !.mac = mac] = e
      BY <3>1, <3>5 DEF Entry
    <3>7. arp_cache' = [arp_cache EXCEPT ![k] = e]
      BY <3>4, <3>6
    <3>8. \A i \in D \ {k} : arp_cache[i] # None => arp_cache[i].ip # ip
      BY <3>1 DEF ArpInv
    <3>. QED
      BY <1>1, <3>4, <3>7, <3>8
  <2>2. CASE Cached(ip) = {}
    <3>1. arp_cache' = [arp_cache EXCEPT ![arp_next] = e] /\ arp_next' = (arp_next + 1) % ARP_CACHE_N
      BY <2>2 DEF arp_learn, Learnt
    <3>2. arp_next' \in D
      BY <1>1, <3>1, ConstantTypes
    <3>3. \A i \in D : arp_cache[i] # None => arp_cache[i].ip # ip
      BY <1>1, <2>2 DEF Cached
    <3>. QED
      BY <1>1, <3>1, <3>2, <3>3
  <2>. QED
    BY <2>1, <2>2
<1> HIDE DEF e
<1>4. /\ arp_cache' \in [D -> Entry \cup {None}] /\ DOMAIN arp_cache' = D /\ arp_cache'[k] = e
      /\ \A i \in D \ {k} : arp_cache'[i] = arp_cache[i]
  BY <1>1, <1>2, <1>3
<1>5. /\ heard' = [p \in Peers |-> IF p = ip THEN mac ELSE IF Cached(p)' # {} THEN heard[p] ELSE None]
      /\ heard' \in [Peers -> Macs \cup {None}]
  BY <1>1 DEF arp_learn
<1>6. \A i, j \in D : arp_cache'[i] # None /\ arp_cache'[j] # None
        /\ arp_cache'[i].ip = arp_cache'[j].ip => i = j
  BY <1>2, <1>3, <1>4 DEF ArpInv
<1>7. ASSUME NEW i \in D, arp_cache'[i] # None
      PROVE  arp_cache'[i].mac = heard'[arp_cache'[i].ip]
  <2>1. CASE i = k
    BY <1>2, <1>4, <1>5, <2>1
  <2>2. CASE i # k
    <3>1. arp_cache'[i] = arp_cache[i] /\ arp_cache[i] \in Entry /\ arp_cache[i].ip # ip
      BY <1>1, <1>3, <1>4, <1>7, <2>2
    <3>2. arp_cache[i].ip \in Peers
      BY <3>1 DEF Entry
    <3>3. Cached(arp_cache[i].ip)' # {}
      <4>1. i \in {j \in DOMAIN arp_cache' : arp_cache'[j] # None /\ arp_cache'[j].ip = arp_cache'[i].ip}
        BY <1>4, <1>7
      <4>. QED
        BY <3>1, <4>1 DEF Cached
    <3>4. heard'[arp_cache[i].ip] = heard[arp_cache[i].ip]
      BY <1>5, <3>1, <3>2, <3>3
    <3>. QED
      BY <1>7, <3>1, <3>4 DEF ArpInv
  <2>. QED
    BY <2>1, <2>2
<1>8. ArpInv'
  BY <1>3, <1>4, <1>5, <1>6, <1>7 DEF ArpInv
<1>9. CacheFacts'
  BY <1>8, CacheReadNext
<1>. QED
  BY <1>2, <1>4, <1>8, <1>9 DEF CacheFacts

-----------------------------------------------------------------------------
GateTo(g, en, p, t, a, n) ==
  [g EXCEPT !.enable = en, !.pending = p, !.now = t, !.at = a, !.age = n]

LEMMA GateWritten ==
  ASSUME NEW g \in GateState, NEW en \in BOOLEAN, NEW p \in BOOLEAN, NEW t \in 0..(Wrap - 1),
         NEW a \in 0..(Wrap - 1), NEW n \in 0..RevertTicks, NEW r, r = GateTo(g, en, p, t, a, n)
  PROVE  /\ r \in GateState /\ r.enable = en /\ r.pending = p /\ r.now = t /\ r.at = a /\ r.age = n
BY DEF GateState, GateTo

(* Nothing is pending and the clock is not running.                         *)
LEMMA GateAtRest ==
  ASSUME GateInv, NEW en \in BOOLEAN, NEW p \in BOOLEAN, NEW z \in 0..(Wrap - 1),
         NEW a \in 0..(Wrap - 1), NEW n \in 0..RevertTicks,
         p = FALSE, n \in {0, RevertTicks}, gate' = GateTo(gate, en, p, z, a, n)
  PROVE  GateInv'
<1>1. gate \in GateState
  BY DEF GateInv
<1>2. gate' \in GateState /\ gate'.pending = p /\ gate'.age = n
  BY <1>1, GateWritten
<1>3. gate'.pending = FALSE
  BY <1>2
<1>. QED
  BY <1>2, <1>3 DEF GateInv

LEMMA SetGate ==
  ASSUME GateInv, NEW on \in BOOLEAN, NEW revert \in {0, RevertTicks}, revert > 0 => on,
         rx_gate_set(on, revert)
  PROVE  GateInv'
<1>1. CASE revert = RevertTicks
  <2>1. PICK t \in ArmTimes : gate' = [gate EXCEPT !.enable = on, !.pending = on /\ revert > 0,
                                         !.now = t, !.at = (t + revert) % Wrap, !.age = 0]
    BY <1>1, ConstantTypes DEF rx_gate_set
  <2>2. on = TRUE /\ (on /\ revert > 0) = TRUE
    BY <1>1, ConstantTypes
  <2> DEFINE en == on
             a == (t + RevertTicks) % Wrap
  <2>3. gate' = GateTo(gate, en, en, t, a, 0)
    BY <1>1, <2>1, <2>2 DEF GateTo
  <2>4. /\ t \in 0..(Wrap - 1) /\ a \in 0..(Wrap - 1)
        /\ a = t + RevertTicks \/ a = t + RevertTicks - Wrap
    <3>1. t \in 0..(Wrap - 1)
      BY ConstantTypes
    <3>2. CASE t + RevertTicks < Wrap
      <4>1. t + RevertTicks \in 0..(Wrap - 1)
        BY <3>1, <3>2, ConstantTypes
      <4>2. a = t + RevertTicks
        BY <4>1, ModFacts, ConstantTypes
      <4>. QED
        BY <3>1, <4>1, <4>2
    <3>3. CASE t + RevertTicks >= Wrap
      <4> DEFINE x == t + RevertTicks - Wrap
      <4>1. x \in 0..(Wrap - 1) /\ x + Wrap = t + RevertTicks
        BY <3>1, <3>3, ConstantTypes
      <4>2. (x + Wrap) % Wrap = x
        <5> HIDE DEF x
        <5>. QED
          BY <4>1, ModFacts, ConstantTypes
      <4>. QED
        BY <3>1, <4>1, <4>2
    <3>. QED
      BY <3>1, <3>2, <3>3, ConstantTypes
  <2> HIDE DEF en, a
  <2>5. gate \in GateState /\ en \in BOOLEAN /\ 0 \in 0..RevertTicks
    BY ConstantTypes DEF GateInv, en
  <2>6. /\ gate' \in GateState /\ gate'.enable = en /\ gate'.pending = en /\ gate'.now = t
        /\ gate'.at = a /\ gate'.age = 0
    BY <2>3, <2>4, <2>5, GateWritten
  <2>7. gate'.enable /\ gate'.pending
    BY <2>2, <2>6 DEF en
  <2>8. gate'.at = gate'.now + (RevertTicks - gate'.age)
          \/ gate'.at = gate'.now + (RevertTicks - gate'.age) - Wrap
    BY <2>4, <2>6, ConstantTypes
  <2>. QED
    BY <2>6, <2>7, <2>8, ConstantTypes DEF GateInv
<1>2. CASE revert = 0
  <2>1. gate' = [gate EXCEPT !.enable = on, !.pending = on /\ revert > 0,
                             !.now = 0, !.at = (0 + revert) % Wrap, !.age = 0]
    BY <1>2 DEF rx_gate_set
  <2>2. (on /\ revert > 0) = FALSE /\ (0 + revert) % Wrap = 0 /\ 0 \in 0..(Wrap - 1)
    <3>1. 0 \in 0..(Wrap - 1) /\ 0 + revert = 0
      BY <1>2, ConstantTypes
    <3>2. 0 % Wrap = 0
      BY <3>1, ModFacts, ConstantTypes
    <3>. QED
      BY <1>2, <3>1, <3>2
  <2> DEFINE p == FALSE
             z == 0
  <2>3. /\ gate' = GateTo(gate, on, p, z, z, z) /\ p \in BOOLEAN /\ p = FALSE
        /\ z \in 0..(Wrap - 1) /\ z \in 0..RevertTicks /\ z \in {0, RevertTicks}
    <3>1. gate' = [gate EXCEPT !.enable = on, !.pending = FALSE, !.now = 0, !.at = 0, !.age = 0]
      BY <2>1, <2>2, Zenon
    <3>2. z \in 0..(Wrap - 1) /\ z \in 0..RevertTicks /\ z \in {0, RevertTicks}
      BY ConstantTypes
    <3>. QED
      BY <3>1, <3>2 DEF GateTo
  <2> HIDE DEF p, z
  <2>. QED
    BY <2>3, GateAtRest
<1>. QED
  BY <1>1, <1>2

(* The tick in which the signed difference turns is the one in which the    *)
(* revert has run, wherever the counter wraps.                              *)
LEMMA PollGate ==
  ASSUME GateInv, rx_gate_poll
  PROVE  GateInv'
<1> DEFINE n == gate.age + 1
           t == (gate.now + 1) % Wrap
           k == RevertTicks - gate.age
           g == [gate EXCEPT !.age = @ + 1, !.now = (@ + 1) % Wrap]
<1>1. /\ gate \in GateState /\ gate.pending = TRUE /\ gate.enable = TRUE /\ gate.age < RevertTicks
      /\ gate.at = gate.now + k \/ gate.at = gate.now + k - Wrap
  BY DEF rx_gate_poll, GateInv, GateState
<1>2. gate.age \in 0..RevertTicks /\ gate.at \in 0..(Wrap - 1) /\ gate.now \in 0..(Wrap - 1)
  BY <1>1 DEF GateState
<1>3. t \in 0..(Wrap - 1) /\ (t = gate.now + 1 \/ (t = gate.now + 1 - Wrap /\ gate.now = Wrap - 1))
  <2>1. CASE gate.now + 1 < Wrap
    <3>1. gate.now + 1 \in 0..(Wrap - 1)
      BY <1>2, <2>1, ConstantTypes
    <3>. QED
      BY <3>1, ModFacts, ConstantTypes
  <2>2. CASE gate.now = Wrap - 1
    <3>1. 0 \in 0..(Wrap - 1) /\ gate.now + 1 = 0 + Wrap
      BY <2>2, ConstantTypes
    <3>2. (0 + Wrap) % Wrap = 0
      BY <3>1, ModFacts, ConstantTypes
    <3>. QED
      BY <2>2, <3>1, <3>2, ConstantTypes
  <2>. QED
    BY <1>2, <2>1, <2>2, ConstantTypes
<1>4. n \in 1..RevertTicks /\ k \in 1..RevertTicks
  BY <1>1, <1>2, ConstantTypes
<1>5. /\ g.now = t /\ g.at = gate.at /\ g = GateTo(gate, gate.enable, gate.pending, t, gate.at, n)
  BY <1>1 DEF GateTo, GateState
<1>6. gate' = IF Reached(t, gate.at)
                THEN [g EXCEPT !.pending = FALSE, !.enable = FALSE, !.now = 0, !.at = 0] ELSE g
  BY <1>5 DEF rx_gate_poll
<1> HIDE DEF g, t
<1>7. CASE k = 1
  <2>1. t - gate.at \in {0, Wrap, -Wrap}
    BY <1>1, <1>2, <1>3, <1>7, ConstantTypes
  <2>2. (t - gate.at) % Wrap = 0
    <3>1. 0 \in 0..(Wrap - 1) /\ 0 + Wrap = Wrap /\ 0 - Wrap = -Wrap
      BY ConstantTypes
    <3>2. 0 % Wrap = 0 /\ (0 + Wrap) % Wrap = 0 /\ (0 - Wrap) % Wrap = 0
      BY <3>1, ModFacts, ConstantTypes
    <3>. QED
      BY <2>1, <3>1, <3>2
  <2>3. Reached(t, gate.at)
    BY <2>2, ConstantTypes DEF Reached
  <2>4. gate' = [g EXCEPT !.pending = FALSE, !.enable = FALSE, !.now = 0, !.at = 0]
    BY <1>6, <2>3
  <2> DEFINE p == FALSE
             z == 0
  <2>5. gate' = GateTo(gate, p, p, z, z, n)
    BY <1>1, <1>5, <2>4 DEF GateTo, GateState
  <2>6. /\ n \in {0, RevertTicks} /\ n \in 0..RevertTicks /\ z \in 0..(Wrap - 1)
        /\ p \in BOOLEAN /\ p = FALSE
    BY <1>2, <1>4, <1>7, ConstantTypes
  <2> HIDE DEF p, z, n
  <2>. QED
    BY <2>5, <2>6, GateAtRest
<1>8. CASE k > 1
  <2> DEFINE x == Wrap + 1 - k
  <2>1. x \in 0..(Wrap - 1) /\ x >= Wrap \div 2 /\ Wrap \div 2 \in Int
    BY <1>4, <1>8, ConstantTypes
  <2>2. t - gate.at \in {x, x - Wrap}
    BY <1>1, <1>2, <1>3, <1>4, <1>8, ConstantTypes
  <2>3. (t - gate.at) % Wrap = x
    <3> HIDE DEF x
    <3>1. x % Wrap = x /\ (x - Wrap) % Wrap = x
      BY <2>1, ModFacts, ConstantTypes
    <3>. QED
      BY <2>2, <3>1
  <2>4. ~Reached(t, gate.at)
    BY <2>1, <2>3 DEF Reached
  <2>5. gate' = GateTo(gate, gate.enable, gate.pending, t, gate.at, n)
    BY <1>5, <1>6, <2>4
  <2>6. gate.enable \in BOOLEAN /\ gate.pending \in BOOLEAN /\ n \in 0..RevertTicks
    BY <1>1, <1>4 DEF GateState
  <2>7. /\ gate' \in GateState /\ gate'.enable = gate.enable /\ gate'.pending = gate.pending
        /\ gate'.now = t /\ gate'.at = gate.at /\ gate'.age = n
    <3> HIDE DEF n
    <3>. QED
      BY <1>1, <1>2, <1>3, <2>5, <2>6, GateWritten
  <2>8. n < RevertTicks /\ (gate.at = t + (RevertTicks - n) \/ gate.at = t + (RevertTicks - n) - Wrap)
    BY <1>1, <1>2, <1>3, <1>4, <1>8, ConstantTypes
  <2>. QED
    BY <1>1, <2>7, <2>8 DEF GateInv
<1>. QED
  BY <1>4, <1>7, <1>8

-----------------------------------------------------------------------------
(* The gate after a call of main's boot sequence, a command or a poll.      *)
GateOpened(g, b, p) == [g EXCEPT !.local = b, !.enable = b, !.pending = p]

LEMMA OpenedGate ==
  ASSUME NEW g \in GateState, NEW b \in BOOLEAN, NEW p \in BOOLEAN, NEW r, r = GateOpened(g, b, p)
  PROVE  r \in GateState /\ r.pending = p /\ r.age = g.age
BY DEF GateState, GateOpened

LEMMA InitGate ==
  ASSUME GateInv, BootInv, rx_gate_init
  PROVE  GateInv' /\ ~gate'.pending /\ gate'.age = 0
<1> DEFINE b == TRUE
           p == FALSE
<1>1. gate' = GateOpened(gate, b, p)
  BY DEF rx_gate_init, GateOpened
<1>2. b \in BOOLEAN /\ p \in BOOLEAN /\ p = FALSE /\ gate \in GateState
  BY DEF GateInv
<1>3. gate.age = 0
  <2>1. todo # <<>> /\ Head(todo).op = "gate" /\ todo \in Seq(Calls)
    BY DEF rx_gate_init, Call, BootInv
  <2>2. Len(todo) \in Nat /\ Len(todo) > 0 /\ Head(todo) = todo[1]
    BY <2>1, TailFacts
  <2>3. 1 \in 1..Len(todo) /\ todo[1].op = "gate"
    BY <2>1, <2>2
  <2>. QED
    BY <2>3 DEF BootInv
<1> HIDE DEF b, p
<1>4. gate' \in GateState /\ gate'.pending = p /\ gate'.age = gate.age
  BY <1>1, <1>2, OpenedGate
<1>5. gate'.pending = FALSE
  BY <1>2, <1>4
<1>. QED
  BY <1>3, <1>4, <1>5 DEF GateInv

LEMMA CommandGate ==
  ASSUME GateInv, NEW cmd \in {"1", "0", "c"}, rxgate_rx(cmd)
  PROVE  GateInv'
<1>1. CASE cmd = "1"
  <2>1. rx_gate_set(TRUE, RevertTicks)
    BY <1>1 DEF rxgate_rx
  <2> DEFINE on == TRUE
  <2>2. on \in BOOLEAN /\ on /\ rx_gate_set(on, RevertTicks)
    BY <2>1
  <2> HIDE DEF on
  <2>. QED
    BY <2>2, SetGate
<1>2. CASE cmd = "0"
  <2>1. rx_gate_set(FALSE, 0)
    BY <1>2 DEF rxgate_rx
  <2> DEFINE on == FALSE
  <2>2. on \in BOOLEAN /\ rx_gate_set(on, 0)
    BY <2>1
  <2>3. ~(0 > 0)
    OBVIOUS
  <2> HIDE DEF on
  <2>. QED
    BY <2>2, <2>3, SetGate
<1>3. CASE cmd = "c"
  <2>1. IF gate.pending THEN rx_gate_commit ELSE UNCHANGED gate
    BY <1>3 DEF rxgate_rx
  <2>2. ASSUME rx_gate_commit PROVE GateInv'
    <3> DEFINE p == FALSE
               z == 0
               en == gate.enable
    <3>1. gate \in GateState
      BY DEF GateInv
    <3>2. gate' = GateTo(gate, en, p, z, z, z)
      BY <2>2, <3>1 DEF rx_gate_commit, GateTo, GateState
    <3>3. /\ en \in BOOLEAN /\ p \in BOOLEAN /\ p = FALSE /\ z \in 0..(Wrap - 1)
          /\ z \in 0..RevertTicks /\ z \in {0, RevertTicks}
      BY <3>1, ConstantTypes DEF GateState
    <3> HIDE DEF en, p, z
    <3>. QED
      BY <3>2, <3>3, GateAtRest
  <2>3. ASSUME UNCHANGED gate PROVE GateInv'
    BY <2>3 DEF GateInv
  <2>. QED
    BY <2>1, <2>2, <2>3
<1>. QED
  BY <1>1, <1>2, <1>3

LEMMA ToggleGate ==
  ASSUME GateInv, ConsoleX
  PROVE  GateInv'
<1> DEFINE on == ~gate.enable
<1>1. on \in BOOLEAN /\ rx_gate_set(on, 0)
  BY DEF ConsoleX
<1>2. ~(0 > 0)
  OBVIOUS
<1> HIDE DEF on
<1>. QED
  BY <1>1, <1>2, SetGate

-----------------------------------------------------------------------------
(* A handler: a sequence of calls that begins with none that relies on an   *)
(* earlier one, and that looks up addresses of A only.                      *)
Program(s, A) ==
  /\ s \in Seq(Calls) /\ Chained(s)
  /\ s # <<>> => Opens(s[1])
  /\ \A i \in 1..Len(s) : /\ s[i].op \notin {"bind", "join", "gate"}
                          /\ s[i].op = "lookup" => s[i].ip \in A
Has(s, c) == \E i \in 1..Len(s) : s[i] = c

LEMMA CallTypes ==
  /\ \A pay \in Texts : Build(pay) \in Calls /\ Build(pay).op = "build" /\ Build(pay).pay = pay
  /\ \A pay \in Texts : Finish(pay) \in Calls /\ Finish(pay).op = "finish" /\ Finish(pay).pay = pay
  /\ \A ip \in Peers \cup {Group}, pay \in Texts :
       /\ Commit(ip, pay) \in Calls /\ Commit(ip, pay).op = "commit" /\ Commit(ip, pay).pay = pay
       /\ Commit(ip, pay).ip = ip
  /\ \A ip \in Peers \cup {None} : Lookup(ip) \in Calls /\ Lookup(ip).op = "lookup" /\ Lookup(ip).ip = ip
  /\ \A mac \in Macs : ArpReply(mac) \in Calls /\ ArpReply(mac).op = "arpreply" /\ ArpReply(mac).mac = mac
  /\ \A g \in GroupNames : Report(g) \in Calls /\ Report(g).op = "report" /\ Report(g).g = g
<1>1. \A pay \in Texts : Build(pay) \in Calls /\ Build(pay).op = "build" /\ Build(pay).pay = pay
  BY DEF Build, Calls
<1>2. \A pay \in Texts : Finish(pay) \in Calls /\ Finish(pay).op = "finish" /\ Finish(pay).pay = pay
  BY DEF Finish, Calls
<1>3. \A ip \in Peers \cup {Group}, pay \in Texts :
       /\ Commit(ip, pay) \in Calls /\ Commit(ip, pay).op = "commit" /\ Commit(ip, pay).pay = pay
       /\ Commit(ip, pay).ip = ip
  BY DEF Commit, Calls
<1>4. \A ip \in Peers \cup {None} : Lookup(ip) \in Calls /\ Lookup(ip).op = "lookup" /\ Lookup(ip).ip = ip
  BY DEF Lookup, Calls
<1>5. \A mac \in Macs : ArpReply(mac) \in Calls /\ ArpReply(mac).op = "arpreply" /\ ArpReply(mac).mac = mac
  BY DEF ArpReply, Calls
<1>6. \A g \in GroupNames : Report(g) \in Calls /\ Report(g).op = "report" /\ Report(g).g = g
  BY DEF Report, Calls
<1>. QED
  BY <1>1, <1>2, <1>3, <1>4, <1>5, <1>6

LEMMA EmptyProgram ==
  ASSUME NEW A
  PROVE  Program(<<>>, A)
BY DEF Program, Chained

LEMMA AnswerProgram ==
  ASSUME NEW A, NEW ip \in Peers \cup {Group}, NEW pay \in Texts
  PROVE  Program(Answer(ip, pay), A) /\ Has(Answer(ip, pay), Commit(ip, pay))
<1> DEFINE b == Build(pay)
           c == Commit(ip, pay)
           s == Answer(ip, pay)
<1>1. /\ b \in Calls /\ b.op = "build" /\ b.pay = pay
      /\ c \in Calls /\ c.op = "commit" /\ c.pay = pay
  BY CallTypes
<1>2. s = <<b, c>>
  BY DEF Answer
<1> HIDE DEF b, c, s
<1>3. s \in Seq(Calls) /\ Len(s) = 2 /\ s[1] = b /\ s[2] = c
  BY <1>1, <1>2
<1>4. Follows(b, c) /\ Opens(b)
  BY <1>1 DEF Follows, Opens
<1>5. Program(s, A)
  BY <1>1, <1>3, <1>4 DEF Program, Chained
<1>6. Has(s, c)
  BY <1>3 DEF Has
<1>. QED
  BY <1>5, <1>6 DEF s, c

LEMMA ProgramsJoin ==
  ASSUME NEW A, NEW s, NEW t, Program(s, A), Program(t, A)
  PROVE  Program(s \o t, A) /\ \A c : Has(s, c) \/ Has(t, c) => Has(s \o t, c)
<1> DEFINE u == s \o t
<1>1. s \in Seq(Calls) /\ t \in Seq(Calls) /\ Len(s) \in Nat /\ Len(t) \in Nat
  BY DEF Program
<1>2. /\ u \in Seq(Calls) /\ Len(u) = Len(s) + Len(t)
      /\ \A i \in 1..Len(s) : u[i] = s[i]
      /\ \A i \in 1..Len(t) : u[Len(s) + i] = t[i]
  BY <1>1
<1> HIDE DEF u
<1>3. ASSUME NEW i \in 1..Len(u)
      PROVE  i \in 1..Len(s) \/ \E j \in 1..Len(t) : i = Len(s) + j
  <2>1. CASE i > Len(s)
    <3>1. i - Len(s) \in 1..Len(t) /\ i = Len(s) + (i - Len(s))
      BY <1>1, <1>2, <2>1
    <3>. QED
      BY <3>1
  <2>. QED
    BY <1>1, <1>2, <2>1
<1>4. ASSUME NEW i \in 2..Len(u) PROVE Follows(u[i - 1], u[i])
  <2>1. CASE i \in 1..Len(s)
    <3>1. i \in 2..Len(s) /\ u[i] = s[i] /\ u[i - 1] = s[i - 1]
      BY <1>1, <1>2, <2>1
    <3>. QED
      BY <3>1 DEF Program, Chained
  <2>2. ASSUME NEW j \in 1..Len(t), i = Len(s) + j PROVE Follows(u[i - 1], u[i])
    <3>1. CASE j = 1
      <4>1. u[i] = t[1] /\ t # <<>>
        BY <1>1, <1>2, <2>2, <3>1
      <4>2. Opens(u[i])
        BY <4>1 DEF Program
      <4>. QED
        BY <4>2 DEF Opens, Follows
    <3>2. CASE j > 1
      <4>1. j \in 2..Len(t) /\ j - 1 \in 1..Len(t) /\ i - 1 = Len(s) + (j - 1)
        BY <1>1, <2>2, <3>2
      <4>2. u[i] = t[j] /\ u[i - 1] = t[j - 1]
        BY <1>2, <2>2, <4>1
      <4>. QED
        BY <4>1, <4>2 DEF Program, Chained
    <3>. QED
      BY <3>1, <3>2
  <2>3. i \in 1..Len(u)
    BY <1>1, <1>2
  <2>. QED
    BY <1>3, <2>1, <2>2, <2>3
<1>5. u # <<>> => Opens(u[1])
  <2>1. CASE Len(s) > 0
    <3>1. u[1] = s[1] /\ s # <<>>
      BY <1>1, <1>2, <2>1
    <3>. QED
      BY <3>1 DEF Program
  <2>2. CASE Len(s) = 0 /\ Len(t) > 0
    <3>1. u[1] = t[1] /\ t # <<>>
      BY <1>1, <1>2, <2>2
    <3>. QED
      BY <3>1 DEF Program
  <2>3. CASE Len(s) = 0 /\ Len(t) = 0
    BY <1>2, <2>3, EmptySeq
  <2>. QED
    BY <1>1, <2>1, <2>2, <2>3
<1>6. ASSUME NEW i \in 1..Len(u)
      PROVE  u[i].op \notin {"bind", "join", "gate"} /\ (u[i].op = "lookup" => u[i].ip \in A)
  BY <1>2, <1>3 DEF Program
<1>7. Program(u, A)
  BY <1>2, <1>4, <1>5, <1>6 DEF Program, Chained
<1>8. ASSUME NEW c, Has(s, c) \/ Has(t, c) PROVE Has(u, c)
  <2>1. CASE Has(s, c)
    <3>1. PICK i \in 1..Len(s) : s[i] = c
      BY <2>1 DEF Has
    <3>2. i \in 1..Len(u) /\ u[i] = c
      BY <1>1, <1>2, <3>1
    <3>. QED
      BY <3>2 DEF Has
  <2>2. CASE Has(t, c)
    <3>1. PICK i \in 1..Len(t) : t[i] = c
      BY <2>2 DEF Has
    <3>2. Len(s) + i \in 1..Len(u) /\ u[Len(s) + i] = c
      BY <1>1, <1>2, <3>1
    <3>. QED
      BY <3>2 DEF Has
  <2>. QED
    BY <1>8, <2>1, <2>2
<1>. QED
  BY <1>7, <1>8 DEF u

(* A call that relies on no other, and a list of them.                      *)
LEMMA ReportProgram ==
  ASSUME NEW A, NEW q \in Seq(GroupNames)
  PROVE  /\ Program([i \in DOMAIN q |-> Report(q[i])], A)
         /\ \A i \in DOMAIN q : Has([j \in DOMAIN q |-> Report(q[j])], Report(q[i]))
<1> DEFINE s == [i \in DOMAIN q |-> Report(q[i])]
<1>1. Len(q) \in Nat /\ DOMAIN q = 1..Len(q) /\ \A i \in 1..Len(q) : q[i] \in GroupNames
  OBVIOUS
<1>2. \A i \in 1..Len(q) : Report(q[i]) \in Calls /\ Report(q[i]).op = "report"
  BY <1>1, CallTypes
<1>3. s \in Seq(Calls) /\ Len(s) = Len(q) /\ \A i \in 1..Len(q) : s[i] = Report(q[i])
  BY <1>1, <1>2
<1> HIDE DEF s
<1>4. \A i \in 1..Len(s) : s[i].op = "report"
  BY <1>2, <1>3
<1>5. \A i \in 1..Len(s) : Opens(s[i]) /\ \A b : Follows(b, s[i])
  BY <1>4 DEF Opens, Follows
<1>6. s # <<>> => 1 \in 1..Len(s)
  BY <1>3, EmptySeq
<1>7. \A i \in 2..Len(s) : i \in 1..Len(s)
  BY <1>1, <1>3
<1>8. Program(s, A)
  BY <1>3, <1>4, <1>5, <1>6, <1>7 DEF Program, Chained
<1>9. \A i \in DOMAIN q : Has(s, Report(q[i]))
  BY <1>1, <1>3 DEF Has
<1>. QED
  BY <1>8, <1>9 DEF s

LEMMA ArpProgram ==
  ASSUME NEW A, NEW mac \in Macs
  PROVE  Program(<<ArpReply(mac)>>, A) /\ Has(<<ArpReply(mac)>>, ArpReply(mac))
<1> DEFINE a == ArpReply(mac)
           s == <<a>>
<1>1. a \in Calls /\ a.op = "arpreply"
  BY CallTypes
<1> HIDE DEF a
<1>2. s \in Seq(Calls) /\ Len(s) = 1 /\ s[1] = a
  BY <1>1
<1> HIDE DEF s
<1>3. Program(s, A) /\ Has(s, a)
  BY <1>1, <1>2 DEF Program, Chained, Opens, Has
<1>. QED
  BY <1>3 DEF s, a

LEMMA RingProgram ==
  ASSUME NEW A, NEW ip \in Peers
  PROVE  Program(cap_send_ring(ip), A) /\ Has(cap_send_ring(ip), Commit(ip, "reply"))
<1> DEFINE b == Build("reply")
           c == Commit(ip, "reply")
           n == 2 * CapReplies
           s == [i \in 1..n |-> IF i % 2 = 1 THEN b ELSE c]
<1>1. s = cap_send_ring(ip)
  BY DEF cap_send_ring
<1>2. /\ b \in Calls /\ b.op = "build" /\ b.pay = "reply"
      /\ c \in Calls /\ c.op = "commit" /\ c.pay = "reply"
  BY CallTypes DEF Texts
<1>3. n \in Nat /\ n >= 2
  BY ConstantTypes
<1> HIDE DEF b, c, n
<1>4. s \in Seq(Calls) /\ Len(s) = n /\ \A i \in 1..n : s[i] = IF i % 2 = 1 THEN b ELSE c
  BY <1>2, <1>3
<1> HIDE DEF s
<1>5. s[1] = b /\ s[2] = c
  BY <1>3, <1>4
<1>6. Follows(b, c) /\ Opens(b) /\ \A x : Follows(x, b)
  BY <1>2 DEF Follows, Opens
<1>7. ASSUME NEW i \in 2..n PROVE Follows(s[i - 1], s[i])
  <2>1. i \in 1..n /\ i - 1 \in 1..n /\ (i % 2 = 1 \/ (i - 1) % 2 = 1)
    BY <1>3
  <2>. QED
    BY <1>4, <1>6, <2>1
<1>8. ASSUME NEW i \in 1..n PROVE s[i].op \in {"build", "commit"}
  BY <1>2, <1>4
<1>9. Program(s, A)
  BY <1>3, <1>4, <1>5, <1>6, <1>7, <1>8 DEF Program, Chained
<1>10. Has(s, c)
  BY <1>3, <1>4, <1>5 DEF Has
<1>. QED
  BY <1>1, <1>9, <1>10 DEF c

(* The flow handler: the lookup, of an address of A, lies between begin and *)
(* finish.                                                                  *)
FlowCalls(ip, dst) == <<Build("begun"), Lookup(dst), Finish("flow"), Commit(ip, "flow")>>

LEMMA FlowProgram ==
  ASSUME NEW A, NEW ip \in Peers, NEW dst \in Peers \cup {None}, dst \in A
  PROVE  Program(FlowCalls(ip, dst), A) /\ Has(FlowCalls(ip, dst), Commit(ip, "flow"))
<1> DEFINE b == Build("begun")
           l == Lookup(dst)
           f == Finish("flow")
           c == Commit(ip, "flow")
           s == FlowCalls(ip, dst)
<1>1. /\ b \in Calls /\ b.op = "build" /\ l \in Calls /\ l.op = "lookup" /\ l.ip = dst
      /\ f \in Calls /\ f.op = "finish" /\ f.pay = "flow"
      /\ c \in Calls /\ c.op = "commit" /\ c.pay = "flow"
  BY CallTypes DEF Texts
<1>2. s = <<b, l, f, c>>
  BY DEF FlowCalls
<1> HIDE DEF b, l, f, c, s
<1>3. s \in Seq(Calls) /\ Len(s) = 4 /\ s[1] = b /\ s[2] = l /\ s[3] = f /\ s[4] = c
  BY <1>1, <1>2
<1>4. Follows(b, l) /\ Follows(l, f) /\ Follows(f, c) /\ Opens(b)
  BY <1>1 DEF Follows, Opens
<1>5. ASSUME NEW i \in 2..Len(s) PROVE Follows(s[i - 1], s[i])
  <2>1. i = 2 \/ i = 3 \/ i = 4
    BY <1>3
  <2>2. 2 - 1 = 1 /\ 3 - 1 = 2 /\ 4 - 1 = 3
    OBVIOUS
  <2>. QED
    BY <1>3, <1>4, <2>1, <2>2
<1>6. ASSUME NEW i \in 1..Len(s)
      PROVE  s[i].op \notin {"bind", "join", "gate"} /\ (s[i].op = "lookup" => s[i].ip \in A)
  <2>1. i = 1 \/ i = 2 \/ i = 3 \/ i = 4
    BY <1>3
  <2>. QED
    BY <1>1, <1>3, <2>1
<1>7. Program(s, A)
  BY <1>3, <1>4, <1>5, <1>6 DEF Program, Chained
<1>8. Has(s, c)
  BY <1>3 DEF Has
<1>. QED
  BY <1>7, <1>8 DEF s, c

-----------------------------------------------------------------------------
(* A handler begins: boot is over, nothing is owed and nothing is with the  *)
(* MAC.                                                                     *)
LEMMA IdleFacts ==
  ASSUME TablesInv, Idle
  PROVE  /\ udp_bindings = Ports /\ Joined = Groups /\ Len(todo) = 0 /\ Len(queue) = 0
         /\ AnswerInv /\ stray # "missed" => due = {}
<1>1. Len(todo) = 0 /\ Len(queue) = 0
  BY DEF Idle
<1>2. 1..Len(todo) = {}
  BY <1>1
<1>3. udp_bindings = Ports
  BY <1>2 DEF TablesInv, BootInv
<1>4. Joined = Groups
  <2>1. igmp_groups \in Seq(Groups)
    BY DEF TablesInv, BootInv
  <2>2. Joined \subseteq Groups
    BY <2>1 DEF Joined
  <2>. QED
    BY <1>2, <2>2 DEF TablesInv, BootInv
<1>5. ASSUME AnswerInv, stray # "missed" PROVE due = {}
  BY <1>2, <1>5 DEF AnswerInv, DueInv, Underway, Idle
<1>. QED
  BY <1>1, <1>3, <1>4, <1>5

LEMMA StartKeeps ==
  ASSUME TablesInv, Idle, NEW A, NEW calls, NEW debts, Program(calls, A), Begin(calls),
         UNCHANGED quiet, due' = debts, stray' \in {"no", "named"}, ArpInv', GateInv'
  PROVE  /\ TablesInv'
         /\ /\ AnswerInv /\ debts \subseteq (Macs \cup {Group}) \X Pays
            /\ stray' = "named" \/ \A a \in A : Known(a)'
            /\ \A d \in debts : \E i \in 1..Len(calls) : Sends(calls[i], d[1], d[2])'
            => AnswerInv'
<1>1. /\ todo' = calls /\ buf' = 0 /\ sent' = None /\ udp_bindings' = udp_bindings
      /\ igmp_groups' = igmp_groups /\ txslot' = txslot /\ tx' = tx /\ queue' = queue /\ queue = <<>>
  BY DEF Begin, quiet, tables, Idle
<1>2. /\ calls \in Seq(Calls) /\ Chained(calls) /\ (calls # <<>> => Opens(calls[1]))
      /\ \A i \in 1..Len(calls) : /\ calls[i].op \notin {"bind", "join", "gate"}
                                  /\ calls[i].op = "lookup" => calls[i].ip \in A
  BY DEF Program
<1>3. BootInv'
  <2>1. Joined' = Joined
    BY <1>1 DEF Joined
  <2>2. udp_bindings' = Ports /\ Joined' = Groups
    BY <1>1, <2>1, IdleFacts
  <2>3. /\ igmp_groups' \in Seq(Groups)
        /\ \A i, j \in 1..Len(igmp_groups') : igmp_groups'[i] = igmp_groups'[j] => i = j
    BY <1>1 DEF TablesInv, BootInv
  <2>. QED
    BY <1>1, <1>2, <2>2, <2>3 DEF BootInv
<1>4. SlotInv'
  BY <1>1, ConstantTypes DEF TablesInv, SlotInv, Slots
<1>5. TablesInv'
  BY <1>3, <1>4 DEF TablesInv
<1>6. ASSUME AnswerInv, debts \subseteq (Macs \cup {Group}) \X Pays,
             stray' = "named" \/ \A a \in A : Known(a)',
             \A d \in debts : \E i \in 1..Len(calls) : Sends(calls[i], d[1], d[2])'
      PROVE  AnswerInv'
  <2>1. ChainInv'
    <3>1. todo' # <<>> => Loaded(todo[1])'
      BY <1>1, <1>2 DEF Loaded, Opens
    <3>2. Chained(todo)'
      BY <1>1, <1>2 DEF Chained
    <3>3. \A i \in 1..Len(todo') : todo'[i].op = "lookup" => Known(todo[i].ip)' \/ stray' # "no"
      <4>1. ASSUME NEW i \in 1..Len(todo'), todo'[i].op = "lookup", stray' # "named"
            PROVE  Known(todo[i].ip)'
        <5>1. todo'[i] = calls[i] /\ calls[i].ip \in A
          BY <1>1, <1>2, <4>1
        <5>2. Known(calls[i].ip)'
          BY <1>6, <4>1, <5>1
        <5>. QED
          BY <5>1, <5>2 DEF Known, Cached
      <4>. QED
        BY <4>1
    <3>. QED
      BY <3>1, <3>2, <3>3 DEF ChainInv
  <2>2. QueueInv'
    BY <1>1 DEF QueueInv, Carries, SentAsBuilt
  <2>3. due' = debts
    OBVIOUS
  <2>4. ASSUME NEW d \in due' PROVE Underway(d)'
    <3>1. PICK i \in 1..Len(calls) : Sends(calls[i], d[1], d[2])'
      BY <1>6, <2>3, <2>4
    <3>2. Sends(todo[i], d[1], d[2])'
      BY <1>1, <3>1 DEF Sends, Known, MacOf, Cached
    <3>. QED
      BY <1>1, <3>2 DEF Underway
  <2>5. DueInv'
    BY <1>6, <2>3, <2>4 DEF DueInv
  <2>. QED
    BY <2>1, <2>2, <2>5 DEF AnswerInv
<1>. QED
  BY <1>5, <1>6

(* The call that meets a debt to the sender ip, mac.                        *)
Meets(c, ip, mac, d) ==
  \/ c = Commit(ip, d[2]) /\ d[1] = mac /\ d[2] \in Texts
  \/ c = Commit(Group, d[2]) /\ d[1] = Group /\ d[2] \in Texts
  \/ c = ArpReply(mac) /\ d[1] = mac /\ d[2] = "arp"
  \/ \E g \in GroupNames : c = Report(g) /\ d[1] = Group /\ d[2] = <<"report", g>>

LEMMA Answered ==
  ASSUME NEW c, NEW ip \in Peers, NEW mac \in Macs, NEW d \in (Macs \cup {Group}) \X Pays,
         Meets(c, ip, mac, d), Known(ip)', MacOf(ip)' = mac
  PROVE  Sends(c, d[1], d[2])'
<1>1. CASE c = Commit(ip, d[2]) /\ d[1] = mac /\ d[2] \in Texts
  <2>1. c.op = "commit" /\ c.pay = d[2] /\ c.ip = ip
    BY <1>1, CallTypes
  <2>2. Known(c.ip)' /\ MacOf(c.ip)' = d[1]
    BY <1>1, <2>1 DEF Known, MacOf, Cached
  <2>. QED
    BY <2>1, <2>2 DEF Sends
<1>2. CASE c = Commit(Group, d[2]) /\ d[1] = Group /\ d[2] \in Texts
  <2>1. c.op = "commit" /\ c.pay = d[2] /\ c.ip = Group
    BY <1>2, CallTypes
  <2>2. Known(c.ip)' /\ MacOf(c.ip)' = d[1]
    BY <1>2, <2>1 DEF Known, MacOf
  <2>. QED
    BY <2>1, <2>2 DEF Sends
<1>3. CASE c = ArpReply(mac) /\ d[1] = mac /\ d[2] = "arp"
  BY <1>3, CallTypes DEF Sends
<1>4. ASSUME NEW g \in GroupNames, c = Report(g) /\ d[1] = Group /\ d[2] = <<"report", g>>
      PROVE  Sends(c, d[1], d[2])'
  BY <1>4, CallTypes DEF Sends
<1>. QED
  BY <1>1, <1>2, <1>3, <1>4 DEF Meets

(* Neither filter stops what the board must answer.                         *)
LEMMA FiltersPass ==
  \A dst \in {"us", "bcast", "allhosts"} \cup GroupNames : Passes(dst)
BY DEF Passes, Discarded, Allow, Keep, GroupNames

LEMMA Handled ==
  ASSUME TablesInv, NEW ip \in Peers, NEW mac \in Macs,
         NEW dst \in {"us", "bcast", "allhosts"} \cup GroupNames, NEW A, NEW calls, NEW debts,
         Program(calls, A), Receive(dst, ip, mac, calls), UNCHANGED quiet, GateInv',
         due' = debts, stray' \in {"no", "named"}, debts \subseteq (Macs \cup {Group}) \X Pays,
         \A d \in debts : \E i \in 1..Len(calls) : Meets(calls[i], ip, mac, d)
  PROVE  TablesInv' /\ (AnswerInv /\ (A \subseteq {ip} \/ stray' = "named") => AnswerInv')
<1>1. Idle /\ arp_learn(ip, mac) /\ Begin(calls)
  BY FiltersPass DEF Receive
<1>2. ArpInv' /\ Known(ip)' /\ MacOf(ip)' = mac
  BY <1>1, LearnKeeps DEF TablesInv
<1>3. \A d \in debts : \E i \in 1..Len(calls) : Sends(calls[i], d[1], d[2])'
  BY <1>2, Answered
<1>4. A \subseteq {ip} => \A a \in A : Known(a)'
  <2>1. ASSUME A \subseteq {ip}, NEW a \in A PROVE Known(a)'
    <3>1. a = ip
      BY <2>1
    <3>. QED
      BY <1>2, <3>1 DEF Known, Cached
  <2>. QED
    BY <2>1
<1>5. /\ TablesInv'
      /\ AnswerInv /\ (stray' = "named" \/ \A a \in A : Known(a)') => AnswerInv'
  BY <1>1, <1>2, <1>3, StartKeeps
<1>. QED
  BY <1>4, <1>5

-----------------------------------------------------------------------------
(* What arrives: each handler is a program that meets what it owes.         *)
LEMMA MirroredProgram ==
  ASSUME NEW A, NEW host \in Peers \cup {None}
  PROVE  Program(Mirrored(host), A)
<1>1. CASE host = None
  BY <1>1, EmptyProgram DEF Mirrored
<1>2. CASE host # None
  BY <1>2, AnswerProgram DEF Mirrored, Texts
<1>. QED
  BY <1>1, <1>2

LEMMA WhoHasStep ==
  ASSUME TablesInv, NEW ip \in Peers, NEW mac \in Macs, NEW us \in BOOLEAN, RxWhoHas(ip, mac, us)
  PROVE  TablesInv' /\ (AnswerInv => AnswerInv')
<1>1. UNCHANGED quiet /\ GateInv'
  BY DEF RxWhoHas, TablesInv, GateInv
<1>2. CASE us
  <2> DEFINE calls == <<ArpReply(mac)>>
             debts == {<<mac, "arp">>}
             A == {ip}
  <2>1. Program(calls, A) /\ Has(calls, ArpReply(mac))
    BY ArpProgram
  <2>2. Receive("bcast", ip, mac, calls) /\ due' = debts /\ stray' = "no"
    BY <1>2 DEF RxWhoHas, Owe
  <2>3. debts \subseteq (Macs \cup {Group}) \X Pays
    BY DEF Pays, Texts
  <2>4. \A d \in debts : Meets(ArpReply(mac), ip, mac, d)
    BY DEF Meets
  <2>5. \A d \in debts : \E i \in 1..Len(calls) : Meets(calls[i], ip, mac, d)
    <3> HIDE DEF calls, debts
    <3>. QED
      BY <2>1, <2>4 DEF Has
  <2> HIDE DEF calls, debts
  <2>. QED
    BY <1>1, <2>1, <2>2, <2>3, <2>5, Handled
<1>3. CASE ~us
  <2> DEFINE calls == <<>>
             debts == {}
             A == {ip}
  <2>1. Program(calls, A)
    BY EmptyProgram
  <2>2. Receive("bcast", ip, mac, calls) /\ due' = debts /\ stray' = "no"
    BY <1>3 DEF RxWhoHas, Owe
  <2>3. debts \subseteq (Macs \cup {Group}) \X Pays
    OBVIOUS
  <2>4. \A d \in debts : \E i \in 1..Len(calls) : Meets(calls[i], ip, mac, d)
    OBVIOUS
  <2> HIDE DEF calls, debts
  <2>. QED
    BY <1>1, <2>1, <2>2, <2>3, <2>4, Handled
<1>. QED
  BY <1>2, <1>3

(* A request whose answer, among others, is pay to its sender.              *)
LEMMA RequestStep ==
  ASSUME TablesInv, NEW ip \in Peers, NEW mac \in Macs, NEW pay \in Texts, NEW A, NEW calls,
         Program(calls, A), Has(calls, Commit(ip, pay)), Receive("us", ip, mac, calls),
         UNCHANGED quiet, GateInv', due' = {<<mac, pay>>}, stray' \in {"no", "named"}
  PROVE  TablesInv' /\ (AnswerInv /\ (A \subseteq {ip} \/ stray' = "named") => AnswerInv')
<1> DEFINE debts == {<<mac, pay>>}
<1>1. due' = debts /\ debts \subseteq (Macs \cup {Group}) \X Pays
  BY DEF Pays
<1>2. \A d \in debts : Meets(Commit(ip, pay), ip, mac, d)
  BY DEF Meets
<1> HIDE DEF debts
<1>3. \A d \in debts : \E i \in 1..Len(calls) : Meets(calls[i], ip, mac, d)
  BY <1>2 DEF Has
<1>. QED
  BY <1>1, <1>3, Handled

LEMMA PingStep ==
  ASSUME TablesInv, NEW ip \in Peers, NEW mac \in Macs, RxPing(ip, mac)
  PROVE  TablesInv' /\ (AnswerInv => AnswerInv')
<1> DEFINE A == {ip}
           calls == Answer(ip, "pong")
<1>1. UNCHANGED quiet /\ GateInv'
  BY DEF RxPing, TablesInv, GateInv
<1>2. "pong" \in Texts
  BY DEF Texts
<1>3. Program(calls, A) /\ Has(calls, Commit(ip, "pong"))
  BY <1>2, AnswerProgram
<1>4. Receive("us", ip, mac, calls) /\ due' = {<<mac, "pong">>} /\ stray' = "no"
  BY DEF RxPing, Owe
<1> HIDE DEF calls
<1>. QED
  BY <1>1, <1>2, <1>3, <1>4, RequestStep

LEMMA AskedStep ==
  ASSUME TablesInv, NEW ip \in Peers, NEW mac \in Macs, RxRequest(ip, mac)
  PROVE  TablesInv' /\ (AnswerInv => AnswerInv')
<1> DEFINE A == {ip}
<1>1. UNCHANGED quiet /\ GateInv' /\ due' = {<<mac, "reply">>} /\ stray' = "no"
  BY DEF RxRequest, Owe, TablesInv, GateInv
<1>2. PICK calls \in Handlers(ip) : Receive("us", ip, mac, calls)
  BY DEF RxRequest
<1>3. "reply" \in Texts
  BY DEF Texts
<1>4. Program(Answer(ip, "reply"), A) /\ Has(Answer(ip, "reply"), Commit(ip, "reply"))
  BY <1>3, AnswerProgram
<1>5. Program(calls, A) /\ Has(calls, Commit(ip, "reply"))
  <2>1. CASE calls = Answer(ip, "reply")
    BY <1>4, <2>1
  <2>2. CASE calls = cap_send_ring(ip)
    BY <2>2, RingProgram
  <2>3. ASSUME NEW host \in Peers \cup {None}, calls = arc_rx(ip, host)
        PROVE  Program(calls, A) /\ Has(calls, Commit(ip, "reply"))
    <3>1. calls = Answer(ip, "reply") \o Mirrored(host)
      BY <2>3 DEF arc_rx
    <3>2. Program(Mirrored(host), A)
      BY MirroredProgram
    <3>. QED
      BY <1>4, <3>1, <3>2, ProgramsJoin
  <2>. QED
    BY <2>1, <2>2, <2>3 DEF Handlers, cmc_rx, stats_rx, mclk_rx, telem_rx
<1>. QED
  BY <1>1, <1>2, <1>3, <1>5, RequestStep

LEMMA FlowStep ==
  ASSUME TablesInv, NEW ip \in Peers, NEW mac \in Macs, NEW dst \in Peers \cup {None},
         RxFlow(ip, mac, dst)
  PROVE  TablesInv' /\ (AnswerInv => AnswerInv')
<1> DEFINE A == {dst}
<1>1. /\ UNCHANGED quiet /\ GateInv' /\ due' = {<<mac, "flow">>}
      /\ stray' = IF dst = ip THEN "no" ELSE "named"
  BY DEF RxFlow, TablesInv, GateInv
<1>2. PICK host \in Peers \cup {None} : Receive("us", ip, mac, FlowCalls(ip, dst) \o Mirrored(host))
  BY DEF RxFlow, FlowCalls
<1>3. "flow" \in Texts
  BY DEF Texts
<1> DEFINE calls == FlowCalls(ip, dst) \o Mirrored(host)
<1>4. Program(calls, A) /\ Has(calls, Commit(ip, "flow"))
  <2>1. Program(FlowCalls(ip, dst), A) /\ Has(FlowCalls(ip, dst), Commit(ip, "flow"))
    BY FlowProgram
  <2>2. Program(Mirrored(host), A)
    BY MirroredProgram
  <2>. QED
    BY <2>1, <2>2, ProgramsJoin
<1> HIDE DEF calls
<1>5. Receive("us", ip, mac, calls)
  BY <1>2 DEF calls
<1>6. TablesInv' /\ (AnswerInv /\ (A \subseteq {ip} \/ stray' = "named") => AnswerInv')
  <2> HIDE DEF A
  <2>. QED
    BY <1>1, <1>3, <1>4, <1>5, RequestStep
<1>7. A \subseteq {ip} \/ stray' = "named"
  BY <1>1
<1>. QED
  BY <1>6, <1>7

LEMMA GateCommandStep ==
  ASSUME TablesInv, NEW ip \in Peers, NEW mac \in Macs, NEW cmd \in {"1", "0", "c"},
         RxGate(ip, mac, cmd)
  PROVE  TablesInv' /\ (AnswerInv => AnswerInv')
<1> DEFINE A == {ip}
           calls == Answer(ip, "reply")
<1>1. GateInv'
  <2>1. CASE Passes("us")
    BY <2>1, CommandGate DEF RxGate, TablesInv
  <2>2. CASE ~Passes("us")
    BY <2>2 DEF RxGate, TablesInv, GateInv
  <2>. QED
    BY <2>1, <2>2
<1>2. "reply" \in Texts
  BY DEF Texts
<1>3. Program(calls, A) /\ Has(calls, Commit(ip, "reply"))
  BY <1>2, AnswerProgram
<1>4. /\ Receive("us", ip, mac, calls) /\ UNCHANGED quiet
      /\ due' = {<<mac, "reply">>} /\ stray' = "no"
  BY DEF RxGate, Owe
<1> HIDE DEF calls
<1>. QED
  BY <1>1, <1>2, <1>3, <1>4, RequestStep

LEMMA InfoStep ==
  ASSUME TablesInv, NEW ip \in Peers, NEW mac \in Macs, NEW q \in Queries, NEW leader \in BOOLEAN,
         info_rx(ip, mac, q, leader)
  PROVE  TablesInv' /\ (AnswerInv => AnswerInv')
<1> DEFINE A == {ip}
           to == IF q = "clock" THEN Group ELSE ip
           at == IF q = "clock" THEN Group ELSE mac
           calls == CASE q = "device"  -> send_device_info(ip)
                      [] q = "product" -> send_product_info(ip)
                      [] q = "network" -> send_network_info(ip)
                      [] q = "clock"   -> send_clock_stats(leader)
                      [] OTHER         -> <<>>
           debts == {<<at, p>> : p \in (IF calls = <<>> THEN {} ELSE {q})}
<1>1. UNCHANGED quiet /\ GateInv' /\ Receive("us", ip, mac, calls) /\ due' = debts /\ stray' = "no"
  BY DEF info_rx, Owe, TablesInv, GateInv
<1>2. calls = <<>> \/ (calls = Answer(to, q) /\ q \in Texts)
  BY DEF Queries, Texts, send_device_info, send_product_info, send_network_info, send_clock_stats
<1>3. CASE calls = <<>>
  <2>1. Program(calls, A) /\ debts = {}
    BY <1>3, EmptyProgram
  <2> HIDE DEF calls, debts
  <2>2. /\ debts \subseteq (Macs \cup {Group}) \X Pays
        /\ \A d \in debts : \E i \in 1..Len(calls) : Meets(calls[i], ip, mac, d)
    BY <2>1
  <2>. QED
    BY <1>1, <2>1, <2>2, Handled
<1>4. CASE calls # <<>> /\ calls = Answer(to, q) /\ q \in Texts
  <2>1. debts = {<<at, q>>}
    BY <1>4
  <2>2. Program(calls, A) /\ Has(calls, Commit(to, q))
    BY <1>4, AnswerProgram
  <2>3. debts \subseteq (Macs \cup {Group}) \X Pays
    BY <1>4, <2>1 DEF Pays
  <2>4. \A d \in debts : Meets(Commit(to, q), ip, mac, d)
    BY <1>4, <2>1 DEF Meets
  <2> HIDE DEF calls, debts, to, at
  <2>5. \A d \in debts : \E i \in 1..Len(calls) : Meets(calls[i], ip, mac, d)
    BY <2>2, <2>4 DEF Has
  <2>. QED
    BY <1>1, <2>2, <2>3, <2>5, Handled
<1>. QED
  BY <1>2, <1>3, <1>4

LEMMA QueryStep ==
  ASSUME TablesInv, NEW ip \in Peers, NEW mac \in Macs, NEW g \in Groups \cup {"allhosts"},
         RxQuery(g, ip, mac)
  PROVE  TablesInv' /\ (AnswerInv => AnswerInv')
<1> DEFINE A == {ip}
           asked == IF g = "allhosts" THEN igmp_groups ELSE IF g \in Joined THEN <<g>> ELSE <<>>
<1>1. UNCHANGED quiet /\ GateInv'
  BY DEF RxQuery, TablesInv, GateInv
<1>2. PICK q : q = asked
  OBVIOUS
<1>3. /\ Receive(g, ip, mac, [i \in DOMAIN q |-> Report(q[i])])
      /\ due' = {<<Group, p>> : p \in {<<"report", q[i]>> : i \in DOMAIN q}} /\ stray' = "no"
  BY <1>2 DEF RxQuery, Owe
<1>4. q \in Seq(GroupNames) /\ g \in {"us", "bcast", "allhosts"} \cup GroupNames
  <2>1. Groups \subseteq GroupNames /\ igmp_groups \in Seq(Groups)
    BY BootFits DEF TablesInv, BootInv
  <2>2. igmp_groups \in Seq(GroupNames)
    BY <2>1
  <2>3. g # "allhosts" => <<g>> \in Seq(GroupNames)
    BY <2>1
  <2>. QED
    BY <1>2, <2>1, <2>2, <2>3
<1> HIDE DEF asked
<1>5. \A i \in DOMAIN q : q[i] \in GroupNames
  BY <1>4
<1> DEFINE calls == [i \in DOMAIN q |-> Report(q[i])]
           debts == {<<Group, p>> : p \in {<<"report", q[i]>> : i \in DOMAIN q}}
<1>6. Program(calls, A) /\ \A i \in DOMAIN q : Has(calls, Report(q[i]))
  BY <1>4, ReportProgram
<1>7. debts \subseteq (Macs \cup {Group}) \X Pays
  BY <1>5 DEF Pays
<1>8. ASSUME NEW d \in debts PROVE \E i \in 1..Len(calls) : Meets(calls[i], ip, mac, d)
  <2>1. PICK i \in DOMAIN q : d = <<Group, <<"report", q[i]>>>>
    OBVIOUS
  <2>2. d[1] = Group /\ d[2] = <<"report", q[i]>>
    BY <2>1
  <2>3. Meets(Report(q[i]), ip, mac, d)
    BY <1>5, <2>2 DEF Meets
  <2>4. Has(calls, Report(q[i]))
    BY <1>6
  <2> HIDE DEF calls
  <2>. QED
    BY <2>3, <2>4 DEF Has
<1> HIDE DEF calls, debts
<1>9. Receive(g, ip, mac, calls) /\ due' = debts /\ stray' = "no"
  BY <1>3 DEF calls, debts
<1>. QED
  BY <1>1, <1>4, <1>6, <1>7, <1>8, <1>9, Handled

-----------------------------------------------------------------------------
(* What the main loop does by itself.                                       *)
LEMMA ArpKept ==
  ASSUME ArpInv, UNCHANGED <<arp_cache, arp_next, heard>>
  PROVE  ArpInv'
BY DEF ArpInv

(* Programs of multicast messages, which wait for no address.               *)
LEMMA PollStep ==
  ASSUME TablesInv, NEW announce \in BOOLEAN, NEW leader \in BOOLEAN,
         dante_info_poll(announce, leader)
  PROVE  TablesInv' /\ (AnswerInv => AnswerInv')
<1> DEFINE A == {}
           calls == IF announce THEN send_device_info(Group) \o send_product_info(Group)
                                     \o send_network_info(Group) \o send_clock_stats(leader)
                                     \o send_caps(Group)
                                ELSE send_heartbeat
           debts == {}
<1>1. /\ Idle /\ Begin(calls) /\ UNCHANGED quiet /\ due' = debts /\ stray' = "no"
      /\ UNCHANGED <<arp_cache, arp_next, heard>> /\ UNCHANGED gate
  BY DEF dante_info_poll, Owe
<1>2. \A pay \in Texts : Program(Answer(Group, pay), A)
  BY AnswerProgram
<1>3. \A s, t : Program(s, A) /\ Program(t, A) => Program(s \o t, A)
  BY ProgramsJoin
<1>4. /\ Program(send_device_info(Group), A) /\ Program(send_product_info(Group), A)
      /\ Program(send_network_info(Group), A) /\ Program(send_heartbeat, A)
  BY <1>2 DEF send_device_info, send_product_info, send_network_info, send_heartbeat, Texts
<1>5. Program(send_clock_stats(leader), A)
  BY <1>2, EmptyProgram DEF send_clock_stats, Texts
<1>6. Program(send_caps(Group), A)
  <2>1. /\ Program(Answer(Group, "rates"), A) /\ Program(Answer(Group, "formats"), A)
        /\ Program(Answer(Group, "0x1009"), A) /\ Program(Answer(Group, "0x0084"), A)
    BY <1>2 DEF Texts
  <2> HIDE DEF A
  <2>2. Program(Answer(Group, "rates") \o Answer(Group, "formats"), A)
    BY <1>3, <2>1
  <2>3. Program(Answer(Group, "rates") \o Answer(Group, "formats") \o Answer(Group, "0x1009"), A)
    BY <1>3, <2>1, <2>2
  <2>. QED
    BY <1>3, <2>1, <2>3 DEF send_caps
<1>7. Program(calls, A)
  <2> HIDE DEF A
  <2>1. Program(send_device_info(Group) \o send_product_info(Group), A)
    BY <1>3, <1>4
  <2>2. Program(send_device_info(Group) \o send_product_info(Group) \o send_network_info(Group), A)
    BY <1>3, <1>4, <2>1
  <2>3. Program(send_device_info(Group) \o send_product_info(Group) \o send_network_info(Group)
                  \o send_clock_stats(leader), A)
    BY <1>3, <1>5, <2>2
  <2>4. Program(send_device_info(Group) \o send_product_info(Group) \o send_network_info(Group)
                  \o send_clock_stats(leader) \o send_caps(Group), A)
    BY <1>3, <1>6, <2>3
  <2>. QED
    BY <1>4, <2>4
<1>8. ArpInv' /\ GateInv'
  BY <1>1, ArpKept DEF TablesInv, GateInv
<1>9. /\ debts \subseteq (Macs \cup {Group}) \X Pays /\ \A a \in A : Known(a)'
      /\ \A d \in debts : \E i \in 1..Len(calls) : Sends(calls[i], d[1], d[2])'
  OBVIOUS
<1>10. PICK c : c = calls
  OBVIOUS
<1> HIDE DEF calls, debts, A
<1>11. Program(c, A) /\ Begin(c)
  BY <1>1, <1>7, <1>10
<1>12. \A d \in debts : \E i \in 1..Len(c) : Sends(c[i], d[1], d[2])'
  BY DEF debts
<1>. QED
  BY <1>1, <1>8, <1>9, <1>11, <1>12, StartKeeps

LEMMA NoiseStep ==
  ASSUME TablesInv, NEW dst, RxNoise(dst)
  PROVE  TablesInv' /\ (AnswerInv => AnswerInv')
<1> DEFINE A == {}
           calls == <<>>
           debts == {}
<1>1. /\ Idle /\ Begin(calls) /\ UNCHANGED quiet /\ due' = debts /\ stray' = "no"
      /\ UNCHANGED <<arp_cache, arp_next, heard>> /\ UNCHANGED gate
  BY DEF RxNoise, Owe
<1>2. Program(calls, A)
  BY EmptyProgram
<1>3. ArpInv' /\ GateInv'
  BY <1>1, ArpKept DEF TablesInv, GateInv
<1>4. /\ debts \subseteq (Macs \cup {Group}) \X Pays /\ \A a \in A : Known(a)'
      /\ \A d \in debts : \E i \in 1..Len(calls) : Sends(calls[i], d[1], d[2])'
  OBVIOUS
<1> HIDE DEF calls, debts, A
<1>. QED
  BY <1>1, <1>2, <1>3, <1>4, StartKeeps

(* A step of the gate alone, or none.                                       *)
LEMMA GateAloneStep ==
  ASSUME TablesInv, GateInv', Idle \/ UNCHANGED gate,
         UNCHANGED <<arp_cache, arp_next, tables, txpath, heard, due, sent, stray>>
  PROVE  TablesInv' /\ (AnswerInv => AnswerInv')
<1>1. /\ arp_cache' = arp_cache /\ arp_next' = arp_next /\ heard' = heard /\ due' = due /\ sent' = sent
      /\ stray' = stray
      /\ udp_bindings' = udp_bindings /\ igmp_groups' = igmp_groups
      /\ txslot' = txslot /\ tx' = tx /\ queue' = queue /\ todo' = todo /\ buf' = buf
  BY DEF tables, txpath
<1>2. ArpInv' /\ SlotInv'
  BY <1>1, ArpKept DEF TablesInv, SlotInv
<1>3. Joined' = Joined
  BY <1>1 DEF Joined
<1>4. BootInv'
  <2>1. \A i \in 1..Len(todo) : todo[i].op = "gate" => ~gate'.pending /\ gate'.age = 0
    <3>1. CASE Idle
      <4>1. 1..Len(todo) = {}
        BY <3>1, IdleFacts
      <4>. QED
        BY <4>1
    <3>2. CASE UNCHANGED gate
      BY <3>2 DEF TablesInv, BootInv
    <3>. QED
      BY <3>1, <3>2
  <2>. QED
    BY <1>1, <1>3, <2>1 DEF TablesInv, BootInv
<1>5. TablesInv'
  BY <1>2, <1>4 DEF TablesInv
<1>6. \A c, m, p : Sends(c, m, p) => Sends(c, m, p)'
  BY <1>1 DEF Sends, Known, MacOf, Cached
<1>7. ASSUME AnswerInv PROVE AnswerInv'
  <2>1. ChainInv'
    BY <1>1, <1>7 DEF AnswerInv, ChainInv, Chained, Loaded, Known, Cached
  <2>2. QueueInv'
    BY <1>1, <1>7 DEF AnswerInv, QueueInv, Carries, SentAsBuilt
  <2>3. ASSUME NEW d \in due', NEW i \in 1..Len(todo), Sends(todo[i], d[1], d[2])
        PROVE  Sends(todo[i], d[1], d[2])'
    <3>1. PICK c : c = todo[i]
      OBVIOUS
    <3>2. Sends(c, d[1], d[2])'
      BY <1>6, <2>3, <3>1
    <3>. QED
      BY <1>1, <3>1, <3>2 DEF Sends, Known, MacOf, Cached
  <2>4. ASSUME NEW d \in due', stray' # "missed" PROVE Underway(d)'
    BY <1>1, <1>7, <2>3, <2>4 DEF AnswerInv, DueInv, Underway
  <2>5. DueInv'
    BY <1>1, <1>7, <2>4 DEF AnswerInv, DueInv
  <2>. QED
    BY <2>1, <2>2, <2>5 DEF AnswerInv
<1>. QED
  BY <1>5, <1>7

-----------------------------------------------------------------------------
(* A call of the running handler.                                           *)
CallStep ==
  /\ todo # <<>> /\ queue = <<>> /\ todo' = Tail(todo)
  /\ UNCHANGED <<arp_cache, arp_next, heard, due, sent>>

LEMMA CallFacts ==
  ASSUME BootInv, CallStep
  PROVE  /\ todo' \in Seq(Calls) /\ Len(todo) \in Nat /\ Len(todo) > 0 /\ Len(todo') = Len(todo) - 1
         /\ Head(todo) = todo[1] /\ todo[1] \in Calls
         /\ \A i \in 1..Len(todo') : todo'[i] = todo[i + 1] /\ i + 1 \in 2..Len(todo)
         /\ \A i \in 1..Len(todo) : i = 1 \/ (i - 1 \in 1..Len(todo') /\ todo'[i - 1] = todo[i])
<1>1. /\ todo' \in Seq(Calls) /\ Len(todo) \in Nat /\ Len(todo) > 0 /\ Head(todo) = todo[1]
      /\ todo[1] \in Calls /\ Len(todo') = Len(todo) - 1
      /\ \A i \in 1..Len(todo') : todo'[i] = todo[i + 1]
  BY TailFacts DEF BootInv, CallStep
<1>2. \A i \in 1..Len(todo') : i + 1 \in 2..Len(todo)
  BY <1>1
<1>3. ASSUME NEW i \in 1..Len(todo), i # 1
      PROVE  i - 1 \in 1..Len(todo') /\ todo'[i - 1] = todo[i]
  <2>1. i - 1 \in 1..Len(todo') /\ (i - 1) + 1 = i
    BY <1>1, <1>3
  <2>. QED
    BY <1>1, <2>1
<1>. QED
  BY <1>1, <1>2, <1>3

(* What the call put into its table stays there.                            *)
LEMMA CallBoot ==
  ASSUME TablesInv, CallStep, GateInv', SlotInv',
         gate' = gate \/ (~gate'.pending /\ gate'.age = 0),
         udp_bindings \subseteq udp_bindings', udp_bindings' \subseteq Ports,
         todo[1].op = "bind" => todo[1].port \in udp_bindings',
         igmp_groups' \in Seq(Groups), Joined \subseteq Joined',
         \A i, j \in 1..Len(igmp_groups') : igmp_groups'[i] = igmp_groups'[j] => i = j,
         todo[1].op = "join" => todo[1].g \in Joined'
  PROVE  TablesInv'
<1>1. ArpInv'
  BY ArpKept DEF TablesInv, CallStep
<1>2. BootInv
  BY DEF TablesInv
<1>3. ASSUME NEW i \in 1..Len(todo')
      PROVE  /\ todo'[i].op = "bind" => todo'[i].port \in Ports
             /\ todo'[i].op = "join" => todo'[i].g \in Groups
             /\ todo'[i].op = "gate" => ~gate'.pending /\ gate'.age = 0
  <2>1. todo'[i] = todo[i + 1] /\ i + 1 \in 1..Len(todo)
    BY <1>2, CallFacts
  <2>. QED
    BY <1>2, <2>1 DEF BootInv
<1>4. ASSUME NEW p \in Ports, p \notin udp_bindings'
      PROVE  \E i \in 1..Len(todo') : todo'[i].op = "bind" /\ todo'[i].port = p
  <2>1. PICK i \in 1..Len(todo) : todo[i].op = "bind" /\ todo[i].port = p
    BY <1>2, <1>4 DEF BootInv
  <2>2. i # 1
    BY <1>4, <2>1
  <2>. QED
    BY <1>2, <2>1, <2>2, CallFacts
<1>5. ASSUME NEW g \in Groups, g \notin Joined'
      PROVE  \E i \in 1..Len(todo') : todo'[i].op = "join" /\ todo'[i].g = g
  <2>1. PICK i \in 1..Len(todo) : todo[i].op = "join" /\ todo[i].g = g
    BY <1>2, <1>5 DEF BootInv
  <2>2. i # 1
    BY <1>5, <2>1
  <2>. QED
    BY <1>2, <2>1, <2>2, CallFacts
<1>6. todo' \in Seq(Calls)
  BY <1>2, CallFacts
<1>7. BootInv'
  BY <1>3, <1>4, <1>5, <1>6 DEF BootInv
<1>. QED
  BY <1>1, <1>7 DEF TablesInv

(* A call that leaves the boot tables and the gate alone.                   *)
LEMMA PlainCall ==
  ASSUME TablesInv, CallStep, SlotInv', UNCHANGED <<tables, gate>>,
         todo[1].op \notin {"bind", "join"}
  PROVE  TablesInv'
<1>1. udp_bindings' = udp_bindings /\ igmp_groups' = igmp_groups /\ gate' = gate
  BY DEF tables
<1>2. GateInv' /\ Joined' = Joined
  BY <1>1 DEF TablesInv, GateInv, Joined
<1>3. /\ udp_bindings' \subseteq Ports /\ igmp_groups' \in Seq(Groups)
      /\ \A i, j \in 1..Len(igmp_groups') : igmp_groups'[i] = igmp_groups'[j] => i = j
  BY <1>1 DEF TablesInv, BootInv
<1>. QED
  BY <1>1, <1>2, <1>3, CallBoot

(* The next call finds what it relies on, the MAC gets what was built, and  *)
(* a call that answers hands its answer to the MAC.                         *)
LEMMA CallAnswers ==
  ASSUME TablesInv, AnswerInv, CallStep,
         stray' = stray \/ stray' = "missed",
         todo[1].op = "build" => tx'[txslot'] = todo[1].pay /\ buf' = txslot',
         todo[1].op = "finish" => tx'[txslot'] = todo[1].pay \/ stray' = "missed",
         todo[1].op = "lookup" => buf' = txslot' \/ stray' = "missed",
         queue' # <<>> => Carries(queue[1].slot, queue[1].pay)',
         \A m, p : Sends(todo[1], m, p) => queue' # <<>> /\ queue'[1].to = m /\ queue'[1].pay = p
  PROVE  AnswerInv'
<1>1. /\ arp_cache' = arp_cache /\ due' = due /\ sent' = sent /\ queue = <<>> /\ BootInv
  BY DEF CallStep, TablesInv
<1>2. ChainInv'
  <2>1. Chained(todo)'
    <3>1. ASSUME NEW i \in 2..Len(todo') PROVE Follows(todo'[i - 1], todo'[i])
      <4>1. /\ i \in 1..Len(todo') /\ i - 1 \in 1..Len(todo') /\ (i - 1) + 1 = i
            /\ i + 1 \in 2..Len(todo) /\ (i + 1) - 1 = i
        BY <1>1, CallFacts
      <4>2. todo'[i] = todo[i + 1] /\ todo'[i - 1] = todo[i]
        BY <1>1, <4>1, CallFacts
      <4>3. Follows(todo[(i + 1) - 1], todo[i + 1])
        BY <4>1 DEF AnswerInv, ChainInv, Chained
      <4>. QED
        BY <4>1, <4>2, <4>3
    <3>. QED
      BY <3>1 DEF Chained
  <2>2. todo' # <<>> => Loaded(todo[1])'
    <3> SUFFICES ASSUME todo' # <<>> PROVE Loaded(todo[1])'
      OBVIOUS
    <3>1. 1 \in 1..Len(todo')
      BY <1>1, CallFacts, EmptySeq
    <3>2. todo'[1] = todo[2] /\ 2 \in 2..Len(todo) /\ 2 - 1 = 1
      BY <1>1, <3>1, CallFacts
    <3>3. Follows(todo[1], todo'[1])
      BY <3>2 DEF AnswerInv, ChainInv, Chained
    <3>4. todo'[1].op = "commit" =>
            tx'[txslot'] = todo'[1].pay \/ (stray' = "missed" /\ todo'[1].pay = "flow")
      BY <3>3 DEF Follows
    <3>5. /\ todo'[1].op = "finish" => buf' = txslot' \/ stray' = "missed"
          /\ todo'[1].op = "lookup" => buf' = txslot'
      BY <3>3 DEF Follows
    <3>. QED
      BY <3>4, <3>5 DEF Loaded
  <2>3. ASSUME NEW i \in 1..Len(todo'), todo'[i].op = "lookup", stray' = "no"
        PROVE  Known(todo[i].ip)'
    <3>1. todo'[i] = todo[i + 1] /\ i + 1 \in 1..Len(todo)
      BY <1>1, CallFacts
    <3>2. stray = "no"
      BY <2>3
    <3>3. Known(todo[i + 1].ip)
      BY <2>3, <3>1, <3>2 DEF AnswerInv, ChainInv
    <3>. QED
      BY <1>1, <3>1, <3>3 DEF Known, Cached
  <2>. QED
    BY <2>1, <2>2, <2>3 DEF ChainInv
<1>3. QueueInv'
  <2>1. SentAsBuilt'
    BY <1>1 DEF AnswerInv, QueueInv, SentAsBuilt
  <2>. QED
    BY <2>1 DEF QueueInv
<1>4. ASSUME NEW d \in due', stray' # "missed"
      PROVE  Underway(d)'
  <2>1. PICK i \in 1..Len(todo) : Sends(todo[i], d[1], d[2])
    BY <1>1, <1>4 DEF AnswerInv, DueInv, Underway
  <2>2. CASE i = 1
    BY <2>1, <2>2 DEF Underway
  <2>3. CASE i # 1
    <3>1. i - 1 \in 1..Len(todo') /\ todo'[i - 1] = todo[i]
      BY <1>1, <2>3, CallFacts
    <3>2. Sends(todo[i - 1], d[1], d[2])'
      BY <1>1, <2>1, <3>1 DEF Sends, Known, MacOf, Cached
    <3>. QED
      BY <3>1, <3>2 DEF Underway
  <2>. QED
    BY <2>2, <2>3
<1>5. DueInv'
  BY <1>1, <1>4 DEF AnswerInv, DueInv
<1>. QED
  BY <1>2, <1>3, <1>5 DEF AnswerInv

-----------------------------------------------------------------------------
(* The slots.                                                               *)
LEMMA WrittenSlot ==
  ASSUME SlotInv, NEW pay \in Pays
  PROVE  Written(pay) \in [Slots -> Pays \cup {None}] /\ Written(pay)[txslot] = pay
BY DEF SlotInv, Written

LEMMA SendSlot ==
  ASSUME SlotInv, queue = <<>>, buf' = buf, NEW to \in Macs \cup {Group}, NEW pay \in Pays,
         NEW slots \in [Slots -> Pays \cup {None}], eth_send(to, pay, slots)
  PROVE  /\ SlotInv' /\ queue' # <<>> /\ tx' = slots
         /\ queue'[1].slot = txslot /\ queue'[1].to = to /\ queue'[1].pay = pay
<1> DEFINE e == [slot |-> txslot, to |-> to, pay |-> pay]
           E == [slot : Slots, to : Macs \cup {Group}, pay : Pays]
<1>1. e \in E /\ e.slot = txslot /\ e.to = to /\ e.pay = pay /\ queue \in Seq(E)
  BY DEF SlotInv
<1>2. tx' = slots /\ queue' = Append(queue, e) /\ txslot' = (txslot + 1) % ETHMAC_TX_SLOTS
  BY DEF eth_send
<1>3. txslot' \in Slots
  BY <1>2, ConstantTypes DEF SlotInv, Slots
<1> HIDE DEF e, E
<1>4. Len(queue) = 0
  OBVIOUS
<1>5. queue' \in Seq(E) /\ Len(queue') = 1 /\ queue'[1] = e
  BY <1>1, <1>2, <1>4, AppendFacts
<1>6. queue' # <<>>
  BY <1>5
<1>7. SlotInv'
  BY <1>2, <1>3, <1>5 DEF SlotInv, E
<1>. QED
  BY <1>1, <1>2, <1>5, <1>6, <1>7

(* A report, an ARP reply, or the request for an address that is not known. *)
LEMMA ArpSend ==
  ASSUME SlotInv, queue = <<>>, buf' = buf, NEW to \in Macs \cup {Group}, NEW pay \in Pays,
         arp_send(to, pay)
  PROVE  /\ SlotInv' /\ queue' # <<>> /\ tx'[queue'[1].slot] = pay
         /\ queue'[1].to = to /\ queue'[1].pay = pay
<1> DEFINE slots == Written(pay)
<1>1. slots \in [Slots -> Pays \cup {None}] /\ slots[txslot] = pay /\ eth_send(to, pay, slots)
  BY WrittenSlot DEF arp_send
<1> HIDE DEF slots
<1>. QED
  BY <1>1, SendSlot

(* What a call carries.                                                     *)
LEMMA CallFields ==
  ASSUME NEW c \in Calls
  PROVE  /\ c.op \in {"build", "finish"} => c.pay \in Texts
         /\ c.op = "commit" => c.pay \in Texts /\ c.ip \in Peers \cup {Group}
         /\ c.op = "arpreply" => c.mac \in Macs
         /\ c.op \in {"report", "join"} => c.g \in GroupNames
BY DEF Calls

LEMMA TakenCall ==
  ASSUME TablesInv, NEW op, Call(op), UNCHANGED <<arp_cache, arp_next, heard, due, sent>>
  PROVE  /\ CallStep /\ Head(todo) = todo[1] /\ todo[1] \in Calls /\ todo[1].op = op /\ queue = <<>>
         /\ BootInv /\ SlotInv /\ Len(todo) \in Nat /\ 1 \in 1..Len(todo)
<1>1. CallStep /\ Head(todo).op = op /\ BootInv /\ SlotInv /\ queue = <<>>
  BY DEF Call, CallStep, Drained, TablesInv
<1>2. /\ Len(todo) \in Nat /\ Len(todo) > 0 /\ Head(todo) = todo[1] /\ todo[1] \in Calls
  BY <1>1, CallFacts
<1>. QED
  BY <1>1, <1>2

(* The address a lookup of the cache returns.                               *)
LEMMA KnownMac ==
  ASSUME ArpInv, NEW ip \in Peers \cup {Group}, Known(ip)
  PROVE  MacOf(ip) \in Macs \cup {Group}
<1>1. CASE ip = Group
  BY <1>1 DEF MacOf
<1>2. CASE ip # Group
  <2>1. PICK i \in 0..(ARP_CACHE_N - 1) : arp_cache[i] # None /\ arp_cache[i].ip = ip
    BY <1>2 DEF Known, Cached, ArpInv
  <2>2. MacOf(ip) = arp_cache[i].mac
    BY <2>1, CacheRead DEF CacheFacts
  <2>3. arp_cache[i] \in Entry
    BY <2>1 DEF ArpInv
  <2>. QED
    BY <2>2, <2>3 DEF Entry
<1>. QED
  BY <1>1, <1>2

LEMMA BuildStep ==
  ASSUME TablesInv, DoBuild
  PROVE  TablesInv' /\ (AnswerInv => AnswerInv')
<1>1. /\ CallStep /\ Head(todo) = todo[1] /\ todo[1] \in Calls /\ todo[1].op = "build" /\ SlotInv
      /\ queue = <<>>
  BY TakenCall DEF DoBuild
<1>2. todo[1].pay \in Pays
  BY <1>1, CallFields DEF Pays
<1>3. /\ buf' = txslot /\ txslot' = txslot /\ queue' = queue /\ tx' = Written(todo[1].pay)
      /\ stray' = stray /\ UNCHANGED <<tables, gate>>
  BY <1>1 DEF DoBuild
<1>4. tx' \in [Slots -> Pays \cup {None}] /\ tx'[txslot] = todo[1].pay
  BY <1>1, <1>2, <1>3, WrittenSlot
<1>5. SlotInv'
  BY <1>1, <1>3, <1>4 DEF SlotInv
<1>6. TablesInv'
  BY <1>1, <1>3, <1>5, PlainCall
<1>7. ASSUME AnswerInv PROVE AnswerInv'
  <2>1. \A m, p : ~Sends(todo[1], m, p)
    BY <1>1 DEF Sends
  <2>. QED
    BY <1>1, <1>3, <1>4, <1>7, <2>1, CallAnswers
<1>. QED
  BY <1>6, <1>7

LEMMA FinishStep ==
  ASSUME TablesInv, DoFinish
  PROVE  TablesInv' /\ (AnswerInv => AnswerInv')
<1>1. /\ CallStep /\ Head(todo) = todo[1] /\ todo[1] \in Calls /\ todo[1].op = "finish" /\ SlotInv
      /\ queue = <<>>
  BY TakenCall DEF DoFinish
<1>2. todo[1].pay \in Pays
  BY <1>1, CallFields DEF Pays
<1>3. /\ buf' = buf /\ txslot' = txslot /\ queue' = queue /\ tx' = [tx EXCEPT ![buf] = todo[1].pay]
      /\ stray' = stray /\ UNCHANGED <<tables, gate>>
  BY <1>1 DEF DoFinish
<1>4. tx' \in [Slots -> Pays \cup {None}] /\ tx'[buf] = todo[1].pay
  BY <1>1, <1>2, <1>3 DEF SlotInv
<1>5. SlotInv'
  BY <1>1, <1>3, <1>4 DEF SlotInv
<1>6. TablesInv'
  BY <1>1, <1>3, <1>5, PlainCall
<1>7. ASSUME AnswerInv PROVE AnswerInv'
  <2>1. \A m, p : ~Sends(todo[1], m, p)
    BY <1>1 DEF Sends
  <2>2. buf = txslot \/ stray = "missed"
    <3>1. Loaded(todo[1])
      BY <1>1, <1>7 DEF AnswerInv, ChainInv, CallStep
    <3>. QED
      BY <1>1, <3>1 DEF Loaded
  <2>. QED
    BY <1>1, <1>3, <1>4, <1>7, <2>1, <2>2, CallAnswers
<1>. QED
  BY <1>6, <1>7

(* Between begin and finish the lookup sends nothing if it is of the        *)
(* sender, who was just heard.                                              *)
LEMMA LookupStep ==
  ASSUME TablesInv, DoLookup
  PROVE  TablesInv' /\ (AnswerInv => AnswerInv')
<1>1. /\ CallStep /\ Head(todo) = todo[1] /\ todo[1] \in Calls /\ todo[1].op = "lookup" /\ SlotInv
      /\ queue = <<>> /\ 1 \in 1..Len(todo)
  BY TakenCall DEF DoLookup
<1>2. /\ buf' = buf /\ UNCHANGED <<tables, gate>>
      /\ \/ Known(todo[1].ip) /\ UNCHANGED <<tx, queue, txslot, stray>>
         \/ /\ ~Known(todo[1].ip) /\ arp_send(Group, "whohas")
            /\ stray' = IF stray = "no" THEN "no" ELSE "missed"
  BY <1>1 DEF DoLookup
<1>3. /\ SlotInv'
      /\ ~Known(todo[1].ip) => queue' # <<>> /\ tx'[queue'[1].slot] = queue'[1].pay
  <2>1. ASSUME Known(todo[1].ip) PROVE SlotInv'
    BY <1>1, <1>2, <2>1 DEF SlotInv
  <2>2. ASSUME ~Known(todo[1].ip)
        PROVE  SlotInv' /\ queue' # <<>> /\ tx'[queue'[1].slot] = queue'[1].pay
    <3>1. "whohas" \in Pays
      BY DEF Pays, Texts
    <3>. QED
      BY <1>1, <1>2, <2>2, <3>1, ArpSend
  <2>. QED
    BY <2>1, <2>2
<1>4. TablesInv'
  BY <1>1, <1>2, <1>3, PlainCall
<1>5. ASSUME AnswerInv PROVE AnswerInv'
  <2>1. \A m, p : ~Sends(todo[1], m, p)
    BY <1>1 DEF Sends
  <2>2. (Known(todo[1].ip) \/ stray # "no") /\ Loaded(todo[1])
    BY <1>1, <1>5 DEF AnswerInv, ChainInv, CallStep
  <2>3. CASE Known(todo[1].ip)
    <3>1. tx' = tx /\ queue' = queue /\ txslot' = txslot /\ stray' = stray /\ buf = txslot
      BY <1>1, <1>2, <2>2, <2>3 DEF Loaded
    <3>. QED
      BY <1>1, <1>2, <1>5, <2>1, <3>1, CallAnswers
  <2>4. CASE ~Known(todo[1].ip)
    <3>1. stray' = "missed"
      BY <1>2, <2>2, <2>4
    <3>2. queue' # <<>> => Carries(queue[1].slot, queue[1].pay)'
      BY <1>3, <2>4 DEF Carries
    <3>. QED
      BY <1>1, <1>5, <2>1, <3>1, <3>2, CallAnswers
  <2>. QED
    BY <2>3, <2>4
<1>. QED
  BY <1>4, <1>5

LEMMA CommitStep ==
  ASSUME TablesInv, net_udp_commit
  PROVE  TablesInv' /\ (AnswerInv => AnswerInv')
<1>1. /\ CallStep /\ Head(todo) = todo[1] /\ todo[1] \in Calls /\ todo[1].op = "commit" /\ SlotInv
      /\ queue = <<>> /\ 1 \in 1..Len(todo)
  BY TakenCall DEF net_udp_commit
<1> DEFINE c == todo[1]
<1>2. /\ buf' = buf /\ stray' = stray /\ UNCHANGED <<tables, gate>>
      /\ IF Known(c.ip) THEN eth_send(MacOf(c.ip), c.pay, tx) ELSE arp_send(Group, "whohas")
  BY <1>1 DEF net_udp_commit
<1>3. c.pay \in Pays /\ c.ip \in Peers \cup {Group} /\ tx \in [Slots -> Pays \cup {None}]
  BY <1>1, CallFields DEF Pays, SlotInv
<1>4. ASSUME Known(c.ip)
      PROVE  /\ SlotInv' /\ queue' # <<>> /\ tx' = tx /\ queue'[1].slot = txslot
             /\ queue'[1].to = MacOf(c.ip) /\ queue'[1].pay = c.pay
  <2>1. MacOf(c.ip) \in Macs \cup {Group}
    BY <1>3, <1>4, KnownMac DEF TablesInv
  <2>. QED
    BY <1>1, <1>2, <1>3, <1>4, <2>1, SendSlot
<1>5. ASSUME ~Known(c.ip)
      PROVE  SlotInv' /\ queue' # <<>> /\ tx'[queue'[1].slot] = queue'[1].pay
  <2>1. "whohas" \in Pays
    BY DEF Pays, Texts
  <2>. QED
    BY <1>1, <1>2, <1>5, <2>1, ArpSend
<1>6. TablesInv'
  BY <1>1, <1>2, <1>4, <1>5, PlainCall
<1>7. ASSUME AnswerInv PROVE AnswerInv'
  <2>1. tx[txslot] = c.pay \/ (stray = "missed" /\ c.pay = "flow")
    <3>1. Loaded(c)
      BY <1>1, <1>7 DEF AnswerInv, ChainInv, CallStep
    <3>. QED
      BY <1>1, <3>1 DEF Loaded
  <2>2. queue' # <<>> => Carries(queue[1].slot, queue[1].pay)'
    BY <1>2, <1>4, <1>5, <2>1 DEF Carries
  <2>3. \A m, p : Sends(c, m, p) => queue' # <<>> /\ queue'[1].to = m /\ queue'[1].pay = p
    BY <1>1, <1>4 DEF Sends
  <2>. QED
    BY <1>1, <1>2, <1>7, <2>2, <2>3, CallAnswers
<1>. QED
  BY <1>6, <1>7

LEMMA ReportStep ==
  ASSUME TablesInv, igmp_report
  PROVE  TablesInv' /\ (AnswerInv => AnswerInv')
<1>1. /\ CallStep /\ Head(todo) = todo[1] /\ todo[1] \in Calls /\ todo[1].op = "report" /\ SlotInv
      /\ queue = <<>>
  BY TakenCall DEF igmp_report
<1> DEFINE pay == <<"report", todo[1].g>>
<1>2. buf' = buf /\ stray' = stray /\ UNCHANGED <<tables, gate>> /\ arp_send(Group, pay)
  BY <1>1 DEF igmp_report
<1>3. pay \in Pays
  BY <1>1, CallFields DEF Pays
<1>5. \A m, p : Sends(todo[1], m, p) => m = Group /\ p = pay
  BY <1>1 DEF Sends
<1> HIDE DEF pay
<1>4. /\ SlotInv' /\ queue' # <<>> /\ tx'[queue'[1].slot] = pay
      /\ queue'[1].to = Group /\ queue'[1].pay = pay
  BY <1>1, <1>2, <1>3, ArpSend
<1>6. TablesInv'
  BY <1>1, <1>2, <1>4, PlainCall
<1>7. AnswerInv => AnswerInv'
  BY <1>1, <1>2, <1>4, <1>5, CallAnswers DEF Carries
<1>. QED
  BY <1>6, <1>7

LEMMA ArpReplyStep ==
  ASSUME TablesInv, DoArpReply
  PROVE  TablesInv' /\ (AnswerInv => AnswerInv')
<1>1. /\ CallStep /\ Head(todo) = todo[1] /\ todo[1] \in Calls /\ todo[1].op = "arpreply" /\ SlotInv
      /\ queue = <<>>
  BY TakenCall DEF DoArpReply
<1>2. buf' = buf /\ stray' = stray /\ UNCHANGED <<tables, gate>> /\ arp_send(todo[1].mac, "arp")
  BY <1>1 DEF DoArpReply
<1>3. "arp" \in Pays /\ todo[1].mac \in Macs
  BY <1>1, CallFields DEF Pays, Texts
<1>4. /\ SlotInv' /\ queue' # <<>> /\ tx'[queue'[1].slot] = "arp"
      /\ queue'[1].to = todo[1].mac /\ queue'[1].pay = "arp"
  BY <1>1, <1>2, <1>3, ArpSend
<1>5. \A m, p : Sends(todo[1], m, p) => m = todo[1].mac /\ p = "arp"
  BY <1>1 DEF Sends
<1>6. TablesInv'
  BY <1>1, <1>2, <1>4, PlainCall
<1>7. AnswerInv => AnswerInv'
  BY <1>1, <1>2, <1>4, <1>5, CallAnswers DEF Carries
<1>. QED
  BY <1>6, <1>7

(* The port table is never full.                                            *)
LEMMA BindStep ==
  ASSUME TablesInv, net_udp_bind
  PROVE  TablesInv' /\ (AnswerInv => AnswerInv')
<1>1. /\ CallStep /\ Head(todo) = todo[1] /\ todo[1] \in Calls /\ todo[1].op = "bind" /\ SlotInv
      /\ queue = <<>> /\ BootInv /\ 1 \in 1..Len(todo)
  BY TakenCall DEF net_udp_bind
<1>2. /\ buf' = buf /\ igmp_groups' = igmp_groups /\ gate' = gate /\ txslot' = txslot
      /\ tx' = tx /\ queue' = queue /\ stray' = stray
  BY DEF net_udp_bind
<1>3. Cardinality(udp_bindings) < UDP_BINDINGS
  <2>1. IsFiniteSet(Ports) /\ Cardinality(Ports) < UDP_BINDINGS /\ udp_bindings \subseteq Ports
    BY <1>1, BootFits DEF BootInv
  <2>2. /\ Cardinality(udp_bindings) <= Cardinality(Ports) /\ Cardinality(udp_bindings) \in Nat
        /\ Cardinality(Ports) \in Nat
    BY <2>1, FS_Subset, FS_CardinalityType
  <2>. QED
    BY <2>1, <2>2 DEF UDP_BINDINGS
<1>4. udp_bindings' = udp_bindings \cup {todo[1].port} /\ todo[1].port \in Ports
  BY <1>1, <1>3 DEF net_udp_bind, BootInv
<1>5. SlotInv' /\ GateInv' /\ Joined' = Joined
  BY <1>1, <1>2 DEF SlotInv, TablesInv, GateInv, Joined
<1>6. /\ udp_bindings \subseteq udp_bindings' /\ udp_bindings' \subseteq Ports
      /\ igmp_groups' \in Seq(Groups)
      /\ \A i, j \in 1..Len(igmp_groups') : igmp_groups'[i] = igmp_groups'[j] => i = j
  BY <1>1, <1>2, <1>4 DEF BootInv
<1>7. TablesInv'
  BY <1>1, <1>2, <1>4, <1>5, <1>6, CallBoot
<1>8. \A m, p : ~Sends(todo[1], m, p)
  BY <1>1 DEF Sends
<1>9. AnswerInv => AnswerInv'
  BY <1>1, <1>2, <1>8, CallAnswers
<1>. QED
  BY <1>7, <1>9

(* Nor is the group table, which holds no group twice.                      *)
LEMMA GroupsFit ==
  ASSUME BootInv
  PROVE  Len(igmp_groups) < IGMP_N /\ Len(igmp_groups) \in Nat
<1> DEFINE n == Len(igmp_groups)
<1>1. n \in Nat /\ igmp_groups \in [1..n -> Groups]
  BY DEF BootInv
<1>2. igmp_groups \in Injection(1..n, Groups)
  <2>1. \A i, j \in 1..n : igmp_groups[i] = igmp_groups[j] => i = j
    BY DEF BootInv
  <2> HIDE DEF n
  <2>. QED
    BY <1>1, <2>1, Fun_IsInj
<1>3. IsFiniteSet(Groups) /\ Cardinality(Groups) < IGMP_N /\ Cardinality(Groups) \in Nat
  BY BootFits, FS_CardinalityType
<1>4. Cardinality(1..n) <= Cardinality(Groups)
  BY <1>2, <1>3, FS_Injection
<1>5. Cardinality(1..n) = n
  <2>1. 1..n = {} \/ 1 <= n
    BY <1>1
  <2>2. 1 <= n => Cardinality(1..n) = n - 1 + 1
    BY <1>1, FS_Interval
  <2>3. 1..n = {} => n = 0
    BY <1>1
  <2>. QED
    BY <1>1, <2>1, <2>2, <2>3, FS_EmptySet
<1>. QED
  BY <1>1, <1>3, <1>4, <1>5 DEF IGMP_N

LEMMA JoinStep ==
  ASSUME TablesInv, net_igmp_join
  PROVE  TablesInv' /\ (AnswerInv => AnswerInv')
<1>1. /\ CallStep /\ Head(todo) = todo[1] /\ todo[1] \in Calls /\ todo[1].op = "join" /\ SlotInv
      /\ queue = <<>> /\ BootInv /\ 1 \in 1..Len(todo)
  BY TakenCall DEF net_igmp_join
<1> DEFINE g == todo[1].g
           pay == <<"report", g>>
<1>2. /\ buf' = buf /\ udp_bindings' = udp_bindings /\ gate' = gate /\ stray' = stray
  BY DEF net_igmp_join
<1>3. \/ g \in Joined /\ UNCHANGED <<igmp_groups, tx, queue, txslot>>
      \/ g \notin Joined /\ igmp_groups' = Append(igmp_groups, g) /\ arp_send(Group, pay)
  <2>1. ~(Len(igmp_groups) >= IGMP_N)
    BY <1>1, GroupsFit DEF IGMP_N
  <2>. QED
    BY <1>1, <2>1 DEF net_igmp_join
<1>4. g \in Groups /\ pay \in Pays
  BY <1>1, CallFields DEF BootInv, Pays
<1>5. GateInv' /\ udp_bindings' \subseteq Ports
  BY <1>1, <1>2 DEF TablesInv, GateInv, BootInv
<1>6. \A m, p : ~Sends(todo[1], m, p)
  BY <1>1 DEF Sends
<1> HIDE DEF pay
<1>7. CASE g \in Joined /\ UNCHANGED <<igmp_groups, tx, queue, txslot>>
  <2>1. tx' = tx /\ queue' = queue /\ txslot' = txslot /\ igmp_groups' = igmp_groups
    BY <1>7
  <2>2. SlotInv' /\ Joined' = Joined
    BY <1>1, <1>2, <2>1 DEF SlotInv, Joined
  <2>3. /\ igmp_groups' \in Seq(Groups)
        /\ \A i, j \in 1..Len(igmp_groups') : igmp_groups'[i] = igmp_groups'[j] => i = j
    BY <1>1, <2>1 DEF BootInv
  <2>4. TablesInv'
    BY <1>1, <1>2, <1>5, <1>7, <2>2, <2>3, CallBoot
  <2>5. AnswerInv => AnswerInv'
    BY <1>1, <1>2, <1>6, <2>1, CallAnswers
  <2>. QED
    BY <2>4, <2>5
<1>8. CASE g \notin Joined /\ igmp_groups' = Append(igmp_groups, g) /\ arp_send(Group, pay)
  <2> DEFINE n == Len(igmp_groups)
  <2>1. n \in Nat /\ igmp_groups \in Seq(Groups)
    BY <1>1 DEF BootInv
  <2>2. /\ igmp_groups' \in Seq(Groups) /\ Len(igmp_groups') = n + 1
        /\ \A i \in 1..n : igmp_groups'[i] = igmp_groups[i] /\ igmp_groups'[i] # g
        /\ igmp_groups'[n + 1] = g
    <3>1. /\ igmp_groups' \in Seq(Groups) /\ Len(igmp_groups') = n + 1
          /\ \A i \in 1..n : igmp_groups'[i] = igmp_groups[i]
          /\ igmp_groups'[n + 1] = g
      BY <1>4, <1>8, <2>1, AppendFacts
    <3>2. \A i \in 1..n : igmp_groups[i] # g
      BY <1>8, <2>1 DEF Joined
    <3>. QED
      BY <3>1, <3>2
  <2>3. \A i, j \in 1..Len(igmp_groups') : igmp_groups'[i] = igmp_groups'[j] => i = j
    <3>1. \A i \in 1..Len(igmp_groups') : i \in 1..n \/ i = n + 1
      BY <2>1, <2>2
    <3>2. \A i, j \in 1..n : igmp_groups[i] = igmp_groups[j] => i = j
      BY <1>1 DEF BootInv
    <3> HIDE DEF g, n
    <3>. QED
      BY <2>2, <3>1, <3>2
  <2>4. Joined \subseteq Joined' /\ g \in Joined'
    <3>1. DOMAIN igmp_groups = 1..n /\ DOMAIN igmp_groups' = 1..(n + 1)
      BY <2>1, <2>2
    <3>2. \A i \in 1..n : i \in 1..(n + 1)
      BY <2>1
    <3>3. n + 1 \in 1..(n + 1)
      BY <2>1
    <3> HIDE DEF g, n
    <3>. QED
      BY <2>2, <3>1, <3>2, <3>3 DEF Joined
  <2>5. /\ SlotInv' /\ queue' # <<>> /\ tx'[queue'[1].slot] = pay /\ queue'[1].pay = pay
    BY <1>1, <1>2, <1>4, <1>8, ArpSend
  <2>6. TablesInv'
    BY <1>1, <1>2, <1>5, <2>2, <2>3, <2>4, <2>5, CallBoot
  <2>7. AnswerInv => AnswerInv'
    BY <1>1, <1>2, <1>6, <2>5, CallAnswers DEF Carries
  <2>. QED
    BY <2>6, <2>7
<1>. QED
  BY <1>3, <1>7, <1>8

LEMMA GateInitStep ==
  ASSUME TablesInv, rx_gate_init
  PROVE  TablesInv' /\ (AnswerInv => AnswerInv')
<1>1. /\ CallStep /\ todo[1] \in Calls /\ todo[1].op = "gate" /\ SlotInv /\ queue = <<>> /\ BootInv
  BY TakenCall DEF rx_gate_init
<1>2. /\ buf' = buf /\ udp_bindings' = udp_bindings /\ igmp_groups' = igmp_groups
      /\ txslot' = txslot /\ tx' = tx /\ queue' = queue /\ stray' = stray
  BY DEF rx_gate_init, tables
<1>3. GateInv' /\ ~gate'.pending /\ gate'.age = 0
  BY InitGate DEF TablesInv
<1>4. SlotInv' /\ Joined' = Joined
  BY <1>1, <1>2 DEF SlotInv, Joined
<1>5. /\ udp_bindings' \subseteq Ports /\ igmp_groups' \in Seq(Groups)
      /\ \A i, j \in 1..Len(igmp_groups') : igmp_groups'[i] = igmp_groups'[j] => i = j
  BY <1>1, <1>2 DEF BootInv
<1>6. TablesInv'
  BY <1>1, <1>2, <1>3, <1>4, <1>5, CallBoot
<1>7. \A m, p : ~Sends(todo[1], m, p)
  BY <1>1 DEF Sends
<1>8. AnswerInv => AnswerInv'
  BY <1>1, <1>2, <1>7, CallAnswers
<1>. QED
  BY <1>6, <1>8

-----------------------------------------------------------------------------
(* The MAC empties its queue and pays the debt it carries.                  *)
LEMMA TransmitStep ==
  ASSUME TablesInv, Transmit
  PROVE  TablesInv' /\ (AnswerInv => AnswerInv')
<1>1. /\ arp_cache' = arp_cache /\ arp_next' = arp_next /\ heard' = heard /\ gate' = gate
      /\ udp_bindings' = udp_bindings /\ igmp_groups' = igmp_groups
      /\ txslot' = txslot /\ tx' = tx /\ todo' = todo /\ buf' = buf
      /\ queue # <<>> /\ queue' = Tail(queue)
      /\ sent' = [to |-> Head(queue).to, meant |-> Head(queue).pay, got |-> tx[Head(queue).slot]]
      /\ due' = due \ {<<Head(queue).to, tx[Head(queue).slot]>>} /\ stray' = stray
  BY DEF Transmit, tables
<1> DEFINE E == [slot : Slots, to : Macs \cup {Group}, pay : Pays]
<1>2. queue \in Seq(E) /\ Len(queue) <= 1
  BY DEF TablesInv, SlotInv
<1> HIDE DEF E
<1>3. queue' \in Seq(E) /\ Len(queue') = 0 /\ Head(queue) = queue[1]
  <2>1. queue \in Seq(E) /\ queue # <<>> /\ queue' = Tail(queue)
    BY <1>1, <1>2
  <2>2. /\ Tail(queue) \in Seq(E) /\ Len(queue) \in Nat /\ Len(queue) > 0
        /\ Head(queue) = queue[1] /\ Len(Tail(queue)) = Len(queue) - 1
    BY <2>1, TailFacts
  <2>. QED
    BY <1>2, <2>1, <2>2
<1>4. queue' = <<>>
  BY <1>3, EmptySeq
<1>5. SlotInv'
  BY <1>1, <1>3 DEF TablesInv, SlotInv, E
<1>6. ArpInv' /\ GateInv' /\ Joined' = Joined
  BY <1>1, ArpKept DEF TablesInv, GateInv, Joined
<1>7. BootInv'
  BY <1>1, <1>6 DEF TablesInv, BootInv
<1>8. TablesInv'
  BY <1>5, <1>6, <1>7 DEF TablesInv
<1>9. ASSUME AnswerInv PROVE AnswerInv'
  <2>1. tx[queue[1].slot] = queue[1].pay \/ (stray = "missed" /\ queue[1].pay = "flow")
    BY <1>1, <1>9 DEF AnswerInv, QueueInv, Carries
  <2>2. QueueInv'
    BY <1>1, <1>3, <1>4, <2>1 DEF QueueInv, SentAsBuilt
  <2>3. ChainInv'
    BY <1>1, <1>9 DEF AnswerInv, ChainInv, Chained, Loaded, Known, Cached
  <2>4. ASSUME NEW d \in due', stray' # "missed"
        PROVE  Underway(d)'
    <3>1. d \in due /\ d # <<queue[1].to, queue[1].pay>> /\ d \in (Macs \cup {Group}) \X Pays
      BY <1>1, <1>3, <1>9, <2>1, <2>4 DEF AnswerInv, DueInv
    <3>2. ~(queue[1].to = d[1] /\ queue[1].pay = d[2])
      BY <3>1
    <3>3. PICK i \in 1..Len(todo) : Sends(todo[i], d[1], d[2])
      BY <1>1, <1>9, <2>4, <3>1, <3>2 DEF AnswerInv, DueInv, Underway
    <3>4. Sends(todo[i], d[1], d[2])'
      BY <1>1, <3>3 DEF Sends, Known, MacOf, Cached
    <3>. QED
      BY <1>1, <3>4 DEF Underway
  <2>5. due' \subseteq (Macs \cup {Group}) \X Pays
    BY <1>1, <1>9 DEF AnswerInv, DueInv
  <2>6. DueInv'
    BY <2>4, <2>5 DEF DueInv
  <2>. QED
    BY <2>2, <2>3, <2>6 DEF AnswerInv
<1>. QED
  BY <1>8, <1>9

-----------------------------------------------------------------------------
LEMMA InitInv ==
  ASSUME Init
  PROVE  TablesInv /\ AnswerInv
<1>1. ArpInv
  BY ConstantTypes DEF Init, ArpInv
<1>2. GateInv
  <2> DEFINE f == FALSE
             z == 0
             g == [enable |-> f, local |-> f, pending |-> f, at |-> z, now |-> z, age |-> z]
  <2>1. gate = g /\ f \in BOOLEAN /\ z \in 0..(Wrap - 1) /\ z \in 0..RevertTicks /\ ~f
    BY ConstantTypes DEF Init
  <2>2. z \in {0, RevertTicks}
    OBVIOUS
  <2> HIDE DEF f, z
  <2>3. g \in GateState /\ g.pending = f /\ g.age = z
    BY <2>1 DEF GateState
  <2> HIDE DEF g
  <2>. QED
    BY <2>1, <2>2, <2>3 DEF GateInv
<1>3. todo = Boot /\ udp_bindings = {} /\ igmp_groups = <<>> /\ queue = <<>> /\ due = {} /\ sent = None
      /\ stray = "no"
  BY DEF Init
<1>4. BootInv
  <2>1. /\ todo \in Seq(Calls) /\ udp_bindings \subseteq Ports /\ igmp_groups \in Seq(Groups)
        /\ Len(igmp_groups) = 0
    BY <1>3, BootFacts
  <2>2. \A i, j \in 1..Len(igmp_groups) : igmp_groups[i] = igmp_groups[j] => i = j
    BY <2>1
  <2>3. Len(todo) = 16 /\ DOMAIN Boot = 1..16
    BY <1>3, BootFacts
  <2>4. gate.age = 0 /\ ~gate.pending
    BY DEF Init
  <2>5. ASSUME NEW i \in 1..Len(todo)
        PROVE  /\ todo[i].op = "bind" => todo[i].port \in Ports
               /\ todo[i].op = "join" => todo[i].g \in Groups
    BY <1>3, <2>3 DEF Ports, Groups
  <2>6. ASSUME NEW p \in Ports
        PROVE  \E i \in 1..Len(todo) : todo[i].op = "bind" /\ todo[i].port = p
    BY <1>3, <2>3 DEF Ports
  <2>7. ASSUME NEW g \in Groups
        PROVE  \E i \in 1..Len(todo) : todo[i].op = "join" /\ todo[i].g = g
    BY <1>3, <2>3 DEF Groups
  <2>. QED
    BY <2>1, <2>2, <2>4, <2>5, <2>6, <2>7 DEF BootInv
<1>5. SlotInv
  BY ConstantTypes DEF Init, SlotInv, Slots
<1>6. ChainInv
  <2>1. \A i \in 1..16 : todo[i].op \notin {"commit", "finish", "lookup"}
    BY <1>3, BootFacts DEF Opens
  <2>2. Len(todo) = 16 /\ 1 \in 1..16 /\ \A i \in 2..16 : i \in 1..16
    BY <1>3, BootFacts
  <2>3. Chained(todo)
    BY <2>1, <2>2 DEF Chained, Follows
  <2>4. Loaded(todo[1])
    BY <2>1, <2>2 DEF Loaded
  <2>. QED
    BY <2>1, <2>2, <2>3, <2>4 DEF ChainInv
<1>7. QueueInv /\ DueInv
  BY <1>3 DEF QueueInv, SentAsBuilt, DueInv
<1>. QED
  BY <1>1, <1>2, <1>4, <1>5, <1>6, <1>7 DEF TablesInv, AnswerInv

LEMMA StepInv ==
  ASSUME TablesInv, [Next]_vars
  PROVE  TablesInv' /\ (AnswerInv => AnswerInv')
<1>1. CASE CpuNext
  <2>1. CASE rx_gate_poll
    <3>1. GateInv' /\ Idle /\ UNCHANGED <<arp_cache, arp_next, tables, txpath, heard, due, sent, stray>>
      BY <2>1, PollGate DEF TablesInv, rx_gate_poll
    <3>. QED
      BY <3>1, GateAloneStep
  <2>2. CASE ConsoleX
    <3>1. GateInv' /\ Idle /\ UNCHANGED <<arp_cache, arp_next, tables, txpath, heard, due, sent, stray>>
      BY <2>2, ToggleGate DEF TablesInv, ConsoleX
    <3>. QED
      BY <3>1, GateAloneStep
  <2>. QED
    BY <1>1, <2>1, <2>2, BuildStep, FinishStep, LookupStep, CommitStep, ReportStep, ArpReplyStep,
       BindStep, JoinStep, GateInitStep, PollStep DEF CpuNext
<1>2. CASE Transmit
  BY <1>2, TransmitStep
<1>3. CASE RxNext
  <2>1. ASSUME NEW ip \in Peers, NEW mac \in Macs,
               \/ \E us \in BOOLEAN : RxWhoHas(ip, mac, us)
               \/ RxPing(ip, mac)
               \/ \E g \in Groups \cup {"allhosts"} : RxQuery(g, ip, mac)
               \/ RxRequest(ip, mac)
               \/ \E q \in Queries, leader \in BOOLEAN : info_rx(ip, mac, q, leader)
               \/ \E dst \in Peers \cup {None} : RxFlow(ip, mac, dst)
               \/ \E cmd \in {"1", "0", "c"} : RxGate(ip, mac, cmd)
        PROVE  TablesInv' /\ (AnswerInv => AnswerInv')
    BY <2>1, WhoHasStep, PingStep, QueryStep, AskedStep, InfoStep, FlowStep, GateCommandStep
  <2>2. ASSUME NEW dst \in {"audio", "other"}, RxNoise(dst)
        PROVE  TablesInv' /\ (AnswerInv => AnswerInv')
    BY <2>2, NoiseStep
  <2>. QED
    BY <1>3, <2>1, <2>2 DEF RxNext
<1>4. CASE UNCHANGED vars
  <2>1. UNCHANGED gate /\ UNCHANGED <<arp_cache, arp_next, tables, txpath, heard, due, sent, stray>>
    BY <1>4 DEF vars, tables, txpath
  <2>2. GateInv'
    BY <2>1 DEF TablesInv, GateInv
  <2>. QED
    BY <2>1, <2>2, GateAloneStep
<1>. QED
  BY <1>1, <1>2, <1>3, <1>4 DEF Next

LEMMA TablesAlways == Spec => []TablesInv
<1>1. Init => TablesInv
  BY InitInv
<1>2. TablesInv /\ [Next]_vars => TablesInv'
  BY StepInv
<1>. QED
  BY <1>1, <1>2, PTL DEF Spec

LEMMA AnswersAlways == Spec => [](TablesInv /\ AnswerInv)
<1>1. Init => TablesInv /\ AnswerInv
  BY InitInv
<1>2. TablesInv /\ AnswerInv /\ [Next]_vars => (TablesInv /\ AnswerInv)'
  BY StepInv
<1>. QED
  BY <1>1, <1>2, PTL DEF Spec

(* The tables of net.c stay within their sizes; when main's boot sequence   *)
(* is over every port is bound and every group joined, although no caller   *)
(* acts on a full table; and an address in the ARP cache leads to the       *)
(* interface it was last heard from, however entries are replaced.          *)
THEOREM TablesStaySound == Spec => []TablesSound
<1>1. TablesInv => TablesSound
  <2> SUFFICES ASSUME TablesInv PROVE TablesSound
    OBVIOUS
  <2>1. TypeOK
    <3>1. arp_next \in 0..(ARP_CACHE_N - 1)
      BY DEF TablesInv, ArpInv
    <3>2. txslot \in DOMAIN tx /\ buf \in DOMAIN tx /\ Len(queue) <= ETHMAC_TX_SLOTS
      <4>1. Len(queue) \in Nat /\ Len(queue) <= 1
        BY DEF TablesInv, SlotInv
      <4>. QED
        BY <4>1, ConstantTypes DEF TablesInv, SlotInv
    <3>3. udp_bindings \subseteq Ports /\ Joined \subseteq Groups
      BY DEF TablesInv, BootInv, Joined
    <3>4. {gate.now, gate.at} \subseteq 0..(Wrap - 1)
      BY DEF TablesInv, GateInv, GateState
    <3>. QED
      BY <3>1, <3>2, <3>3, <3>4 DEF TypeOK
  <2>2. BootComplete
    <3> SUFFICES ASSUME todo = <<>> PROVE udp_bindings = Ports /\ Joined = Groups
      BY DEF BootComplete
    <3>1. 1..Len(todo) = {}
      OBVIOUS
    <3>2. Joined \subseteq Groups
      BY DEF TablesInv, BootInv, Joined
    <3>. QED
      BY <3>1, <3>2 DEF TablesInv, BootInv
  <2>3. LookupCurrent
    <3> SUFFICES ASSUME NEW p \in Peers, Cached(p) # {} PROVE MacOf(p) = heard[p]
      BY DEF LookupCurrent
    <3>1. PICK i \in 0..(ARP_CACHE_N - 1) : arp_cache[i] # None /\ arp_cache[i].ip = p
      BY DEF Cached, TablesInv, ArpInv
    <3>2. MacOf(p) = arp_cache[i].mac
      BY <3>1, CacheRead DEF CacheFacts, TablesInv
    <3>. QED
      BY <3>1, <3>2 DEF TablesInv, ArpInv
  <2>. QED
    BY <2>1, <2>2, <2>3 DEF TablesSound
<1>. QED
  BY <1>1, TablesAlways, PTL

(* rx_gate_poll ends a provisional arm exactly when its time is up, for     *)
(* every length of the revert below half the counter's range, wherever the  *)
(* millisecond counter wraps.                                               *)
THEOREM RevertsOnTime == Spec => []RevertOnTime
<1>1. TablesInv => RevertOnTime
  BY DEF TablesInv, GateInv, RevertOnTime
<1>. QED
  BY <1>1, TablesAlways, PTL

(* Whatever receiver a flow request names, every frame leaves with the      *)
(* payload its handler built: no handler's slot is reused before the MAC    *)
(* has read it, and none is sent with what an earlier call left there.  The *)
(* one frame that may not is the answer to a flow request that named        *)
(* another receiver than its sender, which the ARP cache did not hold.      *)
THEOREM FramesAsBuilt == Spec => []SentAsBuilt
<1>1. TablesInv /\ AnswerInv => SentAsBuilt
  BY DEF AnswerInv, QueueInv
<1>. QED
  BY <1>1, AnswersAlways, PTL

(* Whoever asks the board something has its answer on the wire, at the      *)
(* interface that asked, before the next frame is taken: no filter, full    *)
(* table or cache miss swallows it, for any number of peers and any size of *)
(* the cache, and the miss of one flow request costs no other frame its     *)
(* answer.                                                                  *)
THEOREM EveryoneAnswered == Spec => []AllAnswered
<1>1. TablesInv /\ AnswerInv => AllAnswered
  BY IdleFacts DEF AllAnswered
<1>. QED
  BY <1>1, AnswersAlways, PTL

=============================================================================
