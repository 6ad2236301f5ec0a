-------------------------------- MODULE Srp --------------------------------
(***************************************************************************)
(* The MSRP endpoint of the AVB reference firmware                         *)
(* (_avb_reference/firmware/srp.c): the talker and listener declarations,  *)
(* the LeaveAll exchange, the table of remote talkers and the SR domain,   *)
(* against a bridge port that keeps a registrar per attribute.             *)
(*                                                                         *)
(* Time is counted in ticks shorter than the bridge's leave time.  A       *)
(* timestamp is kept as its age, and where the code compares two stamps    *)
(* also as whether it was taken before the uint32 counter last wrapped.    *)
(* The main loop polls far more often than a tick, so something that       *)
(* happens is polled before the next tick.                                 *)
(* A PDU of several vectors acts as its vectors one after the other.       *)
(***************************************************************************)
EXTENDS Naturals, Sequences, FiniteSets, SequencesExt

CONSTANTS
  Talkers,       \* our talker streams, in the order of their index
  Remote,        \* remote streams
  Macs,          \* senders of domain declarations: bridges and peers
  NoMac,
  Listeners,     \* SRP_MAX_LISTENER_STREAMS
  RemoteSlots,   \* SRP_MAX_REMOTE_TALKERS
  JoinPeriod,    \* MRP_JOIN_PERIOD_MS
  LeaveAllPeriod,\* MRP_LEAVEALL_PERIOD_MS
  MaxEvents      \* commands and received vectors in a behaviour (a bound)

ASSUME SrpAssumption ==
  /\ Listeners \in Nat \ {0} /\ RemoteSlots \in Nat \ {0}
  /\ JoinPeriod \in Nat \ {0} /\ LeaveAllPeriod \in Nat \ {0, 1}
  /\ MaxEvents \in Nat /\ NoMac \notin Macs /\ Talkers \in Seq(ToSet(Talkers))

VARIABLES
  srp_listeners,    \* listeners[li] of srp_state_t
  talker_enabled, n_talkers, talker_new_count,
  seen, seenAge,    \* talker_listener_seen and its stamp
  domain_received, rx_domain, bridge_mac, domain_new_count, mvrp_new_count,
  remote_talkers,
  rx_leaveall, joinAge, lvaAge, lvaPeriod,
  reg,              \* the bridge port: the registrar of each of our attributes
  lapsed,           \* history: attributes a LeaveAll made the bridge forget
  polled, events

endpoint == <<srp_listeners, talker_enabled, n_talkers, talker_new_count, seen, seenAge,
              domain_received, rx_domain, bridge_mac, domain_new_count, mvrp_new_count,
              remote_talkers, rx_leaveall, joinAge, lvaAge, lvaPeriod>>
srp_vars == <<endpoint, reg, lapsed, polled, events>>

TalkerStreams == ToSet(Talkers)
Timeout == 3 * LeaveAllPeriod
Attributes == {<<"Talker", st>> : st \in TalkerStreams}
                   \cup {<<"Listener", st>> : st \in Remote}
                   \cup {<<"Domain", "A">>, <<"Vid", 2>>}

NoListener == [enabled |-> FALSE, stream_id |-> "none", substate |-> "Ignore",
               new_count |-> 0, talker_registered |-> FALSE, age |-> 0]
NoRemote == [valid |-> FALSE, stream_id |-> "none", age |-> 0, before |-> FALSE]

Smallest(S) == CHOOSE n \in S : \A k \in S : n <= k
Aged(a) == IF a < Timeout THEN a + 1 ELSE a

(* srp_next_lva_period draws the next period from [10 s, 15 s).             *)
NextPeriods == LeaveAllPeriod..(LeaveAllPeriod + (LeaveAllPeriod \div 2) - 1)

srp_init ==
  /\ srp_listeners = [li \in 1..Listeners |-> NoListener]
  /\ talker_enabled = FALSE /\ n_talkers = 0 /\ talker_new_count = 0
  /\ seen = FALSE /\ seenAge = 0
  /\ domain_received = FALSE /\ rx_domain = NoMac /\ bridge_mac = NoMac
  /\ domain_new_count = 0 /\ mvrp_new_count = 0
  /\ remote_talkers = [i \in 1..RemoteSlots |-> NoRemote]
  /\ rx_leaveall = FALSE /\ joinAge = 0 /\ lvaAge = 0
  /\ lvaPeriod \in NextPeriods

SrpInit ==
  /\ srp_init
  /\ reg = [a \in Attributes |-> "MT"]
  /\ lapsed = {} /\ polled = FALSE /\ events = MaxEvents

----------------------------------------------------------------------------
(* The bridge port.  A vector whose header carries LeaveAll makes every     *)
(* registration of its type leave; its event then joins or leaves its own   *)
(* attribute.  A leaving registration is forgotten at the next tick.        *)

Vector(type, st, lva, event) == [type |-> type, stream |-> st, lva |-> lva, event |-> event]

LeaveAll(r, type) == [a \in Attributes |->
  IF a[1] = type /\ r[a] = "IN" THEN "LeftAll" ELSE r[a]]

(* The registrars after a sequence of vectors: an attribute has the state   *)
(* its last own vector gave it, unless a LeaveAll of its type came later.   *)
Receive(r, vectors) == [a \in Attributes |->
  LET own  == {i \in 1..Len(vectors) : <<vectors[i].type, vectors[i].stream>> = a}
      lvas == {i \in 1..Len(vectors) : vectors[i].type = a[1] /\ vectors[i].lva}
      last == CHOOSE i \in own : \A k \in own : k <= i
      now  == IF own = {} THEN r[a] ELSE IF vectors[last].event = "Lv" THEN "Left" ELSE "IN"
      late == IF own = {} THEN lvas ELSE {i \in lvas : i > last}
  IN  IF late # {} /\ now = "IN" THEN "LeftAll" ELSE now]

----------------------------------------------------------------------------
(* What the endpoint sends.                                                 *)

Event(new_count) == IF new_count < 2 THEN "New" ELSE "JoinIn"
Bump(new_count) == IF new_count < 2 THEN new_count + 1 ELSE new_count

(* PDU 1: the domain and one message per enabled listener, each with the    *)
(* LeaveAll of this round in its own vector header.                         *)
ListenerVectors(ls, lva) ==
  LET enabled == {li \in 1..Listeners : ls[li].enabled}
      n       == Cardinality(enabled)
      inOrder == CHOOSE f \in [1..n -> enabled] : \A i, k \in 1..n : i < k => f[i] < f[k]
  IN  [i \in 1..n |-> LET l == ls[inOrder[i]]
                      IN  Vector("Listener", l.stream_id, lva, Event(l.new_count))]

(* Mutant: LeaveAll on every vector, as when each stream had its own PDU. *)
TalkerVectorsEach(lva, new_count) ==
  LET event == IF new_count < 2 THEN "New" ELSE IF seen THEN "JoinIn" ELSE "JoinMt"
  IN  [i \in 1..n_talkers |-> Vector("Talker", Talkers[i], lva, event)]

(* PDU 2, msrp_emit_all_talkers: LeaveAll rides on the first vector only.   *)
TalkerVectors(lva, new_count) ==
  LET event == IF new_count < 2 THEN "New" ELSE IF seen THEN "JoinIn" ELSE "JoinMt"
  IN  [i \in 1..n_talkers |-> Vector("Talker", Talkers[i], lva /\ i = 1, event)]

DomainVector(lva, new_count) == Vector("Domain", "A", lva, Event(new_count))

(* mvrp_send_join_vid: never a LeaveAll.                                    *)
VidVector(new_count) == Vector("Vid", 2, FALSE, Event(new_count))

(* The explicit Leaves of a talker that is disabled.                        *)
TalkerLeave == [i \in 1..n_talkers |-> Vector("Talker", Talkers[i], FALSE, "Lv")]

(* srp_send_declarations, and the MVRP PDU that srp_poll sends after it.    *)
Declarations(ls, lva, domainNew, talkerNew, mvrpNew) ==
  <<DomainVector(lva, domainNew)>>
    \o ListenerVectors(ls, lva)
    \o (IF talker_enabled THEN TalkerVectors(lva, talkerNew) ELSE <<>>)
    \o <<VidVector(mvrpNew)>>

(* srp_poll: the answer to a received LeaveAll, the LeaveAll timer, the     *)
(* age-outs, and the declarations when the join timer is due.  A LeaveAll   *)
(* whose timer fires between two joins is consumed without being sent.      *)
Cleared(l) == [l EXCEPT !.new_count = 0]

AgedListener(l) ==
  LET gap == l.enabled /\ l.talker_registered /\ l.age >= Timeout
      off == IF gap THEN [l EXCEPT !.talker_registered = FALSE, !.age = 0] ELSE l
  IN  IF l.enabled /\ l.substate # "Ready"
        THEN [off EXCEPT !.substate = "Ready", !.new_count = 0] ELSE off

AgedRemote(t) == IF t.valid /\ t.age >= Timeout THEN NoRemote ELSE t

JoinAge == IF rx_leaveall THEN JoinPeriod ELSE joinAge

srp_poll ==
  LET rla      == rx_leaveall
      lva      == ~rla /\ lvaAge >= lvaPeriod
      due      == JoinAge >= JoinPeriod
      base     == [li \in 1..Listeners |->
                     AgedListener(IF rla THEN Cleared(srp_listeners[li]) ELSE srp_listeners[li])]
      domain   == IF rla THEN 0 ELSE domain_new_count
      talker   == IF rla THEN 0 ELSE talker_new_count
      mvrp     == IF rla THEN 0 ELSE mvrp_new_count
      expired  == seen /\ seenAge >= Timeout
  IN  /\ rx_leaveall' = FALSE
      /\ lvaAge' = IF rla \/ lva THEN 0 ELSE lvaAge
      /\ IF rla \/ lva THEN lvaPeriod' \in NextPeriods ELSE UNCHANGED lvaPeriod
      /\ remote_talkers' = [i \in 1..RemoteSlots |-> AgedRemote(remote_talkers[i])]
      /\ seen' = (seen /\ ~expired)
      /\ seenAge' = IF expired THEN 0 ELSE seenAge
      /\ srp_listeners' = [li \in 1..Listeners |->
           IF due /\ base[li].enabled THEN [base[li] EXCEPT !.new_count = Bump(@)] ELSE base[li]]
      /\ domain_new_count' = IF due THEN Bump(domain) ELSE domain
      /\ talker_new_count' = IF due /\ talker_enabled THEN Bump(talker) ELSE talker
      /\ mvrp_new_count'   = IF due THEN Bump(mvrp) ELSE mvrp
      /\ joinAge' = IF due THEN 0 ELSE joinAge
      /\ reg' = IF due THEN Receive(reg, Declarations(base, lva, domain, talker, mvrp)) ELSE reg
      /\ polled' = TRUE
      /\ UNCHANGED <<talker_enabled, n_talkers, domain_received, rx_domain, bridge_mac,
                     lapsed, events>>

----------------------------------------------------------------------------
(* Commands.  A command or a received vector is followed by a poll before   *)
(* the next tick.                                                           *)

Happens == events > 0 /\ events' = events - 1 /\ polled' = FALSE

Matching(st) == {li \in 1..Listeners : srp_listeners[li].enabled /\ srp_listeners[li].stream_id = st}
Free == {li \in 1..Listeners : ~srp_listeners[li].enabled}

(* srp_listener_enable(stream, 1): a full table drops the request.          *)
ListenerEnable(st) ==
  /\ Happens
  /\ LET slots == IF Matching(st) # {} THEN Matching(st) ELSE Free
     IN  srp_listeners' = IF slots = {} THEN srp_listeners ELSE
           [srp_listeners EXCEPT ![Smallest(slots)] =
              [enabled |-> TRUE, stream_id |-> st, substate |-> "Ready", new_count |-> 0,
               talker_registered |-> FALSE, age |-> 0]]
  /\ UNCHANGED <<talker_enabled, n_talkers, talker_new_count, seen, seenAge, domain_received,
                 rx_domain, bridge_mac, domain_new_count, mvrp_new_count, remote_talkers,
                 rx_leaveall, joinAge, lvaAge, lvaPeriod, reg, lapsed>>

(* srp_listener_enable(stream, 0): an explicit Leave, then the slot is free.*)
ListenerDisable(st) ==
  /\ Happens
  /\ Matching(st) # {}
  /\ srp_listeners' = [srp_listeners EXCEPT ![Smallest(Matching(st))].enabled = FALSE]
  /\ reg' = Receive(reg, <<Vector("Listener", st, FALSE, "Lv")>>)
  /\ UNCHANGED <<talker_enabled, n_talkers, talker_new_count, seen, seenAge, domain_received,
                 rx_domain, bridge_mac, domain_new_count, mvrp_new_count, remote_talkers,
                 rx_leaveall, joinAge, lvaAge, lvaPeriod, lapsed>>

(* srp_talker_set: the streams are configured in the order of their index.  *)
srp_talker_set ==
  /\ n_talkers < Len(Talkers)
  /\ n_talkers' = n_talkers + 1
  /\ UNCHANGED <<srp_listeners, talker_enabled, talker_new_count, seen, seenAge, domain_received,
                 rx_domain, bridge_mac, domain_new_count, mvrp_new_count, remote_talkers,
                 rx_leaveall, joinAge, lvaAge, lvaPeriod, reg, lapsed, polled, events>>

srp_talker_enable(enable) ==
  /\ Happens
  /\ talker_enabled' = enable
  /\ talker_new_count' = IF enable THEN 0 ELSE talker_new_count
  /\ reg' = IF talker_enabled /\ ~enable
              THEN Receive(reg, TalkerLeave)
              ELSE reg
  /\ UNCHANGED <<srp_listeners, n_talkers, seen, seenAge, domain_received, rx_domain, bridge_mac,
                 domain_new_count, mvrp_new_count, remote_talkers, rx_leaveall, joinAge,
                 lvaAge, lvaPeriod, lapsed>>

(* srp_set_bridge_mac: a new authority makes the latched domain void.       *)
srp_set_bridge_mac(mac) ==
  /\ Happens
  /\ bridge_mac' = mac
  /\ domain_received' = (domain_received /\ bridge_mac = mac)
  /\ UNCHANGED <<srp_listeners, talker_enabled, n_talkers, talker_new_count, seen, seenAge, rx_domain,
                 domain_new_count, mvrp_new_count, remote_talkers, rx_leaveall, joinAge,
                 lvaAge, lvaPeriod, reg, lapsed>>

----------------------------------------------------------------------------
(* srp_process_rx, one vector.  A LeaveAll in its header is remembered for  *)
(* the next poll, and the bridge that sent it forgets what is not declared  *)
(* again.                                                                   *)

RxLeaveAll(type, lva) ==
  /\ rx_leaveall' = (rx_leaveall \/ lva)
  /\ reg' = IF lva THEN LeaveAll(reg, type) ELSE reg

RxDomain(mac, lva) ==
  /\ Happens
  /\ RxLeaveAll("Domain", lva)
  /\ LET from_bridge == bridge_mac = NoMac \/ bridge_mac = mac
     IN  /\ domain_received' = (domain_received \/ from_bridge)
         /\ rx_domain' = IF from_bridge THEN mac ELSE rx_domain
  /\ UNCHANGED <<srp_listeners, talker_enabled, n_talkers, talker_new_count, seen, seenAge, bridge_mac,
                 domain_new_count, mvrp_new_count, remote_talkers, joinAge, lvaAge, lvaPeriod, lapsed>>

RxListener(st, lva) ==
  /\ Happens
  /\ RxLeaveAll("Listener", lva)
  /\ LET ours == talker_enabled /\ \E i \in 1..n_talkers : Talkers[i] = st
     IN  /\ seen' = (seen \/ ours)
         /\ seenAge' = IF ours THEN 0 ELSE seenAge
  /\ UNCHANGED <<srp_listeners, talker_enabled, n_talkers, talker_new_count, domain_received, rx_domain,
                 bridge_mac, domain_new_count, mvrp_new_count, remote_talkers, joinAge,
                 lvaAge, lvaPeriod, lapsed>>

(* An MVRP LeaveAll of the bridge: its VLAN registrations leave, and        *)
(* srp_process_rx returns at the ethertype, so nothing here hears of it.    *)
RxMvrpLeaveAll ==
  /\ Happens
  /\ reg' = LeaveAll(reg, "Vid")
  /\ UNCHANGED <<endpoint, lapsed>>

(* Mutant: the first free entry is taken before the match is looked for. *)
RemoteSlotFreeFirst(st) ==
  LET usable == {i \in 1..RemoteSlots : ~remote_talkers[i].valid \/ remote_talkers[i].stream_id = st}
  IN  IF usable # {} THEN Smallest(usable) ELSE 1

(* t.last_seen_ms <= u.last_seen_ms, the raw uint32 stamps: across a wrap   *)
(* of the counter the one taken before it is the greater number.            *)
SeenFirst(t, u) == IF t.before = u.before THEN u.age <= t.age ELSE u.before

(* Mutant: the comparison of the stamps the wrong way round. *)
RemoteSlotYoungest(st) ==
  LET usable == {i \in 1..RemoteSlots : remote_talkers[i].valid /\ remote_talkers[i].stream_id = st}
      free   == {i \in 1..RemoteSlots : ~remote_talkers[i].valid}
      young  == {i \in 1..RemoteSlots : \A k \in 1..RemoteSlots :
                   SeenFirst(remote_talkers[k], remote_talkers[i])}
  IN  IF usable # {} THEN Smallest(usable) ELSE IF free # {} THEN Smallest(free) ELSE Smallest(young)

(* The registrar table: the entry of the stream, else the first free one,   *)
(* else the one with the smallest stamp (the first of these).               *)
RemoteSlot(st) ==
  LET same  == {i \in 1..RemoteSlots : remote_talkers[i].valid /\ remote_talkers[i].stream_id = st}
      free  == {i \in 1..RemoteSlots : ~remote_talkers[i].valid}
      stale == {i \in 1..RemoteSlots : \A k \in 1..RemoteSlots :
                  SeenFirst(remote_talkers[i], remote_talkers[k])}
  IN  IF same # {} THEN Smallest(same) ELSE IF free # {} THEN Smallest(free) ELSE Smallest(stale)

RxTalkerAdv(st, lva) ==
  /\ Happens
  /\ RxLeaveAll("Talker", lva)
  /\ remote_talkers' = [remote_talkers EXCEPT ![RemoteSlot(st)] =
       [valid |-> TRUE, stream_id |-> st, age |-> 0, before |-> FALSE]]
  /\ srp_listeners' = [li \in 1..Listeners |->
       IF li \in Matching(st)
         THEN [srp_listeners[li] EXCEPT !.talker_registered = TRUE, !.age = 0, !.substate = "Ready"]
         ELSE srp_listeners[li]]
  /\ UNCHANGED <<talker_enabled, n_talkers, talker_new_count, seen, seenAge, domain_received,
                 rx_domain, bridge_mac, domain_new_count, mvrp_new_count, joinAge,
                 lvaAge, lvaPeriod, lapsed>>

----------------------------------------------------------------------------
(* A tick: everything grows older and the bridge forgets what left.  What   *)
(* we still declare and a LeaveAll made it forget has lapsed.  The counter  *)
(* may wrap, but not twice in the life of an entry: 2^32 ms are 49 days, an *)
(* entry that is not heard of again lasts 30 s.                             *)

Declared == {<<"Listener", srp_listeners[li].stream_id>> : li \in {k \in 1..Listeners : srp_listeners[k].enabled}}
              \cup (IF talker_enabled THEN {<<"Talker", Talkers[i]>> : i \in 1..n_talkers} ELSE {})
              \cup {<<"Domain", "A">>, <<"Vid", 2>>}

SrpTick ==
  /\ polled /\ polled' = FALSE
  /\ joinAge' = IF joinAge < JoinPeriod THEN joinAge + 1 ELSE joinAge
  /\ lvaAge' = IF lvaAge < lvaPeriod THEN lvaAge + 1 ELSE lvaAge
  /\ seenAge' = IF seen THEN Aged(seenAge) ELSE seenAge
  /\ srp_listeners' = [li \in 1..Listeners |->
       IF srp_listeners[li].talker_registered THEN [srp_listeners[li] EXCEPT !.age = Aged(@)]
                                          ELSE srp_listeners[li]]
  /\ \E wraps \in BOOLEAN :
       /\ wraps => \A i \in 1..RemoteSlots : ~remote_talkers[i].before
       /\ remote_talkers' = [i \in 1..RemoteSlots |->
            IF remote_talkers[i].valid
              THEN [remote_talkers[i] EXCEPT !.age = Aged(@), !.before = @ \/ wraps]
              ELSE remote_talkers[i]]
  /\ reg' = [a \in Attributes |-> IF reg[a] = "IN" THEN "IN" ELSE "MT"]
  /\ lapsed' = lapsed \cup {a \in Declared : reg[a] = "LeftAll"}
  /\ UNCHANGED <<talker_enabled, n_talkers, talker_new_count, seen, domain_received, rx_domain,
                 bridge_mac, domain_new_count, mvrp_new_count, rx_leaveall, lvaPeriod, events>>

SrpNext ==
  \/ srp_poll \/ SrpTick \/ srp_talker_set \/ RxMvrpLeaveAll
  \/ \E st \in Remote : ListenerEnable(st) \/ ListenerDisable(st)
  \/ \E enable \in BOOLEAN : srp_talker_enable(enable)
  \/ \E mac \in Macs : srp_set_bridge_mac(mac)
  \/ \E lva \in BOOLEAN :
       \/ \E mac \in Macs : RxDomain(mac, lva)
       \/ \E st \in TalkerStreams \cup Remote : RxListener(st, lva)
       \/ \E st \in Remote : RxTalkerAdv(st, lva)

SrpSpec == SrpInit /\ [][SrpNext]_srp_vars

----------------------------------------------------------------------------
SrpTypeOK ==
  /\ srp_listeners \in [1..Listeners ->
       [enabled : BOOLEAN, stream_id : Remote \cup {"none"}, substate : {"Ignore", "Ready"},
        new_count : 0..2, talker_registered : BOOLEAN, age : 0..Timeout]]
  /\ remote_talkers \in [1..RemoteSlots ->
       [valid : BOOLEAN, stream_id : Remote \cup {"none"}, age : 0..Timeout, before : BOOLEAN]]
  /\ talker_enabled \in BOOLEAN /\ n_talkers \in 0..Len(Talkers)
  /\ {talker_new_count, domain_new_count, mvrp_new_count} \subseteq 0..2
  /\ seen \in BOOLEAN /\ seenAge \in 0..Timeout
  /\ domain_received \in BOOLEAN /\ {rx_domain, bridge_mac} \subseteq Macs \cup {NoMac}
  /\ rx_leaveall \in BOOLEAN /\ joinAge \in 0..JoinPeriod
  /\ lvaPeriod \in NextPeriods /\ lvaAge \in 0..lvaPeriod
  /\ reg \in [Attributes -> {"IN", "MT", "Left", "LeftAll"}]
  /\ lapsed \subseteq Attributes /\ polled \in BOOLEAN /\ events \in 0..MaxEvents

(* No LeaveAll, ours or the bridge's, MSRP or MVRP, costs a talker stream   *)
(* or the domain its registration at the bridge: what the single packed PDU *)
(* of msrp_emit_all_talkers and the immediate answer to an MSRP LeaveAll    *)
(* are for.                                                                 *)
TalkersStayRegistered == \A a \in lapsed : a[1] \notin {"Talker", "Domain"}

(* srp.h:168-173: a received "MSRP/MVRP PDU" with LeaveAll makes srp_poll   *)
(* declare again at once, so the VLAN does not lapse either.  It does: an   *)
(* MVRP PDU is not read, and the next join is up to a join period away.     *)
VlanStaysRegistered == <<"Vid", 2>> \notin lapsed

(* srp.c:1060-1063: the Listener is kept READY for as long as it wants the  *)
(* stream.  With two listeners the bridge forgets the first at our own      *)
(* LeaveAll: the one in the second message takes back the first's Join      *)
(* (msrp_emit_all_talkers has it ride on the first vector for this reason). *)
ListenersStayRegistered == \A a \in lapsed : a[1] # "Listener"

(* The table of remote talkers and the table of listeners hold a stream     *)
(* once, although both are filled from the first free slot and emptied in   *)
(* any order: srp_find_talker and srp_find_listener return the first match. *)
OneEntryPerStream ==
  /\ \A i, k \in 1..RemoteSlots :
       remote_talkers[i].valid /\ remote_talkers[k].valid
         /\ remote_talkers[i].stream_id = remote_talkers[k].stream_id => i = k
  /\ \A i, k \in 1..Listeners :
       srp_listeners[i].enabled /\ srp_listeners[k].enabled
         /\ srp_listeners[i].stream_id = srp_listeners[k].stream_id => i = k

(* Once the bridge is known, a latched SR domain is the bridge's, also when *)
(* a peer's was latched before (the 0x13 priority mismatch).                *)
DomainFromBridge == bridge_mac # NoMac /\ domain_received => rx_domain = bridge_mac

(* An advertisement pushes a remote talker out of the table only when the   *)
(* table is full, and then one not heard of for longest among those heard   *)
(* on its side of a wrap of the millisecond counter.                        *)
OldestEvicted == [][\A i \in 1..RemoteSlots :
  (/\ remote_talkers[i].valid
   /\ remote_talkers'[i].valid /\ remote_talkers'[i].stream_id # remote_talkers[i].stream_id)
    => \A k \in 1..RemoteSlots :
         /\ remote_talkers[k].valid
         /\ remote_talkers[k].before = remote_talkers[i].before
              => remote_talkers[k].age <= remote_talkers[i].age]_srp_vars

(* srp.c:739-740: "fall back to the oldest entry when full".  Until the     *)
(* entries heard before a wrap have aged out, one heard since it goes.      *)
OldestAlwaysEvicted == [][\A i, k \in 1..RemoteSlots :
  (/\ remote_talkers[i].valid /\ remote_talkers[k].valid
   /\ remote_talkers'[i].valid /\ remote_talkers'[i].stream_id # remote_talkers[i].stream_id)
    => remote_talkers[k].age <= remote_talkers[i].age]_srp_vars

(* The endpoint's tables: in range, each stream once, the bridge's domain.  *)
TablesSound == SrpTypeOK /\ OneEntryPerStream /\ DomainFromBridge
=============================================================================
