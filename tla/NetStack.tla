------------------------------ MODULE NetStack ------------------------------
(***************************************************************************)
(* The control plane's way in and out of the board: the gateware's address *)
(* filter (rx_gate.py, firmware/rx_gate.c), the dispatcher's own filter,   *)
(* the IP stack (firmware/net.c) with its ARP cache, port and group tables *)
(* and two transmit slots, and the handlers that build their answers in a  *)
(* transmit slot (ARC, CMC, flows, stats, capture, device information).    *)
(*                                                                         *)
(* A handler is the sequence of its calls into the transmit path, `todo':  *)
(* the CPU runs one handler to its end before it takes the next frame, and *)
(* only the MAC, which reads the slots, runs beside it.  A payload is      *)
(* known by what it answers.                                               *)
(***************************************************************************)
EXTENDS Integers, Sequences, FiniteSets

CONSTANTS
  Peers, Macs,        \* addresses of the other hosts, and of their interfaces
  ARP_CACHE_N,
  ETHMAC_TX_SLOTS,
  CapReplies,         \* datagrams the capture ring takes (up to 32)
  RevertTicks,        \* RXGATE_REVERT_MS in ticks
  Wrap,               \* modulus of gptp_uptime_ms in ticks (2^32)
  ArmTimes,           \* uptimes at which the gate may be armed
  None

ASSUME NetAssumption ==
  /\ {ARP_CACHE_N, ETHMAC_TX_SLOTS, CapReplies, RevertTicks} \subseteq Nat \ {0}
  /\ Wrap \in Nat /\ RevertTicks < Wrap \div 2
  /\ ArmTimes \subseteq 0..(Wrap - 1)
  /\ "group" \notin Peers /\ None \notin Peers \cup Macs \cup [ip : Peers, mac : Macs]

VARIABLES
  arp_cache, arp_next,
  udp_bindings, igmp_groups,
  txslot,
  tx,               \* the payload each transmit slot holds
  queue,            \* slots handed to the MAC: [slot, to, pay], pay as meant
  todo, buf,        \* the running handler; the slot its payload pointer is in
  gate,             \* rx_gate: enable and local_mac CSRs, s_pending, s_revert_at_ms,
                    \* and, while a revert is pending, the uptime and its age
  heard,            \* history: the interface each peer was last heard from
  due,              \* history: answers owed to the last frame, <<interface, payload>>
  sent,             \* history: the last frame on the wire
  stray             \* history: "named" once a flow request names another receiver than
                    \* its sender, "missed" when that receiver was not in the cache

tables == <<udp_bindings, igmp_groups>>
txpath == <<txslot, tx, queue, todo, buf>>
vars == <<arp_cache, arp_next, tables, txpath, gate, heard, due, sent, stray>>

----------------------------------------------------------------------------
(* Calls of the transmit path.                                              *)

Build(pay) == [op |-> "build", pay |-> pay]
Finish(pay) == [op |-> "finish", pay |-> pay]
Lookup(ip) == [op |-> "lookup", ip |-> ip]
Commit(ip, pay) == [op |-> "commit", ip |-> ip, pay |-> pay]
Report(g) == [op |-> "report", g |-> g]
ArpReply(mac) == [op |-> "arpreply", mac |-> mac]
Bind(port) == [op |-> "bind", port |-> port]
Join(g) == [op |-> "join", g |-> g]
GateInit == [op |-> "gate"]

Answer(ip, pay) == <<Build(pay), Commit(ip, pay)>>
Group == "group"                       \* any multicast destination

UDP_BINDINGS == 16
IGMP_N == 6

(* The calls of main before its loop, in their order.                       *)
Boot == <<GateInit, Join("ptp"), Bind(5353), Join("mdns"), Bind(4440), Bind(8800),
          Bind(8700), Join("heart"), Join("info"), Bind(319), Bind(320), Bind(7777),
          Join("ptp"), Bind(7778), Bind(4455), Bind(7779)>>

Ports == {Boot[i].port : i \in {j \in DOMAIN Boot : Boot[j].op = "bind"}}
Groups == {Boot[i].g : i \in {j \in DOMAIN Boot : Boot[j].op = "join"}}

Init ==
  /\ arp_cache = [i \in 0..(ARP_CACHE_N - 1) |-> None] /\ arp_next = 0
  /\ udp_bindings = {} /\ igmp_groups = <<>>
  /\ txslot = 0 /\ tx = [s \in 0..(ETHMAC_TX_SLOTS - 1) |-> None] /\ queue = <<>>
  /\ todo = Boot /\ buf = 0
  /\ gate = [enable |-> FALSE, local |-> FALSE, pending |-> FALSE, at |-> 0, now |-> 0, age |-> 0]
  /\ heard = [p \in Peers |-> None] /\ due = {} /\ sent = None /\ stray = "no"

----------------------------------------------------------------------------
(* Addresses.                                                               *)

(* Mutant: an entry is made although the address has one. *)
LearntTwice(ip, mac) == [arp_cache EXCEPT ![arp_next] = [ip |-> ip, mac |-> mac]]

Cached(ip) == {i \in DOMAIN arp_cache : arp_cache[i] # None /\ arp_cache[i].ip = ip}
First(S) == CHOOSE i \in S : \A j \in S : i <= j

(* arp_learn: the entry of the address is renewed, or the oldest replaced.  *)
Learnt(ip, mac) ==
  IF Cached(ip) # {} THEN [arp_cache EXCEPT ![First(Cached(ip))].mac = mac]
                     ELSE [arp_cache EXCEPT ![arp_next] = [ip |-> ip, mac |-> mac]]
arp_learn(ip, mac) ==
  /\ arp_cache' = Learnt(ip, mac)
  /\ arp_next' = IF Cached(ip) # {} THEN arp_next ELSE (arp_next + 1) % ARP_CACHE_N
  /\ heard' = [p \in Peers |-> IF p = ip THEN mac
                               ELSE IF Cached(p)' # {} THEN heard[p] ELSE None]

(* net_arp_lookup: a multicast address is computed, another must be cached. *)
Known(ip) == ip = Group \/ Cached(ip) # {}
MacOf(ip) == IF ip = Group THEN Group ELSE arp_cache[First(Cached(ip))].mac

----------------------------------------------------------------------------
(* The transmit path: the handler's next call.                              *)

(* Mutant: eth_send returns as soon as the MAC has taken the command. *)
DrainedNow == TRUE

(* eth_send returns when the MAC has read the slot.  (Its bound of 100000   *)
(* polls, for a MAC that has stopped, is not modelled.)                     *)
Drained == queue = <<>>

Call(op) == todo # <<>> /\ Head(todo).op = op /\ Drained /\ todo' = Tail(todo)

(* eth_send: once the MAC is ready, the current slot goes to it with the    *)
(* payload it holds; the caller meant pay.                                  *)
eth_send(to, pay, slots) ==
  /\ Len(queue) < ETHMAC_TX_SLOTS /\ tx' = slots
  /\ queue' = Append(queue, [slot |-> txslot, to |-> to, pay |-> pay])
  /\ txslot' = (txslot + 1) % ETHMAC_TX_SLOTS

Written(pay) == [tx EXCEPT ![txslot] = pay]

(* arp_send builds in the current slot, whatever is in it.                  *)
arp_send(to, pay) == eth_send(to, pay, Written(pay))

(* net_udp_payload_buf, and the message built there.                        *)
DoBuild ==
  /\ Call("build") /\ buf' = txslot /\ tx' = Written(Head(todo).pay)
  /\ UNCHANGED <<arp_cache, arp_next, tables, txslot, queue, gate, heard, due, sent, stray>>

(* dante_msg_finish writes through the pointer the handler holds.           *)
DoFinish ==
  /\ Call("finish") /\ tx' = [tx EXCEPT ![buf] = Head(todo).pay]
  /\ UNCHANGED <<arp_cache, arp_next, tables, txslot, queue, buf, gate, heard, due, sent, stray>>

(* The lookup of dante_tx_bind_unicast: the question for an address that is *)
(* not cached is built over, and sent from, the slot the handler builds in. *)
DoLookup ==
  /\ Call("lookup")
  /\ IF Known(Head(todo).ip) THEN UNCHANGED <<tx, queue, txslot, stray>>
     ELSE /\ arp_send(Group, "whohas")
          /\ stray' = IF stray = "no" THEN "no" ELSE "missed"
  /\ UNCHANGED <<arp_cache, arp_next, tables, buf, gate, heard, due, sent>>

(* net_udp_commit: headers around whatever the current slot holds; without  *)
(* an address the datagram is dropped and the address asked for.            *)
net_udp_commit ==
  /\ Call("commit")
  /\ LET c == Head(todo)
     IN  IF Known(c.ip) THEN eth_send(MacOf(c.ip), c.pay, tx) ELSE arp_send(Group, "whohas")
  /\ UNCHANGED <<arp_cache, arp_next, tables, buf, gate, heard, due, sent, stray>>

igmp_report ==
  /\ Call("report") /\ arp_send(Group, <<"report", Head(todo).g>>)
  /\ UNCHANGED <<arp_cache, arp_next, tables, buf, gate, heard, due, sent, stray>>

DoArpReply ==
  /\ Call("arpreply") /\ arp_send(Head(todo).mac, "arp")
  /\ UNCHANGED <<arp_cache, arp_next, tables, buf, gate, heard, due, sent, stray>>

(* net_udp_bind; nobody acts on its failure.                                *)
net_udp_bind ==
  /\ Call("bind")
  /\ udp_bindings' = IF Cardinality(udp_bindings) < UDP_BINDINGS
                       THEN udp_bindings \cup {Head(todo).port} ELSE udp_bindings
  /\ UNCHANGED <<arp_cache, arp_next, igmp_groups, txslot, tx, queue, buf, gate, heard, due, sent, stray>>

Joined == {igmp_groups[i] : i \in DOMAIN igmp_groups}

(* net_igmp_join reports a group that is new and fits.                      *)
net_igmp_join ==
  /\ Call("join")
  /\ LET g == Head(todo).g
     IN  IF g \in Joined \/ Len(igmp_groups) >= IGMP_N THEN UNCHANGED <<igmp_groups, tx, queue, txslot>>
         ELSE igmp_groups' = Append(igmp_groups, g) /\ arp_send(Group, <<"report", g>>)
  /\ UNCHANGED <<arp_cache, arp_next, udp_bindings, buf, gate, heard, due, sent, stray>>

(* The MAC reads the slot at the head of its queue.                         *)
Transmit ==
  /\ queue # <<>> /\ queue' = Tail(queue)
  /\ LET q == Head(queue)
     IN  /\ sent' = [to |-> q.to, meant |-> q.pay, got |-> tx[q.slot]]
         /\ due' = due \ {<<q.to, tx[q.slot]>>}
  /\ UNCHANGED <<arp_cache, arp_next, tables, txslot, tx, todo, buf, gate, heard, stray>>

Idle == todo = <<>> /\ queue = <<>>
----------------------------------------------------------------------------
(* The receive gate.                                                        *)

(* rx_gate_init, with the unicast address before the enable.                *)
rx_gate_init ==
  /\ Call("gate")
  /\ gate' = [gate EXCEPT !.local = TRUE, !.enable = TRUE, !.pending = FALSE]
  /\ UNCHANGED <<arp_cache, arp_next, tables, txslot, tx, queue, buf, heard, due, sent, stray>>

(* rx_gate_set; the uptime matters when it starts a revert.                 *)
rx_gate_set(on, revert) ==
  \E t \in IF on /\ revert > 0 THEN ArmTimes ELSE {0} :
    gate' = [gate EXCEPT !.enable = on, !.pending = on /\ revert > 0,
                         !.now = t, !.at = (t + revert) % Wrap, !.age = 0]
rx_gate_commit == gate' = [gate EXCEPT !.pending = FALSE, !.now = 0, !.at = 0, !.age = 0]

(* rxgate_rx of the stats port.                                             *)
rxgate_rx(cmd) ==
  CASE cmd = "1" -> rx_gate_set(TRUE, RevertTicks)
    [] cmd = "0" -> rx_gate_set(FALSE, 0)
    [] cmd = "c" -> IF gate.pending THEN rx_gate_commit ELSE UNCHANGED gate

(* The console's x.                                                         *)
ConsoleX ==
  /\ Idle /\ rx_gate_set(~gate.enable, 0)
  /\ UNCHANGED <<arp_cache, arp_next, tables, txpath, heard, due, sent, stray>>

(* Mutant: the comparison that is not safe at the wrap. *)
ReachedNaive(t, at) == t >= at

(* (int32_t)(t - at) >= 0                                                   *)
Reached(t, at) == (t - at) % Wrap < Wrap \div 2

(* The first poll of a new tick.  (The loop runs at 4 kHz: it polls in      *)
(* every tick, and a handler takes less than one.)                          *)
rx_gate_poll ==
  /\ Idle /\ gate.pending
  /\ LET g == [gate EXCEPT !.age = @ + 1, !.now = (@ + 1) % Wrap]
     IN  gate' = IF Reached(g.now, g.at)
                   THEN [g EXCEPT !.pending = FALSE, !.enable = FALSE, !.now = 0, !.at = 0]
                   ELSE g
  /\ UNCHANGED <<arp_cache, arp_next, tables, txpath, heard, due, sent, stray>>

(* Destination addresses: ours, another's, broadcast, 224.0.0.1, the groups *)
(* we join, audio (239.x) and the reserved 802.1 range.                     *)

(* DEFAULT_ALLOW_RULES, the broadcast and the programmed unicast address.   *)
Allow(dst) == dst \in {"us", "bcast", "allhosts", "ptp", "mdns", "info", "heart", "dot1"}

Discarded(dst) == gate.enable /\ gate.local /\ ~Allow(dst)

(* Mutant: the software filter keeps only the joined groups. *)
KeepJoined(dst) == dst \notin {"audio", "allhosts"}

(* dispatch_rx keeps unicast, broadcast, 224.0.0.0/24, PTPv1 and 802.1.     *)
Keep(dst) == dst # "audio"

----------------------------------------------------------------------------
(* What arrives.                                                            *)

Owe(mac, pays) == due' = {<<mac, p>> : p \in pays} /\ stray' = "no"
Passes(dst) == ~Discarded(dst) /\ Keep(dst)

(* A handler's pointer is local to it.                                      *)
Begin(calls) == todo' = calls /\ buf' = 0 /\ sent' = None

(* net_rx_frame of a frame from ip, mac: the sender is learnt, then its     *)
(* handler runs.  What the gate or the filter stop stays owed.              *)
Receive(dst, ip, mac, calls) ==
  /\ Idle
  /\ IF Passes(dst) THEN arp_learn(ip, mac) /\ Begin(calls)
                    ELSE UNCHANGED <<arp_cache, arp_next, heard>> /\ Begin(<<>>)

quiet == <<tables, txslot, tx, queue>>

(* arp_rx: a request for us, or one for another host.                       *)
RxWhoHas(ip, mac, us) ==
  /\ Receive("bcast", ip, mac, IF us THEN <<ArpReply(mac)>> ELSE <<>>)
  /\ Owe(mac, IF us THEN {"arp"} ELSE {}) /\ UNCHANGED <<quiet, gate>>

(* icmp_rx builds the echo before it looks the sender up.                   *)
RxPing(ip, mac) ==
  /\ Receive("us", ip, mac, Answer(ip, "pong"))
  /\ Owe(mac, {"pong"}) /\ UNCHANGED <<quiet, gate>>

(* igmp_rx: a general query comes on 224.0.0.1, a specific one on its group.*)
RxQuery(g, ip, mac) ==
  LET asked == IF g = "allhosts" THEN igmp_groups
               ELSE IF g \in Joined THEN <<g>> ELSE <<>>      \* a group is in the table once
  IN  /\ Receive(g, ip, mac, [i \in DOMAIN asked |-> Report(asked[i])])
      /\ Owe(Group, {<<"report", asked[i]>> : i \in DOMAIN asked})
      /\ UNCHANGED <<quiet, gate>>

(* A request to a bound port.  CMC answers once, and so does every command  *)
(* of the stats port, telemetry included; ARC, whatever the opcode, also    *)
(* copies the request to the mirror host, which the stats command A names   *)
(* at any time; the capture port answers in a burst.                        *)
Mirrored(host) == IF host = None THEN <<>> ELSE Answer(host, "mirror")
arc_rx(ip, host) == Answer(ip, "reply") \o Mirrored(host)
cmc_rx(ip) == Answer(ip, "reply")
stats_rx(ip) == Answer(ip, "reply")
mclk_rx(ip) == Answer(ip, "reply")
telem_rx(ip) == Answer(ip, "reply")
cap_send_ring(ip) == [i \in 1..(2 * CapReplies) |->
                        IF i % 2 = 1 THEN Build("reply") ELSE Commit(ip, "reply")]
Handlers(ip) == {cmc_rx(ip), stats_rx(ip), mclk_rx(ip), telem_rx(ip), cap_send_ring(ip)}
                  \cup {arc_rx(ip, host) : host \in Peers \cup {None}}

RxRequest(ip, mac) ==
  /\ \E calls \in Handlers(ip) : Receive("us", ip, mac, calls)
  /\ Owe(mac, {"reply"}) /\ UNCHANGED <<quiet, gate>>

(* flows_rx begins its answer, looks the receiver's address up, then        *)
(* finishes and sends the answer.  The receiver is the one the request's    *)
(* descriptor names, whoever sent it; None is the 0.0.0.0 of a request      *)
(* without one.  (A request refused before the bind looks nothing up, like  *)
(* one that names its sender.)                                              *)
RxFlow(ip, mac, dst) ==
  /\ \E host \in Peers \cup {None} : Receive("us", ip, mac,
       <<Build("begun"), Lookup(dst), Finish("flow"), Commit(ip, "flow")>> \o Mirrored(host))
  /\ due' = {<<mac, "flow">>} /\ stray' = (IF dst = ip THEN "no" ELSE "named")
  /\ UNCHANGED <<quiet, gate>>

(* stats_rx: the gate's commands.                                           *)
RxGate(ip, mac, cmd) ==
  /\ Receive("us", ip, mac, Answer(ip, "reply")) 
  /\ IF Passes("us") THEN rxgate_rx(cmd) ELSE UNCHANGED gate
  /\ Owe(mac, {"reply"}) /\ UNCHANGED <<quiet>>

(* Audio and flooded unicast, where a filter stops it.                      *)
RxNoise(dst) ==
  /\ Idle /\ ~Passes(dst) /\ Begin(<<>>) /\ Owe(Group, {})
  /\ UNCHANGED <<arp_cache, arp_next, heard, quiet, gate>>

(* The messages of dante_info.c.  The clock report needs a leader and always *)
(* goes to the group, also when one host asked for it.                      *)
send_heartbeat == Answer(Group, "heartbeat")
send_device_info(ip) == Answer(ip, "device")
send_product_info(ip) == Answer(ip, "product")
send_network_info(ip) == Answer(ip, "network")
send_clock_stats(leader) == IF leader THEN Answer(Group, "clock") ELSE <<>>
send_caps(ip) ==
  Answer(ip, "rates") \o Answer(ip, "formats") \o Answer(ip, "0x1009") \o Answer(ip, "0x0084")

Queries == {"device", "product", "network", "clock", "unknown"}

(* info_rx: an unknown query is only logged.                                *)
info_rx(ip, mac, q, leader) ==
  LET calls == CASE q = "device"  -> send_device_info(ip)
                 [] q = "product" -> send_product_info(ip)
                 [] q = "network" -> send_network_info(ip)
                 [] q = "clock"   -> send_clock_stats(leader)
                 [] OTHER         -> <<>>
  IN  /\ Receive("us", ip, mac, calls)
      /\ Owe(IF q = "clock" THEN Group ELSE mac, IF calls = <<>> THEN {} ELSE {q})
      /\ UNCHANGED <<quiet, gate>>

(* dante_info_poll: the announcement when it is due, else a heartbeat.      *)
dante_info_poll(announce, leader) ==
  /\ Idle
  /\ Begin(IF announce THEN send_device_info(Group) \o send_product_info(Group)
                           \o send_network_info(Group) \o send_clock_stats(leader)
                           \o send_caps(Group)
                       ELSE send_heartbeat)
  /\ Owe(Group, {}) /\ UNCHANGED <<arp_cache, arp_next, quiet, gate, heard>>

CpuNext ==
  \/ DoBuild \/ DoFinish \/ DoLookup \/ net_udp_commit \/ igmp_report \/ DoArpReply
  \/ net_udp_bind \/ net_igmp_join \/ rx_gate_init
  \/ rx_gate_poll \/ ConsoleX \/ \E announce, leader \in BOOLEAN : dante_info_poll(announce, leader)

RxNext ==
  \/ \E ip \in Peers, mac \in Macs :
       \/ \E us \in BOOLEAN : RxWhoHas(ip, mac, us)
       \/ RxPing(ip, mac)
       \/ \E g \in Groups \cup {"allhosts"} : RxQuery(g, ip, mac)
       \/ RxRequest(ip, mac)
       \/ \E q \in Queries, leader \in BOOLEAN : info_rx(ip, mac, q, leader)
       \/ \E dst \in Peers \cup {None} : RxFlow(ip, mac, dst)
       \/ \E cmd \in {"1", "0", "c"} : RxGate(ip, mac, cmd)
  \/ \E dst \in {"audio", "other"} : RxNoise(dst)

Next == CpuNext \/ Transmit \/ RxNext

Spec == Init /\ [][Next]_vars

----------------------------------------------------------------------------
TypeOK ==
  /\ arp_next \in 0..(ARP_CACHE_N - 1) /\ txslot \in DOMAIN tx /\ buf \in DOMAIN tx
  /\ Len(queue) <= ETHMAC_TX_SLOTS
  /\ udp_bindings \subseteq Ports /\ Joined \subseteq Groups
  /\ {gate.now, gate.at} \subseteq 0..(Wrap - 1)

(* What the MAC puts on the wire is the message its sender built: a slot is *)
(* neither reused while the MAC reads it nor sent with what an earlier      *)
(* message left in it.  The one exception is the answer to a flow request   *)
(* that named a receiver the cache does not hold: neither the address query *)
(* it sends nor the mirrored request after it is affected, nor is any later *)
(* message.                                                                 *)
SentAsBuilt == sent # None =>
  sent.got = sent.meant \/ (stray = "missed" /\ sent.meant = "flow")

(* Whoever asks the board something (who-has, ping, a membership query, a   *)
(* request) is answered, at the interface that asked, before the next frame *)
(* is taken: neither filter, no full table and no cache miss swallows it,   *)
(* but for a flow request that named a receiver the cache does not hold.    *)
AllAnswered == Idle /\ stray # "missed" => due = {}

(* What net.c says of net_udp_commit, of every frame: the headers go around *)
(* the payload already in the buffer.  The address query of a flow's bind   *)
(* moves on to the next slot, and the answer leaves with what is in there.  *)
EverySentAsBuilt == sent # None => sent.got = sent.meant

(* What dante_flows.c says of its handler: it accepts the request and       *)
(* answers it.  One that names a receiver not in the cache is not answered. *)
EveryRequestAnswered == Idle => due = {}

(* An address in the cache leads to the interface last heard from it.       *)
LookupCurrent == \A p \in Peers : Cached(p) # {} => MacOf(p) = heard[p]

(* After boot every port has its handler and every group was joined: both   *)
(* tables are large enough, though no caller acts on their failure.         *)
BootComplete == todo = <<>> => udp_bindings = Ports /\ Joined = Groups

(* A provisional arm ends by itself exactly at its deadline, also when the  *)
(* millisecond counter wraps in between.                                    *)
RevertOnTime ==
  /\ gate.pending => gate.enable /\ gate.age < RevertTicks
  /\ ~gate.pending => gate.age \in {0, RevertTicks}

(* The tables of the IP stack: within their sizes, complete after boot, and *)
(* leading to the interface last heard.                                     *)
TablesSound == TypeOK /\ BootComplete /\ LookupCurrent
=============================================================================
