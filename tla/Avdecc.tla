------------------------------- MODULE Avdecc -------------------------------
(***************************************************************************)
(* Connection management of the AVB reference firmware                     *)
(* (_avb_reference/firmware/avdecc.c): ACMP as talker and as listener, the *)
(* slow-path resolve with its deferred response, the two reconnect         *)
(* watchdogs, the Milan stream counters and the unsolicited notifications. *)
(*                                                                         *)
(* A command of ours stays on the wire: the talker's answer to it may come *)
(* at any time later, more than once or never.  A talker has one stream    *)
(* per unique id, here the pair of the two.  An all-zero entity id is      *)
(* Nobody.  connection_count and the GET commands only fill in responses   *)
(* and are left out; a command for a descriptor that does not exist is     *)
(* answered and changes nothing.                                           *)
(***************************************************************************)
EXTENDS Naturals, FiniteSets

CONSTANTS
  Uids,            \* our talker streams, 0..AVDECC_MAX_TALKERS-1
  Luids,           \* our listener streams, 0..AVDECC_MAX_LISTENERS-1
  CrfLuid,         \* LISTENER_CRF_INDEX
  MaxPerTalker,    \* AVDECC_MAX_LISTENERS_PER_TALKER
  CtrlSlots,       \* AVDECC_MAX_UNSOL_CTRL
  Remotes,         \* listener ids in the commands to us; Nobody may be one
  Inputs,          \* listener unique ids in them
  RemoteTalkers, Controllers, Nobody,
  ResolveTimeout,  \* 1500 ms of avdecc_poll, and the gap between our two RX commands
  Stall,           \* CRF_WD_STALL_MS
  Retry,           \* CRF_WD_RETRY_MS, TALKER_RC_RETRY_MS
  MaxTries,        \* TALKER_RC_MAX_TRIES
  MaxCommands,     \* commands received in a behaviour (a bound)
  SeqWrap,         \* 2^16: our sequence id is a uint16_t
  MaxSeq           \* numbers given to commands of ours in a behaviour (a bound)

ASSUME AvdeccAssumption ==
  /\ Uids \subseteq Nat /\ Luids \subseteq Nat /\ CrfLuid \in Luids
  /\ IsFiniteSet(Uids) /\ SeqWrap \in Nat \ {0}
  /\ {MaxPerTalker, CtrlSlots, ResolveTimeout, Stall, Retry, MaxTries} \subseteq Nat \ {0}
  /\ ResolveTimeout <= Retry /\ {MaxCommands, MaxSeq} \subseteq Nat

VARIABLES
  talkers,      \* avdecc_talker_stream_t
  want,         \* history: the inputs told SUCCESS and not yet disconnected
  counted,      \* history: the entities that found room and have not left
  unnamed,      \* history: a command without a listener id came
  reconnect, axc_eid_valid,
  listeners,    \* avdecc_listener_stream_t, its media counters, and who bound it
  resolves,     \* avdecc_resolve_t
  next_acmp_seq,\* the numbers given out, of which a command carries Seq
  wire,         \* our CONNECT_TX commands
  answered, answeredTwice,  \* history: the resolves whose deferred response was sent
  watchdog,     \* crf_wd_*
  crfFrames,    \* frames counted since the watchdog last looked
  unsol_ctrl, commands

historyVars == <<want, counted, unnamed>>
talkerVars == <<talkers, historyVars, reconnect, axc_eid_valid>>
resolveVars == <<resolves, wire, answered, answeredTwice>>
watchdogVars == <<watchdog, crfFrames>>
vars == <<talkerVars, listeners, resolveVars, next_acmp_seq, watchdogVars,
                  unsol_ctrl, commands>>

Slots == 1..MaxPerTalker
Lowest(S) == CHOOSE n \in S : \A k \in S : n <= k
Older(a, n) == IF a < n THEN a + 1 ELSE n

Unbound == [connected |-> FALSE, talker |-> Nobody, stream |-> Nobody,
            by |-> "none", locked |-> 0, unlocked |-> 0, last_locked |-> FALSE]
NoResolve == [active |-> FALSE, seq |-> 0, talker |-> Nobody, age |-> 0]
NoReconnect == [patched |-> FALSE, tries |-> 0, phase |-> 0, age |-> Retry]
IdleDog == [init |-> FALSE, recovery |-> FALSE, flow |-> 0, retry |-> 0]

Descriptors == {<<"in", l>> : l \in Luids} \cup {<<"out", u>> : u \in Uids}
Info(connected, talker, stream) == [known |-> TRUE, connected |-> connected,
                                    talker |-> talker, stream |-> stream]
Unknown == [Info(FALSE, Nobody, Nobody) EXCEPT !.known = FALSE]
NoCtrl == [active |-> FALSE, eid |-> Nobody, view |-> [d \in Descriptors |-> Unknown]]

avdecc_init ==
  /\ talkers = [u \in Uids |-> [slots |-> [i \in Slots |-> Nobody], n |-> 0,
                                connected |-> FALSE, start |-> 0, stop |-> 0]]
  /\ reconnect = [u \in Uids |-> NoReconnect] /\ axc_eid_valid = FALSE
  /\ listeners = [l \in Luids |-> Unbound] /\ resolves = [l \in Luids |-> NoResolve]
  /\ next_acmp_seq = 0 /\ watchdog = IdleDog
  /\ unsol_ctrl = [i \in 1..CtrlSlots |-> NoCtrl]

Init == /\ avdecc_init
        /\ want = [u \in Uids |-> {}] /\ counted = [u \in Uids |-> {}]
        /\ unnamed = [u \in Uids |-> FALSE] /\ wire = {} /\ answered = {} /\ answeredTwice = FALSE
        /\ crfFrames = FALSE /\ commands = MaxCommands

Command == commands > 0 /\ commands' = commands - 1

----------------------------------------------------------------------------
(* Unsolicited notifications: what GET_STREAM_INFO says of a stream, pushed *)
(* to every registered controller after the change.                         *)

StreamInfo(d, ts, ls) ==
  IF d[1] = "out" THEN Info(ts[d[2]].connected, Nobody, Nobody)
  ELSE IF ls[d[2]].connected THEN Info(TRUE, ls[d[2]].talker, ls[d[2]].stream)
  ELSE Info(FALSE, Nobody, Nobody)

push_unsol_stream_info(pushed) ==
  unsol_ctrl' = [i \in 1..CtrlSlots |-> IF unsol_ctrl[i].active
    THEN [unsol_ctrl[i] EXCEPT !.view = [d \in Descriptors |->
            IF d \in pushed THEN StreamInfo(d, talkers', listeners') ELSE @[d]]]
    ELSE unsol_ctrl[i]]

(* REGISTER_UNSOLICITED: a new controller is sent the talkers' info.        *)
register_unsolicited(c) ==
  LET same == {i \in 1..CtrlSlots : unsol_ctrl[i].active /\ unsol_ctrl[i].eid = c}
      free == {i \in 1..CtrlSlots : ~unsol_ctrl[i].active}
  IN  /\ Command
      /\ same = {} /\ free # {}
      /\ unsol_ctrl' = [unsol_ctrl EXCEPT ![Lowest(free)] =
           [active |-> TRUE, eid |-> c,
            view |-> [d \in Descriptors |->
                        IF d[1] = "out" THEN StreamInfo(d, talkers, listeners) ELSE Unknown]]]
      /\ UNCHANGED <<talkerVars, listeners, resolveVars, next_acmp_seq, watchdogVars>>

deregister_unsolicited(c) ==
  /\ Command
  /\ \E i \in 1..CtrlSlots :
       /\ unsol_ctrl[i].active /\ unsol_ctrl[i].eid = c
       /\ unsol_ctrl' = [unsol_ctrl EXCEPT ![i] = NoCtrl]
  /\ UNCHANGED <<talkerVars, listeners, resolveVars, next_acmp_seq, watchdogVars>>

----------------------------------------------------------------------------
(* We are the talker.                                                       *)

(* n_listeners is a uint8_t; no more is connected than it can count (a      *)
(* bound, which only commands without a listener id can reach).             *)
CountCap == 255

(* The table is of entities: the listener unique id is not looked at.  A    *)
(* full table admits the listener without counting it, and a listener       *)
(* without an id is counted without taking a slot.                          *)
Admitted(t, e) ==
  LET known == e # Nobody /\ \E i \in Slots : t.slots[i] = e
      free  == {i \in Slots : t.slots[i] = Nobody}
  IN  IF known \/ free = {} THEN t
      ELSE [t EXCEPT !.slots[Lowest(free)] = e, !.n = @ + 1]

(* Milan STREAM_START on the edge from no listener to one.                  *)
Started(t, was_n) ==
  [t EXCEPT !.connected = (t.n > 0),
            !.start = IF was_n = 0 /\ t.n > 0 /\ t.start <= t.stop THEN @ + 1 ELSE @]

(* What the listeners may count on afterwards.                              *)
Connected(u, e, input) ==
  LET room == \E i \in Slots : talkers[u].slots[i] = Nobody
  IN  /\ want' = [want EXCEPT ![u] = IF e = Nobody THEN @ ELSE @ \cup {<<e, input>>}]
      /\ counted' = [counted EXCEPT ![u] = IF e # Nobody /\ room THEN @ \cup {e} ELSE @]
      /\ unnamed' = [unnamed EXCEPT ![u] = @ \/ e = Nobody]

acmp_handle_connect_tx(u, e, input) ==
  LET t == Started(Admitted(talkers[u], e), talkers[u].n)
  IN  /\ Command /\ talkers[u].n < CountCap
      /\ talkers' = [talkers EXCEPT ![u] = t]
      /\ Connected(u, e, input)
      /\ push_unsol_stream_info(IF talkers[u].n = 0 /\ t.n > 0 THEN {<<"out", u>>} ELSE {})
      /\ UNCHANGED <<reconnect, axc_eid_valid, listeners, resolveVars, next_acmp_seq, watchdogVars>>

(* The entity's slot is cleared; without an id, an empty slot is, and one   *)
(* listener fewer is counted all the same.                                  *)
Removed(t, e) ==
  LET same == {i \in Slots : t.slots[i] = e}
  IN  IF same = {} THEN t
      ELSE [t EXCEPT !.slots[Lowest(same)] = Nobody, !.n = IF @ > 0 THEN @ - 1 ELSE 0]

(* Mutant: any disconnect stops the stream, as before listeners were counted. *)
StoppedAlways(t) ==
  [t EXCEPT !.connected = FALSE, !.stop = IF t.stop < t.start THEN @ + 1 ELSE @]

(* Milan STREAM_STOP when no listener is left, never beyond STREAM_START.   *)
Stopped(t) ==
  [t EXCEPT !.connected = (t.n > 0),
            !.stop = IF t.n = 0 /\ t.stop < t.start THEN @ + 1 ELSE @]

Disconnected(u, e, input) ==
  /\ want' = [want EXCEPT ![u] = @ \ {<<e, input>>}]
  /\ counted' = [counted EXCEPT ![u] = @ \ {e}]
  /\ unnamed' = [unnamed EXCEPT ![u] = @ \/ e = Nobody]

acmp_handle_disconnect_tx(u, e, input) ==
  LET t == Stopped(Removed(talkers[u], e))
  IN  /\ Command
      /\ talkers' = [talkers EXCEPT ![u] = t]
      /\ Disconnected(u, e, input)
      /\ push_unsol_stream_info(IF t.n = 0 THEN {<<"out", u>>} ELSE {})
      /\ UNCHANGED <<reconnect, axc_eid_valid, listeners, resolveVars, next_acmp_seq, watchdogVars>>

(* The switch tells the remote device to connect to our stream: learn which *)
(* stream and device, and start the reconnect budget afresh.                *)
acmp_snoop_switch_connect_rx(u) ==
  /\ Command
  /\ axc_eid_valid' = TRUE
  /\ reconnect' = [reconnect EXCEPT ![u] = [NoReconnect EXCEPT !.patched = TRUE]]
  /\ UNCHANGED <<talkers, historyVars, listeners, resolveVars, next_acmp_seq, watchdogVars,
                 unsol_ctrl>>

(* A patched stream nobody listens to is driven, up to the limit of tries.  *)
Drives(u) == reconnect[u].patched /\ talkers[u].n = 0 /\ reconnect[u].tries < MaxTries

(* One cycle: DISCONNECT_RX, and after a gap CONNECT_RX.                    *)
Driven(r) ==
  IF r.phase = 0
    THEN IF r.age >= Retry THEN [r EXCEPT !.age = 0, !.phase = 1] ELSE r
    ELSE IF r.age >= ResolveTimeout
           THEN [r EXCEPT !.age = 0, !.phase = 0, !.tries = @ + 1] ELSE r

avdecc_talker_reconnect_watchdog ==
  LET next(u) == IF Drives(u) THEN Driven(reconnect[u])
                 ELSE IF reconnect[u].patched /\ talkers[u].n > 0
                   THEN [reconnect[u] EXCEPT !.tries = 0, !.phase = 0] ELSE reconnect[u]
      sent    == Cardinality({u \in Uids : next(u).phase # reconnect[u].phase /\ Drives(u)})
  IN  /\ axc_eid_valid
      /\ reconnect' = [u \in Uids |-> next(u)]
      /\ next_acmp_seq' = next_acmp_seq + sent /\ next_acmp_seq' <= MaxSeq
      /\ UNCHANGED <<talkers, historyVars, axc_eid_valid, listeners, resolveVars, watchdogVars,
                     unsol_ctrl, commands>>

----------------------------------------------------------------------------
(* We are the listener.                                                     *)

(* notify_listener_connected and notify_listener_disconnected keep          *)
(* MEDIA_LOCKED and MEDIA_UNLOCKED within one of each other.                *)
notify_listener_connected(l) ==
  IF l.locked = l.unlocked THEN [l EXCEPT !.locked = @ + 1, !.last_locked = TRUE] ELSE l

notify_listener_disconnected(l) ==
  IF l.unlocked < l.locked THEN [l EXCEPT !.unlocked = @ + 1, !.last_locked = FALSE] ELSE l

Bind(l, talker, stream, by) ==
  /\ listeners' = [listeners EXCEPT ![l] = notify_listener_connected(
       [@ EXCEPT !.connected = TRUE, !.talker = talker, !.stream = stream, !.by = by])]
  /\ push_unsol_stream_info({<<"in", l>>})

StreamOf(talker) == <<"stream", talker>>

(* The sequence id of the n-th number given out.                            *)
Seq16(n) == n % SeqWrap

(* send_connect_tx_command.                                                 *)
Ask(l, talker) ==
  /\ next_acmp_seq < MaxSeq
  /\ next_acmp_seq' = next_acmp_seq + 1
  /\ resolves' = [resolves EXCEPT ![l] =
       [active |-> TRUE, seq |-> next_acmp_seq, talker |-> talker, age |-> 0]]
  /\ wire' = wire \cup {[seq |-> next_acmp_seq, talker |-> talker]}
  /\ answered' = answered \ {l}

(* CONNECT_RX with neither stream id nor destination, or our own            *)
(* avdecc_initiate_listener_connect: the resolve of the listener is taken   *)
(* over, whatever it was waiting for.                                       *)
ConnectRxSlow(l, talker) ==
  /\ Command
  /\ Ask(l, talker)
  /\ UNCHANGED <<talkerVars, listeners, answeredTwice, watchdogVars, unsol_ctrl>>

(* CONNECT_RX with a stream id, a destination or both: bound at once to     *)
(* what the controller gave, Nobody being a stream id of zero.              *)
ConnectRxFast(l, talker, stream) ==
  /\ Command
  /\ Bind(l, talker, stream, "controller")
  /\ UNCHANGED <<talkerVars, resolveVars, next_acmp_seq, watchdogVars>>

(* Mutant: the controllers are not told. *)
disconnect_rx_silent(l) ==
  /\ Command
  /\ listeners' = [listeners EXCEPT ![l] = notify_listener_disconnected([@ EXCEPT !.connected = FALSE])]
  /\ UNCHANGED <<talkerVars, resolveVars, next_acmp_seq, watchdogVars, unsol_ctrl>>

acmp_handle_disconnect_rx(l) ==
  /\ Command
  /\ listeners' = [listeners EXCEPT ![l] = notify_listener_disconnected([@ EXCEPT !.connected = FALSE])]
  /\ push_unsol_stream_info({<<"in", l>>})
  /\ UNCHANGED <<talkerVars, resolveVars, next_acmp_seq, watchdogVars>>

(* send_deferred_connect_rx_response.                                       *)
Answer(l) == /\ answered' = answered \cup {l}
             /\ answeredTwice' = (answeredTwice \/ l \in answered)

(* Mutant: any answer serves the resolve that waits. *)
AwaitedAny(msg) == {l \in Luids : resolves[l].active}

(* The resolves an answer fits, by our sequence id alone.                   *)
Awaited(msg) == {l \in Luids : resolves[l].active /\ Seq16(resolves[l].seq) = Seq16(msg.seq)}

(* Mutant: the resolve stays active after its answer. *)
DoneNever(r) == r

(* The resolve is over.                                                     *)
Done(r) == [r EXCEPT !.active = FALSE]

(* The answer to the command that was asked, or to one that had the same    *)
(* sequence id a whole turn of the counter away.                            *)
By(msg, l) ==
  IF msg.seq # resolves[l].seq /\ Seq16(msg.seq) = Seq16(resolves[l].seq) THEN "turn" ELSE "answer"

acmp_handle_connect_tx_response(msg, success) ==
  /\ Awaited(msg) # {}
  /\ LET l == Lowest(Awaited(msg))
     IN  /\ IF success THEN Bind(l, resolves[l].talker, StreamOf(msg.talker), By(msg, l))
                       ELSE UNCHANGED <<listeners, unsol_ctrl>>
         /\ Answer(l)
         /\ resolves' = [resolves EXCEPT ![l] = Done(@)]
  /\ UNCHANGED <<talkerVars, next_acmp_seq, wire, watchdogVars, commands>>

(* Mutant: an input that is already bound is passed over. *)
PollUnlessConnected(l) ==
  /\ resolves[l].active /\ resolves[l].age >= ResolveTimeout /\ ~listeners[l].connected
  /\ Answer(l)
  /\ resolves' = [resolves EXCEPT ![l] = Done(@)]
  /\ UNCHANGED <<talkerVars, listeners, next_acmp_seq, wire, watchdogVars, unsol_ctrl, commands>>

(* avdecc_poll: no answer in time is answered with a timeout.               *)
avdecc_poll(l) ==
  /\ resolves[l].active /\ resolves[l].age >= ResolveTimeout
  /\ Answer(l)
  /\ resolves' = [resolves EXCEPT ![l] = Done(@)]
  /\ UNCHANGED <<talkerVars, listeners, next_acmp_seq, wire, watchdogVars, unsol_ctrl, commands>>

(* avdecc_listener_lock_changed, called by the data path.                   *)
LockChanged(l, locked) ==
  IF locked = l.last_locked THEN l
  ELSE IF locked THEN [l EXCEPT !.locked = @ + 1, !.last_locked = TRUE]
                 ELSE [l EXCEPT !.unlocked = @ + 1, !.last_locked = FALSE]

avdecc_listener_lock_changed(l, locked) ==
  /\ Command
  /\ listeners' = [listeners EXCEPT ![l] = LockChanged(@, locked)]
  /\ UNCHANGED <<talkerVars, resolveVars, next_acmp_seq, watchdogVars, unsol_ctrl>>

----------------------------------------------------------------------------
(* The CRF data-flow watchdog.  Its own CONNECT_TX has no resolve.          *)

Baseline == [init |-> TRUE, recovery |-> FALSE, flow |-> 0, retry |-> 0]

Resend(dog) == /\ next_acmp_seq < MaxSeq /\ next_acmp_seq' = next_acmp_seq + 1
               /\ watchdog' = dog

avdecc_crf_flow_watchdog ==
  /\ LET l == listeners[CrfLuid]
         w == watchdog
     IN  \/ /\ ~l.connected /\ w.init
            /\ watchdog' = IdleDog /\ UNCHANGED <<crfFrames, next_acmp_seq, wire>>
         \/ /\ l.connected /\ ~w.init
            /\ watchdog' = Baseline /\ crfFrames' = FALSE /\ UNCHANGED <<next_acmp_seq, wire>>
         \/ /\ l.connected /\ w.init /\ crfFrames
            /\ watchdog' = Baseline /\ crfFrames' = FALSE /\ UNCHANGED <<next_acmp_seq, wire>>
         \/ /\ l.connected /\ w.init /\ ~crfFrames /\ w.flow >= Stall
            /\ \/ /\ ~w.recovery            \* DISCONNECT_TX to the bound talker
                  /\ Resend([w EXCEPT !.recovery = TRUE, !.retry = 0]) /\ UNCHANGED wire
               \/ /\ w.recovery /\ w.retry >= Retry
                  /\ Resend([w EXCEPT !.retry = 0])
                  /\ wire' = wire \cup {[seq |-> next_acmp_seq, talker |-> l.talker]}
               \/ /\ w.recovery /\ w.retry < Retry   \* takes a number, sends nothing
                  /\ Resend(w) /\ UNCHANGED wire
            /\ UNCHANGED crfFrames
  /\ UNCHANGED <<talkerVars, listeners, resolves, answered, answeredTwice, unsol_ctrl, commands>>

(* A CRF frame is counted.                                                  *)
CrfFrame ==
  /\ listeners[CrfLuid].connected /\ ~crfFrames
  /\ crfFrames' = TRUE
  /\ UNCHANGED <<talkerVars, listeners, resolveVars, next_acmp_seq, watchdog,
                 unsol_ctrl, commands>>

Tick ==
  /\ resolves' = [l \in Luids |-> IF resolves[l].active
       THEN [resolves[l] EXCEPT !.age = Older(@, ResolveTimeout)] ELSE resolves[l]]
  /\ reconnect' = [u \in Uids |-> [reconnect[u] EXCEPT !.age = Older(@, Retry)]]
  /\ watchdog' = IF watchdog.init
       THEN [watchdog EXCEPT !.flow = Older(@, Stall),
                             !.retry = IF watchdog.recovery THEN Older(@, Retry) ELSE @]
       ELSE watchdog
  /\ UNCHANGED <<talkers, historyVars, axc_eid_valid, listeners, next_acmp_seq, wire, answered, answeredTwice,
                 crfFrames, unsol_ctrl, commands>>

TalkerNext ==
  \E u \in Uids :
     \/ \E e \in Remotes, input \in Inputs :
          acmp_handle_connect_tx(u, e, input) \/ acmp_handle_disconnect_tx(u, e, input)
     \/ acmp_snoop_switch_connect_rx(u)

ListenerNext ==
  \/ \E l \in Luids :
       \/ \E t \in RemoteTalkers :
            ConnectRxSlow(l, t) \/ \E st \in {StreamOf(t), Nobody} : ConnectRxFast(l, t, st)
       \/ acmp_handle_disconnect_rx(l) \/ avdecc_poll(l)
       \/ \E locked \in BOOLEAN : avdecc_listener_lock_changed(l, locked)
  \/ \E msg \in wire, success \in BOOLEAN : acmp_handle_connect_tx_response(msg, success)

Next == \/ TalkerNext \/ ListenerNext \/ Tick \/ CrfFrame
        \/ avdecc_talker_reconnect_watchdog \/ avdecc_crf_flow_watchdog
        \/ \E c \in Controllers : register_unsolicited(c) \/ deregister_unsolicited(c)

(* The main loop polls and time passes; nothing is assumed of the network.  *)
Spec == Init /\ [][Next]_vars /\ WF_vars(Tick) /\ \A l \in Luids : WF_vars(avdecc_poll(l))

----------------------------------------------------------------------------
TypeOK ==
  /\ talkers \in [Uids -> [slots : [Slots -> Remotes \cup {Nobody}], n : 0..CountCap,
                           connected : BOOLEAN, start : 0..MaxCommands, stop : 0..MaxCommands]]
  /\ want \in [Uids -> SUBSET (Remotes \X Inputs)] /\ counted \in [Uids -> SUBSET Remotes]
  /\ unnamed \in [Uids -> BOOLEAN] /\ axc_eid_valid \in BOOLEAN
  /\ reconnect \in [Uids -> [patched : BOOLEAN, tries : 0..MaxTries, phase : {0, 1}, age : 0..Retry]]
  /\ \A l \in Luids : listeners[l].connected \in BOOLEAN
                        /\ listeners[l].talker \in RemoteTalkers \cup {Nobody}
  /\ resolves \in [Luids -> [active : BOOLEAN, seq : 0..MaxSeq,
                             talker : RemoteTalkers \cup {Nobody}, age : 0..ResolveTimeout]]
  /\ next_acmp_seq \in 0..MaxSeq /\ answered \subseteq Luids
  /\ watchdog \in [init : BOOLEAN, recovery : BOOLEAN, flow : 0..Stall, retry : 0..Retry]
  /\ crfFrames \in BOOLEAN /\ commands \in 0..MaxCommands

(* As long as one of the listener entities that found room in the table has *)
(* not disconnected, the stream is on: whoever else comes, comes again or   *)
(* leaves.  A command without a listener id upsets the count.               *)
KeepsStreaming == \A u \in Uids : ~unnamed[u] /\ counted[u] # {} => talkers[u].connected

(* avdecc.h:267-269: "we must keep TX enabled while ANY of them is          *)
(* connected".  It fails for a listener told SUCCESS by a full table, for   *)
(* the second of two inputs of one entity when the first leaves, and after  *)
(* a command without a listener id.                                         *)
AnyKeepsStreaming == \A u \in Uids : want[u] # {} => talkers[u].connected

(* Milan: STREAM_START runs ahead of STREAM_STOP by one exactly while the   *)
(* stream has listeners, and MEDIA_LOCKED ahead of MEDIA_UNLOCKED by one    *)
(* exactly while the input was last seen locked, though a connection, a     *)
(* disconnection and the data path all count.                               *)
MilanCounters ==
  /\ \A u \in Uids : talkers[u].start = talkers[u].stop + (IF talkers[u].n > 0 THEN 1 ELSE 0)
  /\ \A l \in Luids : listeners[l].locked =
       listeners[l].unlocked + (IF listeners[l].last_locked THEN 1 ELSE 0)

(* An input bound by an answer has the stream of the talker it names: an    *)
(* answer that comes late, twice, or after the input was told to connect    *)
(* elsewhere, never binds the stream of one talker under the name of        *)
(* another, as long as it is not late by a whole turn of the 16-bit number. *)
BoundToAnswer == \A l \in Luids :
  listeners[l].connected /\ listeners[l].by = "answer"
    => listeners[l].stream = StreamOf(listeners[l].talker)

(* avdecc.c:895-896: a response that matches no pending resolve is "stale;  *)
(* silently ignore".  A stale one whose number has come round again is not. *)
StaleIgnored == \A l \in Luids :
  listeners[l].connected /\ listeners[l].by \in {"answer", "turn"}
    => listeners[l].stream = StreamOf(listeners[l].talker)

(* No CONNECT_RX command is answered twice, by the talker's answer and by   *)
(* the timeout.                                                             *)
AnsweredOnce == ~answeredTwice

(* What a registered controller was last told of a stream is still so.      *)
ViewsCurrent == \A i \in 1..CtrlSlots : \A d \in Descriptors :
  unsol_ctrl[i].active /\ unsol_ctrl[i].view[d].known
    => unsol_ctrl[i].view[d] = StreamInfo(d, talkers, listeners)

(* A resolve ends, with or without the talker.                              *)
ResolveEnds == \A l \in Luids : resolves[l].active ~> ~resolves[l].active

(* The endpoint's books: counters in step with the connections they count,  *)
(* and one response per command.                                            *)
EndpointSound == TypeOK /\ MilanCounters /\ AnsweredOnce
=============================================================================
