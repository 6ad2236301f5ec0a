------------------------------ MODULE Discovery ------------------------------
(***************************************************************************)
(* What the network is told about the transmitter: the mDNS responder of   *)
(* firmware/mdns.c composed with the flow table whose latency and bundles  *)
(* it advertises.  Receivers act on the channel records they hold, so a    *)
(* record that is no longer true has to be sent again.                     *)
(*                                                                         *)
(* Latencies are in nanoseconds here.  A record is what it says of the     *)
(* latency and whether it names a bundle; names, TTLs and the static ARC   *)
(* and CMC records are left out.                                           *)
(***************************************************************************)
EXTENDS FlowTable

CONSTANTS
  PtrBatch,      \* channel PTRs that fit one response (24 of 48)
  Patience,      \* browses after which a channel counts as missing
  Announces,     \* times the static records are announced (3)
  MaxQuestions,  \* questions in one query
  Asked,         \* channels whose record a query may ask for
  AutoRaise      \* values the operator may give g_latency_autoraise

ASSUME DiscoveryAssumption ==
  /\ {PtrBatch, Patience, Announces, MaxQuestions} \subseteq Nat \ {0}
  /\ PtrBatch <= NChannels /\ Asked \subseteq 1..NChannels
  /\ AutoRaise \subseteq BOOLEAN

VARIABLES
  mdns,          \* announce_left, chan_resweep, chan_ptr_start, last_eff, and
                 \* g_latency_autoraise
  pub,           \* history: the channel records as last sent
  raced,         \* history: channels sent between a change and the poll that sees it
  missed         \* history: browses since each channel was listed

dvars == <<mdns, pub, raced, missed>>

Chans == 1..NChannels

std_lat == <<250000, 500000, 1000000, 2000000, 5000000>>

(* The packet window: fpp samples at 48 kHz, in nanoseconds.                *)
Window(fpp) == (fpp * 62500) \div 3

(* The smallest standard latency that exceeds the window of every flow.     *)
Need ==
  LET fits == {i \in DOMAIN std_lat : \A f \in Bound : std_lat[i] > Window(flows[f].fpp)}
  IN  IF fits = {} THEN 5000000 ELSE std_lat[CHOOSE i \in fits : \A j \in fits : i <= j]

dante_tx_latency_effective ==
  IF mdns.autoraise /\ Need > g_latency_ns THEN Need ELSE g_latency_ns

(* Some bundle on the air carries channel c.                                *)
dante_tx_chan_bundle(c) ==
  \E f \in Bound : flows[f].mcast /\ \E i \in 1..flows[f].nslots : flows[f].chans[i] = c

(* build_txt_chan *)
Record(c) == [lat |-> dante_tx_latency_effective, bundle |-> dante_tx_chan_bundle(c)]

DiscoveryInit ==
  /\ Init
  /\ mdns = [left |-> Announces, resweep |-> NChannels, start |-> 0, last_eff |-> 0, autoraise |-> FALSE]
  /\ pub = [c \in Chans |-> [lat |-> 0, bundle |-> FALSE]]
  /\ raced = {} /\ missed = [c \in Chans |-> 0]

----------------------------------------------------------------------------
Announced(m) == [m EXCEPT !.left = Announces, !.resweep = NChannels]

mdns_announce(m) == mdns' = Announced(m) /\ raced' = {}

(* The records of S are sent.                                               *)
Publish(S) ==
  /\ pub' = [c \in Chans |-> IF c \in S THEN Record(c) ELSE pub[c]]
  /\ raced' = IF dante_tx_latency_effective = mdns.last_eff THEN raced \ S ELSE raced \cup S

(* Requests and commands that change the flows without an announcement.     *)
FlowStep ==
  /\ \/ \E peer, dst \in Hosts, dport \in Ports, chans \in ChanLists, asked \in FppAsked :
          RequestFlow(peer, dst, dport, chans, asked)
     \/ \E ext_id \in FlowIds : DeleteFlow(ext_id)
     \/ \E v \in FppAsked : StatsMaxFpp(v) \/ StatsMcastFpp(v)
     \/ \E on \in BOOLEAN : StatsClamp(on)
     \/ ReseedPhases
     \/ Tick
  /\ UNCHANGED dvars

(* Mutant: a new bundle is not announced. *)
CreateBundleSilent(ext_id, chans) ==
  CreateMulticast(ext_id, chans) /\ UNCHANGED dvars

(* dante_tx_bind_multicast announces the bundle.                            *)
CreateBundle(ext_id, chans) ==
  /\ CreateMulticast(ext_id, chans) /\ mdns_announce(mdns)
  /\ UNCHANGED <<pub, missed>>

(* arc_rx 0x1101 and the stats command L announce the latency, changed or   *)
(* not; so does the command Y, which sets the advertised packet size.       *)
ChangeLatency(v) ==
  /\ SetLatency(v) \/ StatsLatency(v) \/ UNCHANGED vars
  /\ mdns_announce(mdns) /\ UNCHANGED <<pub, missed>>

(* The stats command Z.                                                     *)
StatsAutoRaise(on) ==
  /\ mdns_announce([mdns EXCEPT !.autoraise = on])
  /\ UNCHANGED <<vars, pub, missed>>

(* Mutant: the change is noted but the channel records are not sent again. *)
dante_tx_pollBare ==
  /\ dante_tx_latency_effective # mdns.last_eff
  /\ mdns' = [mdns EXCEPT !.last_eff = dante_tx_latency_effective, !.left = Announces]
  /\ UNCHANGED <<vars, pub, raced, missed>>

(* dante_tx_poll: a bind or an unbind may have changed the latency.         *)
dante_tx_poll ==
  /\ dante_tx_latency_effective # mdns.last_eff
  /\ mdns_announce([mdns EXCEPT !.last_eff = dante_tx_latency_effective])
  /\ UNCHANGED <<vars, pub, missed>>

(* mdns_poll: one channel record of a pending sweep, then the announcement  *)
(* of the static records if its second has passed.                          *)
mdns_poll(passed) ==
  /\ mdns.resweep > 0 \/ (mdns.left > 0 /\ passed)
  /\ Publish(IF mdns.resweep > 0 THEN {NChannels - mdns.resweep + 1} ELSE {})
  /\ mdns' = [mdns EXCEPT !.resweep = IF @ > 0 THEN @ - 1 ELSE 0,
                          !.left = IF @ > 0 /\ passed THEN @ - 1 ELSE @]
  /\ UNCHANGED <<vars, missed>>

(* The PTRs of one browse: the loop of W_CHAN_PTR, which moves the cursor   *)
(* chan_ptr_start with every record it writes.                              *)
Cursor(start) ==
  LET at[i \in 0..PtrBatch] == IF i = 0 THEN start ELSE ((at[i - 1] + (i - 1)) % NChannels) + 1
  IN  at
Listed(start) == {Cursor(start)[i] : i \in 1..PtrBatch}

(* send_response: the PTRs of a browse, the record of the channel want_idx. *)
send_response(kinds, want_idx) ==
  /\ Publish(IF "chan" \in kinds THEN {want_idx} \cap Chans ELSE {})
  /\ IF "browse" \in kinds
       THEN /\ mdns' = [mdns EXCEPT !.start = Cursor(@)[PtrBatch]]
            /\ missed' = [c \in Chans |->
                 IF c \in Listed(mdns.start) THEN 0
                 ELSE IF missed[c] < Patience THEN missed[c] + 1 ELSE Patience]
       ELSE UNCHANGED <<mdns, missed>>

Bundles == {flows[f].ext_id : f \in {g \in Bound : flows[g].mcast}}
Questions == {[kind |-> "browse", idx |-> 0]} \cup [kind : {"chan"}, idx : Asked]
               \cup [kind : {"bund"}, idx : Bundles]

(* mdns_rx: all questions of a query share want_idx, so the last instance   *)
(* named is the one that is answered.                                       *)
mdns_rx(q) ==
  LET named == SelectSeq(q, LAMBDA x : x.kind # "browse")
  IN  /\ send_response({q[i].kind : i \in DOMAIN q},
                       IF named = <<>> THEN 0 ELSE named[Len(named)].idx)
      /\ UNCHANGED vars

DiscoveryNext ==
  \/ FlowStep
  \/ \E ext_id \in FlowIds, chans \in ChanLists : CreateBundle(ext_id, chans)
  \/ \E v \in Latencies : ChangeLatency(v)
  \/ \E on \in AutoRaise : StatsAutoRaise(on)
  \/ dante_tx_poll
  \/ \E passed \in BOOLEAN : mdns_poll(passed)
  \/ \E n \in 1..MaxQuestions : \E q \in [1..n -> Questions] : mdns_rx(q)

DiscoverySpec == DiscoveryInit /\ [][DiscoveryNext]_<<vars, dvars>>

----------------------------------------------------------------------------
Due(c) == c > NChannels - mdns.resweep

(* Receivers buffer what a channel record says, for as long as they hold    *)
(* it: a record with an old latency is still to be sent again, or the next  *)
(* poll starts a sweep.  (A record sent between a change and the poll that  *)
(* would see it is exempt: when the change is undone before that poll, the  *)
(* code does not notice.)                                                   *)
LatencyRepublished ==
  \A c \in Chans : \/ pub[c].lat = dante_tx_latency_effective
                   \/ Due(c) \/ c \in raced
                   \/ dante_tx_latency_effective # mdns.last_eff

(* A receiver joins a bundle only if a channel record names it: every       *)
(* channel of a bundle on the air is advertised so, or is still to be.      *)
BundleAdvertised ==
  \A c \in Chans : dante_tx_chan_bundle(c) => pub[c].bundle \/ Due(c)

(* A browser that keeps asking is told of every channel.                    *)
EveryChannelListed == \A c \in Chans : missed[c] < Patience
==============================================================================
