# Inferno-FPGA: TLA+ models, checks and proofs

Inferno-FPGA is a Dante-compatible audio transmitter: a LiteX SoC on an FPGA
whose gateware builds the audio packets and whose bare-metal C firmware speaks
the Dante control protocols, recovers the network clock and programs the
gateware. This directory models the parts of it whose correctness depends on
*sequences* of events, model-checks them with TLC and proves the central
invariants with TLAPS.

## 1. Inventory

The firmware is one endless polling loop (`firmware/main.c`) without interrupts
or threads, so two firmware handlers never interleave. What interleaves is the
firmware with the gateware (every CSR write is visible at once), with the
network, and with the operator.

| Component | State | Operations | Hard behaviours |
|---|---|---|---|
| Flow table, `firmware/dante_tx.c` | six `flow_slot_t` entries; latency and packet-size policy | bind (unicast, multicast), unbind, drop all, re-seed | keepalives, eviction when full, ids that outlive their flow |
| Flow control, `firmware/dante_flows.c` | counters | request 0x0100 | boundary values in requests |
| ARC, `firmware/dante_arc.c` | names, RX subscriptions | 0x2201 create, 0x2202 delete, 0x1101 latency, queries | repeated requests, stale ids |
| Packetizer, `dante_packetizer.py` | per-context registers, pacing phase, pending bits, sample ring, builder FSM | latch on CSR write, pace, prime, build | CSR writes during a build, ring at its limits |
| PTPv1 slave, `firmware/ptpv1.c` | offsets, path delay, lock and acquisition state | Sync, Follow_Up, Delay_Resp, servo update | lost and reordered messages, steps, lock hysteresis |
| Talker supervision, `dante_tx_poll` | `talker_on`, settle timers, anchor guard | enable, disable, re-anchor | stale time after a clock step |
| Media clock recovery, `firmware/mcr_dante.c` | applied/target ppb, trip streak | 1 Hz poll | slew limits, hold on unlock |
| Netload, `firmware/loader/loader.c`, `tools/netload.py` | image length, offset; host offset and retries | START, DATA, EXEC, replies, timeouts | lost, late and damaged frames, timeouts racing answers |
| Configuration, `firmware/config.c`, `firmware/cfgflash.c` | flash sector, RAM copy | load, save | power loss between erase and program |
| PTP receive path, `avb_soc.py`, `dispatch_rx` of `firmware/main.c`, `ptpv1_rx` | ring of receive timestamps, receive slots, the open Sync and Delay_Req | commit, resynchronise, filter, pop, acknowledge; pair Sync with Follow_Up and Delay_Req with Delay_Resp | timestamps and frames travel in separate queues; messages are lost, repeated, reordered |
| Receive gate, `rx_gate.py`, `firmware/rx_gate.c` | filter arm, revert timer | arm, commit, revert | provisional arm, lost operator, wrapping clock |
| Network, `firmware/net.c` | ARP cache, UDP and IGMP tables, two transmit slots | receive, lookup, build, send | full tables, a slot the MAC still reads, calls that send from inside a handler |
| Device info, `firmware/dante_info.c`; CMC, telemetry, capture, stats | mirrors of other state | announcements, heartbeats, queries | bursts through two transmit slots |
| mDNS, `firmware/mdns.c` | announcement counters, rotating channel list | announce, sweep, answer | records that lag the flow table |
| SRP endpoint, `_avb_reference/firmware/srp.c` | declarations, table of remote talkers, SR domain, LeaveAll and Join timers | declare, withdraw, poll, receive vectors | LeaveAll from either side racing our joins, full table |
| AVDECC, `_avb_reference/firmware/avdecc.c` | talker and listener bindings, open resolves, watchdogs, registered controllers | ACMP connect and disconnect in both roles, watchdog retries, notifications | late, repeated and missing answers, retries, stale controller views |

`PROJECT.json` lists every component with its status, and under `hazards` each
line where such a behaviour bites, with the properties that cover it.


## 2. Modules and the code

The modules were built in this order, most important behaviour first: the flow
table (what is transmitted to whom), the boot path, the clock and its gate, the
media clock with its flash copy, the packetizer; then the way from the wire to
the servo, the control plane's way in and out of the board, discovery, and the
two protocol endpoints of the AVB reference firmware. Components are composed
where they share state: `MediaClock` extends `PtpServo`, `McrDante` extends
`ConfigFlash`, and `Discovery` extends `FlowTable`. `FlowTable` is shown to
implement `FlowRegistry`, and `ConfigFlash` with its users `ConfigStore`.

| Module | Models | State and actions |
|---|---|---|
| `FlowTable` | `dante_tx.c` flow table, `dante_flows.c`, the state-changing part of `dante_arc.c`, the policy commands of `dstats.c`, the packetizer's context registers | `flows`, the registers of each context, the shared channel-map CSRs, ages, latency and packet-size policy. One action per request: `RequestFlow`, bundle creation and deletion, latency and policy changes, drop all, re-seed |
| `FlowRegistry` | nothing in the code: the abstract promise | a registry of at most `Capacity` flows, one per key: refresh, admit, evict, release |
| `Netload` | `tools/netload.py` and `loader/loader.c`, with the link between them | the host's control state, offset, attempts and passes; frames on the way; the loader's session and coderam |
| `PtpServo`, `MediaClock` | `servo_update` and the effect of Delay_Resp in `ptpv1.c`; `dante_tx_poll`, `ts_anchor` | lock, streaks, acquisition, path-delay samples; gate timers, `talker_on`, the enable CSR. Offsets are signed bands of magnitude 0 to 4, divided by the lock threshold, the unlock threshold, four times it, and the step threshold |
| `ConfigStore` | nothing in the code: the abstract promise | the record in use, the one a boot would find, whether a save runs: save, lose, finish, boot |
| `ConfigFlash`, `McrDante` | `config.c`, `cfgflash.c`; `mcr_dante.c` | flash words, a save in progress; applied and target rate, NCO register and its cache, trip streak, setpoint |
| `Packetizer` | pacing and builder of `dante_packetizer.py`, `TXFrameArbiter` as back-pressure, the CSR accesses of `write_ctx` and `dante_tx_unbind`, one by one and in the loops that clear several contexts | one step is one cycle in which all registers change together: strobe, timestamp, read pointer, shared latch, phases, pending bits, builder FSM, and at most one CSR access |
| `PtpPairing` | the timestamp ring and receive slots of `avb_soc.py`, `dispatch_rx`, `ptpv1_rx` and `ptpv1_poll` | the air, slots and ring; the dispatcher's program counter (resynchronise, filter, pop, acknowledge), its level read and its budget; the pairing statics of `ptpv1.c`. The gateware commits between any two steps |
| `NetStack` | `net.c`, `rx_gate.c`, `rx_gate.py`, the dispatcher's filter, the boot sequence of binds and joins, `dante_info.c` and the reply paths of ARC, CMC, flows, stats, telemetry and capture | ARP cache, port and group tables, transmit slots, what the MAC still has to read, gate. A handler is the sequence `todo` of its calls into the transmit path; the MAC reads slots beside it |
| `Discovery` | `mdns.c` and the latency follow-up of `dante_tx_poll`, on top of every action of `FlowTable` | announcement counters, sweep, list cursor, last effective latency; what the network was last told of each channel |
| `Srp` | `_avb_reference/firmware/srp.c`, against one port of a bridge | declarations, LeaveAll and Join ages, remote talker table, domain; the bridge's registrar of each attribute, which forgets after a leave time shorter than the join period. A table entry has the age of its stamp and whether that was taken before the millisecond counter last wrapped |
| `Avdecc` | the ACMP and notification part of `_avb_reference/firmware/avdecc.c` | talker tables of listener entities (commands name an entity and an input), listener bindings and who made them, resolves with their 16-bit number and deferred response, both reconnect watchdogs, stream counters, what each registered controller was last told |

`PROJECT.json` maps every definition to its lines. Because the firmware has no
concurrency, a handler of `FlowTable`, `MediaClock` or `McrDante` is one action;
only what something else can come between is split into steps: a flash save
(power loss), the CSR sequences of `Packetizer` and the dispatcher of
`PtpPairing` (the gateware), and a handler's sends in `NetStack` (the MAC).

The MC modules give constants their values and define nothing else. The
variables marked *history* in the modules (`held`, `calm`, `converged`,
`stored`, `fresh`, `heard`, `due`, `stray`, `pub`, `want`, `counted`, `lapsed`, ...) are read by
properties and by the assumption that the environment becomes calm, never by a
guard that models code.

## 3. Runs

| Run | Shows |
|---|---|
| `flow_table` | Every bind path, keepalive, eviction, delete and drop: one context per socket and per bundle id, bundles addressed to their own group, the packetizer's registers in step with the table, a unicast bind never evicts a bundle, and the table implements `FlowRegistry` |
| `flow_channels` (finding) | A re-anchor latches the shared channel-map CSRs into contexts they were not written for |
| `netload` | Loss, damage, timeouts, interrupted sessions: the loader's offset stays within the announced length, every byte below it was stored since START at its own place, only a whole and undamaged announced image is run, the host always ends |
| `clock` | Any offsets, delays, tunings, polls and ticks: lock knows its delay, the anchor follows every move of the clock, the talker starts only on a settled lock, and a final phase is final; on a network that becomes calm audio starts, and whenever the gate closes again (as it does when the age of the lock wraps) it opens again |
| `mcr` | Any rates, lock changes, switches, trips and power losses: the NCO is what the firmware believes, it moves by slew steps, a boot finds a whole configuration, a warm start uses a converged rate, the flash implements `ConfigStore`, and the rate gate opens in the end |
| `packetizer` | Binds, unbinds, requests that clear several contexts and evictions followed by a bind, at every cycle and with back-pressure: no due frame is lost or sent twice, phases stay on the sample grid, and an undisturbed frame carries the stamp and the window of the group that made it due |
| `ptp_pairing` | Frames committed at every point of the dispatcher, stale timestamps left by the boot loader, lost, repeated and reordered messages: ring and slots get into step and stay so, a Sync is stamped with its own receive time, an offset uses one Sync's timestamps and a delay sample its own request's |
| `net_stack` | Boot, then any requests, pings, queries, bursts, announcements and gate commands: each frame leaves as it was built, each request that reaches the board is answered at the interface it came from (both but for a flow request that names a receiver which is not its sender and not in the ARP cache), a lookup gives the interface last heard, boot fills its tables completely, and a provisional gate ends on time |
| `net_stray` (finding) | For that flow request the ARP query leaves from the slot of the reply, and the reply goes out with the contents of the other slot |
| `discovery` | Flow table and mDNS responder together, with the boundary packet sizes, slot counts and latencies: stored values fit the gateware's fields, no unicast flow outlives a limit, and the network is told again whenever the latency or a bundle in a channel's record changed |
| `srp` | Declarations, LeaveAlls of either side (the bridge's MSRP and MVRP ones), ageing and eviction: no LeaveAll costs a talker or the domain its registration, a stream has one table entry, a full table gives up the oldest entry of those heard on the same side of a counter wrap, and the SR domain is the bridge's |
| `avdecc` | Connections by controllers, by the watchdogs and by late, repeated or missing answers: no listener entity that found room in the table and stays loses its stream unless a command without a listener id came, counters match the lock, no answer binds another talker's stream unless it is late by a whole turn of the 16-bit number, every resolve ends, none is answered twice, and a registered controller's view is current |

Where several invariants describe one piece of state, the run checks their
conjunction under one name, with the type invariant where there is one:
`OneContextPerFlow` (sockets, bundle ids, groups), `FlowsFit` (fields and
limits), `LoaderSound`,
`LockMeansReady` (path delay known, transmitting only under lock), `StoreSound`,
`PhaseSound`, `RingSound`, `EndpointSound` and the `TablesSound` of `Srp` and of
`NetStack`. Their parts are defined, and commented, one by one.

A finding run checks what a comment or a document says of the code and shows
the shortest behaviour of the code that disagrees; `PROJECT.json` quotes the
sentence. The other disagreements that the models show have a property and a
configuration of their own too, which section 6 names; they are not among the
runs.

### Bounds, and why they are enough

* **Flows**: two contexts, two receivers (interchangeable), two bundle ids, two
  latencies. Two contexts are the least for which a full table, an eviction that
  has to choose, and confusion between contexts can happen; the proofs cover any
  number. Ages wrap at `TimeWrap`, clamped at `AgeClamp`, so that the 32-bit
  wrap is reached.
* **Netload**: images of two and three bytes in chunks of two (the last chunk is
  short), two retries, two passes, two sessions, two frames per direction.
* **Clock**: a tick is the settle time of 4 s and the other times are scaled to
  it; streaks of 2 and a median of 3 keep every comparison of the code (below,
  at and above its limit) reachable. `Bands` has a step, an offset that
  counts towards unlocking, none, and a wild one that is ignored, on both sides of
  zero; the band between none and unlocking is covered by the proofs only. `Backlog` is the number of Sync pairs
  handled between two polls: 1, and below the lock streak. `UptimeWrap`, 2^32 ms
  in the code, is 3 ticks: one beyond the longest settle time, so that an age is
  compared below and at its limits and wraps.
* **Media clock**: a unit is 50 ppb. The slew step of 2 is smaller than the
  register's unit of 5, as in the code; the rates -7 and 12 lie inside and
  outside the clamp of 8 and on both sides of zero.
* **Packetizer**: 1042 cycles per strobe and up to 1.8 strobes per frame become
  8 cycles and 10 to 12 cycles. Packet sizes 4 and 6 over a second of 12 samples
  stand for 16 and 60 over 48000: their dues coincide at the end of the second
  and interleave within it. `REST` strobes pass between two requests
  to the firmware. One request may clear up to `BURST` contexts, here both as in
  the code (`dante_tx_drop_all`, the sweep of stale flows, a 0x2202 with several
  ids), with any time or none between two of the clears, or clear one and bind
  it at once (`dante_tx_bind_multicast`). At 7 cycles per strobe such a burst
  does lose a due frame, so what `NoDueLost` asks of the clock is close to
  what the run gives it. The MAC holds a frame for at most
  `STALL` cycles. Seconds are not told apart in the runs (`SECONDS` = 1), the
  wrap and the borrow are.
* **PTP pairing**: one leader (two in `PtpTwoLeaders.cfg`), two Syncs and two
  requests, which is what a message overtaken by its successor takes. Ring of 4 for 8 and two slots as in
  the MAC: the ring still has room above the resynchronisation limit of 2. A
  budget of 2 frames per dispatch makes the loop end with frames waiting, and 5
  commits can overflow the ring that the loader left with 0 to 4 entries.
  Sequence numbers are not reduced modulo 2^16: a message that is late by a whole
  turn (at one Sync a second, 18 hours) does not occur.
* **Network**: three peers for two cache entries, so that entries are evicted;
  two interfaces, so that a peer can come back on another; two capture replies,
  so that a burst meets a slot still in use. The revert time is 2 of 6 ticks,
  and the gate is armed at tick 4, so that the deadline lies across the wrap (the
  proof is for any). A flow request names any peer, or an address that is none of
  them, as receiver.
* **Discovery**: one context (several are `flow_table`'s subject), two channels
  and one channel per sweep, so that a change can fall into a running sweep;
  packet sizes 0, 2 and 16 and lists of 1, 2 and 3 channels for a limit of 2
  slots; latencies of 250 and 500 us, below and above the window of a packet of
  16; one announcement of the static records for three; two questions per query.
  `DiscoveryBrowse.cfg` has the code's own 48 channels and 24 records per response.
* **SRP**: two talkers, so that one vector follows the one with LeaveAll; three
  remote streams for two entries. A tick is shorter than the bridge's leave
  time, and the join period of 2 ticks longer. `MaxEvents` = 3 commands and
  received vectors: one to set up, one to disturb, one to come late. The counter
  may wrap at any tick, but not twice in the life of an entry, which is 30 s of
  the counter's 49 days.
* **AVDECC**: two remote listeners with two inputs each and commands that name
  none, two talkers, two controllers for one
  notification entry; three commands and four of our own, which is a connect, a
  change of mind and a late answer. Our sequence id wraps at `SeqWrap` = 2, so
  that numbers recur within `MaxSeq` = 4. `n_listeners` stays within its `uint8_t`
  (`CountCap`), which takes 255 commands without a listener id to leave.
  Timeouts are 1 to 3 ticks and keep the order of the code's.

### Fairness

* `Netload`: weak fairness of the host, the loader and its boot window, which
  are loops that always take their next step; strong fairness of the START
  deadline, since the host's clock runs on while it is busy reading answers.
* `MediaClock`: weak fairness of polls (an endless loop) and of Sync and
  Delay_Resp (a live master), strong fairness of time, which the model lets pass
  only between a poll and the next Sync, and of a poll while the age of the lock
  is at its longest limit: a pass of the loop is far shorter than a tick, so an
  age that comes round again and again is also polled. Calm is never forced: liveness is
  stated as *if the network becomes calm*.
* `McrDante`: weak fairness of polls and of the lock, strong fairness of a save
  in progress, which power losses may interrupt repeatedly but not for ever.

* `Avdecc`: weak fairness of time and of the poll, which the main loop calls on
  every pass. Nothing is assumed of the talkers: `ResolveEnds` holds because of
  our timeout alone, and because commands end (`MaxCommands`): a CONNECT_RX that
  is repeated within 1.5 s arms the resolve again (`avdecc.c:930-938`). The resolve
  it overwrites gets no answer of its own.

The other modules state safety only and assume no fairness.

Deadlock is checked except in `Netload`, where the system ends when the operator
has used up the sessions, and in `PtpPairing`, `Srp` and `Avdecc`, whose
behaviours end at their bounds on commits, events and commands.

## 4. Proofs

TLAPS proves, for every value of the constants that satisfies the modules'
assumptions, the invariants below; each is also checked by TLC.

**`FlowTable_proofs`** (over `Discovery`, which extends `FlowTable`): `TypeOK`,
`OneContextPerSocket`, `OneContextPerFlowId`,
`BundlesOwnTheirGroup`, their conjunction `OneContextPerFlow`, and
`GatewareMirrorsTable`. The inductive invariant `TableInv` is their conjunction.
None is inductive alone: a bind finds the flow to renew by socket or id, and the
first match is the only one because of the uniqueness invariants; a bundle is
told from a unicast flow by its address only if it is addressed to its own
group. The assumptions are that the groups are distinct and no host's address.
On `TypeOK` rests `UnicastWithinLimits` (the two are `FlowsFit`, checked in
`discovery`), on `TableInv` the action property
`UnicastBindSparesMulticast` and the refinement `ImplementsRegistry`: each
action of the table maps to a refresh, an admission, an eviction, a release or a
stutter of `FlowRegistry`, for any capacity. `DiscoverySpec => Spec` carries all
of this over to the table that runs beside the mDNS responder, and `SweepInv`
(an effective latency or bundle that the network was not told is at or behind
the sweep's cursor) gives `LatencyRepublished` and `BundleAdvertised`.

**`Netload_proofs`**: `LoaderSound` and `RunsAnnouncedImage`, for any images,
chunk size, retries, passes and link capacity, over links that lose and damage
frames. `NetloadInv` says what may be on the links (any frame of any session,
late ones included), that a started session was announced with the length of one
of the images, that a chunk on the way has the bytes of its image at its offset
or damaged ones, and that the bytes below the loader's offset, which is within the
announced length, are the ones stored since its START. Nothing is assumed but that
the sizes are numbers; the CRC is taken as collision-free.

**`MediaClock_proofs`**: `TypeOK`, `LockKnowsDelay`, `OnTimeline`,
`TransmitsLocked`, `LockMeansReady` and the action properties `SettledLock` and
`PhaseFinal`. The inductive invariant `ClockInv` adds to the types what the
servo guarantees between updates (an acquisition runs only unlocked; a final
phase has made its path-delay step) and what a poll may rely on: a clock that
moved while audio is sent shows as a step; a lock that broke since the last poll
has not had the samples to return; a lock both polls saw has held as long as its
recorded age. The last two need `Backlog < LOCK_STREAK`: fewer Sync pairs fit
between two polls than a lock takes. Without it a lock could break and return
unseen.

**`McrDante_proofs`**: `TypeOK`, `AppliedIsNco`, `ConfigWhole`, `StoreSound`,
`RestoresConverged`, the action property `NcoSlews` and the refinement
`ImplementsStore`. The inductive invariant
`McrInv` adds how far a save in progress has come (`SaveProgress`: the words
before the pointer are programmed, the others erased), that the cached increment
is the register's, that a disarmed clock is at nominal, and that both the live
and the stored rate were converged ones. The assumption is that erased flash
differs from every value and from every checksum of a blob; the checksum is
otherwise taken as collision-free, so a real 32-bit collision is outside the
result. On the same invariant rests the refinement `ImplementsStore`, with what a
boot would load as the abstract record: only the last word of a save replaces it,
an erase loses it, every other step is a stutter. It says more than `ConfigWhole`:
a save that programmed over an unfinished erase would bring a lost record back,
which that invariant allows and the store does not. That the erase has ended is
what `cfg_wait_wip` waits for; its bound of four million polls is taken as enough.

**`Packetizer_proofs`**: `PhaseSound`, `NoDueLost` and `StampAndWindow`.
* `PhaseSound` holds for any contexts and any packet sizes that divide a second.
  `PhaseInv` follows the seqlock of `write_ctx` cycle by cycle: an attempt that
  saw the counter move has its next read, write and check behind it before the
  next strobe, so the second attempt succeeds. This needs five cycles per strobe
  and two attempts; the code has 1042 and eight. `BusyInv` adds that a frame is
  built only for a pending context and that a pending context owes a frame.
* `NoDueLost` needs a condition of its own, `Schedulable`: every packet lasts at
  least as long as a walk over all contexts, the frame that is under way at its
  start, and `BURST` + 2 times around `byte_idx` or `rd_idx`: once for a rewrite of
  that frame's context before its due and once for every write of the request
  after it; and no two requests to the firmware
  fall into one packet. A bind has one such write: `SecondWrite` says that a
  further attempt of its seqlock stores what is there already. A frame counts
  with the longest that the packet sizes and slot counts in use make (`Longest`;
  `LongestFits` shows that there is one). `WaitInv` is the argument: the cycles
  since a pending context came due (its phase tells them), those the builder
  still needs to get to it and through it, and those that the writes still to come
  may cost (`Writes`), together fit into its packet; every cycle adds one to the first and
  takes one from the others. The gateware does not enforce the condition.
  Counting in clocks, and a word of STREAM like a byte of BUILD as the model
  does, six contexts of 8 slots and packets of 16 samples, the default, meet it for
  requests that clear up to three contexts: 16346 of 16672 clocks, which leaves 46
  clocks of back-pressure to each frame (with one context, 12250 and 631). A request
  that clears all six needs 22490 clocks by this count, which packets of 16 do not
  have: for `dante_tx_drop_all` with four flows and more the theorem says nothing
  of the frames that are still due while it runs. With the largest
  packets (60 samples) in use anywhere, packets of 32 and more meet it for three
  contexts, of 48 and more for six. The count is generous, for every clear is taken to
  hit the frame under way. The
  run, whose instance is tighter than the condition, shows that it is sufficient
  and not necessary.
* `StampAndWindow` follows from `NoDueLost` (`StampsAreOwn`), hence under
  `Schedulable` from the specification alone (`FramesAreOwn`). `StampInv` says
  that the shared latch is the one of every context that nobody overtook and
  that what is built so far came from it. It is not inductive by itself: a
  context that comes due again while its frame is built would be stamped from
  the later latch. At least one cycle of samples has to follow the header.

**`PtpPairing_proofs`**: `RingSound`, `OwnTimestamp`, `PairsOneSync` and
`DelaySampleOwn`, for any ring depth, slots, budget and numbers of messages. Once
in step the ring has exactly one entry per frame still to be taken (`Aligned`);
between a resync that found every slot filled and its pops, the excess is still
there (`Aligning`), and the gateware may commit at any of these points.
`SlaveInv` is what the two handshakes remember between messages. The assumptions
are the code's resync limit equal to the number of slots and below the ring's
depth; `PairsOneSync` has the hypothesis that all Syncs come from one leader:
a Follow_Up is matched without its sender, and `PtpTwoLeaders.cfg` shows what comes
of it.

**`NetStack_proofs`**: `TablesSound`, `RevertOnTime`, `SentAsBuilt` and
`AllAnswered`. `TablesInv` has one entry per address in the cache, each naming
the interface last heard; a deadline that lies ahead by what is left of the
revert, in the counter's wrapping arithmetic (for a revert below half its range);
and each port and group of the boot sequence in its table or still to come.
`AnswerInv` is about a handler between two of its sends: a message is committed
right after it was built or finished, and only a lookup that finds its address
lies between; the slot the MAC has still to read is not the one being built; an
answer owed is with the MAC or still among the handler's calls. The one exemption
is in the properties themselves: `stray` says that the lookup of a flow request's
receiver missed, which loses the reply (`net_stray`). That nothing
else does, for any mixture of requests and MAC progress, is what is proved. The
assumptions keep names apart.

**`AvbReference_proofs`**, AVDECC: `EndpointSound`, `KeepsStreaming`, `BoundToAnswer` and
`ViewsCurrent`, for any streams, remotes, controllers and commands. `AvdeccInv`
counts the taken slots of each talker against its counters (finite sets of
streams and remotes) as long as no command without a listener id came, and says
that who is `counted` has a slot, full table or not (theorem `StreamKept`). It gives
a number to one command only, before the number is reduced to 16 bits: an answer
that binds is the one asked for or a whole turn away, and marked so (theorem
`BindingIsAnswered`). It keeps every registered controller's view equal to the
state.

**`AvbReference_proofs`**, SRP: `TablesSound`, `TalkersStayRegistered` and the
action property `OldestEvicted`, for any streams, table sizes, periods and
sequences of received vectors. (`Srp` has its own names for `Init`, `Next` and
the like, so that one module can hold the proofs of both endpoints of that
firmware; they share no state.) The inductive invariant `SrpInv` has three parts
of its own beside the tables and the ages. `RegInv` is the argument for
`TalkersStayRegistered`, which is not inductive: a talker is registered or about
to be forgotten only while we declare it (`OnlyDeclared`, so that an attribute
enabled late cannot inherit an old LeaveAll), and an attribute a LeaveAll has
made the bridge forget is still waiting for a poll that knows of that LeaveAll
(`PollKnows`); a tick comes only after a poll. `DeclaredRegister` shows what that
poll sends: position by position, no vector of our own PDUs takes back a join
that came before it, for any number of talkers and listeners, and that an MVRP
LeaveAll, of which nobody here is told, touches no attribute of MSRP (theorem
`RegistrationsLast`). `OldestEvicted` (theorem `OldestGoes`)
follows from `SlotChosen`, what the search of `srp_process_rx` returns when raw
stamps are compared. The
assumptions are those of the constants.

**Only model-checked**: liveness (`HostEnds`, `AudioStarts`, `RateConverges`,
`ResolveEnds`), which this prover does not handle. Every invariant and every
action property that a passing run checks is stated by one of the theorems.

## 5. What is left out

* The packetizer's sample ring, `ts_load` with the re-seeding of phases, header
  fields and channel maps, and the first block after enabling. `g_phase_adj`
  compensates a constant skew between counter and phase that is taken as zero on
  both sides.
* PTP addresses of other slaves, malformed messages and the plausibility bound
  on a delay. `PtpPairing` has no step of the TSU between the
  halves of a measurement. The servo's wait for a path delay (`waited`) saturates
  at the grace time, while the difference at `ptpv1.c:578` wraps after 2^32 ms.
  The branch of the main loop at `main.c:1016`, with which the console's `a` takes
  the gateware out of the path, is not part of `Poll`.
* The console's `t`, `T` and `N`, which re-run initialisation or the old clock
  while the system is up.
* Bytes of records and replies, the paging of ARC's channel lists and the RX
  subscription echo, the contents of the telemetry and capture rings: formatting
  or read-outs that no other component reads.
* Word alignment of multicast bundles: `FlowsFit` is about unicast flows, a bundle
  of an odd number of slots at packet size 2 is outside it.
* The 100000-poll bounds of `eth_send`, which give up on a MAC that has stopped.
* AVDECC's descriptor and GET commands, clock-domain counters and advertisement
  timer; SRP's diagnostics.
* The former gPTP state machines and media clock (`gptp.c`, `mcr.c`), of which
  only accessors and the console's `N` are still used; the USB and AES3 sides,
  SoC integration, the AVB packetizer, generated Verilog and test benches, for
  the reasons in `PROJECT.json`.

## 6. Known disagreements

Two runs show what the code does where a comment says otherwise; `PROJECT.json`
quotes each sentence beside the line of code.

* Channel maps (`flow_channels`): a re-seed latches the shared channel-map CSRs
  into every context (`dante_tx.c:751`).
* Flow replies (`net_stray`): if a flow request names a receiver other than its
  sender and that receiver is not in the ARP cache, the lookup sends from the slot
  in which the reply is being built, and the reply then leaves with the other slot's
  old contents (`dante_flows.c:78`, `dante_tx.c:784`). The sender is not answered
  either (`EveryRequestAnswered`, `NetStackFlow.cfg`).

The next ones are shown in the same way by a configuration that is not a run:
`tlc -config X.cfg M`, with M the MC module of the component, finds the named
property violated.

| Configuration | Property | The code, and what is said of it |
|---|---|---|
| `MediaClockWrap` | `AudioGoesOn` | 2^32 ms after a lock its age is 0 again, and the talker is switched off for the settle time (`dante_tx.c:406`); `dante_tx.c:378-380` speaks of a few seconds of silence at startup |
| `PtpMispair` | `LossMispairs` | `TELEMETRY_AND_PTP.md:60-62`, `avb_soc.py:604-606` and `ptpv1.c:613-614` say that a lost Follow_Up or Delay_Resp is paired with the wrong Sync; the sequence checks at `ptpv1.c:760` and `ptpv1.c:788` ignore it instead |
| `PtpTwoLeaders` | `PairsOneSync` | Those checks do not look at the sender, so two leaders with equal numbers make a mixed pair; `ptpv1.c:758-759` says the number keeps mismatched timestamps apart |
| `DiscoveryBrowse` | `EveryChannelListed` | The list cursor moves while it is used, so a browser that asks again and again is never told of a third of the channels (`mdns.c:779`) |
| `SrpVlan` | `VlanStaysRegistered` | MVRP is not received (`srp.c:513`), so the bridge's LeaveAll for the VLAN is not answered in time; `srp.h:168-169` says it is |
| `SrpListeners` | `ListenersStayRegistered` | Our LeaveAll is repeated in every Listener message of a PDU and takes back the joins before it (`srp.c:475`); `srp.c:1061-1062` wants a listener kept ready as long as it wants its stream |
| `SrpOldest` | `OldestAlwaysEvicted` | Raw stamps are compared (`srp.c:752`), so after a wrap of the counter a full table gives up an entry heard since; `srp.c:739-740` says the oldest |
| `AvdeccFull` | `AnyKeepsStreaming` | A listener beyond the table is told SUCCESS and not counted (`avdecc.c:467`, `avdecc.c:500`), so its stream stops when a counted one leaves; against `avdecc.h:267-269` |
| `AvdeccInputs` | `AnyKeepsStreaming` | Only the entity id is compared (`avdecc.c:457`, `avdecc.c:515`), so the stream stops for both inputs of an entity when one leaves |
| `AvdeccUnnamed` | `AnyKeepsStreaming` | A DISCONNECT_TX with an all-zero listener id matches an empty slot and lowers the count (`avdecc.c:514`) |
| `AvdeccStale` | `StaleIgnored` | The 16-bit number of a resolve comes round, and the watchdog takes one on every pass while it waits (`avdecc.c:783`): an answer late by a whole turn is taken (`avdecc.c:857`) |

The following were met while modelling; no configuration shows them.

* Flow ids: `ext_id` outlives its flow, so the delete of an evicted bundle's id
  can take the unicast flow that has its context now (`dante_tx.c:1049`,
  `dante_arc.c:778`). Ids chosen by the controller and context indices share one
  id space (`dante_tx.c:1084`). A new bundle may evict the oldest bundle, since
  bundles are not refreshed (`dante_tx.c:1000`, `dante_tx.c:908`).
* Netload: an acknowledgement left over from the first pass can be taken for
  EXEC's answer (`tools/netload.py:200`). The loader waits without limit after a
  START (`loader/loader.c:317`).
* Clock: a locked servo whose filtered offset stays between 20 us and 1 ms
  neither steps nor unlocks (`ptpv1.c:536`, `ptpv1.c:617`). Without a matching
  Delay_Resp the servo locks after its grace time but the talker never starts
  (`ptpv1.c:107`, `dante_tx.c:405`). A Delay_Resp after a TSU step mixes two
  timelines (`ptpv1.c:788`).
* Packetizer: contexts of different packet sizes share one latch, so a frame
  that waits for the builder can leave its grid (`dante_packetizer.py:672`).
* The comment at `main.c:917` says the gate is left disabled at boot;
  `rx_gate_init` arms it.
* mDNS: a latency change that is undone before the next `dante_tx_poll` is not
  republished to a browser that asked in between (`raced` in `Discovery` exempts
  it); an unbound flow's bundle key stays in a cache until its time runs out
  (`mdns.c:557`); two questions for different channels in one query share one
  index (`mdns.c:718`); a bundle's record takes its packet size from the current
  setting, not from the bundle (`mdns.c:617`); ids above 99 lose a digit
  (`mdns.c:573`).
* AVDECC: a CONNECT_RX with a destination but a zero stream id binds a stream of
  id zero (`avdecc.c:929`, `avdecc.c:964`; modelled). A CONNECT_RX that overwrites a
  waiting resolve leaves the earlier one without any response (`avdecc.c:930`).

## 7. Plan

1. `Packetizer`: anchor and re-seed actions, with the strobe that falls between
   them; the contents of headers.
2. `SampleRing`: priming, full rail, underrun and recovery, with an abstract
   bounded FIFO that it implements.
3. The console's `t`, `T` and `N` as actions of `MediaClock`, `FlowTable` and
   `McrDante`; the paging of ARC's lists.
4. Proofs: a `Schedulable` that adds up the frames of the contexts instead of multiplying
   the longest, so that it also covers short packets.
