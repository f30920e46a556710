# A TLA+ verification of esphome-qnetd

esphome-qnetd is a corosync-qnetd arbiter that runs on an ESP32. Two or more
cluster nodes connect to it over TCP, report their configuration and their
membership, and when the cluster splits the arbiter gives its vote to one side.
The one thing it must never do is let both sides have the vote.

This directory models the server and what surrounds it in TLA+, checks the
models with TLC on small instances, and proves the central invariants and two
refinements with TLAPS for every value of the constants: any number of clients,
clusters, nodes, rings and connections, any timeouts and any buffer sizes.
`PROJECT.json` lists the components, runs, mutants, findings, hazards and
theorems, and maps each definition to the source lines it models. A definition
whose comment says "faulty variant" is a mutant: a copy of the definition below
it with a plausible bug, used to show that a property can fail.

## The system

| Part | Source | Module |
|---|---|---|
| ffsplit decision: stability, partition selection, vote states | `server.cpp` 499-779 | `Ffsplit` |
| sessions, clusters, message handlers | `server.cpp` 26-97, 134-495 | `QnetdServer` |
| server + clients + network, restarts, lost sessions | `server.cpp`; clients external | `QnetdSystem` |
| hand-over of the vote, abstractly | what `server.cpp` 403-434, 692-779 amount to | `VoteHandover` |
| dead peer detection, 64-bit clock | `server.cpp` 82-108; `qnetd_component.cpp` 11-19 | `DeadPeer` |
| framing, deferred closes | `server.cpp` 42-80, 101-142 | `Framing` |
| TLV codec | `tlv.h` 148-275 | `Wire`, `TlvIterator` |
| message codec | `msg.cpp`, `msg.h` | `Msg`, `MsgTransfer` |
| what the server expects of a `Transport` | `server.h` 20-26 | `FrameChannel` |
| TCP sockets and peers | external | `Sockets` |
| ESPHome component: loop, connections, tx buffers, sensors | `qnetd_component.cpp` | `QnetdComponent` |
| POSIX host | `host/qnetd_lite.cpp` | `QnetdLite` |
| ESPHome configuration schema | `*.py` | no (code generation, no run-time state) |

The server is single-threaded. The embedder calls `on_connect`, `on_data`,
`on_disconnected` and `tick`; each call runs to completion. A report (a NODE_LIST
or a HEURISTICS_CHANGE), or a member that leaves, runs `ffsplit_do`. It checks
that the reports of all members are consistent, selects a partition, and starts
a vote transfer: VOTE_INFO NACK to everybody outside, and only when all of those
have been acknowledged, VOTE_INFO ACK to everybody inside. A new decision may
start at any point of a transfer.

## The modules

**Ffsplit** has no variables. A *poll* is the snapshot that `ffsplit_do` takes of
one cluster through its `TriggerView`: the sessions, the active and the walked
slots (all but the leaving client), the stored views, the views in effect (the
trigger's incoming lists replace its stored ones) and the partition that was
quorate before. `ffsplit_is_stable`, `ffsplit_partition_better` and the others
keep their names. The walk that keeps the best candidate so far is the recursive
function in `best_client`; it stays a walk because its result could depend on the
order of the slots. `ffsplit_do` returns the new ballots and the new cluster
entry.

**FfsplitPolls** enumerates the polls of settled networks and compares
`ffsplit_select_partition` with a definition that ranks candidates and knows no
walk. It counts the clients that stay, as the comment in `leave_cluster` says; the
code also counts the one that leaves, which is the third finding below.

**QnetdServer** has four variables. `sessions`, `views` and `ballots` are three
parts of the array `sessions_` (identity and options, what the client reported,
the vote transfer), `clusters` is `clusters_`. One action per entry point or
handler, with the whole effect of the handler: leaving a cluster includes the
decision that it triggers, the last acknowledgement of a NACK includes sending
the ACKs. INIT is modelled in the order in which the code checks its options,
because a refused INIT leaves some of them stored. Left out: fields that nothing
reads back (`last_sent_vote`, `quorum_list`, `config_version`, `peer`), the
counter `decisions_`, QUORUM lists and ECHO, replies other than VOTE_INFO, and
the deadlines and bytes, which have modules of their own. `status_string` and
`any_ack` are what the sensors show. Node lists are sets; a list that names a node twice is not
modelled. `ReInit` says whether a member may send INIT again.

**QnetdSystem** adds, for one cluster, a qdevice client per node, the ring each
node is in, a connection per session with frames in flight both ways, and a
network that re-partitions. The clients are not in this repository; they are
modelled from what the server relies on: INIT once, then configuration,
membership and every change of it; one reply per VOTE_INFO, in order; an ACK
counts only for the ring it names, only while that is the node's ring and only
while its session lives. `Drop` kills a session on the client's side and the
server finds out later (`Expire`); `Evict` is dead peer detection hitting a live
client; `Reboot` empties the server's tables.

**VoteHandover** is the abstract specification of a vote transfer. It knows members,
the partition chosen last, who was sent an ACK and who still owes an answer to a
NACK; no rings, lists, sequence numbers or cluster states. A decision takes the vote
from those outside and gives it to those inside at once only if nobody is outside;
otherwise ACKs go out with the answer that settles the last debt. `QnetdServer`
reads its tables as such a state (`Handover`) and implements it
(`ImplementsHandover`).

**DeadPeer** has one variable for true time, one for the wrapping `millis()`, and the
deadlines of the sessions. A pass of the component's `loop()` reads the clock once,
accepts, reads every connection until nothing is left, and calls `tick()`; time passes
and bytes arrive between any two of these steps. `OnData` is the whole of a read:
the renewal in `on_data` and, after INIT or SET_OPTION, the second renewal with the
new phase and interval. That `MaxGap < WRAP`, a pass begins within every 49.7 days,
is an assumption of the module.

**Framing** runs `on_data` step by step: append to `rx`, the header, the limit, the
handler, the erase, and `drain_closes` at the end. Two histories, the bytes received
and the frames handled, let the properties speak about the whole connection. A header
is two bytes here and six in the code.

**Wire** has the big-endian helpers and the writer; `BYTE`, the number of values of a
byte, is 256 in the code. **TlvIterator** is the iterator as a state machine whose one
action is `next()`. **Msg** has `msg_decode` and all builders as operators, and
**MsgTransfer** sends what was built to the decoder and its iterator, unchanged, with an
option of a later protocol version somewhere, or with the last byte missing; it also lets
the iterator walk over byte strings that nobody built.

**FrameChannel** says what the server relies on when it calls `send_frame`: what a
peer receives is what was sent to its session, in order, nothing twice and nothing
from another session, up to some point. **Sockets** is the world both hosts share:
sockets that fill up, are shut down or break. **QnetdComponent** is `loop()` with its
table `conns_`, and **QnetdLite** the `select()` loop with blocking sends. A `send()` on a
broken connection fails or, by SIGPIPE, ends the process. Which of the two depends on
the system: whether the reset has been reported before, and whether the process is the
first one of a container, which the signal does not affect. Both hosts see the
server through its interface: a call sends to some sessions, may end the session it is
for, and may change what the sensors show. All that one call sends on a connection
counts as one frame, since two writes in a row leave what one write of both leaves.
In the component `used` is the same as `sock != nullptr`, so it is no field of its own.

### An assumption: InstantDrop

The repository's README says that safety rests "on the client dropping the device
vote the instant its TCP session dies". `InstantDrop = TRUE` states this for the
sessions that the server ends. The safety runs assume it. It is needed: with
`InstantDrop = FALSE`, a restart or an eviction during a split lets the server
grant the vote to the other side while the first still holds it, and TLC finds
`NoSplitBrain` violated within a few thousand states. The liveness run does
without it.

## The runs

All runs finish in at most about two and a half minutes with two workers.

| Run | Bounds | Distinct states | Shows |
|---|---|---|---|
| `ffsplit_polls` | splits of 3 and 4 nodes, any connected subset and slot order, PASS/FAIL per client, a reporting or leaving trigger, two tie breakers, keep-active on and off | 265,680 | `MajorityWins`, `BestHalfWins`, `MinorityNeverWins` |
| `ffsplit_leaving` | the same polls | violated | `StayingClientsDecide` |
| `server` | 2 slots, 1 cluster entry, 2 names, 7 INITs (good, incomplete, refused), nodes 1 and 2 of a two- or three-node configuration, 3 reports, heuristics, keep-active, any reply | 63,422 | `TablesAgree`, `TieBreakersAgree`, `UniqueNodeIds`, `AcksInsideQuoratePartition`, `TransferHasDebtor`, `AcksFollowNacks`, `QuorateIsHalf` |
| `system_faults` | 2 nodes, 2 slots; 2 rings with two of a lost session, a heuristics failure and a restart, or 3 rings; 4 sequence numbers | 215,928 | `SysTypeOK`, `NoSplitBrain`, `NacksTookEffect` |
| `system_three_nodes` | 3 nodes joining in order, 2 rings | 155,883 | `HoldersHaveHalf`, `NacksTookEffect`, `ImplementsHandover` |
| `system_settles` | 2 nodes, 2 rings, 1 lost session, 1 restart, 2 slots | 67,013 | `OneBlockSettles`, `StatusSettles` |
| `dead_peer` | 1 session, a clock that wraps every 7 ticks, passes up to 2 ticks apart, 15 ticks | 187,749 | `ClockExact`, `SilentSessionEnds`, `EvictedOnlyAfterSilence` |
| `receive`, the streams | 2 slots, 5 bytes per connection out of 3 values, limit 1, one type that does not decode | 1,144,526 | `NothingLostOrMixed`, `RestIsIncomplete`, `RxStillValid`, `MalformedIsLast` |
| `receive`, the payloads | every builder over edge values, lists of up to 3 nodes with limit 2, bytes of 8 values; byte strings of up to 11 zeros and ones, twos or threes | (together) | `RoundTrip`, `ListLimit`, `UnknownSkipped`, `CutIsRefused`, `OptionInside`, `WalkBounded`, `WalkedIsWritten`, `RefusedIsMalformed` |
| `component` | 2 slots, 3 connections of which one is refused, 2 frames of 2 units, sockets of 1 unit | 84,268 | `SlotsAgree`, `PublishedIsCurrent`, `ImplementsChannel`, `FramesArrive` |
| `posix_host` | 2 slots, 2 connections, 2 frames each | 115,401 | `DescriptorsAgree`, `ImplementsChannel`, `StopsOnlyInSend` |
| `late_reply` | 2 nodes, 2 rings | violated | `AckFollowsLastNack` |
| `reinit_identity` | 3 slots, repeated INITs | violated | `UniqueNodeIds` |

Why the bounds are enough to be interesting. Two nodes is the case the arbiter
is built for, and the only one in which a 50:50 split leaves the choice to the
arbiter; within one pair of rings the choice can move from one side to the other
only by heuristics, a lost session or a restart, so those are the faults of which
`system_faults` combines any two. Three rings let a split heal and recur while votes of the first one are still in
flight; the constraint `RingsOrFaults` of that run lets the second change of the
network happen only in behaviours without another fault, and `JoinInOrder` lets the nodes
join in order until a session has been lost or the arbiter restarted. Three nodes make reports of one
partition arrive one at a time, which is what `ffsplit_is_stable` is for; there the
nodes join in order (a state constraint), because the order in which they join is
covered by `server`. In `server` two names compete for one cluster entry, and the
constraint `OneVariation` keeps three things apart, a changed keep-active option, a third
configured node, and a second name or tie breaker, and lets heuristics fail only without
the last two: what they do together matters only to the choice of a partition, which
`ffsplit_polls` covers.

`SEQ_MOD` stands for 2^32. In `server` it is 2, and every reply is current or stale. In
`system_faults` it is 4, so that numbers are used again, and the constraint
`UnansweredFit` says that no session has more votes unanswered than there are numbers.
The constraint is needed: with two numbers and three unanswered votes the reply to the
first is taken for the answer to the third. In the other system runs `SEQ_MOD` is larger
than the number of votes a run can send. `MaxRings`, `MaxDrops`, `MaxFlips` and
`MaxReboots` bound the faults.

The 15 ticks of `dead_peer` are two wraps of the clock and more than three timeouts;
sessions do not affect each other's deadlines, so that one is enough. Five bytes make
two whole frames and a part of a third; slots are interchangeable there, so `receive` uses
them as a symmetry set. `receive` explores the cutting of streams and the decoding of
payloads apart from each other, since they touch in nothing but the payload. A socket of one unit makes every write of a
frame a partial one. In `component` the constraint `Bounds` lets a third connection come
only while both slots are in use, so that it is refused, and of the other two one may
end; in `posix_host` both may. `MaxFrames`, `MaxTotal`, `MaxChunks`, `MaxStream`,
`MaxTime` and `MaxLen` bound what is sent, and none of them is part of a proof except as
a guard.

Deadlock is checked except where the system may rest: in the system runs when the
bounds are used up and everything has settled, in the runs of the decision and of
received bytes, which end, and in `posix_host`, where a signal may end the process or a
`send()` wait for good. The loop of the component never comes to a stop.

### Fairness

`system_settles` assumes weak fairness of the steps that only need time: nodes
install the ring of their block, clients reconnect and finish the handshake,
frames in flight are handled at both ends, clients notice a dead session, the
server frees a dead slot. The loop of the component polls every connection and
calls `tick` on each pass, TCP delivers or breaks, and dead peer detection has a
deadline for every session, which is what justifies it. Nothing is assumed about
re-partitions, lost sessions or restarts: they may stop.

`component` and `posix_host` assume weak fairness of the host's loop, which
ESPHome calls again and again and `main` does not leave. `component` also assumes that
each peer reads what has reached it; this is a statement about clients, without which
nothing could be delivered. `posix_host` assumes nothing of the peers: its `send()`
blocks, so that a peer that stops reading holds up the whole loop, and `StopsOnlyInSend`
says that this and the signal are the only ways in which the loop ends.

`TimelySpec` additionally rules out the step of the first finding below
(`LateReply`). Without that restriction `OneBlockSettles` is violated: the
network rests with nobody holding the vote. In a variant of the handler that
ignores a reply while the cluster is in SENDING_NACKS and the sender is in
SENDING_ACK, the property holds without the restriction.

## Findings

1. **A late reply cancels a pending ACK** (`server.cpp` 410-416, run
   `late_reply`). A decision that has somebody to NACK marks the winners
   SENDING_ACK and sends them nothing yet, so `vote_info_seq` does not move. If a
   winner's reply to the VOTE_INFO of an earlier decision arrives now, its number
   is current and `ff_state` becomes WAITING_FOR_CHANGE. When the last NACK is
   acknowledged the winner is skipped: nobody holds the vote until the next
   report. Safety is not affected.
2. **A refused INIT changes a member's identity** (`server.cpp` 219-227, run
   `reinit_identity`). The `else` branches that store the node id and the ring id
   run also when the INIT has already been refused because the session is ACTIVE.
   Two members can then have the same node id, which `skip_in_cluster_walk` and
   all lookups by node id rely on not happening. corosync-qdevice does not send a
   second INIT, so the other runs and the proofs about votes assume `~ReInit`.

3. **A leaving client still counts for its half** (`server.cpp` 604-608 and 658-665, run
   `ffsplit_leaving`). The comment in `leave_cluster` says that the algorithm is run
   again "with the leaving client excluded, so the surviving partition can be promoted"
   (484-485). The walk and the stability check leave it out, but it is still ACTIVE when
   the clients of a partition and their heuristics are counted and when the keep-active
   option is collected. With nodes 1, 2 against 3, 4, all connected, and node 1's client
   leaving, the half of node 2 is still counted as two clients and wins by the tie
   breaker over the half that has two. Two-node clusters are not affected: nobody is left
   in the half of the leaving client. Safety is not affected either. `BestHalfWins` shows
   that in all other polls the ranking of the clients that stay decides.

Two more remarks. `README.md` 112 says of the 30 s of the handshake that they cap "a stuck
PREINIT/INIT". Before ACTIVE, `on_data` renews the deadline with any data, so the 30 s count
from the last bytes received and a handshake that trickles in is never cut off;
`SilentSessionEnds` is stated accordingly. And where a `send()` of the POSIX host fails,
its comment says "read path will detect the dead socket" (`qnetd_lite.cpp` 40); on a
connection that was reset SIGPIPE may end the process before that.

## The proofs

The proofs hold for all values of the constants that satisfy the named `ASSUME`s of
the modules: positive table sizes, a finite set of positive node ids, a default ring
that is no real ring, inputs of the right types; passes less than one period of the
clock apart; frames and sockets of at least one unit.

| Theorem | Statement | Assumes | Module |
|---|---|---|---|
| `TypeCorrect` | `Spec => []TypeOK` | | `QnetdServerProofs` |
| `TablesCorrect` | `Spec => []TablesAgree` | | |
| `TieBreakersCorrect` | `Spec => []TieBreakersAgree` | | |
| `UniqueNodeIdsCorrect` | `Spec => []UniqueNodeIds` | `~ReInit` | `VoteTransferProofs` |
| `AcksInside` | `Spec => []AcksInsideQuoratePartition` | `~ReInit` | |
| `TransferNeverStuck` | `Spec => []TransferHasDebtor` | `~ReInit` | |
| `NackBeforeAck` | `Spec => AcksFollowNacks` | `~ReInit` | |
| `HandoverImplemented` | `Spec => ImplementsHandover` | `~ReInit` | `HandoverProofs` |
| `ClockCorrect` | `Spec => []ClockExact` | | `DeadPeerProofs` |
| `SilentSessionsEnd` | `Spec => []SilentSessionEnds` | | |
| `LiveSessionsStay` | `Spec => EvictedOnlyAfterSilence` | | |
| `OptionInsideCorrect` | `Spec => []OptionInside` | | `CodecProofs` |
| `WalkIsBounded` | `Spec => []WalkBounded` | | |
| `WalkIsWritten` | `Spec => []WalkedIsWritten` | | |
| `RefusalsAreDue` | `Spec => []RefusedIsMalformed` | | |
| `ChannelImplemented` | `Spec => ImplementsChannel` | | `ComponentProofs` |
| `SlotsCorrect` | `Spec => [](SlotsAgree /\ Holders)` | | |
| `SensorsCorrect` | `Spec => []PublishedIsCurrent` | | |

### Server

`TypeOK`, which TLC evaluates as a part of `SysTypeOK`, is not inductive: the member
count of a cluster stays within the session table only because it *is* the number of
its ACTIVE sessions, so `TypeOK /\ TablesAgree` is proved together. What a decision does is stated once,
in the predicate `Decided`, and proved of `ffsplit_do` in `FfsplitDo`: either it
notes the instability and changes no ballot, or every visited client becomes due
an ACK or a NACK by its place in the new quorate partition, and ACKs go out only if
no NACK is due. Which partition wins does not matter for this.

For the votes the invariant is `VoteInv`. `AcksInsideQuoratePartition` is not
inductive because the acknowledgement of the last NACK sends ACKs that an earlier
step decided on: `PendingInsideQuoratePartition` says that they were decided for
the partition that is still the quorate one. `TransferHasDebtor` needs
`UniqueNodeIds`, since a leaving client is skipped by node id and would otherwise
take another member with it. `IdleBallots` makes a joining client neutral.
`NackBeforeAck` is an action property and follows from the same invariant: a
decision sends ACKs only if it sends no NACK, a reply only if it was the last one.

`HandoverImplemented` maps every handler to one step of `VoteHandover` or to none. A
report or a leaving client that leads to a decision is a `Decide`, one that finds the
membership unstable is a `Leave` or nothing, the INIT that completes a handshake is a
`Join`, a reply is an `Answer` if it was owed. The mapping needs `VoteInv`: that the
ACKs sent with the last answer go to members of the chosen partition is
`PendingInsideQuoratePartition`, that a newcomer has no vote is `IdleBallots`.

### Dead peer detection

`ClockExact` is inductive together with the relation between `millis()` and true time
(`ClockInv`): between two passes the counter wraps at most once, because `MaxGap <
WRAP`. For the sessions, `DeadlineInv` ties the deadline to the arrival time of the
last byte that was read, within one pass on either side, and `UnreadRecent` says that
bytes still unread arrived recently: since the beginning of the pass if the slot has
been visited, since the beginning of the pass before if not. The three passes in
`SilentSessionEnds` are one for each: the byte may have waited a pass, the deadline may
fall just after a tick, and the next tick may be a pass late.

### Codec

`IterInv` adds to `OptionInside` only the types; the point is that `pos_ + 4 +
cur_len_` of an option inside the payload is again a position inside it or its end.
`WalkInv` says that the options walked over lie one behind the other from the start of
the payload, and how the payload goes on when `next()` has returned 0 or -1; `CountInv`
counts four bytes for each. What the writer makes of these options is the recursive
function `Encoded`. That it is the payload up to the end of the last option
(`EncodedIsPrefix`) is shown without induction: the prefixes of the payload solve the
equation of `Encoded`, and the least index at which the two differ would contradict
`WriteOption`, the lemma about one option, which in turn rests on `PutGet`: writing a
two-byte integer that was read gives the bytes back, for every `BYTE`.

### Component

`ChannelImplemented` needs that what a peer has received, what is in its socket and
what waits in `tx`, one after the other, are the units 1, 2, 3, ... of its connection up
to the last one sent (`Streams`). A connection that is broken loses the middle part and
passes nothing on any more. That a slot's socket is the one its session was opened for
(`SlotsAgree`) and that no two slots hold one socket (`Holders`) are part of the same
invariant: a frame written to another session's socket would break the numbering.
`StreamProofs` holds the invariant and the proof that a call of the server keeps it,
`ComponentProofs` the steps of the loop and of the peers.

### Only model-checked

- Liveness: `OneBlockSettles`, `StatusSettles`, `FramesArrive`, `StopsOnlyInSend`. The
  prover does not handle fairness.
- Which partition is selected (`MajorityWins`, `BestHalfWins`, `MinorityNeverWins`,
  `QuorateIsHalf`): the walk is a recursive function, and this would need induction
  over it. The same holds for what a whole message decodes to (the properties of
  `MsgTransfer`) and for the concatenation of all frames in `Framing`.
- `NoSplitBrain`, `NacksTookEffect`, `HoldersHaveHalf` and `SysTypeOK`: they need an
  invariant over the frames in flight of all connections and over the window of
  sequence numbers. The half of the argument that is the server's own is proved
  (`NackBeforeAck`, `HandoverImplemented`).
- `DescriptorsAgree` and `ImplementsChannel` of the POSIX host, which exists for tests.

## Not modelled

- The ESPHome configuration schema, `dump_config`, logging, and the wording of log lines
  and of the status string: no state.
- `setup()` and the beginning of `main()`: they run once; if they fail, `loop()` does
  nothing and `main` returns.
- Which error a request is answered with. The handlers' guards are the conditions under
  which the code sends an error, but the codes are not told apart; nothing in the
  server depends on them.
- Fields that are stored and never read (`quorum_list`, `config_version`,
  `last_sent_vote`), the counters behind the sensors for decisions and connected
  clients, and QUORUM lists.
- Node lists that name a node twice.
- Errors of `write()` that are neither "would block" nor final, and memory that runs
  out: transmit buffers have no limit in the code. Calls of the POSIX host interrupted by
  a signal: it installs no handler.
- TLS: the server announces that it does not support it and refuses STARTTLS.
