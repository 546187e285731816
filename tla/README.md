# A TLA+ model of peekd

peekd connects to the Ethereum consensus layer's gossip network without a
beacon node, records when each message arrives and how often it is seen, and
stores one row per message in ClickHouse. This directory holds TLA+ models of
its message path and of the services around it, the TLC configurations that
check them, and TLAPS proofs of what matters most.

## The parts of the system

```
 discovery --channel--> dialer --> host (libp2p)
                                     |
                                   pubsub --message-ID callback--> seen counter
                                     | one channel per topic            |
                                subscription --> handler --> Process    |
                                                    |           |       |
                                             slot cache     general     |
                                                    |        save       |
                                  Serve: flush loop <-------------------+
                                                    |           |
                                                  repository (ClickHouse)
```

All services run under one suture supervisor, which calls a service again when
it fails or panics. `Watcher.Serve` closes the repository when the supervisor
returns.

| Part | Source | Modules | Status |
|---|---|---|---|
| slot cache | `processor/slot_cache.go` | `SlotCacheStore` | modelled |
| seen counter | `processor/seen_counter.go` | `SeenCounter` | modelled |
| message processor | `processor/beacon_message_processor.go` | `BeaconMessageProcessor`, `Latency` | modelled |
| subscriptions | `gossip/subscription.go` | `BeaconMessageProcessor`, `Subscriptions` | modelled |
| topics, handlers, extractors | `gossip/handler.go`, `processor/slot_extractor.go`, `eth/network.go` | `TopicDispatch` | modelled |
| gossip service, scoring, pruning | `gossip/gossipsub.go`, `gossip/peer_score.go` | `GossipSubService`, `Prune` | modelled |
| discovery, dialer | `peering/` | `Peering` | modelled |
| request/response | `reqresp/` | `ReqResp` | modelled |
| watcher, command line | `watcher/`, `cmd/` | `Startup` | modelled |
| host | `host/` | `Host`, `Startup` | partly: the peer counts and the constructor's checks |
| repository | `repository/` | `BeaconMessageProcessor`, `Startup` | partly: it opens or not, a save writes all or nothing and may fail |
| tables, hourly rollup | `migrations/` | `Rollup`, `Latency` | partly: which rows and hours are selected, not the aggregates |

## The modules

**`SlotCacheStore`, `SeenCounter`.** The two mutex-protected maps, as functions
on finite domains. Each method is an operator, and one atomic step where it is
used. A record is represented by its message ID, which is a hash of the topic
and the payload and so determines everything but the arrival time. `currentSlot-1`
wraps at zero as in `uint64`.

**`BeaconMessageProcessor`.** The composition: pubsub (external), one
`Subscription` goroutine per topic, the flush loop of `Serve`, the save
goroutines of general messages, the clock, the ticker and shutdown. A step is
what a goroutine does between two operations that others can observe.

| State | Code |
|---|---|
| `seen`, `queue` | pubsub's seen cache, the subscriptions' channels (their order is abstracted) |
| `handling[t]` | the message `Subscription.Serve` of a topic works on |
| `caches`, `counts` | `p.slotCache`, `p.seenCounter` |
| `messageNotify`, `ticker` | the channels of `Serve`'s select |
| `pc`, `final`, `currentSlot`, `slots`, `stats`, `unpopped`, `seenCount` | position and locals of `Serve` and `flushCompletedSlots` |
| `saving` | running goroutines of `processGeneralMessageMetadata` |
| `received`, `delivered`, `discarded`, `rows`, `rowsSeen`, `lost`, `lostSeen`, `guessed`, `late` | history: what became of copies and deliveries |

`ReceiveNew`, `ReceiveDuplicate`, `ReceiveDropped` and `Forget` are pubsub; the
message-ID function that counts every copy is the program's own (`MessageIdFn`).
`ProcessSlotMessage` and `ProcessGeneralMessage` are `Process` with all it calls.
`ServeTick`, `ServeDone`, `ServeNotify` are the cases of the select.
`FlushScan`, `FlushDrain`, `FlushPop`, `SaveWritten`, `SaveFailed`, `FlushEnd`
are the steps of a flush. A save that is reported as failed may or may not have
written its rows: both are covered, since after either the code does the same.

**`SlotLedger`.** What the pipeline promises for slot messages, without its
machinery: a message is new, pending, stored or lost; the pending messages of
one slot are stored or lost as a batch; a stored message has a final `SeenCount`
of at least 1 and at most the copies received.

**`TopicDispatch`.** The life of a topic: `NewGossipSub` builds the topic list
for the fork digest of the moment and then reads the clock again for the fork
version. A topic is recognised by three substring switches, its handler chooses
a type by fork version (or refuses), and `Process` decodes into it and asks the
extractor registry for its kind. A message is `Junk` or a container that the
consensus specification gives to its topic under the fork of the digest
(`GossipTypes`). `DecodeGossip` says which containers decode into which types: a
container into its own, an Electra attester slashing perhaps into the older
type, a signed message never into the message without its signature, whose size
is fixed. Both are external. Epochs pass between any two steps.

**`GossipSubService`.** `GossipSub.Serve` under its supervisor: scoring
parameters topic by topic with the integer quotients, panics and zero
denominators of `peer_score.go`, creation of pubsub, joining of topics, failures
and restarts. That pubsub refuses infinite weights, and that the supervisor
calls a panicking service again, is external.

**`Host`.** The peer counts. A connection is a pair of a peer and a direction,
so two peers that dial each other count once.

**`Peering`.** Discovery and dialer under the supervisor, joined by the
unbuffered channel `discovers`, whose hand-over is one step of both (`Handoff`).
`dpc` and `lpc` are the positions of the two `Serve` functions, `socket` is the
UDP port, `dials` the goroutines that connect. Discovery can fail to bind, fail
to listen (and leave the socket to the garbage collector, `CollectSocket`), and
panic on the closed channel after a restart. Its steps are `DiscoverySteps`, but
for the return of `iterator.Next` (`Iterator`), which waits for the network and
does not know of the context. The dialer reads the outbound count
and the total count in two steps, while connections come and go.

**`Prune`.** One pass of `GossipSub.prune`, step by step: a score is read per
connection (`ReadScore`), the peers are sorted and the excess computed, and
peers are closed from the worst on with a second reading of the score. `inspect`
replaces the snapshot, and peers connect and leave, between any two steps.

**`Subscriptions`.** The services of `subscription.go` with what the pipeline's
model leaves out: panics of a handler, the deferred `Cancel`, restarts by a
supervisor that pauses when failures are frequent, and a pubsub whose context
has ended with a failed `GossipSub.Serve`.

**`Latency`.** Slot start, delay and latency of a record, in wrapping integers
whose widths are constants, and the rollup's filter.

**`Rollup`.** The materialized view over the rows of one node: `Refresh` selects
the hour before last by the rule of the query, up to `Early` before or
`Late` after the hour. `Save` and `SaveFails` are the flush loop.

**`ReqResp`.** A stream from its opening to the end of its handlers. A handler is
the sequence of its stream operations; the first that fails ends it. Each end is
a handler of this program or a remote peer that does anything. `Register` is the
loop of `Serve`. The inbound handlers are the ones the program registers. Nothing
in the repository calls the outbound ones; what is said of them is about the
functions as they are.

**`Startup`.** The process: flags to options, the constructors of `NewWatcher` in
order with their errors, `Serve`, closing the repository, the exit status, and
the signal handler of `main`, which runs beside all of it. The command-line
library may return before it calls `launchWatcher`, without an error (help) or
with one (`cliReturns`, external). Errors of library calls inside a constructor
are one nondeterministic failure of it. The panic of `NewDiscovery` is left out,
because what it encodes has a fixed size.

The `MC` modules give the constants their values. Modules named `...Proofs` hold
the proofs. `GossipProofs` is about `GossipSubService` and `Subscriptions`,
`TimesProofs` about `Latency` and `Rollup`, and the others about the module in
their name; `BeaconMessageProcessorProofs` also holds the refinement of
`SlotLedger`. `Subscriptions` and `Latency` prefix the usual names (`SubInit`,
`LatencySpec`, ...) so that a module can extend two specifications.

The models are joined where the code's parts act on each other: pubsub,
subscriptions, processor and repository in `BeaconMessageProcessor`; discovery,
dialer and host in `Peering`; pruning and host in `Prune`; processor, table and
view in `Rollup`. `Prune` and `Peering` each let connections come and go freely,
so each covers what the other does to them.

Definitions commented as *Mutant* are deliberate faults. No specification uses
them. `PROJECT.json` pairs each with the property that notices it.

## What the runs check

| Run | Instance | Properties | Result |
|---|---|---|---|
| `pipeline` | two slot messages of two topics and slots and a general message, 2 copies of each but one | `TypeOK`, `SeenConserved`, `DeliveriesConserved`, `FlushLeavesOnlyLate`, `OrphansStay`, `ImplementsLedger` | hold |
| `redelivery` | a slot message that pubsub may forget and deliver again, an undecodable one; moving clock, fairness | `SeenConserved`, `DeliveriesConserved`, `CompletedSlotsLeaveCache`, `ServeReturns` | hold |
| `flush_before_complete` | one message | `FlushedOnceComplete` | violated |
| `dispatch` | every fork, every topic | `SwitchesAgree`, `DecodesForkOfTopic`, `EveryMessageClassified` | hold |
| `gossip_service` | 11 estimates, 3 calls of `Serve`, mainnet numbers | `RunsOnlyAboveMinimum`, `RestartNeverRecovers`, `OneSubscriptionPerTopic` | hold |
| `peering` | 2 peers, target 2, 2 failures, fairness | `DroppedForAReason`, `NoDialAfterClose`, `NoDialWhenFull`, `DiscoveryRecovers`, `DialerRestartsForEver`, `PeeringStops` | hold |
| `prune` | 2 peers with up to 2 connections each, target 1, fairness | `KeepsTarget`, `NoBadPeerLeft`, `BadPeersGo` | hold |
| `latency` | 7-bit durations, 4-bit latencies | `LatencyExact`, `RollupHoldsTrueDelays` | hold |
| `rollup` | 3 hours of 2 slots | `EachHourOnce`, `NoRowTooLate`, `OnlyWholeHours` | hold |
| `reqresp` | one stream, every handler, fairness | `SuccessMeansAnswered`, `HandlersFit`, `HandlerReturns` | hold |
| `subscriptions` | 2 topics, channels of 2, 4 panics each, fairness | `PanicIsFinal`, `RestartedForEver`, `AllStop` | hold |
| `startup` | all combinations of flags, 2 signals, fairness | `NeverPanics`, `ServesOnlyComplete`, `ZeroMeansClean`, `SignalEnds` | hold |

What they show:

- *Accounting.* In every interleaving, with failing saves and shutdown at any
  moment, each received copy is counted exactly once (`SeenConserved`) and each
  delivery is in exactly one place (`DeliveriesConserved`). The fallback
  `SeenCount = 1` and the "cannot be processed twice" branch are reached only
  after pubsub's seen cache has expired an ID.
- *Flush.* A flush, including the final one, leaves behind only records added
  after its scan and records of slots beyond its threshold. A failed save does
  not keep the flush from the remaining slots.
- *Memory.* An entry of the seen counter whose record is gone stays for ever
  (`OrphansStay`): copies after the flush, general messages, undecodable ones.
- *Restarts.* Three services do not recover from a failure, though the
  supervisor calls them again. `params` overwrites the estimate it reads, so no
  restart of `GossipSub.Serve` gets past it. A subscription whose handler panicked
  has cancelled itself and only finishes what its channel still holds. Discovery,
  once started, closes `discovers` when it returns; from then on a discovered
  node makes it panic, and the dialer returns at once and is called again, for
  ever. What holds nevertheless: nothing is dialled any more, a failed start of
  discovery is made good, and shutdown ends the subscriptions, the dialer, and
  discovery unless `iterator.Next` never returns. (That sockets are released and
  other topics go on is checked by the further configurations.)
- *Topics.* For every fork the program may be started in, a valid message is
  decoded into the type of its own container and classified by it, with three
  exceptions. Exits and BLS changes arrive signed and are decoded into unsigned
  types, which always fails. Electra attester slashings are decoded into the
  older type. If a fork is activated between the two readings of the clock,
  nothing is claimed of the type.
- *Peers.* A discovered node is dropped only if both counts were at their limits
  when read, and no dial starts if they were all along. Pruning decides by a
  second reading of the scores, but never goes below the target for a peer that
  is not bad, and misses no bad peer unless the snapshot was replaced meanwhile.
  Dials run beside the decision, so several that are under way together can
  exceed the target.
- *Times.* Latencies are exact within 49 days of a representable slot. Those of
  early messages wrap, but not into the rollup. Nothing is claimed of the start
  of a slot whose offset overflows.
- *Rollup.* Refreshes may come early or late: each hour is selected once, after
  its last admissible row, and only if each of its slots has a row. A slot of which
  one batch was lost and another saved does have one.
- *Streams.* A remote end cannot hold a handler beyond its deadlines nor make a
  call succeed without a response that decodes. Two handlers of this program
  never wait for each other.
- *Process.* No order of flags, failures and signals makes a constructor read the
  network too early or serves with a part missing. Exit status 0 means that a
  complete watcher was ended by a signal and has closed its repository, or that
  no watcher was begun. A signal always ends the process.

### Where the code and its documentation disagree

`flush_before_complete` is such a case, and seven further configurations reproduce
the others. TLC stops at each with a counterexample.

| Configuration | Module | What it shows |
|---|---|---|
| `FlushBeforeComplete.cfg` | `MCBeaconMessageProcessor` | `README.md:34`: slots are flushed once they are complete. The threshold (`beacon_message_processor.go:266`) counts slots from the Unix epoch, not from genesis, so the running slot is flushed at every tick. |
| `SeenCountOfSlot.cfg` | `MCBeaconMessageProcessor` | `repository/models.go:33`: `SeenCount` counts the copies received in the slot. A flush during the slot takes the count too early. |
| `ElectraSlashing.cfg` | `MCTopicDispatch` | `handler.go:234` decodes Electra attester slashings into their own type, but the case is shadowed by the one before it. |
| `SupportedTypes.cfg` | `MCTopicDispatch` | `README.md:42` lists `voluntary_exit` and `bls_to_execution_change` as supported. `handler.go:283` and `handler.go:259` decode them into the types without signature, so no valid message of the two topics decodes. |
| `SmallEstimate.cfg` | `MCGossipSubService` | `gossipsub.go:116` asks for an estimate of more than 0. Small positive ones are accepted and make `Serve` panic. |
| `EarlyLatency.cfg` | `MCLatency` | `repository/models.go:31`: `LatencyMS` is the arrival delay from slot start. Before the start it wraps to nearly 2^32. |
| `DbTypeDefault.cfg` | `MCStartup` | `cmd_watcher.go:98` gives `clickhouse` as the default. Without the flag the program refuses to start. |
| `TargetPeersDefault.cfg` | `MCStartup` | `cmd_watcher.go:79` gives 100 as the default. The watcher uses 80. |

### Further configurations

They are kept beside the runs and pass; no mutant is paired with what only they
check. `PruneThree.cfg` checks safety with three peers,
`Ledger.cfg` two messages that share a batch, with `ProcessedOnce` and
`NeverGuessed`. `PeeringMore.cfg` (`NoListenerLeftBehind`, `NodeTaken`),
`SubscriptionsMore.cfg` (`OnlyPanicsCancel`, `QueuesDrain`), `LatencyMore.cfg`
(`FieldsAgree`, `LatencyGrows`), `ReqRespMore.cfg` (`ResponseProper`)
and `StartupMore.cfg` (`ServesOrEnds`) check more properties on the instances of
the runs, type invariants included.

### Bounds

- Pipeline: slots last 2 seconds, so a tick can fall inside a slot and on its
  boundary. In `pipeline` the clock stands still at a genesis 3 slots after the
  Unix epoch: slots 0 and 1 both count as completed and one flush has two
  batches. In `redelivery` genesis is 2 slots after the epoch and the clock moves.
  `MaxUint64` (99) only has to be larger than any slot. With 2 as `MaxCopies` of a
  message the second copy can arrive at every stage of the first, or be delivered
  again after pubsub forgot the ID. `NotifyCap` is 1 instead of 100, so that a
  full channel occurs.
- `dispatch`: a fork every 2 epochs, up to 2 epochs after the last fork.
- `gossip_service`: estimates on both sides of each threshold, and three calls
  of `Serve`: one that gets through `params` and two that follow it.
- `peering`: with 2 peers and a target of 2 the host can be below and at its
  target, and 2 connections with one peer do not reach it. With 2
  failures a bind and a listener can both fail.
- `prune`: scores below the threshold, above it, and missing (0). `MaxLeft` bounds
  the peers that leave during a pass.
- `latency`: the widths are small enough for products, differences and
  conversions to overflow; slot 8 is the first that does.
- `rollup`: refreshes up to 1 before and 2 after an hour of 4, slots that do not
  begin on the hour, enough time for two refreshes after a full hour.
- `reqresp`: a window of 1, less than a response, so that a writer can block;
  the remote end sends up to 3 items.
- `subscriptions`: a channel of 2 and more panics than it can hold.
- `startup`: each flag unset or with a value of each kind the code tells apart,
  and a second signal after the handler has stopped.

The proofs cover all values of the constants of their modules.

Deadlock is not checked where the system may stop: after shutdown, and where the
clock and other bounds are reached. `dispatch` and `latency` check it.

### Fairness

- `redelivery`: weak fairness of the flush steps and of the save goroutines: the
  Go scheduler runs runnable goroutines, and repository calls return because
  their contexts time out after 10 s and 5 s. Weak fairness of the ticker and of
  the ticker case, and strong fairness of `ctx.Done()`: the runtime picks at
  random among the ready cases of a select, so one that is ready again and again
  is taken.
- `peering`: weak fairness of discovery's own steps, of the dialer, of a hand-over
  that both sides are ready for, and of the collection of a leaked socket, whose
  finalizer closes it. `iterator.Next` is not assumed to return: it waits for
  other nodes. The second half of `PeeringStops` has it as a premise.
- `prune`: weak fairness of the goroutine, whose ticker fires once a slot.
- `reqresp`: weak fairness of each handler, deadlines included.
- `subscriptions`: weak fairness of each service and of the end of the
  supervisor's pauses; strong fairness of restarts, which pauses interrupt.
- `startup`: weak fairness of `main` and of its signal goroutine. Calls return:
  the database connection has a timeout, the supervisor one for its services.

Nothing is assumed of the network, remote peers, the clock or signals.

## What is proved

For every value of the constants: any messages, topics, slots, peers, widths,
capacities and bounds.

| Module | Theorem | Statement |
|---|---|---|
| `BeaconMessageProcessorProofs` | `TypeCorrect`, `PipelineInvariant` | `Spec => []TypeOK`, `Spec => []PipelineInv` |
| | `SeenConservation`, `DeliveryConservation` | `Spec => []SeenConserved`, `Spec => []DeliveriesConserved` |
| | `FlushCompleteness` | `Spec => []FlushLeavesOnlyLate` |
| | `ProcessingOnce`, `CountsNeverGuessed` | `Spec => []ProcessedOnce`, `Spec => []NeverGuessed` |
| | `OrphanedCountsStay` | `Spec => OrphansStay` |
| | `RunningSlotIsFlushed` | with genesis at least 2 slots after the Unix epoch, the running slot is always below the flush threshold |
| | `PipelineImplementsLedger` | unless pubsub forgets IDs, `Spec => Ledger!LedgerSpec` |
| `GossipProofs` | `RestartsAreFutile`, `SubscribedOnce`, `MinimumEstimate` | the three invariants of `gossip_service`, with any number of restarts |
| | `CancelledForAReason`, `PanicsBounded` | `SubSpec => []OnlyPanicsCancel`, `SubSpec => []PanicIsFinal` |
| `PeeringProofs` | `PeeringInvariant` | `Spec => []PeeringInv` |
| | `ListenerReleased`, `DropsJustified` | `Spec => []NoListenerLeftBehind`, `Spec => []DroppedForAReason` |
| | `DialLimit`, `PeeringEnds` | `Spec => NoDialWhenFull`, `Spec => NoDialAfterClose` |
| `PruneProofs` | `TargetInvariant`, `TargetKept` | `Spec => [](TypeOK /\ TargetInv)`, `Spec => []KeepsTarget` |
| | `BadPeersClosed` | `Spec => []NoBadPeerLeft` |
| `TimesProofs` | `ExactLatency`, `FieldsConsistent`, `RollupDelays` | `LatencySpec => []LatencyExact`, `[]FieldsAgree`, `[]RollupHoldsTrueDelays` |
| | `LatencyMonotone` | `LatencySpec => LatencyGrows` |
| | `RollupInvariant`, `HoursOnce`, `RowsInTime` | `Spec => []RollupInv`, `[]EachHourOnce`, `[]NoRowTooLate` |
| | `WholeHoursOnly` | `Spec => []OnlyWholeHours` |
| `TopicDispatchProofs` | `DispatchInvariant` | `Spec => []DispatchInv` |
| | `SwitchesAlwaysAgree`, `TypeOfFork`, `AllClassified` | `Spec => []SwitchesAgree`, `[]DecodesForkOfTopic`, `[]EveryMessageClassified` |
| `ReqRespProofs` | `ReqRespInvariant`, `ProperResponses` | `Spec => []ReqRespInv`, `[]ResponseProper` |
| | `SuccessIsAnswered`, `HandlersAlwaysFit` | `Spec => []SuccessMeansAnswered`, `[]HandlersFit` |
| `StartupProofs` | `StartupInvariant`, `NoPanic` | `Spec => []StartupInv`, `[]NeverPanics` |
| | `CompleteServes`, `CleanZero` | `Spec => []ServesOnlyComplete`, `[]ZeroMeansClean` |

*The pipeline.* The conservation laws are not inductive alone. `PipelineInv`
adds the shape of the state: cached records are filed under their slot, no entry
is empty, the flush loop holds a batch only between the drain and the end of the
save, and a record has a positive `SeenCount` exactly when it has been popped.
With it each action moves one unit from one place to another.
`FlushLeavesOnlyLate` needs `FlushProgress`, the same statement in the middle of
a flush. The properties that hold while pubsub remembers IDs rest on
`DeliveryOnce` (at most one delivery) and `OnePlace` (so at most one place).
The refinement maps a message to the state of its history variables. Only
receiving, refusing and saving change it, and a batch is a set of pending
messages of one slot by `PipelineInv`.

*The gossip service.* `Inductive` states that after any failure the estimate
left in the `peerScore` makes the attestation parameters panic. Either they just
did, or a sync committee topic has clamped the estimate to at most
`SyncCommitteeSize`, below one validator per attestation subnet and slot
(`ClampDooms`, by `FewValidatorsPanic`). Until the first sync topic the estimate
is still the configured one, which gives `MinimumEstimate`.

*Peering.* `PeeringInv` adds to the types that the dialer has a node in hand
exactly while it decides and discovery exactly while it sends (`InHand`), and
that the history `since` of count readings includes the present one and one with
enough outbound peers once that count was read (`SinceCurrent`). A drop then has
its two readings in the history, and a dial a reading that was below a limit.

*Pruning.* Between two closings the peers that are left are at least the target,
plus the excess not used up, less those that left by themselves (`TargetInv`);
`CountWithoutOne` says what one closing does to the count. That no bad peer is
missed rests on the order (`OrderInv`): while the snapshot is the one the peers
were sorted by, the rest of the list is no worse than the peer the loop stops at.

*Latency.* `Made` says that a record's fields come from one computation. The
rest is arithmetic: a value within half the range is its own wrap
(`Int64Exact`), so a representable slot has its exact offset (`OffsetExact`) and
the delay is exact (`DelayExact`).

*Rollup.* `Timing` bounds the clock by the refresh that is due, a pending record
by its delay, and the refresh of an hour from below. A row saved after its hour
was selected is then too slow for the filter (`TooSlow`). `OnlyWholeHours` rests
on counting: different slots start at different times (`StartTimesDiffer`), an
hour holds at most `SlotsPerHour` slots (`SlotsOfHour`), so that many different
start times leave no slot of the hour out (`CountMeansWhole`).

*Topics.* A topic is found by the first case of a switch that its name contains.
`FirstCaseIs` says so, and for each switch the lemmas check that no earlier case
is contained in the name. `TypeOfMessage` compares, fork by fork and topic by
topic, the type the handler chooses with the container on the wire; the three
exceptions are where they differ. `KindOfMessage` follows a container through
`Process`, and `RefusedVersions` says which handler refuses which version. That
digest and version are of one fork needs the forks to be activated in their
order: then the fork digest and `GetForkVersion` read the same fork out of the
same epoch. `DispatchInv` carries this from the two readings of the clock to
every later message.

*Streams.* `ReqRespInv` expresses the state of an end by the position of its
handler. `HandlerInv`: what it has written, closed and decoded is what the
operations before the position do. `ResponseInv`: an outbound handler's buffer
holds just the part of the response it has not read yet, in order, so that what
it read was a success code and data. `FitInv`: between two handlers the request
is in the server's buffer until it is read, and nothing has failed. A reader
then waits only for a writer that has not got that far, and a writer only for a
reader that takes what fills the window, so one of the two can go on
(`SomeoneReady`). The invariant is inductive only with two facts that no property
mentions: the server has read a request only if the client has written it, and
`Serve` registers only while topics are left.

*The process.* `Established` lists what each step of `NewWatcher` has made sure
of by the time the next one runs; `EndsBySignal` ties the error of a cancelled
context to a signal, a complete set of services and a closed repository;
`OnTheWay` says that nothing has failed while construction goes on, and that
`main` is reached without an error only if nothing was built.

*Subscriptions.* `PanicSilences`: after a panic nothing is added to the channel
any more, except for the moment before the deferred `Cancel`. `PanicsUseMessages`:
from then on panics and waiting messages together do not grow, so there are at
most one more panics than the channel holds.

Assumptions: `ConstantsAssumption`, `SubscriptionsAssumption`,
`PeeringAssumption`, `LatencyAssumption`, `ReqRespAssumption`, `StartupAssumption`
and `EpochsAssumption` (types of the constants; the markers for no node and the
host's own ID are not peers), `ForkOrderAssumption` (no fork is activated before
an earlier one, several may share an epoch, as in the chain configurations), `MarkersAssumption` (two control values are not
message IDs), `ChainConfigAssumption` (positive configuration values),
`SyncCommitteeAssumption` (512 < 64 * 32 on the supported networks),
`TopicOrderAssumption` (attestation topics come before sync committee topics, as
`NewGossipSub` lists them), `PruneAssumption` (the gossip threshold is not
positive, as in `gossipsub.go:27`), `RollupAssumption` (an hour is a whole number of
slots; a refresh is at most `Margin` early and less than an hour less `Margin`
late; filter, save delay and earliness fit into an hour). TLC evaluates them in
the runs.

All invariants and action properties that the runs check are proved. Only
model-checked are the liveness properties, because fairness is outside the
prover's reach: `CompletedSlotsLeaveCache`, `ServeReturns`, `DiscoveryRecovers`,
`DialerRestartsForEver`, `PeeringStops`, `BadPeersGo`, `HandlerReturns`,
`RestartedForEver`, `AllStop` and `SignalEnds`, and `NodeTaken`, `QueuesDrain` and
`ServesOrEnds` of the further configurations.

## What is not modelled

- SSZ and snappy encodings, the wire protocols of libp2p and discv5, key
  generation: library code, of which the models use success, failure and which
  containers decode into which types.
- The column conversions and inserts of `repository/clickhouse.go`, and the
  aggregate functions, partitions and TTL of the tables: computation inside the
  database. A batch is one insert, so all or none of its rows are written.
- The floating-point weights of `peer_score.go`, beyond whether they are finite:
  they are only passed to pubsub.
- `host.Serve` and `host/notify.go`, which only log; logging, the log level,
  and how the command-line library parses flags (that it may return early is
  modelled).
- The `uint32` width of a count: it takes 2^32 copies of one message.

## Running

```
tlc -workers 2 -config Pipeline.cfg MCBeaconMessageProcessor
tlapm BeaconMessageProcessorProofs.tla
```

`PROJECT.json` lists the runs with their modules and configurations, the source
lines behind each definition, the hazards and the findings.
