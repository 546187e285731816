----------------------- MODULE BeaconMessageProcessor -----------------------
(***************************************************************************)
(* The path of a gossip message through peekd: libp2p pubsub receives      *)
(* copies of it and hands the first one to the topic's subscription        *)
(* (gossip/gossipsub.go, gossip/subscription.go), the subscription's       *)
(* goroutine calls BeaconMessageProcessor.Process, which caches a record   *)
(* per slot, and the processor's own goroutine (Serve) periodically drains *)
(* the cached slots into the repository (processor/*.go).                  *)
(*                                                                         *)
(* The goroutines are one Subscription per topic, the flush loop, one save *)
(* goroutine per general message, and the external pubsub, ticker and      *)
(* clock.  A step is what a goroutine does between two operations that     *)
(* other goroutines can observe: a mutex-protected method of the slot      *)
(* cache or of the seen counter, a channel operation, a repository call.   *)
(***************************************************************************)
EXTENDS Integers, FiniteSets, SlotCacheStore, SeenCounter

CONSTANTS
  Messages,       \* message IDs; an ID is a hash of topic and payload
  Topics,         \* gossip topics, one Subscription goroutine each
  TopicOf,        \* [Messages -> Topics]
  KindOf,         \* [Messages -> Kinds]: how Process classifies the payload
  SlotOf,         \* [Messages -> Nat]: the slot extracted from the payload
  SecondsPerSlot, \* beaconConfig.SecondsPerSlot
  GenesisTime,    \* Unix time of the start of slot 0
  MaxUint64,      \* the largest uint64, where currentSlot-1 wraps to
  NotifyCap,      \* capacity of the messageNotify channel (100)
  MayForget,      \* whether pubsub's seen cache may expire an ID (120 s TTL)
  MaxTime,        \* bound: the clock stops here
  MaxCopies       \* bound: copies received per message

\* "slot" and "general" are the extractor's messageKind values; "rejected"
\* payloads fail to decode or have no extractor; "own" messages have
\* ReceivedFrom equal to the host's own ID.
Kinds == {"slot", "general", "rejected", "own"}

\* Values of handling[t] other than a message: the goroutine waits in
\* subscription.Next, or its Serve has returned.
Idle == "idle"
Stopped == "stopped"

ASSUME ConstantsAssumption ==
  /\ TopicOf \in [Messages -> Topics]
  /\ KindOf \in [Messages -> Kinds]
  /\ SlotOf \in [Messages -> Nat]
  /\ SecondsPerSlot \in Nat \ {0}
  /\ GenesisTime \in Nat
  /\ MaxUint64 \in Nat
  /\ NotifyCap \in Nat
  /\ MayForget \in BOOLEAN
  /\ MaxTime \in Nat
  /\ MaxCopies \in [Messages -> Nat]
  /\ GenesisTime <= MaxTime

ASSUME MarkersAssumption == {Idle, Stopped} \cap Messages = {}

VARIABLES
  now,           \* Unix time in seconds
  ctx,           \* "live" or "cancelled": the root context
  repo,          \* "open" or "closed": the repository connection
  seen,          \* IDs in pubsub's seen cache
  queue,         \* [Messages -> Nat]: deliveries waiting in the channel of
                 \* the topic's subscription; the order is abstracted away
  handling,      \* [Topics -> Messages \cup {Idle, Stopped}]
  caches,        \* the SlotCacheStore
  counts,        \* the SeenCounter
  messageNotify, \* number of tokens in the messageNotify channel
  ticker,        \* whether a tick waits in ticker.C (capacity 1)
  saving         \* [Messages -> Nat]: running general-message save goroutines

\* The flush loop: Serve and flushCompletedSlots.
VARIABLES
  pc,            \* "select", "scan", "drain", "pop", "save" or "done"
  final,         \* whether this is the flush of the ctx.Done() case
  currentSlot,   \* the local of flushCompletedSlots
  slots,         \* slots of the range loop not yet drained
  stats,         \* the batch DrainSlot returned
  unpopped,      \* records of the batch whose SeenCount is not yet set
  seenCount      \* [Messages -> Nat]: SeenCount of the batch's records

\* History: what became of the copies and of the deliveries of a message.
VARIABLES
  received,      \* copies received, each counted by the message-ID function
  delivered,     \* copies pubsub regarded as new
  discarded,     \* deliveries that ended without a record to save
  rows,          \* rows written to the repository
  rowsSeen,      \* sum of the SeenCount of those rows
  lost,          \* records whose save failed
  lostSeen,      \* sum of the SeenCount of those records
  guessed,       \* records that got SeenCount = 1 because Pop found nothing
  late           \* IDs added to the slot cache since the last scan

pubsubVars == <<seen, queue, received, delivered>>
flushVars == <<pc, final, currentSlot, slots, stats, unpopped, seenCount>>
outcomeVars == <<rows, rowsSeen, lost, lostSeen, guessed>>
vars == <<now, ctx, repo, pubsubVars, handling, caches, counts,
          messageNotify, ticker, saving, flushVars, discarded, outcomeVars,
          late>>

Zero == [m \in Messages |-> 0]

\* One more for m, and one more for every message of a set.
Inc(f, m) == [f EXCEPT ![m] = @ + 1]
Dec(f, m) == [f EXCEPT ![m] = @ - 1]
IncAll(f, S) == [m \in Messages |-> f[m] + (IF m \in S THEN 1 ELSE 0)]
AddAll(f, S, g) == [m \in Messages |-> f[m] + (IF m \in S THEN g[m] ELSE 0)]

Init ==
  /\ now = GenesisTime
  /\ ctx = "live"
  /\ repo = "open"
  /\ seen = {}
  /\ queue = Zero
  /\ handling = [t \in Topics |-> Idle]
  /\ caches = NewSlotCacheStore
  /\ counts = NewSeenCounter
  /\ messageNotify = 0
  /\ ticker = FALSE
  /\ saving = Zero
  /\ pc = "select"
  /\ final = FALSE
  /\ currentSlot = 0
  /\ slots = {}
  /\ stats = {}
  /\ unpopped = {}
  /\ seenCount = Zero
  /\ received = Zero
  /\ delivered = Zero
  /\ discarded = Zero
  /\ rows = Zero
  /\ rowsSeen = Zero
  /\ lost = Zero
  /\ lostSeen = Zero
  /\ guessed = Zero
  /\ late = {}
-----------------------------------------------------------------------------
(***************************************************************************)
(* The environment: the clock, the ticker, the termination signal.  The    *)
(* ticker's phase relative to slot boundaries is arbitrary, and the model  *)
(* does not tie its period to the clock.                                   *)
(***************************************************************************)
AdvanceTime ==
  /\ now < MaxTime
  /\ now' = now + 1
  /\ UNCHANGED <<ctx, repo, pubsubVars, handling, caches, counts,
                 messageNotify, ticker, saving, flushVars, discarded,
                 outcomeVars, late>>

TickerFires ==
  /\ ~ticker
  /\ pc # "done"
  /\ ticker' = TRUE
  /\ UNCHANGED <<now, ctx, repo, pubsubVars, handling, caches, counts,
                 messageNotify, saving, flushVars, discarded, outcomeVars,
                 late>>

Cancel ==
  /\ ctx = "live"
  /\ ctx' = "cancelled"
  /\ UNCHANGED <<now, repo, pubsubVars, handling, caches, counts,
                 messageNotify, ticker, saving, flushVars, discarded,
                 outcomeVars, late>>

\* Watcher.Serve closes the repository when the supervisor returns: once
\* every service has stopped, or has exceeded the supervisor's stop timeout.
\* A save may take as long as that timeout, so any moment is possible.
CloseRepository ==
  /\ ctx = "cancelled"
  /\ repo = "open"
  /\ repo' = "closed"
  /\ UNCHANGED <<now, ctx, pubsubVars, handling, caches, counts,
                 messageNotify, ticker, saving, flushVars, discarded,
                 outcomeVars, late>>
-----------------------------------------------------------------------------
(***************************************************************************)
(* libp2p pubsub (external).  The message-ID function the program installs *)
(* runs once for every received copy, before pubsub looks for duplicates,  *)
(* and increases the seen counter.                                         *)
(***************************************************************************)
MessageIdFn(m) ==
  /\ received[m] < MaxCopies[m]
  /\ received' = Inc(received, m)
  /\ counts' = IncreaseByRawID(counts, m)

ReceiveDuplicate(m) ==
  /\ MessageIdFn(m)
  /\ m \in seen
  /\ UNCHANGED <<now, ctx, repo, seen, queue, delivered, handling, caches,
                 messageNotify, ticker, saving, flushVars, discarded,
                 outcomeVars, late>>

ReceiveNew(m) ==
  /\ MessageIdFn(m)
  /\ m \notin seen
  /\ seen' = seen \cup {m}
  /\ delivered' = Inc(delivered, m)
  /\ queue' = Inc(queue, m)
  /\ UNCHANGED <<now, ctx, repo, handling, caches, messageNotify, ticker,
                 saving, flushVars, discarded, outcomeVars, late>>

\* The subscription's buffer is full, or the subscription is cancelled:
\* pubsub drops the message.
ReceiveDropped(m) ==
  /\ MessageIdFn(m)
  /\ m \notin seen
  /\ seen' = seen \cup {m}
  /\ delivered' = Inc(delivered, m)
  /\ discarded' = Inc(discarded, m)
  /\ UNCHANGED <<now, ctx, repo, queue, handling, caches, messageNotify,
                 ticker, saving, flushVars, outcomeVars, late>>

\* The time-to-live of an ID in pubsub's seen cache has passed.
Forget(m) ==
  /\ MayForget
  /\ m \in seen
  /\ seen' = seen \ {m}
  /\ UNCHANGED <<now, ctx, repo, queue, received, delivered, handling,
                 caches, counts, messageNotify, ticker, saving, flushVars,
                 discarded, outcomeVars, late>>
-----------------------------------------------------------------------------
(***************************************************************************)
(* Subscription.Serve.  A goroutine that is Idle has passed the ctx check  *)
(* at the head of its loop and waits in Next, where a message and the      *)
(* cancellation race.  When it comes back from handling a message it       *)
(* checks ctx before it waits again.                                       *)
(***************************************************************************)
LoopHead == IF ctx = "cancelled" THEN Stopped ELSE Idle

NextMessage(m) ==
  /\ handling[TopicOf[m]] = Idle
  /\ queue[m] > 0
  /\ queue' = Dec(queue, m)
  /\ handling' = [handling EXCEPT ![TopicOf[m]] = m]
  /\ UNCHANGED <<now, ctx, repo, seen, received, delivered, caches, counts,
                 messageNotify, ticker, saving, flushVars, discarded,
                 outcomeVars, late>>

StopSubscription(t) ==
  /\ handling[t] = Idle
  /\ ctx = "cancelled"
  /\ handling' = [handling EXCEPT ![t] = Stopped]
  /\ UNCHANGED <<now, ctx, repo, pubsubVars, caches, counts, messageNotify,
                 ticker, saving, flushVars, discarded, outcomeVars, late>>

\* A message of the host itself is skipped; a payload that does not decode,
\* or that has no extractor, is an error Serve only logs.
SkipMessage(m) ==
  /\ handling[TopicOf[m]] = m
  /\ KindOf[m] \in {"rejected", "own"}
  /\ handling' = [handling EXCEPT ![TopicOf[m]] = LoopHead]
  /\ discarded' = Inc(discarded, m)
  /\ UNCHANGED <<now, ctx, repo, pubsubVars, caches, counts, messageNotify,
                 ticker, saving, flushVars, outcomeVars, late>>

\* Mutant: the send ignores the capacity of the channel.
NotifyUnbounded == messageNotify' = messageNotify + 1

\* The send on messageNotify takes the default case when the channel is full.
Notify == messageNotify' = IF messageNotify < NotifyCap
                           THEN messageNotify + 1 ELSE messageNotify

\* Process of a slot message, up to processSlotMessageMetadata: the record
\* goes to the slot cache and the flush loop is notified without blocking.
\* A record Add refuses is dropped with a log line.
ProcessSlotMessage(m) ==
  /\ handling[TopicOf[m]] = m
  /\ KindOf[m] = "slot"
  /\ caches' = Add(caches, SlotOf[m], m)
  /\ discarded' = IF AddIsNew(caches, SlotOf[m], m)
                  THEN discarded ELSE Inc(discarded, m)
  /\ late' = IF AddIsNew(caches, SlotOf[m], m) THEN late \cup {m} ELSE late
  /\ Notify
  /\ handling' = [handling EXCEPT ![TopicOf[m]] = LoopHead]
  /\ UNCHANGED <<now, ctx, repo, pubsubVars, counts, ticker, saving,
                 flushVars, outcomeVars>>

\* Mutant: the goroutine is not started.
ProcessGeneralMessageForgets(m) ==
  /\ handling[TopicOf[m]] = m
  /\ KindOf[m] = "general"
  /\ handling' = [handling EXCEPT ![TopicOf[m]] = LoopHead]
  /\ UNCHANGED <<now, ctx, repo, pubsubVars, caches, counts, messageNotify,
                 ticker, saving, flushVars, discarded, outcomeVars, late>>

\* Process of a general message starts a goroutine that saves its record.
ProcessGeneralMessage(m) ==
  /\ handling[TopicOf[m]] = m
  /\ KindOf[m] = "general"
  /\ saving' = Inc(saving, m)
  /\ handling' = [handling EXCEPT ![TopicOf[m]] = LoopHead]
  /\ UNCHANGED <<now, ctx, repo, pubsubVars, caches, counts, messageNotify,
                 ticker, flushVars, discarded, outcomeVars, late>>

\* The goroutine's save returns: the row is written, or it is not (the
\* repository failed, timed out or is closed).  The error is only logged.
SaveGeneralMessageHistory(m) ==
  /\ saving[m] > 0
  /\ saving' = Dec(saving, m)
  /\ \/ /\ repo = "open"
        /\ rows' = Inc(rows, m)
        /\ UNCHANGED lost
     \/ /\ lost' = Inc(lost, m)
        /\ UNCHANGED rows
  /\ UNCHANGED <<now, ctx, repo, pubsubVars, handling, caches, counts,
                 messageNotify, ticker, flushVars, discarded, rowsSeen,
                 lostSeen, guessed, late>>
-----------------------------------------------------------------------------
(***************************************************************************)
(* The flush loop.  Serve selects among ctx.Done(), the ticker and the     *)
(* notification channel; Go picks any ready case.                          *)
(***************************************************************************)

\* flushCompletedSlots begins by reading the clock.  The slot number is
\* counted from the Unix epoch: the genesis time is not subtracted.
CurrentSlot == now \div SecondsPerSlot

StartFlush ==
  /\ pc = "select"
  /\ pc' = "scan"
  /\ currentSlot' = CurrentSlot
  /\ UNCHANGED <<slots, stats, unpopped, seenCount>>

ServeTick ==
  /\ ticker
  /\ ticker' = FALSE
  /\ StartFlush
  /\ UNCHANGED <<now, ctx, repo, pubsubVars, handling, caches, counts,
                 messageNotify, saving, final, discarded, outcomeVars, late>>

ServeDone ==
  /\ ctx = "cancelled"
  /\ final' = TRUE
  /\ StartFlush
  /\ UNCHANGED <<now, ctx, repo, pubsubVars, handling, caches, counts,
                 messageNotify, ticker, saving, discarded, outcomeVars, late>>

ServeNotify ==
  /\ pc = "select"
  /\ messageNotify > 0
  /\ messageNotify' = messageNotify - 1
  /\ UNCHANGED <<now, ctx, repo, pubsubVars, handling, caches, counts,
                 ticker, saving, flushVars, discarded, outcomeVars, late>>

FlushScan ==
  /\ pc = "scan"
  /\ pc' = "drain"
  /\ slots' = CompletedSlots(caches, currentSlot, MaxUint64)
  /\ late' = {}
  /\ UNCHANGED <<now, ctx, repo, pubsubVars, handling, caches, counts,
                 messageNotify, ticker, saving, final, currentSlot, stats,
                 unpopped, seenCount, discarded, outcomeVars>>

\* The loop body for one slot.  The slots come in the order of a Go map
\* iteration, which is any order.
FlushDrain(s) ==
  /\ pc = "drain"
  /\ s \in slots
  /\ slots' = slots \ {s}
  /\ stats' = MessageStats(caches, s)
  /\ unpopped' = stats'
  /\ caches' = DrainSlot(caches, s)
  /\ pc' = IF stats' = {} THEN "drain" ELSE "pop"
  /\ UNCHANGED <<now, ctx, repo, pubsubVars, handling, counts,
                 messageNotify, ticker, saving, final, currentSlot,
                 seenCount, discarded, outcomeVars, late>>

\* One record of the batch gets its SeenCount; 1 when Pop finds no count.
FlushPop(m) ==
  /\ pc = "pop"
  /\ m \in unpopped
  /\ seenCount' = [seenCount EXCEPT ![m] = IF PopFound(counts, m)
                                           THEN SeenCount(counts, m) ELSE 1]
  /\ guessed' = IF PopFound(counts, m) THEN guessed ELSE Inc(guessed, m)
  /\ counts' = Pop(counts, m)
  /\ unpopped' = unpopped \ {m}
  /\ pc' = IF unpopped' = {} THEN "save" ELSE "pop"
  /\ UNCHANGED <<now, ctx, repo, pubsubVars, handling, caches,
                 messageNotify, ticker, saving, final, currentSlot, slots,
                 stats, discarded, rows, rowsSeen, lost, lostSeen, late>>

\* saveToRepository returns.  The batch is written as a whole, even if the
\* call then reports an error, or not at all.  Either way the loop goes on
\* to the next slot: an error is only logged and the batch is dropped.
SaveReturns ==
  /\ pc = "save"
  /\ pc' = "drain"
  /\ stats' = {}
  /\ seenCount' = Zero
  /\ UNCHANGED <<now, ctx, repo, pubsubVars, handling, caches, counts,
                 messageNotify, ticker, saving, final, currentSlot, slots,
                 unpopped, discarded, guessed, late>>

SaveWritten ==
  /\ SaveReturns
  /\ repo = "open"
  /\ rows' = IncAll(rows, stats)
  /\ rowsSeen' = AddAll(rowsSeen, stats, seenCount)
  /\ UNCHANGED <<lost, lostSeen>>

\* Mutant: a failed save ends the whole flush, as `return err` would.
SaveFailedReturns ==
  /\ pc = "save"
  /\ pc' = IF final THEN "done" ELSE "select"
  /\ slots' = {}
  /\ stats' = {}
  /\ seenCount' = Zero
  /\ lost' = IncAll(lost, stats)
  /\ lostSeen' = AddAll(lostSeen, stats, seenCount)
  /\ UNCHANGED <<now, ctx, repo, pubsubVars, handling, caches, counts,
                 messageNotify, ticker, saving, final, currentSlot, unpopped,
                 discarded, guessed, rows, rowsSeen, late>>

\* Mutant: a save that reports an error after the rows were written is
\* tried again.
SaveFailedRetries ==
  /\ pc = "save"
  /\ repo = "open"
  /\ rows' = IncAll(rows, stats)
  /\ rowsSeen' = AddAll(rowsSeen, stats, seenCount)
  /\ UNCHANGED <<now, ctx, repo, pubsubVars, handling, caches, counts,
                 messageNotify, ticker, saving, flushVars, discarded, guessed,
                 lost, lostSeen, late>>

SaveFailed ==
  /\ SaveReturns
  /\ lost' = IncAll(lost, stats)
  /\ lostSeen' = AddAll(lostSeen, stats, seenCount)
  /\ UNCHANGED <<rows, rowsSeen>>

\* Mutant: Serve does not return after the final flush.
FlushEndStays ==
  /\ pc = "drain"
  /\ slots = {}
  /\ pc' = "select"
  /\ UNCHANGED <<now, ctx, repo, pubsubVars, handling, caches, counts,
                 messageNotify, ticker, saving, final, currentSlot, slots,
                 stats, unpopped, seenCount, discarded, outcomeVars, late>>

\* The range loop ends; after the final flush Serve returns.
FlushEnd ==
  /\ pc = "drain"
  /\ slots = {}
  /\ pc' = IF final THEN "done" ELSE "select"
  /\ UNCHANGED <<now, ctx, repo, pubsubVars, handling, caches, counts,
                 messageNotify, ticker, saving, final, currentSlot, slots,
                 stats, unpopped, seenCount, discarded, outcomeVars, late>>
-----------------------------------------------------------------------------
Flush ==
  \/ FlushScan
  \/ \E s \in slots : FlushDrain(s)
  \/ \E m \in unpopped : FlushPop(m)
  \/ SaveWritten
  \/ SaveFailed
  \/ FlushEnd

Next ==
  \/ AdvanceTime
  \/ TickerFires
  \/ Cancel
  \/ CloseRepository
  \/ \E m \in Messages :
       \/ ReceiveNew(m)
       \/ ReceiveDuplicate(m)
       \/ ReceiveDropped(m)
       \/ Forget(m)
       \/ NextMessage(m)
       \/ SkipMessage(m)
       \/ ProcessSlotMessage(m)
       \/ ProcessGeneralMessage(m)
       \/ SaveGeneralMessageHistory(m)
  \/ \E t \in Topics : StopSubscription(t)
  \/ ServeTick
  \/ ServeDone
  \/ ServeNotify
  \/ Flush

Spec == Init /\ [][Next]_vars
-----------------------------------------------------------------------------
(***************************************************************************)
(* Fairness.  The Go scheduler runs every runnable goroutine; select picks *)
(* uniformly among its ready cases, so a case that is ready again and      *)
(* again is taken (strong fairness of ctx.Done()); the ticker keeps        *)
(* ticking; a repository call returns because its context has a timeout of *)
(* 10 s or 5 s.  Nothing is assumed about the network, the clock or the    *)
(* termination signal.                                                     *)
(***************************************************************************)
Fairness ==
  /\ WF_vars(TickerFires)
  /\ WF_vars(ServeTick)
  /\ SF_vars(ServeDone)
  /\ WF_vars(Flush)
  /\ \A m \in Messages : WF_vars(SaveGeneralMessageHistory(m))

FairSpec == Spec /\ Fairness
-----------------------------------------------------------------------------
(***************************************************************************)
(* Where a delivered message is.                                           *)
(***************************************************************************)
Handled(m) == handling[TopicOf[m]] = m
Cached(m) == m \in MessageStats(caches, SlotOf[m])
Drained(m) == m \in stats
One(P) == IF P THEN 1 ELSE 0

\* A slot message is on its way to the repository, its count not yet taken.
AwaitsPop(m) ==
  /\ KindOf[m] = "slot"
  /\ queue[m] > 0 \/ Handled(m) \/ Cached(m) \/ m \in unpopped

TypeOK ==
  /\ now \in GenesisTime..MaxTime
  /\ ctx \in {"live", "cancelled"}
  /\ repo \in {"open", "closed"}
  /\ seen \subseteq Messages
  /\ queue \in [Messages -> Nat]
  /\ handling \in [Topics -> Messages \cup {Idle, Stopped}]
  /\ DOMAIN caches \subseteq Nat
  /\ caches \in [DOMAIN caches -> SUBSET Messages]
  /\ DOMAIN counts \subseteq Messages
  /\ counts \in [DOMAIN counts -> Nat \ {0}]
  /\ messageNotify \in 0..NotifyCap
  /\ ticker \in BOOLEAN
  /\ saving \in [Messages -> Nat]
  /\ pc \in {"select", "scan", "drain", "pop", "save", "done"}
  /\ final \in BOOLEAN
  /\ currentSlot \in Nat
  /\ slots \subseteq Nat
  /\ stats \subseteq Messages
  /\ unpopped \subseteq Messages
  /\ seenCount \in [Messages -> Nat]
  /\ received \in [Messages -> Nat]
  /\ delivered \in [Messages -> Nat]
  /\ discarded \in [Messages -> Nat]
  /\ rows \in [Messages -> Nat]
  /\ rowsSeen \in [Messages -> Nat]
  /\ lost \in [Messages -> Nat]
  /\ lostSeen \in [Messages -> Nat]
  /\ guessed \in [Messages -> Nat]
  /\ late \subseteq Messages

\* The shape of the pipeline between the goroutines.  A subscription handles
\* messages of its own topic; a cached record is a slot message filed under
\* its slot, and no slot has an empty entry, so DrainSlot never returns an
\* empty batch; the flush loop holds a batch only between DrainSlot and the
\* return of the save; the batch is of one slot; and a record has a positive
\* SeenCount exactly when it has been popped (SlotCacheStore.Add, DrainSlot,
\* flushCompletedSlots).
PipelineInv ==
  /\ \A t \in Topics : handling[t] \in Messages => TopicOf[handling[t]] = t
  /\ \A s \in DOMAIN caches :
       /\ caches[s] # {}
       /\ \A m \in caches[s] : SlotOf[m] = s /\ KindOf[m] = "slot"
  /\ slots \subseteq DOMAIN caches
  /\ unpopped \subseteq stats
  /\ pc = "pop" <=> unpopped # {}
  /\ pc \in {"pop", "save"} <=> stats # {}
  /\ \A m, n \in stats : SlotOf[m] = SlotOf[n]
  /\ \A m \in stats : KindOf[m] = "slot"
  /\ \A m \in Messages : seenCount[m] > 0 <=> m \in stats \ unpopped

\* No copy is counted twice and none disappears, however the message-ID
\* callback interleaves with the flush loop: every received copy is in the
\* seen counter, in the batch being saved, in a written row or in a batch
\* whose save failed.  The one excess is the SeenCount = 1 the flush loop
\* makes up when Pop finds no entry (flushCompletedSlots, lines 275-280).
SeenConserved ==
  \A m \in Messages :
    SeenCount(counts, m) + seenCount[m] + rowsSeen[m] + lostSeen[m]
      = received[m] + guessed[m]

\* The deliveries of a message, by the place they have reached.
Places(m) == queue[m] + One(Handled(m)) + One(Cached(m)) + One(Drained(m))
             + saving[m] + rows[m] + lost[m] + discarded[m]

\* No delivered message is duplicated or vanishes between the subscription,
\* the slot cache, the flush loop and the repository: a delivery is in
\* exactly one of the places above (Add and DrainSlot of the slot cache,
\* Process and flushCompletedSlots of the processor).
DeliveriesConserved == \A m \in Messages : delivered[m] = Places(m)

\* As long as pubsub remembers its message IDs, the fallback SeenCount = 1
\* of flushCompletedSlots (line 279) is never taken: a record that awaits
\* its Pop always has an entry in the seen counter.
NeverGuessed ==
  ~MayForget => \A m \in Messages :
                  /\ guessed[m] = 0
                  /\ AwaitsPop(m) => PopFound(counts, m)

\* As long as pubsub remembers its message IDs, Add never refuses a record
\* (the "cannot be processed twice" log of processSlotMessageMetadata is
\* unreachable), and no message has two rows.
ProcessedOnce ==
  ~MayForget => \A m \in Messages :
                  /\ Handled(m) => AddIsNew(caches, SlotOf[m], m)
                  /\ rows[m] + lost[m] <= 1

\* A flush is complete: when the flush loop is back in its select, or has
\* returned after the final flush, a record still cached was added after
\* that flush scanned the cache, or is of a slot at or beyond the one before
\* the flush's currentSlot.  At shutdown these records are what is lost.
FlushLeavesOnlyLate ==
  pc \in {"select", "done"} =>
    \A m \in Messages :
      Cached(m) => \/ m \in late
                   \/ SlotOf[m] >= PreviousSlot(currentSlot, MaxUint64)

\* The same during a flush: what is neither late nor too young is of a slot
\* that the loop is still going to drain.
FlushProgress ==
  /\ pc \in {"drain", "pop", "save"} =>
       \A m \in Messages :
         Cached(m) => \/ m \in late
                      \/ SlotOf[m] \in slots
                      \/ SlotOf[m] >= PreviousSlot(currentSlot, MaxUint64)
  /\ FlushLeavesOnlyLate

\* Copies of a message whose record is gone.
Orphan(m) ==
  /\ m \in seen
  /\ ~AwaitsPop(m)
  /\ PopFound(counts, m)

\* An orphaned entry of the seen counter stays there: copies of a message
\* that arrive after its record was popped, and copies of general and
\* rejected messages, are never taken out of the map again, and the map has
\* no other eviction (SeenCounter).
OrphansStay ==
  [][~MayForget => \A m \in Messages : Orphan(m) => Orphan(m)']_vars

\* A record cached for a slot that the flush loop regards as completed
\* leaves the cache, unless the program is stopped: no notification, slow
\* save or failed save can starve the ticker case of Serve.
CompletedSlotsLeaveCache ==
  \A m \in Messages :
    Cached(m) /\ SlotOf[m] < PreviousSlot(CurrentSlot, MaxUint64)
      ~> ~Cached(m) \/ ctx = "cancelled"

\* Serve returns after cancellation: the ctx.Done() case is taken even while
\* ticks and notifications keep coming, and the final flush terminates even
\* if every save fails.
ServeReturns == ctx = "cancelled" ~> pc = "done"
-----------------------------------------------------------------------------
(***************************************************************************)
(* The pipeline implements the ledger of slot messages.                    *)
(***************************************************************************)
SlotMessages == {m \in Messages : KindOf[m] = "slot"}

StatusOf(m) ==
  IF rows[m] > 0 THEN "stored"
  ELSE IF lost[m] + discarded[m] > 0 THEN "lost"
  ELSE IF delivered[m] > 0 THEN "pending" ELSE "new"

Ledger == INSTANCE SlotLedger WITH
  Ids <- SlotMessages,
  SlotOf <- [m \in SlotMessages |-> SlotOf[m]],
  copies <- [m \in SlotMessages |-> received[m]],
  status <- [m \in SlotMessages |-> StatusOf(m)],
  tally <- [m \in SlotMessages |-> rowsSeen[m]]

\* As long as pubsub remembers its message IDs, Process, Serve and
\* flushCompletedSlots together implement the ledger: a slot message is
\* stored at most once, in a batch of its own slot, with a SeenCount that is
\* at least 1, at most the number of copies received, and never revised.
ImplementsLedger == Ledger!LedgerSpec
-----------------------------------------------------------------------------
(***************************************************************************)
(* What the documentation says.                                            *)
(***************************************************************************)

\* The slot that contains the present moment, counted from genesis.
ChainSlot == (now - GenesisTime) \div SecondsPerSlot

\* README.md:34 "Messages are cached per slot and flushed to ClickHouse once
\* the slot is complete": a batch that has been drained to be saved is of a
\* slot that is over (flushCompletedSlots).
FlushedOnceComplete == \A m \in stats : SlotOf[m] < ChainSlot

\* repository/models.go:33 "How many times the message was received in this
\* slot": while the slot of a stored message still runs, its SeenCount is
\* the number of copies received so far.
SeenCountIsOfSlot ==
  \A m \in SlotMessages :
    rows[m] > 0 /\ SlotOf[m] = ChainSlot => rowsSeen[m] = received[m]
=============================================================================
