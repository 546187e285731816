-------------------------- MODULE GossipSubService --------------------------
(***************************************************************************)
(* GossipSub.Serve under its supervisor (gossip/gossipsub.go,              *)
(* gossip/peer_score.go, watcher/watcher.go).  Serve computes the          *)
(* peer-scoring parameters topic by topic, creates a pubsub instance,      *)
(* joins the topics one by one, adding a Subscription service to the       *)
(* supervisor for each, and then waits.  If it returns an error or panics  *)
(* the supervisor (suture, external) calls it again, on the same GossipSub *)
(* and peerScore values.                                                   *)
(*                                                                         *)
(* The scoring parameters are floats derived from integer quotients.  What *)
(* matters here is kept exactly: the quotients, the panics, and whether a  *)
(* quotient that ends up in a denominator is zero, which makes a weight    *)
(* infinite.  pubsub.NewGossipSub rejects parameters that are not finite.  *)
(***************************************************************************)
EXTENDS Integers, Sequences

CONSTANTS
  Topics,              \* the sequence of topic names, as NewGossipSub lists it
  Estimates,           \* values of PEEKD_ESTIMATE_ACTIVE_VALIDATORS
  SlotsPerEpoch, TargetCommitteeSize, MaxCommitteesPerSlot,
  TargetAggregatorsPerCommittee, AttestationSubnetCount, SyncCommitteeSize,
  SyncCommitteeSubnetCount, TargetAggregatorsPerSyncSubcommittee,
                       \* eth.GetBeaconChainConfig()
  MaxAttempts          \* bound: calls of Serve

gossipSubD == 6
dampeningFactor == 90

ASSUME ChainConfigAssumption ==
  /\ Topics \in Seq(STRING)
  /\ Estimates \subseteq Nat
  /\ {SlotsPerEpoch, TargetCommitteeSize, MaxCommitteesPerSlot,
      TargetAggregatorsPerCommittee, AttestationSubnetCount,
      SyncCommitteeSize, SyncCommitteeSubnetCount,
      TargetAggregatorsPerSyncSubcommittee} \subseteq Nat \ {0}
  /\ MaxAttempts \in Nat

\* The mainnet and Hoodi configurations: the sync committee is smaller than
\* one validator per attestation subnet and slot of an epoch.
ASSUME SyncCommitteeAssumption ==
  SyncCommitteeSize < AttestationSubnetCount * SlotsPerEpoch

\* NewGossipSub lists both kinds of topic, the attestation subnets first.
ASSUME TopicOrderAssumption ==
  \E i \in DOMAIN Topics :
    /\ Topics[i] = "beacon_attestation"
    /\ \A j \in DOMAIN Topics : Topics[j] = "sync_committee" => i < j
    /\ \E j \in DOMAIN Topics : Topics[j] = "sync_committee"

VARIABLES
  ctx,         \* "live" or "cancelled"
  pc,          \* "new", "params", "create", "join", "running", "failed" or
               \* "done"; "rejected" when the constructor refused the estimate
  estimate,    \* ps.estimateActiveValidators
  next,        \* index of the next topic of the loop in params or in Serve
  finite,      \* whether all weights computed by this params call are finite
  attempts,    \* calls of Serve
  subscribed   \* [index of a topic |-> Subscription services added for it]

\* History.
VARIABLES
  configured,  \* the estimate the program was given
  failure      \* why Serve failed last: "none", "panic", "create", "join"

vars == <<ctx, pc, estimate, next, finite, attempts, subscribed, configured,
          failure>>
-----------------------------------------------------------------------------
(***************************************************************************)
(* The quotients of the topic parameters.                                  *)
(***************************************************************************)

\* Committees per slot: the switch replaces everything up to the maximum by 1.
Committees(n) ==
  IF (n \div SlotsPerEpoch) \div TargetCommitteeSize > MaxCommitteesPerSlot
  THEN MaxCommitteesPerSlot ELSE 1

\* defaultAggregateTopicParams: firstMsgCap is the only denominator that an
\* integer quotient can make zero.
AggregateFinite(n) ==
  (Committees(n) * TargetAggregatorsPerCommittee * 2) \div gossipSubD # 0

\* defaultAttestationTopicParams.
ValsPerSlot(n) == (n \div AttestationSubnetCount) \div SlotsPerEpoch

\* Mutant: the checks for zero are left out.
AttestationNeverPanics(n) == FALSE

AttestationPanics(n) ==
  \/ n \div AttestationSubnetCount = 0
  \/ ValsPerSlot(n) = 0
  \/ (ValsPerSlot(n) * 2) \div gossipSubD = 0

\* Mutant: the quotient is computed in floating point, as for aggregates.
AttestationFloat(n) == ValsPerSlot(n) # 0

AttestationFinite(n) == ValsPerSlot(n) \div dampeningFactor # 0

\* defaultSyncContributionTopicParams.
ContributionFinite ==
  (SyncCommitteeSubnetCount * TargetAggregatorsPerSyncSubcommittee * 2)
    \div gossipSubD # 0

\* Mutant: the estimate is clamped in a local variable.
ClampedInLocal(n) == n

\* defaultSyncSubnetTopicParams clamps the estimate in the peerScore itself.
Clamped(n) == IF n > SyncCommitteeSize THEN SyncCommitteeSize ELSE n

\* The clamped value is the one this call goes on with.
SyncWeight(n) ==
  (IF n > SyncCommitteeSize THEN SyncCommitteeSize ELSE n)
    \div SyncCommitteeSubnetCount

SyncPanics(n) ==
  \/ SyncWeight(n) = 0
  \/ (SyncWeight(n) * 2) \div gossipSubD = 0

SyncFinite(n) == SyncWeight(n) \div dampeningFactor # 0

\* The cases of the params switch that can panic or yield infinite weights.
Panics(topic, n) ==
  CASE topic = "beacon_attestation" -> AttestationPanics(n)
    [] topic = "sync_committee" -> SyncPanics(n)
    [] OTHER -> FALSE

Finite(topic, n) ==
  CASE topic = "beacon_aggregate_and_proof" -> AggregateFinite(n)
    [] topic = "beacon_attestation" -> AttestationFinite(n)
    [] topic = "sync_committee_contribution_and_proof" -> ContributionFinite
    [] topic = "sync_committee" -> SyncFinite(n)
    [] OTHER -> TRUE
-----------------------------------------------------------------------------
\* The constructor refuses an estimate of zero.
Init ==
  /\ ctx = "live"
  /\ configured \in Estimates
  /\ estimate = configured
  /\ pc = IF configured = 0 THEN "rejected" ELSE "new"
  /\ next = 1
  /\ finite = TRUE
  /\ attempts = 0
  /\ subscribed = [i \in DOMAIN Topics |-> 0]
  /\ failure = "none"

\* The supervisor calls Serve, for the first time or after a failure.
StartServe ==
  /\ pc \in {"new", "failed"}
  /\ ctx = "live"
  /\ attempts < MaxAttempts
  /\ attempts' = attempts + 1
  /\ pc' = "params"
  /\ next' = 1
  /\ finite' = TRUE
  /\ UNCHANGED <<ctx, estimate, subscribed, configured, failure>>

\* One round of the loop of params: the parameters of one topic.
ScoreTopic ==
  /\ pc = "params"
  /\ next \in DOMAIN Topics
  /\ estimate' = IF Topics[next] = "sync_committee" THEN Clamped(estimate)
                                                    ELSE estimate
  /\ IF Panics(Topics[next], estimate)
     THEN /\ pc' = "failed"
          /\ failure' = "panic"
          /\ UNCHANGED <<next, finite>>
     ELSE /\ next' = next + 1
          /\ finite' = (finite /\ Finite(Topics[next], estimate))
          /\ UNCHANGED <<pc, failure>>
  /\ UNCHANGED <<ctx, attempts, subscribed, configured>>

ParamsDone ==
  /\ pc = "params"
  /\ next \notin DOMAIN Topics
  /\ pc' = "create"
  /\ UNCHANGED <<ctx, estimate, next, finite, attempts, subscribed,
                 configured, failure>>

\* pubsub.NewGossipSub succeeds; it never does with infinite weights.
CreatePubSub ==
  /\ pc = "create"
  /\ finite
  /\ pc' = "join"
  /\ next' = 1
  /\ UNCHANGED <<ctx, estimate, finite, attempts, subscribed, configured,
                 failure>>

CreatePubSubFails ==
  /\ pc = "create"
  /\ pc' = "failed"
  /\ failure' = "create"
  /\ UNCHANGED <<ctx, estimate, next, finite, attempts, subscribed,
                 configured>>

\* Join and Subscribe succeed and the supervisor gets a new Subscription.
JoinTopic ==
  /\ pc = "join"
  /\ next \in DOMAIN Topics
  /\ subscribed' = [subscribed EXCEPT ![next] = @ + 1]
  /\ next' = next + 1
  /\ UNCHANGED <<ctx, pc, estimate, finite, attempts, configured, failure>>

\* Join or Subscribe fails and Serve returns the error.  The subscriptions
\* added so far stay with the supervisor.
JoinTopicFails ==
  /\ pc = "join"
  /\ next \in DOMAIN Topics
  /\ pc' = "failed"
  /\ failure' = "join"
  /\ UNCHANGED <<ctx, estimate, next, finite, attempts, subscribed,
                 configured>>

\* Serve starts the prune loop and waits for the end of its context.
JoinDone ==
  /\ pc = "join"
  /\ next \notin DOMAIN Topics
  /\ pc' = "running"
  /\ UNCHANGED <<ctx, estimate, next, finite, attempts, subscribed,
                 configured, failure>>

Cancel ==
  /\ ctx = "live"
  /\ ctx' = "cancelled"
  /\ UNCHANGED <<pc, estimate, next, finite, attempts, subscribed,
                 configured, failure>>

ServeReturns ==
  /\ pc = "running"
  /\ ctx = "cancelled"
  /\ pc' = "done"
  /\ UNCHANGED <<ctx, estimate, next, finite, attempts, subscribed,
                 configured, failure>>

Next ==
  \/ StartServe
  \/ ScoreTopic
  \/ ParamsDone
  \/ CreatePubSub
  \/ CreatePubSubFails
  \/ JoinTopic
  \/ JoinTopicFails
  \/ JoinDone
  \/ Cancel
  \/ ServeReturns

Spec == Init /\ [][Next]_vars
-----------------------------------------------------------------------------
TypeOK ==
  /\ ctx \in {"live", "cancelled"}
  /\ pc \in {"new", "rejected", "params", "create", "join", "running",
             "failed", "done"}
  /\ estimate \in Nat
  /\ configured \in Estimates
  /\ next \in 1..(Len(Topics) + 1)
  /\ finite \in BOOLEAN
  /\ attempts \in 0..MaxAttempts
  /\ subscribed \in [DOMAIN Topics -> Nat]
  /\ failure \in {"none", "panic", "create", "join"}

\* Gossip gets to run only if the estimate puts at least dampeningFactor
\* validators on every attestation subnet in every slot: a smaller one makes
\* params panic or yields infinite mesh weights, in every call of Serve.
RunsOnlyAboveMinimum ==
  pc \in {"join", "running", "done"} =>
    configured >= AttestationSubnetCount * SlotsPerEpoch * dampeningFactor

\* A call of Serve that fails after params has returned is the last one that
\* gets that far: params has overwritten the estimate with the size of the
\* sync committee, so the next call panics on the first attestation topic.
\* No restart by the supervisor ever reaches pubsub again.
RestartNeverRecovers ==
  attempts > 1 => pc \notin {"create", "join", "running", "done"}

\* However Serve fails and is restarted, no topic ever has two Subscription
\* services, which would process its messages twice (Serve adds them to the
\* supervisor without removing the ones of an earlier call).
OneSubscriptionPerTopic == \A i \in DOMAIN Topics : subscribed[i] <= 1

\* gossip/gossipsub.go:116 "number of estimate active validators must be more
\* than 0 when creating gossipSub": an estimate the constructor accepts does
\* not make the first call of Serve panic.
AcceptedEstimateScores == attempts = 1 => failure # "panic"
=============================================================================
