------------------------------ MODULE GossipProofs --------------------------
(***************************************************************************)
(* Proofs about the services of package gossip.                            *)
(*                                                                         *)
(* First, what restarting GossipSub.Serve can achieve, for every setting of*)
(* the chain, every list of topics in which an attestation topic comes     *)
(* first, and any number of restarts.                                      *)
(*                                                                         *)
(* The argument: once a call of Serve has failed, the estimate left in the *)
(* peerScore is one on which the attestation parameters panic.  Either     *)
(* they just did, or the call got as far as a sync committee topic, which  *)
(* overwrote the estimate with at most SyncCommitteeSize.  Inductive       *)
(* states this, and what the first call has established on its way.        *)
(***************************************************************************)
EXTENDS GossipSubService, Subscriptions, TLAPS

PastParams == {"create", "join", "running", "done"}

\* A position of an attestation topic that comes before every sync topic.
Leading(i) ==
  /\ i \in DOMAIN Topics
  /\ Topics[i] = "beacon_attestation"
  /\ \A j \in DOMAIN Topics : Topics[j] = "sync_committee" => i < j

\* What a failed call leaves behind, and what the later calls meet.
Doomed ==
  /\ pc = "failed" \/ pc \in PastParams => AttestationPanics(estimate)
  /\ attempts > 1 => AttestationPanics(estimate)
  /\ attempts > 1 => pc \in {"params", "failed"}
  /\ attempts > 1 /\ pc = "params" =>
       \A i \in DOMAIN Topics : Leading(i) => next <= i
  /\ pc = "params" =>
       \A j \in DOMAIN Topics :
         Topics[j] = "sync_committee" /\ j < next
           => AttestationPanics(estimate)

\* What the first call knows of the configured estimate.
Measured ==
  /\ pc = "new" => estimate = configured
  /\ attempts = 1 /\ pc = "params" =>
       \/ estimate = configured
       \/ \E j \in DOMAIN Topics : Topics[j] = "sync_committee" /\ j < next
  /\ attempts = 1 /\ pc = "params" /\ finite =>
       \A i \in DOMAIN Topics :
         Leading(i) /\ i < next => AttestationFinite(configured)
  /\ pc = "create" /\ finite => AttestationFinite(configured)
  /\ pc \in {"join", "running", "done"} => AttestationFinite(configured)

\* Which topics have a Subscription service.
Joined ==
  /\ pc \in {"new", "rejected"} <=> attempts = 0
  /\ attempts <= 1 /\ pc \in {"new", "params", "create"} =>
       \A i \in DOMAIN Topics : subscribed[i] = 0
  /\ pc = "join" =>
       \A i \in DOMAIN Topics : subscribed[i] = IF i < next THEN 1 ELSE 0
  /\ \A i \in DOMAIN Topics : subscribed[i] <= 1

Inductive == TypeOK /\ Doomed /\ Measured /\ Joined
-----------------------------------------------------------------------------
\* Division: the quotient the code computes is the integer part.
LEMMA Quotient ==
  ASSUME NEW a \in Nat, NEW d \in Nat \ {0}
  PROVE  /\ a \div d \in Nat
         /\ (a \div d) * d <= a
         /\ a < (a \div d) * d + d
OBVIOUS

\* Fewer validators than attestation subnets times slots leave none for one
\* subnet and slot, and the attestation parameters panic.
LEMMA FewValidatorsPanic ==
  ASSUME NEW n \in Nat, n < AttestationSubnetCount * SlotsPerEpoch
  PROVE  AttestationPanics(n)
<1> DEFINE A == AttestationSubnetCount
           S == SlotsPerEpoch
           q == n \div A
           v == q \div S
<1>1. A \in Nat \ {0} /\ S \in Nat \ {0}
  BY ChainConfigAssumption
<1>2. q \in Nat /\ q * A <= n
  BY <1>1, Quotient
<1>3. v \in Nat /\ v * S <= q
  BY <1>1, <1>2, Quotient
<1>4. q < S
  <2> SUFFICES ASSUME q >= S PROVE FALSE
    BY <1>1, <1>2
  <2>1. q * A >= S * A
    BY <1>1, <1>2
  <2> QED
    BY <1>1, <1>2, <2>1
<1>5. v = 0
  <2> SUFFICES ASSUME v >= 1 PROVE FALSE
    BY <1>3
  <2>1. v * S >= S
    BY <1>1, <1>3
  <2> QED
    BY <1>1, <1>2, <1>3, <1>4, <2>1
<1> QED
  BY <1>5 DEF AttestationPanics, ValsPerSlot

\* Finite attestation weights take dampeningFactor validators per subnet and
\* slot.
LEMMA FiniteNeedsMinimum ==
  ASSUME NEW n \in Nat, AttestationFinite(n)
  PROVE  n >= AttestationSubnetCount * SlotsPerEpoch * dampeningFactor
<1> DEFINE A == AttestationSubnetCount
           S == SlotsPerEpoch
           q == n \div A
           v == q \div S
<1>1. A \in Nat \ {0} /\ S \in Nat \ {0}
  BY ChainConfigAssumption
<1>2. q \in Nat /\ q * A <= n
  BY <1>1, Quotient
<1>3. v \in Nat /\ v * S <= q
  BY <1>1, <1>2, Quotient
<1>4. v >= 90
  BY <1>3 DEF AttestationFinite, ValsPerSlot, dampeningFactor
<1>5. q >= 90 * S
  BY <1>1, <1>2, <1>3, <1>4
<1>6. q * A >= (90 * S) * A
  BY <1>1, <1>2, <1>5
<1>7. (90 * S) * A = A * S * 90
  BY <1>1
<1> QED
  BY <1>1, <1>2, <1>6, <1>7 DEF dampeningFactor

\* The clamp leaves an estimate on which the attestation parameters panic,
\* whether it changes the estimate or not: an unchanged one is small already.
LEMMA ClampDooms ==
  ASSUME NEW n \in Nat
  PROVE  Clamped(n) \in Nat /\ AttestationPanics(Clamped(n))
<1>1. Clamped(n) \in Nat /\ Clamped(n) <= SyncCommitteeSize
  BY ChainConfigAssumption DEF Clamped
<1>2. Clamped(n) < AttestationSubnetCount * SlotsPerEpoch
  BY <1>1, SyncCommitteeAssumption, ChainConfigAssumption
<1> QED
  BY <1>1, <1>2, FewValidatorsPanic
-----------------------------------------------------------------------------
\* The constructor establishes the invariant.
LEMMA InitInductive == Init => Inductive
<1> SUFFICES ASSUME Init PROVE Inductive
  OBVIOUS
<1>1. TypeOK
  BY ChainConfigAssumption DEF Init, TypeOK
<1>2. Doomed /\ Measured /\ Joined
  BY DEF Init, Doomed, Measured, Joined, PastParams
<1> QED
  BY <1>1, <1>2 DEF Inductive

\* Every round of the params loop preserves the invariant, including the one
\* that overwrites the estimate.
LEMMA ScoreTopicInductive ==
  ASSUME Inductive, ScoreTopic
  PROVE  Inductive'
<1> DEFINE t == Topics[next]
<1>1. /\ estimate \in Nat /\ next \in DOMAIN Topics /\ next \in Nat
      /\ DOMAIN Topics = 1..Len(Topics) /\ Len(Topics) \in Nat
      /\ attempts \in Nat
  BY ChainConfigAssumption DEF Inductive, TypeOK, ScoreTopic
<1>2. estimate' = IF t = "sync_committee" THEN Clamped(estimate) ELSE estimate
  BY DEF ScoreTopic
<1>3. t = "sync_committee" => AttestationPanics(estimate')
  BY <1>1, <1>2, ClampDooms
<1>4. estimate' \in Nat
  BY <1>1, <1>2, ClampDooms
<1>5. AttestationPanics(estimate) => AttestationPanics(estimate')
  BY <1>2, <1>3
<1>6. CASE Panics(t, estimate)
  <2>1. /\ pc = "params" /\ pc' = "failed" /\ failure' = "panic"
        /\ UNCHANGED <<next, finite, ctx, attempts, subscribed, configured>>
    BY <1>6 DEF ScoreTopic
  <2>2. AttestationPanics(estimate')
    BY <1>2, <1>3, <1>6 DEF Panics
  <2>3. TypeOK'
    BY <1>4, <2>1 DEF Inductive, TypeOK
  <2>4. Doomed'
    BY <2>1, <2>2 DEF Doomed, PastParams, Inductive
  <2>5. Measured' /\ Joined'
    BY <2>1 DEF Measured, Joined, Inductive
  <2> QED
    BY <2>3, <2>4, <2>5 DEF Inductive
<1>7. CASE ~Panics(t, estimate)
  <2>1. /\ pc = "params" /\ pc' = "params" /\ next' = next + 1
        /\ finite' = (finite /\ Finite(t, estimate))
        /\ UNCHANGED <<failure, ctx, attempts, subscribed, configured>>
    BY <1>7 DEF ScoreTopic
  <2>2. TypeOK'
    <3>1. next' \in 1..(Len(Topics) + 1)
      BY <1>1, <2>1
    <3> QED
      BY <1>4, <2>1, <3>1 DEF Inductive, TypeOK
  <2>3. t = "beacon_attestation" => ~AttestationPanics(estimate)
    BY <1>7 DEF Panics
  <2>4. Doomed'
    <3>1. attempts > 1 => \A i \in DOMAIN Topics : Leading(i) => next + 1 <= i
      BY <1>1, <2>1, <2>3 DEF Doomed, Inductive, Leading
    <3>2. \A j \in DOMAIN Topics :
            Topics[j] = "sync_committee" /\ j < next + 1
              => AttestationPanics(estimate')
      <4> TAKE j \in DOMAIN Topics
      <4> HAVE Topics[j] = "sync_committee" /\ j < next + 1
      <4>1. j = next \/ j < next
        BY <1>1
      <4> QED
        BY <1>3, <1>5, <2>1, <4>1 DEF Doomed, Inductive
    <3> QED
      BY <1>5, <2>1, <3>1, <3>2 DEF Doomed, PastParams, Inductive, Leading
  <2>5. Measured'
    <3>1. attempts = 1 =>
            \/ estimate' = configured
            \/ \E j \in DOMAIN Topics :
                 Topics[j] = "sync_committee" /\ j < next + 1
      BY <1>1, <1>2, <2>1 DEF Measured, Inductive
    <3>2. attempts = 1 /\ finite' =>
            \A i \in DOMAIN Topics :
              Leading(i) /\ i < next + 1 => AttestationFinite(configured)
      <4> SUFFICES ASSUME attempts = 1, finite',
                          NEW i \in DOMAIN Topics, Leading(i), i < next + 1
                   PROVE  AttestationFinite(configured)
        OBVIOUS
      <4>1. finite /\ Finite(t, estimate)
        BY <2>1, Zenon
      <4>2. CASE i < next
        BY <2>1, <4>1, <4>2 DEF Measured, Inductive
      <4>3. CASE i = next
        <5>1. estimate = configured
          BY <1>1, <2>1, <4>3 DEF Measured, Inductive, Leading
        <5>2. AttestationFinite(estimate)
          BY <4>1, <4>3 DEF Finite, Leading
        <5> QED
          BY <5>1, <5>2
      <4> QED
        BY <1>1, <4>2, <4>3
    <3> QED
      BY <2>1, <3>1, <3>2 DEF Measured, Inductive, Leading
  <2>6. Joined'
    BY <2>1 DEF Joined, Inductive
  <2> QED
    BY <2>2, <2>4, <2>5, <2>6 DEF Inductive
<1> QED
  BY <1>6, <1>7

\* Every step preserves the invariant: one case per action of Serve.
LEMMA NextInductive == Inductive /\ [Next]_vars => Inductive'
<1> SUFFICES ASSUME Inductive, [Next]_vars
             PROVE  Inductive'
  OBVIOUS
<1>t. /\ DOMAIN Topics = 1..Len(Topics) /\ Len(Topics) \in Nat
      /\ next \in 1..(Len(Topics) + 1) /\ attempts \in Nat
      /\ subscribed \in [DOMAIN Topics -> Nat]
  BY ChainConfigAssumption DEF Inductive, TypeOK
<1>1. CASE StartServe
  <2>1. /\ pc \in {"new", "failed"} /\ pc' = "params"
        /\ attempts < MaxAttempts /\ attempts' = attempts + 1
        /\ next' = 1 /\ finite' = TRUE
        /\ UNCHANGED <<ctx, estimate, subscribed, configured, failure>>
    BY <1>1 DEF StartServe
  <2>2. TypeOK'
    BY <1>t, <2>1, ChainConfigAssumption DEF Inductive, TypeOK
  <2>3. Doomed'
    <3>1. attempts' > 1 => pc = "failed"
      BY <1>t, <2>1 DEF Joined, Inductive
    <3>2. \A i \in DOMAIN Topics : 1 <= i
      BY <1>t
    <3> QED
      BY <1>t, <2>1, <3>1, <3>2 DEF Doomed, Inductive, PastParams, Leading
  <2>4. Measured'
    <3>1. attempts' = 1 => pc = "new"
      BY <1>t, <2>1 DEF Joined, Inductive
    <3>2. \A i \in DOMAIN Topics : ~(i < 1)
      BY <1>t
    <3> QED
      BY <2>1, <3>1, <3>2 DEF Measured, Inductive, Leading
  <2>5. Joined'
    <3>1. attempts' <= 1 => pc = "new" /\ attempts <= 1
      BY <1>t, <2>1 DEF Joined, Inductive
    <3>2. attempts' # 0
      BY <1>t, <2>1
    <3> QED
      BY <2>1, <3>1, <3>2 DEF Joined, Inductive
  <2> QED
    BY <2>2, <2>3, <2>4, <2>5 DEF Inductive
<1>2. CASE ScoreTopic
  BY <1>2, ScoreTopicInductive
<1>3. CASE ParamsDone
  <2>1. /\ pc = "params" /\ pc' = "create" /\ next \notin DOMAIN Topics
        /\ UNCHANGED <<ctx, estimate, next, finite, attempts, subscribed,
                       configured, failure>>
    BY <1>3 DEF ParamsDone
  <2>2. \A i \in DOMAIN Topics : i < next
    BY <1>t, <2>1
  <2>3. PICK i \in DOMAIN Topics : Leading(i)
    BY TopicOrderAssumption DEF Leading
  <2>4. PICK j \in DOMAIN Topics : Topics[j] = "sync_committee"
    BY TopicOrderAssumption
  <2>5. attempts <= 1
    BY <1>t, <2>1, <2>2, <2>3 DEF Doomed, Inductive
  <2>6. attempts = 1
    BY <1>t, <2>1, <2>5 DEF Joined, Inductive
  <2>7. TypeOK'
    BY <2>1 DEF Inductive, TypeOK
  <2>8. Doomed'
    BY <2>1, <2>2, <2>4, <2>6 DEF Doomed, Inductive, PastParams
  <2>9. Measured'
    BY <2>1, <2>2, <2>3, <2>6 DEF Measured, Inductive
  <2>10. Joined'
    BY <2>1, <2>6 DEF Joined, Inductive
  <2> QED
    BY <2>7, <2>8, <2>9, <2>10 DEF Inductive
<1>4. CASE CreatePubSub
  <2>1. /\ pc = "create" /\ finite /\ pc' = "join" /\ next' = 1
        /\ UNCHANGED <<ctx, estimate, finite, attempts, subscribed,
                       configured, failure>>
    BY <1>4 DEF CreatePubSub
  <2>2. attempts <= 1
    BY <1>t, <2>1 DEF Doomed, Inductive
  <2>3. TypeOK'
    BY <1>t, <2>1 DEF Inductive, TypeOK
  <2>4. Doomed' /\ Measured'
    BY <1>t, <2>1, <2>2 DEF Doomed, Measured, Inductive, PastParams
  <2>5. Joined'
    BY <1>t, <2>1, <2>2 DEF Joined, Inductive
  <2> QED
    BY <2>3, <2>4, <2>5 DEF Inductive
<1>5. CASE JoinTopic
  <2>1. /\ pc = "join" /\ next \in DOMAIN Topics /\ next' = next + 1
        /\ subscribed' = [subscribed EXCEPT ![next] = @ + 1]
        /\ UNCHANGED <<ctx, pc, estimate, finite, attempts, configured,
                       failure>>
    BY <1>5 DEF JoinTopic
  <2>2. TypeOK'
    BY <1>t, <2>1 DEF Inductive, TypeOK
  <2>3. Doomed' /\ Measured'
    BY <2>1 DEF Doomed, Measured, Inductive, PastParams
  <2>4. \A i \in DOMAIN Topics :
          subscribed'[i] = IF i < next + 1 THEN 1 ELSE 0
    BY <1>t, <2>1 DEF Joined, Inductive
  <2>5. Joined'
    BY <2>1, <2>4 DEF Joined, Inductive
  <2> QED
    BY <2>2, <2>3, <2>5 DEF Inductive
<1>6. CASE CreatePubSubFails \/ JoinTopicFails
  <2>1. /\ pc \in {"create", "join"} /\ pc' = "failed"
        /\ failure' \in {"create", "join"}
        /\ UNCHANGED <<ctx, estimate, next, finite, attempts, subscribed,
                       configured>>
    BY <1>6 DEF CreatePubSubFails, JoinTopicFails
  <2>2. TypeOK'
    BY <2>1 DEF Inductive, TypeOK
  <2>3. Doomed' /\ Measured' /\ Joined'
    BY <2>1 DEF Doomed, Measured, Joined, Inductive, PastParams
  <2> QED
    BY <2>2, <2>3 DEF Inductive
<1>7. CASE JoinDone \/ ServeReturns
  <2>1. /\ pc \in {"join", "running"} /\ pc' \in {"running", "done"}
        /\ UNCHANGED <<ctx, estimate, next, finite, attempts, subscribed,
                       configured, failure>>
    BY <1>7 DEF JoinDone, ServeReturns
  <2>2. TypeOK'
    BY <2>1 DEF Inductive, TypeOK
  <2>3. Doomed' /\ Measured' /\ Joined'
    BY <2>1 DEF Doomed, Measured, Joined, Inductive, PastParams
  <2> QED
    BY <2>2, <2>3 DEF Inductive
<1>8. CASE Cancel \/ UNCHANGED vars
  <2>1. /\ ctx' \in {ctx, "cancelled"}
        /\ UNCHANGED <<pc, estimate, next, finite, attempts, subscribed,
                       configured, failure>>
    BY <1>8 DEF Cancel, vars
  <2>2. TypeOK'
    BY <2>1 DEF Inductive, TypeOK
  <2>3. Doomed' /\ Measured' /\ Joined'
    BY <2>1 DEF Doomed, Measured, Joined, Inductive, PastParams
  <2> QED
    BY <2>2, <2>3 DEF Inductive
<1> QED
  BY <1>1, <1>2, <1>3, <1>4, <1>5, <1>6, <1>7, <1>8 DEF Next

\* The inductive invariant holds in every behaviour of Serve.
LEMMA ServeInvariant == Spec => []Inductive
  BY InitInductive, NextInductive, PTL DEF Spec
-----------------------------------------------------------------------------
\* A failed Serve is never repaired by a restart, however often the
\* supervisor tries: the estimate it left behind makes params panic.
THEOREM RestartsAreFutile == Spec => []RestartNeverRecovers
<1>1. Inductive => RestartNeverRecovers
  BY DEF Inductive, Doomed, RestartNeverRecovers
<1> QED
  BY <1>1, ServeInvariant, PTL

\* No topic ever gets a second Subscription service.
THEOREM SubscribedOnce == Spec => []OneSubscriptionPerTopic
<1>1. Inductive => OneSubscriptionPerTopic
  BY Zenon DEF Inductive, Joined, OneSubscriptionPerTopic
<1> QED
  BY <1>1, ServeInvariant, PTL

\* Gossip runs only with dampeningFactor validators per subnet and slot.
THEOREM MinimumEstimate == Spec => []RunsOnlyAboveMinimum
<1>1. Inductive => RunsOnlyAboveMinimum
  BY FiniteNeedsMinimum, ChainConfigAssumption
     DEF Inductive, TypeOK, Measured, RunsOnlyAboveMinimum
<1> QED
  BY <1>1, ServeInvariant, PTL
-----------------------------------------------------------------------------
(***************************************************************************)
(* The Subscription services that GossipSub.Serve adds to the supervisor,  *)
(* for any topics and any size of the channels.                            *)
(***************************************************************************)

\* Messages that the service holds and has not finished with.
Held(t) == IF spc[t] \in {"received", "handle"} THEN 1 ELSE 0

\* pubsub adds no more messages to the channel of t.
Quiet(t) == sub[t] = "cancelled" \/ pubsub = "dead" \/ serveCtx = "cancelled"

\* Once a handler has panicked, its service is about to cancel the
\* subscription or nothing is added to the channel any more.
PanicSilences ==
  \A t \in SubTopics :
    panicked[t] > 0 => Quiet(t) \/ (panicked[t] = 1 /\ spc[t] = "return")

\* From then on each further panic uses up a message.
PanicsUseMessages ==
  \A t \in SubTopics :
    panicked[t] > 0 => panicked[t] + queue[t] + Held(t) <= Buffer + 1

\* A service returns for a reason, and its subscription is gone for one.
ReturnsForAReason ==
  \A t \in SubTopics :
    spc[t] = "return" \/ sub[t] = "cancelled"
      => panicked[t] > 0 \/ serveCtx = "cancelled"

\* A topic without subscription has had no service.
NoService ==
  \A t \in SubTopics :
    sub[t] = "none" => spc[t] = "none" /\ panicked[t] = 0

SubscriptionsInv ==
  /\ SubTypeOK
  /\ PanicSilences
  /\ PanicsUseMessages
  /\ ReturnsForAReason
  /\ NoService

\* The initial states satisfy the inductive invariant.
LEMMA SubscriptionsStart == SubInit => SubscriptionsInv
  BY SubscriptionsAssumption
  DEF SubInit, SubscriptionsInv, SubTypeOK, PanicSilences, PanicsUseMessages,
      ReturnsForAReason, NoService

\* Every step of a service, of pubsub and of the supervisor preserves it.
LEMMA SubscriptionsStep ==
  SubscriptionsInv /\ [SubNext]_subVars => SubscriptionsInv'
<1> SUFFICES ASSUME SubscriptionsInv, [SubNext]_subVars
             PROVE  SubscriptionsInv'
  OBVIOUS
<1> USE SubscriptionsAssumption
    DEF SubscriptionsInv, SubTypeOK, PanicSilences, PanicsUseMessages,
        ReturnsForAReason, NoService, Held, Quiet, Goto
<1>1. ASSUME NEW t \in SubTopics, Subscribe(t) PROVE SubscriptionsInv'
  BY <1>1 DEF Subscribe
<1>2. ASSUME NEW t \in SubTopics, Publish(t) PROVE SubscriptionsInv'
  BY <1>2 DEF Publish
<1>3. ASSUME NEW t \in SubTopics, Start(t) PROVE SubscriptionsInv'
  BY <1>3 DEF Start
<1>4. ASSUME NEW t \in SubTopics, Check(t) PROVE SubscriptionsInv'
  BY <1>4 DEF Check
<1>5. ASSUME NEW t \in SubTopics, NextMessage(t) PROVE SubscriptionsInv'
  BY <1>5 DEF NextMessage
<1>6. ASSUME NEW t \in SubTopics, NextFails(t) PROVE SubscriptionsInv'
  BY <1>6 DEF NextFails
<1>7. ASSUME NEW t \in SubTopics, Received(t) PROVE SubscriptionsInv'
  BY <1>7 DEF Received
<1>8. ASSUME NEW t \in SubTopics, HandlerReturns(t)
      PROVE  SubscriptionsInv'
  BY <1>8 DEF HandlerReturns
<1>9. ASSUME NEW t \in SubTopics, HandlerPanics(t)
      PROVE  SubscriptionsInv'
  BY <1>9 DEF HandlerPanics
<1>10. ASSUME NEW t \in SubTopics, Return(t) PROVE SubscriptionsInv'
  BY <1>10 DEF Return
<1>11. CASE GossipSubFails
  BY <1>11 DEF GossipSubFails
<1>12. CASE Resume \/ CancelServices \/ Stop
  BY <1>12 DEF Resume, CancelServices, Stop
<1>13. CASE UNCHANGED subVars
  BY <1>13 DEF subVars
<1> QED
  BY <1>1, <1>2, <1>3, <1>4, <1>5, <1>6, <1>7, <1>8, <1>9, <1>10, <1>11,
     <1>12, <1>13, Zenon DEF SubNext, Serve

\* The inductive invariant holds in every reachable state.
THEOREM SubscriptionsInvariant == SubSpec => []SubscriptionsInv
  BY SubscriptionsStart, SubscriptionsStep, PTL DEF SubSpec

\* Only a panic of its own handler or the end of the program costs a topic
\* its subscription (Subscription.Serve, lines 31-53).
THEOREM CancelledForAReason == SubSpec => []OnlyPanicsCancel
<1>1. SubscriptionsInv => OnlyPanicsCancel
  BY DEF SubscriptionsInv, ReturnsForAReason, OnlyPanicsCancel
<1> QED
  BY <1>1, SubscriptionsInvariant, PTL

\* After a panic a handler sees at most the messages that its channel held,
\* however often the supervisor restarts the service.
THEOREM PanicsBounded == SubSpec => []PanicIsFinal
<1>1. SubscriptionsInv => PanicIsFinal
  <2> SUFFICES ASSUME SubscriptionsInv, NEW t \in SubTopics
               PROVE  panicked[t] <= Buffer + 1
    BY DEF PanicIsFinal
  <2>1. panicked[t] \in Nat /\ queue[t] \in Nat /\ Held(t) \in {0, 1}
    BY SubscriptionsAssumption DEF SubscriptionsInv, SubTypeOK, Held
  <2>2. panicked[t] > 0 => panicked[t] + queue[t] + Held(t) <= Buffer + 1
    BY DEF SubscriptionsInv, PanicsUseMessages
  <2> QED
    BY <2>1, <2>2, SubscriptionsAssumption
<1> QED
  BY <1>1, SubscriptionsInvariant, PTL
=============================================================================
