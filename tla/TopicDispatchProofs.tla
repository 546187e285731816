------------------------- MODULE TopicDispatchProofs ------------------------
(***************************************************************************)
(* Proofs about TopicDispatch, for every schedule of the forks, every      *)
(* number of subnets and every moment of starting the program.             *)
(***************************************************************************)
EXTENDS TopicDispatch, TLAPS

\* The least element of a set of numbers.
LEMMA MinIs ==
  ASSUME NEW S \in SUBSET Nat, NEW x \in S, \A y \in S : x <= y
  PROVE  Min(S) = x
<1>1. Min(S) \in S /\ \A y \in S : Min(S) <= y
  BY Zenon DEF Min
<1>2. PICK m \in Nat : m = Min(S)
  BY <1>1, Zenon
<1>3. m <= x /\ x <= m /\ x \in Nat
  BY <1>1, <1>2
<1>. QED
  BY <1>2, <1>3

\* A switch takes the first case that contains the topic's name.
LEMMA FirstCaseIs ==
  ASSUME NEW cases, NEW topic, Len(cases) \in Nat,
         NEW k \in 1..Len(cases), ContainsName(topic, cases[k]),
         \A i \in 1..(k - 1) : ~ ContainsName(topic, cases[i])
  PROVE  FirstCase(cases, topic) = cases[k]
<1>. DEFINE I == {i \in 1..Len(cases) : ContainsName(topic, cases[i])}
<1>1. I \in SUBSET Nat /\ k \in I /\ \A i \in I : k <= i
  OBVIOUS
<1>2. Min(I) = k
  BY <1>1, MinIs
<1>3. SelectInSeq(cases, LAMBDA n : ContainsName(topic, n))
        = IF I # {} THEN Min(I) ELSE 0
  BY DEF SelectInSeq
<1>4. SelectInSeq(cases, LAMBDA n : ContainsName(topic, n)) = k /\ k # 0
  BY <1>1, <1>2, <1>3
<1>. QED
  BY <1>4 DEF FirstCase

\* Every topic that NewGossipSub subscribes to has one of the names.
LEMMA TopicNames ==
  ASSUME NEW topic \in Topics
  PROVE  topic.name \in {"beacon_block", "blob_sidecar",
           "beacon_aggregate_and_proof", "beacon_attestation",
           "sync_committee_contribution_and_proof", "sync_committee",
           "proposer_slashing", "attester_slashing",
           "bls_to_execution_change", "voluntary_exit"}
<1>1. topic.name \in Range(Names)
  BY DEF Topics
<1>2. DOMAIN Names = 1..10
  BY DEF Names
<1>3. PICK i \in 1..10 : topic.name = Names[i]
  BY <1>1, <1>2 DEF Range
<1>. QED
  BY <1>3 DEF Names

\* The switches of mappingTopicToHandler and peerScore.params find the topic's
\* own name: the longer of two names that one topic contains comes first.
LEMMA HandlerOfTopic ==
  ASSUME NEW topic \in Topics
  PROVE  /\ mappingTopicToHandler(topic) = topic.name
         /\ ScoredAs(topic) = topic.name
<1>. DEFINE cases ==
       <<"beacon_block", "blob_sidecar", "beacon_aggregate_and_proof",
         "beacon_attestation", "sync_committee_contribution_and_proof",
         "sync_committee", "proposer_slashing", "attester_slashing",
         "bls_to_execution_change", "voluntary_exit">>
<1>1. Len(cases) = 10
  OBVIOUS
<1>2. PICK k \in 1..10 : topic.name = cases[k]
  BY TopicNames
<1>3. ContainsName(topic, cases[k])
  BY <1>2 DEF ContainsName
<1>4. \A i \in 1..(k - 1) : ~ ContainsName(topic, cases[i])
  BY <1>2 DEF ContainsName
<1>5. FirstCase(cases, topic) = topic.name
  BY <1>1, <1>2, <1>3, <1>4, FirstCaseIs
<1>. QED
  BY <1>5 DEF mappingTopicToHandler, ScoredAs

\* So does the switch of TopicToTopicGroup, whose cases come in another order.
LEMMA GroupOfTopic ==
  ASSUME NEW topic \in Topics
  PROVE  TopicToTopicGroup(topic) = topic.name
<1>. DEFINE cases ==
       <<"beacon_block", "beacon_aggregate_and_proof",
         "sync_committee_contribution_and_proof", "proposer_slashing",
         "attester_slashing", "voluntary_exit", "bls_to_execution_change",
         "beacon_attestation", "sync_committee", "blob_sidecar">>
<1>1. Len(cases) = 10
  OBVIOUS
<1>2. PICK k \in 1..10 : topic.name = cases[k]
  BY TopicNames
<1>3. ContainsName(topic, cases[k])
  BY <1>2 DEF ContainsName
<1>4. \A i \in 1..(k - 1) : ~ ContainsName(topic, cases[i])
  BY <1>2 DEF ContainsName
<1>5. FirstCase(cases, topic) = topic.name
  BY <1>1, <1>2, <1>3, <1>4, FirstCaseIs
<1>. QED
  BY <1>5 DEF TopicToTopicGroup
-----------------------------------------------------------------------------
\* The epoch of the i-th fork after genesis.
At(i) == ForkEpoch[Upgrades[i]]

\* The epochs are numbers, and in order.
LEMMA EpochsInOrder ==
  /\ \A i \in 1..6 : At(i) \in Nat
  /\ \A i, j \in 1..6 : i <= j => At(i) <= At(j)
<1>1. Len(Upgrades) = 6
  BY DEF Upgrades
<1>2. \A i \in 1..6 : At(i) \in Nat
  BY EpochsAssumption DEF At, Upgrades
<1>3. \A i \in 1..5 : At(i) <= At(i + 1)
  BY <1>1, ForkOrderAssumption DEF At
<1>4. At(1) <= At(2) /\ At(2) <= At(3) /\ At(3) <= At(4) /\ At(4) <= At(5)
      /\ At(5) <= At(6)
  BY <1>3
<1>. QED
  BY <1>2, <1>4

\* At any epoch, the forks up to some one are active and the others are not.
LEMMA ActiveForks ==
  ASSUME NEW e \in Nat
  PROVE  \E k \in 0..6 : /\ \A i \in 1..k : e >= At(i)
                         /\ \A i \in (k + 1)..6 : e < At(i)
<1>1. CASE e < At(1)
  <2>1. \A i \in 1..6 : e < At(i)
    BY <1>1, EpochsInOrder
  <2>. QED
    BY <2>1
<1>2. CASE e >= At(6)
  <2>1. \A i \in 1..6 : e >= At(i)
    BY <1>2, EpochsInOrder
  <2>. QED
    BY <2>1
<1>3. ASSUME NEW k \in 1..5, e >= At(k), e < At(k + 1)
      PROVE  \E j \in 0..6 : /\ \A i \in 1..j : e >= At(i)
                             /\ \A i \in (j + 1)..6 : e < At(i)
  <2>1. \A i \in 1..k : e >= At(i)
    BY <1>3, EpochsInOrder
  <2>2. \A i \in (k + 1)..6 : e < At(i)
    BY <1>3, EpochsInOrder
  <2>. QED
    BY <2>1, <2>2
<1>4. \/ e < At(1) \/ e >= At(6)
      \/ \E k \in 1..5 : e >= At(k) /\ e < At(k + 1)
  <2>1. /\ At(1) \in Nat /\ At(2) \in Nat /\ At(3) \in Nat /\ At(4) \in Nat
        /\ At(5) \in Nat /\ At(6) \in Nat
    BY EpochsInOrder
  <2>2. \/ e < At(1) \/ e >= At(6)
        \/ e >= At(1) /\ e < At(1 + 1)
        \/ e >= At(2) /\ e < At(2 + 1)
        \/ e >= At(3) /\ e < At(3 + 1)
        \/ e >= At(4) /\ e < At(4 + 1)
        \/ e >= At(5) /\ e < At(5 + 1)
    BY <2>1
  <2>. QED
    BY <2>2
<1>. QED
  BY <1>1, <1>2, <1>3, <1>4

\* The switch of GetForkVersion by the number of active forks.
LEMMA ForkVersionIs ==
  ASSUME NEW e \in Nat, NEW k \in 0..6, \A i \in 1..k : e >= At(i),
         \A i \in (k + 1)..6 : e < At(i)
  PROVE  GetForkVersion(e) = IF k = 6 THEN "electra" ELSE Versions[k + 1]
<1>. DEFINE I == {i \in 1..Len(Upgrades) : e < ForkEpoch[Upgrades[i]]}
            n == SelectInSeq(Upgrades, LAMBDA f : e < ForkEpoch[f])
<1>1. Len(Upgrades) = 6
  BY DEF Upgrades
<1>2. n = IF I # {} THEN Min(I) ELSE 0
  BY DEF SelectInSeq
<1>3. I = (k + 1)..6
  BY <1>1, EpochsInOrder DEF At
<1>4. n = IF k = 6 THEN 0 ELSE k + 1
  <2>1. CASE k = 6
    BY <1>2, <1>3, <2>1
  <2>2. CASE k # 6
    <3>1. I \in SUBSET Nat /\ k + 1 \in I /\ \A i \in I : k + 1 <= i
      BY <1>3, <2>2
    <3>2. Min(I) = k + 1
      BY <3>1, MinIs
    <3>. QED
      BY <1>2, <2>2, <3>1, <3>2
  <2>. QED
    BY <2>1, <2>2
<1>. HIDE DEF n
<1>5. GetForkVersion(e) = IF n = 0 THEN "electra" ELSE Versions[n]
  BY DEF GetForkVersion, n
<1>. QED
  BY <1>4, <1>5

\* The fork digest by the number of active forks.
LEMMA ForkDigestIs ==
  ASSUME NEW e \in Nat, NEW k \in 0..6, \A i \in 1..k : e >= At(i),
         \A i \in (k + 1)..6 : e < At(i)
  PROVE  CreateForkDigest(e) = IF k = 0 THEN "genesis" ELSE Upgrades[k]
<1>. DEFINE R == Reverse(Upgrades)
            I == {i \in 1..Len(R) : e >= ForkEpoch[R[i]]}
            n == SelectInSeq(R, LAMBDA f : e >= ForkEpoch[f])
<1>1. Len(R) = 6 /\ \A i \in 1..6 : R[i] = Upgrades[7 - i]
  BY DEF Reverse, Upgrades
<1>2. n = IF I # {} THEN Min(I) ELSE 0
  BY DEF SelectInSeq
<1>3. I = (7 - k)..6
  <2>1. \A i \in 1..6 : ForkEpoch[R[i]] = At(7 - i)
    BY <1>1 DEF At
  <2>2. \A i \in 1..6 : (e >= At(7 - i)) = (7 - i <= k)
    BY EpochsInOrder
  <2>. HIDE DEF R
  <2>. QED
    BY <1>1, <2>1, <2>2
<1>. HIDE DEF I
<1>4. n = IF k = 0 THEN 0 ELSE 7 - k
  <2>1. CASE k = 0
    BY <1>2, <1>3, <2>1
  <2>2. CASE k # 0
    <3>1. I \in SUBSET Nat /\ 7 - k \in I /\ \A i \in I : 7 - k <= i
      BY <1>3, <2>2
    <3>2. Min(I) = 7 - k
      BY <3>1, MinIs
    <3>. QED
      BY <1>2, <2>2, <3>1, <3>2
  <2>. QED
    BY <2>1, <2>2
<1>. HIDE DEF n
<1>5. CreateForkDigest(e) = IF n = 0 THEN "genesis" ELSE R[n]
  BY DEF CreateForkDigest, n
<1>. HIDE DEF R
<1>. QED
  BY <1>1, <1>4, <1>5

\* The version a handler should use for the topics of a fork.
VersionFor(fork) == IF fork = "fulu" THEN "electra" ELSE fork

\* The two reads of NewGossipSub agree when they are of one epoch.
LEMMA ReadsAgree ==
  ASSUME NEW e \in Nat
  PROVE  /\ GetForkVersion(e) = VersionFor(CreateForkDigest(e))
         /\ GetForkVersion(e) \in Range(Versions)
         /\ CreateForkDigest(e) \in {"genesis"} \cup Range(Upgrades)
<1>1. PICK k \in 0..6 : /\ \A i \in 1..k : e >= At(i)
                        /\ \A i \in (k + 1)..6 : e < At(i)
  BY ActiveForks
<1>2. GetForkVersion(e) = IF k = 6 THEN "electra" ELSE Versions[k + 1]
  BY <1>1, ForkVersionIs
<1>3. CreateForkDigest(e) = IF k = 0 THEN "genesis" ELSE Upgrades[k]
  BY <1>1, ForkDigestIs
<1>4. (IF k = 6 THEN "electra" ELSE Versions[k + 1])
        = VersionFor(IF k = 0 THEN "genesis" ELSE Upgrades[k])
  BY DEF Versions, Upgrades, VersionFor
<1>5. (IF k = 6 THEN "electra" ELSE Versions[k + 1]) \in Range(Versions)
  BY DEF Versions, Range
<1>6. (IF k = 0 THEN "genesis" ELSE Upgrades[k])
        \in {"genesis"} \cup Range(Upgrades)
  BY DEF Upgrades, Range
<1>. QED
  BY <1>2, <1>3, <1>4, <1>5, <1>6
-----------------------------------------------------------------------------
\* What can become of a message, once its handler has chosen the type.
Kinds(wire, type) == IF type = "unknown" THEN {"refused"}
                                         ELSE Process(wire, type)

\* What a message became: it is one that its topic carries or junk, and its
\* handler is that of its topic's name and decodes into the type of the version
\* that the program runs with.
Handled(o) ==
  /\ o.topic \in Topics
  /\ o.wire \in GossipTypes(o.topic.name, digest) \cup {Junk}
  /\ o.type = Destination(o.topic.name, forkVersion)
  /\ o.kind \in Kinds(o.wire, o.type)

\* Unless a fork came between them, the second read agrees with the first,
\* and messages are handled only after it.
ReadsInv ==
  /\ stage # "running" => outcome = {}
  /\ stage = "running" => forkVersion \in Range(Versions)
  /\ stage = "topics" => straddled = TRUE \/ digest = CreateForkDigest(epoch)
  /\ stage = "running" => straddled = TRUE \/ forkVersion = VersionFor(digest)

\* The inductive invariant.
DispatchInv == TypeOK /\ ReadsInv /\ \A o \in outcome : Handled(o)

\* One step preserves it.
LEMMA DispatchStep == DispatchInv /\ [Next]_vars => DispatchInv'
<1>. SUFFICES ASSUME DispatchInv, [Next]_vars PROVE DispatchInv'
  OBVIOUS
<1>0. TypeOK /\ ReadsInv /\ \A o \in outcome : Handled(o)
  BY DEF DispatchInv
<1>1. epoch \in Nat
  BY <1>0, EpochsAssumption DEF TypeOK
<1>2. CASE NextEpoch
  <2>1. TypeOK'
    <3>1. epoch' \in 0..MaxEpoch
      BY <1>1, <1>2, EpochsAssumption DEF NextEpoch
    <3>2. straddled' \in BOOLEAN
      BY <1>2 DEF NextEpoch
    <3>. QED
      BY <1>0, <1>2, <3>1, <3>2 DEF TypeOK, NextEpoch
  <2>2. ReadsInv'
    <3>1. straddled' # TRUE =>
            /\ straddled # TRUE
            /\ stage = "topics"
                 => CreateForkDigest(epoch') = CreateForkDigest(epoch)
      BY <1>2, Zenon DEF NextEpoch
    <3>2. UNCHANGED <<stage, digest, forkVersion, outcome>>
      BY <1>2 DEF NextEpoch
    <3>. QED
      BY <1>0, <3>1, <3>2, Zenon DEF ReadsInv
  <2>3. \A o \in outcome' : Handled(o)'
    BY <1>0, <1>2, Zenon DEF NextEpoch, Handled
  <2>. QED
    BY <2>1, <2>2, <2>3 DEF DispatchInv
<1>3. CASE BuildTopics
  <2>1. digest' \in {"genesis"} \cup Range(Upgrades)
    BY <1>1, <1>3, ReadsAgree DEF BuildTopics
  <2>2. outcome' = {}
    BY <1>0, <1>3 DEF BuildTopics, ReadsInv
  <2>3. TypeOK'
    BY <1>0, <1>3, <2>1 DEF TypeOK, BuildTopics
  <2>4. ReadsInv'
    BY <1>0, <1>3, <2>2 DEF ReadsInv, BuildTopics
  <2>. QED
    BY <2>2, <2>3, <2>4 DEF DispatchInv
<1>4. CASE ReadForkVersion
  <2>1. forkVersion' = VersionFor(CreateForkDigest(epoch))
        /\ forkVersion' \in Range(Versions)
    BY <1>1, <1>4, ReadsAgree DEF ReadForkVersion
  <2>2. outcome' = {}
    BY <1>0, <1>4 DEF ReadForkVersion, ReadsInv
  <2>3. TypeOK'
    BY <1>0, <1>4, <2>1 DEF TypeOK, ReadForkVersion
  <2>4. ReadsInv'
    BY <1>0, <1>4, <2>1, <2>2 DEF ReadsInv, ReadForkVersion, VersionFor
  <2>. QED
    BY <2>2, <2>3, <2>4 DEF DispatchInv
<1>5. ASSUME NEW topic \in Topics, HandleMessage(topic)
      PROVE  DispatchInv'
  <2>1. mappingTopicToHandler(topic) = topic.name
    BY HandlerOfTopic
  <2>. DEFINE type == Destination(topic.name, forkVersion)
  <2>2. \E wire \in GossipTypes(topic.name, digest) \cup {Junk} :
          \E kind \in Kinds(wire, type) :
            outcome' = {[topic |-> topic, wire |-> wire, type |-> type,
                         kind |-> kind]}
    BY <1>5, <2>1 DEF HandleMessage, Kinds
  <2>. HIDE DEF type
  <2>3. PICK wire \in GossipTypes(topic.name, digest) \cup {Junk} :
          \E kind \in Kinds(wire, type) :
            outcome' = {[topic |-> topic, wire |-> wire, type |-> type,
                         kind |-> kind]}
    BY <2>2, Zenon
  <2>4. PICK kind \in Kinds(wire, type) :
          outcome' = {[topic |-> topic, wire |-> wire, type |-> type,
                       kind |-> kind]}
    BY <2>3, Zenon
  <2>0. \A o \in outcome' : /\ o.topic = topic
                             /\ o.wire = wire
                             /\ o.type = type
                             /\ o.kind = kind
    BY <2>4
  <2>5. TypeOK'
    BY <1>0, <1>5, <2>0 DEF TypeOK, HandleMessage
  <2>6. ReadsInv'
    BY <1>0, <1>5 DEF ReadsInv, HandleMessage
  <2>7. digest' = digest /\ forkVersion' = forkVersion
    BY <1>5 DEF HandleMessage
  <2>8. \A o \in outcome' : Handled(o)'
    BY <2>0, <2>7, Zenon DEF Handled, type
  <2>. QED
    BY <2>5, <2>6, <2>8 DEF DispatchInv
<1>6. CASE UNCHANGED vars
  BY <1>0, <1>6, Zenon DEF DispatchInv, TypeOK, ReadsInv, Handled, vars
<1>. QED
  BY <1>2, <1>3, <1>4, <1>5, <1>6 DEF Next

\* The inductive invariant holds in every reachable state.
THEOREM DispatchInvariant == Spec => []DispatchInv
<1>1. Init => DispatchInv
  <2>1. 0 \in 0..MaxEpoch
    BY EpochsAssumption
  <2>. QED
    BY <2>1, Zenon DEF Init, DispatchInv, TypeOK, ReadsInv
<1>. QED
  BY <1>1, DispatchStep, PTL DEF Spec

\* A message's handler, its scoring parameters and its topic group are those
\* of its topic (mappingTopicToHandler, peerScore.params, TopicToTopicGroup).
THEOREM SwitchesAlwaysAgree == Spec => []SwitchesAgree
<1>1. DispatchInv => SwitchesAgree
  BY HandlerOfTopic, GroupOfTopic DEF DispatchInv, Handled, SwitchesAgree
<1>. QED
  BY <1>1, DispatchInvariant, PTL

\* The forks that a digest can be of.
Forks == {"genesis", "altair", "bellatrix", "capella", "deneb", "electra",
          "fulu"}

\* The handler of a topic, run with the version for a fork, chooses the type of
\* the topic's messages under that fork; the handlers of the Misdecoded
\* containers choose the types named here.
LEMMA TypeOfMessage ==
  ASSUME NEW topic \in Topics, NEW fork \in Forks,
         NEW wire \in GossipTypes(topic.name, fork)
  PROVE  /\ wire # Junk
         /\ Destination(topic.name, VersionFor(fork)) =
              CASE wire = "SignedVoluntaryExit" -> "VoluntaryExit"
                [] wire = "SignedBLSToExecutionChange" ->
                     "BLSToExecutionChange"
                [] wire = "AttesterSlashingElectra" -> "AttesterSlashing"
                [] OTHER -> wire
<1>. DEFINE v == VersionFor(fork)
<1>1. v \in Range(Versions)
  BY DEF VersionFor, Forks, Versions, Range
<1>2. /\ fork \notin SinceElectra => v = fork
      /\ fork \in SinceElectra => v = "electra"
      /\ fork \in Forks
  BY DEF VersionFor, SinceElectra, Forks
<1>. HIDE DEF v
<1>. USE DEF Junk, GossipTypes
<1>3. CASE topic.name = "beacon_block"
  <2>1. Destination(topic.name, v) = beaconBlockHandler(v)
    BY <1>3 DEF Destination
  <2>. QED
    BY <1>2, <1>3, <2>1 DEF beaconBlockHandler, SinceElectra, Forks, v
<1>4. CASE topic.name = "blob_sidecar"
  <2>1. Destination(topic.name, v) = blobSidecarHandler(v)
    BY <1>4 DEF Destination
  <2>. QED
    BY <1>2, <1>4, <2>1 DEF blobSidecarHandler, SinceElectra, v
<1>5. CASE topic.name = "beacon_aggregate_and_proof"
  <2>1. Destination(topic.name, v) = beaconAggregateAndProofHandler(v)
    BY <1>5 DEF Destination
  <2>. QED
    BY <1>2, <1>5, <2>1
       DEF beaconAggregateAndProofHandler, SinceElectra, Forks, v
<1>6. CASE topic.name = "beacon_attestation"
  <2>1. Destination(topic.name, v) = beaconAttestationHandler(v)
    BY <1>6 DEF Destination
  <2>. QED
    BY <1>2, <1>6, <2>1 DEF beaconAttestationHandler, SinceElectra, Forks, v
<1>7. CASE topic.name = "sync_committee_contribution_and_proof"
  BY <1>1, <1>7 DEF Destination, SameForEveryVersion, v
<1>8. CASE topic.name = "sync_committee"
  BY <1>1, <1>8 DEF Destination, SameForEveryVersion, v
<1>9. CASE topic.name = "proposer_slashing"
  BY <1>1, <1>9 DEF Destination, SameForEveryVersion, v
<1>10. CASE topic.name = "attester_slashing"
  BY <1>1, <1>10 DEF Destination, attesterSlashingHandler, v
<1>11. CASE topic.name = "bls_to_execution_change"
  BY <1>1, <1>11 DEF Destination, SameForEveryVersion, v
<1>12. CASE topic.name = "voluntary_exit"
  BY <1>1, <1>12 DEF Destination, SameForEveryVersion, v
<1>. QED
  BY TopicNames, <1>3, <1>4, <1>5, <1>6, <1>7, <1>8, <1>9, <1>10, <1>11,
     <1>12, Zenon

\* When no fork fell between the reads of NewGossipSub, a message on a topic of
\* the digest is handled with the version for the digest.
LEMMA VersionOfTopics ==
  ASSUME DispatchInv, ~ straddled, NEW o \in outcome, o.wire # Junk
  PROVE  /\ o.topic \in Topics
         /\ digest \in Forks
         /\ o.wire \in GossipTypes(o.topic.name, digest)
         /\ o.type = Destination(o.topic.name, VersionFor(digest))
<1>1. stage = "running" /\ straddled # TRUE
  BY Zenon DEF DispatchInv, ReadsInv
<1>2. forkVersion = VersionFor(digest) /\ forkVersion \in Range(Versions)
  BY <1>1 DEF DispatchInv, ReadsInv
<1>3. Handled(o)
  BY DEF DispatchInv
<1>4. o.wire \in GossipTypes(o.topic.name, digest)
  BY <1>3, Zenon DEF Handled
<1>5. digest \in Forks
  <2>1. forkVersion # None
    BY <1>2 DEF Versions, Range, None
  <2>2. digest # None
    BY <1>2, <2>1 DEF VersionFor, None
  <2>3. digest \in {None, "genesis"} \cup Range(Upgrades)
    BY DEF DispatchInv, TypeOK
  <2>. QED
    BY <2>2, <2>3 DEF Upgrades, Range, Forks
<1>. QED
  BY <1>2, <1>3, <1>4, <1>5, Zenon DEF Handled

\* A valid message is decoded into the type of its topic's fork, whatever the
\* schedule of the forks, unless one fell between the reads of NewGossipSub;
\* the Misdecoded containers are the only exceptions (the handlers).
THEOREM TypeOfFork == Spec => []DecodesForkOfTopic
<1>1. DispatchInv => DecodesForkOfTopic
  <2>. SUFFICES ASSUME DispatchInv, ~ straddled, NEW o \in outcome,
                       o.wire \notin Misdecoded \cup {Junk}
                PROVE  o.type = o.wire
    BY DEF DecodesForkOfTopic
  <2>1. o.wire # Junk /\ o.wire \notin Misdecoded
    BY Zenon
  <2>2. /\ o.topic \in Topics /\ digest \in Forks
        /\ o.wire \in GossipTypes(o.topic.name, digest)
        /\ o.type = Destination(o.topic.name, VersionFor(digest))
    BY <2>1, VersionOfTopics
  <2>3. o.type = CASE o.wire = "SignedVoluntaryExit" -> "VoluntaryExit"
                   [] o.wire = "SignedBLSToExecutionChange" ->
                        "BLSToExecutionChange"
                   [] o.wire = "AttesterSlashingElectra" ->
                        "AttesterSlashing"
                   [] OTHER -> o.wire
    BY <2>2, TypeOfMessage
  <2>. QED
    BY <2>1, <2>3 DEF Misdecoded
<1>. QED
  BY <1>1, DispatchInvariant, PTL

\* The handler of blob sidecars is the only one that refuses a version.
LEMMA RefusedVersions ==
  ASSUME NEW v \in Range(Versions), NEW topic \in Topics
  PROVE  LET type == Destination(topic.name, v)
         IN  /\ (type = "unknown") <=> /\ topic.name = "blob_sidecar"
                                       /\ v \notin {"deneb", "electra"}
             /\ type # "unknown"
                  => type \in slotExtractors \cup generalExtractors
<1>1. v \in {"genesis", "altair", "bellatrix", "capella", "deneb", "electra"}
  BY DEF Versions, Range
<1>. USE DEF Destination, SameForEveryVersion, slotExtractors,
             generalExtractors
<1>2. CASE topic.name = "beacon_block"
  BY <1>1, <1>2 DEF beaconBlockHandler
<1>3. CASE topic.name = "blob_sidecar"
  BY <1>1, <1>3 DEF blobSidecarHandler
<1>4. CASE topic.name = "beacon_aggregate_and_proof"
  BY <1>1, <1>4 DEF beaconAggregateAndProofHandler
<1>5. CASE topic.name = "beacon_attestation"
  BY <1>1, <1>5 DEF beaconAttestationHandler
<1>6. CASE topic.name = "sync_committee_contribution_and_proof"
  BY <1>6
<1>7. CASE topic.name = "sync_committee"
  BY <1>7
<1>8. CASE topic.name = "proposer_slashing"
  BY <1>8
<1>9. CASE topic.name = "attester_slashing"
  BY <1>9 DEF attesterSlashingHandler
<1>10. CASE topic.name = "bls_to_execution_change"
  BY <1>10
<1>11. CASE topic.name = "voluntary_exit"
  BY <1>11
<1>. QED
  BY TopicNames, <1>2, <1>3, <1>4, <1>5, <1>6, <1>7, <1>8, <1>9, <1>10, <1>11,
     Zenon

\* What becomes of a message of each container when it is decoded into the type
\* that TypeOfMessage names.
LEMMA KindOfMessage ==
  ASSUME NEW topic \in Topics, NEW fork \in Forks,
         NEW wire \in GossipTypes(topic.name, fork)
  PROVE  Kinds(wire, Destination(topic.name, VersionFor(fork)))
           \subseteq KindsOf(wire)
<1>. DEFINE type == Destination(topic.name, VersionFor(fork))
<1>1. type = CASE wire = "SignedVoluntaryExit" -> "VoluntaryExit"
               [] wire = "SignedBLSToExecutionChange" ->
                    "BLSToExecutionChange"
               [] wire = "AttesterSlashingElectra" -> "AttesterSlashing"
               [] OTHER -> wire
  BY TypeOfMessage
<1>2. wire \in {"SignedVoluntaryExit", "SignedBLSToExecutionChange",
                "AttesterSlashingElectra", "AttesterSlashing",
                "ProposerSlashing"}
        \cup (slotExtractors \ {"unknown"})
  BY TopicNames DEF GossipTypes, slotExtractors, Forks, SinceElectra
<1>. HIDE DEF type
<1>3. CASE wire \in {"SignedVoluntaryExit", "SignedBLSToExecutionChange"}
  <2>1. DecodeGossip(wire, type) = {FALSE} /\ type # "unknown"
    BY <1>1, <1>3 DEF DecodeGossip
  <2>. QED
    BY <1>3, <2>1 DEF Kinds, Process, KindsOf, type
<1>4. CASE wire = "AttesterSlashingElectra"
  <2>1. type # "unknown" /\ extract(type) = "generalMessage"
    BY <1>1, <1>4 DEF extract, slotExtractors, generalExtractors
  <2>. QED
    BY <1>4, <2>1 DEF Kinds, Process, KindsOf, type
<1>5. CASE wire \in {"AttesterSlashing", "ProposerSlashing"}
  <2>1. type = wire /\ type # "unknown"
    BY <1>1, <1>5
  <2>2. DecodeGossip(wire, type) = {TRUE}
    BY <2>1 DEF DecodeGossip
  <2>3. extract(type) = "generalMessage"
    BY <1>5, <2>1 DEF extract, slotExtractors, generalExtractors
  <2>. QED
    BY <1>5, <2>1, <2>2, <2>3 DEF Kinds, Process, KindsOf, type
<1>6. CASE wire \in slotExtractors \ {"unknown"}
  <2>1. type = wire /\ type # "unknown"
    BY <1>1, <1>6 DEF slotExtractors
  <2>2. DecodeGossip(wire, type) = {TRUE}
    BY <2>1 DEF DecodeGossip
  <2>3. extract(type) = "slotMessage"
    BY <1>6, <2>1 DEF extract, slotExtractors, generalExtractors
  <2>4. KindsOf(wire) = {"slotMessage"}
    BY <1>6 DEF KindsOf, slotExtractors
  <2>. QED
    BY <2>1, <2>2, <2>3, <2>4 DEF Kinds, Process, type
<1>. QED
  BY <1>2, <1>3, <1>4, <1>5, <1>6, Zenon

\* What becomes of a message, whatever fork the program was started in: no type
\* is missing from the registry, only blob sidecars are refused, and a valid
\* message is lost only where KindsOf says so (the handlers, Process, extract).
THEOREM AllClassified == Spec => []EveryMessageClassified
<1>1. DispatchInv => EveryMessageClassified
  <2>. SUFFICES ASSUME DispatchInv, NEW o \in outcome
                PROVE
                  /\ o.kind # "unsupported"
                  /\ (o.kind = "refused")
                       <=> /\ o.topic.name = "blob_sidecar"
                           /\ forkVersion \notin {"deneb", "electra"}
                  /\ ~straddled /\ o.wire # Junk => o.kind \in KindsOf(o.wire)
    BY Zenon DEF EveryMessageClassified
  <2>1. Handled(o) /\ forkVersion \in Range(Versions)
    BY DEF DispatchInv, ReadsInv
  <2>2. \/ /\ o.kind = "refused"
           /\ o.type = "unknown"
        \/ /\ o.kind \in {extract(o.type), "undecodable"}
           /\ o.type # "unknown"
    <3>1. o.kind \in Kinds(o.wire, o.type)
      BY <2>1 DEF Handled
    <3>2. CASE o.type = "unknown"
      BY <3>1, <3>2 DEF Kinds
    <3>3. CASE o.type # "unknown"
      <4>1. o.kind \in Process(o.wire, o.type)
        BY <3>1, <3>3 DEF Kinds
      <4>2. o.kind \in {extract(o.type), "undecodable"}
        BY <4>1, Zenon DEF Process
      <4>. QED
        BY <3>3, <4>2
    <3>. QED
      BY <3>2, <3>3, Zenon
  <2>3. /\ (o.type = "unknown") <=> /\ o.topic.name = "blob_sidecar"
                                    /\ forkVersion \notin {"deneb", "electra"}
        /\ o.type # "unknown"
             => o.type \in slotExtractors \cup generalExtractors
    BY <2>1, RefusedVersions DEF Handled
  <2>4. o.type # "unknown"
          => extract(o.type) \in {"slotMessage", "generalMessage"}
    BY <2>3 DEF extract
  <2>5. ASSUME ~ straddled, o.wire # Junk
        PROVE  o.kind \in KindsOf(o.wire)
    <3>1. /\ o.topic \in Topics /\ digest \in Forks
          /\ o.wire \in GossipTypes(o.topic.name, digest)
          /\ o.type = Destination(o.topic.name, VersionFor(digest))
      BY <2>5, VersionOfTopics
    <3>2. Kinds(o.wire, o.type) \subseteq KindsOf(o.wire)
      BY <3>1, KindOfMessage
    <3>. QED
      BY <2>1, <3>2 DEF Handled
  <2>. QED
    BY <2>2, <2>3, <2>4, <2>5
<1>. QED
  BY <1>1, DispatchInvariant, PTL
=============================================================================
