---------------------------- MODULE TopicDispatch ----------------------------
(***************************************************************************)
(* From a gossip topic to the kind of record a message becomes.            *)
(* NewGossipSub builds the list of topics for the fork digest of the       *)
(* moment and then reads the clock a second time for the fork version      *)
(* (gossip/gossipsub.go); a topic is recognised three times, by the        *)
(* handler switch (gossip/handler.go), by the peer-scoring switch          *)
(* (gossip/peer_score.go) and by TopicToTopicGroup                         *)
(* (processor/beacon_message_processor.go), each with its own order of     *)
(* substring tests; the handler picks the Go type to decode into from the  *)
(* fork version, and the extractor registry (processor/slot_extractor.go)  *)
(* turns that type into a slot message or a general message, provided that *)
(* the message decodes.                                                    *)
(***************************************************************************)
EXTENDS Integers, Sequences, SequencesExt

CONSTANTS
  ForkEpoch,     \* [fork |-> epoch] for every fork after genesis
  SubnetCount,   \* [name |-> number of subnets] for the topics that have them
  MaxEpoch       \* bound: the chain stops here

ASSUME EpochsAssumption ==
  /\ ForkEpoch \in [{"altair", "bellatrix", "capella", "deneb", "electra",
                     "fulu"} -> Nat]
  /\ MaxEpoch \in Nat

VARIABLES
  epoch,         \* the epoch of the chain at present
  stage,         \* "new", "topics" (first read done) or "running"
  digest,        \* the fork whose digest the topic names carry
  forkVersion,   \* gs.forkVersion
  straddled,     \* history: a fork was activated between the two reads
  outcome        \* what the last handled message became: a set of at most
                 \* one record

vars == <<epoch, stage, digest, forkVersion, straddled, outcome>>

None == "none"

\* Forks in the order of their activation, and the ones that have a case of
\* their own in GetForkVersion.
Upgrades == <<"altair", "bellatrix", "capella", "deneb", "electra", "fulu">>
Versions == <<"genesis", "altair", "bellatrix", "capella", "deneb", "electra">>

\* No fork is activated before an earlier one; several may share an epoch, as
\* the first ones do on Hoodi.
ASSUME ForkOrderAssumption ==
  \A i \in 1..(Len(Upgrades) - 1) :
    ForkEpoch[Upgrades[i]] <= ForkEpoch[Upgrades[i + 1]]

\* Mutant: an epoch still counts as before the fork it activates.
GetForkVersionOffByOne(e) ==
  LET i == SelectInSeq(Upgrades, LAMBDA f : e <= ForkEpoch[f])
  IN  IF i = 0 THEN "electra" ELSE Versions[i]

\* The switch of GetForkVersion; there is no case for Fulu.
GetForkVersion(e) ==
  LET i == SelectInSeq(Upgrades, LAMBDA f : e < ForkEpoch[f])
  IN  IF i = 0 THEN "electra" ELSE Versions[i]

\* The fork whose digest forks.CreateForkDigest returns (external): the
\* latest one that is active.
CreateForkDigest(e) ==
  LET i == SelectInSeq(Reverse(Upgrades), LAMBDA f : e >= ForkEpoch[f])
  IN  IF i = 0 THEN "genesis" ELSE Reverse(Upgrades)[i]
-----------------------------------------------------------------------------
\* The message names of the topics, in the order of rawAllTopics.
Names == <<"beacon_block", "blob_sidecar", "beacon_aggregate_and_proof",
           "beacon_attestation", "sync_committee_contribution_and_proof",
           "sync_committee", "proposer_slashing", "attester_slashing",
           "bls_to_execution_change", "voluntary_exit">>

Subnets(name) == IF name \in DOMAIN SubnetCount
                 THEN 0..(SubnetCount[name] - 1) ELSE {0}

\* The topics NewGossipSub subscribes to.
Topics == UNION {{[name |-> n, subnet |-> i] : i \in Subnets(n)} :
                   n \in Range(Names)}

\* strings.Contains on the names: every name contains itself, and
\* sync_committee is a prefix of the contribution topic's name.
ContainsName(topic, name) ==
  \/ topic.name = name
  \/ /\ topic.name = "sync_committee_contribution_and_proof"
     /\ name = "sync_committee"

\* The first case of a switch whose substring the topic contains.
FirstCase(cases, topic) ==
  LET i == SelectInSeq(cases, LAMBDA n : ContainsName(topic, n))
  IN  IF i = 0 THEN "unknown" ELSE cases[i]

mappingTopicToHandler(topic) ==
  FirstCase(<<"beacon_block", "blob_sidecar", "beacon_aggregate_and_proof",
              "beacon_attestation", "sync_committee_contribution_and_proof",
              "sync_committee", "proposer_slashing", "attester_slashing",
              "bls_to_execution_change", "voluntary_exit">>, topic)

\* The switch of peerScore.params.
ScoredAs(topic) ==
  FirstCase(<<"beacon_block", "blob_sidecar", "beacon_aggregate_and_proof",
              "beacon_attestation", "sync_committee_contribution_and_proof",
              "sync_committee", "proposer_slashing", "attester_slashing",
              "bls_to_execution_change", "voluntary_exit">>, topic)

\* Mutant: the shorter substring is tested first.
TopicToTopicGroupShortFirst(topic) ==
  FirstCase(<<"beacon_block", "beacon_aggregate_and_proof", "sync_committee",
              "sync_committee_contribution_and_proof", "proposer_slashing",
              "attester_slashing", "voluntary_exit",
              "bls_to_execution_change", "beacon_attestation",
              "blob_sidecar">>, topic)

TopicToTopicGroup(topic) ==
  FirstCase(<<"beacon_block", "beacon_aggregate_and_proof",
              "sync_committee_contribution_and_proof", "proposer_slashing",
              "attester_slashing", "voluntary_exit",
              "bls_to_execution_change", "beacon_attestation",
              "sync_committee", "blob_sidecar">>, topic)
-----------------------------------------------------------------------------
(***************************************************************************)
(* The Go type each handler decodes into, "unknown" where the handler      *)
(* returns an error instead.                                               *)
(***************************************************************************)
beaconBlockHandler(v) ==
  CASE v = "genesis" -> "SignedBeaconBlock"
    [] v = "altair" -> "SignedBeaconBlockAltair"
    [] v = "bellatrix" -> "SignedBeaconBlockBellatrix"
    [] v = "capella" -> "SignedBeaconBlockCapella"
    [] v = "deneb" -> "SignedBeaconBlockDeneb"
    [] v = "electra" -> "SignedBeaconBlockElectra"
    [] OTHER -> "unknown"

blobSidecarHandler(v) ==
  IF v \in {"deneb", "electra"} THEN "BlobSidecar" ELSE "unknown"

beaconAggregateAndProofHandler(v) ==
  CASE v \in {"genesis", "altair", "bellatrix", "capella", "deneb"} ->
         "SignedAggregateAttestationAndProof"
    [] v = "electra" -> "SignedAggregateAttestationAndProofElectra"
    [] OTHER -> "unknown"

beaconAttestationHandler(v) ==
  CASE v \in {"genesis", "altair", "bellatrix", "capella", "deneb"} ->
         "Attestation"
    [] v = "electra" -> "SingleAttestation"
    [] OTHER -> "unknown"

\* The first case lists every version, so the second one is never reached.
attesterSlashingHandler(v) ==
  CASE v \in Range(Versions) -> "AttesterSlashing"
    [] OTHER -> "unknown"

\* The handlers that decode into one type whatever the version.
SameForEveryVersion(v, type) ==
  IF v \in Range(Versions) THEN type ELSE "unknown"

Destination(handler, v) ==
  CASE handler = "beacon_block" -> beaconBlockHandler(v)
    [] handler = "blob_sidecar" -> blobSidecarHandler(v)
    [] handler = "beacon_aggregate_and_proof" ->
         beaconAggregateAndProofHandler(v)
    [] handler = "beacon_attestation" -> beaconAttestationHandler(v)
    [] handler = "sync_committee_contribution_and_proof" ->
         SameForEveryVersion(v, "SignedContributionAndProof")
    [] handler = "sync_committee" ->
         SameForEveryVersion(v, "SyncCommitteeMessage")
    [] handler = "proposer_slashing" ->
         SameForEveryVersion(v, "ProposerSlashing")
    [] handler = "attester_slashing" -> attesterSlashingHandler(v)
    [] handler = "bls_to_execution_change" ->
         SameForEveryVersion(v, "BLSToExecutionChange")
    [] handler = "voluntary_exit" -> SameForEveryVersion(v, "VoluntaryExit")

\* The extractor registry, by type.
slotExtractors ==
  {"SignedBeaconBlock", "SignedBeaconBlockAltair",
   "SignedBeaconBlockBellatrix", "SignedBeaconBlockCapella",
   "SignedBeaconBlockDeneb", "SignedBeaconBlockElectra",
   "SignedAggregateAttestationAndProof",
   "SignedAggregateAttestationAndProofElectra", "SignedContributionAndProof",
   "Attestation", "AttestationElectra", "SingleAttestation",
   "SyncCommitteeMessage", "SyncCommitteeContribution", "BlobSidecar"}

generalExtractors ==
  {"ProposerSlashing", "AttesterSlashing", "AttesterSlashingElectra",
   "VoluntaryExit", "BLSToExecutionChange"}

\* Mutant: the type that Electra introduced for attestations is missing.
extractWithoutSingle(type) ==
  CASE type \in slotExtractors \ {"SingleAttestation"} -> "slotMessage"
    [] type \in generalExtractors -> "generalMessage"
    [] OTHER -> "unsupported"

extract(type) ==
  CASE type \in slotExtractors -> "slotMessage"
    [] type \in generalExtractors -> "generalMessage"
    [] OTHER -> "unsupported"
-----------------------------------------------------------------------------
(***************************************************************************)
(* What peers send (external): the containers that the consensus           *)
(* specification gives to each topic, and whether they decode.             *)
(***************************************************************************)
\* Bytes that are not a valid message of their topic.
Junk == "junk"

SinceElectra == {"electra", "fulu"}

\* The container of a valid message on a topic with the digest of the fork, a
\* set with at most one element: it is empty before the fork that introduces
\* the topic, and for blob sidecars under Fulu, which replaces them. Fulu keeps
\* the containers of Electra.
GossipTypes(name, fork) ==
  CASE name = "beacon_block" ->
         {CASE fork = "genesis" -> "SignedBeaconBlock"
            [] fork = "altair" -> "SignedBeaconBlockAltair"
            [] fork = "bellatrix" -> "SignedBeaconBlockBellatrix"
            [] fork = "capella" -> "SignedBeaconBlockCapella"
            [] fork = "deneb" -> "SignedBeaconBlockDeneb"
            [] fork \in SinceElectra -> "SignedBeaconBlockElectra"}
    [] name = "blob_sidecar" ->
         {"BlobSidecar" : f \in {fork} \cap {"deneb", "electra"}}
    [] name = "beacon_aggregate_and_proof" ->
         {IF fork \in SinceElectra
            THEN "SignedAggregateAttestationAndProofElectra"
            ELSE "SignedAggregateAttestationAndProof"}
    [] name = "beacon_attestation" ->
         {IF fork \in SinceElectra THEN "SingleAttestation"
                                   ELSE "Attestation"}
    [] name = "sync_committee_contribution_and_proof" ->
         {"SignedContributionAndProof" : f \in {fork} \ {"genesis"}}
    [] name = "sync_committee" ->
         {"SyncCommitteeMessage" : f \in {fork} \ {"genesis"}}
    [] name = "proposer_slashing" -> {"ProposerSlashing"}
    [] name = "attester_slashing" ->
         {IF fork \in SinceElectra THEN "AttesterSlashingElectra"
                                   ELSE "AttesterSlashing"}
    [] name = "bls_to_execution_change" ->
         {"SignedBLSToExecutionChange" :
            f \in {fork} \ {"genesis", "altair", "bellatrix"}}
    [] name = "voluntary_exit" -> {"SignedVoluntaryExit"}

\* Whether DecodeGossip can succeed. A container decodes into its own type. A
\* signed exit is 112 bytes and a signed change 172, their messages without the
\* signature 16 and 76, and a type of fixed size accepts no other length. For
\* the rest, Electra's slashings in the older type among them (one layout, but
\* a lower limit on the indices), it depends on the bytes.
DecodeGossip(wire, type) ==
  CASE wire = type -> {TRUE}
    [] <<wire, type>> \in
         {<<"SignedVoluntaryExit", "VoluntaryExit">>,
          <<"SignedBLSToExecutionChange", "BLSToExecutionChange">>} -> {FALSE}
    [] OTHER -> BOOLEAN

\* The results that Process can come to: it gives up if the message does not
\* decode into the type, and else looks the type up in the registry.
Process(wire, type) ==
  {IF decoded THEN extract(type) ELSE "undecodable" :
     decoded \in DecodeGossip(wire, type)}
-----------------------------------------------------------------------------
Init ==
  /\ epoch = 0
  /\ stage = "new"
  /\ digest = None
  /\ forkVersion = None
  /\ straddled = FALSE
  /\ outcome = {}

\* The chain goes on.
NextEpoch ==
  /\ epoch < MaxEpoch
  /\ epoch' = epoch + 1
  /\ straddled' = \/ straddled
                  \/ /\ stage = "topics"
                     /\ CreateForkDigest(epoch') # CreateForkDigest(epoch)
  /\ UNCHANGED <<stage, digest, forkVersion, outcome>>

\* NewGossipSub builds the topics, ...
BuildTopics ==
  /\ stage = "new"
  /\ stage' = "topics"
  /\ digest' = CreateForkDigest(epoch)
  /\ UNCHANGED <<epoch, forkVersion, straddled, outcome>>

\* ... then reads the clock again for the fork version.
ReadForkVersion ==
  /\ stage = "topics"
  /\ stage' = "running"
  /\ forkVersion' = GetForkVersion(epoch)
  /\ UNCHANGED <<epoch, digest, straddled, outcome>>

\* A handler gets a message, valid for its topic or not: it refuses the fork
\* version, or chooses a type and leaves the message to Process.
HandleMessage(topic) ==
  /\ stage = "running"
  /\ LET type == Destination(mappingTopicToHandler(topic), forkVersion)
     IN  \E wire \in GossipTypes(topic.name, digest) \cup {Junk} :
           \E kind \in IF type = "unknown" THEN {"refused"}
                                            ELSE Process(wire, type) :
             outcome' = {[topic |-> topic, wire |-> wire, type |-> type,
                          kind |-> kind]}
  /\ UNCHANGED <<epoch, stage, digest, forkVersion, straddled>>

Next ==
  \/ NextEpoch
  \/ BuildTopics
  \/ ReadForkVersion
  \/ \E topic \in Topics : HandleMessage(topic)

Spec == Init /\ [][Next]_vars
-----------------------------------------------------------------------------
TypeOK ==
  /\ epoch \in 0..MaxEpoch
  /\ stage \in {"new", "topics", "running"}
  /\ digest \in {None, "genesis"} \cup Range(Upgrades)
  /\ forkVersion \in {None} \cup Range(Versions)
  /\ straddled \in BOOLEAN
  /\ \A o \in outcome : o.topic \in Topics

\* The three switches recognise a topic as the same thing, so a record's
\* topic group, its peer-scoring parameters and its handler belong together,
\* although their cases come in different orders and one name contains
\* another (mappingTopicToHandler, peerScore.params, TopicToTopicGroup).
SwitchesAgree ==
  \A o \in outcome : /\ mappingTopicToHandler(o.topic) = o.topic.name
                      /\ ScoredAs(o.topic) = o.topic.name
                      /\ TopicToTopicGroup(o.topic) = o.topic.name

\* The containers that are decoded into another type than their own, whatever
\* the fork version: the handlers of exits and of BLS changes name the message
\* without its signature, and the Electra case of attesterSlashingHandler is
\* shadowed (gossip/handler.go:259, 283, 234).
Misdecoded == {"SignedVoluntaryExit", "SignedBLSToExecutionChange",
               "AttesterSlashingElectra"}

\* A valid message is decoded into the type that the consensus specification
\* gives to its topic under the fork of the topic's digest, however late it
\* comes, unless a fork was activated between the two clock reads of
\* NewGossipSub; the three Misdecoded containers are the only exceptions (the
\* handlers, GetForkVersion).
DecodesForkOfTopic ==
  ~straddled =>
    \A o \in outcome : o.wire \notin Misdecoded \cup {Junk}
                         => o.type = o.wire

\* What can become of a valid message of each container.
KindsOf(wire) ==
  CASE wire \in {"SignedVoluntaryExit", "SignedBLSToExecutionChange"} ->
         {"undecodable"}
    [] wire = "AttesterSlashingElectra" -> {"undecodable", "generalMessage"}
    [] wire \in {"ProposerSlashing", "AttesterSlashing"} -> {"generalMessage"}
    [] OTHER -> {"slotMessage"}

\* Whatever fork it was started in, no handler chooses a type the registry does
\* not know, and only the handler of blob sidecars refuses, before Deneb. A
\* valid message becomes a slot message if it has a slot and a general one if
\* not; but exits and BLS changes never decode, and Electra's attester
\* slashings may not (the handlers, Process, extract).
EveryMessageClassified ==
  \A o \in outcome :
    /\ o.kind # "unsupported"
    /\ (o.kind = "refused") <=> /\ o.topic.name = "blob_sidecar"
                                /\ forkVersion \notin {"deneb", "electra"}
    /\ ~straddled /\ o.wire # Junk => o.kind \in KindsOf(o.wire)

\* README.md:42 "Supported Message Types | ... attester_slashing,
\* voluntary_exit, bls_to_execution_change": a valid message of these topics
\* is decoded and classified.
SupportedTypesDecode ==
  ~straddled =>
    \A o \in outcome : o.wire # Junk => o.kind # "undecodable"

\* gossip/handler.go:234-235 "case bytes.Equal(gs.forkVersion[:],
\* gs.beaconConfig.ElectraForkVersion): aSlash =
\* &ethtypes.AttesterSlashingElectra{}": under Electra attester slashings are
\* decoded into the Electra type.
ElectraSlashingsAreElectra ==
  forkVersion = "electra" =>
    \A o \in outcome : o.topic.name = "attester_slashing"
                         => o.type = "AttesterSlashingElectra"
=============================================================================
