--------------------------- MODULE PeeringProofs ----------------------------
(***************************************************************************)
(* Proofs about Peering, for every set of peers and nodes, every target    *)
(* and any number of failures.                                             *)
(***************************************************************************)
EXTENDS Peering, FiniteSetTheorems, TLAPS

\* The dialer has a node in hand exactly between the receive and the verdict,
\* discovery one exactly while it sends.
InHand ==
  /\ (addrInfo # NoNode) = (lpc \in {"outbound", "total"})
  /\ (found # NoNode) = (dpc = "send")

\* What the history says about the node in hand: it includes the present, and
\* the outbound count was high enough when it was read.
SinceCurrent ==
  /\ lpc \in {"outbound", "total"} => Counts(conns) \in since
  /\ lpc = "total" => \E s \in since : s[1]

\* The inductive invariant.
PeeringInv ==
  /\ TypeOK
  /\ NoListenerLeftBehind
  /\ InHand
  /\ SinceCurrent
  /\ DroppedForAReason
-----------------------------------------------------------------------------
\* The counts of host.go, which collect peers in a map, are the numbers of
\* peers with an outbound connection and with any connection.
LEMMA CountsMeaning ==
  ASSUME NEW cs \in SUBSET (Peers \X Directions)
  PROVE  Counts(cs) = <<EnoughOutbound(cs), EnoughPeers(cs)>>
<1>1. RemotePeers({c \in cs : c[2] = "out"})
        = {p \in Peers : <<p, "out">> \in cs}
  BY DEF RemotePeers, Directions
<1>2. RemotePeers(cs)
        = {p \in Peers : \E d \in Directions : <<p, d>> \in cs}
  BY DEF RemotePeers, Directions
<1>. QED
  BY <1>1, <1>2, Zenon
  DEF Counts, EnoughOutbound, EnoughPeers, OutboundPeerCount,
                    TotalPeerCount

\* A comparison is a Boolean, so the history holds pairs of Booleans.
LEMMA CountsType == ASSUME NEW cs PROVE Counts(cs) \in BOOLEAN \X BOOLEAN
<1>1. ASSUME NEW S \in SUBSET Peers PROVE Cardinality(S) \in Nat
  BY PeeringAssumption, FS_Subset, FS_CardinalityType
<1>2. PICK m \in Nat : m = Cardinality({p \in Peers : <<p, "out">> \in cs})
  BY <1>1, Zenon
<1>3. PICK n \in Nat :
        n = Cardinality({p \in Peers : \E d \in Directions : <<p, d>> \in cs})
  BY <1>1, Zenon
<1>4. (5 * m >= Target) \in BOOLEAN /\ (n >= Target) \in BOOLEAN
  BY PeeringAssumption
<1>. QED
  BY <1>2, <1>3, <1>4, Zenon DEF Counts

\* The invariant holds initially.
LEMMA InitInv == Init => PeeringInv
  BY PeeringAssumption
  DEF Init, PeeringInv, TypeOK, NoListenerLeftBehind, InHand, SinceCurrent,
      DroppedForAReason

\* The steps of discovery preserve it.
LEMMA DiscoveryInv == PeeringInv /\ (Discovery \/ CollectSocket) => PeeringInv'
<1>. SUFFICES ASSUME PeeringInv, Discovery \/ CollectSocket
              PROVE  PeeringInv'
  OBVIOUS
<1>. USE PeeringAssumption
<1>1. CASE \/ StartDiscovery \/ ListenUDP \/ ListenUDPFails \/ ListenV5
           \/ ListenV5Fails \/ CollectSocket
  BY <1>1
  DEF PeeringInv, TypeOK, NoListenerLeftBehind, InHand, SinceCurrent,
      DroppedForAReason, StartDiscovery, ListenUDP, ListenUDPFails, ListenV5,
      ListenV5Fails, CollectSocket, dialerVars
<1>2. CASE LoopHead \/ IteratorEnds \/ SendEnds
  BY <1>2
  DEF PeeringInv, TypeOK, NoListenerLeftBehind, InHand, SinceCurrent,
      DroppedForAReason, LoopHead, IteratorEnds, SendEnds, Return,
      dialerVars
<1>3. ASSUME NEW node \in Nodes, IteratorNext(node)
      PROVE  PeeringInv'
  <2>1. node.ID \in Peers \cup {Self}
    OBVIOUS
  <2>2. extractPeerAddrInfo(node) \in Peers \cup {Self, NoNode}
    BY <2>1 DEF extractPeerAddrInfo
  <2>. QED
    BY <1>3, <2>2
    DEF PeeringInv, TypeOK, NoListenerLeftBehind, InHand, SinceCurrent,
        DroppedForAReason, IteratorNext, dialerVars
<1>. QED
  BY <1>1, <1>2, <1>3 DEF Discovery, DiscoverySteps, Iterator

\* The steps of the dialer, and the handing over of a node, preserve it.
LEMMA DialerInv == PeeringInv /\ (Dialer \/ Handoff) => PeeringInv'
<1>. SUFFICES ASSUME PeeringInv, Dialer \/ Handoff
              PROVE  PeeringInv'
  OBVIOUS
<1>. USE PeeringAssumption
<1>1. CASE StartDialer \/ DialerReturns \/ Wake
  BY <1>1
  DEF PeeringInv, TypeOK, NoListenerLeftBehind, InHand, SinceCurrent,
      DroppedForAReason, StartDialer, DialerReturns, Wake, discoveryVars
<1>2. CASE ReadOutbound
  <2>1. Counts(conns)[1] = EnoughOutbound(conns)
    BY CountsMeaning DEF PeeringInv, TypeOK
  <2>2. Counts(conns) \in since
    BY <1>2 DEF PeeringInv, SinceCurrent, ReadOutbound
  <2>. QED
    BY <1>2, <2>1, <2>2
    DEF PeeringInv, TypeOK, NoListenerLeftBehind, InHand, SinceCurrent,
        DroppedForAReason, ReadOutbound, Dial, discoveryVars
<1>3. CASE ReadTotal
  <2>1. Counts(conns)[2] = EnoughPeers(conns)
    BY CountsMeaning DEF PeeringInv, TypeOK
  <2>2. Counts(conns) \in since /\ \E s \in since : s[1]
    BY <1>3 DEF PeeringInv, SinceCurrent, ReadTotal
  <2>. QED
    BY <1>3, <2>1, <2>2
    DEF PeeringInv, TypeOK, NoListenerLeftBehind, InHand, SinceCurrent,
        DroppedForAReason, ReadTotal, Dial, discoveryVars
<1>4. CASE Handoff
  BY <1>4, CountsType
  DEF PeeringInv, TypeOK, NoListenerLeftBehind, InHand, SinceCurrent,
      DroppedForAReason, Handoff
<1>. QED
  BY <1>1, <1>2, <1>3, <1>4 DEF Dialer

\* Connections come and go without breaking it.
LEMMA NetworkInv ==
  ASSUME PeeringInv,
         \/ \E p \in Peers : Connect(p) \/ DialEnds(p) \/ Inbound(p)
         \/ \E c \in conns : Disconnect(c)
  PROVE  PeeringInv'
<1>. USE PeeringAssumption
<1>1. ASSUME NEW p \in Peers, DialEnds(p)
      PROVE  PeeringInv'
  BY <1>1
  DEF PeeringInv, TypeOK, NoListenerLeftBehind, InHand, SinceCurrent,
      DroppedForAReason, DialEnds, discoveryVars
<1>2. ASSUME NEW cs \in SUBSET (Peers \X Directions), ConnsBecome(cs),
             dials' \subseteq dials,
             UNCHANGED <<ctx, discoveryVars, lpc, addrInfo>>
      PROVE  PeeringInv'
  <2>1. Counts(conns') = Counts(cs) /\ since \subseteq since'
    BY <1>2 DEF ConnsBecome
  <2>2. since' \subseteq BOOLEAN \X BOOLEAN
    BY <1>2, CountsType DEF ConnsBecome, PeeringInv, TypeOK
  <2>3. lpc \in {"outbound", "total"} => Counts(cs) \in since'
    BY <1>2 DEF ConnsBecome, PeeringInv, InHand
  <2>4. TypeOK' /\ NoListenerLeftBehind' /\ InHand'
    BY <1>2, <2>2
    DEF ConnsBecome, PeeringInv, TypeOK, NoListenerLeftBehind, InHand,
        discoveryVars
  <2>5. SinceCurrent'
    BY <1>2, <2>1, <2>3 DEF PeeringInv, SinceCurrent
  <2>6. DroppedForAReason'
    BY <1>2, <2>1 DEF PeeringInv, DroppedForAReason
  <2>. QED
    BY <2>4, <2>5, <2>6 DEF PeeringInv
<1>3. ASSUME NEW p \in Peers, Connect(p) \/ Inbound(p)
      PROVE  PeeringInv'
  BY <1>2, <1>3
  DEF Connect, Inbound, PeeringInv, TypeOK, Directions
<1>4. ASSUME NEW c \in conns, Disconnect(c)
      PROVE  PeeringInv'
  BY <1>2, <1>4 DEF Disconnect, PeeringInv, TypeOK
<1>. QED
  BY <1>1, <1>3, <1>4

\* The shape of the state: types, the bound port, and the node in hand with
\* its history, in every reachable state.
THEOREM PeeringInvariant == Spec => []PeeringInv
<1>1. PeeringInv /\ [Next]_vars => PeeringInv'
  <2>. SUFFICES ASSUME PeeringInv, [Next]_vars PROVE PeeringInv'
    OBVIOUS
  <2>1. CASE Cancel \/ UNCHANGED vars
    BY <2>1
    DEF PeeringInv, TypeOK, NoListenerLeftBehind, InHand, SinceCurrent,
        DroppedForAReason, Cancel, vars, discoveryVars, dialerVars
  <2>. QED
    BY <2>1, DiscoveryInv, DialerInv, NetworkInv DEF Next
<1>. QED
  BY InitInv, <1>1, PTL DEF Spec

\* No return or panic of Discovery.Serve leaves its listener behind.
THEOREM ListenerReleased == Spec => []NoListenerLeftBehind
  BY PeeringInvariant, PTL DEF PeeringInv

\* The dialer drops a node only if each count was high enough at some moment
\* since the node was taken.
THEOREM DropsJustified == Spec => []DroppedForAReason
  BY PeeringInvariant, PTL DEF PeeringInv

\* The dialer starts no dial when the host has been full since the node was
\* taken.
THEOREM DialLimit == Spec => NoDialWhenFull
<1>1. ASSUME PeeringInv, [Next]_vars, AlwaysFull,
             lpc \in {"outbound", "total"}
      PROVE  lpc' # "select"
  <2>1. Counts(conns) = <<TRUE, TRUE>>
    BY <1>1, Zenon DEF AlwaysFull, PeeringInv, SinceCurrent
  <2>2. <<EnoughOutbound(conns), EnoughPeers(conns)>> = <<TRUE, TRUE>>
    BY <1>1, <2>1, CountsMeaning, Zenon DEF PeeringInv, TypeOK
  <2>. QED
    BY <1>1, <2>2, Zenon
    DEF Next, Cancel, Discovery, DiscoverySteps, Iterator, StartDiscovery,
        ListenUDP, ListenUDPFails, ListenV5, ListenV5Fails, CollectSocket,
        LoopHead, Return, IteratorNext, IteratorEnds, SendEnds, Dialer,
        StartDialer, DialerReturns, ReadOutbound, ReadTotal, Wake, Handoff,
        Connect, DialEnds, Inbound, Disconnect, dialerVars, vars
<1>2. PeeringInv /\ [Next]_vars
        => (AlwaysFull /\ lpc \in {"outbound", "total"} => lpc' # "select")
  BY <1>1
<1>. QED
  BY <1>2, PeeringInvariant, PTL DEF Spec, NoDialWhenFull

\* After the first return of Discovery.Serve from its loop, and the verdict
\* on the node then in hand, no node is dialed again, however often the
\* supervisor restarts the two services.
THEOREM PeeringEnds == Spec => NoDialAfterClose
<1>1. ASSUME PeeringInv, [Next]_vars, PeeringOver
      PROVE  PeeringOver' /\ dials' \subseteq dials
  <2>1. lpc \notin {"outbound", "total"} /\ discovers = "closed"
    BY <1>1 DEF PeeringOver, PeeringInv, InHand
  <2>. QED
    BY <1>1, <2>1, Zenon
    DEF PeeringOver, Next, Cancel, Discovery, DiscoverySteps, Iterator,
        StartDiscovery, ListenUDP, ListenUDPFails, ListenV5, ListenV5Fails,
        CollectSocket, LoopHead, Return, IteratorNext, IteratorEnds, SendEnds,
        Dialer, StartDialer, DialerReturns, ReadOutbound, ReadTotal, Wake,
        Handoff, Connect, DialEnds, Inbound, Disconnect, discoveryVars,
        dialerVars, vars
<1>2. PeeringInv /\ [Next]_vars
        => (PeeringOver => PeeringOver' /\ dials' \subseteq dials)
  BY <1>1
<1>. QED
  BY <1>2, PeeringInvariant, PTL DEF Spec, NoDialAfterClose
=============================================================================
