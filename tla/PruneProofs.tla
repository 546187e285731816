---------------------------- MODULE PruneProofs -----------------------------
(***************************************************************************)
(* Proofs about Prune, for every set of peers, connections and scores,     *)
(* every threshold and every target.                                       *)
(***************************************************************************)
EXTENDS Prune, FiniteSetTheorems, TLAPS

\* Closings the excess allows among the first next - 1.
Allowed == IF excess <= 0 THEN 0
           ELSE IF next - 1 < excess THEN next - 1 ELSE excess

\* KeepsTarget in the middle of the loop: the excess not used up is still
\* there.
TargetInv ==
  /\ pc = "reading" => next = 1
  /\ pc = "closing" =>
       TotalPeerCount(conns) + left + bad + Allowed >= Target + excess

\* Until a new snapshot comes, the scores read are the scores.
Fresh == ~ refreshed => \A p \in DOMAIN peerScores : peerScores[p] = get(p)

Ascending(s) ==
  \A i, j \in DOMAIN s : i < j => peerScores[s[i]] <= peerScores[s[j]]

\* The last loop walks through listed peers by ascending reading.
Ranked ==
  pc = "closing" =>
    /\ \A i \in DOMAIN pairs : pairs[i] \in DOMAIN peerScores
    /\ Ascending(pairs)
-----------------------------------------------------------------------------
\* The peers of any connections are a finite set.
LEMMA PeersFinite ==
  ASSUME NEW cs \in SUBSET Links
  PROVE  /\ IsFiniteSet(RemotePeers(cs))
         /\ TotalPeerCount(cs) \in Nat
<1>1. RemotePeers(cs) \subseteq Peers
  BY PruneAssumption DEF RemotePeers
<1>2. IsFiniteSet(RemotePeers(cs))
  BY <1>1, PruneAssumption, FS_Subset
<1>. QED
  BY <1>2, FS_CardinalityType DEF TotalPeerCount

\* More connections, as many peers or more.
LEMMA CountMonotone ==
  ASSUME NEW cs \in SUBSET Links, NEW ds \in SUBSET Links,
         RemotePeers(cs) \subseteq RemotePeers(ds)
  PROVE  TotalPeerCount(cs) <= TotalPeerCount(ds)
  BY PeersFinite, FS_Subset DEF TotalPeerCount

\* Losing the connections of one peer costs at most one peer.
LEMMA CountWithoutOne ==
  ASSUME NEW cs \in SUBSET Links, NEW ds \in SUBSET Links, NEW p,
         RemotePeers(cs) \ {p} \subseteq RemotePeers(ds)
  PROVE  TotalPeerCount(cs) - 1 <= TotalPeerCount(ds)
<1>. DEFINE S == RemotePeers(cs)
            R == S \ {p}
<1>1. IsFiniteSet(S) /\ IsFiniteSet(R) /\ IsFiniteSet(RemotePeers(ds))
  BY PeersFinite, FS_Subset
<1>2. Cardinality(R) <= Cardinality(RemotePeers(ds))
  BY <1>1, FS_Subset
<1>3. Cardinality(S) - 1 <= Cardinality(R)
  <2>1. CASE p \in S
    <3>1. Cardinality(R) = Cardinality(S) - 1
      BY <1>1, <2>1, FS_RemoveElement
    <3>. QED
      BY <1>1, <3>1, FS_CardinalityType
  <2>2. CASE p \notin S
    <3>1. R = S
      BY <2>2
    <3>2. PICK n \in Nat : n = Cardinality(S)
      BY <1>1, FS_CardinalityType
    <3>3. Cardinality(R) = n
      BY <3>1, <3>2
    <3>4. n - 1 <= n
      OBVIOUS
    <3>. QED
      BY <3>2, <3>3, <3>4
  <2>. QED
    BY <2>1, <2>2
<1>4. Cardinality(S) \in Nat /\ Cardinality(R) \in Nat
      /\ Cardinality(RemotePeers(ds)) \in Nat
  BY <1>1, FS_CardinalityType
<1>. HIDE DEF S, R
<1>5. Cardinality(S) - 1 <= Cardinality(RemotePeers(ds))
  BY <1>2, <1>3, <1>4
<1>. QED
  BY <1>5 DEF TotalPeerCount, S

\* A sorted order of the peers read is a sequence of peers.
LEMMA SortedType ==
  ASSUME TypeOK, NEW s \in SortedByScore(peerScores)
  PROVE  /\ s \in Seq(Peers)
         /\ \A i \in DOMAIN s : s[i] \in DOMAIN peerScores
         /\ Ascending(s)
<1>1. IsFiniteSet(DOMAIN peerScores)
  BY PruneAssumption, FS_Subset DEF TypeOK
<1>2. PICK n \in Nat : n = Cardinality(DOMAIN peerScores)
  BY <1>1, FS_CardinalityType
<1>3. s \in [1..n -> DOMAIN peerScores]
  BY <1>2 DEF SortedByScore, Orders
<1>4. s \in Seq(Peers)
  <2>1. s \in [1..n -> Peers]
    BY <1>3 DEF TypeOK
  <2>. QED
    BY <2>1
<1>5. \A i \in DOMAIN s : s[i] \in DOMAIN peerScores
  BY <1>3
<1>6. Ascending(s)
  BY Zenon DEF SortedByScore, Ascending
<1>. QED
  BY <1>4, <1>5, <1>6

\* Types are preserved.
LEMMA TypeInv == TypeOK /\ TargetInv /\ [Next]_vars => TypeOK'
<1>. SUFFICES ASSUME TypeOK, TargetInv, [Next]_vars PROVE TypeOK'
  OBVIOUS
<1>. USE PruneAssumption
<1>1. CASE StartPrune
  <2>1. DOMAIN NoScores = {} /\ NoScores \in [{} -> Scores \cup {0}]
    BY DEF NoScores
  <2>2. << >> \in Seq(Peers) /\ 1 \in 1..(Len(<< >>) + 1)
    OBVIOUS
  <2>3. /\ DOMAIN peerScores' \subseteq Peers
        /\ peerScores' \in [DOMAIN peerScores' -> Scores \cup {0}]
    BY <1>1, <2>1 DEF StartPrune
  <2>4. /\ pairs' \in Seq(Peers)
        /\ next' \in 1..(Len(pairs') + 1)
    BY <1>1, <2>2 DEF StartPrune
  <2>5. excess' \in Int /\ left' \in Nat /\ bad' \in Nat
    BY <1>1 DEF StartPrune
  <2>. QED
    BY <1>1, <2>3, <2>4, <2>5, Zenon DEF TypeOK, StartPrune
<1>2. ASSUME NEW c \in unread, ReadScore(c)
      PROVE  TypeOK'
  <2>1. c[1] \in Peers
    BY DEF TypeOK
  <2>2. get(c[1]) \in Scores \cup {0}
    BY DEF TypeOK, get
  <2>3. DOMAIN peerScores' = DOMAIN peerScores \cup {c[1]}
    BY <1>2 DEF ReadScore
  <2>4. peerScores' \in [DOMAIN peerScores' -> Scores \cup {0}]
    BY <1>2, <2>2 DEF ReadScore, TypeOK
  <2>. QED
    BY <1>2, <2>1, <2>3, <2>4 DEF TypeOK, ReadScore
<1>3. CASE Rank
  <2>1. pairs' \in Seq(Peers)
    BY <1>3, SortedType DEF Rank
  <2>2. excess' \in Int /\ next' = 1
    BY <1>3, PeersFinite DEF Rank, TargetInv, TypeOK
  <2>. QED
    BY <1>3, <2>1, <2>2 DEF TypeOK, Rank
<1>4. CASE Close
  BY <1>4 DEF TypeOK, Close
<1>5. CASE PruneReturns \/ StopLoop \/ Cancel \/ UNCHANGED vars
  BY <1>5 DEF TypeOK, PruneReturns, StopLoop, Cancel, local, vars
<1>6. ASSUME NEW scores \in Snapshots, inspect(scores)
      PROVE  TypeOK'
  <2>1. PICK S \in SUBSET Peers : scores \in [S -> Scores]
    BY DEF Snapshots
  <2>. QED
    BY <1>6, <2>1 DEF TypeOK, inspect, local
<1>7. ASSUME NEW c \in Links, Connected(c) \/ Disconnected(c)
      PROVE  TypeOK'
  BY <1>7 DEF TypeOK, Connected, Disconnected, local
<1>. QED
  BY <1>1, <1>2, <1>3, <1>4, <1>5, <1>6, <1>7 DEF Next, PruneStep

\* The excess is used up one closing at a time.
LEMMA TargetStep == TypeOK /\ TargetInv /\ [Next]_vars => TargetInv'
<1>. SUFFICES ASSUME TypeOK, TargetInv, [Next]_vars PROVE TargetInv'
  OBVIOUS
<1>. USE PruneAssumption
<1>1. TypeOK'
  BY TypeInv
<1>2. PICK t \in Nat, tt \in Nat :
        t = TotalPeerCount(conns) /\ tt = TotalPeerCount(conns')
  BY <1>1, PeersFinite DEF TypeOK
<1>. DEFINE Goal == pc' = "closing"
                     => tt + left' + bad' + Allowed' >= Target + excess'
<1>9. SUFFICES (pc' = "reading" => next' = 1) /\ Goal
  BY <1>2 DEF TargetInv
<1>10. pc = "closing" => t + left + bad + Allowed >= Target + excess
  BY <1>2 DEF TargetInv
<1>11. /\ Target \in Int /\ next \in Nat \ {0} /\ excess \in Int
       /\ left \in Nat /\ bad \in Nat
  BY DEF TypeOK
<1>3. CASE Rank
  BY <1>2, <1>3 DEF TypeOK, TargetInv, Rank, Allowed
<1>4. CASE Close
  <2>1. RemotePeers(conns) \ {pairs[next]} \subseteq RemotePeers(conns')
    BY <1>4 DEF Close, RemotePeers
  <2>2. t - 1 <= tt
    BY <1>1, <1>2, <2>1, CountWithoutOne, Zenon DEF TypeOK
  <2>. QED
    <3>1. /\ pc = "closing" /\ next' = next + 1 /\ pc' = "closing"
          /\ left' = left /\ excess' = excess
          /\ bad' = bad \/ bad' = bad + 1
          /\ next - 1 >= excess => bad' = bad + 1
      BY <1>4, <1>11 DEF Close, MustClose
    <3>. QED
      BY <1>10, <1>11, <2>2, <3>1 DEF Allowed
<1>5. ASSUME NEW c \in Links, Connected(c)
      PROVE  (pc' = "reading" => next' = 1) /\ Goal
  <2>1. RemotePeers(conns) \subseteq RemotePeers(conns')
    BY <1>5 DEF Connected, RemotePeers
  <2>2. t <= tt
    BY <1>1, <1>2, <2>1, CountMonotone, Zenon DEF TypeOK
  <2>. QED
    <3>1. /\ pc' = pc /\ next' = next /\ excess' = excess
          /\ left' = left /\ bad' = bad
      BY <1>5 DEF Connected, local
    <3>. QED
      BY <1>10, <1>11, <2>2, <3>1 DEF TargetInv, Allowed
<1>6. ASSUME NEW c \in Links, Disconnected(c)
      PROVE  (pc' = "reading" => next' = 1) /\ Goal
  <2>1. CASE pc = "closing" /\ c[1] \notin RemotePeers(conns \ {c})
    <3>1. RemotePeers(conns) \ {c[1]} \subseteq RemotePeers(conns')
      BY <1>6 DEF Disconnected, RemotePeers
    <3>2. t - 1 <= tt
      BY <1>1, <1>2, <3>1, CountWithoutOne, Zenon DEF TypeOK
    <3>. QED
      <4>1. /\ pc' = pc /\ next' = next /\ excess' = excess
            /\ left' = left + 1 /\ bad' = bad
        BY <1>6, <2>1 DEF Disconnected, local
      <4>. QED
        BY <1>10, <1>11, <2>1, <3>2, <4>1 DEF Allowed
  <2>2. CASE c[1] \in RemotePeers(conns \ {c})
    <3>1. RemotePeers(conns) \subseteq RemotePeers(conns')
      BY <1>6, <2>2 DEF Disconnected, RemotePeers
    <3>2. t <= tt
      BY <1>1, <1>2, <3>1, CountMonotone, Zenon DEF TypeOK
    <3>. QED
      <4>1. /\ pc' = pc /\ next' = next /\ excess' = excess
            /\ left' = left /\ bad' = bad
        BY <1>6, <2>2 DEF Disconnected, local
      <4>. QED
        BY <1>10, <1>11, <3>2, <4>1 DEF TargetInv, Allowed
  <2>3. CASE pc # "closing"
    BY <1>6, <2>3 DEF TargetInv, Disconnected, local
  <2>. QED
    BY <2>1, <2>2, <2>3
<1>7. CASE \/ StartPrune \/ \E c \in unread : ReadScore(c)
           \/ PruneReturns \/ StopLoop
  BY <1>7, Zenon
  DEF TargetInv, StartPrune, ReadScore, PruneReturns, StopLoop, local
<1>8. CASE \/ Cancel \/ (\E scores \in Snapshots : inspect(scores))
           \/ UNCHANGED vars
  BY <1>2, <1>8 DEF TargetInv, Cancel, inspect, Allowed, local, vars
<1>. QED
  BY <1>3, <1>4, <1>5, <1>6, <1>7, <1>8 DEF Next, PruneStep

\* The invariant that gives the bound on what prune closes.
THEOREM TargetInvariant == Spec => [](TypeOK /\ TargetInv)
<1>1. Init => TypeOK
  <2>. SUFFICES ASSUME Init PROVE TypeOK
    OBVIOUS
  <2>1. /\ DOMAIN NoScores = {} /\ NoScores \in [{} -> Scores]
        /\ NoScores \in [{} -> Scores \cup {0}]
    BY DEF NoScores
  <2>2. << >> \in Seq(Peers) /\ 1 \in 1..(Len(<< >>) + 1)
    OBVIOUS
  <2>3. /\ DOMAIN snapshots \subseteq Peers
        /\ snapshots \in [DOMAIN snapshots -> Scores]
        /\ DOMAIN peerScores \subseteq Peers
        /\ peerScores \in [DOMAIN peerScores -> Scores \cup {0}]
    BY <2>1 DEF Init
  <2>4. pairs \in Seq(Peers) /\ next \in 1..(Len(pairs) + 1)
    BY <2>2 DEF Init
  <2>5. excess \in Int /\ left \in Nat /\ bad \in Nat
    BY DEF Init
  <2>. QED
    BY <2>3, <2>4, <2>5, Zenon DEF Init, TypeOK
<1>2. Init => TargetInv
  BY DEF Init, TargetInv
<1>. QED
  BY <1>1, <1>2, TypeInv, TargetStep, PTL DEF Spec

\* prune takes the host below its target only by peers that leave while it
\* runs and by bad peers.
THEOREM TargetKept == Spec => []KeepsTarget
<1>1. TypeOK /\ TargetInv => KeepsTarget
  <2>. SUFFICES ASSUME TypeOK, TargetInv, pc = "closing"
                PROVE  TotalPeerCount(conns) + left + bad
                         >= IF excess > 0 THEN Target ELSE Target + excess
    BY DEF KeepsTarget
  <2>1. PICK t \in Nat : t = TotalPeerCount(conns)
    BY PeersFinite DEF TypeOK
  <2>. QED
    BY <2>1, PruneAssumption DEF TypeOK, TargetInv, Allowed
<1>. QED
  BY <1>1, TargetInvariant, PTL
-----------------------------------------------------------------------------
\* The readings, their order, and what they say at the end of the loop.
OrderInv == Fresh /\ Ranked /\ NoBadPeerLeft

\* One step preserves it.
LEMMA OrderStep == TypeOK /\ OrderInv /\ [Next]_vars => OrderInv'
<1>. SUFFICES ASSUME TypeOK, OrderInv, [Next]_vars PROVE OrderInv'
  OBVIOUS
<1>. USE PruneAssumption
<1>1. CASE StartPrune
  BY <1>1 DEF OrderInv, Fresh, Ranked, NoBadPeerLeft, Ascending, StartPrune,
             NoScores
<1>2. ASSUME NEW c \in unread, ReadScore(c)
      PROVE  OrderInv'
  BY <1>2 DEF OrderInv, Fresh, Ranked, NoBadPeerLeft, ReadScore, get
<1>3. CASE Rank
  BY <1>3, SortedType
  DEF OrderInv, Fresh, Ranked, NoBadPeerLeft, Ascending, Rank, get
<1>4. CASE Close
  BY <1>4 DEF OrderInv, Fresh, Ranked, NoBadPeerLeft, Ascending, Close, get
<1>5. CASE PruneReturns
  <2>1. ASSUME ~ refreshed, NEW i \in next..Len(pairs), isBadPeer(pairs[i])
        PROVE  FALSE
    <3>1. next \in DOMAIN pairs /\ i \in DOMAIN pairs
      BY <2>1 DEF TypeOK
    <3>2. ~ isBadPeer(pairs[next])
      BY <1>5, <3>1 DEF PruneReturns, MustClose
    <3>3. i # next /\ next < i
      BY <2>1, <3>2 DEF TypeOK
    <3>4. peerScores[pairs[next]] <= peerScores[pairs[i]]
      BY <1>5, <3>1, <3>3 DEF OrderInv, Ranked, Ascending, PruneReturns
    <3>5. /\ peerScores[pairs[next]] = get(pairs[next])
          /\ peerScores[pairs[i]] = get(pairs[i])
      BY <1>5, <2>1, <3>1 DEF OrderInv, Fresh, Ranked, PruneReturns
    <3>6. get(pairs[next]) \in Int /\ get(pairs[i]) \in Int
      BY DEF TypeOK, get
    <3>. QED
      BY <2>1, <3>2, <3>4, <3>5, <3>6 DEF isBadPeer
  <2>2. NoBadPeerLeft'
    BY <1>5, <2>1 DEF NoBadPeerLeft, PruneReturns, local, isBadPeer, get
  <2>. QED
    BY <1>5, <2>2 DEF OrderInv, Fresh, Ranked, PruneReturns, local, get,
                       Ascending
<1>6. CASE StopLoop \/ Cancel \/ UNCHANGED vars
  BY <1>6
  DEF OrderInv, Fresh, Ranked, NoBadPeerLeft, StopLoop, Cancel, local, vars,
      Ascending, isBadPeer, get
<1>7. ASSUME NEW scores \in Snapshots, inspect(scores)
      PROVE  OrderInv'
  BY <1>7 DEF OrderInv, Fresh, Ranked, NoBadPeerLeft, Ascending, inspect,
             local
<1>8. ASSUME NEW c \in Links, Connected(c) \/ Disconnected(c)
      PROVE  OrderInv'
  BY <1>8
  DEF OrderInv, Fresh, Ranked, NoBadPeerLeft, Connected, Disconnected, local,
      Ascending, isBadPeer, get
<1>. QED
  BY <1>1, <1>2, <1>3, <1>4, <1>5, <1>6, <1>7, <1>8 DEF Next, PruneStep

\* A prune whose scores were not replaced leaves no listed bad peer.
THEOREM BadPeersClosed == Spec => []NoBadPeerLeft
<1>1. Init => OrderInv
  BY DEF Init, OrderInv, Fresh, Ranked, NoBadPeerLeft, NoScores
<1>2. OrderInv => NoBadPeerLeft
  BY DEF OrderInv
<1>. QED
  BY <1>1, <1>2, OrderStep, TargetInvariant, PTL DEF Spec
=============================================================================
