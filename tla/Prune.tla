------------------------------- MODULE Prune --------------------------------
(***************************************************************************)
(* The pruning of peers (GossipSub.prune, gossip/gossipsub.go), which runs *)
(* once a slot in a goroutine of its own, against the goroutines it shares *)
(* data with: pubsub replaces the snapshot of the scores (peerScore.inspect*)
(* in gossip/peer_score.go), and peers connect and leave at any moment.    *)
(*                                                                         *)
(* prune reads a score per connection, sorts the peers by score, computes  *)
(* by how many the host exceeds its target, and then closes peers from the *)
(* worst on, reading the scores a second time.  Scores are integers, and   *)
(* Threshold stands for gossipThreshold.  host.Network() is never nil.     *)
(***************************************************************************)
EXTENDS Host, Sequences

CONSTANTS
  Peers,
  Links,       \* the connections that can be made
  Scores,      \* the scores a snapshot can hold
  Threshold,   \* gossipThreshold: peers below it are bad
  Target,      \* host.TargetPeerCount()
  MaxLeft      \* bound: peers that leave while prune closes peers

ASSUME PruneAssumption ==
  /\ IsFiniteSet(Peers)
  /\ Links \subseteq Peers \X Directions
  /\ Scores \subseteq Int
  /\ Threshold \in Int
  /\ Threshold <= 0
  /\ Target \in Nat
  /\ MaxLeft \in Nat

VARIABLES
  ctx,         \* "live" or "cancelled"
  conns,       \* connections of the host
  snapshots,   \* ps.snapshots
  pc,          \* the goroutine: "idle", "reading", "closing" or "done"
  unread,      \* connections of the first loop of prune still to come
  peerScores,  \* the scores read, by peer
  pairs,       \* the peers in the order of those scores
  excess,
  next         \* index of the next peer of the last loop

\* History.
VARIABLES
  refreshed,   \* whether the snapshot was replaced since this prune began
  left,        \* peers that left by themselves since the excess was computed
  bad          \* peers closed beyond the excess that were bad

local == <<unread, peerScores, pairs, excess, next>>
vars == <<ctx, conns, snapshots, pc, unread, peerScores, pairs, excess, next,
          refreshed, left, bad>>

\* peerScore.get: a peer without a snapshot has score 0.
get(pid) == IF pid \in DOMAIN snapshots THEN snapshots[pid] ELSE 0

isBadPeer(pid) == get(pid) < Threshold

NoScores == [pid \in {} |-> 0]

Init ==
  /\ ctx = "live"
  /\ conns = {}
  /\ snapshots = NoScores
  /\ pc = "idle"
  /\ unread = {}
  /\ peerScores = NoScores
  /\ pairs = << >>
  /\ excess = 0
  /\ next = 1
  /\ refreshed = FALSE
  /\ left = 0
  /\ bad = 0
-----------------------------------------------------------------------------
\* The ticker fires and prune lists the connections.
StartPrune ==
  /\ pc = "idle"
  /\ pc' = "reading"
  /\ unread' = conns
  /\ peerScores' = NoScores
  /\ pairs' = << >>
  /\ excess' = 0
  /\ next' = 1
  /\ refreshed' = FALSE
  /\ left' = 0
  /\ bad' = 0
  /\ UNCHANGED <<ctx, conns, snapshots>>

StopLoop ==
  /\ pc = "idle"
  /\ ctx = "cancelled"
  /\ pc' = "done"
  /\ UNCHANGED <<ctx, conns, snapshots, local, refreshed, left, bad>>

\* One round of the first loop: the score of one connection's peer is read,
\* and the lowest reading is kept.
ReadScore(c) ==
  /\ pc = "reading"
  /\ c \in unread
  /\ unread' = unread \ {c}
  /\ peerScores' =
       [pid \in DOMAIN peerScores \cup {c[1]} |->
          IF /\ pid = c[1]
             /\ pid \in DOMAIN peerScores => get(pid) < peerScores[pid]
          THEN get(pid) ELSE peerScores[pid]]
  /\ UNCHANGED <<ctx, conns, snapshots, pc, pairs, excess, next, refreshed,
                 left, bad>>

\* The orders of a map's keys, one of which its iteration yields.
Orders(f) ==
  {s \in [1..Cardinality(DOMAIN f) -> DOMAIN f] :
     \A i, j \in DOMAIN s : i # j => s[i] # s[j]}

\* Mutant: the pairs are not sorted.
Unsorted(f) == Orders(f)

\* sort.Slice by ascending score.  It is not stable: any order of equal
\* scores can result.
SortedByScore(f) ==
  {s \in Orders(f) : \A i, j \in DOMAIN s : i < j => f[s[i]] <= f[s[j]]}

\* The sort, and the excess over the target at that moment.
Rank ==
  /\ pc = "reading"
  /\ unread = {}
  /\ \E s \in SortedByScore(peerScores) : pairs' = s
  /\ excess' = TotalPeerCount(conns) - Target
  /\ pc' = "closing"
  /\ UNCHANGED <<ctx, conns, snapshots, unread, peerScores, next, refreshed,
                 left, bad>>

\* Mutant: one peer too many.
MustCloseOneMore(i) == i - 1 <= excess \/ isBadPeer(pairs[i])

\* The condition of the last loop, whose index starts at zero.
MustClose(i) == i - 1 < excess \/ isBadPeer(pairs[i])

\* ClosePeer closes every connection of the peer, if it still has any.
Close ==
  /\ pc = "closing"
  /\ next \in DOMAIN pairs
  /\ MustClose(next)
  /\ conns' = {c \in conns : c[1] # pairs[next]}
  /\ bad' = IF next - 1 >= excess /\ isBadPeer(pairs[next]) THEN bad + 1
                                                           ELSE bad
  /\ next' = next + 1
  /\ UNCHANGED <<ctx, snapshots, pc, unread, peerScores, pairs, excess,
                 refreshed, left>>

\* Mutant: the loop of the goroutine ends with the first call of prune.
PruneOnce ==
  /\ pc = "closing"
  /\ next \in DOMAIN pairs => ~ MustClose(next)
  /\ pc' = "done"
  /\ UNCHANGED <<ctx, conns, snapshots, local, refreshed, left, bad>>

\* The loop breaks at the first peer it need not close, or is through.
PruneReturns ==
  /\ pc = "closing"
  /\ next \in DOMAIN pairs => ~ MustClose(next)
  /\ pc' = "idle"
  /\ UNCHANGED <<ctx, conns, snapshots, local, refreshed, left, bad>>
-----------------------------------------------------------------------------
\* pubsub hands over a new map of scores.
inspect(scores) ==
  /\ pc # "done"
  /\ snapshots' = scores
  /\ refreshed' = TRUE
  /\ UNCHANGED <<ctx, conns, pc, local, left, bad>>

Connected(c) ==
  /\ conns' = conns \cup {c}
  /\ UNCHANGED <<ctx, snapshots, pc, local, refreshed, left, bad>>

Disconnected(c) ==
  /\ c \in conns
  /\ conns' = conns \ {c}
  /\ IF pc = "closing" /\ c[1] \notin RemotePeers(conns \ {c})
     THEN left < MaxLeft /\ left' = left + 1
     ELSE UNCHANGED left
  /\ UNCHANGED <<ctx, snapshots, pc, local, refreshed, bad>>

Cancel ==
  /\ ctx = "live"
  /\ ctx' = "cancelled"
  /\ UNCHANGED <<conns, snapshots, pc, local, refreshed, left, bad>>

\* The scores pubsub knows: of some of the peers.
Snapshots == UNION {[S -> Scores] : S \in SUBSET Peers}

PruneStep ==
  \/ StartPrune \/ (\E c \in unread : ReadScore(c)) \/ Rank \/ Close
  \/ PruneReturns

Next ==
  \/ PruneStep
  \/ StopLoop
  \/ Cancel
  \/ \E scores \in Snapshots : inspect(scores)
  \/ \E c \in Links : Connected(c) \/ Disconnected(c)

Spec == Init /\ [][Next]_vars

\* The ticker fires once a slot, and the scheduler runs the goroutine.
FairSpec == Spec /\ WF_vars(PruneStep)
-----------------------------------------------------------------------------
TypeOK ==
  /\ ctx \in {"live", "cancelled"}
  /\ conns \subseteq Links
  /\ DOMAIN snapshots \subseteq Peers
  /\ snapshots \in [DOMAIN snapshots -> Scores]
  /\ pc \in {"idle", "reading", "closing", "done"}
  /\ unread \subseteq Links
  /\ DOMAIN peerScores \subseteq Peers
  /\ peerScores \in [DOMAIN peerScores -> Scores \cup {0}]
  /\ pairs \in Seq(Peers)
  /\ excess \in Int
  /\ next \in 1..(Len(pairs) + 1)
  /\ refreshed \in BOOLEAN
  /\ left \in Nat
  /\ bad \in Nat

\* prune never takes the host below its target by itself.  However peers
\* connect and leave and scores change while it runs, the peers it leaves
\* fall short of the target, or of the number there was if that was smaller,
\* by no more than the peers that left meanwhile and the bad ones it closed.
KeepsTarget ==
  pc = "closing" =>
    TotalPeerCount(conns) + left + bad
      >= IF excess > 0 THEN Target ELSE Target + excess

\* If the snapshot was not replaced while prune ran, every listed peer that
\* is bad has been closed: the loop may break at the first good one, because
\* the list is sorted.  (With a new snapshot in between, a bad peer can be
\* behind a good one and is left for the next slot.)
NoBadPeerLeft ==
  pc = "idle" /\ ~ refreshed =>
    \A i \in next..Len(pairs) : ~ isBadPeer(pairs[i])

\* A bad peer does not stay: unless snapshots keep being replaced while prune
\* runs, every peer is again and again not connected or not bad.
BadPeersGo ==
  \A p \in Peers :
    []<>(\/ refreshed
         \/ p \notin RemotePeers(conns)
         \/ ~ isBadPeer(p)
         \/ ctx = "cancelled")
=============================================================================
