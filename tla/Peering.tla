------------------------------ MODULE Peering -------------------------------
(***************************************************************************)
(* The discovery and dialer services (peering/discovery.go,                *)
(* peering/dialer.go) under their supervisor, and the connections of the   *)
(* host.  Discovery binds a UDP socket, iterates over random nodes of the  *)
(* DHT and hands each usable one to the dialer over an unbuffered channel, *)
(* which it closes when it returns.  The dialer reads the peer counts and  *)
(* either drops the node or starts a goroutine that connects to it.        *)
(*                                                                         *)
(* Both services are called again on the same values when they return or   *)
(* panic (suture, external).  A node of the DHT is a record of what the    *)
(* code looks at.  The host's own address is IPv4: NewHost has refused any *)
(* other before discovery is created.                                      *)
(***************************************************************************)
EXTENDS Host

CONSTANTS
  Peers,       \* IDs of other nodes
  Self,        \* the host's own ID, which the DHT may return too
  Nodes,       \* what the iterator may return
  Target,      \* host.TargetPeerCount()
  NoNode,      \* no node in hand
  MaxFaults    \* bound: failures of ListenUDP and ListenV5 not due to peekd

ASSUME PeeringAssumption ==
  /\ Target \in Nat
  /\ MaxFaults \in Nat
  /\ IsFiniteSet(Peers)
  /\ Self \notin Peers
  /\ NoNode \notin Peers \cup {Self}
  /\ Nodes \subseteq [ID : Peers \cup {Self}, private : BOOLEAN,
                      key : BOOLEAN, ip : {"ip4", "ip6", "none"}]

VARIABLES
  ctx,         \* "live" or "cancelled"
  discovers,   \* the channel: "open" or "closed"
  socket,      \* the UDP port: "free", "bound", or "leaked" by a Serve that
               \* returned without closing it
  faults,      \* failures so far
  dpc,         \* discovery: "stopped", "bind", "listen", "loop", "next",
               \* "send"
  found,       \* discovery: the node to send
  lpc,         \* dialer: "stopped", "select", "outbound", "total", "sleep"
  addrInfo,    \* dialer: the node in hand
  dials,       \* nodes some goroutine of the dialer is connecting to
  conns        \* connections of the host, pairs of peer and direction

\* History: for the node in hand, every pair of "enough outbound peers" and
\* "enough peers" that was true at some moment since the dialer took it.
VARIABLE since

discoveryVars == <<discovers, socket, faults, dpc, found>>
dialerVars == <<lpc, addrInfo, dials, since>>
vars == <<ctx, discovers, socket, faults, dpc, found, lpc, addrInfo, dials,
          conns, since>>

Init ==
  /\ ctx = "live"
  /\ discovers = "open"
  /\ socket = "free"
  /\ faults = 0
  /\ dpc = "stopped"
  /\ found = NoNode
  /\ lpc = "stopped"
  /\ addrInfo = NoNode
  /\ dials = {}
  /\ conns = {}
  /\ since = {}

Cancel ==
  /\ ctx = "live"
  /\ ctx' = "cancelled"
  /\ UNCHANGED <<discoveryVars, dialerVars, conns>>
-----------------------------------------------------------------------------
(***************************************************************************)
(* Discovery.Serve.                                                        *)
(***************************************************************************)

\* Mutant: the supervisor gives up on a service that has failed.
StartDiscoveryOnce ==
  /\ dpc = "stopped"
  /\ ctx = "live"
  /\ faults = 0
  /\ dpc' = "bind"
  /\ UNCHANGED <<ctx, discovers, socket, faults, found, dialerVars, conns>>

\* The supervisor calls Serve, at first and after every return or panic.
StartDiscovery ==
  /\ dpc = "stopped"
  /\ ctx = "live"
  /\ dpc' = "bind"
  /\ UNCHANGED <<ctx, discovers, socket, faults, found, dialerVars, conns>>

ListenUDP ==
  /\ dpc = "bind"
  /\ socket = "free"
  /\ socket' = "bound"
  /\ dpc' = "listen"
  /\ UNCHANGED <<ctx, discovers, faults, found, dialerVars, conns>>

\* Another process has the port, or an earlier Serve has leaked it.
ListenUDPFails ==
  /\ dpc = "bind"
  /\ IF socket = "leaked" THEN UNCHANGED faults
                          ELSE faults < MaxFaults /\ faults' = faults + 1
  /\ dpc' = "stopped"
  /\ UNCHANGED <<ctx, discovers, socket, found, dialerVars, conns>>

ListenV5 ==
  /\ dpc = "listen"
  /\ dpc' = "loop"
  /\ UNCHANGED <<ctx, discovers, socket, faults, found, dialerVars, conns>>

\* Serve returns before its first defer: nothing closes the UDP socket.
ListenV5Fails ==
  /\ dpc = "listen"
  /\ faults < MaxFaults
  /\ faults' = faults + 1
  /\ socket' = "leaked"
  /\ dpc' = "stopped"
  /\ UNCHANGED <<ctx, discovers, found, dialerVars, conns>>

\* The garbage collector finalizes the socket nobody refers to (external).
CollectSocket ==
  /\ socket = "leaked"
  /\ socket' = "free"
  /\ UNCHANGED <<ctx, discovers, faults, dpc, found, dialerVars, conns>>

\* The deferred calls: the channel is closed, which panics if it already was,
\* and in either case the iterator and the listener, with its socket.
Return ==
  /\ discovers' = "closed"
  /\ socket' = "free"
  /\ dpc' = "stopped"
  /\ found' = NoNode
  /\ UNCHANGED <<ctx, faults, dialerVars, conns>>

\* The head of the loop: the check of the context.
LoopHead ==
  /\ dpc = "loop"
  /\ \/ ctx = "cancelled" /\ Return
     \/ /\ ctx = "live"
        /\ dpc' = "next"
        /\ UNCHANGED <<ctx, discovers, socket, faults, found, dialerVars,
                       conns>>

\* The peer a node can be dialed as, if its key is a secp256k1 key and it
\* has an IP address; its multiaddrs are left out.
extractPeerAddrInfo(node) ==
  IF node.key /\ node.ip \in {"ip4", "ip6"} THEN node.ID ELSE NoNode

\* The iterator returns a node.  One with a private address or without peer
\* address info leads back to the head of the loop.
IteratorNext(node) ==
  /\ dpc = "next"
  /\ IF node.private \/ extractPeerAddrInfo(node) = NoNode
     THEN dpc' = "loop" /\ UNCHANGED found
     ELSE dpc' = "send" /\ found' = extractPeerAddrInfo(node)
  /\ UNCHANGED <<ctx, discovers, socket, faults, dialerVars, conns>>

IteratorEnds ==
  /\ dpc = "next"
  /\ Return

\* Mutant: the send does not wait for the context as well.
SendIgnoresDone ==
  /\ dpc = "send"
  /\ discovers = "closed"
  /\ Return

\* The select around the send, but for the send itself: the context is done,
\* or the channel is closed and the send panics.
SendEnds ==
  /\ dpc = "send"
  /\ ctx = "cancelled" \/ discovers = "closed"
  /\ Return
-----------------------------------------------------------------------------
(***************************************************************************)
(* Dialer.Serve.                                                           *)
(***************************************************************************)

\* A fifth of the target: the product of the float64 is exact when the
\* target is a multiple of five, and lies between two integers otherwise.
EnoughOutbound(cs) == 5 * OutboundPeerCount(cs) >= Target

\* Mutant: an off-by-one comparison.
MoreThanEnough(cs) == TotalPeerCount(cs) > Target

EnoughPeers(cs) == TotalPeerCount(cs) >= Target

\* History: the same two comparisons, by their meaning.
Counts(cs) ==
  <<5 * Cardinality({p \in Peers : <<p, "out">> \in cs}) >= Target,
    Cardinality({p \in Peers : \E d \in Directions : <<p, d>> \in cs})
      >= Target>>

StartDialer ==
  /\ lpc = "stopped"
  /\ ctx = "live"
  /\ lpc' = "select"
  /\ UNCHANGED <<ctx, discoveryVars, addrInfo, dials, since, conns>>

\* Mutant: the dialer ignores that the channel is closed and loops.
DialerIgnoresClose ==
  /\ lpc = "select"
  /\ ctx = "cancelled"
  /\ lpc' = "stopped"
  /\ UNCHANGED <<ctx, discoveryVars, addrInfo, dials, since, conns>>

\* The context is done or the channel is closed.
DialerReturns ==
  /\ lpc = "select"
  /\ ctx = "cancelled" \/ discovers = "closed"
  /\ lpc' = "stopped"
  /\ UNCHANGED <<ctx, discoveryVars, addrInfo, dials, since, conns>>

\* The unbuffered channel: the send and the receive are one step, which
\* includes the receiver's check for the host's own ID.
Handoff ==
  /\ dpc = "send"
  /\ lpc = "select"
  /\ discovers = "open"
  /\ dpc' = "loop"
  /\ found' = NoNode
  /\ IF found = Self
     THEN UNCHANGED <<lpc, addrInfo, since>>
     ELSE /\ lpc' = "outbound"
          /\ addrInfo' = found
          /\ since' = {Counts(conns)}
  /\ UNCHANGED <<ctx, discovers, socket, faults, dials, conns>>

\* go host.Connect, and back to the select.
Dial ==
  /\ dials' = dials \cup {addrInfo}
  /\ lpc' = "select"
  /\ addrInfo' = NoNode
  /\ since' = {}

\* The first operand of the condition, ...
ReadOutbound ==
  /\ lpc = "outbound"
  /\ IF EnoughOutbound(conns)
     THEN lpc' = "total" /\ UNCHANGED <<addrInfo, dials, since>>
     ELSE Dial
  /\ UNCHANGED <<ctx, discoveryVars, conns>>

\* ... and the second, read later.  If both hold the node is dropped.
ReadTotal ==
  /\ lpc = "total"
  /\ IF EnoughPeers(conns)
     THEN /\ lpc' = "sleep"
          /\ addrInfo' = NoNode
          /\ UNCHANGED <<dials, since>>
     ELSE Dial
  /\ UNCHANGED <<ctx, discoveryVars, conns>>

\* The second of sleep does not end early when the context is done.
Wake ==
  /\ lpc = "sleep"
  /\ lpc' = "select"
  /\ since' = {}
  /\ UNCHANGED <<ctx, discoveryVars, addrInfo, dials, conns>>
-----------------------------------------------------------------------------
(***************************************************************************)
(* The connections (libp2p, external).                                     *)
(***************************************************************************)

ConnsBecome(cs) ==
  /\ conns' = cs
  /\ since' = IF addrInfo = NoNode THEN since ELSE since \cup {Counts(cs)}

\* Connect succeeds, in time or at once because the peer is connected.
Connect(p) ==
  /\ p \in dials
  /\ dials' = dials \ {p}
  /\ ConnsBecome(conns \cup {<<p, "out">>})
  /\ UNCHANGED <<ctx, discoveryVars, lpc, addrInfo>>

\* Mutant: a failed dial is tried again.
DialRetries(p) ==
  /\ p \in dials
  /\ lpc = "select"
  /\ dials' = dials \ {p}
  /\ addrInfo' = p
  /\ lpc' = "outbound"
  /\ since' = {Counts(conns)}
  /\ UNCHANGED <<ctx, discoveryVars, conns>>

\* Connect fails, times out after two seconds, is cancelled, or finds the
\* peer connected.
DialEnds(p) ==
  /\ p \in dials
  /\ dials' = dials \ {p}
  /\ UNCHANGED <<ctx, discoveryVars, lpc, addrInfo, since, conns>>

Inbound(p) ==
  /\ <<p, "in">> \notin conns
  /\ ConnsBecome(conns \cup {<<p, "in">>})
  /\ UNCHANGED <<ctx, discoveryVars, lpc, addrInfo, dials>>

Disconnect(c) ==
  /\ ConnsBecome(conns \ {c})
  /\ UNCHANGED <<ctx, discoveryVars, lpc, addrInfo, dials>>
-----------------------------------------------------------------------------
\* What discovery does by itself, ...
DiscoverySteps ==
  \/ StartDiscovery \/ ListenUDP \/ ListenUDPFails \/ ListenV5
  \/ ListenV5Fails \/ LoopHead \/ SendEnds

\* ... and the return of iterator.Next, which waits for the network.
Iterator ==
  \/ IteratorEnds
  \/ \E node \in Nodes : IteratorNext(node)

Discovery == DiscoverySteps \/ Iterator

Dialer ==
  \/ StartDialer \/ DialerReturns \/ ReadOutbound \/ ReadTotal \/ Wake

Next ==
  \/ Cancel
  \/ Discovery
  \/ CollectSocket
  \/ Dialer
  \/ Handoff
  \/ \E p \in Peers : Connect(p) \/ DialEnds(p) \/ Inbound(p)
  \/ \E c \in conns : Disconnect(c)

Spec == Init /\ [][Next]_vars

\* The Go scheduler runs both services and the garbage collector, and a send
\* meets a waiting receive.  Nothing is assumed of the network: iterator.Next
\* may never return, and no connection and no signal need ever come.
Fairness ==
  /\ WF_vars(DiscoverySteps)
  /\ WF_vars(Dialer)
  /\ WF_vars(Handoff)
  /\ WF_vars(CollectSocket)

FairSpec == Spec /\ Fairness
-----------------------------------------------------------------------------
TypeOK ==
  /\ ctx \in {"live", "cancelled"}
  /\ discovers \in {"open", "closed"}
  /\ socket \in {"free", "bound", "leaked"}
  /\ faults \in 0..MaxFaults
  /\ dpc \in {"stopped", "bind", "listen", "loop", "next", "send"}
  /\ found \in Peers \cup {Self, NoNode}
  /\ lpc \in {"stopped", "select", "outbound", "total", "sleep"}
  /\ addrInfo \in Peers \cup {NoNode}
  /\ dials \subseteq Peers
  /\ conns \subseteq Peers \X Directions
  /\ since \subseteq BOOLEAN \X BOOLEAN

\* The port is bound exactly while a Serve uses it: no return and no panic,
\* of the send or of the close of a closed channel, leaves a listener behind
\* (the defers of discovery.go:194-198), and only a failure of ListenV5 leaks
\* the socket.
NoListenerLeftBehind ==
  (socket = "bound") = (dpc \in {"listen", "loop", "next", "send"})

\* Peering has ended: the channel is closed and the dialer has no node.
PeeringOver == discovers = "closed" /\ addrInfo = NoNode

\* Once Discovery.Serve has returned from its loop and the dialer is done
\* with the node in hand, no restart of either service dials a node again:
\* the channel of discovery.go:151 is made once and closed at line 198.
NoDialAfterClose ==
  [][PeeringOver => PeeringOver' /\ dials' \subseteq dials]_vars

AlwaysFull == since = {<<TRUE, TRUE>>}

\* The dialer starts no dial if both counts have been high enough all the
\* time since it took the node (dialer.go:53), whatever order peers connect
\* in between the two reads.
NoDialWhenFull ==
  [][AlwaysFull /\ lpc \in {"outbound", "total"} => lpc' # "select"]_vars

\* A node is dropped only if each count was high enough at some moment since
\* the dialer took it.  (The moments may differ: the host need never have
\* been full.)
DroppedForAReason ==
  lpc = "sleep" => /\ \E s \in since : s[1]
                   /\ \E s \in since : s[2]

\* While the channel is open, a discovered node is taken by the dialer or
\* the context ends: restarts and sleeps of the dialer do not lose it.
NodeTaken == dpc = "send" /\ discovers = "open" ~> dpc # "send"

\* A failure to bind the port or to start the listener is temporary: while
\* the context is live, discovery gets to its loop, also when the port is
\* blocked by the socket of the failed call.
DiscoveryRecovers ==
  dpc = "stopped" /\ ctx = "live" ~> dpc = "loop" \/ ctx = "cancelled"

\* After the channel is closed the dialer is down and up again for ever, until
\* the context ends: each Serve returns at once, and suture calls the next.
DialerRestartsForEver ==
  [](discovers = "closed" =>
       /\ []<>(lpc = "stopped")
       /\ []<>(lpc = "select" \/ ctx = "cancelled"))

\* After the end of the context the dialer returns, and so does discovery
\* unless it waits in iterator.Next, which does not know of the context
\* (discovery.go:207); if no such wait lasts for ever, discovery returns.
PeeringStops ==
  /\ ctx = "cancelled" ~> [](lpc = "stopped" /\ dpc \in {"stopped", "next"})
  /\ []<>(dpc # "next") => (ctx = "cancelled" ~> [](dpc = "stopped"))
=============================================================================
