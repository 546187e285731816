---------------------------- MODULE Subscriptions ---------------------------
(***************************************************************************)
(* The Subscription services (gossip/subscription.go) that GossipSub.Serve *)
(* adds to the watcher's supervisor, one per topic.  suture (external)     *)
(* calls a service's Serve again whenever it returns or panics before the  *)
(* context ends; when services fail too often it pauses all restarts for a *)
(* while.  The subscription a service reads from belongs to pubsub         *)
(* (external) and is created only once.                                    *)
(***************************************************************************)
EXTENDS Integers

CONSTANTS
  SubTopics, \* the topics that GossipSub.Serve subscribes to
  Buffer,    \* messages that pubsub queues for a subscriber (32)
  MaxPanics  \* bound: panics of handlers

ASSUME SubscriptionsAssumption ==
  /\ Buffer \in Nat \ {0}
  /\ MaxPanics \in Nat

VARIABLES
  serveCtx,    \* "live" or "cancelled"
  supervisor,  \* "running", "paused" or "stopped"
  pubsub,      \* "alive", or "dead": GossipSub.Serve, whose context it has,
               \* failed at a later topic
  sub,         \* pubsub's subscriptions: "none", "open" or "cancelled"
  queue,       \* messages waiting in each subscription's channel
  spc,         \* the services: "none", "down", "check", "next", "received",
               \* "handle", "return" or "stopped"
  panicked     \* history: how often each topic's handler panicked

subVars == <<serveCtx, supervisor, pubsub, sub, queue, spc, panicked>>

SubInit ==
  /\ serveCtx = "live"
  /\ supervisor = "running"
  /\ pubsub = "alive"
  /\ sub = [t \in SubTopics |-> "none"]
  /\ queue = [t \in SubTopics |-> 0]
  /\ spc = [t \in SubTopics |-> "none"]
  /\ panicked = [t \in SubTopics |-> 0]

Goto(t, label) == spc' = [spc EXCEPT ![t] = label]

\* GossipSub.Serve: Subscribe and supervisor.Add, before the program ends.
Subscribe(t) ==
  /\ sub[t] = "none"
  /\ pubsub = "alive" /\ serveCtx = "live"
  /\ sub' = [sub EXCEPT ![t] = "open"]
  /\ Goto(t, "down")
  /\ UNCHANGED <<serveCtx, supervisor, pubsub, queue, panicked>>

\* Join or Subscribe fails for a later topic: GossipSub.Serve returns, the
\* context that suture gave it ends, and pubsub with it.
GossipSubFails ==
  /\ pubsub = "alive"
  /\ \E t \in SubTopics : sub[t] = "none"
  /\ pubsub' = "dead"
  /\ UNCHANGED <<serveCtx, supervisor, sub, queue, spc, panicked>>

\* pubsub hands a message to the subscription, or drops it if the channel
\* is full.
Publish(t) ==
  /\ pubsub = "alive" /\ serveCtx = "live"
  /\ sub[t] = "open"
  /\ queue[t] < Buffer
  /\ queue' = [queue EXCEPT ![t] = @ + 1]
  /\ UNCHANGED <<serveCtx, supervisor, pubsub, sub, spc, panicked>>
-----------------------------------------------------------------------------
\* Mutant: a service is started once.
StartOnce(t) ==
  /\ spc[t] = "down"
  /\ sub[t] = "open"
  /\ supervisor = "running" /\ serveCtx = "live"
  /\ Goto(t, "check")
  /\ UNCHANGED <<serveCtx, supervisor, pubsub, sub, queue, panicked>>

\* Mutant: the service subscribes anew.
StartAnew(t) ==
  /\ spc[t] = "down"
  /\ supervisor = "running" /\ serveCtx = "live"
  /\ sub' = [sub EXCEPT ![t] = "open"]
  /\ Goto(t, "check")
  /\ UNCHANGED <<serveCtx, supervisor, pubsub, queue, panicked>>

\* suture calls Serve.
Start(t) ==
  /\ spc[t] = "down"
  /\ supervisor = "running" /\ serveCtx = "live"
  /\ Goto(t, "check")
  /\ UNCHANGED <<serveCtx, supervisor, pubsub, sub, queue, panicked>>

\* The select at the head of the loop.
Check(t) ==
  /\ spc[t] = "check"
  /\ Goto(t, IF serveCtx = "cancelled" THEN "return" ELSE "next")
  /\ UNCHANGED <<serveCtx, supervisor, pubsub, sub, queue, panicked>>

\* subscription.Next returns a message.  A closed channel still yields the
\* messages it holds.
NextMessage(t) ==
  /\ spc[t] = "next"
  /\ queue[t] > 0
  /\ queue' = [queue EXCEPT ![t] = @ - 1]
  /\ Goto(t, "received")
  /\ UNCHANGED <<serveCtx, supervisor, pubsub, sub, panicked>>

\* A message that the host itself sent makes the loop continue.
Received(t) ==
  /\ spc[t] = "received"
  /\ Goto(t, "check") \/ Goto(t, "handle")
  /\ UNCHANGED <<serveCtx, supervisor, pubsub, sub, queue, panicked>>

\* Mutant: Next is called without the context.
NextWaits(t) ==
  /\ spc[t] = "next"
  /\ sub[t] = "cancelled" /\ queue[t] = 0
  /\ Goto(t, "return")
  /\ UNCHANGED <<serveCtx, supervisor, pubsub, sub, queue, panicked>>

\* Next returns an error: the context has ended, or the channel is closed.
NextFails(t) ==
  /\ spc[t] = "next"
  /\ serveCtx = "cancelled" \/ (sub[t] = "cancelled" /\ queue[t] = 0)
  /\ Goto(t, "return")
  /\ UNCHANGED <<serveCtx, supervisor, pubsub, sub, queue, panicked>>

\* The handler returns, with an error or not.
HandlerReturns(t) ==
  /\ spc[t] = "handle"
  /\ Goto(t, "check")
  /\ UNCHANGED <<serveCtx, supervisor, pubsub, sub, queue, panicked>>

HandlerPanics(t) ==
  /\ spc[t] = "handle"
  /\ panicked[t] < MaxPanics
  /\ panicked' = [panicked EXCEPT ![t] = @ + 1]
  /\ Goto(t, "return")
  /\ UNCHANGED <<serveCtx, supervisor, pubsub, sub, queue>>

\* The deferred Cancel: pubsub closes the channel, which keeps what it
\* holds.  Cancel has no effect on a pubsub whose context has ended.  suture
\* notes the failure and may pause.
Return(t) ==
  /\ spc[t] = "return"
  /\ \/ pubsub = "alive" /\ sub' = [sub EXCEPT ![t] = "cancelled"]
     \/ (pubsub = "dead" \/ serveCtx = "cancelled") /\ UNCHANGED sub
  /\ Goto(t, IF serveCtx = "cancelled" THEN "stopped" ELSE "down")
  /\ \/ UNCHANGED supervisor
     \/ serveCtx = "live" /\ supervisor' = "paused"
  /\ UNCHANGED <<serveCtx, pubsub, queue, panicked>>

Resume ==
  /\ supervisor = "paused"
  /\ supervisor' = "running"
  /\ UNCHANGED <<serveCtx, pubsub, sub, queue, spc, panicked>>

CancelServices ==
  /\ serveCtx = "live"
  /\ serveCtx' = "cancelled"
  /\ UNCHANGED <<supervisor, pubsub, sub, queue, spc, panicked>>

\* The supervisor's Serve returns once no service runs.
Stop ==
  /\ serveCtx = "cancelled" /\ supervisor # "stopped"
  /\ \A t \in SubTopics : spc[t] \in {"none", "down", "stopped"}
  /\ supervisor' = "stopped"
  /\ UNCHANGED <<serveCtx, pubsub, sub, queue, spc, panicked>>

Serve(t) ==
  \/ Check(t) \/ NextMessage(t) \/ NextFails(t) \/ Received(t)
  \/ HandlerReturns(t) \/ Return(t)

SubNext ==
  \/ \E t \in SubTopics :
       Subscribe(t) \/ Publish(t) \/ Start(t) \/ Serve(t) \/ HandlerPanics(t)
  \/ GossipSubFails \/ Resume \/ CancelServices \/ Stop

SubSpec == SubInit /\ [][SubNext]_subVars

\* Goroutines are scheduled, suture restarts a service that is down whenever
\* it is not paused, and a pause ends.
FairSpec ==
  /\ SubSpec
  /\ \A t \in SubTopics : WF_subVars(Serve(t)) /\ SF_subVars(Start(t))
  /\ WF_subVars(Resume)
  /\ WF_subVars(Stop)
-----------------------------------------------------------------------------
SubTypeOK ==
  /\ serveCtx \in {"live", "cancelled"}
  /\ supervisor \in {"running", "paused", "stopped"}
  /\ pubsub \in {"alive", "dead"}
  /\ sub \in [SubTopics -> {"none", "open", "cancelled"}]
  /\ queue \in [SubTopics -> 0..Buffer]
  /\ spc \in [SubTopics -> {"none", "down", "check", "next", "received",
                            "handle", "return", "stopped"}]
  /\ panicked \in [SubTopics -> 0..MaxPanics]

\* Only a panic of its own handler, or the end of the program, costs a topic
\* its subscription: handler errors, messages of the host itself, pauses of
\* the supervisor and failures of other topics do not (Serve, lines 31-53).
OnlyPanicsCancel ==
  \A t \in SubTopics :
    sub[t] = "cancelled" => panicked[t] > 0 \/ serveCtx = "cancelled"

\* A panic is final for its topic.  The restarted service reads from the
\* subscription that the first one cancelled, so after a panic it sees no
\* more than the messages that were queued by then (the deferred Cancel of
\* line 31), and its handler can panic at most once for each of them.
PanicIsFinal == \A t \in SubTopics : panicked[t] <= Buffer + 1

\* A service whose subscription is cancelled is still restarted, again and
\* again.
RestartedForEver ==
  \A t \in SubTopics :
    (sub[t] = "cancelled" /\ serveCtx = "live")
      ~> (spc[t] = "check" \/ serveCtx = "cancelled")

\* A message in the channel of a topic is read, however often the services
\* of other topics fail and the supervisor pauses for them.
QueuesDrain ==
  \A t \in SubTopics :
    (sub[t] = "open" /\ queue[t] > 0 /\ serveCtx = "live")
      ~> \/ spc[t] = "received"
         \/ sub[t] = "cancelled" \/ serveCtx = "cancelled"

\* After the context has ended every service stops, also one that waits for
\* a message that never comes because pubsub is dead.
AllStop == (serveCtx = "cancelled") ~> (supervisor = "stopped")
=============================================================================
