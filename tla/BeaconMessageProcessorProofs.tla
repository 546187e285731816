-------------------- MODULE BeaconMessageProcessorProofs --------------------
(***************************************************************************)
(* Proofs about BeaconMessageProcessor, for any set of messages, topics,   *)
(* slots, copies and times.                                                *)
(***************************************************************************)
EXTENDS BeaconMessageProcessor, TLAPS

USE DEF Idle, Stopped

\* Adding a record keeps the type of the store (slot_cache.go).
LEMMA StoreTypes ==
  ASSUME NEW C, DOMAIN C \subseteq Nat, C \in [DOMAIN C -> SUBSET Messages],
         NEW s \in Nat, NEW m \in Messages
  PROVE  /\ DOMAIN Add(C, s, m) \subseteq Nat
         /\ Add(C, s, m) \in [DOMAIN Add(C, s, m) -> SUBSET Messages]
BY DEF MessageStats, Add

\* Counting and popping keep the type of the counter: no entry is ever zero
\* (seen_counter.go).
LEMMA CounterTypes ==
  ASSUME NEW C, DOMAIN C \subseteq Messages, C \in [DOMAIN C -> Nat \ {0}],
         NEW m \in Messages
  PROVE  /\ SeenCount(C, m) \in Nat
         /\ PopFound(C, m) => SeenCount(C, m) \in Nat \ {0}
         /\ DOMAIN IncreaseByRawID(C, m) \subseteq Messages
         /\ IncreaseByRawID(C, m)
              \in [DOMAIN IncreaseByRawID(C, m) -> Nat \ {0}]
         /\ DOMAIN Pop(C, m) \subseteq Messages
         /\ Pop(C, m) \in [DOMAIN Pop(C, m) -> Nat \ {0}]
BY DEF SeenCount, PopFound, IncreaseByRawID, Pop, Restrict

\* The bookkeeping functions stay functions into Nat.
LEMMA TallyTypes ==
  ASSUME NEW f \in [Messages -> Nat], NEW m \in Messages
  PROVE  /\ Inc(f, m) \in [Messages -> Nat]
         /\ f[m] > 0 => Dec(f, m) \in [Messages -> Nat]
BY DEF Inc, Dec

\* The slot number flushCompletedSlots computes is a natural number.
LEMMA CurrentSlotType == TypeOK => CurrentSlot \in Nat
BY ConstantsAssumption DEF TypeOK, CurrentSlot

\* Every reachable state is well typed; in particular the notification
\* channel never exceeds its capacity and no count in the map is zero.
THEOREM TypeCorrect == Spec => []TypeOK
<1>1. Init => TypeOK
  <2> SUFFICES ASSUME Init PROVE TypeOK
    OBVIOUS
  <2>1. Zero \in [Messages -> Nat]
    BY DEF Zero
  <2>2. /\ DOMAIN caches = {}
        /\ caches \in [DOMAIN caches -> SUBSET Messages]
    BY DEF Init, NewSlotCacheStore
  <2>3. /\ DOMAIN counts = {}
        /\ counts \in [DOMAIN counts -> Nat \ {0}]
    BY DEF Init, NewSeenCounter
  <2>4. handling \in [Topics -> Messages \cup {Idle, Stopped}]
    BY DEF Init
  <2>5. /\ now \in GenesisTime..MaxTime
        /\ messageNotify \in 0..NotifyCap
    BY ConstantsAssumption DEF Init
  <2> QED
    BY <2>1, <2>2, <2>3, <2>4, <2>5, Zenon DEF Init, TypeOK
<1>2. TypeOK /\ [Next]_vars => TypeOK'
  <2> SUFFICES ASSUME TypeOK, [Next]_vars PROVE TypeOK'
    OBVIOUS
  <2> USE ConstantsAssumption DEF TypeOK, pubsubVars, flushVars, outcomeVars
  <2>1. CASE AdvanceTime
    BY <2>1 DEF AdvanceTime
  <2>2. CASE TickerFires
    BY <2>2 DEF TickerFires
  <2>3. CASE Cancel
    BY <2>3 DEF Cancel
  <2>4. CASE CloseRepository
    BY <2>4 DEF CloseRepository
  <2>5. ASSUME NEW m \in Messages, ReceiveNew(m) PROVE TypeOK'
    <3>1. /\ received' \in [Messages -> Nat]
          /\ delivered' \in [Messages -> Nat]
          /\ queue' \in [Messages -> Nat]
      BY <2>5, TallyTypes, Zenon DEF ReceiveNew, MessageIdFn
    <3>2. /\ DOMAIN counts' \subseteq Messages
          /\ counts' \in [DOMAIN counts' -> Nat \ {0}]
      BY <2>5, CounterTypes, Zenon DEF ReceiveNew, MessageIdFn
    <3> QED
      BY <2>5, <3>1, <3>2 DEF ReceiveNew
  <2>6. ASSUME NEW m \in Messages, ReceiveDuplicate(m) PROVE TypeOK'
    <3>1. /\ received' \in [Messages -> Nat]
      BY <2>6, TallyTypes, Zenon DEF ReceiveDuplicate, MessageIdFn
    <3>2. /\ DOMAIN counts' \subseteq Messages
          /\ counts' \in [DOMAIN counts' -> Nat \ {0}]
      BY <2>6, CounterTypes DEF ReceiveDuplicate, MessageIdFn
    <3> QED
      BY <2>6, <3>1, <3>2 DEF ReceiveDuplicate
  <2>7. ASSUME NEW m \in Messages, ReceiveDropped(m) PROVE TypeOK'
    <3>1. /\ received' \in [Messages -> Nat]
          /\ delivered' \in [Messages -> Nat]
          /\ discarded' \in [Messages -> Nat]
      BY <2>7, TallyTypes, Zenon DEF ReceiveDropped, MessageIdFn
    <3>2. /\ DOMAIN counts' \subseteq Messages
          /\ counts' \in [DOMAIN counts' -> Nat \ {0}]
      BY <2>7, CounterTypes, Zenon DEF ReceiveDropped, MessageIdFn
    <3> QED
      BY <2>7, <3>1, <3>2 DEF ReceiveDropped
  <2>8. ASSUME NEW m \in Messages, Forget(m) PROVE TypeOK'
    BY <2>8 DEF Forget
  <2>9. ASSUME NEW m \in Messages, NextMessage(m) PROVE TypeOK'
    BY <2>9, TallyTypes, Zenon DEF NextMessage
  <2>10. ASSUME NEW m \in Messages, SkipMessage(m) PROVE TypeOK'
    BY <2>10, TallyTypes, Zenon DEF SkipMessage, LoopHead
  <2>11. ASSUME NEW m \in Messages, ProcessSlotMessage(m) PROVE TypeOK'
    <3>1. /\ DOMAIN caches' \subseteq Nat
          /\ caches' \in [DOMAIN caches' -> SUBSET Messages]
      BY <2>11, StoreTypes, Zenon DEF ProcessSlotMessage
    <3>2. discarded' \in [Messages -> Nat]
      BY <2>11, TallyTypes, Zenon DEF ProcessSlotMessage
    <3>3. handling' \in [Topics -> Messages \cup {Idle, Stopped}]
      BY <2>11 DEF ProcessSlotMessage, LoopHead
    <3> QED
      BY <2>11, <3>1, <3>2, <3>3 DEF ProcessSlotMessage, Notify
  <2>12. ASSUME NEW m \in Messages, ProcessGeneralMessage(m) PROVE TypeOK'
    BY <2>12, TallyTypes, Zenon DEF ProcessGeneralMessage, LoopHead
  <2>13. ASSUME NEW m \in Messages, SaveGeneralMessageHistory(m) PROVE TypeOK'
    <3>1. /\ saving' \in [Messages -> Nat]
          /\ rows' \in [Messages -> Nat]
          /\ lost' \in [Messages -> Nat]
      BY <2>13 DEF SaveGeneralMessageHistory, Inc, Dec
    <3> QED
      BY <2>13, <3>1 DEF SaveGeneralMessageHistory
  <2>14. ASSUME NEW t \in Topics, StopSubscription(t) PROVE TypeOK'
    BY <2>14 DEF StopSubscription
  <2>15. CASE ServeTick
    BY <2>15, CurrentSlotType, Zenon DEF ServeTick, StartFlush
  <2>16. CASE ServeDone
    BY <2>16, CurrentSlotType DEF ServeDone, StartFlush
  <2>17. CASE ServeNotify
    BY <2>17 DEF ServeNotify
  <2>18. CASE FlushScan
    BY <2>18 DEF FlushScan, CompletedSlots
  <2>19. ASSUME NEW s \in slots, FlushDrain(s) PROVE TypeOK'
    <3>1. MessageStats(caches, s) \subseteq Messages
      BY <2>19, s \in Nat DEF MessageStats
    <3>2. /\ DOMAIN caches' \subseteq Nat
          /\ caches' \in [DOMAIN caches' -> SUBSET Messages]
      BY <2>19 DEF FlushDrain, DrainSlot, Restrict
    <3> QED
      BY <2>19, <3>1, <3>2 DEF FlushDrain
  <2>20. ASSUME NEW m \in unpopped, FlushPop(m) PROVE TypeOK'
    <3>1. /\ seenCount' \in [Messages -> Nat]
          /\ DOMAIN counts' \subseteq Messages
          /\ counts' \in [DOMAIN counts' -> Nat \ {0}]
      BY <2>20, CounterTypes DEF FlushPop
    <3>2. guessed' \in [Messages -> Nat]
      BY <2>20, TallyTypes, Zenon DEF FlushPop
    <3> QED
      BY <2>20, <3>1, <3>2 DEF FlushPop
  <2>21. CASE SaveWritten
    <3>1. /\ rows' \in [Messages -> Nat]
          /\ rowsSeen' \in [Messages -> Nat]
      BY <2>21 DEF SaveWritten, IncAll, AddAll
    <3>2. seenCount' \in [Messages -> Nat]
      BY <2>21 DEF SaveWritten, SaveReturns, Zero
    <3> QED
      BY <2>21, <3>1, <3>2 DEF SaveWritten, SaveReturns
  <2>22. CASE SaveFailed
    <3>1. /\ lost' \in [Messages -> Nat]
          /\ lostSeen' \in [Messages -> Nat]
      BY <2>22 DEF SaveFailed, IncAll, AddAll
    <3>2. seenCount' \in [Messages -> Nat]
      BY <2>22 DEF SaveFailed, SaveReturns, Zero
    <3> QED
      BY <2>22, <3>1, <3>2 DEF SaveFailed, SaveReturns
  <2>23. CASE FlushEnd
    BY <2>23 DEF FlushEnd
  <2>24. CASE UNCHANGED vars
    BY <2>24 DEF vars
  <2> QED
    BY <2>1, <2>2, <2>3, <2>4, <2>5, <2>6, <2>7, <2>8, <2>9, <2>10, <2>11,
       <2>12, <2>13, <2>14, <2>15, <2>16, <2>17, <2>18, <2>19, <2>20, <2>21,
       <2>22, <2>23, <2>24, ZenonT(40)
    DEF Next, Flush
<1> QED
  BY <1>1, <1>2, PTL DEF Spec
-----------------------------------------------------------------------------
\* The steps of the clock, the ticker, the signal, pubsub and the save
\* goroutines, and the notify case of Serve, leave the subscriptions, the
\* slot cache and the flush loop's batch alone.
LEMMA OutsideSteps ==
  ASSUME \/ AdvanceTime \/ TickerFires \/ Cancel \/ CloseRepository
         \/ \E m \in Messages : \/ ReceiveNew(m) \/ ReceiveDuplicate(m)
                                \/ ReceiveDropped(m) \/ Forget(m)
                                \/ SaveGeneralMessageHistory(m)
         \/ ServeNotify \/ UNCHANGED vars
  PROVE  UNCHANGED <<handling, caches, late, flushVars>>
BY DEF AdvanceTime, TickerFires, Cancel, CloseRepository, ReceiveNew,
       ReceiveDuplicate, ReceiveDropped, Forget, SaveGeneralMessageHistory,
       ServeNotify, vars, flushVars

\* Every message is in one topic's subscription and in one slot's entry, and
\* the flush loop's batch has the shape its program counter says.
THEOREM PipelineInvariant == Spec => []PipelineInv
<1>1. Init => PipelineInv
  BY MarkersAssumption
  DEF Init, PipelineInv, Zero, NewSlotCacheStore
<1>2. TypeOK /\ PipelineInv /\ [Next]_vars => PipelineInv'
  <2> SUFFICES ASSUME TypeOK, PipelineInv, [Next]_vars PROVE PipelineInv'
    OBVIOUS
  <2> USE ConstantsAssumption, MarkersAssumption
  <2>1. CASE UNCHANGED <<handling, caches, late, flushVars>>
    BY <2>1 DEF PipelineInv, flushVars
  <2>2. ASSUME NEW m \in Messages, NextMessage(m) PROVE PipelineInv'
    BY <2>2 DEF NextMessage, PipelineInv, flushVars, TypeOK
  <2>3. ASSUME NEW m \in Messages, SkipMessage(m) PROVE PipelineInv'
    BY <2>3 DEF SkipMessage, PipelineInv, flushVars, LoopHead, TypeOK
  <2>4. ASSUME NEW m \in Messages, ProcessSlotMessage(m) PROVE PipelineInv'
    <3>1. \A t \in Topics :
             handling'[t] \in Messages => TopicOf[handling'[t]] = t
      BY <2>4 DEF ProcessSlotMessage, PipelineInv, LoopHead, TypeOK
    <3>2. /\ DOMAIN caches' = DOMAIN caches \cup {SlotOf[m]}
          /\ caches'[SlotOf[m]] = MessageStats(caches, SlotOf[m]) \cup {m}
          /\ \A s \in DOMAIN caches \ {SlotOf[m]} : caches'[s] = caches[s]
          /\ KindOf[m] = "slot"
      BY <2>4 DEF ProcessSlotMessage, Add
    <3>3. \A n \in MessageStats(caches, SlotOf[m]) :
            SlotOf[n] = SlotOf[m] /\ KindOf[n] = "slot"
      BY DEF MessageStats, PipelineInv
    <3>4. \A s \in DOMAIN caches' :
            /\ caches'[s] # {}
            /\ \A n \in caches'[s] : SlotOf[n] = s /\ KindOf[n] = "slot"
      BY <3>2, <3>3 DEF PipelineInv
    <3> QED
      BY <2>4, <3>1, <3>2, <3>4 DEF ProcessSlotMessage, PipelineInv, flushVars
  <2>5. ASSUME NEW m \in Messages, ProcessGeneralMessage(m)
        PROVE  PipelineInv'
    BY <2>5 DEF ProcessGeneralMessage, PipelineInv, flushVars, LoopHead, TypeOK
  <2>6. ASSUME NEW t \in Topics, StopSubscription(t) PROVE PipelineInv'
    BY <2>6 DEF StopSubscription, PipelineInv, flushVars, TypeOK
  <2>7. CASE ServeTick \/ ServeDone
    BY <2>7 DEF ServeTick, ServeDone, StartFlush, PipelineInv
  <2>8. CASE FlushScan
    BY <2>8 DEF FlushScan, CompletedSlots, PipelineInv
  <2>9. ASSUME NEW s \in slots, FlushDrain(s) PROVE PipelineInv'
    BY <2>9
    DEF FlushDrain, DrainSlot, Restrict, MessageStats, PipelineInv, TypeOK
  <2>10. ASSUME NEW m \in unpopped, FlushPop(m) PROVE PipelineInv'
    <3>1. m \in stats /\ m \in Messages
      BY <2>10 DEF PipelineInv, TypeOK
    <3>2. seenCount'[m] > 0
      <4>1. PopFound(counts, m) => SeenCount(counts, m) > 0
        BY <3>1 DEF PopFound, SeenCount, TypeOK
      <4> QED
        BY <2>10, <3>1, <4>1 DEF FlushPop, TypeOK
    <3>3. \A n \in Messages : seenCount'[n] > 0 <=> n \in stats' \ unpopped'
      BY <2>10, <3>1, <3>2 DEF FlushPop, PipelineInv, TypeOK
    <3> QED
      BY <2>10, <3>1, <3>3 DEF FlushPop, PipelineInv
  <2>11. CASE SaveWritten \/ SaveFailed
    BY <2>11 DEF SaveWritten, SaveFailed, SaveReturns, Zero, PipelineInv
  <2>12. CASE FlushEnd
    BY <2>12 DEF FlushEnd, PipelineInv
  <2> QED
    BY <2>1, <2>2, <2>3, <2>4, <2>5, <2>6, <2>7, <2>8, <2>9, <2>10, <2>11,
       <2>12, OutsideSteps
    DEF Next, Flush
<1> QED
  BY <1>1, <1>2, TypeCorrect, PTL DEF Spec
-----------------------------------------------------------------------------
\* What a step of the seen counter does to the count of any message.
LEMMA CountOfSteps ==
  ASSUME NEW C, DOMAIN C \subseteq Messages, C \in [DOMAIN C -> Nat \ {0}],
         NEW m \in Messages, NEW n \in Messages
  PROVE  /\ SeenCount(IncreaseByRawID(C, m), n)
              = SeenCount(C, n) + One(n = m)
         /\ SeenCount(Pop(C, m), n) = IF n = m THEN 0 ELSE SeenCount(C, n)
BY DEF SeenCount, IncreaseByRawID, Pop, Restrict, One

\* Every received copy is accounted for, whatever the interleaving of the
\* message-ID callback, the subscriptions and the flush loop, and however
\* often pubsub delivers a message again.
THEOREM SeenConservation == Spec => []SeenConserved
<1>1. Init => SeenConserved
  BY DEF Init, SeenConserved, Zero, NewSeenCounter, SeenCount
<1>2. TypeOK /\ PipelineInv /\ SeenConserved /\ [Next]_vars => SeenConserved'
  <2> SUFFICES ASSUME TypeOK, PipelineInv, SeenConserved, [Next]_vars,
                      NEW n \in Messages
               PROVE  (SeenCount(counts, n) + seenCount[n] + rowsSeen[n]
                         + lostSeen[n] = received[n] + guessed[n])'
    BY DEF SeenConserved
  <2>1. SeenCount(counts, n) + seenCount[n] + rowsSeen[n] + lostSeen[n]
          = received[n] + guessed[n]
    BY DEF SeenConserved
  <2>2. /\ SeenCount(counts, n) \in Nat
        /\ seenCount[n] \in Nat /\ rowsSeen[n] \in Nat /\ lostSeen[n] \in Nat
        /\ received[n] \in Nat /\ guessed[n] \in Nat
    BY CounterTypes, Zenon DEF TypeOK
  <2> USE <2>1, <2>2
  <2>3. CASE UNCHANGED <<counts, seenCount, rowsSeen, lostSeen, received,
                         guessed>>
    BY <2>3
  <2>4. ASSUME NEW m \in Messages, MessageIdFn(m),
               UNCHANGED <<flushVars, outcomeVars>>
        PROVE  (SeenCount(counts, n) + seenCount[n] + rowsSeen[n]
                  + lostSeen[n] = received[n] + guessed[n])'
    <3>1. SeenCount(counts', n) = SeenCount(counts, n) + One(n = m)
      BY <2>4, CountOfSteps DEF MessageIdFn, TypeOK
    <3>2. received'[n] = received[n] + One(n = m)
      BY <2>4 DEF MessageIdFn, Inc, One, TypeOK
    <3> QED
      BY <2>4, <3>1, <3>2 DEF flushVars, outcomeVars, One
  <2>5. ASSUME NEW m \in unpopped, FlushPop(m)
        PROVE  (SeenCount(counts, n) + seenCount[n] + rowsSeen[n]
                  + lostSeen[n] = received[n] + guessed[n])'
    <3>1. /\ m \in Messages
          /\ seenCount[m] = 0
      BY <2>5 DEF PipelineInv, TypeOK
    <3>2. /\ counts' = Pop(counts, m)
          /\ rowsSeen'[n] = rowsSeen[n]
          /\ lostSeen'[n] = lostSeen[n]
          /\ received'[n] = received[n]
      BY <2>5 DEF FlushPop, pubsubVars
    <3>3. SeenCount(counts', n) = IF n = m THEN 0 ELSE SeenCount(counts, n)
      <4>1. /\ DOMAIN counts \subseteq Messages
            /\ counts \in [DOMAIN counts -> Nat \ {0}]
        BY DEF TypeOK
      <4> QED
        BY <3>1, <3>2, <4>1, CountOfSteps
    <3>4. /\ n # m => seenCount'[n] = seenCount[n] /\ guessed'[n] = guessed[n]
          /\ n = m /\ PopFound(counts, m) =>
               seenCount'[n] = SeenCount(counts, n) /\ guessed'[n] = guessed[n]
          /\ n = m /\ ~PopFound(counts, m) =>
               seenCount'[n] = 1 /\ guessed'[n] = guessed[n] + 1
      BY <2>5, <3>1 DEF FlushPop, Inc, TypeOK
    <3>5. ~PopFound(counts, m) => SeenCount(counts, m) = 0
      BY DEF PopFound, SeenCount
    <3>6. CASE n # m
      BY <3>2, <3>3, <3>4, <3>6
    <3>7. CASE n = m /\ PopFound(counts, m)
      BY <3>1, <3>2, <3>3, <3>4, <3>7
    <3>8. CASE n = m /\ ~PopFound(counts, m)
      <4>1. /\ SeenCount(counts, n) = 0 /\ seenCount[n] = 0
            /\ SeenCount(counts', n) = 0
        BY <3>1, <3>3, <3>5, <3>8
      <4>2. seenCount'[n] = 1 /\ guessed'[n] = guessed[n] + 1
        BY <3>4, <3>8
      <4> QED
        BY <3>2, <4>1, <4>2
    <3> QED
      BY <3>6, <3>7, <3>8
  <2>6. CASE SaveWritten
    <3>1. /\ SeenCount(counts', n) = SeenCount(counts, n)
          /\ seenCount'[n] = 0
          /\ lostSeen'[n] = lostSeen[n]
          /\ received'[n] = received[n]
          /\ guessed'[n] = guessed[n]
          /\ rowsSeen'[n] = rowsSeen[n]
                             + (IF n \in stats THEN seenCount[n] ELSE 0)
      BY <2>6 DEF SaveWritten, SaveReturns, AddAll, Zero, pubsubVars
    <3>2. n \notin stats => seenCount[n] = 0
      BY <2>6 DEF PipelineInv
    <3>3. rowsSeen'[n] = rowsSeen[n] + seenCount[n]
      BY <3>1, <3>2
    <3> QED
      BY <3>1, <3>3
  <2>7. CASE SaveFailed
    <3>1. /\ SeenCount(counts', n) = SeenCount(counts, n)
          /\ seenCount'[n] = 0
          /\ rowsSeen'[n] = rowsSeen[n]
          /\ received'[n] = received[n]
          /\ guessed'[n] = guessed[n]
          /\ lostSeen'[n] = lostSeen[n]
                             + (IF n \in stats THEN seenCount[n] ELSE 0)
      BY <2>7 DEF SaveFailed, SaveReturns, AddAll, Zero, pubsubVars
    <3>2. n \notin stats => seenCount[n] = 0
      BY <2>7 DEF PipelineInv
    <3>3. lostSeen'[n] = lostSeen[n] + seenCount[n]
      BY <3>1, <3>2
    <3> QED
      BY <3>1, <3>3
  <2> QED
    BY <2>3, <2>4, <2>5, <2>6, <2>7, Zenon
    DEF Next, Flush, AdvanceTime, TickerFires, Cancel, CloseRepository,
        ReceiveNew, ReceiveDuplicate, ReceiveDropped, Forget, NextMessage,
        SkipMessage, ProcessSlotMessage, ProcessGeneralMessage,
        SaveGeneralMessageHistory, StopSubscription, ServeTick, ServeDone,
        StartFlush, ServeNotify, FlushScan, FlushDrain, FlushEnd, vars,
        pubsubVars, flushVars, outcomeVars
<1> QED
  BY <1>1, <1>2, TypeCorrect, PipelineInvariant, PTL DEF Spec
-----------------------------------------------------------------------------
\* Add and DrainSlot on the record of any message (slot_cache.go).
LEMMA CachedSteps ==
  ASSUME NEW C, NEW n \in Messages
  PROVE  /\ \A m \in Messages :
              n \in MessageStats(Add(C, SlotOf[m], m), SlotOf[n])
                <=> n \in MessageStats(C, SlotOf[n]) \/ n = m
         /\ \A s : n \in MessageStats(DrainSlot(C, s), SlotOf[n])
                     <=> n \in MessageStats(C, SlotOf[n]) /\ SlotOf[n] # s
BY DEF MessageStats, Add, DrainSlot, Restrict

\* The batch DrainSlot returns is the cached records of that slot.
LEMMA BatchIsSlot ==
  ASSUME PipelineInv, NEW s \in DOMAIN caches, NEW n \in Messages
  PROVE  n \in MessageStats(caches, s) <=> Cached(n) /\ SlotOf[n] = s
BY DEF PipelineInv, Cached, MessageStats

\* A subscription that takes a message from its queue handles that one more.
LEMMA HandledWhenTaken ==
  ASSUME TypeOK, NEW m \in Messages, NEW n \in Messages,
         handling[TopicOf[m]] = Idle,
         handling' = [handling EXCEPT ![TopicOf[m]] = m]
  PROVE  One(Handled(n)') = One(Handled(n)) + One(n = m)
<1>1. Handled(n)' <=> (Handled(n) \/ n = m)
  BY ConstantsAssumption, MarkersAssumption DEF TypeOK, Handled
<1>2. ~Handled(m)
  BY ConstantsAssumption, MarkersAssumption DEF TypeOK, Handled
<1> QED
  BY <1>1, <1>2 DEF One

\* A subscription that is done with a message handles that one no longer.
LEMMA HandledWhenDone ==
  ASSUME TypeOK, NEW m \in Messages, NEW n \in Messages,
         handling[TopicOf[m]] = m,
         handling' = [handling EXCEPT ![TopicOf[m]] = LoopHead]
  PROVE  One(Handled(n)) = One(Handled(n)') + One(n = m)
<1>1. Handled(n)' <=> (Handled(n) /\ n # m)
  BY ConstantsAssumption, MarkersAssumption DEF TypeOK, Handled, LoopHead
<1>2. Handled(m)
  BY DEF Handled
<1> QED
  BY <1>1, <1>2 DEF One

\* No delivery is duplicated or vanishes on its way from pubsub to the
\* repository, whatever the interleaving and however often pubsub delivers
\* a message again.
THEOREM DeliveryConservation == Spec => []DeliveriesConserved
<1>1. Init => DeliveriesConserved
  <2> SUFFICES ASSUME Init, NEW n \in Messages PROVE delivered[n] = Places(n)
    BY DEF DeliveriesConserved
  <2>1. ~Handled(n)
    BY ConstantsAssumption, MarkersAssumption DEF Init, Handled
  <2>2. ~Cached(n) /\ ~Drained(n)
    BY DEF Init, NewSlotCacheStore, MessageStats, Cached, Drained
  <2>3. /\ delivered[n] = 0 /\ queue[n] = 0 /\ saving[n] = 0
        /\ rows[n] = 0 /\ lost[n] = 0 /\ discarded[n] = 0
    <3>1. Zero[n] = 0
      BY DEF Zero
    <3> QED
      BY <3>1 DEF Init
  <2> QED
    BY <2>1, <2>2, <2>3 DEF Places, One
<1>2. /\ TypeOK /\ PipelineInv
      /\ DeliveriesConserved
      /\ [Next]_vars
      => DeliveriesConserved'
  <2> SUFFICES ASSUME TypeOK, PipelineInv, DeliveriesConserved, [Next]_vars,
                      NEW n \in Messages
               PROVE  (delivered[n] = Places(n))'
    BY DEF DeliveriesConserved
  <2>1. PICK h \in 0..1, c \in 0..1, d \in 0..1 :
           /\ h = One(Handled(n))
           /\ c = One(Cached(n))
           /\ d = One(Drained(n))
    BY DEF One
  <2>2. PICK hh \in 0..1, cc \in 0..1, dd \in 0..1 :
           /\ hh = One(Handled(n))'
           /\ cc = One(Cached(n))'
           /\ dd = One(Drained(n))'
    BY DEF One
  <2>3. /\ delivered[n] \in Nat /\ queue[n] \in Nat /\ saving[n] \in Nat
        /\ rows[n] \in Nat /\ lost[n] \in Nat /\ discarded[n] \in Nat
    BY DEF TypeOK
  <2>4. delivered[n] = queue[n] + h + c + d + saving[n] + rows[n] + lost[n]
                       + discarded[n]
    BY <2>1 DEF DeliveriesConserved, Places
  <2> DEFINE Goal == delivered'[n] = queue'[n] + hh + cc + dd + saving'[n]
                                     + rows'[n] + lost'[n] + discarded'[n]
  <2>5. SUFFICES Goal
    BY <2>2 DEF Places
  <2>6. ASSUME UNCHANGED handling PROVE hh = h
    BY <2>1, <2>2, <2>6 DEF Handled
  <2>7. ASSUME UNCHANGED caches PROVE cc = c
    BY <2>1, <2>2, <2>7 DEF Cached
  <2>8. ASSUME UNCHANGED stats PROVE dd = d
    BY <2>1, <2>2, <2>8 DEF Drained
  <2>9. CASE UNCHANGED <<delivered, queue, handling, caches, stats, saving,
                         rows, lost, discarded>>
    BY <2>4, <2>6, <2>7, <2>8, <2>9
  <2>10. ASSUME NEW m \in Messages, ReceiveNew(m) PROVE Goal
    <3>1. PICK e \in 0..1 : e = One(n = m)
      BY DEF One
    <3>2. /\ delivered'[n] = delivered[n] + e
          /\ queue'[n] = queue[n] + e
      BY <2>10, <3>1 DEF ReceiveNew, Inc, One, TypeOK
    <3>3. UNCHANGED <<handling, caches, stats, saving, rows, lost, discarded>>
      BY <2>10 DEF ReceiveNew, flushVars, outcomeVars
    <3> QED
      BY <2>3, <2>4, <2>6, <2>7, <2>8, <3>2, <3>3
  <2>11. ASSUME NEW m \in Messages, ReceiveDropped(m) PROVE Goal
    <3>1. PICK e \in 0..1 : e = One(n = m)
      BY DEF One
    <3>2. /\ delivered'[n] = delivered[n] + e
          /\ discarded'[n] = discarded[n] + e
      BY <2>11, <3>1 DEF ReceiveDropped, Inc, One, TypeOK
    <3>3. UNCHANGED <<queue, handling, caches, stats, saving, rows, lost>>
      BY <2>11 DEF ReceiveDropped, flushVars, outcomeVars
    <3> QED
      BY <2>3, <2>4, <2>6, <2>7, <2>8, <3>2, <3>3
  <2>12. ASSUME NEW m \in Messages, NextMessage(m) PROVE Goal
    <3>1. PICK e \in 0..1 : e = One(n = m)
      BY DEF One
    <3>2. queue'[n] = queue[n] - e
      BY <2>12, <3>1 DEF NextMessage, Dec, One, TypeOK
    <3>3. UNCHANGED <<delivered, caches, stats, saving, rows, lost, discarded>>
      BY <2>12 DEF NextMessage, flushVars, outcomeVars
    <3>4. hh = h + e
      BY <2>1, <2>2, <2>12, <3>1, HandledWhenTaken, ZenonT(40) DEF NextMessage
    <3> QED
      BY <2>3, <2>4, <2>7, <2>8, <3>2, <3>3, <3>4
  <2>13. ASSUME NEW m \in Messages, SkipMessage(m) PROVE Goal
    <3>1. PICK e \in 0..1 : e = One(n = m)
      BY DEF One
    <3>2. discarded'[n] = discarded[n] + e
      BY <2>13, <3>1 DEF SkipMessage, Inc, One, TypeOK
    <3>3. UNCHANGED <<delivered, queue, caches, stats, saving, rows, lost>>
      BY <2>13, Zenon DEF SkipMessage, pubsubVars, flushVars, outcomeVars
    <3>4. h = hh + e
      BY <2>1, <2>2, <2>13, <3>1, HandledWhenDone, ZenonT(40) DEF SkipMessage
    <3> QED
      BY <2>3, <2>4, <2>7, <2>8, <3>2, <3>3, <3>4
  <2>14. ASSUME NEW m \in Messages, ProcessSlotMessage(m) PROVE Goal
    <3>1. PICK e \in 0..1 : e = One(n = m)
      BY DEF One
    <3>2. PICK f \in 0..1 : f = One(n = m /\ Cached(n))
      BY DEF One
    <3>3. UNCHANGED <<delivered, queue, stats, saving, rows, lost>>
      BY <2>14 DEF ProcessSlotMessage, pubsubVars, flushVars, outcomeVars
    <3>4. h = hh + e
      BY <2>1, <2>2, <2>14, <3>1, HandledWhenDone, ZenonT(40)
      DEF ProcessSlotMessage
    <3>5. discarded'[n] = discarded[n] + f
      BY <2>14, <3>2
      DEF ProcessSlotMessage, Inc, One, Cached, AddIsNew, TypeOK
    <3>6. Cached(n)' <=> (Cached(n) \/ n = m)
      BY <2>14, CachedSteps DEF ProcessSlotMessage, Cached
    <3>7. cc = 1 <=> (c = 1 \/ e = 1)
      BY <2>1, <2>2, <3>1, <3>6 DEF One
    <3>8. f = 1 <=> (c = 1 /\ e = 1)
      BY <2>1, <3>1, <3>2 DEF One
    <3>9. cc + f = c + e
      BY <3>7, <3>8
    <3>10. /\ delivered'[n] = delivered[n] /\ queue'[n] = queue[n]
           /\ saving'[n] = saving[n] /\ rows'[n] = rows[n]
           /\ lost'[n] = lost[n]
      BY <3>3, Zenon
    <3>11. dd = d
      BY <2>8, <3>3, Zenon
    <3>12. delivered[n] = queue[n] + hh + cc + d + saving[n] + rows[n]
                          + lost[n] + (discarded[n] + f)
      <4>1. h + c = hh + cc + f
        BY <3>4, <3>9
      <4>2. delivered[n] = (h + c) + queue[n] + d + saving[n] + rows[n]
                           + lost[n] + discarded[n]
        BY <2>3, <2>4
      <4>3. delivered[n] = (hh + cc + f) + queue[n] + d + saving[n] + rows[n]
                           + lost[n] + discarded[n]
        BY <4>1, <4>2, Zenon
      <4> QED
        BY <2>3, <4>3
    <3> QED
      BY <3>5, <3>10, <3>11, <3>12, Zenon
  <2>15. ASSUME NEW m \in Messages, ProcessGeneralMessage(m) PROVE Goal
    <3>1. PICK e \in 0..1 : e = One(n = m)
      BY DEF One
    <3>2. saving'[n] = saving[n] + e
      BY <2>15, <3>1 DEF ProcessGeneralMessage, Inc, One, TypeOK
    <3>3. UNCHANGED <<delivered, queue, caches, stats, rows, lost, discarded>>
      BY <2>15 DEF ProcessGeneralMessage, pubsubVars, flushVars, outcomeVars
    <3>4. h = hh + e
      BY <2>1, <2>2, <2>15, <3>1, HandledWhenDone, ZenonT(40)
      DEF ProcessGeneralMessage
    <3> QED
      BY <2>3, <2>4, <2>7, <2>8, <3>2, <3>3, <3>4
  <2>16. ASSUME NEW m \in Messages, SaveGeneralMessageHistory(m) PROVE Goal
    <3>1. PICK e \in 0..1 : e = One(n = m)
      BY DEF One
    <3>2. saving'[n] = saving[n] - e
      BY <2>16, <3>1 DEF SaveGeneralMessageHistory, Dec, One, TypeOK
    <3>3. UNCHANGED <<delivered, queue, handling, caches, stats, discarded>>
      BY <2>16 DEF SaveGeneralMessageHistory, pubsubVars, flushVars
    <3>4. \/ rows'[n] = rows[n] + e /\ lost'[n] = lost[n]
          \/ rows'[n] = rows[n] /\ lost'[n] = lost[n] + e
      BY <2>16, <3>1 DEF SaveGeneralMessageHistory, Inc, One, TypeOK
    <3> QED
      BY <2>3, <2>4, <2>6, <2>7, <2>8, <3>2, <3>3, <3>4
  <2>17. ASSUME NEW t \in Topics, StopSubscription(t) PROVE Goal
    <3>1. UNCHANGED <<delivered, queue, caches, stats, saving, rows, lost,
                      discarded>>
      BY <2>17 DEF StopSubscription, pubsubVars, flushVars, outcomeVars
    <3>2. Handled(n)' <=> Handled(n)
      BY <2>17, ConstantsAssumption, MarkersAssumption
      DEF StopSubscription, Handled, TypeOK
    <3>3. hh = h
      BY <2>1, <2>2, <3>2 DEF One
    <3> QED
      BY <2>4, <2>7, <2>8, <3>1, <3>3
  <2>18. ASSUME NEW s \in slots, FlushDrain(s) PROVE Goal
    <3>1. UNCHANGED <<delivered, queue, handling, saving, rows, lost,
                      discarded>>
      BY <2>18 DEF FlushDrain, pubsubVars, outcomeVars
    <3>2. stats = {} /\ s \in DOMAIN caches
      BY <2>18 DEF FlushDrain, PipelineInv
    <3>3. Drained(n)' <=> Cached(n) /\ SlotOf[n] = s
      BY <2>18, <3>2, BatchIsSlot DEF FlushDrain, Drained
    <3>4. Cached(n)' <=> Cached(n) /\ SlotOf[n] # s
      BY <2>18, CachedSteps DEF FlushDrain, Cached
    <3>5. ~Drained(n)
      BY <3>2 DEF Drained
    <3>6. d = 0 /\ cc + dd = c
      BY <2>1, <2>2, <3>3, <3>4, <3>5 DEF One
    <3>7. /\ delivered'[n] = delivered[n] /\ queue'[n] = queue[n]
          /\ saving'[n] = saving[n] /\ rows'[n] = rows[n]
          /\ lost'[n] = lost[n] /\ discarded'[n] = discarded[n]
      BY <3>1, Zenon
    <3>8. hh = h
      BY <2>6, <3>1, Zenon
    <3>9. delivered[n] = queue[n] + h + cc + dd + saving[n] + rows[n]
                         + lost[n] + discarded[n]
      BY <2>3, <2>4, <3>6
    <3> QED
      BY <3>7, <3>8, <3>9, Zenon
  <2>19. CASE SaveWritten
    <3>1. UNCHANGED <<delivered, queue, handling, caches, saving, lost,
                      discarded>>
      BY <2>19 DEF SaveWritten, SaveReturns, pubsubVars
    <3>2. rows'[n] = rows[n] + d /\ dd = 0
      BY <2>1, <2>2, <2>19
      DEF SaveWritten, SaveReturns, IncAll, One, Drained, TypeOK
    <3>3. /\ delivered'[n] = delivered[n] /\ queue'[n] = queue[n]
          /\ saving'[n] = saving[n] /\ lost'[n] = lost[n]
          /\ discarded'[n] = discarded[n]
      BY <3>1, Zenon
    <3>4. hh = h /\ cc = c
      BY <2>6, <2>7, <3>1, Zenon
    <3>5. delivered[n] = queue[n] + h + c + 0 + saving[n]
                         + (rows[n] + d) + lost[n] + discarded[n]
      <4>1. queue[n] + h + c \in Nat
        BY <2>3
      <4> QED
        BY <2>3, <2>4, <4>1
    <3> QED
      BY <3>2, <3>3, <3>4, <3>5, Zenon
  <2>20. CASE SaveFailed
    <3>1. UNCHANGED <<delivered, queue, handling, caches, saving, rows,
                      discarded>>
      BY <2>20 DEF SaveFailed, SaveReturns, pubsubVars
    <3>2. lost'[n] = lost[n] + d /\ dd = 0
      BY <2>1, <2>2, <2>20
      DEF SaveFailed, SaveReturns, IncAll, One, Drained, TypeOK
    <3>3. /\ delivered'[n] = delivered[n] /\ queue'[n] = queue[n]
          /\ saving'[n] = saving[n] /\ rows'[n] = rows[n]
          /\ discarded'[n] = discarded[n]
      BY <3>1, Zenon
    <3>4. hh = h /\ cc = c
      BY <2>6, <2>7, <3>1, Zenon
    <3>5. delivered[n] = queue[n] + h + c + 0 + saving[n] + rows[n]
                         + (lost[n] + d) + discarded[n]
      <4>1. queue[n] + h + c \in Nat
        BY <2>3
      <4> QED
        BY <2>3, <2>4, <4>1
    <3> QED
      BY <3>2, <3>3, <3>4, <3>5, Zenon
  <2> QED
    BY <2>9, <2>10, <2>11, <2>12, <2>13, <2>14, <2>15, <2>16, <2>17, <2>18,
       <2>19, <2>20, Zenon
    DEF Next, Flush, AdvanceTime, TickerFires, Cancel, CloseRepository,
        ReceiveDuplicate, Forget, ServeTick, ServeDone, StartFlush,
        ServeNotify, FlushScan, FlushPop, FlushEnd, vars, pubsubVars,
        flushVars, outcomeVars
<1> QED
  BY <1>1, <1>2, TypeCorrect, PipelineInvariant, PTL DEF Spec
-----------------------------------------------------------------------------
\* A flush is complete: it leaves behind only records added after its scan
\* and records of slots that are too young.  The inductive invariant says
\* where the other records are while the flush is under way.
THEOREM FlushCompleteness == Spec => []FlushLeavesOnlyLate
<1>1. Init => FlushProgress
  BY DEF Init, FlushProgress, FlushLeavesOnlyLate, Cached, NewSlotCacheStore,
         MessageStats
<1>2. TypeOK /\ PipelineInv /\ FlushProgress /\ [Next]_vars => FlushProgress'
  <2> SUFFICES ASSUME TypeOK, PipelineInv, FlushProgress, [Next]_vars
               PROVE  FlushProgress'
    OBVIOUS
  <2> USE DEF FlushProgress, FlushLeavesOnlyLate
  <2>1. CASE UNCHANGED <<handling, caches, late, flushVars>>
    BY <2>1 DEF flushVars, Cached
  <2>2. CASE UNCHANGED <<caches, late, flushVars>>
    BY <2>2 DEF flushVars, Cached
  <2>3. ASSUME NEW m \in Messages, ProcessSlotMessage(m)
        PROVE  FlushProgress'
    <3>1. \A n \in Messages : Cached(n)' => Cached(n) \/ n \in late'
      BY <2>3, CachedSteps DEF ProcessSlotMessage, Cached, AddIsNew
    <3>2. late \subseteq late'
      BY <2>3, Zenon DEF ProcessSlotMessage
    <3> QED
      BY <2>3, <3>1, <3>2 DEF ProcessSlotMessage, flushVars
  <2>4. CASE ServeTick \/ ServeDone
    BY <2>4 DEF ServeTick, ServeDone, StartFlush
  <2>5. CASE FlushScan
    <3>1. PreviousSlot(currentSlot, MaxUint64) \in Nat
      BY ConstantsAssumption DEF PreviousSlot, TypeOK
    <3>2. \A n \in Messages : Cached(n) => SlotOf[n] \in DOMAIN caches
      BY DEF Cached, MessageStats
    <3> QED
      BY <2>5, <3>1, <3>2, ConstantsAssumption
      DEF FlushScan, CompletedSlots, Cached
  <2>6. ASSUME NEW s \in slots, FlushDrain(s) PROVE FlushProgress'
    <3>1. \A n \in Messages : Cached(n)' => Cached(n) /\ SlotOf[n] # s
      BY <2>6, CachedSteps DEF FlushDrain, Cached
    <3>2. pc = "drain" /\ pc' \in {"drain", "pop"}
      BY <2>6 DEF FlushDrain
    <3> QED
      BY <2>6, <3>1, <3>2 DEF FlushDrain
  <2>7. ASSUME NEW m \in unpopped, FlushPop(m) PROVE FlushProgress'
    BY <2>7 DEF FlushPop, Cached
  <2>8. CASE SaveWritten \/ SaveFailed
    BY <2>8 DEF SaveWritten, SaveFailed, SaveReturns, Cached
  <2>9. CASE FlushEnd
    BY <2>9 DEF FlushEnd, Cached
  <2> QED
    BY <2>1, <2>2, <2>3, <2>4, <2>5, <2>6, <2>7, <2>8, <2>9, OutsideSteps,
       Zenon
    DEF Next, Flush, NextMessage, SkipMessage, ProcessGeneralMessage,
        StopSubscription
<1>3. FlushProgress => FlushLeavesOnlyLate
  BY DEF FlushProgress
<1> QED
  BY <1>1, <1>2, <1>3, TypeCorrect, PipelineInvariant, PTL DEF Spec
-----------------------------------------------------------------------------
\* Without expiry of its seen cache, pubsub delivers a message at most once.
DeliveredOnce ==
  ~MayForget => \A m \in Messages : delivered[m] = One(m \in seen)

\* The same, in every behaviour.
LEMMA DeliveryOnce == Spec => []DeliveredOnce
<1>1. Init => DeliveredOnce
  BY DEF Init, DeliveredOnce, Zero, One
<1>2. TypeOK /\ DeliveredOnce /\ [Next]_vars => DeliveredOnce'
  <2> SUFFICES ASSUME TypeOK, DeliveredOnce, [Next]_vars PROVE DeliveredOnce'
    OBVIOUS
  <2>1. CASE UNCHANGED <<seen, delivered>>
    BY <2>1 DEF DeliveredOnce
  <2>2. ASSUME NEW m \in Messages, ReceiveNew(m) \/ ReceiveDropped(m)
        PROVE  DeliveredOnce'
    BY <2>2 DEF ReceiveNew, ReceiveDropped, DeliveredOnce, Inc, One, TypeOK
  <2>3. ASSUME NEW m \in Messages, Forget(m) PROVE DeliveredOnce'
    BY <2>3 DEF Forget, DeliveredOnce
  <2> QED
    BY <2>1, <2>2, <2>3, Zenon
    DEF Next, Flush, AdvanceTime, TickerFires, Cancel, CloseRepository,
        ReceiveDuplicate, NextMessage, SkipMessage, ProcessSlotMessage,
        ProcessGeneralMessage, SaveGeneralMessageHistory, StopSubscription,
        ServeTick, ServeDone, StartFlush, ServeNotify, FlushScan, FlushDrain,
        FlushPop, SaveWritten, SaveFailed, SaveReturns, FlushEnd, vars,
        pubsubVars
<1> QED
  BY <1>1, <1>2, TypeCorrect, PTL DEF Spec

\* So a message is in at most one place.
LEMMA OnePlace ==
  ASSUME TypeOK, DeliveriesConserved, DeliveredOnce, ~MayForget,
         NEW m \in Messages
  PROVE  /\ Places(m) = One(m \in seen)
         /\ Drained(m) => /\ queue[m] = 0 /\ ~Handled(m) /\ ~Cached(m)
                          /\ rows[m] = 0 /\ lost[m] = 0 /\ discarded[m] = 0
                          /\ delivered[m] = 1
         /\ Handled(m) => ~Cached(m)
         /\ rows[m] + lost[m] <= 1
         /\ m \notin seen => /\ rows[m] = 0 /\ lost[m] = 0
                             /\ discarded[m] = 0 /\ delivered[m] = 0
<1>1. /\ delivered[m] = One(m \in seen)
      /\ delivered[m] = Places(m)
  BY DEF DeliveriesConserved, DeliveredOnce
<1>2. /\ queue[m] \in Nat /\ saving[m] \in Nat /\ rows[m] \in Nat
      /\ lost[m] \in Nat /\ discarded[m] \in Nat
  BY DEF TypeOK
<1>3. PICK h \in 0..1, c \in 0..1, d \in 0..1, k \in 0..1 :
        /\ Handled(m) <=> h = 1
        /\ Cached(m) <=> c = 1
        /\ Drained(m) <=> d = 1
        /\ m \in seen <=> k = 1
        /\ delivered[m] = k
        /\ queue[m] + h + c + d + saving[m] + rows[m] + lost[m]
             + discarded[m] = k
  BY <1>1 DEF Places, One
<1>4. queue[m] + h + c + d + saving[m] + rows[m] + lost[m] + discarded[m] = k
  BY <1>3
<1>5. rows[m] + lost[m] <= 1
  BY <1>2, <1>4
<1>6. h = 1 => c # 1
  BY <1>2, <1>4
<1>7. ASSUME d = 1
      PROVE  /\ queue[m] = 0 /\ h # 1 /\ c # 1 /\ rows[m] = 0
             /\ lost[m] = 0 /\ discarded[m] = 0 /\ k = 1
  <2>1. k = 1 /\ h = 0 /\ c = 0
    BY <1>2, <1>4, <1>7
  <2>2. queue[m] + saving[m] + rows[m] + lost[m] + discarded[m] <= 0
    BY <1>2, <1>4, <1>7, <2>1
  <2>3. rows[m] + lost[m] + discarded[m] <= 0 /\ queue[m] <= 0
    BY <1>2, <2>2
  <2>4. queue[m] = 0 /\ rows[m] = 0 /\ lost[m] = 0 /\ discarded[m] = 0
    BY <1>2, <2>3
  <2> QED
    BY <2>1, <2>4
<1>8. ASSUME k # 1
      PROVE  rows[m] = 0 /\ lost[m] = 0 /\ discarded[m] = 0 /\ k = 0
  <2>1. rows[m] + lost[m] + discarded[m] <= 0
    BY <1>2, <1>4, <1>8
  <2> QED
    BY <1>2, <1>8, <2>1
<1> QED
  BY <1>1, <1>3, <1>5, <1>6, <1>7, <1>8, Zenon

\* As long as pubsub remembers its message IDs, Add never refuses a record
\* and no message has two rows.
THEOREM ProcessingOnce == Spec => []ProcessedOnce
<1>1. TypeOK /\ DeliveriesConserved /\ DeliveredOnce => ProcessedOnce
  <2> SUFFICES ASSUME TypeOK, DeliveriesConserved, DeliveredOnce, ~MayForget,
                      NEW m \in Messages
               PROVE  /\ Handled(m) => AddIsNew(caches, SlotOf[m], m)
                      /\ rows[m] + lost[m] <= 1
    BY DEF ProcessedOnce
  <2>1. (Handled(m) => ~Cached(m)) /\ rows[m] + lost[m] <= 1
    BY OnePlace
  <2> QED
    BY <2>1 DEF AddIsNew, Cached
<1> QED
  BY <1>1, TypeCorrect, DeliveryConservation, DeliveryOnce, PTL

\* As long as pubsub remembers its message IDs, the flush loop never makes up
\* a SeenCount: a record that awaits its Pop has an entry in the counter.
THEOREM CountsNeverGuessed == Spec => []NeverGuessed
<1>1. Init => NeverGuessed
  BY ConstantsAssumption, MarkersAssumption
  DEF Init, NeverGuessed, AwaitsPop, Zero, NewSlotCacheStore, MessageStats,
      Handled, Cached
<1>2. /\ TypeOK /\ PipelineInv /\ DeliveriesConserved /\ DeliveredOnce
      /\ NeverGuessed
      /\ [Next]_vars
      => NeverGuessed'
  <2> SUFFICES ASSUME TypeOK, PipelineInv, DeliveriesConserved, DeliveredOnce,
                      NeverGuessed, [Next]_vars, ~MayForget,
                      NEW n \in Messages
               PROVE  /\ guessed'[n] = 0
                      /\ AwaitsPop(n)' => PopFound(counts', n)
    BY DEF NeverGuessed
  <2> DEFINE Goal == guessed'[n] = 0 /\ (AwaitsPop(n)' => PopFound(counts', n))
  <2>1. guessed[n] = 0 /\ (AwaitsPop(n) => PopFound(counts, n))
    BY DEF NeverGuessed
  <2>2. CASE UNCHANGED <<guessed, counts>> /\ (AwaitsPop(n)' => AwaitsPop(n))
    BY <2>1, <2>2
  <2>3. ASSUME NEW m \in Messages, MessageIdFn(m),
               UNCHANGED <<flushVars, outcomeVars, handling, caches>>,
               n # m => queue'[n] = queue[n]
        PROVE  Goal
    <3>1. PopFound(counts', n) <=> PopFound(counts, n) \/ n = m
      BY <2>3 DEF MessageIdFn, IncreaseByRawID, PopFound
    <3>2. n # m /\ AwaitsPop(n)' => AwaitsPop(n)
      BY <2>3 DEF AwaitsPop, Handled, Cached, flushVars
    <3> QED
      BY <2>1, <2>3, <3>1, <3>2 DEF outcomeVars
  <2>4. ASSUME NEW m \in Messages, NextMessage(m) PROVE Goal
    <3>1. AwaitsPop(n)' => AwaitsPop(n)
      BY <2>4, ConstantsAssumption
      DEF NextMessage, AwaitsPop, Handled, Cached, Dec, flushVars, TypeOK
    <3> QED
      BY <2>2, <2>4, <3>1 DEF NextMessage, outcomeVars
  <2>5. ASSUME NEW m \in Messages, SkipMessage(m) \/ ProcessGeneralMessage(m)
        PROVE  Goal
    <3>1. AwaitsPop(n)' => AwaitsPop(n)
      BY <2>5, ConstantsAssumption, MarkersAssumption
      DEF SkipMessage, ProcessGeneralMessage, AwaitsPop, Handled, Cached,
          LoopHead, pubsubVars, flushVars, TypeOK
    <3> QED
      BY <2>2, <2>5, <3>1, Zenon
      DEF SkipMessage, ProcessGeneralMessage, outcomeVars
  <2>6. ASSUME NEW m \in Messages, ProcessSlotMessage(m) PROVE Goal
    <3>1. Cached(n)' <=> Cached(n) \/ n = m
      BY <2>6, CachedSteps, ZenonT(40) DEF ProcessSlotMessage, Cached
    <3>2. Handled(n)' => Handled(n)
      BY <2>6, ConstantsAssumption, MarkersAssumption
      DEF ProcessSlotMessage, Handled, LoopHead, TypeOK
    <3>3. n = m => Handled(n) /\ KindOf[n] = "slot"
      BY <2>6 DEF ProcessSlotMessage, Handled
    <3>4. UNCHANGED <<queue, unpopped>>
      BY <2>6, ZenonT(40) DEF ProcessSlotMessage, pubsubVars, flushVars
    <3>5. AwaitsPop(n)' => AwaitsPop(n)
      BY <3>1, <3>2, <3>3, <3>4 DEF AwaitsPop
    <3> QED
      BY <2>2, <2>6, <3>5, ZenonT(40) DEF ProcessSlotMessage, outcomeVars
  <2>7. ASSUME NEW t \in Topics, StopSubscription(t) PROVE Goal
    <3>1. AwaitsPop(n)' => AwaitsPop(n)
      BY <2>7, ConstantsAssumption, MarkersAssumption
      DEF StopSubscription, AwaitsPop, Handled, Cached, pubsubVars, flushVars,
          TypeOK
    <3> QED
      BY <2>2, <2>7, <3>1 DEF StopSubscription, outcomeVars
  <2>8. ASSUME NEW s \in slots, FlushDrain(s) PROVE Goal
    <3>1. s \in DOMAIN caches
      BY <2>8, Zenon DEF PipelineInv
    <3>2. /\ n \in unpopped' => Cached(n)
          /\ Cached(n)' => Cached(n)
      BY <2>8, <3>1, BatchIsSlot, CachedSteps DEF FlushDrain, Cached
    <3>3. UNCHANGED <<queue, handling>>
      BY <2>8 DEF FlushDrain, pubsubVars
    <3>4. AwaitsPop(n)' => AwaitsPop(n)
      BY <3>2, <3>3 DEF AwaitsPop, Handled
    <3> QED
      BY <2>2, <2>8, <3>4 DEF FlushDrain, outcomeVars
  <2>9. ASSUME NEW m \in unpopped, FlushPop(m) PROVE Goal
    <3>1. m \in Messages /\ Drained(m) /\ KindOf[m] = "slot"
      BY <2>9 DEF PipelineInv, TypeOK, Drained
    <3>2. PopFound(counts, m)
      BY <2>9, <3>1 DEF NeverGuessed, AwaitsPop
    <3>3. guessed' = guessed
      BY <2>9, <3>2 DEF FlushPop
    <3>4. n = m => ~AwaitsPop(n)'
      <4>1. queue[m] = 0 /\ ~Handled(m) /\ ~Cached(m)
        BY <3>1, OnePlace
      <4>2. UNCHANGED <<queue, handling, caches>> /\ m \notin unpopped'
        BY <2>9 DEF FlushPop, pubsubVars
      <4>3. queue'[m] = 0 /\ ~Handled(m)' /\ ~Cached(m)'
        BY <4>1, <4>2 DEF Handled, Cached
      <4> QED
        BY <4>2, <4>3 DEF AwaitsPop
    <3>5. n # m => PopFound(counts', n) = PopFound(counts, n)
      BY <2>9 DEF FlushPop, Pop, Restrict, PopFound
    <3>6. AwaitsPop(n)' => AwaitsPop(n)
      BY <2>9 DEF FlushPop, AwaitsPop, Handled, Cached, pubsubVars
    <3> QED
      BY <2>1, <3>3, <3>4, <3>5, <3>6
  <2>10. CASE UNCHANGED <<guessed, counts, queue, handling, caches, unpopped>>
    BY <2>2, <2>10 DEF AwaitsPop, Handled, Cached
  <2>11. ASSUME NEW m \in Messages,
                ReceiveNew(m) \/ ReceiveDuplicate(m) \/ ReceiveDropped(m)
         PROVE  Goal
    <3>1. n # m => queue'[n] = queue[n]
      BY <2>11 DEF ReceiveNew, ReceiveDuplicate, ReceiveDropped, Inc, TypeOK
    <3>2. /\ MessageIdFn(m)
          /\ UNCHANGED <<flushVars, outcomeVars, handling, caches>>
      BY <2>11 DEF ReceiveNew, ReceiveDuplicate, ReceiveDropped
    <3> QED
      BY <2>3, <3>1, <3>2
  <2> QED
    BY <2>4, <2>5, <2>6, <2>7, <2>8, <2>9, <2>10, <2>11, Zenon
    DEF Next, Flush, AdvanceTime, TickerFires, Cancel, CloseRepository,
        Forget, SaveGeneralMessageHistory, ServeTick, ServeDone, StartFlush,
        ServeNotify, FlushScan, SaveWritten, SaveFailed, SaveReturns,
        FlushEnd, vars, pubsubVars, flushVars, outcomeVars
<1> QED
  BY <1>1, <1>2, TypeCorrect, PipelineInvariant, DeliveryConservation,
     DeliveryOnce, PTL DEF Spec
-----------------------------------------------------------------------------
\* As long as pubsub remembers its message IDs, a seen-counter entry whose
\* record is gone is never removed: nothing but Pop evicts from the map, and
\* Pop is only called for records on their way to the repository.
THEOREM OrphanedCountsStay == Spec => OrphansStay
<1> DEFINE Stays == ~MayForget => \A m \in Messages : Orphan(m) => Orphan(m)'
<1>1. TypeOK /\ PipelineInv /\ [Next]_vars => [Stays]_vars
  <2> SUFFICES ASSUME TypeOK, PipelineInv, Next, ~MayForget,
                      NEW n \in Messages, Orphan(n)
               PROVE  Orphan(n)'
    OBVIOUS
  <2>1. n \in seen /\ ~AwaitsPop(n) /\ PopFound(counts, n)
    BY DEF Orphan
  <2> USE <2>1
  <2>2. CASE UNCHANGED <<seen, queue, handling, caches, counts, unpopped>>
    BY <2>2, ZenonT(40) DEF Orphan, AwaitsPop, Handled, Cached
  <2>3. ASSUME NEW m \in Messages,
               ReceiveNew(m) \/ ReceiveDuplicate(m) \/ ReceiveDropped(m)
        PROVE  Orphan(n)'
    <3>1. seen \subseteq seen' /\ queue'[n] = queue[n]
      BY <2>3
      DEF ReceiveNew, ReceiveDuplicate, ReceiveDropped, Inc, TypeOK
    <3>2. UNCHANGED <<handling, caches, unpopped>>
      BY <2>3 DEF ReceiveNew, ReceiveDuplicate, ReceiveDropped, flushVars
    <3>3. PopFound(counts', n)
      BY <2>3, ZenonT(40)
      DEF ReceiveNew, ReceiveDuplicate, ReceiveDropped, MessageIdFn, PopFound,
          IncreaseByRawID
    <3> QED
      BY <3>1, <3>2, <3>3, ZenonT(40) DEF Orphan, AwaitsPop, Handled, Cached
  <2>4. ASSUME NEW m \in Messages, NextMessage(m) PROVE Orphan(n)'
    BY <2>4, ConstantsAssumption
    DEF NextMessage, Orphan, AwaitsPop, Handled, Cached, Dec, flushVars, TypeOK
  <2>5. ASSUME NEW m \in Messages, SkipMessage(m) \/ ProcessGeneralMessage(m)
        PROVE  Orphan(n)'
    <3>1. UNCHANGED <<seen, queue, caches, counts, unpopped>>
      BY <2>5, Zenon
      DEF SkipMessage, ProcessGeneralMessage, pubsubVars, flushVars
    <3>2. handling' = [handling EXCEPT ![TopicOf[m]] = LoopHead]
      BY <2>5, Zenon DEF SkipMessage, ProcessGeneralMessage
    <3>3. Handled(n)' => Handled(n)
      BY <3>2, ConstantsAssumption, MarkersAssumption
      DEF Handled, LoopHead, TypeOK
    <3> QED
      BY <3>1, <3>3, ZenonT(40) DEF Orphan, AwaitsPop, Cached
  <2>6. ASSUME NEW m \in Messages, ProcessSlotMessage(m) PROVE Orphan(n)'
    <3>1. Cached(n)' <=> Cached(n) \/ n = m
      BY <2>6, CachedSteps, ZenonT(40) DEF ProcessSlotMessage, Cached
    <3>2. Handled(n)' => Handled(n)
      BY <2>6, ConstantsAssumption, MarkersAssumption
      DEF ProcessSlotMessage, Handled, LoopHead, TypeOK
    <3> QED
      BY <2>6, <3>1, <3>2, ZenonT(40)
      DEF ProcessSlotMessage, Orphan, AwaitsPop, Handled, pubsubVars, flushVars
  <2>7. ASSUME NEW t \in Topics, StopSubscription(t) PROVE Orphan(n)'
    BY <2>7, ConstantsAssumption, MarkersAssumption
    DEF StopSubscription, Orphan, AwaitsPop, Handled, Cached, pubsubVars,
        flushVars, TypeOK
  <2>8. ASSUME NEW s \in slots, FlushDrain(s) PROVE Orphan(n)'
    <3>1. s \in DOMAIN caches
      BY <2>8, ZenonT(40) DEF PipelineInv
    <3>2. /\ n \in unpopped' => Cached(n)
          /\ Cached(n)' => Cached(n)
      BY <2>8, <3>1, BatchIsSlot, CachedSteps, ZenonT(40)
      DEF FlushDrain, Cached
    <3> QED
      BY <2>8, <3>2, ZenonT(40)
      DEF FlushDrain, Orphan, AwaitsPop, Handled, pubsubVars
  <2>9. ASSUME NEW m \in unpopped, FlushPop(m) PROVE Orphan(n)'
    <3>1. n # m
      BY <2>9, Zenon DEF PipelineInv, AwaitsPop
    <3>2. PopFound(counts', n)
      BY <2>9, <3>1 DEF FlushPop, Pop, Restrict, PopFound
    <3> QED
      BY <2>9, <3>2, Zenon
      DEF FlushPop, Orphan, AwaitsPop, Handled, Cached, pubsubVars
  <2>10. ASSUME NEW m \in Messages, Forget(m) PROVE Orphan(n)'
    BY <2>10 DEF Forget
  <2> QED
    BY <2>2, <2>3, <2>4, <2>5, <2>6, <2>7, <2>8, <2>9, <2>10, Zenon
    DEF Next, Flush, AdvanceTime, TickerFires, Cancel, CloseRepository,
        SaveGeneralMessageHistory, ServeTick, ServeDone, StartFlush,
        ServeNotify, FlushScan, SaveWritten, SaveFailed, SaveReturns,
        FlushEnd, pubsubVars, flushVars
<1> QED
  BY <1>1, TypeCorrect, PipelineInvariant, PTL DEF Spec, OrphansStay
-----------------------------------------------------------------------------
\* The quotient of a division is the integer part.
LEMMA DivisionBounds ==
  ASSUME NEW a \in Nat, NEW d \in Nat \ {0}
  PROVE  /\ a \div d \in Nat
         /\ (a \div d) * d <= a
         /\ a < (a \div d) * d + d
OBVIOUS

\* When the genesis time is at least two slots after the Unix epoch, as it is
\* on every network, the slot that is still running already counts as
\* completed: flushCompletedSlots (line 266) does not subtract the genesis
\* time.
THEOREM RunningSlotIsFlushed ==
  ASSUME GenesisTime >= 2 * SecondsPerSlot
  PROVE  Spec => [](ChainSlot < PreviousSlot(CurrentSlot, MaxUint64))
<1>1. TypeOK => ChainSlot < PreviousSlot(CurrentSlot, MaxUint64)
  <2> SUFFICES ASSUME TypeOK
               PROVE  ChainSlot < PreviousSlot(CurrentSlot, MaxUint64)
    OBVIOUS
  <2> DEFINE S == SecondsPerSlot
             c == ChainSlot
             k == CurrentSlot
  <2>1. /\ S \in Nat \ {0} /\ now \in Nat /\ now - GenesisTime \in Nat
        /\ GenesisTime \in Nat
    BY ConstantsAssumption DEF TypeOK
  <2>2. c \in Nat /\ c * S <= now - GenesisTime
    BY <2>1, DivisionBounds DEF ChainSlot
  <2>3. k \in Nat /\ now < k * S + S
    BY <2>1, DivisionBounds DEF CurrentSlot
  <2>4. (c + 2) * S < (k + 1) * S
    BY <2>1, <2>2, <2>3
  <2>5. c + 2 < k + 1
    BY <2>1, <2>2, <2>3, <2>4
  <2> QED
    BY <2>2, <2>3, <2>5 DEF PreviousSlot
<1> QED
  BY <1>1, TypeCorrect, PTL
-----------------------------------------------------------------------------
(***************************************************************************)
(* The message pipeline implements the ledger of slot messages             *)
(* (SlotLedger), for any set of messages, any slots and any clock, as long *)
(* as pubsub does not forget message IDs.                                  *)
(***************************************************************************)

\* Only general messages are saved by goroutines of their own.
GeneralSaves == \A m \in Messages : saving[m] > 0 => KindOf[m] = "general"

\* The same, in every behaviour: only ProcessGeneralMessage starts such a
\* goroutine.
LEMMA GeneralSavesOnly == Spec => []GeneralSaves
<1>1. Init => GeneralSaves
  BY DEF Init, GeneralSaves, Zero
<1>2. TypeOK /\ GeneralSaves /\ [Next]_vars => GeneralSaves'
  <2> SUFFICES ASSUME TypeOK, GeneralSaves, [Next]_vars
               PROVE  GeneralSaves'
    OBVIOUS
  <2>1. CASE UNCHANGED saving
    BY <2>1 DEF GeneralSaves
  <2>2. ASSUME NEW m \in Messages, ProcessGeneralMessage(m)
        PROVE  GeneralSaves'
    BY <2>2 DEF ProcessGeneralMessage, GeneralSaves, Inc, TypeOK
  <2>3. ASSUME NEW m \in Messages, SaveGeneralMessageHistory(m)
        PROVE  GeneralSaves'
    BY <2>3 DEF SaveGeneralMessageHistory, GeneralSaves, Dec, TypeOK
  <2> QED
    BY <2>1, <2>2, <2>3, Zenon
    DEF Next, Flush, AdvanceTime, TickerFires, Cancel, CloseRepository,
        ReceiveNew, ReceiveDuplicate, ReceiveDropped, Forget, NextMessage,
        SkipMessage, ProcessSlotMessage, StopSubscription, ServeTick,
        ServeDone, ServeNotify, FlushScan, FlushDrain, FlushPop, SaveWritten,
        SaveFailed, SaveReturns, FlushEnd, vars
<1> QED
  BY <1>1, <1>2, TypeCorrect, PTL DEF Spec
-----------------------------------------------------------------------------
\* What the ledger depends on.
History(m) == <<received[m], delivered[m], discarded[m], rows[m],
                rowsSeen[m], lost[m]>>

\* A step that leaves the history of every slot message alone is a stutter
\* of the ledger.
LEMMA LedgerStutters ==
  ASSUME \A m \in SlotMessages : History(m)' = History(m)
  PROVE  UNCHANGED Ledger!ledgerVars
<1>1. \A m \in SlotMessages : /\ received'[m] = received[m]
                              /\ delivered'[m] = delivered[m]
                              /\ discarded'[m] = discarded[m]
                              /\ rows'[m] = rows[m]
                              /\ rowsSeen'[m] = rowsSeen[m]
                              /\ lost'[m] = lost[m]
  BY Zenon DEF History
<1>2. \A m \in SlotMessages : StatusOf(m)' = StatusOf(m)
  BY <1>1, Zenon DEF StatusOf
<1> QED
  BY <1>1, <1>2, Zenon DEF Ledger!ledgerVars, SlotMessages

\* A received copy, whatever pubsub does with it.
LEMMA CopyArrives ==
  ASSUME TypeOK, DeliveriesConserved, DeliveredOnce, ~MayForget,
         NEW m \in SlotMessages,
         ReceiveNew(m) \/ ReceiveDuplicate(m) \/ ReceiveDropped(m)
  PROVE  Ledger!Arrive(m)
<1>1. m \in Messages
  BY DEF SlotMessages
<1>2. /\ received' = Inc(received, m)
      /\ UNCHANGED <<rows, rowsSeen, lost>>
  BY DEF ReceiveNew, ReceiveDuplicate, ReceiveDropped, MessageIdFn,
         outcomeVars
<1>3. \A n \in SlotMessages : received'[n] = IF n = m THEN received[m] + 1
                                                      ELSE received[n]
  BY <1>1, <1>2 DEF Inc, TypeOK, SlotMessages
<1>4. \A n \in SlotMessages \ {m} : StatusOf(n)' = StatusOf(n)
  <2>1. \A n \in SlotMessages \ {m} : /\ delivered'[n] = delivered[n]
                                      /\ discarded'[n] = discarded[n]
    BY <1>1 DEF ReceiveNew, ReceiveDuplicate, ReceiveDropped, Inc, TypeOK,
                SlotMessages
  <2> QED
    BY <1>2, <2>1, Zenon DEF StatusOf
<1>5. IF StatusOf(m) = "new" THEN StatusOf(m)' \in {"pending", "lost"}
                             ELSE StatusOf(m)' = StatusOf(m)
  <2>1. CASE ReceiveDuplicate(m)
    <3>1. m \in seen /\ UNCHANGED <<delivered, discarded>>
      BY <2>1 DEF ReceiveDuplicate
    <3>2. delivered[m] = 1
      BY <1>1, <3>1 DEF DeliveredOnce, One
    <3>3. StatusOf(m)' = StatusOf(m)
      BY <1>2, <3>1, Zenon DEF StatusOf
    <3>4. delivered[m] > 0
      BY <3>2
    <3>5. StatusOf(m) # "new"
      BY <3>4, Zenon DEF StatusOf
    <3> QED
      BY <3>3, <3>5, Zenon
  <2>2. CASE ReceiveNew(m) \/ ReceiveDropped(m)
    <3>1. m \notin seen
      BY <2>2 DEF ReceiveNew, ReceiveDropped
    <3>2. /\ rows[m] = 0 /\ lost[m] = 0 /\ discarded[m] = 0
          /\ delivered[m] = 0
      BY <1>1, <3>1, OnePlace, Zenon
    <3>3. /\ delivered'[m] = delivered[m] + 1
          /\ discarded'[m] \in {discarded[m], discarded[m] + 1}
      <4>1. CASE ReceiveNew(m)
        BY <1>1, <4>1 DEF ReceiveNew, Inc, TypeOK
      <4>2. CASE ReceiveDropped(m)
        BY <1>1, <4>2 DEF ReceiveDropped, Inc, TypeOK
      <4> QED
        BY <2>2, <4>1, <4>2, Zenon
    <3>4. delivered'[m] = 1 /\ discarded'[m] \in {0, 1}
      BY <3>2, <3>3
    <3>5. /\ ~ (rows[m] > 0)
          /\ ~ (lost[m] + discarded[m] > 0)
          /\ ~ (delivered[m] > 0)
      BY <3>2
    <3>6. ~ (rows'[m] > 0)
      BY <1>2, <3>5, Zenon
    <3>7. delivered'[m] > 0
      BY <3>4
    <3> QED
      BY <3>5, <3>6, <3>7, Zenon DEF StatusOf
  <2> QED
    BY <2>1, <2>2
<1> QED
  BY <1>2, <1>3, <1>4, <1>5, Zenon DEF Ledger!Arrive
-----------------------------------------------------------------------------
\* The batch of a save is a batch of the ledger, and each of its records has
\* a SeenCount between 1 and the number of copies.
LEMMA BatchIsPending ==
  ASSUME TypeOK, PipelineInv, DeliveriesConserved, DeliveredOnce, ~MayForget,
         pc = "save"
  PROVE  stats \in SUBSET SlotMessages /\ Ledger!IsBatch(stats)
<1>1. /\ stats # {} /\ stats \subseteq Messages
      /\ \A m \in stats : KindOf[m] = "slot"
      /\ \A m, n \in stats : SlotOf[m] = SlotOf[n]
  BY DEF PipelineInv, TypeOK
<1>2. stats \in SUBSET SlotMessages
  BY <1>1, Zenon DEF SlotMessages
<1>3. \A m \in stats : StatusOf(m) = "pending"
  <2> SUFFICES ASSUME NEW m \in stats PROVE StatusOf(m) = "pending"
    OBVIOUS
  <2>1. /\ rows[m] = 0 /\ lost[m] = 0 /\ discarded[m] = 0
        /\ delivered[m] = 1
    BY <1>1, OnePlace DEF Drained
  <2> QED
    BY <2>1 DEF StatusOf
<1> QED
  BY <1>1, <1>2, <1>3 DEF Ledger!IsBatch

\* The SeenCount that saveToRepository writes counts copies received.
LEMMA TallyInRange ==
  ASSUME TypeOK, PipelineInv, SeenConserved, NeverGuessed, ~MayForget,
         pc = "save", NEW m \in stats
  PROVE  rowsSeen[m] + seenCount[m] \in 1..received[m]
<1>1. m \in Messages /\ seenCount[m] > 0
  BY DEF PipelineInv, TypeOK
<1>2. /\ seenCount[m] \in Nat /\ rowsSeen[m] \in Nat /\ lostSeen[m] \in Nat
      /\ received[m] \in Nat
  BY <1>1 DEF TypeOK
<1>3. SeenCount(counts, m) \in Nat
  BY <1>1 DEF TypeOK, SeenCount
<1>4. guessed[m] = 0
  BY <1>1 DEF NeverGuessed
<1>5. SeenCount(counts, m) + seenCount[m] + rowsSeen[m] + lostSeen[m]
        = received[m]
  <2>1. SeenCount(counts, m) + seenCount[m] + rowsSeen[m] + lostSeen[m]
          = received[m] + 0
    BY <1>1, <1>4, Zenon DEF SeenConserved
  <2> QED
    BY <1>2, <2>1
<1>6. /\ rowsSeen[m] + seenCount[m] >= 1
      /\ rowsSeen[m] + seenCount[m] <= received[m]
  BY <1>1, <1>2, <1>3, <1>5
<1> QED
  BY <1>2, <1>6
-----------------------------------------------------------------------------
\* As long as pubsub remembers its message IDs, the pipeline implements the
\* ledger: a slot message is stored at most once, in a batch of its own slot,
\* with a SeenCount between 1 and the number of copies received, and the
\* stored row is never revised (Process, Serve and flushCompletedSlots).
THEOREM PipelineImplementsLedger ==
  ASSUME ~MayForget PROVE Spec => ImplementsLedger
<1> DEFINE Inv == /\ TypeOK /\ PipelineInv /\ SeenConserved
                  /\ DeliveriesConserved /\ DeliveredOnce /\ NeverGuessed
                  /\ GeneralSaves
<1>1. Init => Ledger!LedgerInit
  BY DEF Init, Ledger!LedgerInit, Zero, StatusOf, SlotMessages
<1>2. Inv /\ [Next]_vars => [Ledger!LedgerNext]_(Ledger!ledgerVars)
  <2> SUFFICES ASSUME Inv, [Next]_vars
               PROVE  Ledger!LedgerNext \/ UNCHANGED Ledger!ledgerVars
    BY DEF Ledger!ledgerVars
  <2> DEFINE Goal == Ledger!LedgerNext \/ UNCHANGED Ledger!ledgerVars
  <2>1. CASE UNCHANGED <<received, delivered, discarded, rows, rowsSeen, lost>>
    BY <2>1, LedgerStutters DEF History
  <2>2. ASSUME NEW m \in Messages,
               ReceiveNew(m) \/ ReceiveDuplicate(m) \/ ReceiveDropped(m)
        PROVE  Goal
    <3>1. CASE m \in SlotMessages
      BY <2>2, <3>1, CopyArrives DEF Ledger!LedgerNext
    <3>2. CASE m \notin SlotMessages
      <4>1. \A n \in SlotMessages : History(n)' = History(n)
        BY <2>2, <3>2
        DEF ReceiveNew, ReceiveDuplicate, ReceiveDropped, MessageIdFn, Inc,
            outcomeVars, History, TypeOK, SlotMessages
      <4> QED
        BY <4>1, LedgerStutters
    <3> QED
      BY <3>1, <3>2
  <2>3. ASSUME NEW m \in Messages, SkipMessage(m) PROVE Goal
    <3>1. \A n \in SlotMessages : History(n)' = History(n)
      BY <2>3
      DEF SkipMessage, Inc, pubsubVars, outcomeVars, History, TypeOK,
          SlotMessages
    <3> QED
      BY <3>1, LedgerStutters
  <2>4. ASSUME NEW m \in Messages, ProcessSlotMessage(m) PROVE Goal
    <3>1. AddIsNew(caches, SlotOf[m], m)
      BY <2>4, OnePlace, Zenon
      DEF ProcessSlotMessage, Handled, Cached, AddIsNew
    <3>2. UNCHANGED <<received, delivered, discarded, rows, rowsSeen, lost>>
      BY <2>4, <3>1, Zenon DEF ProcessSlotMessage, pubsubVars, outcomeVars
    <3> QED
      BY <3>2, LedgerStutters, Zenon DEF History
  <2>5. ASSUME NEW m \in Messages, SaveGeneralMessageHistory(m) PROVE Goal
    <3>1. m \notin SlotMessages
      BY <2>5, Zenon DEF SaveGeneralMessageHistory, GeneralSaves, SlotMessages
    <3>2. \A n \in SlotMessages : History(n)' = History(n)
      BY <2>5, <3>1
      DEF SaveGeneralMessageHistory, Inc, pubsubVars, History, TypeOK,
          SlotMessages
    <3> QED
      BY <3>2, LedgerStutters
  <2>6. CASE SaveWritten
    <3>1. /\ pc = "save" /\ UNCHANGED <<received, delivered, discarded, lost>>
          /\ rows' = IncAll(rows, stats)
          /\ rowsSeen' = AddAll(rowsSeen, stats, seenCount)
      BY <2>6 DEF SaveWritten, SaveReturns, pubsubVars
    <3>2. stats \in SUBSET SlotMessages /\ Ledger!IsBatch(stats)
      BY <3>1, BatchIsPending
    <3>3. \A n \in SlotMessages :
            /\ n \in stats => /\ StatusOf(n)' = "stored"
                              /\ rowsSeen'[n] \in 1..received[n]
            /\ n \notin stats => /\ StatusOf(n)' = StatusOf(n)
                                 /\ rowsSeen'[n] = rowsSeen[n]
      <4> SUFFICES ASSUME NEW n \in SlotMessages
                   PROVE  /\ n \in stats =>
                               /\ StatusOf(n)' = "stored"
                               /\ rowsSeen'[n] \in 1..received[n]
                          /\ n \notin stats =>
                               /\ StatusOf(n)' = StatusOf(n)
                               /\ rowsSeen'[n] = rowsSeen[n]
        OBVIOUS
      <4>1. n \in Messages /\ rows[n] \in Nat /\ rowsSeen[n] \in Nat
        BY DEF SlotMessages, TypeOK
      <4>2. CASE n \in stats
        <5>1. rows'[n] > 0 /\ rowsSeen'[n] = rowsSeen[n] + seenCount[n]
          BY <3>1, <4>1, <4>2 DEF IncAll, AddAll
        <5>2. rowsSeen[n] + seenCount[n] \in 1..received[n]
          BY <3>1, <4>2, TallyInRange
        <5>3. StatusOf(n)' = "stored"
          BY <5>1 DEF StatusOf
        <5> QED
          BY <4>2, <5>1, <5>2, <5>3
      <4>3. CASE n \notin stats
        <5>1. rows'[n] = rows[n] /\ rowsSeen'[n] = rowsSeen[n]
          <6>1. rows'[n] = rows[n] + 0 /\ rowsSeen'[n] = rowsSeen[n] + 0
            BY <3>1, <4>1, <4>3, ZenonT(30) DEF IncAll, AddAll
          <6> QED
            BY <4>1, <6>1
        <5> QED
          BY <3>1, <4>3, <5>1 DEF StatusOf
      <4> QED
        BY <4>2, <4>3
    <3>4. Ledger!Store(stats)
      BY <3>1, <3>2, <3>3, Zenon DEF Ledger!Store, Ledger!Settle
    <3>5. \E B \in SUBSET SlotMessages : Ledger!Store(B) \/ Ledger!Lose(B)
      BY <3>2, <3>4, Zenon DEF Ledger!Store
    <3> QED
      BY <3>5 DEF Ledger!LedgerNext
  <2>7. CASE SaveFailed
    <3>1. /\ pc = "save"
          /\ UNCHANGED <<received, delivered, discarded, rows, rowsSeen>>
          /\ lost' = IncAll(lost, stats)
      BY <2>7 DEF SaveFailed, SaveReturns, pubsubVars
    <3>2. stats \in SUBSET SlotMessages /\ Ledger!IsBatch(stats)
      BY <3>1, BatchIsPending
    <3>3. \A n \in SlotMessages :
            StatusOf(n)' = IF n \in stats THEN "lost" ELSE StatusOf(n)
      <4> SUFFICES ASSUME NEW n \in SlotMessages
                   PROVE  StatusOf(n)' = IF n \in stats THEN "lost"
                                                        ELSE StatusOf(n)
        OBVIOUS
      <4>1. n \in Messages /\ lost[n] \in Nat /\ discarded[n] \in Nat
        BY DEF SlotMessages, TypeOK
      <4>2. CASE n \in stats
        <5>1. lost'[n] = lost[n] + 1
          BY <3>1, <4>1, <4>2 DEF IncAll
        <5>2. rows[n] = 0
          BY <4>1, <4>2, OnePlace DEF Drained
        <5>3. ~ (rows'[n] > 0) /\ lost'[n] + discarded'[n] > 0
          <6>1. rows'[n] = rows[n] /\ discarded'[n] = discarded[n]
            BY <3>1, Zenon
          <6> QED
            BY <4>1, <5>1, <5>2, <6>1
        <5>4. StatusOf(n)' = "lost"
          BY <5>3, Zenon DEF StatusOf
        <5> QED
          BY <4>2, <5>4
      <4>3. CASE n \notin stats
        <5>1. lost'[n] = lost[n]
          BY <3>1, <4>1, <4>3 DEF IncAll
        <5> QED
          BY <3>1, <4>3, <5>1 DEF StatusOf
      <4> QED
        BY <4>2, <4>3
    <3>4. Ledger!Lose(stats)
      BY <3>1, <3>2, <3>3 DEF Ledger!Lose, Ledger!Settle
    <3> QED
      BY <3>2, <3>4 DEF Ledger!LedgerNext
  <2> QED
    BY <2>1, <2>2, <2>3, <2>4, <2>5, <2>6, <2>7, Zenon
    DEF Next, Flush, AdvanceTime, TickerFires, Cancel, CloseRepository,
        Forget, NextMessage, ProcessGeneralMessage, StopSubscription,
        ServeTick, ServeDone, ServeNotify, FlushScan, FlushDrain, FlushPop,
        FlushEnd, vars, pubsubVars, outcomeVars
<1> QED
  BY <1>1, <1>2, TypeCorrect, PipelineInvariant, SeenConservation,
     DeliveryConservation, DeliveryOnce, CountsNeverGuessed, GeneralSavesOnly,
     PTL
  DEF Spec, ImplementsLedger, Ledger!LedgerSpec
=============================================================================
