---------------------------- MODULE StartupProofs ---------------------------
(***************************************************************************)
(* Proofs about Startup, for every set of flag values and any number of    *)
(* signals, whenever they come.                                            *)
(***************************************************************************)
EXTENDS Startup, TLAPS

\* The labels that are reached only once a part has been built or a value
\* accepted.
HasEstimate == {"NewReqResp", "serve"}
HasHost == {"NewDiscovery", "NewProcessor", "NewGossipSub"} \cup HasEstimate
HasKeys == {"NewHost"} \cup HasHost
HasRepo == {"retrievePrivateKeys"} \cup HasKeys
HasNetwork == {"NewRepository"} \cup HasRepo
HasOption == {"SetNetwork"} \cup HasNetwork

\* What NewWatcher has established at each of its steps.  Of the options only
\* the estimate is computed with.
Established ==
  /\ pc \in HasOption => option.estimate \in Nat
  /\ pc \in HasNetwork =>
       option.network \in Supported /\ network = option.network
  /\ pc \in HasRepo => option.dbType = "clickhouse" /\ repo = "open"
  /\ pc \in HasKeys => option.key # "invalid"
  /\ pc \in HasHost => option.listenIP = "ipv4"
  /\ pc \in HasEstimate => option.estimate # 0
  /\ pc = "serve" => services = Services

\* The context ends only after a signal, and the error of a cancelled context
\* comes only from a complete watcher that has closed its repository.
EndsBySignal ==
  /\ signals = 0 => handler = "waits" /\ pending = FALSE
  /\ error = "canceled" => /\ handler = "done"
                           /\ repo = "closed"
                           /\ services = Services
  /\ exit = "zero" => error \in {"none", "canceled"}

\* A process that has ended takes no step, nothing has failed while NewWatcher
\* is under way, and main gets no error only from a watcher that was not begun.
OnTheWay ==
  /\ exit # "none" => pc = "ended"
  /\ pc \in {"launch"} \cup HasOption => error = "none"
  /\ pc = "launch" => NothingBuilt
  /\ error = "none" /\ (pc = "main" \/ exit = "zero") => NothingBuilt

\* The inductive invariant.
StartupInv ==
  /\ TypeOK
  /\ NeverPanics
  /\ Established
  /\ EndsBySignal
  /\ OnTheWay
-----------------------------------------------------------------------------
\* launchWatcher makes an option of every flag, and an estimate that is a
\* number.
LEMMA OptionsComplete ==
  ASSUME TypeOK, launchWatcher
  PROVE  DOMAIN option' = DOMAIN flags /\ option'.estimate \in Nat
<1>1. flags.estimate \in Estimates \cup {Unset} /\ "estimate" \in DOMAIN flags
  BY Zenon DEF TypeOK, Flags
<1>2. option'.estimate = IF flags.estimate = Unset THEN 0 ELSE flags.estimate
  BY <1>1, Zenon DEF launchWatcher, Default
<1>3. DOMAIN option' = DOMAIN flags
  BY DEF launchWatcher
<1>4. option'.estimate \in Nat
  <2>1. CASE flags.estimate = Unset
    BY <1>2, <2>1
  <2>2. CASE flags.estimate # Unset
    BY <1>1, <1>2, <2>2, StartupAssumption, Zenon
  <2>. QED
    BY <2>1, <2>2
<1>. QED
  BY <1>3, <1>4

\* A signal that is sent leaves the count within its bound and above zero.
LEMMA SignalCounted ==
  ASSUME TypeOK, Signal
  PROVE  signals' \in 0..MaxSignals /\ signals' # 0
<1>1. signals \in 0..MaxSignals /\ signals < MaxSignals
      /\ signals' = signals + 1
  BY Zenon DEF TypeOK, Signal
<1>. QED
  BY <1>1, StartupAssumption

\* One step preserves the invariant.
LEMMA StartupStep == StartupInv /\ [Next]_vars => StartupInv'
<1>. SUFFICES ASSUME StartupInv, [Next]_vars PROVE StartupInv'
  OBVIOUS
<1>. USE DEF StartupInv, TypeOK, NeverPanics, Established, EndsBySignal,
             OnTheWay, HasEstimate, HasHost, HasKeys, HasRepo, HasNetwork,
             HasOption, NothingBuilt, signalVars
<1>1. CASE launchWatcher
  <2>1. DOMAIN option' = DOMAIN flags /\ option'.estimate \in Nat
    BY <1>1, OptionsComplete, Zenon
  <2>. QED
    BY <1>1, <2>1, Zenon DEF launchWatcher
<1>0. CASE cliReturns
  BY <1>0, Zenon DEF cliReturns
<1>2. CASE SetNetwork
  BY <1>2, Zenon DEF SetNetwork, Builds, Fails
<1>3. CASE NewRepository
  BY <1>3, Zenon DEF NewRepository, Builds, Fails
<1>4. CASE retrievePrivateKeys
  BY <1>4, Zenon DEF retrievePrivateKeys, Plain, Builds, Fails
<1>5. CASE NewHost
  BY <1>5, Zenon DEF NewHost, Plain, Builds, Fails
<1>6. CASE NewDiscovery
  BY <1>6, Zenon DEF NewDiscovery, Reads, Fails
<1>7. CASE NewBeaconMessageProcessor
  BY <1>7, Zenon DEF NewBeaconMessageProcessor, Reads
<1>8. CASE NewGossipSub
  BY <1>8, Zenon DEF NewGossipSub, Reads, Fails
<1>9. CASE NewReqResp
  BY <1>9, Zenon DEF NewReqResp
<1>10. CASE Serve
  BY <1>10, Zenon DEF Serve, Cancelled
<1>11. CASE main
  BY <1>11, Zenon DEF main
<1>12. CASE Signal
  <2>1. signals' \in 0..MaxSignals /\ signals' # 0
    BY <1>12, SignalCounted, Zenon
  <2>2. TypeOK' /\ NeverPanics'
    BY <1>12, <2>1, Zenon DEF Signal
  <2>3. Established' /\ OnTheWay'
    BY <1>12, Zenon DEF Signal
  <2>4. EndsBySignal'
    BY <1>12, <2>1, Zenon DEF Signal
  <2>. HIDE DEF TypeOK, NeverPanics, Established, EndsBySignal, OnTheWay
  <2>. QED
    BY <2>2, <2>3, <2>4, Zenon
<1>13. CASE HandleSignal
  <2>1. TypeOK' /\ NeverPanics'
    BY <1>13, Zenon DEF HandleSignal
  <2>2. Established' /\ OnTheWay'
    BY <1>13, Zenon DEF HandleSignal
  <2>3. EndsBySignal'
    BY <1>13, Zenon DEF HandleSignal
  <2>. HIDE DEF TypeOK, NeverPanics, Established, EndsBySignal, OnTheWay
  <2>. QED
    BY <2>1, <2>2, <2>3, Zenon
<1>14. CASE UNCHANGED vars
  <2>1. TypeOK' /\ NeverPanics'
    BY <1>14, Zenon DEF vars
  <2>2. Established' /\ EndsBySignal' /\ OnTheWay'
    BY <1>14, Zenon DEF vars
  <2>. HIDE DEF TypeOK, NeverPanics, Established, EndsBySignal, OnTheWay
  <2>. QED
    BY <2>1, <2>2, Zenon
<1>. QED
  BY <1>0, <1>1, <1>2, <1>3, <1>4, <1>5, <1>6, <1>7, <1>8, <1>9, <1>10, <1>11,
     <1>12, <1>13, <1>14, Zenon DEF Next, Run

\* The inductive invariant holds in every reachable state.
THEOREM StartupInvariant == Spec => []StartupInv
<1>1. Init => StartupInv
  <2>0. 0 \in 0..MaxSignals
    BY StartupAssumption
  <2>1. Init => TypeOK
    BY <2>0, Zenon DEF Init, TypeOK
  <2>2. Init => NeverPanics /\ Established /\ EndsBySignal /\ OnTheWay
    BY Zenon DEF Init, NeverPanics, Established, EndsBySignal, OnTheWay,
           HasEstimate, HasHost, HasKeys, HasRepo, HasNetwork, HasOption,
           NothingBuilt
  <2>. QED
    BY <2>1, <2>2 DEF StartupInv
<1>. QED
  BY <1>1, StartupStep, PTL DEF Spec

\* No configuration and no signal makes a constructor read a network that is
\* not set (eth/network.go, GetNetwork).
THEOREM NoPanic == Spec => []NeverPanics
<1>1. StartupInv => NeverPanics
  BY DEF StartupInv
<1>. QED
  BY <1>1, StartupInvariant, PTL

\* What runs was accepted by every constructor (NewWatcher, lines 165-260).
THEOREM CompleteServes == Spec => []ServesOnlyComplete
<1>1. StartupInv => ServesOnlyComplete
  BY DEF StartupInv, Established, ServesOnlyComplete, HasEstimate, HasHost,
         HasKeys, HasRepo, HasNetwork, HasOption
<1>. QED
  BY <1>1, StartupInvariant, PTL

\* Exit status 0 is given only after a signal, to a complete watcher that has
\* closed its repository, or when no watcher was begun (main, lines 62-65).
THEOREM CleanZero == Spec => []ZeroMeansClean
<1>1. StartupInv => ZeroMeansClean
  <2>1. ASSUME StartupInv PROVE signals \in Nat
    <3>1. signals \in 0..MaxSignals
      BY <2>1, Zenon DEF StartupInv, TypeOK
    <3>. QED
      BY <3>1, StartupAssumption
  <2>. QED
    <3>1. ASSUME StartupInv, exit = "zero", error = "canceled"
          PROVE  signals > 0 /\ services = Services /\ repo = "closed"
      <4>1. signals # 0 /\ services = Services /\ repo = "closed"
        BY <3>1, Zenon DEF StartupInv, EndsBySignal
      <4>. QED
        BY <2>1, <3>1, <4>1
    <3>2. ASSUME StartupInv, exit = "zero", error = "none"
          PROVE  NothingBuilt
      BY <3>2, Zenon DEF StartupInv, OnTheWay
    <3>3. StartupInv /\ exit = "zero" => error \in {"none", "canceled"}
      BY Zenon DEF StartupInv, EndsBySignal
    <3>. QED
      BY <3>1, <3>2, <3>3, Zenon DEF ZeroMeansClean
<1>. QED
  BY <1>1, StartupInvariant, PTL
=============================================================================
