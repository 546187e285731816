------------------------------- MODULE Startup ------------------------------
(***************************************************************************)
(* The life of the process: main (cmd/cmd.go) with its signal handler,     *)
(* launchWatcher (cmd/cmd_watcher.go), which turns flags into options, and *)
(* NewWatcher and Serve (watcher/watcher.go), which build the parts in     *)
(* order and run them.  The network is a global of eth/network.go that     *)
(* constructors read: GetNetwork panics while it is not set.               *)
(***************************************************************************)
EXTENDS Integers

CONSTANTS
  Networks, DbTypes, Keys, IPs,       \* values of string flags
  TargetPeers, Estimates, Ports,      \* values of integer flags
  Unset,                              \* a flag that is not given
  DatabasePort,                       \* where the database listens
  Uint16,                             \* 2^16
  MaxSignals                          \* bound: signals to the process

\* The estimate is an unsigned integer.
ASSUME StartupAssumption == Estimates \subseteq Nat /\ MaxSignals \in Nat

Supported == {"mainnet", "hoodi"}

Services ==
  {"host", "discovery", "dialer", "gossipSub", "reqResp", "processor"}

Flags ==
  [network : Networks \cup {Unset}, dbType : DbTypes \cup {Unset},
   key : Keys \cup {Unset}, listenIP : IPs \cup {Unset},
   targetPeers : TargetPeers \cup {Unset},
   estimate : Estimates \cup {Unset}, dbPort : Ports \cup {Unset}]

VARIABLES
  flags,     \* what the command line and the environment give
  option,    \* WatcherOption; [f \in {} |-> 0] before it exists
  pc,        \* the next constructor, or "serve", "close", "main", "ended"
  network,   \* the global of eth/network.go; "" before it is set
  services,  \* the services added to the supervisor
  repo,      \* "none", "open" or "closed"
  error,     \* the error on its way to main
  handler,   \* main's goroutine: "waits", "stopped" or "done"
  pending,   \* a signal is in the channel signals
  signals,   \* history: number of signals sent
  exit       \* "none", "zero", "one", "panic" or "killed"

vars == <<flags, option, pc, network, services, repo, error, handler,
          pending, signals, exit>>

\* The variables of main's goroutine, and those that main itself changes.
signalVars == <<handler, pending, signals>>

Init ==
  /\ flags \in Flags
  /\ option = [f \in {} |-> 0]
  /\ pc = "launch"
  /\ network = ""
  /\ services = {}
  /\ repo = "none"
  /\ error = "none"
  /\ handler = "waits" /\ pending = FALSE /\ signals = 0
  /\ exit = "none"
-----------------------------------------------------------------------------
\* SIGINT or SIGTERM.  While the goroutine has them notified the channel
\* takes one; after signal.Stop they have their default effect.
Signal ==
  /\ exit = "none" /\ signals < MaxSignals
  /\ signals' = signals + 1
  /\ IF handler = "waits"
       THEN pending' = TRUE /\ UNCHANGED <<exit, pc>>
       ELSE exit' = "killed" /\ pc' = "ended" /\ UNCHANGED pending
  /\ UNCHANGED <<flags, option, network, services, repo, error,
                 handler>>

\* Mutant: the signal is taken, but the context is never cancelled.
NoCancel ==
  /\ exit = "none"
  /\ \/ handler = "waits" /\ pending /\ handler' = "stopped"
     \/ handler = "stopped" /\ FALSE /\ handler' = "done"
  /\ UNCHANGED <<flags, option, pc, network, services, repo, error,
                 pending, signals, exit>>

\* The goroutine receives the signal and leaves: signal.Stop, then cancel.
HandleSignal ==
  /\ exit = "none"
  /\ \/ handler = "waits" /\ pending /\ handler' = "stopped"
     \/ handler = "stopped" /\ handler' = "done"
  /\ UNCHANGED <<flags, option, pc, network, services, repo, error,
                 pending, signals, exit>>

Cancelled == handler = "done"
-----------------------------------------------------------------------------
\* launchWatcher sets an option only for a flag that is set; NewWatcher has
\* defaults for some of them.  The others are zero.
Default == [network |-> "mainnet", dbType |-> "", key |-> "",
            listenIP |-> "ipv4", targetPeers |-> 80, estimate |-> 0,
            dbPort |-> 0]

launchWatcher ==
  /\ pc = "launch" /\ exit = "none"
  /\ option' = [f \in DOMAIN flags |->
                  IF flags[f] = Unset THEN Default[f] ELSE flags[f]]
  /\ pc' = "SetNetwork"
  /\ UNCHANGED <<flags, network, services, repo, error, exit,
                 signalVars>>

\* cmd.Run returns without a call of launchWatcher (external): it has printed
\* the help or a completion, or could not parse the command line.
cliReturns ==
  /\ pc = "launch" /\ exit = "none"
  /\ pc' = "main"
  /\ error' \in {"none", "command line"}
  /\ UNCHANGED <<flags, option, network, services, repo, exit,
                 signalVars>>

\* A constructor at label from succeeds and control goes to label to.
Builds(from, to) ==
  /\ pc = from /\ exit = "none"
  /\ pc' = to
  /\ UNCHANGED <<flags, option, services, error, exit, signalVars>>

\* A constructor at label from fails: NewWatcher and launchWatcher wrap the
\* error and return.
Fails(from, reason) ==
  /\ pc = from /\ exit = "none"
  /\ pc' = "main"
  /\ error' = reason
  /\ UNCHANGED <<flags, option, network, services, repo, exit,
                 signalVars>>

\* Mutant: the error of SetNetwork is ignored.
SetNetworkIgnored ==
  /\ pc = "SetNetwork"
  /\ network' = IF option.network \in Supported THEN option.network
                                                ELSE network
  /\ Builds("SetNetwork", "NewRepository")
  /\ UNCHANGED repo

SetNetwork ==
  \/ /\ pc = "SetNetwork" /\ option.network \in Supported
     /\ network' = option.network
     /\ Builds("SetNetwork", "NewRepository")
     /\ UNCHANGED repo
  \/ /\ pc = "SetNetwork" /\ option.network \notin Supported
     /\ Fails("SetNetwork", "network")

\* The port is converted to uint16.  The database answers the ping at its
\* own port, unless it is down.
NewRepository ==
  \/ /\ pc = "NewRepository" /\ option.dbType # "clickhouse"
     /\ Fails("NewRepository", "unsupported database type")
  \/ /\ pc = "NewRepository" /\ option.dbType = "clickhouse"
     /\ \/ /\ option.dbPort % Uint16 = DatabasePort
           /\ Builds("NewRepository", "retrievePrivateKeys")
           /\ repo' = "open"
           /\ UNCHANGED network
        \/ Fails("NewRepository", "ping")

\* A constructor that changes nothing but the control state.
Plain(from, to) == Builds(from, to) /\ UNCHANGED <<network, repo>>

\* A key that is given is parsed; without one, a key is generated, unless the
\* source of random numbers fails.
retrievePrivateKeys ==
  \/ /\ pc = "retrievePrivateKeys" /\ option.key # "invalid"
     /\ Plain("retrievePrivateKeys", "NewHost")
  \/ /\ pc = "retrievePrivateKeys" /\ option.key \in {"invalid", ""}
     /\ Fails("retrievePrivateKeys", "key")

\* Mutant: the address may be of either family.
NewHostAnyIP ==
  \/ Plain("NewHost", "NewDiscovery")
  \/ Fails("NewHost", "listen")

\* NewConnManager and NewHost.  libp2p.New fails if it cannot listen.
NewHost ==
  \/ /\ pc = "NewHost" /\ option.listenIP = "ipv4"
     /\ \/ Plain("NewHost", "NewDiscovery")
        \/ Fails("NewHost", "listen")
  \/ /\ pc = "NewHost" /\ option.listenIP # "ipv4"
     /\ Fails("NewHost", "ip")

\* A constructor that reads the network, with GetNetwork.
Reads(from, to) ==
  LET panics == network \notin Supported IN
  /\ pc = from /\ exit = "none"
  /\ pc' = IF panics THEN "ended" ELSE to
  /\ exit' = IF panics THEN "panic" ELSE exit
  /\ UNCHANGED <<flags, option, network, services, repo, error, signalVars>>

\* NewDiscovery and NewDialer.  NewDiscovery fails if it cannot open the node
\* database, before it reads the network, or if it cannot compute a fork
\* digest or parse a bootstrap node, after it.  Its panic is out of reach: a
\* fork digest and a version have the four bytes that MarshalSSZ asks for.
\* NewDialer fails for lack of a host or a channel, which are both there.
NewDiscovery ==
  \/ Reads("NewDiscovery", "NewProcessor")
  \/ Fails("NewDiscovery", "discovery")

NewBeaconMessageProcessor ==
  Reads("NewProcessor", "NewGossipSub")

\* The fork digest comes after the read of the network, and may fail.
NewGossipSub ==
  \/ /\ pc = "NewGossipSub" /\ option.estimate # 0
     /\ \/ Reads("NewGossipSub", "NewReqResp")
        \/ network \in Supported /\ Fails("NewGossipSub", "fork digest")
  \/ /\ pc = "NewGossipSub" /\ option.estimate = 0
     /\ Fails("NewGossipSub", "estimate")

\* NewReqResp, and the services are added to the supervisor.
NewReqResp ==
  /\ pc = "NewReqResp" /\ exit = "none"
  /\ pc' = "serve"
  /\ services' = Services
  /\ UNCHANGED <<flags, option, network, repo, error, exit, signalVars>>
-----------------------------------------------------------------------------
\* supervisor.Serve returns the context's error; Serve's deferred Close.
\* The context is not looked at before.
Serve ==
  /\ pc = "serve" /\ exit = "none" /\ Cancelled
  /\ pc' = "main"
  /\ error' = "canceled"
  /\ repo' = "closed"
  /\ UNCHANGED <<flags, option, network, services, exit, signalVars>>

\* Mutant: the exit status ignores the error.
mainIgnoresError ==
  /\ pc = "main" /\ exit = "none"
  /\ pc' = "ended"
  /\ exit' = "zero"
  /\ UNCHANGED <<flags, option, network, services, repo, error,
                 signalVars>>

main ==
  /\ pc = "main" /\ exit = "none"
  /\ pc' = "ended"
  /\ exit' = IF error \in {"none", "canceled"} THEN "zero" ELSE "one"
  /\ UNCHANGED <<flags, option, network, services, repo, error,
                 signalVars>>

Run ==
  \/ launchWatcher \/ cliReturns \/ SetNetwork \/ NewRepository
  \/ retrievePrivateKeys \/ NewHost \/ NewDiscovery
  \/ NewBeaconMessageProcessor \/ NewGossipSub \/ NewReqResp \/ Serve
  \/ main

Next == Run \/ Signal \/ HandleSignal

Spec == Init /\ [][Next]_vars

\* Both goroutines are scheduled; the calls they make return: connecting to
\* the database has a timeout, and the supervisor stops its services.
FairSpec == Spec /\ WF_vars(Run) /\ WF_vars(HandleSignal)
-----------------------------------------------------------------------------
TypeOK ==
  /\ flags \in Flags
  /\ pc \notin {"launch", "main", "ended"} => DOMAIN option = DOMAIN flags
  /\ network \in Supported \cup {""}
  /\ services \in {{}, Services}
  /\ repo \in {"none", "open", "closed"}
  /\ handler \in {"waits", "stopped", "done"}
  /\ signals \in 0..MaxSignals
  /\ exit \in {"none", "zero", "one", "panic", "killed"}

\* No configuration makes a constructor panic on the network that is not set
\* (eth/network.go:19): every reader runs after SetNetwork has succeeded.
NeverPanics == exit # "panic"

\* Services run only under a configuration that every part accepted, with an
\* open repository (NewWatcher, lines 165-260).
ServesOnlyComplete ==
  pc = "serve" =>
    /\ services = Services /\ repo = "open"
    /\ option.network \in Supported /\ option.network = network
    /\ option.dbType = "clickhouse" /\ option.key # "invalid"
    /\ option.listenIP = "ipv4" /\ option.estimate > 0

\* Nothing of the watcher exists.
NothingBuilt ==
  DOMAIN option = {} /\ network = "" /\ services = {} /\ repo = "none"

\* Exit status 0 means that a signal asked a complete watcher for the end and
\* that it closed its repository, or that the command line asked for no watcher
\* and none was begun; no failure of a constructor is hidden, also not one that
\* races with a signal (main, lines 62-65).
ZeroMeansClean ==
  exit = "zero" =>
    \/ signals > 0 /\ services = Services /\ repo = "closed"
    \/ error = "none" /\ NothingBuilt

\* The process serves or ends, whatever the flags are.
ServesOrEnds == <>(pc = "serve" \/ exit # "none")

\* A signal ends the process, also one that arrives while the watcher is
\* being built, when nothing looks at the context.
SignalEnds == (signals > 0) ~> (exit # "none")
-----------------------------------------------------------------------------
\* cmd/cmd_watcher.go:98 gives the flag's default as "clickhouse": without
\* the flag the database type is accepted.
DbTypeDefault == flags.dbType = Unset => error # "unsupported database type"

\* cmd/cmd_watcher.go:79 gives the flag's default as "100": without the flag
\* a watcher that serves has 100 target peers.
TargetPeersDefault ==
  pc = "serve" /\ flags.targetPeers = Unset => option.targetPeers = 100
=============================================================================
