--------------------------- MODULE MCServicesLive ---------------------------
(***************************************************************************)
(* The notification centre, the Traffic source, the privileged TUN helper, *)
(* the activation manager with the Core it owns, and the coordinator of    *)
(* profile activations, under the fairness of each: as in MCServices the   *)
(* initial state chooses the component that moves and the size it is       *)
(* checked at.                                                             *)
(***************************************************************************)
EXTENDS Integers, Sequences

VARIABLES
  unit,  \* the component that moves, and at which size
  records, next_id, owners, sockets, subscribed, releasing, claims,
  tstate, ttasks, tmode, inner, lock, collector, pause, caller, effect, sent, failures,
  resolver, chosen, userChanges, record, cores, launches, helper, job, request, answer,
  watchdogs, desktop, hfaults, hcrashes,
  process, owner, configs, handle, manager, saved, capture, call, last, dropped, mish, spent,
  pstate, ptasks, pmode, resources, managed, reserved, capt, host, profiles, permit, proxyLock,
  shuttingDown, overtaken, at, waits, commands, pspent

centreVars == <<records, next_id, owners, sockets, subscribed, releasing, claims>>
trafficVars == <<tstate, ttasks, tmode, inner, lock, collector, pause, caller, effect, sent,
                 failures>>
tunVars == <<resolver, chosen, userChanges, record, cores, launches, helper, job, request,
             answer, watchdogs, desktop, hfaults, hcrashes>>
managerVars == <<process, owner, configs, handle, manager, saved, capture, call, last, dropped,
                 mish, spent>>
coordinatorVars == <<pstate, ptasks, pmode, resources, managed, reserved, capt, host, profiles,
                     permit, proxyLock, shuttingDown, overtaken, at, waits, commands, pspent>>
vars == <<unit, centreVars, trafficVars, tunVars, managerVars, coordinatorVars>>

\* One key opened and resolved, and a pinned one that replaces it.
Publications ==
  {[key |-> "k1", content |-> "plain", resolved |-> resolved, replaces |-> {}] : resolved \in BOOLEAN}
  \cup {[key |-> "k2", content |-> "pinned", resolved |-> FALSE, replaces |-> {"k1"}]}

TakesOver == INSTANCE Notifications WITH
  Sockets <- {"s1", "s2"}, Identities <- {"i1"}, Names <- [s \in {"s1", "s2"} |-> {"i1"}],
  RetentionLimit <- 1, LeaseTime <- 1, SubscriptionLimit <- 1,
  MaxId <- 2, MaxRevision <- 2, MaxGeneration <- 2

Pauses == INSTANCE TrafficSource WITH
  LedgerLimit <- 2, MaxOps <- 1, MaxSessions <- 2, MaxSequence <- 2, MaxPauses <- 1,
  MaxContexts <- 0, MaxFailures <- 1, TrafficTasks <- 1..2
Rebinds == INSTANCE TrafficSource WITH
  LedgerLimit <- 2, MaxOps <- 1, MaxSessions <- 2, MaxSequence <- 3, MaxPauses <- 0,
  MaxContexts <- 1, MaxFailures <- 1, TrafficTasks <- 1..2

Faulty == INSTANCE TunHelper WITH
  Servers <- {"a"}, Retries <- 2, MaxLaunches <- 1, MaxDesktops <- 2,
  MaxUserChanges <- 0, MaxFaults <- 1, MaxCrashes <- 0
Crashes == INSTANCE TunHelper WITH
  Servers <- {"a"}, Retries <- 2, MaxLaunches <- 1, MaxDesktops <- 1,
  MaxUserChanges <- 0, MaxFaults <- 0, MaxCrashes <- 1

Owned == INSTANCE Activation WITH
  Generations <- 1..2, Privileged <- FALSE, MaxFaults <- 1, MaxExits <- 1, MaxDeaths <- 0
Stops == INSTANCE ProfileActivation WITH
  spent <- pspent, Profiles <- {"p"}, MaxCommands <- 3, MaxFaults <- 1, MaxPanics <- 1,
  Operations <- {"activate", "cancel", "stop", "delete", "shutdown"}
Switches == INSTANCE ProfileActivation WITH
  spent <- pspent, Profiles <- {"p"}, MaxCommands <- 2, MaxFaults <- 1, MaxPanics <- 1,
  Operations <- {"activate", "capture", "launch", "switch", "shutdown"}

Units == {"takes over", "pauses", "rebinds", "faulty", "crashes",
          "owned", "stops", "switches"}

\* The components other than the one that moves stay in their initial state.
Only(component) ==
  /\ UNCHANGED unit
  /\ IF component = "centre" THEN TRUE ELSE UNCHANGED centreVars
  /\ IF component = "traffic" THEN TRUE ELSE UNCHANGED trafficVars
  /\ IF component = "tun" THEN TRUE ELSE UNCHANGED tunVars
  /\ IF component = "manager" THEN TRUE ELSE UNCHANGED managerVars
  /\ IF component = "coordinator" THEN TRUE ELSE UNCHANGED coordinatorVars

Init ==
  /\ unit \in Units
  /\ TakesOver!NotificationsInit
  /\ Pauses!TrafficInit /\ Crashes!TunHelperInit
  /\ Owned!ActivationInit /\ Stops!ProfileActivationInit

Next ==
  \/ unit = "takes over" /\ TakesOver!NotificationsNext /\ Only("centre")
  \/ unit = "pauses" /\ Pauses!TrafficNext /\ Only("traffic")
  \/ unit = "rebinds" /\ Rebinds!TrafficNext /\ Only("traffic")
  \/ unit = "faulty" /\ Faulty!TunHelperNext /\ Only("tun")
  \/ unit = "crashes" /\ Crashes!TunHelperNext /\ Only("tun")
  \/ unit = "owned" /\ Owned!ActivationNext /\ Only("manager")
  \/ unit = "stops" /\ Stops!ProfileActivationNext /\ Only("coordinator")
  \/ unit = "switches" /\ Switches!ProfileActivationNext /\ Only("coordinator")

\* The fairness of each module, for the unit that moves.
CentreFairness ==
  /\ WF_centreVars(unit = "takes over" /\ TakesOver!Tick)
  /\ \A s \in {"s1", "s2"} :
       /\ WF_centreVars(unit = "takes over" /\ TakesOver!Sweep(s))
       /\ WF_centreVars(unit = "takes over" /\ TakesOver!ReleaseIdentity(s))
       /\ WF_centreVars(unit = "takes over" /\ sockets[s] = "gone" /\ TakesOver!Unsubscribe(s, "i1"))

Traffic(pauses, rebinds) == (unit = "pauses" /\ pauses) \/ (unit = "rebinds" /\ rebinds)
TrafficFairness ==
  /\ WF_trafficVars(Traffic(Pauses!CollectorStep, Rebinds!CollectorStep))
  /\ WF_trafficVars(Traffic(Pauses!PauseStep, Rebinds!PauseStep))
  /\ WF_trafficVars(Traffic(Pauses!EffectStep, Rebinds!EffectStep))
  /\ WF_trafficVars(Traffic(Pauses!CallerStep, Rebinds!CallerStep))
  /\ WF_trafficVars(Traffic(Pauses!EffectJoin, Rebinds!EffectJoin))
  /\ SF_trafficVars(Traffic(Pauses!CollectorLock, Rebinds!CollectorLock))

Tun(faulty, crashes) == (unit = "faulty" /\ faulty) \/ (unit = "crashes" /\ crashes)
TunFairness ==
  /\ WF_tunVars(Tun(Faulty!Jobs, Crashes!Jobs))
  /\ WF_tunVars(Tun(Faulty!Watchdog, Crashes!Watchdog))
  /\ WF_tunVars(Tun(Faulty!HelperStarts, Crashes!HelperStarts))

ManagerFairness ==
  /\ WF_managerVars(unit = "owned" /\ Owned!ManagerStep)
  /\ \A g \in 1..2 :
       /\ WF_managerVars(unit = "owned" /\ Owned!Notice(g))
       /\ WF_managerVars(unit = "owned" /\ Owned!DropHandle(g))

Coordinator(stops, switches) == (unit = "stops" /\ stops) \/ (unit = "switches" /\ switches)
CoordinatorFairness ==
  /\ WF_coordinatorVars(Coordinator(Stops!Effects, Switches!Effects))
  /\ WF_coordinatorVars(Coordinator(Stops!ProxyStep, Switches!ProxyStep))
  /\ WF_coordinatorVars(Coordinator(Stops!UserStep, Switches!UserStep))
  /\ SF_coordinatorVars(Coordinator(Stops!ShutdownLocks, Switches!ShutdownLocks))
  /\ SF_coordinatorVars(Coordinator(Stops!ShutdownStops, Switches!ShutdownStops))
  /\ WF_coordinatorVars(Coordinator(Stops!ShutdownStep, Switches!ShutdownStep))

Spec ==
  /\ Init /\ [][Next]_vars
  /\ CentreFairness /\ TrafficFairness /\ TunFairness /\ ManagerFairness /\ CoordinatorFairness

-----------------------------------------------------------------------------
(* The properties of each component.                                        *)

\* Every lease of a notification ends, by acknowledgement, release, eviction or
\* the sweep.
LeaseEnds == TakesOver!LeaseEnds

\* A pending Traffic command belongs to the live session, a close request
\* reaches the session the client chose from, an admitted observation makes
\* the machine live again, and every command is answered.
TrafficIsAnswered ==
  /\ [](unit \in {"pauses", "rebinds"} =>
        Pauses!PendingIsLive /\ Pauses!ClosesItsOwnSession /\ Pauses!RecoversLive)
  /\ Pauses!CommandAnswered

\* Once no Core runs, Mish's DNS goes away without any further request.
DnsComesBack == Crashes!DnsComesBack

\* Once nothing is active, no Core that this process of Mish owns goes on
\* running: no privileged Core, and no death of Mish itself.
SafeStopEnds == Owned!SafeStopEnds

\* What the coordinator published at the end of a command is what runs, and the
\* profile that runs is never deleted.  A shutdown that succeeded has left
\* neither Core nor Capture, unless a call that read the flag before the
\* shutdown set it took the permit afterwards; and every shutdown comes to an
\* end, but for one that such a call made miss the end of a command.
QuitReturns ==
  /\ [](unit \in {"stops", "switches"} =>
        Stops!TerminalIsTrue /\ Stops!ActiveProfileKept /\ Stops!ShutdownIsSafe)
  /\ Stops!QuitReturns
=============================================================================
