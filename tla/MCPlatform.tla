----------------------------- MODULE MCPlatform -----------------------------
(***************************************************************************)
(* What outlives a step of the application: the profile store, the         *)
(* settings, the TUN Helper (its connections, its life cycle and its       *)
(* package), and the Android service with what the web view asks of it.    *)
(* As in MCServices the initial state chooses the component that moves,    *)
(* and at which size; the others keep their initial state.                 *)
(***************************************************************************)
EXTENDS Integers, Sequences, FiniteSets, HelperGate, MobileObservers, SettingsService, HelperLifecycle

VARIABLES
  unit,  \* the component that moves, and at which size
  pointer, shelf, root, mirror, visible, observed, pending, pre, call, spent,
  files, enrolled, backup, kept, journal, service, core, helper, cli, user, serial, tused,
  m, pend, tasks, f, serving, svc, intents, starts, op, mspent,
  mlife, mcore, facts, turn, routes, traffic, work, sent, applied, refused, cspent

storeVars == <<pointer, shelf, root, mirror, visible, observed, pending, pre, call, spent>>
gateVars == <<gate, conn, client, tun, running, counted>>
packageVars == <<files, enrolled, backup, kept, journal, service, core, helper, cli, user, serial,
                 tused>>
androidVars == <<m, pend, tasks, f, serving, svc, intents, starts, op, mspent>>
commandVars == <<mlife, mcore, facts, turn, routes, traffic, work, sent, applied, refused,
                 cspent>>
vars == <<unit, storeVars, ssvars, gateVars, hvars, packageVars,
          androidVars, commandVars, movars>>

\* Four contents of a profile: two good, one whose rules conflict, one that is
\* no configuration.
Writes == INSTANCE ProfileStore WITH
  Ids <- {1, 2}, Files <- {"f"}, Contents <- 1..4, Broken <- {4}, Conflicting <- {3},
  Operations <- {"save", "delete", "detach", "policy", "refresh", "reconcile"},
  MaxCommands <- 2, MaxEdits <- 1, MaxFaults <- 1, MaxCrashes <- 1
Previews == INSTANCE ProfileStore WITH
  Ids <- {1, 2}, Files <- {"f"}, Contents <- 1..4, Broken <- {4}, Conflicting <- {3},
  Operations <- {"save", "delete", "detach"},
  MaxCommands <- 3, MaxEdits <- 1, MaxFaults <- 1, MaxCrashes <- 1

\* A gate that one challenge fills.
Full == INSTANCE HelperGate WITH MaxOutstanding <- 1, MaxFaults <- 1

Package == INSTANCE InternalTun WITH
  Versions <- {1, 2}, root <- helper, used <- tused,
  MaxCommands <- 3, MaxFaults <- 1, MaxCrashes <- 2, MaxConnects <- 1

Android == INSTANCE MobileLifecycle WITH
  Commands <- {"start", "stop", "consent"}, active <- serving, spent <- mspent,
  MaxCommands <- 2, MaxFaults <- 1, MaxEvents <- 1, MaxCrashes <- 1

Selects == INSTANCE MobileCommands WITH
  Clients <- {1, 2}, Ops <- {1, 2}, Children <- {"a", "b"}, Configs <- {1, 2},
  Mixes <- {{"select", "cancel"}, {"select", "load"}}, LedgerLimit <- 4,
  life <- mlife, core <- mcore, gate <- turn, spent <- cspent, MaxCalls <- 3, MaxEvents <- 2
Closes == INSTANCE MobileCommands WITH
  Clients <- {1, 2}, Ops <- {1, 2}, Children <- {"a", "b"}, Configs <- {1, 2},
  Mixes <- {{"close"}}, LedgerLimit <- 4,
  life <- mlife, core <- mcore, gate <- turn, spent <- cspent, MaxCalls <- 3, MaxEvents <- 3

Units == {"writes", "previews", "settings", "connects", "full", "maintains",
          "package", "android", "selects", "closes", "observes"}

\* The components other than the one that moves stay in their initial state.
Only(component) ==
  /\ UNCHANGED unit
  /\ IF component = "store" THEN TRUE ELSE UNCHANGED storeVars
  /\ IF component = "settings" THEN TRUE ELSE UNCHANGED ssvars
  /\ IF component = "gate" THEN TRUE ELSE UNCHANGED gateVars
  /\ IF component = "helper" THEN TRUE ELSE UNCHANGED hvars
  /\ IF component = "package" THEN TRUE ELSE UNCHANGED packageVars
  /\ IF component = "android" THEN TRUE ELSE UNCHANGED androidVars
  /\ IF component = "commands" THEN TRUE ELSE UNCHANGED commandVars
  /\ IF component = "observers" THEN TRUE ELSE UNCHANGED movars

Init ==
  /\ unit \in Units
  /\ Writes!ProfileStoreInit /\ SettingsInit
  /\ GateInit /\ HelperInit /\ Package!TunInit
  /\ Android!MobileInit /\ MobileObserversInit
  /\ IF unit = "closes" THEN Closes!MobileCommandsInit ELSE Selects!MobileCommandsInit
  /\ unit \notin {"writes", "previews"} => root
  /\ unit # "settings" => prefs.recovered
  /\ unit # "maintains" => host.helper = "healthy"
                           /\ ctl = (CHOOSE first \in StartupSnapshots("healthy") : TRUE)
  /\ unit \notin {"selects", "closes"} => cspent.mix = {"select", "load"}

Next ==
  \/ unit = "writes" /\ Writes!ProfileStoreNext /\ Only("store")
  \/ unit = "previews" /\ Previews!ProfileStoreNext /\ Only("store")
  \/ unit = "settings" /\ SettingsNext /\ Only("settings")
  \/ unit = "connects" /\ GateNext /\ Only("gate")
  \/ unit = "full" /\ Full!GateNext /\ Only("gate")
  \/ unit = "maintains" /\ HelperNext /\ Only("helper")
  \/ unit = "package" /\ Package!TunNext /\ Only("package")
  \/ unit = "android" /\ Android!MobileNext /\ Only("android")
  \/ unit = "selects" /\ Selects!MobileCommandsNext /\ Only("commands")
  \/ unit = "closes" /\ Closes!MobileCommandsNext /\ Only("commands")
  \/ unit = "observes" /\ MobileObserversNext /\ Only("observers")

Spec == Init /\ [][Next]_vars
-----------------------------------------------------------------------------
(* The properties of each component.                                        *)

\* The profile store can be read after every failed write and every crash, but
\* for those in the first publication of a fresh store, and a profile is saved
\* only from the preview the user saw last.
ProfilesAreKept ==
  /\ [](unit \in {"writes", "previews"} => Writes!StoreReadable)
  /\ Writes!PreviewIsCurrent

\* An installation that worked is recoverable until the next one is settled, and
\* the Helper serves whole installations, but for one whose rollback from a
\* committed installation lost the power: there it serves a Core it pins and an
\* enrollment its plist names.
InstallationIsWhole == unit = "package" => Package!PriorRecoverable /\ Package!ServesSettled

\* A stopped Android product holds neither tunnel nor Core.
StoppedHoldsNothing == unit = "android" => Android!StoppedHoldsNothing

\* A mobile command takes effect at most once, one that was refused stays refused,
\* and one that is applied means in the Core's catalogue what it means in the one
\* it was given for.
MobileCommandsHold ==
  /\ [](unit \in {"selects", "closes"} => Selects!AppliedOnce)
  /\ Selects!RefusedStaysRefused /\ Selects!EffectMatchesCatalogue
=============================================================================
