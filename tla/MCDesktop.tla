------------------------------ MODULE MCDesktop ------------------------------
(***************************************************************************)
(* The desktop process: its shell from start to exit, its sleep and wake   *)
(* coordinator, the access of browsers, the commands to Mihomo's           *)
(* controller and the service probes.  As in MCServices the initial state  *)
(* chooses the component that moves, and at which size; the others keep    *)
(* their initial state.                                                    *)
(***************************************************************************)
EXTENDS Integers, Sequences, FiniteSets, BrowserAccess, ServiceProbes, DesktopLifecycle

VARIABLES
  unit,  \* the component that moves
  disk, process, capture, tun, core, turn, stopping, startup, request, exit, slot, handle,
  claim, quit, evidence, spent,
  source, authority, command, execution, latest, control, work, test, probe, providers,
  mihomo, budget

shellVars == <<disk, process, capture, tun, core, turn, stopping, startup, request, exit, slot,
               handle, claim, quit, evidence, spent>>
browserVars == <<tokens, sessions, pairing, lockout, browser, via, issued, ended>>
controllerVars == <<source, authority, command, execution, latest, control, work, test, probe,
                    providers, mihomo, budget>>
probesVars == <<cfg, file, token, hosts, wake, started, loop, client, closed, used>>
vars == <<unit, shellVars, lvars, browserVars, controllerVars, probesVars>>

Shell == INSTANCE DesktopShell WITH
  Behaviors <- {"off", "core", "proxy"}, Tries <- 2, Watches <- 2, RecordLimit <- 2,
  MaxCommands <- 2, MaxFaults <- 1, MaxRestarts <- 1

\* Two launch links and one pairing, instead of one and two.
Launches == INSTANCE BrowserAccess WITH MaxTokens <- 2, MaxChallenges <- 1

Mixes == {{"select"}, {"delay", "cancel"}, {"provider"}, {"route", "traffic"}}
Controller == INSTANCE ControllerCommands WITH
  Clients <- {1, 2}, Children <- {"a", "b"}, Mixes <- Mixes,
  QuietScans <- 1, spent <- budget,
  MaxCommands <- 2, MaxFaults <- 0, MaxPauses <- 1, MaxChanges <- 1
Refused == INSTANCE ControllerCommands WITH
  Clients <- {1, 2}, Children <- {"a", "b"}, Mixes <- Mixes,
  QuietScans <- 1, spent <- budget,
  MaxCommands <- 2, MaxFaults <- 1, MaxPauses <- 0, MaxChanges <- 1

\* A default monitor and one the user added.
Default == [id |-> "d", url |-> <<"h", 1>>]
Added == [id |-> "n", url |-> <<"k", 1>>]
MCDefaults == <<Default>>
MCStored == {<<Default, Added>>}

Units == {"shell", "lifecycle", "launches", "pairs", "controller", "refused", "probes"}

\* The components other than the one that moves stay in their initial state.
Only(component) ==
  /\ UNCHANGED unit
  /\ IF component = "shell" THEN TRUE ELSE UNCHANGED shellVars
  /\ IF component = "lifecycle" THEN TRUE ELSE UNCHANGED lvars
  /\ IF component = "access" THEN TRUE ELSE UNCHANGED browserVars
  /\ IF component = "controller" THEN TRUE ELSE UNCHANGED controllerVars
  /\ IF component = "probes" THEN TRUE ELSE UNCHANGED probesVars

Init ==
  /\ unit \in Units
  /\ Shell!ShellInit /\ LifecycleInit /\ BrowserInit
  /\ Controller!ControllerInit /\ ProbesInit
  /\ unit # "shell" => disk.marker = "none" /\ disk.behavior = "off" /\ ~disk.lock /\ ~disk.updater
  /\ unit # "lifecycle" => host.profile = "p" /\ ~seen
  /\ unit \notin {"controller", "refused"} => mihomo.now = "a" /\ budget.mix = {"select"}
  /\ unit # "probes" => cfg.interval = OffInterval /\ cfg.order = <<1, 2>>

Next ==
  \/ unit = "shell" /\ Shell!ShellNext /\ Only("shell")
  \/ unit = "lifecycle" /\ LifecycleNext /\ Only("lifecycle")
  \/ unit = "launches" /\ Launches!BrowserNext /\ Only("access")
  \/ unit = "pairs" /\ BrowserNext /\ Only("access")
  \/ unit = "controller" /\ Controller!ControllerNext /\ Only("controller")
  \/ unit = "refused" /\ Refused!ControllerNext /\ Only("controller")
  \/ unit = "probes" /\ ProbesNext /\ Only("probes")

Spec == Init /\ [][Next]_vars
-----------------------------------------------------------------------------
(* The properties of each component.                                        *)


\* The commands to Mihomo: a cleanup of connections spares what the newest
\* selection chose, a cancelled delay test stays cancelled, and a provider update
\* shown as pending has a command that will end it.
ControllerIsSafe ==
  /\ [](unit \in {"controller", "refused"} => Controller!CancelHolds /\ Controller!PendingIsOwned)
  /\ Controller!CleanupSparesSelected
=============================================================================
