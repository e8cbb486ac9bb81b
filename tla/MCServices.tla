----------------------------- MODULE MCServices -----------------------------
(***************************************************************************)
(* The components that talk to each other only through calls modelled in   *)
(* their own modules, side by side: the initial state chooses a component  *)
(* and the size it is checked at, and only that component moves.           *)
(***************************************************************************)
EXTENDS Integers, Sequences, FiniteSets, Snapshots, Maintenance, MCRestore

VARIABLES
  unit,  \* the component that moves, and at which size
  store, usnap, offered, highWater, admission, requests, check, cont, download, service, ucrashes,
  resolver, chosen, userChanges, record, cores, launches, helper, job, request, answer,
  watchdogs, desktop, hfaults, hcrashes,
  process, owner, configs, handle, manager, saved, capture, acall, last, dropped, mish, spent,
  records, next_id, owners, sockets, subscribed, releasing, claims

snapshotVars == <<truth, replacing, authority, feed, loop, command, responses, wire, client>>
updaterVars == <<store, usnap, offered, highWater, admission, requests, check, cont, download,
                 service, ucrashes>>
tunVars == <<resolver, chosen, userChanges, record, cores, launches, helper, job, request,
             answer, watchdogs, desktop, hfaults, hcrashes>>
managerVars == <<process, owner, configs, handle, manager, saved, capture, acall, last,
                 dropped, mish, spent>>
centreVars == <<records, next_id, owners, sockets, subscribed, releasing, claims>>
vars == <<unit, snapshotVars, mvars, rvars, updaterVars, tunVars, managerVars, centreVars>>

\* A client that gives no command is cut off, one that gives commands is not.
Mutates == INSTANCE Snapshots WITH MaxCut <- 0, MaxRestarts <- 0

Updates == INSTANCE Updater WITH
  Versions <- 1..2, Keys <- 2, Size <- 2, Faults <- {}, MaxCrashes <- 0
Resumes == INSTANCE Updater WITH
  Versions <- {1}, Keys <- 2, Size <- 1, Faults <- {}, MaxCrashes <- 2
Fails == INSTANCE Updater WITH
  Versions <- {1}, Keys <- 1, Size <- 2, Faults <- {"io", "restart"}, MaxCrashes <- 1

Edited == INSTANCE TunHelper WITH
  Servers <- {"a", "b"}, Retries <- 2, MaxLaunches <- 1, MaxDesktops <- 1,
  MaxUserChanges <- 1, MaxFaults <- 1, MaxCrashes <- 1
Relaunched == INSTANCE TunHelper WITH
  Servers <- {"a"}, Retries <- 2, MaxLaunches <- 2, MaxDesktops <- 1,
  MaxUserChanges <- 0, MaxFaults <- 0, MaxCrashes <- 1

Owned == INSTANCE Activation WITH
  Generations <- 1..2, Privileged <- FALSE, call <- acall,
  MaxFaults <- 1, MaxExits <- 1, MaxDeaths <- 1
ThroughHelper == INSTANCE Activation WITH
  Generations <- 1..2, Privileged <- TRUE, call <- acall,
  MaxFaults <- 1, MaxExits <- 1, MaxDeaths <- 1

\* One key opened and resolved, and a pinned one that replaces it.
Publications ==
  {[key |-> "k1", content |-> "plain", resolved |-> resolved, replaces |-> {}] : resolved \in BOOLEAN}
  \cup {[key |-> "k2", content |-> "pinned", resolved |-> FALSE, replaces |-> {"k1"}]}

Presents == INSTANCE Notifications WITH
  Sockets <- {"s1"}, Identities <- {"i1", "i2"}, Names <- [s \in {"s1"} |-> {"i1", "i2"}],
  RetentionLimit <- 2, LeaseTime <- 1, SubscriptionLimit <- 2,
  MaxId <- 2, MaxRevision <- 3, MaxGeneration <- 1

Units == {"reconnects", "mutates", "maintains", "restores",
          "updates", "resumes", "fails", "edited", "relaunched", "owned", "through helper",
          "presents"}

\* The components other than the one that moves stay in their initial state.
Only(component) ==
  /\ UNCHANGED unit
  /\ IF component = "snapshots" THEN TRUE ELSE UNCHANGED snapshotVars
  /\ IF component = "maintenance" THEN TRUE ELSE UNCHANGED mvars
  /\ IF component = "restore" THEN TRUE ELSE UNCHANGED rvars
  /\ IF component = "updater" THEN TRUE ELSE UNCHANGED updaterVars
  /\ IF component = "tun" THEN TRUE ELSE UNCHANGED tunVars
  /\ IF component = "manager" THEN TRUE ELSE UNCHANGED managerVars
  /\ IF component = "centre" THEN TRUE ELSE UNCHANGED centreVars

Init ==
  /\ unit \in Units
  /\ SnapshotsInit /\ client.commands = (unit = "mutates") /\ MaintenanceInit /\ RestoreInit
  /\ Updates!UpdaterInit /\ Edited!TunHelperInit /\ Owned!ActivationInit /\ Presents!NotificationsInit
  /\ unit # "maintains" => disk.seen = Nothing
  /\ unit # "restores" => place["store"].dest = {}
  /\ unit \notin {"edited", "relaunched"} => chosen = "a"

Next ==
  \/ unit = "reconnects" /\ SnapshotsNext /\ Only("snapshots")
  \/ unit = "mutates" /\ Mutates!SnapshotsNext /\ Only("snapshots")
  \/ unit = "maintains" /\ MaintenanceNext /\ Only("maintenance")
  \/ unit = "restores" /\ RestoreNext /\ Only("restore")
  \/ unit = "updates" /\ Updates!UpdaterNext /\ Only("updater")
  \/ unit = "resumes" /\ Resumes!UpdaterNext /\ Only("updater")
  \/ unit = "fails" /\ Fails!UpdaterNext /\ Only("updater")
  \/ unit = "edited" /\ Edited!TunHelperNext /\ Only("tun")
  \/ unit = "relaunched" /\ Relaunched!TunHelperNext /\ Only("tun")
  \/ unit = "owned" /\ Owned!ActivationNext /\ Only("manager")
  \/ unit = "through helper" /\ ThroughHelper!ActivationNext /\ Only("manager")
  \/ unit = "presents" /\ Presents!NotificationsNext /\ Only("centre")

Spec == Init /\ [][Next]_vars
-----------------------------------------------------------------------------
(* The properties of each component, in the sizes they are meant for.       *)

\* The updater's snapshot shows the operation that runs; a candidate shown as ready is
\* in the store, whole and verified, and a restart finds it again while the state file
\* says Ready, which every publication that ended well leaves; a shown download has an
\* effect whose completion will be applied, unless the server started it again below
\* the bytes shown or a chunk could not be recorded; and a version that was ready once
\* is never offered again as new.
UpdaterIsTrue ==
  /\ [](unit \in {"updates", "resumes", "fails"} =>
         /\ Updates!RunningIsShown /\ Updates!ReadyIsVerified
         /\ Updates!ReadySurvivesRestart /\ Updates!DownloadIsOwned)
  /\ Updates!PublishedIsRecorded
  /\ Updates!NeverOffersAccepted

\* Mish's DNS is never in place without a record that can undo it, and a status
\* the helper answers is true when it is given.
ManagedIsRecoverable ==
  /\ [](unit \in {"edited", "relaunched"} => Edited!ManagedIsRecoverable)
  /\ Edited!AnswerIsTrue

\* A death of Mish at any moment leaves no Core that recovery cannot find, no
\* process that took over a recorded pid is signalled, and an activation that
\* fails leaves the runtime it found, and Capture too unless it failed in
\* suspending it.
ActivationIsSafe ==
  /\ [](unit = "owned" => Owned!CoreIsRecorded /\ Owned!FailureRestores)
  /\ [](unit = "through helper" => ThroughHelper!CoreIsRecorded /\ ThroughHelper!FailureRestores)
  /\ Owned!NoStrangerSignalled

\* At most one notification is presented, to an identity whose socket still
\* counts a subscription, exactly that one is leased, and an acknowledgement
\* folds a record only with the content its client was shown.
PresentationIsExclusive ==
  /\ [](unit = "presents" => Presents!OnePresenter /\ Presents!LeaseHasOwner)
  /\ Presents!FoldsWhatWasShown
=============================================================================
