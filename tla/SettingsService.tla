--------------------------- MODULE SettingsService ---------------------------
(***************************************************************************)
(* The Settings service: loading and migrating the stored preferences,     *)
(* changing one while its file and the native window surface follow, the   *)
(* timestamps of the welcome invitation under a clock that may go back,    *)
(* and the coordinator that observes the network's DNS while network       *)
(* changes invalidate what it saw.                                         *)
(*                                                                         *)
(* A stored file is its schema version, whether it has the shape of that   *)
(* version, the preferences that are not at their default, and the welcome *)
(* invitation.  A start whose save fails leaves no service and is not      *)
(* modelled.  Restoring a backup and the login item are in module Restore, *)
(* the TUN Helper in HelperLifecycle.                                      *)
(***************************************************************************)
EXTENDS Naturals, FiniteSets, FiniteSetsExt

CONSTANTS
  Versions,       \* schema versions a found file may have
  Options,        \* preferences the user changes
  Refreshers,     \* clients that refresh the DNS observation
  Clock,          \* values the system clock may show
  MaxUpdates,     \* bounds on commands,
  MaxFailures,    \*   failing calls and writes,
  MaxChanges,     \*   network changes
  MaxRestarts     \*   and restarts

ASSUME ClockAssumption == Clock \subseteq Nat

VARIABLES
  file,       \* the stored settings
  prefs,      \* SettingsState in memory
  surface,    \* the surface the native window shows
  network,    \* the network the machine is in, and what Mish was told of
  dns,        \* NetworkDnsCoordinator
  refresh,    \* the clients inside refresh
  budget      \* what was spent of the bounds

ssvars == <<file, prefs, surface, network, dns, refresh, budget>>

CurrentVersion == 12

Pay(what) == budget' = [budget EXCEPT ![what] = @ + 1]

---------------------------------------------------------------------------
(* What each schema version holds.                                         *)

FieldsV0 == {"appearance", "language"}
FieldsV1 == FieldsV0 \cup {"startup"}
FieldsV2 == FieldsV1 \cup {"close"}
FieldsV3 == FieldsV2 \cup {"surface"}
FieldsV4 == FieldsV3
FieldsV5 == FieldsV4
FieldsV6 == FieldsV5 \cup {"onboarding"}
FieldsV7 == FieldsV6 \cup {"capture", "cleanup", "ports", "discovery", "launch", "takeover"}

Fields(version) ==
  CASE version = 0 -> FieldsV0 [] version = 1 -> FieldsV1 [] version = 2 -> FieldsV2
    [] version = 3 -> FieldsV3 [] version = 4 -> FieldsV4 [] version = 5 -> FieldsV5
    [] version = 6 -> FieldsV6 [] version \in {7, 8, 9, 11, CurrentVersion} -> FieldsV7
    [] OTHER -> {}
KnownVersions == (0..9) \cup {11, CurrentVersion}

(* The welcome invitation: {} when removed, else its timestamps.           *)
FreshInvitation(now) ==
  {[created |-> now, prompted |-> {}, opened |-> {}, dismissed |-> {}, completed |-> {}]}

(* valid_onboarding_preferences. *)
ValidOnboarding(invitations) ==
  \A i \in invitations :
    /\ \A t \in i.prompted \cup i.opened \cup i.dismissed \cup i.completed : t >= i.created
    /\ i.prompted = {} => i.opened \cup i.dismissed \cup i.completed = {}
    /\ \A p \in i.prompted : \A t \in i.opened \cup i.dismissed \cup i.completed : t >= p
    /\ i.opened = {} => i.dismissed \cup i.completed = {}
    /\ \A o \in i.opened : \A t \in i.dismissed \cup i.completed : t >= o

Defaults == [chosen |-> {}, invitation |-> {}, recovered |-> FALSE]

(* FileSettingsRepository.load: the preferences of a valid file, migrated. *)
Migrated(f, now) ==
  [chosen |-> f.chosen \cap Fields(f.version),
   invitation |-> IF "onboarding" \in Fields(f.version) THEN f.invitation ELSE FreshInvitation(now),
   recovered |-> FALSE]

(* load refuses a file that is too long, is no JSON or has not the fields  *)
(* of its version (shape "other"), one of a version it does not know, and  *)
(* an invitation that is out of order.                                     *)
Corrupt(f) ==
  \/ f.shape = "other"
  \/ f.version \notin KnownVersions
  \/ "onboarding" \in Fields(f.version) /\ ~ValidOnboarding(f.invitation)

StoredFile(p) ==
  [version |-> CurrentVersion, shape |-> "fits", chosen |-> p.chosen, invitation |-> p.invitation]

(* save: temporary file, rename, sync; a failing call leaves the old file, *)
(* or the new one when only the directory's sync failed.                   *)
Saved(p, ok) == IF ok THEN {StoredFile(p)} ELSE {file, StoredFile(p)}

(* load_with_configuration: a corrupt file is replaced by the defaults,    *)
(* and the window gets the surface of the preferences.                     *)
Loaded(f, now) == IF Corrupt(f) THEN [Defaults EXCEPT !.recovered = TRUE] ELSE Migrated(f, now)

Shown(p) == "surface" \in p.chosen

Load ==
  \E now \in Clock :
    LET p == Loaded(file, now)
    IN /\ prefs' = p /\ file' = StoredFile(p) /\ surface' = Shown(p)

---------------------------------------------------------------------------
(* Changing a preference: update, under the operation lock.                *)

Update(p, ok) ==
  file' \in Saved(p, ok) /\ prefs' = IF ok THEN [p EXCEPT !.recovered = FALSE] ELSE prefs

Toggled(field) ==
  [prefs EXCEPT !.chosen = IF field \in @ THEN @ \ {field} ELSE @ \cup {field}]

SetPreference(field) ==
  /\ field # "surface" /\ budget.commands < MaxUpdates
  /\ \E ok \in BOOLEAN :
       /\ Update(Toggled(field), ok)
       /\ ok \/ budget.faults < MaxFailures
       /\ budget' = [budget EXCEPT !.commands = @ + 1, !.faults = IF ok THEN @ ELSE @ + 1]
  /\ UNCHANGED <<surface, network, dns, refresh>>

(* set_window_surface: the window first, then the file; when the file      *)
(* cannot be written the window is put back, which may fail too.           *)
SetWindowSurface ==
  /\ "surface" \in Options /\ budget.commands < MaxUpdates
  /\ LET p == Toggled("surface")
     IN \E f \in 0..(MaxFailures - budget.faults) :
          /\ budget' = [budget EXCEPT !.commands = @ + 1, !.faults = @ + f]
          /\ \/ f = 0 /\ Update(p, TRUE) /\ surface' = Shown(p)
             \/ f = 1 /\ UNCHANGED <<prefs, file, surface>>
             \/ f \in {1, 2} /\ Update(p, FALSE) /\ surface' = IF f = 1 THEN surface ELSE Shown(p)
  /\ UNCHANGED <<network, dns, refresh>>

(* set_onboarding_welcome_state: a time that is not before anything the    *)
(* invitation already says.                                                *)
NowFor(i, clock) == Max({clock, i.created} \cup i.prompted \cup i.opened \cup i.dismissed)

OrNow(at, now) == IF at = {} THEN {now} ELSE at

Acted(i, action, now) ==
  CASE action = "prompt" -> [i EXCEPT !.prompted = OrNow(@, now)]
    [] action = "open" -> [i EXCEPT !.prompted = OrNow(@, now), !.opened = OrNow(@, now)]
    [] action = "dismiss" -> [i EXCEPT !.prompted = OrNow(@, now), !.opened = OrNow(@, now),
                                       !.dismissed = {now}]
    [] action = "complete" -> [i EXCEPT !.prompted = OrNow(@, now), !.opened = OrNow(@, now),
                                        !.completed = {now}]

SetOnboardingWelcomeState(action, clock) ==
  /\ "onboarding" \in Options /\ budget.commands < MaxUpdates
  /\ LET next == IF action = "remove" THEN {}
                 ELSE {IF i.completed # {} THEN i ELSE Acted(i, action, NowFor(i, clock))
                       : i \in prefs.invitation}
         p == [prefs EXCEPT !.invitation = next]
     IN \E ok \in BOOLEAN :
          /\ Update(p, ok)
          /\ ok \/ budget.faults < MaxFailures
          /\ budget' = [budget EXCEPT !.commands = @ + 1, !.faults = IF ok THEN @ ELSE @ + 1]
  /\ UNCHANGED <<surface, network, dns, refresh>>

---------------------------------------------------------------------------
(* The DNS coordinator.  `saw` is the network an observation was made in;   *)
(* `overtaken` is history: Mish was told of a network change between the    *)
(* authority check of the refresh and its write.  `told` is what it had     *)
(* been told of at the check.                                               *)

NewCoordinator == [authority |-> 1, completed |-> 0, holder |-> {}, phase |-> "unknown", saw |-> {},
                   overtaken |-> FALSE]
NotRefreshing  == [at |-> "idle", completed |-> 0, authority |-> 0, saw |-> 0, told |-> 0]

NetworkChanges ==
  /\ budget.changes < MaxChanges /\ Pay("changes")
  /\ network' = [network EXCEPT !.now = @ + 1]
  /\ UNCHANGED <<file, prefs, surface, dns, refresh>>

(* invalidate: what the lifecycle events of the machine call. *)
Invalidate ==
  /\ network.told # network.now /\ network' = [network EXCEPT !.told = network.now]
  /\ dns' = [dns EXCEPT !.authority = @ + 1, !.phase = IF dns.saw # {} THEN "stale" ELSE "unknown"]
  /\ UNCHANGED <<file, prefs, surface, refresh, budget>>

BeginRefresh(c) ==
  /\ refresh[c].at = "idle" /\ budget.commands < MaxUpdates /\ Pay("commands")
  /\ refresh' = [refresh EXCEPT ![c] = [NotRefreshing EXCEPT !.at = "wait", !.completed = dns.completed]]
  /\ UNCHANGED <<file, prefs, surface, network, dns>>

(* With the operation lock: another refresh that completed meanwhile is    *)
(* enough.                                                                 *)
TakeOperation(c) ==
  /\ refresh[c].at = "wait" /\ dns.holder = {}
  /\ IF dns.completed # refresh[c].completed
     THEN refresh' = [refresh EXCEPT ![c] = NotRefreshing] /\ UNCHANGED dns
     ELSE /\ refresh' = [refresh EXCEPT ![c].at = "observe", ![c].authority = dns.authority]
          /\ dns' = [dns EXCEPT !.holder = {c}]
  /\ UNCHANGED <<file, prefs, surface, network, budget>>

(* platform.observe(): of the network the machine is in at some moment of  *)
(* the call.                                                               *)
ObserveNetwork(c) ==
  /\ refresh[c].at = "observe"
  /\ refresh' = [refresh EXCEPT ![c].at = "check", ![c].saw = network.now]
  /\ UNCHANGED <<file, prefs, surface, network, dns, budget>>

Accepted(c, ok) ==
  [dns EXCEPT !.holder = {}, !.completed = @ + 1,
              !.phase = IF ok THEN "ready" ELSE "failed",
              !.saw = IF ok THEN {refresh[c].saw} ELSE @,
              !.overtaken = network.told # refresh[c].told]

(* A bug: the observation is written whatever happened meanwhile. *)
MutantCurrent(c) == TRUE

Current(c) == dns.authority = refresh[c].authority

Accept(c) ==
  \E ok \in BOOLEAN :
    /\ ok \/ budget.faults < MaxFailures
    /\ IF ok THEN UNCHANGED budget ELSE Pay("faults")
    /\ dns' = Accepted(c, ok)
    /\ refresh' = [refresh EXCEPT ![c] = NotRefreshing]

CheckAuthority(c) ==
  /\ refresh[c].at = "check"
  /\ IF ~Current(c)
     THEN /\ dns' = [dns EXCEPT !.holder = {}]
          /\ refresh' = [refresh EXCEPT ![c] = NotRefreshing] /\ UNCHANGED budget
     ELSE /\ refresh' = [refresh EXCEPT ![c] = [@ EXCEPT !.at = "write", !.told = network.told]]
          /\ UNCHANGED <<dns, budget>>
  /\ UNCHANGED <<file, prefs, surface, network>>

WriteObservation(c) ==
  /\ refresh[c].at = "write" /\ Accept(c)
  /\ UNCHANGED <<file, prefs, surface, network>>

---------------------------------------------------------------------------
(* The process ends at any moment and is started again.                    *)
RestartService ==
  /\ budget.restarts < MaxRestarts /\ Pay("restarts")
  /\ Load
  /\ dns' = NewCoordinator /\ refresh' = [c \in Refreshers |-> NotRefreshing]
  /\ network' = [network EXCEPT !.told = network.now]

---------------------------------------------------------------------------
(* The service starts from the file a fresh install has just written, from *)
(* one an older version of Mish left, or from one it cannot use.           *)
FoundInvitations ==
  UNION {{{}, FreshInvitation(now), {[i EXCEPT !.opened = {now}] : i \in FreshInvitation(now)}} : now \in Clock}
FoundFiles ==
  {[version |-> v, shape |-> sh, chosen |-> IF v = CurrentVersion THEN {} ELSE Options \cap Fields(v),
    invitation |-> i]
     : v \in Versions, sh \in {"fits", "other"}, i \in FoundInvitations}

SettingsInit ==
  /\ \E found \in FoundFiles, now \in Clock : prefs = Loaded(found, now)
  /\ file = StoredFile(prefs)
  /\ surface = Shown(prefs)
  /\ network = [now |-> 1, told |-> 1]
  /\ dns = NewCoordinator
  /\ refresh = [c \in Refreshers |-> NotRefreshing]
  /\ budget = [commands |-> 0, faults |-> 0, changes |-> 0, restarts |-> 0]

SettingsNext ==
  \/ \E field \in Options \ {"onboarding"} : SetPreference(field)
  \/ SetWindowSurface
  \/ \E action \in {"prompt", "open", "dismiss", "complete", "remove"}, clock \in Clock :
       SetOnboardingWelcomeState(action, clock)
  \/ NetworkChanges \/ Invalidate
  \/ \E c \in Refreshers : BeginRefresh(c) \/ TakeOperation(c) \/ ObserveNetwork(c)
                           \/ CheckAuthority(c) \/ WriteObservation(c)
  \/ RestartService

SettingsSpec == SettingsInit /\ [][SettingsNext]_ssvars

---------------------------------------------------------------------------
(* A file that Mish cannot use when it first starts is replaced by the     *)
(* defaults, as documented (settings-contracts.md, "Internal-Testing       *)
(* Compatibility Boundary").  From then on, whatever the clock does        *)
(* between two steps of the welcome invitation, whichever write fails and  *)
(* whenever the process dies, the file is one the next start accepts, and  *)
(* no later start has recovered: nothing the user chose under this version *)
(* is thrown away as corrupt (load_with_configuration's recovery).         *)
NeverDiscarded == ~Corrupt(file) /\ (budget.restarts > 0 => ~prefs.recovered)

(* What is presented as a ready DNS observation was made after the last    *)
(* network change Mish was told of: an observation that a change overtook  *)
(* is not written, and a refresh that waited for it observes again         *)
(* (authority and completed in refresh).  The exception is a change that   *)
(* Mish is told of between the authority check of a refresh and its write: *)
(* the two are not under one lock, and the old observation is then shown   *)
(* as ready until the next change or refresh.                              *)
ReadyIsCurrent ==
  dns.phase = "ready" /\ ~dns.overtaken => \A n \in dns.saw : n >= network.told

(* No start throws away what the user chose under this version, and a DNS  *)
(* observation shown as ready is one of the network the machine is in,     *)
(* unless its write was overtaken.                                         *)
SettingsAreTrue == NeverDiscarded /\ ReadyIsCurrent
=============================================================================
