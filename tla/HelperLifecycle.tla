--------------------------- MODULE HelperLifecycle ---------------------------
(***************************************************************************)
(* Installing, repairing and removing the privileged TUN Helper from the   *)
(* application: the RPC handlers of the bridge, the operation the Settings *)
(* service publishes, the TunHelperController with its two re-observations *)
(* around every privileged step, the client of the Helper and its          *)
(* installer, and the private journal of removal occurrences, which has to *)
(* hold the evidence of a removal across failing writes and restarts.      *)
(*                                                                         *)
(* The handlers run one at a time under tun_helper_lifecycle_transaction;  *)
(* a Capture command, a refresh and the launch of a privileged Core        *)
(* interleave with every await.  The installer and the Helper are seen     *)
(* from the application: a privileged run does its work, is cancelled, or  *)
(* fails and leaves the installation as it was or damaged.                 *)
(***************************************************************************)
EXTENDS Naturals, Sequences, FiniteSets, SequencesExt

CONSTANTS
  Ids,            \* operation identities clients use
  LifecycleKinds, \* the lifecycle commands clients send
  Found,          \* what may be installed when the application starts
  HistoryLimit,   \* TUN_HELPER_OPERATION_HISTORY_LIMIT
  RecordLimit,    \* TUN_HELPER_REMOVAL_OCCURRENCE_LIMIT
  MaxCommands,    \* bounds on commands (lifecycle and Capture),
  MaxMishaps,     \*   failing calls and writes,
  MaxCrashes      \*   and restarts of the application

ASSUME HelperAssumption == MaxCommands \in Nat /\ RecordLimit \in Nat

VARIABLES
  host,       \* [helper, net]: the installation and the TUN network
  ctl,        \* TunHelperController: snapshot and runtime_failure
  published,  \* SettingsService.tun_helper_lifecycle
  store,      \* TunHelperRemovalOccurrenceStore in memory
  disk,       \* its file
  capture,    \* the Capture authority as these handlers use it
  note,       \* the lifecycle notification of each operation
  job,        \* the handler that holds the lifecycle transaction
  ran,        \* how often an uninstall was started for each operation
  gone,       \* operations whose uninstall took the Helper away
  used        \* what was spent of the bounds

hvars == <<host, ctl, published, store, disk, capture, note, job, ran, gone, used>>

Spend(what) == used' = [used EXCEPT ![what] = @ + 1]
CanFail     == used.faults < MaxMishaps

---------------------------------------------------------------------------
(* The controller's snapshot.  `kind` stands for availability, health,     *)
(* installation id and version as one observation reports them.            *)

Unpackaged == [kind |-> "absent", unavailable |-> FALSE, phase |-> "idle",
               failure |-> "permission", blocked |-> {}]

ObservedFailure(kind) ==
  CASE kind = "old" -> "version" [] kind = "damaged" -> "confirmation"
    [] kind = "foreign" -> "identity" [] OTHER -> "none"

HasHealthyIdentity(s) == s.kind = "healthy" /\ ~s.unavailable
IsHealthy(s)          == HasHealthyIdentity(s) /\ s.phase = "idle" /\ s.failure = "none"

Installed(s) == s.kind \in {"healthy", "old"} \/ (s.kind = "damaged" /\ ~s.unavailable)

RemovalAvailable(s) == Installed(s) /\ s.phase \notin {"install", "repair", "remove"}

Recorded(c, failure) ==
  [c EXCEPT !.phase = "failed",
            !.failure = IF c.blocked = {} THEN failure ELSE CHOOSE f \in c.blocked : TRUE]

SnapshotFromObservation(kind) ==
  [kind |-> kind, unavailable |-> FALSE, phase |-> "idle", failure |-> ObservedFailure(kind)]

ApplyObservation(c, kind, failure) ==
  LET s == SnapshotFromObservation(kind)
  IN [ kind        |-> kind,
       unavailable |-> c.blocked # {},
       phase       |-> IF c.blocked # {} \/ failure # "none" THEN "failed" ELSE s.phase,
       failure     |-> IF c.blocked # {} THEN CHOOSE f \in c.blocked : TRUE
                       ELSE IF failure # "none" THEN failure ELSE s.failure,
       blocked     |-> c.blocked ]

MarkRuntimeUnavailable(c, failure) ==
  [c EXCEPT !.blocked = {failure}, !.unavailable = TRUE, !.phase = "failed", !.failure = failure]

SetPhase(c, phase) == [c EXCEPT !.phase = phase, !.failure = "none"]
ClearFailure(c)    == SetPhase(c, "idle")

(* observe_helper: one look at the installation. *)
ObserveHelper == host.helper

(* refresh_locked: one observation of the installation, which may fail.   *)
RefreshLocked(failure, c) ==
  \/ c = ApplyObservation(ctl, ObserveHelper, failure) /\ UNCHANGED used
  \/ /\ CanFail /\ Spend("faults")
     /\ c = Recorded(ctl, IF failure = "none" THEN "operation" ELSE failure)

---------------------------------------------------------------------------
(* The journal of removal occurrences.                                     *)

EmptyJournal == [active |-> {}, next |-> 1, records |-> <<>>]

JournalIds(j) == {r.op : r \in ToSet(j.records)} \cup {a.op : a \in j.active}

Trim(records) ==
  IF Len(records) > RecordLimit THEN SubSeq(records, 2, Len(records)) ELSE records

ValidJournal(j) ==
  /\ Len(j.records) <= RecordLimit
  /\ \A i \in DOMAIN j.records :
       /\ j.records[i].rev < j.next
       /\ i > 1 => j.records[i - 1].rev < j.records[i].rev
       /\ (j.records[i].outcome = "removed") = (j.records[i].cleanup = "absent")
  /\ \A a \in j.active : a.rev < j.next /\ \A r \in ToSet(j.records) : r.rev < a.rev
  /\ Cardinality(JournalIds(j)) = Len(j.records) + Cardinality(j.active)

(* A bug: the occurrence an earlier process left is dropped. *)

ReconcileInterrupted(j) ==
  [j EXCEPT !.active = {},
            !.records = IF j.active = {} THEN @ ELSE
              LET a == CHOOSE a \in j.active : TRUE
              IN Trim(Append(@, [op |-> a.op, rev |-> a.rev, outcome |-> "incomplete",
                   cleanup |-> IF a.phase = "maintenance" THEN "incomplete" ELSE "none"]))]

(* write_private_journal: temporary file, rename, sync of the directory.   *)
(* A failing call leaves the old file, or the new one when only the sync   *)
(* failed; a journal that does not validate is not written at all.         *)
WritePrivateJournal(j, ok) ==
  \/ ok = TRUE /\ store.usable /\ ValidJournal(j) /\ disk' = j /\ UNCHANGED used
  \/ ok = FALSE /\ store.usable /\ CanFail /\ Spend("faults") /\ disk' \in {disk, j}
  \/ ok = FALSE /\ ~store.usable /\ UNCHANGED <<disk, used>>

Journal == [active |-> store.active, next |-> store.next, records |-> store.records]

Holding(j, retry) == [active |-> j.active, next |-> j.next, records |-> j.records,
                      retry |-> retry, usable |-> store.usable]

Admission(op, j) ==
  [j EXCEPT !.next = @ + 1, !.active = {[op |-> op, rev |-> j.next, phase |-> "admitted"]}]

(* admit: an occurrence whose last write failed is settled on disk first;  *)
(* one that is still at work makes the store busy.                         *)
AdmitOccurrence(op, ok) ==
  LET settled  == ReconcileInterrupted(Journal)
      admitted == Admission(op, settled)
      busy     == store.active # {} /\ ~store.retry
      refused  == busy \/ \E r \in ToSet(settled.records) : r.op = op
  IN \/ ok = TRUE /\ ~refused /\ WritePrivateJournal(admitted, TRUE)
        /\ store' = Holding(admitted, FALSE)
     \/ /\ ok = FALSE /\ ~busy /\ store.active # {}
        /\ \/ WritePrivateJournal(settled, FALSE) /\ UNCHANGED store
           \/ /\ ~refused /\ CanFail /\ Spend("faults")
              /\ store' = Holding(settled, FALSE) /\ disk' \in {settled, admitted}
     \/ /\ ok = FALSE /\ store.active = {}
        /\ \/ refused /\ UNCHANGED <<store, disk, used>>
           \/ ~refused /\ WritePrivateJournal(admitted, FALSE) /\ UNCHANGED store

(* A bug: a write that failed does not stop the removal. *)
MutantAdvance(phase, ok) ==
  LET j == [Journal EXCEPT !.active = {[a EXCEPT !.phase = phase] : a \in @}]
  IN ok = TRUE /\ store' = Holding(j, FALSE)
     /\ (WritePrivateJournal(j, TRUE) \/ WritePrivateJournal(j, FALSE))

(* advance: what memory holds moves on even when the write failed; the     *)
(* next admission then settles the occurrence first.                       *)
Advance(phase, ok) ==
  LET j == [Journal EXCEPT !.active = {[a EXCEPT !.phase = phase] : a \in @}]
  IN WritePrivateJournal(j, ok) /\ store' = Holding(j, ~ok)

(* finish: the terminal occurrence replaces the active one, in memory even *)
(* when the write failed.                                                  *)
Finished(j, outcome, cleanup) ==
  LET a == CHOOSE a \in j.active : TRUE
  IN [j EXCEPT !.active = {},
               !.records = Trim(Append(@, [op |-> a.op, rev |-> a.rev,
                                           outcome |-> outcome, cleanup |-> cleanup]))]

FinishOccurrence(outcome, cleanup) ==
  LET j == Finished(Journal, outcome, cleanup)
  IN \E ok \in BOOLEAN : WritePrivateJournal(j, ok) /\ store' = Holding(j, FALSE)

(* load_private_journal: a file that does not validate is not loaded. *)
Loadable(j) == ValidJournal(j)

(* open_private_file: an occurrence an earlier process left is settled on  *)
(* disk before anything is admitted; if that fails the store is closed and *)
(* every removal is refused.                                               *)
OpenPrivateFile(ok) ==
  LET j == ReconcileInterrupted(disk)
  IN IF ok
     THEN /\ Loadable(disk) /\ ValidJournal(j) /\ disk' = j
          /\ store' = [active |-> {}, next |-> j.next, records |-> j.records,
                       retry |-> FALSE, usable |-> TRUE]
     ELSE /\ disk' \in {disk, j}
          /\ store' = [active |-> {}, next |-> 1, records |-> <<>>,
                       retry |-> FALSE, usable |-> FALSE]

(* restore_tun_helper_removal_occurrence_notifications. *)
RestoredNotes(records) ==
  [op \in Ids |-> IF \E r \in ToSet(records) : r.op = op /\ r.outcome # "removed"
                  THEN "restored" ELSE "none"]

---------------------------------------------------------------------------
(* The operation the Settings service publishes.                           *)

Quiet == [at |-> "idle", op |-> 0, kind |-> "none", resume |-> FALSE, err |-> "none"]

Unpublished == [active |-> {}, phase |-> "none", outcome |-> "none", seen |-> <<>>]

Published(op, phase) ==
  LET seen == Append(published.seen, op)
  IN [active |-> {op}, phase |-> phase, outcome |-> "none",
      seen |-> IF Len(seen) > HistoryLimit THEN Tail(seen) ELSE seen]

FinishLifecycle(outcome) ==
  published' = [published EXCEPT !.active = {}, !.phase = "terminal", !.outcome = outcome]

(* The end of a handler: one terminal publication and its notification.    *)
Answer(outcome) ==
  FinishLifecycle(outcome) /\ note' = [note EXCEPT ![job.op] = outcome] /\ job' = Quiet

Go(at)    == job' = [job EXCEPT !.at = at]
Fail(err) == job' = [job EXCEPT !.at = "failed", !.err = err]

---------------------------------------------------------------------------
(* settings.installTunHelper, repairTunHelper and removeTunHelper up to    *)
(* their first await.  An operation that was seen is answered with the     *)
(* current snapshot.                                                       *)
Begin(op, kind, resume) ==
  /\ job.at = "idle" /\ used.commands < MaxCommands /\ Spend("commands")
  /\ op \notin ToSet(published.seen)
  /\ published' = Published(op, "finalizing")
  /\ note' = [note EXCEPT ![op] = "finalizing"]
  /\ job' = [at |-> "admit", op |-> op, kind |-> kind, resume |-> resume, err |-> "none"]
  /\ UNCHANGED <<host, ctl, store, disk, capture, ran, gone>>

BeginInstall(op, resume) == Begin(op, "install", resume)
BeginRepair(op, resume)  == Begin(op, "repair", resume)

BeginRemove(op) ==
  /\ job.at = "idle" /\ used.commands < MaxCommands /\ Spend("commands")
  /\ op \notin ToSet(published.seen)
  /\ published' = Published(op, "pending")
  /\ job' = [Quiet EXCEPT !.at = "occurrence", !.op = op, !.kind = "remove"]
  /\ UNCHANGED <<host, ctl, store, disk, capture, note, ran, gone>>

AdmitRemoval ==
  /\ job.at = "occurrence"
  /\ \E ok \in BOOLEAN :
       /\ AdmitOccurrence(job.op, ok)
       /\ IF ok THEN /\ note' = [note EXCEPT ![job.op] = "pending"] /\ Go("refresh")
                     /\ UNCHANGED published
                ELSE Answer("recovery")
  /\ UNCHANGED <<host, ctl, capture, ran, gone>>

RefreshRemovalAvailable ==
  /\ job.at = "refresh"
  /\ \E c \in {ApplyObservation(ctl, ObserveHelper, "none"), Recorded(ctl, "operation")} :
       /\ RefreshLocked("none", c) /\ ctl' = c
       /\ IF RemovalAvailable(c) THEN Go("advance_shutdown") ELSE Fail("unconfirmed")
  /\ UNCHANGED <<host, published, store, disk, capture, note, ran, gone>>

Stages == [advance_shutdown |-> "shutdown", advance_observation |-> "observation",
           advance_maintenance |-> "maintenance"]

AdvanceRemoval ==
  /\ job.at \in DOMAIN Stages
  /\ \E ok \in BOOLEAN :
       /\ Advance(Stages[job.at], ok)
       /\ CASE ~ok -> Answer("recovery")
            [] ok /\ job.at = "advance_shutdown" -> Go("shutdown") /\ UNCHANGED <<published, note>>
            [] ok /\ job.at = "advance_observation" -> Go("confirm") /\ UNCHANGED <<published, note>>
            [] ok /\ job.at = "advance_maintenance" ->
                 /\ published' = [published EXCEPT !.phase = "finalizing"]
                 /\ note' = [note EXCEPT ![job.op] = "finalizing"] /\ Go("admit")
  /\ UNCHANGED <<host, ctl, capture, ran, gone>>

---------------------------------------------------------------------------
(* The Capture transaction.  A launch asks, starts the privileged Core     *)
(* without the controller's lock, and confirms TUN under it.               *)

ControllerBusy == job.at \in {"disable", "check", "run", "settle", "network", "recheck", "observe"}

RequestCapture(on) ==
  /\ capture.at = "idle" /\ used.commands < MaxCommands /\ Spend("commands")
  /\ on => IsHealthy(ctl)
  /\ capture.tun # on
  /\ capture' = [capture EXCEPT !.at = IF on THEN "start" ELSE "confirm", !.wants = on]
  /\ UNCHANGED <<host, ctl, published, store, disk, note, job, ran, gone>>

StartPrivilegedCore ==
  /\ capture.at = "start"
  /\ capture' = [capture EXCEPT !.at = "confirm"]
  /\ host' = [host EXCEPT !.net = IF host.helper = "healthy" THEN "on" ELSE @]
  /\ UNCHANGED <<ctl, published, store, disk, note, job, ran, gone, used>>

SetTunEnabled ==
  /\ capture.at = "confirm" /\ ~ControllerBusy
  /\ \/ /\ HasHealthyIdentity(ctl) /\ host.helper = "healthy"
        /\ host' = [host EXCEPT !.net = IF capture.wants THEN "on" ELSE "off"]
        /\ ctl' = ClearFailure(ctl)
        /\ capture' = [tun |-> capture.wants, wants |-> FALSE, at |-> "idle"] /\ UNCHANGED used
     \/ /\ \/ (~HasHealthyIdentity(ctl) \/ host.helper # "healthy") /\ UNCHANGED used
           \/ CanFail /\ Spend("faults")
        /\ host' \in {host, [host EXCEPT !.net = "off"]}
        /\ capture' = [capture EXCEPT !.wants = FALSE, !.at = "idle"] /\ UNCHANGED ctl
  /\ UNCHANGED <<published, store, disk, note, job, ran, gone>>

(* disable_tun_for_helper_lifecycle. *)
DisableTun(ok) ==
  \/ ok = FALSE /\ capture.at # "idle" /\ UNCHANGED <<host, ctl, capture, used>>
  \/ ok = TRUE /\ capture.at = "idle" /\ ~capture.tun /\ UNCHANGED <<host, ctl, capture, used>>
  \/ /\ ok = TRUE /\ capture.at = "idle" /\ capture.tun
     /\ HasHealthyIdentity(ctl) /\ host.helper = "healthy"
     /\ host' = [host EXCEPT !.net = "off"] /\ ctl' = ClearFailure(ctl)
     /\ capture' = [capture EXCEPT !.tun = FALSE] /\ UNCHANGED used
  \/ /\ ok = FALSE /\ capture.at = "idle" /\ capture.tun
     /\ \/ (~HasHealthyIdentity(ctl) \/ host.helper # "healthy") /\ UNCHANGED used
        \/ CanFail /\ Spend("faults")
     /\ UNCHANGED <<host, ctl, capture>>

ShutDownCapture ==
  /\ job.at = "shutdown"
  /\ \E ok \in BOOLEAN : DisableTun(ok) /\ IF ok THEN Go("advance_observation") ELSE Fail("capture")
  /\ UNCHANGED <<published, store, disk, note, ran, gone>>

HandOff ==
  /\ job.at = "handoff"
  /\ \E ok \in BOOLEAN :
       /\ DisableTun(ok)
       /\ IF ok /\ job.resume THEN Go("resume") /\ UNCHANGED <<published, note>>
                              ELSE Answer("applied")
  /\ UNCHANGED <<store, disk, ran, gone>>

ResumeTun ==
  /\ job.at = "resume"
  /\ \/ /\ capture.at = "idle" /\ IsHealthy(ctl) /\ host.helper = "healthy"
        /\ capture' = [capture EXCEPT !.tun = TRUE]
        /\ host' = [host EXCEPT !.net = "on"] /\ UNCHANGED used
     \/ /\ \/ (capture.at # "idle" \/ ~IsHealthy(ctl) \/ host.helper # "healthy") /\ UNCHANGED used
           \/ CanFail /\ Spend("faults")
        /\ UNCHANGED <<capture, host>>
  /\ Answer("applied")
  /\ UNCHANGED <<ctl, store, disk, ran, gone>>

---------------------------------------------------------------------------
(* The controller.                                                         *)

(* confirm_removal_safe: two observations under the operation lock. *)
ConfirmRemovalSafe ==
  /\ job.at = "confirm"
  /\ \E c \in {ApplyObservation(ctl, ObserveHelper, "none"), Recorded(ctl, "operation")} :
       /\ RefreshLocked("none", c) /\ ctl' = c
       /\ IF RemovalAvailable(c) THEN Go("observe") ELSE Fail("unconfirmed")
  /\ UNCHANGED <<host, published, store, disk, capture, note, ran, gone>>

Reachable == host.helper \in {"healthy", "old"}

ObserveTun(failure) ==
  \/ Reachable /\ host.net = "off" /\ failure = "none" /\ UNCHANGED used
  \/ Reachable /\ host.net # "off" /\ failure = "observation" /\ UNCHANGED used
  \/ ~Reachable /\ failure = "connection" /\ UNCHANGED used
  \/ failure = "connection" /\ CanFail /\ Spend("faults")

ObserveRemovalSafe ==
  /\ job.at = "observe"
  /\ \E f \in {"none", "observation", "connection"} :
       /\ ObserveTun(f)
       /\ IF f = "none" THEN Go("advance_maintenance") /\ UNCHANGED ctl
                        ELSE Fail("unsafe") /\ ctl' = Recorded(ctl, f)
  /\ UNCHANGED <<host, published, store, disk, capture, note, ran, gone>>

(* run_lifecycle_inner: what the fresh observation admits.  A removal goes *)
(* on with the last snapshot when the observation fails.                   *)
AdmitLifecycle ==
  /\ job.at = "admit"
  /\ \E c \in {ApplyObservation(ctl, ObserveHelper, "none"), Recorded(ctl, "operation")} :
       /\ RefreshLocked("none", c)
       /\ CASE job.kind = "remove" ->
                 IF RemovalAvailable(c) THEN Go("check") /\ ctl' = c
                 ELSE Fail("confirmation") /\ ctl' = Recorded(c, "confirmation")
            [] job.kind # "remove" /\ (used' # used \/ c.kind = "foreign") ->
                 Fail("identity") /\ ctl' = c
            [] OTHER ->
                 IF HasHealthyIdentity(c) THEN Go("disable") /\ ctl' = c
                                          ELSE Go("run") /\ ctl' = SetPhase(c, job.kind)
  /\ UNCHANGED <<host, published, store, disk, capture, note, ran, gone>>

(* A Helper that may still own TUN is told to let go first.                *)
DisableBeforeLifecycle ==
  /\ job.at = "disable"
  /\ \/ /\ host.helper = "healthy" /\ host' = [host EXCEPT !.net = "off"]
        /\ Go("check") /\ UNCHANGED <<ctl, used>>
     \/ /\ CanFail /\ Spend("faults")
        /\ Fail("operation") /\ ctl' = Recorded(ctl, "operation") /\ UNCHANGED host
  /\ UNCHANGED <<published, store, disk, capture, note, ran, gone>>

CheckBeforeLifecycle ==
  /\ job.at = "check"
  /\ \E f \in {"none", "observation", "connection"} :
       /\ ObserveTun(f)
       /\ IF f = "none"
          THEN /\ Go("run") /\ ctl' = SetPhase(ctl, job.kind)
               /\ ran' = IF job.kind = "remove" THEN [ran EXCEPT ![job.op] = @ + 1] ELSE ran
          ELSE Fail(f) /\ ctl' = Recorded(ctl, f) /\ UNCHANGED ran
  /\ UNCHANGED <<host, published, store, disk, capture, note, gone>>

(* platform.run_lifecycle, seen from the application.                      *)
Results(kind) == IF kind = "remove" THEN {"absent", "damaged"} ELSE {"healthy", "damaged"}

RunLifecycle ==
  /\ job.at = "run"
  /\ \/ /\ host' = [helper |-> IF job.kind = "remove" THEN "absent" ELSE "healthy",
                    net |-> IF job.kind = "remove" THEN "off" ELSE host.net]
        /\ Go("settle") /\ UNCHANGED used
     \/ /\ CanFail /\ Spend("faults")
        /\ \E err \in {"cancelled", "identity", "operation"} :
             /\ job' = [job EXCEPT !.at = "settle", !.err = err]
             /\ host' \in IF err = "operation"
                          THEN {[host EXCEPT !.helper = h] : h \in {host.helper} \cup Results(job.kind)}
                          ELSE {host}
  /\ gone' = IF job.kind = "remove" /\ host'.helper = "absent" THEN gone \cup {job.op} ELSE gone
  /\ UNCHANGED <<ctl, published, store, disk, capture, note, ran>>

Confirmed(c) == IF job.kind = "remove" THEN c.kind = "absent" ELSE IsHealthy(c)

SettleLifecycle ==
  /\ job.at = "settle"
  /\ \E c \in {ApplyObservation(ctl, ObserveHelper, job.err),
               Recorded(ctl, IF job.err = "none" THEN "operation" ELSE job.err)} :
       /\ RefreshLocked(job.err, c)
       /\ CASE job.err # "none" -> Fail(job.err) /\ ctl' = c
            [] job.err = "none" /\ Confirmed(c) ->
                 IF job.kind = "remove" THEN Go("recheck") /\ ctl' = [c EXCEPT !.blocked = {}]
                                        ELSE Go("network") /\ ctl' = c
            [] OTHER -> /\ Fail("confirmation")
                        /\ ctl' = IF c.kind = "healthy" /\ c.blocked # {} THEN c
                                  ELSE Recorded(c, "confirmation")
  /\ UNCHANGED <<host, published, store, disk, capture, note, ran, gone>>

RecheckRemoval ==
  /\ job.at = "recheck"
  /\ \E c \in {ApplyObservation(ctl, ObserveHelper, "none"), Recorded(ctl, "operation")} :
       /\ RefreshLocked("none", c)
       /\ IF c.kind = "absent" /\ ~c.unavailable
          THEN Go("removed") /\ ctl' = c
          ELSE Fail("confirmation") /\ ctl' = Recorded(c, "confirmation")
  /\ UNCHANGED <<host, published, store, disk, capture, note, ran, gone>>

(* Success only while TUN is freshly observed off. *)
ConfirmNetwork ==
  /\ job.at = "network"
  /\ \E f \in {"none", "observation", "connection"} :
       /\ ObserveTun(f)
       /\ IF f = "none" THEN Go("handoff") /\ UNCHANGED ctl
                        ELSE Fail(f) /\ ctl' = Recorded(ctl, f)
  /\ UNCHANGED <<host, published, store, disk, capture, note, ran, gone>>

---------------------------------------------------------------------------
(* The ends of the handlers.                                               *)

RemovalOutcome(err) ==
  CASE err = "cancelled" -> "cancelled" [] err = "identity" -> "authorization"
    [] err = "capture" -> "shutdown" [] err = "operation" -> "failed" [] OTHER -> "incomplete"

CleanupOutcome(outcome) == IF outcome = "failed" THEN "incomplete" ELSE "none"

InstallFails ==
  /\ job.at = "failed" /\ job.kind # "remove"
  /\ Answer(IF job.err = "cancelled" THEN "cancelled" ELSE "recovery")
  /\ UNCHANGED <<host, ctl, store, disk, capture, ran, gone, used>>

RemovalFails ==
  /\ job.at = "failed" /\ job.kind = "remove"
  /\ LET outcome == RemovalOutcome(job.err)
     IN FinishOccurrence(outcome, CleanupOutcome(outcome)) /\ Answer(outcome)
  /\ UNCHANGED <<host, ctl, capture, ran, gone>>

RemovalSucceeds ==
  /\ job.at = "removed"
  /\ FinishOccurrence("removed", "absent") /\ Answer("removed")
  /\ UNCHANGED <<host, ctl, capture, ran, gone>>

---------------------------------------------------------------------------
(* settings.refreshTunHelper of another client. *)
RefreshHelper ==
  /\ ~ControllerBusy /\ ctl' = ApplyObservation(ctl, ObserveHelper, "none") /\ ctl' # ctl
  /\ UNCHANGED <<host, published, store, disk, capture, note, job, ran, gone, used>>

(* The application starts: it looks at the Helper once and may find that   *)
(* this session cannot use it.                                             *)
StartupSnapshots(helper) ==
  LET c == ApplyObservation(Unpackaged, helper, "none")
  IN {c} \cup (IF helper = "healthy" THEN {MarkRuntimeUnavailable(c, "identity")} ELSE {})

Restart ==
  /\ used.crashes < MaxCrashes
  /\ \E ok \in BOOLEAN :
       /\ OpenPrivateFile(ok)
       /\ ok \/ (disk.active # {} /\ CanFail)
       /\ used' = [used EXCEPT !.crashes = @ + 1, !.faults = IF ok THEN @ ELSE @ + 1]
  /\ note' = RestoredNotes(store'.records)
  /\ \E h \in {host.helper} \cup (IF job.at = "run" THEN Results(job.kind) ELSE {}) :
       /\ host' = [helper |-> h, net |-> "off"]
       /\ ctl' \in StartupSnapshots(h)
       /\ gone' = IF job.at = "run" /\ job.kind = "remove" /\ h = "absent"
                  THEN gone \cup {job.op} ELSE gone
  /\ capture' = [tun |-> FALSE, wants |-> FALSE, at |-> "idle"]
  /\ published' = Unpublished /\ job' = Quiet /\ UNCHANGED ran

---------------------------------------------------------------------------
HelperInit ==
  /\ host \in [helper : Found, net : {"off"}]
  /\ ctl \in StartupSnapshots(host.helper)
  /\ published = Unpublished
  /\ store = [active |-> {}, next |-> 1, records |-> <<>>, retry |-> FALSE, usable |-> TRUE]
  /\ disk = EmptyJournal
  /\ capture = [tun |-> FALSE, wants |-> FALSE, at |-> "idle"]
  /\ note = [op \in Ids |-> "none"]
  /\ job = Quiet
  /\ ran = [op \in Ids |-> 0] /\ gone = {}
  /\ used = [commands |-> 0, faults |-> 0, crashes |-> 0]

HelperNext ==
  \/ \E op \in Ids, resume \in BOOLEAN :
       \/ "install" \in LifecycleKinds /\ BeginInstall(op, resume)
       \/ "repair" \in LifecycleKinds /\ BeginRepair(op, resume)
  \/ \E op \in Ids : "remove" \in LifecycleKinds /\ BeginRemove(op)
  \/ AdmitRemoval \/ RefreshRemovalAvailable \/ AdvanceRemoval \/ ShutDownCapture
  \/ \E on \in BOOLEAN : RequestCapture(on)
  \/ StartPrivilegedCore \/ SetTunEnabled \/ HandOff \/ ResumeTun
  \/ ConfirmRemovalSafe \/ ObserveRemovalSafe
  \/ AdmitLifecycle \/ DisableBeforeLifecycle \/ CheckBeforeLifecycle \/ RunLifecycle
  \/ SettleLifecycle \/ RecheckRemoval \/ ConfirmNetwork
  \/ InstallFails \/ RemovalFails \/ RemovalSucceeds
  \/ RefreshHelper \/ Restart

HelperSpec == HelperInit /\ [][HelperNext]_hvars

---------------------------------------------------------------------------
(* A removal leaves evidence.  From the moment an uninstall was started,   *)
(* the journal on disk holds its operation, as one in privileged           *)
(* maintenance or with its outcome, whatever writes failed and wherever    *)
(* the application died; and no record, on disk or in memory, says         *)
(* "removed" of an operation that did not take the Helper away (advance    *)
(* before remove_tun_helper_correlated, and the occurrence a restart       *)
(* settles).                                                               *)
EvidenceIsTrue ==
  /\ \A op \in Ids : ran[op] > 0 =>
       \/ \E a \in disk.active : a.op = op /\ a.phase = "maintenance"
       \/ \E r \in ToSet(disk.records) : r.op = op
  /\ \A r \in ToSet(disk.records) \cup ToSet(store.records) :
       r.outcome = "removed" => r.op \in gone

(* A client that repeats a removal, in the same session or after a restart *)
(* that forgot the Settings history, never makes the installer run twice   *)
(* for one operation: the journal remembers what memory does not.          *)
RemovesOnce == \A op \in Ids : ran[op] <= 1

(* The journal of a Helper's removal says what happened to it, and no      *)
(* operation removes the Helper twice.                                     *)
RemovalIsRecorded == EvidenceIsTrue /\ RemovesOnce
=============================================================================
