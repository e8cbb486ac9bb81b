---------------------------- MODULE SystemProxy ----------------------------
(***************************************************************************)
(* SystemProxyReconciler (crates/runtime/src/capture.rs): how Mish takes   *)
(* over the operating system's proxy settings and gives them back.  The    *)
(* settings are shared with the user and other programs, are changed by    *)
(* one command per field, and must survive a crash of Mish, so the exact   *)
(* prior state is written to a recovery journal before the first command.  *)
(*                                                                         *)
(* The reconciler's operation mutex admits one operation at a time; `op`   *)
(* is that operation, with one step per await.  Between two awaits         *)
(* everything may happen: the user edits a setting, the active network     *)
(* service changes, the operation is cancelled, Mish crashes.  Every call  *)
(* to the platform or the journal file may fail, before or after it took   *)
(* effect.                                                                 *)
(***************************************************************************)
EXTENDS Naturals, Sequences

CONSTANTS
  Service,        \* network services
  Manual,         \* manual proxy settings that are not Mish's endpoint
  Irreversible,   \* those that cannot be restored (authenticated, malformed)
  Mish,           \* the manual proxy setting of the loopback endpoint
  Bypass,         \* the user's own part of the bypass list
  ProtectAuto,    \* SystemProxyTakeoverPolicy::ProtectExisting
  NoSnapshot,
  Actions,        \* which of preflight, Repair and LeaveAsIs are used
  MaxEvents,      \* bound: user edits and changes of the active service
  MaxFaults,      \* bound: failing calls and cancellations
  MaxCrashes      \* bound: crashes of the process

(* The three groups of fields apply_service sets, in its order: the manual  *)
(* proxies, PAC and auto discovery, and the bypass domains.                 *)
Settings == [manual: Manual \cup {Mish}, auto: BOOLEAN,
             bypass: [base: Bypass, managed: BOOLEAN]]
Field == {"manual", "auto", "bypass"}
Order == <<"manual", "auto", "bypass">>

Snapshot == [service: Service, settings: Settings]

ASSUME SystemProxyAssumption ==
  /\ Mish \notin Manual
  /\ Irreversible \subseteq Manual
  /\ NoSnapshot \notin Snapshot
  /\ ProtectAuto \in BOOLEAN
  /\ Actions \subseteq {"preflight", "Repair", "LeaveAsIs"}
  /\ MaxEvents \in Nat /\ MaxFaults \in Nat /\ MaxCrashes \in Nat

VARIABLES
  host,       \* the settings of every service
  active,     \* the primary network service
  journal,    \* the recovery journal file
  status,     \* the published SystemProxyRuntimeStatus
  op,         \* the operation that holds the mutex
  preflight,  \* the launch's read-only preparation
  booted,     \* the startup audit is over
  owed,       \* ghost: what the user last chose for every field
  contested,  \* ghost: services the user edited where Mish cannot tell
  events, faults, crashes

platformVars == <<host, active>>
ghostVars == <<owed, contested>>
counters == <<events, faults, crashes>>
vars == <<platformVars, journal, status, op, preflight, booted, ghostVars,
          counters>>

-----------------------------------------------------------------------------
(* Proxy states.                                                            *)

\* with_endpoint: manual proxies at the loopback endpoint, no PAC, no auto
\* discovery, the managed local domains merged into the user's bypass list.
WithEndpoint(prior) ==
  [service  |-> prior.service,
   settings |-> [manual |-> Mish, auto |-> FALSE,
                 bypass |-> [base    |-> prior.settings.bypass.base,
                             managed |-> TRUE]]]

\* Mutant: the bypass list is not part of what a transaction owns.
MutantOwnedBetween(observed, prior, target) ==
  /\ observed.service = prior.service
  /\ \A f \in {"manual", "auto"} :
       observed.settings[f] \in {prior.settings[f], target.settings[f]}

\* is_transaction_owned_between: a mixture of prior and target, field by field.
OwnedBetween(observed, prior, target) ==
  /\ observed.service = prior.service
  /\ \A f \in Field : observed.settings[f] \in {prior.settings[f],
                                                target.settings[f]}

\* takeover_rejection under the chosen policy.
TakeoverRejected(observed) ==
  \/ observed.settings.manual \in Irreversible
  \/ ProtectAuto /\ observed.settings.auto

HasMatchingManualEndpoint(observed) == observed.settings.manual = Mish

IsMishEndpoint(observed) ==
  HasMatchingManualEndpoint(observed) /\ observed.settings.bypass.managed

ObserveService(s) == [service |-> s, settings |-> host[s]]
ObserveActive == ObserveService(active)

-----------------------------------------------------------------------------
(* The journal, the status and the operation.                               *)

NoJournal == [kind |-> "none", prior |-> NoSnapshot]
InvalidJournal == [kind |-> "invalid", prior |-> NoSnapshot]

Recorded(prior) == [kind |-> "record", prior |-> prior]

StatusOff == [desired |-> FALSE, phase |-> "Off", enabled |-> FALSE,
              failure |-> "None"]
StatusApplied == [desired |-> TRUE, phase |-> "Applied", enabled |-> TRUE,
                  failure |-> "None"]
StatusFailed(desired) == [desired |-> desired, phase |-> "Failed",
                          enabled |-> FALSE, failure |-> "Other"]

StatusDrift(desired, failure) == [desired |-> desired, phase |-> "Drift",
                                  enabled |-> FALSE, failure |-> failure]
StatusPending(previous, desired) ==
  [previous EXCEPT !.desired = desired, !.failure = "None", !.phase = "Pending"]

NoPreflight == [stage |-> "none", journal |-> NoJournal,
                observed |-> NoSnapshot]

(* kind: which operation; pc: what it awaits; prior: the transaction's      *)
(* baseline; target and todo: what is being set; undo: why the baseline is  *)
(* being restored; then: what follows a restore; next: an observation kept  *)
(* for later; current: the status the operation found; verdict: the status  *)
(* to publish after a last observation; token: the launch's preflight.      *)
Idle == [kind |-> "none", pc |-> "idle", prior |-> NoSnapshot,
         target |-> NoSnapshot, todo |-> << >>, undo |-> "none",
         then |-> "done", next |-> NoSnapshot, current |-> StatusOff,
         verdict |-> StatusOff, token |-> NoPreflight]

Init ==
  /\ host \in [Service -> [manual: Manual, auto: BOOLEAN,
                           bypass: [base: Bypass, managed: {FALSE}]]]
  /\ active \in Service
  /\ journal = NoJournal
  /\ status = StatusOff
  /\ op = Idle
  /\ preflight = NoPreflight
  /\ booted = FALSE
  /\ owed = host
  /\ contested = {}
  /\ events = 0 /\ faults = 0 /\ crashes = 0

-----------------------------------------------------------------------------
(* Calls that may fail.                                                     *)

Works == UNCHANGED faults
Fails == faults < MaxFaults /\ faults' = faults + 1

Goto(where) == op' = [op EXCEPT !.pc = where]

\* The operation returns, releases the mutex and leaves `published` behind.
Return(published) ==
  /\ op' = Idle
  /\ status' = published
  /\ booted' = TRUE

\* load_validated_journal failing, with the error's kind.
LoadFails(kind) ==
  \/ journal.kind = "invalid" /\ kind = "InvalidRecovery" /\ Works
  \/ journal.kind # "invalid" /\ kind = "Other" /\ Fails

LoadWorks == journal.kind # "invalid" /\ Works

\* CaptureJournalStore::clear: a late error leaves the file removed.
Clears == journal' = NoJournal /\ Works
ClearFails == journal' \in {journal, NoJournal} /\ Fails

\* Mutant: the baseline is not written before the takeover.
MutantSaves(prior) == journal.kind # "invalid" /\ UNCHANGED journal /\ Works

\* CaptureJournalStore::save refuses to replace an invalid record, and a late
\* error leaves the new record in place.
Saves(prior) == journal.kind # "invalid" /\ journal' = Recorded(prior) /\ Works
SaveFails(prior) ==
  \/ journal.kind = "invalid" /\ UNCHANGED journal /\ Works
  \/ journal.kind # "invalid" /\ journal' \in {journal, Recorded(prior)} /\ Fails

\* The commands of apply_service are about to run.
BeginApply(prior) ==
  op' = [op EXCEPT !.pc = "apply", !.prior = prior,
                   !.target = WithEndpoint(prior), !.todo = Order]

\* restore: what it does before its first await; `working` is the operation
\* and `pending` the status it has published so far.
Restore(working, pending, then) ==
  \/ /\ LoadWorks
     /\ op' = [working EXCEPT !.then = then, !.prior = journal.prior,
                 !.pc = IF journal.kind = "none" THEN "offObserve"
                                                 ELSE "ownedObserve"]
     /\ status' = pending
     /\ UNCHANGED booted
  \/ \E kind \in {"InvalidRecovery", "Other"} :
       LoadFails(kind) /\ Return(StatusDrift(FALSE, kind))

\* The restore published Off; its caller goes on.
AfterRestore ==
  \/ op.then = "done" /\ Return(StatusOff)
  \/ op.then = "fail" /\ Return(StatusFailed(TRUE))
  \/ /\ op.then = "reobserve"
     /\ Goto("reobserve")
     /\ status' = StatusPending(StatusOff, TRUE)
     /\ UNCHANGED booted

-----------------------------------------------------------------------------
(* preflight: read-only and outside the mutex.                              *)

PreflightLoad ==
  /\ "preflight" \in Actions
  /\ booted
  /\ journal.kind # "invalid"
  /\ preflight' = [NoPreflight EXCEPT !.stage = "loaded", !.journal = journal]
  /\ UNCHANGED <<platformVars, journal, status, op, booted, ghostVars, counters>>

\* An observation Mish must not build on ends the launch without a token.
PreflightRefused(loaded, observed) ==
  IF loaded.kind = "record"
    THEN /\ loaded.prior.service = observed.service
         /\ observed # WithEndpoint(loaded.prior)
    ELSE IsMishEndpoint(observed) \/ TakeoverRejected(observed)

PreflightObserve ==
  /\ preflight.stage = "loaded"
  /\ preflight' = IF PreflightRefused(preflight.journal, ObserveActive)
                    THEN NoPreflight
                    ELSE [preflight EXCEPT !.stage = "ready",
                                           !.observed = ObserveActive]
  /\ UNCHANGED <<platformVars, journal, status, op, booted, ghostVars, counters>>

-----------------------------------------------------------------------------
(* The operations, up to their first await.                                 *)

Begin(kind) == [Idle EXCEPT !.kind = kind, !.current = status]

MayBegin == op.kind = "none" /\ booted

\* reconcile_locked_with_preflight for an active selection.
Start(core_healthy, token) ==
  LET pending == StatusPending(status, TRUE)
      working == [Begin("start") EXCEPT !.token = token]
  IN /\ MayBegin
     /\ token \in {NoPreflight, preflight} /\ token.stage # "loaded"
     /\ preflight' = IF token = preflight THEN NoPreflight ELSE preflight
     /\ \/ \E kind \in {"InvalidRecovery", "Other"} :
             LoadFails(kind) /\ Return(StatusDrift(TRUE, kind))
        \/ /\ LoadWorks
           /\ core_healthy
           /\ op' = [working EXCEPT !.pc = "listener"]
           /\ status' = pending
           /\ UNCHANGED booted
        \/ /\ ~core_healthy
           /\ journal.kind = "record"
           /\ Restore(working, pending, "fail")
        \/ /\ ~core_healthy
           /\ journal.kind = "none"
           /\ Works
           /\ Return(StatusFailed(TRUE))
  /\ UNCHANGED <<platformVars, journal, ghostVars, events, crashes>>

\* reconcile_locked_with_preflight for an inactive selection.
Stop ==
  /\ MayBegin
  /\ Restore(Begin("stop"), StatusPending(status, FALSE), "done")
  /\ UNCHANGED <<platformVars, journal, preflight, ghostVars, events, crashes>>

\* audit_with_mutation; the one at startup runs before anything else.
Audit(core_healthy) ==
  /\ op.kind = "none"
  /\ ~booted => ~core_healthy
  /\ \/ \E kind \in {"InvalidRecovery", "Other"} :
          LoadFails(kind) /\ Return(StatusDrift(status.desired, kind))
     \/ /\ LoadWorks
        /\ journal.kind = "none"
        /\ op' = [Begin("audit") EXCEPT !.pc = "observe"]
        /\ UNCHANGED <<status, booted>>
     \/ /\ LoadWorks
        /\ journal.kind = "record" /\ status.desired /\ core_healthy
        /\ op' = [Begin("audit") EXCEPT !.pc = "listener"]
        /\ UNCHANGED <<status, booted>>
     \/ /\ journal.kind = "record" /\ ~(status.desired /\ core_healthy)
        /\ Restore(Begin("audit"), status, "done")
  /\ UNCHANGED <<platformVars, journal, preflight, ghostVars, events, crashes>>

\* recover, refused unless drift is published and the record is readable.
Recover(action, core_healthy) ==
  /\ MayBegin
  /\ status.phase = "Drift"
  /\ \/ /\ action = "Repair" /\ status.failure # "InvalidRecovery"
        /\ ~core_healthy
        /\ Return(StatusDrift(status.desired, "Other"))
     \/ /\ action = "Repair" /\ status.failure # "InvalidRecovery"
        /\ core_healthy
        /\ op' = [Begin(action) EXCEPT !.pc = "listener"]
        /\ UNCHANGED <<status, booted>>
     \/ /\ action = "LeaveAsIs"
        /\ op' = [Begin(action) EXCEPT !.pc = "observe"]
        /\ status' = StatusPending(status, FALSE)
        /\ UNCHANGED booted
  /\ UNCHANGED <<platformVars, journal, preflight, ghostVars, counters>>

-----------------------------------------------------------------------------
(* The awaits before a takeover.                                            *)

\* confirm_proxy_listener; without a listener the traffic goes back first.
Listener ==
  /\ op.pc = "listener"
  /\ \/ /\ Works
        /\ Goto("observe")
        /\ status' = IF op.kind = "Repair" THEN StatusPending(status, TRUE)
                                           ELSE status
        /\ UNCHANGED booted
     \/ /\ op.kind = "Repair"
        /\ Works
        /\ Return(StatusDrift(op.current.desired, "Other"))
     \/ /\ op.kind # "Repair" /\ journal.kind = "none"
        /\ Works
        /\ Return(StatusFailed(TRUE))
     \/ /\ op.kind # "Repair" /\ journal.kind = "record"
        /\ Restore(op, status, "fail")
  /\ UNCHANGED <<platformVars, journal, preflight, ghostVars, events, crashes>>

\* The takeover policy, the write-ahead record, then the first command.
TakeOver(observed, refusal) ==
  \/ /\ TakeoverRejected(observed)
     /\ Works
     /\ Return(refusal)
     /\ UNCHANGED journal
  \/ /\ ~TakeoverRejected(observed)
     /\ \/ Saves(observed) /\ BeginApply(observed) /\ UNCHANGED <<status, booted>>
        \/ SaveFails(observed) /\ Return(refusal)

\* reconcile without a record: a lookalike endpoint is never adopted.
TakeOverFresh(observed) ==
  \/ /\ HasMatchingManualEndpoint(observed)
     /\ Works
     /\ Return(StatusDrift(TRUE, "Other"))
     /\ UNCHANGED journal
  \/ /\ ~HasMatchingManualEndpoint(observed)
     /\ TakeOver(observed, StatusFailed(TRUE))

\* Mutant: the launch trusts its preparation.
MutantPreflightStale(token, observed) == FALSE

\* The record or the settings changed since the launch was prepared.
PreflightStale(token, observed) ==
  /\ token.stage = "ready"
  /\ <<token.journal, token.observed>> # <<journal, observed>>

\* observe_active in reconcile_locked_with_preflight.
ObserveForStart ==
  LET observed == ObserveActive
      owner    == journal.kind = "record" /\ journal.prior.service = active
  IN /\ op.kind = "start" /\ op.pc = "observe"
     /\ \/ /\ Fails
           /\ Return(IF journal.kind = "record" THEN StatusDrift(TRUE, "Other")
                                                ELSE StatusFailed(TRUE))
           /\ UNCHANGED journal
        \/ /\ PreflightStale(op.token, observed)
           /\ Works
           /\ Return(StatusDrift(TRUE, "Other"))
           /\ UNCHANGED journal
        \/ /\ ~PreflightStale(op.token, observed)
           /\ \/ /\ owner
                 /\ Works
                 /\ Return(IF observed = WithEndpoint(journal.prior)
                             THEN StatusApplied ELSE StatusDrift(TRUE, "Other"))
                 /\ UNCHANGED journal
              \/ /\ ~owner /\ journal.kind = "record"
                 /\ Restore(op, status, "reobserve")
                 /\ UNCHANGED journal
              \/ journal.kind = "none" /\ TakeOverFresh(observed)
  /\ UNCHANGED <<platformVars, preflight, ghostVars, events, crashes>>

\* observe_active again, after the other service's record was restored.
Reobserve ==
  /\ op.pc = "reobserve"
  /\ \/ Fails /\ Return(StatusFailed(TRUE)) /\ UNCHANGED journal
     \/ TakeOverFresh(ObserveActive)
  /\ UNCHANGED <<platformVars, preflight, ghostVars, events, crashes>>

\* observe_active in audit_with_mutation.
ObserveForAudit ==
  LET observed == ObserveActive
      recorded == journal.kind = "record"
      desired  == status.desired
      stays    == ~recorded /\ status.phase = "Failed"
                  /\ ~HasMatchingManualEndpoint(observed)
      moved    == desired /\ recorded /\ journal.prior.service # active
      matches  == recorded /\ observed = WithEndpoint(journal.prior)
  IN /\ op.kind = "audit" /\ op.pc = "observe"
     /\ \/ /\ Fails
           /\ Return(IF desired \/ recorded THEN StatusDrift(desired, "Other")
                                            ELSE status)
        \/ /\ moved
           /\ Works
           /\ op' = [op EXCEPT !.pc = "exactObserve", !.undo = "switch",
                               !.prior = journal.prior, !.next = observed]
           /\ UNCHANGED <<status, booted>>
        \/ /\ ~moved
           /\ Works
           /\ Return(IF stays THEN status
                     ELSE IF ~desired THEN StatusOff
                     ELSE IF matches THEN StatusApplied
                     ELSE StatusDrift(TRUE, "None"))
  /\ UNCHANGED <<platformVars, journal, preflight, ghostVars, events, crashes>>

\* observe_active in recover, then Repair's takeover or LeaveAsIs' clear.
ObserveForRecovery ==
  LET kept  == op.current.failure
      drift == StatusDrift(op.current.desired,
                 IF kept = "InvalidRecovery" THEN kept ELSE "Other")
  IN /\ op.kind \in {"Repair", "LeaveAsIs"} /\ op.pc = "observe"
     /\ \/ Fails /\ Return(drift) /\ UNCHANGED <<journal, ghostVars>>
        \/ /\ op.kind = "Repair"
           /\ TakeOver(ObserveActive, drift)
           /\ UNCHANGED ghostVars
        \/ /\ op.kind = "LeaveAsIs"
           /\ \/ Clears /\ Return(StatusOff)
              \/ ClearFails /\ Return(drift)
           /\ IF journal' = NoJournal THEN owed' = host /\ contested' = {}
                                      ELSE UNCHANGED ghostVars
  /\ UNCHANGED <<platformVars, preflight, events, crashes>>

-----------------------------------------------------------------------------
(* apply_service, one command per step, and the confirmation after it.      *)

Command == [host EXCEPT ![op.target.service][Head(op.todo)] =
              op.target.settings[Head(op.todo)]]

\* A failed takeover is undone from its own baseline.
RollBack == op' = [op EXCEPT !.pc = "exactObserve", !.undo = "rollback"]

\* A command may do nothing, or take effect and still report an error.
Apply ==
  /\ op.pc = "apply"
  /\ op.todo # << >>
  /\ \/ Works /\ host' = Command /\ op' = [op EXCEPT !.todo = Tail(@)]
     \/ Fails /\ host' \in {host, Command} /\ RollBack
  /\ UNCHANGED <<active, journal, status, preflight, booted, ghostVars, events,
                 crashes>>

\* confirm_active_target: the window may also close on stale observations.
Confirm ==
  /\ op.pc = "apply"
  /\ op.todo = << >>
  /\ \/ Works /\ ObserveActive = op.target /\ Return(StatusApplied)
     \/ /\ (ObserveActive # op.target /\ Works) \/ Fails
        /\ RollBack
        /\ UNCHANGED <<status, booted>>
  /\ UNCHANGED <<platformVars, journal, preflight, ghostVars, events, crashes>>

-----------------------------------------------------------------------------
(* restore and restore_exact_prior.                                         *)

\* restore without a record: nothing to give back.
ObserveOff ==
  /\ op.pc = "offObserve"
  /\ \/ Works /\ AfterRestore
     \/ Fails /\ Return(StatusFailed(FALSE))
  /\ UNCHANGED <<platformVars, journal, preflight, ghostVars, events, crashes>>

\* Mutant: a restore that could not finish is published as off.
MutantReportDrift(desired) ==
  op' = [op EXCEPT !.pc = "report", !.verdict = StatusOff]

\* Publish a drift after one more observation, whose failure is tolerated.
ReportDrift(desired) ==
  op' = [op EXCEPT !.pc = "report", !.verdict = StatusDrift(desired, "Other")]

\* restore with a record: whatever somebody else changed is left alone.
ObserveOwned ==
  /\ op.pc = "ownedObserve"
  /\ \/ Fails /\ Return(StatusDrift(FALSE, "Other"))
     \/ /\ Works
        /\ IF OwnedBetween(ObserveService(op.prior.service), op.prior,
                           WithEndpoint(op.prior))
             THEN op' = [op EXCEPT !.pc = "exactObserve", !.undo = "restore"]
             ELSE ReportDrift(FALSE)
        /\ UNCHANGED <<status, booted>>
  /\ UNCHANGED <<platformVars, journal, preflight, ghostVars, events, crashes>>

Report ==
  /\ op.pc = "report"
  /\ Return(op.verdict)
  /\ UNCHANGED <<platformVars, journal, preflight, ghostVars, counters>>

\* restore_exact_prior failed, for the caller that is undoing.
UndoFailed ==
  \/ op.undo = "restore" /\ ReportDrift(FALSE) /\ UNCHANGED <<status, booted>>
  \/ op.undo = "rollback" /\ ReportDrift(TRUE) /\ UNCHANGED <<status, booted>>
  \/ op.undo = "switch" /\ Return(StatusDrift(TRUE, "Other"))

\* restore_exact_prior succeeded: the record goes, then the caller publishes.
Undone ==
  \/ /\ op.undo = "restore"
     /\ \/ Clears /\ AfterRestore
        \/ ClearFails /\ Return(StatusDrift(FALSE, "Other"))
  \/ /\ op.undo = "rollback"
     /\ \/ Clears /\ Return(StatusFailed(TRUE))
        \/ ClearFails /\ Return(StatusDrift(status.desired, "Other"))
  \/ /\ op.undo = "switch"
     /\ \/ /\ ClearFails
           /\ Return(StatusDrift(TRUE, "Other"))
        \/ /\ TakeoverRejected(op.next)
           /\ Clears
           /\ Return(StatusFailed(TRUE))
        \/ /\ ~TakeoverRejected(op.next)
           /\ \/ /\ journal' = Recorded(op.next) /\ Works
                 /\ BeginApply(op.next)
                 /\ UNCHANGED <<status, booted>>
              \/ /\ journal' \in {NoJournal, Recorded(op.next)} /\ Fails
                 /\ Return(StatusFailed(TRUE))

ObserveExact ==
  /\ op.pc = "exactObserve"
  /\ LET owned == OwnedBetween(ObserveService(op.prior.service), op.prior,
                               WithEndpoint(op.prior))
     IN \/ /\ owned
           /\ Works
           /\ op' = [op EXCEPT !.pc = "exactApply", !.target = op.prior,
                               !.todo = Order]
           /\ UNCHANGED <<status, booted>>
        \/ /\ (~owned /\ Works) \/ Fails
           /\ UndoFailed
  /\ UNCHANGED <<platformVars, journal, preflight, ghostVars, events, crashes>>

ApplyExact ==
  /\ op.pc = "exactApply"
  /\ op.todo # << >>
  /\ \/ /\ Works
        /\ host' = Command
        /\ op' = [op EXCEPT !.todo = Tail(@)]
        /\ UNCHANGED <<status, booted>>
     \/ Fails /\ host' \in {host, Command} /\ UndoFailed
  /\ UNCHANGED <<active, journal, preflight, ghostVars, events, crashes>>

\* confirm_service_target, then the clear with no await in between.
ConfirmExact ==
  /\ op.pc = "exactApply"
  /\ op.todo = << >>
  /\ LET restored == ObserveService(op.prior.service) = op.prior
     IN \/ restored /\ Undone
        \/ /\ (~restored /\ Works) \/ Fails
           /\ UndoFailed
           /\ UNCHANGED journal
  /\ UNCHANGED <<platformVars, preflight, ghostVars, events, crashes>>

-----------------------------------------------------------------------------
(* What happens around an operation.                                        *)

Event == events < MaxEvents /\ events' = events + 1

\* An edit Mish cannot tell from its own writes: under a running operation, or
\* to the very value a recorded takeover would set.
Indistinguishable(s, f, value) ==
  \/ op.kind # "none"
  \/ /\ journal.kind = "record" /\ journal.prior.service = s
     /\ WithEndpoint(journal.prior).settings[f] = value

\* The user, or another program, changes one field of one service.
Edit(s, f, value) ==
  /\ Event
  /\ host' = [host EXCEPT ![s][f] = value]
  /\ owed' = [owed EXCEPT ![s][f] = value]
  /\ contested' = IF Indistinguishable(s, f, value) THEN contested \cup {s}
                                                    ELSE contested
  /\ UNCHANGED <<active, journal, status, op, preflight, booted, faults, crashes>>

UserValues(f) ==
  IF f = "manual" THEN Manual
  ELSE IF f = "auto" THEN BOOLEAN
  ELSE [base: Bypass, managed: {FALSE}]

SwitchService(s) ==
  /\ Event
  /\ s # active
  /\ active' = s
  /\ UNCHANGED <<host, journal, status, op, preflight, booted, ghostVars, faults,
                 crashes>>

\* The command under way when the operation is dropped: run or killed.
Interrupted ==
  IF op.pc \in {"apply", "exactApply"} /\ op.todo # << >>
    THEN host' \in {host, Command} ELSE host' = host

\* The executor's select! drops the operation at its await; status and record
\* stay as they are.
Cancel ==
  /\ op.kind # "none" /\ booted
  /\ Fails
  /\ Interrupted
  /\ op' = Idle
  /\ UNCHANGED <<active, journal, status, preflight, booted, ghostVars, events,
                 crashes>>

\* The process dies and starts again; the record may come back unreadable.
Crash ==
  /\ crashes < MaxCrashes
  /\ crashes' = crashes + 1
  /\ Interrupted
  /\ journal' \in {journal}
       \cup (IF journal.kind = "none" THEN {} ELSE {InvalidJournal})
  /\ status' = StatusOff
  /\ op' = Idle
  /\ preflight' = NoPreflight
  /\ booted' = FALSE
  /\ UNCHANGED <<active, ghostVars, events, faults>>

-----------------------------------------------------------------------------
Advance ==
  \/ Listener \/ ObserveForStart \/ Reobserve \/ ObserveForAudit
  \/ ObserveForRecovery \/ Apply \/ Confirm \/ ObserveOff \/ ObserveOwned
  \/ Report \/ ObserveExact \/ ApplyExact \/ ConfirmExact

Begins ==
  \/ \E core_healthy \in BOOLEAN :
       \/ \E token \in {NoPreflight, preflight} : Start(core_healthy, token)
       \/ Audit(core_healthy)
       \/ \E action \in Actions \ {"preflight"} : Recover(action, core_healthy)
  \/ Stop

Environment ==
  \/ \E s \in Service : SwitchService(s)
  \/ \E s \in Service, f \in Field : \E value \in UserValues(f) : Edit(s, f, value)
  \/ Cancel \/ Crash

Next == PreflightLoad \/ PreflightObserve \/ Begins \/ Advance \/ Environment

Spec == Init /\ [][Next]_vars

(* The process keeps polling the operation it runs, and startup audits      *)
(* before it exposes anything.                                              *)
Fairness == WF_vars(Advance) /\ WF_vars(~booted /\ Audit(FALSE))

FairSpec == Spec /\ Fairness

-----------------------------------------------------------------------------
Status == [desired: BOOLEAN,
           phase: {"Off", "Pending", "Applied", "Failed", "Drift"},
           enabled: BOOLEAN, failure: {"None", "InvalidRecovery", "Other"}]

Journal == [kind: {"none", "invalid"}, prior: {NoSnapshot}]
           \cup [kind: {"record"}, prior: Snapshot]

Preflight == [stage: {"none", "loaded", "ready"}, journal: Journal,
              observed: Snapshot \cup {NoSnapshot}]

Operation ==
  [kind: {"none", "start", "stop", "audit", "Repair", "LeaveAsIs"},
   pc: {"idle", "listener", "observe", "reobserve", "apply", "offObserve",
        "ownedObserve", "exactObserve", "exactApply", "report"},
   prior: Snapshot \cup {NoSnapshot}, target: Snapshot \cup {NoSnapshot},
   todo: Seq(Field), undo: {"none", "restore", "rollback", "switch"},
   then: {"done", "fail", "reobserve"}, next: Snapshot \cup {NoSnapshot},
   current: Status, verdict: Status, token: Preflight]

\* Every variable keeps the type of the code's value it stands for.
TypeOK ==
  /\ host \in [Service -> Settings]
  /\ active \in Service
  /\ journal \in Journal
  /\ status \in Status
  /\ op \in Operation
  /\ preflight \in Preflight
  /\ booted \in BOOLEAN
  /\ owed \in [Service -> Settings]
  /\ contested \subseteq Service
  /\ events \in Nat /\ faults \in Nat /\ crashes \in Nat

\* Whatever the user chose for a field of a service is either still set there
\* or held by the journal for that service: no step, failure, cancellation or
\* crash of takeover, rollback, restore and service switch loses it, unless
\* the edit could not be told from Mish's own writes or the record was damaged.
NothingLost ==
  \A s \in Service \ contested : \A f \in Field :
    \/ host[s][f] = owed[s][f]
    \/ journal.kind = "invalid"
    \/ /\ journal.kind = "record" /\ journal.prior.service = s
       /\ journal.prior.settings[f] = owed[s][f]

\* Off is published only once the settings are the user's own again.
OffRestoresPrior ==
  status.phase = "Off" /\ booted /\ op.kind = "none" =>
    \A s \in Service \ contested : host[s] = owed[s]

\* Off never leaves the user's services pointing at Mish's endpoint.
OffReleasesEndpoint ==
  status.phase = "Off" /\ booted /\ op.kind = "none" =>
    \A s \in Service \ contested :
      owed[s].manual # Mish => host[s].manual # Mish

\* system_proxy_enabled, kept through Pending, is backed by a readable record
\* as long as the process runs.
EnabledIsRecorded == status.enabled => journal.kind = "record"

\* Every command of a takeover or of its undoing runs with the exact baseline
\* of that transaction durable in the journal.
WriteAhead ==
  op.pc \in {"apply", "exactObserve", "exactApply"} =>
    journal = Recorded(op.prior)

\* An unreadable record is never published as off or applied.
InvalidIsDrift ==
  booted /\ op.kind = "none" /\ journal.kind = "invalid" =>
    status.phase \notin {"Off", "Applied"}

\* A launch prepared while nothing was recorded only takes over the settings it
\* was prepared with: any change since then ends it without a command.
PreflightHonoured ==
  op.pc = "apply" /\ op.token.stage = "ready" /\ op.token.journal = NoJournal
    => op.prior = op.token.observed

-----------------------------------------------------------------------------
(* The inductive invariants behind those properties.                        *)

Undoing == {"exactObserve", "exactApply"}
Writing == {"apply", "exactApply"}

\* From the first ownership check to the last command an operation works on
\* the recorded baseline, towards it or towards Mish's endpoint.
TransactionInv ==
  /\ (op.pc = "idle") <=> (op.kind = "none")
  /\ op.pc \in {"ownedObserve"} \cup Writing \cup Undoing =>
       journal.kind = "record" /\ journal.prior = op.prior
  /\ op.pc = "apply" => op.target = WithEndpoint(op.prior)
  /\ op.pc = "exactApply" => op.target = op.prior
  /\ op.pc \in Undoing => op.undo # "none"
  /\ op.pc \in Undoing /\ op.undo = "switch" =>
       op.next \in Snapshot /\ op.next.service # op.prior.service
  /\ op.pc \in {"offObserve", "reobserve"} => journal.kind = "none"

\* What the published phase says of the record.
StatusInv ==
  /\ EnabledIsRecorded
  /\ status.phase = "Off" => ~status.desired
  /\ status.phase = "Applied" => status.enabled
  /\ booted /\ status.phase = "Off" => journal.kind = "none"
  /\ op.kind \in {"start", "Repair"} => status.phase \in {"Pending", "Drift"}
  /\ op.kind = "audit" /\ op.pc \in {"listener", "observe"} =>
       journal.kind = "none" \/ (journal.kind = "record" /\ status.desired)
  /\ op.pc = "reobserve" => status.phase = "Pending"
  /\ op.pc = "report" => op.verdict.phase = "Drift" /\ ~op.verdict.enabled

\* A launch prepared while nothing was recorded has met no record since: it
\* restores no other service first and works on what it was prepared with.
Prepared == op.token.stage = "ready" /\ op.token.journal = NoJournal
PreflightInv ==
  /\ op.kind # "start" => op.token = NoPreflight
  /\ op.undo = "switch" => op.kind = "audit"
  /\ op.pc = "reobserve" => op.then = "reobserve"
  /\ Prepared => op.then # "reobserve"
  /\ Prepared /\ op.pc = "apply" => op.prior = op.token.observed

RecordedFor(s) == journal.kind = "record" /\ journal.prior.service = s

\* A field of a recorded service that differs from the baseline by the user's
\* choice still shows that choice, and not a value Mish could have written.
Kept(s, f) ==
  IF RecordedFor(s)
    THEN \/ owed[s][f] = journal.prior.settings[f]
         \/ /\ host[s][f] = owed[s][f]
            /\ owed[s][f] # WithEndpoint(journal.prior).settings[f]
    ELSE host[s][f] = owed[s][f]

\* While commands run, the baseline is the user's choice; while the service is
\* being switched, so is what was observed of the next one.
OwedInv ==
  /\ journal.kind # "invalid" =>
       \A s \in Service \ contested : \A f \in Field : Kept(s, f)
  /\ op.pc \in Writing /\ op.prior.service \notin contested =>
       \A f \in Field : owed[op.prior.service][f] = op.prior.settings[f]
  /\ op.pc \in Undoing /\ op.undo = "switch" /\ op.next.service \notin contested
       => \A f \in Field : host[op.next.service][f] = op.next.settings[f]

-----------------------------------------------------------------------------
\* A restart ends with the settings given back or with a recovery choice.
RestartRecovers ==
  ~booted ~> (booted /\ (journal.kind = "none" \/ status.phase = "Drift"))
=============================================================================
