-------------------------- MODULE ProfileActivation --------------------------
(***************************************************************************)
(* The Profile activation machine on the runner, its executor and          *)
(* finalizer, and the coordinator's operations that compete for it         *)
(* (crates/desktop-bridge/src/profile_activation.rs).  What the activation *)
(* manager may do to the runtime and to Capture is Activation's subject    *)
(* and is one step here.                                                   *)
(*                                                                         *)
(* A command id is a number that also stands for the scope's revision.  A  *)
(* runtime is the profile it runs and the command that started it.         *)
(***************************************************************************)
EXTENDS Integers, Sequences

CONSTANTS
  Profiles,      \* the profiles that exist at first
  Operations,    \* which of the coordinator's operations are called
  MaxCommands,   \* bound: commands
  MaxFaults,     \* bound: manager calls that fail, and Capture found in another state
  MaxPanics      \* bound: effects that panic

VARIABLES
  pstate, ptasks, pmode,  \* the runner
  resources,  \* the executor's operations: what each command found and must give back
  managed,    \* the manager's active runtime
  reserved,   \* whether the manager keeps Capture reserved for a transition
  capt,       \* Capture: "on", "off", or "drift"
  host,       \* DesktopRuntimeHost: the runtime that every reader is given
  profiles,   \* the stored profiles
  permit,     \* StateMutationAuthority: who holds the permit
  proxyLock,  \* proxy_operation
  shuttingDown,
  at,         \* where each caller is
  waits,      \* what each caller waits for, and the terminal it was told
  overtaken,  \* history: whether a call took the permit after a shutdown set the flag it had read
  commands,   \* command ids so far
  spent       \* faults and panics so far

runnerVars == <<pstate, ptasks, pmode>>
pvars == <<pstate, ptasks, pmode, resources, managed, reserved, capt, host, profiles, permit,
           proxyLock, shuttingDown, overtaken, at, waits, commands, spent>>

Callers == {"user", "proxy", "quit"}
Safe == [profile |-> "none", made |-> 0]
Free == "free"

-----------------------------------------------------------------------------
(* ProfileActivationState.                                                  *)

State(kind, stage, command, runtime) ==
  [kind |-> kind, stage |-> stage, command |-> command, runtime |-> runtime]
NoCommand == [id |-> 0, op |-> "none", target |-> "none"]
InitialActivation == State("Idle", "none", NoCommand, Safe)

FailedKinds == {"Failed", "Cancelled", "RollbackSucceeded", "RecoveryRequired"}

\* allows: what each kind of state accepts.
Allows(s, transition) ==
  CASE transition \in {"Begin", "Shutdown"} -> s.kind \in {"Idle", "Succeeded"} \cup FailedKinds
    [] transition = "Complete" -> s.kind \in {"Pending", "Retrying"}
    [] transition = "Compensate" -> s.kind = "Succeeded"
    [] transition = "Rollback" -> s.kind \in {"Succeeded", "Compensating"}

RuntimeOf(s) == IF s.kind \in {"Idle", "RollbackSucceeded", "Shutdown"} THEN Safe ELSE s.runtime
PendingOf(s) == s.kind \in {"Pending", "Retrying"}

\* retry_evidence: the same operation on the same target after a failure.
Retries(s, command) ==
  s.kind \in FailedKinds /\ s.command.op = command.op /\ s.command.target = command.target

Begun(s, command) ==
  State(IF Retries(s, command) THEN "Retrying" ELSE "Pending", "Effect", command, RuntimeOf(s))

\* success_matches_command.
SuccessMatches(command, runtime) ==
  IF command.op = "Activate" THEN runtime # Safe /\ runtime.profile = command.target
  ELSE command.op = "Stop" /\ runtime = Safe

\* to_snapshot: what callers are told.
PhaseOf(s) ==
  CASE PendingOf(s) \/ s.kind = "Compensating" -> "Pending"
    [] s.kind = "Succeeded" -> "Success"
    [] s.kind \in FailedKinds -> "Failure"
    [] OTHER -> "Idle"
Snapshot(s) == [phase |-> PhaseOf(s), id |-> s.command.id, runtime |-> RuntimeOf(s)]

-----------------------------------------------------------------------------
(* ProfileActivationMachine::reduce.                                        *)

Move(disposition, s) == [disposition |-> disposition, state |-> s, effects |-> <<>>]
Refuse(disposition) == Move(disposition, InitialActivation)
Correlation(command, effect) == [id |-> command.id, effect |-> effect]
Emit(s, mode, effect, found, outcome) ==
  [disposition |-> "EffectEmitting", state |-> s,
   effects |-> <<[mode |-> mode, correlation |-> Correlation(s.command, effect),
                  command |-> s.command, found |-> found, outcome |-> outcome]>>]
NoFinding == [host |-> Safe, runtime |-> Safe, captured |-> FALSE, final |-> "none", held |-> FALSE]

ReduceBegin(s, i) ==
  IF ~Allows(s, "Begin") THEN Refuse("Rejected")
  ELSE Emit(Begun(s, i.command), "Spawn", 1, i.found, "none")

\* Only an effect that still runs is cancelled.
ReduceCancel(s, i) ==
  IF ~PendingOf(s) \/ s.command.id # i.command.id \/ s.stage # "Effect" THEN Refuse("Unchanged")
  ELSE Emit(s, "Cancel", 1, NoFinding, "none")

ReduceReject(s, i) ==
  IF ~Allows(s, "Begin") THEN Refuse("Rejected")
  ELSE Move("Failed", State("Failed", "none", i.command, RuntimeOf(s)))

ReduceCompensate(s, i) ==
  IF ~Allows(s, "Compensate") \/ s.command.id # i.command.id \/ s.command.op # "Activate"
  THEN Refuse("Rejected")
  ELSE Emit([s EXCEPT !.kind = "Compensating"], "Spawn", 4, i.found, "none")

ReduceCompensated(s, i) ==
  IF s.kind # "Compensating" \/ i.correlation # Correlation(s.command, 4) THEN Refuse("Retired")
  ELSE IF i.outcome = "RestoredSafe" THEN Move("Failed", State("RollbackSucceeded", "none", s.command, Safe))
  ELSE Move("RecoveryRequired", State("RecoveryRequired", "none", s.command, i.runtime))

\* begin_shutdown and complete_shutdown.
ReduceRetire(s, i) ==
  IF ~Allows(s, "Shutdown") THEN Refuse("Rejected")
  ELSE Move("Committed", State(IF i.terminal THEN "Shutdown" ELSE "Idle", "none", NoCommand, Safe))

Finalizing(s, stage, effect, outcome) ==
  Emit([s EXCEPT !.stage = stage], "Spawn", effect, NoFinding, outcome)

ReduceTaskFinished(s, i) ==
  IF ~PendingOf(s) \/ i.correlation # Correlation(s.command, 1) \/ s.stage # "Effect" THEN Refuse("Retired")
  ELSE Finalizing(s, "Finalizing", 2, i.outcome)

Finals == [Finalizing |-> 2, Recovering |-> 3]

\* complete, complete_capture_failure and complete_recovery_required.
ReduceFinalized(s, i) ==
  IF ~PendingOf(s) \/ s.stage \notin DOMAIN Finals THEN Refuse("Retired")
  ELSE IF i.correlation # Correlation(s.command, Finals[s.stage]) THEN Refuse("Retired")
  ELSE IF i.outcome \in {"Succeeded", "CaptureFailure"}
  THEN IF SuccessMatches(s.command, i.runtime)
       THEN Move("Committed", State("Succeeded", "none", s.command, i.runtime)) ELSE Refuse("Retired")
  ELSE Move("Failed", State(i.outcome, "none", s.command, i.runtime))

\* The first finalizer's panic leads to a second, the second's to recovery.
ReduceTaskFailed(s, i) ==
  CASE s.kind = "Compensating" /\ i.correlation = Correlation(s.command, 4) ->
         Move("RecoveryRequired", State("RecoveryRequired", "none", s.command, s.runtime))
    [] PendingOf(s) /\ s.stage = "Effect" /\ i.correlation = Correlation(s.command, 1) ->
         Finalizing(s, "Finalizing", 2, "failed")
    [] PendingOf(s) /\ s.stage = "Finalizing" /\ i.correlation = Correlation(s.command, 2) ->
         Finalizing(s, "Recovering", 3, "failed")
    [] PendingOf(s) /\ s.stage = "Recovering" /\ i.correlation = Correlation(s.command, 3) ->
         Move("RecoveryRequired", State("RecoveryRequired", "none", s.command, s.runtime))
    [] OTHER -> Refuse("Retired")

ReduceShutdown(s) ==
  IF PendingOf(s) THEN Emit(s, "Cancel", 1, NoFinding, "none") ELSE Refuse("Retired")

ReduceActivation(s, i) ==
  CASE i.kind = "Begin" -> ReduceBegin(s, i)
    [] i.kind = "Cancel" -> ReduceCancel(s, i)
    [] i.kind = "Reject" -> ReduceReject(s, i)
    [] i.kind = "Compensate" -> ReduceCompensate(s, i)
    [] i.kind = "CompensationFinished" -> ReduceCompensated(s, i)
    [] i.kind = "Retire" -> ReduceRetire(s, i)
    [] i.kind = "TaskFinished" -> ReduceTaskFinished(s, i)
    [] i.kind = "Finalized" -> ReduceFinalized(s, i)
    [] i.kind = "TaskFailed" -> ReduceTaskFailed(s, i)
    [] i.kind = "Shutdown" -> ReduceShutdown(s)

EffectIsCurrent(s, correlation) ==
  \/ PendingOf(s) /\ correlation = Correlation(s.command, [Effect |-> 1, Finalizing |-> 2, Recovering |-> 3][s.stage])
  \/ s.kind = "Compensating" /\ correlation = Correlation(s.command, 4)

InputOf(kind, correlation, outcome, runtime) ==
  [kind |-> kind, correlation |-> correlation, outcome |-> outcome, runtime |-> runtime]

Run == INSTANCE Runner WITH
  state <- pstate, tasks <- ptasks, mode <- pmode,
  InitialState <- InitialActivation, Admissible <- {}, ShutdownInput <- [kind |-> "Shutdown"],
  Reduce <- ReduceActivation, InputCorrelation <- LAMBDA s, i : i.correlation,
  EffectIsCurrent <- EffectIsCurrent,
  TaskFailed <- LAMBDA c, why : [kind |-> "TaskFailed", correlation |-> c],
  Completes <- LAMBDA e, cancelled : {}, NoInput <- "none", TaskId <- 1..2

\* The observer sends every transition to the callers that subscribed.
Published ==
  waits' = [c \in Callers |->
    IF pstate' # pstate /\ waits[c].on /\ waits[c].id = pstate'.command.id /\ PhaseOf(pstate') # "Pending"
    THEN [waits[c] EXCEPT !.told = Snapshot(pstate')] ELSE waits[c]]

Admit(input) == Run!Admit(input) /\ Published
Accepted(input) == ReduceActivation(pstate, input).disposition # "Rejected"

-----------------------------------------------------------------------------
(* What the activation manager does, by its contract.                       *)

Faulty == spent.faults < MaxFaults /\ spent' = [spent EXCEPT !.faults = @ + 1]
Sound == UNCHANGED spent
Matches(active) == capt = IF active THEN "on" ELSE "off"

\* activate_cancellable: the new runtime, or the old one restored, or nothing.
ManagerActivates(command, found, cancelled) ==
  {[ok |-> ok, managed |-> m, reserved |-> r, capt |-> c] :
     ok \in {"activated", "cancelled", "capture", "error"}, m \in {[profile |-> command.target, made |-> command.id], managed, Safe},
     r \in BOOLEAN, c \in {"on", "off", "drift"}}
Kept(r) == r.managed = managed /\ r.reserved = reserved /\ r.capt = capt
ActivationResult(command, found, cancelled, r) ==
  \/ /\ r.ok = "activated" /\ ~reserved /\ ~cancelled
     /\ r.managed.made = command.id /\ r.reserved
     /\ \/ r.capt = (CASE found.final = "none" -> capt [] found.final = "on" -> "on" [] OTHER -> "off") /\ Sound
        \/ r.capt = "drift" /\ Faulty
  \/ r.ok = "cancelled" /\ cancelled /\ Kept(r) /\ Sound
  \/ r.ok = "error" /\ Kept(r) /\ IF reserved THEN Sound ELSE Faulty
  \/ r.ok = "capture" /\ Kept(r) /\ found.final # "none" /\ Faulty
  \/ r.ok = "error" /\ r.managed = managed /\ ~r.reserved /\ r.capt = "drift" /\ Faulty
  \/ r.ok = "error" /\ r.managed = Safe /\ ~r.reserved /\ r.capt = "off" /\ Faulty

\* shutdown: everything stopped; or Capture, the Core or the state file fails.
ManagerStops ==
  \/ managed' = Safe /\ capt' = "off" /\ Sound
  \/ UNCHANGED managed /\ capt' \in {"drift", "off"} /\ Faulty
  \/ managed' = Safe /\ capt' = "off" /\ Faulty

-----------------------------------------------------------------------------
(* The executor.                                                            *)

Panicked == spent.panics < MaxPanics /\ spent' = [spent EXCEPT !.panics = @ + 1]
Answers(t, input) == Run!Settle(t, [kind |-> "ok", input |-> input])
Panics(t) == Run!Settle(t, [kind |-> "panicked", input |-> "none"])
IsEffect(t, effect, op) ==
  /\ t \in DOMAIN ptasks /\ ptasks[t].outcome.kind = "running"
  /\ ptasks[t].effect.correlation.effect = effect /\ ptasks[t].effect.command.op \in op

\* Activate: the operation's resources are kept, then the manager is called.
ExecuteActivate(t) ==
  /\ IsEffect(t, 1, {"Activate"})
  /\ LET e == ptasks[t].effect
     IN /\ resources' = [resources EXCEPT ![e.command.id] = e.found]
        /\ \E r \in ManagerActivates(e.command, e.found, ptasks[t].cancelled) :
             /\ ActivationResult(e.command, e.found, ptasks[t].cancelled, r)
             /\ managed' = r.managed /\ reserved' = r.reserved /\ capt' = r.capt
             /\ Answers(t, InputOf("TaskFinished", e.correlation, r.ok, Safe))
  /\ UNCHANGED <<host, profiles, permit, proxyLock, shuttingDown, overtaken, at, waits, commands>>

ExecuteStop(t) ==
  /\ IsEffect(t, 1, {"Stop"})
  /\ LET e == ptasks[t].effect
     IN /\ resources' = [resources EXCEPT ![e.command.id] = e.found]
        /\ ManagerStops /\ reserved' = FALSE
        /\ \E ok \in {"stopped", "stopError"} :
             /\ ok = "stopped" <=> spent' = spent
             /\ Answers(t, InputOf("TaskFinished", e.correlation, ok, Safe))
  /\ UNCHANGED <<host, profiles, permit, proxyLock, shuttingDown, overtaken, at, waits, commands>>

\* An effect that panics in the manager: the call has had any of its effects.
ExecutePanics(t) ==
  /\ IsEffect(t, 1, {"Activate", "Stop"})
  /\ LET e == ptasks[t].effect
         new == [profile |-> e.command.target, made |-> e.command.id]
     IN /\ resources' = [resources EXCEPT ![e.command.id] = e.found]
        /\ \/ UNCHANGED <<managed, reserved, capt>>
           \/ e.command.op = "Activate" /\ ~reserved /\ managed' = new /\ reserved' = TRUE /\ UNCHANGED capt
           \/ managed' = Safe /\ reserved' = FALSE /\ capt' = "off"
  /\ Panics(t) /\ Panicked
  /\ UNCHANGED <<host, profiles, permit, proxyLock, shuttingDown, overtaken, at, waits, commands>>

\* prior_runtime_and_capture_restored.
PriorRestored(found) ==
  /\ managed = found.runtime /\ Matches(found.captured)
  /\ managed # Safe => host = found.host
SafeStopped == managed = Safe /\ Matches(FALSE)

\* finalize_profile_activation, by the outcome of the effect: what is answered,
\* which runtime the host is given, and whether Capture is let go.
FinalAfterActivated(command, found) ==
  LET authoritative == SuccessMatches(command, managed) /\ managed.made = command.id
      confirmed == Matches(IF found.final = "none" THEN found.captured ELSE found.final = "on")
  IN [outcome |-> IF authoritative /\ confirmed THEN "Succeeded" ELSE "RecoveryRequired",
      host |-> IF authoritative THEN managed ELSE host,
      handoff |-> TRUE]

FinalAfterError(error, found) ==
  IF PriorRestored(found) \/ SafeStopped
  THEN [outcome |-> CASE error = "capture" /\ managed # Safe -> "CaptureFailure"
                      [] error = "cancelled" -> "Cancelled"
                      [] OTHER -> "Failed",
        host |-> managed, handoff |-> TRUE]
  ELSE [outcome |-> "RecoveryRequired", host |-> host, handoff |-> TRUE]

FinalAfterStopped ==
  IF SafeStopped THEN [outcome |-> "Succeeded", host |-> Safe, handoff |-> TRUE]
  ELSE [outcome |-> "RecoveryRequired", host |-> host, handoff |-> TRUE]

FinalAfterStopError(found) ==
  IF managed # Safe /\ host = found.host /\ managed = found.runtime /\ Matches(found.captured)
  THEN [outcome |-> "Failed", host |-> managed, handoff |-> FALSE]
  ELSE [outcome |-> "RecoveryRequired", host |-> IF managed = Safe THEN Safe ELSE host, handoff |-> TRUE]

FinalAfterFailure(found) ==
  IF PriorRestored(found) THEN [outcome |-> "Failed", host |-> managed, handoff |-> TRUE]
  ELSE [outcome |-> "RecoveryRequired", host |-> host, handoff |-> TRUE]

Finalization(command, outcome, found) ==
  CASE outcome = "activated" -> FinalAfterActivated(command, found)
    [] outcome \in {"cancelled", "capture", "error"} -> FinalAfterError(outcome, found)
    [] outcome = "stopped" -> FinalAfterStopped
    [] outcome = "stopError" -> FinalAfterStopError(found)
    [] outcome = "failed" -> FinalAfterFailure(found)

\* The first finalizer gives the resources back at its end, the second takes
\* them, and lets Capture go, before it looks at anything.
ExecuteFinalize(t) ==
  /\ IsEffect(t, 2, {"Activate", "Stop"}) \/ IsEffect(t, 3, {"Activate", "Stop"})
  /\ LET e == ptasks[t].effect
         f == Finalization(e.command, e.outcome, resources[e.command.id])
     IN /\ host' = f.host
        /\ reserved' = (reserved /\ ~f.handoff /\ e.correlation.effect = 2)
        /\ Answers(t, InputOf("Finalized", e.correlation, f.outcome, managed))
  /\ UNCHANGED <<resources, managed, capt, profiles, permit, proxyLock, shuttingDown, overtaken, at, waits, commands, spent>>

\* A finalizer that panics, before or after it gave the host its runtime.
FinalizePanics(t) ==
  /\ IsEffect(t, 2, {"Activate", "Stop"}) \/ IsEffect(t, 3, {"Activate", "Stop"})
  /\ LET e == ptasks[t].effect
     IN /\ host' \in {host, Finalization(e.command, e.outcome, resources[e.command.id]).host}
        /\ reserved' = (reserved /\ e.correlation.effect = 2)
  /\ Panics(t) /\ Panicked
  /\ UNCHANGED <<resources, managed, capt, profiles, permit, proxyLock, shuttingDown, overtaken, at, waits, commands>>

\* Compensate: a launch whose Capture failed stops what it started.
ExecuteCompensate(t) ==
  /\ IsEffect(t, 4, {"Activate"})
  /\ ManagerStops /\ reserved' = FALSE
  /\ LET restored == spent' = spent /\ managed' = Safe /\ capt' = "off"
         c == ptasks[t].effect.correlation
     IN /\ host' = IF restored THEN Safe ELSE host
        /\ Answers(t, InputOf("CompensationFinished", c, IF restored THEN "RestoredSafe" ELSE "RecoveryRequired", managed'))
  /\ UNCHANGED <<resources, profiles, permit, proxyLock, shuttingDown, overtaken, at, waits, commands>>

CompensatePanics(t) ==
  /\ IsEffect(t, 4, {"Activate"})
  /\ \/ UNCHANGED <<managed, reserved, capt>>
     \/ managed' = Safe /\ reserved' = FALSE /\ capt' = "off"
  /\ Panics(t) /\ Panicked
  /\ UNCHANGED <<host, resources, profiles, permit, proxyLock, shuttingDown, overtaken, at, waits, commands>>

\* The runner takes an effect's result.  A finalizer's result carries the
\* resources: dropping them gives the permit of the command back.
TakeResult(t) ==
  /\ Run!Join(t) /\ Published
  /\ permit' = IF permit = "command" /\ ~PendingOf(pstate') THEN Free ELSE permit
  /\ UNCHANGED <<resources, managed, reserved, capt, host, profiles, proxyLock, shuttingDown, overtaken, at, commands, spent>>

-----------------------------------------------------------------------------
(* The coordinator.                                                         *)

Goto(c, pc) == at' = [at EXCEPT ![c].pc = pc]
At(c, pc) == at[c].pc = pc
MayCall(op) == op \in Operations
Unmoved == UNCHANGED <<runnerVars, resources, managed, reserved, capt, host, profiles, waits, spent>>

\* acquire_mutation reads the flag, then tries the lock: the user's call is
\* between the two, and a shutdown may set the flag there.
FlagRead(pc) == ~shuttingDown /\ at["user"].pc = "idle" /\ at' = [at EXCEPT !["user"].pc = pc]
TryPermit(pc, then) ==
  /\ at["user"].pc = pc
  /\ at' = [at EXCEPT !["user"].pc = IF permit = Free THEN then ELSE "idle"]
  /\ permit' = IF permit = Free THEN "user" ELSE permit
  /\ overtaken' = (overtaken \/ (permit = Free /\ shuttingDown))
  /\ Unmoved /\ UNCHANGED <<proxyLock, shuttingDown, commands>>
\* acquire_mutation_queued looks at the flag again once it has the permit.
QueuedPermit(c) == permit = Free /\ permit' = c

\* What an operation finds and has to restore.
Found(final, held) ==
  [host |-> host, runtime |-> RuntimeOf(pstate), captured |-> capt = "on", final |-> final, held |-> held]

\* A shutdown that has yet to begin its stop finds a command id left.
Limit(c) ==
  IF c = "quit" \/ (proxyLock = "quit" /\ ~At("quit", "permit")) THEN MaxCommands ELSE MaxCommands - 1

\* Begin, with the permit handed over to the command's resources or not.
BeginCommand(c, op, target, final, handover, then, otherwise) ==
  LET id == commands + 1
      input == [kind |-> "Begin", command |-> [id |-> id, op |-> op, target |-> target],
                found |-> Found(final, handover)]
  IN /\ commands < Limit(c) /\ commands' = id
     /\ Admit(input)
     /\ IF Accepted(input)
        THEN /\ at' = [at EXCEPT ![c].pc = then, ![c].id = id]
             /\ permit' = IF handover THEN "command" ELSE permit
        ELSE /\ Goto(c, otherwise)
             /\ permit' = IF handover THEN Free ELSE permit

\* activate: by a client, on a profile of its choice.
Activate ==
  /\ MayCall("activate") /\ At("user", "idle") /\ ~shuttingDown
  /\ PhaseOf(pstate) # "Pending" /\ commands < Limit("user")
  /\ \E p \in Profiles : at' = [at EXCEPT !["user"].target = p, !["user"].pc = "activate"]
  /\ Unmoved /\ UNCHANGED <<permit, proxyLock, shuttingDown, overtaken, commands>>

\* activate_inner: a profile that is gone is rejected, a running one begins.
ActivateInner ==
  /\ At("user", "begin")
  /\ LET p == at["user"].target
     IN \/ /\ p \in profiles
           /\ BeginCommand("user", "Activate", p, "none", TRUE, "idle", "idle")
        \/ /\ p \notin profiles /\ commands < Limit("user") /\ commands' = commands + 1
           /\ Admit([kind |-> "Reject", command |-> [id |-> commands + 1, op |-> "Activate", target |-> p]])
           /\ Goto("user", "idle") /\ permit' = Free
        \/ commands >= Limit("user") /\ Goto("user", "idle") /\ permit' = Free /\ UNCHANGED <<runnerVars, waits, commands>>
  /\ UNCHANGED <<resources, managed, reserved, capt, host, profiles, proxyLock, shuttingDown, overtaken, spent>>

Cancel ==
  /\ MayCall("cancel") /\ PhaseOf(pstate) = "Pending"
  /\ Accepted([kind |-> "Cancel", command |-> pstate.command])
  /\ Admit([kind |-> "Cancel", command |-> pstate.command])
  /\ UNCHANGED <<resources, managed, reserved, capt, host, profiles, permit, proxyLock, shuttingDown, overtaken, at, commands, spent>>

\* stop_with_permit: nothing to do when no profile is active.
StopBegins(c, then, done, refused) ==
  \/ RuntimeOf(pstate) = Safe /\ Goto(c, done) /\ permit' = Free /\ UNCHANGED <<runnerVars, waits, commands>>
  \/ RuntimeOf(pstate) # Safe /\ BeginCommand(c, "Stop", RuntimeOf(pstate).profile, "none", TRUE, then, refused)

Stop ==
  /\ MayCall("stop") /\ PhaseOf(pstate) # "Pending" /\ commands < Limit("user") /\ FlagRead("stop")
  /\ Unmoved /\ UNCHANGED <<permit, proxyLock, shuttingDown, overtaken, commands>>

StopInner ==
  /\ At("user", "stopping")
  /\ \/ StopBegins("user", "idle", "idle", "idle")
     \/ commands >= Limit("user") /\ Goto("user", "idle") /\ permit' = Free /\ UNCHANGED <<runnerVars, waits, commands>>
  /\ UNCHANGED <<resources, managed, reserved, capt, host, profiles, proxyLock, shuttingDown, overtaken, spent>>

\* delete_profile: neither the active one, nor while a command is pending.
MayDelete(p) == PhaseOf(pstate) # "Pending" /\ RuntimeOf(pstate).profile # p

DeleteProfile ==
  /\ MayCall("delete") /\ FlagRead("delete")
  /\ Unmoved /\ UNCHANGED <<permit, proxyLock, shuttingDown, overtaken, commands>>

DeleteInner ==
  /\ At("user", "deleting") /\ Goto("user", "idle") /\ permit' = Free
  /\ \E p \in Profiles : profiles' = IF MayDelete(p) THEN profiles \ {p} ELSE profiles
  /\ UNCHANGED <<runnerVars, resources, managed, reserved, capt, host, proxyLock, shuttingDown, overtaken, waits, commands, spent>>

\* set_capture with the backend that runs already.
SetCapture ==
  /\ MayCall("capture") /\ At("proxy", "idle") /\ proxyLock = Free /\ ~shuttingDown /\ ~reserved /\ managed # Safe
  /\ \/ capt' = (IF capt = "off" THEN "on" ELSE "off") /\ Sound
     \/ capt' = "drift" /\ Faulty
  /\ UNCHANGED <<runnerVars, resources, managed, reserved, host, profiles, permit, proxyLock, shuttingDown, overtaken, at, waits, commands>>

\* launch_proxy and set_capture of another backend: the lock, then the permit.
LockProxy(op, pc) ==
  /\ MayCall(op) /\ At("proxy", "idle") /\ proxyLock = Free /\ ~shuttingDown
  /\ proxyLock' = "proxy" /\ Goto("proxy", pc)
  /\ Unmoved /\ UNCHANGED <<permit, shuttingDown, overtaken, commands>>

ProxyPermit(pc, then) ==
  /\ At("proxy", pc)
  /\ \/ ~shuttingDown /\ QueuedPermit("proxy") /\ Goto("proxy", then) /\ UNCHANGED proxyLock
     \/ shuttingDown /\ permit = Free /\ UNCHANGED permit /\ proxyLock' = Free /\ Goto("proxy", "idle")
  /\ Unmoved /\ UNCHANGED <<shuttingDown, overtaken, commands>>

Launch == LockProxy("launch", "launch") \/ ProxyPermit("launch", "activate")
Switch == LockProxy("switch", "switch") \/ ProxyPermit("switch", "reactivate")

\* The launch activates the selected profile under its own permit, unless it
\* runs already; Capture follows.
LaunchActivates ==
  /\ At("proxy", "activate")
  /\ \/ PhaseOf(pstate) = "Success" /\ RuntimeOf(pstate) # Safe /\ Goto("proxy", "release")
        /\ UNCHANGED <<runnerVars, waits, commands, permit>>
     \/ /\ ~(PhaseOf(pstate) = "Success" /\ RuntimeOf(pstate) # Safe)
        /\ \E p \in profiles : BeginCommand("proxy", "Activate", p, "none", FALSE, "subscribe", "release")
     \/ (commands >= Limit("user") \/ profiles = {}) /\ Goto("proxy", "release") /\ UNCHANGED <<runnerVars, waits, commands, permit>>
  /\ UNCHANGED <<resources, managed, reserved, capt, host, profiles, proxyLock, shuttingDown, overtaken, spent>>

\* reactivate_active_with_admitted_tun_selection: the requested Capture is
\* part of the activation, and the command takes the permit.
Reactivate ==
  /\ At("proxy", "reactivate")
  /\ LET p == RuntimeOf(pstate).profile
     IN \/ /\ PhaseOf(pstate) # "Pending" /\ p \in profiles
           /\ BeginCommand("proxy", "Activate", p, "on", TRUE, "subscribe", "unlock")
        \/ /\ (p \notin profiles \/ PhaseOf(pstate) = "Pending" \/ commands >= Limit("user"))
           /\ Goto("proxy", "unlock") /\ permit' = Free /\ UNCHANGED <<runnerVars, waits, commands>>
  /\ UNCHANGED <<resources, managed, reserved, capt, host, profiles, proxyLock, shuttingDown, overtaken, spent>>

MutantSubscribe(c) ==
  /\ At(c, "subscribe")
  /\ waits' = [waits EXCEPT ![c] = [on |-> TRUE, id |-> at[c].id, told |-> Snapshot(InitialActivation)]]
  /\ Goto(c, "wait")
  /\ UNCHANGED <<runnerVars, resources, managed, reserved, capt, host, profiles, permit, proxyLock, shuttingDown, overtaken, commands, spent>>

\* wait_for_terminal_activation subscribes before it reads the state.
Subscribe(c) ==
  /\ At(c, "subscribe")
  /\ waits' = [waits EXCEPT ![c] =
       [on |-> TRUE, id |-> at[c].id,
        told |-> Snapshot(IF pstate.command.id = at[c].id /\ PhaseOf(pstate) # "Pending"
                          THEN pstate ELSE InitialActivation)]]
  /\ Goto(c, "wait")
  /\ UNCHANGED <<runnerVars, resources, managed, reserved, capt, host, profiles, permit, proxyLock, shuttingDown, overtaken, commands, spent>>

Told(c) == waits[c].told.id = waits[c].id

\* The launch's activation is over.  One that a shutdown overtook, or whose
\* Capture fails, is compensated if it is still what runs.
LaunchEnds ==
  /\ At("proxy", "wait") /\ Told("proxy")
  /\ waits' = [waits EXCEPT !["proxy"].on = FALSE]
  /\ LET done == waits["proxy"].told
     IN \/ permit # "proxy" /\ Goto("proxy", "unlock") /\ UNCHANGED capt /\ Sound
        \/ /\ permit = "proxy"
           /\ \/ done.phase = "Success" /\ ~shuttingDown /\ capt' = "on" /\ Goto("proxy", "release") /\ Sound
              \/ done.phase = "Success" /\ shuttingDown /\ UNCHANGED capt /\ Goto("proxy", "compensate") /\ Sound
              \/ done.phase = "Success" /\ capt' \in {capt, "drift"} /\ Goto("proxy", "compensate") /\ Faulty
              \/ done.phase # "Success" /\ UNCHANGED capt /\ Goto("proxy", "release") /\ Sound
  /\ UNCHANGED <<runnerVars, resources, managed, reserved, host, profiles, permit, proxyLock, shuttingDown, overtaken, commands>>

\* rollback_failed_aggregate_activation.
Compensate ==
  /\ At("proxy", "compensate")
  /\ LET input == [kind |-> "Compensate", command |-> [id |-> at["proxy"].id, op |-> "Activate", target |-> "none"],
                   found |-> NoFinding]
     IN Admit(input) /\ IF Accepted(input) THEN Goto("proxy", "subscribe") ELSE Goto("proxy", "release")
  /\ UNCHANGED <<resources, managed, reserved, capt, host, profiles, permit, proxyLock, shuttingDown, overtaken, commands, spent>>

ReleaseProxy ==
  /\ At("proxy", "release") \/ At("proxy", "unlock")
  /\ permit' = IF permit = "proxy" THEN Free ELSE permit
  /\ proxyLock' = Free /\ Goto("proxy", "idle")
  /\ Unmoved /\ UNCHANGED <<shuttingDown, overtaken, commands>>

-----------------------------------------------------------------------------
(* shutdown_inner.                                                          *)

\* The flag: refused while another shutdown runs, or for ever once one succeeded.
Shutdown ==
  /\ MayCall("shutdown") /\ At("quit", "idle") /\ ~shuttingDown /\ commands < MaxCommands
  /\ shuttingDown' = TRUE
  /\ Unmoved /\ Goto("quit", "pending") /\ UNCHANGED <<permit, proxyLock, overtaken, commands>>

\* A command that is pending is cancelled, and waited for.
ShutdownCancels ==
  /\ At("quit", "pending")
  /\ IF PhaseOf(pstate) = "Pending"
     THEN Admit([kind |-> "Cancel", command |-> pstate.command])
          /\ at' = [at EXCEPT !["quit"].pc = "subscribe", !["quit"].id = pstate.command.id]
     ELSE Goto("quit", "lock") /\ UNCHANGED <<runnerVars, waits>>
  /\ UNCHANGED <<resources, managed, reserved, capt, host, profiles, permit, proxyLock, shuttingDown, overtaken, commands, spent>>

ShutdownWaited ==
  /\ At("quit", "wait") /\ Told("quit")
  /\ waits' = [waits EXCEPT !["quit"].on = FALSE]
  /\ Goto("quit", CASE proxyLock # "quit" -> "lock"
                    [] waits["quit"].told.runtime = Safe -> "stopped"
                    [] OTHER -> "unstopped")
  /\ UNCHANGED <<runnerVars, resources, managed, reserved, capt, host, profiles, permit, proxyLock, shuttingDown, overtaken, commands, spent>>

ShutdownLocks ==
  /\ At("quit", "lock") /\ proxyLock = Free
  /\ proxyLock' = "quit" /\ Goto("quit", "permit")
  /\ Unmoved /\ UNCHANGED <<permit, shuttingDown, overtaken, commands>>

ShutdownStops ==
  /\ At("quit", "permit") /\ permit = Free
  /\ StopBegins("quit", "subscribe", "stopped", "unstopped")
  /\ UNCHANGED <<resources, managed, reserved, capt, host, profiles, proxyLock, shuttingDown, overtaken, spent>>

\* The stop's own snapshot decides, and the state is only asked for a recovery.
\* Not safe: the flag is taken back and the shutdown may be tried again.
ShutdownEnds ==
  /\ At("quit", "stopped") \/ At("quit", "unstopped")
  /\ proxyLock' = Free
  /\ IF At("quit", "unstopped") \/ pstate.kind = "RecoveryRequired"
     THEN shuttingDown' = FALSE /\ Goto("quit", "idle") /\ UNCHANGED <<runnerVars, waits>>
     ELSE LET input == [kind |-> "Retire", terminal |-> TRUE]
          IN Admit(input) /\ Goto("quit", IF Accepted(input) THEN "done" ELSE "refused") /\ UNCHANGED shuttingDown
  /\ UNCHANGED <<resources, managed, reserved, capt, host, profiles, permit, overtaken, commands, spent>>

-----------------------------------------------------------------------------
ProfileActivationInit ==
  /\ Run!Init
  /\ resources = [id \in 1..MaxCommands |-> NoFinding]
  /\ managed = Safe /\ reserved = FALSE /\ capt = "off" /\ host = Safe
  /\ profiles = Profiles
  /\ permit = Free /\ proxyLock = Free /\ shuttingDown = FALSE /\ overtaken = FALSE
  /\ at = [c \in Callers |-> [pc |-> "idle", id |-> 0, target |-> "none"]]
  /\ waits = [c \in Callers |-> [on |-> FALSE, id |-> 0, told |-> Snapshot(InitialActivation)]]
  /\ commands = 0
  /\ spent = [faults |-> 0, panics |-> 0]

Effects == \E t \in DOMAIN ptasks :
  \/ ExecuteActivate(t) \/ ExecuteStop(t) \/ ExecutePanics(t) \/ ExecuteFinalize(t) \/ FinalizePanics(t)
  \/ ExecuteCompensate(t) \/ CompensatePanics(t) \/ TakeResult(t)

ProxyStep ==
  \/ ProxyPermit("launch", "activate") \/ ProxyPermit("switch", "reactivate")
  \/ LaunchActivates \/ Reactivate \/ Subscribe("proxy") \/ LaunchEnds \/ Compensate \/ ReleaseProxy
ShutdownStep ==
  ShutdownCancels \/ Subscribe("quit") \/ ShutdownWaited \/ ShutdownLocks \/ ShutdownStops \/ ShutdownEnds
UserStep ==
  \/ TryPermit("activate", "begin") \/ TryPermit("stop", "stopping") \/ TryPermit("delete", "deleting")
  \/ ActivateInner \/ StopInner \/ DeleteInner

ProfileActivationNext ==
  \/ Effects \/ ProxyStep \/ ShutdownStep \/ UserStep
  \/ Activate \/ Cancel \/ Stop \/ DeleteProfile \/ SetCapture \/ Launch \/ Switch \/ Shutdown

ProfileActivationSpec ==
  /\ ProfileActivationInit /\ [][ProfileActivationNext]_pvars
  /\ WF_pvars(Effects) /\ WF_pvars(ProxyStep) /\ WF_pvars(UserStep)
  /\ SF_pvars(ShutdownLocks) /\ SF_pvars(ShutdownStops) /\ WF_pvars(ShutdownStep)

-----------------------------------------------------------------------------
\* Between commands the transition's hold on Capture is gone, so that the next
\* command can start; and once a command has an outcome of its own, what the
\* coordinator publishes is what the manager runs, and the host gives that
\* runtime to every reader (finalize_profile_activation, both hand-offs).
TerminalIsTrue ==
  PhaseOf(pstate) # "Pending" =>
    /\ ~reserved
    /\ pstate.kind \in {"Succeeded", "Cancelled", "RollbackSucceeded"} => RuntimeOf(pstate) = managed /\ host = managed

\* The profile that runs is never deleted (delete_profile).
ActiveProfileKept == managed # Safe => managed.profile \in profiles

\* A shutdown that succeeded has left no Core and no Capture, unless a call
\* overtook it: a call that had read the flag before takes the permit between
\* the shutdown's stop and its retirement, and starts a Core (acquire_mutation).
ShutdownIsSafe == At("quit", "done") /\ ~overtaken => managed = Safe /\ capt # "on"

\* A shutdown comes to an end, whatever runs when it begins.  One exception: a
\* call that read the flag before the shutdown set it may take the permit
\* afterwards (acquire_mutation) and begin a command of its own between the end
\* of the command that the shutdown waits for and its subscription; that end is
\* then never announced again (wait_for_terminal_activation).
MissedTerminal == overtaken /\ At("quit", "wait") /\ ~Told("quit") /\ pstate.command.id > waits["quit"].id
QuitReturns ==
  shuttingDown ~> (~shuttingDown \/ At("quit", "done") \/ At("quit", "refused") \/ MissedTerminal)
=============================================================================
