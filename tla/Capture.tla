------------------------------ MODULE Capture ------------------------------
(***************************************************************************)
(* The outer Capture machine (crates/runtime/src/capture/machine.rs) on    *)
(* the runner of crates/state-machine, its effect adapter and the callers  *)
(* of CaptureReconciler (crates/runtime/src/capture.rs): the aggregate     *)
(* launch of desktop-bridge, plain requests, audits, recovery, shutdown.   *)
(*                                                                         *)
(* The reconcilers behind the adapter appear as what they leave behind:    *)
(* `proxy`, the status they publish, and `host`, what the platform holds.  *)
(* SystemProxy.tla models them step by step.  The selection is the System  *)
(* Proxy alone, so a request is one Boolean.                               *)
(***************************************************************************)
EXTENDS Naturals, Sequences, FiniteSets

CONSTANTS
  Actors,         \* which callers take part
  Faults,         \* which of panic and deadline may happen
  MaxOperations,  \* bound: operation ids
  TaskId          \* bound: concurrently owned tasks

ASSUME TaskIdAssumption ==
  \E a, b, c, d \in TaskId : Cardinality({a, b, c, d}) = 4

VARIABLES
  state, tasks, mode,  \* the runner
  host,     \* none, partial or full takeover, or edited by somebody else
  proxy,    \* the status the platform reconcilers publish
  at,       \* how far each task is; inside, it holds the operation mutex
  launch,   \* ProfileActivationCoordinator::launch_proxy
  call,     \* a caller of reconcile
  shut,     \* the caller of reconcile_for_shutdown
  failed,   \* ghost: the operations that ended, and not in Applied
  panics

platformVars == <<host, proxy, at>>
callerVars == <<launch, call, shut>>
vars == <<state, tasks, mode, platformVars, callerVars, failed, panics>>

-----------------------------------------------------------------------------
(* The published projection, operations, states.                            *)

Off == [desired |-> FALSE, phase |-> "Off"]
Projection(op, phase, status) == [op |-> op, phase |-> phase, proxy |-> status]

NoOperation == [id |-> 0, prefix |-> "none", mode |-> "Ordinary",
                pending |-> Projection(0, "Idle", Off),
                previous |-> Projection(0, "Idle", Off), request |-> FALSE]

Stable(next, projection, error) ==
  [kind |-> "Stable", stage |-> "none", deferred |-> "none", op |-> NoOperation,
   next |-> next, projection |-> projection, error |-> error]
RecoveryRequired(next, projection, error) ==
  [Stable(next, projection, error) EXCEPT !.kind = "RecoveryRequired"]
Transitioning(next, op, stage) ==
  [kind |-> "Transitioning", stage |-> stage, deferred |-> "none", op |-> op,
   next |-> next, projection |-> op.previous, error |-> "none"]
Reconciling(next, op) ==
  [Transitioning(next, op, "none") EXCEPT !.kind = "Reconciling"]

IsActive(s) == s.kind \in {"Transitioning", "Reconciling"}
Projected(s) == IF IsActive(s) THEN s.op.pending ELSE s.projection
LastError(s) == IF IsActive(s) \/ s.kind = "ShuttingDown" THEN "none" ELSE s.error
IsBusy(projection) == projection.phase \in {"Pending", "Finalizing"}

\* CaptureState::base: the states a new operation may start from.
HasBase(s) ==
  \/ s.kind = "Stable" /\ ~IsBusy(s.projection)
  \/ s.kind = "RecoveryRequired"

\* CaptureMachine::operation.
Operation(s, request, op_mode, prefix) ==
  [id |-> s.next, prefix |-> prefix, mode |-> op_mode, request |-> request,
   previous |-> s.projection,
   pending |-> Projection(s.next, "Pending",
                          [desired |-> request, phase |-> "Pending"])]

\* The admitted revision moves in step with the number and is left out.
Correlation(op, effect) ==
  [op |-> op.id, prefix |-> op.prefix, effect |-> effect]
SameOperation(a, b) == a.op = b.op /\ a.prefix = b.prefix
Mine(s, correlation) ==
  IsActive(s) /\ SameOperation(Correlation(s.op, "none"), correlation)
Matching(s, correlation, effect) ==
  Mine(s, correlation) /\ correlation.effect = effect

-----------------------------------------------------------------------------
(* Inputs, effects, transitions.                                            *)

NoOutcome == [error |-> "none", proxy |-> Off, mutated |-> FALSE]

Input(kind) ==
  [kind |-> kind, correlation |-> Correlation(NoOperation, "none"),
   active |-> FALSE, healthy |-> FALSE, action |-> "none", error |-> "none",
   token |-> NoOperation, outcome |-> NoOutcome]

Effect(op, name) ==
  [mode |-> "Spawn", correlation |-> Correlation(op, name), active |-> op.request,
   healthy |-> FALSE, action |-> "none", seen |-> op.previous.proxy,
   outcome |-> NoOutcome]
CancelEffect(op, name) == [Effect(op, name) EXCEPT !.mode = "Cancel"]

Goes(disposition, next) ==
  [disposition |-> disposition, state |-> next, effects |-> << >>]
Emits(next, effects) ==
  [disposition |-> "EffectEmitting", state |-> next, effects |-> effects]
Stays(s, disposition) == Goes(disposition, s)

-----------------------------------------------------------------------------
(* How an operation ends.  A prepared operation stays busy in Finalizing    *)
(* until its launch reports the final failure.                              *)

\* Mutant: a prepared operation fails like any other.
MutantFailurePhase(op) == "Failed"

FailurePhase(op) == IF op.mode = "Prepared" THEN "Finalizing" ELSE "Failed"

Fails(s, op, status, error) ==
  Goes("Failed", Stable(s.next, Projection(op.id, FailurePhase(op), status), error))

Recovers(s, op, status, error) ==
  IF op.mode = "Prepared"
    THEN Goes("RecoveryRequired",
              Stable(s.next, Projection(op.id, "Finalizing", status), error))
    ELSE Goes("RecoveryRequired",
              RecoveryRequired(s.next, Projection(op.id, "RecoveryRequired", status),
                               error))

FailsOrRecovers(s, op, status, error) ==
  IF error = "rollback" THEN Recovers(s, op, status, error)
                        ELSE Fails(s, op, status, error)

\* CaptureMachine::finalizer: an effect ended without an answer.
Finalizes(s) ==
  Emits(Transitioning(s.next, [s.op EXCEPT !.pending.phase = "Finalizing"],
                      "Finalizing"),
        <<Effect(s.op, "Finalize")>>)

-----------------------------------------------------------------------------
(* The reducer, one operator per input.                                     *)

ReducePreflight(s, i) ==
  IF s.kind \in {"Stable", "RecoveryRequired"}
    THEN LET begun == Operation(s, i.active, "Ordinary", "preflight")
             op    == [begun EXCEPT !.pending = begun.previous]
         IN IF HasBase(s)
              THEN Emits(Reconciling(s.next + 1, op), <<Effect(op, "Preflight")>>)
              ELSE Stays(s, "Panicked")
  ELSE IF s.kind = "Transitioning" /\ s.stage = "Reserved" /\ s.op.request = i.active
    THEN Emits([s EXCEPT !.stage = "Preflighting"], <<Effect(s.op, "Preflight")>>)
  ELSE Stays(s, "Rejected")

\* The read-only operation gives its number back.
GivesBack(s) == Goes("Accepted", Stable(s.next - 1, s.op.previous, "none"))

ReducePreflightFinished(s, i) ==
  IF s.kind = "Reconciling" /\ Matching(s, i.correlation, "Preflight")
    THEN GivesBack(s)
  ELSE IF s.stage = "Preflighting" /\ Matching(s, i.correlation, "Preflight")
    THEN IF s.deferred # "none"
           THEN FailsOrRecovers(s, s.op, s.op.previous.proxy, s.deferred)
           ELSE Goes("Accepted", [s EXCEPT !.stage = "Reserved"])
  ELSE Stays(s, "Retired")

ReduceReserve(s, i) ==
  IF ~HasBase(s) THEN Stays(s, "Rejected")
  ELSE Goes("Accepted",
            Transitioning(s.next + 1, Operation(s, i.active, "Prepared", "none"),
                          "Reserved"))

Mutates(next, op, i) ==
  Emits(Transitioning(next, op, "Mutating"),
        <<[Effect(op, "Mutate") EXCEPT !.healthy = i.healthy]>>)

\* Mutant: a request starts over a running operation.
MutantStart(s, i) ==
  Mutates(s.next + 1, Operation(s, i.active, "Ordinary", "none"), i)

ReduceStart(s, i) ==
  IF ~HasBase(s) THEN Stays(s, "Rejected")
  ELSE Mutates(s.next + 1, Operation(s, i.active, "Ordinary", "none"), i)

ReduceExecuteReserved(s, i) ==
  IF /\ s.kind = "Transitioning" /\ s.stage = "Reserved"
     /\ Mine(s, i.correlation)
     /\ s.op.request = i.active /\ i.token.request = i.active
    THEN Mutates(s.next, s.op, i)
    ELSE Stays(s, "Retired")

\* The launch's verdict: the state before it, unless that is not restored.
FailedLaunch(s, token, status, error) ==
  IF error = "rollback"
    THEN Goes("RecoveryRequired",
              RecoveryRequired(s.next,
                               Projection(token.id, "RecoveryRequired", status), error))
    ELSE Goes("Failed",
              Stable(s.next, Projection(token.id, "Failed", token.previous.proxy),
                     error))

\* Mutant: only an operation still under way can be failed.
MutantFailReserved(s, i) ==
  IF s.kind # "Transitioning" \/ ~Mine(s, i.correlation)
    THEN Stays(s, "Retired")
    ELSE FailsOrRecovers(s, [s.op EXCEPT !.mode = "Ordinary"],
                         s.op.previous.proxy, i.error)

ReduceFailReserved(s, i) ==
  LET shown == Projected(s)
      its   == shown.op = i.token.id
  IN IF its /\ shown.phase = "Finalizing"
       THEN IF s.kind = "Stable" \/ IsActive(s)
              THEN FailedLaunch(s, i.token, shown.proxy, i.error)
              ELSE Stays(s, "Retired")
     ELSE IF its /\ shown.phase # "Pending"
             /\ s.kind \in {"Stable", "RecoveryRequired"}
       THEN FailedLaunch(s, i.token, shown.proxy, i.error)
     ELSE IF s.kind # "Transitioning" \/ ~Mine(s, i.correlation)
       THEN Stays(s, "Retired")
     ELSE IF s.stage = "Preflighting"
       THEN IF s.deferred # "none" THEN Stays(s, "Unchanged")
            ELSE Emits([s EXCEPT !.deferred = i.error],
                       <<CancelEffect(s.op, "Preflight")>>)
     ELSE IF s.stage # "Reserved" THEN Stays(s, "Retired")
     ELSE FailsOrRecovers(s, [s.op EXCEPT !.mode = "Ordinary"],
                          s.op.previous.proxy, i.error)

ReduceMarkFinalizing(s, i) ==
  IF Mine(s, i.correlation)
    THEN Goes("Accepted", [s EXCEPT !.op.pending.phase = "Finalizing"])
  ELSE IF /\ s.kind = "Stable"
          /\ s.projection.op = i.token.id /\ s.projection.phase = "Finalizing"
    THEN Goes("Accepted", [s EXCEPT !.error = i.error])
  ELSE Stays(s, "Retired")

\* A mutation is never its own proof: it is observed next.
Mutated(s, op, i) ==
  Emits(Reconciling(s.next, op),
        <<[Effect(op, "Observe") EXCEPT !.healthy = TRUE]>>)

ReduceMutationFinished(s, i, effect) ==
  IF s.kind # "Transitioning" \/ ~Matching(s, i.correlation, effect)
    THEN Stays(s, "Retired")
  ELSE IF i.outcome.error = "none"
    THEN Mutated(s, IF effect = "Recover"
                      THEN [s.op EXCEPT !.request = i.outcome.proxy.desired] ELSE s.op, i)
  ELSE FailsOrRecovers(s, s.op, i.outcome.proxy, i.outcome.error)

ReduceObservationFinished(s, i) ==
  IF s.kind # "Reconciling" \/ ~Matching(s, i.correlation, "Observe")
    THEN Stays(s, "Retired")
  ELSE IF i.outcome.error = "none"
    THEN Goes("Committed",
              Stable(s.next, Projection(s.op.id, "Applied", i.outcome.proxy), "none"))
  ELSE Recovers(s, s.op, i.outcome.proxy, i.outcome.error)

ReduceAudit(s, i) ==
  LET begun == Operation(s, s.projection.proxy.desired, "Ordinary", "audit")
      op    == [begun EXCEPT !.pending = begun.previous]
  IN IF ~HasBase(s) THEN Stays(s, "Unchanged")
     ELSE Emits(Reconciling(s.next + 1, op),
                <<[Effect(op, "Audit") EXCEPT !.healthy = i.healthy]>>)

ReduceAuditFinished(s, i) ==
  LET op == [s.op EXCEPT !.pending =
               Projection(s.op.id, "Pending",
                          [desired |-> s.op.request, phase |-> "Pending"])]
  IN IF s.kind # "Reconciling" \/ ~Matching(s, i.correlation, "Audit")
       THEN Stays(s, "Retired")
     ELSE IF ~i.outcome.mutated /\ i.outcome.error = "none" THEN GivesBack(s)
     ELSE Emits(Transitioning(s.next, op, "Mutating"),
                <<[Effect(op, "CommitAudit") EXCEPT !.outcome = i.outcome]>>)

ReduceAuditCommitted(s, i) ==
  LET status == i.outcome.proxy
  IN IF s.kind # "Transitioning" \/ ~Matching(s, i.correlation, "CommitAudit")
       THEN Stays(s, "Retired")
     ELSE IF i.outcome.error # "none" THEN Recovers(s, s.op, status, i.outcome.error)
     ELSE IF status.phase = "Drift"
       THEN Goes("RecoveryRequired",
                 RecoveryRequired(s.next, Projection(s.op.id, "RecoveryRequired", status),
                                  "none"))
     ELSE Goes("Committed",
               Stable(s.next, Projection(s.op.id, "Applied", status), "none"))

ReduceRecover(s, i) ==
  LET op == Operation(s, s.projection.proxy.desired, "Ordinary", "none")
  IN IF ~HasBase(s) THEN Stays(s, "Rejected")
     ELSE Emits(Transitioning(s.next + 1, op, "Mutating"),
                <<[Effect(op, "Recover") EXCEPT !.healthy = i.healthy,
                                                !.action = i.action]>>)

\* TaskFailed and TaskCancelled of an operation's effect.
EndsWithoutAnswer(s, i) ==
  IF ~Mine(s, i.correlation) THEN Stays(s, "Retired")
  ELSE IF /\ s.stage = "Preflighting" /\ i.correlation.effect = "Preflight"
          /\ s.deferred # "none"
    THEN FailsOrRecovers(s, s.op, s.op.previous.proxy, s.deferred)
  ELSE Finalizes(s)

ReduceTaskFailed(s, i) ==
  IF i.correlation.prefix # "shutdown" THEN EndsWithoutAnswer(s, i)
  ELSE IF s.kind # "ShuttingDown" THEN Stays(s, "Retired")
  ELSE Goes("Failed", [s EXCEPT !.kind = "Retired", !.error = "error"])

ReduceFinalized(s, i) ==
  IF s.stage # "Finalizing" \/ ~Matching(s, i.correlation, "Finalize")
    THEN Stays(s, "Retired")
    ELSE Recovers(s, s.op, i.outcome.proxy,
                  IF i.outcome.error = "none" THEN "error" ELSE i.outcome.error)

\* The effect Shutdown cancels, by the stage it finds.
CancelledBy(s) ==
  CASE s.kind = "Reconciling"    -> "Observe"
    [] s.stage = "Reserved"      -> "none"
    [] s.stage = "Preflighting"  -> "Preflight"
    [] s.stage = "Mutating"      -> "Mutate"
    [] OTHER                     -> "Finalize"

ShutdownOperation(s) ==
  [NoOperation EXCEPT !.prefix = "shutdown", !.previous = s.projection]

ReduceShutdown(s) ==
  LET spawn == Effect(ShutdownOperation(s), "Shutdown")
  IN Emits([Stable(0, s.projection, "none") EXCEPT !.kind = "ShuttingDown"],
           IF IsActive(s) THEN <<CancelEffect(s.op, CancelledBy(s)), spawn>>
                          ELSE <<spawn>>)

\* Mutant: the restoration's error is not kept.
MutantShutdownFinished(s, i) ==
  IF s.kind # "ShuttingDown" THEN Stays(s, "Retired")
  ELSE Goes("Cancelled", [s EXCEPT !.kind = "Retired",
                                   !.projection.proxy = i.outcome.proxy])

ReduceShutdownFinished(s, i) ==
  IF s.kind # "ShuttingDown" THEN Stays(s, "Retired")
  ELSE IF i.outcome.error = "none"
    THEN Goes("Cancelled", [s EXCEPT !.kind = "Retired",
                                     !.projection.proxy = i.outcome.proxy])
  ELSE Goes("Failed", [s EXCEPT !.kind = "Retired", !.error = i.outcome.error])

Reduce(s, i) ==
  CASE i.kind = "Preflight"           -> ReducePreflight(s, i)
    [] i.kind = "PreflightFinished"   -> ReducePreflightFinished(s, i)
    [] i.kind = "Reserve"             -> ReduceReserve(s, i)
    [] i.kind = "Start"               -> ReduceStart(s, i)
    [] i.kind = "ExecuteReserved"     -> ReduceExecuteReserved(s, i)
    [] i.kind = "FailReserved"        -> ReduceFailReserved(s, i)
    [] i.kind = "MarkFinalizing"      -> ReduceMarkFinalizing(s, i)
    [] i.kind = "MutationFinished"    -> ReduceMutationFinished(s, i, "Mutate")
    [] i.kind = "RecoveryFinished"    -> ReduceMutationFinished(s, i, "Recover")
    [] i.kind = "ObservationFinished" -> ReduceObservationFinished(s, i)
    [] i.kind = "Audit"               -> ReduceAudit(s, i)
    [] i.kind = "AuditFinished"       -> ReduceAuditFinished(s, i)
    [] i.kind = "AuditCommitted"      -> ReduceAuditCommitted(s, i)
    [] i.kind = "Recover"             -> ReduceRecover(s, i)
    [] i.kind = "TaskFailed"          -> ReduceTaskFailed(s, i)
    [] i.kind = "TaskCancelled"       -> EndsWithoutAnswer(s, i)
    [] i.kind = "Finalized"           -> ReduceFinalized(s, i)
    [] i.kind = "Shutdown"            -> ReduceShutdown(s)
    [] i.kind = "ShutdownFinished"    -> ReduceShutdownFinished(s, i)

-----------------------------------------------------------------------------
(* The runner that drives the reducer.                                      *)

InputCorrelation(s, i) == i.correlation

EffectIsCurrent(s, correlation) ==
  CASE s.kind = "Transitioning" ->
         /\ Mine(s, correlation)
         /\ correlation.effect \in
              (CASE s.stage = "Reserved"     -> {}
                 [] s.stage = "Preflighting" -> {"Preflight"}
                 [] s.stage = "Mutating"     -> {"Mutate", "Recover", "CommitAudit"}
                 [] s.stage = "Finalizing"   -> {"Finalize"})
    [] s.kind = "Reconciling" ->
         /\ Mine(s, correlation)
         /\ correlation.effect \in {"Preflight", "Observe", "Audit"}
    [] s.kind = "ShuttingDown" -> correlation.prefix = "shutdown"
    [] OTHER -> FALSE

TaskFailed(correlation, why) ==
  [Input("TaskFailed") EXCEPT !.correlation = correlation]

NoCompletion(effect, cancelled) == {}

Run == INSTANCE Runner WITH
  InitialState <- Stable(1, Projection(0, "Idle", Off), "none"),
  Admissible <- {}, ShutdownInput <- Input("Shutdown"),
  Completes <- NoCompletion, NoInput <- Input("none")

runner == <<state, tasks, mode>>

\* RunnerHandle::admit: what the caller gets back, and what the machine does.
Refused(i) == mode # "open" \/ Reduce(state, i).disposition = "Rejected"
Offer(i) == IF mode = "open" THEN Run!Admit(i) ELSE UNCHANGED runner

\* Ghost: an operation leaves the machine, and not as Applied.
Tracks ==
  LET op    == state.op
      ended == /\ IsActive(state) /\ op.prefix = "none"
               /\ ~Mine(state', Correlation(op, "none"))
      good  == /\ state'.kind = "Stable" /\ state'.projection.op = op.id
               /\ state'.projection.phase = "Applied"
  IN failed' = IF ended /\ ~good THEN failed \cup {op.id} ELSE failed

-----------------------------------------------------------------------------
(* The platform reconcilers: what each operation may leave behind.  "full"  *)
(* and "partial" are a journal with the endpoint installed whole or not,    *)
(* "edited" a journal whose service somebody else has changed.  One network *)
(* service; a foreign proxy at the same endpoint is not told apart.         *)

Status(desired, phase) == [desired |-> desired, phase |-> phase]
Leaves(platform, status, error) ==
  [host |-> platform, proxy |-> status, error |-> error, mutated |-> FALSE]

\* SystemProxyReconciler::restore.
Restores ==
  IF host = "none"
    THEN {Leaves("none", Off, "none"), Leaves("none", Status(FALSE, "Failed"), "error")}
    ELSE {Leaves(host, Status(FALSE, "Drift"), "error")}
         \cup IF host = "edited" THEN {}
              ELSE {Leaves("none", Off, "none")}
                   \cup {Leaves(h, Status(FALSE, "Drift"), e) :
                           h \in {host, "partial"}, e \in {"error", "rollback"}}

\* The core or its listener is down: restore, then report the failure.
GivesUp ==
  {IF r.error = "none" \/ host = "none"
     THEN Leaves("none", Status(TRUE, "Failed"), "error") ELSE r : r \in Restores}

\* reconcile_locked_with_preflight for an active request, short of a takeover.
Activates(healthy) ==
  GivesUp \cup
  (CASE ~healthy       -> {}
     [] host = "none"  -> {Leaves("none", Status(TRUE, phase), "error") :
                             phase \in {"Failed", "Drift"}}
                          \cup {Leaves("partial", Status(TRUE, "Failed"), "error")}
     [] host = "full"  -> {Leaves("full", Status(TRUE, "Applied"), "none"),
                           Leaves("full", Status(TRUE, "Drift"), "error")}
     [] OTHER          -> {Leaves(host, Status(TRUE, "Drift"), "error")})

\* After the journal is saved: the endpoint is applied, confirmed or rolled back.
TookOver ==
  {Leaves("full", Status(TRUE, "Applied"), "none"),
   Leaves("none", Status(TRUE, "Failed"), "error"),
   Leaves("full", Status(TRUE, "Drift"), "rollback"),
   Leaves("partial", Status(TRUE, "Drift"), "rollback"),
   Leaves("partial", Status(TRUE, "Drift"), "error"),
   Leaves("edited", Status(TRUE, "Drift"), "error")}

\* audit_with_mutation.
Audits(healthy) ==
  CASE host = "none" ->
         {Leaves("none", IF proxy.desired THEN Status(TRUE, "Drift") ELSE proxy, "error"),
          Leaves("none", CASE proxy.phase = "Failed" -> proxy
                           [] proxy.desired          -> Status(TRUE, "Drift")
                           [] OTHER                  -> Off, "none")}
    [] host # "none" /\ proxy.desired /\ healthy ->
         GivesUp \cup
         {Leaves(host, Status(TRUE, "Drift"), "error"),
          Leaves(host, Status(TRUE, IF host = "full" THEN "Applied" ELSE "Drift"), "none")}
    [] OTHER ->
         {[r EXCEPT !.mutated = r.error = "none"] : r \in Restores}

\* CaptureEffectAdapter::observe: an audit that also wants what was asked for.
Observes(active, healthy) ==
  {[r EXCEPT !.error =
      IF r.error = "none" /\ r.proxy.phase # (IF active THEN "Applied" ELSE "Off")
        THEN "error" ELSE r.error] : r \in Audits(healthy)}

\* SystemProxyReconciler::recover, short of a takeover.
RecoversProxy(action) ==
  {Leaves(host, proxy, "error")}
  \cup IF proxy.phase = "Drift" /\ action = "LeaveAsIs"
         THEN {Leaves("none", Off, "none")} ELSE {}

\* same_authoritative_capture_state also sees fields this model leaves out.
Noticed(results) ==
  results \cup {[r EXCEPT !.mutated = TRUE] : r \in results}

Inside == {"in", "took", "confirming"}
Busy(t) == t \in DOMAIN tasks /\ tasks[t].outcome.kind = "running"
Locked == \E t \in DOMAIN tasks : Busy(t) /\ at[t] \in Inside
Does(t, effect) == Busy(t) /\ tasks[t].effect.correlation.effect = effect

Results(t) ==
  LET effect == tasks[t].effect
  IN CASE at[t] = "took"                            -> TookOver
       [] at[t] = "confirming"                      -> Observes(FALSE, FALSE)
       [] Does(t, "Mutate") /\ effect.active        -> Activates(effect.healthy)
       [] Does(t, "Mutate") \/ Does(t, "Shutdown")  -> Restores
       [] Does(t, "Observe") \/ Does(t, "Finalize") -> Observes(effect.active, effect.healthy)
       [] Does(t, "Audit")                          -> Noticed(Audits(effect.healthy))
       [] Does(t, "Recover")                        -> RecoversProxy(effect.action)

AnswerKind ==
  [Mutate |-> "MutationFinished", Observe |-> "ObservationFinished",
   Audit |-> "AuditFinished", Recover |-> "RecoveryFinished",
   Finalize |-> "Finalized", Shutdown |-> "ShutdownFinished"]

\* What CaptureExecutor sends back for a result.
Answer(t, r) ==
  LET effect == tasks[t].effect
  IN [kind |-> "ok",
      input |-> [Input(AnswerKind[effect.correlation.effect]) EXCEPT
                   !.correlation = effect.correlation,
                   !.outcome = [error |-> r.error, proxy |-> r.proxy,
                                mutated |-> r.mutated \/ effect.seen # r.proxy]]]

Says(t, kind) ==
  [kind |-> "ok", input |-> [Input(kind) EXCEPT !.correlation = tasks[t].effect.correlation,
                                                !.outcome = tasks[t].effect.outcome]]

-----------------------------------------------------------------------------
(* Effect tasks.                                                            *)

Enter(t) ==
  LET effect == tasks[t].effect
      starts == Does(t, "Mutate") \/ at[t] = "stop"
  IN /\ Busy(t) /\ ~Locked
     /\ IF Does(t, "Shutdown") THEN at[t] \in {"stop", "confirm"}
        ELSE at[t] = "ready" /\ effect.correlation.effect \in DOMAIN AnswerKind
     /\ at' = [at EXCEPT ![t] = IF at[t] = "confirm" THEN "confirming" ELSE "in"]
     /\ proxy' = IF starts THEN Status(effect.active, "Pending") ELSE proxy
     /\ UNCHANGED <<runner, host, callerVars, failed, panics>>

\* The journal is saved and the endpoint begins to be written.
TakeOver(t) ==
  LET effect == tasks[t].effect
  IN /\ Busy(t) /\ at[t] = "in" /\ effect.healthy
     /\ \/ Does(t, "Mutate") /\ effect.active /\ host = "none"
        \/ Does(t, "Recover") /\ effect.action = "Repair" /\ proxy.phase = "Drift"
     /\ host' = "partial"
     /\ proxy' = Status(TRUE, "Pending")
     /\ at' = [at EXCEPT ![t] = "took"]
     /\ UNCHANGED <<runner, callerVars, failed, panics>>

Finish(t) ==
  /\ Busy(t) /\ at[t] \in Inside
  /\ \E r \in Results(t) :
       /\ host' = r.host
       /\ proxy' = r.proxy
       /\ IF Does(t, "Shutdown") /\ at[t] = "in" /\ r.error = "none"
            THEN at' = [at EXCEPT ![t] = "confirm"] /\ UNCHANGED runner
            ELSE at' = [at EXCEPT ![t] = "ready"] /\ Run!Settle(t, Answer(t, r))
  /\ UNCHANGED <<callerVars, failed, panics>>

\* CaptureEffectAdapter::shutdown reads the journal without the mutex; a journal
\* that cannot be read ends it.
LoadJournal(t) ==
  /\ Does(t, "Shutdown") /\ at[t] = "ready"
  /\ \/ /\ \E error \in {"none", "error"} :
             /\ error = "none" => host = "none"
             /\ Run!Settle(t, Answer(t, Leaves(host, tasks[t].effect.seen, error)))
        /\ UNCHANGED at
     \/ /\ host # "none"
        /\ at' = [at EXCEPT ![t] = "stop"]
        /\ UNCHANGED runner
  /\ UNCHANGED <<host, proxy, callerVars, failed, panics>>

CommitAudit(t) ==
  /\ Does(t, "CommitAudit")
  /\ Run!Settle(t, Says(t, "AuditCommitted"))
  /\ UNCHANGED <<platformVars, callerVars, failed, panics>>

\* Reads the platform and answers the launch first, the machine second.
Preflight(t) ==
  /\ Does(t, "Preflight")
  /\ Run!Settle(t, Says(t, "PreflightFinished"))
  /\ \E reply \in {"ok", "error"} : launch' = [launch EXCEPT !.reply = reply]
  /\ UNCHANGED <<platformVars, call, shut, failed, panics>>

\* The future is dropped where it stands, and with it the mutex.
Cancelled(t) ==
  /\ Busy(t) /\ tasks[t].cancelled
  /\ tasks[t].effect.correlation.effect \in {"Mutate", "Observe", "Audit", "Recover"}
  /\ Run!Settle(t, Says(t, "TaskCancelled"))
  /\ at' = [at EXCEPT ![t] = "ready"]
  /\ UNCHANGED <<host, proxy, callerVars, failed, panics>>

Crashes(t) ==
  /\ Busy(t)
  /\ \/ tasks[t].aborted /\ UNCHANGED panics
     \/ "panic" \in Faults /\ panics = 0 /\ panics' = 1
  /\ Run!Settle(t, [kind |-> IF tasks[t].aborted THEN "aborted" ELSE "panicked",
                    input |-> Input("none")])
  /\ at' = [at EXCEPT ![t] = "ready"]
  /\ launch' = IF Does(t, "Preflight") THEN [launch EXCEPT !.reply = "lost"] ELSE launch
  /\ UNCHANGED <<host, proxy, call, shut, failed>>

Join(t) ==
  /\ t \in DOMAIN tasks
  /\ Run!Join(t)
  /\ Tracks
  /\ UNCHANGED <<platformVars, callerVars, panics>>

\* Somebody else changes the proxy settings of the service.
Edit ==
  /\ host \in {"partial", "full"}
  /\ host' = "edited"
  /\ UNCHANGED <<runner, proxy, at, callerVars, failed, panics>>

-----------------------------------------------------------------------------
(* Callers.  Bounds: the launch and the request run once; a new operation   *)
(* needs a number up to MaxOperations and room among the owned tasks.       *)
(* A mutation or a repair finds a healthy core: an unhealthy one would only *)
(* take outcomes away, since the listener may fail at any time.             *)

Room == state.next <= MaxOperations /\ Cardinality(DOMAIN tasks) < 2

Pending(s) == IsActive(s) \/ IsBusy(Projected(s))

Token(kind, op) ==
  [Input(kind) EXCEPT !.correlation = Correlation(op, "none"), !.token = op,
                      !.active = TRUE]

NoLaunch == [pc |-> "idle", token |-> NoOperation, reply |-> "none",
             error |-> "none", cancelled |-> FALSE]

Quiet == {"idle", "ok", "failed"}
LaunchGoes(pc) == launch' = [launch EXCEPT !.pc = pc]
LaunchFails(pc, error) == launch' = [launch EXCEPT !.pc = pc, !.error = error]
LaunchEnds(result) ==
  launch' = [NoLaunch EXCEPT !.pc = result, !.token.id = launch.token.id]
OnlyLaunch == UNCHANGED <<platformVars, call, shut, panics>>

\* publish_capture_pending, for a launch that finds the proxy not enabled.
LaunchReserves ==
  LET i == [Input("Reserve") EXCEPT !.active = TRUE]
  IN /\ "launch" \in Actors /\ launch.pc = "idle" /\ shut = "idle" /\ Room
     /\ Projected(state).proxy.phase # "Applied"
     /\ Offer(i)
     /\ Tracks
     /\ launch' = IF Refused(i) THEN [NoLaunch EXCEPT !.pc = "failed"]
                  ELSE [NoLaunch EXCEPT !.pc = "reserved", !.token = state'.op]
     /\ OnlyLaunch

\* No selected Profile: reject_capture_operation at once.
LaunchRejects ==
  /\ launch.pc = "reserved"
  /\ LaunchFails("failing", "error")
  /\ UNCHANGED <<runner, failed>> /\ OnlyLaunch

LaunchPreflights ==
  LET i == [Input("Preflight") EXCEPT !.active = TRUE]
  IN /\ launch.pc = "reserved"
     /\ Offer(i)
     /\ Tracks
     /\ IF Refused(i) THEN LaunchFails("marking", "error") ELSE LaunchGoes("preparing")
     /\ OnlyLaunch

\* preflight_cancellable has returned: a result, and the machine moved on.
Preflighted ==
  \/ launch.reply = "lost"
  \/ /\ launch.reply # "none"
     /\ ~(state.stage = "Preflighting" /\ Mine(state, Correlation(launch.token, "none")))

\* The two halves of the preparation: the Profile activation may succeed,
\* fail before or while the preflight runs, or the launch may be cancelled.
LaunchPrepares ==
  /\ launch.pc = "preparing"
  /\ \/ Preflighted /\ launch.reply = "ok" /\ LaunchGoes("prepared")
     \/ Preflighted /\ launch.reply # "ok" /\ LaunchFails("marking", "error")
     \/ Preflighted /\ LaunchFails("failing", "error")
     \/ LaunchFails("marking", "error")
  /\ UNCHANGED <<runner, failed>> /\ OnlyLaunch

\* After the mark a cancelled launch waits for its preflight, a failed one not.
LaunchMarks ==
  /\ launch.pc = "marking"
  /\ Offer([Token("MarkFinalizing", launch.token) EXCEPT !.error = launch.error])
  /\ Tracks
  /\ LaunchGoes(IF launch.cancelled THEN "draining" ELSE "failing")
  /\ OnlyLaunch

LaunchDrains ==
  /\ launch.pc = "draining" /\ Preflighted
  /\ LaunchGoes("failing")
  /\ UNCHANGED <<runner, failed>> /\ OnlyLaunch

\* set_capture(inactive) cancels the preparation and marks the operation.
LaunchCancelled ==
  /\ launch.pc \notin Quiet /\ ~launch.cancelled
  /\ Offer([Token("MarkFinalizing", launch.token) EXCEPT !.error = "error"])
  /\ Tracks
  /\ launch' = [launch EXCEPT !.cancelled = TRUE]
  /\ OnlyLaunch

\* set_capture_with_admitted_preflight.
LaunchExecutes ==
  LET i == [Token("ExecuteReserved", launch.token) EXCEPT !.healthy = TRUE]
  IN /\ launch.pc = "prepared"
     /\ IF shut = "idle" /\ Mine(state, i.correlation) /\ ~Refused(i)
          THEN Offer(i) /\ Tracks /\ LaunchGoes("waiting")
          ELSE LaunchFails("failing", "error") /\ UNCHANGED <<runner, failed>>
     /\ OnlyLaunch

\* wait_for_operation: the operation is gone; whatever error is there now.
Learned(op) == ~Mine(state, Correlation(op, "none"))

LaunchLearns ==
  /\ launch.pc = "waiting" /\ Learned(launch.token)
  /\ IF LastError(state) = "none" THEN LaunchEnds("ok")
                                  ELSE LaunchFails("failing", LastError(state))
  /\ UNCHANGED <<runner, failed>> /\ OnlyLaunch

\* finish_operation_failure.
LaunchReports ==
  /\ launch.pc = "failing"
  /\ Offer([Token("FailReserved", launch.token) EXCEPT !.error = launch.error])
  /\ Tracks
  /\ LaunchGoes("finishing")
  /\ OnlyLaunch

LaunchFinishes ==
  /\ launch.pc = "finishing"
  /\ Learned(launch.token) \/ mode = "ended"
  /\ LaunchEnds("failed")
  /\ UNCHANGED <<runner, failed>> /\ OnlyLaunch

LaunchStep ==
  \/ LaunchReserves \/ LaunchRejects \/ LaunchPreflights \/ LaunchPrepares
  \/ LaunchMarks \/ LaunchDrains \/ LaunchExecutes \/ LaunchLearns
  \/ LaunchReports \/ LaunchFinishes

\* CaptureReconciler::reconcile, of a request or of restore_capture_intent.
CallStarts ==
  \E active \in BOOLEAN :
    LET i == [Input("Start") EXCEPT !.active = active, !.healthy = TRUE]
    IN /\ "call" \in Actors /\ call.pc = "idle" /\ Room
       /\ Offer(i)
       /\ Tracks
       /\ call' = IF Refused(i) THEN [call EXCEPT !.pc = "failed"]
                  ELSE [pc |-> "waiting", op |-> state'.op.id]
       /\ UNCHANGED <<platformVars, launch, shut, panics>>

CallLearns ==
  LET gone == Learned([NoOperation EXCEPT !.id = call.op])
  IN /\ call.pc = "waiting"
     /\ gone \/ mode = "ended"
     /\ call' = [call EXCEPT !.pc = IF gone /\ LastError(state) = "none" THEN "ok"
                                                                         ELSE "failed"]
     /\ UNCHANGED <<runner, platformVars, launch, shut, failed, panics>>

\* CaptureReconciler::audit: on a timer, a wake-up, a change of core health.
Audit ==
  \E healthy \in BOOLEAN :
    /\ "audit" \in Actors /\ Room /\ ~Pending(state)
    /\ Run!Admit([Input("Audit") EXCEPT !.healthy = healthy])
    /\ Tracks
    /\ UNCHANGED <<platformVars, callerVars, panics>>

\* CaptureReconciler::recover.
Recover ==
  \E action \in {"Repair", "LeaveAsIs"} :
    LET i == [Input("Recover") EXCEPT !.healthy = TRUE, !.action = action]
    IN /\ "recover" \in Actors /\ Room /\ ~Refused(i)
       /\ Run!Admit(i)
       /\ Tracks
       /\ UNCHANGED <<platformVars, callerVars, panics>>

\* reconcile_for_shutdown: the check, then the shutdown.  The coordinator
\* holds proxy_operation around both, so no launch is under way.
ShutdownChecks ==
  /\ "shutdown" \in Actors /\ shut = "idle" /\ launch.pc \in Quiet
  /\ ~Pending(state)
  /\ shut' = "checked"
  /\ UNCHANGED <<runner, platformVars, launch, call, failed, panics>>

ShutdownStarts ==
  /\ shut = "checked"
  /\ Run!Shutdown
  /\ Tracks
  /\ shut' = "stopping"
  /\ UNCHANGED <<platformVars, launch, call, panics>>

ShutdownReturns ==
  /\ shut = "stopping" /\ mode = "ended"
  /\ shut' = IF state.kind = "Retired" /\ state.error = "none" THEN "ok" ELSE "failed"
  /\ UNCHANGED <<runner, platformVars, launch, call, failed, panics>>

\* The drain's deadlines, and its end.
Deadline ==
  /\ "deadline" \in Faults
  /\ Run!Deadline
  /\ UNCHANGED <<platformVars, callerVars, failed, panics>>

Drained ==
  /\ mode \in {"draining", "forced"}
  /\ DOMAIN tasks = {} \/ mode = "forced"
  /\ Run!End
  /\ at' = [t \in TaskId |-> "ready"]
  /\ UNCHANGED <<host, proxy, callerVars, failed, panics>>

-----------------------------------------------------------------------------
Init ==
  /\ Run!Init
  /\ host = "none" /\ proxy = Off
  /\ at = [t \in TaskId |-> "ready"]
  /\ launch = NoLaunch
  /\ call = [pc |-> "idle", op |-> 0]
  /\ shut = "idle"
  /\ failed = {} /\ panics = 0

\* Every caller has its answer and the machine is at rest.
Terminated ==
  /\ DOMAIN tasks = {} /\ ~IsActive(state)
  /\ launch.pc \in Quiet /\ call.pc \in Quiet
  /\ shut \in {"idle", "checked", "ok", "failed"}
  /\ UNCHANGED vars

TaskStep(t) ==
  \/ Enter(t) \/ Finish(t) \/ LoadJournal(t) \/ CommitAudit(t) \/ Preflight(t)
  \/ Join(t)

Next ==
  \/ \E t \in TaskId : TaskStep(t) \/ TakeOver(t) \/ Cancelled(t) \/ Crashes(t)
  \/ Edit
  \/ LaunchStep \/ LaunchCancelled
  \/ CallStarts \/ CallLearns \/ Audit \/ Recover
  \/ ShutdownChecks \/ ShutdownStarts \/ ShutdownReturns \/ Deadline \/ Drained
  \/ Terminated

Spec == Init /\ [][Next]_vars

\* tokio's mutex is fair (Enter), tasks, actor and callers are scheduled.
FairSpec ==
  /\ Spec
  /\ \A t \in TaskId : /\ SF_vars(Enter(t))
                       /\ WF_vars(Finish(t) \/ LoadJournal(t) \/ CommitAudit(t) \/ Preflight(t))
                       /\ SF_vars(Join(t))
  /\ WF_vars(LaunchStep) /\ WF_vars(CallLearns)
  /\ WF_vars(ShutdownReturns) /\ WF_vars(Drained)

-----------------------------------------------------------------------------
Writes(t) == Busy(t) /\ ~Does(t, "Preflight") /\ ~Does(t, "CommitAudit")

\* While the machine is open, a task that works on the platform is the one
\* effect of the operation the machine is in: the reducer starts no operation
\* over a predecessor's unfinished work, whatever the launch reports meanwhile.
\* Only the finalizer of a panicked task can outlive its operation, when the
\* launch reports its failure first.  And no two live tasks answer under one
\* correlation, although audits give their operation number back: a preflight
\* that outlives its failed launch cannot be taken for the effect of a newer
\* operation.
OneWriter ==
  /\ mode = "open" => \A t \in DOMAIN tasks :
       Writes(t) => \/ EffectIsCurrent(state, tasks[t].effect.correlation)
                    \/ Does(t, "Finalize") /\ panics > 0
  /\ \A t, u \in DOMAIN tasks :
       tasks[t].effect.correlation = tasks[u].effect.correlation => t = u

\* wait_for_operation reads the error of the state it finds, not of its
\* operation.  A launch is told of success only if its operation did not fail:
\* a prepared operation's failure stays until the launch has read it.
LaunchLearnsOutcome ==
  launch.pc = "ok" => launch.token.id \notin failed

Resting == mode = "open" /\ DOMAIN tasks = {} /\ ~Pending(state)
Held == {"partial", "full", "edited"}

\* At rest, a proxy published as Applied is one Mish holds a journal for: no
\* audit, recovery or late effect has released it behind the projection.
AppliedIsHeld ==
  Resting /\ state.projection.proxy.phase = "Applied" => host \in Held

\* At rest, the published status is what the platform reconciler last
\* established, through failures, lost tasks and audits that give their number
\* back without publishing.
PublishedIsCurrent ==
  Resting => state.projection.proxy = proxy

\* reconcile_for_shutdown answers Ok only if nothing of the proxy is left.
ShutdownReleases == shut = "ok" => host = "none"

\* Capture never stays Pending or Finalizing: every operation, and the
\* finalizing phase of a failed launch, ends; and a launch that reserved its
\* operation returns to its caller, whichever of preflight, activation,
\* cancellation and mutation ends first.
OperationsEnd ==
  /\ Pending(state) ~> ~Pending(state)
  /\ launch.pc = "reserved" ~> launch.pc \in {"ok", "failed"}
=============================================================================
