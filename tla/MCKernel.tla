------------------------------ MODULE MCKernel ------------------------------
(***************************************************************************)
(* The kernel on a machine made of the two its own tests use:              *)
(* FinalizerMachine (crates/state-machine/src/lib.rs, mod tests) with      *)
(* TestMachine's Cancel, Complete and busy answers.  As in the production  *)
(* machines (Capture's ShuttingDown), shutting down a running operation    *)
(* cancels its effect and spawns a shutdown effect that is current.  An    *)
(* effect may return its own correlation, a foreign one, panic or hang.    *)
(***************************************************************************)
EXTENDS Kernel, TLC

CONSTANTS Ops, NoOp

\* Correlation: the operation, and the effect id of its stage.
MCCorrelation == [op: Ops \cup {NoOp}, effect: 1..3]

St(kind, op) == [kind |-> kind, op |-> op]
In(kind, op, effect) == [kind |-> kind, correlation |-> [op |-> op, effect |-> effect]]
Ef(mode, op, effect) == [mode |-> mode, correlation |-> [op |-> op, effect |-> effect]]

MCState == [kind: {"Idle", "Running", "Retiring", "Finalizing", "Done", "Retired"},
          op: Ops \cup {NoOp}]
MCInput == [kind: {"Start", "Cancel", "Complete", "TaskFailed", "Shutdown"},
          correlation: MCCorrelation]
MCEffect == [mode: {"Spawn", "Cancel"}, correlation: MCCorrelation]

Tr(disposition, next, effects) ==
  [disposition |-> disposition, state |-> next, effects |-> effects]

MCReduce(s, input) ==
  LET corr == input.correlation
      mine == corr.op = s.op
  IN CASE s.kind \in {"Idle", "Done"} /\ input.kind = "Start" ->
            Tr("EffectEmitting", St("Running", corr.op), <<Ef("Spawn", corr.op, 1)>>)
       [] s.kind = "Running" /\ input.kind = "Start" ->
            IF mine THEN Tr("Unchanged", s, << >>) ELSE Tr("Rejected", s, << >>)
       [] s.kind = "Running" /\ input.kind = "Cancel" ->
            Tr("EffectEmitting", s, <<Ef("Cancel", s.op, 1)>>)
       [] s.kind = "Running" /\ input.kind = "Complete" ->
            Tr("Committed", St("Done", NoOp), << >>)
       [] s.kind = "Running" /\ input.kind = "Shutdown" ->
            Tr("EffectEmitting", St("Retiring", s.op),
               <<Ef("Cancel", s.op, 1), Ef("Spawn", s.op, 3)>>)
       [] s.kind \in {"Idle", "Done"} /\ input.kind = "Shutdown" ->
            Tr("Accepted", St("Retired", NoOp), << >>)
       [] s.kind = "Finalizing" /\ input.kind = "Shutdown" -> Tr("Rejected", s, << >>)
       [] s.kind = "Retiring" /\ input.kind = "Complete" ->
            Tr("Cancelled", St("Retired", NoOp), << >>)
       [] s.kind = "Retiring" /\ input.kind = "TaskFailed" /\ corr.effect = 1 ->
            Tr("Retired", s, << >>)
       [] s.kind \in {"Running", "Retiring"} /\ input.kind = "TaskFailed" ->
            Tr("EffectEmitting", St("Finalizing", s.op), <<Ef("Spawn", s.op, 2)>>)
       [] s.kind = "Finalizing" /\ input.kind = "Complete" ->
            Tr("Cancelled", St("Retired", NoOp), << >>)
       [] s.kind = "Finalizing" /\ input.kind = "TaskFailed" ->
            Tr("Failed", St("Retired", NoOp), << >>)
       [] s.kind = "Retired" -> Tr("Retired", s, << >>)
       [] OTHER -> Tr("Rejected", s, << >>)

MCInputCorrelation(s, input) == input.correlation

MCEffectIsCurrent(s, correlation) ==
  /\ s.op = correlation.op
  /\ \/ s.kind = "Running" /\ correlation.effect = 1
     \/ s.kind = "Retiring" /\ correlation.effect = 3
     \/ s.kind = "Finalizing" /\ correlation.effect = 2

MCTaskFailed(correlation, failure) ==
  [kind |-> "TaskFailed", correlation |-> correlation]

MCCompletes(effect, cancelled) ==
  {[kind |-> "Complete", correlation |-> effect.correlation]}
  \cup {In("Complete", NoOp, effect.correlation.effect)}

MCInitialState == St("Idle", NoOp)
MCShutdownInput == In("Shutdown", NoOp, 1)
MCAdmissible == {In("Start", op, 1) : op \in Ops} \cup {In("Cancel", NoOp, 1)}

Symmetry == Permutations(Callers)

=============================================================================
