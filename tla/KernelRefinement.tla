-------------------------- MODULE KernelRefinement --------------------------
(***************************************************************************)
(* The kernel implements Runner: its actor takes several steps to apply    *)
(* one input (publish, notify, emit each effect, settle), which the        *)
(* mapping below makes one step by giving the runner the tasks the actor   *)
(* is still about to spawn or cancel.                                      *)
(***************************************************************************)
EXTENDS MCKernel

Batch == INSTANCE Runner WITH tasks <- owned, mode <- pc

\* The tasks owned once the batch being emitted is through.
PendingTasks ==
  IF pc \in Ended THEN [t \in {} |-> Running]
                  ELSE Batch!WithEffects(owned, step.effects, step.role)

Mode ==
  IF pc \in Ended \/ drain.window = 3 THEN "ended"
  ELSE IF drain.window = 2 THEN "forced"
  ELSE IF drain.window = 1 \/ step.origin = "shutdown" THEN "draining"
  ELSE "open"

Ideal == INSTANCE Runner WITH tasks <- PendingTasks, mode <- Mode

\* The actor with its inbox, observers, reply slot and biased select behaves
\* like the one-input-at-a-time runner the product machines are written for.
KernelImplementsRunner == Ideal!Spec
=============================================================================
