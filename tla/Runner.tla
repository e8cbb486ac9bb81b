------------------------------- MODULE Runner -------------------------------
(***************************************************************************)
(* What crates/state-machine promises to a product machine and to its      *)
(* callers, without inbox, snapshot, locks or reply channels: inputs are   *)
(* applied one at a time and whole, an effect's result is applied only if  *)
(* it is the owned, current one and otherwise becomes exactly one          *)
(* task_failed, retirement drains in a graceful and then a forced window,  *)
(* and nothing moves once the runner has ended.  KernelRefinement shows    *)
(* that the kernel implements this; the product machines are checked on it.*)
(***************************************************************************)
EXTENDS Naturals, Sequences

CONSTANTS
  InitialState, Admissible, ShutdownInput,
  Reduce(_, _), InputCorrelation(_, _), EffectIsCurrent(_, _),
  TaskFailed(_, _), Completes(_, _), NoInput, TaskId

VARIABLES
  state,   \* the machine's state
  tasks,   \* the effect tasks the runner owns
  mode     \* "open", "draining", "forced" or "ended"

vars == <<state, tasks, mode>>

Running == [kind |-> "running", input |-> NoInput]

NewTask(effect, role) ==
  [effect |-> effect, role |-> role, cancelled |-> FALSE, aborted |-> FALSE,
   outcome |-> Running]

Init ==
  /\ state = InitialState
  /\ tasks = [t \in {} |-> Running]
  /\ mode = "open"

-----------------------------------------------------------------------------
\* One effect added to the owned tasks: a Cancel reaches its exact correlation.
WithEffect(owned, effect, role) ==
  IF effect.mode = "Cancel"
    THEN [t \in DOMAIN owned |->
            IF owned[t].effect.correlation = effect.correlation
              THEN [owned[t] EXCEPT !.cancelled = TRUE] ELSE owned[t]]
    ELSE LET free == CHOOSE t \in TaskId : t \notin DOMAIN owned
         IN [t \in DOMAIN owned \cup {free} |->
               IF t = free THEN NewTask(effect, role) ELSE owned[t]]

\* The whole batch, in order.
WithEffects(owned, effects, role) ==
  LET after[n \in 0..Len(effects)] ==
        IF n = 0 THEN owned ELSE WithEffect(after[n - 1], effects[n], role)
  IN after[Len(effects)]

\* An input is applied whole; a reducer that panics ends the runner instead.
Apply(input, owned, role) ==
  LET transition == Reduce(state, input)
  IN /\ transition.disposition # "Panicked"
     /\ state' = IF transition.disposition \in {"Rejected", "Unchanged", "Retired"}
                   THEN state ELSE transition.state
     /\ tasks' = IF transition.disposition = "EffectEmitting"
                   THEN WithEffects(owned, transition.effects, role) ELSE owned

Admit(input) ==
  /\ mode = "open"
  /\ Apply(input, tasks, "Operation")
  /\ UNCHANGED mode

Shutdown ==
  /\ mode = "open"
  /\ Apply(ShutdownInput, tasks, "Operation")
  /\ mode' = "draining"

\* The effect's own result if it is still the current one, else task_failed.
Join(t) ==
  LET task == tasks[t]
      rest == [u \in DOMAIN tasks \ {t} |-> tasks[u]]
      own  == /\ task.outcome.kind = "ok"
              /\ InputCorrelation(state, task.outcome.input) = task.effect.correlation
              /\ EffectIsCurrent(state, task.effect.correlation)
              /\ mode = "forced" => task.role = "Finalizer"
      why  == CASE task.outcome.kind = "panicked" -> "Panicked"
                [] task.outcome.kind = "aborted"  -> "Aborted"
                [] OTHER -> "CompletionConflict"
  IN /\ mode # "ended"
     /\ task.outcome.kind # "running"
     /\ IF own THEN Apply(task.outcome.input, rest, task.role)
               ELSE Apply(TaskFailed(task.effect.correlation, why), rest, "Finalizer")
     /\ UNCHANGED mode

Deadline ==
  /\ mode = "draining"
  /\ mode' = "forced"
  /\ tasks' = [t \in DOMAIN tasks |->
                 [tasks[t] EXCEPT !.cancelled = TRUE, !.aborted = TRUE]]
  /\ UNCHANGED state

\* Drained, out of time, panicked or aborted: whatever is left is detached.
End ==
  /\ mode # "ended"
  /\ mode' = "ended"
  /\ tasks' = [t \in {} |-> Running]
  /\ UNCHANGED state

Settle(t, outcome) ==
  /\ tasks[t].outcome.kind = "running"
  /\ tasks' = [tasks EXCEPT ![t].outcome = outcome]
  /\ UNCHANGED <<state, mode>>

Completed(t) == \E input \in Completes(tasks[t].effect, tasks[t].cancelled) :
  Settle(t, [kind |-> "ok", input |-> input])

Failed(t) ==
  \/ Settle(t, [kind |-> "panicked", input |-> NoInput])
  \/ tasks[t].aborted /\ Settle(t, [kind |-> "aborted", input |-> NoInput])

Next ==
  \/ \E input \in Admissible : Admit(input)
  \/ Shutdown \/ Deadline \/ End
  \/ \E t \in DOMAIN tasks : Join(t) \/ Completed(t) \/ Failed(t)

Spec == Init /\ [][Next]_vars
=============================================================================
