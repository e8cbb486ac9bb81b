------------------------------- MODULE Kernel -------------------------------
(***************************************************************************)
(* The execution kernel of crates/state-machine: one actor that owns a     *)
(* machine's state, a bounded admission inbox, every effect task the       *)
(* reducer emits, the cancellation tokens and the two-window shutdown      *)
(* drain.  The product machine is a parameter: its reducer, its            *)
(* correlation and currency predicates, its finalizer input and its effect *)
(* executor are CONSTANT operators, exactly the methods of the traits      *)
(* Machine and EffectExecutor.                                             *)
(*                                                                         *)
(* The actor runs between its await points without yielding, but effect    *)
(* tasks, admitters, retirers and snapshot readers run on other threads,   *)
(* so one application of an input is the steps Apply, Notify, Emit*,       *)
(* Settle, in the order of apply_input_with_role.                          *)
(***************************************************************************)
EXTENDS Naturals, Sequences, FiniteSets

CONSTANTS
  State, Input, Effect, Correlation,  \* the associated types of the Machine
  InitialState,                       \* spawn_runner's `initial`
  Admissible,                         \* inputs callers pass to try_admit
  ShutdownInput,                      \* Machine::shutdown
  Reduce(_, _),                       \* Machine::reduce
  InputCorrelation(_, _),             \* Machine::input_correlation
  EffectIsCurrent(_, _),              \* Machine::effect_is_current
  TaskFailed(_, _),                   \* Machine::task_failed
  Completes(_, _),                    \* what EffectExecutor::execute may return
  NoInput,                            \* a task that has not returned
  Callers, NoCaller,                  \* concurrent users of try_admit
  Retirers,                           \* concurrent users of shutdown
  TaskId,                             \* bound on concurrently owned tasks
  InboxCapacity,                      \* RunnerConfig::inbox_capacity
  Faults                              \* which actor failures may happen

Disposition == {"Accepted", "Rejected", "Unchanged", "EffectEmitting",
                "Committed", "Cancelled", "Failed", "Retired",
                "RecoveryRequired"}

\* A reducer that hits an `expect` unwinds the actor instead of returning.
Transition == [disposition: Disposition \cup {"Panicked"}, state: State,
               effects: Seq(Effect)]

TaskFailure == {"Aborted", "CompletionConflict", "Panicked"}
EffectRole == {"Operation", "Finalizer"}

(* The signatures of the trait methods; nothing is assumed of what a        *)
(* reducer decides.                                                         *)
ASSUME MachineAssumption ==
  /\ InitialState \in State
  /\ ShutdownInput \in Input
  /\ Admissible \subseteq Input
  /\ \A s \in State, i \in Input : Reduce(s, i) \in Transition
  /\ \A c \in Correlation, f \in TaskFailure : TaskFailed(c, f) \in Input
  /\ \A e \in Effect :
       /\ e.mode \in {"Spawn", "Cancel"}
       /\ e.correlation \in Correlation
       /\ \A cancelled \in BOOLEAN : Completes(e, cancelled) \subseteq Input

ASSUME RunnerAssumption ==
  /\ NoCaller \notin Callers
  /\ NoInput \notin Input
  /\ InboxCapacity \in Nat \ {0}

VARIABLES
  state,      \* the actor's own machine state
  snapshot,   \* Shared::state, read by any thread
  pc,         \* where the actor is in run_actor
  step,       \* the input being applied
  inbox,      \* the mpsc channel of Command::Admit
  owned,      \* task id -> OwnedEffect, with the JoinSet's task
  drain,      \* DrainOutcome, the current window and the Shutdown disposition
  closed,     \* Shared::closed
  token,      \* Shared::shutdown, the out-of-band cancellation token
  slot,       \* Shared::retirement_reply holds the reply sender
  response,   \* the receiving end of that oneshot
  exit,       \* the actor JoinHandle's result
  aborting,   \* JoinHandle::abort was called
  handles,    \* some RunnerHandle is still alive
  admit,      \* per caller: progress of try_admit
  retire,     \* per retirer: progress of shutdown
  signal,     \* an observer notification not yet consumed by a reader
  seen        \* what the reader last read from the snapshot

actorVars == <<state, snapshot, pc, step, owned, drain, exit>>
handleVars == <<closed, token, slot, response, aborting, handles>>
readerVars == <<signal, seen>>
vars == <<actorVars, handleVars, inbox, admit, retire, readerVars>>

-----------------------------------------------------------------------------
Quiet == [effects |-> << >>, disposition |-> "Unchanged",
          role |-> "Operation", origin |-> "none", caller |-> NoCaller]

Running == [kind |-> "running", input |-> NoInput]

OwnedEffect(effect, role) ==
  [effect |-> effect, role |-> role, cancelled |-> FALSE, aborted |-> FALSE,
   outcome |-> Running]

NoDrain == [window |-> 0, terminal |-> "Completed", last |-> "None",
            shutdown |-> "None"]

Idle == [pc |-> "idle", input |-> NoInput, result |-> "None", reduced |-> FALSE]

Init ==
  /\ state = InitialState
  /\ snapshot = InitialState
  /\ pc = "select"
  /\ step = Quiet
  /\ inbox = << >>
  /\ owned = [t \in {} |-> Running]
  /\ drain = NoDrain
  /\ closed = FALSE
  /\ token = FALSE
  /\ slot = FALSE
  /\ response = [status |-> "none", drain |-> NoDrain]
  /\ exit = "None"
  /\ aborting = FALSE
  /\ handles = TRUE
  /\ admit = [c \in Callers |-> Idle]
  /\ retire = [r \in Retirers |-> [pc |-> "idle", terminal |-> "None"]]
  /\ signal = FALSE
  /\ seen = InitialState

-----------------------------------------------------------------------------
(* RunnerHandle::try_admit: the closed flag is loaded before, and not       *)
(* together with, the non-blocking send.                                    *)

LoadClosed(c, input) ==
  /\ admit[c].pc \in {"idle", "done"}
  /\ handles
  /\ admit' = [admit EXCEPT ![c] =
       IF closed THEN [Idle EXCEPT !.pc = "done", !.result = "RunnerRetired"]
                 ELSE [Idle EXCEPT !.pc = "loaded", !.input = input]]
  /\ UNCHANGED <<actorVars, handleVars, inbox, retire, readerVars>>

ReceiverDropped == pc = "finished"

TrySend(c) ==
  /\ admit[c].pc = "loaded"
  /\ \/ /\ ReceiverDropped
        /\ admit' = [admit EXCEPT ![c].pc = "done", ![c].result = "RunnerRetired"]
        /\ UNCHANGED inbox
     \/ /\ ~ReceiverDropped
        /\ Len(inbox) >= InboxCapacity
        /\ admit' = [admit EXCEPT ![c].pc = "done",
                                  ![c].result = "InboxSaturated"]
        /\ UNCHANGED inbox
     \/ /\ ~ReceiverDropped
        /\ Len(inbox) < InboxCapacity
        /\ inbox' = Append(inbox, [caller |-> c, input |-> admit[c].input])
        /\ admit' = [admit EXCEPT ![c].pc = "queued"]
  /\ UNCHANGED <<actorVars, handleVars, retire, readerVars>>

-----------------------------------------------------------------------------
(* Applying one input: apply_input_with_role.                               *)

Moves(disposition) ==
  disposition \notin {"Rejected", "Unchanged", "Retired", "Panicked"}

\* Mutant: the snapshot is only published once the whole input was applied.
MutantPublished(next) == snapshot

\* The snapshot observers will find when they are notified of state `next`.
Published(next) == next

\* Reduce, move the state and publish it; observers come next.
Apply(input, role, origin, caller) ==
  LET transition == Reduce(state, input)
      panicked   == transition.disposition = "Panicked"
  IN /\ state' = IF Moves(transition.disposition) THEN transition.state
                                                  ELSE state
     /\ snapshot' = IF panicked THEN snapshot ELSE Published(state')
     /\ pc' = IF panicked THEN "dying" ELSE "notify"
     /\ exit' = IF panicked THEN "Panicked" ELSE exit
     /\ step' = [effects |-> IF transition.disposition = "EffectEmitting"
                               THEN transition.effects ELSE << >>,
                 disposition |-> transition.disposition,
                 role |-> role, origin |-> origin, caller |-> caller]
     /\ admit' = [c \in Callers |->
                    IF c = caller THEN [admit[c] EXCEPT !.reduced = TRUE]
                                  ELSE admit[c]]

\* TransitionObserver::transitioned wakes whoever waits for a change.
Notify ==
  /\ pc = "notify"
  /\ pc' = "emit"
  /\ signal' = TRUE
  /\ UNCHANGED <<state, snapshot, step, owned, drain, exit, handleVars, inbox,
                 admit, retire, seen>>

\* A panicking observer unwinds the actor after the state was published.
ObserverPanics ==
  /\ "panic" \in Faults
  /\ pc = "notify"
  /\ pc' = "dying"
  /\ exit' = "Panicked"
  /\ UNCHANGED <<state, snapshot, step, owned, drain, handleVars, inbox, admit,
                 retire, readerVars>>

FreeTask == CHOOSE t \in TaskId : t \notin DOMAIN owned

\* Mutant: cancelling a task forgets that it is owned.
MutantCancelOwned(correlation) ==
  [t \in {u \in DOMAIN owned : owned[u].effect.correlation # correlation}
     |-> owned[t]]

CancelOwned(correlation) ==
  [t \in DOMAIN owned |->
     IF owned[t].effect.correlation = correlation
       THEN [owned[t] EXCEPT !.cancelled = TRUE] ELSE owned[t]]

SpawnOwned(effect) ==
  [t \in DOMAIN owned \cup {FreeTask} |->
     IF t \in DOMAIN owned THEN owned[t] ELSE OwnedEffect(effect, step.role)]

\* One effect of the batch: Cancel reaches the exact correlation only.
Emit ==
  /\ pc = "emit"
  /\ step.effects # << >>
  /\ LET effect == Head(step.effects)
     IN \/ /\ effect.mode = "Cancel"
           /\ owned' = CancelOwned(effect.correlation)
        \/ /\ effect.mode = "Spawn"
           /\ DOMAIN owned # TaskId
           /\ owned' = SpawnOwned(effect)
  /\ step' = [step EXCEPT !.effects = Tail(@)]
  /\ UNCHANGED <<state, snapshot, pc, drain, exit, handleVars, inbox, admit,
                 retire, readerVars>>

\* The input is applied: answer the command, or return to select or drain.
Settle ==
  /\ pc = "emit"
  /\ step.effects = << >>
  /\ pc' = IF step.origin \in {"shutdown", "drain"} THEN "drain" ELSE "select"
  /\ drain' = CASE step.origin = "shutdown" ->
                     [drain EXCEPT !.window = 1, !.shutdown = step.disposition]
                [] step.origin = "drain" ->
                     [drain EXCEPT !.last = step.disposition]
                [] OTHER -> drain
  /\ snapshot' = IF step.origin \in {"command", "effect"} THEN state
                                                          ELSE snapshot
  /\ admit' = [c \in Callers |->
       IF c = step.caller
         THEN [admit[c] EXCEPT !.pc = "done", !.result = step.disposition]
         ELSE admit[c]]
  /\ step' = Quiet
  /\ UNCHANGED <<state, owned, exit, handleVars, inbox, retire, readerVars>>

-----------------------------------------------------------------------------
(* run_actor's biased select: shutdown, then a joined effect, then a        *)
(* command.                                                                 *)

Settled == {t \in DOMAIN owned : owned[t].outcome.kind # "running"}

\* Mutant: the forced window accepts an operation's own late completion.
MutantCompletionConflicts(task, force_stale_completion) ==
  \/ InputCorrelation(state, task.outcome.input) # task.effect.correlation
  \/ ~EffectIsCurrent(state, task.effect.correlation)

\* A completion is a domain input only if it carries the owned correlation,
\* that effect is still current, and the drain does not force it stale.
CompletionConflicts(task, force_stale_completion) ==
  \/ InputCorrelation(state, task.outcome.input) # task.effect.correlation
  \/ ~EffectIsCurrent(state, task.effect.correlation)
  \/ force_stale_completion /\ task.role = "Operation"

FailureOf(task) ==
  CASE task.outcome.kind = "panicked" -> "Panicked"
    [] task.outcome.kind = "aborted"  -> "Aborted"
    [] OTHER -> "CompletionConflict"

\* finish_effect: whatever is not a domain input becomes one task_failed.
FinishEffect(t, force_stale_completion, origin) ==
  LET task   == owned[t]
      failed == \/ task.outcome.kind # "ok"
                \/ CompletionConflicts(task, force_stale_completion)
  IN /\ owned' = [u \in DOMAIN owned \ {t} |-> owned[u]]
     /\ IF failed
          THEN Apply(TaskFailed(task.effect.correlation, FailureOf(task)),
                     "Finalizer", origin, NoCaller)
          ELSE Apply(task.outcome.input, task.role, origin, NoCaller)

SelectShutdown ==
  /\ pc = "select"
  /\ token
  /\ Apply(ShutdownInput, "Operation", "shutdown", NoCaller)
  /\ UNCHANGED <<owned, drain, handleVars, inbox, retire, readerVars>>

SelectJoin(t) ==
  /\ pc = "select"
  /\ ~token
  /\ t \in Settled
  /\ FinishEffect(t, FALSE, "effect")
  /\ UNCHANGED <<drain, handleVars, inbox, retire, readerVars>>

SelectCommand ==
  /\ pc = "select"
  /\ ~token
  /\ Settled = {}
  /\ inbox # << >>
  /\ inbox' = Tail(inbox)
  /\ Apply(Head(inbox).input, "Operation", "command", Head(inbox).caller)
  /\ UNCHANGED <<owned, drain, handleVars, retire, readerVars>>

-----------------------------------------------------------------------------
(* complete_shutdown's drain: a graceful window, then abort and a window    *)
(* for finalizers, then detach.                                             *)

DrainJoin(t) ==
  /\ pc = "drain"
  /\ t \in Settled
  /\ FinishEffect(t, drain.window = 2, "drain")
  /\ UNCHANGED <<drain, handleVars, inbox, retire, readerVars>>

\* Mutant: the graceful window has no deadline.
MutantShutdownDeadline == FALSE /\ UNCHANGED vars

\* abort_owned on the first deadline.
ShutdownDeadline ==
  /\ pc = "drain"
  /\ drain.window = 1
  /\ DOMAIN owned # {}
  /\ owned' = [t \in DOMAIN owned |->
                 [owned[t] EXCEPT !.cancelled = TRUE, !.aborted = TRUE]]
  /\ drain' = [drain EXCEPT !.window = 2,
                            !.terminal = "ShutdownDeadlineExceeded"]
  /\ UNCHANGED <<state, snapshot, pc, step, exit, handleVars, inbox, admit,
                 retire, readerVars>>

\* detach_all and clear on the second: nothing joins those tasks again.
FinalizerDeadline ==
  /\ pc = "drain"
  /\ drain.window = 2
  /\ DOMAIN owned # {}
  /\ owned' = [t \in {} |-> Running]
  /\ drain' = [drain EXCEPT !.window = 3,
                            !.terminal = "FinalizerDeadlineExceeded"]
  /\ UNCHANGED <<state, snapshot, pc, step, exit, handleVars, inbox, admit,
                 retire, readerVars>>

\* The drained actor publishes, takes the reply slot, answers and returns.
DrainComplete ==
  /\ pc = "drain"
  /\ DOMAIN owned = {}
  /\ snapshot' = state
  /\ response' = IF slot THEN [status |-> "sent", drain |-> drain] ELSE response
  /\ slot' = FALSE
  /\ pc' = "dying"
  /\ exit' = "Returned"
  /\ UNCHANGED <<state, step, owned, drain, closed, token, aborting, handles,
                 inbox, admit, retire, readerVars>>

-----------------------------------------------------------------------------
(* The end of the actor task.  Its future is dropped (ShutdownReplyGuard,   *)
(* JoinSet, then the receiver) before its JoinHandle reports it finished.   *)

\* Mutant: applying an input contains an await point.
MutantAwaitPoint == pc \in {"select", "emit", "drain"}

AwaitPoint == pc \in {"select", "drain"}

ActorAborts ==
  /\ aborting
  /\ AwaitPoint
  /\ pc' = "dying"
  /\ exit' = "Cancelled"
  /\ UNCHANGED <<state, snapshot, step, owned, drain, handleVars, inbox, admit,
                 retire, readerVars>>

DropReplyGuard ==
  /\ pc = "dying"
  /\ pc' = "exiting"
  /\ slot' = FALSE
  /\ response' = IF slot THEN [response EXCEPT !.status = "dropped"]
                         ELSE response
  /\ owned' = [t \in {} |-> Running]
  /\ UNCHANGED <<state, snapshot, step, drain, exit, closed, token, aborting,
                 handles, inbox, admit, retire, readerVars>>

DropQueued ==
  [c \in Callers |->
     IF admit[c].pc = "queued"
       THEN [admit[c] EXCEPT !.pc = "done", !.result = "RunnerRetired"]
       ELSE admit[c]]

\* Dropping the receiver drops every queued command's reply sender.
FinishActor ==
  /\ pc = "exiting"
  /\ pc' = "finished"
  /\ inbox' = << >>
  /\ admit' = DropQueued
  /\ UNCHANGED <<state, snapshot, step, owned, drain, exit, handleVars, retire,
                 readerVars>>

-----------------------------------------------------------------------------
(* RunnerHandle::shutdown, statement by statement: only the first caller    *)
(* gets past the swap.                                                      *)

Advance(r, from, to) ==
  /\ retire[r].pc = from
  /\ retire' = [retire EXCEPT ![r].pc = to]

SwapClosed(r) ==
  /\ retire[r].pc = "idle"
  /\ handles
  /\ closed' = TRUE
  /\ retire' = [retire EXCEPT ![r] =
       IF closed THEN [pc |-> "done", terminal |-> "AlreadyRetired"]
                 ELSE [pc |-> "swapped", terminal |-> "None"]]
  /\ UNCHANGED <<actorVars, token, slot, response, aborting, handles, inbox,
                 admit, readerVars>>

InstallSlot(r) ==
  /\ Advance(r, "swapped", "installed")
  /\ slot' = TRUE
  /\ response' = [status |-> "pending", drain |-> NoDrain]
  /\ UNCHANGED <<actorVars, closed, token, aborting, handles, inbox, admit,
                 readerVars>>

CancelToken(r) ==
  /\ Advance(r, "installed", "cancelled")
  /\ token' = TRUE
  /\ UNCHANGED <<actorVars, closed, slot, response, aborting, handles, inbox,
                 admit, readerVars>>

CheckFinished(r) ==
  /\ Advance(r, "cancelled", "waiting")
  /\ IF pc = "finished"
       THEN /\ slot' = FALSE
            /\ response' = IF slot THEN [response EXCEPT !.status = "dropped"]
                                   ELSE response
       ELSE UNCHANGED <<slot, response>>
  /\ UNCHANGED <<actorVars, closed, token, aborting, handles, inbox, admit,
                 readerVars>>

\* Mutant: a rejected shutdown transition hides a forced drain.
MutantTerminal(outcome) ==
  LET verdict == IF outcome.last = "None" THEN outcome.shutdown
                                          ELSE outcome.last
  IN IF outcome.shutdown = "Rejected" THEN "ShutdownRejected"
     ELSE IF outcome.terminal # "Completed" THEN outcome.terminal
     ELSE IF verdict \in {"Rejected", "Failed", "RecoveryRequired"}
       THEN "CleanupFailed" ELSE "Applied"

\* The RetirementTerminal built from the reply's DrainOutcome.
Terminal(outcome) ==
  LET verdict == IF outcome.last = "None" THEN outcome.shutdown
                                          ELSE outcome.last
  IN IF outcome.terminal # "Completed" THEN outcome.terminal
     ELSE IF outcome.shutdown = "Rejected" THEN "ShutdownRejected"
     ELSE IF verdict \in {"Rejected", "Failed", "RecoveryRequired"}
       THEN "CleanupFailed" ELSE "Applied"

\* `response.await`, then join_actor.
AwaitReply(r) ==
  /\ retire[r].pc = "waiting"
  /\ response.status \in {"sent", "dropped"}
  /\ pc = "finished"
  /\ retire' = [retire EXCEPT ![r] =
       [pc |-> "done",
        terminal |-> IF exit \in {"Panicked", "Cancelled"}
                          \/ response.status # "sent"
                       THEN "ActorFailed" ELSE Terminal(response.drain)]]
  /\ UNCHANGED <<actorVars, handleVars, inbox, admit, readerVars>>

-----------------------------------------------------------------------------
(* abort_for_process_termination and the drop of the last handle.           *)

AbortForProcessTermination ==
  /\ "abort" \in Faults
  /\ handles
  /\ ~aborting
  /\ aborting' = TRUE
  /\ UNCHANGED <<actorVars, closed, token, slot, response, handles, inbox,
                 admit, retire, readerVars>>

\* A call in flight borrows its handle, so the last owner goes after them.
DropHandles ==
  /\ handles
  /\ \A c \in Callers : admit[c].pc \in {"idle", "done"}
  /\ \A r \in Retirers : retire[r].pc \in {"idle", "done"}
  /\ handles' = FALSE
  /\ closed' = TRUE
  /\ token' = TRUE
  /\ UNCHANGED <<actorVars, slot, response, aborting, inbox, admit, retire,
                 readerVars>>

-----------------------------------------------------------------------------
(* The effect tasks and a reader woken by the observer.                     *)

TaskSettles(t, outcome) ==
  /\ t \in DOMAIN owned
  /\ owned[t].outcome.kind = "running"
  /\ owned' = [owned EXCEPT ![t].outcome = outcome]
  /\ UNCHANGED <<state, snapshot, pc, step, drain, exit, handleVars, inbox,
                 admit, retire, readerVars>>

TaskCompletes(t) ==
  \E input \in Completes(owned[t].effect, owned[t].cancelled) :
    TaskSettles(t, [kind |-> "ok", input |-> input])

TaskPanics(t) == TaskSettles(t, [kind |-> "panicked", input |-> NoInput])

TaskAborts(t) ==
  /\ owned[t].aborted
  /\ TaskSettles(t, [kind |-> "aborted", input |-> NoInput])

ReadSnapshot ==
  /\ signal
  /\ signal' = FALSE
  /\ seen' = snapshot
  /\ UNCHANGED <<actorVars, handleVars, inbox, admit, retire>>

-----------------------------------------------------------------------------
AdmitNext == \E c \in Callers :
  \/ \E input \in Admissible : LoadClosed(c, input)
  \/ TrySend(c)

ActorNext ==
  \/ Notify \/ ObserverPanics \/ Emit \/ Settle
  \/ SelectShutdown \/ SelectCommand
  \/ \E t \in DOMAIN owned : SelectJoin(t) \/ DrainJoin(t)
  \/ ShutdownDeadline \/ FinalizerDeadline \/ DrainComplete
  \/ ActorAborts \/ DropReplyGuard \/ FinishActor

RetireNext == \E r \in Retirers :
  \/ SwapClosed(r) \/ InstallSlot(r) \/ CancelToken(r) \/ CheckFinished(r)
  \/ AwaitReply(r)

TaskNext == \E t \in DOMAIN owned :
  TaskCompletes(t) \/ TaskPanics(t) \/ TaskAborts(t)

Next ==
  \/ AdmitNext \/ ActorNext \/ RetireNext \/ TaskNext
  \/ ReadSnapshot \/ AbortForProcessTermination \/ DropHandles

Spec == Init /\ [][Next]_vars

(* The actor task is polled while it can move, timers fire, and a call that *)
(* has begun keeps running; an effect task owes nothing, it may hang.       *)
Fairness ==
  /\ WF_vars(ActorNext)
  /\ \A c \in Callers : WF_vars(TrySend(c))
  /\ \A r \in Retirers :
       WF_vars(InstallSlot(r) \/ CancelToken(r) \/ CheckFinished(r)
               \/ AwaitReply(r))

FairSpec == Spec /\ Fairness

-----------------------------------------------------------------------------
(* What the kernel promises whatever machine it runs.                       *)

Outcome == [kind: {"running", "panicked", "aborted"}, input: {NoInput}]
           \cup [kind: {"ok"}, input: Input]

Task == [effect: Effect, role: EffectRole, cancelled: BOOLEAN,
         aborted: BOOLEAN, outcome: Outcome]

Step == [effects: Seq(Effect), disposition: Disposition \cup {"Panicked"},
         role: EffectRole,
         origin: {"none", "command", "effect", "shutdown", "drain"},
         caller: Callers \cup {NoCaller}]

Command == [caller: Callers, input: Input]

Drain == [window: {0, 1, 2, 3},
          terminal: {"Completed", "ShutdownDeadlineExceeded",
                     "FinalizerDeadlineExceeded"},
          last: Disposition \cup {"None", "Panicked"},
          shutdown: Disposition \cup {"None", "Panicked"}]

Response == [status: {"none", "pending", "sent", "dropped"}, drain: Drain]

AdmitCall == [pc: {"idle", "loaded", "queued", "done"},
              input: Input \cup {NoInput},
              result: Disposition \cup {"None", "Panicked", "InboxSaturated",
                                       "RunnerRetired"},
              reduced: BOOLEAN]

ShutdownCall ==
  [pc: {"idle", "swapped", "installed", "cancelled", "waiting", "done"},
   terminal: {"None", "Applied", "AlreadyRetired", "ShutdownRejected",
              "CleanupFailed", "ShutdownDeadlineExceeded",
              "FinalizerDeadlineExceeded", "ActorFailed"}]

\* Every variable of the runner keeps the type its Rust counterpart has.
TypeOK ==
  /\ state \in State
  /\ snapshot \in State
  /\ pc \in {"select", "notify", "emit", "drain", "dying", "exiting",
             "finished"}
  /\ step \in Step
  /\ inbox \in Seq(Command)
  /\ DOMAIN owned \subseteq TaskId
  /\ owned \in [DOMAIN owned -> Task]
  /\ drain \in Drain
  /\ closed \in BOOLEAN /\ token \in BOOLEAN /\ slot \in BOOLEAN
  /\ response \in Response
  /\ exit \in {"None", "Returned", "Panicked", "Cancelled"}
  /\ aborting \in BOOLEAN /\ handles \in BOOLEAN /\ signal \in BOOLEAN
  /\ admit \in [Callers -> AdmitCall]
  /\ \A c \in Callers : admit[c].pc = "loaded" => admit[c].input \in Input
  /\ retire \in [Retirers -> ShutdownCall]
  /\ seen \in State

\* The snapshot is published before observers are notified, so a reader woken
\* by a notification never stays on an old snapshot with no later signal.
NoLostWakeup == pc \in {"select", "emit", "drain"} /\ ~signal => seen = snapshot

\* try_admit's InboxSaturated and Retired errors are refusals: unless the actor
\* panicked while applying it, an input so answered was never handed to the
\* reducer, and its caller may retry it.
RefusalIsSafeToRetry ==
  \A c \in Callers :
    admit[c].result \in {"InboxSaturated", "RunnerRetired"} /\ exit # "Panicked"
      => ~admit[c].reduced

\* shutdown's record says how the actor really ended: Applied, CleanupFailed
\* and ShutdownRejected only after every owned task was joined in the graceful
\* window, Forced only for an actor that ran into that deadline, and no
\* terminal but AlreadyRetired while the actor is still running.
TerminalIsTruthful ==
  \A r \in Retirers :
    LET terminal == retire[r].terminal
    IN /\ terminal \in {"Applied", "CleanupFailed", "ShutdownRejected"} =>
            pc = "finished" /\ exit = "Returned" /\ drain.window = 1
       /\ terminal = "ShutdownDeadlineExceeded" =>
            pc = "finished" /\ exit = "Returned" /\ drain.window = 2
       /\ terminal = "FinalizerDeadlineExceeded" =>
            pc = "finished" /\ exit = "Returned" /\ drain.window = 3
       /\ terminal = "ActorFailed" =>
            pc = "finished" /\ exit \in {"Panicked", "Cancelled"}

\* After the shutdown deadline the runner only finalizes: no operation-role
\* completion reaches the reducer, and no new operation-role task is spawned.
ForcedWindowOnlyFinalizes ==
  drain.window = 2 /\ pc \in {"notify", "emit"} => step.role = "Finalizer"

-----------------------------------------------------------------------------
(* The inductive invariants behind those properties.                        *)

Ended == {"dying", "exiting", "finished"}
Applying == {"notify", "emit"}
InFlight == {"swapped", "installed", "cancelled", "waiting"}

\* While the actor lives its state is what Shared::state shows.
PublishInv ==
  /\ pc \notin Ended => snapshot = state
  /\ NoLostWakeup

\* The drain window advances only inside complete_shutdown.
WindowInv ==
  /\ pc = "select" => drain.window = 0
  /\ pc \in Applying /\ step.origin # "drain" => drain.window = 0
  /\ pc \in Applying /\ step.origin = "drain" => drain.window \in {1, 2}
  /\ pc = "drain" => drain.window # 0
  /\ drain.window = 3 => DOMAIN owned = {}
  /\ ForcedWindowOnlyFinalizes

\* One try_admit: only the actor's current command, or the one it panicked
\* on, is reduced and not yet answered.
CallInv(c) ==
  /\ admit[c].pc \in {"loaded", "queued"} => admit[c].result = "None"
  /\ admit[c].pc = "loaded" => ~admit[c].reduced
  /\ admit[c].pc = "queued" /\ admit[c].reduced =>
       exit = "Panicked" \/ (pc \in Applying /\ step.caller = c)
  /\ pc \in Applying /\ step.caller = c => admit[c].pc = "queued"
  /\ admit[c].result \in {"InboxSaturated", "RunnerRetired"} /\ exit # "Panicked"
       => ~admit[c].reduced

\* Every command in the inbox has its own waiting caller, and none of them is
\* the caller being served.
QueueInv ==
  /\ \A i \in 1..Len(inbox) :
       /\ admit[inbox[i].caller].pc = "queued"
       /\ pc \in Applying => step.caller # inbox[i].caller
  /\ \A i, j \in 1..Len(inbox) : inbox[i].caller = inbox[j].caller => i = j

AdmitInv ==
  /\ exit # "None" => pc \in Ended
  /\ \A c \in Callers : CallInv(c)
  /\ QueueInv

\* The drain's verdict names the window it ended in.
DrainInv ==
  /\ drain.window \in {0, 1} => drain.terminal = "Completed"
  /\ drain.window = 2 => drain.terminal = "ShutdownDeadlineExceeded"
  /\ drain.window = 3 => drain.terminal = "FinalizerDeadlineExceeded"

\* The actor drains and returns only after the token; the token comes from the
\* one retirer that installed its reply slot first, or from the last drop.
HandshakeInv ==
  /\ (exit # "None") <=> (pc \in Ended)
  /\ pc = "drain" \/ exit = "Returned" => token
  /\ pc \in Applying /\ step.origin \in {"shutdown", "drain"} => token
  /\ exit = "Returned" => drain.window # 0 /\ ~slot
  /\ token => closed
  /\ slot => response.status = "pending"
  /\ response.status = "sent" => exit = "Returned" /\ response.drain = drain
  /\ response.status = "dropped" => exit \in {"Panicked", "Cancelled"}

\* One retirer at most is past the swap.
RetirerInv ==
  /\ \A r \in Retirers :
       /\ retire[r].pc \in InFlight => closed /\ handles
       /\ retire[r].pc \in {"swapped", "installed"} => ~token
  /\ \A r, q \in Retirers :
       retire[r].pc \in InFlight /\ retire[q].pc \in InFlight => r = q

RetireInv == DrainInv /\ HandshakeInv /\ RetirerInv /\ TerminalIsTruthful

\* An actor panic or abort must release a waiting shutdown caller: every
\* shutdown call that began returns.
ShutdownReturns ==
  \A r \in Retirers : retire[r].pc \in {"swapped", "waiting"}
                        ~> retire[r].pc = "done"
=============================================================================
