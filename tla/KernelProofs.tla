---------------------------- MODULE KernelProofs ----------------------------
(***************************************************************************)
(* Proofs about the runner for every machine, every number of callers,     *)
(* retirers and tasks, and every inbox capacity.                           *)
(***************************************************************************)
EXTENDS Kernel, TLAPS

USE DEF Disposition, TaskFailure, EffectRole

\* Applying an input keeps the types of everything it assigns.
LEMMA ApplyType ==
  ASSUME TypeOK,
         NEW input \in Input, NEW role \in EffectRole,
         NEW origin \in {"none", "command", "effect", "shutdown", "drain"},
         NEW caller \in Callers \cup {NoCaller},
         Apply(input, role, origin, caller)
  PROVE  /\ state' \in State
         /\ snapshot' \in State
         /\ pc' \in {"notify", "dying"}
         /\ step' \in Step
         /\ exit' \in {"None", "Returned", "Panicked", "Cancelled"}
         /\ admit' \in [Callers -> AdmitCall]
         /\ \A d \in Callers : admit'[d].pc = "loaded" => admit'[d].input \in Input
<1> DEFINE transition == Reduce(state, input)
<1>1. transition \in Transition
  BY MachineAssumption DEF TypeOK
<1>2. /\ transition.disposition \in Disposition \cup {"Panicked"}
      /\ transition.state \in State
      /\ transition.effects \in Seq(Effect)
  BY <1>1 DEF Transition
<1>3. << >> \in Seq(Effect)
  OBVIOUS
<1>4. state' \in State /\ snapshot' \in State
  BY <1>2 DEF TypeOK, Apply, Published
<1>5. pc' \in {"notify", "dying"}
  BY DEF Apply
<1>6. exit' \in {"None", "Returned", "Panicked", "Cancelled"}
  BY DEF TypeOK, Apply
<1>7. step' \in Step
  BY <1>2, <1>3 DEF Apply, Step
<1>8. admit' \in [Callers -> AdmitCall]
  <2> SUFFICES ASSUME NEW c \in Callers PROVE admit'[c] \in AdmitCall
    BY DEF Apply
  <2>1. admit[c] \in AdmitCall
    BY DEF TypeOK
  <2>2. QED
    BY <2>1 DEF Apply, AdmitCall
<1>9. \A d \in Callers : admit'[d].pc = "loaded" => admit'[d].input \in Input
  <2> SUFFICES ASSUME NEW c \in Callers
               PROVE  admit'[c].pc = "loaded" => admit'[c].input \in Input
    OBVIOUS
  <2>1. admit[c] \in AdmitCall
    BY DEF TypeOK
  <2>2. admit'[c].pc = admit[c].pc /\ admit'[c].input = admit[c].input
    BY <2>1 DEF Apply, AdmitCall
  <2>3. QED
    BY <2>2 DEF TypeOK
<1>10. QED
  BY <1>4, <1>5, <1>6, <1>7, <1>8, <1>9

\* A joined task turns into one well-typed input.
LEMMA FinishType ==
  ASSUME TypeOK, NEW t \in Settled, NEW force \in BOOLEAN,
         NEW origin \in {"effect", "drain"},
         FinishEffect(t, force, origin)
  PROVE  /\ state' \in State
         /\ snapshot' \in State
         /\ pc' \in {"notify", "dying"}
         /\ step' \in Step
         /\ exit' \in {"None", "Returned", "Panicked", "Cancelled"}
         /\ admit' \in [Callers -> AdmitCall]
         /\ \A d \in Callers : admit'[d].pc = "loaded" => admit'[d].input \in Input
         /\ DOMAIN owned' \subseteq TaskId
         /\ owned' \in [DOMAIN owned' -> Task]
<1> DEFINE task == owned[t]
<1>1. t \in DOMAIN owned /\ task \in Task
  BY DEF TypeOK, Settled
<1>2. /\ task.effect \in Effect /\ task.role \in EffectRole
      /\ task.outcome \in Outcome
  BY <1>1 DEF Task
<1>3. task.outcome.kind = "ok" => task.outcome.input \in Input
  BY <1>2 DEF Outcome
<1>4. TaskFailed(task.effect.correlation, FailureOf(task)) \in Input
  BY <1>2, MachineAssumption DEF FailureOf
<1>5. \/ Apply(TaskFailed(task.effect.correlation, FailureOf(task)),
               "Finalizer", origin, NoCaller)
      \/ task.outcome.kind = "ok"
         /\ Apply(task.outcome.input, task.role, origin, NoCaller)
  BY DEF FinishEffect
<1>6. /\ state' \in State
      /\ snapshot' \in State
      /\ pc' \in {"notify", "dying"}
      /\ step' \in Step
      /\ exit' \in {"None", "Returned", "Panicked", "Cancelled"}
      /\ admit' \in [Callers -> AdmitCall]
      /\ \A d \in Callers : admit'[d].pc = "loaded" => admit'[d].input \in Input
  <2>1. CASE Apply(TaskFailed(task.effect.correlation, FailureOf(task)),
                   "Finalizer", origin, NoCaller)
    BY <2>1, <1>4, ApplyType
  <2>2. CASE task.outcome.kind = "ok"
             /\ Apply(task.outcome.input, task.role, origin, NoCaller)
    BY <2>2, <1>2, <1>3, ApplyType
  <2>3. QED
    BY <2>1, <2>2, <1>5
<1>7. owned' = [u \in DOMAIN owned \ {t} |-> owned[u]]
  BY DEF FinishEffect
<1>8. DOMAIN owned' \subseteq TaskId /\ owned' \in [DOMAIN owned' -> Task]
  BY <1>7 DEF TypeOK
<1>9. QED
  BY <1>6, <1>8

-----------------------------------------------------------------------------
\* The runner's variables keep their types in every reachable state.
THEOREM TypeCorrect == Spec => []TypeOK
<1>1. Init => TypeOK
  <2> SUFFICES ASSUME Init PROVE TypeOK
    OBVIOUS
  <2>1. NoDrain \in Drain
    BY DEF NoDrain, Drain
  <2>2. Quiet \in Step
    BY DEF Quiet, Step
  <2>3. Idle \in AdmitCall
    BY DEF Idle, AdmitCall
  <2>4. response \in Response
    BY <2>1 DEF Init, Response
  <2>5. retire \in [Retirers -> ShutdownCall]
    BY DEF Init, ShutdownCall
  <2>6. inbox \in Seq(Command)
    BY DEF Init
  <2>7. DOMAIN owned \subseteq TaskId /\ owned \in [DOMAIN owned -> Task]
    BY DEF Init
  <2>8. /\ admit \in [Callers -> AdmitCall]
        /\ \A c \in Callers : admit[c].pc # "loaded"
    BY <2>3 DEF Init, Idle
  <2>9. QED
    BY <2>1, <2>2, <2>4, <2>5, <2>6, <2>7, <2>8, MachineAssumption
    DEF Init, TypeOK
<1>2. TypeOK /\ [Next]_vars => TypeOK'
  <2> SUFFICES ASSUME TypeOK, [Next]_vars PROVE TypeOK'
    OBVIOUS
  <2> USE DEF actorVars, handleVars, readerVars
  <2>1. ASSUME NEW c \in Callers, NEW input \in Admissible,
               LoadClosed(c, input)
        PROVE  TypeOK'
    <3>1. admit' \in [Callers -> AdmitCall]
      BY <2>1, MachineAssumption DEF TypeOK, LoadClosed, Idle, AdmitCall
    <3>2. \A d \in Callers : admit'[d].pc = "loaded" => admit'[d].input \in Input
      BY <2>1, MachineAssumption DEF TypeOK, LoadClosed, Idle, AdmitCall
    <3>3. QED
      BY <2>1, <3>1, <3>2 DEF TypeOK, LoadClosed
  <2>2. ASSUME NEW c \in Callers, TrySend(c) PROVE TypeOK'
    <3>1. admit' \in [Callers -> AdmitCall]
      <4>1. admit \in [Callers -> AdmitCall]
        BY DEF TypeOK
      <4>2. PICK p \in {"done", "queued"}, q \in AdmitCall :
              /\ q.result \in {"RunnerRetired", "InboxSaturated", admit[c].result}
              /\ admit' = [admit EXCEPT ![c].pc = p, ![c].result = q.result]
        BY <2>2, <4>1 DEF TrySend, AdmitCall
      <4>3. QED
        BY ZenonT(60), <4>1, <4>2 DEF AdmitCall
    <3>2. \A d \in Callers : admit'[d].pc = "loaded" => admit'[d].input \in Input
      <4> SUFFICES ASSUME NEW d \in Callers
                   PROVE  admit'[d].pc = "loaded" => admit'[d].input \in Input
        OBVIOUS
      <4>1. d = c => admit'[d].pc # "loaded"
        BY <2>2 DEF TypeOK, TrySend, AdmitCall
      <4>2. d # c => admit'[d] = admit[d]
        BY <2>2 DEF TypeOK, TrySend
      <4>3. QED
        BY <4>1, <4>2 DEF TypeOK
    <3>3. [caller |-> c, input |-> admit[c].input] \in Command
      BY <2>2 DEF TypeOK, TrySend, Command
    <3>4. inbox' \in Seq(Command)
      <4>1. inbox \in Seq(Command)
        BY DEF TypeOK
      <4>2. inbox' = inbox \/ inbox' = Append(inbox, [caller |-> c, input |-> admit[c].input])
        BY <2>2 DEF TrySend
      <4>3. QED
        BY <3>3, <4>1, <4>2
    <3>5. QED
      BY <2>2, <3>1, <3>2, <3>4 DEF TypeOK, TrySend
  <2>3. CASE Notify
    BY <2>3 DEF TypeOK, Notify
  <2>4. CASE ObserverPanics
    BY <2>4 DEF TypeOK, ObserverPanics
  <2>5. CASE Emit
    <3>1. Head(step.effects) \in Effect /\ Tail(step.effects) \in Seq(Effect)
      BY <2>5 DEF TypeOK, Emit, Step
    <3>2. step' \in Step
      BY <2>5, <3>1 DEF TypeOK, Emit, Step
    <3>3. DOMAIN owned' \subseteq TaskId /\ owned' \in [DOMAIN owned' -> Task]
      <4>1. CASE owned' = CancelOwned(Head(step.effects).correlation)
        BY ZenonT(60), <4>1 DEF TypeOK, CancelOwned, Task
      <4>2. CASE /\ DOMAIN owned # TaskId
                 /\ owned' = SpawnOwned(Head(step.effects))
        <5>1. FreeTask \in TaskId
          BY <4>2 DEF FreeTask, TypeOK
        <5>2. OwnedEffect(Head(step.effects), step.role) \in Task
          BY <3>1 DEF OwnedEffect, Running, Task, Outcome, TypeOK, Step
        <5>3. QED
          BY <4>2, <5>1, <5>2 DEF TypeOK, SpawnOwned
      <4>3. QED
        BY <2>5, <4>1, <4>2 DEF Emit
    <3>4. QED
      BY <2>5, <3>2, <3>3 DEF TypeOK, Emit
  <2>6. CASE Settle
    <3>1. step.disposition \in Disposition \cup {"Panicked"}
      BY DEF TypeOK, Step
    <3>2. drain' \in Drain
      <4>1. CASE step.origin = "shutdown"
        BY <2>6, <3>1, <4>1 DEF TypeOK, Settle, Drain
      <4>2. CASE step.origin = "drain"
        BY <2>6, <3>1, <4>2 DEF TypeOK, Settle, Drain
      <4>3. CASE step.origin \notin {"shutdown", "drain"}
        BY <2>6, <4>3 DEF TypeOK, Settle
      <4>4. QED
        BY <4>1, <4>2, <4>3
    <3>3. admit' \in [Callers -> AdmitCall]
      <4> SUFFICES ASSUME NEW c \in Callers PROVE admit'[c] \in AdmitCall
        BY <2>6 DEF Settle
      <4>1. admit[c] \in AdmitCall
        BY DEF TypeOK
      <4>2. QED
        BY <2>6, <3>1, <4>1 DEF Settle, AdmitCall
    <3>4. Quiet \in Step
      BY DEF Quiet, Step
    <3>5. \A d \in Callers : admit'[d].pc = "loaded" => admit'[d].input \in Input
      BY ZenonT(60), <2>6 DEF TypeOK, Settle, AdmitCall
    <3>6. QED
      BY <2>6, <3>2, <3>3, <3>4, <3>5 DEF TypeOK, Settle
  <2>7. CASE SelectShutdown
    BY <2>7, ApplyType, MachineAssumption DEF TypeOK, SelectShutdown
  <2>8. CASE SelectCommand
    <3>1. Head(inbox) \in Command /\ Tail(inbox) \in Seq(Command)
      BY <2>8 DEF TypeOK, SelectCommand
    <3>2. Head(inbox).input \in Input /\ Head(inbox).caller \in Callers
      BY <3>1 DEF Command
    <3>3. QED
      BY <2>8, <3>1, <3>2, ApplyType DEF TypeOK, SelectCommand
  <2>9. ASSUME NEW t \in DOMAIN owned, SelectJoin(t) PROVE TypeOK'
    BY <2>9, FinishType DEF TypeOK, SelectJoin
  <2>10. ASSUME NEW t \in DOMAIN owned, DrainJoin(t) PROVE TypeOK'
    BY <2>10, FinishType DEF TypeOK, DrainJoin
  <2>11. CASE ShutdownDeadline
    <3>1. drain' \in Drain
      BY <2>11 DEF TypeOK, ShutdownDeadline, Drain
    <3>2. DOMAIN owned' = DOMAIN owned /\ owned' \in [DOMAIN owned -> Task]
      BY <2>11 DEF TypeOK, ShutdownDeadline, Task
    <3>3. QED
      BY <2>11, <3>1, <3>2 DEF TypeOK, ShutdownDeadline
  <2>12. CASE FinalizerDeadline
    <3>1. drain' \in Drain
      BY <2>12 DEF TypeOK, FinalizerDeadline, Drain
    <3>2. DOMAIN owned' \subseteq TaskId /\ owned' \in [DOMAIN owned' -> Task]
      BY <2>12 DEF FinalizerDeadline
    <3>3. QED
      BY <2>12, <3>1, <3>2 DEF TypeOK, FinalizerDeadline
  <2>13. CASE DrainComplete
    BY <2>13 DEF TypeOK, DrainComplete, Response
  <2>14. CASE ActorAborts
    BY <2>14 DEF TypeOK, ActorAborts
  <2>15. CASE DropReplyGuard
    BY <2>15 DEF TypeOK, DropReplyGuard, Response
  <2>16. CASE FinishActor
    <3>1. admit' \in [Callers -> AdmitCall]
      BY ZenonT(60), <2>16 DEF TypeOK, FinishActor, DropQueued, AdmitCall
    <3>2. \A d \in Callers : admit'[d].pc = "loaded" => admit'[d].input \in Input
      BY <2>16 DEF TypeOK, FinishActor, DropQueued, AdmitCall
    <3>3. QED
      BY <2>16, <3>1, <3>2 DEF TypeOK, FinishActor
  <2>17. ASSUME NEW r \in Retirers, SwapClosed(r) PROVE TypeOK'
    BY <2>17 DEF TypeOK, SwapClosed, ShutdownCall
  <2>18. ASSUME NEW r \in Retirers, InstallSlot(r) PROVE TypeOK'
    <3>1. NoDrain \in Drain
      BY DEF NoDrain, Drain
    <3>2. QED
      BY <2>18, <3>1 DEF TypeOK, InstallSlot, Advance, ShutdownCall, Response
  <2>19. ASSUME NEW r \in Retirers, CancelToken(r) PROVE TypeOK'
    BY <2>19 DEF TypeOK, CancelToken, Advance, ShutdownCall
  <2>20. ASSUME NEW r \in Retirers, CheckFinished(r) PROVE TypeOK'
    <3>1. retire' \in [Retirers -> ShutdownCall]
      BY <2>20 DEF TypeOK, CheckFinished, Advance, ShutdownCall
    <3>2. slot' \in BOOLEAN /\ response' \in Response
      BY <2>20 DEF TypeOK, CheckFinished, Response
    <3>3. QED
      BY <2>20, <3>1, <3>2 DEF TypeOK, CheckFinished
  <2>21. ASSUME NEW r \in Retirers, AwaitReply(r) PROVE TypeOK'
    <3>1. Terminal(response.drain) \in
            {"Applied", "ShutdownRejected", "CleanupFailed",
             "ShutdownDeadlineExceeded", "FinalizerDeadlineExceeded"}
      BY DEF TypeOK, Terminal, Response, Drain
    <3>2. retire' \in [Retirers -> ShutdownCall]
      BY <2>21, <3>1 DEF TypeOK, AwaitReply, ShutdownCall
    <3>3. QED
      BY <2>21, <3>2 DEF TypeOK, AwaitReply
  <2>22. ASSUME NEW t \in DOMAIN owned,
                TaskCompletes(t) \/ TaskPanics(t) \/ TaskAborts(t)
         PROVE  TypeOK'
    <3>1. owned[t].effect \in Effect /\ owned[t].cancelled \in BOOLEAN
      BY DEF TypeOK, Task
    <3>2. PICK outcome \in Outcome : TaskSettles(t, outcome)
      BY <2>22, <3>1, MachineAssumption
      DEF TaskCompletes, TaskPanics, TaskAborts, Outcome
    <3>3. DOMAIN owned' = DOMAIN owned /\ owned' \in [DOMAIN owned -> Task]
      BY <3>2 DEF TypeOK, TaskSettles, Task
    <3>4. QED
      BY <3>2, <3>3 DEF TypeOK, TaskSettles
  <2>23. CASE ReadSnapshot
    BY ZenonT(60), <2>23 DEF TypeOK, ReadSnapshot
  <2>24. CASE AbortForProcessTermination
    BY <2>24 DEF TypeOK, AbortForProcessTermination
  <2>25. CASE DropHandles
    BY <2>25 DEF TypeOK, DropHandles
  <2>26. CASE UNCHANGED vars
    BY <2>26 DEF TypeOK, vars
  <2>27. QED
    BY <2>1, <2>2, <2>3, <2>4, <2>5, <2>6, <2>7, <2>8, <2>9, <2>10, <2>11,
       <2>12, <2>13, <2>14, <2>15, <2>16, <2>17, <2>18, <2>19, <2>20, <2>21,
       <2>22, <2>23, <2>24, <2>25, <2>26
    DEF Next, AdmitNext, ActorNext, RetireNext, TaskNext
<1>3. QED
  BY <1>1, <1>2, PTL DEF Spec

-----------------------------------------------------------------------------
\* try_admit touches nothing of the actor or of the shutdown handshake.
LEMMA AdmitFrame ==
  AdmitNext => UNCHANGED <<actorVars, handleVars, retire, readerVars>>
<1>1. ASSUME NEW c \in Callers, NEW input, LoadClosed(c, input)
      PROVE  UNCHANGED <<actorVars, handleVars, retire, readerVars>>
  BY <1>1 DEF LoadClosed
<1>2. ASSUME NEW c \in Callers, TrySend(c)
      PROVE  UNCHANGED <<actorVars, handleVars, retire, readerVars>>
  BY <1>2 DEF TrySend
<1>3. QED
  BY <1>1, <1>2 DEF AdmitNext

\* A notified reader finds the state it was notified of: for every machine, an
\* idle actor with no pending signal has its snapshot seen.
THEOREM SnapshotBeforeNotification == Spec => []NoLostWakeup
<1>1. Init => PublishInv
  BY DEF Init, PublishInv, NoLostWakeup, Ended
<1>2. PublishInv /\ [Next]_vars => PublishInv'
  <2> SUFFICES ASSUME PublishInv, [Next]_vars PROVE PublishInv'
    OBVIOUS
  <2> USE DEF actorVars, handleVars, readerVars, PublishInv, NoLostWakeup, Ended
  <2>1. ASSUME NEW input, NEW role, NEW origin, NEW caller,
               Apply(input, role, origin, caller)
        PROVE  PublishInv'
    BY <2>1 DEF Apply, Published
  <2>2. CASE AdmitNext
    BY <2>2, AdmitFrame
  <2>3. CASE Notify \/ ObserverPanics \/ Emit \/ Settle
    BY <2>3 DEF Notify, ObserverPanics, Emit, Settle
  <2>4. CASE SelectShutdown \/ SelectCommand
    BY <2>1, <2>4 DEF SelectShutdown, SelectCommand
  <2>5. ASSUME NEW t \in DOMAIN owned, SelectJoin(t) \/ DrainJoin(t)
        PROVE  PublishInv'
    BY <2>1, <2>5 DEF SelectJoin, DrainJoin, FinishEffect
  <2>6. CASE ShutdownDeadline \/ FinalizerDeadline \/ DrainComplete
    BY <2>6 DEF ShutdownDeadline, FinalizerDeadline, DrainComplete
  <2>7. CASE ActorAborts \/ DropReplyGuard \/ FinishActor
    BY <2>7 DEF ActorAborts, DropReplyGuard, FinishActor
  <2>8. CASE RetireNext
    BY <2>8 DEF RetireNext, SwapClosed, InstallSlot, CancelToken,
                CheckFinished, AwaitReply
  <2>9. CASE TaskNext
    BY <2>9 DEF TaskNext, TaskCompletes, TaskPanics, TaskAborts, TaskSettles
  <2>10. CASE ReadSnapshot \/ AbortForProcessTermination \/ DropHandles
    BY <2>10 DEF ReadSnapshot, AbortForProcessTermination, DropHandles
  <2>11. CASE UNCHANGED vars
    BY <2>11 DEF vars
  <2>12. QED
    BY <2>2, <2>3, <2>4, <2>5, <2>6, <2>7, <2>8, <2>9, <2>10, <2>11
    DEF Next, ActorNext
<1>3. PublishInv => NoLostWakeup
  BY DEF PublishInv
<1>4. QED
  BY <1>1, <1>2, <1>3, PTL DEF Spec

-----------------------------------------------------------------------------
\* The drain window moves with complete_shutdown and nowhere else.
LEMMA WindowInvariant == Spec => []WindowInv
<1>1. Init => WindowInv
  BY DEF Init, WindowInv, ForcedWindowOnlyFinalizes, NoDrain, Applying
<1>2. TypeOK /\ WindowInv /\ [Next]_vars => WindowInv'
  <2> SUFFICES ASSUME TypeOK, WindowInv, [Next]_vars PROVE WindowInv'
    OBVIOUS
  <2> USE DEF actorVars, handleVars, readerVars, WindowInv,
              ForcedWindowOnlyFinalizes, Applying
  <2>1. ASSUME NEW input, NEW role, NEW origin, NEW caller,
               Apply(input, role, origin, caller)
        PROVE  /\ pc' \in {"notify", "dying"}
               /\ step'.origin = origin /\ step'.role = role
    BY <2>1 DEF Apply
  <2>2. CASE AdmitNext
    BY <2>2, AdmitFrame
  <2>3. CASE Notify \/ ObserverPanics
    BY <2>3 DEF Notify, ObserverPanics
  <2>4. CASE Emit
    <3>1. /\ step'.origin = step.origin /\ step'.role = step.role
          /\ pc' = pc /\ drain' = drain
      BY <2>4 DEF Emit, TypeOK, Step
    <3>2. drain.window # 3
      BY <2>4 DEF Emit
    <3>3. QED
      BY <2>4, <3>1, <3>2 DEF Emit
  <2>5. CASE Settle
    <3>1. CASE step.origin = "shutdown"
      <4>1. pc' = "drain" /\ drain'.window = 1
        BY <2>5, <3>1 DEF Settle, TypeOK, Drain
      <4>2. QED
        BY <4>1
    <3>2. CASE step.origin = "drain"
      <4>1. pc' = "drain" /\ drain'.window = drain.window /\ owned' = owned
        BY <2>5, <3>2 DEF Settle, TypeOK, Drain
      <4>2. drain.window \in {1, 2}
        BY <2>5, <3>2 DEF Settle
      <4>3. QED
        BY <4>1, <4>2
    <3>3. CASE step.origin \notin {"shutdown", "drain"}
      BY <2>5, <3>3 DEF Settle
    <3>4. QED
      BY <3>1, <3>2, <3>3
  <2>6. CASE SelectShutdown \/ SelectCommand
    BY <2>1, <2>6 DEF SelectShutdown, SelectCommand
  <2>7. ASSUME NEW t \in DOMAIN owned, SelectJoin(t) PROVE WindowInv'
    <3>1. drain'.window = 0
      BY <2>7 DEF SelectJoin
    <3>2. step'.origin = "effect" /\ pc' \in {"notify", "dying"}
      BY <2>1, <2>7 DEF SelectJoin, FinishEffect
    <3>3. QED
      BY <3>1, <3>2
  <2>8. ASSUME NEW t \in DOMAIN owned, DrainJoin(t) PROVE WindowInv'
    <3>1. owned[t].role \in EffectRole
      BY <2>8 DEF TypeOK, Task
    <3>2. drain.window \in {1, 2}
      BY <2>8 DEF DrainJoin, TypeOK, Drain
    <3>3. /\ step'.origin = "drain" /\ pc' \in {"notify", "dying"}
          /\ drain.window = 2 => step'.role = "Finalizer"
      <4>1. CASE \/ owned[t].outcome.kind # "ok"
                 \/ CompletionConflicts(owned[t], drain.window = 2)
        BY <2>1, <2>8, <4>1 DEF DrainJoin, FinishEffect
      <4>2. CASE /\ owned[t].outcome.kind = "ok"
                 /\ ~CompletionConflicts(owned[t], drain.window = 2)
        <5>1. drain.window = 2 => owned[t].role = "Finalizer"
          BY <3>1, <4>2 DEF CompletionConflicts
        <5>2. QED
          BY <2>1, <2>8, <4>2, <5>1 DEF DrainJoin, FinishEffect
      <4>3. QED
        BY <4>1, <4>2
    <3>4. QED
      BY <2>8, <3>2, <3>3 DEF DrainJoin, FinishEffect
  <2>9. CASE ShutdownDeadline
    <3>1. drain'.window = 2 /\ pc' = "drain"
      BY <2>9 DEF ShutdownDeadline, TypeOK, Drain
    <3>2. QED
      BY <3>1
  <2>10. CASE FinalizerDeadline
    <3>1. drain'.window = 3 /\ DOMAIN owned' = {}
      BY <2>10 DEF FinalizerDeadline, TypeOK, Drain
    <3>2. QED
      BY <2>10, <3>1 DEF FinalizerDeadline
  <2>11. CASE DrainComplete \/ ActorAborts \/ DropReplyGuard \/ FinishActor
    BY <2>11 DEF DrainComplete, ActorAborts, DropReplyGuard, FinishActor
  <2>12. CASE RetireNext
    BY <2>12 DEF RetireNext, SwapClosed, InstallSlot, CancelToken,
                 CheckFinished, AwaitReply
  <2>13. CASE TaskNext
    <3>1. DOMAIN owned' = DOMAIN owned
      BY <2>13 DEF TaskNext, TaskCompletes, TaskPanics, TaskAborts,
                   TaskSettles, TypeOK
    <3>2. QED
      BY <2>13, <3>1 DEF TaskNext, TaskCompletes, TaskPanics, TaskAborts,
                         TaskSettles
  <2>14. CASE ReadSnapshot \/ AbortForProcessTermination \/ DropHandles
    BY <2>14 DEF ReadSnapshot, AbortForProcessTermination, DropHandles
  <2>15. CASE UNCHANGED vars
    BY <2>15 DEF vars
  <2>16. QED
    BY <2>2, <2>3, <2>4, <2>5, <2>6, <2>7, <2>8, <2>9, <2>10, <2>11, <2>12,
       <2>13, <2>14, <2>15
    DEF Next, ActorNext
<1>3. QED
  BY <1>1, <1>2, TypeCorrect, PTL DEF Spec

\* Once the shutdown deadline has passed, the only inputs applied are
\* finalizers' and the only tasks spawned are finalizers.
THEOREM ForcedWindow == Spec => []ForcedWindowOnlyFinalizes
<1>1. WindowInv => ForcedWindowOnlyFinalizes
  BY DEF WindowInv
<1>2. QED
  BY <1>1, WindowInvariant, PTL

-----------------------------------------------------------------------------
\* The inbox only holds commands of callers.
LEMMA QueuedCaller ==
  ASSUME TypeOK, NEW i \in 1..Len(inbox)
  PROVE  inbox[i].caller \in Callers
<1>1. inbox[i] \in Command
  BY DEF TypeOK
<1>2. QED
  BY <1>1 DEF Command

\* Applying an input for nobody leaves every call as it was.
LEMMA ApplyForNobody ==
  ASSUME TypeOK, AdmitInv, pc \in {"select", "drain"}, inbox' = inbox,
         NEW input, NEW role, NEW origin, Apply(input, role, origin, NoCaller)
  PROVE  AdmitInv'
<1> USE DEF AdmitInv, Ended, Applying
<1>1. admit' = admit
  BY RunnerAssumption DEF Apply, TypeOK
<1>2. /\ exit = "None" /\ step'.caller = NoCaller
      /\ \/ pc' = "notify" /\ exit' = "None"
         \/ pc' = "dying" /\ exit' = "Panicked"
  BY DEF Apply
<1>3. ASSUME NEW c \in Callers PROVE CallInv(c)'
  BY <1>1, <1>2, <1>3, RunnerAssumption DEF CallInv
<1>4. QueueInv'
  <2>1. \A i \in 1..Len(inbox) : inbox[i].caller # NoCaller
    BY RunnerAssumption, QueuedCaller
  <2>2. QED
    BY <1>1, <1>2, <2>1 DEF QueueInv
<1>5. QED
  BY <1>2, <1>3, <1>4

\* InboxSaturated and Retired are safe to retry: unless the actor panicked on
\* it, the refused input never reached the reducer, for every machine and
\* every interleaving of admission, shutdown and abort.
THEOREM RefusalIsSafe == Spec => []RefusalIsSafeToRetry
<1>1. Init => AdmitInv
  BY DEF Init, AdmitInv, CallInv, QueueInv, Idle, Quiet, Applying, Ended
<1>2. TypeOK /\ AdmitInv /\ [Next]_vars => AdmitInv'
  <2> SUFFICES ASSUME TypeOK, AdmitInv, [Next]_vars PROVE AdmitInv'
    OBVIOUS
  <2> USE DEF actorVars, handleVars, readerVars, AdmitInv, Ended, Applying
  <2>1. ASSUME NEW c \in Callers, NEW input \in Admissible,
               LoadClosed(c, input)
        PROVE  AdmitInv'
    <3>1. /\ admit[c].pc \in {"idle", "done"}
          /\ admit'[c].pc \in {"loaded", "done"} /\ ~admit'[c].reduced
          /\ admit'[c].pc = "loaded" => admit'[c].result = "None"
          /\ \A d \in Callers : d # c => admit'[d] = admit[d]
      BY <2>1 DEF LoadClosed, Idle, TypeOK, AdmitCall
    <3>2. UNCHANGED <<pc, step, exit, inbox>>
      BY <2>1 DEF LoadClosed
    <3>3. ASSUME NEW d \in Callers PROVE CallInv(d)'
      BY <3>1, <3>2, <3>3 DEF CallInv
    <3>4. QueueInv'
      <4>1. \A i \in 1..Len(inbox) : inbox[i].caller \in Callers \ {c}
        BY <3>1, QueuedCaller DEF QueueInv
      <4>2. QED
        BY <3>1, <3>2, <4>1 DEF QueueInv
    <3>5. QED
      BY <3>2, <3>3, <3>4
  <2>2. ASSUME NEW c \in Callers, TrySend(c) PROVE AdmitInv'
    <3>1. /\ admit[c].pc = "loaded" /\ admit'[c].reduced = admit[c].reduced
          /\ admit'[c].pc \in {"queued", "done"}
          /\ admit'[c].pc = "queued" => admit'[c].result = admit[c].result
          /\ \A d \in Callers : d # c => admit'[d] = admit[d]
      BY <2>2 DEF TrySend, TypeOK, AdmitCall
    <3>2. UNCHANGED <<pc, step, exit>>
      BY <2>2 DEF TrySend
    <3>3. ASSUME NEW d \in Callers PROVE CallInv(d)'
      BY <3>1, <3>2, <3>3 DEF CallInv, TypeOK, AdmitCall
    <3>4. \A i \in 1..Len(inbox) : inbox[i].caller \in Callers \ {c}
      BY <3>1, QueuedCaller DEF QueueInv
    <3>5. pc \in Applying => step.caller # c
      BY <3>1 DEF CallInv
    <3>6. QueueInv'
      <4>1. CASE inbox' = inbox
        BY <3>1, <3>2, <3>4, <4>1 DEF QueueInv
      <4>2. CASE /\ inbox' = Append(inbox, [caller |-> c, input |-> admit[c].input])
                 /\ admit'[c].pc = "queued"
        <5>1. /\ Len(inbox') = Len(inbox) + 1
              /\ \A i \in 1..Len(inbox) : inbox'[i] = inbox[i]
              /\ inbox'[Len(inbox) + 1].caller = c
              /\ Len(inbox) \in Nat
          BY <4>2 DEF TypeOK
        <5>2. QED
          BY <3>1, <3>2, <3>4, <3>5, <4>2, <5>1 DEF QueueInv
      <4>3. QED
        BY <2>2, <4>1, <4>2 DEF TrySend, TypeOK, AdmitCall
    <3>7. QED
      BY <3>2, <3>3, <3>6
  <2>3. CASE Notify
    BY <2>3 DEF Notify, CallInv, QueueInv
  <2>4. CASE ObserverPanics
    BY <2>4 DEF ObserverPanics, CallInv, QueueInv
  <2>5. CASE Emit
    <3>1. step'.caller = step.caller
      BY <2>5 DEF Emit, TypeOK, Step
    <3>2. QED
      BY <2>5, <3>1 DEF Emit, CallInv, QueueInv
  <2>6. CASE Settle
    <3>1. /\ pc = "emit" /\ exit = "None" /\ pc' \in {"select", "drain"}
          /\ UNCHANGED <<exit, inbox>>
      BY <2>6 DEF Settle
    <3>2. ASSUME NEW c \in Callers PROVE CallInv(c)'
      <4>1. CASE c = step.caller
        <5>1. admit'[c].pc = "done" /\ admit'[c].result = step.disposition
          BY ZenonT(60), <2>6, <4>1 DEF Settle, TypeOK, AdmitCall
        <5>2. step.disposition \notin {"InboxSaturated", "RunnerRetired"}
          BY DEF TypeOK, Step
        <5>3. QED
          BY <3>1, <5>1, <5>2 DEF CallInv
      <4>2. CASE c # step.caller
        <5>1. admit'[c] = admit[c]
          BY <2>6, <4>2 DEF Settle
        <5>2. QED
          BY <3>1, <4>2, <5>1 DEF CallInv
      <4>3. QED
        BY <4>1, <4>2
    <3>3. QueueInv'
      <4>1. \A i \in 1..Len(inbox) : /\ inbox[i].caller \in Callers
                                     /\ inbox[i].caller # step.caller
        BY <3>1, QueuedCaller DEF QueueInv
      <4>2. \A c \in Callers : c # step.caller => admit'[c] = admit[c]
        BY <2>6 DEF Settle
      <4>3. QED
        BY <3>1, <4>1, <4>2 DEF QueueInv
    <3>4. QED
      BY <3>1, <3>2, <3>3
  <2>7. CASE SelectShutdown
    BY <2>7, ApplyForNobody DEF SelectShutdown
  <2>8. CASE SelectCommand
    <3> DEFINE c == Head(inbox).caller
    <3>1. /\ inbox \in Seq(Command) /\ inbox # << >> /\ inbox' = Tail(inbox)
          /\ Head(inbox) = inbox[1] /\ Len(inbox) \in Nat \ {0}
      BY <2>8 DEF SelectCommand, TypeOK
    <3>2. c \in Callers /\ admit[c].pc = "queued"
      BY <3>1, QueuedCaller DEF QueueInv
    <3>3. /\ pc = "select" /\ exit = "None" /\ step'.caller = c
          /\ \/ pc' = "notify" /\ exit' = "None"
             \/ pc' = "dying" /\ exit' = "Panicked"
      BY <2>8 DEF SelectCommand, Apply
    <3>4. /\ admit'[c].pc = admit[c].pc /\ admit'[c].result = admit[c].result
          /\ \A d \in Callers : d # c => admit'[d] = admit[d]
      BY <2>8, <3>2 DEF SelectCommand, Apply, TypeOK, AdmitCall
    <3>5. ASSUME NEW d \in Callers PROVE CallInv(d)'
      BY <3>2, <3>3, <3>4, <3>5 DEF CallInv
    <3>6. /\ Len(inbox') = Len(inbox) - 1
          /\ \A i \in 1..Len(inbox') : /\ inbox'[i] = inbox[i + 1]
                                        /\ i + 1 \in 1..Len(inbox)
      BY <3>1
    <3>7. \A i \in 1..Len(inbox') : inbox'[i].caller \in Callers \ {c}
      BY <3>1, <3>6, QueuedCaller DEF QueueInv
    <3>8. QueueInv'
      BY <3>3, <3>4, <3>6, <3>7, <3>1 DEF QueueInv
    <3>9. QED
      BY <3>3, <3>5, <3>8
  <2>9. ASSUME NEW t \in DOMAIN owned, SelectJoin(t) \/ DrainJoin(t)
        PROVE  AdmitInv'
    BY <2>9, ApplyForNobody DEF SelectJoin, DrainJoin, FinishEffect
  <2>10. CASE ShutdownDeadline \/ FinalizerDeadline
    BY <2>10 DEF ShutdownDeadline, FinalizerDeadline, CallInv, QueueInv
  <2>11. CASE DrainComplete
    BY <2>11 DEF DrainComplete, CallInv, QueueInv
  <2>12. CASE ActorAborts
    BY <2>12 DEF ActorAborts, AwaitPoint, CallInv, QueueInv
  <2>13. CASE DropReplyGuard
    BY <2>13 DEF DropReplyGuard, CallInv, QueueInv
  <2>14. CASE FinishActor
    <3>1. /\ pc = "exiting" /\ pc' = "finished" /\ exit' = exit
          /\ inbox' = << >>
      BY <2>14 DEF FinishActor
    <3>2. ASSUME NEW c \in Callers PROVE CallInv(c)'
      <4>1. /\ admit'[c].pc \notin {"loaded", "queued"} \/ admit'[c] = admit[c]
            /\ admit'[c].reduced = admit[c].reduced
            /\ admit[c].pc = "queued" \/ admit'[c] = admit[c]
            /\ admit'[c].pc # "queued"
        BY <2>14 DEF FinishActor, DropQueued, TypeOK, AdmitCall
      <4>2. QED
        BY <3>1, <4>1 DEF CallInv
    <3>3. QueueInv'
      BY <3>1 DEF QueueInv
    <3>4. QED
      BY <3>1, <3>2, <3>3
  <2>15. CASE RetireNext
    BY <2>15 DEF RetireNext, SwapClosed, InstallSlot, CancelToken,
                 CheckFinished, AwaitReply, CallInv, QueueInv
  <2>16. CASE TaskNext
    BY <2>16 DEF TaskNext, TaskCompletes, TaskPanics, TaskAborts, TaskSettles,
                 CallInv, QueueInv
  <2>17. CASE ReadSnapshot \/ AbortForProcessTermination \/ DropHandles
    BY <2>17 DEF ReadSnapshot, AbortForProcessTermination, DropHandles,
                 CallInv, QueueInv
  <2>18. CASE UNCHANGED vars
    BY <2>18 DEF vars, CallInv, QueueInv
  <2>19. QED
    BY <2>1, <2>2, <2>3, <2>4, <2>5, <2>6, <2>7, <2>8, <2>9, <2>10, <2>11,
       <2>12, <2>13, <2>14, <2>15, <2>16, <2>17, <2>18
    DEF Next, AdmitNext, ActorNext
<1>3. AdmitInv => RefusalIsSafeToRetry
  BY DEF AdmitInv, CallInv, RefusalIsSafeToRetry
<1>4. QED
  BY <1>1, <1>2, <1>3, TypeCorrect, PTL DEF Spec

-----------------------------------------------------------------------------
\* Applying an input leaves the handshake alone; a panic ends the actor.
LEMMA ApplyHandshake ==
  ASSUME TypeOK, RetireInv, pc \in {"select", "drain"},
         UNCHANGED <<drain, handleVars, retire>>,
         NEW input, NEW role, NEW origin, NEW caller,
         Apply(input, role, origin, caller),
         origin \in {"shutdown", "drain"} => token
  PROVE  RetireInv'
<1> USE DEF RetireInv, Ended, Applying, handleVars
<1>1. /\ exit = "None" /\ step'.origin = origin
      /\ \/ pc' = "notify" /\ exit' = "None"
         \/ pc' = "dying" /\ exit' = "Panicked"
  BY DEF Apply, HandshakeInv
<1>2. DrainInv'
  BY DEF DrainInv
<1>3. HandshakeInv'
  BY <1>1 DEF HandshakeInv
<1>4. RetirerInv'
  BY DEF RetirerInv
<1>5. TerminalIsTruthful'
  BY <1>1 DEF TerminalIsTruthful
<1>6. QED
  BY <1>2, <1>3, <1>4, <1>5

\* A step that keeps everything the handshake relates keeps the invariant.
LEMMA HandshakeFrame ==
  ASSUME RetireInv, UNCHANGED <<pc, drain, exit, handleVars, retire>>,
         pc \in Applying => step'.origin = step.origin
  PROVE  RetireInv'
BY DEF RetireInv, DrainInv, HandshakeInv, RetirerInv, TerminalIsTruthful,
       handleVars, Ended, Applying

\* shutdown's retirement record tells how the actor ended: graceful terminals
\* only after a complete graceful drain, forced ones only after their
\* deadline, ActorFailed only after a panic or an abort.
THEOREM TruthfulTerminal == Spec => []TerminalIsTruthful
<1>1. Init => RetireInv
  BY DEF Init, RetireInv, DrainInv, HandshakeInv, RetirerInv,
         TerminalIsTruthful, NoDrain, Ended, Applying, InFlight
<1>2. TypeOK /\ WindowInv /\ RetireInv /\ [Next]_vars => RetireInv'
  <2> SUFFICES ASSUME TypeOK, WindowInv, RetireInv, [Next]_vars
               PROVE  RetireInv'
    OBVIOUS
  <2> USE DEF actorVars, handleVars, readerVars
  <2>1. CASE AdmitNext
    BY <2>1, AdmitFrame, HandshakeFrame
  <2>2. CASE Notify
    <3>1. /\ pc = "notify" /\ pc' = "emit"
          /\ UNCHANGED <<step, drain, exit, handleVars, retire>>
      BY <2>2 DEF Notify
    <3>2. QED
      BY <3>1 DEF RetireInv, DrainInv, HandshakeInv, RetirerInv,
                  TerminalIsTruthful, Ended, Applying
  <2>3. CASE ObserverPanics
    <3>1. /\ pc = "notify" /\ pc' = "dying" /\ exit' = "Panicked"
          /\ UNCHANGED <<drain, handleVars, retire>>
      BY <2>3 DEF ObserverPanics
    <3>2. QED
      BY <3>1 DEF RetireInv, DrainInv, HandshakeInv, RetirerInv,
                  TerminalIsTruthful, Ended, Applying
  <2>4. CASE Emit
    <3>1. step'.origin = step.origin
      BY <2>4 DEF Emit, TypeOK, Step
    <3>2. QED
      BY <2>4, <3>1, HandshakeFrame DEF Emit
  <2>5. CASE Settle
    <3>1. /\ pc = "emit" /\ exit' = exit /\ UNCHANGED <<handleVars, retire>>
          /\ pc' \in {"select", "drain"}
          /\ pc' = "drain" => step.origin \in {"shutdown", "drain"}
      BY <2>5 DEF Settle
    <3>2. DrainInv'
      <4>1. CASE step.origin = "shutdown"
        <5>1. drain.window = 0
          BY <2>5, <4>1 DEF Settle, WindowInv, Applying
        <5>2. drain'.window = 1 /\ drain'.terminal = drain.terminal
          BY <2>5, <4>1 DEF Settle, TypeOK, Drain
        <5>3. QED
          BY <5>1, <5>2 DEF RetireInv, DrainInv
      <4>2. CASE step.origin = "drain"
        BY <2>5, <4>2 DEF Settle, TypeOK, Drain, RetireInv, DrainInv
      <4>3. CASE step.origin \notin {"shutdown", "drain"}
        BY <2>5, <4>3 DEF Settle, RetireInv, DrainInv
      <4>4. QED
        BY <4>1, <4>2, <4>3
    <3>3. HandshakeInv'
      BY <3>1 DEF RetireInv, HandshakeInv, Ended, Applying
    <3>4. RetirerInv' /\ TerminalIsTruthful'
      BY <3>1 DEF RetireInv, RetirerInv, TerminalIsTruthful
    <3>5. QED
      BY <3>2, <3>3, <3>4 DEF RetireInv
  <2>6. CASE SelectShutdown \/ SelectCommand
    BY <2>6, ApplyHandshake DEF SelectShutdown, SelectCommand
  <2>7. ASSUME NEW t \in DOMAIN owned, SelectJoin(t) PROVE RetireInv'
    <3>1. \E input, role : Apply(input, role, "effect", NoCaller)
      BY <2>7 DEF SelectJoin, FinishEffect
    <3>2. pc \in {"select", "drain"} /\ UNCHANGED <<drain, handleVars, retire>>
      BY <2>7 DEF SelectJoin
    <3>3. QED
      BY <3>1, <3>2, ApplyHandshake
  <2>8. ASSUME NEW t \in DOMAIN owned, DrainJoin(t) PROVE RetireInv'
    <3>1. token
      BY <2>8 DEF DrainJoin, RetireInv, HandshakeInv
    <3>2. QED
      BY <2>8, <3>1, ApplyHandshake DEF DrainJoin, FinishEffect
  <2>9. CASE ShutdownDeadline \/ FinalizerDeadline
    <3>1. /\ pc = "drain" /\ pc' = pc
          /\ UNCHANGED <<exit, handleVars, retire>>
      BY <2>9 DEF ShutdownDeadline, FinalizerDeadline
    <3>2. DrainInv'
      <4>1. CASE ShutdownDeadline
        <5>1. /\ drain'.window = 2
              /\ drain'.terminal = "ShutdownDeadlineExceeded"
          BY <4>1 DEF ShutdownDeadline, TypeOK, Drain
        <5>2. QED
          BY <5>1 DEF DrainInv
      <4>2. CASE FinalizerDeadline
        <5>1. /\ drain'.window = 3
              /\ drain'.terminal = "FinalizerDeadlineExceeded"
          BY <4>2 DEF FinalizerDeadline, TypeOK, Drain
        <5>2. QED
          BY <5>1 DEF DrainInv
      <4>3. QED
        BY <2>9, <4>1, <4>2
    <3>3. HandshakeInv' /\ RetirerInv' /\ TerminalIsTruthful'
      BY <3>1 DEF RetireInv, HandshakeInv, RetirerInv, TerminalIsTruthful,
                  Ended, Applying
    <3>4. QED
      BY <3>2, <3>3 DEF RetireInv
  <2>10. CASE DrainComplete
    <3>1. /\ pc = "drain" /\ pc' = "dying" /\ exit' = "Returned" /\ ~slot'
          /\ UNCHANGED <<drain, closed, token, handles, retire>>
      BY <2>10 DEF DrainComplete
    <3>2. \/ response'.status = "sent" /\ response'.drain = drain
          \/ response' = response /\ ~slot
      BY <2>10 DEF DrainComplete
    <3>3. drain.window # 0
      BY <3>1 DEF WindowInv
    <3>4. HandshakeInv'
      BY <3>1, <3>2, <3>3 DEF RetireInv, HandshakeInv, Ended, Applying
    <3>5. DrainInv' /\ RetirerInv' /\ TerminalIsTruthful'
      BY <3>1 DEF RetireInv, DrainInv, RetirerInv, TerminalIsTruthful
    <3>6. QED
      BY <3>4, <3>5 DEF RetireInv
  <2>11. CASE ActorAborts
    <3>1. /\ pc \in {"select", "drain"} /\ pc' = "dying" /\ exit' = "Cancelled"
          /\ UNCHANGED <<drain, handleVars, retire>>
      BY <2>11 DEF ActorAborts, AwaitPoint
    <3>2. QED
      BY <3>1 DEF RetireInv, DrainInv, HandshakeInv, RetirerInv,
                  TerminalIsTruthful, Ended, Applying
  <2>12. CASE DropReplyGuard
    <3>1. /\ pc = "dying" /\ pc' = "exiting" /\ ~slot'
          /\ UNCHANGED <<drain, exit, closed, token, handles, retire>>
      BY <2>12 DEF DropReplyGuard
    <3>2. \/ slot /\ response'.status = "dropped"
          \/ response' = response
      BY <2>12 DEF DropReplyGuard, TypeOK, Response
    <3>3. HandshakeInv'
      BY <3>1, <3>2 DEF RetireInv, HandshakeInv, Ended, Applying, TypeOK
    <3>4. DrainInv' /\ RetirerInv' /\ TerminalIsTruthful'
      BY <3>1 DEF RetireInv, DrainInv, RetirerInv, TerminalIsTruthful
    <3>5. QED
      BY <3>3, <3>4 DEF RetireInv
  <2>13. CASE FinishActor
    <3>1. /\ pc = "exiting" /\ pc' = "finished"
          /\ UNCHANGED <<drain, exit, handleVars, retire>>
      BY <2>13 DEF FinishActor
    <3>2. QED
      BY <3>1 DEF RetireInv, DrainInv, HandshakeInv, RetirerInv,
                  TerminalIsTruthful, Ended, Applying
  <2>14. ASSUME NEW r \in Retirers, SwapClosed(r) PROVE RetireInv'
    <3>1. /\ closed' /\ handles /\ retire[r].pc = "idle"
          /\ UNCHANGED <<pc, step, drain, exit, token, slot, response, handles>>
          /\ \A q \in Retirers : q # r => retire'[q] = retire[q]
          /\ closed => retire'[r] = [pc |-> "done", terminal |-> "AlreadyRetired"]
          /\ ~closed => retire'[r] = [pc |-> "swapped", terminal |-> "None"]
      BY <2>14 DEF SwapClosed, TypeOK
    <3>2. DrainInv' /\ HandshakeInv' /\ TerminalIsTruthful'
      BY <3>1 DEF RetireInv, DrainInv, HandshakeInv, TerminalIsTruthful
    <3>3. RetirerInv'
      BY <3>1 DEF RetireInv, HandshakeInv, RetirerInv, InFlight, TypeOK
    <3>4. QED
      BY <3>2, <3>3 DEF RetireInv
  <2>15. ASSUME NEW r \in Retirers,
                InstallSlot(r) \/ CancelToken(r) \/ CheckFinished(r)
         PROVE  RetireInv'
    <3>1. /\ retire[r].pc \in InFlight /\ retire'[r].pc \in InFlight
          /\ retire'[r].terminal = retire[r].terminal
          /\ \A q \in Retirers : q # r => retire'[q] = retire[q]
          /\ UNCHANGED <<pc, step, drain, exit, closed, handles>>
      BY <2>15 DEF InstallSlot, CancelToken, CheckFinished, Advance, InFlight,
                   TypeOK, ShutdownCall
    <3>2. DrainInv' /\ TerminalIsTruthful'
      BY <3>1 DEF RetireInv, DrainInv, TerminalIsTruthful
    <3>3. CASE InstallSlot(r)
      <4>1. ~token /\ ~token' /\ slot' /\ response'.status = "pending"
        BY <3>3 DEF InstallSlot, Advance, RetireInv, RetirerInv
      <4>2. HandshakeInv' /\ RetirerInv'
        BY <3>1, <4>1 DEF RetireInv, HandshakeInv, RetirerInv, Ended
      <4>3. QED
        BY <3>2, <4>2 DEF RetireInv
    <3>4. CASE CancelToken(r)
      <4>1. /\ token' /\ retire'[r].pc = "cancelled" /\ closed
            /\ UNCHANGED <<slot, response>>
        BY <3>1, <3>4 DEF CancelToken, Advance, TypeOK, ShutdownCall,
                          RetireInv, RetirerInv
      <4>2. HandshakeInv' /\ RetirerInv'
        BY <3>1, <4>1 DEF RetireInv, HandshakeInv, RetirerInv, InFlight
      <4>3. QED
        BY <3>2, <4>2 DEF RetireInv
    <3>5. CASE CheckFinished(r)
      <4>1. /\ token' = token /\ retire'[r].pc = "waiting"
            /\ \/ UNCHANGED <<slot, response>>
               \/ /\ pc = "finished" /\ ~slot' /\ slot
                  /\ response'.status = "dropped"
        BY <3>5 DEF CheckFinished, Advance, TypeOK, ShutdownCall, Response
      <4>2. HandshakeInv'
        BY <3>1, <4>1 DEF RetireInv, HandshakeInv, Ended, TypeOK
      <4>3. RetirerInv'
        BY <3>1, <4>1 DEF RetireInv, RetirerInv
      <4>4. QED
        BY <3>2, <4>2, <4>3 DEF RetireInv
    <3>6. QED
      BY <2>15, <3>3, <3>4, <3>5
  <2>16. ASSUME NEW r \in Retirers, AwaitReply(r) PROVE RetireInv'
    <3>1. /\ pc = "finished" /\ retire[r].pc = "waiting"
          /\ response.status \in {"sent", "dropped"}
          /\ UNCHANGED <<pc, step, drain, exit, handleVars>>
          /\ \A q \in Retirers : q # r => retire'[q] = retire[q]
          /\ retire'[r].pc = "done"
      BY <2>16 DEF AwaitReply, TypeOK
    <3>2. CASE response.status = "sent"
      <4>1. exit = "Returned" /\ response.drain = drain /\ drain.window # 0
        BY <3>2 DEF RetireInv, HandshakeInv
      <4>2. retire'[r].terminal = Terminal(drain)
        BY <2>16, <3>2, <4>1 DEF AwaitReply, TypeOK
      <4>3. drain.window \in {1, 2, 3}
        BY <4>1 DEF TypeOK, Drain
      <4>4. /\ drain.window = 1 =>
                 Terminal(drain) \in {"Applied", "CleanupFailed", "ShutdownRejected"}
            /\ drain.window = 2 => Terminal(drain) = "ShutdownDeadlineExceeded"
            /\ drain.window = 3 => Terminal(drain) = "FinalizerDeadlineExceeded"
        BY DEF RetireInv, DrainInv, Terminal
      <4>5. TerminalIsTruthful'
        BY <3>1, <4>1, <4>2, <4>3, <4>4 DEF RetireInv, TerminalIsTruthful
      <4>6. QED
        BY <3>1, <4>5 DEF RetireInv, DrainInv, HandshakeInv, RetirerInv,
                          InFlight
    <3>3. CASE response.status = "dropped"
      <4>1. exit \in {"Panicked", "Cancelled"}
        BY <3>3 DEF RetireInv, HandshakeInv
      <4>2. retire'[r].terminal = "ActorFailed"
        BY <2>16, <4>1 DEF AwaitReply, TypeOK
      <4>3. TerminalIsTruthful'
        BY <3>1, <4>1, <4>2 DEF RetireInv, TerminalIsTruthful
      <4>4. QED
        BY <3>1, <4>3 DEF RetireInv, DrainInv, HandshakeInv, RetirerInv,
                          InFlight
    <3>4. QED
      BY <3>1, <3>2, <3>3
  <2>17. CASE TaskNext
    BY <2>17, HandshakeFrame
    DEF TaskNext, TaskCompletes, TaskPanics, TaskAborts, TaskSettles
  <2>18. CASE ReadSnapshot
    BY <2>18, HandshakeFrame DEF ReadSnapshot
  <2>19. CASE AbortForProcessTermination
    BY <2>19 DEF AbortForProcessTermination, RetireInv, DrainInv,
                 HandshakeInv, RetirerInv, TerminalIsTruthful
  <2>20. CASE DropHandles
    <3>1. /\ closed' /\ token'
          /\ \A r \in Retirers : retire[r].pc \in {"idle", "done"}
          /\ UNCHANGED <<pc, step, drain, exit, slot, response, retire>>
      BY <2>20 DEF DropHandles
    <3>2. QED
      BY <3>1 DEF RetireInv, DrainInv, HandshakeInv, RetirerInv,
                  TerminalIsTruthful, InFlight
  <2>21. CASE UNCHANGED vars
    BY <2>21, HandshakeFrame DEF vars
  <2>22. QED
    BY <2>1, <2>2, <2>3, <2>4, <2>5, <2>6, <2>7, <2>8, <2>9, <2>10, <2>11,
       <2>12, <2>13, <2>14, <2>15, <2>16, <2>17, <2>18, <2>19, <2>20, <2>21
    DEF Next, ActorNext, RetireNext
<1>3. RetireInv => TerminalIsTruthful
  BY DEF RetireInv
<1>4. QED
  BY <1>1, <1>2, <1>3, TypeCorrect, WindowInvariant, PTL DEF Spec
=============================================================================
