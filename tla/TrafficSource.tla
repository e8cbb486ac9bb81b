--------------------------- MODULE TrafficSource ---------------------------
(***************************************************************************)
(* The Traffic source session machine                                      *)
(* (crates/desktop-bridge/src/traffic_source_machine.rs) on the runner,    *)
(* and what drives it (controller_source.rs): the status collector with    *)
(* its reconnects and refreshes, pause and resume of observations, a       *)
(* changing runtime context, and a close-connection command with its       *)
(* effect against the Controller.                                          *)
(*                                                                         *)
(* A context is the observation generation with the runtime context.       *)
(* Operation ids are fresh, so an id stands for its correlation, and the   *)
(* revision is left out.  The outcome of a command is ok or failed.        *)
(***************************************************************************)
EXTENDS Naturals, Sequences

CONSTANTS
  LedgerLimit,   \* TRAFFIC_COMMAND_LEDGER_LIMIT
  MaxOps,        \* bound: commands
  MaxSessions,   \* bound: Controller sessions
  MaxSequence,   \* bound: Traffic observations
  MaxPauses,     \* bound: pauses
  MaxContexts,   \* bound: changes of the runtime context
  MaxFailures,   \* bound: observations that fail or end the stream
  TrafficTasks   \* bound: owned effect tasks

VARIABLES
  tstate, ttasks, tmode,  \* the runner
  inner,      \* SourceInner: generation, active, context, session, sequence
  lock,       \* SourceInner::authority: who holds it
  collector,  \* run_status_collector, with the stamp it is about to admit
  pause,      \* pause_observation_task
  caller,     \* run_traffic_command
  effect,     \* the command's effect task: where it is
  sent,       \* the last close request: its session and the source's then
  failures

tvars == <<tstate, ttasks, tmode, inner, lock, collector, pause, caller, effect, sent, failures>>

-----------------------------------------------------------------------------
(* The machine.                                                             *)

NoContext == <<0, 0>>
NoStamp == [context |-> NoContext, session |-> 0, sequence |-> 0]
NoPending == [op |-> 0, exact |-> FALSE, session |-> 0, sequence |-> 0, source |-> NoStamp]

\* TrafficSourceAuthority: `context` is the one bound or looked for.
Authority(kind, context, stamp) == [kind |-> kind, context |-> context, stamp |-> stamp]
InitialTraffic ==
  [authority |-> Authority("Binding", NoContext, NoStamp), pending |-> NoPending,
   completed |-> <<>>]

Input(kind) == [kind |-> kind, context |-> NoContext, stamp |-> NoStamp, request |-> NoPending,
                outcome |-> "none", correlation |-> 0]
Live(s) == s.authority.kind = "Live"
SameSession(a, b) == a.context = b.context /\ a.session = b.session

\* A new state without effects, or none at all.
Move(disposition, s) == [disposition |-> disposition, state |-> s, effects |-> <<>>]
Refuse(disposition) == Move(disposition, InitialTraffic)
Emit(s, mode, request) ==
  [disposition |-> "EffectEmitting", state |-> s,
   effects |-> <<[mode |-> mode, correlation |-> request.op, request |-> request]>>]

\* finish: the ledger keeps the newest results.
Finish(s, outcome) ==
  LET ledger == Append(s.completed, [op |-> s.pending.op, outcome |-> outcome])
  IN [s EXCEPT !.pending = NoPending,
               !.completed = IF Len(ledger) > LedgerLimit THEN Tail(ledger) ELSE ledger]

\* transition_authority: a new authority fails and cancels the pending command.
TransitionAuthority(s, authority) ==
  IF s.pending = NoPending THEN Move("Committed", [s EXCEPT !.authority = authority])
  ELSE Emit([Finish(s, "failed") EXCEPT !.authority = authority], "Cancel", s.pending)

BeginBinding(s, context) ==
  IF s.authority.kind = "Binding" /\ s.authority.context = context THEN Refuse("Unchanged")
  ELSE TransitionAuthority(s, Authority("Replacing", context, s.authority.stamp))

Baseline(s, stamp) ==
  LET current == s.authority.stamp
      matches == IF Live(s) THEN SameSession(current, stamp)
                 ELSE s.authority.kind # "Ended" /\ s.authority.context = stamp.context
  IN IF ~matches THEN Refuse("Rejected")
     ELSE IF Live(s) /\ current = stamp THEN Refuse("Unchanged")
     ELSE IF Live(s) /\ stamp.sequence < current.sequence THEN Refuse("Retired")
     ELSE Move("Committed", [s EXCEPT !.authority = Authority("Live", stamp.context, stamp)])

Observation(s, stamp) ==
  LET current == s.authority.stamp
  IN IF ~Live(s) \/ ~SameSession(current, stamp) \/ stamp.sequence < current.sequence
       THEN Refuse("Retired")
     ELSE IF stamp.sequence = current.sequence THEN Refuse("Unchanged")
     ELSE IF stamp.sequence # current.sequence + 1
       THEN TransitionAuthority(s, Authority("FailedReconciling", stamp.context, current))
     ELSE Move("Committed", [s EXCEPT !.authority = Authority("Live", stamp.context, stamp)])

Gap(s, context) ==
  IF s.authority.kind = "Ended" \/ s.authority.context # context THEN Refuse("Retired")
  ELSE TransitionAuthority(s, Authority("FailedReconciling", context, s.authority.stamp))

Ended(s) == TransitionAuthority(s, Authority("Ended", NoContext, s.authority.stamp))

\* Request: known results and the pending command first, then the authority:
\* closing what is visible needs the session, the others the exact sequence.
Request(s, request) ==
  IF \E n \in DOMAIN s.completed : s.completed[n].op = request.op THEN Refuse("Unchanged")
  ELSE IF s.pending # NoPending
    THEN Refuse(IF s.pending.op = request.op THEN "Unchanged" ELSE "Rejected")
  ELSE IF \/ ~Live(s) \/ s.authority.stamp.session # request.session
          \/ request.exact /\ s.authority.stamp.sequence # request.sequence
    THEN Refuse("Rejected")
  ELSE LET admitted == [request EXCEPT !.source = s.authority.stamp]
       IN Emit([s EXCEPT !.pending = admitted], "Spawn", admitted)

CompletedBy(s, i) ==
  IF /\ s.pending # NoPending /\ s.pending.op = i.correlation
     /\ Live(s) /\ SameSession(s.authority.stamp, i.stamp)
    THEN Move("Committed", Finish(s, i.outcome)) ELSE Refuse("Retired")

EffectFailed(s, correlation) ==
  IF s.pending = NoPending \/ s.pending.op # correlation THEN Refuse("Retired")
  ELSE Move("RecoveryRequired",
            [Finish(s, "failed") EXCEPT !.authority =
               Authority("FailedReconciling", s.pending.source.context, s.pending.source)])

Retire(s) == TransitionAuthority(s, Authority("Retired", NoContext, s.authority.stamp))

Reduce(s, i) ==
  IF s.authority.kind = "Retired"
    THEN Refuse(CASE i.kind = "Shutdown" -> "Unchanged"
                  [] i.kind = "Request" -> "Rejected" [] OTHER -> "Retired")
  ELSE CASE i.kind = "BeginBinding" -> BeginBinding(s, i.context)
         [] i.kind = "Baseline"     -> Baseline(s, i.stamp)
         [] i.kind = "Observation"  -> Observation(s, i.stamp)
         [] i.kind = "Gap"          -> Gap(s, i.context)
         [] i.kind = "End"          -> Ended(s)
         [] i.kind = "Request"      -> Request(s, i.request)
         [] i.kind = "Completed"    -> CompletedBy(s, i)
         [] i.kind = "EffectFailed" -> EffectFailed(s, i.correlation)
         [] i.kind = "Shutdown"     -> Retire(s)

InputCorrelation(s, i) == i.correlation
EffectIsCurrent(s, correlation) == s.pending # NoPending /\ s.pending.op = correlation
TaskFailed(correlation, why) == [Input("EffectFailed") EXCEPT !.correlation = correlation]
NoCompletion(e, cancelled) == {}

Run == INSTANCE Runner WITH
  state <- tstate, tasks <- ttasks, mode <- tmode, InitialState <- InitialTraffic,
  Admissible <- {}, ShutdownInput <- Input("Shutdown"), Completes <- NoCompletion,
  NoInput <- Input("none"), TaskId <- TrafficTasks
trunner == <<tstate, ttasks, tmode>>

Offer(i) == IF tmode = "open" THEN Run!Admit(i) ELSE UNCHANGED trunner

-----------------------------------------------------------------------------
(* ControllerStatusSource.                                                  *)

\* current_traffic_context, traffic_machine_context_matches.
Context == <<inner.generation, inner.context>>
ContextMatches(context) ==
  tstate.authority.kind \notin {"Ended", "Retired"} /\ tstate.authority.context = context
MutantBind(context) == UNCHANGED trunner
Bind(context) ==
  IF ContextMatches(context) THEN UNCHANGED trunner
  ELSE Offer([Input("BeginBinding") EXCEPT !.context = context])

TrafficInit ==
  /\ Run!Init
  /\ inner = [generation |-> 0, active |-> FALSE, context |-> 0, session |-> 0, number |-> 0,
              sequence |-> 0, mapped |-> FALSE]
  /\ lock = "free"
  /\ collector = [at |-> "off", generation |-> 0, stamp |-> NoStamp]
  /\ pause = [at |-> "none", count |-> 0, reason |-> "none", context |-> NoContext]
  /\ caller = [at |-> "idle", op |-> 0, learned |-> "none"]
  /\ effect = [at |-> "none", stamp |-> NoStamp]
  /\ sent = [own |-> 0, actual |-> 0]
  /\ failures = 0

Free == lock = "free"

\* apply_observations_guarded: one new sequence number, one stamp, under the
\* state mutex; a collector of a retired generation changes nothing.
Applied(new) ==
  [inner EXCEPT !.mapped = TRUE, !.sequence = @ + 1,
                !.number = IF new THEN @ + 1 ELSE @,
                !.session = IF new THEN inner.number + 1 ELSE @]
StampOf(i) == [context |-> <<i.generation, i.context>>, session |-> i.session, sequence |-> i.sequence]
MayApply == inner.sequence < MaxSequence

\* resume_observation_task.
Resume ==
  /\ pause.at = "none" /\ collector.at = "off" /\ tmode = "open"
  /\ inner.number < MaxSessions
  /\ inner' = [inner EXCEPT !.generation = @ + 1, !.active = TRUE]
  /\ collector' = [at |-> "bind", generation |-> inner.generation + 1, stamp |-> NoStamp]
  /\ UNCHANGED <<trunner, lock, pause, caller, effect, sent, failures>>

\* observe_active_session: bind, take the authority lock, observe everything.
CollectorBind ==
  /\ collector.at = "bind"
  /\ Offer([Input("BeginBinding") EXCEPT !.context = Context])
  /\ collector' = [collector EXCEPT !.at = "lock"]
  /\ UNCHANGED <<inner, lock, pause, caller, effect, sent, failures>>
CollectorLock ==
  /\ collector.at \in {"lock", "live"} /\ Free
  /\ lock' = "collector"
  /\ collector' = [collector EXCEPT !.at = IF @ = "lock" THEN "observe" ELSE "refresh"]
  /\ UNCHANGED <<trunner, inner, pause, caller, effect, sent, failures>>
CollectorApply ==
  /\ collector.at \in {"observe", "refresh"} /\ MayApply
  /\ collector.at = "observe" => inner.number < MaxSessions
  /\ IF inner.active /\ inner.generation = collector.generation
       THEN /\ inner' = Applied(collector.at = "observe")
            /\ collector' = [collector EXCEPT !.at = "rebind", !.stamp = StampOf(inner')]
       ELSE /\ UNCHANGED inner
            /\ collector' = [collector EXCEPT !.at = "admitted"]
  /\ UNCHANGED <<trunner, lock, pause, caller, effect, sent, failures>>
CollectorRebind ==
  /\ collector.at = "rebind"
  /\ Bind(collector.stamp.context)
  /\ collector' = [collector EXCEPT !.at = "admit"]
  /\ UNCHANGED <<inner, lock, pause, caller, effect, sent, failures>>
CollectorAdmit ==
  /\ collector.at = "admit"
  /\ Offer([Input("Baseline") EXCEPT !.stamp = collector.stamp])
  /\ collector' = [collector EXCEPT !.at = "admitted"]
  /\ UNCHANGED <<inner, lock, pause, caller, effect, sent, failures>>
CollectorDone ==
  /\ collector.at = "admitted"
  /\ lock' = "free"
  /\ collector' = [collector EXCEPT !.at = "live", !.stamp = NoStamp]
  /\ UNCHANGED <<trunner, inner, pause, caller, effect, sent, failures>>

\* An error of the session: record_error admits a gap, then the session is tried
\* again; or, for a refresh that cannot be mapped, the session goes on.
CollectorFails(again) ==
  /\ collector.at \in {"observe", "refresh", "live"} /\ failures < MaxFailures
  /\ again = "live" => collector.at = "refresh"
  /\ failures' = failures + 1
  /\ lock' = IF lock = "collector" THEN "free" ELSE lock
  /\ collector' = [collector EXCEPT !.at = again]
  /\ Offer([Input("Gap") EXCEPT !.context = Context])
  /\ UNCHANGED <<inner, pause, caller, effect, sent>>

\* set_runtime_context: a new capture session or runtime identity, at any time.
SetContext ==
  /\ inner.context < MaxContexts
  /\ inner' = [inner EXCEPT !.context = @ + 1]
  /\ UNCHANGED <<trunner, lock, collector, pause, caller, effect, sent, failures>>

\* pause_observation_task: a new generation, the collector stopped wherever it
\* is, the source invalidated under the lock, then the machine told.
PauseBegin(reason) ==
  /\ pause.at = "none" /\ pause.count < MaxPauses /\ tmode = "open"
  /\ pause' = [at |-> "stop", count |-> pause.count + 1, reason |-> reason,
               context |-> IF Live(tstate) THEN tstate.authority.context ELSE Context]
  /\ inner' = [inner EXCEPT !.generation = @ + 1, !.active = FALSE]
  /\ UNCHANGED <<trunner, lock, collector, caller, effect, sent, failures>>
PauseStop ==
  /\ pause.at = "stop"
  /\ collector' = [collector EXCEPT !.at = "off", !.stamp = NoStamp]
  /\ lock' = IF lock = "collector" THEN "free" ELSE lock
  /\ pause' = [pause EXCEPT !.at = "invalidate"]
  /\ UNCHANGED <<trunner, inner, caller, effect, sent, failures>>
PauseInvalidate ==
  /\ pause.at = "invalidate" /\ Free
  /\ inner' = IF pause.reason = "Sleep" THEN inner
              ELSE [inner EXCEPT !.mapped = FALSE, !.session = 0, !.sequence = 0]
  /\ pause' = [pause EXCEPT !.at = "tell"]
  /\ UNCHANGED <<trunner, lock, collector, caller, effect, sent, failures>>
PauseTell ==
  /\ pause.at = "tell"
  /\ Offer(IF pause.reason = "Sleep" THEN [Input("Gap") EXCEPT !.context = pause.context]
           ELSE Input("End"))
  /\ pause' = [pause EXCEPT !.at = "none"]
  /\ UNCHANGED <<inner, lock, collector, caller, effect, sent, failures>>

\* close: the collector is cancelled, then the machine retires.
Close ==
  /\ pause.at = "none" /\ tmode = "open"
  /\ Run!Shutdown
  /\ collector' = [collector EXCEPT !.at = "off", !.stamp = NoStamp]
  /\ lock' = IF lock = "collector" THEN "free" ELSE lock
  /\ UNCHANGED <<inner, pause, caller, effect, sent, failures>>

-----------------------------------------------------------------------------
(* A command: the caller.                                                   *)

CallerSynchronize ==
  /\ caller.at = "idle" /\ caller.op < MaxOps
  /\ Bind(Context)
  /\ caller' = [at |-> "request", op |-> caller.op + 1, learned |-> "none"]
  /\ UNCHANGED <<inner, lock, collector, pause, effect, sent, failures>>

\* The client names the session and the sequence it last saw.
CallerRequest(exact, session, sequence) ==
  LET request == [op |-> caller.op, exact |-> exact, session |-> session, sequence |-> sequence,
                  source |-> NoStamp]
      i == [Input("Request") EXCEPT !.request = request]
      refused == tmode # "open" \/ Reduce(tstate, i).disposition = "Rejected"
  IN /\ caller.at = "request"
     /\ Offer(i)
     /\ caller' = [caller EXCEPT !.at = IF refused THEN "after" ELSE "wait",
                                 !.learned = IF refused THEN "failed" ELSE "none"]
     /\ effect' = IF refused THEN effect ELSE [at |-> "lock", stamp |-> NoStamp]
     /\ UNCHANGED <<inner, lock, collector, pause, sent, failures>>

\* The caller looks again after every update: its result, or that it is gone.
Result(op) == {r.outcome : r \in {tstate.completed[n] : n \in
                 {m \in DOMAIN tstate.completed : tstate.completed[m].op = op}}}
CallerLearns ==
  /\ caller.at = "wait" /\ tstate.pending.op # caller.op
  /\ LET learned == IF Result(caller.op) = {} THEN "failed" ELSE CHOOSE o \in Result(caller.op) : TRUE
     IN caller' = [caller EXCEPT !.at = IF learned = "ok" THEN "idle" ELSE "after", !.learned = learned]
  /\ UNCHANGED <<trunner, inner, lock, collector, pause, effect, sent, failures>>

\* refresh_connections_after_command: the Controller may not answer.
CallerSkips ==
  /\ caller.at = "after" /\ Free
  /\ caller' = [caller EXCEPT !.at = "idle"]
  /\ UNCHANGED <<trunner, inner, lock, collector, pause, effect, sent, failures>>
CallerRefresh ==
  /\ caller.at = "after" /\ Free /\ MayApply
  /\ lock' = "caller"
  /\ inner' = Applied(FALSE)
  /\ caller' = [caller EXCEPT !.at = "rebind"]
  /\ UNCHANGED <<trunner, collector, pause, effect, sent, failures>>
CallerRebind ==
  /\ caller.at = "rebind"
  /\ IF inner.session = 0 THEN UNCHANGED trunner ELSE Bind(Context)
  /\ caller' = [caller EXCEPT !.at = "admit"]
  /\ UNCHANGED <<inner, lock, collector, pause, effect, sent, failures>>
CallerAdmit ==
  /\ caller.at = "admit"
  /\ IF inner.session = 0 THEN UNCHANGED trunner
     ELSE Offer([Input("Observation") EXCEPT !.stamp = StampOf(inner)])
  /\ caller' = [caller EXCEPT !.at = "idle"]
  /\ lock' = "free"
  /\ UNCHANGED <<inner, collector, pause, effect, sent, failures>>

-----------------------------------------------------------------------------
(* Its effect, execute_traffic_command_effect.                              *)

Task == CHOOSE t \in DOMAIN ttasks : ttasks[t].effect.correlation = caller.op
HasTask == \E t \in DOMAIN ttasks : ttasks[t].effect.correlation = caller.op
Mine == ttasks[Task].effect.request

\* traffic_effect_is_current.
StillCurrent ==
  /\ ~ttasks[Task].cancelled /\ Context = Mine.source.context
  /\ tstate.pending.op = Mine.op /\ Live(tstate)
  /\ SameSession(tstate.authority.stamp, Mine.source)

\* Returns its outcome and lets the locks go.
Returns(outcome) ==
  /\ Run!Settle(Task, [kind |-> "ok", input |->
       [Input("Completed") EXCEPT !.correlation = Mine.op, !.stamp = Mine.source, !.outcome = outcome]])
  /\ effect' = [at |-> "returned", stamp |-> NoStamp]
  /\ lock' = IF lock = "effect" THEN "free" ELSE lock
  /\ UNCHANGED <<inner, collector, pause, caller, sent, failures>>

\* Another command holds the command lock, or a call to the Controller fails.
EffectFails ==
  /\ HasTask /\ effect.at \in {"lock", "look", "confirm"}
  /\ Returns("failed")
\* The first look: still current, and the published snapshot is the client's.
EffectLock ==
  /\ HasTask /\ effect.at = "lock" /\ Free
  /\ IF /\ StillCurrent /\ inner.mapped /\ inner.session = Mine.session
        /\ Mine.exact => inner.sequence = Mine.sequence
       THEN /\ lock' = "effect" /\ effect' = [effect EXCEPT !.at = "look"]
            /\ UNCHANGED <<trunner, inner, collector, pause, caller, sent, failures>>
       ELSE Returns("failed")
\* The connections are read, and applied as an observation.
EffectLook ==
  /\ HasTask /\ effect.at \in {"look", "confirm"}
  /\ IF ~StillCurrent THEN Returns("failed")
     ELSE /\ MayApply
          /\ inner' = Applied(FALSE)
          /\ effect' = [at |-> IF effect.at = "look" THEN "bind1" ELSE "bind2", stamp |-> StampOf(inner')]
          /\ UNCHANGED <<trunner, lock, collector, pause, caller, sent, failures>>
EffectBind ==
  /\ HasTask /\ effect.at \in {"bind1", "bind2"}
  /\ Bind(effect.stamp.context)
  /\ effect' = [effect EXCEPT !.at = IF @ = "bind1" THEN "tell1" ELSE "tell2"]
  /\ UNCHANGED <<inner, lock, collector, pause, caller, sent, failures>>
EffectTell ==
  /\ HasTask /\ effect.at \in {"tell1", "tell2"}
  /\ Offer([Input("Observation") EXCEPT !.stamp = effect.stamp])
  /\ effect' = [effect EXCEPT !.at = IF @ = "tell1" THEN "close" ELSE "settle"]
  /\ UNCHANGED <<inner, lock, collector, pause, caller, sent, failures>>
\* The close request goes out after one more look.
EffectClose ==
  /\ HasTask /\ effect.at = "close"
  /\ IF ~StillCurrent THEN Returns("failed")
     ELSE /\ effect' = [effect EXCEPT !.at = "closing"]
          /\ UNCHANGED <<trunner, inner, lock, collector, pause, caller, sent, failures>>
EffectSend ==
  /\ HasTask /\ effect.at = "closing"
  /\ sent' = [own |-> Mine.session, actual |-> inner.session]
  /\ effect' = [effect EXCEPT !.at = "confirm"]
  /\ UNCHANGED <<trunner, inner, lock, collector, pause, caller, failures>>
\* Nothing remains, or the deadline passed.
EffectSettles ==
  /\ HasTask /\ effect.at = "settle"
  /\ \E outcome \in IF StillCurrent THEN {"ok", "failed"} ELSE {"failed"} : Returns(outcome)

EffectJoin ==
  /\ \E t \in DOMAIN ttasks : Run!Join(t)
  /\ UNCHANGED <<inner, lock, collector, pause, caller, effect, sent, failures>>
\* The drain waits for the effect and ends.
RunnerEnds ==
  /\ tmode = "draining" /\ DOMAIN ttasks = {}
  /\ Run!End
  /\ UNCHANGED <<inner, lock, collector, pause, caller, effect, sent, failures>>

CollectorStep ==
  \/ CollectorBind \/ CollectorLock \/ CollectorApply \/ CollectorRebind
  \/ CollectorAdmit \/ CollectorDone
PauseStep == PauseStop \/ PauseInvalidate \/ PauseTell
EffectStep ==
  \/ EffectFails \/ EffectLock \/ EffectLook \/ EffectBind \/ EffectTell
  \/ EffectClose \/ EffectSend \/ EffectSettles
CallerStep == CallerLearns \/ CallerSkips \/ CallerRebind \/ CallerAdmit

TrafficNext ==
  \/ Resume \/ SetContext \/ Close \/ CollectorStep \/ PauseStep
  \/ CollectorFails("bind") \/ CollectorFails("live")
  \/ PauseBegin("Sleep") \/ PauseBegin("NetworkChanged")
  \/ CallerSynchronize \/ CallerStep \/ CallerRefresh
  \/ \E exact \in BOOLEAN, n \in 0..1, m \in 0..1 :
       /\ inner.session > n /\ inner.sequence > m
       /\ CallerRequest(exact, inner.session - n, inner.sequence - m)
  \/ EffectStep \/ EffectJoin \/ RunnerEnds

\* Tasks are polled, a lock is handed out in turn, Controller calls time out.
TrafficFairness ==
  /\ WF_tvars(CollectorStep) /\ WF_tvars(PauseStep) /\ WF_tvars(EffectStep)
  /\ WF_tvars(CallerStep) /\ WF_tvars(EffectJoin)
  /\ SF_tvars(CollectorLock)

TrafficSpec == TrafficInit /\ [][TrafficNext]_tvars /\ TrafficFairness

-----------------------------------------------------------------------------
(* A pending command always belongs to the live session: whatever replaces, *)
(* ends or loses the session has failed and cancelled the command in the    *)
(* same step.                                                               *)
PendingIsLive ==
  tstate.pending # NoPending =>
    Live(tstate) /\ SameSession(tstate.authority.stamp, tstate.pending.source)

(* A close request reaches the Controller only while the source still has   *)
(* the session the client chose from, although the check and the request    *)
(* are separated by awaits and a pause may come at any time.                *)
ClosesItsOwnSession == sent.own = sent.actual

(* Every command ends: no order of pauses, gaps, replacements and           *)
(* completions leaves the caller waiting.                                   *)
CommandAnswered == []<>(caller.at # "wait")

(* Observations recover: once the collector has applied and admitted an      *)
(* observation of the context that still holds, the machine is live in that  *)
(* session, whatever gaps, replaced contexts and failed commands came before.*)
RecoversLive ==
  /\ collector.at = "admitted" /\ collector.stamp # NoStamp
  /\ collector.stamp.context = Context /\ tmode = "open"
  => Live(tstate) /\ SameSession(tstate.authority.stamp, collector.stamp)
=============================================================================
