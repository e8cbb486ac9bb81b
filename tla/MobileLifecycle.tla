-------------------------- MODULE MobileLifecycle --------------------------
(***************************************************************************)
(* The VPN lifecycle of the Android application: the Rust machine that     *)
(* owns the product phase (mish-vpn/src/lifecycle.rs), the ingress that    *)
(* hands it what the platform observed (observation.rs), the commands and  *)
(* the effect executor (android.rs), and the Kotlin side it commands: the  *)
(* plugin, the store of platform facts and the VPN service.                *)
(*                                                                         *)
(* A fact is published by the store under one increasing number.  A        *)
(* broadcast offers it to the ingress, which keeps the newest one; the     *)
(* answer of a plugin call carries the facts current when it was resolved. *)
(* An authority is the number of the operation and of the effect that Rust *)
(* issued; numbers of operations stand for the revisions that admit them.  *)
(***************************************************************************)
EXTENDS Integers, Sequences, FiniteSets

CONSTANTS
    Commands,     \* the commands that are given: "start", "stop", "consent"
    MaxCommands,  \* commands, cancellations and shutdowns
    MaxFaults,    \* failing calls, failing cleanups and polls that time out
    MaxEvents,    \* observations, network changes, revocations, Core exits
    MaxCrashes    \* deaths of the application process

None == <<0, 0>>
MaxRetries == 2

VARIABLES
    m,        \* the machine's state
    pend,     \* the ingress: at most one set of facts not yet delivered
    tasks,    \* the running effects, by what their plugin call has done
    f,        \* the store: the facts published last
    active,   \* ProcessRuntimeRegistry.serviceActive
    svc,      \* at most one service instance
    intents,  \* the start and stop intents not yet delivered to a service
    starts,   \* the newest start identifier the system has handed out
    op,       \* the operations issued so far
    spent     \* commands, faults, events and crashes so far

mvars == <<m, pend, tasks, f, active, svc, intents, starts, op, spent>>
platform == <<f, pend, active, svc, intents, starts>>

Spend(kind) ==
    /\ spent[kind] < CASE kind = "command" -> MaxCommands
                       [] kind = "fault"   -> MaxFaults
                       [] kind = "event"   -> MaxEvents
                       [] kind = "crash"   -> MaxCrashes
    /\ spent' = [spent EXCEPT ![kind] = @ + 1]

----------------------------------------------------------------------------
(* The machine.                                                            *)

The(set) == CHOOSE x \in set : TRUE

PlatformClean(facts) ==
    /\ facts.level = 0 /\ ~facts.net
    /\ facts.session = 0 /\ facts.auth = None /\ ~facts.evidence

ActivationReady(st) ==
    /\ st.facts.session = st.session
    /\ st.facts.level = 2 /\ st.facts.net /\ st.facts.granted

\* LifecycleState::initial: what a new machine makes of the facts it finds.
InitialState(facts) ==
    LET used  == ~PlatformClean(facts)
        state == [phase |-> IF facts.evidence \/ (used /\ facts.auth = None) THEN "recovery"
                            ELSE IF ~facts.granted THEN "permission"
                            ELSE IF used THEN "recovery" ELSE "stopped",
                  session |-> facts.session, facts |-> facts,
                  active |-> {}, last |-> <<0, "none">>]
    IN IF used /\ facts.auth # None /\ ActivationReady(state)
       THEN [state EXCEPT !.phase = "running"]
       ELSE state

Barrier(eff, retries) ==
    [eff |-> eff, done |-> FALSE, seen |-> FALSE, bad |-> FALSE, retries |-> retries]

CurrentEffect(a) == IF a.cleanup = {} THEN 1 ELSE The(a.cleanup).eff

Finish(st, phase, outcome) ==
    [st EXCEPT !.phase = phase, !.active = {}, !.last = <<The(st.active).op, outcome>>]

Begin(st, cmd, n) ==
    [st EXCEPT !.active = {[cmd |-> cmd, op |-> n, cancelled |-> "no",
                            cleanup |-> IF cmd = "stop" THEN {Barrier(1, 0)} ELSE {}]}]

Task(act, n, eff, seq) ==
    [act |-> act, op |-> n, eff |-> eff, seq |-> seq, at |-> "spawned", facts |-> {}]

To(st, spawned) == [st |-> st, spawned |-> spawned]

\* apply_facts: only newer facts; apply_effect_facts: the same facts again too.
ApplyFacts(st, facts) == facts.seq > st.facts.seq
ApplyEffectFacts(st, facts) == facts.seq > st.facts.seq \/ facts = st.facts

CleanupObservationMatches(a, facts) ==
    \/ PlatformClean(facts)
    \/ facts.auth = <<a.op, CurrentEffect(a)>>

ReduceCommand(st, cmd, n) ==
    CASE st.active # {} -> To(st, {})
      [] cmd = "consent" /\ st.active = {} ->
            To(Begin(st, cmd, n), {Task("consent", n, 1, 0)})
      [] cmd = "start" /\ st.active = {} ->
            IF st.phase = "recovery" \/ (st.phase = "running" /\ ActivationReady(st))
            THEN To(st, {})
            ELSE IF ~st.facts.granted THEN To([st EXCEPT !.phase = "permission"], {})
            ELSE To([Begin(st, cmd, n) EXCEPT !.phase = "starting", !.session = n],
                    {Task("start", n, 1, st.facts.seq)})
      [] cmd = "stop" /\ st.active = {} ->
            IF st.phase = "stopped" /\ PlatformClean(st.facts) THEN To(st, {})
            ELSE To([Begin(st, cmd, n) EXCEPT !.phase = "stopping"],
                    {Task("stop", n, 1, 0)})

\* A cleanup whose call failed, or whose two halves have both failed, is
\* given MaxRetries more tries; its operation then ends with the truth unknown.
Retry(st) ==
    LET a == The(st.active)
        b == The(a.cleanup)
    IN IF b.retries < MaxRetries
       THEN To([st EXCEPT !.phase = "stopping",
                          !.active = {[a EXCEPT !.cleanup = {Barrier(b.eff + 1, b.retries + 1)},
                                                !.cancelled = IF a.cmd # "stop" /\ @ = "no"
                                                              THEN "unknown" ELSE @]}],
               {Task("stop", a.op, b.eff + 1, 0)})
       ELSE To(Finish(st, "recovery", "unknown"), {})

Settled(st) ==
    LET a == The(st.active)
    IN To(Finish(st, "stopped", IF a.cancelled = "no" THEN "completed" ELSE a.cancelled), {})

\* The stop effect's answer: half of what a cleanup has to see.
CleanupResult(st, a, facts) ==
    LET clean == PlatformClean(st.facts)
        b == [The(a.cleanup) EXCEPT !.done = TRUE,
                                    !.bad = @ \/ (facts.event = "stopped" /\ ~clean)]
        next == [st EXCEPT !.active = {[a EXCEPT !.cleanup = {b}]}, !.phase = "stopping"]
    IN CASE b.seen /\ ~b.bad /\ facts.event = "stopped" /\ clean -> Settled(next)
         [] b.seen /\ b.bad -> Retry(next)
         [] OTHER -> To(next, {})

\* The callback of a completed stop: the other half.
CleanupCallback(st, a) ==
    LET clean == PlatformClean(st.facts)
        b == [The(a.cleanup) EXCEPT !.seen = TRUE, !.bad = @ \/ ~clean]
        next == [st EXCEPT !.active = {[a EXCEPT !.cleanup = {b}]}, !.phase = "stopping"]
    IN CASE b.done /\ ~b.bad /\ clean -> Settled(next)
         [] b.done /\ b.bad -> Retry(next)
         [] OTHER -> To(next, {})

\* What the answer of a consent or of a start ends its operation with.
EffectOutcome(next, act, facts) ==
    CASE act = "consent" -> IF facts.granted THEN Finish(next, "stopped", "completed")
                                             ELSE Finish(next, "permission", "rejected")
      [] act = "start" -> IF ActivationReady(next) THEN Finish(next, "running", "completed")
                          ELSE IF facts.failed THEN Finish(next, "failed", "rejected")
                          ELSE Finish(next, "recovery", "unknown")

ReduceEffectCompleted(st, t, facts) ==
    LET a == The(st.active)
        next == [st EXCEPT !.facts = facts]
    IN CASE \/ st.active = {}
            \/ t.op # a.op \/ t.eff # CurrentEffect(a)
            \/ /\ t.act = "stop" /\ facts.event = "stopped"
               /\ ~CleanupObservationMatches(a, facts) -> To(st, {})
         [] OTHER ->
            IF ~ApplyEffectFacts(st, facts) THEN To(Finish(st, "recovery", "unknown"), {})
            ELSE CASE t.act = "stop" /\ a.cleanup = {} -> To(st, {})
                   [] t.act = "stop" /\ a.cleanup # {} -> CleanupResult(next, a, facts)
                   [] OTHER -> To(EffectOutcome(next, t.act, facts), {})

ReduceEffectFailed(st, act, n, eff) ==
    LET a == The(st.active)
    IN CASE st.active = {} -> To(st, {})
         [] st.active # {} /\ (n # a.op \/ eff # CurrentEffect(a)) -> To(st, {})
         [] OTHER ->
            IF act = "start" /\ a.cleanup = {}
            THEN To([st EXCEPT !.phase = "stopping",
                               !.active = {[a EXCEPT !.cancelled = "unknown",
                                                     !.cleanup = {Barrier(eff + 1, 0)}]}],
                    {Task("stop", n, eff + 1, 0)})
            ELSE IF act = "stop" THEN (IF a.cleanup = {} THEN To(st, {}) ELSE Retry(st))
            ELSE To(Finish(st, "recovery", "unknown"), {})

\* The phase an observation ends in when no operation claims it.
ObservedPhase(st, next, facts) ==
    CASE facts.event = "revoked" -> "permission"
      [] facts.event = "destroyed" -> IF PlatformClean(facts) THEN "failed" ELSE "recovery"
      [] facts.event \in {"exited", "failed"} -> "failed"
      [] facts.event = "completed" /\ ActivationReady(next) -> "running"
      [] facts.event = "network" ->
            IF ~facts.net THEN "unavailable"
            ELSE IF ActivationReady(next) THEN "running" ELSE "starting"
      [] facts.event = "stopped" /\ next.active = {} /\ PlatformClean(facts) -> "stopped"
      [] OTHER ->
            IF facts.evidence THEN "recovery"
            ELSE IF facts.event = "observation" /\ st.phase = "unavailable" /\ facts.level = 0
            THEN "recovery"
            ELSE IF facts.event = "observation" /\ st.phase \notin {"starting", "stopping"}
                    /\ ~facts.granted
            THEN "permission" ELSE st.phase

\* The observations that leave the running operation's outcome unknown.
Interrupts(facts, phase) ==
    \/ facts.event \in {"revoked", "destroyed", "exited", "failed"}
    \/ /\ facts.evidence /\ phase = "recovery"
       /\ facts.event \in {"progress", "observation", "stopped", "consented", "completed"}

ReduceObservation(st, facts) ==
    LET next == [st EXCEPT !.facts = facts]
        a    == The(st.active)
        phase == ObservedPhase(st, next, facts)
    IN IF ~ApplyFacts(st, facts) THEN To(st, {})
       ELSE IF st.active # {} /\ a.cleanup # {} /\ facts.event = "stopped"
       THEN IF CleanupObservationMatches(a, facts) THEN CleanupCallback(next, a) ELSE To(st, {})
       ELSE IF st.active # {} /\ a.cmd = "consent" /\ facts.event = "consented"
       THEN To(IF facts.granted THEN Finish(next, "stopped", "completed")
                                ELSE Finish(next, "permission", "rejected"), {})
       ELSE IF st.active # {} /\ a.cmd = "start" /\ facts.event = "completed"
               /\ ActivationReady(next)
       THEN To(Finish(next, "running", "completed"), {})
       ELSE IF st.active # {} /\ a.cmd = "start" /\ facts.event = "failed"
       THEN To(Finish(next, "failed", "rejected"), {})
       ELSE IF st.active # {} /\ facts.event \in {"progress", "network"}
       THEN To([next EXCEPT !.phase = IF a.cancelled # "no" THEN "stopping" ELSE "starting"], {})
       ELSE IF st.active # {} /\ Interrupts(facts, phase)
       THEN To(Finish(next, phase, "unknown"), {})
       ELSE To([next EXCEPT !.phase = phase], {})

ReduceCancel(st, outcome) ==
    LET a == The(st.active)
        eff == CurrentEffect(a) + 1
    IN IF a.cmd = "consent" THEN To(Finish(st, st.phase, outcome), {})
       ELSE To([st EXCEPT !.phase = "stopping",
                          !.active = {[a EXCEPT !.cancelled = outcome,
                                                !.cleanup = {Barrier(eff, 0)}]}],
               {Task("stop", a.op, eff, 0)})

ReduceShutdown(st, n) ==
    LET a == The(st.active)
        eff == CurrentEffect(a) + 1
    IN CASE st.active = {} /\ PlatformClean(st.facts) -> To(st, {})
         [] st.active # {} ->
              To([st EXCEPT !.phase = "stopping",
                            !.active = {[a EXCEPT !.cleanup = {Barrier(eff, 0)},
                                                  !.cancelled = IF a.cmd # "stop" /\ @ = "no"
                                                                THEN "unknown" ELSE @]}],
                 {Task("stop", a.op, eff, 0)})
         [] OTHER ->
              To([st EXCEPT !.phase = "stopping",
                            !.active = {[cmd |-> "stop", op |-> n, cancelled |-> "unknown",
                                         cleanup |-> {Barrier(1, 0)}]}],
                 {Task("stop", n, 1, 0)})

----------------------------------------------------------------------------
(* The store, the plugin and the service.                                  *)

\* The ingress keeps the newest facts: what it still holds is replaced.
Offer(facts) == pend' = {facts}

\* MishVpnPlatformStore.publish, with the broadcast that offers the new facts.
Publish(event, facts) ==
    /\ f' = [facts EXCEPT !.seq = f.seq + 1, !.event = event]
    /\ Offer(f')

CleanedFacts(facts) ==
    [facts EXCEPT !.session = 0, !.net = FALSE, !.level = 0, !.auth = None,
                  !.evidence = FALSE, !.failed = FALSE]

\* What the store publishes when a cleanup for a reason has ended well.
Released(reason, session) ==
    CASE reason = "stopped" -> CleanedFacts(f)
      [] reason = "failed"  -> [CleanedFacts(f) EXCEPT !.failed = TRUE, !.session = session]
      [] reason = "revoked" -> [CleanedFacts(f) EXCEPT !.failed = TRUE, !.granted = FALSE]
      [] reason = "exited"  -> [CleanedFacts(f) EXCEPT !.failed = TRUE]

\* serviceDestroyed(false): the authority and the resources stay on record.
Unreleased == [f EXCEPT !.failed = TRUE, !.evidence = TRUE]

\* lifecycleAuthorityMatchesOrIsSuccessor, over one machine authority and epoch.
MatchesOrIsSuccessor(new, current) ==
    \/ new = current \/ current = None
    \/ new[1] > current[1]
    \/ new[1] = current[1] /\ new[2] = current[2] + 1

Resolve(t, facts) == tasks' = (tasks \ {t}) \cup {[t EXCEPT !.at = "answered", !.facts = {facts}]}
Waiting(t) == tasks' = (tasks \ {t}) \cup {[t EXCEPT !.at = "waiting"]}
Send(kind, auth, session, seq) ==
    /\ starts' = starts + 1
    /\ intents' = Append(intents, [kind |-> kind, auth |-> auth, session |-> session,
                                   seq |-> seq, id |-> starts'])

MutantStartAdmitted(t) ==
    /\ f.granted /\ ~f.evidence
    /\ MatchesOrIsSuccessor(<<t.op, t.eff>>, f.auth)

\* The plugin refuses a start whose facts are not the ones Rust saw.
StartAdmitted(t) ==
    /\ f.granted /\ ~f.evidence /\ f.seq = t.seq
    /\ MatchesOrIsSuccessor(<<t.op, t.eff>>, f.auth)

\* startPlatformLifecycle: record the authority, then ask for the service.
StartCall(t) ==
    /\ t.act = "start" /\ t.at = "spawned"
    /\ IF StartAdmitted(t)
       THEN /\ Publish("observation", [f EXCEPT !.auth = <<t.op, t.eff>>])
            /\ Send("start", <<t.op, t.eff>>, t.op, f'.seq)
            /\ Waiting(t)
       ELSE Resolve(t, f) /\ UNCHANGED <<f, pend, intents, starts>>
    /\ UNCHANGED <<m, active, svc, op, spent>>

\* stopPlatformLifecycle: nothing to stop, a stale authority, or a stop intent.
StopCall(t) ==
    /\ t.act = "stop" /\ t.at = "spawned"
    /\ IF PlatformClean(f) /\ ~active
       THEN /\ Publish("stopped", CleanedFacts(f))
            /\ Resolve(t, f')
            /\ UNCHANGED <<intents, starts>>
       ELSE IF MatchesOrIsSuccessor(<<t.op, t.eff>>, f.auth)
       THEN /\ Publish("observation", [f EXCEPT !.auth = <<t.op, t.eff>>])
            /\ Send("stop", <<t.op, t.eff>>, 0, 0)
            /\ Waiting(t)
       ELSE Resolve(t, f) /\ UNCHANGED <<f, pend, intents, starts>>
    /\ UNCHANGED <<m, active, svc, op, spent>>

\* requestVpnConsent: the user's answer.
ConsentCall(t) ==
    /\ t.act = "consent" /\ t.at = "spawned"
    /\ \E granted \in BOOLEAN : Publish("consented", [f EXCEPT !.granted = granted])
    /\ Resolve(t, f')
    /\ UNCHANGED <<m, active, svc, intents, starts, op, spent>>

\* resolveAfterPlatformEffect polls the facts until they show the effect's end.
Polled(t) ==
    /\ t.at = "waiting"
    /\ \/ t.act = "start" /\ f.event \in {"completed", "failed"}
       \/ t.act = "stop" /\ f.event = "stopped" /\ f.level = 0
    /\ Resolve(t, f)
    /\ UNCHANGED <<m, op, spent>> /\ UNCHANGED platform

\* The poll gives up and answers with the facts of that moment, or the call
\* itself fails before it did anything.
PollTimesOut(t) ==
    /\ t.at = "waiting"
    /\ Spend("fault")
    /\ Resolve(t, f)
    /\ UNCHANGED <<m, op>> /\ UNCHANGED platform

CallFails(t) ==
    /\ t.at = "spawned"
    /\ Spend("fault")
    /\ LET r == ReduceEffectFailed(m, t.act, t.op, t.eff)
       IN m' = r.st /\ tasks' = (tasks \ {t}) \cup r.spawned
    /\ UNCHANGED op /\ UNCHANGED platform

\* onCreate, then onStartCommand for the oldest intent.
NewService ==
    [auth |-> f.auth, stop |-> None, session |-> f.session, cleanup |-> FALSE,
     stopReq |-> FALSE, explicit |-> FALSE, held |-> FALSE, released |-> FALSE,
     stopping |-> FALSE, jobs |-> <<>>]

Job(do, i) == [do |-> do, auth |-> i.auth, session |-> i.session, seq |-> i.seq, id |-> i.id]

HandleIntent ==
    /\ intents # <<>>
    /\ \A s \in svc : ~s.stopping
    /\ intents' = Tail(intents)
    /\ active' = IF svc = {} THEN TRUE ELSE active
    /\ LET i == Head(intents)
           s == IF svc = {} THEN NewService ELSE The(svc)
           current == IF f.auth # None THEN f.auth ELSE s.auth
       IN IF i.kind = "start"
          THEN /\ svc' = {[s EXCEPT !.jobs = Append(@, Job("activate", i))]}
               /\ UNCHANGED <<f, pend>>
          ELSE IF MatchesOrIsSuccessor(i.auth, current) /\ MatchesOrIsSuccessor(i.auth, f.auth)
          THEN /\ Publish("observation", [f EXCEPT !.auth = i.auth])
               /\ svc' = {[s EXCEPT !.stop = i.auth, !.stopReq = TRUE,
                                    !.jobs = Append(@, Job("stopped", i))]}
          ELSE svc' = {s} /\ UNCHANGED <<f, pend>>
    /\ UNCHANGED <<m, tasks, starts, op, spent>>

\* The service's executor runs one job at a time.  An activation that goes
\* wrong, a stop, a revocation and a dead Core all end in a cleanup.
Do(s, do) == [s EXCEPT !.jobs[1].do = do]
Drop(s) == [s EXCEPT !.jobs = Tail(@)]

\* activate, up to the published authority: the preflight checks.
Activate(s, j) ==
    /\ j.do = "activate"
    /\ IF s.cleanup \/ ~MatchesOrIsSuccessor(j.auth, f.auth)
       THEN svc' = {Drop(s)} /\ UNCHANGED <<f, pend, active>>
       ELSE IF f.evidence \/ ~f.granted \/ f.seq # j.seq
       THEN svc' = {Do([s EXCEPT !.explicit = TRUE], "failed")} /\ UNCHANGED <<f, pend, active>>
       ELSE /\ Publish("progress", [CleanedFacts(f) EXCEPT !.session = j.session, !.auth = j.auth])
            /\ active' = TRUE
            /\ svc' = {Do([s EXCEPT !.session = j.session, !.auth = j.auth, !.stopReq = FALSE],
                          "acquire")}
    /\ UNCHANGED <<spent, intents>>

\* The network wait, the tunnel and the Core, as far as no stop is asked for.
Acquire(s, j) ==
    /\ j.do = "acquire"
    /\ IF s.stopReq
       THEN svc' = {Drop(s)} /\ UNCHANGED <<f, pend, spent>>
       ELSE \/ /\ IF f.auth = j.auth /\ f.session = j.session /\ f.granted
                  THEN /\ Publish("progress", [f EXCEPT !.level = 1, !.net = TRUE])
                       /\ svc' = {Do([s EXCEPT !.held = TRUE], "probe")}
                  ELSE svc' = {Do(s, "failed")} /\ UNCHANGED <<f, pend>>
               /\ UNCHANGED spent
            \/ Spend("fault") /\ svc' = {Do(s, "failed")} /\ UNCHANGED <<f, pend>>
    /\ UNCHANGED <<active, intents>>

\* The public request that proves the path, then activationCompleted.
Probe(s, j) ==
    /\ j.do = "probe"
    /\ IF s.stopReq
       THEN svc' = {Drop(s)} /\ UNCHANGED <<f, pend, spent>>
       ELSE \/ /\ IF f.auth = None THEN UNCHANGED <<f, pend>>
                  ELSE Publish("completed", [f EXCEPT !.level = 2, !.failed = FALSE])
               /\ svc' = {Drop(s)}
               /\ UNCHANGED spent
            \/ Spend("fault") /\ svc' = {Do(s, "failed")} /\ UNCHANGED <<f, pend>>
    /\ UNCHANGED <<active, intents>>

\* cleanupOwnedResources: the authority a cleanup runs under.
CleanupAuthority(s) ==
    IF s.stop # None THEN s.stop
    ELSE IF s.auth # None THEN <<s.auth[1], s.auth[2] + 1>> ELSE None

Finished(s, j) ==
    [Drop(s) EXCEPT !.explicit = TRUE,
                    !.stopping = @ \/ j.do \in {"revoked", "exited"} \/ j.id = starts]

\* The cleanup claims its authority, releases what the service holds, and only
\* then is the clean state published.
CleanUp(s, j) ==
    LET claim == CleanupAuthority(s)
    IN /\ j.do \in {"stopped", "failed", "revoked", "exited"}
       /\ IF ~s.released /\ claim # None /\ f.auth # claim /\ MatchesOrIsSuccessor(claim, f.auth)
          THEN /\ Publish("observation", [f EXCEPT !.auth = claim])
               /\ svc' = {[s EXCEPT !.cleanup = TRUE]}
               /\ UNCHANGED <<active, spent>>
          ELSE /\ active' = FALSE
               /\ \/ /\ s.released \/ claim = None \/ f.auth = claim
                     /\ Publish(j.do, Released(j.do, IF j.session # 0 THEN j.session ELSE f.session))
                     /\ svc' = {Finished([s EXCEPT !.cleanup = TRUE, !.held = FALSE,
                                                    !.released = TRUE, !.auth = None,
                                                    !.stop = None, !.session = 0], j)}
                     /\ UNCHANGED spent
                  \/ /\ Publish("destroyed", Unreleased)
                     /\ svc' = {Finished([s EXCEPT !.cleanup = TRUE], j)}
                     /\ ~s.released
                     /\ IF claim # None /\ f.auth # claim THEN UNCHANGED spent
                        ELSE Spend("fault")
       /\ UNCHANGED intents

ServiceStep ==
    /\ \E s \in svc : s.jobs # <<>> /\ LET j == Head(s.jobs) IN
            Activate(s, j) \/ Acquire(s, j) \/ Probe(s, j) \/ CleanUp(s, j)
    /\ UNCHANGED <<m, tasks, starts, op>>

StillOwned == f.auth # None \/ f.evidence \/ f.net \/ f.level > 0 \/ f.session # 0

\* onDestroy, after stopSelf or because the system takes the service down.
Destroy ==
    /\ \E s \in svc :
        /\ s.jobs = <<>>
        /\ LET claim == CleanupAuthority(s)
               can == s.released \/ claim = None \/ MatchesOrIsSuccessor(claim, f.auth)
           IN \/ /\ s.stopping /\ can
                 /\ IF StillOwned THEN Publish("stopped", CleanedFacts(f))
                    ELSE IF ~s.explicit THEN Publish("destroyed", CleanedFacts(f))
                    ELSE UNCHANGED <<f, pend>>
                 /\ UNCHANGED spent
              \/ /\ ~s.stopping /\ can
                 /\ Spend("event")
                 /\ IF StillOwned THEN Publish("stopped", CleanedFacts(f))
                    ELSE Publish("destroyed", CleanedFacts(f))
              \/ /\ s.stopping /\ ~s.released
                 /\ IF s.explicit THEN UNCHANGED <<f, pend>> ELSE Publish("destroyed", Unreleased)
                 /\ IF can THEN Spend("fault") ELSE UNCHANGED spent
    /\ svc' = {}
    /\ active' = FALSE
    /\ UNCHANGED <<m, tasks, intents, starts, op>>

\* What happens to the device: an unrelated fact changes, the network goes and
\* comes back, the consent is revoked, the Core dies.
Happens ==
    /\ Spend("event")
    /\ \/ Publish("observation", f) /\ UNCHANGED <<svc, active>>
       \/ \E s \in svc :
            /\ s.jobs = <<>> /\ ~s.cleanup /\ ~s.stopReq /\ f.auth # None /\ s.held
            /\ Publish("network", [f EXCEPT !.net = ~@, !.level = 1])
            /\ svc' = {IF f.net THEN s ELSE [s EXCEPT !.jobs = <<Job("probe", [auth |-> s.auth,
                            session |-> s.session, seq |-> 0, id |-> 0])>>]}
            /\ UNCHANGED active
       \/ \E s \in svc, why \in {"revoked", "exited"} :
            /\ why = "exited" => s.held /\ ~s.cleanup
            /\ ~s.stopping
            /\ svc' = {[s EXCEPT !.jobs = Append(@, Job(why, [auth |-> None, session |-> 0,
                                                              seq |-> 0, id |-> 0]))]}
            /\ UNCHANGED <<f, pend, active>>
    /\ UNCHANGED <<m, tasks, intents, starts, op>>

----------------------------------------------------------------------------
(* The Rust side's steps.                                                  *)

\* execute_command and, for one that runs, its cancellation or its timeout.
\* The application asks for consent where the phase says it is missing: only its
\* page sees to that (mobile-home-page.tsx), the command itself checks no phase.
Command ==
    /\ Spend("command")
    /\ op' = op + 1
    /\ \E cmd \in Commands :
        /\ cmd = "consent" => m.phase = "permission"
        /\ LET r == ReduceCommand(m, cmd, op')
           IN m' = r.st /\ tasks' = tasks \cup r.spawned
    /\ UNCHANGED platform

Cancel ==
    /\ Spend("command")
    /\ m.active # {}
    /\ \E outcome \in {"cancelled", "unknown"} :
        LET r == ReduceCancel(m, outcome)
        IN m' = r.st /\ tasks' = tasks \cup r.spawned
    /\ UNCHANGED op /\ UNCHANGED platform

Shutdown ==
    /\ Spend("command")
    /\ op' = op + 1
    /\ LET r == ReduceShutdown(m, op')
       IN m' = r.st /\ tasks' = tasks \cup r.spawned
    /\ UNCHANGED platform

\* The executor's answer reaches the machine.
Answer(t) ==
    /\ t.at = "answered"
    /\ LET r == ReduceEffectCompleted(m, t, The(t.facts))
       IN m' = r.st /\ tasks' = (tasks \ {t}) \cup r.spawned
    /\ UNCHANGED <<op, spent>> /\ UNCHANGED platform

\* deliver_next: the ingress hands over what it holds.
Deliver ==
    /\ pend # {}
    /\ pend' = {}
    /\ LET r == ReduceObservation(m, The(pend))
       IN m' = r.st /\ tasks' = tasks \cup r.spawned
    /\ UNCHANGED <<f, active, svc, intents, starts, op, spent>>

\* The process dies and is started again: the recovery record, which is the
\* authority last recorded, is all that is left of a service that ran.
Crash ==
    /\ Spend("crash")
    /\ f' = [CleanedFacts(f) EXCEPT !.seq = 1, !.event = "observation",
                                    !.auth = f.auth, !.evidence = (f.auth # None)]
    /\ m' = InitialState(f')
    /\ pend' = {} /\ tasks' = {} /\ intents' = <<>>
    /\ active' = FALSE /\ svc' = {} /\ starts' = 0
    /\ UNCHANGED op

MobileInit ==
    /\ f = [seq |-> 1, event |-> "observation", auth |-> None, session |-> 0, level |-> 0,
            net |-> FALSE, evidence |-> FALSE, granted |-> TRUE, failed |-> FALSE]
    /\ m = InitialState(f)
    /\ pend = {} /\ tasks = {} /\ intents = <<>> /\ svc = {}
    /\ active = FALSE /\ starts = 0 /\ op = 0
    /\ spent = [command |-> 0, fault |-> 0, event |-> 0, crash |-> 0]

MobileNext ==
    \/ Command \/ Cancel \/ Shutdown \/ Deliver
    \/ \E t \in tasks : \/ StartCall(t) \/ StopCall(t) \/ ConsentCall(t)
                        \/ Polled(t) \/ PollTimesOut(t) \/ CallFails(t) \/ Answer(t)
    \/ HandleIntent \/ ServiceStep \/ Destroy \/ Happens \/ Crash

MobileSpec == MobileInit /\ [][MobileNext]_mvars

----------------------------------------------------------------------------
(* Properties.                                                             *)

\* A product that says Stopped, with no operation running, holds no tunnel and
\* no Core: a start that was cancelled, timed out or overtaken by its own
\* cleanup cannot leave the service behind.
StoppedHoldsNothing ==
    m.phase = "stopped" /\ m.active = {} => \A s \in svc : ~s.held

\* Everything the platform and the executor had to say has been said.
Quiet ==
    /\ pend = {} /\ tasks = {} /\ intents = <<>>
    /\ \A s \in svc : s.jobs = <<>> /\ ~s.stopping

=============================================================================
