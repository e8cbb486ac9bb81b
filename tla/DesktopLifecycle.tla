-------------------------- MODULE DesktopLifecycle --------------------------
(***************************************************************************)
(* The lifecycle coordinator of the desktop bridge                         *)
(* (crates/desktop-bridge/src/lifecycle.rs): one task takes runtime        *)
(* replacements, sleep, wake and network events, Core status updates and a *)
(* periodic tick, and pauses, rebuilds or discontinues what observes the   *)
(* Controller.  With it: the macOS event source that numbers events under  *)
(* a lock and broadcasts them outside it, the host that replaces runtimes, *)
(* and the recent-traffic session they all touch.  Capture is its          *)
(* selection, whether it is confirmed and whether an operation is pending. *)
(***************************************************************************)
EXTENDS RecentTraffic, Sequences, FiniteSets

CONSTANTS
    Profiles,       \* profile identities
    Capacity,       \* the broadcast channel of platform events (32)
    MaxEvents,      \* bound: platform events published
    MaxCaptures,    \* bound: capture commands
    MaxBytes,       \* bound: bytes transferred
    MaxTroubles     \* bound: Core changes, runtimes installed and failing steps

(* A broadcast channel holds at least one event.                            *)
ASSUME CapacityAssumption == Capacity \in Nat \ {0}

VARIABLES
    auth,       \* LifecycleAuthoritySnapshot: sequence, state, recovery
    plat,       \* the platform: last sequence, sleeping, numbered, sent, lag, closed
    host,       \* the current runtime: number, profile, unseen replacement
    run,        \* its Core and Controller source
    status,     \* Core status updates not received yet
    seen,       \* was_running
    cap,        \* Capture: selected, confirmed, operation pending
    recent,     \* RecentTraffic
    moved,      \* bytes really transferred since the session began
    job,        \* where the coordinator is
    uses        \* bounds

lvars == <<auth, plat, host, run, status, seen, cap, recent, moved, job, uses>>

At(where) == [at |-> where, then |-> "loop", rt |-> 0, ev |-> {}]
Loop == At("loop")
Source(core) == [core |-> core, active |-> core, ready |-> FALSE, gen |-> 0, seq |-> 0, bytes |-> 0]

LifecycleInit ==
    /\ auth = [sequence |-> 0, state |-> "awake", recovery |-> "current"]
    /\ plat = [seq |-> 0, asleep |-> FALSE, numbered |-> {}, queue |-> <<>>,
               lagged |-> FALSE, closed |-> FALSE]
    /\ \E p \in Profiles : host = [rt |-> 1, profile |-> p, changed |-> FALSE]
    /\ \E core \in BOOLEAN : run = Source(core) /\ seen = core
    /\ status = <<>> /\ cap = [sel |-> FALSE, on |-> FALSE, busy |-> FALSE]
    /\ recent = IdleTraffic /\ moved = 0 /\ job = At("init")
    /\ uses = [events |-> 0, commands |-> 0, bytes |-> 0, troubles |-> 0]

Spends(what, max) == uses[what] < max /\ uses' = [uses EXCEPT ![what] = @ + 1]
Trouble == Spends("troubles", MaxTroubles)

(* What status_source.recent_traffic_observation answers now.               *)
Observation ==
    IF run.active /\ run.ready
    THEN {[gen |-> run.gen, seq |-> run.seq, profile |-> host.profile, bytes |-> run.bytes]}
    ELSE {}

Traffic(r) ==
    /\ recent' = r
    /\ moved' = IF r.session # recent.session \/ r.phase = "idle" THEN 0 ELSE moved

-----------------------------------------------------------------------------
(* Capture, as the coordinator and the session see it.                      *)

(* install_recent_traffic_capture_observer, on every confirmed change.      *)
Confirmed(r, on, sel) ==
    IF on THEN IF r.phase = "idle" THEN CaptureApplied(r, host.profile, Observation) ELSE r
    ELSE IF sel THEN Suspend(r) ELSE StopTraffic(r)

(* reconcile_recent_traffic_after_capture *)
AfterCapture(r, on, active) ==
    IF on THEN CaptureApplied(r, host.profile, Observation)
    ELSE IF ~active THEN StopTraffic(r) ELSE r

(* resume_recent_traffic(Continue) *)
Resumed(r, on, sel) ==
    IF on THEN CaptureApplied(r, host.profile, Observation)
    ELSE IF sel THEN r ELSE StopTraffic(r)

CaptureBegins ==
    /\ ~cap.busy /\ Spends("commands", MaxCaptures)
    /\ cap' = [cap EXCEPT !.busy = TRUE]
    /\ UNCHANGED <<auth, plat, host, run, status, seen, recent, moved, job>>

(* set_capture and its finish_capture_reconciliation: the command ends.     *)
CaptureEnds(active, ok) ==
    /\ cap.busy /\ IF ok THEN UNCHANGED uses ELSE Trouble
    /\ LET on == IF ok THEN active /\ run.core ELSE FALSE IN
       /\ cap' = [sel |-> active, on |-> on, busy |-> FALSE]
       /\ LET r == Confirmed(recent, on, active) IN
          Traffic(IF ok THEN AfterCapture(r, on, active) ELSE r)
    /\ UNCHANGED <<auth, plat, host, run, status, seen, job>>

-----------------------------------------------------------------------------
(* The platform.                                                            *)

(* publish_lifecycle_event: the number is taken under the lock ...          *)
Numbered(kind) ==
    /\ ~plat.closed /\ Spends("events", MaxEvents)
    /\ (kind = "sleep" => ~plat.asleep) /\ (kind = "wake" => plat.asleep)
    /\ plat' = [plat EXCEPT !.seq = @ + 1, !.asleep = kind = "sleep" \/ (@ /\ kind # "wake"),
                            !.numbered = @ \cup {[kind |-> kind, seq |-> plat.seq + 1]}]
    /\ UNCHANGED <<auth, host, run, status, seen, cap, recent, moved, job>>

(* ... and the event is sent after it, by whichever thread comes first.     *)
(* Workspace callbacks share one thread, so two of them keep their order.   *)
Sent(e) ==
    /\ e \in plat.numbered
    /\ e.kind = "network" \/ \A f \in plat.numbered : f.kind = "network" \/ f.seq >= e.seq
    /\ plat' = [plat EXCEPT !.numbered = @ \ {e},
                            !.queue = IF Len(@) < Capacity THEN Append(@, e)
                                      ELSE Append(Tail(@), e),
                            !.lagged = @ \/ Len(plat.queue) = Capacity]
    /\ UNCHANGED <<auth, host, run, status, seen, cap, recent, moved, job, uses>>

Closes ==
    /\ ~plat.closed /\ Trouble /\ plat' = [plat EXCEPT !.closed = TRUE]
    /\ UNCHANGED <<auth, host, run, status, seen, cap, recent, moved, job>>

-----------------------------------------------------------------------------
(* The Core, its Controller and the host.                                   *)

CoreChanges ==
    /\ Trouble
    /\ run' = [run EXCEPT !.core = ~@, !.bytes = 0]
    /\ status' = Append(status, ~run.core)
    /\ UNCHANGED <<auth, plat, host, seen, cap, recent, moved, job>>

Transfers ==
    /\ run.core /\ Spends("bytes", MaxBytes)
    /\ run' = [run EXCEPT !.bytes = @ + 1]
    /\ moved' = IF recent.phase = "idle" THEN 0 ELSE moved + 1
    /\ UNCHANGED <<auth, plat, host, status, seen, cap, recent, job>>

(* The collector stores a batch; the source's event reaches                 *)
(* install_recent_traffic_source_observer.                                  *)
Sampled ==
    /\ run.active /\ run.core
    /\ recent.gen = {run.gen} => recent.seq <= run.seq    \* one sample per sequence
    /\ ~run.ready \/ (recent.phase = "active" /\ run.bytes # recent.base + (recent.total - recent.offset))
    /\ run' = [run EXCEPT !.ready = TRUE, !.seq = @ + 1]
    /\ Traffic(Observe(recent, [gen |-> run.gen, seq |-> run.seq + 1,
                                profile |-> host.profile, bytes |-> run.bytes]))
    /\ UNCHANGED <<auth, plat, host, status, seen, cap, job, uses>>

(* DesktopRuntimeHost.replace: the session is stopped or suspended and      *)
(* handed to the new runtime.                                               *)
Replace(p, core) ==
    /\ Trouble
    /\ host' = [rt |-> host.rt + 1, profile |-> p, changed |-> TRUE]
    /\ run' = Source(core)
    /\ Traffic(IF p # host.profile THEN StopTraffic(recent) ELSE Suspend(recent))
    /\ cap' = [cap EXCEPT !.on = @ /\ core]
    /\ UNCHANGED <<auth, plat, status, seen, job>>

-----------------------------------------------------------------------------
(* Steps of the coordinator, each up to its next await.                     *)

Paused == [run EXCEPT !.active = FALSE, !.ready = FALSE, !.gen = @ + 1]
Mine == job.rt = host.rt
Pause(then, ev) == [at |-> "pause", then |-> then, rt |-> host.rt, ev |-> ev]
Rebuild(pausing) == [At("rebuild") EXCEPT !.then = IF pausing THEN "pause" ELSE "core"]
Ended(j) == IF j.ev = {} THEN Loop ELSE [j EXCEPT !.at = "event"]

Unknown(recovery) == [auth EXCEPT !.state = "unknown", !.recovery = recovery]

(* initialize_platform_authority, and the audit of a restart.               *)
Initialize(ok) ==
    /\ job.at = "init" /\ IF ok THEN UNCHANGED uses ELSE Trouble
    /\ IF ok
       THEN /\ auth' = [sequence |-> plat.seq, recovery |-> "current",
                        state |-> IF plat.asleep THEN "sleeping" ELSE "awake"]
            /\ job' = IF plat.asleep THEN Pause("loop", {}) ELSE At("audit")
            /\ Traffic(IF plat.asleep THEN Suspend(recent) ELSE recent)
       ELSE /\ auth' = Unknown("unavailable")
            /\ job' = Pause("loop", {}) /\ Traffic(StopTraffic(recent))
    /\ UNCHANGED <<plat, host, run, status, seen, cap>>

(* runtime_changes.changed and handle_runtime_replacement *)
Replaced(core) ==
    IF auth.state # "awake" THEN Pause("loop", {})
    ELSE IF core THEN [At("resume") EXCEPT !.then = "recent"] ELSE Pause("audit", {})

TakeReplacement ==
    /\ job.at = "loop" /\ host.changed
    /\ host' = [host EXCEPT !.changed = FALSE] /\ status' = <<>> /\ seen' = run.core
    /\ job' = [Replaced(run.core) EXCEPT !.rt = host.rt]
    /\ Traffic(IF auth.state # "awake" \/ ~run.core THEN Suspend(recent) ELSE recent)
    /\ UNCHANGED <<auth, plat, run, cap, uses>>

(* status_updates.recv and handle_core_availability *)
TakeStatus ==
    /\ job.at = "loop" /\ ~host.changed /\ plat.queue = <<>> /\ ~plat.lagged
    /\ status # <<>> /\ status' = Tail(status) /\ seen' = Head(status)
    /\ LET running == Head(status) IN
       IF running = seen THEN UNCHANGED <<job, recent, moved>>
       ELSE IF auth.state # "awake"
       THEN /\ job' = IF running THEN Pause("loop", {}) ELSE Loop
            /\ Traffic(IF running THEN Suspend(recent) ELSE recent)
       ELSE /\ job' = IF running THEN [At("resume") EXCEPT !.then = "restore", !.rt = host.rt]
                      ELSE Pause("audit", {})
            /\ Traffic(IF running THEN recent ELSE Suspend(recent))
    /\ UNCHANGED <<auth, plat, host, run, cap, uses>>

(* periodic_audit *)
Tick ==
    /\ job.at = "loop" /\ ~host.changed /\ plat.queue = <<>> /\ ~plat.lagged /\ status = <<>>
    /\ auth.state = "awake" /\ cap.on
    /\ job' = [At("audit") EXCEPT !.rt = host.rt]
    /\ UNCHANGED <<auth, plat, host, run, status, seen, cap, recent, moved, uses>>

(* A platform event whose turn has come, gap or not.                        *)
Apply(e) ==
    IF auth.state = "unknown" /\ e.kind = "network"
    THEN /\ auth' = [auth EXCEPT !.sequence = e.seq] /\ job' = Loop /\ Traffic(recent)
    ELSE /\ auth' = [sequence |-> e.seq, recovery |-> "current",
                     state |-> CASE e.kind = "sleep" -> "sleeping" [] e.kind = "wake" -> "awake"
                                 [] OTHER -> auth.state]
         /\ job' = CASE e.kind = "sleep" /\ auth.state = "awake" -> Pause("loop", {})
                     [] e.kind = "wake" /\ auth.state # "awake" -> Rebuild(FALSE)
                     [] e.kind = "network" /\ auth.state = "awake" -> Rebuild(TRUE)
                     [] OTHER -> Loop
         /\ Traffic(IF e.kind = "sleep" /\ auth.state = "awake" THEN Suspend(recent) ELSE recent)

(* recover_after_event_gap_locked up to the pause.                          *)
Recover(ev) ==
    /\ auth' = Unknown("observing") /\ job' = Pause("observe", ev)
    /\ Traffic(StopTraffic(recent))

(* handle_platform_event *)
MutantHandleEvent(e) ==
    IF e.seq <= auth.sequence THEN UNCHANGED <<auth, job, recent, moved>> ELSE Apply(e)
HandleEvent(e) ==
    IF e.seq <= auth.sequence THEN UNCHANGED <<auth, job, recent, moved>>
    ELSE IF e.seq > auth.sequence + 1 THEN Recover({e}) ELSE Apply(e)

TakeEvent ==
    /\ job.at = "loop" /\ ~host.changed /\ ~plat.lagged /\ plat.queue # <<>>
    /\ plat' = [plat EXCEPT !.queue = Tail(@)]
    /\ HandleEvent(Head(plat.queue))
    /\ UNCHANGED <<host, run, status, seen, cap, uses>>

(* RecvError::Lagged and reconcile_after_event_gap *)
TakeLag ==
    /\ job.at = "loop" /\ ~host.changed /\ plat.lagged
    /\ plat' = [plat EXCEPT !.lagged = FALSE] /\ Recover({})
    /\ UNCHANGED <<host, run, status, seen, cap, uses>>

(* RecvError::Closed and handle_event_stream_closed *)
TakeClosed ==
    /\ job.at = "loop" /\ ~host.changed /\ plat.closed /\ plat.queue = <<>> /\ ~plat.lagged
    /\ auth.recovery # "closed"
    /\ auth' = Unknown("closed") /\ job' = Pause("loop", {}) /\ Traffic(StopTraffic(recent))
    /\ UNCHANGED <<plat, host, run, status, seen, cap, uses>>

(* observe_sleep_state and accept_platform_observation *)
Observed(ok) ==
    /\ job.at = "observe" /\ IF ok THEN UNCHANGED uses ELSE Trouble
    /\ IF ~ok \/ plat.seq <= auth.sequence
       THEN /\ auth' = [auth EXCEPT !.recovery = IF ok THEN "stale" ELSE "unavailable"]
            /\ job' = Ended(job)
       ELSE /\ auth' = [sequence |-> plat.seq, recovery |-> "current",
                        state |-> IF plat.asleep THEN "sleeping" ELSE "awake"]
            /\ job' = IF plat.asleep THEN Ended(job)
                      ELSE [Rebuild(FALSE) EXCEPT !.ev = job.ev]
    /\ UNCHANGED <<plat, host, run, status, seen, cap, recent, moved>>

(* handle_platform_event after a gap was recovered.                         *)
AfterGap ==
    /\ job.at = "event"
    /\ \E e \in job.ev :
          IF e.seq <= auth.sequence
          THEN job' = Loop /\ UNCHANGED <<auth, recent, moved>> ELSE Apply(e)
    /\ UNCHANGED <<plat, host, run, status, seen, cap, uses>>

(* rebuild_current_authority_locked: nothing while an operation is pending. *)
RebuildStep ==
    /\ job.at = "rebuild"
    /\ IF auth.state # "awake" \/ cap.busy
       THEN job' = Ended(job) /\ UNCHANGED <<recent, moved>>
       ELSE /\ job' = IF job.then = "pause" THEN Pause("core", job.ev)
                      ELSE [job EXCEPT !.at = "core", !.rt = host.rt]
            /\ Traffic(IF job.then = "pause" THEN Suspend(recent) ELSE recent)
    /\ UNCHANGED <<auth, plat, host, run, status, seen, cap, uses>>

PauseStep ==
    /\ job.at = "pause"
    /\ run' = IF Mine THEN Paused ELSE run
    /\ job' = IF job.then = "loop" THEN Ended(job) ELSE [job EXCEPT !.at = job.then]
    /\ UNCHANGED <<auth, plat, host, status, seen, cap, recent, moved, uses>>

CoreStep ==
    /\ job.at = "core"
    /\ job' = [job EXCEPT !.at = IF Mine /\ run.core THEN "resume" ELSE "audit",
                          !.then = "restore"]
    /\ UNCHANGED <<auth, plat, host, run, status, seen, cap, recent, moved, uses>>

ResumeStep ==
    /\ job.at = "resume"
    /\ run' = IF Mine THEN [run EXCEPT !.active = TRUE] ELSE run
    /\ job' = [job EXCEPT !.at = job.then]
    /\ UNCHANGED <<auth, plat, host, status, seen, cap, recent, moved, uses>>

(* audit_capture: an unhealthy Core releases Capture, drift is found.       *)
AuditStep(off) ==
    /\ job.at = "audit" /\ (off => cap.on)
    /\ IF off THEN cap' = [cap EXCEPT !.on = FALSE] /\ Traffic(Confirmed(recent, FALSE, cap.sel))
       ELSE UNCHANGED <<cap, recent, moved>>
    /\ job' = Ended(job)
    /\ UNCHANGED <<auth, plat, host, run, status, seen, uses>>

(* restore_capture_intent, then the session goes on or ends.                *)
RestoreStep(ok) ==
    /\ job.at = "restore" /\ IF ok THEN UNCHANGED uses ELSE Trouble
    /\ LET on == IF cap.busy THEN cap.on ELSE ok /\ cap.sel /\ run.core
           r == Confirmed(recent, on, cap.sel)
       IN /\ cap' = [cap EXCEPT !.on = on]
          /\ Traffic(IF ok THEN Resumed(r, on, cap.sel) ELSE StopTraffic(r))
    /\ job' = IF ok THEN Ended(job) ELSE Loop
    /\ UNCHANGED <<auth, plat, host, run, status, seen>>

RecentStep ==
    /\ job.at = "recent" /\ Traffic(Resumed(recent, cap.on, cap.sel)) /\ job' = Ended(job)
    /\ UNCHANGED <<auth, plat, host, run, status, seen, cap, uses>>

LifecycleNext ==
    \/ CaptureBegins \/ \E a, ok \in BOOLEAN : CaptureEnds(a, ok)
    \/ \E k \in {"sleep", "wake", "network"} : Numbered(k)
    \/ \E e \in plat.numbered : Sent(e)
    \/ Closes \/ CoreChanges \/ Transfers \/ Sampled
    \/ \E p \in Profiles, core \in BOOLEAN : Replace(p, core)
    \/ \E ok \in BOOLEAN : Initialize(ok) \/ Observed(ok) \/ AuditStep(ok) \/ RestoreStep(ok)
    \/ TakeReplacement \/ TakeStatus \/ Tick \/ TakeEvent \/ TakeLag \/ TakeClosed
    \/ AfterGap \/ RebuildStep \/ PauseStep \/ CoreStep \/ ResumeStep \/ RecentStep

LifecycleSpec == LifecycleInit /\ [][LifecycleNext]_lvars

-----------------------------------------------------------------------------
Settled == job.at = "loop" /\ ~host.changed /\ plat.queue = <<>> /\ ~plat.lagged

(* Once every event has been taken, the authority knows whether the Mac     *)
(* sleeps, although events are broadcast outside the lock that numbers them *)
(* and may overtake one another or be lost to lag; it may only fail to know *)
(* when the observation was refused (lifecycle.rs:160-176, 437-440).        *)
AuthorityIsTrue ==
    Settled /\ plat.numbered = {} /\ auth.recovery # "closed" =>
        \/ auth.state = IF plat.asleep THEN "sleeping" ELSE "awake"
        \/ auth.state = "unknown" /\ auth.recovery \in {"stale", "unavailable"}

(* While the authority is not awake no runtime, replaced or restarted, is   *)
(* left observing its Controller (lifecycle.rs:258-265, 305-309).           *)
QuietWhileAsleep ==
    Settled /\ status = <<>> /\ auth.state # "awake" => ~run.active

(* A session never shows more bytes than were transferred since it began,   *)
(* across pauses, Core restarts and replaced sources                        *)
(* (recent_traffic.rs:316-340).                                             *)
NeverOvercounts == recent.phase # "idle" => recent.total <= moved

(* A session is active only while Capture is confirmed or changing          *)
(* (runtime/src/lib.rs:921-927).                                            *)
ActiveIsCaptured == recent.phase = "active" => cap.on

(* The coordinator knows whether the Mac sleeps, observes nothing           *)
(* meanwhile, never counts a byte twice and shows recent traffic as active  *)
(* only of a session that is captured (lifecycle.rs, recent_traffic.rs).    *)
LifecycleIsTrue ==
    AuthorityIsTrue /\ QuietWhileAsleep /\ NeverOvercounts /\ ActiveIsCaptured

=============================================================================
