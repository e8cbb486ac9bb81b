----------------------------- MODULE Activation -----------------------------
(***************************************************************************)
(* The activation manager, the Mihomo process it starts and stops, and the *)
(* durable record that owns that process (crates/desktop-bridge/src/       *)
(* activation.rs, managed_process.rs, core_ownership.rs).                  *)
(*                                                                         *)
(* A generation number stands for a prepared candidate: its configuration  *)
(* file, its launch token, its pid and its in-memory process handle.  The  *)
(* manager's calls are serialised by its state lock; call.todo is what is  *)
(* left of the one that runs, and starting or stopping a process is a call *)
(* inside it that leaves its result in call.ok.  Mish may die between any  *)
(* two steps; Core processes outlive it.                                   *)
(***************************************************************************)
EXTENDS Integers, Sequences, FiniteSets

CONSTANTS
  Generations,  \* bound: candidates that are ever prepared, 1..n
  Privileged,   \* whether the Core runs in the TUN helper, without a record
  MaxFaults,    \* bound: steps that fail although nothing in the model makes them
  MaxExits,     \* bound: Cores that exit by themselves
  MaxDeaths     \* bound: deaths of Mish

VARIABLES
  process,  \* the pid of each generation: "none", "live", "exited", "foreign" (the pid was reused)
  owner,    \* core-ownership.json
  configs,  \* the generations whose configuration file exists
  handle,   \* DesktopMihomoProcess::inner of each generation
  manager,  \* ActivationState, and whether startup recovery is done
  saved,    \* activation-state.json: the active generation
  capture,  \* whether Capture is applied
  call,     \* the manager's call that runs
  last,     \* how the last call ended
  dropped,  \* generations whose handle nobody holds any more
  mish,     \* whether the desktop process lives
  spent     \* faults, exits and deaths so far

avars == <<process, owner, configs, handle, manager, saved, capture, call, last, dropped, mish, spent>>
disk == <<owner, configs, saved>>

None == 0
NoCall == [todo |-> <<>>]
NoOwner == [gen |-> None, phase |-> "none"]
Idle == [child |-> FALSE, phase |-> "Stopped"]
FreshManager(g) == [active |-> None, managed |-> g, transition |-> FALSE, recovered |-> FALSE]

Faulty == spent.faults < MaxFaults /\ spent' = [spent EXCEPT !.faults = @ + 1]
Sound == UNCHANGED spent

\* load_record: a record is accepted only while the configuration it names exists.
Readable == owner.gen = None \/ owner.gen \in configs
\* A live Core holds the managed listeners; nothing else can bind them.
Occupied == \E g \in Generations : process[g] = "live"

\* guarded_signal, KILL after the grace period, and the wait for the exit.
Killed(g) == [process EXCEPT ![g] = "exited"]

\* clear_generation.
Clears(g) == Readable /\ owner.gen \in {None, g}

\* What clearing the record of g leaves, when its result is ignored.
Released(g) == IF Clears(g) THEN NoOwner ELSE owner

-----------------------------------------------------------------------------
\* The steps of a call.

Goto(todo) == call' = [call EXCEPT !.todo = todo]
Rest == Tail(call.todo)
Next1 == Goto(Rest)
At(step) == mish /\ call.todo # <<>> /\ Head(call.todo) = step
Return(ok, rest) == call' = [call EXCEPT !.todo = rest, !.ok = ok]

Stop(g, rest) == call' = [call EXCEPT !.todo = <<"signal", "clear">> \o rest, !.target = g]
Start(g, rest) == call' = [call EXCEPT !.todo = <<"begin", "spawn", "commit", "settle">> \o rest, !.target = g]
AfterStart == SubSeq(call.todo, 5, Len(call.todo))
AfterFailedStart == SelectSeq(call.todo, LAMBDA s : s \notin {"begin", "spawn", "commit", "settle"})

Finish(result) ==
  /\ call' = NoCall
  /\ last' = [op |-> call.op, result |-> result, prior |-> call.prior, captured |-> call.captured]

\* The failure paths of an activation that has touched the prior runtime: stop
\* the candidate whatever comes of it, then restore the prior one.
Undo == Stop(call.gen, <<"discard", "restore">>)

-----------------------------------------------------------------------------
\* recover_startup, once per Mish process.

\* inspect_process: the pid's start time, executable, arguments and launch token
\* are those of the generation.
Inspect(g) == process[g] = "live"

MutantRecognised == process[owner.gen] # "exited"

\* The process that the record names, by its whole identity.
Recognised == Inspect(owner.gen)

Recovered ==
  /\ owner' = NoOwner
  /\ configs' = {}
  /\ manager' = [manager EXCEPT !.recovered = TRUE]
  /\ Next1

Refuse == Finish("refused") /\ UNCHANGED <<owner, configs, manager>>

\* A launch without a pid: only a process with its token is the launch's.
RecoverLaunching ==
  /\ owner.phase = "Launching"
  /\ \/ Recognised /\ Goto(<<"terminate">> \o call.todo) /\ UNCHANGED <<owner, configs, manager, last>> /\ Sound
     \/ ~Recognised /\ Recovered /\ UNCHANGED last /\ Sound
     \/ Refuse /\ Faulty

\* A launch with a pid: a process that took the pid over is left alone.
RecoverRunning ==
  /\ owner.phase = "Running"
  /\ \/ Recognised /\ Goto(<<"terminate">> \o call.todo) /\ UNCHANGED <<owner, configs, manager, last>> /\ Sound
     \/ ~Recognised /\ process[owner.gen] # "foreign" /\ Recovered /\ UNCHANGED last /\ Sound
     \/ ~Recognised /\ process[owner.gen] = "foreign" /\ Refuse /\ Sound
     \/ Refuse /\ Faulty

Recover ==
  /\ At("recover")
  /\ \/ manager.recovered /\ Next1 /\ UNCHANGED <<owner, configs, manager, last>> /\ Sound
     \/ ~manager.recovered /\ owner.gen = None /\ Recovered /\ UNCHANGED last /\ Sound
     \/ ~manager.recovered /\ owner.gen # None /\ Readable /\ (RecoverLaunching \/ RecoverRunning)
     \/ ~manager.recovered /\ ~Readable /\ Refuse /\ Sound
  /\ UNCHANGED <<process, handle, saved, capture, dropped, mish>>

\* TERM, and KILL after the grace period; the identity is checked again.
Terminate ==
  /\ At("terminate")
  /\ \/ Recognised /\ process' = Killed(owner.gen) /\ Next1
        /\ UNCHANGED last /\ Sound
     \/ Recognised /\ Finish("refused") /\ UNCHANGED process /\ Faulty
     \/ process[owner.gen] = "exited" /\ Next1 /\ UNCHANGED <<process, last>> /\ Sound
     \/ process[owner.gen] = "foreign" /\ Finish("refused") /\ UNCHANGED process /\ Sound
  /\ UNCHANGED <<disk, handle, manager, capture, dropped, mish>>

-----------------------------------------------------------------------------
\* DesktopMihomoProcess::start.

StartFails(g) ==
  /\ handle' = [handle EXCEPT ![g].phase = "Failed"]
  /\ Return(FALSE, AfterFailedStart)

\* A start while a child is held is a success, whatever became of the child.
BeginHeld == handle[call.target].child /\ Return(TRUE, AfterStart) /\ UNCHANGED <<process, owner, handle>> /\ Sound

\* The TUN helper starts it.
BeginPrivileged(g) ==
  /\ Privileged /\ ~handle[g].child
  /\ \/ /\ process' = [process EXCEPT ![g] = "live"]
        /\ handle' = [handle EXCEPT ![g] = [child |-> TRUE, phase |-> "Running"]]
        /\ Return(TRUE, AfterStart) /\ Sound
     \/ StartFails(g) /\ UNCHANGED process /\ Faulty
  /\ UNCHANGED owner

\* begin_launch: the intent is durable before the process is spawned.
BeginOwned(g) ==
  /\ ~Privileged /\ ~handle[g].child
  /\ \/ owner.gen # None /\ StartFails(g) /\ UNCHANGED <<process, owner>> /\ Sound
     \/ owner.gen = None /\ StartFails(g) /\ UNCHANGED <<process, owner>> /\ Faulty
     \/ owner.gen = None /\ owner' = [gen |-> g, phase |-> "Launching"] /\ Next1
        /\ process' = [process EXCEPT ![g] = "none"] /\ UNCHANGED handle /\ Sound

Begin ==
  /\ At("begin")
  /\ BeginHeld \/ BeginPrivileged(call.target) \/ BeginOwned(call.target)
  /\ UNCHANGED <<configs, saved, manager, capture, last, dropped, mish>>

Spawn ==
  /\ At("spawn")
  /\ \/ process' = [process EXCEPT ![call.target] = "live"] /\ Next1
        /\ UNCHANGED <<owner, handle>> /\ Sound
     \/ owner' = Released(call.target) /\ StartFails(call.target) /\ UNCHANGED process /\ Faulty
  /\ UNCHANGED <<configs, saved, manager, capture, last, dropped, mish>>

\* commit_launch.  A child that cannot be confirmed is killed; the record goes
\* once the child is reaped.
Commit ==
  /\ At("commit")
  /\ LET g == call.target
     IN \/ /\ process[g] = "live"
           /\ owner' = [owner EXCEPT !.phase = "Running"] /\ Next1
           /\ UNCHANGED <<process, handle>> /\ Sound
        \/ /\ owner' \in {owner, Released(g)}
           /\ process' = Killed(g)
           /\ StartFails(g)
           /\ IF process[g] = "live" THEN Faulty ELSE owner' = Released(g) /\ Sound
  /\ UNCHANGED <<configs, saved, manager, capture, last, dropped, mish>>

Settle ==
  /\ At("settle")
  /\ LET g == call.target
     IN \/ process[g] = "live" /\ handle' = [handle EXCEPT ![g] = [child |-> TRUE, phase |-> "Running"]]
           /\ Return(TRUE, Rest) /\ UNCHANGED owner
        \/ process[g] # "live" /\ owner' = Released(g) /\ StartFails(g)
  /\ UNCHANGED <<process, configs, saved, manager, capture, last, dropped, mish, spent>>

-----------------------------------------------------------------------------
\* DesktopMihomoProcess::stop.

\* TERM, then KILL, and the wait.  A child that does not go is kept; the handle
\* of a privileged process is gone either way.
Signal ==
  /\ At("signal")
  /\ LET g == call.target
     IN \/ ~handle[g].child /\ handle' = [handle EXCEPT ![g].phase = "Stopped"]
           /\ Return(TRUE, Tail(Rest)) /\ UNCHANGED process /\ Sound
        \/ handle[g].child /\ process' = Killed(g)
           /\ \/ ~Privileged /\ handle' = [handle EXCEPT ![g] = [child |-> FALSE, phase |-> "Stopping"]] /\ Next1
              \/ Privileged /\ handle' = [handle EXCEPT ![g] = Idle] /\ Return(TRUE, Tail(Rest))
           /\ Sound
        \/ handle[g].child /\ UNCHANGED process /\ Return(FALSE, Tail(Rest))
           /\ handle' = [handle EXCEPT ![g] = [child |-> ~Privileged, phase |-> "Failed"]] /\ Faulty
  /\ UNCHANGED <<disk, manager, capture, last, dropped, mish>>

ClearOwner ==
  /\ At("clear")
  /\ LET g == call.target
     IN \/ Clears(g) /\ owner' = NoOwner /\ handle' = [handle EXCEPT ![g].phase = "Stopped"]
           /\ Return(TRUE, Rest) /\ Sound
        \/ UNCHANGED owner /\ handle' = [handle EXCEPT ![g].phase = "Failed"]
           /\ Return(FALSE, Rest) /\ IF Clears(g) THEN Faulty ELSE Sound
  /\ UNCHANGED <<process, configs, saved, manager, capture, last, dropped, mish>>

\* monitor_child and status: an exit is noticed, and the record of that
\* generation goes.
NoticeOwned(g) == ~Privileged /\ owner' = Released(g)
\* monitor_privileged: an observation that fails is no evidence of an exit.
NoticePrivileged(g) == Privileged /\ UNCHANGED owner

Notice(g) ==
  /\ mish /\ handle[g].child /\ ~Inspect(g)
  /\ NoticeOwned(g) \/ NoticePrivileged(g)
  /\ handle' = [handle EXCEPT ![g] = [child |-> FALSE, phase |-> "Failed"]]
  /\ UNCHANGED <<process, configs, saved, manager, capture, call, last, dropped, mish, spent>>

-----------------------------------------------------------------------------
\* activate_cancellable_observed_for_operation.

Touches == <<"recover", "resolve", "early", "prepare", "reserve", "suspend", "stopPrior", "seed", "conflict", "startCandidate",
             "started", "ready", "handoff", "persist", "replace">>

Busy == call # NoCall
NewCall(op, todo, g, final) ==
  call' = [op |-> op, todo |-> todo, gen |-> g, target |-> None, ok |-> TRUE, cancelled |-> FALSE,
           final |-> final, suspended |-> FALSE, prior |-> manager.active, captured |-> capture]

Activate ==
  /\ mish /\ ~Busy
  /\ \E g \in Generations, final \in BOOLEAN :
       /\ process[g] = "none" /\ g \notin configs \cup dropped
       /\ \A f \in 1..(g - 1) : process[f] # "none" \/ f \in dropped
       /\ NewCall("activate", Touches, g, final)
  /\ UNCHANGED <<process, disk, handle, manager, capture, last, dropped, mish, spent>>

Cancel ==
  /\ mish /\ Busy /\ call.op = "activate" /\ ~call.cancelled
  /\ call' = [call EXCEPT !.cancelled = TRUE]
  /\ UNCHANGED <<process, disk, handle, manager, capture, last, dropped, mish, spent>>

\* A failure before anything of the prior runtime is touched.
FailEarly == Finish("failed") /\ dropped' = dropped \cup {call.gen}

\* The stored record is validated and the pinned binary found.
Resolve ==
  /\ At("resolve")
  /\ \/ Next1 /\ UNCHANGED <<last, dropped>> /\ Sound
     \/ FailEarly /\ Faulty
  /\ UNCHANGED <<process, disk, handle, manager, capture, mish>>

\* The listener may be the active Core's own; anyone else's is a conflict.
OwnListener == Occupied => manager.active # None /\ handle[manager.active].child

Early ==
  /\ At("early")
  /\ \/ ~call.cancelled /\ OwnListener
        /\ Next1 /\ UNCHANGED <<last, dropped>> /\ Sound
     \/ FailEarly /\ IF call.cancelled \/ ~OwnListener THEN Sound ELSE Faulty
  /\ UNCHANGED <<process, disk, handle, manager, capture, mish>>

Prepare ==
  /\ At("prepare")
  /\ \/ ~call.cancelled /\ configs' = configs \cup {call.gen} /\ Next1 /\ UNCHANGED <<last, dropped>> /\ Sound
     \/ FailEarly /\ UNCHANGED configs /\ IF call.cancelled THEN Sound ELSE Faulty
  /\ UNCHANGED <<process, owner, saved, handle, manager, capture, mish>>

\* Capture is reserved for the transition, then taken off the prior runtime.
Reserve ==
  /\ At("reserve")
  /\ \/ ~manager.transition /\ Next1 /\ UNCHANGED <<configs, last, dropped>> /\ Sound
     \/ FailEarly /\ configs' = configs \ {call.gen} /\ IF manager.transition THEN Sound ELSE Faulty
  /\ UNCHANGED <<process, owner, saved, handle, manager, capture, mish>>

\* A suspension that fails may have turned the proxy off before its last step failed
\* (the journal could not be cleared); the activation returns without resuming it.
Suspend ==
  /\ At("suspend")
  /\ IF manager.active = None \/ ~capture THEN Next1 /\ UNCHANGED <<configs, capture, last, dropped>> /\ Sound
     ELSE \/ capture' = FALSE /\ call' = [call EXCEPT !.suspended = TRUE, !.todo = Rest]
             /\ UNCHANGED <<configs, last, dropped>> /\ Sound
          \/ Finish("suspendFailed") /\ dropped' = dropped \cup {call.gen}
             /\ configs' = configs \ {call.gen} /\ capture' \in BOOLEAN /\ Faulty
  /\ UNCHANGED <<process, owner, saved, handle, manager, mish>>

StopPrior ==
  /\ At("stopPrior")
  /\ IF manager.active = None THEN Next1 ELSE Stop(manager.active, <<"retired">> \o Rest)
  /\ UNCHANGED <<process, disk, handle, manager, capture, last, dropped, mish, spent>>

Retired ==
  /\ At("retired")
  /\ IF call.ok THEN Next1 ELSE Undo
  /\ UNCHANGED <<process, disk, handle, manager, capture, last, dropped, mish, spent>>

Seed ==
  /\ At("seed")
  /\ \/ Next1 /\ Sound
     \/ Undo /\ Faulty
  /\ UNCHANGED <<process, disk, handle, manager, capture, last, dropped, mish>>

\* commit_listener_conflict: the prior Core has let go of the listeners.
Conflict ==
  /\ At("conflict")
  /\ \/ ~Occupied /\ Next1 /\ Sound
     \/ Undo /\ IF Occupied THEN Sound ELSE Faulty
  /\ UNCHANGED <<process, disk, handle, manager, capture, last, dropped, mish>>

StartCandidate ==
  /\ At("startCandidate")
  /\ Start(call.gen, Rest)
  /\ UNCHANGED <<process, disk, handle, manager, capture, last, dropped, mish, spent>>

Started ==
  /\ At("started")
  /\ IF call.ok THEN Next1 ELSE Undo
  /\ UNCHANGED <<process, disk, handle, manager, capture, last, dropped, mish, spent>>

\* The status says Running.
Running(g) == handle[g].child /\ handle[g].phase = "Running" /\ Inspect(g)

\* The listener is the process's own: its identity is the same before and
\* after the probe.
Owns(g) == handle[g].child /\ Inspect(g)

\* wait_for_candidate: ready once it answers and owns the listener.

Ready ==
  /\ At("ready")
  /\ \/ Running(call.gen) /\ Owns(call.gen) /\ Next1 /\ Sound
     \/ Undo /\ IF call.cancelled \/ ~Running(call.gen) THEN Sound ELSE Faulty
  /\ UNCHANGED <<process, disk, handle, manager, capture, last, dropped, mish>>

\* The requested Capture, or the suspended one, on the candidate.  A cancel seen
\* afterwards takes Capture off again before the candidate is undone.
Handoff ==
  /\ At("handoff")
  /\ \/ ~call.cancelled /\ capture' = (capture \/ call.final \/ call.suspended) /\ Next1 /\ Sound
     \/ call.cancelled /\ Undo
        /\ \/ capture' = (capture /\ ~call.final /\ ~call.suspended) /\ Sound
           \/ capture' = (capture \/ call.final \/ call.suspended) /\ Faulty
     \/ Undo /\ UNCHANGED capture /\ Faulty
  /\ UNCHANGED <<process, disk, handle, manager, last, dropped, mish>>

Persist ==
  /\ At("persist")
  /\ \/ saved' = call.gen /\ Next1 /\ UNCHANGED capture /\ Sound
     \/ Undo /\ UNCHANGED saved /\ Faulty
        /\ capture' \in {capture, capture /\ ~call.final /\ ~call.suspended}
  /\ UNCHANGED <<process, owner, configs, handle, manager, last, dropped, mish>>

Replace ==
  /\ At("replace")
  /\ manager' = [manager EXCEPT !.active = call.gen, !.managed = call.gen, !.transition = TRUE]
  /\ configs' = configs \ {manager.active}
  /\ dropped' = dropped \cup ({manager.active} \ {None})
  /\ Finish("succeeded")
  /\ UNCHANGED <<process, owner, saved, handle, capture, mish, spent>>

-----------------------------------------------------------------------------
\* rollback_candidate and restore_previous.

Discard ==
  /\ At("discard")
  /\ configs' = configs \ {call.gen}
  /\ dropped' = dropped \cup {call.gen}
  /\ Next1
  /\ UNCHANGED <<process, owner, saved, handle, manager, capture, last, mish, spent>>

\* The prior runtime is given up: RollbackFailedSafeStopped.
Abandon == Goto(<<"abandon">>)

Restore ==
  /\ At("restore")
  /\ LET g == manager.active
     IN \/ g = None /\ Finish("failed") /\ Sound
        \/ g # None /\ Running(g) /\ Goto(<<"reready", "recapture">>) /\ UNCHANGED last /\ Sound
        \/ g # None /\ ~Running(g) /\ ~Occupied
           /\ Start(g, <<"restarted", "reready", "recapture">>) /\ UNCHANGED last /\ Sound
        \/ g # None /\ ~Running(g) /\ Abandon /\ UNCHANGED last
           /\ IF Occupied THEN Sound ELSE Faulty
  /\ UNCHANGED <<process, disk, handle, manager, capture, dropped, mish>>

Restarted ==
  /\ At("restarted")
  /\ IF call.ok THEN Next1 ELSE Abandon
  /\ UNCHANGED <<process, disk, handle, manager, capture, last, dropped, mish, spent>>

Reready ==
  /\ At("reready")
  /\ \/ Running(manager.active) /\ Next1 /\ Sound
     \/ Abandon /\ IF Running(manager.active) THEN Faulty ELSE Sound
  /\ UNCHANGED <<process, disk, handle, manager, capture, last, dropped, mish>>

Recapture ==
  /\ At("recapture")
  /\ \/ capture' = (capture \/ call.suspended) /\ Finish("failed") /\ Sound
     \/ call.suspended /\ Abandon /\ UNCHANGED <<capture, last>> /\ Faulty
  /\ UNCHANGED <<process, disk, handle, manager, dropped, mish>>

\* The active runtime is gone; its process is killed when its handle is dropped.
Forget(g) ==
  /\ manager' = [manager EXCEPT !.active = None, !.managed = None, !.transition = FALSE]
  /\ configs' = configs \ {g}
  /\ dropped' = dropped \cup ({g} \ {None})

GiveUp ==
  /\ At("abandon")
  /\ Forget(manager.active)
  /\ \/ saved' = None /\ Sound
     \/ UNCHANGED saved /\ Faulty
  /\ Finish("safeStopped")
  /\ UNCHANGED <<process, owner, handle, capture, mish>>

-----------------------------------------------------------------------------
\* shutdown, and what the coordinator and the desktop do in between.

Shutdown ==
  /\ mish /\ ~Busy
  /\ NewCall("shutdown", <<"recover", "release", "stopActive">>, None, FALSE)
  /\ UNCHANGED <<process, disk, handle, manager, capture, last, dropped, mish, spent>>

\* The reservation that an activation left is used up here.
Release ==
  /\ At("release")
  /\ manager' = [manager EXCEPT !.transition = FALSE]
  /\ \/ capture' = (capture /\ manager.active = None) /\ Next1 /\ UNCHANGED last /\ Sound
     \/ Finish("failed") /\ capture' \in {capture, capture /\ manager.active = None} /\ Faulty
  /\ UNCHANGED <<process, disk, handle, dropped, mish>>

StopActive ==
  /\ At("stopActive")
  /\ IF manager.active = None THEN Goto(<<"stopped">>) ELSE Stop(manager.active, <<"stopped">>)
  /\ UNCHANGED <<process, disk, handle, manager, capture, last, dropped, mish, spent>>

Stopped ==
  /\ At("stopped")
  /\ \/ call.ok /\ Forget(manager.active)
        /\ \/ saved' = None /\ Finish("succeeded") /\ Sound
           \/ UNCHANGED saved /\ Finish("failed") /\ Faulty
     \/ ~call.ok /\ Finish("failed") /\ UNCHANGED <<manager, configs, dropped, saved>> /\ Sound
  /\ UNCHANGED <<process, owner, handle, capture, mish>>

\* complete_runtime_handoff.
CompleteHandoff ==
  /\ mish /\ ~Busy /\ manager.transition
  /\ manager' = [manager EXCEPT !.transition = FALSE]
  /\ UNCHANGED <<process, disk, handle, capture, call, last, dropped, mish, spent>>

\* The user turns Capture on.
Captures ==
  /\ mish /\ ~Busy /\ manager.active # None /\ ~manager.transition /\ ~capture
  /\ capture' = TRUE
  /\ UNCHANGED <<process, disk, handle, manager, call, last, dropped, mish, spent>>

MutantDropHandle(g) ==
  /\ mish /\ g \in dropped /\ handle[g].child
  /\ handle' = [handle EXCEPT ![g] = Idle]
  /\ UNCHANGED <<process, disk, manager, capture, call, last, dropped, mish, spent>>

\* kill_on_drop: the last handle of a child is gone.
DropHandle(g) ==
  /\ mish /\ g \in dropped /\ handle[g].child
  /\ handle' = [handle EXCEPT ![g] = Idle]
  /\ process' = IF Privileged THEN process ELSE Killed(g)
  /\ UNCHANGED <<disk, manager, capture, call, last, dropped, mish, spent>>

CoreExits(g) ==
  /\ process[g] = "live" /\ spent.exits < MaxExits
  /\ process' = [process EXCEPT ![g] = "exited"]
  /\ spent' = [spent EXCEPT !.exits = @ + 1]
  /\ UNCHANGED <<disk, handle, manager, capture, call, last, dropped, mish>>

\* A pid is free once its process is reaped: Mish reaps its children, and after
\* its death the system does.
PidReused(g) ==
  /\ process[g] = "exited" /\ owner.gen = g
  /\ mish => ~handle[g].child /\ ~\E step \in {"commit", "settle"} : At(step)
  /\ process' = [process EXCEPT ![g] = "foreign"]
  /\ UNCHANGED <<disk, handle, manager, capture, call, last, dropped, mish, spent>>

Death ==
  /\ mish /\ spent.deaths < MaxDeaths
  /\ mish' = FALSE
  /\ handle' = [g \in Generations |-> Idle]
  /\ call' = NoCall
  /\ spent' = [spent EXCEPT !.deaths = @ + 1]
  /\ UNCHANGED <<process, disk, manager, capture, last, dropped>>

\* A new desktop process takes the lease; Capture's own recovery turned it off.
Restart ==
  /\ ~mish
  /\ mish' = TRUE
  /\ manager' = FreshManager(saved)
  /\ capture' = FALSE
  /\ last' = [op |-> "none", result |-> "none", prior |-> None, captured |-> FALSE]
  /\ dropped' = dropped \cup configs \cup {g \in Generations : process[g] # "none"}
  /\ UNCHANGED <<process, disk, handle, call, spent>>

-----------------------------------------------------------------------------
ActivationInit ==
  /\ process = [g \in Generations |-> "none"]
  /\ owner = NoOwner
  /\ configs = {}
  /\ handle = [g \in Generations |-> Idle]
  /\ manager = FreshManager(None)
  /\ saved = None
  /\ capture = FALSE
  /\ call = NoCall
  /\ last = [op |-> "none", result |-> "none", prior |-> None, captured |-> FALSE]
  /\ dropped = {}
  /\ mish = TRUE
  /\ spent = [faults |-> 0, exits |-> 0, deaths |-> 0]

ManagerStep ==
  \/ Resolve \/ Seed \/ Recover \/ Terminate \/ Begin \/ Spawn \/ Commit \/ Settle \/ Signal \/ ClearOwner
  \/ Early \/ Prepare \/ Reserve \/ Suspend \/ StopPrior \/ Retired \/ Conflict \/ StartCandidate \/ Started
  \/ Ready \/ Handoff \/ Persist \/ Replace \/ Discard \/ Restore \/ Restarted \/ Reready \/ Recapture
  \/ GiveUp \/ Release \/ StopActive \/ Stopped

ActivationNext ==
  \/ ManagerStep
  \/ Activate \/ Cancel \/ Shutdown \/ CompleteHandoff \/ Captures \/ Death \/ Restart
  \/ \E g \in Generations : Notice(g) \/ DropHandle(g) \/ CoreExits(g) \/ PidReused(g)

ActivationSpec ==
  /\ ActivationInit /\ [][ActivationNext]_avars
  /\ WF_avars(ManagerStep)
  /\ \A g \in Generations : WF_avars(Notice(g)) /\ WF_avars(DropHandle(g))

-----------------------------------------------------------------------------
\* At most one Core of Mish's runs, and it is the one the durable record names:
\* a death of Mish at any moment leaves nothing that recovery cannot find
\* (begin_launch, commit_launch and the stop's order of wait and clear).
CoreIsRecorded ==
  \A g \in Generations : process[g] = "live" =>
    /\ \A f \in Generations \ {g} : process[f] # "live"
    /\ ~Privileged => owner.gen = g

\* A process that took over a recorded pid is never signalled
\* (recover_startup and the guarded signal compare the whole identity).
NoStrangerSignalled ==
  [][\A g \in Generations : process[g] = "foreign" => process'[g] # "exited"]_avars

\* An activation that fails without giving up leaves the runtime it found, and
\* Capture on if it was on (restore_previous), unless what failed is the suspension
\* of Capture itself: that may have taken the proxy off, and nothing puts it back.
FailureRestores ==
  mish /\ ~Busy /\ last.op = "activate" /\ last.result \in {"failed", "suspendFailed"} =>
    /\ manager.active = last.prior
    /\ last.prior # None => manager.managed = last.prior
    /\ last.prior # None /\ last.captured /\ last.result = "failed" => capture

\* Once nothing is active, no Core of Mish's goes on running.
SafeStopEnds ==
  (mish /\ ~Busy /\ manager.active = None /\ manager.recovered) ~>
    (Busy \/ ~mish \/ \A g \in Generations : process[g] # "live")
=============================================================================
