----------------------------- MODULE TunHelper -----------------------------
(***************************************************************************)
(* The privileged TUN helper: its requests, the DNS takeover and the       *)
(* recovery record, the watchdog that outlives it, and what they answer    *)
(* (crates/platform-macos/src/tun_service.rs,                              *)
(* tun_service/network_ownership.rs, tun_service/lifecycle_machine.rs).    *)
(*                                                                         *)
(* A launch of a TUN Core is one transaction: its number stands for the    *)
(* launch token, the Core's pid and the transaction id, and its prior for  *)
(* the exact DNS servers of the one selected service.  Everything a        *)
(* request does happens under the state lock, so one job runs at a time:   *)
(* job.todo is what is left of the handler, and restoring DNS is a call    *)
(* that leaves its result in job.ok.  A system observation is one step.    *)
(***************************************************************************)
EXTENDS Integers, Sequences

CONSTANTS
  Servers,         \* the DNS servers a user may set
  Retries,         \* attempts of a watchdog (5 in the code)
  MaxLaunches,     \* bound: Core launches
  MaxDesktops,     \* bound: desktop processes, one after the other
  MaxUserChanges,  \* bound: DNS changes by the user
  MaxFaults,       \* bound: busy locks, failed writes and steps that cannot be confirmed
  MaxCrashes       \* bound: deaths of the helper

VARIABLES
  resolver,   \* the DNS servers of the service, "managed" for Mish's
  chosen,     \* the servers the user set last
  userChanges,
  record,     \* the recovery record beside the enrollment
  cores,      \* the live Cores: [txn, path]; path is the state of their utun and routes
  launches,   \* transactions begun
  helper,     \* ServiceState, and which process it is
  job,        \* the locked section that runs
  request,    \* the request that the lifecycle machine has admitted
  answer,     \* the last response, as the machine classified it
  watchdogs,  \* the launchd watchdog jobs
  desktop,    \* the desktop process that is alive
  hfaults, hcrashes

hvars == <<resolver, chosen, userChanges, record, cores, launches, helper, job, request, answer,
           watchdogs, desktop, hfaults, hcrashes>>
system == <<chosen, userChanges, desktop, hcrashes>>

None == [none |-> TRUE]
NoHelper(id) == [up |-> FALSE, id |-> id, proc |-> None, tun |-> None, pending |-> None, home |-> FALSE]

Faulty == hfaults < MaxFaults /\ hfaults' = hfaults + 1
Sound == hfaults' = hfaults

Live(txn) == \E c \in cores : c.txn = txn
PathOf(txn) == IF Live(txn) THEN (CHOOSE c \in cores : c.txn = txn).path ELSE "none"
Applied == helper.tun # None /\ helper.tun.applied
Is(entry, state) == entry # None /\ entry.txn = state.txn /\ entry.prior = state.prior

---------------------------------------------------------------------------
\* Restoring DNS.  RestoreDns(s, d, ok) is TunNetworkController::restore for the
\* transaction s: it leaves DNS at d and says ok.  A write may stay unconfirmed.

RestoreDns(s, d, ok) ==
  \/ resolver = s.prior /\ d = resolver /\ ok /\ Sound
  \/ resolver \notin {s.prior, "managed"} /\ d = resolver /\ ~ok /\ Sound
  \/ resolver = "managed" /\ s.prior # "managed"
     /\ \/ d = s.prior /\ ok /\ Sound
        \/ d \in {resolver, s.prior} /\ ~ok /\ Faulty

\* clear_if_present.
ClearIfPresent(s, r, ok) ==
  \/ record = None /\ r = record /\ ok /\ Sound
  \/ Is(record, s) /\ r = None /\ ok /\ Sound
  \/ Is(record, s) /\ r = record /\ ~ok /\ Faulty
  \/ record # None /\ ~Is(record, s) /\ r = record /\ ~ok /\ Sound

---------------------------------------------------------------------------
\* The jobs of the helper.

Continue(todo) == job' = [job EXCEPT !.todo = todo]
Return(ok, rest) == job' = [job EXCEPT !.todo = rest, !.ok = ok]
Call(s, rest) == job' = [job EXCEPT !.todo = <<"load">> \o rest, !.target = s]
At(step) == job # None /\ Head(job.todo) = step
Rest == Tail(job.todo)

\* The section ends; the request goes on outside the lock.
Leave(section) == job' = None /\ request' = [request EXCEPT !.section = section]

Unseen == [ok |-> FALSE, seen |-> "unknown", core |-> FALSE]

\* classify_lifecycle_observation.
Classify(cmd, r) ==
  CASE r.seen = "enabled" -> "Enabled"
    [] r.seen = "disabled" -> IF r.core THEN "Running" ELSE "Disabled"
    [] r.ok /\ r.core /\ cmd \in {"Start", "Status"} -> "Running"
    [] OTHER -> "RecoveryRequired"

\* DesiredLifecycle::accepts, for the operations that are verified.
Accepts(cmd, observed) ==
  CASE cmd = "Start" -> observed \in {"Running", "Enabled"}
    [] cmd = "Enable" -> observed = "Enabled"
    [] cmd = "Disable" -> observed = "Disabled"
    [] OTHER -> TRUE

\* The lifecycle machine ends the operation, and its requester acknowledges it.
Answer(r) ==
  LET observed == Classify(request.cmd, r)
  IN /\ answer' = [ok |-> r.ok, seen |-> r.seen,
                   state |-> IF r.ok /\ ~Accepts(request.cmd, observed) THEN "RecoveryRequired" ELSE observed]
     /\ request' = None
     /\ job' = None

\* A step fails: a request is answered with its diagnostic, and an error of
\* the owner monitor or of the shutdown ends run_tun_service.
Fail(h) ==
  IF job.who = "request" THEN helper' = h /\ Answer([Unseen EXCEPT !.core = h.proc # None])
  ELSE helper' = NoHelper(h.id) /\ job' = None /\ UNCHANGED <<answer, request>>

StatusSection == <<"reap", "pending", "home", "observe">>
Sections == [Start  |-> <<"reap", "pending", "home", "precheck">>,
             Launch |-> <<"reap", "home", "need", "launch", "spawn", "guard">>,
             Enable |-> <<"reap", "mine", "ready", "persist", "apply", "mark", "marked">>,
             Stop   |-> <<"reap", "home", "need", "token", "home", "need", "undo", "kill", "need", "leave">>,
             Disable |-> <<"owner", "pending", "need", "home", "need", "home", "need", "undo", "kill", "need", "leave">>,
             Status |-> StatusSection]
MonitorSection == <<"home", "need", "undo", "kill", "need", "release">>
ShutdownSection == <<"pending", "need", "home", "need", "undo", "kill", "need", "exit">>

NewJob(who, todo) == [who |-> who, todo |-> todo, ok |-> TRUE, target |-> None]

\* The lock is free: the request's next section, the owner monitor's tick, or
\* the shutdown after the connections have drained.
EnterSection ==
  /\ helper.up /\ job = None /\ request # None
  /\ request.section \in DOMAIN Sections
  /\ job' = NewJob("request", Sections[request.section])
  /\ UNCHANGED <<system, resolver, record, cores, launches, helper, request, answer, watchdogs, hfaults>>

OwnerMonitor ==
  /\ helper.up /\ job = None
  /\ helper.proc # None /\ helper.proc.owner # desktop
  /\ job' = NewJob("monitor", MonitorSection)
  /\ UNCHANGED <<system, resolver, record, cores, launches, helper, request, answer, watchdogs, hfaults>>

Terminate ==
  /\ helper.up /\ job = None /\ request = None
  /\ hcrashes < MaxCrashes /\ hcrashes' = hcrashes + 1
  /\ job' = NewJob("shutdown", ShutdownSection)
  /\ UNCHANGED <<chosen, userChanges, desktop, resolver, record, cores, launches, helper, request, answer, watchdogs, hfaults>>

\* restore_network_transaction, called by a job for job.target.
LoadRecord ==
  /\ At("load")
  /\ IF Is(record, job.target) THEN Continue(<<"restore">> \o Rest)
     ELSE Return(record = None /\ resolver = job.target.prior, Rest)
  /\ UNCHANGED <<system, resolver, record, cores, launches, helper, request, answer, watchdogs, hfaults>>

RestoreServers ==
  /\ At("restore")
  /\ \E ok \in BOOLEAN :
       /\ \E d \in Servers \cup {"managed"} : RestoreDns(job.target, d, ok) /\ resolver' = d
       /\ IF ok THEN Continue(<<"clear">> \o Rest) ELSE Return(FALSE, Rest)
  /\ UNCHANGED <<system, record, cores, launches, helper, request, answer, watchdogs>>

ClearRecord ==
  /\ At("clear")
  /\ \E ok \in BOOLEAN : ClearIfPresent(job.target, record', ok) /\ Return(ok, Rest)
  /\ UNCHANGED <<system, resolver, cores, launches, helper, request, answer, watchdogs>>

---------------------------------------------------------------------------
\* The parts the handlers share.

Without(txn) == {w \in watchdogs : w.txn # txn}

\* The runtime home returns to the desktop user, or its recovery is retained.
HomeOutcome(home) == \/ home = helper.home /\ Sound
                     \/ home /\ Faulty

Retain(h, ok, state) == IF ok \/ h.pending # None THEN h.pending ELSE state

State(tun) == [txn |-> tun.txn, prior |-> tun.prior]

\* reap_if_exited.
Reap ==
  /\ At("reap")
  /\ IF helper.proc = None \/ Live(helper.proc.txn) THEN Continue(Rest)
     ELSE IF Applied THEN Call(State(helper.tun), <<"reaped">> \o Rest)
     ELSE Return(TRUE, <<"reaped">> \o Rest)
  /\ UNCHANGED <<system, resolver, record, cores, launches, helper, request, answer, watchdogs, hfaults>>

MutantKeepsWatchdog(ok) == FALSE
KeepsWatchdog(ok) == ~ok

Released(h, ok, home) ==
  [h EXCEPT !.proc = None, !.home = home,
            !.tun = IF Applied /\ ok THEN [@ EXCEPT !.applied = FALSE] ELSE @,
            !.pending = IF Applied THEN Retain(h, ok, State(h.tun)) ELSE @]

Reaped ==
  /\ At("reaped")
  /\ \E home \in BOOLEAN : HomeOutcome(home) /\ helper' = Released(helper, job.ok, home)
  /\ watchdogs' = IF KeepsWatchdog(job.ok) THEN watchdogs ELSE Without(helper.proc.txn)
  /\ Continue(Rest)
  /\ UNCHANGED <<system, resolver, record, cores, launches, request, answer>>

\* restore_pending_network_recovery.
Pending ==
  /\ At("pending")
  /\ IF helper.pending = None THEN Return(TRUE, Rest)
     ELSE IF helper.tun # None /\ ~Is(helper.tun, helper.pending) THEN Return(FALSE, Rest)
     ELSE Call(helper.pending, <<"settle">> \o Rest)
  /\ UNCHANGED <<system, resolver, record, cores, launches, helper, request, answer, watchdogs, hfaults>>

Settle ==
  /\ At("settle")
  /\ Continue(Rest)
  /\ helper' = IF ~job.ok THEN helper
               ELSE [helper EXCEPT !.pending = None,
                                   !.tun = IF helper.tun # None THEN [@ EXCEPT !.applied = FALSE] ELSE @]
  /\ UNCHANGED <<system, resolver, record, cores, launches, request, answer, watchdogs, hfaults>>

\* restore_pending_runtime_home_recovery.
Home ==
  /\ At("home")
  /\ \/ helper' = [helper EXCEPT !.home = FALSE] /\ Return(TRUE, Rest) /\ Sound
     \/ helper.home /\ Faulty /\ Return(FALSE, Rest) /\ UNCHANGED helper
  /\ UNCHANGED <<system, resolver, record, cores, launches, request, answer, watchdogs>>

\* The ? operator on the part that ran before.
Need ==
  /\ At("need")
  /\ IF job.ok THEN Continue(Rest) /\ UNCHANGED <<helper, request, answer>> ELSE Fail(helper)
  /\ UNCHANGED <<system, resolver, record, cores, launches, watchdogs, hfaults>>

\* stop_process_with_timeouts: DNS first, then the Core.
Undo ==
  /\ At("undo")
  /\ IF Applied THEN Call(State(helper.tun), <<"undone">> \o Rest) ELSE Return(TRUE, Rest)
  /\ UNCHANGED <<system, resolver, record, cores, launches, helper, request, answer, watchdogs, hfaults>>

Undone ==
  /\ At("undone")
  /\ Continue(Rest)
  /\ helper' = IF job.ok THEN [helper EXCEPT !.tun.applied = FALSE] ELSE helper
  /\ UNCHANGED <<system, resolver, record, cores, launches, request, answer, watchdogs, hfaults>>

\* A Core that cannot be waited for keeps its process entry.
Kill ==
  /\ At("kill")
  /\ \/ helper.proc = None /\ Continue(Rest) /\ Sound /\ UNCHANGED <<helper, cores, watchdogs>>
     \/ /\ helper.proc # None
        /\ \E home \in BOOLEAN :
             /\ HomeOutcome(home)
             /\ helper' = [helper EXCEPT !.proc = None, !.home = home,
                                         !.pending = IF Applied THEN Retain(helper, job.ok, State(helper.tun)) ELSE @]
             /\ Return(job.ok /\ home = helper.home, Rest)
        /\ cores' = {c \in cores : c.txn # helper.proc.txn}
        /\ watchdogs' = IF KeepsWatchdog(job.ok) THEN watchdogs ELSE Without(helper.proc.txn)
     \/ helper.proc # None /\ Live(helper.proc.txn) /\ Faulty /\ Return(FALSE, Rest) /\ UNCHANGED <<helper, cores, watchdogs>>
  /\ UNCHANGED <<system, resolver, record, launches, request, answer>>

\* The section is over.
Finish ==
  /\ \/ At("leave") /\ Leave("Status") /\ UNCHANGED helper
     \/ At("release") /\ job' = None /\ UNCHANGED <<helper, request>>
     \/ At("exit") /\ job' = None /\ helper' = NoHelper(helper.id) /\ UNCHANGED request
  /\ UNCHANGED <<system, resolver, record, cores, launches, answer, watchdogs, hfaults>>

---------------------------------------------------------------------------
\* Start.

Precheck ==
  /\ At("precheck")
  /\ IF helper.pending # None \/ helper.home THEN Fail(helper)
     ELSE Leave("Baseline") /\ UNCHANGED <<helper, answer>>
  /\ UNCHANGED <<system, resolver, record, cores, launches, watchdogs, hfaults>>

\* Outside the lock: the paths, the digest and the version are checked and
\* the network is observed; each may fail.
Baseline ==
  /\ helper.up /\ request # None /\ request.section = "Baseline" /\ job = None
  /\ \/ /\ launches < MaxLaunches /\ launches' = launches + 1
        /\ request' = [request EXCEPT !.section = "Launch",
                                      !.baseline = [txn |-> launches + 1, prior |-> resolver,
                                                    utun |-> \E c \in cores : c.path # "none"]]
        /\ UNCHANGED <<job, answer>>
     \/ Answer(Unseen) /\ UNCHANGED launches
  /\ UNCHANGED <<system, resolver, record, cores, helper, watchdogs, hfaults>>

\* tun_observation of the baseline says that nothing of TUN is there.
DisabledAtBaseline ==
  /\ ~request.baseline.utun
  /\ ~Applied

Launch ==
  /\ At("launch")
  /\ LET h == [helper EXCEPT !.tun = IF DisabledAtBaseline THEN None ELSE @]
     IN IF h.proc # None \/ h.tun # None \/ request.baseline.utun THEN Fail(h)
        ELSE helper' = h /\ Continue(Rest) /\ UNCHANGED <<request, answer>>
  /\ UNCHANGED <<system, resolver, record, cores, launches, watchdogs, hfaults>>

\* The Core runs, with no watchdog yet while it settles.
Spawn ==
  /\ At("spawn")
  /\ \/ cores' = cores \cup {[txn |-> request.baseline.txn, path |-> "none"]}
        /\ Continue(Rest) /\ UNCHANGED <<helper, request, answer>>
     \/ Fail(helper) /\ UNCHANGED cores
  /\ UNCHANGED <<system, resolver, record, launches, watchdogs, hfaults>>

Guard ==
  /\ At("guard")
  /\ LET b == request.baseline
     IN \/ /\ Live(b.txn)
           /\ watchdogs' = watchdogs \cup {[txn |-> b.txn, prior |-> b.prior, parent |-> helper.id, at |-> "watch", tries |-> 0]}
           /\ helper' = [helper EXCEPT !.proc = [txn |-> b.txn, owner |-> request.peer],
                                       !.tun = [txn |-> b.txn, prior |-> b.prior, applied |-> FALSE]]
           /\ Leave("Status")
           /\ UNCHANGED <<cores, answer>>
        \/ Fail(helper) /\ cores' = {c \in cores : c.txn # b.txn} /\ UNCHANGED watchdogs
  /\ UNCHANGED <<system, resolver, record, launches, hfaults>>

---------------------------------------------------------------------------
\* Enable: apply_network_transaction.

Mine ==
  /\ At("mine")
  /\ IF helper.proc = None \/ helper.tun = None THEN Fail(helper)
     ELSE IF helper.proc.owner # request.peer THEN Fail(helper)
     ELSE IF Applied THEN Leave("Status") /\ UNCHANGED <<helper, answer>>
     ELSE Continue(Rest) /\ UNCHANGED <<helper, request, answer>>
  /\ UNCHANGED <<system, resolver, record, cores, launches, watchdogs, hfaults>>

\* wait_for_network_apply_precondition, until its deadline.
Ready ==
  /\ At("ready")
  /\ \/ helper.proc = None /\ Fail(helper)
     \/ /\ helper.proc # None /\ ~Live(helper.proc.txn)
        /\ Continue(<<"reap">> \o job.todo) /\ UNCHANGED <<helper, request, answer>>
     \/ /\ helper.proc # None /\ PathOf(helper.proc.txn) = "full"
        /\ Continue(Rest) /\ UNCHANGED <<helper, request, answer>>
     \/ helper.proc # None /\ Fail(helper)
  /\ UNCHANGED <<system, resolver, record, cores, launches, watchdogs, hfaults>>

Mark(applied) == [helper EXCEPT !.tun.applied = applied]

MutantPersisted == record

\* The record is there before DNS changes.
Persisted == [txn |-> helper.tun.txn, prior |-> helper.tun.prior, phase |-> "Prepared"]

Persist ==
  /\ At("persist")
  /\ \/ /\ record = None \/ Is(record, helper.tun)
        /\ record' = IF record = None THEN Persisted ELSE record
        /\ Sound /\ Continue(Rest) /\ UNCHANGED <<helper, request, answer>>
     \/ record # None /\ ~Is(record, helper.tun) /\ Sound /\ Fail(helper) /\ UNCHANGED record
     \/ record = None /\ Faulty /\ Fail(helper) /\ UNCHANGED record
  /\ UNCHANGED <<system, resolver, cores, launches, watchdogs>>

\* The selected service and the preserved network are validated, then DNS is
\* compared and set in one locked transaction.
Apply ==
  /\ At("apply")
  /\ \/ Continue(<<"drop">>) /\ Sound /\ UNCHANGED resolver
     \/ resolver = helper.tun.prior /\ resolver' = "managed" /\ Continue(Rest) /\ Sound
     \/ /\ resolver = helper.tun.prior /\ resolver' \in {resolver, "managed"}
        /\ Continue(<<"revert", "drop">>) /\ Faulty
  /\ UNCHANGED <<system, record, cores, launches, helper, request, answer, watchdogs>>

\* mark_applied reads the record and writes it anew.
MarkApplied ==
  /\ \/ At("mark") /\ Is(record, helper.tun) /\ Continue(Rest) /\ Sound /\ UNCHANGED <<record, helper, request>>
     \/ At("mark") /\ ~Is(record, helper.tun) /\ Continue(<<"revert", "dropped">>) /\ Sound /\ UNCHANGED <<record, helper, request>>
     \/ /\ At("marked") /\ Sound
        /\ record' = [Persisted EXCEPT !.phase = "Applied"]
        /\ helper' = Mark(TRUE) /\ Leave("Status")
     \/ At("marked") /\ Faulty /\ Continue(<<"revert", "dropped">>) /\ UNCHANGED <<record, helper, request>>
  /\ UNCHANGED <<system, resolver, cores, launches, answer, watchdogs>>

\* The takeover is rolled back; what cannot be rolled back stays applied.
Revert ==
  /\ At("revert")
  /\ \E ok \in BOOLEAN :
       /\ \E d \in Servers \cup {"managed"} : RestoreDns(helper.tun, d, ok) /\ resolver' = d
       /\ IF ok THEN Continue(Rest) /\ UNCHANGED <<helper, request, answer>> ELSE Fail(Mark(TRUE))
  /\ UNCHANGED <<system, record, cores, launches, watchdogs>>

\* clear wants the record, clear_if_present (dropped) does not.
Drop ==
  /\ At("drop") \/ At("dropped")
  /\ \/ /\ At("drop") /\ record = None
        /\ Fail(Mark(TRUE)) /\ Sound /\ UNCHANGED record
     \/ /\ At("dropped") \/ record # None
        /\ \E ok \in BOOLEAN : ClearIfPresent(State(helper.tun), record', ok) /\ Fail(Mark(~ok))
  /\ UNCHANGED <<system, resolver, cores, launches, watchdogs>>

---------------------------------------------------------------------------
\* Stop and Disable.

Token ==
  /\ At("token")
  /\ IF helper.proc = None THEN Continue(Rest) /\ UNCHANGED <<helper, request, answer>>
     ELSE IF request.token # helper.proc.txn \/ request.peer # helper.proc.owner THEN Fail(helper)
     ELSE Continue(Rest) /\ UNCHANGED <<helper, request, answer>>
  /\ UNCHANGED <<system, resolver, record, cores, launches, watchdogs, hfaults>>

Owner ==
  /\ At("owner")
  /\ IF helper.proc = None THEN Continue(Rest) /\ UNCHANGED <<helper, request, answer>>
     ELSE IF helper.proc.owner # request.peer /\ helper.proc.owner = desktop THEN Fail(helper)
     ELSE Continue(Rest) /\ UNCHANGED <<helper, request, answer>>
  /\ UNCHANGED <<system, resolver, record, cores, launches, watchdogs, hfaults>>

---------------------------------------------------------------------------
\* status_response: what tun_observation_with_network amounts to.

Untracked == \E c \in cores : c.path # "none"

Seen(preserved) ==
  CASE helper.pending # None \/ helper.home -> "other"
    [] helper.tun = None -> IF Untracked THEN "other" ELSE "disabled"
    [] helper.proc # None ->
         IF PathOf(helper.proc.txn) = "full" /\ Applied /\ resolver = "managed" /\ preserved THEN "enabled" ELSE "other"
    [] OTHER -> IF Applied \/ Untracked THEN "other" ELSE "disabled"

Observe ==
  /\ At("observe")
  /\ \E preserved \in BOOLEAN :
       /\ Answer([ok |-> TRUE, seen |-> Seen(preserved), core |-> helper.proc # None])
       /\ helper' = IF Seen(preserved) = "disabled" /\ helper.proc = None THEN [helper EXCEPT !.tun = None] ELSE helper
  /\ UNCHANGED <<system, resolver, record, cores, launches, watchdogs, hfaults>>

---------------------------------------------------------------------------
\* run_core_watchdog: one process for each guarded Core.

Becomes(w, at) == watchdogs' = (watchdogs \ {w}) \cup {[w EXCEPT !.at = at]}
Again(w) == watchdogs' = (watchdogs \ {w})
                           \cup {[w EXCEPT !.tries = @ + 1, !.at = IF w.tries + 1 < Retries THEN "load" ELSE "end"]}

ParentDead(w) == ~helper.up \/ helper.id # w.parent

Notice(w) ==
  /\ w.at = "watch"
  /\ ~Live(w.txn) \/ ParentDead(w)
  /\ Becomes(w, "load")
  /\ UNCHANGED <<system, resolver, record, cores, launches, helper, job, request, answer, hfaults>>

\* restore_network_transaction_if_recorded: while the record is only prepared
\* the takeover may still be under way, so prior DNS is no recovery.
WatchdogLoads(w) ==
  /\ w.at = "load"
  /\ IF record = None THEN Becomes(w, "end")
     ELSE IF Is(record, w) /\ (record.phase = "Applied" \/ resolver = "managed") THEN Becomes(w, "restore")
     ELSE Again(w)
  /\ UNCHANGED <<system, resolver, record, cores, launches, helper, job, request, answer, hfaults>>

WatchdogRestores(w) ==
  /\ w.at = "restore"
  /\ \E ok \in BOOLEAN :
       /\ \E d \in Servers \cup {"managed"} : RestoreDns(w, d, ok) /\ resolver' = d
       /\ IF ok THEN Becomes(w, "clear") ELSE Again(w)
  /\ UNCHANGED <<system, record, cores, launches, helper, job, request, answer>>

WatchdogClears(w) ==
  /\ w.at = "clear"
  /\ \E ok \in BOOLEAN :
       ClearIfPresent(w, record', ok) /\ IF ok THEN Becomes(w, "end") ELSE Again(w)
  /\ UNCHANGED <<system, resolver, cores, launches, helper, job, request, answer>>

\* After a dead parent the Core is ended too; the launchd job removes itself.
WatchdogEnds(w) ==
  /\ w.at = "end"
  /\ watchdogs' = watchdogs \ {w}
  /\ cores' = {c \in cores : c.txn # w.txn}
  /\ UNCHANGED <<system, resolver, record, launches, helper, job, request, answer, hfaults>>

Watchdog == \E w \in watchdogs : Notice(w) \/ WatchdogLoads(w) \/ WatchdogRestores(w) \/ WatchdogClears(w) \/ WatchdogEnds(w)

---------------------------------------------------------------------------
\* The desktop, the Core, the user, and the helper's death and restart.

Ask(cmd, token) ==
  /\ helper.up /\ request = None /\ (job # None => job.who = "monitor")
  /\ request' = [cmd |-> cmd, section |-> cmd, peer |-> desktop, token |-> token, baseline |-> None]
  /\ answer' = None
  /\ UNCHANGED <<system, resolver, record, cores, launches, helper, job, watchdogs, hfaults>>

DesktopRestarts ==
  /\ desktop < MaxDesktops /\ desktop' = desktop + 1
  /\ UNCHANGED <<chosen, userChanges, hcrashes, resolver, record, cores, launches, helper, job, request, answer, watchdogs, hfaults>>

\* The Core's utun and routes come up, in part and then in full.
PathComesUp(c) ==
  /\ c.path # "full"
  /\ cores' = (cores \ {c}) \cup {[c EXCEPT !.path = IF @ = "none" THEN "partial" ELSE "full"]}
  /\ UNCHANGED <<system, resolver, record, launches, helper, job, request, answer, watchdogs, hfaults>>

CoreExits(c) ==
  /\ cores' = cores \ {c}
  /\ UNCHANGED <<system, resolver, record, launches, helper, job, request, answer, watchdogs, hfaults>>

UserSetsDns(v) ==
  /\ userChanges < MaxUserChanges /\ userChanges' = userChanges + 1
  /\ resolver' = v /\ chosen' = v
  /\ UNCHANGED <<desktop, hcrashes, record, cores, launches, helper, job, request, answer, watchdogs, hfaults>>

HelperDies ==
  /\ helper.up /\ hcrashes < MaxCrashes /\ hcrashes' = hcrashes + 1
  /\ helper' = NoHelper(helper.id) /\ job' = None /\ request' = None /\ answer' = None
  /\ UNCHANGED <<chosen, userChanges, desktop, resolver, record, cores, launches, watchdogs, hfaults>>

\* launchd starts the helper again: run_tun_service consumes the record first.
HelperStarts ==
  /\ ~helper.up /\ job = None
  /\ helper' = [NoHelper(helper.id + 1) EXCEPT !.up = TRUE, !.pending = IF record = None THEN None ELSE State(record)]
  /\ job' = IF record = None THEN None ELSE NewJob("startup", <<"pending", "release">>)
  /\ request' = None /\ answer' = None
  /\ UNCHANGED <<system, resolver, record, cores, launches, watchdogs, hfaults>>

Jobs == \/ EnterSection \/ OwnerMonitor \/ LoadRecord \/ RestoreServers \/ ClearRecord
        \/ Reap \/ Reaped \/ Pending \/ Settle \/ Home \/ Need \/ Undo \/ Undone \/ Kill \/ Finish
        \/ Precheck \/ Baseline \/ Launch \/ Spawn \/ Guard \/ Mine \/ Ready \/ Persist \/ Apply \/ MarkApplied
        \/ Revert \/ Drop \/ Token \/ Owner \/ Observe

TunHelperInit ==
  /\ chosen \in Servers /\ resolver = chosen /\ userChanges = 0
  /\ record = None /\ cores = {} /\ launches = 0
  /\ helper = [NoHelper(1) EXCEPT !.up = TRUE] /\ job = None /\ request = None /\ answer = None
  /\ watchdogs = {} /\ desktop = 1 /\ hfaults = 0 /\ hcrashes = 0

TunHelperNext ==
  \/ Jobs \/ Watchdog
  \/ \E cmd \in {"Start", "Enable", "Disable", "Status"} : Ask(cmd, 0)
  \/ \E token \in 1..launches : Ask("Stop", token)
  \/ DesktopRestarts \/ \E c \in cores : PathComesUp(c) \/ CoreExits(c)
  \/ \E v \in Servers : UserSetsDns(v)
  \/ Terminate \/ HelperDies \/ HelperStarts

TunHelperSpec == TunHelperInit /\ [][TunHelperNext]_hvars

\* What is under way goes on, launchd keeps the helper and the watchdog jobs alive.
TunHelperFairness == WF_hvars(Jobs) /\ WF_hvars(Watchdog) /\ WF_hvars(HelperStarts)

---------------------------------------------------------------------------
\* Properties.

\* Mish's DNS is never in place without the record that a restart, the
\* watchdog and uninstall restore from, and the record holds the servers the
\* user had (apply_network_transaction, restore_network_transaction).
ManagedIsRecoverable == resolver = "managed" => record # None /\ record.prior = chosen

\* A status that says disabled is given with no Mish DNS in place, and one
\* that says enabled with Mish's DNS, its record and a live Core.
AnswerIsTrue ==
  [][answer' # answer /\ answer' # None =>
       /\ answer'.seen = "disabled" => resolver' # "managed"
       /\ answer'.seen = "enabled" => resolver' = "managed" /\ record' # None /\ cores' # {}]_hvars

\* Once no Core runs, Mish's DNS goes away, by the helper, its watchdog or
\* its successor, without any further request.
DnsComesBack == (resolver = "managed" /\ cores = {}) ~> resolver # "managed"
=============================================================================
