----------------------------- MODULE DesktopShell -----------------------------
(***************************************************************************)
(* The desktop process around the components: what it launches when it     *)
(* starts, the session that restores Capture after a maintenance of the    *)
(* internal TUN package, and the way out of the process                    *)
(* (apps/desktop/src-tauri/src/lib.rs, graceful_exit.rs, and the shutdown  *)
(* of crates/desktop-bridge/src/server.rs), with the evidence kept of how  *)
(* each life of the process ended (support_bundle.rs).                     *)
(*                                                                         *)
(* Three actors share the Capture authority: the startup task, a           *)
(* status.setCapture request, which the server detaches from its socket,   *)
(* and the quit.  A launch or a stop is one step of the activation         *)
(* coordinator here: ProfileActivation is about its inside.                *)
(***************************************************************************)
EXTENDS Naturals, SequencesExt

CONSTANTS
  Behaviors,    \* the stored application launch behaviours
  Tries,        \* INTERNAL_TUN_CAPTURE_RESTORE_ATTEMPTS
  Watches,      \* INTERNAL_TUN_CAPTURE_RESTORE_STABLE_OBSERVATIONS
  MaxCommands,  \* bound: Capture requests and quit requests
  MaxFaults,    \* bound: calls that fail, and TUN lost by the Helper
  RecordLimit,  \* TERMINATION_EVIDENCE_MAX_RECORDS
  MaxRestarts   \* bound: lives of the process after the first

VARIABLES
  disk,      \* the restore marker, the maintenance lock, the launch behaviour
  process,   \* "down", "up", "exited"
  capture,   \* what the Capture authority projects: on or off
  tun,       \* whether the Helper has TUN on
  core,      \* whether Mihomo runs
  turn,      \* who holds proxy_operation
  stopping,  \* shutting_down of the activation coordinator
  startup,   \* the startup task
  request,   \* the Capture request
  exit,      \* GracefulExitCoordinator
  slot,      \* whether BridgeState holds the server's handle
  handle,    \* LoopbackServerHandle
  claim,     \* whether a quit was claimed whose task has not looked for the handle yet
  quit,      \* where the shutdown is
  evidence,  \* TerminationEvidenceStore: the session marker and the records
  spent      \* bounds used

shvars == <<disk, process, capture, tun, core, turn, stopping, startup, request, exit, slot,
            handle, claim, quit, evidence, spent>>

Free == "free"
NoStartup == [at |-> "none", try |-> 0, seen |-> 0, next |-> "none", outcome |-> "none"]
NoHandle == [audit |-> "none", open |-> FALSE, join |-> FALSE, fatal |-> FALSE]

NoRequest == [at |-> "none", active |-> FALSE, launched |-> FALSE]

ShellInit ==
  /\ disk \in [marker : {"none", "valid", "rejected"}, lock : BOOLEAN, behavior : Behaviors,
               updater : BOOLEAN]
  /\ process = "down" /\ capture = FALSE /\ tun = FALSE /\ core = FALSE
  /\ turn = Free /\ stopping = FALSE
  /\ startup = NoStartup /\ request = NoRequest
  /\ exit = "idle" /\ slot = FALSE /\ handle = NoHandle /\ claim = FALSE /\ quit = "none"
  /\ evidence = [session |-> FALSE, log |-> <<>>, ran |-> FALSE, life |-> 0, released |-> {}, left |-> {}]
  /\ spent = [commands |-> 0, faults |-> 0, restarts |-> 0]

CanFail == spent.faults < MaxFaults
Fault == CanFail /\ spent' = [spent EXCEPT !.faults = @ + 1]
Fine == UNCHANGED spent

-----------------------------------------------------------------------------
(* initialize.                                                              *)

\* automatic_application_launch_allowed and launch_on_application_start.  A
\* rejected marker leaves no restore session, only an unavailable Helper.
StartupTask ==
  IF ~disk.updater THEN NoStartup
  ELSE IF disk.marker = "valid" THEN [NoStartup EXCEPT !.at = "try"]
  ELSE IF disk.behavior = "off" THEN NoStartup
  ELSE [NoStartup EXCEPT !.at = "auto"]

\* start_loopback_server_internal: the handle that the shell keeps.
NewHandle == [audit |-> "runs", open |-> TRUE, join |-> TRUE, fatal |-> FALSE]

\* record_locked: the oldest records make room.
Recorded(e, life, category) ==
  LET log == Append(e.log, <<life, category>>)
  IN  [e EXCEPT !.log = IF Len(log) > RecordLimit THEN Tail(log) ELSE log]

\* begin_session: a marker that is still there is an unknown end of the last life.
Begun ==
  LET before == IF evidence.session THEN Recorded(evidence, evidence.life, "unknown") ELSE evidence
  IN  [before EXCEPT !.session = TRUE, !.life = @ + 1, !.ran = FALSE]

\* initialize: the recovery of the Core and the restart audit of Capture give
\* back what a crash left, before anything is launched.  A recovery that fails
\* is recorded, and ends the process with its marker.
Initialize ==
  /\ process = "down"
  /\ \/ /\ process' = "up" /\ capture' = FALSE /\ core' = FALSE
        /\ slot' = TRUE /\ handle' = NewHandle /\ startup' = StartupTask /\ Fine
        /\ evidence' = IF evidence.session THEN Recorded(Begun, evidence.life, "recovered") ELSE Begun
     \/ /\ Fault /\ process' = "exited"
        /\ evidence' = Recorded(Begun, evidence.life + 1, "startup")
        /\ UNCHANGED <<capture, core, slot, handle, startup>>
  /\ UNCHANGED <<disk, tun, turn, stopping, request, exit, claim, quit>>

\* start_managed_core_exit_observation: once a second.
CoreSampled ==
  /\ process = "up" /\ evidence.ran # core /\ Fine
  /\ evidence' = [(IF core THEN evidence ELSE Recorded(evidence, evidence.life, "core")) EXCEPT !.ran = core]
  /\ UNCHANGED <<disk, process, capture, tun, core, turn, stopping, startup, request, exit, slot,
                 handle, claim, quit>>

\* The process dies, or an ended one is started again (external); the Helper
\* ends TUN with its owner.
Crash ==
  /\ process # "down" /\ spent.restarts < MaxRestarts
  /\ process' = "down" /\ tun' = FALSE /\ turn' = Free /\ stopping' = FALSE
  /\ startup' = NoStartup /\ request' = NoRequest
  /\ exit' = "idle" /\ slot' = FALSE /\ handle' = NoHandle /\ claim' = FALSE /\ quit' = "none"
  /\ spent' = [spent EXCEPT !.restarts = @ + 1]
  /\ UNCHANGED <<disk, capture, core, evidence>>

\* The maintenance process retires its lock (external).
MaintenanceEnds ==
  /\ disk.lock /\ disk' = [disk EXCEPT !.lock = FALSE]
  /\ UNCHANGED <<process, capture, tun, core, turn, stopping, startup, request, exit, slot,
                 handle, claim, quit, evidence, spent>>

\* The Helper loses TUN under a running Capture (external).
TunLost ==
  /\ tun /\ Fault /\ tun' = FALSE
  /\ UNCHANGED <<disk, process, capture, core, turn, stopping, startup, request, exit, slot,
                 handle, claim, quit, evidence>>

-----------------------------------------------------------------------------
(* The startup task.                                                        *)

shared == <<disk, process, request, exit, slot, handle, claim, quit, evidence>>
platform == <<capture, tun, core, turn, stopping>>

LastTry == startup.try + 1 >= Tries
Ended(outcome) == [startup EXCEPT !.at = "ended", !.outcome = outcome]
NextTry == [startup EXCEPT !.at = IF LastTry THEN "ended" ELSE "try", !.try = @ + 1, !.seen = 0]

\* One attempt waits for the maintenance lock, then for a healthy Helper.
RestoreTries ==
  /\ startup.at = "try" /\ UNCHANGED <<shared, platform>>
  /\ \/ disk.lock /\ startup' = NextTry /\ Fine
     \/ ~disk.lock /\ startup' = [startup EXCEPT !.at = "launch"] /\ Fine
     \/ ~disk.lock /\ Fault /\ startup' \in {Ended("refused"), NextTry}

\* launch_proxy, up to the lock of proxy_operation.  A refusal is a
\* RuntimeTransition, which is retryable.
LaunchAdmitted == turn = Free /\ ~stopping

\* What follows an attempt that was not confirmed.
Undo(retryable) ==
  [startup EXCEPT !.at = "disable", !.next = IF retryable /\ ~LastTry THEN "retry" ELSE "end"]
Unstable == [startup EXCEPT !.at = "disable", !.next = IF LastTry THEN "end" ELSE "retry"]

RestoreLaunches ==
  /\ startup.at \in {"launch", "auto"} /\ UNCHANGED <<shared, capture, tun, core, stopping>>
  /\ Fine
  /\ IF LaunchAdmitted THEN turn' = "startup" /\ startup' = [startup EXCEPT !.at = "launching",
                                                               !.next = startup.at]
     ELSE /\ startup' = IF startup.at = "auto" THEN Ended("refused") ELSE Undo(TRUE)
          /\ UNCHANGED turn

\* The launch ends.  A quit that waits for the lock has cancelled its
\* preparation, so it may fail then; the automatic launch has no TUN.
RestoreLaunched ==
  LET auto == startup.next = "auto"
  IN  /\ startup.at = "launching" /\ turn' = Free /\ UNCHANGED <<shared, stopping>>
      /\ \/ /\ Fine /\ core' = TRUE
            /\ capture' = (IF auto /\ disk.behavior = "core" THEN capture ELSE TRUE)
            /\ tun' = (IF auto THEN tun ELSE TRUE)
            /\ startup' = IF auto THEN Ended("launched") ELSE [startup EXCEPT !.at = "watch"]
         \/ /\ IF stopping THEN Fine ELSE Fault
            /\ UNCHANGED <<capture, tun, core>>
            /\ startup' \in IF auto THEN {Ended("failed")} ELSE {Undo(TRUE), Undo(FALSE)}

\* maintenance_capture_stably_restored: one observation of the Helper and of
\* the projection.
Watched ==
  IF ~(tun /\ capture) THEN Unstable
  ELSE [startup EXCEPT !.seen = @ + 1, !.at = IF startup.seen + 1 = Watches THEN "confirmed" ELSE "watch"]

RestoreWatches ==
  /\ startup.at = "watch" /\ UNCHANGED <<shared, platform>>
  /\ \/ Fine /\ startup' = Watched
     \/ Fault /\ startup' \in {Undo(TRUE), Undo(FALSE)}

\* The marker goes; a failing removal is not looked at.
RestoreConfirmed ==
  /\ startup.at = "confirmed" /\ startup' = Ended("restored")
  /\ \/ Fine /\ disk' = [disk EXCEPT !.marker = "none"]
     \/ Fault /\ UNCHANGED disk
  /\ UNCHANGED <<process, request, exit, slot, handle, claim, quit, evidence, platform>>

\* set_capture with active = false: refused while the process shuts down.
Released == IF stopping THEN capture ELSE FALSE

\* maintenance_capture_disable_unconfirmed: Capture, the Helper, Capture again,
\* then both are looked at.
DisableCapture ==
  /\ startup.at \in {"disable", "again"} /\ turn = Free /\ Fine
  /\ capture' = Released
  /\ startup' = [startup EXCEPT !.at = IF startup.at = "disable" THEN "helper" ELSE "look"]
  /\ UNCHANGED <<shared, tun, core, turn, stopping>>

DisableTun ==
  /\ startup.at = "helper" /\ UNCHANGED <<shared, capture, core, turn, stopping>>
  /\ \/ Fine /\ tun' = FALSE /\ startup' = [startup EXCEPT !.at = "again"]
     \/ Fault /\ UNCHANGED tun /\ startup' = Ended("stuck")

DisableLooked ==
  /\ startup.at = "look" /\ UNCHANGED <<shared, platform>>
  /\ \/ /\ Fine
        /\ startup' = IF tun \/ capture THEN Ended("stuck")
                      ELSE IF startup.next = "retry" THEN NextTry ELSE Ended("off")
     \/ Fault /\ startup' = Ended("stuck")

-----------------------------------------------------------------------------
(* The status.setCapture request: it is admitted by an open socket, then    *)
(* runs detached from it.                                                   *)

noStartup == <<disk, process, startup, exit, slot, handle, claim, quit, evidence>>

Request(active) ==
  /\ process = "up" /\ handle.open /\ request.at = "none"
  /\ spent.commands < MaxCommands /\ spent' = [spent EXCEPT !.commands = @ + 1]
  /\ request' = [request EXCEPT !.at = "sent", !.active = active]
  /\ UNCHANGED <<noStartup, platform>>

Done == request' = [request EXCEPT !.at = "none"]

RequestRuns ==
  /\ process = "up" /\ request.at = "sent" /\ Fine
  /\ \/ request.active /\ LaunchAdmitted /\ turn' = "request"
        /\ request' = [request EXCEPT !.at = "launching", !.launched = TRUE] /\ UNCHANGED <<capture, tun>>
     \/ request.active /\ ~LaunchAdmitted /\ Done /\ UNCHANGED <<capture, tun, turn>>
     \/ /\ ~request.active /\ turn = Free /\ Done
        /\ capture' = Released /\ tun' = (tun /\ stopping) /\ UNCHANGED turn
  /\ UNCHANGED <<noStartup, core, stopping>>

RequestLaunched ==
  /\ process = "up" /\ request.at = "launching" /\ turn' = Free /\ Done
  /\ \/ Fine /\ core' = TRUE /\ capture' = TRUE /\ tun' = TRUE
     \/ (IF stopping THEN Fine ELSE Fault) /\ UNCHANGED <<core, capture, tun>>
  /\ UNCHANGED <<noStartup, stopping>>

-----------------------------------------------------------------------------
(* The way out.                                                             *)

noQuit == <<disk, process, startup, request>>
noEvidence == <<noQuit, evidence>>

\* GracefulExitCoordinator::begin: one of the requests that race claims it.
QuitRequested ==
  /\ process = "up" /\ exit \in {"idle", "failed"}
  /\ spent.commands < MaxCommands /\ spent' = [spent EXCEPT !.commands = @ + 1]
  /\ exit' = "pending" /\ claim' = TRUE
  /\ UNCHANGED <<noEvidence, platform, slot, handle, quit>>

\* request_graceful_exit: without a bridge nothing is left to release.
QuitTakes ==
  /\ claim /\ claim' = FALSE /\ Fine
  /\ IF slot THEN slot' = FALSE /\ quit' = "audit" /\ UNCHANGED exit
     ELSE exit' = "authorized" /\ UNCHANGED <<slot, quit>>
  /\ UNCHANGED <<noEvidence, platform, handle>>

\* LoopbackServerHandle::shutdown, until the audit has been joined.  The join
\* handle is taken before its result is known.
AuditJoined ==
  /\ quit = "audit" /\ UNCHANGED <<noEvidence, platform, exit, slot, claim>>
  /\ IF handle.fatal THEN quit' = "failed" /\ Fine /\ UNCHANGED handle
     ELSE \/ Fine /\ quit' = "drain" /\ handle' = [handle EXCEPT !.audit = "none"]
          \/ /\ handle.audit = "runs" /\ Fault
             /\ quit' = "failed" /\ handle' = [handle EXCEPT !.audit = "none"]

\* Sockets are cancelled, the listener closes and its task is joined within
\* five seconds; a task that ended badly makes every later attempt fail.
RpcDrained ==
  /\ quit = "drain" /\ UNCHANGED <<noEvidence, platform, exit, slot, claim>>
  /\ \/ Fine /\ quit' = "release" /\ handle' = [handle EXCEPT !.open = FALSE, !.join = FALSE]
     \/ /\ handle.join /\ Fault /\ quit' = "failed"
        /\ \/ handle' = [handle EXCEPT !.open = FALSE]
           \/ handle' = [handle EXCEPT !.open = FALSE, !.join = FALSE, !.fatal = TRUE]

\* shutdown_for_exit: no mutation is admitted any more.
Releases ==
  /\ quit = "release" /\ Fine
  /\ stopping' = TRUE /\ quit' = "stop"
  /\ UNCHANGED <<noEvidence, capture, tun, core, turn, exit, slot, handle, claim>>

\* The stop waits for the aggregate operation that runs.
Quiet == turn = Free

Stops ==
  /\ quit = "stop" /\ Quiet /\ UNCHANGED <<noQuit, turn, exit, slot, handle, claim>>
  /\ \/ /\ evidence' = [evidence EXCEPT !.released = @ \cup {evidence.life}]
        /\ Fine /\ capture' = FALSE /\ tun' = FALSE /\ core' = FALSE
        /\ quit' = "confirmed" /\ UNCHANGED stopping
     \/ Fault /\ stopping' = FALSE /\ quit' = "failed" /\ UNCHANGED <<capture, tun, core, evidence>>

GaveBack ==
  IF quit = "failed" THEN slot' = TRUE /\ quit' = "record" /\ UNCHANGED exit
  ELSE exit' = "failed" /\ quit' = "none" /\ UNCHANGED slot

QuitFails ==
  /\ quit \in {"failed", "record"} /\ Fine /\ GaveBack
  /\ UNCHANGED <<noEvidence, platform, handle, claim>>

\* record_normal_quit, after a report that permits the exit: the record, then
\* the marker, and only then is the exit authorized.
ClearSession == evidence' = [evidence EXCEPT !.session = FALSE] /\ UNCHANGED exit
AuthorizeExit == /\ evidence' = [evidence EXCEPT !.left = @ \cup {evidence.life}]
                 /\ exit' = "authorized"
Leaves == IF quit = "recorded" THEN ClearSession ELSE AuthorizeExit

QuitRecorded ==
  /\ quit = "confirmed" /\ Fine /\ quit' = "recorded"
  /\ evidence' = Recorded(evidence, evidence.life, "quit")
  /\ UNCHANGED <<noQuit, platform, exit, slot, handle, claim>>

QuitConfirmed ==
  /\ quit \in {"recorded", "cleared"} /\ Fine /\ Leaves
  /\ quit' = IF quit = "recorded" THEN "cleared" ELSE "none"
  /\ UNCHANGED <<noQuit, platform, slot, handle, claim>>

\* run_return ends; the fallback finds no bridge in BridgeState.
RunEnds ==
  /\ process = "up" /\ exit = "authorized" /\ process' = "exited" /\ Fine
  /\ UNCHANGED <<disk, platform, startup, request, exit, slot, handle, claim, quit, evidence>>

StartupStep ==
  /\ process = "up"
  /\ \/ RestoreTries \/ RestoreLaunches \/ RestoreLaunched \/ RestoreWatches
     \/ RestoreConfirmed \/ DisableCapture \/ DisableTun \/ DisableLooked

QuitStep ==
  /\ process = "up"
  /\ \/ QuitTakes \/ AuditJoined \/ RpcDrained \/ Releases \/ Stops \/ QuitFails
     \/ QuitRecorded \/ QuitConfirmed

ShellNext ==
  \/ Initialize \/ CoreSampled \/ Crash \/ MaintenanceEnds \/ TunLost
  \/ StartupStep
  \/ (\E active \in BOOLEAN : Request(active)) \/ RequestRuns \/ RequestLaunched
  \/ QuitRequested \/ QuitStep \/ RunEnds

ShellSpec == ShellInit /\ [][ShellNext]_shvars

-----------------------------------------------------------------------------
(* Once the exit is authorized, Capture, TUN and Mihomo are off and stay   *)
(* off, whatever the startup task and a detached Capture request still do, *)
(* and however often the quit had failed and was asked for again           *)
(* (request_graceful_exit, LoopbackServerHandle::shutdown).                *)
ExitIsProven == exit = "authorized" => ~capture /\ ~tun /\ ~core

(* A restore session that ends with its marker kept leaves Capture and TUN *)
(* off, unless it could not turn them off or the user took over            *)
(* (launch_on_application_start), so that the next start may try it again. *)
UnconfirmedIsOff ==
  (/\ startup.at = "ended" /\ startup.outcome \notin {"restored", "stuck"}
   /\ disk.marker = "valid" /\ ~request.launched) => ~capture /\ ~tun

(* When the next life begins, the last one is on record as an unknown end  *)
(* unless Capture and the Core had been released, and it never is once its *)
(* exit was authorized (begin_session, record_normal_quit): wherever the   *)
(* process died on its way out.                                            *)
EndIsTruthful ==
  [][evidence'.life # evidence.life =>
       LET unknown == <<evidence.life, "unknown">> \in Range(evidence'.log)
       IN  /\ evidence.life \in evidence.left => ~unknown
           /\ evidence.life \notin {0} \cup evidence.released => unknown]_shvars
===============================================================================
