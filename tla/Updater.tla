------------------------------ MODULE Updater ------------------------------
(***************************************************************************)
(* The updater service: the Check and the Continuation machine that share  *)
(* one snapshot, the download effect and its progress sequence, and the    *)
(* candidate store with its recovery after a crash                         *)
(* (crates/updater/src/service.rs, service/check_machine.rs,               *)
(* service/continuation_machine.rs).                                       *)
(*                                                                         *)
(* A candidate is its version: the metadata, the Release record and the    *)
(* signatures are what identifies it and are compared as a whole.  Each    *)
(* machine runs on the kernel (module Kernel), which delivers one          *)
(* completion for every task, a panic and an abort included; a step here   *)
(* is a reduced input, so the completion that a task sends and the         *)
(* reduction of it are one step.  A file procedure is the sequence of the  *)
(* stores it goes through: it may end, fail or die after each of them.     *)
(***************************************************************************)
EXTENDS Integers, Sequences

CONSTANTS
  Versions,    \* the versions a channel may publish
  Keys,        \* bound: the operation keys clients make, 1 .. Keys
  Size,        \* the artifact's size, in chunks
  Faults,      \* "io": a file procedure may fail; "restart": the server may ignore Range or ETag
  MaxCrashes   \* bound: deaths of the process

VARIABLES
  store,       \* the managed directory
  usnap,       \* RuntimeState::snapshot
  offered,     \* RuntimeState::available
  highWater,   \* RuntimeState::accepted
  admission,   \* RuntimeState::operation_admission_pending
  requests,    \* the requests reserved and not yet reduced, and the keys used
  check, cont, \* the machines
  download,    \* the Download effect: where it is
  service,     \* down, starting, up, closing the Check, closing the Continuation
  ucrashes

uvars == <<store, usnap, offered, highWater, admission, requests, check, cont, download, service, ucrashes>>

None == [none |-> TRUE]
Last(s) == s[Len(s)]

---------------------------------------------------------------------------
\* The candidate store.  state, recovery, partial and candidate are the four
\* managed entries, accepted the high-water mark of accepted.json (a digest is
\* accepted with its version).  A partial of size -1 has lost its payload.

Binds(entry, version, op) == entry # None /\ entry.version = version /\ entry.op = op

\* discard_managed_state: partial, candidate, state, recovery, in this order.
DiscardManagedState(s) ==
  LET partial == [s EXCEPT !.partial = None]
      candidate == [partial EXCEPT !.candidate = None]
      state == [candidate EXCEPT !.state = None]
  IN <<s, partial, candidate, state, [state EXCEPT !.recovery = None]>>

PersistAvailable(s, version, op) ==
  LET partial == IF s.partial # None /\ s.partial.version # version THEN [s EXCEPT !.partial = None] ELSE s
      state == [partial EXCEPT !.state = [phase |-> "Available", version |-> version, op |-> op]]
  IN <<s, partial, state, [state EXCEPT !.recovery = [version |-> version, op |-> op, commit |-> "Available"]]>>

FreshPartial(version, op, etag) == [version |-> version, op |-> op, size |-> 0, etag |-> etag, good |-> TRUE]

PartialInfo(s, version, op) == Binds(s.partial, version, op) /\ s.partial.size >= 0

\* prepare_partial keeps the partial of the same operation and candidate.
PreparePartial(s, version, op) ==
  IF PartialInfo(s, version, op) THEN s ELSE [s EXCEPT !.partial = FreshPartial(version, op, FALSE)]

Commit(s, version, op, commit) == [s EXCEPT !.recovery = [version |-> version, op |-> op, commit |-> commit]]

Record(accepted, version) == IF version > accepted THEN version ELSE accepted

MutantPublishCandidate(s, version, op) ==
  LET started == Commit(s, version, op, "CommitStarted")
      published == [started EXCEPT !.candidate = [version |-> version, op |-> op, good |-> s.partial.good]]
      recorded == [published EXCEPT !.partial = None, !.accepted = Record(@, version)]
  IN <<s, started, published, recorded, Commit(recorded, version, op, "Committed")>>

\* publish_candidate, from the first write to the last: an old candidate is
\* discarded, the payload is moved into a temporary directory, that directory
\* is renamed, and the state, the high water and the recovery record follow.
PublishCandidate(s, version, op) ==
  LET started == Commit(s, version, op, "CommitStarted")
      cleared == [started EXCEPT !.candidate = None]
      moved == [cleared EXCEPT !.partial.size = -1]
      published == [moved EXCEPT !.candidate = [version |-> version, op |-> op, good |-> s.partial.good]]
      dropped == [published EXCEPT !.partial = None]
      ready == [dropped EXCEPT !.state = [phase |-> "Ready", version |-> version, op |-> op]]
      recorded == [ready EXCEPT !.accepted = Record(@, version)]
  IN <<s, started, cleared, moved, published, dropped, ready, recorded, Commit(recorded, version, op, "Committed")>>

InspectCandidate(s, version, op) == Binds(s.candidate, version, op)

\* verify_ready and record_reverified.
VerifyReady(s, version, op) == InspectCandidate(s, version, op) /\ s.candidate.good

RecordReverified(s, version, op) ==
  LET recorded == [s EXCEPT !.accepted = Record(@, version)]
  IN <<s, recorded, Commit(recorded, version, op, "Committed")>>

\* What recover decides from the files: nothing, an offer, an interrupted
\* download, or a candidate that has to be verified again.
Recovers(s) ==
  LET valid == s.state # None /\ Binds(s.recovery, s.state.version, s.state.op)
      commit == s.recovery.commit
      allowed == s.state.version >= s.accepted
  IN CASE ~valid -> "Idle"
       [] valid /\ s.state.phase = "Ready" ->
            IF commit \in {"CommitStarted", "Committed"} /\ allowed THEN "Reverify" ELSE "Idle"
       [] valid /\ s.state.phase = "Available" /\ commit = "CommitStarted" ->
            IF allowed /\ InspectCandidate(s, s.state.version, s.state.op) THEN "Reverify" ELSE "Idle"
       [] OTHER ->
            IF commit \notin {"Available", "PartialDownload"} \/ s.state.version <= s.accepted THEN "Idle"
            ELSE IF PartialInfo(s, s.state.version, s.state.op) THEN "Interrupted" ELSE "Offer"

---------------------------------------------------------------------------
\* The snapshot and the machines' projections of their states.

Shown(phase, op, version, bytes, resumable) ==
  [phase |-> phase, op |-> op, version |-> version, bytes |-> bytes, resumable |-> resumable]

IdleSnapshot == Shown("Idle", 0, 0, -1, FALSE)

CheckIdle == [kind |-> "Stable", op |-> 0, version |-> 0, baseline |-> IdleSnapshot,
              cancel |-> FALSE, shut |-> FALSE, retired |-> FALSE]

CheckProjection(c) ==
  CASE c.kind = "Stable" -> IF c.version = 0 THEN IdleSnapshot ELSE Shown("Available", c.op, c.version, -1, FALSE)
    [] c.kind \in {"Checking", "Committing"} -> Shown("Checking", c.op, 0, -1, FALSE)
    [] c.kind \in {"NoUpdate", "Failed"} -> Shown("Failed", c.op, 0, -1, FALSE)
    [] c.kind = "Unchanged" -> c.baseline
    [] c.kind = "Cancelled" -> Shown("Cancelled", c.op, 0, -1, FALSE)

ContStable == [kind |-> "Stable", op |-> 0, version |-> 0, bytes |-> 0, seq |-> 0, resumable |-> FALSE,
               cancel |-> FALSE, shut |-> FALSE, stage |-> "Downloading", terminal |-> "Failed",
               discard |-> FALSE, retired |-> FALSE, behind |-> FALSE]
               \* behind, a ghost: what this download met lets its effect count on
               \* past what the machine was told

ContProjection(c) ==
  Shown(CASE c.kind \in {"Verifying", "Committing", "Recovering"} -> "Verifying"
          [] c.kind = "Finalizing" -> c.stage
          [] c.kind \in {"Interrupted", "RecoveryRequired"} -> "Failed"
          [] OTHER -> c.kind,
        c.op, c.version, c.bytes, c.resumable)

Running(c) == c.kind \in {"Downloading", "Verifying", "Committing", "Finalizing", "Recovering"}

\* ContinuationProjectionObserver: what is not a request projects only onto a
\* snapshot that is its own.
ProjectCont(c, requested) ==
  /\ cont' = c
  /\ LET mine == requested \/ (usnap.phase # "Checking" /\ usnap.op = c.op)
     IN /\ usnap' = IF c.kind # "Stable" /\ mine THEN ContProjection(c) ELSE usnap
        /\ highWater' = IF c.kind = "Ready" /\ mine /\ usnap # ContProjection(c)
                        THEN Record(highWater, c.version) ELSE highWater

\* CheckProjectionObserver: a cancellation and a shutdown do not project.
ProjectCheck(c) ==
  /\ check' = c
  /\ usnap' = CheckProjection(c)
  /\ offered' = IF c.kind = "Stable" /\ c.version # 0 THEN c.version ELSE offered

\* The process dies: nothing but the store survives.
Dies ==
  /\ ucrashes < MaxCrashes
  /\ ucrashes' = ucrashes + 1
  /\ service' = "down"
  /\ usnap' = IdleSnapshot
  /\ offered' = 0
  /\ highWater' = 0
  /\ admission' = FALSE
  /\ requests' = [requests EXCEPT !.check = None, !.download = None]
  /\ check' = CheckIdle
  /\ cont' = ContStable
  /\ download' = None

\* A file procedure ends and the step goes on with ok, fails after some of its
\* writes and goes on with err, or dies with the process.
Perform(steps, ok, err) ==
  \/ store' = Last(steps) /\ ok /\ UNCHANGED ucrashes
  \/ "io" \in Faults /\ (\E k \in 1 .. Len(steps) - 1 : store' = steps[k]) /\ err /\ UNCHANGED ucrashes
  \/ (\E k \in 1 .. Len(steps) : store' = steps[k]) /\ Dies

---------------------------------------------------------------------------
\* The start of the process: configured_inner and recover.

UpdaterInit ==
  /\ store = [state |-> None, recovery |-> None, partial |-> None, candidate |-> None, accepted |-> 0]
  /\ usnap = IdleSnapshot
  /\ offered = 0
  /\ highWater = 0
  /\ admission = FALSE
  /\ requests = [check |-> None, download |-> None, used |-> 0]
  /\ check = CheckIdle
  /\ cont = ContStable
  /\ download = None
  /\ service = "down"
  /\ ucrashes = 0

Recovered(kind, bytes, resumable) ==
  [ContStable EXCEPT !.kind = kind, !.op = store.state.op, !.version = store.state.version,
                     !.bytes = bytes, !.resumable = resumable]

\* The service comes up with what it recovered; a candidate to verify again is
\* verified before the constructor returns.
ComesUp(c, snapshot, mode) ==
  /\ service = "down"
  /\ service' = mode
  /\ cont' = c
  /\ usnap' = snapshot
  /\ offered' = snapshot.version
  /\ highWater' = store.accepted
  /\ UNCHANGED <<admission, requests, check, download>>

StartIdle ==
  /\ service = "down" /\ Recovers(store) = "Idle"
  /\ Perform(DiscardManagedState(store), ComesUp(ContStable, IdleSnapshot, "up"), FALSE)

StartReverify ==
  /\ service = "down" /\ Recovers(store) = "Reverify"
  /\ LET c == Recovered("Recovering", Size, FALSE) IN ComesUp(c, ContProjection(c), "starting")
  /\ UNCHANGED <<store, ucrashes>>

\* A partial past its age is dropped, and the offer stands.
StartOffer ==
  /\ service = "down" /\ Recovers(store) \in {"Offer", "Interrupted"}
  /\ LET partial == store.partial
         resumable == partial.size > 0 /\ partial.etag
         c == Recovered("Interrupted", partial.size, resumable)
         offer == Shown("Available", store.state.op, store.state.version, -1, FALSE)
     IN \/ Recovers(store) = "Interrupted" /\ ComesUp(c, ContProjection(c), "up") /\ UNCHANGED store
        \/ store' = [store EXCEPT !.partial = None] /\ ComesUp(ContStable, offer, "up")
  /\ UNCHANGED ucrashes

\* ReverifyCandidate, run by recover() before the service is handed out.
Reverify ==
  /\ service = "starting"
  /\ LET ends(c) == /\ ProjectCont(c, FALSE)
                    /\ service' = "up"
                    /\ UNCHANGED <<offered, admission, requests, check, download>>
         failed == ends([cont EXCEPT !.kind = "RecoveryRequired"])
     IN IF VerifyReady(store, cont.version, cont.op)
        THEN Perform(RecordReverified(store, cont.version, cont.op), ends([cont EXCEPT !.kind = "Ready"]), failed)
        ELSE Perform(DiscardManagedState(store), failed, failed)

---------------------------------------------------------------------------
\* Check.

Served == service \notin {"down", "starting"}

\* A client makes a key for a check, or repeats the one that is shown.
Keyed(kind, op) == op = usnap.op \/ (kind = "check" /\ op = requests.used + 1)

\* start: the admission is reserved and the snapshot read under one lock.
Reserve(kind, op) ==
  /\ Served
  /\ Keyed(kind, op)
  /\ ~admission
  /\ kind = "download" => offered # 0
  /\ admission' = TRUE
  /\ requests' = [requests EXCEPT ![kind] = [op |-> op, outer |-> usnap, version |-> offered],
                                  !.used = IF op > @ THEN op ELSE @]
  /\ UNCHANGED <<store, usnap, offered, highWater, check, cont, download, service, ucrashes>>

Admits(kind) ==
  /\ requests[kind] # None
  /\ requests' = [requests EXCEPT ![kind] = None]
  /\ admission' = FALSE

CheckBusy(outer) == check.kind \in {"Checking", "Committing"} \/ outer.phase \in {"Checking", "Downloading", "Verifying"}

\* A check that follows a failed or a cancelled one keeps the baseline of that.
Baseline(outer) ==
  IF check.kind \in {"Failed", "Cancelled"} /\ check.baseline.version # 0 THEN check.baseline ELSE outer

AdmitCheck ==
  /\ Admits("check")
  /\ LET r == requests.check
         duplicate == r.outer.op = r.op /\ r.outer.phase # "Idle"
     IN IF duplicate \/ CheckBusy(r.outer) \/ check.retired \/ check.shut
        THEN UNCHANGED <<usnap, check, offered>>
        ELSE ProjectCheck([CheckIdle EXCEPT !.kind = "Checking", !.op = r.op, !.baseline = Baseline(r.outer)])
  /\ UNCHANGED <<store, highWater, cont, download, service, ucrashes>>

\* classify_discovery, on the state as it is when the discovery ends.
Classify(version) ==
  CASE offered # 0 /\ version < offered -> "Failed"
    [] version = offered -> "Unchanged"
    [] OTHER -> IF version < highWater THEN "Failed" ELSE IF version = highWater THEN "Unchanged" ELSE "Committing"

CheckEnds(kind) ==
  ProjectCheck([check EXCEPT !.kind = kind, !.retired = check.shut, !.cancel = FALSE, !.shut = FALSE,
                             !.baseline = IF kind = "Stable" THEN IdleSnapshot ELSE @])

\* The discovery ends.  A requested cancellation wins over every outcome.
Discover ==
  /\ check.kind = "Checking"
  /\ \/ check.cancel /\ CheckEnds("Cancelled")
     \/ ~check.cancel /\ \E kind \in {"NoUpdate", "Failed"} : CheckEnds(kind)
     \/ ~check.cancel /\ \E version \in Versions :
          IF Classify(version) = "Committing"
          THEN ProjectCheck([check EXCEPT !.kind = "Committing", !.version = version])
          ELSE CheckEnds(Classify(version))
  /\ UNCHANGED <<store, highWater, admission, requests, cont, download, service, ucrashes>>

CommitAvailable ==
  /\ check.kind = "Committing"
  /\ LET rest == UNCHANGED <<highWater, admission, requests, cont, download, service>>
     IN Perform(PersistAvailable(store, check.version, check.op), CheckEnds("Stable") /\ rest, CheckEnds("Failed") /\ rest)

---------------------------------------------------------------------------
\* Download.  The effect counts its own progress sequence; the machine applies
\* an input only if it is the next of its own.

AdmitDownload ==
  /\ Admits("download")
  /\ LET r == requests.download
         mine == r.outer.op = r.op /\ r.outer.version = r.version
         phase == r.outer.phase
         bytes == IF r.outer.bytes > 0 THEN r.outer.bytes ELSE 0
         starts == /\ mine
                   /\ phase \in {"Available", "Cancelled", "Failed"}
                   /\ ~Running(cont) /\ ~cont.retired /\ ~cont.shut
     IN IF starts
        THEN /\ ProjectCont([ContStable EXCEPT !.kind = "Downloading", !.op = r.op, !.version = r.version,
                                               !.bytes = bytes], TRUE)
             /\ download' = [stage |-> "open", seq |-> 0, offset |-> 0]
        ELSE UNCHANGED <<usnap, cont, highWater, download>>
  /\ UNCHANGED <<store, offered, check, service, ucrashes>>

Finalizing(stage, terminal, discard) ==
  [cont EXCEPT !.kind = "Finalizing", !.seq = 0, !.stage = stage, !.terminal = terminal, !.discard = discard,
               !.cancel = FALSE]

\* What the machine makes of a Download completion with sequence seq.
Completed(outcome, seq) ==
  IF seq # cont.seq + 1 THEN cont
  ELSE CASE cont.cancel \/ outcome = "Cancelled" -> Finalizing("Downloading", "Cancelled", FALSE)
         [] outcome = "Ok" /\ ~cont.cancel -> [cont EXCEPT !.kind = "Verifying", !.bytes = Size, !.seq = 0]
         [] outcome = "Fatal" /\ ~cont.cancel -> Finalizing("Downloading", "Failed", TRUE)
         [] outcome = "Error" /\ ~cont.cancel -> Finalizing("Downloading", "Failed", FALSE)

DownloadEnds(outcome, seq) ==
  /\ download' = None
  /\ IF Completed(outcome, seq) = cont THEN UNCHANGED <<cont, usnap, highWater>> ELSE ProjectCont(Completed(outcome, seq), FALSE)

Effects == UNCHANGED <<offered, admission, requests, check, service>>

\* The request is sent.  A partial of full size ends the effect; one without an
\* ETag starts again, and so does one whose Range the server ignores.
DownloadOpen ==
  /\ download # None /\ download.stage = "open"
  /\ LET prepared == PreparePartial(store, cont.version, cont.op)
         partial == IF prepared.partial.size > 0 /\ ~prepared.partial.etag /\ prepared.partial.size # Size
                    THEN [prepared EXCEPT !.partial = FreshPartial(cont.version, cont.op, FALSE)] ELSE prepared
         streams(offset) == /\ download' = [download EXCEPT !.stage = "stream", !.offset = offset]
                            /\ cont' = [cont EXCEPT !.behind = offset < cont.bytes]
                            /\ UNCHANGED <<usnap, highWater>>
     IN \/ prepared.partial.size = Size /\ store' = prepared /\ DownloadEnds("Ok", 1)
        \/ /\ prepared.partial.size # Size
           /\ \/ \E outcome \in {"Error", "Fatal"} \cup (IF cont.cancel THEN {"Cancelled"} ELSE {}) :
                   store' = partial /\ DownloadEnds(outcome, 1)
              \/ partial.partial.size > 0 /\ store' = partial /\ streams(partial.partial.size)
              \/ \E etag \in BOOLEAN :
                   /\ (partial.partial.size > 0 \/ ~etag) => "restart" \in Faults
                   /\ store' = [partial EXCEPT !.partial = FreshPartial(cont.version, cont.op, etag)]
                   /\ streams(0)
  /\ UNCHANGED ucrashes
  /\ Effects

\* PartialCommitted: the next of the sequence, and never fewer bytes.
PartialCommitted(seq, bytes) ==
  IF seq # cont.seq + 1 \/ bytes < cont.bytes \/ bytes > Size THEN cont
  ELSE [cont EXCEPT !.bytes = bytes, !.seq = seq]

\* A chunk is written and synced, counted, recorded, and told to the machine.  When
\* the record fails, the effect ends with a sequence that is one too high, and its
\* completion is retired.
DownloadChunk ==
  /\ download # None /\ download.stage = "stream"
  /\ \E n \in 1 .. Size - download.offset, good \in BOOLEAN :
       LET offset == download.offset + n
           seq == download.seq + 1
           written == [store EXCEPT !.partial.size = offset, !.partial.good = @ /\ good]
           told == PartialCommitted(seq, offset)
       IN Perform(<<written, Commit(written, cont.version, cont.op, "PartialDownload")>>,
                  /\ download' = [download EXCEPT !.offset = offset, !.seq = seq]
                  /\ IF told = cont THEN UNCHANGED <<cont, usnap, highWater>> ELSE ProjectCont(told, FALSE)
                  /\ Effects,
                  /\ download' = None /\ cont' = [cont EXCEPT !.behind = TRUE]
                  /\ UNCHANGED <<usnap, highWater>> /\ Effects)

\* The stream ends: with every byte, too early, with an error, or cancelled.
DownloadStops ==
  /\ download # None /\ download.stage = "stream"
  /\ \E outcome \in {"Error", IF download.offset = Size THEN "Ok" ELSE "Fatal"}
                    \cup (IF cont.cancel THEN {"Cancelled"} ELSE {}) :
       DownloadEnds(outcome, download.seq + 1)
  /\ UNCHANGED <<store, ucrashes>>
  /\ Effects

\* A panicked task is reported without a sequence, and finalized as a failure.
TaskFailed ==
  /\ \/ cont.kind = "Downloading" /\ download # None /\ ProjectCont(Finalizing("Downloading", "Failed", FALSE), FALSE)
     \/ cont.kind = "Verifying" /\ ProjectCont(Finalizing("Verifying", "Failed", FALSE), FALSE)
  /\ download' = None
  /\ UNCHANGED <<store, ucrashes>>
  /\ Effects

---------------------------------------------------------------------------
\* Verify, CommitCandidate and FinalizeFailure.

Verify ==
  /\ cont.kind = "Verifying"
  /\ ProjectCont(IF cont.cancel THEN Finalizing("Verifying", "Cancelled", FALSE)
                 ELSE IF PartialInfo(store, cont.version, cont.op) /\ store.partial.good
                 THEN [cont EXCEPT !.kind = "Committing"]
                 ELSE Finalizing("Verifying", "Failed", TRUE), FALSE)
  /\ UNCHANGED <<store, download, ucrashes>>
  /\ Effects

ContEnds(c) ==
  /\ ProjectCont([c EXCEPT !.retired = c.shut, !.shut = FALSE, !.cancel = FALSE,
                           !.stage = "Downloading", !.terminal = "Failed", !.discard = FALSE], FALSE)
  /\ UNCHANGED download
  /\ Effects

CommitCandidate ==
  /\ cont.kind = "Committing"
  /\ LET failed == ContEnds([cont EXCEPT !.kind = "RecoveryRequired"])
     IN IF PartialInfo(store, cont.version, cont.op) /\ store.partial.size = Size
        THEN Perform(PublishCandidate(store, cont.version, cont.op), ContEnds([cont EXCEPT !.kind = "Ready"]), failed)
        ELSE Perform(<<store>>, failed, failed)

\* FinalizeFailure drops the partial or reads what is left of it.
FinalizeFailure ==
  /\ cont.kind = "Finalizing"
  /\ LET left == IF cont.discard THEN [store EXCEPT !.partial = None] ELSE store
         info == PartialInfo(left, cont.version, cont.op)
         size == IF info THEN left.partial.size ELSE 0
         ended == ContEnds([cont EXCEPT !.kind = cont.terminal, !.bytes = size,
                                        !.resumable = size > 0 /\ left.partial.etag])
         unknown == ContEnds([cont EXCEPT !.kind = "RecoveryRequired"])
     IN IF cont.discard \/ info THEN Perform(<<store, left>>, ended, unknown)
        ELSE Perform(<<store>>, unknown, unknown)

---------------------------------------------------------------------------
\* Cancel is routed by the snapshot's phase; past a commit point it is refused.

CancelRoute == IF usnap.phase = "Checking" THEN "check" ELSE "download"

CancelCheck ==
  /\ Served /\ CancelRoute = "check"
  /\ check.kind = "Checking" /\ ~check.cancel
  /\ check' = [check EXCEPT !.cancel = TRUE]
  /\ UNCHANGED <<store, usnap, offered, highWater, admission, requests, cont, download, service, ucrashes>>

CancelDownload ==
  /\ Served /\ CancelRoute = "download"
  /\ cont.kind \in {"Downloading", "Verifying"} /\ ~cont.cancel
  /\ ProjectCont([cont EXCEPT !.cancel = TRUE], FALSE)
  /\ UNCHANGED <<store, download, ucrashes>>
  /\ Effects

\* shutdown: the Check's runner first, then the Continuation's.
ShutdownCheck ==
  /\ service = "up"
  /\ service' = "closing-check"
  /\ check' = IF check.kind \in {"Checking", "Committing"}
              THEN [check EXCEPT !.shut = TRUE, !.cancel = check.kind = "Checking"]
              ELSE [check EXCEPT !.retired = TRUE]
  /\ UNCHANGED <<store, usnap, offered, highWater, admission, requests, cont, download, ucrashes>>

ShutdownContinuation ==
  /\ service = "closing-check" /\ check.retired
  /\ service' = "closing-continuation"
  /\ LET kind == IF cont.kind = "Interrupted" THEN "Cancelled" ELSE cont.kind
     IN ProjectCont(IF Running(cont)
                    THEN [cont EXCEPT !.shut = TRUE, !.cancel = kind \in {"Downloading", "Verifying"}]
                    ELSE [cont EXCEPT !.kind = kind, !.retired = TRUE], FALSE)
  /\ UNCHANGED <<store, offered, admission, requests, check, download, ucrashes>>

\* The process is killed between two steps, or ends after its shutdown.
Killed ==
  /\ service # "down"
  /\ Dies
  /\ UNCHANGED store

UpdaterNext ==
  \/ StartIdle \/ StartReverify \/ StartOffer \/ Reverify
  \/ \E kind \in {"check", "download"}, op \in 1 .. Keys : Reserve(kind, op)
  \/ AdmitCheck \/ Discover \/ CommitAvailable
  \/ AdmitDownload \/ DownloadOpen \/ DownloadChunk \/ DownloadStops \/ TaskFailed
  \/ Verify \/ CommitCandidate \/ FinalizeFailure
  \/ CancelCheck \/ CancelDownload
  \/ ShutdownCheck \/ ShutdownContinuation
  \/ Killed

UpdaterSpec == UpdaterInit /\ [][UpdaterNext]_uvars

---------------------------------------------------------------------------
\* Properties.

\* Work that is under way is what the snapshot shows, under its own operation:
\* the check and the download never run at once, a cancel is routed to the one
\* that runs, and a check and a download that were both reserved against the
\* same snapshot do not both start (start, project_check_state_locked,
\* ContinuationProjectionObserver).
RunningIsShown ==
  service # "down" =>
    /\ check.kind \in {"Checking", "Committing"} => usnap.phase = "Checking" /\ usnap.op = check.op
    /\ Running(cont) => usnap.phase \in {"Downloading", "Verifying"} /\ usnap.op = cont.op

\* A candidate shown as ready is in the store, whole and verified, wherever the
\* process died or a write failed before (publish_candidate, recover).
ReadyIsVerified ==
  usnap.phase = "Ready" => Binds(store.candidate, usnap.version, usnap.op) /\ store.candidate.good

\* The state file says that the candidate of the snapshot is ready.
RecordedReady == store.state = [phase |-> "Ready", version |-> usnap.version, op |-> usnap.op]

\* After a process restart a ready candidate is still ready: state, recovery record,
\* high water and payload together make recover verify it again and find it good
\* (publish_candidate, record_reverified, recover).  This is so while the state file
\* says Ready.  A candidate that was recovered from an interrupted publication is shown
\* as ready too, but record_reverified leaves the state file at Available, and one more
\* restart discards it.
ReadySurvivesRestart ==
  usnap.phase = "Ready" /\ RecordedReady =>
    Recovers(store) = "Reverify" /\ VerifyReady(store, usnap.version, usnap.op)

\* A publication that ends well leaves the state file at Ready, so that only a
\* recovered candidate lacks it, or one that comes back after the offer of a newer
\* version failed half-way (publish_candidate, CheckProjectionObserver).
PublishedIsRecorded ==
  [][cont.kind = "Committing" /\ cont'.kind = "Ready" => RecordedReady']_uvars

\* Every owned task exit has a reducer path: while the machine shows a download,
\* an effect runs whose next completion the machine will apply, unless the server
\* started the stream again below the bytes already shown, or the record of a chunk
\* could not be written: then a progress input is retired or never sent, and the
\* completion, which counts on, is retired as well (PartialCommitted, the match of
\* progress_sequence).
DownloadIsOwned ==
  cont.kind = "Downloading" /\ ~cont.behind => download # None /\ download.seq = cont.seq

\* A version that was ready once is never offered again as new, also after a
\* restart, and the accepted high water never falls (AcceptedMetadata::record,
\* classify_discovery, recover).
NeverOffersAccepted ==
  [][/\ store'.accepted >= store.accepted
     /\ usnap'.phase = "Available" /\ usnap.phase # "Available" => usnap'.version > store.accepted]_uvars
=============================================================================
