---------------------------- MODULE Maintenance ----------------------------
(***************************************************************************)
(* UpdaterMaintenanceAuthority                                             *)
(* (crates/updater/src/service/maintenance.rs): the journal of one update  *)
(* installation, written by the process that prepares it and reconciled by *)
(* the process that starts after it.                                       *)
(*                                                                         *)
(* The journal is a file replaced by rename; its directory entry is        *)
(* durable only once the directory was synced, so the disk has what is     *)
(* seen and what a power loss leaves.  Every write may fail before the     *)
(* rename or at the sync.  Every process is an authority of its own; one   *)
(* runs at a time, under the runtime lease, and a call holds its mutex.    *)
(* A caller of a process names only revisions that process returned, and   *)
(* may repeat any call.                                                    *)
(***************************************************************************)
EXTENDS Naturals, FiniteSets

CONSTANTS
  Ops,           \* operation ids, of each process
  Revisions,     \* the revisions an operation may be admitted with
  MaxProcesses,  \* bound: processes
  MaxPowerLoss   \* bound: power losses

VARIABLES
  disk,       \* the journal: seen now, and left by a power loss
  auth,       \* process -> MaintenanceRuntimeState
  processes,  \* processes started
  installed,  \* the application's version: 1 old, 2 expected, 3 unexpected
  known,      \* the (operation, revision) pairs returned to callers
  promised,   \* what was last written with success: operation, revision, phase
  unsafe,     \* a record was refused by validate_record
  powerLosses

mvars == <<disk, auth, processes, installed, known, promised, unsafe, powerLosses>>

NoOp == <<0, 0>>
Nothing == [op |-> NoOp, admitted |-> 0, revision |-> 0, machine |-> 0, recovery |-> 0,
            previous |-> 0, phase |-> "absent"]
Corrupt == [Nothing EXCEPT !.phase = "corrupt"]
Terminal == {"completed", "failed", "cancelled"}
Uncertain == {"installing", "relaunching", "recovering"}
NoPromise == [op |-> NoOp, revision |-> 0, phase |-> "absent"]
Closed == [alive |-> FALSE, observed |-> 0, phase |-> "idle", op |-> NoOp, revision |-> 0,
           reason |-> "none", cleared |-> FALSE, allowed |-> FALSE]

MaintenanceInit ==
  /\ \E journal \in {Nothing, Corrupt} : disk = [seen |-> journal, durable |-> journal]
  /\ auth = [p \in 1..MaxProcesses |-> Closed] /\ processes = 0
  /\ installed = 1 /\ known = {} /\ promised = NoPromise
  /\ unsafe = FALSE /\ powerLosses = 0

-----------------------------------------------------------------------------
(* MaintenanceMachine::reduce.                                              *)
Reduce(phase, input) ==
  CASE phase = "preparing" /\ input = "intent" -> "installing"
    [] phase = "preparing" /\ input \in {"cancel", "startup", "retired"} -> "cancelled"
    [] phase = "preparing" /\ input = "fail" -> "failed"
    [] phase = "installing" /\ input = "intent" -> "installing"
    [] phase \in {"installing", "relaunching"} /\ input = "relaunching" -> "relaunching"
    [] phase \in Uncertain /\ input \in {"startup", "retired"} -> "recovering"
    [] phase = "recovering" /\ input = "complete" -> "completed"
    [] phase = "recovering" /\ input = "fail" -> "failed"
    [] phase \in Terminal /\ input \in {"startup", "retired"} -> phase
    [] OTHER -> "rejected"

\* valid_phase_revision and valid_phase_ownership: which records may be written.
Offsets(phase) ==
  CASE phase = "preparing" -> {0} [] phase = "installing" -> {1} [] phase = "relaunching" -> {2}
    [] phase = "recovering" -> {2, 3} [] phase = "completed" -> {3, 4}
    [] phase = "failed" -> {1, 3, 4} [] phase = "cancelled" -> {1}
Adopted(r) == r.recovery # 0
Valid(r) ==
  /\ r.revision >= r.admitted /\ r.revision - r.admitted \in Offsets(r.phase)
  /\ Adopted(r) <=> \/ r.phase \in {"recovering", "completed"}
                    \/ r.phase = "failed" /\ r.revision - r.admitted # 1

\* owns_record.
Owner(r) == IF r.phase = "recovering" \/ Adopted(r) THEN r.recovery ELSE r.machine
Advance(r, phase) == [r EXCEPT !.phase = phase, !.revision = @ + 1]

-----------------------------------------------------------------------------
(* MaintenanceJournalStore: what a call may leave on the disk, and whether  *)
(* it says so.                                                              *)
Present == disk.seen.phase \notin {"absent", "corrupt"}
Result(d, ok) == [disk |-> d, ok |-> ok]
MutantSynced(d) == {Result(d, TRUE)}
Synced(d) == {Result([d EXCEPT !.durable = d.seen], TRUE), Result(d, FALSE)}
Written(d, r) ==
  {Result(d, FALSE)} \cup (IF Valid(r) THEN Synced([d EXCEPT !.seen = r]) ELSE {})
Cleared(d) == {Result(d, FALSE)} \cup Synced([d EXCEPT !.seen = Nothing])

Knows(p, r, reason, allowed) ==
  [auth EXCEPT ![p].phase = r.phase, ![p].op = r.op, ![p].revision = r.revision,
               ![p].reason = reason, ![p].cleared = FALSE, ![p].allowed = allowed]
Returns(op, revision) == known' = known \cup {[op |-> op, revision |-> revision]}
Promises(r) == promised' = [op |-> r.op, revision |-> r.revision, phase |-> r.phase]
Noted(r) == unsafe' = (unsafe \/ ~Valid(r))
Outside == UNCHANGED <<processes, installed, powerLosses>>

\* begin: a journal blocks it unless it is this very preparation.
Begin(p, op, admitted) ==
  LET r == [op |-> op, admitted |-> admitted, revision |-> admitted, machine |-> p, recovery |-> 0,
            previous |-> auth[p].observed, phase |-> "preparing"]
      again == disk.seen = r
  IN /\ auth[p].alive /\ auth[p].observed < 2
     /\ again \/ (disk.seen = Nothing /\ admitted > auth[p].revision)
     /\ \E result \in IF again THEN Synced(disk) ELSE Written(disk, r) :
          /\ disk' = result.disk
          /\ IF result.ok THEN auth' = Knows(p, r, "none", FALSE) /\ Returns(op, admitted) /\ Promises(r)
                          ELSE UNCHANGED <<auth, known, promised>>
     /\ Noted(r) /\ Outside

\* transition: mark_installing_intent and mark_relaunching; one that is already
\* written is synced again.
Transition(p, op, revision, input) ==
  LET r == disk.seen
      next == Reduce(r.phase, input)
      again == r.phase = (IF input = "intent" THEN "installing" ELSE "relaunching")
               /\ r.revision \in {revision, revision + 1}
      to == IF again THEN r ELSE Advance(r, next)
  IN /\ auth[p].alive /\ Present /\ r.op = op /\ Owner(r) = p
     /\ again \/ (r.revision = revision /\ next # "rejected")
     /\ \E result \in IF again THEN Synced(disk) ELSE Written(disk, to) :
          /\ disk' = result.disk
          /\ IF result.ok THEN auth' = Knows(p, to, "none", FALSE) /\ Returns(op, to.revision) /\ Promises(to)
                          ELSE UNCHANGED <<auth, known, promised>>
     /\ Noted(to) /\ Outside

-----------------------------------------------------------------------------
(* finish_preparation and finish_recovery: commit the terminal phase, then  *)
(* remove the journal; a repeated call finishes what is left of that.       *)

\* clear_terminal_owned: what finish_terminal_cleanup may leave.
Cleanup(p, known_as, d) ==
  IF known_as[p].cleared /\ known_as[p].allowed THEN {Result(d, TRUE)}
  ELSE IF d.seen = Nothing THEN Synced(d)
  ELSE IF /\ d.seen.op = known_as[p].op /\ d.seen.revision = known_as[p].revision
          /\ d.seen.phase = known_as[p].phase
          /\ p = IF Adopted(d.seen) THEN d.seen.recovery ELSE d.seen.machine
    THEN Cleared(d) ELSE {Result(d, FALSE)}

CleansUp(p, op, revision, known_as, d) ==
  \E result \in Cleanup(p, known_as, d) :
    /\ disk' = result.disk
    /\ auth' = IF result.ok THEN [known_as EXCEPT ![p].cleared = TRUE, ![p].allowed = TRUE]
                            ELSE known_as
    /\ IF result.ok THEN Returns(op, revision) ELSE UNCHANGED known

Reason(input) ==
  CASE input = "cancel" -> "cancelled" [] input = "fail-preparation" -> "preparation-failed"
    [] input = "fail" -> "failed" [] OTHER -> "none"
Ends(input) ==
  CASE input = "cancel" -> "cancelled" [] input = "complete" -> "completed" [] OTHER -> "failed"

Finish(p, op, revision, input) ==
  LET s == auth[p]
      r == disk.seen
      preparing == input \in {"cancel", "fail-preparation"}
      remembered == /\ s.phase = Ends(input) /\ s.op = op /\ s.reason = Reason(input)
                    /\ s.revision = revision + 1
      \* A terminal record whose sync failed: synced again, then removed.
      again == /\ Present /\ r.op = op /\ r.phase = Ends(input) /\ r.revision = revision + 1
               /\ IF preparing THEN r.machine = p /\ ~Adopted(r) ELSE r.recovery = p
      next == Reduce(r.phase, IF preparing /\ input # "cancel" THEN "fail" ELSE input)
      to == IF again THEN r ELSE Advance(r, next)
  IN /\ s.alive
     /\ \/ /\ remembered
           /\ CleansUp(p, op, revision + 1, auth, disk)
           /\ UNCHANGED <<promised, unsafe>>
        \/ /\ ~remembered
           /\ \/ again
              \/ /\ Present /\ r.op = op /\ Owner(r) = p /\ r.revision = revision
                 /\ next \notin {"rejected", r.phase}
           /\ \E result \in IF again THEN Synced(disk) ELSE Written(disk, to) :
                IF result.ok
                  THEN /\ CleansUp(p, op, to.revision, Knows(p, to, Reason(input), FALSE), result.disk)
                       /\ Promises(to)
                  ELSE disk' = result.disk /\ UNCHANGED <<auth, known, promised>>
           /\ Noted(to)
     /\ Outside

\* retire_runtime, at shutdown: a preparation is cancelled, an installation
\* becomes a recovery of this process; a foreign record is left alone.
RetireUncertain(p) ==
  LET r == disk.seen
      to == IF r.phase = "recovering" THEN r ELSE [Advance(r, "recovering") EXCEPT !.recovery = p]
  IN /\ auth[p].alive /\ Present /\ Owner(r) = p /\ r.phase \in Uncertain
     /\ \E result \in IF to = r THEN Synced(disk) ELSE Written(disk, to) :
          /\ disk' = result.disk
          /\ IF result.ok THEN auth' = Knows(p, to, "none", FALSE) /\ Promises(to)
                          ELSE UNCHANGED <<auth, promised>>
     /\ Noted(to) /\ Outside /\ UNCHANGED known
Retire(p) ==
  \/ RetireUncertain(p)
  \/ /\ disk.seen.phase = "preparing" /\ Owner(disk.seen) = p
     /\ Finish(p, disk.seen.op, disk.seen.revision, "cancel")

-----------------------------------------------------------------------------
(* open and reconcile_startup: one failure and the process does not start.  *)
Fresh == [Closed EXCEPT !.alive = TRUE, !.observed = installed, !.allowed = TRUE]
Started(p, s, d) == auth' = [auth EXCEPT ![p] = s] /\ disk' = d

\* A preparation is aborted: written as cancelled, then removed.
StartAborted(p, d) ==
  LET to == Advance(d.seen, Reduce(d.seen.phase, "startup"))
      s == [Fresh EXCEPT !.phase = to.phase, !.op = to.op, !.revision = to.revision,
                         !.reason = "pre-install-aborted"]
  IN /\ d.seen.phase = "preparing"
     /\ \E written \in Written(d, to) :
          IF ~written.ok THEN Started(p, Closed, written.disk) /\ UNCHANGED promised
          ELSE /\ Promises(to)
               /\ \E gone \in Cleared(written.disk) :
                    Started(p, IF gone.ok THEN s ELSE Closed, gone.disk)
     /\ Noted(to) /\ UNCHANGED known

\* An installation may have happened: this process takes it over, and Mish must
\* not activate by itself until it is recovered.
Recovered(r, p) ==
  [IF r.phase = "recovering" THEN r ELSE Advance(r, "recovering") EXCEPT !.recovery = p]
MayActivate == FALSE
StartRecovering(p, d) ==
  LET to == Recovered(d.seen, p)
      s == [Fresh EXCEPT !.phase = to.phase, !.op = to.op, !.revision = to.revision,
                         !.allowed = MayActivate]
  IN /\ d.seen.phase \in Uncertain
     /\ \E written \in Written(d, to) :
          /\ Started(p, IF written.ok THEN s ELSE Closed, written.disk)
          /\ IF written.ok THEN Promises(to) /\ Returns(to.op, to.revision)
                           ELSE UNCHANGED <<promised, known>>
     /\ Noted(to)

StartTerminal(p, d) ==
  LET r == d.seen
      s == [Fresh EXCEPT !.phase = r.phase, !.op = r.op, !.revision = r.revision, !.cleared = TRUE,
              !.reason = IF r.phase = "completed" THEN "none" ELSE r.phase]
  IN /\ r.phase \in Terminal
     /\ \E gone \in Cleared(d) : Started(p, IF gone.ok THEN s ELSE Closed, gone.disk)
     /\ Promises(r) /\ UNCHANGED <<unsafe, known>>

Open ==
  LET p == processes + 1
  IN /\ p <= MaxProcesses /\ processes' = p
     /\ \A q \in DOMAIN auth : ~auth[q].alive
     /\ \E opened \in Synced(disk) :
          IF ~opened.ok THEN Started(p, Closed, opened.disk) /\ UNCHANGED <<unsafe, known, promised>>
          ELSE LET d == opened.disk
               IN \/ d.seen = Nothing /\ Started(p, Fresh, d) /\ UNCHANGED <<unsafe, known, promised>>
                  \/ /\ d.seen = Corrupt /\ UNCHANGED <<unsafe, known, promised>>
                     /\ Started(p, [Fresh EXCEPT !.phase = "failed", !.reason = "corrupt", !.allowed = FALSE], d)
                  \/ StartAborted(p, d) \/ StartRecovering(p, d) \/ StartTerminal(p, d)
     /\ UNCHANGED <<installed, powerLosses>>

-----------------------------------------------------------------------------
\* The application is replaced while the journal says it may be; by hand, ever.
Install ==
  /\ installed' \in {2, 3} /\ installed' # installed
  /\ installed' = 2 => promised.phase \in {"installing", "relaunching"}
  /\ UNCHANGED <<disk, auth, processes, known, promised, unsafe, powerLosses>>

Crash(p) ==
  /\ auth[p].alive /\ auth' = [auth EXCEPT ![p] = Closed]
  /\ known' = {}
  /\ UNCHANGED <<disk, processes, installed, promised, unsafe, powerLosses>>
PowerLoss ==
  /\ powerLosses < MaxPowerLoss /\ powerLosses' = powerLosses + 1
  /\ auth' = [p \in DOMAIN auth |-> Closed]
  /\ disk' = [disk EXCEPT !.seen = disk.durable]
  /\ known' = {}
  /\ UNCHANGED <<processes, installed, promised, unsafe>>

MaintenanceNext ==
  \/ Open \/ Install \/ PowerLoss
  \/ \E p \in 1..MaxProcesses :
       \/ Retire(p) \/ Crash(p)
       \/ \E op \in Ops, admitted \in Revisions : Begin(p, <<p, op>>, admitted)
       \/ \E k \in known :
            \/ \E input \in {"intent", "relaunching"} : Transition(p, k.op, k.revision, input)
            \/ \E input \in {"cancel", "fail-preparation", "complete", "fail"} :
                 Finish(p, k.op, k.revision, input)

MaintenanceSpec == MaintenanceInit /\ [][MaintenanceNext]_mvars

-----------------------------------------------------------------------------
(* What a call said Ok to survives a power loss: the journal the next start *)
(* reads is at that revision of that operation or a later one, and once the *)
(* end of an operation was promised no start takes it for unfinished        *)
(* (write_record, reconfirm_record_durability, finish_terminal_cleanup).    *)
PromiseIsDurable ==
  LET d == disk.durable
  IN IF promised.phase \in Terminal
       THEN d.op = promised.op /\ d.revision <= promised.revision => d.phase \in Terminal
       ELSE promised.op # NoOp => d.op = promised.op /\ d.revision >= promised.revision

(* Mish activates by itself only when no installation may be half done:     *)
(* a running process that allows it has no uncertain journal in front of it,*)
(* and none that a power loss would bring back, and never a corrupt one.    *)
NoActivationWhileUncertain ==
  \A p \in DOMAIN auth : auth[p].alive /\ auth[p].allowed =>
    /\ disk.seen.phase \notin Uncertain \cup {"corrupt"}
    /\ disk.durable.phase \notin Uncertain \cup {"corrupt"}

(* An installation whose intent was promised is never taken for one that    *)
(* did not start, by a cancel racing it, a retirement or a restart.         *)
IntentIsNotCancelled ==
  [][promised.phase \in Uncertain /\ promised.op # NoOp =>
       ~(disk'.seen.op = promised.op /\ disk'.seen.phase \in {"cancelled", "preparing"}
         /\ disk'.seen.revision <= promised.revision + 1)]_mvars

(* Every record a legal sequence of calls, crashes and restarts asks for is *)
(* one validate_record accepts: no operation is stuck behind its own check. *)
NeverUnsafe == ~unsafe

(* What the authority promises its callers and the next start: the four     *)
(* above together.                                                          *)
MaintenanceIsSafe ==
  /\ [](PromiseIsDurable /\ NoActivationWhileUncertain /\ NeverUnsafe)
  /\ IntentIsNotCancelled

=============================================================================
