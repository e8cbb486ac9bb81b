------------------------- MODULE SystemProxyProofs -------------------------
(***************************************************************************)
(* The System Proxy transaction for any set of services, settings and      *)
(* bounds: types, the write-ahead record, what the published status says   *)
(* of it and, as long as Repair is not used, that the user's settings are  *)
(* never lost.                                                             *)
(***************************************************************************)
EXTENDS SystemProxy, TLAPS

\* The values field f of a service may take.
FieldValues(f) ==
  IF f = "manual" THEN Manual \cup {Mish}
  ELSE IF f = "auto" THEN BOOLEAN
  ELSE [base: Bypass, managed: BOOLEAN]

-----------------------------------------------------------------------------
(* Proxy states.                                                            *)

\* A field of well-typed settings has a value of that field.
LEMMA FieldType ==
  ASSUME NEW r \in Settings, NEW f \in Field
  PROVE  r[f] \in FieldValues(f)
BY DEF Settings, Field, FieldValues

\* Setting one field keeps settings well typed.
LEMMA SetFieldType ==
  ASSUME NEW r \in Settings, NEW f \in Field, NEW v \in FieldValues(f)
  PROVE  [r EXCEPT ![f] = v] \in Settings
<1>1. CASE f = "manual"
  BY <1>1 DEF Settings, Field, FieldValues
<1>2. CASE f = "auto"
  BY <1>2 DEF Settings, Field, FieldValues
<1>3. CASE f = "bypass"
  BY <1>3 DEF Settings, Field, FieldValues
<1> QED
  BY <1>1, <1>2, <1>3 DEF Field

\* Settings that agree on every field are equal.
LEMMA SameSettings ==
  ASSUME NEW r \in Settings, NEW q \in Settings, \A f \in Field : r[f] = q[f]
  PROVE  r = q
BY DEF Settings, Field

\* One command, or one edit: that field of that service and nothing else.
LEMMA WriteField ==
  ASSUME NEW h \in [Service -> Settings], NEW s \in Service, NEW f \in Field,
         NEW v \in FieldValues(f)
  PROVE  /\ [h EXCEPT ![s][f] = v] \in [Service -> Settings]
         /\ \A t \in Service, g \in Field :
              [h EXCEPT ![s][f] = v][t][g] = IF t = s /\ g = f THEN v
                                                              ELSE h[t][g]
<1>1. [h[s] EXCEPT ![f] = v] \in Settings
  BY SetFieldType
<1>2. [h EXCEPT ![s][f] = v] = [h EXCEPT ![s] = [h[s] EXCEPT ![f] = v]]
  OBVIOUS
<1>3. \A g \in Field : [h[s] EXCEPT ![f] = v][g] = IF g = f THEN v ELSE h[s][g]
  BY DEF Settings, Field
<1> QED
  BY <1>1, <1>2, <1>3

\* with_endpoint of a snapshot is a snapshot of the same service.
LEMMA WithEndpointType ==
  ASSUME NEW p \in Snapshot
  PROVE  WithEndpoint(p) \in Snapshot /\ WithEndpoint(p).service = p.service
BY DEF Settings, Snapshot, WithEndpoint

\* An observation is a snapshot.
LEMMA ObservationType ==
  ASSUME TypeOK, NEW s \in Service
  PROVE  ObserveService(s) \in Snapshot
BY DEF TypeOK, ObserveService, Snapshot

-----------------------------------------------------------------------------
(* The values operations leave behind are well typed.                       *)

\* Every status an operation publishes is well typed.
LEMMA StatusTypes ==
  /\ StatusOff \in Status
  /\ StatusApplied \in Status
  /\ \A d \in BOOLEAN : StatusFailed(d) \in Status
  /\ \A d \in BOOLEAN, k \in {"None", "InvalidRecovery", "Other"} :
       StatusDrift(d, k) \in Status
  /\ \A st \in Status, d \in BOOLEAN : StatusPending(st, d) \in Status
BY DEF Status, StatusOff, StatusApplied, StatusFailed, StatusDrift, StatusPending

\* So is every record and every preflight.
LEMMA JournalTypes ==
  /\ NoJournal \in Journal
  /\ InvalidJournal \in Journal
  /\ \A p \in Snapshot : Recorded(p) \in Journal
  /\ NoPreflight \in Preflight
BY DEF Journal, NoJournal, InvalidJournal, Recorded, NoPreflight, Preflight

\* No operation is an operation.
LEMMA IdleType == Idle \in Operation
BY StatusTypes, JournalTypes DEF Idle, Operation

\* The commands of apply_service name fields.
LEMMA OrderType == Order \in Seq(Field)
BY DEF Order, Field

\* The operation a Begin action starts from.
LEMMA BeginType ==
  ASSUME TypeOK,
         NEW kind \in {"start", "stop", "audit", "Repair", "LeaveAsIs"}
  PROVE  Begin(kind) \in Operation
BY ZenonT(60), IdleType DEF TypeOK, Begin, Operation

-----------------------------------------------------------------------------
(* The pieces operations share.                                             *)

\* What every step of an operation leaves behind.
StepTyped ==
  op' \in Operation /\ status' \in Status /\ booted' \in BOOLEAN

\* The outcome of a call is counted, or not.
LEMMA CallType ==
  ASSUME TypeOK, Works \/ Fails
  PROVE  faults' \in Nat
BY DEF TypeOK, Works, Fails

\* A returning operation.
LEMMA ReturnType ==
  ASSUME NEW p \in Status, Return(p)
  PROVE  StepTyped
BY IdleType DEF Return, StepTyped

\* restore up to its first await.
LEMMA RestoreType ==
  ASSUME TypeOK, NEW w \in Operation, NEW pending \in Status,
         NEW then \in {"done", "fail", "reobserve"}, Restore(w, pending, then)
  PROVE  StepTyped /\ faults' \in Nat
<1>1. CASE LoadWorks /\ op' = [w EXCEPT !.then = then, !.prior = journal.prior,
                                !.pc = IF journal.kind = "none" THEN "offObserve"
                                                                ELSE "ownedObserve"]
                     /\ status' = pending /\ UNCHANGED booted
  <2>1. journal.prior \in Snapshot \cup {NoSnapshot}
    BY DEF TypeOK, Journal
  <2>2. op' \in Operation
    BY ZenonT(60), <1>1, <2>1 DEF Operation
  <2> QED
    BY <1>1, <2>2, CallType DEF LoadWorks, StepTyped, TypeOK
<1>2. CASE \E kind \in {"InvalidRecovery", "Other"} :
             LoadFails(kind) /\ Return(StatusDrift(FALSE, kind))
  BY <1>2, CallType, ReturnType, StatusTypes DEF LoadFails
<1> QED
  BY <1>1, <1>2 DEF Restore

\* The caller of a finished restore goes on.
LEMMA AfterRestoreType ==
  ASSUME TypeOK, AfterRestore
  PROVE  StepTyped
<1>1. CASE op.then = "done" /\ Return(StatusOff)
  BY <1>1, ReturnType, StatusTypes
<1>2. CASE op.then = "fail" /\ Return(StatusFailed(TRUE))
  BY <1>2, ReturnType, StatusTypes
<1>3. CASE Goto("reobserve") /\ status' = StatusPending(StatusOff, TRUE)
           /\ UNCHANGED booted
  BY <1>3, StatusTypes DEF TypeOK, Goto, Operation, StepTyped
<1> QED
  BY <1>1, <1>2, <1>3 DEF AfterRestore

\* The takeover of a snapshot begins.
LEMMA BeginApplyType ==
  ASSUME TypeOK, NEW p \in Snapshot, BeginApply(p)
  PROVE  op' \in Operation
BY WithEndpointType, OrderType DEF TypeOK, BeginApply, Operation

\* The journal file after a save or a clear, whether or not it worked.
LEMMA JournalStepType ==
  ASSUME TypeOK, NEW p \in Snapshot,
         Saves(p) \/ SaveFails(p) \/ Clears \/ ClearFails
  PROVE  journal' \in Journal /\ faults' \in Nat
BY CallType, JournalTypes
DEF TypeOK, Saves, SaveFails, Clears, ClearFails

\* clear, whatever it reports.
LEMMA ClearStepType ==
  ASSUME TypeOK, Clears \/ ClearFails
  PROVE  journal' \in Journal /\ faults' \in Nat
BY CallType, JournalTypes DEF TypeOK, Clears, ClearFails

\* Policy, record and first command.
LEMMA TakeOverType ==
  ASSUME TypeOK, NEW p \in Snapshot, NEW refusal \in Status,
         TakeOver(p, refusal)
  PROVE  StepTyped /\ journal' \in Journal /\ faults' \in Nat
<1>1. CASE Works /\ Return(refusal) /\ UNCHANGED journal
  BY <1>1, CallType, ReturnType DEF TypeOK
<1>2. CASE Saves(p) /\ BeginApply(p) /\ UNCHANGED <<status, booted>>
  BY <1>2, JournalStepType, BeginApplyType DEF TypeOK, StepTyped
<1>3. CASE SaveFails(p) /\ Return(refusal)
  BY <1>3, JournalStepType, ReturnType
<1> QED
  BY <1>1, <1>2, <1>3 DEF TakeOver

\* The same without a record.
LEMMA TakeOverFreshType ==
  ASSUME TypeOK, NEW p \in Snapshot, TakeOverFresh(p)
  PROVE  StepTyped /\ journal' \in Journal /\ faults' \in Nat
<1>1. CASE Works /\ Return(StatusDrift(TRUE, "Other")) /\ UNCHANGED journal
  BY <1>1, CallType, ReturnType, StatusTypes DEF TypeOK
<1>2. CASE TakeOver(p, StatusFailed(TRUE))
  BY <1>2, TakeOverType, StatusTypes
<1> QED
  BY <1>1, <1>2 DEF TakeOverFresh

\* restore_exact_prior failed.
LEMMA UndoFailedType ==
  ASSUME TypeOK, UndoFailed
  PROVE  StepTyped
<1>1. ASSUME NEW d \in BOOLEAN, ReportDrift(d)
      PROVE  op' \in Operation
  BY <1>1, StatusTypes DEF TypeOK, ReportDrift, Operation
<1>2. CASE ReportDrift(FALSE) /\ UNCHANGED <<status, booted>>
  BY <1>1, <1>2 DEF TypeOK, StepTyped
<1>3. CASE ReportDrift(TRUE) /\ UNCHANGED <<status, booted>>
  BY <1>1, <1>3 DEF TypeOK, StepTyped
<1>4. CASE Return(StatusDrift(TRUE, "Other"))
  BY <1>4, ReturnType, StatusTypes
<1> QED
  BY <1>2, <1>3, <1>4 DEF UndoFailed

\* restore_exact_prior succeeded.
LEMMA UndoneType ==
  ASSUME TypeOK, TransactionInv, op.pc \in Undoing, Undone
  PROVE  StepTyped /\ journal' \in Journal /\ faults' \in Nat
<1>1. CASE op.undo = "restore"
  <2>1. CASE Clears /\ AfterRestore
    BY <2>1, ClearStepType, AfterRestoreType
  <2>2. CASE ClearFails /\ Return(StatusDrift(FALSE, "Other"))
    BY <2>2, ClearStepType, ReturnType, StatusTypes
  <2> QED
    BY <1>1, <2>1, <2>2 DEF Undone
<1>2. CASE op.undo = "rollback"
  <2>1. CASE Clears /\ Return(StatusFailed(TRUE))
    BY <2>1, ClearStepType, ReturnType, StatusTypes
  <2>2. CASE ClearFails /\ Return(StatusDrift(status.desired, "Other"))
    <3>1. StatusDrift(status.desired, "Other") \in Status
      BY StatusTypes DEF TypeOK, Status
    <3> QED
      BY <2>2, <3>1, ClearStepType, ReturnType
  <2> QED
    BY <1>2, <2>1, <2>2 DEF Undone
<1>3. CASE op.undo = "switch"
  <2>0. op.next \in Snapshot
    BY <1>3 DEF TransactionInv
  <2>1. CASE ClearFails /\ Return(StatusDrift(TRUE, "Other"))
    BY <2>1, ClearStepType, ReturnType, StatusTypes
  <2>2. CASE Clears /\ Return(StatusFailed(TRUE))
    BY <2>2, ClearStepType, ReturnType, StatusTypes
  <2>3. CASE /\ journal' = Recorded(op.next) /\ Works
             /\ BeginApply(op.next)
             /\ UNCHANGED <<status, booted>>
    BY <2>0, <2>3, CallType, JournalTypes, BeginApplyType DEF TypeOK, StepTyped
  <2>4. CASE /\ journal' \in {NoJournal, Recorded(op.next)} /\ Fails
             /\ Return(StatusFailed(TRUE))
    BY <2>0, <2>4, CallType, JournalTypes, ReturnType, StatusTypes
  <2> QED
    BY <1>3, <2>1, <2>2, <2>3, <2>4 DEF Undone
<1> QED
  BY <1>1, <1>2, <1>3 DEF Undone

\* The command under way touches one field of the baseline's service.
LEMMA CommandWrites ==
  ASSUME TypeOK, TransactionInv, op.pc \in Writing, op.todo # << >>
  PROVE  /\ op.prior \in Snapshot
         /\ op.target \in Snapshot /\ op.target.service = op.prior.service
         /\ Head(op.todo) \in Field /\ Tail(op.todo) \in Seq(Field)
         /\ Command \in [Service -> Settings]
         /\ \A t \in Service, g \in Field :
              Command[t][g] = IF t = op.prior.service /\ g = Head(op.todo)
                                THEN op.target.settings[g] ELSE host[t][g]
<1>1. op.prior \in Snapshot
  BY DEF TypeOK, TransactionInv, Writing, Journal
<1>2. op.target \in Snapshot /\ op.target.service = op.prior.service
  BY <1>1, WithEndpointType DEF TransactionInv, Writing
<1>3. Head(op.todo) \in Field /\ Tail(op.todo) \in Seq(Field)
  BY DEF TypeOK, Operation
<1>4. op.target.settings[Head(op.todo)] \in FieldValues(Head(op.todo))
  BY <1>2, <1>3, FieldType DEF Snapshot
<1>5. op.target.service \in Service
  BY <1>2 DEF Snapshot
<1> QED
  BY <1>1, <1>2, <1>3, <1>4, <1>5, WriteField DEF TypeOK, Command

-----------------------------------------------------------------------------
(* Types.                                                                   *)

\* The settings a cut-off operation leaves behind.
LEMMA InterruptedType ==
  ASSUME TypeOK, TransactionInv, Interrupted
  PROVE  host' \in [Service -> Settings]
BY CommandWrites DEF TypeOK, Interrupted, Writing

\* new and the settings it finds are well typed.
LEMMA InitType == Init => TypeOK
<1> SUFFICES ASSUME Init PROVE TypeOK
  OBVIOUS
<1>1. host \in [Service -> Settings]
  BY DEF Init, Settings
<1> QED
  BY <1>1, JournalTypes, StatusTypes, IdleType DEF Init, TypeOK

\* Every step keeps the types.
LEMMA TypeStep ==
  ASSUME TypeOK, TransactionInv, [Next]_vars
  PROVE  TypeOK'
<1> USE SystemProxyAssumption
<1>0. status \in Status /\ status.desired \in BOOLEAN /\ op \in Operation
      /\ op.current \in Status /\ op.current.desired \in BOOLEAN
      /\ op.current.failure \in {"None", "InvalidRecovery", "Other"}
      /\ preflight \in Preflight /\ active \in Service
  BY DEF TypeOK, Status, Operation
<1>a. ObserveActive \in Snapshot
  BY <1>0, ObservationType DEF ObserveActive
<1>1. CASE PreflightLoad
  <2>1. preflight' \in Preflight
    BY <1>1 DEF PreflightLoad, TypeOK, Preflight, NoPreflight
  <2> QED
    BY <1>1, <2>1 DEF PreflightLoad, TypeOK, platformVars, ghostVars, counters
<1>2. CASE PreflightObserve
  <2>1. preflight' \in Preflight
    BY <1>2, <1>a, JournalTypes DEF PreflightObserve, TypeOK, Preflight
  <2> QED
    BY <1>2, <2>1 DEF PreflightObserve, TypeOK, platformVars, ghostVars, counters
<1>3. ASSUME NEW core_healthy \in BOOLEAN, NEW token \in {NoPreflight, preflight},
             Start(core_healthy, token)
      PROVE  TypeOK'
  <2> DEFINE working == [Begin("start") EXCEPT !.token = token]
             pending == StatusPending(status, TRUE)
  <2>1. working \in Operation /\ pending \in Status
    BY ZenonT(60), <1>0, BeginType, JournalTypes, StatusTypes DEF Operation
  <2>2. StepTyped /\ faults' \in Nat
    <3>1. CASE \E kind \in {"InvalidRecovery", "Other"} :
                 LoadFails(kind) /\ Return(StatusDrift(TRUE, kind))
      BY <3>1, CallType, ReturnType, StatusTypes DEF LoadFails
    <3>2. CASE LoadWorks /\ op' = [working EXCEPT !.pc = "listener"]
               /\ status' = pending /\ UNCHANGED booted
      <4>1. op' \in Operation
        BY <2>1, <3>2 DEF Operation
      <4> HIDE DEF working, pending
      <4> QED
        BY <2>1, <3>2, <4>1, CallType DEF LoadWorks, StepTyped, TypeOK
    <3>3. CASE Restore(working, pending, "fail")
      <4> HIDE DEF working, pending
      <4> QED
        BY <2>1, <3>3, RestoreType
    <3>4. CASE Works /\ Return(StatusFailed(TRUE))
      BY <3>4, CallType, ReturnType, StatusTypes
    <3> QED
      BY <1>3, <3>1, <3>2, <3>3, <3>4 DEF Start
  <2>3. preflight' \in Preflight
    BY <1>3, <1>0, JournalTypes DEF Start
  <2> QED
    BY <1>3, <2>2, <2>3
    DEF Start, StepTyped, TypeOK, platformVars, ghostVars
<1>4. CASE Stop
  <2>1. StepTyped /\ faults' \in Nat
    BY <1>4, <1>0, BeginType, StatusTypes, RestoreType DEF Stop
  <2> QED
    BY <1>4, <2>1 DEF Stop, StepTyped, TypeOK, platformVars, ghostVars
<1>5. ASSUME NEW core_healthy \in BOOLEAN, Audit(core_healthy)
      PROVE  TypeOK'
  <2>1. StepTyped /\ faults' \in Nat
    <3>1. CASE \E kind \in {"InvalidRecovery", "Other"} :
                 LoadFails(kind) /\ Return(StatusDrift(status.desired, kind))
      BY <1>0, <3>1, CallType, ReturnType, StatusTypes DEF LoadFails
    <3>2. CASE /\ LoadWorks
               /\ \/ op' = [Begin("audit") EXCEPT !.pc = "observe"]
                  \/ op' = [Begin("audit") EXCEPT !.pc = "listener"]
               /\ UNCHANGED <<status, booted>>
      <4>1. Begin("audit") \in Operation
        BY BeginType
      <4>2. op' \in Operation
        BY <3>2, <4>1 DEF Operation
      <4> QED
        BY <3>2, <4>2, CallType DEF LoadWorks, StepTyped, TypeOK
    <3>3. CASE Restore(Begin("audit"), status, "done")
      BY <1>0, <3>3, BeginType, RestoreType
    <3> QED
      BY <1>5, <3>1, <3>2, <3>3 DEF Audit
  <2> QED
    BY <1>5, <2>1 DEF Audit, StepTyped, TypeOK, platformVars, ghostVars
<1>6. ASSUME NEW core_healthy \in BOOLEAN, NEW action \in {"Repair", "LeaveAsIs"},
             Recover(action, core_healthy)
      PROVE  TypeOK'
  <2>1. StepTyped
    <3>1. CASE Return(StatusDrift(status.desired, "Other"))
      BY <1>0, <3>1, ReturnType, StatusTypes
    <3>2. CASE /\ \/ op' = [Begin(action) EXCEPT !.pc = "listener"]
                  \/ op' = [Begin(action) EXCEPT !.pc = "observe"]
               /\ status' \in {status, StatusPending(status, FALSE)}
               /\ UNCHANGED booted
      <4>1. Begin(action) \in Operation
        BY BeginType
      <4>2. op' \in Operation
        BY <3>2, <4>1 DEF Operation
      <4> QED
        BY <1>0, <3>2, <4>2, StatusTypes DEF StepTyped, TypeOK
    <3> QED
      BY <1>6, <3>1, <3>2 DEF Recover
  <2> QED
    BY <1>6, <2>1 DEF Recover, StepTyped, TypeOK, platformVars, ghostVars, counters
<1>7. CASE Listener
  <2>1. StepTyped /\ faults' \in Nat
    <3>1. CASE Works /\ Goto("observe") /\ UNCHANGED booted
               /\ status' \in {status, StatusPending(status, TRUE)}
      <4>1. op' \in Operation
        BY <1>0, <3>1 DEF Goto, Operation
      <4> QED
        BY <1>0, <3>1, <4>1, CallType, StatusTypes DEF StepTyped, TypeOK
    <3>2. CASE Works /\ Return(StatusDrift(op.current.desired, "Other"))
      BY <1>0, <3>2, CallType, ReturnType, StatusTypes
    <3>3. CASE Works /\ Return(StatusFailed(TRUE))
      BY <3>3, CallType, ReturnType, StatusTypes
    <3>4. CASE Restore(op, status, "fail")
      BY <1>0, <3>4, RestoreType
    <3> QED
      BY <1>7, <3>1, <3>2, <3>3, <3>4 DEF Listener
  <2> QED
    BY <1>7, <2>1 DEF Listener, StepTyped, TypeOK, platformVars, ghostVars
<1>8. CASE ObserveForStart
  <2>1. StepTyped /\ journal' \in Journal /\ faults' \in Nat
    <3>1. CASE Fails /\ UNCHANGED journal
               /\ Return(IF journal.kind = "record" THEN StatusDrift(TRUE, "Other")
                                                    ELSE StatusFailed(TRUE))
      BY <3>1, CallType, ReturnType, StatusTypes DEF TypeOK
    <3>2. CASE Works /\ UNCHANGED journal
               /\ \/ Return(StatusDrift(TRUE, "Other"))
                  \/ Return(StatusApplied)
      BY <3>2, CallType, ReturnType, StatusTypes DEF TypeOK
    <3>3. CASE Restore(op, status, "reobserve") /\ UNCHANGED journal
      BY <1>0, <3>3, RestoreType DEF TypeOK
    <3>4. CASE TakeOverFresh(ObserveActive)
      BY <1>a, <3>4, TakeOverFreshType
    <3> QED
      BY <1>8, <3>1, <3>2, <3>3, <3>4 DEF ObserveForStart
  <2> QED
    BY <1>8, <2>1 DEF ObserveForStart, StepTyped, TypeOK, platformVars, ghostVars
<1>9. CASE Reobserve
  <2>1. StepTyped /\ journal' \in Journal /\ faults' \in Nat
    <3>1. CASE Fails /\ Return(StatusFailed(TRUE)) /\ UNCHANGED journal
      BY <3>1, CallType, ReturnType, StatusTypes DEF TypeOK
    <3>2. CASE TakeOverFresh(ObserveActive)
      BY <1>a, <3>2, TakeOverFreshType
    <3> QED
      BY <1>9, <3>1, <3>2 DEF Reobserve
  <2> QED
    BY <1>9, <2>1 DEF Reobserve, StepTyped, TypeOK, platformVars, ghostVars
<1>10. CASE ObserveForAudit
  <2>1. StepTyped /\ faults' \in Nat
    <3>1. CASE (Works \/ Fails) /\ \E p \in Status : Return(p)
      BY <3>1, CallType, ReturnType
    <3>2. CASE /\ Works
               /\ op' = [op EXCEPT !.pc = "exactObserve", !.undo = "switch",
                                   !.prior = journal.prior, !.next = ObserveActive]
               /\ UNCHANGED <<status, booted>>
      <4>1. journal.prior \in Snapshot \cup {NoSnapshot}
        BY DEF TypeOK, Journal
      <4>2. op' \in Operation
        BY <1>0, <1>a, <3>2, <4>1 DEF Operation
      <4> QED
        BY <3>2, <4>2, CallType DEF StepTyped, TypeOK
    <3> QED
      BY <1>0, <1>10, <3>1, <3>2, StatusTypes DEF ObserveForAudit
  <2> QED
    BY <1>10, <2>1 DEF ObserveForAudit, StepTyped, TypeOK, platformVars, ghostVars
<1>11. CASE ObserveForRecovery
  <2> DEFINE kept  == op.current.failure
             drift == StatusDrift(op.current.desired,
                        IF kept = "InvalidRecovery" THEN kept ELSE "Other")
  <2>1. drift \in Status
    BY <1>0, StatusTypes
  <2>2. /\ StepTyped /\ journal' \in Journal /\ faults' \in Nat
        /\ owed' \in {owed, host} /\ contested' \in {contested, {}}
    <3> HIDE DEF drift
    <3>1. CASE Fails /\ Return(drift) /\ UNCHANGED <<journal, ghostVars>>
      BY <2>1, <3>1, CallType, ReturnType DEF TypeOK, ghostVars
    <3>2. CASE TakeOver(ObserveActive, drift) /\ UNCHANGED ghostVars
      BY <1>a, <2>1, <3>2, TakeOverType DEF ghostVars
    <3>3. CASE /\ \/ Clears /\ Return(StatusOff)
                  \/ ClearFails /\ Return(drift)
               /\ IF journal' = NoJournal THEN owed' = host /\ contested' = {}
                                          ELSE UNCHANGED ghostVars
      BY <2>1, <3>3, ClearStepType, ReturnType, StatusTypes DEF ghostVars
    <3> QED
      BY <1>11, <3>1, <3>2, <3>3 DEF ObserveForRecovery, drift
  <2> QED
    BY <1>11, <2>2 DEF ObserveForRecovery, StepTyped, TypeOK, platformVars
<1>12. CASE Apply
  <2>1. op.pc \in Writing /\ op.todo # << >>
    BY <1>12 DEF Apply, Writing
  <2>2. op' \in Operation
    <3>1. CASE op' = [op EXCEPT !.todo = Tail(@)]
      BY <1>0, <2>1, <3>1, CommandWrites DEF Operation
    <3>2. CASE RollBack
      BY <1>0, <3>2 DEF RollBack, Operation
    <3> QED
      BY <1>12, <3>1, <3>2 DEF Apply
  <2>3. host' \in [Service -> Settings]
    BY <1>12, <2>1, CommandWrites DEF Apply, TypeOK
  <2>4. faults' \in Nat
    BY <1>12, CallType DEF Apply
  <2> QED
    BY <1>12, <2>2, <2>3, <2>4 DEF Apply, TypeOK, ghostVars
<1>13. CASE Confirm
  <2>1. StepTyped
    <3>1. CASE Return(StatusApplied)
      BY <3>1, ReturnType, StatusTypes
    <3>2. CASE RollBack /\ UNCHANGED <<status, booted>>
      BY <1>0, <3>2 DEF RollBack, Operation, StepTyped, TypeOK
    <3> QED
      BY <1>13, <3>1, <3>2 DEF Confirm
  <2>2. faults' \in Nat
    BY <1>13, CallType DEF Confirm
  <2> QED
    BY <1>13, <2>1, <2>2 DEF Confirm, StepTyped, TypeOK, platformVars, ghostVars
<1>14. CASE ObserveOff
  <2>1. StepTyped /\ faults' \in Nat
    BY <1>14, CallType, AfterRestoreType, ReturnType, StatusTypes DEF ObserveOff
  <2> QED
    BY <1>14, <2>1 DEF ObserveOff, StepTyped, TypeOK, platformVars, ghostVars
<1>15. CASE ObserveOwned
  <2>1. StepTyped
    <3>1. CASE Return(StatusDrift(FALSE, "Other"))
      BY <3>1, ReturnType, StatusTypes
    <3>2. CASE /\ \/ op' = [op EXCEPT !.pc = "exactObserve", !.undo = "restore"]
                  \/ ReportDrift(FALSE)
               /\ UNCHANGED <<status, booted>>
      <4>1. CASE op' = [op EXCEPT !.pc = "exactObserve", !.undo = "restore"]
        BY <1>0, <3>2, <4>1 DEF Operation, StepTyped, TypeOK
      <4>2. CASE ReportDrift(FALSE)
        <5>1. StatusDrift(FALSE, "Other") \in Status
          BY StatusTypes
        <5>2. op' \in Operation
          BY <1>0, <4>2, <5>1 DEF ReportDrift, Operation
        <5> QED
          BY <3>2, <5>2 DEF StepTyped, TypeOK
      <4> QED
        BY <3>2, <4>1, <4>2
    <3> QED
      BY <1>15, <3>1, <3>2 DEF ObserveOwned
  <2>2. faults' \in Nat
    BY <1>15, CallType DEF ObserveOwned
  <2> QED
    BY <1>15, <2>1, <2>2 DEF ObserveOwned, StepTyped, TypeOK, platformVars, ghostVars
<1>16. CASE Report
  <2>1. StepTyped
    BY <1>0, <1>16, ReturnType DEF Report, Operation
  <2> QED
    BY <1>16, <2>1 DEF Report, StepTyped, TypeOK, platformVars, ghostVars, counters
<1>17. CASE ObserveExact
  <2>1. op.prior \in Snapshot
    BY <1>17 DEF ObserveExact, TransactionInv, Undoing, TypeOK, Journal
  <2>2. StepTyped
    <3>1. CASE /\ op' = [op EXCEPT !.pc = "exactApply", !.target = op.prior,
                                   !.todo = Order]
               /\ UNCHANGED <<status, booted>>
      BY <1>0, <2>1, <3>1, OrderType DEF Operation, StepTyped, TypeOK
    <3> QED
      BY <1>17, <3>1, UndoFailedType DEF ObserveExact
  <2>3. faults' \in Nat
    BY <1>17, CallType DEF ObserveExact
  <2> QED
    BY <1>17, <2>2, <2>3 DEF ObserveExact, StepTyped, TypeOK, platformVars, ghostVars
<1>18. CASE ApplyExact
  <2>1. op.pc \in Writing /\ op.todo # << >>
    BY <1>18 DEF ApplyExact, Writing
  <2>2. StepTyped
    <3>1. CASE op' = [op EXCEPT !.todo = Tail(@)] /\ UNCHANGED <<status, booted>>
      BY <1>0, <2>1, <3>1, CommandWrites DEF Operation, StepTyped, TypeOK
    <3> QED
      BY <1>18, <3>1, UndoFailedType DEF ApplyExact
  <2>3. host' \in [Service -> Settings]
    BY <1>18, <2>1, CommandWrites DEF ApplyExact, TypeOK
  <2>4. faults' \in Nat
    BY <1>18, CallType DEF ApplyExact
  <2> QED
    BY <1>18, <2>2, <2>3, <2>4 DEF ApplyExact, StepTyped, TypeOK, ghostVars
<1>19. CASE ConfirmExact
  <2>1. StepTyped /\ journal' \in Journal /\ faults' \in Nat
    <3>1. CASE Undone
      BY <1>19, <3>1, UndoneType DEF ConfirmExact, Undoing
    <3>2. CASE (Works \/ Fails) /\ UndoFailed /\ UNCHANGED journal
      BY <3>2, CallType, UndoFailedType DEF TypeOK
    <3> QED
      BY <1>19, <3>1, <3>2 DEF ConfirmExact
  <2> QED
    BY <1>19, <2>1 DEF ConfirmExact, StepTyped, TypeOK, platformVars, ghostVars
<1>20. ASSUME NEW s \in Service, NEW f \in Field, NEW value \in UserValues(f),
              Edit(s, f, value)
       PROVE  TypeOK'
  <2>1. value \in FieldValues(f)
    BY DEF UserValues, FieldValues
  <2>2. host' \in [Service -> Settings] /\ owed' \in [Service -> Settings]
    BY <1>20, <2>1, WriteField DEF Edit, TypeOK
  <2>3. contested' \subseteq Service /\ events' \in Nat
    BY <1>20 DEF Edit, Event, TypeOK
  <2> QED
    BY <1>20, <2>2, <2>3 DEF Edit, TypeOK
<1>21. ASSUME NEW s \in Service, SwitchService(s)
       PROVE  TypeOK'
  BY <1>21 DEF SwitchService, Event, TypeOK, ghostVars
<1>22. CASE Cancel
  <2>1. host' \in [Service -> Settings] /\ faults' \in Nat
    BY <1>22, InterruptedType, CallType DEF Cancel
  <2> QED
    BY <1>22, <2>1, IdleType DEF Cancel, TypeOK, ghostVars
<1>23. CASE Crash
  <2>1. host' \in [Service -> Settings] /\ crashes' \in Nat
    BY <1>23, InterruptedType DEF Crash, TypeOK
  <2>2. journal' \in Journal
    BY <1>23, JournalTypes DEF Crash, TypeOK
  <2> QED
    BY <1>23, <2>1, <2>2, IdleType, StatusTypes, JournalTypes
    DEF Crash, TypeOK, ghostVars
<1>24. CASE UNCHANGED vars
  BY <1>24 DEF vars, TypeOK, platformVars, ghostVars, counters
<1> QED
  BY <1>1, <1>2, <1>3, <1>4, <1>5, <1>6, <1>7, <1>8, <1>9, <1>10, <1>11, <1>12,
     <1>13, <1>14, <1>15, <1>16, <1>17, <1>18, <1>19, <1>20, <1>21, <1>22, <1>23,
     <1>24
  DEF Next, Begins, Advance, Environment

-----------------------------------------------------------------------------
(* The transaction: commands run on the recorded baseline.                  *)

\* At the start no transaction is open.
LEMMA InitTransaction == Init => TransactionInv
BY DEF Init, TransactionInv, Idle, Writing, Undoing, NoJournal

\* An operation that ended leaves no transaction open.
LEMMA IdleTransaction ==
  ASSUME op' = Idle
  PROVE  TransactionInv'
BY DEF TransactionInv, Idle, Writing, Undoing

\* restore works on the record it loaded.
LEMMA RestoreTransaction ==
  ASSUME TypeOK, NEW w \in Operation, w.kind # "none", NEW pending, NEW then,
         Restore(w, pending, then), UNCHANGED journal
  PROVE  TransactionInv'
<1>1. CASE LoadWorks /\ op' = [w EXCEPT !.then = then, !.prior = journal.prior,
                                !.pc = IF journal.kind = "none" THEN "offObserve"
                                                                ELSE "ownedObserve"]
  BY <1>1 DEF TypeOK, Journal, Operation, LoadWorks, TransactionInv, Writing, Undoing
<1>2. CASE \E kind \in {"InvalidRecovery", "Other"} : Return(StatusDrift(FALSE, kind))
  BY <1>2, IdleTransaction DEF Return
<1> QED
  BY <1>1, <1>2 DEF Restore

\* A takeover works on the baseline it has just recorded.
LEMMA BeginApplyTransaction ==
  ASSUME TypeOK, TransactionInv, op.kind # "none", NEW p,
         BeginApply(p), journal' = Recorded(p)
  PROVE  TransactionInv'
BY DEF TypeOK, Operation, BeginApply, Recorded, TransactionInv, Writing, Undoing

\* A takeover is refused or begins on its record.
LEMMA TakeOverTransaction ==
  ASSUME TypeOK, TransactionInv, op.kind # "none", NEW p, NEW refusal,
         TakeOver(p, refusal)
  PROVE  TransactionInv'
<1>1. CASE Return(refusal)
  BY <1>1, IdleTransaction DEF Return
<1>2. CASE Saves(p) /\ BeginApply(p)
  BY <1>2, BeginApplyTransaction DEF Saves
<1> QED
  BY <1>1, <1>2 DEF TakeOver

\* The same for reconcile without a record.
LEMMA TakeOverFreshTransaction ==
  ASSUME TypeOK, TransactionInv, op.kind # "none", NEW p, TakeOverFresh(p)
  PROVE  TransactionInv'
BY IdleTransaction, TakeOverTransaction DEF TakeOverFresh, Return

\* After a restore nothing is recorded.
LEMMA AfterRestoreTransaction ==
  ASSUME TypeOK, op.kind # "none", AfterRestore, journal'.kind = "none"
  PROVE  TransactionInv'
<1>1. CASE op' = Idle
  BY <1>1, IdleTransaction
<1>2. CASE Goto("reobserve")
  BY <1>2 DEF TypeOK, Operation, Goto, TransactionInv, Writing, Undoing
<1> QED
  BY <1>1, <1>2 DEF AfterRestore, Return

\* An operation that only reports runs no command.
LEMMA ReportTransaction ==
  ASSUME TypeOK, op.kind # "none", NEW d, ReportDrift(d)
  PROVE  TransactionInv'
BY DEF TypeOK, Operation, ReportDrift, TransactionInv, Writing, Undoing

\* A failed undoing runs no further command.
LEMMA UndoFailedTransaction ==
  ASSUME TypeOK, op.kind # "none", UndoFailed
  PROVE  TransactionInv'
BY IdleTransaction, ReportTransaction DEF UndoFailed, Return

\* A finished undoing clears its record or opens the next one.
LEMMA UndoneTransaction ==
  ASSUME TypeOK, TransactionInv, op.kind # "none", Undone
  PROVE  TransactionInv'
<1>1. CASE Clears /\ AfterRestore
  BY <1>1, AfterRestoreTransaction DEF Clears, NoJournal
<1>2. CASE op' = Idle
  BY <1>2, IdleTransaction
<1>3. CASE journal' = Recorded(op.next) /\ BeginApply(op.next)
  BY <1>3, BeginApplyTransaction
<1> QED
  BY <1>1, <1>2, <1>3 DEF Undone, Return

\* From exactObserve on, the undoing works on the operation's baseline.
LEMMA UndoTransaction ==
  ASSUME TypeOK, TransactionInv, op.pc \in {"ownedObserve", "apply"},
         NEW undo \in {"restore", "rollback"},
         op' = [op EXCEPT !.pc = "exactObserve", !.undo = undo],
         UNCHANGED journal
  PROVE  TransactionInv'
BY DEF TypeOK, Operation, TransactionInv, Writing, Undoing

\* Every step keeps the transaction on its record.
LEMMA TransactionStep ==
  ASSUME TypeOK, TransactionInv, [Next]_vars
  PROVE  TransactionInv'
<1>0. op \in Operation /\ (op.pc # "idle" => op.kind # "none")
  BY DEF TypeOK, TransactionInv
<1>1. CASE /\ UNCHANGED <<op, journal>>
  BY <1>1 DEF TransactionInv, Writing, Undoing
<1>2. ASSUME NEW kind \in {"start", "stop", "audit", "Repair", "LeaveAsIs"}
      PROVE  /\ Begin(kind) \in Operation /\ Begin(kind).kind = kind
             /\ \A token \in Preflight :
                  LET w == [Begin(kind) EXCEPT !.token = token]
                  IN w \in Operation /\ w.kind = kind
             /\ \A where \in {"listener", "observe"} :
                  op' = [Begin(kind) EXCEPT !.pc = where] => TransactionInv'
  <2>1. Begin(kind) \in Operation
    BY BeginType
  <2>2. Begin(kind).kind = kind
    BY DEF Begin, Idle
  <2> QED
    BY <2>1, <2>2 DEF Operation, TransactionInv, Writing, Undoing
<1>3. ASSUME NEW core_healthy \in BOOLEAN, NEW token \in {NoPreflight, preflight},
             Start(core_healthy, token)
      PROVE  TransactionInv'
  <2> DEFINE working == [Begin("start") EXCEPT !.token = token]
             pending == StatusPending(status, TRUE)
  <2>1. working \in Operation /\ working.kind = "start"
    BY <1>2, JournalTypes DEF TypeOK
  <2>2. UNCHANGED journal
    BY <1>3 DEF Start
  <2>3. CASE op' = Idle
    BY <2>3, IdleTransaction
  <2>4. CASE op' = [working EXCEPT !.pc = "listener"]
    <3> HIDE DEF working
    <3> QED
      BY <2>1, <2>4 DEF Operation, TransactionInv, Writing, Undoing
  <2>5. CASE Restore(working, pending, "fail")
    <3> HIDE DEF working, pending
    <3> QED
      BY <2>1, <2>2, <2>5, RestoreTransaction
  <2> QED
    BY <1>3, <2>3, <2>4, <2>5 DEF Start, Return
<1>4. CASE Stop
  BY <1>2, <1>4, RestoreTransaction DEF Stop
<1>5. ASSUME NEW core_healthy \in BOOLEAN, Audit(core_healthy)
      PROVE  TransactionInv'
  <2>1. CASE op' = Idle
    BY <2>1, IdleTransaction
  <2>2. CASE Restore(Begin("audit"), status, "done")
    BY <1>2, <1>5, <2>2, RestoreTransaction DEF Audit
  <2> QED
    BY <1>2, <1>5, <2>1, <2>2 DEF Audit, Return
<1>6. ASSUME NEW core_healthy \in BOOLEAN, NEW action \in {"Repair", "LeaveAsIs"},
             Recover(action, core_healthy)
      PROVE  TransactionInv'
  BY <1>2, <1>6, IdleTransaction DEF Recover, Return
<1>7. CASE Listener
  <2>1. op.kind # "none"
    BY <1>0, <1>7 DEF Listener
  <2>2. CASE op' = Idle
    BY <2>2, IdleTransaction
  <2>3. CASE Goto("observe")
    BY <1>0, <2>1, <2>3 DEF Goto, Operation, TransactionInv, Writing, Undoing
  <2>4. CASE Restore(op, status, "fail")
    BY <1>0, <1>7, <2>1, <2>4, RestoreTransaction DEF Listener
  <2> QED
    BY <1>7, <2>2, <2>3, <2>4 DEF Listener, Return
<1>8. CASE ObserveForStart
  <2>1. op.kind # "none"
    BY <1>8 DEF ObserveForStart
  <2>2. CASE op' = Idle
    BY <2>2, IdleTransaction
  <2>3. CASE Restore(op, status, "reobserve") /\ UNCHANGED journal
    BY <1>0, <2>1, <2>3, RestoreTransaction
  <2>4. CASE TakeOverFresh(ObserveActive)
    BY <2>1, <2>4, TakeOverFreshTransaction
  <2> QED
    BY <1>8, <2>2, <2>3, <2>4 DEF ObserveForStart, Return
<1>9. CASE Reobserve
  BY <1>0, <1>9, IdleTransaction, TakeOverFreshTransaction DEF Reobserve, Return
<1>10. CASE ObserveForAudit
  <2>1. CASE op' = Idle
    BY <2>1, IdleTransaction
  <2>2. CASE /\ journal.kind = "record" /\ journal.prior.service # active
             /\ op' = [op EXCEPT !.pc = "exactObserve", !.undo = "switch",
                                 !.prior = journal.prior, !.next = ObserveActive]
             /\ UNCHANGED journal
    <3>1. ObserveActive \in Snapshot /\ ObserveActive.service = active
      BY ObservationType DEF TypeOK, ObserveActive, ObserveService
    <3>2. op.kind = "audit"
      BY <1>10 DEF ObserveForAudit
    <3> QED
      BY <1>0, <2>2, <3>1, <3>2 DEF Operation, TransactionInv, Writing, Undoing
  <2> QED
    BY <1>10, <2>1, <2>2 DEF ObserveForAudit, Return
<1>11. CASE ObserveForRecovery
  BY <1>0, <1>11, IdleTransaction, TakeOverTransaction DEF ObserveForRecovery, Return
<1>12. CASE Apply
  <2>1. CASE op' = [op EXCEPT !.todo = Tail(@)]
    BY <1>0, <1>12, <2>1 DEF Apply, Operation, TransactionInv, Writing, Undoing
  <2>2. CASE RollBack
    BY <1>12, <2>2, UndoTransaction DEF Apply, RollBack
  <2> QED
    BY <1>12, <2>1, <2>2 DEF Apply
<1>13. CASE Confirm
  BY <1>13, IdleTransaction, UndoTransaction DEF Confirm, RollBack, Return
<1>14. CASE ObserveOff
  <2>1. op.kind # "none" /\ journal'.kind = "none"
    BY <1>0, <1>14 DEF ObserveOff, TransactionInv
  <2> QED
    BY <1>14, <2>1, AfterRestoreTransaction, IdleTransaction DEF ObserveOff, Return
<1>15. CASE ObserveOwned
  BY <1>0, <1>15, IdleTransaction, UndoTransaction, ReportTransaction
  DEF ObserveOwned, Return
<1>16. CASE Report
  BY <1>16, IdleTransaction DEF Report, Return
<1>17. CASE ObserveExact
  <2>1. CASE op' = [op EXCEPT !.pc = "exactApply", !.target = op.prior, !.todo = Order]
    BY <1>0, <1>17, <2>1 DEF ObserveExact, Operation, TransactionInv, Writing, Undoing
  <2> QED
    BY <1>0, <1>17, <2>1, UndoFailedTransaction DEF ObserveExact
<1>18. CASE ApplyExact
  <2>1. CASE op' = [op EXCEPT !.todo = Tail(@)]
    BY <1>0, <1>18, <2>1 DEF ApplyExact, Operation, TransactionInv, Writing, Undoing
  <2> QED
    BY <1>0, <1>18, <2>1, UndoFailedTransaction DEF ApplyExact
<1>19. CASE ConfirmExact
  BY <1>0, <1>19, UndoneTransaction, UndoFailedTransaction DEF ConfirmExact
<1>20. CASE Cancel \/ Crash
  BY <1>20, IdleTransaction DEF Cancel, Crash
<1>21. CASE PreflightLoad \/ PreflightObserve \/ UNCHANGED vars
  BY <1>1, <1>21 DEF PreflightLoad, PreflightObserve, vars
<1>22. ASSUME NEW s \in Service, SwitchService(s)
       PROVE  TransactionInv'
  BY <1>1, <1>22 DEF SwitchService
<1>23. ASSUME NEW s \in Service, NEW f \in Field, NEW value \in UserValues(f),
              Edit(s, f, value)
       PROVE  TransactionInv'
  BY <1>1, <1>23 DEF Edit
<1> QED
  BY <1>3, <1>4, <1>5, <1>6, <1>7, <1>8, <1>9, <1>10, <1>11, <1>12, <1>13, <1>14,
     <1>15, <1>16, <1>17, <1>18, <1>19, <1>20, <1>21, <1>22, <1>23,
     SystemProxyAssumption
  DEF Next, Begins, Advance, Environment

-----------------------------------------------------------------------------
(* The published status and the record.                                     *)

\* Off is published at first, and nothing is recorded.
LEMMA InitStatus == Init => StatusInv
BY DEF Init, StatusInv, EnabledIsRecorded, StatusOff, NoJournal, Idle

\* Drift and failure may be published over any record.
LEMMA ReturnUnapplied ==
  ASSUME NEW d, NEW k, Return(StatusDrift(d, k)) \/ Return(StatusFailed(d))
  PROVE  StatusInv'
BY DEF Return, StatusDrift, StatusFailed, StatusInv, EnabledIsRecorded, Idle

\* Off may be published once the record is gone.
LEMMA ReturnOff ==
  ASSUME Return(StatusOff), journal'.kind = "none"
  PROVE  StatusInv'
BY DEF Return, StatusOff, StatusInv, EnabledIsRecorded, Idle

\* Applied may be published over a record.
LEMMA ReturnApplied ==
  ASSUME Return(StatusApplied), journal'.kind = "record"
  PROVE  StatusInv'
BY DEF Return, StatusApplied, StatusInv, EnabledIsRecorded, Idle

\* The operation goes on, or is dropped, without publishing anything.
LEMMA KeepStatus ==
  ASSUME StatusInv, UNCHANGED <<status, booted>>, journal'.kind = journal.kind,
         op'.kind \in {op.kind, "none"},
         op'.pc \notin {"listener", "observe", "reobserve", "report"}
  PROVE  StatusInv'
BY DEF StatusInv, EnabledIsRecorded

\* A restore publishes Pending or drift.
LEMMA RestoreStatus ==
  ASSUME TypeOK, StatusInv, NEW w \in Operation, NEW pending \in Status, NEW then,
         pending = status \/ \E d : pending = StatusPending(status, d),
         w.kind \in {"start", "Repair"} => pending.phase \in {"Pending", "Drift"},
         Restore(w, pending, then), UNCHANGED journal
  PROVE  StatusInv'
<1>1. CASE /\ op' = [w EXCEPT !.then = then, !.prior = journal.prior,
                              !.pc = IF journal.kind = "none" THEN "offObserve"
                                                              ELSE "ownedObserve"]
           /\ status' = pending /\ UNCHANGED booted
  <2>1. op'.kind = w.kind /\ op'.pc \in {"offObserve", "ownedObserve"}
    BY <1>1 DEF Operation
  <2>2. /\ pending.enabled = status.enabled
        /\ pending = status \/ pending.phase = "Pending"
    BY DEF StatusPending, TypeOK, Status
  <2> QED
    BY <1>1, <2>1, <2>2 DEF StatusInv, EnabledIsRecorded
<1>2. CASE \E kind \in {"InvalidRecovery", "Other"} : Return(StatusDrift(FALSE, kind))
  BY <1>2, ReturnUnapplied
<1> QED
  BY <1>1, <1>2 DEF Restore

\* The takeover begins under a status that is not Off.
LEMMA BeginApplyStatus ==
  ASSUME TypeOK, StatusInv, NEW p, BeginApply(p), journal' = Recorded(p),
         UNCHANGED <<status, booted>>, booted => status.phase # "Off"
  PROVE  StatusInv'
<1>1. op'.kind = op.kind /\ op'.pc = "apply"
  BY DEF TypeOK, Operation, BeginApply
<1>2. journal'.kind = "record"
  BY DEF Recorded
<1> QED
  BY <1>1, <1>2 DEF StatusInv, EnabledIsRecorded

\* A takeover publishes nothing until it is refused.
LEMMA TakeOverStatus ==
  ASSUME TypeOK, StatusInv, status.phase # "Off", NEW p, NEW d, NEW k,
         TakeOver(p, StatusFailed(d)) \/ TakeOver(p, StatusDrift(d, k))
  PROVE  StatusInv'
<1>1. CASE Saves(p) /\ BeginApply(p) /\ UNCHANGED <<status, booted>>
  BY <1>1, BeginApplyStatus DEF Saves, StatusInv
<1> QED
  BY <1>1, ReturnUnapplied DEF TakeOver

\* The same for reconcile without a record.
LEMMA TakeOverFreshStatus ==
  ASSUME TypeOK, StatusInv, status.phase # "Off", NEW p, TakeOverFresh(p)
  PROVE  StatusInv'
BY ReturnUnapplied, TakeOverStatus DEF TakeOverFresh

\* Off is published only with the record cleared.
LEMMA AfterRestoreStatus ==
  ASSUME TypeOK, StatusInv, AfterRestore, journal'.kind = "none"
  PROVE  StatusInv'
<1>1. CASE Return(StatusOff)
  BY <1>1, ReturnOff
<1>2. CASE Return(StatusFailed(TRUE))
  BY <1>2, ReturnUnapplied
<1>3. CASE Goto("reobserve") /\ status' = StatusPending(StatusOff, TRUE)
  BY <1>3 DEF TypeOK, Operation, Goto, StatusPending, StatusOff, StatusInv,
              EnabledIsRecorded
<1> QED
  BY <1>1, <1>2, <1>3 DEF AfterRestore

\* A pending drift keeps the published status until it is reported.
LEMMA ReportStatus ==
  ASSUME TypeOK, StatusInv, NEW d, ReportDrift(d), UNCHANGED <<status, booted, journal>>
  PROVE  StatusInv'
BY DEF TypeOK, Operation, ReportDrift, StatusDrift, StatusInv, EnabledIsRecorded

\* A failed undoing becomes drift.
LEMMA UndoFailedStatus ==
  ASSUME TypeOK, StatusInv, UndoFailed, UNCHANGED journal
  PROVE  StatusInv'
BY ReportStatus, ReturnUnapplied DEF UndoFailed

\* A finished undoing publishes what its caller asked for.
LEMMA UndoneStatus ==
  ASSUME TypeOK, TransactionInv, StatusInv, op.pc \in Undoing, Undone
  PROVE  StatusInv'
<1>1. CASE Clears /\ AfterRestore
  BY <1>1, AfterRestoreStatus DEF Clears, NoJournal
<1>2. CASE \E d, k : Return(StatusDrift(d, k)) \/ Return(StatusFailed(d))
  BY <1>2, ReturnUnapplied
<1>3. CASE journal' = Recorded(op.next) /\ BeginApply(op.next)
           /\ UNCHANGED <<status, booted>>
  <2>1. journal.kind = "record"
    BY DEF TransactionInv
  <2> QED
    BY <1>3, <2>1, BeginApplyStatus DEF StatusInv
<1> QED
  BY <1>1, <1>2, <1>3 DEF Undone

\* Every step keeps the status in line with the record.
LEMMA StatusStep ==
  ASSUME TypeOK, TransactionInv, StatusInv, [Next]_vars
  PROVE  StatusInv'
<1>0. op \in Operation /\ status \in Status /\ journal \in Journal
  BY DEF TypeOK
<1>1. CASE UNCHANGED <<op, journal, status, booted>>
  BY <1>1 DEF StatusInv, EnabledIsRecorded
<1>2. ASSUME NEW kind \in {"start", "stop", "audit", "Repair", "LeaveAsIs"}
      PROVE  /\ Begin(kind) \in Operation /\ Begin(kind).kind = kind
             /\ \A token \in Preflight :
                  LET w == [Begin(kind) EXCEPT !.token = token]
                  IN w \in Operation /\ w.kind = kind
             /\ \A where \in {"listener", "observe"} :
                  LET w == [Begin(kind) EXCEPT !.pc = where]
                  IN w.kind = kind /\ w.pc = where
  <2>1. Begin(kind) \in Operation
    BY BeginType
  <2>2. Begin(kind).kind = kind
    BY DEF Begin, Idle
  <2> QED
    BY <2>1, <2>2 DEF Operation
<1>3. \A d \in BOOLEAN : /\ StatusPending(status, d) \in Status
                          /\ StatusPending(status, d).phase = "Pending"
                          /\ StatusPending(status, d).enabled = status.enabled
  BY <1>0 DEF StatusPending, Status
<1>4. ASSUME NEW core_healthy \in BOOLEAN, NEW token \in {NoPreflight, preflight},
             Start(core_healthy, token)
      PROVE  StatusInv'
  <2> DEFINE working == [Begin("start") EXCEPT !.token = token]
             pending == StatusPending(status, TRUE)
  <2>1. working \in Operation /\ working.kind = "start"
    BY <1>2, JournalTypes DEF TypeOK
  <2>2. UNCHANGED journal
    BY <1>4 DEF Start
  <2>3. CASE \E kind : Return(StatusDrift(TRUE, kind)) \/ Return(StatusFailed(TRUE))
    BY <2>3, ReturnUnapplied
  <2>4. CASE op' = [working EXCEPT !.pc = "listener"] /\ status' = pending
             /\ UNCHANGED booted
    <3>1. op'.kind = "start" /\ op'.pc = "listener"
      BY <2>1, <2>4 DEF Operation
    <3> QED
      BY <1>3, <2>2, <2>4, <3>1 DEF StatusInv, EnabledIsRecorded
  <2>5. CASE Restore(working, pending, "fail")
    <3>1. pending \in Status /\ pending.phase = "Pending"
          /\ \E d : pending = StatusPending(status, d)
      BY <1>3
    <3> HIDE DEF working, pending
    <3> QED
      BY <2>1, <2>2, <2>5, <3>1, RestoreStatus
  <2> QED
    BY <1>4, <2>3, <2>4, <2>5 DEF Start
<1>5. CASE Stop
  BY <1>2, <1>3, <1>5, RestoreStatus DEF Stop
<1>6. ASSUME NEW core_healthy \in BOOLEAN, Audit(core_healthy)
      PROVE  StatusInv'
  <2>1. CASE \E d, k : Return(StatusDrift(d, k))
    BY <2>1, ReturnUnapplied
  <2>2. CASE Restore(Begin("audit"), status, "done")
    BY <1>0, <1>2, <1>6, <2>2, RestoreStatus DEF Audit
  <2>3. CASE /\ journal.kind = "none" \/ (journal.kind = "record" /\ status.desired)
             /\ \/ op' = [Begin("audit") EXCEPT !.pc = "observe"]
                \/ op' = [Begin("audit") EXCEPT !.pc = "listener"]
             /\ UNCHANGED <<status, booted, journal>>
    BY <1>2, <2>3 DEF StatusInv, EnabledIsRecorded
  <2> QED
    BY <1>6, <2>1, <2>2, <2>3 DEF Audit
<1>7. ASSUME NEW core_healthy \in BOOLEAN, NEW action \in {"Repair", "LeaveAsIs"},
             Recover(action, core_healthy)
      PROVE  StatusInv'
  <2>1. CASE \E d, k : Return(StatusDrift(d, k))
    BY <2>1, ReturnUnapplied
  <2>2. CASE op' = [Begin("Repair") EXCEPT !.pc = "listener"]
             /\ UNCHANGED <<status, booted, journal>>
    BY <1>2, <1>7, <2>2 DEF Recover, StatusInv, EnabledIsRecorded
  <2>3. CASE op' = [Begin("LeaveAsIs") EXCEPT !.pc = "observe"]
             /\ status' = StatusPending(status, FALSE)
             /\ UNCHANGED <<booted, journal>>
    BY <1>2, <1>3, <2>3 DEF StatusInv, EnabledIsRecorded
  <2> QED
    BY <1>7, <2>1, <2>2, <2>3 DEF Recover
<1>8. CASE Listener
  <2>1. CASE Goto("observe") /\ UNCHANGED booted
             /\ status' = IF op.kind = "Repair" THEN StatusPending(status, TRUE)
                                                ELSE status
    <3>1. op'.kind = op.kind /\ op'.pc = "observe"
      BY <1>0, <2>1 DEF Goto, Operation
    <3>2. UNCHANGED journal
      BY <1>8 DEF Listener
    <3> QED
      BY <1>3, <1>8, <2>1, <3>1, <3>2 DEF Listener, StatusInv, EnabledIsRecorded
  <2>2. CASE \E d, k : Return(StatusDrift(d, k)) \/ Return(StatusFailed(d))
    BY <2>2, ReturnUnapplied
  <2>3. CASE Restore(op, status, "fail")
    BY <1>0, <1>8, <2>3, RestoreStatus DEF Listener, StatusInv
  <2> QED
    BY <1>8, <2>1, <2>2, <2>3 DEF Listener
<1>9. CASE ObserveForStart
  <2>1. CASE \E d, k : Return(StatusDrift(d, k)) \/ Return(StatusFailed(d))
    BY <2>1, ReturnUnapplied
  <2>2. CASE Return(StatusApplied) /\ journal.kind = "record" /\ UNCHANGED journal
    BY <2>2, ReturnApplied
  <2>3. CASE Restore(op, status, "reobserve") /\ UNCHANGED journal
    BY <1>0, <2>3, RestoreStatus DEF StatusInv
  <2>4. CASE TakeOverFresh(ObserveActive)
    BY <1>9, <2>4, TakeOverFreshStatus DEF ObserveForStart, StatusInv
  <2> QED
    BY <1>9, <2>1, <2>2, <2>3, <2>4 DEF ObserveForStart
<1>10. CASE Reobserve
  BY <1>10, ReturnUnapplied, TakeOverFreshStatus DEF Reobserve, StatusInv
<1>11. CASE ObserveForAudit
  <2>1. UNCHANGED journal /\ (journal.kind = "none" \/ status.desired)
    BY <1>11 DEF ObserveForAudit, StatusInv
  <2>2. CASE \E d, k : Return(StatusDrift(d, k))
    BY <2>2, ReturnUnapplied
  <2>3. CASE Return(status) /\ (journal.kind = "none" \/ status.phase = "Failed")
    BY <2>1, <2>3 DEF Return, StatusInv, EnabledIsRecorded, Idle
  <2>4. CASE Return(StatusOff) /\ ~status.desired
    BY <2>1, <2>4, ReturnOff
  <2>5. CASE Return(StatusApplied) /\ journal.kind = "record"
    BY <2>1, <2>5, ReturnApplied
  <2>6. CASE /\ op' = [op EXCEPT !.pc = "exactObserve", !.undo = "switch",
                                 !.prior = journal.prior, !.next = ObserveActive]
             /\ UNCHANGED <<status, booted>>
    <3>1. op'.kind = op.kind /\ op'.pc = "exactObserve"
      BY <1>0, <2>6 DEF Operation
    <3> QED
      BY <2>1, <2>6, <3>1, KeepStatus
  <2>7. status.desired \/ journal.kind = "record" \/ journal.kind = "none"
    BY <2>1
  <2> QED
    BY <1>0, <1>11, <2>2, <2>3, <2>4, <2>5, <2>6, <2>7
    DEF ObserveForAudit, Journal
<1>12. CASE ObserveForRecovery
  <2>1. CASE \E d, k : Return(StatusDrift(d, k))
    BY <2>1, ReturnUnapplied
  <2>2. CASE \E d, k : op.kind = "Repair" /\ TakeOver(ObserveActive, StatusDrift(d, k))
    BY <2>2, TakeOverStatus DEF StatusInv
  <2>3. CASE Clears /\ Return(StatusOff)
    BY <2>3, ReturnOff DEF Clears, NoJournal
  <2> QED
    BY <1>12, <2>1, <2>2, <2>3 DEF ObserveForRecovery
<1>13. CASE Apply
  <2>1. op'.kind = op.kind /\ op'.pc \in {"apply", "exactObserve"}
    BY <1>0, <1>13 DEF Apply, RollBack, Operation
  <2> QED
    BY <1>13, <2>1, KeepStatus DEF Apply
<1>14. CASE Confirm
  <2>1. journal.kind = "record" /\ UNCHANGED journal
    BY <1>14 DEF Confirm, TransactionInv, Writing
  <2>2. CASE Return(StatusApplied)
    BY <2>1, <2>2, ReturnApplied
  <2>3. CASE RollBack /\ UNCHANGED <<status, booted>>
    <3>1. op'.kind = op.kind /\ op'.pc = "exactObserve"
      BY <1>0, <2>3 DEF RollBack, Operation
    <3> QED
      BY <2>1, <2>3, <3>1, KeepStatus
  <2> QED
    BY <1>14, <2>2, <2>3 DEF Confirm
<1>15. CASE ObserveOff
  BY <1>15, AfterRestoreStatus, ReturnUnapplied DEF ObserveOff, TransactionInv
<1>16. CASE ObserveOwned
  <2>1. CASE op' = [op EXCEPT !.pc = "exactObserve", !.undo = "restore"]
             /\ UNCHANGED <<status, booted, journal>>
    <3>1. op'.kind = op.kind /\ op'.pc = "exactObserve"
      BY <1>0, <2>1 DEF Operation
    <3> QED
      BY <2>1, <3>1, KeepStatus
  <2> QED
    BY <1>16, <2>1, ReturnUnapplied, ReportStatus DEF ObserveOwned
<1>17. CASE Report
  BY <1>17 DEF Report, Return, StatusInv, EnabledIsRecorded, Idle
<1>18. CASE ObserveExact
  <2>1. CASE op' = [op EXCEPT !.pc = "exactApply", !.target = op.prior, !.todo = Order]
             /\ UNCHANGED <<status, booted, journal>>
    <3>1. op'.kind = op.kind /\ op'.pc = "exactApply"
      BY <1>0, <2>1 DEF Operation
    <3> QED
      BY <2>1, <3>1, KeepStatus
  <2> QED
    BY <1>18, <2>1, UndoFailedStatus DEF ObserveExact
<1>19. CASE ApplyExact
  <2>1. CASE op' = [op EXCEPT !.todo = Tail(@)] /\ UNCHANGED <<status, booted, journal>>
    <3>1. op'.kind = op.kind /\ op'.pc = "exactApply"
      BY <1>0, <1>19, <2>1 DEF ApplyExact, Operation
    <3> QED
      BY <2>1, <3>1, KeepStatus
  <2> QED
    BY <1>19, <2>1, UndoFailedStatus DEF ApplyExact
<1>20. CASE ConfirmExact
  BY <1>20, UndoneStatus, UndoFailedStatus DEF ConfirmExact, Undoing
<1>21. CASE Cancel
  <2>1. op'.kind = "none" /\ op'.pc = "idle"
    BY <1>21 DEF Cancel, Idle
  <2> QED
    BY <1>21, <2>1, KeepStatus DEF Cancel
<1>22. CASE Crash
  BY <1>22 DEF Crash, StatusOff, StatusInv, EnabledIsRecorded, Idle
<1>23. CASE PreflightLoad \/ PreflightObserve \/ UNCHANGED vars
  BY <1>1, <1>23 DEF PreflightLoad, PreflightObserve, vars
<1>24. ASSUME NEW s \in Service, SwitchService(s)
       PROVE  StatusInv'
  BY <1>1, <1>24 DEF SwitchService
<1>25. ASSUME NEW s \in Service, NEW f \in Field, NEW value \in UserValues(f),
              Edit(s, f, value)
       PROVE  StatusInv'
  BY <1>1, <1>25 DEF Edit
<1> QED
  BY <1>4, <1>5, <1>6, <1>7, <1>8, <1>9, <1>10, <1>11, <1>12, <1>13, <1>14, <1>15,
     <1>16, <1>17, <1>18, <1>19, <1>20, <1>21, <1>22, <1>23, <1>24, <1>25,
     SystemProxyAssumption
  DEF Next, Begins, Advance, Environment

-----------------------------------------------------------------------------
(* What the user chose, as long as Repair is not used.                      *)

\* The first conjunct of OwedInv: every field still known.
AllKept ==
  journal.kind # "invalid" => \A s \in Service \ contested : \A f \in Field : Kept(s, f)

\* At the start every setting is the user's own.
LEMMA InitOwed == Init => OwedInv
<1> SUFFICES ASSUME Init PROVE OwedInv
  OBVIOUS
<1>1. owed = host /\ journal.kind = "none" /\ op.pc = "idle"
  BY DEF Init, NoJournal, Idle
<1> QED
  BY <1>1 DEF OwedInv, Kept, RecordedFor, Writing, Undoing

\* A step that leaves settings, record and commands alone.
LEMMA OwedFrame ==
  ASSUME OwedInv, UNCHANGED <<host, journal, ghostVars>>,
         op'.pc \notin Writing \cup Undoing
  PROVE  OwedInv'
<1>1. UNCHANGED <<owed, contested>>
  BY DEF ghostVars
<1> QED
  BY <1>1 DEF OwedInv, Kept, RecordedFor

\* Outside a transaction OwedInv is about the record alone.
LEMMA OwedOutside ==
  ASSUME AllKept', op'.pc \notin Writing \cup Undoing
  PROVE  OwedInv'
BY DEF OwedInv, AllKept

\* A field of an uncontested service without a record is the user's.
LEMMA Unrecorded ==
  ASSUME OwedInv, journal.kind # "invalid", NEW s \in Service \ contested,
         ~RecordedFor(s), NEW f \in Field
  PROVE  host[s][f] = owed[s][f]
BY DEF OwedInv, Kept

\* A command, run or cut off, only touches the recorded service, whose baseline
\* is what the user chose.
LEMMA CommandKeeps ==
  ASSUME TypeOK, TransactionInv, OwedInv, op.pc \in Writing, op.todo # << >>,
         host' \in {host, Command}, UNCHANGED <<journal, owed, contested>>
  PROVE  /\ AllKept'
         /\ \A t \in Service, g \in Field :
              t # op.prior.service => host'[t][g] = host[t][g]
<1>1. journal.kind = "record" /\ journal.prior = op.prior
  BY DEF TransactionInv
<1>2. \A t \in Service, g \in Field :
         t # op.prior.service => host'[t][g] = host[t][g]
  BY CommandWrites
<1>3. ASSUME NEW s \in Service \ contested, NEW f \in Field
      PROVE  Kept(s, f)'
  <2>1. CASE s = op.prior.service
    <3>1. owed[s][f] = journal.prior.settings[f]
      BY <1>1, <1>3, <2>1 DEF OwedInv
    <3> QED
      BY <1>1, <2>1, <3>1 DEF Kept, RecordedFor
  <2>2. CASE s # op.prior.service
    <3>1. host[s][f] = owed[s][f]
      BY <1>1, <2>2, Unrecorded DEF RecordedFor
    <3> QED
      BY <1>1, <1>2, <2>2, <3>1 DEF Kept, RecordedFor
  <2> QED
    BY <2>1, <2>2
<1> QED
  BY <1>2, <1>3 DEF AllKept

\* A cut-off operation loses nothing.
LEMMA InterruptedKeeps ==
  ASSUME TypeOK, TransactionInv, OwedInv, Interrupted,
         UNCHANGED <<journal, owed, contested>>
  PROVE  AllKept'
<1>1. CASE host' = host
  BY <1>1 DEF OwedInv, AllKept, Kept, RecordedFor
<1>2. CASE op.pc \in Writing /\ op.todo # << >> /\ host' \in {host, Command}
  BY <1>2, CommandKeeps
<1> QED
  BY <1>1, <1>2 DEF Interrupted, Writing

\* A new record of settings that are the user's, with nothing owed elsewhere.
LEMMA RecordKeeps ==
  ASSUME TypeOK, NEW p \in Snapshot, journal' = Recorded(p),
         UNCHANGED <<host, owed, contested>>,
         \A s \in Service \ contested : \A f \in Field :
           /\ s # p.service => host[s][f] = owed[s][f]
           /\ s = p.service => owed[s][f] = p.settings[f]
  PROVE  AllKept'
<1>1. journal'.kind = "record" /\ journal'.prior = p
  BY DEF Recorded
<1> QED
  BY <1>1 DEF AllKept, Kept, RecordedFor

\* No record, and nothing owed.
LEMMA ClearKeeps ==
  ASSUME journal'.kind = "none",
         \A s \in Service \ contested' : \A f \in Field : host'[s][f] = owed'[s][f]
  PROVE  AllKept'
BY DEF AllKept, Kept, RecordedFor

\* Taking over what is observed while nothing is recorded.
LEMMA TakeOverKeeps ==
  ASSUME TypeOK, OwedInv, journal.kind = "none", NEW refusal,
         TakeOver(ObserveActive, refusal), UNCHANGED <<host, owed, contested>>
  PROVE  OwedInv'
<1>1. \A s \in Service \ contested : \A f \in Field : host[s][f] = owed[s][f]
  BY Unrecorded DEF RecordedFor
<1>2. ObserveActive \in Snapshot /\ ObserveActive.service = active
      /\ ObserveActive.settings = host[active]
  BY ObservationType DEF TypeOK, ObserveActive, ObserveService
<1>3. journal' = journal \/ journal' = Recorded(ObserveActive)
  BY DEF TakeOver, Saves, SaveFails
<1>4. AllKept'
  <2>1. CASE journal' = journal
    BY <1>1, <2>1, ClearKeeps
  <2>2. CASE journal' = Recorded(ObserveActive)
    BY <1>1, <1>2, <2>2, RecordKeeps
  <2> QED
    BY <1>3, <2>1, <2>2
<1>5. CASE op' = Idle
  BY <1>4, <1>5, OwedOutside DEF Idle, Writing, Undoing
<1>6. CASE BeginApply(ObserveActive)
  <2>1. op'.pc = "apply" /\ op'.prior = ObserveActive
    BY <1>6 DEF BeginApply, TypeOK, Operation
  <2>2. op'.prior.service = active /\ op'.prior.settings = host[active]
    BY <1>2, <2>1
  <2>3. active \notin contested => \A f \in Field : owed'[active][f] = host[active][f]
    BY <1>1 DEF TypeOK
  <2> QED
    BY <1>4, <2>1, <2>2, <2>3 DEF OwedInv, AllKept, Undoing
<1> QED
  BY <1>5, <1>6 DEF TakeOver, Return

\* The same for reconcile, which refuses a lookalike first.
LEMMA TakeOverFreshKeeps ==
  ASSUME TypeOK, OwedInv, journal.kind = "none",
         TakeOverFresh(ObserveActive), UNCHANGED <<host, owed, contested>>
  PROVE  OwedInv'
<1>1. CASE Return(StatusDrift(TRUE, "Other")) /\ UNCHANGED journal
  BY <1>1, OwedFrame DEF Return, Idle, Writing, Undoing, ghostVars
<1> QED
  BY <1>1, TakeOverKeeps DEF TakeOverFresh

\* Restored: the settings the record held are back, so it may go.
LEMMA UndoneKeeps ==
  ASSUME TypeOK, TransactionInv, OwedInv, op.pc = "exactApply",
         ObserveService(op.prior.service) = op.prior, Undone,
         UNCHANGED <<host, owed, contested>>
  PROVE  OwedInv'
<1>0. journal.kind = "record" /\ journal.prior = op.prior /\ op.prior \in Snapshot
  BY DEF TransactionInv, Writing, TypeOK, Journal
<1>1. \A s \in Service \ contested : \A f \in Field : host[s][f] = owed[s][f]
  <2> SUFFICES ASSUME NEW s \in Service \ contested, NEW f \in Field
               PROVE  host[s][f] = owed[s][f]
    OBVIOUS
  <2>1. CASE s = op.prior.service
    <3>1. owed[s][f] = op.prior.settings[f]
      BY <2>1 DEF OwedInv, Writing
    <3>2. host[s] = op.prior.settings
      BY <1>0, <2>1 DEF ObserveService, Snapshot
    <3> QED
      BY <3>1, <3>2
  <2>2. CASE s # op.prior.service
    BY <1>0, <2>2, Unrecorded DEF RecordedFor
  <2> QED
    BY <2>1, <2>2
<1>2. CASE journal' = NoJournal /\ op'.pc \notin Writing \cup Undoing
  BY <1>1, <1>2, ClearKeeps, OwedOutside DEF NoJournal
<1>3. CASE journal' = journal /\ op' = Idle
  BY <1>3, OwedFrame DEF Idle, Writing, Undoing, ghostVars
<1>4. CASE journal' = Recorded(op.next) /\ op.undo = "switch"
           /\ (op' = Idle \/ BeginApply(op.next))
  <2>1. op.next \in Snapshot
    BY <1>4 DEF TransactionInv, Undoing
  <2>2. op.next.service \notin contested =>
          \A f \in Field : owed[op.next.service][f] = op.next.settings[f]
    BY <1>1, <1>4, <2>1 DEF OwedInv, Undoing, Snapshot
  <2>3. AllKept'
    BY <1>1, <1>4, <2>1, <2>2, RecordKeeps
  <2>4. CASE op' = Idle
    BY <2>3, <2>4, OwedOutside DEF Idle, Writing, Undoing
  <2>5. CASE BeginApply(op.next)
    <3>1. op'.pc = "apply" /\ op'.prior = op.next
      BY <2>5 DEF BeginApply, TypeOK, Operation
    <3> QED
      BY <2>2, <2>3, <3>1 DEF OwedInv, AllKept, Undoing
  <2> QED
    BY <1>4, <2>4, <2>5
<1>5. Idle.pc \notin Writing \cup Undoing
  BY DEF Idle, Writing, Undoing
<1>6. AfterRestore => op'.pc \notin Writing \cup Undoing
  <2>1. Goto("reobserve") => op'.pc = "reobserve"
    BY DEF Goto, TypeOK, Operation
  <2> QED
    BY <1>5, <2>1 DEF AfterRestore, Return, Writing, Undoing
<1> QED
  BY <1>2, <1>3, <1>4, <1>5, <1>6 DEF Undone, Clears, ClearFails, Return

\* A user's edit is kept, or its service is contested.
LEMMA EditKeeps ==
  ASSUME TypeOK, TransactionInv, OwedInv, NEW s \in Service, NEW f \in Field,
         NEW value \in UserValues(f), Edit(s, f, value)
  PROVE  OwedInv'
<1>1. value \in FieldValues(f)
  BY DEF UserValues, FieldValues
<1>2. \A t \in Service, g \in Field :
        /\ host'[t][g] = IF t = s /\ g = f THEN value ELSE host[t][g]
        /\ owed'[t][g] = IF t = s /\ g = f THEN value ELSE owed[t][g]
  BY <1>1, WriteField DEF TypeOK, Edit
<1>3. UNCHANGED <<journal, op>> /\ contested \subseteq contested'
      /\ (op.kind # "none" => s \in contested')
      /\ (s \notin contested' => ~Indistinguishable(s, f, value))
  BY DEF Edit, Indistinguishable
<1>4. ASSUME NEW t \in Service \ contested', NEW g \in Field, journal.kind # "invalid"
      PROVE  Kept(t, g)'
  <2>1. Kept(t, g)
    BY <1>3, <1>4 DEF OwedInv
  <2>2. CASE t = s /\ g = f
    BY <1>2, <1>3, <2>2 DEF Kept, RecordedFor, Indistinguishable
  <2>3. CASE ~(t = s /\ g = f)
    BY <1>2, <1>3, <2>1, <2>3 DEF Kept, RecordedFor
  <2> QED
    BY <2>2, <2>3
<1>5. CASE op.pc \notin Writing \cup Undoing
  BY <1>3, <1>4, <1>5, OwedOutside DEF AllKept
<1>6. CASE op.pc \in Writing \cup Undoing
  <2>1. s \in contested'
    BY <1>3, <1>6 DEF TransactionInv, Writing, Undoing
  <2>2. op.prior \in Snapshot
    BY <1>6 DEF TransactionInv, TypeOK, Journal
  <2>3. op.pc \in Undoing /\ op.undo = "switch" => op.next \in Snapshot
    BY DEF TransactionInv
  <2>4. op.prior.service \in Service
        /\ (op.pc \in Undoing /\ op.undo = "switch" => op.next.service \in Service)
    BY <2>2, <2>3 DEF Snapshot
  <2>5. AllKept'
    BY <1>3, <1>4 DEF AllKept
  <2> QED
    BY <1>2, <1>3, <2>1, <2>4, <2>5 DEF OwedInv, AllKept
<1> QED
  BY <1>5, <1>6

\* Where an operation may stand after a step that runs no command.
LEMMA OutsideSteps ==
  ASSUME TypeOK
  PROVE  /\ Idle.pc \notin Writing \cup Undoing
         /\ \A p : Return(p) => op'.pc \notin Writing \cup Undoing
         /\ \A w \in Operation : \A p, t :
              Restore(w, p, t) => op'.pc \notin Writing \cup Undoing
         /\ \A w \in Operation, where \in {"listener", "observe"} :
              [w EXCEPT !.pc = where].pc \notin Writing \cup Undoing
         /\ AfterRestore => op'.pc \notin Writing \cup Undoing
         /\ UndoFailed => op'.pc \notin Writing \cup Undoing
         /\ \A d : ReportDrift(d) => op'.pc \notin Writing \cup Undoing
<1>1. Idle.pc \notin Writing \cup Undoing
  BY DEF Idle, Writing, Undoing
<1>2. \A p : Return(p) => op'.pc \notin Writing \cup Undoing
  BY <1>1 DEF Return
<1>3. ASSUME NEW w \in Operation, NEW p, NEW t, Restore(w, p, t)
      PROVE  op'.pc \notin Writing \cup Undoing
  <2>1. CASE op' = [w EXCEPT !.then = t, !.prior = journal.prior,
                             !.pc = IF journal.kind = "none" THEN "offObserve"
                                                             ELSE "ownedObserve"]
    BY <2>1 DEF Operation, Writing, Undoing
  <2> QED
    BY <1>2, <1>3, <2>1 DEF Restore
<1>4. ASSUME NEW w \in Operation, NEW where \in {"listener", "observe"}
      PROVE  [w EXCEPT !.pc = where].pc \notin Writing \cup Undoing
  BY DEF Operation, Writing, Undoing
<1>5. AfterRestore => op'.pc \notin Writing \cup Undoing
  <2>1. Goto("reobserve") => op'.pc = "reobserve"
    BY DEF Goto, TypeOK, Operation
  <2> QED
    BY <1>2, <2>1 DEF AfterRestore, Writing, Undoing
<1>6. \A d : ReportDrift(d) => op'.pc \notin Writing \cup Undoing
  BY DEF ReportDrift, TypeOK, Operation, Writing, Undoing
<1>7. UndoFailed => op'.pc \notin Writing \cup Undoing
  BY <1>2, <1>6 DEF UndoFailed
<1> QED
  BY <1>1, <1>2, <1>3, <1>4, <1>5, <1>6, <1>7

\* Every step keeps what the user chose, while no Repair runs.
LEMMA OwedStep ==
  ASSUME TypeOK, TransactionInv, OwedInv, op.kind # "Repair", [Next]_vars
  PROVE  OwedInv'
<1>0. op \in Operation
  BY DEF TypeOK
<1>1. CASE UNCHANGED <<host, journal, ghostVars, op>>
  BY <1>1 DEF OwedInv, Kept, RecordedFor, ghostVars
<1>2. ASSUME NEW kind \in {"start", "stop", "audit", "Repair", "LeaveAsIs"}
      PROVE  /\ Begin(kind) \in Operation
             /\ \A token \in Preflight : [Begin(kind) EXCEPT !.token = token] \in Operation
  <2>1. Begin(kind) \in Operation
    BY BeginType
  <2> QED
    BY <2>1 DEF Operation
<1>3. ASSUME NEW core_healthy \in BOOLEAN, NEW token \in {NoPreflight, preflight},
             Start(core_healthy, token)
      PROVE  OwedInv'
  <2> DEFINE working == [Begin("start") EXCEPT !.token = token]
  <2>1. working \in Operation
    BY <1>2, JournalTypes DEF TypeOK
  <2> HIDE DEF working
  <2>2. \/ op' = [working EXCEPT !.pc = "listener"]
        \/ \E p : Restore(working, p, "fail")
        \/ \E p : Return(p)
    BY <1>3 DEF Start, working
  <2>3. op'.pc \notin Writing \cup Undoing
    BY <2>1, <2>2, OutsideSteps
  <2> QED
    BY <1>3, <2>3, OwedFrame DEF Start, platformVars
<1>4. CASE Stop
  <2>1. op'.pc \notin Writing \cup Undoing
    BY <1>2, <1>4, OutsideSteps DEF Stop
  <2> QED
    BY <1>4, <2>1, OwedFrame DEF Stop, platformVars
<1>5. ASSUME NEW core_healthy \in BOOLEAN, Audit(core_healthy)
      PROVE  OwedInv'
  <2>1. op'.pc \notin Writing \cup Undoing
    BY <1>2, <1>5, OutsideSteps DEF Audit
  <2> QED
    BY <1>5, <2>1, OwedFrame DEF Audit, platformVars
<1>6. ASSUME NEW core_healthy \in BOOLEAN, NEW action \in {"Repair", "LeaveAsIs"},
             Recover(action, core_healthy)
      PROVE  OwedInv'
  <2>1. op'.pc \notin Writing \cup Undoing
    BY <1>2, <1>6, OutsideSteps DEF Recover
  <2> QED
    BY <1>6, <2>1, OwedFrame DEF Recover, platformVars
<1>7. CASE Listener
  <2>1. Goto("observe") => op'.pc \notin Writing \cup Undoing
    BY <1>0, OutsideSteps DEF Goto
  <2>2. op'.pc \notin Writing \cup Undoing
    BY <1>0, <1>7, <2>1, OutsideSteps DEF Listener
  <2> QED
    BY <1>7, <2>2, OwedFrame DEF Listener, platformVars
<1>8. CASE ObserveForStart
  <2>1. CASE UNCHANGED journal /\ op'.pc \notin Writing \cup Undoing
    BY <1>8, <2>1, OwedFrame DEF ObserveForStart, platformVars
  <2>2. CASE journal.kind = "none" /\ TakeOverFresh(ObserveActive)
    BY <1>8, <2>2, TakeOverFreshKeeps DEF ObserveForStart, platformVars, ghostVars
  <2> QED
    BY <1>0, <1>8, <2>1, <2>2, OutsideSteps DEF ObserveForStart
<1>9. CASE Reobserve
  <2>1. CASE UNCHANGED journal /\ op'.pc \notin Writing \cup Undoing
    BY <1>9, <2>1, OwedFrame DEF Reobserve, platformVars
  <2>2. CASE TakeOverFresh(ObserveActive)
    <3>1. journal.kind = "none"
      BY <1>9 DEF Reobserve, TransactionInv
    <3> QED
      BY <1>9, <2>2, <3>1, TakeOverFreshKeeps DEF Reobserve, platformVars, ghostVars
  <2> QED
    BY <1>9, <2>1, <2>2, OutsideSteps DEF Reobserve
<1>10. CASE ObserveForAudit
  <2>1. CASE op'.pc \notin Writing \cup Undoing
    BY <1>10, <2>1, OwedFrame DEF ObserveForAudit, platformVars
  <2>2. CASE op' = [op EXCEPT !.pc = "exactObserve", !.undo = "switch",
                              !.prior = journal.prior, !.next = ObserveActive]
    <3>1. op'.pc = "exactObserve" /\ op'.next = ObserveActive
      BY <1>0, <2>2 DEF Operation
    <3>2. UNCHANGED <<host, journal, owed, contested>>
      BY <1>10 DEF ObserveForAudit, platformVars, ghostVars
    <3>3. AllKept'
      BY <3>2 DEF OwedInv, AllKept, Kept, RecordedFor
    <3>4. op'.next.service = active /\ op'.next.settings = host[active]
      BY <3>1 DEF ObserveActive, ObserveService
    <3> QED
      BY <3>1, <3>2, <3>3, <3>4 DEF OwedInv, AllKept, Writing
  <2> QED
    BY <1>10, <2>1, <2>2, OutsideSteps DEF ObserveForAudit
<1>11. CASE ObserveForRecovery
  <2>1. op'.pc \notin Writing \cup Undoing /\ UNCHANGED host
    BY <1>11, OutsideSteps DEF ObserveForRecovery, platformVars
  <2>2. CASE UNCHANGED <<journal, ghostVars>>
    BY <2>1, <2>2, OwedFrame
  <2>3. CASE journal' = NoJournal /\ owed' = host
    BY <2>1, <2>3, ClearKeeps, OwedOutside DEF NoJournal
  <2> QED
    BY <1>11, <2>2, <2>3 DEF ObserveForRecovery, Clears, ClearFails
<1>12. CASE Apply
  <2>1. UNCHANGED <<journal, owed, contested>> /\ host' \in {host, Command}
    BY <1>12 DEF Apply, ghostVars
  <2>2. AllKept'
    BY <1>12, <2>1, CommandKeeps DEF Apply, Writing
  <2>3. CASE op' = [op EXCEPT !.todo = Tail(@)]
    <3>1. op'.pc = "apply" /\ op'.prior = op.prior
      BY <1>0, <1>12, <2>3 DEF Apply, Operation
    <3> QED
      BY <1>12, <2>1, <2>2, <3>1 DEF Apply, OwedInv, AllKept, Writing, Undoing
  <2>4. CASE RollBack
    <3>1. op'.pc = "exactObserve" /\ op'.undo = "rollback"
      BY <1>0, <2>4 DEF RollBack, Operation
    <3> QED
      BY <2>2, <3>1 DEF OwedInv, AllKept, Writing
  <2> QED
    BY <1>12, <2>3, <2>4 DEF Apply
<1>13. CASE Confirm
  <2>1. UNCHANGED <<host, journal, owed, contested>>
    BY <1>13 DEF Confirm, platformVars, ghostVars
  <2>2. CASE Return(StatusApplied)
    BY <2>1, <2>2, OutsideSteps, OwedFrame DEF ghostVars
  <2>3. CASE RollBack
    <3>1. op'.pc = "exactObserve" /\ op'.undo = "rollback"
      BY <1>0, <2>3 DEF RollBack, Operation
    <3> QED
      BY <2>1, <3>1 DEF OwedInv, Kept, RecordedFor, Writing
  <2> QED
    BY <1>13, <2>2, <2>3 DEF Confirm
<1>14. CASE ObserveOff
  <2>1. op'.pc \notin Writing \cup Undoing
    BY <1>14, OutsideSteps DEF ObserveOff
  <2> QED
    BY <1>14, <2>1, OwedFrame DEF ObserveOff, platformVars
<1>15. CASE ObserveOwned
  <2>1. UNCHANGED <<host, journal, owed, contested>>
    BY <1>15 DEF ObserveOwned, platformVars, ghostVars
  <2>2. CASE op'.pc \notin Writing \cup Undoing
    BY <2>1, <2>2, OwedFrame DEF ghostVars
  <2>3. CASE op' = [op EXCEPT !.pc = "exactObserve", !.undo = "restore"]
    <3>1. op'.pc = "exactObserve" /\ op'.undo = "restore"
      BY <1>0, <2>3 DEF Operation
    <3> QED
      BY <2>1, <3>1 DEF OwedInv, Kept, RecordedFor, Writing
  <2> QED
    BY <1>15, <2>2, <2>3, OutsideSteps DEF ObserveOwned
<1>16. CASE Report
  BY <1>16, OutsideSteps, OwedFrame DEF Report, platformVars
<1>17. CASE ObserveExact
  <2>1. UNCHANGED <<host, journal, owed, contested>>
    BY <1>17 DEF ObserveExact, platformVars, ghostVars
  <2>2. CASE UndoFailed
    BY <2>1, <2>2, OutsideSteps, OwedFrame DEF ghostVars
  <2>3. CASE /\ OwnedBetween(ObserveService(op.prior.service), op.prior,
                             WithEndpoint(op.prior))
             /\ op' = [op EXCEPT !.pc = "exactApply", !.target = op.prior,
                                 !.todo = Order]
    <3>1. /\ op'.pc = "exactApply" /\ op'.prior = op.prior
          /\ op'.undo = op.undo /\ op'.next = op.next
      BY <1>0, <2>3 DEF Operation
    <3>2. /\ journal.kind = "record" /\ journal.prior = op.prior
          /\ op.pc \in Undoing
      BY <1>17 DEF ObserveExact, TransactionInv, Undoing
    <3>3. op.prior \in Snapshot
      BY <3>2 DEF TypeOK, Journal
    <3>4. AllKept'
      BY <2>1 DEF OwedInv, AllKept, Kept, RecordedFor
    <3>5. ASSUME op.prior.service \notin contested, NEW f \in Field
          PROVE  owed[op.prior.service][f] = op.prior.settings[f]
      <4>1. op.prior.service \in Service
        BY <3>3 DEF Snapshot
      <4>2. Kept(op.prior.service, f)
        BY <3>2, <3>5, <4>1 DEF OwedInv
      <4>3. host[op.prior.service][f] \in {op.prior.settings[f],
                                           WithEndpoint(op.prior).settings[f]}
        BY <2>3, <3>5 DEF OwnedBetween, ObserveService
      <4> QED
        BY <3>2, <4>2, <4>3 DEF Kept, RecordedFor
    <3> QED
      BY <2>1, <3>1, <3>2, <3>4, <3>5 DEF OwedInv, AllKept
  <2> QED
    BY <1>17, <2>2, <2>3 DEF ObserveExact
<1>18. CASE ApplyExact
  <2>0. op.pc \in Writing /\ op.pc \in Undoing
    BY <1>18 DEF ApplyExact, Writing, Undoing
  <2>1. UNCHANGED <<journal, owed, contested>> /\ host' \in {host, Command}
    BY <1>18 DEF ApplyExact, ghostVars
  <2>2. /\ AllKept'
        /\ \A t \in Service, g \in Field :
             t # op.prior.service => host'[t][g] = host[t][g]
    BY <1>18, <2>0, <2>1, CommandKeeps DEF ApplyExact
  <2>3. CASE op' = [op EXCEPT !.todo = Tail(@)]
    <3>1. /\ op'.pc = op.pc /\ op'.prior = op.prior
          /\ op'.undo = op.undo /\ op'.next = op.next
      BY <1>0, <2>3 DEF Operation
    <3>2. op.undo = "switch" => op.next.service \in Service
                                /\ op.next.service # op.prior.service
      BY <2>0 DEF TransactionInv, Snapshot
    <3>3. op.undo = "switch" => \A f \in Field :
            host'[op.next.service][f] = host[op.next.service][f]
      BY <2>2, <3>2
    <3> QED
      BY <2>0, <2>1, <2>2, <3>1, <3>3 DEF OwedInv, AllKept
  <2>4. CASE UndoFailed
    BY <2>2, <2>4, OutsideSteps, OwedOutside
  <2> QED
    BY <1>18, <2>3, <2>4 DEF ApplyExact
<1>19. CASE ConfirmExact
  <2>1. UNCHANGED <<host, owed, contested>>
    BY <1>19 DEF ConfirmExact, platformVars, ghostVars
  <2>2. CASE UndoFailed /\ UNCHANGED journal
    BY <2>1, <2>2, OutsideSteps, OwedFrame DEF ghostVars
  <2> QED
    BY <1>19, <2>1, <2>2, UndoneKeeps DEF ConfirmExact
<1>20. CASE Cancel
  <2>1. AllKept'
    BY <1>20, InterruptedKeeps DEF Cancel, ghostVars
  <2> QED
    BY <1>20, <2>1, OutsideSteps, OwedOutside DEF Cancel
<1>21. CASE Crash
  <2>1. AllKept'
    <3>1. CASE UNCHANGED journal
      BY <1>21, <3>1, InterruptedKeeps DEF Crash, ghostVars
    <3>2. CASE journal' = InvalidJournal
      BY <3>2 DEF InvalidJournal, AllKept
    <3> QED
      BY <1>21, <3>1, <3>2 DEF Crash
  <2> QED
    BY <1>21, <2>1, OutsideSteps, OwedOutside DEF Crash
<1>22. CASE PreflightLoad \/ PreflightObserve \/ UNCHANGED vars
  BY <1>1, <1>22 DEF PreflightLoad, PreflightObserve, vars, platformVars
<1>23. ASSUME NEW s \in Service, SwitchService(s)
       PROVE  OwedInv'
  BY <1>1, <1>23 DEF SwitchService
<1>24. ASSUME NEW s \in Service, NEW f \in Field, NEW value \in UserValues(f),
              Edit(s, f, value)
       PROVE  OwedInv'
  BY <1>24, EditKeeps
<1> QED
  BY <1>3, <1>4, <1>5, <1>6, <1>7, <1>8, <1>9, <1>10, <1>11, <1>12, <1>13, <1>14,
     <1>15, <1>16, <1>17, <1>18, <1>19, <1>20, <1>21, <1>22, <1>23, <1>24,
     SystemProxyAssumption
  DEF Next, Begins, Advance, Environment

\* Without Repair among the actions no operation is a Repair.
LEMMA RepairStep ==
  ASSUME "Repair" \notin Actions, TypeOK, op.kind # "Repair", [Next]_vars
  PROVE  op'.kind # "Repair"
<1>0. op \in Operation /\ Idle.kind = "none"
  BY DEF TypeOK, Idle
<1>1. ASSUME NEW w \in Operation, w.kind # "Repair", NEW p, NEW t, Restore(w, p, t)
      PROVE  op'.kind # "Repair"
  <2>1. CASE op' = [w EXCEPT !.then = t, !.prior = journal.prior,
                             !.pc = IF journal.kind = "none" THEN "offObserve"
                                                             ELSE "ownedObserve"]
    BY <1>1, <2>1 DEF Operation
  <2> QED
    BY <1>0, <1>1, <2>1 DEF Restore, Return
<1>2. ASSUME NEW kind \in {"start", "stop", "audit", "LeaveAsIs"}
      PROVE  /\ Begin(kind) \in Operation /\ Begin(kind).kind # "Repair"
             /\ \A token \in Preflight :
                  LET w == [Begin(kind) EXCEPT !.token = token]
                  IN w \in Operation /\ w.kind # "Repair"
             /\ \A where \in {"listener", "observe"} :
                  [Begin(kind) EXCEPT !.pc = where].kind # "Repair"
  <2>1. Begin(kind) \in Operation
    BY BeginType
  <2>2. Begin(kind).kind = kind
    BY DEF Begin, Idle
  <2> QED
    BY <2>1, <2>2 DEF Operation
<1>3. CASE op'.kind = op.kind
  BY <1>3
<1>4. ASSUME NEW core_healthy \in BOOLEAN, NEW token \in {NoPreflight, preflight},
             Start(core_healthy, token)
      PROVE  op'.kind # "Repair"
  <2> DEFINE working == [Begin("start") EXCEPT !.token = token]
  <2>1. working \in Operation /\ working.kind # "Repair"
    BY <1>2, JournalTypes DEF TypeOK
  <2> HIDE DEF working
  <2>2. \/ op' = [working EXCEPT !.pc = "listener"]
        \/ \E p : Restore(working, p, "fail")
        \/ \E p : Return(p)
    BY <1>4 DEF Start, working
  <2>3. [working EXCEPT !.pc = "listener"].kind = working.kind
    BY <2>1 DEF Operation
  <2> QED
    BY <1>0, <1>1, <2>1, <2>2, <2>3 DEF Return
<1>5. CASE Stop
  BY <1>1, <1>2, <1>5 DEF Stop
<1>6. ASSUME NEW core_healthy \in BOOLEAN, Audit(core_healthy)
      PROVE  op'.kind # "Repair"
  BY <1>0, <1>1, <1>2, <1>6 DEF Audit, Return
<1>7. ASSUME NEW core_healthy \in BOOLEAN, Recover("LeaveAsIs", core_healthy)
      PROVE  op'.kind # "Repair"
  BY <1>0, <1>2, <1>7 DEF Recover, Return
<1>8. CASE Advance
  <2>1. \A p : Return(p) => op'.kind = "none"
    BY <1>0 DEF Return
  <2>2. \A where : Goto(where) => op'.kind = op.kind
    BY <1>0 DEF Goto, Operation
  <2>3. \A p : BeginApply(p) => op'.kind = op.kind
    BY <1>0 DEF BeginApply, Operation
  <2>4. \A p, q : TakeOver(p, q) => op'.kind # "Repair"
    BY <2>1, <2>3 DEF TakeOver
  <2>5. \A p : TakeOverFresh(p) => op'.kind # "Repair"
    BY <2>1, <2>4 DEF TakeOverFresh
  <2>6. AfterRestore => op'.kind # "Repair"
    BY <2>1, <2>2 DEF AfterRestore
  <2>7. \A d : ReportDrift(d) => op'.kind = op.kind
    BY <1>0 DEF ReportDrift, Operation
  <2>8. UndoFailed => op'.kind # "Repair"
    BY <2>1, <2>7 DEF UndoFailed
  <2>9. Undone => op'.kind # "Repair"
    BY <2>1, <2>3, <2>6 DEF Undone
  <2>10. CASE Listener
    BY <1>0, <1>1, <2>1, <2>2, <2>10 DEF Listener
  <2>11. CASE ObserveForStart
    BY <1>0, <1>1, <2>1, <2>5, <2>11 DEF ObserveForStart
  <2>12. CASE Reobserve
    BY <2>1, <2>5, <2>12 DEF Reobserve
  <2>13. CASE ObserveForAudit
    <3>1. CASE \E p : Return(p)
      BY <2>1, <3>1
    <3> QED
      BY <1>0, <2>13, <3>1 DEF ObserveForAudit, Operation
  <2>14. CASE ObserveForRecovery
    BY <2>1, <2>14 DEF ObserveForRecovery
  <2>15. CASE Apply \/ Confirm \/ ObserveOff \/ ObserveOwned \/ Report
    <3>1. CASE \E p : Return(p)
      BY <2>1, <3>1
    <3>2. RollBack => op'.kind = op.kind
      BY <1>0 DEF RollBack, Operation
    <3>3. op' = [op EXCEPT !.todo = Tail(@)] => op'.kind = op.kind
      BY <1>0 DEF Operation
    <3>4. op' = [op EXCEPT !.pc = "exactObserve", !.undo = "restore"]
            => op'.kind = op.kind
      BY <1>0 DEF Operation
    <3> QED
      BY <2>6, <2>7, <2>15, <3>1, <3>2, <3>3, <3>4
      DEF Apply, Confirm, ObserveOff, ObserveOwned, Report
  <2>16. CASE ObserveExact \/ ApplyExact \/ ConfirmExact
    <3>1. op' = [op EXCEPT !.todo = Tail(@)] => op'.kind = op.kind
      BY <1>0 DEF Operation
    <3>2. op' = [op EXCEPT !.pc = "exactApply", !.target = op.prior, !.todo = Order]
            => op'.kind = op.kind
      BY <1>0 DEF Operation
    <3> QED
      BY <2>8, <2>9, <2>16, <3>1, <3>2 DEF ObserveExact, ApplyExact, ConfirmExact
  <2> QED
    BY <1>8, <2>10, <2>11, <2>12, <2>13, <2>14, <2>15, <2>16 DEF Advance
<1>9. CASE Environment
  BY <1>0, <1>9 DEF Environment, SwitchService, Edit, Cancel, Crash
<1>10. CASE PreflightLoad \/ PreflightObserve \/ UNCHANGED vars
  BY <1>10 DEF PreflightLoad, PreflightObserve, vars
<1> QED
  BY <1>4, <1>5, <1>6, <1>7, <1>8, <1>9, <1>10, SystemProxyAssumption
  DEF Next, Begins

-----------------------------------------------------------------------------
(* A launch and the preparation it was given.                               *)

\* At the start no launch is under way.
LEMMA InitPreflight == Init => PreflightInv
BY DEF Init, PreflightInv, Prepared, Idle, NoPreflight

\* An operation that ended has no preparation.
LEMMA IdlePreflight ==
  ASSUME op' = Idle
  PROVE  PreflightInv'
BY DEF PreflightInv, Prepared, Idle, NoPreflight

\* An operation that has just begun: only a launch has a preparation.
LEMMA BeginPreflight ==
  ASSUME TypeOK, NEW kind \in {"stop", "audit", "Repair", "LeaveAsIs"}
  PROVE  /\ Begin(kind) \in Operation /\ Begin(kind).kind = kind
         /\ Begin(kind).token = NoPreflight /\ Begin(kind).undo = "none"
         /\ Begin(kind).then = "done"
<1>1. Begin(kind) \in Operation
  BY BeginType
<1> QED
  BY <1>1 DEF Begin, Idle

\* restore goes on to a second observation only for a launch that met a record.
LEMMA RestorePreflight ==
  ASSUME TypeOK, NEW w \in Operation, NEW pending, NEW then \in {"done", "fail", "reobserve"},
         w.kind # "start" => w.token = NoPreflight,
         w.undo = "switch" => w.kind = "audit",
         w.token.stage = "ready" /\ w.token.journal = NoJournal => then # "reobserve",
         Restore(w, pending, then)
  PROVE  PreflightInv'
<1>1. CASE op' = [w EXCEPT !.then = then, !.prior = journal.prior,
                           !.pc = IF journal.kind = "none" THEN "offObserve"
                                                           ELSE "ownedObserve"]
  <2>1. /\ op'.kind = w.kind /\ op'.token = w.token /\ op'.undo = w.undo /\ op'.then = then
        /\ op'.pc \in {"offObserve", "ownedObserve"}
    BY <1>1 DEF Operation
  <2> QED
    BY <2>1 DEF PreflightInv, Prepared
<1>2. CASE op' = Idle
  BY <1>2, IdlePreflight
<1> QED
  BY <1>1, <1>2 DEF Restore, Return

\* A step that moves the operation on, not to a takeover or a second observation.
LEMMA MovesPreflight ==
  ASSUME PreflightInv, op'.pc \notin {"apply", "reobserve"},
         op'.kind = op.kind, op'.token = op.token, op'.undo \in {op.undo, "restore", "rollback"},
         op'.then = op.then
  PROVE  PreflightInv'
BY DEF PreflightInv, Prepared

\* A takeover begins on what the launch was prepared with, or was not prepared.
LEMMA TakeOverPreflight ==
  ASSUME TypeOK, PreflightInv, NEW p, NEW refusal, TakeOver(p, refusal),
         Prepared => p = op.token.observed
  PROVE  PreflightInv'
<1>1. CASE op' = Idle
  BY <1>1, IdlePreflight
<1>2. CASE BeginApply(p)
  <2>1. /\ op'.kind = op.kind /\ op'.token = op.token /\ op'.undo = op.undo /\ op'.then = op.then
        /\ op'.pc = "apply" /\ op'.prior = p
    BY <1>2 DEF TypeOK, Operation, BeginApply
  <2> QED
    BY <2>1 DEF PreflightInv, Prepared
<1> QED
  BY <1>1, <1>2 DEF TakeOver, Return

\* The same for reconcile without a record.
LEMMA TakeOverFreshPreflight ==
  ASSUME TypeOK, PreflightInv, NEW p, TakeOverFresh(p), Prepared => p = op.token.observed
  PROVE  PreflightInv'
BY IdlePreflight, TakeOverPreflight DEF TakeOverFresh, Return

\* After a restore a launch that met a record observes again.
LEMMA AfterRestorePreflight ==
  ASSUME TypeOK, PreflightInv, AfterRestore
  PROVE  PreflightInv'
<1>1. CASE op' = Idle
  BY <1>1, IdlePreflight
<1>2. CASE op.then = "reobserve" /\ Goto("reobserve")
  <2>1. /\ op'.kind = op.kind /\ op'.token = op.token /\ op'.undo = op.undo /\ op'.then = op.then
        /\ op'.pc = "reobserve"
    BY <1>2 DEF TypeOK, Operation, Goto
  <2> QED
    BY <1>2, <2>1 DEF PreflightInv, Prepared
<1> QED
  BY <1>1, <1>2 DEF AfterRestore, Return

\* An operation that only reports takes nothing over.
LEMMA ReportPreflight ==
  ASSUME TypeOK, PreflightInv, NEW d, ReportDrift(d)
  PROVE  PreflightInv'
<1>1. /\ op'.kind = op.kind /\ op'.token = op.token /\ op'.undo = op.undo /\ op'.then = op.then
      /\ op'.pc = "report"
  BY DEF TypeOK, Operation, ReportDrift
<1> QED
  BY <1>1, MovesPreflight

\* A failed undoing takes nothing over.
LEMMA UndoFailedPreflight ==
  ASSUME TypeOK, PreflightInv, UndoFailed
  PROVE  PreflightInv'
BY IdlePreflight, ReportPreflight DEF UndoFailed, Return

\* A finished undoing takes the next service over only for an audit.
LEMMA UndonePreflight ==
  ASSUME TypeOK, PreflightInv, Undone
  PROVE  PreflightInv'
<1>1. CASE AfterRestore
  BY <1>1, AfterRestorePreflight
<1>2. CASE op' = Idle
  BY <1>2, IdlePreflight
<1>3. CASE op.undo = "switch" /\ BeginApply(op.next)
  <2>1. op.token = NoPreflight
    BY <1>3 DEF PreflightInv
  <2>2. /\ op'.kind = op.kind /\ op'.token = op.token /\ op'.undo = op.undo /\ op'.then = op.then
        /\ op'.pc = "apply"
    BY <1>3 DEF TypeOK, Operation, BeginApply
  <2> QED
    BY <2>1, <2>2 DEF PreflightInv, Prepared, NoPreflight
<1> QED
  BY <1>1, <1>2, <1>3 DEF Undone, Return

\* Every step keeps a prepared launch to its preparation.
LEMMA PreflightStep ==
  ASSUME TypeOK, PreflightInv, [Next]_vars
  PROVE  PreflightInv'
<1>0. op \in Operation
  BY DEF TypeOK
<1>1. CASE UNCHANGED op
  BY <1>1 DEF PreflightInv, Prepared
<1>2. ASSUME NEW kind \in {"stop", "audit", "Repair", "LeaveAsIs"},
             NEW where \in {"listener", "observe"}, op' = [Begin(kind) EXCEPT !.pc = where]
      PROVE  PreflightInv'
  <2>1. /\ op'.kind = kind /\ op'.token = NoPreflight /\ op'.undo = "none" /\ op'.then = "done"
        /\ op'.pc = where
    BY <1>2, BeginPreflight DEF Operation
  <2> QED
    BY <2>1 DEF PreflightInv, Prepared, NoPreflight
<1>3. ASSUME NEW core_healthy \in BOOLEAN, NEW token \in {NoPreflight, preflight},
             Start(core_healthy, token)
      PROVE  PreflightInv'
  <2> DEFINE working == [Begin("start") EXCEPT !.token = token]
             pending == StatusPending(status, TRUE)
  <2>1. token \in Preflight
    BY JournalTypes DEF TypeOK
  <2>2. /\ working \in Operation /\ working.kind = "start" /\ working.undo = "none"
        /\ working.then = "done"
    <3>1. Begin("start") \in Operation
      BY BeginType
    <3>2. /\ Begin("start").kind = "start" /\ Begin("start").undo = "none"
          /\ Begin("start").then = "done"
      BY DEF Begin, Idle
    <3> QED
      BY <2>1, <3>1, <3>2 DEF Operation
  <2>3. CASE op' = Idle
    BY <2>3, IdlePreflight
  <2>4. CASE op' = [working EXCEPT !.pc = "listener"]
    <3> HIDE DEF working
    <3>1. /\ op'.kind = "start" /\ op'.undo = "none" /\ op'.then = "done" /\ op'.pc = "listener"
      BY <2>2, <2>4 DEF Operation
    <3> QED
      BY <3>1 DEF PreflightInv, Prepared
  <2>5. CASE Restore(working, pending, "fail")
    <3> HIDE DEF working, pending
    <3> QED
      BY <2>2, <2>5, RestorePreflight
  <2> QED
    BY <1>3, <2>3, <2>4, <2>5 DEF Start, Return
<1>4. CASE Stop
  BY <1>4, BeginPreflight, RestorePreflight DEF Stop
<1>5. ASSUME NEW core_healthy \in BOOLEAN, Audit(core_healthy)
      PROVE  PreflightInv'
  <2>1. CASE op' = Idle
    BY <2>1, IdlePreflight
  <2>2. CASE Restore(Begin("audit"), status, "done")
    BY <2>2, BeginPreflight, RestorePreflight
  <2> QED
    BY <1>2, <1>5, <2>1, <2>2 DEF Audit, Return
<1>6. ASSUME NEW core_healthy \in BOOLEAN, NEW action \in {"Repair", "LeaveAsIs"},
             Recover(action, core_healthy)
      PROVE  PreflightInv'
  BY <1>2, <1>6, IdlePreflight DEF Recover, Return
<1>7. CASE Listener
  <2>1. CASE op' = Idle
    BY <2>1, IdlePreflight
  <2>2. CASE Goto("observe")
    <3>1. /\ op'.kind = op.kind /\ op'.token = op.token /\ op'.undo = op.undo /\ op'.then = op.then
          /\ op'.pc = "observe"
      BY <1>0, <2>2 DEF Goto, Operation
    <3> QED
      BY <3>1, MovesPreflight
  <2>3. CASE Restore(op, status, "fail")
    BY <1>0, <2>3, RestorePreflight DEF PreflightInv
  <2> QED
    BY <1>7, <2>1, <2>2, <2>3 DEF Listener, Return
<1>8. CASE ObserveForStart
  <2>1. CASE op' = Idle
    BY <2>1, IdlePreflight
  <2>2. CASE /\ ~PreflightStale(op.token, ObserveActive) /\ journal.kind = "record"
             /\ Restore(op, status, "reobserve")
    <3>1. ~Prepared
      BY <2>2 DEF Prepared, PreflightStale, NoJournal
    <3> QED
      BY <1>0, <2>2, <3>1, RestorePreflight DEF PreflightInv, Prepared
  <2>3. CASE ~PreflightStale(op.token, ObserveActive) /\ TakeOverFresh(ObserveActive)
    <3>1. Prepared => ObserveActive = op.token.observed
      BY <2>3 DEF Prepared, PreflightStale
    <3> QED
      BY <2>3, <3>1, TakeOverFreshPreflight
  <2> QED
    BY <1>8, <2>1, <2>2, <2>3 DEF ObserveForStart, Return
<1>9. CASE Reobserve
  <2>1. ~Prepared
    BY <1>9 DEF Reobserve, PreflightInv
  <2> QED
    BY <1>9, <2>1, IdlePreflight, TakeOverFreshPreflight DEF Reobserve, Return
<1>10. CASE ObserveForAudit
  <2>1. CASE op' = Idle
    BY <2>1, IdlePreflight
  <2>2. CASE op' = [op EXCEPT !.pc = "exactObserve", !.undo = "switch",
                              !.prior = journal.prior, !.next = ObserveActive]
    <3>1. op.kind = "audit"
      BY <1>10 DEF ObserveForAudit
    <3>2. /\ op'.kind = op.kind /\ op'.token = op.token /\ op'.then = op.then
          /\ op'.pc = "exactObserve"
      BY <1>0, <2>2 DEF Operation
    <3> QED
      BY <3>1, <3>2 DEF PreflightInv, Prepared, NoPreflight
  <2> QED
    BY <1>10, <2>1, <2>2 DEF ObserveForAudit, Return
<1>11. CASE ObserveForRecovery
  <2>1. ~Prepared
    BY <1>11 DEF ObserveForRecovery, PreflightInv, Prepared, NoPreflight
  <2> QED
    BY <1>11, <2>1, IdlePreflight, TakeOverPreflight DEF ObserveForRecovery, Return
<1>12. ASSUME op' = [op EXCEPT !.todo = Tail(@)] PROVE PreflightInv'
  <2>1. /\ op'.kind = op.kind /\ op'.token = op.token /\ op'.undo = op.undo /\ op'.then = op.then
        /\ op'.pc = op.pc /\ op'.prior = op.prior
    BY <1>0, <1>12 DEF Operation
  <2> QED
    BY <2>1 DEF PreflightInv, Prepared
<1>13. ASSUME NEW undo \in {"restore", "rollback"},
              op' = [op EXCEPT !.pc = "exactObserve", !.undo = undo]
       PROVE  PreflightInv'
  <2>1. /\ op'.kind = op.kind /\ op'.token = op.token /\ op'.undo = undo /\ op'.then = op.then
        /\ op'.pc = "exactObserve"
    BY <1>0, <1>13 DEF Operation
  <2> QED
    BY <2>1, MovesPreflight
<1>14. CASE Apply \/ Confirm
  BY <1>12, <1>13, <1>14, IdlePreflight DEF Apply, Confirm, RollBack, Return
<1>15. CASE ObserveOff
  BY <1>15, IdlePreflight, AfterRestorePreflight DEF ObserveOff, Return
<1>16. CASE ObserveOwned \/ Report
  BY <1>13, <1>16, IdlePreflight, ReportPreflight DEF ObserveOwned, Report, Return
<1>17. CASE ObserveExact
  <2>1. CASE op' = [op EXCEPT !.pc = "exactApply", !.target = op.prior, !.todo = Order]
    <3>1. /\ op'.kind = op.kind /\ op'.token = op.token /\ op'.undo = op.undo /\ op'.then = op.then
          /\ op'.pc = "exactApply"
      BY <1>0, <2>1 DEF Operation
    <3> QED
      BY <3>1, MovesPreflight
  <2> QED
    BY <1>17, <2>1, UndoFailedPreflight DEF ObserveExact
<1>18. CASE ApplyExact
  BY <1>12, <1>18, UndoFailedPreflight DEF ApplyExact
<1>19. CASE ConfirmExact
  BY <1>19, UndonePreflight, UndoFailedPreflight DEF ConfirmExact
<1>20. CASE Cancel \/ Crash
  BY <1>20, IdlePreflight DEF Cancel, Crash
<1>21. CASE PreflightLoad \/ PreflightObserve \/ UNCHANGED vars
  BY <1>1, <1>21 DEF PreflightLoad, PreflightObserve, vars
<1>22. ASSUME NEW s \in Service, SwitchService(s)
       PROVE  PreflightInv'
  BY <1>1, <1>22 DEF SwitchService
<1>23. ASSUME NEW s \in Service, NEW f \in Field, NEW value \in UserValues(f),
              Edit(s, f, value)
       PROVE  PreflightInv'
  BY <1>1, <1>23 DEF Edit
<1> QED
  BY <1>3, <1>4, <1>5, <1>6, <1>7, <1>8, <1>9, <1>10, <1>11, <1>14,
     <1>15, <1>16, <1>17, <1>18, <1>19, <1>20, <1>21, <1>22, <1>23,
     SystemProxyAssumption
  DEF Next, Begins, Advance, Environment

-----------------------------------------------------------------------------
(* The theorems.                                                            *)

\* Every reachable state of the reconciler is well typed, and the operation
\* under way works on the recorded baseline.
THEOREM TypeCorrect == Spec => [](TypeOK /\ TransactionInv)
<1>1. Init => TypeOK /\ TransactionInv
  BY InitType, InitTransaction
<1>2. TypeOK /\ TransactionInv /\ [Next]_vars => (TypeOK /\ TransactionInv)'
  BY TypeStep, TransactionStep
<1> QED
  BY <1>1, <1>2, PTL DEF Spec

\* Write ahead: whatever fails, is cancelled or crashes, no command of a
\* takeover, rollback, restore or service switch runs without the exact
\* baseline of that transaction in the journal (begin_apply, restore_exact_prior).
THEOREM WriteAheadHolds == Spec => []WriteAhead
<1>1. TypeOK /\ TransactionInv => WriteAhead
  <2> SUFFICES ASSUME TypeOK, TransactionInv,
                      op.pc \in {"apply", "exactObserve", "exactApply"}
               PROVE  journal = Recorded(op.prior)
    BY DEF WriteAhead
  <2>1. journal.kind = "record" /\ journal.prior = op.prior
    BY DEF TransactionInv, Writing, Undoing
  <2> QED
    BY <2>1 DEF TypeOK, Journal, Recorded
<1> QED
  BY <1>1, TypeCorrect, PTL

\* What the published status says of the record holds in every reachable state.
THEOREM StatusInvariant == Spec => []StatusInv
<1>1. Init => StatusInv
  BY InitStatus
<1>2. TypeOK /\ TransactionInv /\ StatusInv /\ [Next]_vars => StatusInv'
  BY StatusStep
<1> QED
  BY <1>1, <1>2, TypeCorrect, PTL DEF Spec

\* system_proxy_enabled is never published without a readable record to give
\* the user's settings back from.
THEOREM EnabledHasRecord == Spec => []EnabledIsRecorded
<1>1. StatusInv => EnabledIsRecorded
  BY DEF StatusInv
<1> QED
  BY <1>1, StatusInvariant, PTL

\* A record Mish cannot read is never published as off or as applied: the only
\* way on is through drift and its recovery choices.
THEOREM InvalidRecordIsDrift == Spec => []InvalidIsDrift
<1>1. StatusInv => InvalidIsDrift
  BY DEF StatusInv, EnabledIsRecorded, InvalidIsDrift
<1> QED
  BY <1>1, StatusInvariant, PTL

\* Without Repair, what the user last chose is always kept.
THEOREM OwedInvariant ==
  ASSUME "Repair" \notin Actions
  PROVE  Spec => []OwedInv
<1>1. Init => OwedInv /\ op.kind # "Repair"
  <2>1. Idle.kind # "Repair"
    BY DEF Idle
  <2> QED
    BY <2>1, InitOwed DEF Init
<1>2. TypeOK /\ TransactionInv /\ OwedInv /\ op.kind # "Repair" /\ [Next]_vars
        => (OwedInv /\ op.kind # "Repair")'
  BY OwedStep, RepairStep
<1> QED
  BY <1>1, <1>2, TypeCorrect, PTL DEF Spec

\* Without Repair no takeover, rollback, restore or service switch, however it
\* fails or is cut off, loses a setting the user chose.
THEOREM NothingIsLost ==
  ASSUME "Repair" \notin Actions
  PROVE  Spec => []NothingLost
<1>1. TypeOK /\ OwedInv => NothingLost
  BY DEF TypeOK, Journal, OwedInv, Kept, RecordedFor, NothingLost
<1> QED
  BY <1>1, TypeCorrect, OwedInvariant, PTL

\* Without Repair, Off is only published once every setting is the user's again.
THEOREM OffIsRestored ==
  ASSUME "Repair" \notin Actions
  PROVE  Spec => []OffRestoresPrior
<1>1. TypeOK /\ StatusInv /\ OwedInv => OffRestoresPrior
  <2> SUFFICES ASSUME TypeOK, StatusInv, OwedInv, status.phase = "Off", booted,
                      NEW s \in Service \ contested
               PROVE  host[s] = owed[s]
    BY DEF OffRestoresPrior
  <2>1. journal.kind = "none"
    BY DEF StatusInv
  <2>2. \A f \in Field : host[s][f] = owed[s][f]
    BY <2>1, Unrecorded DEF RecordedFor
  <2> QED
    BY <2>2, SameSettings DEF TypeOK
<1> QED
  BY <1>1, TypeCorrect, StatusInvariant, OwedInvariant, PTL

\* A launch prepared while nothing was recorded takes over exactly the settings it
\* was prepared with, whatever changed, was restored or failed between its
\* preparation and its first command (preflight, reconcile_locked_with_preflight).
THEOREM PreflightIsHonoured == Spec => []PreflightHonoured
<1>1. Init => PreflightInv
  BY InitPreflight
<1>2. TypeOK /\ PreflightInv /\ [Next]_vars => PreflightInv'
  BY PreflightStep
<1>3. PreflightInv => PreflightHonoured
  BY DEF PreflightInv, Prepared, PreflightHonoured
<1> QED
  BY <1>1, <1>2, <1>3, TypeCorrect, PTL DEF Spec
=============================================================================
