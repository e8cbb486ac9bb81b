--------------------------- MODULE CaptureProofs ---------------------------
(***************************************************************************)
(* One operation of Capture works on the platform, and a launch that is    *)
(* told of success did not fail: for any number of operations, audits,     *)
(* recoveries and requests, with panics, deadlines and a shutdown.         *)
(***************************************************************************)
EXTENDS Capture, Integers, FiniteSetTheorems, TLAPS

-----------------------------------------------------------------------------
(* States.                                                                  *)

IsProjection(p) == {"op", "phase"} \subseteq DOMAIN p
IsOperation(o) ==
  /\ {"id", "prefix", "mode", "pending", "request", "previous"} \subseteq DOMAIN o
  /\ IsProjection(o.pending) /\ IsProjection(o.previous)
IsState(s) ==
  /\ {"kind", "stage", "deferred", "op", "next", "projection", "error"} \subseteq DOMAIN s
  /\ IsOperation(s.op) /\ IsProjection(s.projection)

\* Every operation below it is over.
Floor(s) == IF IsActive(s) THEN s.op.id ELSE s.next

\* What the reducer keeps of an open machine.  A projection that is busy under
\* another number than the operation's is only shown by a finalizer.
WellFormed(s) ==
  /\ IsState(s) /\ s.next \in Nat /\ s.next >= 1
  /\ s.kind \in {"Stable", "RecoveryRequired", "Transitioning", "Reconciling"}
  /\ s.kind = "RecoveryRequired" => ~IsBusy(s.projection)
  /\ s.kind = "Transitioning" =>
       s.stage \in {"Reserved", "Preflighting", "Mutating", "Finalizing"}
  /\ IsActive(s) =>
       /\ s.op.id \in Nat /\ s.op.id >= 1 /\ s.next = s.op.id + 1
       /\ s.op.prefix \in {"none", "preflight", "audit"}
       /\ s.op.prefix = "none" => s.op.pending.op = s.op.id
       /\ IsBusy(s.op.pending) /\ s.op.pending.op # s.op.id =>
            s.kind = "Transitioning" /\ s.stage = "Finalizing"

\* The effect whose answer the operation of s waits for.
Awaited(s, c) ==
  /\ Mine(s, c)
  /\ \/ s.kind = "Transitioning" /\ s.stage = "Preflighting" /\ c.effect = "Preflight"
     \/ s.kind = "Transitioning" /\ s.stage = "Mutating" /\ c.effect \in {"Mutate", "Recover"}
     \/ /\ s.kind = "Transitioning" /\ s.stage = "Mutating"
        /\ c.effect = "CommitAudit" /\ c.prefix = "audit"
     \/ s.kind = "Transitioning" /\ s.stage = "Finalizing" /\ c.effect = "Finalize"
     \/ s.kind = "Reconciling" /\ c.effect = "Observe"
     \/ s.kind = "Reconciling" /\ c.effect = "Audit" /\ c.prefix = "audit"

\* An effect whose operation is over.
Outlived(s, c) ==
  /\ c.effect \in {"Preflight", "Finalize"} /\ c.prefix # "shutdown"
  /\ c.op \in Nat /\ c.op < Floor(s)

-----------------------------------------------------------------------------
(* What an input may do to an open machine.                                 *)

Stands(tr) == tr.disposition \in {"Rejected", "Unchanged", "Retired", "Panicked"}
Silent(tr) ==
  tr.disposition \notin {"Rejected", "Unchanged", "Retired", "Panicked", "EffectEmitting"}
SpawnsOne(tr, e) ==
  /\ tr.disposition = "EffectEmitting" /\ tr.effects = <<e>>
  /\ e.mode = "Spawn" /\ Awaited(tr.state, e.correlation)

\* An operation begins under the next number.
Begun(s, u) ==
  /\ ~IsActive(s) /\ HasBase(s) /\ WellFormed(u) /\ IsActive(u) /\ u.op.id = s.next

\* It goes on as the same operation.
SameOp(s, u) ==
  /\ IsActive(s) /\ IsActive(u) /\ WellFormed(u)
  /\ u.op.id = s.op.id /\ u.op.prefix = s.op.prefix /\ u.op.mode = s.op.mode

\* It ends; only an audit or a preflight gives its number back.
Ended(s, u) ==
  /\ IsActive(s) /\ ~IsActive(u) /\ WellFormed(u)
  /\ u.next = s.next \/ (u.next = s.op.id /\ s.op.prefix # "none")

Good(s, u) ==
  u.kind = "Stable" /\ u.projection.op = s.op.id /\ u.projection.phase = "Applied"

\* A failure that nothing but the launch's report ends.
Stuck(s) == s.kind = "Stable" /\ IsBusy(s.projection) /\ s.error # "none"

\* A prepared operation ends well or leaves its error to the launch.
Truthful(s, u) ==
  s.op.prefix = "none" /\ s.op.mode = "Prepared" => Good(s, u) \/ Stuck(u)

\* A launch that has not executed yet is never found further on.
Early(s) == s.kind = "Transitioning" /\ s.stage \in {"Preflighting", "Finalizing"}
WaitsOn(u) == u.kind = "Transitioning" /\ u.stage \in {"Reserved", "Finalizing"}
Continued(s, u) == SameOp(s, u) /\ (Early(s) => WaitsOn(u))

-----------------------------------------------------------------------------
(* The reducer on an open machine.                                          *)

\* A new operation has the shape of one.
LEMMA OperationShape ==
  ASSUME NEW s, NEW request, NEW op_mode, NEW prefix, IsProjection(s.projection)
  PROVE  LET o == Operation(s, request, op_mode, prefix)
         IN /\ IsOperation(o) /\ o.id = s.next /\ o.prefix = prefix /\ o.mode = op_mode
            /\ o.pending.op = s.next /\ o.previous = s.projection
  BY DEF Operation, IsOperation, IsProjection, Projection

\* So has one that shows the projection from before it.
LEMMA AuditShape ==
  ASSUME NEW s, NEW request, IsProjection(s.projection)
  PROVE  LET o == Operation(s, request, "Ordinary", "audit")
             b == [o EXCEPT !.pending = o.previous]
         IN IsOperation(b) /\ b.id = s.next /\ b.prefix = "audit" /\ b.pending = s.projection
  BY DEF Operation, IsOperation, IsProjection, Projection

\* An effect carries the correlation of its operation.
LEMMA EffectShape ==
  ASSUME NEW op, NEW name
  PROVE  LET e == Effect(op, name)
         IN e.mode = "Spawn" /\ e.correlation = Correlation(op, name)
  BY DEF Effect

\* So it does when it is told of the core's health, of an outcome, or of an action.
LEMMA ToldEffectShape ==
  ASSUME NEW op, NEW name, NEW h, NEW o
  PROVE  LET e == Effect(op, name)
         IN /\ [e EXCEPT !.healthy = h].mode = "Spawn"
            /\ [e EXCEPT !.healthy = h].correlation = Correlation(op, name)
            /\ [e EXCEPT !.outcome = o].mode = "Spawn"
            /\ [e EXCEPT !.outcome = o].correlation = Correlation(op, name)
  BY DEF Effect

\* And with both the health of the core and an action.
LEMMA RecoverEffectShape ==
  ASSUME NEW op, NEW name, NEW h, NEW a
  PROVE  /\ [Effect(op, name) EXCEPT !.healthy = h, !.action = a].mode = "Spawn"
         /\ [Effect(op, name) EXCEPT !.healthy = h, !.action = a].correlation
              = Correlation(op, name)
<1> DEFINE e == Effect(op, name)
           f == [e EXCEPT !.healthy = h]
           g == [f EXCEPT !.action = a]
<1>1. g.mode = "Spawn" /\ g.correlation = Correlation(op, name)
  BY DEF Effect
<1>2. g = [e EXCEPT !.healthy = h, !.action = a]
  BY Zenon
<1> QED
  BY <1>1, <1>2, Zenon

\* The states that the reducer makes.
LEMMA StateShape ==
  ASSUME NEW n, NEW o, NEW p, NEW e, NEW stage, IsOperation(o), IsProjection(p)
  PROVE  LET t == Transitioning(n, o, stage)
             r == Reconciling(n, o)
             s == Stable(n, p, e)
             q == RecoveryRequired(n, p, e)
         IN /\ IsState(t) /\ t.kind = "Transitioning" /\ t.stage = stage /\ t.op = o /\ t.next = n
            /\ t.deferred = "none"
            /\ IsState(r) /\ r.kind = "Reconciling" /\ r.op = o /\ r.next = n
            /\ IsState(s) /\ s.kind = "Stable" /\ s.next = n /\ s.projection = p /\ s.error = e
            /\ IsState(q) /\ q.kind = "RecoveryRequired" /\ q.next = n /\ q.projection = p
            /\ q.error = e
  BY DEF Transitioning, Reconciling, Stable, RecoveryRequired, IsState, IsOperation,
         IsProjection, NoOperation, Projection

\* Every projection that is made has the shape of one.
LEMMA ProjectionShape ==
  ASSUME NEW op, NEW phase, NEW status
  PROVE  LET p == Projection(op, phase, status)
         IN IsProjection(p) /\ p.op = op /\ p.phase = phase
  BY DEF Projection, IsProjection

\* How an operation ends.
LEMMA FailsEnds ==
  ASSUME NEW s, WellFormed(s), IsActive(s), NEW op, op.id = s.op.id, NEW status, NEW error
  PROVE  LET tr == Fails(s, op, status, error)
         IN /\ Silent(tr) /\ Ended(s, tr.state)
            /\ op.mode = "Prepared" /\ error # "none" => Stuck(tr.state)
<1> DEFINE p == Projection(op.id, FailurePhase(op), status)
           u == Stable(s.next, p, error)
<1>1. IsProjection(p) /\ p.op = op.id /\ p.phase = FailurePhase(op)
  BY ProjectionShape
<1>2. IsOperation(s.op)
  BY DEF WellFormed, IsState
<1> HIDE DEF p
<1>3. IsState(u) /\ u.kind = "Stable" /\ u.next = s.next /\ u.projection = p /\ u.error = error
  BY <1>1, <1>2, StateShape
<1> HIDE DEF u
<1>4. WellFormed(u) /\ ~IsActive(u)
  BY <1>3 DEF WellFormed, IsActive
<1>5. op.mode = "Prepared" /\ error # "none" => Stuck(u)
  BY <1>1, <1>3 DEF Stuck, IsBusy, FailurePhase
<1>6. Fails(s, op, status, error) = [disposition |-> "Failed", state |-> u, effects |-> <<>>]
  BY DEF Fails, Goes, u, p
<1> QED
  BY <1>3, <1>4, <1>5, <1>6 DEF Silent, Ended

\* It ends needing recovery; a prepared one keeps its error for its launch.
LEMMA RecoversEnds ==
  ASSUME NEW s, WellFormed(s), IsActive(s), NEW op, op.id = s.op.id, NEW status, NEW error
  PROVE  LET tr == Recovers(s, op, status, error)
         IN /\ Silent(tr) /\ Ended(s, tr.state)
            /\ op.mode = "Prepared" /\ error # "none" => Stuck(tr.state)
<1> DEFINE p == Projection(op.id, "Finalizing", status)
           q == Projection(op.id, "RecoveryRequired", status)
           u == Stable(s.next, p, error)
           v == RecoveryRequired(s.next, q, error)
<1>1. IsProjection(p) /\ p.phase = "Finalizing" /\ IsProjection(q) /\ q.phase = "RecoveryRequired"
  BY ProjectionShape
<1>2. IsOperation(s.op)
  BY DEF WellFormed, IsState
<1> HIDE DEF p, q
<1>3. IsState(u) /\ u.kind = "Stable" /\ u.next = s.next /\ u.projection = p /\ u.error = error
  BY <1>1, <1>2, StateShape
<1>4. IsState(v) /\ v.kind = "RecoveryRequired" /\ v.next = s.next /\ v.projection = q
  BY <1>1, <1>2, StateShape
<1> HIDE DEF u, v
<1>5. WellFormed(u) /\ ~IsActive(u) /\ WellFormed(v) /\ ~IsActive(v)
  BY <1>1, <1>3, <1>4 DEF WellFormed, IsActive, IsBusy
<1>6. error # "none" => Stuck(u)
  BY <1>1, <1>3 DEF Stuck, IsBusy
<1>7. Recovers(s, op, status, error) =
        [disposition |-> "RecoveryRequired",
         state |-> IF op.mode = "Prepared" THEN u ELSE v, effects |-> <<>>]
  BY DEF Recovers, Goes, u, v, p, q
<1> QED
  BY <1>3, <1>4, <1>5, <1>6, <1>7 DEF Silent, Ended

\* Either of them, as the error asks.
LEMMA FailsOrRecoversEnds ==
  ASSUME NEW s, WellFormed(s), IsActive(s), NEW op, op.id = s.op.id, NEW status, NEW error
  PROVE  LET tr == FailsOrRecovers(s, op, status, error)
         IN /\ Silent(tr) /\ Ended(s, tr.state)
            /\ op.mode = "Prepared" /\ error # "none" => Stuck(tr.state)
  BY FailsEnds, RecoversEnds DEF FailsOrRecovers

-----------------------------------------------------------------------------
(* Operations that begin and go on.                                         *)

SpawnsOther(tr) == \E e : SpawnsOne(tr, e) /\ e.correlation.effect # "Finalize"

\* The states of a new operation, and of one that goes on.
LEMMA NewOperation ==
  ASSUME NEW s, WellFormed(s), ~IsActive(s), HasBase(s), NEW o, IsOperation(o), o.id = s.next,
         NEW stage \in {"Reserved", "Preflighting", "Mutating"},
         \/ o.prefix = "none" /\ o.pending.op = s.next
         \/ o.prefix \in {"preflight", "audit"} /\ ~IsBusy(o.pending)
  PROVE  /\ Begun(s, Transitioning(s.next + 1, o, stage))
         /\ Begun(s, Reconciling(s.next + 1, o))
<1> DEFINE t == Transitioning(s.next + 1, o, stage)
           r == Reconciling(s.next + 1, o)
<1>1. IsProjection(s.projection)
  BY DEF WellFormed, IsState
<1>2. IsState(t) /\ t.kind = "Transitioning" /\ t.stage = stage /\ t.op = o /\ t.next = s.next + 1
  BY <1>1, StateShape
<1>3. IsState(r) /\ r.kind = "Reconciling" /\ r.op = o /\ r.next = s.next + 1
  BY <1>1, StateShape
<1>4. s.next \in Nat /\ s.next >= 1
  BY DEF WellFormed
<1> HIDE DEF t, r
<1>5. WellFormed(t) /\ IsActive(t)
  BY <1>2, <1>4 DEF WellFormed, IsActive
<1>6. WellFormed(r) /\ IsActive(r)
  BY <1>3, <1>4 DEF WellFormed, IsActive
<1> QED
  BY <1>2, <1>3, <1>5, <1>6 DEF Begun, t, r

\* A request is refused or begins an operation with one effect.
LEMMA StartReduces ==
  ASSUME NEW s, WellFormed(s), NEW i
  PROVE  LET tr == ReduceStart(s, i)
         IN Stands(tr) \/ (Begun(s, tr.state) /\ SpawnsOther(tr))
<1> SUFFICES ASSUME HasBase(s)
             PROVE  LET tr == ReduceStart(s, i) IN Begun(s, tr.state) /\ SpawnsOther(tr)
  BY DEF ReduceStart, Stays, Goes, Stands
<1> DEFINE o == Operation(s, i.active, "Ordinary", "none")
           e == [Effect(o, "Mutate") EXCEPT !.healthy = i.healthy]
           u == Transitioning(s.next + 1, o, "Mutating")
<1>p. IsProjection(s.projection)
  BY DEF WellFormed, IsState
<1>1. IsOperation(o) /\ o.id = s.next /\ o.prefix = "none" /\ o.pending.op = s.next
  BY <1>p, OperationShape
<1>2. e.mode = "Spawn" /\ e.correlation = Correlation(o, "Mutate")
  BY ToldEffectShape
<1>3. ~IsActive(s)
  BY DEF HasBase, IsActive
<1>4. ReduceStart(s, i) = [disposition |-> "EffectEmitting", state |-> u, effects |-> <<e>>]
  BY DEF ReduceStart, Mutates, Emits
<1> HIDE DEF o, e
<1>5. Begun(s, u)
  BY <1>1, <1>3, NewOperation
<1>6. u.kind = "Transitioning" /\ u.stage = "Mutating" /\ u.op = o
  BY DEF Transitioning
<1> HIDE DEF u
<1>7. Awaited(u, e.correlation) /\ e.correlation.effect = "Mutate"
  BY <1>2, <1>6 DEF Awaited, Mine, IsActive, SameOperation, Correlation
<1> QED
  BY <1>2, <1>4, <1>5, <1>7 DEF SpawnsOther, SpawnsOne

\* So is a recovery.
LEMMA RecoverReduces ==
  ASSUME NEW s, WellFormed(s), NEW i
  PROVE  LET tr == ReduceRecover(s, i)
         IN Stands(tr) \/ (Begun(s, tr.state) /\ SpawnsOther(tr))
<1> SUFFICES ASSUME HasBase(s)
             PROVE  LET tr == ReduceRecover(s, i) IN Begun(s, tr.state) /\ SpawnsOther(tr)
  BY DEF ReduceRecover, Stays, Goes, Stands
<1> DEFINE o == Operation(s, s.projection.proxy.desired, "Ordinary", "none")
           e == [Effect(o, "Recover") EXCEPT !.healthy = i.healthy, !.action = i.action]
           u == Transitioning(s.next + 1, o, "Mutating")
<1>p. IsProjection(s.projection)
  BY DEF WellFormed, IsState
<1>1. IsOperation(o) /\ o.id = s.next /\ o.prefix = "none" /\ o.pending.op = s.next
  BY <1>p, OperationShape
<1>2. e.mode = "Spawn" /\ e.correlation = Correlation(o, "Recover")
  BY RecoverEffectShape, Zenon
<1>3. ~IsActive(s)
  BY DEF HasBase, IsActive
<1>4. ReduceRecover(s, i) = [disposition |-> "EffectEmitting", state |-> u, effects |-> <<e>>]
  BY Zenon DEF ReduceRecover, Emits
<1> HIDE DEF o, e
<1>5. Begun(s, u)
  BY <1>1, <1>3, NewOperation
<1>6. u.kind = "Transitioning" /\ u.stage = "Mutating" /\ u.op = o
  BY DEF Transitioning
<1> HIDE DEF u
<1>7. Awaited(u, e.correlation) /\ e.correlation.effect = "Recover"
  BY <1>2, <1>6 DEF Awaited, Mine, IsActive, SameOperation, Correlation
<1> QED
  BY <1>2, <1>4, <1>5, <1>7 DEF SpawnsOther, SpawnsOne

\* So is an audit.
LEMMA AuditReduces ==
  ASSUME NEW s, WellFormed(s), NEW i
  PROVE  LET tr == ReduceAudit(s, i)
         IN Stands(tr) \/ (Begun(s, tr.state) /\ SpawnsOther(tr))
<1> SUFFICES ASSUME HasBase(s)
             PROVE  LET tr == ReduceAudit(s, i) IN Begun(s, tr.state) /\ SpawnsOther(tr)
  BY DEF ReduceAudit, Stays, Goes, Stands
<1> DEFINE b == Operation(s, s.projection.proxy.desired, "Ordinary", "audit")
           o == [b EXCEPT !.pending = b.previous]
           e == [Effect(o, "Audit") EXCEPT !.healthy = i.healthy]
           u == Reconciling(s.next + 1, o)
<1>p. IsProjection(s.projection)
  BY DEF WellFormed, IsState
<1>1. IsOperation(o) /\ o.id = s.next /\ o.prefix = "audit" /\ o.pending = s.projection
  BY <1>p, AuditShape
<1>2. e.mode = "Spawn" /\ e.correlation = Correlation(o, "Audit")
  BY ToldEffectShape
<1>3. ~IsActive(s) /\ ~IsBusy(s.projection)
  BY DEF HasBase, IsActive, WellFormed
<1>4. ReduceAudit(s, i) = [disposition |-> "EffectEmitting", state |-> u, effects |-> <<e>>]
  BY DEF ReduceAudit, Emits
<1> HIDE DEF o, e
<1>5. Begun(s, u)
  BY <1>1, <1>3, NewOperation
<1>6. u.kind = "Reconciling" /\ u.op = o
  BY DEF Reconciling, Transitioning
<1> HIDE DEF u
<1>7. Awaited(u, e.correlation) /\ e.correlation.effect = "Audit"
  BY <1>1, <1>2, <1>6 DEF Awaited, Mine, IsActive, SameOperation, Correlation
<1> QED
  BY <1>2, <1>4, <1>5, <1>7 DEF SpawnsOther, SpawnsOne

Reserved(s) == s.kind = "Transitioning" /\ s.stage = "Reserved"

\* A reservation is refused or begins a prepared operation without an effect.
LEMMA ReserveReduces ==
  ASSUME NEW s, WellFormed(s), NEW i
  PROVE  LET tr == ReduceReserve(s, i)
         IN \/ Stands(tr) /\ tr.disposition = "Rejected"
            \/ /\ Silent(tr) /\ Begun(s, tr.state) /\ Reserved(tr.state)
               /\ tr.state.op.mode = "Prepared" /\ tr.state.op.prefix = "none"
<1> SUFFICES ASSUME HasBase(s)
             PROVE  LET tr == ReduceReserve(s, i)
                    IN /\ Silent(tr) /\ Begun(s, tr.state) /\ Reserved(tr.state)
                       /\ tr.state.op.mode = "Prepared" /\ tr.state.op.prefix = "none"
  BY DEF ReduceReserve, Stays, Goes, Stands
<1> DEFINE o == Operation(s, i.active, "Prepared", "none")
           u == Transitioning(s.next + 1, o, "Reserved")
<1>p. IsProjection(s.projection)
  BY DEF WellFormed, IsState
<1>1. /\ IsOperation(o) /\ o.id = s.next /\ o.prefix = "none" /\ o.pending.op = s.next
      /\ o.mode = "Prepared"
  BY <1>p, OperationShape
<1>3. ~IsActive(s)
  BY DEF HasBase, IsActive
<1>4. ReduceReserve(s, i) = [disposition |-> "Accepted", state |-> u, effects |-> <<>>]
  BY DEF ReduceReserve, Goes
<1> HIDE DEF o
<1>5. Begun(s, u)
  BY <1>1, <1>3, NewOperation
<1>6. u.kind = "Transitioning" /\ u.stage = "Reserved" /\ u.op = o
  BY DEF Transitioning
<1> HIDE DEF u
<1> QED
  BY <1>1, <1>4, <1>5, <1>6 DEF Silent, Reserved

\* The preflight of a reserved operation is refused or becomes its one effect.
LEMMA PreflightReduces ==
  ASSUME NEW s, WellFormed(s), Reserved(s), NEW i
  PROVE  LET tr == ReducePreflight(s, i)
         IN \/ Stands(tr)
            \/ /\ SameOp(s, tr.state) /\ SpawnsOther(tr) /\ tr.state.stage = "Preflighting"
               /\ tr.state.kind = "Transitioning"
<1> SUFFICES ASSUME s.op.request = i.active
             PROVE  LET tr == ReducePreflight(s, i)
                    IN /\ SameOp(s, tr.state) /\ SpawnsOther(tr) /\ tr.state.stage = "Preflighting"
                       /\ tr.state.kind = "Transitioning"
  BY DEF ReducePreflight, Stays, Goes, Stands, Reserved
<1> DEFINE e == Effect(s.op, "Preflight")
           u == [s EXCEPT !.stage = "Preflighting"]
<1>2. e.mode = "Spawn" /\ e.correlation = Correlation(s.op, "Preflight")
  BY EffectShape
<1>4. ReducePreflight(s, i) = [disposition |-> "EffectEmitting", state |-> u, effects |-> <<e>>]
  BY DEF ReducePreflight, Emits, Reserved
<1>5. /\ u.kind = "Transitioning" /\ u.stage = "Preflighting" /\ u.op = s.op /\ u.next = s.next
      /\ IsState(u)
  BY DEF WellFormed, IsState, Reserved
<1> HIDE DEF e, u
<1>6. SameOp(s, u)
  BY <1>5 DEF SameOp, WellFormed, IsActive, Reserved
<1>7. Awaited(u, e.correlation) /\ e.correlation.effect = "Preflight"
  BY <1>2, <1>5 DEF Awaited, Mine, IsActive, SameOperation, Correlation
<1> QED
  BY <1>2, <1>4, <1>5, <1>6, <1>7 DEF SpawnsOther, SpawnsOne

\* A reserved operation is refused or begins to work on the platform.
LEMMA ExecuteReduces ==
  ASSUME NEW s, WellFormed(s), NEW i
  PROVE  LET tr == ReduceExecuteReserved(s, i)
         IN Stands(tr) \/ (Reserved(s) /\ SameOp(s, tr.state) /\ SpawnsOther(tr))
<1> SUFFICES ASSUME Reserved(s), Mine(s, i.correlation), s.op.request = i.active,
                    i.token.request = i.active
             PROVE  LET tr == ReduceExecuteReserved(s, i)
                    IN SameOp(s, tr.state) /\ SpawnsOther(tr)
  BY DEF ReduceExecuteReserved, Stays, Goes, Stands, Reserved
<1> DEFINE e == [Effect(s.op, "Mutate") EXCEPT !.healthy = i.healthy]
           u == Transitioning(s.next, s.op, "Mutating")
<1>2. e.mode = "Spawn" /\ e.correlation = Correlation(s.op, "Mutate")
  BY ToldEffectShape
<1>4. ReduceExecuteReserved(s, i) = [disposition |-> "EffectEmitting", state |-> u, effects |-> <<e>>]
  BY DEF ReduceExecuteReserved, Emits, Reserved, Mutates
<1>5. /\ u.kind = "Transitioning" /\ u.stage = "Mutating" /\ u.op = s.op /\ u.next = s.next
      /\ IsState(u)
  BY StateShape DEF WellFormed, IsState
<1> HIDE DEF e, u
<1>6. SameOp(s, u)
  BY <1>5 DEF SameOp, WellFormed, IsActive, Reserved
<1>7. Awaited(u, e.correlation) /\ e.correlation.effect = "Mutate"
  BY <1>2, <1>5 DEF Awaited, Mine, IsActive, SameOperation, Correlation
<1> QED
  BY <1>2, <1>4, <1>5, <1>6, <1>7 DEF SpawnsOther, SpawnsOne

-----------------------------------------------------------------------------
(* Answers.                                                                 *)

\* What the end of the awaited effect does to its operation.
Answered(s, tr) ==
  \/ Silent(tr) /\ Ended(s, tr.state) /\ Truthful(s, tr.state)
  \/ Silent(tr) /\ Continued(s, tr.state)
  \/ Continued(s, tr.state) /\ SpawnsOther(tr)

\* An operation that ends in a Stable state.
LEMMA StableEnds ==
  ASSUME NEW s, WellFormed(s), IsActive(s), NEW n, NEW p, IsProjection(p), NEW e,
         n = s.next \/ (n = s.op.id /\ s.op.prefix # "none")
  PROVE  LET u == Stable(n, p, e)
         IN Ended(s, u) /\ u.kind = "Stable" /\ u.projection = p /\ u.error = e
<1> DEFINE u == Stable(n, p, e)
<1>1. IsOperation(s.op)
  BY DEF WellFormed, IsState
<1>2. IsState(u) /\ u.kind = "Stable" /\ u.next = n /\ u.projection = p /\ u.error = e
  BY <1>1, StateShape
<1>3. n \in Nat /\ n >= 1
  BY DEF WellFormed
<1> HIDE DEF u
<1>4. WellFormed(u) /\ ~IsActive(u)
  BY <1>2, <1>3 DEF WellFormed, IsActive
<1> QED
  BY <1>2, <1>4 DEF Ended, u

\* A preflight's answer gives its number back, returns to the reservation, or ends a launch
\* that has already failed.
LEMMA PreflightAnswer ==
  ASSUME NEW s, WellFormed(s), NEW i, Awaited(s, i.correlation), i.correlation.effect = "Preflight"
  PROVE  Answered(s, ReducePreflightFinished(s, i))
<1> DEFINE u == [s EXCEPT !.stage = "Reserved"]
<1>1. IsActive(s) /\ s.kind = "Transitioning" /\ s.stage = "Preflighting"
      /\ Matching(s, i.correlation, "Preflight")
  BY DEF Awaited, Mine, Matching
<1>2. CASE s.deferred # "none"
  <2>1. ReducePreflightFinished(s, i) = FailsOrRecovers(s, s.op, s.op.previous.proxy, s.deferred)
    BY <1>1, <1>2 DEF ReducePreflightFinished
  <2> QED
    BY <1>1, <1>2, <2>1, FailsOrRecoversEnds DEF Answered, Truthful
<1>3. CASE s.deferred = "none"
  <2>1. ReducePreflightFinished(s, i) = [disposition |-> "Accepted", state |-> u, effects |-> <<>>]
    BY <1>1, <1>3 DEF ReducePreflightFinished, Goes
  <2>2. u.kind = "Transitioning" /\ u.stage = "Reserved" /\ u.op = s.op /\ u.next = s.next
        /\ IsState(u)
    BY <1>1 DEF WellFormed, IsState
  <2> HIDE DEF u
  <2>3. SameOp(s, u)
    BY <1>1, <2>2 DEF SameOp, WellFormed, IsActive
  <2> QED
    BY <2>1, <2>2, <2>3 DEF Answered, Continued, WaitsOn, Silent
<1> QED
  BY <1>2, <1>3

\* After a mutation the operation is observed.
LEMMA MutatedGoesOn ==
  ASSUME NEW s, WellFormed(s), s.kind = "Transitioning", s.stage = "Mutating", NEW i,
         NEW o, IsOperation(o), o.id = s.op.id, o.prefix = s.op.prefix, o.mode = s.op.mode,
         o.pending = s.op.pending
  PROVE  Answered(s, Mutated(s, o, i))
<1> DEFINE e == [Effect(o, "Observe") EXCEPT !.healthy = TRUE]
           u == Reconciling(s.next, o)
<1>1. IsProjection(s.projection)
  BY DEF WellFormed, IsState
<1>2. e.mode = "Spawn" /\ e.correlation = Correlation(o, "Observe")
  BY ToldEffectShape
<1>3. IsState(u) /\ u.kind = "Reconciling" /\ u.op = o /\ u.next = s.next
  BY <1>1, StateShape
<1>4. Mutated(s, o, i) = [disposition |-> "EffectEmitting", state |-> u, effects |-> <<e>>]
  BY DEF Mutated, Emits
<1> HIDE DEF e, u
<1>5. SameOp(s, u)
  BY <1>3 DEF SameOp, WellFormed, IsActive
<1>6. Awaited(u, e.correlation) /\ e.correlation.effect = "Observe"
  BY <1>2, <1>3 DEF Awaited, Mine, IsActive, SameOperation, Correlation
<1> QED
  BY <1>2, <1>4, <1>5, <1>6 DEF Answered, SpawnsOther, SpawnsOne, Continued, Early

\* A mutation's or a recovery's answer is observed next, or ends the operation.
LEMMA MutationAnswer ==
  ASSUME NEW s, WellFormed(s), NEW i, Awaited(s, i.correlation),
         NEW effect \in {"Mutate", "Recover"}, i.correlation.effect = effect
  PROVE  Answered(s, ReduceMutationFinished(s, i, effect))
<1>1. /\ IsActive(s) /\ s.kind = "Transitioning" /\ s.stage = "Mutating"
      /\ Matching(s, i.correlation, effect)
  BY DEF Awaited, Mine, Matching
<1>2. CASE i.outcome.error # "none"
  <2>1. ReduceMutationFinished(s, i, effect)
          = FailsOrRecovers(s, s.op, i.outcome.proxy, i.outcome.error)
    BY <1>1, <1>2 DEF ReduceMutationFinished
  <2> QED
    BY <1>1, <1>2, <2>1, FailsOrRecoversEnds DEF Answered, Truthful
<1>3. CASE i.outcome.error = "none"
  <2> DEFINE o == IF effect = "Recover"
                    THEN [s.op EXCEPT !.request = i.outcome.proxy.desired] ELSE s.op
  <2>1. ReduceMutationFinished(s, i, effect) = Mutated(s, o, i)
    BY <1>1, <1>3 DEF ReduceMutationFinished
  <2>2. /\ IsOperation(o) /\ o.id = s.op.id /\ o.prefix = s.op.prefix /\ o.mode = s.op.mode
        /\ o.pending = s.op.pending
    BY DEF WellFormed, IsState, IsOperation
  <2> HIDE DEF o
  <2> QED
    BY <1>1, <2>1, <2>2, MutatedGoesOn
<1> QED
  BY <1>2, <1>3

\* An observation ends the operation.
LEMMA ObservationAnswer ==
  ASSUME NEW s, WellFormed(s), NEW i, Awaited(s, i.correlation), i.correlation.effect = "Observe"
  PROVE  Answered(s, ReduceObservationFinished(s, i))
<1>1. IsActive(s) /\ s.kind = "Reconciling" /\ Matching(s, i.correlation, "Observe")
  BY DEF Awaited, Mine, Matching
<1>2. CASE i.outcome.error # "none"
  <2>1. ReduceObservationFinished(s, i) = Recovers(s, s.op, i.outcome.proxy, i.outcome.error)
    BY <1>1, <1>2 DEF ReduceObservationFinished
  <2> QED
    BY <1>1, <1>2, <2>1, RecoversEnds DEF Answered, Truthful
<1>3. CASE i.outcome.error = "none"
  <2> DEFINE p == Projection(s.op.id, "Applied", i.outcome.proxy)
             u == Stable(s.next, p, "none")
  <2>1. ReduceObservationFinished(s, i) = [disposition |-> "Committed", state |-> u, effects |-> <<>>]
    BY <1>1, <1>3 DEF ReduceObservationFinished, Goes
  <2>2. IsProjection(p) /\ p.op = s.op.id /\ p.phase = "Applied"
    BY ProjectionShape
  <2> HIDE DEF p
  <2>3. Ended(s, u) /\ u.kind = "Stable" /\ u.projection = p
    BY <1>1, <2>2, StableEnds
  <2> QED
    BY <2>1, <2>2, <2>3 DEF Answered, Truthful, Good, Silent
<1> QED
  BY <1>2, <1>3

\* An audit gives its number back or commits what it has seen.
LEMMA AuditAnswer ==
  ASSUME NEW s, WellFormed(s), NEW i, Awaited(s, i.correlation), i.correlation.effect = "Audit"
  PROVE  Answered(s, ReduceAuditFinished(s, i))
<1>1. /\ IsActive(s) /\ s.kind = "Reconciling" /\ Matching(s, i.correlation, "Audit")
      /\ s.op.prefix = "audit"
  BY DEF Awaited, Mine, Matching, SameOperation, Correlation
<1>2. CASE ~i.outcome.mutated /\ i.outcome.error = "none"
  <2> DEFINE u == Stable(s.next - 1, s.op.previous, "none")
  <2>1. ReduceAuditFinished(s, i) = [disposition |-> "Accepted", state |-> u, effects |-> <<>>]
    BY <1>1, <1>2 DEF ReduceAuditFinished, GivesBack, Goes
  <2>2. IsProjection(s.op.previous) /\ s.next - 1 = s.op.id
    BY <1>1 DEF WellFormed, IsState, IsOperation
  <2>3. Ended(s, u)
    BY <1>1, <2>2, StableEnds
  <2> QED
    BY <1>1, <2>1, <2>3 DEF Answered, Truthful, Silent
<1>3. CASE ~(~i.outcome.mutated /\ i.outcome.error = "none")
  <2> DEFINE p == Projection(s.op.id, "Pending", [desired |-> s.op.request, phase |-> "Pending"])
             o == [s.op EXCEPT !.pending = p]
             e == [Effect(o, "CommitAudit") EXCEPT !.outcome = i.outcome]
             u == Transitioning(s.next, o, "Mutating")
  <2>1. ReduceAuditFinished(s, i) = [disposition |-> "EffectEmitting", state |-> u, effects |-> <<e>>]
    BY <1>1, <1>3 DEF ReduceAuditFinished, Emits
  <2>2. IsProjection(p) /\ p.op = s.op.id
    BY ProjectionShape
  <2> HIDE DEF p
  <2>3. /\ IsOperation(o) /\ o.id = s.op.id /\ o.prefix = s.op.prefix /\ o.mode = s.op.mode
        /\ o.pending = p
    BY <2>2 DEF WellFormed, IsState, IsOperation
  <2>4. e.mode = "Spawn" /\ e.correlation = Correlation(o, "CommitAudit")
    BY ToldEffectShape
  <2> HIDE DEF o, e
  <2>5. /\ IsState(u) /\ u.kind = "Transitioning" /\ u.stage = "Mutating" /\ u.op = o
        /\ u.next = s.next
    BY <2>3, StateShape DEF WellFormed, IsState
  <2> HIDE DEF u
  <2>6. SameOp(s, u)
    BY <1>1, <2>2, <2>3, <2>5 DEF SameOp, WellFormed, IsActive
  <2>7. Awaited(u, e.correlation) /\ e.correlation.effect = "CommitAudit"
    BY <1>1, <2>3, <2>4, <2>5 DEF Awaited, Mine, IsActive, SameOperation, Correlation
  <2> QED
    BY <1>1, <2>1, <2>4, <2>6, <2>7 DEF Answered, SpawnsOther, SpawnsOne, Continued, Early
<1> QED
  BY <1>2, <1>3

\* A committed audit ends the operation.
LEMMA AuditCommitAnswer ==
  ASSUME NEW s, WellFormed(s), NEW i, Awaited(s, i.correlation),
         i.correlation.effect = "CommitAudit"
  PROVE  Answered(s, ReduceAuditCommitted(s, i))
<1>1. /\ IsActive(s) /\ s.kind = "Transitioning" /\ Matching(s, i.correlation, "CommitAudit")
      /\ s.op.prefix = "audit"
  BY DEF Awaited, Mine, Matching, SameOperation, Correlation
<1>2. CASE i.outcome.error # "none"
  <2>1. ReduceAuditCommitted(s, i) = Recovers(s, s.op, i.outcome.proxy, i.outcome.error)
    BY <1>1, <1>2 DEF ReduceAuditCommitted
  <2> QED
    BY <1>1, <1>2, <2>1, RecoversEnds DEF Answered, Truthful
<1> DEFINE q == Projection(s.op.id, "RecoveryRequired", i.outcome.proxy)
           v == RecoveryRequired(s.next, q, "none")
           p == Projection(s.op.id, "Applied", i.outcome.proxy)
           u == Stable(s.next, p, "none")
<1>3. IsProjection(p) /\ IsProjection(q) /\ q.phase = "RecoveryRequired"
  BY ProjectionShape
<1>4. CASE i.outcome.error = "none" /\ i.outcome.proxy.phase = "Drift"
  <2>1. ReduceAuditCommitted(s, i)
          = [disposition |-> "RecoveryRequired", state |-> v, effects |-> <<>>]
    BY <1>1, <1>4 DEF ReduceAuditCommitted, Goes
  <2> HIDE DEF q
  <2>2. IsState(v) /\ v.kind = "RecoveryRequired" /\ v.next = s.next /\ v.projection = q
    BY <1>3, StateShape DEF WellFormed, IsState
  <2> HIDE DEF v
  <2>3. WellFormed(v) /\ ~IsActive(v)
    BY <1>3, <2>2 DEF WellFormed, IsActive, IsBusy
  <2> QED
    BY <1>1, <2>1, <2>2, <2>3 DEF Answered, Truthful, Silent, Ended
<1>5. CASE i.outcome.error = "none" /\ i.outcome.proxy.phase # "Drift"
  <2>1. ReduceAuditCommitted(s, i) = [disposition |-> "Committed", state |-> u, effects |-> <<>>]
    BY <1>1, <1>5 DEF ReduceAuditCommitted, Goes
  <2> HIDE DEF p
  <2>2. Ended(s, u)
    BY <1>1, <1>3, StableEnds
  <2> QED
    BY <1>1, <2>1, <2>2 DEF Answered, Truthful, Silent
<1> QED
  BY <1>2, <1>4, <1>5

\* A finalizer ends the operation, with an error.
LEMMA FinalizedAnswer ==
  ASSUME NEW s, WellFormed(s), NEW i, Awaited(s, i.correlation), i.correlation.effect = "Finalize"
  PROVE  Answered(s, ReduceFinalized(s, i))
<1>1. IsActive(s) /\ s.stage = "Finalizing" /\ Matching(s, i.correlation, "Finalize")
  BY DEF Awaited, Mine, Matching
<1> DEFINE error == IF i.outcome.error = "none" THEN "error" ELSE i.outcome.error
<1>2. ReduceFinalized(s, i) = Recovers(s, s.op, i.outcome.proxy, error)
  BY <1>1 DEF ReduceFinalized
<1>3. error # "none"
  OBVIOUS
<1> HIDE DEF error
<1> QED
  BY <1>1, <1>2, <1>3, RecoversEnds DEF Answered, Truthful

\* The effect was lost: it is replaced by a finalizer, unless the launch had already
\* failed its preflight.
LEMMA LostAnswer ==
  ASSUME NEW s, WellFormed(s), NEW i, Awaited(s, i.correlation)
  PROVE  LET tr == EndsWithoutAnswer(s, i)
         IN \/ Silent(tr) /\ Ended(s, tr.state) /\ Truthful(s, tr.state)
            \/ Continued(s, tr.state) /\ \E e : SpawnsOne(tr, e)
<1>1. IsActive(s) /\ Mine(s, i.correlation)
  BY DEF Awaited, Mine
<1>2. CASE s.stage = "Preflighting" /\ i.correlation.effect = "Preflight" /\ s.deferred # "none"
  <2>1. EndsWithoutAnswer(s, i) = FailsOrRecovers(s, s.op, s.op.previous.proxy, s.deferred)
    BY <1>1, <1>2 DEF EndsWithoutAnswer
  <2> QED
    BY <1>1, <1>2, <2>1, FailsOrRecoversEnds DEF Truthful
<1>3. CASE ~(s.stage = "Preflighting" /\ i.correlation.effect = "Preflight" /\ s.deferred # "none")
  <2> DEFINE o == [s.op EXCEPT !.pending.phase = "Finalizing"]
             e == Effect(s.op, "Finalize")
             u == Transitioning(s.next, o, "Finalizing")
  <2>1. EndsWithoutAnswer(s, i) = [disposition |-> "EffectEmitting", state |-> u, effects |-> <<e>>]
    BY <1>1, <1>3 DEF EndsWithoutAnswer, Finalizes, Emits
  <2>2. /\ IsOperation(o) /\ o.id = s.op.id /\ o.prefix = s.op.prefix /\ o.mode = s.op.mode
        /\ o.pending.op = s.op.pending.op
    BY DEF WellFormed, IsState, IsOperation, IsProjection
  <2>3. e.mode = "Spawn" /\ e.correlation = Correlation(s.op, "Finalize")
    BY EffectShape
  <2> HIDE DEF o, e
  <2>4. /\ IsState(u) /\ u.kind = "Transitioning" /\ u.stage = "Finalizing" /\ u.op = o
        /\ u.next = s.next
    BY <2>2, StateShape DEF WellFormed, IsState
  <2> HIDE DEF u
  <2>5. SameOp(s, u)
    BY <1>1, <2>2, <2>4 DEF SameOp, WellFormed, IsActive
  <2>6. Awaited(u, e.correlation)
    BY <2>2, <2>3, <2>4 DEF Awaited, Mine, IsActive, SameOperation, Correlation
  <2> QED
    BY <2>1, <2>3, <2>4, <2>5, <2>6 DEF SpawnsOne, Continued, WaitsOn
<1> QED
  BY <1>2, <1>3

AnswerTo(effect) ==
  CASE effect = "Preflight"   -> "PreflightFinished"
    [] effect = "CommitAudit" -> "AuditCommitted"
    [] effect = "Mutate"      -> "MutationFinished"
    [] effect = "Observe"     -> "ObservationFinished"
    [] effect = "Audit"       -> "AuditFinished"
    [] effect = "Recover"     -> "RecoveryFinished"
    [] effect = "Finalize"    -> "Finalized"
    [] effect = "Shutdown"    -> "ShutdownFinished"

\* The answer of the awaited effect is reduced as its own.
LEMMA AnswerReduces ==
  ASSUME NEW s, WellFormed(s), NEW i, Awaited(s, i.correlation),
         i.kind = AnswerTo(i.correlation.effect)
  PROVE  Answered(s, Reduce(s, i))
<1>1. i.correlation.effect
        \in {"Preflight", "Mutate", "Recover", "CommitAudit", "Finalize", "Observe", "Audit"}
  BY DEF Awaited
<1>2. CASE i.correlation.effect = "Preflight"
  <2>1. Reduce(s, i) = ReducePreflightFinished(s, i)
    BY <1>2 DEF AnswerTo, Reduce
  <2> QED BY <1>2, <2>1, PreflightAnswer
<1>3. CASE i.correlation.effect = "Mutate"
  <2>1. Reduce(s, i) = ReduceMutationFinished(s, i, "Mutate")
    BY <1>3 DEF AnswerTo, Reduce
  <2> QED BY <1>3, <2>1, MutationAnswer
<1>4. CASE i.correlation.effect = "Recover"
  <2>1. Reduce(s, i) = ReduceMutationFinished(s, i, "Recover")
    BY <1>4 DEF AnswerTo, Reduce
  <2> QED BY <1>4, <2>1, MutationAnswer
<1>5. CASE i.correlation.effect = "CommitAudit"
  <2>1. Reduce(s, i) = ReduceAuditCommitted(s, i)
    BY <1>5 DEF AnswerTo, Reduce
  <2> QED BY <1>5, <2>1, AuditCommitAnswer
<1>6. CASE i.correlation.effect = "Finalize"
  <2>1. Reduce(s, i) = ReduceFinalized(s, i)
    BY <1>6 DEF AnswerTo, Reduce
  <2> QED BY <1>6, <2>1, FinalizedAnswer
<1>7. CASE i.correlation.effect = "Observe"
  <2>1. Reduce(s, i) = ReduceObservationFinished(s, i)
    BY <1>7 DEF AnswerTo, Reduce
  <2> QED BY <1>7, <2>1, ObservationAnswer
<1>8. CASE i.correlation.effect = "Audit"
  <2>1. Reduce(s, i) = ReduceAuditFinished(s, i)
    BY <1>8 DEF AnswerTo, Reduce
  <2> QED BY <1>8, <2>1, AuditAnswer
<1> QED
  BY <1>1, <1>2, <1>3, <1>4, <1>5, <1>6, <1>7, <1>8

\* The effect of an operation that is over changes nothing.
LEMMA LateReduces ==
  ASSUME NEW s, WellFormed(s), NEW i, Outlived(s, i.correlation), i.kind = "TaskFailed"
  PROVE  Stands(Reduce(s, i))
<1>1. ~Mine(s, i.correlation)
  BY DEF Outlived, Mine, Floor, SameOperation, Correlation, WellFormed
<1>2. Reduce(s, i) = EndsWithoutAnswer(s, i)
  BY DEF Reduce, ReduceTaskFailed, Outlived
<1> QED
  BY <1>1, <1>2 DEF EndsWithoutAnswer, Stays, Goes, Stands

\* The lost effect of the operation in hand.
LEMMA LostReduces ==
  ASSUME NEW s, WellFormed(s), NEW i, Awaited(s, i.correlation), i.kind = "TaskFailed"
  PROVE  LET tr == Reduce(s, i)
         IN \/ Silent(tr) /\ Ended(s, tr.state) /\ Truthful(s, tr.state)
            \/ Continued(s, tr.state) /\ \E e : SpawnsOne(tr, e)
<1>1. i.correlation.prefix # "shutdown"
  BY DEF Awaited, Mine, SameOperation, Correlation, WellFormed
<1>2. Reduce(s, i) = EndsWithoutAnswer(s, i)
  BY <1>1 DEF Reduce, ReduceTaskFailed
<1> QED
  BY <1>2, LostAnswer

-----------------------------------------------------------------------------
(* What the launch tells the machine.                                       *)

\* The operation shows that its launch is being finalized, or a failure that waits for
\* its launch takes another error.
Marked(s, u, error) ==
  \/ SameOp(s, u) /\ u.kind = s.kind /\ u.stage = s.stage
  \/ /\ ~IsActive(s) /\ ~IsActive(u) /\ WellFormed(u) /\ u.next = s.next
     /\ s.kind = "Stable" /\ u.kind = "Stable" /\ u.projection = s.projection /\ u.error = error

\* The mark of a launch changes nothing, its operation's phase or its failure's error.
LEMMA MarkReduces ==
  ASSUME NEW s, WellFormed(s), NEW i, i.correlation.prefix = "none", i.kind = "MarkFinalizing"
  PROVE  LET tr == Reduce(s, i) IN Stands(tr) \/ (Silent(tr) /\ Marked(s, tr.state, i.error))
<1>0. Reduce(s, i) = ReduceMarkFinalizing(s, i)
  BY DEF Reduce
<1>1. CASE Mine(s, i.correlation)
  <2> DEFINE u == [s EXCEPT !.op.pending.phase = "Finalizing"]
  <2>1. Reduce(s, i) = [disposition |-> "Accepted", state |-> u, effects |-> <<>>]
    BY <1>0, <1>1 DEF ReduceMarkFinalizing, Goes
  <2>2. /\ IsState(u) /\ u.kind = s.kind /\ u.stage = s.stage /\ u.next = s.next
        /\ u.op.id = s.op.id /\ u.op.prefix = s.op.prefix /\ u.op.mode = s.op.mode
        /\ u.op.pending.op = s.op.pending.op
    BY DEF WellFormed, IsState, IsOperation, IsProjection
  <2> HIDE DEF u
  <2>3. IsActive(s) /\ s.op.prefix = "none"
    BY <1>1 DEF Mine, SameOperation, Correlation
  <2>4. SameOp(s, u)
    BY <2>2, <2>3 DEF SameOp, WellFormed, IsActive
  <2> QED
    BY <2>1, <2>2, <2>4 DEF Silent, Marked
<1>2. CASE /\ ~Mine(s, i.correlation) /\ s.kind = "Stable"
           /\ s.projection.op = i.token.id /\ s.projection.phase = "Finalizing"
  <2> DEFINE u == [s EXCEPT !.error = i.error]
  <2>1. Reduce(s, i) = [disposition |-> "Accepted", state |-> u, effects |-> <<>>]
    BY <1>0, <1>2 DEF ReduceMarkFinalizing, Goes
  <2>2. /\ IsState(u) /\ u.kind = "Stable" /\ u.next = s.next /\ u.projection = s.projection
        /\ u.error = i.error
    BY <1>2 DEF WellFormed, IsState
  <2> HIDE DEF u
  <2>3. WellFormed(u) /\ ~IsActive(u) /\ ~IsActive(s)
    BY <1>2, <2>2 DEF WellFormed, IsActive
  <2> QED
    BY <1>2, <2>1, <2>2, <2>3 DEF Silent, Marked
<1>3. CASE /\ ~Mine(s, i.correlation)
           /\ ~(s.kind = "Stable" /\ s.projection.op = i.token.id
                /\ s.projection.phase = "Finalizing")
  BY <1>0, <1>3 DEF ReduceMarkFinalizing, Stays, Goes, Stands
<1> QED
  BY <1>1, <1>2, <1>3

\* The report of a failed launch ends its own operation, or one whose number it may
\* have; it finds an operation that works on the platform only as a finalizer.
Reported(s, tr) ==
  \/ Stands(tr)
  \/ /\ Silent(tr) /\ WellFormed(tr.state) /\ ~IsActive(tr.state) /\ tr.state.next = s.next
     /\ IsActive(s) => Reserved(s) \/ Early(s)
  \/ /\ tr.disposition = "EffectEmitting" /\ tr.effects = <<CancelEffect(s.op, "Preflight")>>
     /\ SameOp(s, tr.state) /\ tr.state.kind = s.kind /\ tr.state.stage = s.stage

\* The launch's verdict leaves the machine at rest under the same next number.
LEMMA FailedLaunchRests ==
  ASSUME NEW s, WellFormed(s), NEW token, NEW status, NEW error
  PROVE  LET tr == FailedLaunch(s, token, status, error)
         IN Silent(tr) /\ WellFormed(tr.state) /\ ~IsActive(tr.state) /\ tr.state.next = s.next
<1> DEFINE p == Projection(token.id, "Failed", token.previous.proxy)
           q == Projection(token.id, "RecoveryRequired", status)
           u == Stable(s.next, p, error)
           v == RecoveryRequired(s.next, q, error)
<1>1. FailedLaunch(s, token, status, error) =
        IF error = "rollback"
          THEN [disposition |-> "RecoveryRequired", state |-> v, effects |-> <<>>]
          ELSE [disposition |-> "Failed", state |-> u, effects |-> <<>>]
  BY DEF FailedLaunch, Goes
<1>2. IsProjection(p) /\ IsProjection(q) /\ q.phase = "RecoveryRequired"
  BY ProjectionShape
<1>3. IsOperation(s.op)
  BY DEF WellFormed, IsState
<1> HIDE DEF p, q
<1>4. IsState(u) /\ u.kind = "Stable" /\ u.next = s.next
  BY <1>2, <1>3, StateShape
<1>5. IsState(v) /\ v.kind = "RecoveryRequired" /\ v.next = s.next /\ v.projection = q
  BY <1>2, <1>3, StateShape
<1> HIDE DEF u, v
<1>6. WellFormed(u) /\ ~IsActive(u) /\ WellFormed(v) /\ ~IsActive(v)
  BY <1>2, <1>4, <1>5 DEF WellFormed, IsActive, IsBusy
<1> QED
  BY <1>1, <1>4, <1>5, <1>6 DEF Silent

\* What ReduceFailReserved does with the report of a launch.
LEMMA ReportReduces ==
  ASSUME NEW s, WellFormed(s), NEW i, i.kind = "FailReserved", NEW token, i.token = token,
         i.correlation = Correlation(token, "none"), token.prefix = "none", token.id \in Nat,
         token.id < Floor(s) \/ Mine(s, i.correlation),
         Mine(s, i.correlation) => Reserved(s) \/ Early(s)
  PROVE  Reported(s, Reduce(s, i))
<1> DEFINE shown == Projected(s)
           its == shown.op = i.token.id
<1>0. Reduce(s, i) = ReduceFailReserved(s, i)
  BY DEF Reduce
<1>1. CASE its /\ shown.phase = "Finalizing" /\ (s.kind = "Stable" \/ IsActive(s))
  <2>1. Reduce(s, i) = FailedLaunch(s, i.token, shown.proxy, i.error)
    BY <1>0, <1>1 DEF ReduceFailReserved
  <2>2. IsActive(s) => Reserved(s) \/ Early(s)
    <3> SUFFICES ASSUME IsActive(s), ~Mine(s, i.correlation) PROVE Early(s)
      OBVIOUS
    <3>1. s.op.pending.op = token.id /\ IsBusy(s.op.pending)
      BY <1>1 DEF Projected, IsBusy
    <3>2. token.id < s.op.id
      BY DEF Floor
    <3>3. s.op.pending.op # s.op.id
      BY <3>1, <3>2 DEF WellFormed
    <3> QED
      BY <3>1, <3>3 DEF WellFormed, Early
  <2> QED
    BY <2>1, <2>2, FailedLaunchRests DEF Reported
<1>2. CASE /\ ~(its /\ shown.phase = "Finalizing")
           /\ its /\ shown.phase # "Pending" /\ s.kind \in {"Stable", "RecoveryRequired"}
  <2>1. Reduce(s, i) = FailedLaunch(s, i.token, shown.proxy, i.error)
    BY <1>0, <1>2 DEF ReduceFailReserved
  <2>2. ~IsActive(s)
    BY <1>2 DEF IsActive
  <2> QED
    BY <2>1, <2>2, FailedLaunchRests DEF Reported
<1>3. CASE its /\ shown.phase = "Finalizing" /\ ~(s.kind = "Stable" \/ IsActive(s))
  BY <1>0, <1>3 DEF ReduceFailReserved, Stays, Goes, Stands, Reported
<1>4. CASE /\ ~(its /\ shown.phase = "Finalizing")
           /\ ~(its /\ shown.phase # "Pending" /\ s.kind \in {"Stable", "RecoveryRequired"})
  <2>1. CASE s.kind # "Transitioning" \/ ~Mine(s, i.correlation)
    BY <1>0, <1>4, <2>1 DEF ReduceFailReserved, Stays, Goes, Stands, Reported
  <2>2. CASE s.kind = "Transitioning" /\ Mine(s, i.correlation) /\ s.stage = "Preflighting"
    <3>1. CASE s.deferred # "none"
      BY <1>0, <1>4, <2>2, <3>1 DEF ReduceFailReserved, Stays, Goes, Stands, Reported
    <3>2. CASE s.deferred = "none"
      <4> DEFINE u == [s EXCEPT !.deferred = i.error]
      <4>1. Reduce(s, i) = [disposition |-> "EffectEmitting", state |-> u,
                            effects |-> <<CancelEffect(s.op, "Preflight")>>]
        BY <1>0, <1>4, <2>2, <3>2 DEF ReduceFailReserved, Emits
      <4>2. IsState(u) /\ u.kind = s.kind /\ u.stage = s.stage /\ u.op = s.op /\ u.next = s.next
        BY DEF WellFormed, IsState
      <4> HIDE DEF u
      <4>3. SameOp(s, u)
        BY <2>2, <4>2 DEF SameOp, WellFormed, IsActive
      <4> QED
        BY <4>1, <4>2, <4>3 DEF Reported
    <3> QED
      BY <3>1, <3>2
  <2>3. CASE /\ s.kind = "Transitioning" /\ Mine(s, i.correlation)
             /\ s.stage \notin {"Preflighting", "Reserved"}
    BY <1>0, <1>4, <2>3 DEF ReduceFailReserved, Stays, Goes, Stands, Reported
  <2>4. CASE s.kind = "Transitioning" /\ Mine(s, i.correlation) /\ s.stage = "Reserved"
    <3> DEFINE o == [s.op EXCEPT !.mode = "Ordinary"]
    <3>1. Reduce(s, i) = FailsOrRecovers(s, o, s.op.previous.proxy, i.error)
      BY <1>0, <1>4, <2>4 DEF ReduceFailReserved
    <3>2. o.id = s.op.id /\ IsActive(s) /\ s.op.prefix = "none"
      BY <2>4 DEF WellFormed, IsState, IsOperation, Mine, SameOperation, Correlation
    <3> HIDE DEF o
    <3>3. Silent(Reduce(s, i)) /\ Ended(s, Reduce(s, i).state)
      BY <3>1, <3>2, FailsOrRecoversEnds
    <3> QED
      BY <2>4, <3>2, <3>3 DEF Reported, Ended, Reserved
  <2> QED
    BY <2>1, <2>2, <2>3, <2>4
<1> QED
  BY <1>1, <1>2, <1>3, <1>4

-----------------------------------------------------------------------------
(* The tasks of an open machine.                                            *)

Corr(ts, t) == ts[t].effect.correlation
Names ==
  {"Preflight", "Mutate", "Recover", "CommitAudit", "Finalize", "Observe", "Audit", "Shutdown"}

\* What ends a task is nothing, its effect's own answer, or a loss.
TaskOk(k) ==
  /\ {"effect", "outcome", "cancelled", "aborted", "role"} \subseteq DOMAIN k
  /\ k.effect.correlation.effect \in Names
  /\ k.outcome.kind \in {"running", "ok", "panicked", "aborted"}
  /\ k.outcome.kind = "ok" =>
       /\ k.outcome.input.correlation = k.effect.correlation
       /\ k.outcome.input.kind \in {AnswerTo(k.effect.correlation.effect), "TaskCancelled"}

\* While the machine is open only preflights are cancelled, and only a panic, of
\* which p counts, loses a task.
OpenTask(k, p) ==
  /\ ~k.aborted /\ (k.cancelled => k.effect.correlation.effect = "Preflight")
  /\ k.outcome.kind = "ok" => k.outcome.input.kind # "TaskCancelled"
  /\ k.outcome.kind # "aborted"
  /\ p = 0 => k.outcome.kind # "panicked" /\ k.effect.correlation.effect # "Finalize"

Distinct(ts) == \A t, u \in DOMAIN ts : Corr(ts, t) = Corr(ts, u) => t = u
Tasks(ts) ==
  /\ DOMAIN ts \subseteq TaskId /\ IsFiniteSet(DOMAIN ts)
  /\ \A t \in DOMAIN ts : TaskOk(ts[t])
  /\ Distinct(ts)

\* Every task belongs to the operation in hand, which waits for one, or to one that
\* is over.
Owned(s, ts) ==
  /\ \A t \in DOMAIN ts : Awaited(s, Corr(ts, t)) \/ Outlived(s, Corr(ts, t))
  /\ \A t, u \in DOMAIN ts : Awaited(s, Corr(ts, t)) /\ Awaited(s, Corr(ts, u)) => t = u

\* The bound on tasks leaves an operation room for its next effect.
Few(s, ts) ==
  Cardinality(DOMAIN ts) <= 2 /\ (Reserved(s) => Cardinality(DOMAIN ts) <= 1)

Open(s, ts, p) ==
  /\ WellFormed(s) /\ Tasks(ts) /\ Owned(s, ts) /\ Few(s, ts)
  /\ \A t \in DOMAIN ts : OpenTask(ts[t], p)

\* Nothing works for the operation of s.
Idle(s, ts, p) ==
  /\ Tasks(ts) /\ Cardinality(DOMAIN ts) <= 1
  /\ \A t \in DOMAIN ts : Outlived(s, Corr(ts, t)) /\ OpenTask(ts[t], p)

Without(ts, t) == [u \in DOMAIN ts \ {t} |-> ts[u]]
Added(ts, t, k) == [u \in DOMAIN ts \cup {t} |-> IF u = t THEN k ELSE ts[u]]

\* An effect that is awaited is not one that outlived its operation.
LEMMA AwaitedIsCurrent ==
  ASSUME NEW s, WellFormed(s), NEW c, Awaited(s, c)
  PROVE  c.op = s.op.id /\ c.op \in Nat /\ Floor(s) = c.op /\ ~Outlived(s, c)
         /\ c.prefix \in {"none", "preflight", "audit"} /\ c.effect \in Names \ {"Shutdown"}
         /\ ~Reserved(s) /\ IsActive(s)
<1>1. IsActive(s) /\ c.op = s.op.id /\ c.prefix = s.op.prefix
  BY DEF Awaited, Mine, SameOperation, Correlation
<1>2. c.op \in Nat /\ Floor(s) = c.op /\ c.prefix \in {"none", "preflight", "audit"}
  BY <1>1 DEF WellFormed, Floor
<1>3. c.effect \in Names \ {"Shutdown"} /\ ~Reserved(s)
  BY DEF Awaited, Names, Reserved
<1> QED
  BY <1>1, <1>2, <1>3 DEF Outlived

\* An awaited effect is the current one; one that outlived its operation is not.
LEMMA CurrencyOfTasks ==
  ASSUME NEW s, WellFormed(s), NEW c
  PROVE  /\ Awaited(s, c) => EffectIsCurrent(s, c)
         /\ Outlived(s, c) => ~EffectIsCurrent(s, c)
<1>1. ASSUME Awaited(s, c) PROVE EffectIsCurrent(s, c)
  <2>1. CASE s.kind = "Transitioning"
    BY <1>1, <2>1 DEF Awaited, EffectIsCurrent
  <2>2. CASE s.kind = "Reconciling"
    BY <1>1, <2>2 DEF Awaited, EffectIsCurrent
  <2> QED
    BY <1>1, <2>1, <2>2 DEF Awaited, Mine, IsActive
<1>2. ASSUME Outlived(s, c) PROVE ~EffectIsCurrent(s, c)
  <2>1. ~Mine(s, c)
    BY <1>2 DEF Outlived, Mine, Floor, SameOperation, Correlation, WellFormed
  <2> QED
    BY <2>1 DEF EffectIsCurrent, WellFormed
<1> QED
  BY <1>1, <1>2

\* A task leaves.
LEMMA WithoutTask ==
  ASSUME NEW ts, Tasks(ts), NEW t \in DOMAIN ts
  PROVE  /\ Tasks(Without(ts, t)) /\ DOMAIN Without(ts, t) = DOMAIN ts \ {t}
         /\ \A u \in DOMAIN ts \ {t} : Without(ts, t)[u] = ts[u]
         /\ Cardinality(DOMAIN Without(ts, t)) = Cardinality(DOMAIN ts) - 1
<1> DEFINE w == Without(ts, t)
<1>1. DOMAIN w = DOMAIN ts \ {t} /\ \A u \in DOMAIN ts \ {t} : w[u] = ts[u]
  BY DEF Without
<1>2. IsFiniteSet(DOMAIN ts \ {t}) /\ Cardinality(DOMAIN ts \ {t}) = Cardinality(DOMAIN ts) - 1
  BY FS_RemoveElement DEF Tasks
<1> HIDE DEF w
<1>3. Tasks(w)
  BY <1>1, <1>2 DEF Tasks, Distinct, Corr
<1> QED
  BY <1>1, <1>2, <1>3 DEF w

\* Once the awaited task has left, nothing works for the operation.
LEMMA WithoutOpen ==
  ASSUME NEW s, NEW ts, NEW p, Open(s, ts, p), NEW t \in DOMAIN ts
  PROVE  /\ Open(s, Without(ts, t), p)
         /\ Awaited(s, Corr(ts, t)) => Idle(s, Without(ts, t), p)
<1> DEFINE w == Without(ts, t)
<1>1. /\ Tasks(w) /\ DOMAIN w = DOMAIN ts \ {t} /\ \A u \in DOMAIN ts \ {t} : w[u] = ts[u]
      /\ Cardinality(DOMAIN w) = Cardinality(DOMAIN ts) - 1
  BY WithoutTask DEF Open
<1>2. Cardinality(DOMAIN ts) \in Nat /\ Cardinality(DOMAIN ts) <= 2
  BY FS_CardinalityType DEF Open, Tasks, Few
<1> HIDE DEF w
<1>3. \A u \in DOMAIN w : Corr(w, u) = Corr(ts, u) /\ w[u] = ts[u] /\ u \in DOMAIN ts /\ u # t
  BY <1>1 DEF Corr
<1>4. Owned(s, w)
  BY <1>3 DEF Owned, Open
<1>5. Few(s, w)
  BY <1>1, <1>2 DEF Few, Open
<1>6. \A u \in DOMAIN w : OpenTask(w[u], p)
  BY <1>3 DEF Open
<1>7. Open(s, w, p)
  BY <1>1, <1>4, <1>5, <1>6 DEF Open
<1>8. ASSUME Awaited(s, Corr(ts, t)) PROVE Idle(s, w, p)
  <2>1. \A u \in DOMAIN w : Outlived(s, Corr(w, u))
    BY <1>3, <1>8 DEF Open, Owned
  <2> QED
    BY <1>1, <1>2, <1>6, <2>1 DEF Idle
<1> QED
  BY <1>7, <1>8 DEF w

\* Nothing works for a machine at rest or for a reserved operation.
LEMMA RestIsIdle ==
  ASSUME NEW s, NEW ts, NEW p, Open(s, ts, p), ~IsActive(s) \/ Reserved(s),
         Cardinality(DOMAIN ts) <= 1
  PROVE  Idle(s, ts, p)
<1>1. \A t \in DOMAIN ts : ~Awaited(s, Corr(ts, t))
  BY DEF Awaited, Mine, Reserved
<1> QED
  BY <1>1 DEF Open, Owned, Idle

\* The number below which operations are over only grows.
LEMMA FloorGrows ==
  ASSUME NEW s, WellFormed(s), NEW u, Begun(s, u) \/ SameOp(s, u) \/ Ended(s, u)
  PROVE  WellFormed(u) /\ Floor(s) \in Nat /\ Floor(u) \in Nat /\ Floor(u) >= Floor(s)
<1>1. WellFormed(u)
  BY DEF Begun, SameOp, Ended
<1>2. Floor(s) \in Nat /\ Floor(u) \in Nat
  BY <1>1 DEF Floor, WellFormed
<1>3. CASE Begun(s, u)
  BY <1>2, <1>3 DEF Begun, Floor
<1>4. CASE SameOp(s, u)
  BY <1>2, <1>4 DEF SameOp, Floor
<1>5. CASE Ended(s, u)
  BY <1>2, <1>5 DEF Ended, Floor, WellFormed
<1> QED
  BY <1>1, <1>2, <1>3, <1>4, <1>5

\* Nothing works for it after it has begun, gone on or ended either.
LEMMA IdleMoves ==
  ASSUME NEW s, WellFormed(s), NEW u, Begun(s, u) \/ SameOp(s, u) \/ Ended(s, u),
         NEW ts, NEW p, Idle(s, ts, p)
  PROVE  Idle(u, ts, p)
<1>1. Floor(s) \in Nat /\ Floor(u) \in Nat /\ Floor(u) >= Floor(s)
  BY FloorGrows
<1>2. \A c : Outlived(s, c) => Outlived(u, c)
  BY <1>1 DEF Outlived
<1> QED
  BY <1>2 DEF Idle

\* A machine for which nothing works is an open one.
LEMMA IdleIsOpen ==
  ASSUME NEW s, WellFormed(s), NEW ts, NEW p, Idle(s, ts, p)
  PROVE  Open(s, ts, p)
<1>1. \A t \in DOMAIN ts : ~Awaited(s, Corr(ts, t))
  BY AwaitedIsCurrent DEF Idle
<1>2. Cardinality(DOMAIN ts) \in Nat
  BY FS_CardinalityType DEF Idle, Tasks
<1> QED
  BY <1>1, <1>2 DEF Idle, Open, Owned, Few

\* A task begins.
LEMMA NewTaskShape ==
  ASSUME NEW e, NEW role, NEW p, e.correlation.effect \in Names,
         e.correlation.effect = "Finalize" => p > 0
  PROVE  LET k == Run!NewTask(e, role)
         IN TaskOk(k) /\ OpenTask(k, p) /\ k.effect = e /\ k.outcome.kind = "running"
  BY DEF Run!NewTask, Run!Running, TaskOk, OpenTask

\* The awaited effect becomes the one task of its operation.
LEMMA AddedOpen ==
  ASSUME NEW s, WellFormed(s), NEW ts, NEW p, Idle(s, ts, p),
         NEW t \in TaskId, t \notin DOMAIN ts, NEW e, NEW role,
         Awaited(s, e.correlation), e.correlation.effect = "Finalize" => p > 0
  PROVE  Open(s, Added(ts, t, Run!NewTask(e, role)), p)
<1> DEFINE k == Run!NewTask(e, role)
           w == Added(ts, t, k)
<1>1. /\ e.correlation.op \in Nat /\ Floor(s) = e.correlation.op /\ e.correlation.effect \in Names
      /\ ~Reserved(s)
  BY AwaitedIsCurrent
<1>2. TaskOk(k) /\ OpenTask(k, p) /\ k.effect = e
  BY <1>1, NewTaskShape
<1> HIDE DEF k
<1>3. DOMAIN w = DOMAIN ts \cup {t} /\ w[t] = k /\ \A u \in DOMAIN ts : w[u] = ts[u]
  <2>1. DOMAIN w = DOMAIN ts \cup {t} /\ w[t] = k /\ \A u \in DOMAIN ts \ {t} : w[u] = ts[u]
    BY DEF Added
  <2> HIDE DEF w
  <2> QED
    BY <2>1
<1> HIDE DEF w
<1>4. Corr(w, t) = e.correlation /\ \A u \in DOMAIN ts : Corr(w, u) = Corr(ts, u)
  BY <1>2, <1>3 DEF Corr
<1>5. \A u \in DOMAIN ts : Outlived(s, Corr(ts, u)) /\ Corr(ts, u) # e.correlation
  BY <1>1 DEF Idle, Outlived
<1>6. IsFiniteSet(DOMAIN w) /\ Cardinality(DOMAIN w) <= 2
  <2>1. IsFiniteSet(DOMAIN ts) /\ Cardinality(DOMAIN ts) <= 1
    BY DEF Idle, Tasks
  <2>2. /\ IsFiniteSet(DOMAIN ts \cup {t})
        /\ Cardinality(DOMAIN ts \cup {t}) = Cardinality(DOMAIN ts) + 1
    BY <2>1, FS_AddElement
  <2>3. Cardinality(DOMAIN ts) \in Nat
    BY <2>1, FS_CardinalityType
  <2> QED
    BY <1>3, <2>1, <2>2, <2>3
<1>7. Tasks(w)
  <2>1. Distinct(w)
    BY <1>3, <1>4, <1>5 DEF Distinct, Idle, Tasks
  <2>2. \A u \in DOMAIN w : TaskOk(w[u])
    BY <1>2, <1>3 DEF Idle, Tasks
  <2> QED
    BY <1>3, <1>6, <2>1, <2>2 DEF Tasks, Idle
<1>8. Owned(s, w)
  <2>1. \A u \in DOMAIN w : u = t \/ (Outlived(s, Corr(w, u)) /\ ~Awaited(s, Corr(w, u)))
    BY <1>3, <1>4, <1>5, AwaitedIsCurrent
  <2> QED
    BY <1>4, <2>1 DEF Owned
<1>9. \A u \in DOMAIN w : OpenTask(w[u], p)
  BY <1>2, <1>3 DEF Idle
<1> QED
  BY <1>1, <1>6, <1>7, <1>8, <1>9 DEF Open, Few, w, k

-----------------------------------------------------------------------------
(* The runner.                                                              *)

\* A batch of one effect, and of two.
LEMMA BatchOfOne ==
  ASSUME NEW owned, NEW e, NEW role
  PROVE  Run!WithEffects(owned, <<e>>, role) = Run!WithEffect(owned, e, role)
<1> DEFINE es == <<e>>
           F(f) == [n \in 0..Len(es) |->
                      IF n = 0 THEN owned ELSE Run!WithEffect(f[n - 1], es[n], role)]
           g == [n \in 0..1 |-> IF n = 0 THEN owned ELSE Run!WithEffect(owned, e, role)]
           h == CHOOSE f : f = F(f)
<1>1. Len(es) = 1 /\ es[1] = e
  OBVIOUS
<1>2. Run!WithEffects(owned, es, role) = h[Len(es)]
  BY DEF Run!WithEffects
<1> HIDE DEF es
<1>3. g = F(g)
  <2>1. g[0] = owned
    OBVIOUS
  <2> DEFINE G == F(g)
  <2>2. G = [n \in 0..1 |-> IF n = 0 THEN owned ELSE Run!WithEffect(g[n - 1], es[n], role)]
    BY <1>1
  <2>3. \A n \in 0..1 : G[n] = g[n]
    <3> SUFFICES ASSUME NEW n \in 0..1 PROVE G[n] = g[n]
      OBVIOUS
    <3>1. CASE n = 0
      BY <2>2, <3>1
    <3>2. CASE n = 1
      BY <1>1, <2>1, <2>2, <3>2
    <3> QED
      BY <3>1, <3>2
  <2>4. G \in [0..1 -> {G[n] : n \in 0..1}] /\ DOMAIN G = 0..1
    BY <2>2
  <2> HIDE DEF G
  <2>5. G = [n \in 0..1 |-> G[n]]
    BY <2>4
  <2> HIDE DEF g
  <2>6. g = [n \in 0..1 |-> g[n]]
    BY DEF g
  <2>7. g = G
    BY <2>3, <2>5, <2>6
  <2> QED
    BY <2>7 DEF G
<1> HIDE DEF g, F
<1>4. h = F(h)
  BY <1>3
<1> HIDE DEF h
<1>5. h[0] = owned /\ h[1] = Run!WithEffect(h[0], es[1], role)
  <2>1. F(h) = [n \in 0..1 |-> IF n = 0 THEN owned ELSE Run!WithEffect(h[n - 1], es[n], role)]
    BY <1>1 DEF F
  <2> DEFINE H == F(h)
  <2>2. H[0] = owned /\ H[1] = Run!WithEffect(h[0], es[1], role)
    BY <2>1
  <2> HIDE DEF H
  <2>3. H = h
    BY <1>4 DEF H
  <2> QED
    BY <2>2, <2>3
<1> QED
  BY <1>1, <1>2, <1>5 DEF es

\* WithEffects applies two effects in their order.
LEMMA BatchOfTwo ==
  ASSUME NEW owned, NEW d, NEW e, NEW role
  PROVE  Run!WithEffects(owned, <<d, e>>, role)
           = Run!WithEffect(Run!WithEffect(owned, d, role), e, role)
<1> DEFINE es == <<d, e>>
           one == Run!WithEffect(owned, d, role)
           two == Run!WithEffect(one, e, role)
           F(f) == [n \in 0..Len(es) |->
                      IF n = 0 THEN owned ELSE Run!WithEffect(f[n - 1], es[n], role)]
           g == [n \in 0..2 |-> IF n = 0 THEN owned ELSE IF n = 1 THEN one ELSE two]
           h == CHOOSE f : f = F(f)
<1>1. Len(es) = 2 /\ es[1] = d /\ es[2] = e
  OBVIOUS
<1>2. Run!WithEffects(owned, es, role) = h[Len(es)]
  BY DEF Run!WithEffects
<1> HIDE DEF es
<1>3. g = F(g)
  <2>1. g[0] = owned /\ g[1] = one /\ g[2] = two
    OBVIOUS
  <2> DEFINE G == F(g)
  <2>2. G = [n \in 0..2 |-> IF n = 0 THEN owned ELSE Run!WithEffect(g[n - 1], es[n], role)]
    BY <1>1
  <2> HIDE DEF g
  <2>3. \A n \in 0..2 : G[n] = g[n]
    <3> SUFFICES ASSUME NEW n \in 0..2 PROVE G[n] = g[n]
      OBVIOUS
    <3>1. CASE n = 0
      BY <2>1, <2>2, <3>1
    <3>2. CASE n = 1
      <4>1. G[1] = Run!WithEffect(g[0], es[1], role)
        BY <2>2
      <4> QED
        BY <1>1, <2>1, <3>2, <4>1
    <3>3. CASE n = 2
      <4>1. G[2] = Run!WithEffect(g[1], es[2], role)
        BY <2>2
      <4> QED
        BY <1>1, <2>1, <3>3, <4>1
    <3> QED
      BY <3>1, <3>2, <3>3
  <2>4. G = [n \in 0..2 |-> G[n]]
    BY <2>2
  <2> HIDE DEF G
  <2>6. g = [n \in 0..2 |-> g[n]]
    BY DEF g
  <2>7. g = G
    BY <2>3, <2>4, <2>6
  <2> QED
    BY <2>7 DEF G
<1> HIDE DEF g, F
<1>4. h = F(h)
  BY <1>3
<1> HIDE DEF h
<1>5. h[0] = owned /\ h[1] = Run!WithEffect(h[0], es[1], role)
      /\ h[2] = Run!WithEffect(h[1], es[2], role)
  <2>1. F(h) = [n \in 0..2 |-> IF n = 0 THEN owned ELSE Run!WithEffect(h[n - 1], es[n], role)]
    BY <1>1 DEF F
  <2> DEFINE H == F(h)
  <2>2. H[0] = owned /\ H[1] = Run!WithEffect(h[0], es[1], role)
        /\ H[2] = Run!WithEffect(h[1], es[2], role)
    BY <2>1
  <2> HIDE DEF H
  <2>3. H = h
    BY <1>4 DEF H
  <2> QED
    BY <2>2, <2>3
<1> QED
  BY <1>1, <1>2, <1>5 DEF es

\* A machine that owns at most two tasks has an identity for another.
LEMMA FreeTask ==
  ASSUME NEW D, IsFiniteSet(D), Cardinality(D) <= 2
  PROVE  \E t \in TaskId : t \notin D
<1> SUFFICES ASSUME TaskId \subseteq D PROVE FALSE
  OBVIOUS
<1>1. PICK a, b, c, d \in TaskId : Cardinality({a, b, c, d}) = 4
  BY TaskIdAssumption
<1>2. {a, b, c, d} \subseteq D
  OBVIOUS
<1> DEFINE S == {a, b, c, d}
<1>3. Cardinality(S) <= Cardinality(D)
  <2> HIDE DEF S
  <2> QED
    BY <1>2, FS_Subset DEF S
<1>4. Cardinality(D) \in Nat
  BY FS_CardinalityType
<1> QED
  BY <1>1, <1>3, <1>4

\* A spawned effect becomes a task.
LEMMA SpawnAdds ==
  ASSUME NEW ts, IsFiniteSet(DOMAIN ts), Cardinality(DOMAIN ts) <= 2, NEW e, e.mode = "Spawn",
         NEW role
  PROVE  \E t \in TaskId : /\ t \notin DOMAIN ts
                           /\ Run!WithEffect(ts, e, role) = Added(ts, t, Run!NewTask(e, role))
<1> DEFINE free == CHOOSE t \in TaskId : t \notin DOMAIN ts
<1>1. free \in TaskId /\ free \notin DOMAIN ts
  BY FreeTask
<1>2. Run!WithEffect(ts, e, role) = Added(ts, free, Run!NewTask(e, role))
  BY DEF Run!WithEffect, Added
<1> QED
  BY <1>1, <1>2

\* Cancelling changes no more of a task than that.
LEMMA CancelKeeps ==
  ASSUME NEW ts, Tasks(ts), NEW e, e.mode = "Cancel", NEW role
  PROVE  LET w == Run!WithEffect(ts, e, role)
         IN /\ DOMAIN w = DOMAIN ts
            /\ \A t \in DOMAIN ts :
                 /\ TaskOk(w[t])
                 /\ w[t].effect = ts[t].effect /\ w[t].outcome = ts[t].outcome
                 /\ w[t].aborted = ts[t].aborted
                 /\ w[t].cancelled # ts[t].cancelled => Corr(ts, t) = e.correlation
<1> DEFINE w == Run!WithEffect(ts, e, role)
<1>1. w = [t \in DOMAIN ts |-> IF ts[t].effect.correlation = e.correlation
                                 THEN [ts[t] EXCEPT !.cancelled = TRUE] ELSE ts[t]]
  BY DEF Run!WithEffect
<1> HIDE DEF w
<1>2. DOMAIN w = DOMAIN ts
  BY <1>1
<1>3. ASSUME NEW t \in DOMAIN ts
      PROVE  /\ TaskOk(w[t])
             /\ w[t].effect = ts[t].effect /\ w[t].outcome = ts[t].outcome
             /\ w[t].aborted = ts[t].aborted
             /\ w[t].cancelled # ts[t].cancelled => Corr(ts, t) = e.correlation
  <2>1. TaskOk(ts[t])
    BY DEF Tasks
  <2>2. CASE ts[t].effect.correlation = e.correlation
    <3> DEFINE k == ts[t]
    <3>1. w[t] = [k EXCEPT !.cancelled = TRUE]
      BY <1>1, <2>2
    <3>2. TaskOk(k)
      BY <2>1
    <3> HIDE DEF k
    <3>3. TaskOk(w[t]) /\ w[t].effect = k.effect /\ w[t].outcome = k.outcome
          /\ w[t].aborted = k.aborted
      BY <3>1, <3>2 DEF TaskOk
    <3> QED
      BY <2>2, <3>3 DEF k, Corr
  <2>3. CASE ts[t].effect.correlation # e.correlation
    <3>1. w[t] = ts[t]
      BY <1>1, <2>3
    <3> QED
      BY <2>1, <3>1
  <2> QED
    BY <2>2, <2>3
<1> QED
  BY <1>2, <1>3 DEF w

\* An input is refused, is applied alone, or with its effects.
LEMMA ApplyStands ==
  ASSUME NEW i, NEW owned, NEW role, Run!Apply(i, owned, role), Stands(Reduce(state, i))
  PROVE  state' = state /\ tasks' = owned
  BY DEF Run!Apply, Stands

\* Apply installs the next state of an input without effects.
LEMMA ApplySilent ==
  ASSUME NEW i, NEW owned, NEW role, Run!Apply(i, owned, role), Silent(Reduce(state, i))
  PROVE  state' = Reduce(state, i).state /\ tasks' = owned
  BY DEF Run!Apply, Silent

\* Apply installs the next state and the batch of effects.
LEMMA ApplyEmits ==
  ASSUME NEW i, NEW owned, NEW role, Run!Apply(i, owned, role),
         Reduce(state, i).disposition = "EffectEmitting"
  PROVE  /\ state' = Reduce(state, i).state
         /\ tasks' = Run!WithEffects(owned, Reduce(state, i).effects, role)
  BY DEF Run!Apply

\* Every task of ts goes on in ws.
Keeps(ts, ws) ==
  \A u \in DOMAIN ts :
    u \in DOMAIN ws /\ ws[u].effect = ts[u].effect /\ ws[u].outcome = ts[u].outcome

\* A machine for which nothing works moves and stays open.
LEMMA SilentStep ==
  ASSUME NEW i, NEW owned, NEW role, Run!Apply(i, owned, role), NEW p,
         WellFormed(state), Idle(state, owned, p), Silent(Reduce(state, i)),
         \/ Begun(state, Reduce(state, i).state) \/ SameOp(state, Reduce(state, i).state)
         \/ Ended(state, Reduce(state, i).state)
  PROVE  state' = Reduce(state, i).state /\ tasks' = owned /\ Open(state', tasks', p)
<1>1. state' = Reduce(state, i).state /\ tasks' = owned
  BY ApplySilent
<1> DEFINE s == state
           u == Reduce(state, i).state
<1>2. Begun(s, u) \/ SameOp(s, u) \/ Ended(s, u)
  OBVIOUS
<1>3. WellFormed(s) /\ Idle(s, owned, p)
  OBVIOUS
<1> HIDE DEF s, u
<1>4. WellFormed(u) /\ Idle(u, owned, p)
  BY <1>2, <1>3, FloorGrows, IdleMoves
<1>5. Open(u, owned, p)
  BY <1>4, IdleIsOpen
<1> QED
  BY <1>1, <1>5 DEF u

\* It moves with one new effect, and stays open.
LEMMA SpawnStep ==
  ASSUME NEW i, NEW owned, NEW role, Run!Apply(i, owned, role), NEW p,
         WellFormed(state), Idle(state, owned, p),
         Begun(state, Reduce(state, i).state) \/ SameOp(state, Reduce(state, i).state),
         NEW e, SpawnsOne(Reduce(state, i), e), e.correlation.effect = "Finalize" => p > 0
  PROVE  state' = Reduce(state, i).state /\ Open(state', tasks', p) /\ Keeps(owned, tasks')
<1> DEFINE s == state
           u == Reduce(state, i).state
<1>1. state' = u /\ tasks' = Run!WithEffects(owned, <<e>>, role)
  BY ApplyEmits DEF SpawnsOne
<1>2. Begun(s, u) \/ SameOp(s, u)
  OBVIOUS
<1>3. WellFormed(s) /\ Idle(s, owned, p) /\ e.mode = "Spawn" /\ Awaited(u, e.correlation)
  BY DEF SpawnsOne
<1> HIDE DEF s, u
<1>4. WellFormed(u) /\ Idle(u, owned, p)
  BY <1>2, <1>3, FloorGrows, IdleMoves
<1>5. IsFiniteSet(DOMAIN owned) /\ Cardinality(DOMAIN owned) <= 2
  <2>1. IsFiniteSet(DOMAIN owned) /\ Cardinality(DOMAIN owned) <= 1
    BY <1>4 DEF Idle, Tasks
  <2> QED
    BY <2>1, FS_CardinalityType
<1>6. PICK t \in TaskId : /\ t \notin DOMAIN owned
                          /\ Run!WithEffect(owned, e, role) = Added(owned, t, Run!NewTask(e, role))
  BY <1>3, <1>5, SpawnAdds
<1>7. tasks' = Added(owned, t, Run!NewTask(e, role))
  BY <1>1, <1>6, BatchOfOne
<1>8. Open(u, Added(owned, t, Run!NewTask(e, role)), p)
  BY <1>3, <1>4, <1>6, AddedOpen
<1>9. Keeps(owned, Added(owned, t, Run!NewTask(e, role)))
  BY <1>6 DEF Keeps, Added
<1> QED
  BY <1>1, <1>7, <1>8, <1>9 DEF u

\* What joining a task does to the state of an open machine.
Joined(s, u) ==
  \/ u = s
  \/ Continued(s, u) /\ ~Reserved(s)
  \/ Ended(s, u) /\ Truthful(s, u) /\ ~Reserved(s)

\* Run!Join of an open machine, whichever way the task ended.
LEMMA JoinStep ==
  ASSUME Open(state, tasks, panics), panics \in Nat, mode = "open", NEW t \in DOMAIN tasks,
         Run!Join(t)
  PROVE  /\ Open(state', tasks', panics) /\ Joined(state, state')
         /\ Keeps(Without(tasks, t), tasks')
<1> DEFINE k == tasks[t]
           c == k.effect.correlation
           rest == [u \in DOMAIN tasks \ {t} |-> tasks[u]]
           lost == TaskFailed(c, "any")
           s == state
           p == panics
<1>1. TaskOk(k) /\ OpenTask(k, p) /\ WellFormed(s) /\ (Awaited(s, c) \/ Outlived(s, c))
  BY DEF Open, Tasks, Owned, Corr
<1>0. rest = Without(tasks, t) /\ Keeps(rest, rest)
  BY DEF Without, Keeps
<1>2. Open(s, rest, p) /\ (Awaited(s, c) => Idle(s, rest, p))
  BY WithoutOpen DEF Without, Corr
<1>3. \A w : TaskFailed(c, w) = lost
  BY DEF TaskFailed
<1>4. lost.kind = "TaskFailed" /\ lost.correlation = c
  BY DEF TaskFailed, Input
<1>5. k.outcome.kind # "running"
  BY DEF Run!Join
<1>6. CASE Awaited(s, c) /\ k.outcome.kind = "ok"
  <2> DEFINE i == k.outcome.input
             tr == Reduce(s, i)
  <2>1. i.correlation = c /\ i.kind = AnswerTo(c.effect)
    BY <1>1, <1>6 DEF TaskOk, OpenTask
  <2>2. Run!Apply(i, rest, k.role)
    <3>1. EffectIsCurrent(state, c)
      BY <1>1, <1>6, CurrencyOfTasks
    <3> QED
      BY <1>6, <2>1, <3>1 DEF Run!Join, InputCorrelation
  <2>3. Answered(s, tr)
    BY <1>1, <1>6, <2>1, AnswerReduces
  <2>4. Idle(s, rest, p) /\ WellFormed(s)
    BY <1>1, <1>2, <1>6
  <2>5. ~Reserved(s)
    BY <1>1, <1>6, AwaitedIsCurrent
  <2>6. CASE Silent(tr) /\ Ended(s, tr.state) /\ Truthful(s, tr.state)
    <3>1. state' = tr.state /\ Open(state', tasks', p) /\ tasks' = rest
      BY <2>2, <2>4, <2>6, SilentStep
    <3> QED
      BY <1>0, <2>5, <2>6, <3>1 DEF Joined
  <2>7. CASE Silent(tr) /\ Continued(s, tr.state)
    <3>1. state' = tr.state /\ Open(state', tasks', p) /\ tasks' = rest
      BY <2>2, <2>4, <2>7, SilentStep DEF Continued
    <3> QED
      BY <1>0, <2>5, <2>7, <3>1 DEF Joined
  <2>8. CASE Continued(s, tr.state) /\ SpawnsOther(tr)
    <3>1. PICK e : SpawnsOne(tr, e) /\ e.correlation.effect # "Finalize"
      BY <2>8 DEF SpawnsOther
    <3>2. state' = tr.state /\ Open(state', tasks', p) /\ Keeps(rest, tasks')
      BY <2>2, <2>4, <2>8, <3>1, SpawnStep DEF Continued
    <3> QED
      BY <1>0, <2>5, <2>8, <3>2 DEF Joined
  <2> QED
    BY <2>3, <2>6, <2>7, <2>8 DEF Answered
<1>7. CASE Awaited(s, c) /\ k.outcome.kind # "ok"
  <2> DEFINE tr == Reduce(s, lost)
  <2>1. p > 0
    BY <1>1, <1>5, <1>7 DEF TaskOk, OpenTask
  <2>2. Run!Apply(lost, rest, "Finalizer")
    BY <1>3, <1>7 DEF Run!Join
  <2> HIDE DEF lost
  <2>3. \/ Silent(tr) /\ Ended(s, tr.state) /\ Truthful(s, tr.state)
        \/ Continued(s, tr.state) /\ \E e : SpawnsOne(tr, e)
    BY <1>1, <1>4, <1>7, LostReduces
  <2>4. Idle(s, rest, p) /\ WellFormed(s)
    BY <1>1, <1>2, <1>7
  <2>5. ~Reserved(s)
    BY <1>1, <1>7, AwaitedIsCurrent
  <2>6. CASE Silent(tr) /\ Ended(s, tr.state) /\ Truthful(s, tr.state)
    <3>1. state' = tr.state /\ Open(state', tasks', p) /\ tasks' = rest
      BY <2>2, <2>4, <2>6, SilentStep
    <3> QED
      BY <1>0, <2>5, <2>6, <3>1 DEF Joined
  <2>7. CASE Continued(s, tr.state) /\ \E e : SpawnsOne(tr, e)
    <3>1. PICK e : SpawnsOne(tr, e)
      BY <2>7
    <3>2. state' = tr.state /\ Open(state', tasks', p) /\ Keeps(rest, tasks')
      BY <2>1, <2>2, <2>4, <2>7, <3>1, SpawnStep DEF Continued
    <3> QED
      BY <1>0, <2>5, <2>7, <3>2 DEF Joined
  <2> QED
    BY <2>3, <2>6, <2>7
<1>8. CASE Outlived(s, c)
  <2>1. Run!Apply(lost, rest, "Finalizer")
    <3>1. ~EffectIsCurrent(state, c)
      BY <1>1, <1>8, CurrencyOfTasks
    <3> QED
      BY <1>3, <3>1 DEF Run!Join
  <2> HIDE DEF lost
  <2>2. Stands(Reduce(s, lost))
    BY <1>1, <1>4, <1>8, LateReduces
  <2>3. state' = state /\ tasks' = rest
    BY <2>1, <2>2, ApplyStands
  <2> QED
    BY <1>0, <1>2, <2>3 DEF Joined
<1> QED
  BY <1>1, <1>6, <1>7, <1>8

-----------------------------------------------------------------------------
(* The launch.                                                              *)

EarlyPcs == {"reserved", "preparing", "prepared", "marking", "draining", "failing"}
Its(l) == Correlation(l.token, "none")

IsLaunch(l) ==
  /\ {"pc", "token", "reply", "error", "cancelled"} \subseteq DOMAIN l
  /\ l.pc \in Quiet \cup EarlyPcs \cup {"waiting", "finishing"}
  /\ l.token.id \in Nat /\ l.token.prefix = "none"

\* How far the operation of a launch can be; and, of the operations f that failed,
\* what is left of its own.
LaunchOpen(s, l, f) ==
  /\ \A n \in f : n \in Nat /\ n < Floor(s)
  /\ l.token.id < Floor(s) \/ Mine(s, Its(l))
  /\ l.pc \in EarlyPcs /\ Mine(s, Its(l)) => Reserved(s) \/ Early(s)
  /\ l.pc = "reserved" => Mine(s, Its(l)) /\ Reserved(s)
  /\ l.pc \in EarlyPcs \cup {"waiting"} /\ Mine(s, Its(l)) => s.op.mode = "Prepared"
  /\ l.pc = "waiting" => Mine(s, Its(l)) \/ l.token.id \notin f \/ Stuck(s)
  /\ l.pc = "ok" => l.token.id < Floor(s) /\ l.token.id \notin f

\* What Tracks makes of the operations that failed.
TracksTo(s, u, f, g) ==
  \/ g = f
  \/ /\ IsActive(s) /\ s.op.prefix = "none" /\ g = f \cup {s.op.id} /\ ~Good(s, u)
     /\ ~Mine(u, Correlation(s.op, "none"))

\* The ghost follows TracksTo.
LEMMA TracksFailed ==
  ASSUME Tracks
  PROVE  TracksTo(state, state', failed, failed')
  BY DEF Tracks, TracksTo, Good

\* An operation that goes on has not failed.
LEMMA TracksSame ==
  ASSUME NEW s, NEW u, u = s \/ SameOp(s, u) \/ ~IsActive(s), NEW f, NEW g, TracksTo(s, u, f, g)
  PROVE  g = f
  BY DEF TracksTo, SameOp, Mine, SameOperation, Correlation

\* The launch's operation is the one in hand, or over.
LEMMA MineOrOver ==
  ASSUME NEW s, WellFormed(s), NEW l, IsLaunch(l)
  PROVE  /\ Mine(s, Its(l)) <=> IsActive(s) /\ s.op.id = l.token.id /\ s.op.prefix = "none"
         /\ l.token.id < Floor(s) => ~Mine(s, Its(l))
         /\ Floor(s) \in Nat /\ l.token.id \in Nat
         /\ IsActive(s) => Floor(s) = s.op.id /\ s.op.id \in Nat /\ s.next = s.op.id + 1
         /\ ~IsActive(s) => Floor(s) = s.next
<1>1. Mine(s, Its(l)) <=> IsActive(s) /\ s.op.id = l.token.id /\ s.op.prefix = "none"
  BY DEF Mine, Its, SameOperation, Correlation, IsLaunch
<1>2. Floor(s) \in Nat /\ l.token.id \in Nat
  BY DEF WellFormed, Floor, IsLaunch
<1>3. /\ IsActive(s) => Floor(s) = s.op.id /\ s.op.id \in Nat /\ s.next = s.op.id + 1
      /\ ~IsActive(s) => Floor(s) = s.next
  BY DEF WellFormed, Floor
<1> QED
  BY <1>1, <1>2, <1>3

\* The launch's operation goes on.
LEMMA LaunchContinued ==
  ASSUME NEW s, WellFormed(s), NEW u, SameOp(s, u), NEW l, IsLaunch(l), NEW f,
         LaunchOpen(s, l, f),
         l.pc \in EarlyPcs /\ Mine(s, Its(l)) => Reserved(u) \/ Early(u),
         l.pc = "reserved" => Reserved(u)
  PROVE  LaunchOpen(u, l, f)
<1>1. Floor(u) = Floor(s) /\ (Mine(u, Its(l)) <=> Mine(s, Its(l))) /\ u.op.mode = s.op.mode
  BY DEF SameOp, Floor, Mine, SameOperation, Correlation
<1>2. ~Stuck(s)
  BY DEF SameOp, IsActive, Stuck
<1> QED
  BY <1>1, <1>2 DEF LaunchOpen

\* A task of an open machine is joined: what a waiting launch will be told stays true.
LEMMA LaunchJoined ==
  ASSUME NEW s, WellFormed(s), NEW u, Joined(s, u), NEW l, IsLaunch(l), NEW f, NEW g,
         LaunchOpen(s, l, f), TracksTo(s, u, f, g)
  PROVE  LaunchOpen(u, l, g)
<1>1. CASE u = s
  BY <1>1, TracksSame
<1>2. CASE Continued(s, u) /\ ~Reserved(s)
  <2>1. g = f
    BY <1>2, TracksSame DEF Continued
  <2>2. Early(s) => Reserved(u) \/ Early(u)
    BY <1>2 DEF Continued, WaitsOn, Reserved, Early
  <2>3. SameOp(s, u)
    BY <1>2 DEF Continued
  <2>4. /\ l.pc \in EarlyPcs /\ Mine(s, Its(l)) => Reserved(u) \/ Early(u)
        /\ l.pc = "reserved" => Reserved(u)
    BY <1>2, <2>2 DEF LaunchOpen
  <2> QED
    BY <2>1, <2>3, <2>4, LaunchContinued
<1>3. CASE Ended(s, u) /\ Truthful(s, u) /\ ~Reserved(s)
  <2>1. WellFormed(u) /\ ~IsActive(u) /\ IsActive(s)
    BY <1>3 DEF Ended
  <2>2. /\ Mine(s, Its(l)) <=> s.op.id = l.token.id /\ s.op.prefix = "none"
        /\ l.token.id \in Nat /\ Floor(s) = s.op.id /\ s.op.id \in Nat /\ s.next = s.op.id + 1
        /\ Floor(u) = u.next /\ Floor(u) \in Nat /\ ~Mine(u, Its(l))
    BY <2>1, MineOrOver
  <2>3. Floor(u) >= Floor(s) /\ (s.op.prefix = "none" => Floor(u) = s.op.id + 1)
    BY <1>3, <2>2 DEF Ended
  <2>4. \A n \in g : n \in Nat /\ n < Floor(u)
    BY <2>2, <2>3 DEF LaunchOpen, TracksTo
  <2>5. l.token.id < Floor(u)
    BY <2>2, <2>3 DEF LaunchOpen
  <2>6. l.pc # "reserved"
    BY <1>3 DEF LaunchOpen
  <2>7. ASSUME ~Mine(s, Its(l)), l.token.id \notin f PROVE l.token.id \notin g
    BY <2>2, <2>7 DEF LaunchOpen, TracksTo
  <2>8. l.pc = "waiting" => l.token.id \notin g \/ Stuck(u)
    <3> SUFFICES ASSUME l.pc = "waiting" PROVE l.token.id \notin g \/ Stuck(u)
      OBVIOUS
    <3>1. CASE Mine(s, Its(l))
      <4>1. Good(s, u) \/ Stuck(u)
        BY <1>3, <2>2, <3>1 DEF Truthful, LaunchOpen
      <4>2. Good(s, u) => g = f
        BY DEF TracksTo
      <4>3. l.token.id \notin f
        BY <2>2, <3>1 DEF LaunchOpen
      <4> QED
        BY <4>1, <4>2, <4>3
    <3>2. CASE ~Mine(s, Its(l))
      <4>1. ~Stuck(s)
        BY <2>1 DEF IsActive, Stuck
      <4> QED
        BY <2>7, <3>2, <4>1 DEF LaunchOpen
    <3> QED
      BY <3>1, <3>2
  <2>9. l.pc = "ok" => l.token.id \notin g
    BY <2>2, <2>7 DEF LaunchOpen
  <2> QED
    BY <2>2, <2>4, <2>5, <2>6, <2>8, <2>9 DEF LaunchOpen
<1> QED
  BY <1>1, <1>2, <1>3 DEF Joined

\* An operation of somebody else begins.
LEMMA LaunchBegun ==
  ASSUME NEW s, WellFormed(s), NEW u, Begun(s, u), NEW l, IsLaunch(l), NEW f, NEW g,
         LaunchOpen(s, l, f), TracksTo(s, u, f, g)
  PROVE  LaunchOpen(u, l, g)
<1>1. g = f
  BY TracksSame DEF Begun
<1>2. ~Mine(s, Its(l)) /\ Floor(s) = s.next /\ Floor(u) = s.next
  BY DEF Begun, Mine, Floor
<1>3. ~Stuck(s)
  BY DEF Begun, HasBase, Stuck, WellFormed
<1>4. ~Mine(u, Its(l))
  <2>1. WellFormed(u)
    BY DEF Begun
  <2> QED
    BY <1>2, <2>1, MineOrOver DEF LaunchOpen
<1> QED
  BY <1>1, <1>2, <1>3, <1>4 DEF LaunchOpen

\* The launch's operation, or its failure, is marked.
LEMMA LaunchMarked ==
  ASSUME NEW s, WellFormed(s), NEW u, NEW error, Marked(s, u, error), NEW l, IsLaunch(l), NEW f,
         NEW g, LaunchOpen(s, l, f), TracksTo(s, u, f, g), l.pc = "waiting" => error # "none"
  PROVE  LaunchOpen(u, l, g)
<1>1. g = f
  BY TracksSame DEF Marked
<1>2. CASE SameOp(s, u) /\ u.kind = s.kind /\ u.stage = s.stage
  <2>1. (Reserved(s) <=> Reserved(u)) /\ (Early(s) <=> Early(u))
    BY <1>2 DEF Reserved, Early
  <2>2. /\ l.pc \in EarlyPcs /\ Mine(s, Its(l)) => Reserved(u) \/ Early(u)
        /\ l.pc = "reserved" => Reserved(u)
    BY <2>1 DEF LaunchOpen
  <2> QED
    BY <1>1, <1>2, <2>2, LaunchContinued
<1>3. CASE /\ ~IsActive(s) /\ ~IsActive(u) /\ WellFormed(u) /\ u.next = s.next
           /\ s.kind = "Stable" /\ u.kind = "Stable" /\ u.projection = s.projection
           /\ u.error = error
  <2>1. ~Mine(s, Its(l)) /\ ~Mine(u, Its(l)) /\ Floor(u) = Floor(s)
    BY <1>3 DEF Mine, Floor
  <2>2. Stuck(s) /\ error # "none" => Stuck(u)
    BY <1>3 DEF Stuck
  <2> QED
    BY <1>1, <2>1, <2>2 DEF LaunchOpen
<1> QED
  BY <1>2, <1>3 DEF Marked

\* A launch that has reported its failure.
LEMMA LaunchReported ==
  ASSUME NEW s, WellFormed(s), NEW u, WellFormed(u), ~IsActive(u), u.next = s.next,
         NEW l, IsLaunch(l), NEW k, IsLaunch(k), k.token = l.token, k.pc = "finishing",
         NEW f, NEW g, LaunchOpen(s, l, f), TracksTo(s, u, f, g)
  PROVE  LaunchOpen(u, k, g)
<1>1. Floor(u) = s.next /\ Floor(u) \in Nat /\ ~Mine(u, Its(k)) /\ k.token.id = l.token.id
  BY MineOrOver
<1>2. /\ Mine(s, Its(l)) => IsActive(s) /\ s.op.id = l.token.id
      /\ IsActive(s) => Floor(s) = s.op.id /\ s.op.id \in Nat /\ s.next = s.op.id + 1
      /\ ~IsActive(s) => Floor(s) = s.next
      /\ l.token.id \in Nat
  BY MineOrOver
<1>3. \A n \in g : n \in Nat /\ n < Floor(u)
  BY <1>1, <1>2 DEF LaunchOpen, TracksTo
<1>4. l.token.id < Floor(u)
  BY <1>1, <1>2 DEF LaunchOpen
<1> QED
  BY <1>1, <1>3, <1>4 DEF LaunchOpen, EarlyPcs

-----------------------------------------------------------------------------
(* A machine that shuts down.                                               *)

IsClosed(s) == "kind" \in DOMAIN s /\ s.kind \in {"ShuttingDown", "Retired"}

\* It takes nothing up any more.
LEMMA ClosedReduces ==
  ASSUME NEW s, IsClosed(s), NEW i,
         \/ i.kind \in {"TaskFailed", "TaskCancelled"}
         \/ \E e \in Names : i.kind = AnswerTo(e)
  PROVE  LET tr == Reduce(s, i) IN Stands(tr) \/ (Silent(tr) /\ IsClosed(tr.state))
<1>1. ~IsActive(s) /\ \A c, e : ~Mine(s, c) /\ ~Matching(s, c, e)
  BY DEF IsClosed, IsActive, Mine, Matching
<1>2. s.kind \notin {"Transitioning", "Reconciling", "Stable", "RecoveryRequired"}
  BY DEF IsClosed
<1>3. CASE i.kind = "TaskFailed"
  <2>1. Reduce(s, i) = ReduceTaskFailed(s, i)
    BY <1>3 DEF Reduce
  <2>2. CASE i.correlation.prefix # "shutdown" \/ s.kind # "ShuttingDown"
    BY <1>1, <2>1, <2>2 DEF ReduceTaskFailed, EndsWithoutAnswer, Stays, Goes, Stands
  <2>3. CASE i.correlation.prefix = "shutdown" /\ s.kind = "ShuttingDown"
    <3> DEFINE v == [s EXCEPT !.kind = "Retired"]
               u == [v EXCEPT !.error = "error"]
    <3>1. u = [s EXCEPT !.kind = "Retired", !.error = "error"]
      BY Zenon
    <3>2. IsClosed(u)
      BY DEF IsClosed
    <3> HIDE DEF u
    <3>3. Reduce(s, i) = Goes("Failed", [s EXCEPT !.kind = "Retired", !.error = "error"])
      BY <2>1, <2>3, Zenon DEF ReduceTaskFailed
    <3>4. Reduce(s, i) = Goes("Failed", u)
      BY <3>1, <3>3, Zenon
    <3> QED
      BY <3>2, <3>4 DEF Goes, Silent
  <2> QED
    BY <2>2, <2>3
<1>4. CASE i.kind = "TaskCancelled"
  <2>1. Reduce(s, i) = EndsWithoutAnswer(s, i)
    BY <1>4 DEF Reduce
  <2> QED
    BY <1>1, <2>1 DEF EndsWithoutAnswer, Stays, Goes, Stands
<1>5. CASE \E e \in Names : i.kind = AnswerTo(e)
  <2>1. PICK e \in Names : i.kind = AnswerTo(e)
    BY <1>5
  <2>2. CASE e # "Shutdown"
    <3>1. i.kind \in {"PreflightFinished", "AuditCommitted", "MutationFinished",
                      "ObservationFinished", "AuditFinished", "RecoveryFinished", "Finalized"}
      BY <2>1, <2>2 DEF AnswerTo, Names
    <3>2. Reduce(s, i) \in {ReducePreflightFinished(s, i), ReduceAuditCommitted(s, i),
                            ReduceMutationFinished(s, i, "Mutate"),
                            ReduceMutationFinished(s, i, "Recover"),
                            ReduceObservationFinished(s, i), ReduceAuditFinished(s, i),
                            ReduceFinalized(s, i)}
      BY <3>1 DEF Reduce
    <3>3. Reduce(s, i) = Stays(s, "Retired")
      BY <1>1, <1>2, <3>2 DEF ReducePreflightFinished, ReduceAuditCommitted,
         ReduceMutationFinished, ReduceObservationFinished, ReduceAuditFinished, ReduceFinalized
    <3> QED
      BY <3>3 DEF Stays, Goes, Stands
  <2>3. CASE e = "Shutdown"
    <3>1. Reduce(s, i) = ReduceShutdownFinished(s, i)
      BY <2>1, <2>3 DEF Reduce, AnswerTo
    <3>2. CASE s.kind # "ShuttingDown"
      BY <3>1, <3>2 DEF ReduceShutdownFinished, Stays, Goes, Stands
    <3>3. CASE s.kind = "ShuttingDown"
      <4> DEFINE v == [s EXCEPT !.kind = "Retired"]
                 u == [v EXCEPT !.projection.proxy = i.outcome.proxy]
                 w == [v EXCEPT !.error = i.outcome.error]
      <4>1. w = [s EXCEPT !.kind = "Retired", !.error = i.outcome.error]
        BY Zenon
      <4>2. u = [s EXCEPT !.kind = "Retired", !.projection.proxy = i.outcome.proxy]
        BY Zenon
      <4>3. IsClosed(u) /\ IsClosed(w)
        BY DEF IsClosed
      <4> HIDE DEF u, w
      <4>4. Reduce(s, i) = IF i.outcome.error = "none" THEN Goes("Cancelled", u)
                                                       ELSE Goes("Failed", w)
        BY <3>1, <3>3, <4>1, <4>2, Zenon DEF ReduceShutdownFinished
      <4> QED
        BY <4>3, <4>4 DEF Goes, Silent
    <3> QED
      BY <3>2, <3>3
  <2> QED
    BY <2>2, <2>3
<1> QED
  BY <1>3, <1>4, <1>5

\* Joining a task of such a machine only removes it.
LEMMA ClosedJoin ==
  ASSUME IsClosed(state), Tasks(tasks), NEW t \in DOMAIN tasks, Run!Join(t)
  PROVE  /\ IsClosed(state') /\ tasks' = Without(tasks, t)
         /\ TracksTo(state, state', failed, failed') => failed' = failed
<1> DEFINE k == tasks[t]
           c == k.effect.correlation
           rest == [u \in DOMAIN tasks \ {t} |-> tasks[u]]
           lost == TaskFailed(c, "any")
<1>1. TaskOk(k)
  BY DEF Tasks
<1>2. rest = Without(tasks, t)
  BY DEF Without
<1>3. (\A w : TaskFailed(c, w) = lost) /\ lost.kind = "TaskFailed"
  BY DEF TaskFailed, Input
<1>4. PICK i, role : /\ Run!Apply(i, rest, role)
                     /\ i = lost \/ (i = k.outcome.input /\ k.outcome.kind = "ok")
  BY <1>3 DEF Run!Join
<1>5. \/ i.kind \in {"TaskFailed", "TaskCancelled"}
      \/ \E e \in Names : i.kind = AnswerTo(e)
  BY <1>1, <1>3, <1>4 DEF TaskOk
<1> HIDE DEF lost
<1>6. Stands(Reduce(state, i)) \/ (Silent(Reduce(state, i)) /\ IsClosed(Reduce(state, i).state))
  BY <1>5, ClosedReduces
<1>7. IsClosed(state') /\ tasks' = rest
  BY <1>4, <1>6, ApplyStands, ApplySilent
<1>8. ~IsActive(state)
  BY DEF IsActive, IsClosed
<1> QED
  BY <1>2, <1>7, <1>8 DEF TracksTo

-----------------------------------------------------------------------------
(* The invariant.                                                           *)

\* A task that is under way in the platform runs, and has an answer to give.
Places(a, ts) ==
  /\ a \in [TaskId -> {"ready", "in", "took", "confirming", "stop", "confirm"}]
  /\ \A t \in TaskId :
       a[t] # "ready" => /\ t \in DOMAIN ts /\ ts[t].outcome.kind = "running"
                         /\ Corr(ts, t).effect \in DOMAIN AnswerKind

\* No launch is under way beside a shutdown, and one that was told of success did not
\* fail.
LaunchInv ==
  /\ IsLaunch(launch) /\ (shut # "idle" => launch.pc \in Quiet)
  /\ launch.pc = "ok" => launch.token.id \notin failed

CaptureInv ==
  /\ panics \in Nat /\ Places(at, tasks) /\ LaunchInv
  /\ mode = "open" => Open(state, tasks, panics) /\ LaunchOpen(state, launch, failed)
  /\ mode # "open" => IsClosed(state) /\ Tasks(tasks) /\ shut # "idle"

\* Tasks that go on keep their place in the platform.
LEMMA KeepsPlaces ==
  ASSUME NEW a, NEW ts, NEW ws, Places(a, ts), Keeps(ts, ws)
  PROVE  Places(a, ws)
  BY DEF Places, Keeps, Corr

\* A step of an open machine.
LEMMA OpenStep ==
  ASSUME CaptureInv, mode = "open", mode' = mode, at' = at, panics' = panics,
         Open(state', tasks', panics), Keeps(tasks, tasks'), IsLaunch(launch'),
         LaunchOpen(state', launch', failed'), shut' # "idle" => launch'.pc \in Quiet
  PROVE  CaptureInv'
<1>1. Places(at, tasks')
  BY KeepsPlaces DEF CaptureInv
<1> QED
  BY <1>1 DEF CaptureInv, LaunchInv, LaunchOpen

\* A step of the launch alone.
LEMMA LaunchAlone ==
  ASSUME CaptureInv, UNCHANGED runner, failed' = failed, at' = at, panics' = panics, shut' = shut,
         mode = "open", IsLaunch(launch'), LaunchOpen(state, launch', failed),
         shut # "idle" => launch'.pc \in Quiet
  PROVE  CaptureInv'
  BY DEF CaptureInv, LaunchInv, LaunchOpen, runner

\* Tasks that are left alone go on.
LEMMA KeepsItself ==
  ASSUME NEW ts
  PROVE  Keeps(ts, ts)
  BY DEF Keeps

-----------------------------------------------------------------------------
(* Tasks work and end.                                                      *)

\* Steps of the platform alone.
LEMMA PlatformStep ==
  ASSUME CaptureInv, UNCHANGED <<runner, callerVars, failed, panics>>, Places(at', tasks)
  PROVE  CaptureInv'
  BY DEF CaptureInv, LaunchInv, runner, callerVars

\* Enter and TakeOver move a task within the platform.
LEMMA EnterHolds ==
  ASSUME CaptureInv, NEW t \in TaskId, Enter(t) \/ TakeOver(t)
  PROVE  CaptureInv'
<1>1. /\ UNCHANGED <<runner, callerVars, failed, panics>>
      /\ t \in DOMAIN tasks /\ tasks[t].outcome.kind = "running"
      /\ Corr(tasks, t).effect \in DOMAIN AnswerKind
      /\ \E x \in {"in", "took", "confirming"} : at' = [at EXCEPT ![t] = x]
  <2>1. CASE Enter(t)
    <3>1. Corr(tasks, t).effect \in DOMAIN AnswerKind
      BY <2>1 DEF Enter, Does, Corr, AnswerKind
    <3> QED
      BY <2>1, <3>1 DEF Enter, Busy
  <2>2. CASE TakeOver(t)
    <3>1. Corr(tasks, t).effect \in DOMAIN AnswerKind
      BY <2>2 DEF TakeOver, CaptureInv, Places
    <3> QED
      BY <2>2, <3>1 DEF TakeOver, Busy
  <2> QED
    BY <2>1, <2>2
<1>2. Places(at', tasks)
  BY <1>1 DEF CaptureInv, Places
<1> QED
  BY <1>1, <1>2, PlatformStep

\* A task ends with outcome o.
LEMMA SettledTasks ==
  ASSUME Tasks(tasks), NEW t \in DOMAIN tasks, NEW o, Run!Settle(t, o),
         o.kind \in {"running", "ok", "panicked", "aborted"},
         o.kind = "ok" => /\ o.input.correlation = Corr(tasks, t)
                          /\ o.input.kind \in {AnswerTo(Corr(tasks, t).effect), "TaskCancelled"}
  PROVE  /\ Tasks(tasks') /\ DOMAIN tasks' = DOMAIN tasks /\ state' = state /\ mode' = mode
         /\ \A u \in DOMAIN tasks \ {t} : tasks'[u] = tasks[u]
         /\ tasks'[t].effect = tasks[t].effect /\ tasks'[t].cancelled = tasks[t].cancelled
         /\ tasks'[t].aborted = tasks[t].aborted /\ tasks'[t].outcome = o
<1> DEFINE k == tasks[t]
           l == [k EXCEPT !.outcome = o]
           ts == tasks
           ws == [ts EXCEPT ![t] = l]
<1>1. tasks' = ws /\ state' = state /\ mode' = mode
  BY DEF Run!Settle
<1>2. TaskOk(k)
  BY DEF Tasks
<1>3. k.effect.correlation = Corr(tasks, t)
  BY DEF Corr
<1> HIDE DEF k
<1>4. /\ TaskOk(l) /\ l.effect = k.effect /\ l.cancelled = k.cancelled /\ l.aborted = k.aborted
      /\ l.outcome = o
  BY <1>2, <1>3 DEF TaskOk
<1> HIDE DEF l
<1>5. DOMAIN ws = DOMAIN ts /\ ws[t] = l /\ \A u \in DOMAIN ts \ {t} : ws[u] = ts[u]
  OBVIOUS
<1> HIDE DEF ws
<1>6. \A u \in DOMAIN ts : Corr(ws, u) = Corr(ts, u) /\ TaskOk(ws[u])
  BY <1>3, <1>4, <1>5 DEF Corr, Tasks
<1>7. Tasks(ws)
  BY <1>5, <1>6 DEF Tasks, Distinct
<1> QED
  BY <1>1, <1>4, <1>5, <1>7 DEF k

\* The tasks of an open machine after one has ended.
LEMMA SettledOpen ==
  ASSUME NEW s, NEW ts, NEW p, Open(s, ts, p), NEW ws, NEW q, Tasks(ws), DOMAIN ws = DOMAIN ts,
         NEW t \in DOMAIN ts, \A u \in DOMAIN ts \ {t} : ws[u] = ts[u],
         ws[t].effect = ts[t].effect, OpenTask(ws[t], q), p \in Nat, q \in Nat, q >= p
  PROVE  Open(s, ws, q)
<1>1. \A u \in DOMAIN ts : Corr(ws, u) = Corr(ts, u)
  BY DEF Corr
<1>2. Owned(s, ws) /\ Few(s, ws)
  BY <1>1 DEF Owned, Few, Open
<1>3. \A k : OpenTask(k, p) => OpenTask(k, q)
  BY DEF OpenTask
<1>4. \A u \in DOMAIN ws : OpenTask(ws[u], q)
  BY <1>3 DEF Open
<1> QED
  BY <1>2, <1>4 DEF Open

\* What the step of a task leaves to show, once it has ended.
LEMMA SettledHolds ==
  ASSUME CaptureInv, NEW t \in TaskId, t \in DOMAIN tasks, NEW o, Run!Settle(t, o),
         o.kind \in {"ok", "panicked", "aborted"},
         o.kind = "ok" => /\ o.input.correlation = Corr(tasks, t)
                          /\ o.input.kind \in {AnswerTo(Corr(tasks, t).effect), "TaskCancelled"},
         mode = "open" =>
           /\ o.kind = "ok" => o.input.kind # "TaskCancelled"
           /\ o.kind # "aborted" /\ (o.kind = "panicked" => panics' > 0),
         \/ at' = [at EXCEPT ![t] = "ready"] \/ (at' = at /\ at[t] = "ready"),
         failed' = failed, panics' \in Nat, panics' >= panics, shut' = shut,
         launch'.pc = launch.pc, launch'.token = launch.token, IsLaunch(launch')
  PROVE  CaptureInv'
<1>1. Tasks(tasks)
  BY DEF CaptureInv, Open
<1>2. /\ Tasks(tasks') /\ DOMAIN tasks' = DOMAIN tasks /\ state' = state /\ mode' = mode
      /\ \A u \in DOMAIN tasks \ {t} : tasks'[u] = tasks[u]
      /\ tasks'[t].effect = tasks[t].effect /\ tasks'[t].cancelled = tasks[t].cancelled
      /\ tasks'[t].aborted = tasks[t].aborted /\ tasks'[t].outcome = o
  BY <1>1, SettledTasks
<1>3. Places(at', tasks')
  <2>1. /\ at' \in [TaskId -> {"ready", "in", "took", "confirming", "stop", "confirm"}]
        /\ at'[t] = "ready" /\ \A u \in TaskId \ {t} : at'[u] = at[u]
    BY DEF CaptureInv, Places
  <2> QED
    BY <1>2, <2>1 DEF CaptureInv, Places, Corr
<1>4. LaunchInv'
  BY DEF CaptureInv, LaunchInv
<1>5. ASSUME mode = "open"
      PROVE  Open(state', tasks', panics') /\ LaunchOpen(state', launch', failed')
  <2>1. Open(state, tasks, panics) /\ LaunchOpen(state, launch, failed) /\ panics \in Nat
    BY <1>5 DEF CaptureInv
  <2>2. OpenTask(tasks'[t], panics')
    <3>1. OpenTask(tasks[t], panics)
      BY <2>1 DEF Open
    <3> QED
      BY <1>2, <1>5, <2>1, <3>1 DEF OpenTask
  <2>3. Open(state, tasks', panics')
    BY <1>2, <2>1, <2>2, SettledOpen
  <2>4. LaunchOpen(state, launch', failed)
    BY <2>1 DEF LaunchOpen, Its, Correlation
  <2> QED
    BY <1>2, <2>3, <2>4
<1> QED
  BY <1>2, <1>3, <1>4, <1>5 DEF CaptureInv

\* What a task says carries its correlation.
Spoken(i, kind, c) == i.kind = kind /\ i.correlation = c

\* Answer and Says both build their input this way.
LEMMA SpokenInput ==
  ASSUME NEW kind, NEW c, NEW x
  PROVE  Spoken([Input(kind) EXCEPT !.correlation = c, !.outcome = x], kind, c)
<1> DEFINE a == Input(kind)
           b == [a EXCEPT !.correlation = c]
           d == [b EXCEPT !.outcome = x]
<1>1. Spoken(d, kind, c)
  BY DEF Spoken, Input
<1>2. d = [Input(kind) EXCEPT !.correlation = c, !.outcome = x]
  BY Zenon
<1> QED
  BY <1>1, <1>2, Zenon

\* The answer to each effect of a reconciler.
LEMMA AnswerKinds ==
  /\ DOMAIN AnswerKind = {"Mutate", "Observe", "Audit", "Recover", "Finalize", "Shutdown"}
  /\ \A e \in DOMAIN AnswerKind : AnswerKind[e] = AnswerTo(e)
  BY DEF AnswerKind, AnswerTo

\* A result is sent back as the answer to its effect.
LEMMA AnswerSpoken ==
  ASSUME NEW t, NEW r, Corr(tasks, t).effect \in DOMAIN AnswerKind
  PROVE  /\ Answer(t, r).kind = "ok"
         /\ Spoken(Answer(t, r).input, AnswerTo(Corr(tasks, t).effect), Corr(tasks, t))
<1> DEFINE c == Corr(tasks, t)
           x == [error |-> r.error, proxy |-> r.proxy,
                 mutated |-> r.mutated \/ tasks[t].effect.seen # r.proxy]
           i == [Input(AnswerKind[c.effect]) EXCEPT !.correlation = c, !.outcome = x]
<1>1. Answer(t, r) = [kind |-> "ok", input |-> i]
  BY Zenon DEF Answer, Corr
<1>2. AnswerKind[c.effect] = AnswerTo(c.effect)
  BY AnswerKinds
<1> HIDE DEF x, c
<1>3. Spoken(i, AnswerKind[c.effect], c)
  BY SpokenInput, Zenon
<1> HIDE DEF i
<1> QED
  BY <1>1, <1>2, <1>3 DEF c

\* The other answers carry it too.
LEMMA SaysSpoken ==
  ASSUME NEW t, NEW kind
  PROVE  Says(t, kind).kind = "ok" /\ Spoken(Says(t, kind).input, kind, Corr(tasks, t))
<1> DEFINE c == Corr(tasks, t)
           x == tasks[t].effect.outcome
           i == [Input(kind) EXCEPT !.correlation = c, !.outcome = x]
<1>1. Says(t, kind) = [kind |-> "ok", input |-> i]
  BY Zenon DEF Says, Corr
<1> HIDE DEF x, c
<1>3. Spoken(i, kind, c)
  BY SpokenInput, Zenon
<1> HIDE DEF i
<1> QED
  BY <1>1, <1>3 DEF c

\* A task that speaks ends.
LEMMA SpokenHolds ==
  ASSUME CaptureInv, NEW t \in TaskId, t \in DOMAIN tasks, NEW o, Run!Settle(t, o),
         o.kind = "ok", NEW kind, Spoken(o.input, kind, Corr(tasks, t)),
         \/ kind = AnswerTo(Corr(tasks, t).effect)
         \/ kind = "TaskCancelled" /\ mode # "open",
         \/ at' = [at EXCEPT ![t] = "ready"] \/ (at' = at /\ at[t] = "ready"),
         failed' = failed, panics' = panics, shut' = shut,
         launch'.pc = launch.pc, launch'.token = launch.token, IsLaunch(launch')
  PROVE  CaptureInv'
<1>1. o.input.correlation = Corr(tasks, t) /\ o.input.kind = kind
  BY DEF Spoken
<1>2. panics \in Nat
  BY DEF CaptureInv
<1>3. Corr(tasks, t).effect \in Names
  BY DEF CaptureInv, Open, Tasks, TaskOk, Corr
<1>4. AnswerTo(Corr(tasks, t).effect) # "TaskCancelled"
  BY <1>3 DEF AnswerTo, Names
<1>5. panics' \in Nat /\ panics' >= panics
  BY <1>2
<1> QED
  BY <1>1, <1>4, <1>5, SettledHolds

\* A task of a reconciler, or the shutdown's, has its result.
LEMMA FinishHolds ==
  ASSUME CaptureInv, NEW t \in TaskId, Finish(t) \/ LoadJournal(t)
  PROVE  CaptureInv'
<1>0. Places(at, tasks) /\ IsLaunch(launch)
  BY DEF CaptureInv, LaunchInv
<1>1. CASE Finish(t)
  <2>1. PICK r \in Results(t) :
          IF Does(t, "Shutdown") /\ at[t] = "in" /\ r.error = "none"
            THEN at' = [at EXCEPT ![t] = "confirm"] /\ UNCHANGED runner
            ELSE at' = [at EXCEPT ![t] = "ready"] /\ Run!Settle(t, Answer(t, r))
    BY <1>1 DEF Finish
  <2>2. /\ UNCHANGED <<callerVars, failed, panics>> /\ t \in DOMAIN tasks /\ at[t] \in Inside
        /\ tasks[t].outcome.kind = "running"
    BY <1>1 DEF Finish, Busy
  <2>3. Corr(tasks, t).effect \in DOMAIN AnswerKind
    BY <1>0, <2>2 DEF Places, Inside
  <2>4. CASE at' = [at EXCEPT ![t] = "confirm"] /\ UNCHANGED runner
    <3>1. Places(at', tasks)
      BY <1>0, <2>2, <2>3, <2>4 DEF Places
    <3> QED
      BY <2>2, <2>4, <3>1, PlatformStep
  <2>5. CASE at' = [at EXCEPT ![t] = "ready"] /\ Run!Settle(t, Answer(t, r))
    <3> DEFINE o == Answer(t, r)
    <3>1. o.kind = "ok" /\ Spoken(o.input, AnswerTo(Corr(tasks, t).effect), Corr(tasks, t))
      BY <2>3, AnswerSpoken
    <3>2. Run!Settle(t, o)
      BY <2>5
    <3>3. /\ failed' = failed /\ panics' = panics /\ shut' = shut
          /\ launch'.pc = launch.pc /\ launch'.token = launch.token /\ IsLaunch(launch')
      BY <1>0, <2>2 DEF callerVars
    <3> HIDE DEF o
    <3> QED
      BY <2>2, <2>5, <3>1, <3>2, <3>3, SpokenHolds
  <2> QED
    BY <2>1, <2>4, <2>5
<1>2. CASE LoadJournal(t)
  <2>2. /\ UNCHANGED <<callerVars, failed, panics>> /\ t \in DOMAIN tasks /\ at[t] = "ready"
        /\ tasks[t].outcome.kind = "running" /\ Corr(tasks, t).effect = "Shutdown"
    BY <1>2 DEF LoadJournal, Does, Busy, Corr
  <2>3. Corr(tasks, t).effect \in DOMAIN AnswerKind
    BY <2>2, AnswerKinds
  <2>4. CASE at' = [at EXCEPT ![t] = "stop"] /\ UNCHANGED runner
    <3>1. Places(at', tasks)
      BY <1>0, <2>2, <2>3, <2>4 DEF Places
    <3> QED
      BY <2>2, <2>4, <3>1, PlatformStep
  <2>5. ASSUME NEW r, at' = at, Run!Settle(t, Answer(t, r))
        PROVE  CaptureInv'
    <3> DEFINE o == Answer(t, r)
    <3>1. o.kind = "ok" /\ Spoken(o.input, AnswerTo(Corr(tasks, t).effect), Corr(tasks, t))
      BY <2>3, AnswerSpoken
    <3>2. Run!Settle(t, o)
      BY <2>5
    <3>3. /\ failed' = failed /\ panics' = panics /\ shut' = shut
          /\ launch'.pc = launch.pc /\ launch'.token = launch.token /\ IsLaunch(launch')
      BY <1>0, <2>2 DEF callerVars
    <3> HIDE DEF o
    <3> QED
      BY <2>2, <2>5, <3>1, <3>2, <3>3, SpokenHolds
  <2> QED
    BY <1>2, <2>4, <2>5 DEF LoadJournal
<1> QED
  BY <1>1, <1>2

\* An audit is committed, a preflight answers, a task is cancelled.
LEMMA SaysHolds ==
  ASSUME CaptureInv, NEW t \in TaskId, CommitAudit(t) \/ Preflight(t) \/ Cancelled(t)
  PROVE  CaptureInv'
<1>0. Places(at, tasks) /\ IsLaunch(launch)
  BY DEF CaptureInv, LaunchInv
<1>1. CASE CommitAudit(t)
  <2> DEFINE o == Says(t, "AuditCommitted")
  <2>1. t \in DOMAIN tasks /\ Corr(tasks, t).effect = "CommitAudit"
    BY <1>1 DEF CommitAudit, Does, Busy, Corr
  <2>2. at' = at /\ at[t] = "ready"
    BY <1>0, <1>1, <2>1, AnswerKinds DEF CommitAudit, platformVars, Places
  <2>3. o.kind = "ok" /\ Spoken(o.input, "AuditCommitted", Corr(tasks, t))
    BY SaysSpoken
  <2>4. Run!Settle(t, o)
    BY <1>1 DEF CommitAudit
  <2>5. /\ failed' = failed /\ panics' = panics /\ shut' = shut
        /\ launch'.pc = launch.pc /\ launch'.token = launch.token /\ IsLaunch(launch')
    BY <1>0, <1>1 DEF CommitAudit, callerVars
  <2>6. "AuditCommitted" = AnswerTo(Corr(tasks, t).effect)
    BY <2>1 DEF AnswerTo
  <2> HIDE DEF o
  <2> QED
    BY <2>1, <2>2, <2>3, <2>4, <2>5, <2>6, SpokenHolds
<1>2. CASE Preflight(t)
  <2> DEFINE o == Says(t, "PreflightFinished")
  <2>1. t \in DOMAIN tasks /\ Corr(tasks, t).effect = "Preflight"
    BY <1>2 DEF Preflight, Does, Busy, Corr
  <2>2. at' = at /\ at[t] = "ready"
    BY <1>0, <1>2, <2>1, AnswerKinds DEF Preflight, platformVars, Places
  <2>3. o.kind = "ok" /\ Spoken(o.input, "PreflightFinished", Corr(tasks, t))
    BY SaysSpoken
  <2>4. Run!Settle(t, o)
    BY <1>2 DEF Preflight
  <2>5. /\ failed' = failed /\ panics' = panics /\ shut' = shut
        /\ launch'.pc = launch.pc /\ launch'.token = launch.token /\ IsLaunch(launch')
    <3>1. PICK reply \in {"ok", "error"} : launch' = [launch EXCEPT !.reply = reply]
      BY <1>2 DEF Preflight
    <3> QED
      BY <1>0, <1>2, <3>1 DEF Preflight, IsLaunch
  <2>6. "PreflightFinished" = AnswerTo(Corr(tasks, t).effect)
    BY <2>1 DEF AnswerTo
  <2> HIDE DEF o
  <2> QED
    BY <2>1, <2>2, <2>3, <2>4, <2>5, <2>6, SpokenHolds
<1>3. CASE Cancelled(t)
  <2> DEFINE o == Says(t, "TaskCancelled")
  <2>1. t \in DOMAIN tasks /\ tasks[t].cancelled /\ Corr(tasks, t).effect # "Preflight"
    BY <1>3 DEF Cancelled, Busy, Corr
  <2>2. at' = [at EXCEPT ![t] = "ready"]
    BY <1>3 DEF Cancelled
  <2>3. o.kind = "ok" /\ Spoken(o.input, "TaskCancelled", Corr(tasks, t))
    BY SaysSpoken
  <2>4. Run!Settle(t, o)
    BY <1>3 DEF Cancelled
  <2>5. /\ failed' = failed /\ panics' = panics /\ shut' = shut
        /\ launch'.pc = launch.pc /\ launch'.token = launch.token /\ IsLaunch(launch')
    BY <1>0, <1>3 DEF Cancelled, callerVars
  <2>6. mode # "open"
    BY <2>1 DEF CaptureInv, Open, OpenTask, Corr
  <2> HIDE DEF o
  <2> QED
    BY <2>1, <2>2, <2>3, <2>4, <2>5, <2>6, SpokenHolds
<1> QED
  BY <1>1, <1>2, <1>3

\* A task panics or is aborted.
LEMMA CrashesHolds ==
  ASSUME CaptureInv, NEW t \in TaskId, Crashes(t)
  PROVE  CaptureInv'
<1> DEFINE o == [kind |-> IF tasks[t].aborted THEN "aborted" ELSE "panicked",
                 input |-> Input("none")]
<1>0. panics \in Nat /\ IsLaunch(launch) /\ Places(at, tasks)
  BY DEF CaptureInv, LaunchInv
<1>1. t \in DOMAIN tasks /\ Run!Settle(t, o) /\ at' = [at EXCEPT ![t] = "ready"]
  BY DEF Crashes, Busy
<1>2. o.kind \in {"panicked", "aborted"} /\ (o.kind = "aborted" <=> tasks[t].aborted)
  OBVIOUS
<1>3. panics' \in Nat /\ panics' >= panics /\ (~tasks[t].aborted => panics' > 0)
  BY <1>0 DEF Crashes
<1>4. mode = "open" => ~tasks[t].aborted
  BY <1>1 DEF CaptureInv, Open, OpenTask
<1>5. /\ failed' = failed /\ shut' = shut
      /\ launch'.pc = launch.pc /\ launch'.token = launch.token /\ IsLaunch(launch')
  <2>1. launch' = launch \/ launch' = [launch EXCEPT !.reply = "lost"]
    BY DEF Crashes
  <2>2. failed' = failed /\ shut' = shut
    BY DEF Crashes
  <2> QED
    BY <1>0, <2>1, <2>2 DEF IsLaunch
<1> HIDE DEF o
<1> QED
  BY <1>1, <1>2, <1>3, <1>4, <1>5, SettledHolds


\* The runner joins a task.
LEMMA JoinHolds ==
  ASSUME CaptureInv, NEW t \in TaskId, Join(t)
  PROVE  CaptureInv'
<1>0. Places(at, tasks) /\ LaunchInv /\ panics \in Nat
  BY DEF CaptureInv
<1>1. /\ t \in DOMAIN tasks /\ Run!Join(t) /\ mode' = mode /\ at' = at /\ panics' = panics
      /\ launch' = launch /\ shut' = shut /\ tasks[t].outcome.kind # "running"
      /\ TracksTo(state, state', failed, failed')
  BY TracksFailed DEF Join, Run!Join, platformVars, callerVars
<1>2. at[t] = "ready"
  BY <1>0, <1>1 DEF Places
<1>3. Tasks(tasks)
  BY DEF CaptureInv, Open
<1>4. /\ Tasks(Without(tasks, t)) /\ DOMAIN Without(tasks, t) = DOMAIN tasks \ {t}
      /\ \A u \in DOMAIN tasks \ {t} : Without(tasks, t)[u] = tasks[u]
  BY <1>1, <1>3, WithoutTask
<1>5. Places(at, Without(tasks, t))
  <2> DEFINE w == Without(tasks, t)
  <2> HIDE DEF w
  <2> QED
    BY <1>0, <1>2, <1>4 DEF Places, Corr, w
<1>6. CASE mode = "open"
  <2>1. Open(state, tasks, panics) /\ LaunchOpen(state, launch, failed) /\ WellFormed(state)
    BY <1>6 DEF CaptureInv, Open
  <2>2. /\ Open(state', tasks', panics) /\ Joined(state, state')
        /\ Keeps(Without(tasks, t), tasks')
    BY <1>0, <1>1, <1>6, <2>1, JoinStep
  <2>3. LaunchOpen(state', launch, failed')
    BY <1>0, <1>1, <2>1, <2>2, LaunchJoined DEF LaunchInv
  <2>4. Places(at, tasks')
    BY <1>5, <2>2, KeepsPlaces
  <2>5. launch.pc = "ok" => launch.token.id \notin failed'
    BY <2>3 DEF LaunchOpen
  <2> QED
    BY <1>0, <1>1, <1>6, <2>2, <2>3, <2>4, <2>5 DEF CaptureInv, LaunchInv
<1>7. CASE mode # "open"
  <2>1. IsClosed(state) /\ shut # "idle"
    BY <1>7 DEF CaptureInv
  <2>2. IsClosed(state') /\ tasks' = Without(tasks, t) /\ failed' = failed
    BY <1>1, <1>3, <2>1, ClosedJoin
  <2> QED
    BY <1>0, <1>1, <1>4, <1>5, <1>7, <2>1, <2>2 DEF CaptureInv, LaunchInv
<1> QED
  BY <1>6, <1>7

-----------------------------------------------------------------------------
(* The launch steps.                                                        *)

\* A launch goes on to another place of its own.
LEMMA LaunchGoesOn ==
  ASSUME NEW s, NEW l, NEW k, NEW f, LaunchOpen(s, l, f), IsLaunch(l), IsLaunch(k),
         k.token.id = l.token.id,
         \/ l.pc \in EarlyPcs /\ k.pc \in EarlyPcs \ {"reserved"}
         \/ k.pc \in {"finishing", "failed"}
         \/ k.pc = l.pc
  PROVE  LaunchOpen(s, k, f)
<1>1. Its(k) = Its(l)
  BY DEF Its, Correlation, IsLaunch
<1> QED
  BY <1>1 DEF LaunchOpen, EarlyPcs

\* Where a launch may step the machine is open.
LEMMA LaunchIsOpen ==
  ASSUME CaptureInv, launch.pc \notin Quiet \/ shut = "idle"
  PROVE  /\ mode = "open" /\ shut = "idle" /\ panics \in Nat /\ IsLaunch(launch)
         /\ Open(state, tasks, panics) /\ LaunchOpen(state, launch, failed) /\ WellFormed(state)
  BY DEF CaptureInv, LaunchInv, Open

\* LaunchGoes and LaunchFails change the launch's place only.
LEMMA GoesShape ==
  ASSUME IsLaunch(launch), NEW pc \in Quiet \cup EarlyPcs \cup {"waiting", "finishing"},
         NEW error, LaunchGoes(pc) \/ LaunchFails(pc, error)
  PROVE  launch'.pc = pc /\ launch'.token = launch.token /\ IsLaunch(launch')
<1> DEFINE a == [launch EXCEPT !.pc = pc]
           b == [a EXCEPT !.error = error]
<1>1. b = [launch EXCEPT !.pc = pc, !.error = error]
  BY Zenon
<1>2. launch' = a \/ launch' = b
  BY <1>1, Zenon DEF LaunchGoes, LaunchFails
<1>3. a.pc = pc /\ a.token = launch.token /\ IsLaunch(a)
  BY DEF IsLaunch
<1>4. b.pc = pc /\ b.token = launch.token /\ IsLaunch(b)
  BY DEF IsLaunch
<1> HIDE DEF a, b
<1> QED
  BY <1>2, <1>3, <1>4

\* LaunchEnds keeps its number.
LEMMA EndsShape ==
  ASSUME IsLaunch(launch), NEW pc \in Quiet, LaunchEnds(pc)
  PROVE  launch'.pc = pc /\ launch'.token.id = launch.token.id /\ IsLaunch(launch')
<1> DEFINE n == launch.token.id
           a == [NoLaunch EXCEPT !.pc = pc]
           b == [a EXCEPT !.token.id = n]
<1>0. n \in Nat
  BY DEF IsLaunch
<1>1. launch' = [NoLaunch EXCEPT !.pc = pc, !.token.id = n]
  BY Zenon DEF LaunchEnds
<1> HIDE DEF n
<1>2. b = [NoLaunch EXCEPT !.pc = pc, !.token.id = n]
  BY Zenon
<1>3. b.pc = pc /\ b.token.id = n /\ IsLaunch(b)
  BY <1>0 DEF IsLaunch, NoLaunch, NoOperation
<1> HIDE DEF b
<1> QED
  BY <1>1, <1>2, <1>3, Zenon DEF n

\* A launch that begins.
LEMMA StartShape ==
  ASSUME NEW pc \in Quiet \cup EarlyPcs, NEW token, token.id \in Nat, token.prefix = "none"
  PROVE  LET k == [NoLaunch EXCEPT !.pc = pc, !.token = token]
             j == [NoLaunch EXCEPT !.pc = pc]
         IN /\ IsLaunch(k) /\ k.pc = pc /\ k.token = token
            /\ IsLaunch(j) /\ j.pc = pc /\ j.token.id = 0
<1> DEFINE a == [NoLaunch EXCEPT !.pc = pc]
           b == [a EXCEPT !.token = token]
<1>1. b = [NoLaunch EXCEPT !.pc = pc, !.token = token]
  BY Zenon
<1>2. IsLaunch(b) /\ b.pc = pc /\ b.token = token
  BY DEF IsLaunch, NoLaunch
<1>3. IsLaunch(a) /\ a.pc = pc /\ a.token.id = 0
  BY DEF IsLaunch, NoLaunch, NoOperation
<1> QED
  BY <1>1, <1>2, <1>3, Zenon


\* What the launch sends in names its operation.
Tokened(i, kind, op) ==
  /\ {"kind", "correlation", "token", "error", "healthy"} \subseteq DOMAIN i
  /\ i.kind = kind /\ i.token = op /\ i.correlation = Correlation(op, "none")

\* Token builds such an input.
LEMMA TokenShape ==
  ASSUME NEW kind, NEW op
  PROVE  Tokened(Token(kind, op), kind, op)
<1> DEFINE a == Input(kind)
           b == [a EXCEPT !.correlation = Correlation(op, "none")]
           c == [b EXCEPT !.token = op]
           d == [c EXCEPT !.active = TRUE]
<1>1. Token(kind, op) = d
  BY Zenon DEF Token
<1>2. Tokened(d, kind, op)
  BY DEF Tokened, Input
<1> HIDE DEF d
<1> QED
  BY <1>1, <1>2

\* So it is with an error or the health of the core.
LEMMA ToldTokenShape ==
  ASSUME NEW kind, NEW op, NEW e
  PROVE  LET a == [Token(kind, op) EXCEPT !.error = e]
             b == [Token(kind, op) EXCEPT !.healthy = e]
         IN Tokened(a, kind, op) /\ a.error = e /\ Tokened(b, kind, op)
<1> DEFINE t == Token(kind, op)
<1>1. Tokened(t, kind, op)
  BY TokenShape
<1> HIDE DEF t
<1>2. /\ Tokened([t EXCEPT !.error = e], kind, op) /\ [t EXCEPT !.error = e].error = e
      /\ Tokened([t EXCEPT !.healthy = e], kind, op)
  BY <1>1 DEF Tokened
<1> QED
  BY <1>2 DEF t

\* Tasks of a machine whose operation is marked, or ended by the launch's report.
LEMMA MarkedOpen ==
  ASSUME NEW s, NEW ts, NEW p, Open(s, ts, p), NEW u, NEW error, Marked(s, u, error)
  PROVE  Open(u, ts, p)
<1>1. WellFormed(u) /\ Floor(u) = Floor(s) /\ (Reserved(u) => Reserved(s))
  BY DEF Marked, SameOp, Floor, Reserved, IsActive
<1>2. \A c : Awaited(s, c) <=> Awaited(u, c)
  <2>1. CASE SameOp(s, u) /\ u.kind = s.kind /\ u.stage = s.stage
    <3>1. \A c : Mine(s, c) <=> Mine(u, c)
      BY <2>1 DEF SameOp, Mine, SameOperation, Correlation
    <3> QED
      BY <2>1, <3>1 DEF Awaited
  <2>2. CASE ~IsActive(s) /\ ~IsActive(u)
    BY <2>2 DEF Awaited, Mine
  <2> QED
    BY <2>1, <2>2 DEF Marked
<1>3. \A c : Outlived(s, c) => Outlived(u, c)
  BY <1>1 DEF Outlived
<1> QED
  BY <1>1, <1>2, <1>3 DEF Open, Owned, Few

\* An effect of the ended operation is a preflight or a finalizer that outlives it.
LEMMA ReportedOpen ==
  ASSUME NEW s, NEW ts, NEW p, Open(s, ts, p), NEW u, WellFormed(u), ~IsActive(u),
         u.next = s.next, IsActive(s) => Reserved(s) \/ Early(s)
  PROVE  Open(u, ts, p)
<1>1. WellFormed(s)
  BY DEF Open
<1>2. /\ Floor(u) = s.next /\ Floor(u) \in Nat /\ Floor(s) \in Nat /\ Floor(u) >= Floor(s)
      /\ ~Reserved(u) /\ \A c : ~Awaited(u, c)
  BY <1>1 DEF Floor, WellFormed, Reserved, IsActive, Awaited, Mine
<1>3. \A c : Outlived(s, c) => Outlived(u, c)
  BY <1>2 DEF Outlived
<1>4. ASSUME NEW c, Awaited(s, c) PROVE Outlived(u, c)
  <2>1. c.op = s.op.id /\ c.op \in Nat /\ c.prefix # "shutdown" /\ ~Reserved(s) /\ IsActive(s)
    BY <1>1, <1>4, AwaitedIsCurrent
  <2>2. c.effect \in {"Preflight", "Finalize"}
    BY <1>4, <2>1 DEF Awaited, Early
  <2>3. c.op < s.next
    BY <1>1, <2>1 DEF WellFormed
  <2> QED
    BY <1>2, <2>1, <2>2, <2>3 DEF Outlived
<1> QED
  BY <1>2, <1>3, <1>4 DEF Open, Owned, Few

\* Cancelling the preflight of the operation in hand.
LEMMA CancelledOpen ==
  ASSUME NEW s, NEW ts, NEW p, Open(s, ts, p), NEW op, NEW role
  PROVE  LET w == Run!WithEffect(ts, CancelEffect(op, "Preflight"), role)
         IN Open(s, w, p) /\ Keeps(ts, w)
<1> DEFINE e == CancelEffect(op, "Preflight")
           w == Run!WithEffect(ts, e, role)
<1>1. e.mode = "Cancel" /\ e.correlation.effect = "Preflight"
  BY DEF CancelEffect, Effect, Correlation
<1>2. Tasks(ts)
  BY DEF Open
<1> HIDE DEF e
<1>3. /\ DOMAIN w = DOMAIN ts
      /\ \A t \in DOMAIN ts :
           /\ TaskOk(w[t])
           /\ w[t].effect = ts[t].effect /\ w[t].outcome = ts[t].outcome
           /\ w[t].aborted = ts[t].aborted
           /\ w[t].cancelled # ts[t].cancelled => Corr(ts, t) = e.correlation
  BY <1>1, <1>2, CancelKeeps
<1> HIDE DEF w
<1>4. \A t \in DOMAIN ts : Corr(w, t) = Corr(ts, t)
  BY <1>3 DEF Corr
<1>5. Tasks(w)
  BY <1>2, <1>3, <1>4 DEF Tasks, Distinct
<1>6. Owned(s, w) /\ Few(s, w)
  BY <1>3, <1>4 DEF Owned, Few, Open
<1>7. ASSUME NEW t \in DOMAIN w PROVE OpenTask(w[t], p)
  <2>1. OpenTask(ts[t], p) /\ t \in DOMAIN ts
    BY <1>3, <1>7 DEF Open
  <2>2. w[t].cancelled => ts[t].cancelled \/ Corr(ts, t).effect = "Preflight"
    BY <1>1, <1>3, <2>1
  <2> QED
    BY <1>3, <2>1, <2>2 DEF OpenTask, Corr
<1>8. Open(s, w, p)
  BY <1>5, <1>6, <1>7 DEF Open
<1>9. Keeps(ts, w)
  BY <1>3 DEF Keeps
<1> QED
  BY <1>8, <1>9 DEF w, e


\* What OnlyLaunch leaves alone.
LEMMA OnlyLaunchKeeps ==
  ASSUME OnlyLaunch
  PROVE  at' = at /\ panics' = panics /\ shut' = shut
  BY DEF OnlyLaunch, platformVars

\* Steps of the launch that leave the machine alone.
LEMMA LaunchRejectsHolds ==
  ASSUME CaptureInv, LaunchRejects \/ LaunchPrepares \/ LaunchDrains
  PROVE  CaptureInv'
<1>1. launch.pc \in EarlyPcs /\ launch.pc \notin Quiet
  BY DEF LaunchRejects, LaunchPrepares, LaunchDrains, EarlyPcs, Quiet
<1>2. /\ mode = "open" /\ shut = "idle" /\ IsLaunch(launch)
      /\ LaunchOpen(state, launch, failed)
  BY <1>1, LaunchIsOpen
<1>3. /\ UNCHANGED runner /\ failed' = failed /\ at' = at /\ panics' = panics /\ shut' = shut
  BY OnlyLaunchKeeps DEF LaunchRejects, LaunchPrepares, LaunchDrains
<1>4. \E pc \in EarlyPcs \ {"reserved"} : LaunchGoes(pc) \/ LaunchFails(pc, "error")
  BY DEF LaunchRejects, LaunchPrepares, LaunchDrains, EarlyPcs
<1>5. PICK pc \in EarlyPcs \ {"reserved"} : LaunchGoes(pc) \/ LaunchFails(pc, "error")
  BY <1>4
<1>6. launch'.pc = pc /\ launch'.token = launch.token /\ IsLaunch(launch')
  BY <1>2, <1>5, GoesShape
<1>7. LaunchOpen(state, launch', failed)
  BY <1>1, <1>2, <1>6, LaunchGoesOn
<1> QED
  BY <1>2, <1>3, <1>6, <1>7, LaunchAlone

\* LaunchLearns: Ok is answered only when no failure waits for the launch.
LEMMA LaunchLearnsHolds ==
  ASSUME CaptureInv, LaunchLearns
  PROVE  CaptureInv'
<1>1. launch.pc = "waiting" /\ launch.pc \notin Quiet /\ ~Mine(state, Its(launch))
  BY DEF LaunchLearns, Quiet, Learned, Its
<1>2. /\ mode = "open" /\ shut = "idle" /\ IsLaunch(launch) /\ WellFormed(state)
      /\ LaunchOpen(state, launch, failed)
  BY <1>1, LaunchIsOpen
<1>3. /\ UNCHANGED runner /\ failed' = failed /\ at' = at /\ panics' = panics /\ shut' = shut
  BY OnlyLaunchKeeps DEF LaunchLearns
<1>4. CASE LastError(state) = "none"
  <2>1. LaunchEnds("ok")
    BY <1>4 DEF LaunchLearns
  <2>2. launch'.pc = "ok" /\ launch'.token.id = launch.token.id /\ IsLaunch(launch')
    BY <1>2, <2>1, EndsShape DEF Quiet
  <2>3. ~Stuck(state)
    BY <1>4 DEF Stuck, LastError, IsActive
  <2>4. launch.token.id < Floor(state) /\ launch.token.id \notin failed
    BY <1>1, <1>2, <2>3 DEF LaunchOpen
  <2>5. LaunchOpen(state, launch', failed)
    BY <1>2, <2>2, <2>4 DEF LaunchOpen, EarlyPcs
  <2> QED
    BY <1>2, <1>3, <2>2, <2>5, LaunchAlone
<1>5. CASE LastError(state) # "none"
  <2>1. LaunchFails("failing", LastError(state))
    BY <1>5 DEF LaunchLearns
  <2>2. launch'.pc = "failing" /\ launch'.token = launch.token /\ IsLaunch(launch')
    BY <1>2, <2>1, GoesShape DEF EarlyPcs
  <2>3. ~Mine(state, Its(launch'))
    BY <1>1, <2>2 DEF Its
  <2>5. LaunchOpen(state, launch', failed)
    BY <1>1, <1>2, <2>2, <2>3 DEF LaunchOpen, EarlyPcs
  <2> QED
    BY <1>2, <1>3, <2>2, <2>5, LaunchAlone
<1> QED
  BY <1>4, <1>5

\* LaunchFinishes: the launch ends as failed.
LEMMA LaunchFinishesHolds ==
  ASSUME CaptureInv, LaunchFinishes
  PROVE  CaptureInv'
<1>1. launch.pc = "finishing" /\ launch.pc \notin Quiet
  BY DEF LaunchFinishes, Quiet
<1>2. /\ mode = "open" /\ shut = "idle" /\ IsLaunch(launch)
      /\ LaunchOpen(state, launch, failed)
  BY <1>1, LaunchIsOpen
<1>3. /\ UNCHANGED runner /\ failed' = failed /\ at' = at /\ panics' = panics /\ shut' = shut
      /\ LaunchEnds("failed")
  BY OnlyLaunchKeeps DEF LaunchFinishes
<1>4. launch'.pc = "failed" /\ launch'.token.id = launch.token.id /\ IsLaunch(launch')
  BY <1>2, <1>3, EndsShape DEF Quiet
<1>5. LaunchOpen(state, launch', failed)
  BY <1>2, <1>4, LaunchGoesOn
<1> QED
  BY <1>2, <1>3, <1>4, <1>5, LaunchAlone

\* LaunchReserves: a new operation belongs to the launch.
LEMMA LaunchReservesHolds ==
  ASSUME CaptureInv, LaunchReserves
  PROVE  CaptureInv'
<1> DEFINE i == [Input("Reserve") EXCEPT !.active = TRUE]
           s == state
           tr == Reduce(s, i)
           p == panics
<1>1. /\ shut = "idle" /\ Room /\ Offer(i) /\ Tracks /\ OnlyLaunch
      /\ launch' = IF Refused(i) THEN [NoLaunch EXCEPT !.pc = "failed"]
                   ELSE [NoLaunch EXCEPT !.pc = "reserved", !.token = state'.op]
  BY DEF LaunchReserves
<1>2. /\ mode = "open" /\ panics \in Nat /\ Open(s, tasks, p)
      /\ LaunchOpen(s, launch, failed) /\ WellFormed(s)
  BY <1>1, LaunchIsOpen
<1>3. i.kind = "Reserve"
  BY DEF Input
<1>4. Run!Apply(i, tasks, "Operation") /\ mode' = mode
  BY <1>1, <1>2 DEF Offer, Run!Admit
<1>5. TracksTo(s, state', failed, failed') /\ at' = at /\ panics' = panics /\ shut' = shut
  BY <1>1, TracksFailed, OnlyLaunchKeeps
<1>6. Cardinality(DOMAIN tasks) <= 1
  <2>1. Cardinality(DOMAIN tasks) \in Nat
    BY <1>2, FS_CardinalityType DEF Open, Tasks
  <2> QED
    BY <1>1, <2>1 DEF Room
<1>7. tr = ReduceReserve(s, i)
  BY <1>3 DEF Reduce
<1>8. Refused(i) <=> tr.disposition = "Rejected"
  BY <1>2 DEF Refused
<1> HIDE DEF i
<1>9. \/ Stands(tr) /\ tr.disposition = "Rejected"
      \/ /\ Silent(tr) /\ Begun(s, tr.state) /\ Reserved(tr.state)
         /\ tr.state.op.mode = "Prepared" /\ tr.state.op.prefix = "none"
  BY <1>2, <1>7, ReserveReduces
<1>10. CASE Stands(tr) /\ tr.disposition = "Rejected"
  <2>1. state' = s /\ tasks' = tasks
    BY <1>4, <1>10, ApplyStands
  <2>2. failed' = failed
    BY <1>5, <2>1, TracksSame
  <2>3. launch' = [NoLaunch EXCEPT !.pc = "failed"]
    BY <1>1, <1>8, <1>10
  <2>4. launch'.pc = "failed" /\ launch'.token.id = 0 /\ IsLaunch(launch')
    BY <2>3 DEF IsLaunch, NoLaunch, NoOperation, Quiet
  <2>5. Floor(s) > 0
    BY <1>2 DEF Floor, WellFormed
  <2>6. LaunchOpen(s, launch', failed)
    BY <1>2, <2>4, <2>5 DEF LaunchOpen, EarlyPcs
  <2> QED
    BY <1>2, <1>4, <1>5, <2>1, <2>2, <2>4, <2>6, KeepsItself, OpenStep DEF Quiet
<1>11. CASE /\ Silent(tr) /\ Begun(s, tr.state) /\ Reserved(tr.state)
            /\ tr.state.op.mode = "Prepared" /\ tr.state.op.prefix = "none"
  <2> DEFINE u == tr.state
  <2>1. Idle(s, tasks, p)
    BY <1>2, <1>6, <1>11, RestIsIdle DEF Begun
  <2>2. state' = u /\ tasks' = tasks /\ Open(state', tasks', p)
    BY <1>2, <1>4, <1>11, <2>1, SilentStep
  <2>3. failed' = failed
    BY <1>5, <1>11, <2>2, TracksSame DEF Begun
  <2>4. launch' = [NoLaunch EXCEPT !.pc = "reserved", !.token = u.op]
    <3>1. ~Refused(i)
      BY <1>8, <1>11 DEF Silent
    <3> QED
      BY <1>1, <2>2, <3>1, Zenon
  <2>5. /\ ~IsActive(s) /\ IsActive(u) /\ u.op.id = s.next /\ s.next \in Nat /\ WellFormed(u)
        /\ Reserved(u) /\ u.op.mode = "Prepared" /\ u.op.prefix = "none"
    BY <1>2, <1>11 DEF Begun, WellFormed
  <2> HIDE DEF u
  <2> DEFINE o == u.op
  <2>6. o.id \in Nat /\ o.prefix = "none"
    BY <2>5
  <2>7. launch' = [NoLaunch EXCEPT !.pc = "reserved", !.token = o]
    BY <2>4, Zenon
  <2> HIDE DEF o
  <2>8. IsLaunch(launch') /\ launch'.pc = "reserved" /\ launch'.token = o
    <3>1. "reserved" \in Quiet \cup EarlyPcs
      BY DEF EarlyPcs
    <3> DEFINE k == [NoLaunch EXCEPT !.pc = "reserved", !.token = o]
    <3>2. IsLaunch(k) /\ k.pc = "reserved" /\ k.token = o
      BY <2>6, <3>1, StartShape, Zenon
    <3> QED
      BY <2>7, <3>2, Zenon
  <2>9. Mine(u, Its(launch')) /\ Floor(u) = Floor(s)
    BY <2>5, <2>8 DEF Its, Mine, SameOperation, Correlation, Floor, o
  <2>10. LaunchOpen(u, launch', failed)
    BY <1>2, <2>5, <2>8, <2>9 DEF LaunchOpen, EarlyPcs
  <2> QED
    BY <1>1, <1>2, <1>4, <1>5, <2>2, <2>3, <2>8, <2>10, KeepsItself, OpenStep
<1> QED
  BY <1>9, <1>10, <1>11


\* LaunchPreflights: its preflight begins.
LEMMA LaunchPreflightsHolds ==
  ASSUME CaptureInv, LaunchPreflights
  PROVE  CaptureInv'
<1> DEFINE i == [Input("Preflight") EXCEPT !.active = TRUE]
           s == state
           tr == Reduce(s, i)
           p == panics
<1>1. /\ launch.pc = "reserved" /\ launch.pc \notin Quiet
      /\ Offer(i) /\ Tracks /\ OnlyLaunch
      /\ LaunchFails("marking", "error") \/ LaunchGoes("preparing")
  BY DEF LaunchPreflights, Quiet
<1>2. /\ mode = "open" /\ shut = "idle" /\ panics \in Nat /\ Open(s, tasks, p)
      /\ LaunchOpen(s, launch, failed) /\ WellFormed(s) /\ IsLaunch(launch)
  BY <1>1, LaunchIsOpen
<1>3. tr = ReducePreflight(s, i)
  BY DEF Input, Reduce
<1>4. Run!Apply(i, tasks, "Operation") /\ mode' = mode
  BY <1>1, <1>2 DEF Offer, Run!Admit
<1>5. TracksTo(s, state', failed, failed') /\ at' = at /\ panics' = panics /\ shut' = shut
  BY <1>1, TracksFailed, OnlyLaunchKeeps
<1>6. Reserved(s)
  BY <1>1, <1>2 DEF LaunchOpen
<1>7. /\ launch'.pc \in {"marking", "preparing"} /\ launch'.token = launch.token
      /\ IsLaunch(launch')
  BY <1>1, <1>2, GoesShape DEF EarlyPcs
<1>8. LaunchOpen(s, launch', failed)
  BY <1>1, <1>2, <1>7, LaunchGoesOn DEF EarlyPcs
<1> HIDE DEF i
<1>9. CASE Stands(tr)
  <2>1. state' = s /\ tasks' = tasks
    BY <1>4, <1>9, ApplyStands
  <2>2. failed' = failed
    BY <1>5, <2>1, TracksSame
  <2> QED
    BY <1>2, <1>4, <1>5, <1>7, <1>8, <2>1, <2>2, KeepsItself, OpenStep
<1>10. CASE /\ SameOp(s, tr.state) /\ SpawnsOther(tr) /\ tr.state.stage = "Preflighting"
            /\ tr.state.kind = "Transitioning"
  <2>1. Idle(s, tasks, p)
    BY <1>2, <1>6, RestIsIdle DEF Open, Few
  <2>2. PICK e : SpawnsOne(tr, e) /\ e.correlation.effect # "Finalize"
    BY <1>10 DEF SpawnsOther
  <2>3. state' = tr.state /\ Open(state', tasks', p) /\ Keeps(tasks, tasks')
    BY <1>2, <1>4, <1>10, <2>1, <2>2, SpawnStep
  <2>4. failed' = failed
    BY <1>5, <1>10, <2>3, TracksSame
  <2>5. Early(state') /\ SameOp(s, state')
    BY <1>10, <2>3 DEF Early
  <2>6. LaunchOpen(state', launch', failed)
    BY <1>2, <1>7, <1>8, <2>5, LaunchContinued
  <2> QED
    BY <1>2, <1>4, <1>5, <1>7, <2>3, <2>4, <2>6, OpenStep
<1> QED
  BY <1>2, <1>3, <1>6, <1>9, <1>10, PreflightReduces

\* A mark, of the launch or of the one that cancels it.
LEMMA MarkHolds ==
  ASSUME CaptureInv, launch.pc \notin Quiet, NEW error,
         Offer([Token("MarkFinalizing", launch.token) EXCEPT !.error = error]), Tracks, OnlyLaunch,
         IsLaunch(launch'), LaunchOpen(state, launch', failed),
         launch'.pc = "waiting" => error # "none"
  PROVE  CaptureInv'
<1> DEFINE i == [Token("MarkFinalizing", launch.token) EXCEPT !.error = error]
           s == state
           tr == Reduce(s, i)
           p == panics
<1>2. /\ mode = "open" /\ shut = "idle" /\ panics \in Nat /\ Open(s, tasks, p)
      /\ LaunchOpen(s, launch, failed) /\ WellFormed(s) /\ IsLaunch(launch)
  BY LaunchIsOpen
<1>3. Tokened(i, "MarkFinalizing", launch.token) /\ i.error = error
  <2>1. Tokened(i, "MarkFinalizing", launch.token)
    BY ToldTokenShape
  <2>2. Tokened(Token("MarkFinalizing", launch.token), "MarkFinalizing", launch.token)
    BY TokenShape
  <2>3. i.error = error
    BY <2>2 DEF Tokened
  <2> QED
    BY <2>1, <2>3
<1>4. Run!Apply(i, tasks, "Operation") /\ mode' = mode
  BY <1>2 DEF Offer, Run!Admit
<1>5. TracksTo(s, state', failed, failed') /\ at' = at /\ panics' = panics /\ shut' = shut
  BY TracksFailed, OnlyLaunchKeeps
<1> HIDE DEF i
<1>6. i.kind = "MarkFinalizing" /\ i.correlation.prefix = "none"
  BY <1>2, <1>3 DEF Tokened, Correlation, IsLaunch
<1>7. CASE Stands(tr)
  <2>1. state' = s /\ tasks' = tasks
    BY <1>4, <1>7, ApplyStands
  <2>2. failed' = failed
    BY <1>5, <2>1, TracksSame
  <2> QED
    BY <1>2, <1>4, <1>5, <2>1, <2>2, KeepsItself, OpenStep
<1>8. CASE Silent(tr) /\ Marked(s, tr.state, error)
  <2>1. state' = tr.state /\ tasks' = tasks
    BY <1>4, <1>8, ApplySilent
  <2>2. Open(state', tasks', p)
    BY <1>2, <1>8, <2>1, MarkedOpen
  <2>3. LaunchOpen(state', launch', failed')
    BY <1>2, <1>5, <1>8, <2>1, LaunchMarked
  <2> QED
    BY <1>2, <1>4, <1>5, <2>1, <2>2, <2>3, KeepsItself, OpenStep
<1> QED
  BY <1>2, <1>3, <1>6, <1>7, <1>8, MarkReduces

\* LaunchMarks and LaunchCancelled.
LEMMA LaunchMarksHolds ==
  ASSUME CaptureInv, LaunchMarks \/ LaunchCancelled
  PROVE  CaptureInv'
<1>1. CASE LaunchMarks
  <2>1. /\ launch.pc = "marking" /\ launch.pc \notin Quiet /\ Tracks /\ OnlyLaunch
        /\ Offer([Token("MarkFinalizing", launch.token) EXCEPT !.error = launch.error])
        /\ LaunchGoes("draining") \/ LaunchGoes("failing")
    BY <1>1 DEF LaunchMarks, Quiet
  <2>2. IsLaunch(launch) /\ LaunchOpen(state, launch, failed)
    BY <2>1, LaunchIsOpen
  <2>3. /\ launch'.pc \in {"draining", "failing"} /\ launch'.token = launch.token
        /\ IsLaunch(launch')
    BY <2>1, <2>2, GoesShape DEF EarlyPcs
  <2>4. LaunchOpen(state, launch', failed)
    BY <2>1, <2>2, <2>3, LaunchGoesOn DEF EarlyPcs
  <2> QED
    BY <2>1, <2>3, <2>4, MarkHolds
<1>2. CASE LaunchCancelled
  <2>1. /\ launch.pc \notin Quiet /\ Tracks /\ OnlyLaunch
        /\ Offer([Token("MarkFinalizing", launch.token) EXCEPT !.error = "error"])
        /\ launch' = [launch EXCEPT !.cancelled = TRUE]
    BY <1>2 DEF LaunchCancelled
  <2>2. IsLaunch(launch) /\ LaunchOpen(state, launch, failed)
    BY <2>1, LaunchIsOpen
  <2>3. launch'.pc = launch.pc /\ launch'.token = launch.token /\ IsLaunch(launch')
    BY <2>1, <2>2 DEF IsLaunch
  <2>4. LaunchOpen(state, launch', failed)
    BY <2>2, <2>3, LaunchGoesOn
  <2> QED
    BY <2>1, <2>3, <2>4, MarkHolds
<1> QED
  BY <1>1, <1>2

\* LaunchExecutes: the reserved operation begins to work on the platform.
LEMMA LaunchExecutesHolds ==
  ASSUME CaptureInv, LaunchExecutes
  PROVE  CaptureInv'
<1> DEFINE i == [Token("ExecuteReserved", launch.token) EXCEPT !.healthy = TRUE]
           s == state
           tr == Reduce(s, i)
           p == panics
<1>1. /\ launch.pc = "prepared" /\ launch.pc \notin Quiet /\ OnlyLaunch
      /\ \/ Mine(s, i.correlation) /\ Offer(i) /\ Tracks /\ LaunchGoes("waiting")
         \/ LaunchFails("failing", "error") /\ UNCHANGED <<runner, failed>>
  BY DEF LaunchExecutes, Quiet
<1>2. /\ mode = "open" /\ shut = "idle" /\ panics \in Nat /\ Open(s, tasks, p)
      /\ LaunchOpen(s, launch, failed) /\ WellFormed(s) /\ IsLaunch(launch)
  BY <1>1, LaunchIsOpen
<1>3. at' = at /\ panics' = panics /\ shut' = shut
  BY <1>1, OnlyLaunchKeeps
<1>4. CASE LaunchFails("failing", "error") /\ UNCHANGED <<runner, failed>>
  <2>1. launch'.pc = "failing" /\ launch'.token = launch.token /\ IsLaunch(launch')
    BY <1>2, <1>4, GoesShape DEF EarlyPcs
  <2>2. LaunchOpen(s, launch', failed)
    BY <1>1, <1>2, <2>1, LaunchGoesOn DEF EarlyPcs
  <2> QED
    BY <1>2, <1>3, <1>4, <2>1, <2>2, LaunchAlone
<1>5. CASE Mine(s, i.correlation) /\ Offer(i) /\ Tracks /\ LaunchGoes("waiting")
  <2>1. launch'.pc = "waiting" /\ launch'.token = launch.token /\ IsLaunch(launch')
    BY <1>2, <1>5, GoesShape
  <2>2. Tokened(i, "ExecuteReserved", launch.token)
    BY ToldTokenShape
  <2>3. Run!Apply(i, tasks, "Operation") /\ mode' = mode
    BY <1>2, <1>5 DEF Offer, Run!Admit
  <2>4. TracksTo(s, state', failed, failed')
    BY <1>5, TracksFailed
  <2> HIDE DEF i
  <2>5. tr = ReduceExecuteReserved(s, i) /\ i.correlation = Its(launch)
    BY <2>2 DEF Reduce, Tokened, Its
  <2>6. Mine(s, Its(launch)) /\ Its(launch') = Its(launch) /\ s.op.mode = "Prepared"
    BY <1>1, <1>2, <1>5, <2>1, <2>5 DEF Its, LaunchOpen, EarlyPcs
  <2>7. LaunchOpen(s, launch', failed)
    BY <1>2, <2>1, <2>6 DEF LaunchOpen, EarlyPcs
  <2>8. CASE Stands(tr)
    <3>1. state' = s /\ tasks' = tasks
      BY <2>3, <2>8, ApplyStands
    <3>2. failed' = failed
      BY <2>4, <3>1, TracksSame
    <3> QED
      BY <1>2, <1>3, <2>1, <2>3, <2>7, <3>1, <3>2, KeepsItself, OpenStep
  <2>9. CASE Reserved(s) /\ SameOp(s, tr.state) /\ SpawnsOther(tr)
    <3>1. Idle(s, tasks, p)
      BY <1>2, <2>9, RestIsIdle DEF Open, Few
    <3>2. PICK e : SpawnsOne(tr, e) /\ e.correlation.effect # "Finalize"
      BY <2>9 DEF SpawnsOther
    <3>3. state' = tr.state /\ Open(state', tasks', p) /\ Keeps(tasks, tasks')
      BY <1>2, <2>3, <2>9, <3>1, <3>2, SpawnStep
    <3>4. failed' = failed
      BY <2>4, <2>9, <3>3, TracksSame
    <3>5. LaunchOpen(state', launch', failed)
      BY <1>2, <2>1, <2>7, <2>9, <3>3, LaunchContinued DEF EarlyPcs
    <3> QED
      BY <1>2, <1>3, <2>1, <2>3, <3>3, <3>4, <3>5, OpenStep
  <2> QED
    BY <1>2, <2>5, <2>8, <2>9, ExecuteReduces
<1> QED
  BY <1>1, <1>4, <1>5

\* LaunchReports: the failure is told, and the operation ends or its preflight is cancelled.
LEMMA LaunchReportsHolds ==
  ASSUME CaptureInv, LaunchReports
  PROVE  CaptureInv'
<1> DEFINE i == [Token("FailReserved", launch.token) EXCEPT !.error = launch.error]
           s == state
           tr == Reduce(s, i)
           p == panics
           token == launch.token
<1>1. /\ launch.pc = "failing" /\ launch.pc \notin Quiet /\ OnlyLaunch
      /\ Offer(i) /\ Tracks /\ LaunchGoes("finishing")
  BY DEF LaunchReports, Quiet
<1>2. /\ mode = "open" /\ shut = "idle" /\ panics \in Nat /\ Open(s, tasks, p)
      /\ LaunchOpen(s, launch, failed) /\ WellFormed(s) /\ IsLaunch(launch)
  BY <1>1, LaunchIsOpen
<1>3. TracksTo(s, state', failed, failed') /\ at' = at /\ panics' = panics /\ shut' = shut
  BY <1>1, TracksFailed, OnlyLaunchKeeps
<1>4. launch'.pc = "finishing" /\ launch'.token = launch.token /\ IsLaunch(launch')
  BY <1>1, <1>2, GoesShape
<1>5. Tokened(i, "FailReserved", token)
  BY ToldTokenShape
<1>6. Run!Apply(i, tasks, "Operation") /\ mode' = mode
  BY <1>1, <1>2 DEF Offer, Run!Admit
<1>7. LaunchOpen(s, launch', failed)
  BY <1>2, <1>4, LaunchGoesOn
<1> HIDE DEF i
<1>8. Reported(s, tr)
  <2>1. /\ i.kind = "FailReserved" /\ i.token = token /\ i.correlation = Correlation(token, "none")
        /\ i.correlation = Its(launch)
    BY <1>5 DEF Tokened, Its
  <2>2. token.prefix = "none" /\ token.id \in Nat
    BY <1>2 DEF IsLaunch
  <2>3. /\ token.id < Floor(s) \/ Mine(s, i.correlation)
        /\ Mine(s, i.correlation) => Reserved(s) \/ Early(s)
    BY <1>1, <1>2, <2>1 DEF LaunchOpen, EarlyPcs
  <2> HIDE DEF token
  <2> QED
    BY <1>2, <2>1, <2>2, <2>3, ReportReduces
<1>9. CASE Stands(tr)
  <2>1. state' = s /\ tasks' = tasks
    BY <1>6, <1>9, ApplyStands
  <2>2. failed' = failed
    BY <1>3, <2>1, TracksSame
  <2> QED
    BY <1>2, <1>3, <1>4, <1>6, <1>7, <2>1, <2>2, KeepsItself, OpenStep
<1>10. CASE /\ Silent(tr) /\ WellFormed(tr.state) /\ ~IsActive(tr.state) /\ tr.state.next = s.next
            /\ IsActive(s) => Reserved(s) \/ Early(s)
  <2>1. state' = tr.state /\ tasks' = tasks
    BY <1>6, <1>10, ApplySilent
  <2>2. Open(state', tasks', p)
    BY <1>2, <1>10, <2>1, ReportedOpen
  <2>3. LaunchOpen(state', launch', failed')
    BY <1>2, <1>3, <1>4, <1>10, <2>1, LaunchReported
  <2> QED
    BY <1>2, <1>3, <1>4, <1>6, <2>1, <2>2, <2>3, KeepsItself, OpenStep
<1>11. CASE /\ tr.disposition = "EffectEmitting"
            /\ tr.effects = <<CancelEffect(s.op, "Preflight")>>
            /\ SameOp(s, tr.state) /\ tr.state.kind = s.kind /\ tr.state.stage = s.stage
  <2> DEFINE op == s.op
             w == Run!WithEffect(tasks, CancelEffect(op, "Preflight"), "Operation")
  <2>1. state' = tr.state /\ tasks' = w
    BY <1>6, <1>11, ApplyEmits, BatchOfOne
  <2>2. Open(s, w, p) /\ Keeps(tasks, w)
    BY <1>2, CancelledOpen
  <2>3. Marked(s, tr.state, "none")
    BY <1>11 DEF Marked
  <2>4. Open(state', tasks', p)
    BY <2>1, <2>2, <2>3, MarkedOpen
  <2>5. failed' = failed
    BY <1>3, <1>11, <2>1, TracksSame
  <2>6. LaunchOpen(state', launch', failed')
    BY <1>2, <1>3, <1>4, <1>7, <2>1, <2>3, LaunchMarked
  <2> QED
    BY <1>2, <1>3, <1>4, <1>6, <2>1, <2>2, <2>4, <2>6, OpenStep
<1> QED
  BY <1>8, <1>9, <1>10, <1>11 DEF Reported


-----------------------------------------------------------------------------
(* Requests, audits and recoveries.                                         *)

\* Their inputs.
LEMMA InputKinds ==
  ASSUME NEW kind, NEW a, NEW b
  PROVE  /\ [Input(kind) EXCEPT !.active = a, !.healthy = b].kind = kind
         /\ [Input(kind) EXCEPT !.healthy = a, !.action = b].kind = kind
         /\ [Input(kind) EXCEPT !.healthy = a].kind = kind
<1> DEFINE i == Input(kind)
           c == [i EXCEPT !.active = a]
           d == [c EXCEPT !.healthy = b]
           e == [i EXCEPT !.healthy = a]
           f == [e EXCEPT !.action = b]
<1>1. d.kind = kind /\ e.kind = kind /\ f.kind = kind
  BY DEF Input
<1>2. /\ d = [Input(kind) EXCEPT !.active = a, !.healthy = b]
      /\ f = [Input(kind) EXCEPT !.healthy = a, !.action = b]
      /\ e = [Input(kind) EXCEPT !.healthy = a]
  BY Zenon
<1> HIDE DEF d, e, f
<1> QED
  BY <1>1, <1>2, Zenon

\* One of them is refused or begins an operation.
LEMMA BeginHolds ==
  ASSUME CaptureInv, mode = "open", Room, NEW i, Run!Apply(i, tasks, "Operation"), Tracks,
         mode' = mode, at' = at, panics' = panics, shut' = shut, launch' = launch,
         \/ Stands(Reduce(state, i))
         \/ Begun(state, Reduce(state, i).state) /\ SpawnsOther(Reduce(state, i))
  PROVE  CaptureInv'
<1> DEFINE s == state
           tr == Reduce(s, i)
           p == panics
<1>1. /\ panics \in Nat /\ Open(s, tasks, p) /\ LaunchOpen(s, launch, failed) /\ WellFormed(s)
      /\ IsLaunch(launch) /\ (shut # "idle" => launch.pc \in Quiet)
  BY DEF CaptureInv, LaunchInv, Open
<1>2. TracksTo(s, state', failed, failed')
  BY TracksFailed
<1>3. CASE Stands(tr)
  <2>1. state' = s /\ tasks' = tasks
    BY <1>3, ApplyStands
  <2>2. failed' = failed
    BY <1>2, <2>1, TracksSame
  <2> QED
    BY <1>1, <2>1, <2>2, KeepsItself, OpenStep
<1>4. CASE Begun(s, tr.state) /\ SpawnsOther(tr)
  <2>1. Cardinality(DOMAIN tasks) <= 1
    <3>1. Cardinality(DOMAIN tasks) \in Nat
      BY <1>1, FS_CardinalityType DEF Open, Tasks
    <3> QED
      BY <3>1 DEF Room
  <2>2. Idle(s, tasks, p)
    BY <1>1, <1>4, <2>1, RestIsIdle DEF Begun
  <2>3. PICK e : SpawnsOne(tr, e) /\ e.correlation.effect # "Finalize"
    BY <1>4 DEF SpawnsOther
  <2>4. state' = tr.state /\ Open(state', tasks', p) /\ Keeps(tasks, tasks')
    BY <1>1, <1>4, <2>2, <2>3, SpawnStep
  <2>5. LaunchOpen(state', launch, failed')
    BY <1>1, <1>2, <1>4, <2>4, LaunchBegun
  <2> QED
    BY <1>1, <2>4, <2>5, OpenStep
<1> QED
  BY <1>3, <1>4

\* CallStarts, on an open machine and on one that shuts down.
LEMMA CallStartsHolds ==
  ASSUME CaptureInv, CallStarts
  PROVE  CaptureInv'
<1>1. PICK active \in BOOLEAN :
        LET i == [Input("Start") EXCEPT !.active = active, !.healthy = TRUE]
        IN Room /\ Offer(i) /\ Tracks /\ UNCHANGED <<platformVars, launch, shut, panics>>
  BY Zenon DEF CallStarts
<1> DEFINE i == [Input("Start") EXCEPT !.active = active, !.healthy = TRUE]
<1>2. Room /\ Offer(i) /\ Tracks /\ UNCHANGED <<platformVars, launch, shut, panics>>
  BY <1>1, Zenon
<1>3. i.kind = "Start"
  BY InputKinds, Zenon
<1> HIDE DEF i
<1>4. at' = at /\ panics' = panics /\ shut' = shut /\ launch' = launch
  BY <1>2 DEF platformVars
<1>5. CASE mode = "open"
  <2>1. Run!Apply(i, tasks, "Operation") /\ mode' = mode
    BY <1>2, <1>5 DEF Offer, Run!Admit
  <2>2. WellFormed(state)
    BY <1>5 DEF CaptureInv, Open
  <2>3. Reduce(state, i) = ReduceStart(state, i)
    BY <1>3 DEF Reduce
  <2>4. \/ Stands(Reduce(state, i))
        \/ Begun(state, Reduce(state, i).state) /\ SpawnsOther(Reduce(state, i))
    BY <2>2, <2>3, StartReduces
  <2> QED
    BY <1>2, <1>4, <1>5, <2>1, <2>4, BeginHolds
<1>6. CASE mode # "open"
  <2>1. UNCHANGED runner
    BY <1>2, <1>6 DEF Offer
  <2>2. failed' = failed
    BY <1>2, <2>1, TracksFailed, TracksSame DEF runner
  <2> QED
    BY <1>4, <1>6, <2>1, <2>2 DEF CaptureInv, LaunchInv, runner
<1> QED
  BY <1>5, <1>6

\* Audit.
LEMMA AuditHolds ==
  ASSUME CaptureInv, Audit
  PROVE  CaptureInv'
<1>1. PICK healthy \in BOOLEAN :
        LET i == [Input("Audit") EXCEPT !.healthy = healthy]
        IN Room /\ Run!Admit(i) /\ Tracks /\ UNCHANGED <<platformVars, callerVars, panics>>
  BY Zenon DEF Audit
<1> DEFINE i == [Input("Audit") EXCEPT !.healthy = healthy]
<1>2. Room /\ Run!Admit(i) /\ Tracks /\ UNCHANGED <<platformVars, callerVars, panics>>
  BY <1>1, Zenon
<1>3. i.kind = "Audit"
  BY InputKinds, Zenon
<1> HIDE DEF i
<1>4. at' = at /\ panics' = panics /\ shut' = shut /\ launch' = launch
  BY <1>2 DEF platformVars, callerVars
<1>5. mode = "open" /\ Run!Apply(i, tasks, "Operation") /\ mode' = mode
  BY <1>2 DEF Run!Admit
<1>6. WellFormed(state)
  BY <1>5 DEF CaptureInv, Open
<1>7. Reduce(state, i) = ReduceAudit(state, i)
  BY <1>3 DEF Reduce
<1>8. \/ Stands(Reduce(state, i))
      \/ Begun(state, Reduce(state, i).state) /\ SpawnsOther(Reduce(state, i))
  BY <1>6, <1>7, AuditReduces
<1> QED
  BY <1>2, <1>4, <1>5, <1>8, BeginHolds

\* Recover.
LEMMA RecoverHolds ==
  ASSUME CaptureInv, Recover
  PROVE  CaptureInv'
<1>1. PICK action \in {"Repair", "LeaveAsIs"} :
        LET i == [Input("Recover") EXCEPT !.healthy = TRUE, !.action = action]
        IN Room /\ Run!Admit(i) /\ Tracks /\ UNCHANGED <<platformVars, callerVars, panics>>
  BY Zenon DEF Recover
<1> DEFINE i == [Input("Recover") EXCEPT !.healthy = TRUE, !.action = action]
<1>2. Room /\ Run!Admit(i) /\ Tracks /\ UNCHANGED <<platformVars, callerVars, panics>>
  BY <1>1, Zenon
<1>3. i.kind = "Recover"
  <2> DEFINE kind == "Recover"
             a == TRUE
  <2>1. i = [Input(kind) EXCEPT !.healthy = a, !.action = action]
    BY Zenon
  <2> HIDE DEF kind, a
  <2>2. [Input(kind) EXCEPT !.healthy = a, !.action = action].kind = kind
    BY InputKinds, Zenon
  <2> QED
    BY <2>1, <2>2, Zenon DEF kind
<1> HIDE DEF i
<1>4. at' = at /\ panics' = panics /\ shut' = shut /\ launch' = launch
  BY <1>2 DEF platformVars, callerVars
<1>5. mode = "open" /\ Run!Apply(i, tasks, "Operation") /\ mode' = mode
  BY <1>2 DEF Run!Admit
<1>6. WellFormed(state)
  BY <1>5 DEF CaptureInv, Open
<1>7. Reduce(state, i) = ReduceRecover(state, i)
  BY <1>3 DEF Reduce
<1>8. \/ Stands(Reduce(state, i))
      \/ Begun(state, Reduce(state, i).state) /\ SpawnsOther(Reduce(state, i))
  BY <1>6, <1>7, RecoverReduces
<1> QED
  BY <1>2, <1>4, <1>5, <1>8, BeginHolds


-----------------------------------------------------------------------------
(* The shutdown.                                                            *)

\* Its two effects: the effect in hand is cancelled, and the restoration begins.
LEMMA CancelTasks ==
  ASSUME NEW ts, Tasks(ts), NEW e, e.mode = "Cancel", NEW role
  PROVE  LET w == Run!WithEffect(ts, e, role)
         IN /\ Tasks(w) /\ Keeps(ts, w) /\ DOMAIN w = DOMAIN ts
            /\ \A t \in DOMAIN ts : Corr(w, t) = Corr(ts, t)
<1> DEFINE w == Run!WithEffect(ts, e, role)
<1>1. /\ DOMAIN w = DOMAIN ts
      /\ \A t \in DOMAIN ts :
           TaskOk(w[t]) /\ w[t].effect = ts[t].effect /\ w[t].outcome = ts[t].outcome
  BY CancelKeeps
<1> HIDE DEF w
<1>2. \A t \in DOMAIN ts : Corr(w, t) = Corr(ts, t)
  BY <1>1 DEF Corr
<1>3. Tasks(w) /\ Keeps(ts, w)
  BY <1>1, <1>2 DEF Tasks, Distinct, Keeps
<1> QED
  BY <1>1, <1>2, <1>3 DEF w

\* The restoration is a task under a correlation that no operation has.
LEMMA ShutdownTask ==
  ASSUME NEW ts, Tasks(ts), Cardinality(DOMAIN ts) <= 2,
         \A t \in DOMAIN ts : Corr(ts, t).prefix # "shutdown",
         NEW e, e.mode = "Spawn", e.correlation.prefix = "shutdown",
         e.correlation.effect = "Shutdown", NEW role
  PROVE  LET w == Run!WithEffect(ts, e, role) IN Tasks(w) /\ Keeps(ts, w)
<1> DEFINE k == Run!NewTask(e, role)
<1>1. PICK t \in TaskId : /\ t \notin DOMAIN ts
                          /\ Run!WithEffect(ts, e, role) = Added(ts, t, k)
  BY SpawnAdds DEF Tasks
<1> DEFINE w == Added(ts, t, k)
<1>2. TaskOk(k) /\ k.effect = e
  <2>1. e.correlation.effect \in Names /\ e.correlation.effect # "Finalize"
    BY DEF Names
  <2> QED
    BY <2>1, NewTaskShape
<1> HIDE DEF k
<1>3. DOMAIN w = DOMAIN ts \cup {t} /\ w[t] = k /\ \A u \in DOMAIN ts : w[u] = ts[u]
  <2>1. DOMAIN w = DOMAIN ts \cup {t} /\ w[t] = k /\ \A u \in DOMAIN ts \ {t} : w[u] = ts[u]
    BY DEF Added
  <2> HIDE DEF w
  <2> QED
    BY <1>1, <2>1
<1> HIDE DEF w
<1>4. Corr(w, t) = e.correlation /\ \A u \in DOMAIN ts : Corr(w, u) = Corr(ts, u)
  BY <1>2, <1>3 DEF Corr
<1>5. Distinct(w)
  BY <1>3, <1>4 DEF Distinct, Tasks
<1>6. IsFiniteSet(DOMAIN w)
  BY <1>3, FS_AddElement DEF Tasks
<1>7. Tasks(w)
  BY <1>2, <1>3, <1>5, <1>6 DEF Tasks
<1>8. Keeps(ts, w)
  BY <1>3 DEF Keeps
<1> QED
  BY <1>1, <1>7, <1>8 DEF w

\* Its effect, and the state of a machine that shuts down.
LEMMA ShutdownShape ==
  ASSUME NEW s
  PROVE  LET e == Effect(ShutdownOperation(s), "Shutdown")
             u == [Stable(0, s.projection, "none") EXCEPT !.kind = "ShuttingDown"]
         IN /\ e.mode = "Spawn" /\ e.correlation.prefix = "shutdown"
            /\ e.correlation.effect = "Shutdown" /\ IsClosed(u)
<1> DEFINE a == [NoOperation EXCEPT !.prefix = "shutdown"]
           b == [a EXCEPT !.previous = s.projection]
           o == ShutdownOperation(s)
<1>1. o = b
  BY Zenon DEF ShutdownOperation
<1>2. b.prefix = "shutdown"
  BY DEF NoOperation
<1> HIDE DEF b, o
<1>3. /\ Effect(o, "Shutdown").mode = "Spawn"
      /\ Effect(o, "Shutdown").correlation.prefix = "shutdown"
      /\ Effect(o, "Shutdown").correlation.effect = "Shutdown"
  BY <1>1, <1>2 DEF Effect, Correlation
<1>4. IsClosed([Stable(0, s.projection, "none") EXCEPT !.kind = "ShuttingDown"])
  BY DEF IsClosed, Stable
<1> QED
  BY <1>3, <1>4 DEF o

\* ShutdownStarts: an operation that is given up is not one a launch was told succeeded.
LEMMA ShutdownStartsHolds ==
  ASSUME CaptureInv, ShutdownStarts
  PROVE  CaptureInv'
<1> DEFINE s == state
           i == Input("Shutdown")
           tr == Reduce(s, i)
           spawn == Effect(ShutdownOperation(s), "Shutdown")
           cancel == CancelEffect(s.op, CancelledBy(s))
           u == [Stable(0, s.projection, "none") EXCEPT !.kind = "ShuttingDown"]
           role == "Operation"
<1>1. /\ shut = "checked" /\ mode = "open" /\ Run!Apply(i, tasks, role) /\ mode' = "draining"
      /\ Tracks /\ shut' = "stopping" /\ at' = at /\ launch' = launch /\ panics' = panics
  BY DEF ShutdownStarts, Run!Shutdown, platformVars
<1>2. /\ panics \in Nat /\ Places(at, tasks) /\ IsLaunch(launch) /\ launch.pc \in Quiet
      /\ Open(s, tasks, panics) /\ LaunchOpen(s, launch, failed) /\ WellFormed(s) /\ Tasks(tasks)
  BY <1>1 DEF CaptureInv, LaunchInv, Open
<1>3. tr = Emits(u, IF IsActive(s) THEN <<cancel, spawn>> ELSE <<spawn>>)
  <2>1. i.kind = "Shutdown"
    BY DEF Input
  <2> HIDE DEF i
  <2>2. tr = ReduceShutdown(s)
    BY <2>1 DEF Reduce
  <2> QED
    BY <2>2 DEF ReduceShutdown
<1>4. /\ spawn.mode = "Spawn" /\ spawn.correlation.prefix = "shutdown"
      /\ spawn.correlation.effect = "Shutdown" /\ IsClosed(u)
  BY ShutdownShape
<1>5. cancel.mode = "Cancel"
  BY DEF CancelEffect, Effect
<1> HIDE DEF spawn, cancel, u, i
<1>6. \A t \in DOMAIN tasks : Corr(tasks, t).prefix # "shutdown"
  BY <1>2, AwaitedIsCurrent DEF Open, Owned, Outlived
<1>7. Cardinality(DOMAIN tasks) <= 2
  BY <1>2 DEF Open, Few
<1>8. state' = u /\ Tasks(tasks') /\ Keeps(tasks, tasks')
  <2>1. state' = u /\ tasks' = Run!WithEffects(tasks, tr.effects, role)
    BY <1>1, <1>3, ApplyEmits DEF Emits
  <2>2. CASE IsActive(s)
    <3> DEFINE w == Run!WithEffect(tasks, cancel, role)
               x == Run!WithEffect(w, spawn, role)
    <3>1. tasks' = x
      <4>1. tr.effects = <<cancel, spawn>>
        BY <1>3, <2>2 DEF Emits
      <4> QED
        BY <2>1, <4>1, BatchOfTwo
    <3>2. /\ Tasks(w) /\ Keeps(tasks, w) /\ DOMAIN w = DOMAIN tasks
          /\ \A t \in DOMAIN tasks : Corr(w, t) = Corr(tasks, t)
      BY <1>2, <1>5, CancelTasks
    <3> HIDE DEF w
    <3>3. /\ Cardinality(DOMAIN w) <= 2
          /\ \A t \in DOMAIN w : Corr(w, t).prefix # "shutdown"
      BY <1>6, <1>7, <3>2
    <3>4. Tasks(x) /\ Keeps(w, x)
      BY <1>4, <3>2, <3>3, ShutdownTask
    <3> HIDE DEF x
    <3>5. Keeps(tasks, x)
      BY <3>2, <3>4 DEF Keeps
    <3> QED
      BY <2>1, <3>1, <3>4, <3>5
  <2>3. CASE ~IsActive(s)
    <3>1. tasks' = Run!WithEffect(tasks, spawn, role)
      <4>1. tr.effects = <<spawn>>
        BY <1>3, <2>3 DEF Emits
      <4> QED
        BY <2>1, <4>1, BatchOfOne
    <3> QED
      BY <1>2, <1>4, <1>6, <1>7, <2>1, <3>1, ShutdownTask
  <2> QED
    BY <2>2, <2>3
<1>9. Places(at, tasks')
  BY <1>2, <1>8, KeepsPlaces
<1>10. launch.pc = "ok" => launch.token.id \notin failed'
  <2>1. TracksTo(s, state', failed, failed')
    BY <1>1, TracksFailed
  <2>2. IsActive(s) => Floor(s) = s.op.id /\ s.op.id \in Nat
    BY <1>2, MineOrOver
  <2>3. launch.token.id \in Nat
    BY <1>2 DEF IsLaunch
  <2> QED
    BY <1>2, <2>1, <2>2, <2>3 DEF LaunchOpen, TracksTo
<1> QED
  BY <1>1, <1>2, <1>4, <1>8, <1>9, <1>10 DEF CaptureInv, LaunchInv

\* Deadline cancels and aborts every task and removes none.
LEMMA DeadlineHolds ==
  ASSUME CaptureInv, Deadline
  PROVE  CaptureInv'
<1> DEFINE Late(k) == [k EXCEPT !.cancelled = TRUE, !.aborted = TRUE]
<1>1. /\ mode = "draining" /\ mode' = "forced" /\ state' = state
      /\ at' = at /\ launch' = launch /\ shut' = shut /\ failed' = failed /\ panics' = panics
  BY Zenon DEF Deadline, Run!Deadline, platformVars, callerVars
<1>2. tasks' = [t \in DOMAIN tasks |-> Late(tasks[t])]
  BY Zenon DEF Deadline, Run!Deadline
<1>3. /\ panics \in Nat /\ Places(at, tasks) /\ LaunchInv /\ IsClosed(state) /\ Tasks(tasks)
      /\ shut # "idle"
  BY <1>1 DEF CaptureInv
<1>4. ASSUME NEW k, TaskOk(k)
      PROVE  TaskOk(Late(k)) /\ Late(k).effect = k.effect /\ Late(k).outcome = k.outcome
  <2> DEFINE a == [k EXCEPT !.cancelled = TRUE]
             b == [a EXCEPT !.aborted = TRUE]
  <2>1. TaskOk(b) /\ b.effect = k.effect /\ b.outcome = k.outcome
    BY <1>4 DEF TaskOk
  <2>2. b = Late(k)
    BY Zenon
  <2> HIDE DEF b, Late
  <2> QED
    BY <2>1, <2>2
<1> HIDE DEF Late
<1>5. DOMAIN tasks' = DOMAIN tasks /\ \A t \in DOMAIN tasks : tasks'[t] = Late(tasks[t])
  BY <1>2
<1>6. \A t \in DOMAIN tasks :
        TaskOk(tasks'[t]) /\ tasks'[t].effect = tasks[t].effect
        /\ tasks'[t].outcome = tasks[t].outcome /\ Corr(tasks', t) = Corr(tasks, t)
  BY <1>3, <1>4, <1>5 DEF Tasks, Corr
<1>7. Tasks(tasks') /\ Keeps(tasks, tasks')
  BY <1>3, <1>5, <1>6 DEF Tasks, Distinct, Keeps
<1>8. Places(at, tasks')
  BY <1>3, <1>7, KeepsPlaces
<1> QED
  BY <1>1, <1>3, <1>7, <1>8 DEF CaptureInv, LaunchInv

\* Drained.
LEMMA DrainedHolds ==
  ASSUME CaptureInv, Drained
  PROVE  CaptureInv'
<1>1. /\ mode # "open" /\ mode' = "ended" /\ state' = state /\ DOMAIN tasks' = {}
      /\ at' = [t \in TaskId |-> "ready"]
      /\ launch' = launch /\ shut' = shut /\ failed' = failed /\ panics' = panics
  BY DEF Drained, Run!End, callerVars
<1>2. panics \in Nat /\ LaunchInv /\ IsClosed(state) /\ shut # "idle"
  BY <1>1 DEF CaptureInv
<1>3. Tasks(tasks')
  BY <1>1, FS_EmptySet DEF Tasks, Distinct
<1>4. Places(at', tasks')
  BY <1>1 DEF Places
<1> QED
  BY <1>1, <1>2, <1>3, <1>4 DEF CaptureInv, LaunchInv

\* The steps of the callers that only read.
LEMMA ReadersHold ==
  ASSUME CaptureInv, Edit \/ CallLearns \/ ShutdownChecks \/ ShutdownReturns \/ UNCHANGED vars
  PROVE  CaptureInv'
<1>1. UNCHANGED <<runner, at, launch, failed, panics>>
  BY DEF Edit, CallLearns, ShutdownChecks, ShutdownReturns, vars, platformVars, callerVars, runner
<1>2. shut' = shut \/ (launch.pc \in Quiet /\ shut' # "idle")
  BY DEF Edit, CallLearns, ShutdownChecks, ShutdownReturns, vars, callerVars, CaptureInv,
         LaunchInv
<1> QED
  BY <1>1, <1>2 DEF CaptureInv, LaunchInv, runner

-----------------------------------------------------------------------------
(* The theorems.                                                            *)

\* The invariant holds initially.
LEMMA CaptureInit ==
  ASSUME Init
  PROVE  CaptureInv
<1> DEFINE p == Projection(0, "Idle", Off)
<1>1. IsProjection(p)
  BY ProjectionShape
<1>2. /\ state = Stable(1, p, "none") /\ DOMAIN tasks = {} /\ mode = "open"
      /\ at = [t \in TaskId |-> "ready"] /\ launch = NoLaunch /\ shut = "idle" /\ failed = {}
      /\ panics = 0
  BY DEF Init, Run!Init
<1>3. IsOperation(NoOperation)
  BY DEF NoOperation, IsOperation, IsProjection, Projection
<1> HIDE DEF p
<1>4. IsState(state) /\ state.kind = "Stable" /\ state.next = 1
  BY <1>1, <1>2, <1>3, StateShape
<1>5. WellFormed(state) /\ ~IsActive(state) /\ Floor(state) = 1 /\ ~Reserved(state)
  BY <1>4 DEF WellFormed, IsActive, Floor, Reserved
<1>6. Tasks(tasks) /\ Cardinality(DOMAIN tasks) = 0
  BY <1>2, FS_EmptySet DEF Tasks, Distinct
<1>7. Open(state, tasks, panics)
  BY <1>2, <1>5, <1>6 DEF Open, Owned, Few
<1>8. IsLaunch(launch) /\ launch.pc = "idle" /\ launch.token.id = 0
  BY <1>2 DEF IsLaunch, NoLaunch, NoOperation, Quiet
<1>9. LaunchOpen(state, launch, failed)
  BY <1>2, <1>5, <1>8 DEF LaunchOpen, EarlyPcs
<1>10. Places(at, tasks)
  BY <1>2 DEF Places
<1> QED
  BY <1>2, <1>7, <1>8, <1>9, <1>10 DEF CaptureInv, LaunchInv

\* Every step keeps it.
LEMMA CaptureStep ==
  ASSUME CaptureInv, [Next]_vars
  PROVE  CaptureInv'
<1>1. ASSUME NEW t \in TaskId, TaskStep(t) \/ TakeOver(t) \/ Cancelled(t) \/ Crashes(t)
      PROVE  CaptureInv'
  BY <1>1, EnterHolds, FinishHolds, SaysHolds, CrashesHolds, JoinHolds DEF TaskStep
<1>2. CASE LaunchStep \/ LaunchCancelled
  BY <1>2, LaunchReservesHolds, LaunchRejectsHolds, LaunchPreflightsHolds, LaunchMarksHolds,
     LaunchExecutesHolds, LaunchLearnsHolds, LaunchReportsHolds, LaunchFinishesHolds
     DEF LaunchStep
<1>3. CASE CallStarts \/ Audit \/ Recover
  BY <1>3, CallStartsHolds, AuditHolds, RecoverHolds
<1>4. CASE ShutdownStarts \/ Deadline \/ Drained
  BY <1>4, ShutdownStartsHolds, DeadlineHolds, DrainedHolds
<1>5. CASE Edit \/ CallLearns \/ ShutdownChecks \/ ShutdownReturns \/ UNCHANGED vars
  BY <1>5, ReadersHold
<1>6. CASE Terminated
  BY <1>6, ReadersHold DEF Terminated
<1> QED
  BY <1>1, <1>2, <1>3, <1>4, <1>5, <1>6 DEF Next

\* The tasks of an open Capture are the one effect its operation waits for and effects of
\* operations that are over; the launch's operation is the one in hand or over, and a
\* failure its launch has not read stays in the state.
THEOREM CaptureInvHolds == Spec => []CaptureInv
<1>1. Init => CaptureInv
  BY CaptureInit
<1>2. CaptureInv /\ [Next]_vars => CaptureInv'
  BY CaptureStep
<1> QED
  BY <1>1, <1>2, PTL DEF Spec

\* While Capture is open, a task that works on the platform is the effect its operation
\* waits for, or the finalizer of a panicked task; and no two tasks answer under one
\* correlation: whatever requests, audits, recoveries, a launch, its cancellation and a
\* shutdown do meanwhile.
THEOREM OneWriterHolds == Spec => []OneWriter
<1>1. ASSUME CaptureInv PROVE OneWriter
  <2>1. Tasks(tasks) /\ panics \in Nat
    BY <1>1 DEF CaptureInv, Open
  <2>2. \A t, u \in DOMAIN tasks :
          tasks[t].effect.correlation = tasks[u].effect.correlation => t = u
    BY <2>1 DEF Tasks, Distinct, Corr
  <2>3. ASSUME mode = "open", NEW t \in DOMAIN tasks, Writes(t)
        PROVE  \/ EffectIsCurrent(state, tasks[t].effect.correlation)
               \/ Does(t, "Finalize") /\ panics > 0
    <3> DEFINE c == tasks[t].effect.correlation
    <3>1. Open(state, tasks, panics) /\ WellFormed(state)
      BY <1>1, <2>3 DEF CaptureInv, Open
    <3>2. (Awaited(state, c) \/ Outlived(state, c)) /\ OpenTask(tasks[t], panics)
      BY <3>1 DEF Open, Owned, Corr
    <3>3. CASE Awaited(state, c)
      BY <3>1, <3>3, CurrencyOfTasks
    <3>4. CASE Outlived(state, c)
      <4>1. c.effect \in {"Preflight", "Finalize"}
        BY <3>4 DEF Outlived
      <4>2. Busy(t) /\ c.effect = "Finalize"
        BY <2>3, <4>1 DEF Writes, Does
      <4> QED
        BY <2>1, <3>2, <4>2 DEF OpenTask, Does
    <3> QED
      BY <3>2, <3>3, <3>4
  <2> QED
    BY <2>2, <2>3 DEF OneWriter
<1> QED
  BY <1>1, CaptureInvHolds, PTL

\* wait_for_operation answers Ok to a launch only if the launch's operation did not fail,
\* although it reads the error of whatever state it finds.
THEOREM LaunchIsTold == Spec => []LaunchLearnsOutcome
<1>1. CaptureInv => LaunchLearnsOutcome
  BY DEF CaptureInv, LaunchInv, LaunchLearnsOutcome
<1> QED
  BY <1>1, CaptureInvHolds, PTL

=============================================================================
