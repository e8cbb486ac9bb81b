------------------------- MODULE MaintenanceProofs -------------------------
(***************************************************************************)
(* The journal of an update installation keeps what was promised, and no   *)
(* process activates Mish in front of an uncertain one, for any number of  *)
(* operations, revisions, processes and power losses.                      *)
(***************************************************************************)
EXTENDS Maintenance, TLAPS

Phases == {"preparing"} \cup Uncertain \cup Terminal
OpIds == Nat \X (Ops \cup {0})
Reasons ==
  {"none", "cancelled", "preparation-failed", "failed", "corrupt", "pre-install-aborted"}
Records ==
  [op : OpIds, admitted : Nat, revision : Nat, machine : Nat, recovery : Nat, previous : Nat,
   phase : Phases \cup {"absent", "corrupt"}]
Journals == [seen : Records, durable : Records]
Processes ==
  [alive : BOOLEAN, observed : Nat, phase : Phases \cup {"idle"}, op : OpIds, revision : Nat,
   reason : Reasons, cleared : BOOLEAN, allowed : BOOLEAN]
Calls == [op : OpIds, revision : Nat]
Promised == [op : OpIds, revision : Nat, phase : Phases \cup {"absent"}]

\* A record of the first n processes that the journal may hold.
Sound(r, n) ==
  /\ r \in Records /\ r.op[1] <= n
  /\ r = Nothing \/ r = Corrupt \/ (r.phase \in Phases /\ Valid(r) /\ r.op[1] > 0)

Given(pr, n) ==
  /\ pr \in Promised /\ pr.op[1] <= n
  /\ (pr.op = NoOp) <=> (pr.phase = "absent")

\* What is promised and not ended is in the record, at that revision or later, and
\* an installation that was promised stays uncertain until it has an outcome; of
\* what has ended there is no record of an earlier phase.
Keeps(r, pr) ==
  IF pr.phase \in Terminal
    THEN r.op = pr.op /\ r.revision <= pr.revision => r.phase \in Terminal
    ELSE pr.op # NoOp =>
           /\ r.op = pr.op /\ r.revision >= pr.revision
           /\ pr.phase \in Uncertain => r.phase \in Uncertain \cup {"completed", "failed"}

\* What is seen and what a power loss leaves both keep the promise.
Journal(d, pr, n) ==
  /\ d \in Journals /\ Given(pr, n)
  /\ Sound(d.seen, n) /\ Sound(d.durable, n)
  /\ Keeps(d.seen, pr) /\ Keeps(d.durable, pr)

\* A running process is not ahead of the journal, has returned no revision beyond
\* its own, and while it may activate has only records in front of it that it never
\* acknowledged and that no installation has begun with.
Knowing(p, s, d, k, pr) ==
  /\ d.seen.phase \in Phases => d.seen.revision >= s.revision
  /\ \A call \in k : call.revision <= s.revision
  /\ s.allowed =>
       /\ d.seen.phase \notin Uncertain \cup {"corrupt"}
       /\ d.durable.phase \notin Uncertain \cup {"corrupt"}
       /\ d.seen.phase \in Phases => d.seen.revision > s.revision
  /\ s.phase \in Terminal /\ s.op # NoOp => pr.phase \in Terminal
  /\ pr.op[1] = p => pr.revision <= s.revision

JournalInv ==
  /\ Journal(disk, promised, processes)
  /\ processes \in Nat /\ installed \in 1..3 /\ unsafe = FALSE

ProcessInv ==
  /\ auth \in [1..MaxProcesses -> Processes]
  /\ known \in SUBSET Calls
  /\ \A p \in 1..MaxProcesses :
       auth[p].alive => p = processes /\ Knowing(p, auth[p], disk, known, promised)
  /\ (\A p \in 1..MaxProcesses : ~auth[p].alive) => known = {}

MaintenanceInv == JournalInv /\ ProcessInv

Told(p, r, reason) == Knows(p, r, reason, FALSE)
Stands(p, a, d, k, pr, n) ==
  /\ a \in [1..MaxProcesses -> Processes] /\ k \in SUBSET Calls
  /\ Journal(d, pr, n) /\ Knowing(p, a[p], d, k, pr)
Released(p, a) == [a EXCEPT ![p].cleared = TRUE, ![p].allowed = TRUE]
Promise(r) == [op |-> r.op, revision |-> r.revision, phase |-> r.phase]
Pair(seen, durable) == [seen |-> seen, durable |-> durable]

\* `to' continues the unfinished operation of r.
Moves(r, to) ==
  /\ to \in Records /\ to.op = r.op /\ to.revision >= r.revision
  /\ r.phase \in Phases \ Terminal /\ to.phase \in Phases /\ Valid(to)
  /\ r.phase \in Uncertain => to.phase \in Uncertain \cup {"completed", "failed"}

-----------------------------------------------------------------------------
(* Records.                                                                 *)

\* The empty and the unreadable journal are records.
LEMMA Blanks ==
  /\ Nothing \in Records /\ Corrupt \in Records
  /\ Nothing.op = NoOp /\ Corrupt.op = NoOp /\ Nothing.phase = "absent" /\ Corrupt.phase = "corrupt"
  /\ NoOp \in OpIds /\ NoOp[1] = 0
  /\ \A n \in Nat : Sound(Nothing, n)
<1>1. NoOp \in OpIds /\ NoOp[1] = 0
  BY DEF NoOp, OpIds
<1>2. Nothing \in Records /\ Nothing.op = NoOp /\ Nothing.phase = "absent"
  BY <1>1 DEF Nothing, Records
<1>3. Corrupt \in Records /\ Corrupt.op = NoOp /\ Corrupt.phase = "corrupt"
  BY <1>2 DEF Corrupt, Records
<1> QED
  BY <1>1, <1>2, <1>3 DEF Sound

\* A record that continues another one keeps what that one keeps.
LEMMA MovesKeeps ==
  ASSUME NEW n \in Nat, NEW pr, Given(pr, n), NEW r, Sound(r, n), NEW to, Moves(r, to)
  PROVE  /\ Sound(to, n)
         /\ Keeps(r, pr) => Keeps(to, pr)
<1>1. r \in Records /\ to \in Records /\ pr \in Promised
  BY DEF Sound, Moves, Given
<1>2. r.revision \in Nat /\ to.revision \in Nat /\ pr.revision \in Nat
  BY <1>1 DEF Records, Promised
<1>3. r.phase \in Phases /\ r.op[1] > 0 /\ r.op[1] <= n
  BY Blanks DEF Sound, Moves, Phases, Uncertain, Terminal
<1>4. Sound(to, n)
  BY <1>1, <1>3 DEF Sound, Moves
<1>5. ASSUME Keeps(r, pr) PROVE Keeps(to, pr)
  BY <1>2, <1>5 DEF Keeps, Moves, Terminal
<1> QED
  BY <1>4, <1>5

\* A record keeps the promise that is made of it, and once that is the end of its
\* operation the empty journal does.
LEMMA OwnKeeps ==
  ASSUME NEW n \in Nat, NEW r, Sound(r, n), r.phase \in Phases
  PROVE  /\ Given(Promise(r), n) /\ Keeps(r, Promise(r))
         /\ r.phase \in Terminal => Keeps(Nothing, Promise(r))
         /\ Promise(r).op = r.op /\ Promise(r).revision = r.revision /\ Promise(r).phase = r.phase
<1>1. r \in Records /\ r.op[1] > 0 /\ r.op[1] <= n
  BY Blanks DEF Sound, Phases, Uncertain, Terminal
<1>2. r.op \in OpIds /\ r.revision \in Nat /\ r.op # NoOp
  BY <1>1, Blanks DEF Records
<1>3. Given(Promise(r), n)
  BY <1>1, <1>2 DEF Given, Promise, Promised, Phases, Uncertain, Terminal
<1>4. Keeps(r, Promise(r))
  BY <1>2 DEF Keeps, Promise
<1>5. r.phase \in Terminal => Keeps(Nothing, Promise(r))
  BY <1>2, Blanks DEF Keeps, Promise
<1> QED
  BY <1>3, <1>4, <1>5 DEF Promise

\* What Advance changes.
LEMMA AdvanceFields ==
  ASSUME NEW r \in Records, NEW phase \in Phases
  PROVE  /\ Advance(r, phase) \in Records
         /\ Advance(r, phase).op = r.op /\ Advance(r, phase).phase = phase
         /\ Advance(r, phase).revision = r.revision + 1
         /\ Advance(r, phase).admitted = r.admitted /\ Advance(r, phase).recovery = r.recovery
<1> DEFINE All == Phases \cup {"absent", "corrupt"}
<1>1. phase \in All
  OBVIOUS
<1>2. Records = [op : OpIds, admitted : Nat, revision : Nat, machine : Nat, recovery : Nat,
                 previous : Nat, phase : All]
  BY DEF Records
<1> HIDE DEF All
<1>3. r.revision \in Nat /\ r.revision + 1 \in Nat
  BY <1>2
<1>4. Advance(r, phase) = [r EXCEPT !.phase = phase, !.revision = r.revision + 1]
  BY <1>2 DEF Advance
<1>5. Advance(r, phase) = [op |-> r.op, admitted |-> r.admitted, revision |-> r.revision + 1,
                           machine |-> r.machine, recovery |-> r.recovery,
                           previous |-> r.previous, phase |-> phase]
  BY <1>2, <1>4
<1> QED
  BY <1>1, <1>2, <1>3, <1>5

\* The reducer's steps other than into a recovery.
LEMMA ReduceMoves ==
  ASSUME NEW n \in Nat, NEW r, Sound(r, n), r.phase \in Phases,
         NEW input \in {"intent", "relaunching", "cancel", "fail", "complete"},
         Reduce(r.phase, input) \notin {"rejected", r.phase}
  PROVE  /\ Moves(r, Advance(r, Reduce(r.phase, input)))
         /\ Advance(r, Reduce(r.phase, input)).phase = Reduce(r.phase, input)
         /\ input \in {"cancel", "fail", "complete"} => Reduce(r.phase, input) \in Terminal
<1> DEFINE next == Reduce(r.phase, input)
           to == Advance(r, next)
<1>1. r \in Records /\ Valid(r)
  BY Blanks DEF Sound, Phases, Uncertain, Terminal
<1>2. /\ r.revision \in Nat /\ r.admitted \in Nat /\ r.recovery \in Nat
  BY <1>1 DEF Records
<1>3. \/ r.phase = "preparing" /\ next \in {"installing", "cancelled", "failed"}
      \/ r.phase = "installing" /\ next = "relaunching"
      \/ r.phase = "recovering" /\ next \in {"completed", "failed"}
  BY DEF Reduce, Phases, Uncertain, Terminal
<1>4. input \in {"cancel", "fail", "complete"} => next \in Terminal
  BY DEF Reduce, Phases, Uncertain, Terminal
<1>5. next \in Phases /\ r.phase \in Phases \ Terminal
  BY <1>3 DEF Phases, Uncertain, Terminal
<1>6. /\ to \in Records /\ to.op = r.op /\ to.phase = next /\ to.revision = r.revision + 1
      /\ to.admitted = r.admitted /\ to.recovery = r.recovery
  BY <1>1, <1>5, AdvanceFields
<1> HIDE DEF next, to
<1>7. Valid(to)
  <2>1. CASE r.phase = "preparing"
    BY <1>1, <1>2, <1>3, <1>6, <2>1 DEF Valid, Offsets, Adopted
  <2>2. CASE r.phase = "installing"
    BY <1>1, <1>2, <1>3, <1>6, <2>2 DEF Valid, Offsets, Adopted
  <2>3. CASE r.phase = "recovering"
    BY <1>1, <1>2, <1>3, <1>6, <2>3 DEF Valid, Offsets, Adopted
  <2> QED
    BY <1>3, <2>1, <2>2, <2>3
<1>8. Moves(r, to)
  BY <1>2, <1>3, <1>5, <1>6, <1>7 DEF Moves, Uncertain, Phases, Terminal
<1> QED
  BY <1>4, <1>6, <1>8 DEF next, to

\* A start aborts a preparation.
LEMMA AbortMoves ==
  ASSUME NEW n \in Nat, NEW r, Sound(r, n), r.phase = "preparing"
  PROVE  /\ Moves(r, Advance(r, Reduce(r.phase, "startup")))
         /\ Advance(r, Reduce(r.phase, "startup")).phase = "cancelled"
<1>1. Reduce(r.phase, "startup") = Reduce(r.phase, "cancel") /\ Reduce(r.phase, "cancel") = "cancelled"
  BY DEF Reduce
<1>2. r.phase \in Phases
  BY DEF Phases
<1> QED
  BY <1>1, <1>2, ReduceMoves

\* A process takes an uncertain installation over.
LEMMA RecoverMoves ==
  ASSUME NEW n \in Nat, NEW r, Sound(r, n), r.phase \in Uncertain, NEW p \in Nat \ {0}
  PROVE  /\ Moves(r, Recovered(r, p)) /\ Recovered(r, p).phase = "recovering"
         /\ r.phase # "recovering" => Recovered(r, p) # r
<1> DEFINE to == Recovered(r, p)
<1>1. r \in Records /\ Valid(r)
  BY Blanks DEF Sound, Phases, Uncertain, Terminal
<1>2. /\ r.revision \in Nat /\ r.admitted \in Nat /\ r.recovery \in Nat
  BY <1>1 DEF Records
<1>3. /\ to \in Records /\ to.op = r.op /\ to.phase = "recovering" /\ to.recovery = p
      /\ to.admitted = r.admitted
      /\ to.revision = IF r.phase = "recovering" THEN r.revision ELSE r.revision + 1
  <2> DEFINE base == IF r.phase = "recovering" THEN r ELSE Advance(r, "recovering")
  <2>1. "recovering" \in Phases
    BY DEF Phases, Uncertain
  <2>2. /\ base \in Records /\ base.op = r.op /\ base.phase = "recovering"
        /\ base.admitted = r.admitted
        /\ base.revision = IF r.phase = "recovering" THEN r.revision ELSE r.revision + 1
    BY <1>1, <2>1, AdvanceFields
  <2>3. to = [base EXCEPT !.recovery = p]
    BY DEF Recovered
  <2> HIDE DEF base, to
  <2> QED
    BY <2>2, <2>3 DEF Records
<1> HIDE DEF to
<1>4. Valid(to)
  BY <1>1, <1>2, <1>3 DEF Valid, Offsets, Adopted, Uncertain
<1>5. Moves(r, to)
  BY <1>2, <1>3, <1>4 DEF Moves, Uncertain, Phases, Terminal
<1> QED
  BY <1>2, <1>3, <1>5 DEF to

-----------------------------------------------------------------------------
(* The store.                                                               *)

\* A sync makes what is seen durable or changes nothing.
LEMMA SyncedLeaves ==
  ASSUME NEW d \in Journals, NEW result \in Synced(d)
  PROVE  IF result.ok THEN result.disk = Pair(d.seen, d.seen) ELSE result.disk = d
<1>1. [d EXCEPT !.durable = d.seen] = Pair(d.seen, d.seen)
  BY DEF Journals, Pair
<1> QED
  BY <1>1 DEF Synced, Result

\* A write is durable, or seen, or did not happen.
LEMMA WrittenLeaves ==
  ASSUME NEW d \in Journals, NEW r \in Records, NEW result \in Written(d, r)
  PROVE  IF result.ok THEN result.disk = Pair(r, r)
                      ELSE result.disk = d \/ result.disk = Pair(r, d.durable)
<1>1. [d EXCEPT !.seen = r] = Pair(r, d.durable) /\ Pair(r, d.durable) \in Journals
  BY DEF Journals, Pair
<1>2. CASE result = Result(d, FALSE)
  BY <1>2 DEF Result
<1>3. CASE result \in Synced(Pair(r, d.durable))
  BY <1>1, <1>3, SyncedLeaves DEF Pair
<1> QED
  BY <1>1, <1>2, <1>3 DEF Written

\* A removal is durable, or seen, or did not happen.
LEMMA ClearedLeaves ==
  ASSUME NEW d \in Journals, NEW result \in Cleared(d)
  PROVE  IF result.ok THEN result.disk = Pair(Nothing, Nothing)
                      ELSE result.disk = d \/ result.disk = Pair(Nothing, d.durable)
<1>1. [d EXCEPT !.seen = Nothing] = Pair(Nothing, d.durable) /\ Pair(Nothing, d.durable) \in Journals
  BY Blanks DEF Journals, Pair
<1>2. CASE result = Result(d, FALSE)
  BY <1>2 DEF Result
<1>3. CASE result \in Synced(Pair(Nothing, d.durable))
  BY <1>1, <1>3, SyncedLeaves DEF Pair
<1> QED
  BY <1>1, <1>2, <1>3 DEF Cleared

-----------------------------------------------------------------------------
(* The journal and its promise.                                             *)

\* A record that keeps the promise may be seen, and may be durable.
LEMMA JournalSeen ==
  ASSUME NEW n \in Nat, NEW d, NEW pr, Journal(d, pr, n), NEW to, Sound(to, n), Keeps(to, pr)
  PROVE  Journal(Pair(to, d.durable), pr, n) /\ Journal(Pair(to, to), pr, n)
<1>1. to \in Records /\ d.durable \in Records
  BY DEF Journal, Sound
<1>2. Pair(to, d.durable) \in Journals /\ Pair(to, to) \in Journals
  BY <1>1 DEF Journals, Pair
<1> QED
  BY <1>2 DEF Journal, Pair

\* A promise that is made of a durable record; once it is of an end, the record
\* may go.
LEMMA JournalPromised ==
  ASSUME NEW n \in Nat, NEW to, Sound(to, n), to.phase \in Phases
  PROVE  /\ Journal(Pair(to, to), Promise(to), n)
         /\ to.phase \in Terminal => /\ Journal(Pair(Nothing, to), Promise(to), n)
                                     /\ Journal(Pair(Nothing, Nothing), Promise(to), n)
<1>1. to \in Records /\ Nothing \in Records
  BY Blanks DEF Sound
<1>2. Pair(to, to) \in Journals /\ Pair(Nothing, to) \in Journals /\ Pair(Nothing, Nothing) \in Journals
  BY <1>1 DEF Journals, Pair
<1>3. Given(Promise(to), n) /\ Keeps(to, Promise(to)) /\ Sound(Nothing, n)
  BY OwnKeeps, Blanks
<1>4. to.phase \in Terminal => Keeps(Nothing, Promise(to))
  BY OwnKeeps
<1> QED
  BY <1>2, <1>3, <1>4 DEF Journal, Pair

\* A further process changes nothing of it.
LEMMA JournalLater ==
  ASSUME NEW n \in Nat, NEW d, NEW pr, Journal(d, pr, n)
  PROVE  Journal(d, pr, n + 1)
<1>1. d.seen.op[1] <= n /\ d.durable.op[1] <= n /\ pr.op[1] <= n
  BY DEF Journal, Sound, Given
<1>2. d.seen.op[1] \in Nat /\ d.durable.op[1] \in Nat /\ pr.op[1] \in Nat
  <2>1. d.seen.op \in OpIds /\ d.durable.op \in OpIds /\ pr.op \in OpIds
    BY DEF Journal, Sound, Given, Records, Promised
  <2> QED
    BY <2>1 DEF OpIds
<1>3. Sound(d.seen, n + 1) /\ Sound(d.durable, n + 1)
  BY <1>1, <1>2 DEF Journal, Sound
<1>4. Given(pr, n + 1)
  BY <1>1, <1>2 DEF Journal, Given
<1> QED
  BY <1>3, <1>4 DEF Journal

-----------------------------------------------------------------------------
(* What a process knows.                                                    *)

\* Knows changes the state of one process, and not whether it runs.
LEMMA KnowsFields ==
  ASSUME auth \in [1..MaxProcesses -> Processes], NEW p \in 1..MaxProcesses,
         NEW r \in Records, r.phase \in Phases, NEW reason \in Reasons
  PROVE  /\ Told(p, r, reason) \in [1..MaxProcesses -> Processes]
         /\ Told(p, r, reason)[p].phase = r.phase
         /\ Told(p, r, reason)[p].op = r.op
         /\ Told(p, r, reason)[p].revision = r.revision
         /\ ~Told(p, r, reason)[p].allowed
         /\ \A q \in 1..MaxProcesses : Told(p, r, reason)[q].alive = auth[q].alive
<1> DEFINE a == Told(p, r, reason)
           no == FALSE
           s == [auth[p] EXCEPT !.phase = r.phase, !.op = r.op, !.revision = r.revision,
                                !.reason = reason, !.cleared = no, !.allowed = no]
<1>1. /\ auth[p] \in Processes /\ r.op \in OpIds /\ r.revision \in Nat /\ no \in BOOLEAN
  BY DEF Records
<1>2. a = [auth EXCEPT ![p] = s]
  BY DEF Told, Knows
<1> HIDE DEF no, a
<1>3. /\ s \in Processes /\ s.phase = r.phase /\ s.op = r.op /\ s.revision = r.revision
      /\ s.allowed = no /\ s.reason = reason /\ s.alive = auth[p].alive
  <2> DEFINE All == Phases \cup {"idle"}
  <2>1. r.phase \in All
    OBVIOUS
  <2>2. Processes = [alive : BOOLEAN, observed : Nat, phase : All, op : OpIds, revision : Nat,
                     reason : Reasons, cleared : BOOLEAN, allowed : BOOLEAN]
    BY DEF Processes
  <2> HIDE DEF All
  <2> QED
    BY <1>1, <2>1, <2>2
<1> HIDE DEF s
<1>4. a \in [1..MaxProcesses -> Processes] /\ a[p] = s
  BY <1>2, <1>3
<1>5. \A q \in 1..MaxProcesses : a[q].alive = auth[q].alive
  BY <1>2, <1>3
<1> QED
  BY <1>3, <1>4, <1>5 DEF no, a

\* A process that has just written or synced a record.
LEMMA KnowingOwn ==
  ASSUME NEW p, NEW s, NEW k, NEW to \in Records, s.revision = to.revision, s.phase = to.phase,
         ~s.allowed, \A call \in k : call.revision <= to.revision
  PROVE  Knowing(p, s, Pair(to, to), k, Promise(to))
<1>1. to.revision \in Nat
  BY DEF Records
<1> QED
  BY <1>1 DEF Knowing, Pair, Promise

\* A running process goes on running, alone.
LEMMA RunsOn ==
  ASSUME MaintenanceInv, NEW p \in 1..MaxProcesses, auth[p].alive,
         Journal(disk', promised', processes'),
         UNCHANGED <<processes, installed, unsafe>>,
         auth' \in [1..MaxProcesses -> Processes], known' \in SUBSET Calls,
         \A q \in 1..MaxProcesses : auth'[q].alive = auth[q].alive,
         Knowing(p, auth'[p], disk', known', promised')
  PROVE  MaintenanceInv'
<1>1. \A q \in 1..MaxProcesses : auth'[q].alive => q = p /\ q = processes'
  BY DEF MaintenanceInv, ProcessInv
<1>2. ProcessInv'
  BY <1>1 DEF ProcessInv
<1>3. JournalInv'
  BY DEF MaintenanceInv, JournalInv
<1> QED
  BY <1>2, <1>3 DEF MaintenanceInv

\* A call that writes one record, or syncs the one that is seen.
LEMMA Writes ==
  ASSUME MaintenanceInv, NEW p \in 1..MaxProcesses, auth[p].alive,
         NEW to, Sound(to, processes), to.phase \in Phases, Keeps(to, promised),
         to.revision >= auth[p].revision,
         auth[p].allowed => to.phase \notin Uncertain /\ to.revision > auth[p].revision,
         NEW result,
         result \in Written(disk, to) \/ (to = disk.seen /\ result \in Synced(disk)),
         disk' = result.disk,
         IF result.ok THEN auth' = Told(p, to, "none") /\ promised' = Promise(to)
                      ELSE UNCHANGED <<auth, known, promised>>,
         known' \in SUBSET Calls,
         \A call \in known' : call \in known \/ call.revision = to.revision,
         UNCHANGED <<processes, installed, unsafe>>
  PROVE  MaintenanceInv' /\ Keeps(disk'.seen, promised)
<1>1. /\ Journal(disk, promised, processes) /\ processes \in Nat /\ disk \in Journals
      /\ auth \in [1..MaxProcesses -> Processes] /\ to \in Records /\ known \in SUBSET Calls
      /\ Knowing(p, auth[p], disk, known, promised)
  BY DEF MaintenanceInv, JournalInv, ProcessInv, Journal, Sound
<1>2. /\ auth[p].revision \in Nat /\ to.revision \in Nat
      /\ \A call \in known' : call.revision \in Nat /\ call.revision <= to.revision
  <2>1. auth[p].revision \in Nat /\ to.revision \in Nat
    BY <1>1 DEF Processes, Records
  <2>2. \A call \in known' : call.revision \in Nat
    BY DEF Calls
  <2>3. \A call \in known : call.revision <= auth[p].revision
    BY <1>1 DEF Knowing
  <2> QED
    BY <2>1, <2>2, <2>3
<1>3. CASE result.ok
  <2>1. disk' = Pair(to, to)
    BY <1>1, <1>3, WrittenLeaves, SyncedLeaves
  <2>2. Journal(disk', promised', processes')
    BY <1>1, <1>3, <2>1, JournalPromised
  <2>3. /\ auth' \in [1..MaxProcesses -> Processes]
        /\ auth'[p].phase = to.phase /\ auth'[p].revision = to.revision /\ ~auth'[p].allowed
        /\ \A q \in 1..MaxProcesses : auth'[q].alive = auth[q].alive
    <3>1. auth' = Told(p, to, "none")
      BY <1>3
    <3>2. "none" \in Reasons
      BY DEF Reasons
    <3> QED
      BY <1>1, <3>1, <3>2, KnowsFields
  <2>4. Knowing(p, auth'[p], disk', known', promised')
    BY <1>1, <1>2, <1>3, <2>1, <2>3, KnowingOwn
  <2> QED
    BY <2>1, <2>2, <2>3, <2>4, RunsOn DEF Pair
<1>4. CASE ~result.ok
  <2>1. disk' = disk \/ disk' = Pair(to, disk.durable)
    BY <1>1, <1>4, WrittenLeaves, SyncedLeaves
  <2>2. Journal(disk', promised', processes') /\ Keeps(disk'.seen, promised)
    <3>1. Journal(Pair(to, disk.durable), promised, processes) /\ Pair(to, disk.durable).seen = to
      BY <1>1, JournalSeen DEF Pair
    <3>2. Keeps(disk.seen, promised)
      BY <1>1 DEF Journal
    <3> QED
      BY <1>1, <1>4, <2>1, <3>1, <3>2
  <2>3. Knowing(p, auth'[p], disk', known', promised')
    <3>1. CASE disk' = disk
      BY <1>1, <1>4, <3>1
    <3>2. CASE disk' = Pair(to, disk.durable)
      <4>1. disk'.seen = to /\ disk'.durable = disk.durable
        BY <3>2 DEF Pair
      <4>2. to.phase # "corrupt"
        BY DEF Phases, Uncertain, Terminal
      <4> QED
        BY <1>1, <1>4, <4>1, <4>2 DEF Knowing
    <3> QED
      BY <2>1, <3>1, <3>2
  <2> QED
    BY <1>1, <1>4, <2>2, <2>3, RunsOn
<1> QED
  BY <1>3, <1>4

-----------------------------------------------------------------------------
(* The calls of a running process.                                          *)

\* What the invariant says of a process that runs.
LEMMA Running ==
  ASSUME MaintenanceInv, NEW p \in 1..MaxProcesses, auth[p].alive
  PROVE  /\ Journal(disk, promised, processes) /\ disk \in Journals /\ unsafe = FALSE
         /\ processes \in Nat /\ p = processes /\ p \in Nat \ {0}
         /\ auth \in [1..MaxProcesses -> Processes] /\ known \in SUBSET Calls
         /\ Knowing(p, auth[p], disk, known, promised)
         /\ Sound(disk.seen, processes) /\ Keeps(disk.seen, promised) /\ Given(promised, processes)
         /\ disk.seen \in Records /\ auth[p] \in Processes
         /\ auth[p].revision \in Nat /\ disk.seen.revision \in Nat /\ promised.revision \in Nat
<1>1. /\ Journal(disk, promised, processes) /\ disk \in Journals /\ unsafe = FALSE
      /\ processes \in Nat /\ p = processes
      /\ auth \in [1..MaxProcesses -> Processes] /\ known \in SUBSET Calls
      /\ Knowing(p, auth[p], disk, known, promised)
  BY DEF MaintenanceInv, JournalInv, ProcessInv, Journal
<1>2. /\ Sound(disk.seen, processes) /\ Keeps(disk.seen, promised) /\ Given(promised, processes)
  BY <1>1 DEF Journal
<1>3. disk.seen \in Records /\ auth[p] \in Processes /\ promised \in Promised
  BY <1>1, <1>2 DEF Sound, Given
<1>4. auth[p].revision \in Nat /\ disk.seen.revision \in Nat /\ promised.revision \in Nat
  BY <1>3 DEF Records, Processes, Promised
<1> QED
  BY <1>1, <1>2, <1>3, <1>4

\* begin.
LEMMA BeginStep ==
  ASSUME MaintenanceInv, Revisions \subseteq Nat,
         NEW p \in 1..MaxProcesses, NEW op \in Ops, NEW admitted \in Revisions,
         Begin(p, <<p, op>>, admitted)
  PROVE  MaintenanceInv' /\ Keeps(disk'.seen, promised)
<1> DEFINE r == [op |-> <<p, op>>, admitted |-> admitted, revision |-> admitted, machine |-> p,
                 recovery |-> 0, previous |-> auth[p].observed, phase |-> "preparing"]
           again == disk.seen = r
<1>1. auth[p].alive
  BY DEF Begin
<1>2. /\ processes \in Nat /\ p = processes /\ p \in Nat \ {0} /\ unsafe = FALSE
      /\ Knowing(p, auth[p], disk, known, promised) /\ Keeps(disk.seen, promised)
      /\ Given(promised, processes) /\ known \in SUBSET Calls
      /\ auth[p] \in Processes /\ auth[p].revision \in Nat /\ promised.revision \in Nat
  BY <1>1, Running
<1>3. <<p, op>> \in OpIds /\ <<p, op>>[1] = p /\ admitted \in Nat
  BY <1>2 DEF OpIds
<1>4. /\ r \in Records /\ r.op = <<p, op>> /\ r.revision = admitted /\ r.phase = "preparing"
      /\ r.phase \in Phases
  BY <1>2, <1>3 DEF Records, Processes, Phases
<1>5. Valid(r)
  BY <1>3 DEF Valid, Offsets, Adopted
<1>6. Sound(r, processes)
  BY <1>2, <1>3, <1>4, <1>5 DEF Sound
<1>7. \E result \in IF again THEN Synced(disk) ELSE Written(disk, r) :
        /\ disk' = result.disk
        /\ IF result.ok THEN auth' = Told(p, r, "none") /\ Returns(<<p, op>>, admitted) /\ Promises(r)
                        ELSE UNCHANGED <<auth, known, promised>>
  BY DEF Begin, Told
<1>8. /\ again \/ (disk.seen = Nothing /\ admitted > auth[p].revision)
      /\ Noted(r) /\ Outside
  BY DEF Begin
<1> HIDE DEF r
<1>9. /\ Keeps(r, promised) /\ r.revision >= auth[p].revision
      /\ auth[p].allowed => r.phase \notin Uncertain /\ r.revision > auth[p].revision
  <2>1. r.phase \notin Uncertain /\ r.phase \in Phases
    BY <1>4 DEF Uncertain
  <2>2. CASE again
    BY <1>2, <1>3, <1>4, <2>1, <2>2 DEF Knowing
  <2>3. CASE disk.seen = Nothing /\ admitted > auth[p].revision
    <3>1. promised.phase \in Terminal \/ promised.op = NoOp
      BY <1>2, <2>3, Blanks DEF Keeps
    <3>2. promised.op = r.op => promised.revision < admitted
      BY <1>2, <1>3, <1>4, <2>3 DEF Knowing
    <3>3. Keeps(r, promised)
      BY <1>2, <1>3, <1>4, <3>1, <3>2 DEF Keeps
    <3> QED
      BY <1>2, <1>3, <1>4, <2>1, <2>3, <3>3
  <2> QED
    BY <1>8, <2>2, <2>3
<1>10. PICK result \in IF again THEN Synced(disk) ELSE Written(disk, r) :
        /\ disk' = result.disk
        /\ IF result.ok THEN auth' = Told(p, r, "none") /\ Returns(<<p, op>>, admitted) /\ Promises(r)
                        ELSE UNCHANGED <<auth, known, promised>>
  BY <1>7
<1>11. /\ known' \in SUBSET Calls
       /\ \A call \in known' : call \in known \/ call.revision = r.revision
  BY <1>2, <1>3, <1>4, <1>10 DEF Returns, Calls
<1>12. UNCHANGED <<processes, installed, unsafe>>
  BY <1>2, <1>5, <1>8 DEF Noted, Outside, r
<1>13. /\ result \in Written(disk, r) \/ (r = disk.seen /\ result \in Synced(disk))
       /\ IF result.ok THEN auth' = Told(p, r, "none") /\ promised' = Promise(r)
                       ELSE UNCHANGED <<auth, known, promised>>
  BY <1>10 DEF Promises, Promise
<1> HIDE DEF again
<1> QED
  BY <1>1, <1>4, <1>6, <1>9, <1>10, <1>11, <1>12, <1>13, Writes

\* mark_installing_intent and mark_relaunching.
LEMMA TransitionStep ==
  ASSUME MaintenanceInv, NEW p \in 1..MaxProcesses, NEW k \in known,
         NEW input \in {"intent", "relaunching"}, Transition(p, k.op, k.revision, input)
  PROVE  MaintenanceInv' /\ Keeps(disk'.seen, promised)
<1> DEFINE r == disk.seen
           next == Reduce(r.phase, input)
           again == r.phase = (IF input = "intent" THEN "installing" ELSE "relaunching")
                    /\ r.revision \in {k.revision, k.revision + 1}
           to == IF again THEN r ELSE Advance(r, next)
<1>1. /\ auth[p].alive /\ Present /\ r.op = k.op
      /\ again \/ (r.revision = k.revision /\ next # "rejected")
      /\ Noted(to) /\ Outside
  BY DEF Transition
<1>2. \E result \in IF again THEN Synced(disk) ELSE Written(disk, to) :
        /\ disk' = result.disk
        /\ IF result.ok THEN auth' = Told(p, to, "none") /\ Returns(k.op, to.revision) /\ Promises(to)
                        ELSE UNCHANGED <<auth, known, promised>>
  BY DEF Transition, Told
<1>3. /\ processes \in Nat /\ unsafe = FALSE /\ Sound(r, processes) /\ r \in Records
      /\ Knowing(p, auth[p], disk, known, promised) /\ Keeps(r, promised)
      /\ Given(promised, processes) /\ known \in SUBSET Calls
      /\ auth[p].revision \in Nat /\ r.revision \in Nat
  BY <1>1, Running
<1>4. r.phase \in Phases /\ Valid(r) /\ k.revision \in Nat /\ k.op \in OpIds
  BY <1>1, <1>3, Blanks DEF Present, Sound, Calls
<1>5. ~auth[p].allowed
  <2>1. k.revision <= auth[p].revision
    BY <1>3 DEF Knowing
  <2>2. CASE again
    BY <1>3, <2>2 DEF Knowing, Uncertain
  <2>3. CASE r.revision = k.revision
    BY <1>3, <1>4, <2>1, <2>3 DEF Knowing
  <2> QED
    BY <1>1, <2>2, <2>3
<1>6. /\ Sound(to, processes) /\ to.phase \in Phases /\ Keeps(to, promised) /\ Valid(to)
      /\ to.revision >= r.revision /\ to \in Records
  <2>1. CASE again
    BY <1>3, <1>4, <2>1
  <2>2. CASE ~again
    <3>1. next \notin {"rejected", r.phase}
      BY <1>1, <1>4, <2>2 DEF Reduce, Phases, Uncertain, Terminal
    <3>2. Moves(r, Advance(r, next)) /\ to = Advance(r, next)
      BY <1>3, <1>4, <2>2, <3>1, ReduceMoves
    <3> HIDE DEF next, again, to
    <3> QED
      BY <1>3, <3>2, MovesKeeps DEF Moves
  <2> QED
    BY <2>1, <2>2
<1>7. to.revision >= auth[p].revision /\ to.revision \in Nat
  <2>1. to.revision \in Nat
    BY <1>6 DEF Records
  <2>2. r.revision >= auth[p].revision
    BY <1>3, <1>4 DEF Knowing
  <2> HIDE DEF to
  <2> QED
    BY <1>3, <1>6, <2>1, <2>2
<1>8. again => to = r
  OBVIOUS
<1> HIDE DEF to, again, next
<1>9. PICK result \in IF again THEN Synced(disk) ELSE Written(disk, to) :
        /\ disk' = result.disk
        /\ IF result.ok THEN auth' = Told(p, to, "none") /\ Returns(k.op, to.revision) /\ Promises(to)
                        ELSE UNCHANGED <<auth, known, promised>>
  BY <1>2
<1>10. /\ known' \in SUBSET Calls
       /\ \A call \in known' : call \in known \/ call.revision = to.revision
  BY <1>3, <1>4, <1>7, <1>9 DEF Returns, Calls
<1>11. UNCHANGED <<processes, installed, unsafe>>
  BY <1>1, <1>3, <1>6 DEF Noted, Outside
<1>12. /\ result \in Written(disk, to) \/ (to = disk.seen /\ result \in Synced(disk))
       /\ IF result.ok THEN auth' = Told(p, to, "none") /\ promised' = Promise(to)
                       ELSE UNCHANGED <<auth, known, promised>>
  BY <1>8, <1>9 DEF Promises, Promise
<1> QED
  BY <1>1, <1>5, <1>6, <1>7, <1>9, <1>10, <1>11, <1>12, Writes

\* retire_runtime, of an installation.
LEMMA RetireStep ==
  ASSUME MaintenanceInv, NEW p \in 1..MaxProcesses, RetireUncertain(p)
  PROVE  MaintenanceInv' /\ Keeps(disk'.seen, promised)
<1> DEFINE r == disk.seen
           to == IF r.phase = "recovering" THEN r ELSE [Advance(r, "recovering") EXCEPT !.recovery = p]
<1>1. auth[p].alive /\ r.phase \in Uncertain /\ Noted(to) /\ Outside /\ UNCHANGED known
  BY DEF RetireUncertain
<1>2. \E result \in IF to = r THEN Synced(disk) ELSE Written(disk, to) :
        /\ disk' = result.disk
        /\ IF result.ok THEN auth' = Told(p, to, "none") /\ Promises(to)
                        ELSE UNCHANGED <<auth, promised>>
  BY DEF RetireUncertain, Told
<1>3. /\ processes \in Nat /\ p \in Nat \ {0} /\ unsafe = FALSE /\ Sound(r, processes) /\ r \in Records
      /\ Knowing(p, auth[p], disk, known, promised) /\ Keeps(r, promised)
      /\ Given(promised, processes) /\ known \in SUBSET Calls
      /\ auth[p].revision \in Nat /\ r.revision \in Nat
  BY <1>1, Running
<1>4. r.phase \in Phases /\ ~auth[p].allowed /\ Valid(r)
  BY <1>1, <1>3, Blanks DEF Knowing, Phases, Sound, Uncertain
<1>5. /\ Sound(to, processes) /\ to.phase \in Phases /\ Keeps(to, promised) /\ Valid(to)
      /\ to.revision >= r.revision /\ to \in Records
  <2>1. CASE r.phase = "recovering"
    BY <1>3, <1>4, <2>1
  <2>2. CASE r.phase # "recovering"
    <3>1. to = Recovered(r, p)
      BY <2>2 DEF Recovered
    <3>2. Moves(r, to)
      BY <1>1, <1>3, <3>1, RecoverMoves
    <3> HIDE DEF to
    <3> QED
      BY <1>3, <3>2, MovesKeeps DEF Moves
  <2> QED
    BY <2>1, <2>2
<1> HIDE DEF to
<1>6. to.revision >= auth[p].revision /\ to.revision \in Nat
  <2>1. to.revision \in Nat
    BY <1>5 DEF Records
  <2>2. r.revision >= auth[p].revision
    BY <1>3, <1>4 DEF Knowing
  <2> QED
    BY <1>3, <1>5, <2>1, <2>2
<1>7. PICK result \in IF to = r THEN Synced(disk) ELSE Written(disk, to) :
        /\ disk' = result.disk
        /\ IF result.ok THEN auth' = Told(p, to, "none") /\ Promises(to)
                        ELSE UNCHANGED <<auth, promised>>
  BY <1>2
<1>8. UNCHANGED <<processes, installed, unsafe>>
  BY <1>1, <1>3, <1>5 DEF Noted, Outside
<1>9. /\ result \in Written(disk, to) \/ (to = disk.seen /\ result \in Synced(disk))
      /\ IF result.ok THEN auth' = Told(p, to, "none") /\ promised' = Promise(to)
                      ELSE UNCHANGED <<auth, known, promised>>
      /\ known' \in SUBSET Calls
  BY <1>1, <1>3, <1>7 DEF Promises, Promise
<1> QED
  BY <1>1, <1>4, <1>5, <1>6, <1>7, <1>8, <1>9, Writes
-----------------------------------------------------------------------------
(* The end of an operation.                                                 *)

\* A finished cleanup changes what one process may do, and nothing else of it.
LEMMA ReleasedFields ==
  ASSUME NEW a \in [1..MaxProcesses -> Processes], NEW p \in 1..MaxProcesses
  PROVE  /\ Released(p, a) \in [1..MaxProcesses -> Processes]
         /\ Released(p, a)[p].phase = a[p].phase
         /\ Released(p, a)[p].op = a[p].op
         /\ Released(p, a)[p].revision = a[p].revision
         /\ \A q \in 1..MaxProcesses : Released(p, a)[q].alive = a[q].alive
<1> DEFINE b == Released(p, a)
           yes == TRUE
           s == [a[p] EXCEPT !.cleared = yes, !.allowed = yes]
<1>1. a[p] \in Processes /\ yes \in BOOLEAN
  OBVIOUS
<1>2. b = [a EXCEPT ![p] = s]
  BY DEF Released
<1> HIDE DEF yes, b
<1>3. /\ s \in Processes /\ s.phase = a[p].phase /\ s.op = a[p].op /\ s.revision = a[p].revision
      /\ s.alive = a[p].alive
  BY <1>1 DEF Processes
<1> HIDE DEF s
<1>4. b \in [1..MaxProcesses -> Processes] /\ b[p] = s
  BY <1>2, <1>3
<1>5. \A q \in 1..MaxProcesses : b[q].alive = a[q].alive
  BY <1>2, <1>3
<1> QED
  BY <1>3, <1>4, <1>5 DEF b

\* finish_terminal_cleanup, by a process whose terminal phase was promised.
LEMMA Cleans ==
  ASSUME NEW n \in Nat, NEW p \in 1..MaxProcesses, NEW op \in OpIds, NEW a, NEW d, NEW pr,
         Stands(p, a, d, known, pr, n), a[p].phase \in Terminal, CleansUp(p, op, a[p].revision, a, d)
  PROVE  /\ Stands(p, auth', disk', known', pr, n)
         /\ disk'.seen = d.seen \/ disk'.seen = Nothing
         /\ \A q \in 1..MaxProcesses : auth'[q].alive = a[q].alive
<1> DEFINE revision == a[p].revision
<1>1. /\ a \in [1..MaxProcesses -> Processes] /\ known \in SUBSET Calls /\ Journal(d, pr, n)
      /\ Knowing(p, a[p], d, known, pr) /\ revision \in Nat
  BY DEF Stands, Processes
<1>2. /\ d \in Journals /\ Sound(d.seen, n) /\ Sound(d.durable, n) /\ Given(pr, n)
      /\ Keeps(d.seen, pr) /\ Keeps(d.durable, pr) /\ d.seen \in Records /\ d.durable \in Records
  BY <1>1 DEF Journal, Sound
<1>3. PICK result \in Cleanup(p, a, d) :
        /\ disk' = result.disk
        /\ auth' = IF result.ok THEN Released(p, a) ELSE a
        /\ IF result.ok THEN Returns(op, revision) ELSE UNCHANGED known
  BY DEF CleansUp, Released
<1>4. /\ auth' \in [1..MaxProcesses -> Processes] /\ auth'[p].phase = a[p].phase
      /\ auth'[p].op = a[p].op /\ auth'[p].revision = revision
      /\ ~result.ok => auth'[p] = a[p]
      /\ \A q \in 1..MaxProcesses : auth'[q].alive = a[q].alive
  BY <1>1, <1>3, ReleasedFields
<1>5. /\ known' \in SUBSET Calls
      /\ \A call \in known' : call.revision <= revision
  <2>1. \A call \in known : call.revision <= revision
    BY <1>1 DEF Knowing
  <2>2. [op |-> op, revision |-> revision] \in Calls
    BY <1>1 DEF Calls
  <2> QED
    BY <1>1, <1>3, <2>1, <2>2 DEF Returns
<1>6. \/ disk' = d /\ (result.ok => a[p].allowed)
      \/ result.ok /\ disk' = Pair(Nothing, Nothing) /\ Keeps(Nothing, pr)
      \/ ~result.ok /\ disk' = Pair(Nothing, d.durable) /\ Keeps(Nothing, pr)
  <2>1. CASE a[p].cleared /\ a[p].allowed
    BY <1>3, <2>1 DEF Cleanup, Result
  <2>2. CASE ~(a[p].cleared /\ a[p].allowed) /\ d.seen = Nothing
    <3>1. result \in Synced(d)
      BY <1>3, <2>2 DEF Cleanup
    <3> QED
      BY <1>2, <1>3, <2>2, <3>1, SyncedLeaves
  <2>3. CASE /\ ~(a[p].cleared /\ a[p].allowed) /\ d.seen # Nothing
             /\ d.seen.op = a[p].op /\ d.seen.phase = a[p].phase
             /\ result \in Cleared(d)
    <3>1. d.seen.op # NoOp
      BY <1>2, <2>3, Blanks DEF Sound, Phases, Uncertain, Terminal
    <3>2. pr.phase \in Terminal
      BY <1>1, <2>3, <3>1 DEF Knowing
    <3>3. Keeps(Nothing, pr)
      BY <1>2, <3>2, Blanks DEF Keeps, Given, Terminal
    <3> QED
      BY <1>2, <1>3, <2>3, <3>3, ClearedLeaves
  <2>4. CASE result = Result(d, FALSE)
    BY <1>3, <2>4 DEF Result
  <2> QED
    BY <1>3, <2>1, <2>2, <2>3, <2>4 DEF Cleanup
<1>7. Journal(disk', pr, n) /\ (disk'.seen = d.seen \/ disk'.seen = Nothing)
  <2>1. Keeps(Nothing, pr) =>
          Journal(Pair(Nothing, d.durable), pr, n) /\ Journal(Pair(Nothing, Nothing), pr, n)
    BY <1>1, <1>2, JournalSeen, Blanks
  <2> QED
    BY <1>1, <1>6, <2>1 DEF Pair
<1>8. Knowing(p, auth'[p], disk', known', pr)
  <2>1. CASE disk' = d /\ (result.ok => a[p].allowed)
    <3>1. auth'[p].allowed => a[p].allowed
      BY <1>4, <2>1
    <3> QED
      BY <1>1, <1>4, <1>5, <2>1, <3>1 DEF Knowing
  <2>2. CASE disk' = Pair(Nothing, Nothing)
    <3>1. disk'.seen.phase = "absent" /\ disk'.durable.phase = "absent"
      BY <2>2, Blanks DEF Pair
    <3> QED
      BY <1>1, <1>4, <1>5, <3>1 DEF Knowing, Phases, Uncertain, Terminal
  <2>3. CASE ~result.ok /\ disk' = Pair(Nothing, d.durable)
    <3>1. disk'.seen.phase = "absent" /\ disk'.durable = d.durable
      BY <2>3, Blanks DEF Pair
    <3> QED
      BY <1>1, <1>4, <1>5, <2>3, <3>1 DEF Knowing, Phases, Uncertain, Terminal
  <2> QED
    BY <1>6, <2>1, <2>2, <2>3
<1> QED
  BY <1>4, <1>5, <1>7, <1>8 DEF Stands

\* finish_preparation and finish_recovery.
LEMMA FinishStep ==
  ASSUME MaintenanceInv, NEW p \in 1..MaxProcesses, NEW op \in OpIds, NEW revision \in Nat,
         NEW input \in {"cancel", "fail-preparation", "complete", "fail"},
         Finish(p, op, revision, input)
  PROVE  MaintenanceInv' /\ (Keeps(disk'.seen, promised) \/ disk'.seen = Nothing)
<1> DEFINE s == auth[p]
           r == disk.seen
           event == IF input = "fail-preparation" THEN "fail" ELSE input
           preparing == input \in {"cancel", "fail-preparation"}
           remembered == /\ s.phase = Ends(input) /\ s.op = op /\ s.reason = Reason(input)
                         /\ s.revision = revision + 1
           again == /\ Present /\ r.op = op /\ r.phase = Ends(input) /\ r.revision = revision + 1
                    /\ IF preparing THEN r.machine = p /\ ~Adopted(r) ELSE r.recovery = p
           next == Reduce(r.phase, event)
           to == IF again THEN r ELSE Advance(r, next)
<1>1. s.alive /\ Outside
  BY DEF Finish
<1>2. \/ /\ remembered
         /\ CleansUp(p, op, revision + 1, auth, disk)
         /\ UNCHANGED <<promised, unsafe>>
      \/ /\ again \/ (Present /\ r.op = op /\ r.revision = revision /\ next \notin {"rejected", r.phase})
         /\ \E result \in IF again THEN Synced(disk) ELSE Written(disk, to) :
              IF result.ok
                THEN /\ CleansUp(p, op, to.revision, Told(p, to, Reason(input)), result.disk)
                     /\ Promises(to)
                ELSE disk' = result.disk /\ UNCHANGED <<auth, known, promised>>
         /\ Noted(to)
  <2>1. (IF preparing /\ input # "cancel" THEN "fail" ELSE input) = event
    OBVIOUS
  <2> QED
    BY <2>1 DEF Finish, Told
<1>3. /\ Journal(disk, promised, processes) /\ disk \in Journals /\ processes \in Nat /\ unsafe = FALSE
      /\ Sound(r, processes) /\ r \in Records /\ auth \in [1..MaxProcesses -> Processes]
      /\ Knowing(p, s, disk, known, promised) /\ Keeps(r, promised)
      /\ Given(promised, processes) /\ known \in SUBSET Calls
      /\ s.revision \in Nat /\ r.revision \in Nat
  BY <1>1, Running
<1>4. /\ Ends(input) \in Terminal /\ Reason(input) \in Reasons
      /\ event \in {"cancel", "fail", "complete"}
  BY DEF Ends, Reason, Reasons, Terminal
<1>5. CASE /\ remembered
           /\ CleansUp(p, op, revision + 1, auth, disk)
           /\ UNCHANGED <<promised, unsafe>>
  <2>1. s.phase \in Terminal /\ s.revision = revision + 1
    BY <1>4, <1>5
  <2> HIDE DEF remembered
  <2>2. /\ Stands(p, auth', disk', known', promised, processes)
        /\ disk'.seen = r \/ disk'.seen = Nothing
        /\ \A q \in 1..MaxProcesses : auth'[q].alive = auth[q].alive
    <3> DEFINE a == auth
               d == disk
    <3>1. Stands(p, a, d, known, promised, processes)
      BY <1>3 DEF Stands
    <3>2. CleansUp(p, op, a[p].revision, a, d) /\ a[p].phase \in Terminal
      BY <1>5, <2>1
    <3> HIDE DEF a, d
    <3>3. /\ Stands(p, auth', disk', known', promised, processes)
          /\ disk'.seen = d.seen \/ disk'.seen = Nothing
          /\ \A q \in 1..MaxProcesses : auth'[q].alive = a[q].alive
      BY <1>3, <3>1, <3>2, Cleans
    <3> QED
      BY <3>3 DEF a, d
  <2>3. UNCHANGED <<processes, installed, unsafe>>
    BY <1>1, <1>5 DEF Outside
  <2>4. MaintenanceInv'
    BY <1>1, <1>5, <2>2, <2>3, RunsOn DEF Stands
  <2> QED
    BY <1>3, <2>2, <2>4
<1>6. CASE /\ again \/ (Present /\ r.op = op /\ r.revision = revision /\ next \notin {"rejected", r.phase})
           /\ \E result \in IF again THEN Synced(disk) ELSE Written(disk, to) :
                IF result.ok
                  THEN /\ CleansUp(p, op, to.revision, Told(p, to, Reason(input)), result.disk)
                       /\ Promises(to)
                  ELSE disk' = result.disk /\ UNCHANGED <<auth, known, promised>>
           /\ Noted(to)
  <2>1. r.phase \in Phases /\ Valid(r) /\ r.revision >= s.revision
    <3>1. r.phase \in Phases /\ Valid(r)
      BY <1>3, <1>6, Blanks DEF Present, Sound
    <3> QED
      BY <1>3, <3>1 DEF Knowing
  <2>2. /\ Sound(to, processes) /\ to \in Records /\ Keeps(to, promised) /\ Valid(to)
        /\ to.phase \in Terminal /\ to.revision >= r.revision
        /\ again => to = r
        /\ ~again => to.revision = r.revision + 1
    <3>1. CASE again
      BY <1>3, <1>4, <2>1, <3>1
    <3>2. CASE ~again
      <4>1. Reduce(r.phase, event) \notin {"rejected", r.phase}
        BY <1>6, <3>2
      <4>2. to = Advance(r, next)
        BY <3>2
      <4>3. Moves(r, Advance(r, next)) /\ Advance(r, next).phase = next /\ next \in Terminal
        <5> HIDE DEF event
        <5> QED
          BY <1>3, <1>4, <2>1, <4>1, ReduceMoves
      <4> HIDE DEF next, to, again, event
      <4>4. next \in Phases
        BY <4>3 DEF Phases
      <4>5. to.revision = r.revision + 1
        BY <1>3, <4>2, <4>4, AdvanceFields
      <4>6. Sound(to, processes) /\ Keeps(to, promised)
        BY <1>3, <4>2, <4>3, MovesKeeps
      <4> QED
        BY <3>2, <4>2, <4>3, <4>5, <4>6 DEF Moves
    <3> QED
      BY <3>1, <3>2
  <2> HIDE DEF to, again, next, event, remembered
  <2>3. PICK result \in IF again THEN Synced(disk) ELSE Written(disk, to) :
          IF result.ok
            THEN /\ CleansUp(p, op, to.revision, Told(p, to, Reason(input)), result.disk)
                 /\ Promises(to)
            ELSE disk' = result.disk /\ UNCHANGED <<auth, known, promised>>
    BY <1>6
  <2>4. UNCHANGED <<processes, installed, unsafe>>
    BY <1>1, <1>3, <1>6, <2>2 DEF Noted, Outside
  <2>5. /\ to.revision \in Nat /\ to.phase \in Phases /\ to.phase \notin Uncertain \cup {"corrupt"}
        /\ to.revision >= s.revision
    <3>1. to.revision \in Nat /\ to.phase \in Phases /\ to.phase \notin Uncertain \cup {"corrupt"}
      BY <2>2 DEF Records, Phases, Uncertain, Terminal
    <3> QED
      BY <1>3, <2>1, <2>2, <3>1
  <2>6. CASE result.ok
    <3> DEFINE a == Told(p, to, Reason(input))
    <3>1. result.disk = Pair(to, to)
      BY <1>3, <2>2, <2>3, <2>6, WrittenLeaves, SyncedLeaves
    <3>2. /\ a \in [1..MaxProcesses -> Processes]
          /\ a[p].phase = to.phase /\ a[p].revision = to.revision /\ ~a[p].allowed
          /\ \A q \in 1..MaxProcesses : a[q].alive = auth[q].alive
      BY <1>3, <1>4, <2>2, <2>5, KnowsFields
    <3>3. CleansUp(p, op, to.revision, a, Pair(to, to)) /\ promised' = Promise(to)
      BY <2>3, <2>6, <3>1 DEF Promises, Promise
    <3> HIDE DEF a
    <3>4. \A call \in known : call.revision <= to.revision
      <4>1. \A call \in known : call.revision \in Nat /\ call.revision <= s.revision
        BY <1>3 DEF Knowing, Calls
      <4> QED
        BY <1>3, <2>5, <4>1
    <3>5. Knowing(p, a[p], Pair(to, to), known, Promise(to))
      BY <2>2, <3>2, <3>4, KnowingOwn
    <3>6. Journal(Pair(to, to), Promise(to), processes) /\ Pair(to, to).seen = to
      BY <1>3, <2>2, <2>5, JournalPromised DEF Pair
    <3>7. /\ Stands(p, auth', disk', known', Promise(to), processes)
          /\ disk'.seen = to \/ disk'.seen = Nothing
          /\ \A q \in 1..MaxProcesses : auth'[q].alive = a[q].alive
      <4>1. Stands(p, a, Pair(to, to), known, Promise(to), processes)
        BY <1>3, <3>2, <3>5, <3>6 DEF Stands
      <4>2. CleansUp(p, op, a[p].revision, a, Pair(to, to)) /\ a[p].phase \in Terminal
        BY <2>2, <3>2, <3>3
      <4> QED
        BY <1>3, <3>6, <4>1, <4>2, Cleans
    <3>8. MaintenanceInv'
      BY <1>1, <2>4, <3>2, <3>3, <3>7, RunsOn DEF Stands
    <3> QED
      BY <2>2, <3>7, <3>8
  <2>7. CASE ~result.ok
    <3>1. disk' = disk \/ (~again /\ disk' = Pair(to, disk.durable))
      BY <1>3, <2>2, <2>3, <2>7, WrittenLeaves, SyncedLeaves
    <3>2. Journal(disk', promised, processes) /\ Keeps(disk'.seen, promised)
      <4>1. Journal(Pair(to, disk.durable), promised, processes) /\ Pair(to, disk.durable).seen = to
        BY <1>3, <2>2, JournalSeen DEF Pair
      <4> QED
        BY <1>3, <2>2, <3>1, <4>1
    <3>3. Knowing(p, s, disk', known, promised)
      <4>1. CASE disk' = disk
        BY <1>3, <4>1
      <4>2. CASE ~again /\ disk' = Pair(to, disk.durable)
        <5>1. disk'.seen = to /\ disk'.durable = disk.durable
          BY <4>2 DEF Pair
        <5>2. to.revision > s.revision
          BY <1>3, <2>1, <2>2, <2>5, <4>2
        <5> QED
          BY <1>3, <2>5, <5>1, <5>2 DEF Knowing
      <4> QED
        BY <3>1, <4>1, <4>2
    <3>4. UNCHANGED <<auth, known, promised>>
      BY <2>3, <2>7
    <3>5. MaintenanceInv'
      BY <1>1, <1>3, <2>4, <3>2, <3>3, <3>4, RunsOn
    <3> QED
      BY <3>2, <3>5
  <2> QED
    BY <2>6, <2>7
<1> QED
  BY <1>2, <1>5, <1>6
-----------------------------------------------------------------------------
(* The start of a process.                                                  *)

\* The states a process may start in.
LEMMA FreshFields ==
  ASSUME installed \in 1..3
  PROVE  /\ Closed \in Processes /\ ~Closed.alive
         /\ Fresh \in Processes /\ Fresh.alive /\ Fresh.phase = "idle" /\ Fresh.revision = 0
         /\ Fresh.op = NoOp
<1> DEFINE yes == TRUE
           no == FALSE
<1>1. /\ yes \in BOOLEAN /\ no \in BOOLEAN /\ ~no /\ yes
      /\ installed \in Nat /\ "none" \in Reasons /\ NoOp \in OpIds
  BY Blanks DEF Reasons
<1>2. Closed = [alive |-> no, observed |-> 0, phase |-> "idle", op |-> NoOp, revision |-> 0,
                reason |-> "none", cleared |-> no, allowed |-> no]
  BY DEF Closed
<1>3. Fresh = [Closed EXCEPT !.alive = yes, !.observed = installed, !.allowed = yes]
  BY DEF Fresh
<1> HIDE DEF yes, no
<1>4. Fresh = [alive |-> yes, observed |-> installed, phase |-> "idle", op |-> NoOp, revision |-> 0,
               reason |-> "none", cleared |-> no, allowed |-> yes]
  BY <1>2, <1>3
<1>5. Closed \in Processes /\ Fresh \in Processes
  BY <1>1, <1>2, <1>4 DEF Processes
<1>6. /\ Closed.alive = no /\ Fresh.alive = yes /\ Fresh.phase = "idle" /\ Fresh.revision = 0
      /\ Fresh.op = NoOp
  BY <1>2, <1>4
<1> QED
  BY <1>1, <1>5, <1>6

\* A process starts, or does not, when none runs.
LEMMA Starts ==
  ASSUME MaintenanceInv, NEW p \in 1..MaxProcesses, p = processes + 1, processes' = p,
         \A q \in 1..MaxProcesses : ~auth[q].alive,
         NEW s \in Processes, auth' = [auth EXCEPT ![p] = s],
         Journal(disk', promised', processes), known' \in SUBSET Calls,
         s.alive => Knowing(p, s, disk', known', promised'),
         ~s.alive => known' = {},
         UNCHANGED <<installed, unsafe>>
  PROVE  MaintenanceInv'
<1>1. processes \in Nat /\ auth \in [1..MaxProcesses -> Processes]
  BY DEF MaintenanceInv, JournalInv, ProcessInv
<1>2. Journal(disk', promised', processes')
  <2> DEFINE n == processes
             d == disk'
             pr == promised'
  <2>1. n \in Nat /\ Journal(d, pr, n)
    BY <1>1
  <2> HIDE DEF n, d, pr
  <2>2. Journal(d, pr, n + 1)
    BY <2>1, JournalLater
  <2> QED
    BY <2>2 DEF n, d, pr
<1>3. JournalInv'
  BY <1>1, <1>2 DEF MaintenanceInv, JournalInv
<1>4. /\ auth' \in [1..MaxProcesses -> Processes] /\ auth'[p] = s
      /\ \A q \in 1..MaxProcesses : q # p => ~auth'[q].alive
  BY <1>1
<1>5. ProcessInv'
  BY <1>4 DEF ProcessInv
<1> QED
  BY <1>3, <1>5 DEF MaintenanceInv

\* What a start finds: no process runs, no call is known, and what is promised is
\* of an earlier process.
LEMMA Opening ==
  ASSUME MaintenanceInv, MaxProcesses \in Nat, Open
  PROVE  /\ processes + 1 \in 1..MaxProcesses /\ processes \in Nat /\ processes' = processes + 1
         /\ \A q \in 1..MaxProcesses : ~auth[q].alive
         /\ known = {} /\ UNCHANGED installed /\ installed \in 1..3 /\ unsafe = FALSE
         /\ Journal(disk, promised, processes) /\ disk \in Journals
         /\ Sound(disk.seen, processes) /\ Keeps(disk.seen, promised)
         /\ disk.seen \in Records /\ disk.seen.op[1] # processes + 1
         /\ Given(promised, processes) /\ promised.op[1] # processes + 1
<1>1. /\ processes \in Nat /\ Journal(disk, promised, processes) /\ installed \in 1..3 /\ unsafe = FALSE
      /\ auth \in [1..MaxProcesses -> Processes]
  BY DEF MaintenanceInv, JournalInv, ProcessInv
<1>2. /\ processes + 1 <= MaxProcesses /\ processes' = processes + 1 /\ UNCHANGED installed
      /\ \A q \in DOMAIN auth : ~auth[q].alive
  BY DEF Open
<1>3. known = {} /\ \A q \in 1..MaxProcesses : ~auth[q].alive
  BY <1>1, <1>2 DEF MaintenanceInv, ProcessInv
<1>4. /\ disk \in Journals /\ Sound(disk.seen, processes) /\ Keeps(disk.seen, promised)
      /\ Given(promised, processes)
  BY <1>1 DEF Journal
<1>5. /\ disk.seen \in Records /\ disk.seen.op[1] <= processes /\ promised.op[1] <= processes
      /\ disk.seen.op \in OpIds /\ promised.op \in OpIds
  BY <1>4 DEF Sound, Given, Records, Promised
<1>6. disk.seen.op[1] \in Nat /\ promised.op[1] \in Nat
  BY <1>5 DEF OpIds
<1>7. disk.seen.op[1] # processes + 1 /\ promised.op[1] # processes + 1
  BY <1>1, <1>5, <1>6
<1> QED
  BY <1>1, <1>2, <1>3, <1>4, <1>5, <1>7

\* reconcile_startup of a preparation.
LEMMA StartAbortedStep ==
  ASSUME MaintenanceInv, MaxProcesses \in Nat, Open,
         StartAborted(processes + 1, Pair(disk.seen, disk.seen))
  PROVE  MaintenanceInv' /\ (Keeps(disk'.seen, promised) \/ disk'.seen = Nothing)
<1> DEFINE p == processes + 1
           r == disk.seen
           d == Pair(r, r)
           to == Advance(r, Reduce(r.phase, "startup"))
           s == [Fresh EXCEPT !.phase = to.phase, !.op = to.op, !.revision = to.revision,
                              !.reason = "pre-install-aborted"]
<1>1. /\ p \in 1..MaxProcesses /\ processes \in Nat /\ processes' = p
      /\ \A q \in 1..MaxProcesses : ~auth[q].alive
      /\ known = {} /\ UNCHANGED installed /\ installed \in 1..3 /\ unsafe = FALSE
      /\ Journal(disk, promised, processes) /\ Sound(r, processes) /\ Keeps(r, promised)
      /\ r \in Records /\ Given(promised, processes)
  BY Opening
<1>2. d.seen = r /\ d.durable = r /\ d \in Journals
  BY <1>1 DEF Pair, Journals
<1>3. /\ r.phase = "preparing" /\ UNCHANGED known /\ Noted(to)
      /\ \E written \in Written(d, to) :
           IF ~written.ok THEN Started(p, Closed, written.disk) /\ UNCHANGED promised
           ELSE /\ Promises(to)
                /\ \E gone \in Cleared(written.disk) :
                     Started(p, IF gone.ok THEN s ELSE Closed, gone.disk)
  BY <1>2 DEF StartAborted
<1>4. /\ Moves(r, to) /\ to.phase = "cancelled" /\ to \in Records /\ Valid(to)
      /\ Sound(to, processes) /\ Keeps(to, promised)
  BY <1>1, <1>3, AbortMoves, MovesKeeps DEF Moves
<1> HIDE DEF to
<1>5. /\ to.op \in OpIds /\ to.revision \in Nat /\ to.phase \in Phases /\ to.phase \in Terminal
      /\ to.phase \in Phases \cup {"idle"}
  BY <1>4 DEF Records, Phases, Terminal
<1>6. Closed \in Processes /\ ~Closed.alive /\ Fresh \in Processes
  BY <1>1, FreshFields
<1>7. s \in Processes /\ s.phase = to.phase /\ s.op = to.op /\ s.revision = to.revision
  <2>1. "pre-install-aborted" \in Reasons
    BY DEF Reasons
  <2> DEFINE All == Phases \cup {"idle"}
  <2>2. Processes = [alive : BOOLEAN, observed : Nat, phase : All, op : OpIds, revision : Nat,
                     reason : Reasons, cleared : BOOLEAN, allowed : BOOLEAN]
    BY DEF Processes
  <2>3. to.phase \in All
    BY <1>5
  <2> HIDE DEF All
  <2> QED
    BY <1>5, <1>6, <2>1, <2>2, <2>3
<1> HIDE DEF s
<1>8. UNCHANGED unsafe
  BY <1>1, <1>3, <1>4 DEF Noted
<1>9. Journal(Pair(to, to), promised, processes) /\ Journal(Pair(to, r), promised, processes)
      /\ Journal(d, promised, processes)
  <2>1. Journal(d, promised, processes)
    BY <1>1, JournalSeen
  <2> QED
    BY <1>1, <1>2, <1>4, <2>1, JournalSeen
<1>10. /\ Journal(Pair(to, to), Promise(to), processes) /\ Journal(Pair(Nothing, to), Promise(to), processes)
       /\ Journal(Pair(Nothing, Nothing), Promise(to), processes)
  BY <1>1, <1>4, <1>5, JournalPromised
<1> HIDE DEF d
<1>11. PICK written \in Written(d, to) :
         IF ~written.ok THEN Started(p, Closed, written.disk) /\ UNCHANGED promised
         ELSE /\ Promises(to)
              /\ \E gone \in Cleared(written.disk) :
                   Started(p, IF gone.ok THEN s ELSE Closed, gone.disk)
  BY <1>3
<1>12. CASE ~written.ok
  <2>1. auth' = [auth EXCEPT ![p] = Closed] /\ disk' = written.disk /\ UNCHANGED promised
    BY <1>11, <1>12 DEF Started
  <2>2. disk' = d \/ disk' = Pair(to, r)
    BY <1>2, <1>4, <1>11, <1>12, <2>1, WrittenLeaves
  <2>3. Journal(disk', promised', processes) /\ Keeps(disk'.seen, promised)
    BY <1>1, <1>2, <1>4, <1>9, <2>1, <2>2 DEF Pair
  <2>4. MaintenanceInv'
    BY <1>1, <1>3, <1>6, <1>8, <2>1, <2>3, Starts
  <2> QED
    BY <2>3, <2>4
<1>13. CASE written.ok
  <2>1. written.disk = Pair(to, to) /\ promised' = Promise(to)
    BY <1>2, <1>4, <1>11, <1>13, WrittenLeaves DEF Promises, Promise
  <2>2. Pair(to, to) \in Journals
    BY <1>4 DEF Pair, Journals
  <2>3. PICK gone \in Cleared(Pair(to, to)) : Started(p, IF gone.ok THEN s ELSE Closed, gone.disk)
    BY <1>11, <1>13, <2>1
  <2>4. IF gone.ok THEN gone.disk = Pair(Nothing, Nothing)
                   ELSE gone.disk = Pair(to, to) \/ gone.disk = Pair(Nothing, to)
    BY <2>2, <2>3, ClearedLeaves DEF Pair
  <2>5. Journal(disk', promised', processes) /\ (Keeps(disk'.seen, promised) \/ disk'.seen = Nothing)
    BY <1>4, <1>10, <2>1, <2>3, <2>4 DEF Started, Pair
  <2>6. CASE gone.ok
    <3>1. auth' = [auth EXCEPT ![p] = s] /\ disk' = Pair(Nothing, Nothing) /\ known' = {}
      BY <1>1, <1>3, <2>3, <2>4, <2>6 DEF Started
    <3>2. Knowing(p, s, disk', known', promised')
      BY <1>5, <1>7, <2>1, <3>1, Blanks DEF Knowing, Pair, Promise, Phases, Uncertain, Terminal
    <3>3. MaintenanceInv'
      BY <1>1, <1>7, <1>8, <2>5, <3>1, <3>2, Starts
    <3> QED
      BY <2>5, <3>3
  <2>7. CASE ~gone.ok
    <3>1. auth' = [auth EXCEPT ![p] = Closed] /\ known' = {}
      BY <1>1, <1>3, <2>3, <2>7 DEF Started
    <3>2. MaintenanceInv'
      BY <1>1, <1>6, <1>8, <2>5, <3>1, Starts
    <3> QED
      BY <2>5, <3>2
  <2> QED
    BY <2>6, <2>7
<1> QED
  BY <1>12, <1>13

\* reconcile_startup of an installation that may have happened.
LEMMA StartRecoveringStep ==
  ASSUME MaintenanceInv, MaxProcesses \in Nat, Open,
         StartRecovering(processes + 1, Pair(disk.seen, disk.seen))
  PROVE  MaintenanceInv' /\ Keeps(disk'.seen, promised)
<1> DEFINE p == processes + 1
           r == disk.seen
           d == Pair(r, r)
           to == Recovered(r, p)
           no == FALSE
           s == [Fresh EXCEPT !.phase = to.phase, !.op = to.op, !.revision = to.revision, !.allowed = no]
<1>1. /\ p \in 1..MaxProcesses /\ processes \in Nat /\ processes' = p /\ p \in Nat \ {0}
      /\ \A q \in 1..MaxProcesses : ~auth[q].alive
      /\ known = {} /\ UNCHANGED installed /\ installed \in 1..3 /\ unsafe = FALSE
      /\ Journal(disk, promised, processes) /\ Sound(r, processes) /\ Keeps(r, promised)
      /\ r \in Records /\ Given(promised, processes)
  BY Opening
<1>2. d.seen = r /\ d.durable = r /\ d \in Journals
  BY <1>1 DEF Pair, Journals
<1>3. /\ r.phase \in Uncertain /\ Noted(to)
      /\ \E written \in Written(d, to) :
           /\ Started(p, IF written.ok THEN s ELSE Closed, written.disk)
           /\ IF written.ok THEN Promises(to) /\ Returns(to.op, to.revision)
                            ELSE UNCHANGED <<promised, known>>
  BY <1>2 DEF StartRecovering, MayActivate
<1>4. no \in BOOLEAN /\ ~no
  OBVIOUS
<1> HIDE DEF no
<1>5. Moves(r, to) /\ to.phase = "recovering"
  BY <1>1, <1>3, RecoverMoves
<1> HIDE DEF to
<1>6. /\ to \in Records /\ Valid(to) /\ Sound(to, processes) /\ Keeps(to, promised)
  BY <1>1, <1>5, MovesKeeps DEF Moves
<1>7. to.op \in OpIds /\ to.revision \in Nat /\ to.phase \in Phases
  BY <1>5, <1>6 DEF Records, Phases, Uncertain
<1>8. Closed \in Processes /\ ~Closed.alive /\ Fresh \in Processes
  BY <1>1, FreshFields
<1>9. s \in Processes /\ s.phase = to.phase /\ s.op = to.op /\ s.revision = to.revision /\ ~s.allowed
  <2> DEFINE All == Phases \cup {"idle"}
  <2>1. Processes = [alive : BOOLEAN, observed : Nat, phase : All, op : OpIds, revision : Nat,
                     reason : Reasons, cleared : BOOLEAN, allowed : BOOLEAN]
    BY DEF Processes
  <2>2. to.phase \in All
    BY <1>7
  <2> HIDE DEF All
  <2>3. s \in Processes /\ s.phase = to.phase /\ s.op = to.op /\ s.revision = to.revision /\ s.allowed = no
    BY <1>4, <1>7, <1>8, <2>1, <2>2
  <2> QED
    BY <1>4, <2>3
<1> HIDE DEF s
<1>10. UNCHANGED unsafe
  BY <1>1, <1>3, <1>6 DEF Noted
<1>11. Journal(Pair(to, r), promised, processes) /\ Journal(d, promised, processes)
  <2>1. Journal(d, promised, processes)
    BY <1>1, JournalSeen
  <2> QED
    BY <1>1, <1>2, <1>6, <2>1, JournalSeen
<1>12. Journal(Pair(to, to), Promise(to), processes)
  BY <1>1, <1>6, <1>7, JournalPromised
<1> HIDE DEF d
<1>13. PICK written \in Written(d, to) :
         /\ Started(p, IF written.ok THEN s ELSE Closed, written.disk)
         /\ IF written.ok THEN Promises(to) /\ Returns(to.op, to.revision)
                          ELSE UNCHANGED <<promised, known>>
  BY <1>3
<1>14. CASE written.ok
  <2>1. /\ disk' = Pair(to, to) /\ promised' = Promise(to) /\ auth' = [auth EXCEPT ![p] = s]
    BY <1>2, <1>6, <1>13, <1>14, WrittenLeaves DEF Promises, Promise, Started
  <2>2. known' \in SUBSET Calls /\ \A call \in known' : call.revision <= to.revision
    BY <1>1, <1>7, <1>13, <1>14 DEF Returns, Calls
  <2>3. Knowing(p, s, disk', known', promised')
    BY <1>6, <1>9, <2>1, <2>2, KnowingOwn
  <2>4. s.alive
    <3>1. Fresh.alive
      BY <1>1, FreshFields
    <3> QED
      BY <1>8, <3>1 DEF s, Processes
  <2>5. MaintenanceInv'
    BY <1>1, <1>9, <1>10, <1>12, <2>1, <2>2, <2>3, <2>4, Starts
  <2> QED
    BY <1>6, <2>1, <2>5 DEF Pair
<1>15. CASE ~written.ok
  <2>1. auth' = [auth EXCEPT ![p] = Closed] /\ disk' = written.disk /\ UNCHANGED promised /\ known' = {}
    BY <1>1, <1>13, <1>15 DEF Started
  <2>2. disk' = d \/ disk' = Pair(to, r)
    BY <1>2, <1>6, <1>13, <1>15, <2>1, WrittenLeaves
  <2>3. Journal(disk', promised', processes) /\ Keeps(disk'.seen, promised)
    BY <1>1, <1>2, <1>6, <1>11, <2>1, <2>2 DEF Pair
  <2>4. MaintenanceInv'
    BY <1>1, <1>8, <1>10, <2>1, <2>3, Starts
  <2> QED
    BY <2>3, <2>4
<1> QED
  BY <1>14, <1>15

\* reconcile_startup of an operation that has ended.
LEMMA StartTerminalStep ==
  ASSUME MaintenanceInv, MaxProcesses \in Nat, Open,
         StartTerminal(processes + 1, Pair(disk.seen, disk.seen))
  PROVE  MaintenanceInv' /\ (Keeps(disk'.seen, promised) \/ disk'.seen = Nothing)
<1> DEFINE p == processes + 1
           r == disk.seen
           d == Pair(r, r)
           yes == TRUE
           reason == IF r.phase = "completed" THEN "none" ELSE r.phase
           s == [Fresh EXCEPT !.phase = r.phase, !.op = r.op, !.revision = r.revision, !.cleared = yes,
                              !.reason = reason]
<1>1. /\ p \in 1..MaxProcesses /\ processes \in Nat /\ processes' = p
      /\ \A q \in 1..MaxProcesses : ~auth[q].alive
      /\ known = {} /\ UNCHANGED installed /\ installed \in 1..3
      /\ Journal(disk, promised, processes) /\ Sound(r, processes) /\ Keeps(r, promised)
      /\ r \in Records
  BY Opening
<1>2. d.seen = r /\ d.durable = r /\ d \in Journals
  BY <1>1 DEF Pair, Journals
<1>3. /\ r.phase \in Terminal /\ UNCHANGED <<unsafe, known>> /\ promised' = Promise(r)
      /\ \E gone \in Cleared(d) : Started(p, IF gone.ok THEN s ELSE Closed, gone.disk)
  BY <1>2 DEF StartTerminal, Promises, Promise
<1>4. yes \in BOOLEAN /\ reason \in Reasons
  BY <1>3 DEF Terminal, Reasons
<1> HIDE DEF yes, reason
<1>5. r.op \in OpIds /\ r.revision \in Nat /\ r.phase \in Phases
  BY <1>1, <1>3 DEF Records, Phases, Terminal
<1>6. Closed \in Processes /\ ~Closed.alive /\ Fresh \in Processes
  BY <1>1, FreshFields
<1>7. s \in Processes /\ s.phase = r.phase /\ s.op = r.op /\ s.revision = r.revision
  <2> DEFINE All == Phases \cup {"idle"}
  <2>1. Processes = [alive : BOOLEAN, observed : Nat, phase : All, op : OpIds, revision : Nat,
                     reason : Reasons, cleared : BOOLEAN, allowed : BOOLEAN]
    BY DEF Processes
  <2>2. r.phase \in All
    BY <1>5
  <2> HIDE DEF All
  <2> QED
    BY <1>4, <1>5, <1>6, <2>1, <2>2
<1> HIDE DEF s
<1>8. /\ Journal(Pair(r, r), Promise(r), processes) /\ Journal(Pair(Nothing, r), Promise(r), processes)
      /\ Journal(Pair(Nothing, Nothing), Promise(r), processes)
  BY <1>1, <1>3, <1>5, JournalPromised
<1>9. PICK gone \in Cleared(d) : Started(p, IF gone.ok THEN s ELSE Closed, gone.disk)
  BY <1>3
<1>10. IF gone.ok THEN gone.disk = Pair(Nothing, Nothing)
                  ELSE gone.disk = Pair(r, r) \/ gone.disk = Pair(Nothing, r)
  BY <1>2, <1>9, ClearedLeaves
<1>11. Journal(disk', promised', processes) /\ (Keeps(disk'.seen, promised) \/ disk'.seen = Nothing)
  BY <1>1, <1>3, <1>8, <1>9, <1>10 DEF Started, Pair
<1>12. CASE gone.ok
  <2>1. auth' = [auth EXCEPT ![p] = s] /\ disk' = Pair(Nothing, Nothing) /\ known' = {}
    BY <1>1, <1>3, <1>9, <1>10, <1>12 DEF Started
  <2>2. Knowing(p, s, disk', known', promised')
    BY <1>3, <1>5, <1>7, <2>1, Blanks DEF Knowing, Pair, Promise, Phases, Uncertain, Terminal
  <2>3. MaintenanceInv'
    BY <1>1, <1>3, <1>7, <1>11, <2>1, <2>2, Starts
  <2> QED
    BY <1>11, <2>3
<1>13. CASE ~gone.ok
  <2>1. auth' = [auth EXCEPT ![p] = Closed] /\ known' = {}
    BY <1>1, <1>3, <1>9, <1>13 DEF Started
  <2>2. MaintenanceInv'
    BY <1>1, <1>3, <1>6, <1>11, <2>1, Starts
  <2> QED
    BY <1>11, <2>2
<1> QED
  BY <1>12, <1>13

\* open: the journal is synced first, and reconciled as it is then.
LEMMA OpenStep ==
  ASSUME MaintenanceInv, MaxProcesses \in Nat, Open
  PROVE  MaintenanceInv' /\ (Keeps(disk'.seen, promised) \/ disk'.seen = Nothing)
<1> DEFINE p == processes + 1
           r == disk.seen
           d == Pair(r, r)
           no == FALSE
           failed == [Fresh EXCEPT !.phase = "failed", !.reason = "corrupt", !.allowed = no]
<1>1. /\ p \in 1..MaxProcesses /\ processes \in Nat /\ processes' = p
      /\ \A q \in 1..MaxProcesses : ~auth[q].alive
      /\ known = {} /\ UNCHANGED installed /\ installed \in 1..3
      /\ Journal(disk, promised, processes) /\ disk \in Journals
      /\ Sound(r, processes) /\ Keeps(r, promised) /\ promised.op[1] # p
  BY Opening
<1>2. d.seen = r /\ d.durable = r
  BY DEF Pair
<1>3. Journal(d, promised, processes)
  BY <1>1, JournalSeen
<1>4. PICK opened \in Synced(disk) :
        IF ~opened.ok THEN Started(p, Closed, opened.disk) /\ UNCHANGED <<unsafe, known, promised>>
        ELSE \/ opened.disk.seen = Nothing /\ Started(p, Fresh, opened.disk) /\ UNCHANGED <<unsafe, known, promised>>
             \/ /\ opened.disk.seen = Corrupt /\ UNCHANGED <<unsafe, known, promised>>
                /\ Started(p, failed, opened.disk)
             \/ StartAborted(p, opened.disk) \/ StartRecovering(p, opened.disk)
             \/ StartTerminal(p, opened.disk)
  BY DEF Open
<1>5. no \in BOOLEAN /\ ~no
  OBVIOUS
<1> HIDE DEF no, d
<1>6. /\ Closed \in Processes /\ ~Closed.alive
      /\ Fresh \in Processes /\ Fresh.alive /\ Fresh.phase = "idle" /\ Fresh.revision = 0 /\ Fresh.op = NoOp
  BY <1>1, FreshFields
<1>7. /\ failed \in Processes /\ failed.alive /\ failed.op = NoOp /\ failed.revision = 0
      /\ ~failed.allowed
  <2> DEFINE All == Phases \cup {"idle"}
  <2>1. Processes = [alive : BOOLEAN, observed : Nat, phase : All, op : OpIds, revision : Nat,
                     reason : Reasons, cleared : BOOLEAN, allowed : BOOLEAN]
    BY DEF Processes
  <2>2. "failed" \in All /\ "corrupt" \in Reasons
    BY DEF Phases, Terminal, Reasons
  <2> HIDE DEF All
  <2>3. /\ failed \in Processes /\ failed.alive = Fresh.alive /\ failed.op = Fresh.op
        /\ failed.revision = Fresh.revision /\ failed.allowed = no
    BY <1>5, <1>6, <2>1, <2>2
  <2> QED
    BY <1>5, <1>6, <2>3
<1> HIDE DEF failed
<1>8. CASE ~opened.ok
  <2>1. /\ auth' = [auth EXCEPT ![p] = Closed] /\ disk' = disk
        /\ UNCHANGED <<unsafe, promised>> /\ known' = {}
    BY <1>1, <1>4, <1>8, SyncedLeaves DEF Started
  <2>2. MaintenanceInv'
    BY <1>1, <1>6, <2>1, Starts
  <2> QED
    BY <1>1, <2>1, <2>2
<1>9. CASE opened.ok
  <2>1. opened.disk = d
    BY <1>1, <1>4, <1>9, SyncedLeaves DEF d
  <2>2. CASE r = Nothing /\ Started(p, Fresh, d) /\ UNCHANGED <<unsafe, known, promised>>
    <3>1. /\ auth' = [auth EXCEPT ![p] = Fresh] /\ disk' = d
          /\ UNCHANGED <<unsafe, promised>> /\ known' = {}
      BY <1>1, <2>2 DEF Started
    <3>2. Knowing(p, Fresh, disk', known', promised')
      BY <1>1, <1>2, <1>6, <2>2, <3>1, Blanks DEF Knowing, Phases, Uncertain, Terminal
    <3>3. MaintenanceInv'
      BY <1>1, <1>3, <1>6, <3>1, <3>2, Starts
    <3> QED
      BY <1>2, <2>2, <3>1, <3>3
  <2>3. CASE r = Corrupt /\ Started(p, failed, d) /\ UNCHANGED <<unsafe, known, promised>>
    <3>1. /\ auth' = [auth EXCEPT ![p] = failed] /\ disk' = d
          /\ UNCHANGED <<unsafe, promised>> /\ known' = {}
      BY <1>1, <2>3 DEF Started
    <3>2. Knowing(p, failed, disk', known', promised')
      BY <1>1, <1>2, <1>7, <2>3, <3>1, Blanks DEF Knowing, Phases, Uncertain, Terminal
    <3>3. MaintenanceInv'
      BY <1>1, <1>3, <1>7, <3>1, <3>2, Starts
    <3> QED
      BY <1>1, <1>2, <3>1, <3>3
  <2>4. CASE StartAborted(p, d)
    BY <2>4, StartAbortedStep DEF d
  <2>5. CASE StartRecovering(p, d)
    BY <2>5, StartRecoveringStep DEF d
  <2>6. CASE StartTerminal(p, d)
    BY <2>6, StartTerminalStep DEF d
  <2> QED
    BY <1>2, <1>4, <1>9, <2>1, <2>2, <2>3, <2>4, <2>5, <2>6
<1> QED
  BY <1>8, <1>9

-----------------------------------------------------------------------------
(* Crashes, and the theorem.                                                *)

\* The application is replaced.
LEMMA InstallStep ==
  ASSUME MaintenanceInv, Install
  PROVE  MaintenanceInv' /\ Keeps(disk'.seen, promised)
<1>1. installed' \in 1..3 /\ UNCHANGED <<disk, auth, processes, known, promised, unsafe>>
  BY DEF Install
<1>2. JournalInv' /\ Keeps(disk'.seen, promised)
  BY <1>1 DEF MaintenanceInv, JournalInv, Journal
<1>3. ProcessInv'
  BY <1>1 DEF MaintenanceInv, ProcessInv
<1> QED
  BY <1>2, <1>3 DEF MaintenanceInv

\* A process dies, and with it what its callers know.
LEMMA CrashStep ==
  ASSUME MaintenanceInv, NEW p \in 1..MaxProcesses, Crash(p)
  PROVE  MaintenanceInv' /\ Keeps(disk'.seen, promised)
<1>1. /\ auth[p].alive /\ auth' = [auth EXCEPT ![p] = Closed] /\ known' = {}
      /\ UNCHANGED <<disk, processes, installed, promised, unsafe>>
  BY DEF Crash
<1>2. JournalInv' /\ Keeps(disk'.seen, promised) /\ installed \in 1..3
  BY <1>1 DEF MaintenanceInv, JournalInv, Journal
<1>3. Closed \in Processes /\ ~Closed.alive
  BY <1>2, FreshFields
<1>4. /\ auth' \in [1..MaxProcesses -> Processes]
      /\ \A q \in 1..MaxProcesses : ~auth'[q].alive
  BY <1>1, <1>3 DEF MaintenanceInv, ProcessInv
<1>5. ProcessInv'
  BY <1>1, <1>4 DEF ProcessInv
<1> QED
  BY <1>2, <1>5 DEF MaintenanceInv

\* Every process dies, and the journal is what was durable.
LEMMA PowerLossStep ==
  ASSUME MaintenanceInv, PowerLoss
  PROVE  MaintenanceInv' /\ Keeps(disk'.seen, promised)
<1>1. /\ auth' = [p \in DOMAIN auth |-> Closed] /\ known' = {}
      /\ disk' = [disk EXCEPT !.seen = disk.durable]
      /\ UNCHANGED <<processes, installed, promised, unsafe>>
  BY DEF PowerLoss
<1>2. /\ Journal(disk, promised, processes) /\ disk \in Journals /\ installed \in 1..3
      /\ Sound(disk.durable, processes) /\ Keeps(disk.durable, promised) /\ processes \in Nat
      /\ auth \in [1..MaxProcesses -> Processes]
  BY DEF MaintenanceInv, JournalInv, ProcessInv, Journal
<1>3. disk' = Pair(disk.durable, disk.durable) /\ disk'.seen = disk.durable
  BY <1>1, <1>2 DEF Journals, Pair
<1>4. Journal(disk', promised, processes)
  BY <1>2, <1>3, JournalSeen
<1>5. JournalInv'
  BY <1>1, <1>4 DEF MaintenanceInv, JournalInv
<1>6. Closed \in Processes /\ ~Closed.alive
  BY <1>2, FreshFields
<1>7. /\ auth' \in [1..MaxProcesses -> Processes]
      /\ \A q \in 1..MaxProcesses : ~auth'[q].alive
  BY <1>1, <1>2, <1>6
<1>8. ProcessInv'
  BY <1>1, <1>7 DEF ProcessInv
<1> QED
  BY <1>2, <1>3, <1>5, <1>8 DEF MaintenanceInv

\* Initially nothing is promised and no process runs.
LEMMA MaintenanceInitial ==
  ASSUME MaintenanceInit
  PROVE  MaintenanceInv
<1>1. PICK journal \in {Nothing, Corrupt} : disk = Pair(journal, journal)
  BY DEF MaintenanceInit, Pair
<1>2. /\ auth = [p \in 1..MaxProcesses |-> Closed] /\ processes = 0 /\ known = {}
      /\ installed = 1 /\ promised = NoPromise /\ unsafe = FALSE
  BY DEF MaintenanceInit
<1>3. Sound(journal, 0) /\ journal \in Records
  BY Blanks DEF Sound
<1>4. Given(promised, 0) /\ Keeps(journal, promised)
  BY <1>2, Blanks DEF Given, Keeps, Promised, NoPromise, Terminal
<1>5. disk \in Journals /\ disk.seen = journal /\ disk.durable = journal
  BY <1>1, <1>3 DEF Journals, Pair
<1>6. JournalInv
  BY <1>2, <1>3, <1>4, <1>5 DEF JournalInv, Journal
<1>7. Closed \in Processes /\ ~Closed.alive
  BY <1>2, FreshFields
<1>8. ProcessInv
  BY <1>2, <1>7 DEF ProcessInv
<1> QED
  BY <1>6, <1>8 DEF MaintenanceInv

\* Every step keeps the invariant, and leaves a journal that keeps the promise that
\* was made before it, or none.
LEMMA MaintenanceStep ==
  ASSUME MaintenanceInv, MaxProcesses \in Nat, Revisions \subseteq Nat, [MaintenanceNext]_mvars
  PROVE  MaintenanceInv' /\ (Keeps(disk'.seen, promised) \/ disk'.seen = Nothing)
<1>1. CASE Open
  BY <1>1, OpenStep
<1>2. CASE Install
  BY <1>2, InstallStep
<1>3. CASE PowerLoss
  BY <1>3, PowerLossStep
<1>4. ASSUME NEW p \in 1..MaxProcesses, Retire(p)
      PROVE  MaintenanceInv' /\ (Keeps(disk'.seen, promised) \/ disk'.seen = Nothing)
  <2>1. CASE RetireUncertain(p)
    BY <2>1, RetireStep
  <2>2. CASE Finish(p, disk.seen.op, disk.seen.revision, "cancel")
    <3>1. disk.seen \in Records
      BY DEF MaintenanceInv, JournalInv, Journal, Sound
    <3>2. disk.seen.op \in OpIds /\ disk.seen.revision \in Nat
      BY <3>1 DEF Records
    <3> DEFINE op == disk.seen.op
               revision == disk.seen.revision
    <3>3. Finish(p, op, revision, "cancel") /\ op \in OpIds /\ revision \in Nat
      BY <2>2, <3>2
    <3> HIDE DEF op, revision
    <3> QED
      BY <3>3, FinishStep
  <2> QED
    BY <1>4, <2>1, <2>2 DEF Retire
<1>5. ASSUME NEW p \in 1..MaxProcesses, Crash(p)
      PROVE  MaintenanceInv' /\ (Keeps(disk'.seen, promised) \/ disk'.seen = Nothing)
  BY <1>5, CrashStep
<1>6. ASSUME NEW p \in 1..MaxProcesses, NEW op \in Ops, NEW admitted \in Revisions,
             Begin(p, <<p, op>>, admitted)
      PROVE  MaintenanceInv' /\ (Keeps(disk'.seen, promised) \/ disk'.seen = Nothing)
  BY <1>6, BeginStep
<1>7. ASSUME NEW p \in 1..MaxProcesses, NEW k \in known, NEW input \in {"intent", "relaunching"},
             Transition(p, k.op, k.revision, input)
      PROVE  MaintenanceInv' /\ (Keeps(disk'.seen, promised) \/ disk'.seen = Nothing)
  BY <1>7, TransitionStep
<1>8. ASSUME NEW p \in 1..MaxProcesses, NEW k \in known,
             NEW input \in {"cancel", "fail-preparation", "complete", "fail"},
             Finish(p, k.op, k.revision, input)
      PROVE  MaintenanceInv' /\ (Keeps(disk'.seen, promised) \/ disk'.seen = Nothing)
  <2>1. k.op \in OpIds /\ k.revision \in Nat
    BY DEF MaintenanceInv, ProcessInv, Calls
  <2> QED
    BY <1>8, <2>1, FinishStep
<1>9. CASE UNCHANGED mvars
  <2>1. UNCHANGED <<disk, auth, processes, installed, known, promised, unsafe>>
    BY <1>9 DEF mvars
  <2>2. JournalInv' /\ Keeps(disk'.seen, promised)
    BY <2>1 DEF MaintenanceInv, JournalInv, Journal
  <2>3. ProcessInv'
    BY <2>1 DEF MaintenanceInv, ProcessInv
  <2> QED
    BY <2>2, <2>3 DEF MaintenanceInv
<1> QED
  BY <1>1, <1>2, <1>3, <1>4, <1>5, <1>6, <1>7, <1>8, <1>9 DEF MaintenanceNext

\* What the invariant says.
LEMMA MaintenanceInvSays ==
  ASSUME MaintenanceInv
  PROVE  PromiseIsDurable /\ NoActivationWhileUncertain /\ NeverUnsafe
<1>1. PromiseIsDurable
  BY DEF MaintenanceInv, JournalInv, Journal, Keeps, PromiseIsDurable
<1>2. NoActivationWhileUncertain
  BY DEF MaintenanceInv, ProcessInv, Knowing, NoActivationWhileUncertain
<1>3. NeverUnsafe
  BY DEF MaintenanceInv, JournalInv, NeverUnsafe
<1> QED
  BY <1>1, <1>2, <1>3

\* The maintenance journal is safe: what a call said Ok to survives crashes, failed
\* syncs and power losses; Mish never activates by itself in front of an uncertain or
\* unreadable journal; no record that is asked for is refused; and an installation
\* whose intent was promised is never taken for one that did not start
\* (UpdaterMaintenanceAuthority, MaintenanceJournalStore).
THEOREM JournalIsSafe ==
  ASSUME MaxProcesses \in Nat, Revisions \subseteq Nat
  PROVE  MaintenanceSpec => MaintenanceIsSafe
<1>1. MaintenanceInit => MaintenanceInv
  BY MaintenanceInitial
<1>2. MaintenanceInv /\ [MaintenanceNext]_mvars => MaintenanceInv'
  BY MaintenanceStep
<1>3. MaintenanceInv => PromiseIsDurable /\ NoActivationWhileUncertain /\ NeverUnsafe
  BY MaintenanceInvSays
<1>4. MaintenanceInv /\ [MaintenanceNext]_mvars =>
        [promised.phase \in Uncertain /\ promised.op # NoOp =>
           ~(disk'.seen.op = promised.op /\ disk'.seen.phase \in {"cancelled", "preparing"}
             /\ disk'.seen.revision <= promised.revision + 1)]_mvars
  <2> SUFFICES ASSUME MaintenanceInv, [MaintenanceNext]_mvars,
                      promised.phase \in Uncertain, promised.op # NoOp
               PROVE  disk'.seen.phase \notin {"cancelled", "preparing"}
    OBVIOUS
  <2>1. Keeps(disk'.seen, promised) \/ disk'.seen = Nothing
    BY MaintenanceStep
  <2>2. CASE Keeps(disk'.seen, promised)
    BY <2>2 DEF Keeps, Uncertain, Terminal
  <2>3. CASE disk'.seen = Nothing
    BY <2>3, Blanks
  <2> QED
    BY <2>1, <2>2, <2>3
<1> QED
  BY <1>1, <1>2, <1>3, <1>4, PTL DEF MaintenanceSpec, MaintenanceIsSafe, IntentIsNotCancelled
=============================================================================
