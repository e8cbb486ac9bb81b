----------------------- MODULE DesktopLifecycleProofs -----------------------
(***************************************************************************)
(* The lifecycle coordinator knows whether the Mac sleeps, is quiet while  *)
(* it does, and counts no byte of a session twice, for every capacity of   *)
(* the event channel and every number of events, commands, bytes, runtimes *)
(* and failures.                                                           *)
(***************************************************************************)
EXTENDS DesktopLifecycle, TLAPS

Kinds == {"sleep", "wake", "network"}
Events == [kind : Kinds, seq : Nat]
States == {"awake", "sleeping", "unknown"}
Recoveries == {"current", "observing", "stale", "unavailable", "closed"}
Authorities == [sequence : Nat, state : States, recovery : Recoveries]
Platforms ==
  [seq : Nat, asleep : BOOLEAN, numbered : SUBSET Events, queue : Seq(Events),
   lagged : BOOLEAN, closed : BOOLEAN]
Hosts == [rt : Nat, profile : Profiles, changed : BOOLEAN]
Sources ==
  [core : BOOLEAN, active : BOOLEAN, ready : BOOLEAN, gen : Nat, seq : Nat, bytes : Nat]
Captures == [sel : BOOLEAN, on : BOOLEAN, busy : BOOLEAN]
Phases == {"idle", "active", "suspended"}
Owners == SUBSET Profiles
Generations == SUBSET Nat
Sessions ==
  [phase : Phases, profile : Owners, session : Nat, total : Nat, gen : Generations,
   seq : Nat, base : Nat, offset : Nat]
Places ==
  {"init", "loop", "pause", "observe", "event", "rebuild", "core", "resume", "audit", "restore",
   "recent"}
Kepts == SUBSET Events
Jobs == [at : Places, then : Places, rt : Nat, ev : Kepts]

LifecycleTypeOK ==
  /\ auth \in Authorities /\ plat \in Platforms /\ host \in Hosts /\ run \in Sources
  /\ status \in Seq(BOOLEAN) /\ seen \in BOOLEAN /\ cap \in Captures
  /\ recent \in Sessions /\ moved \in Nat /\ job \in Jobs

-----------------------------------------------------------------------------
(* The session.                                                             *)

\* A session shows no more than was transferred, and what the counter of the
\* source it counts by has moved since the baseline was transferred as well.
Counted(r, s, m) ==
  /\ r \in Sessions
  /\ r.phase # "idle" => r.offset <= r.total /\ r.total <= m
  /\ r.phase = "active" =>
       /\ \A g \in r.gen : g <= s.gen
       /\ r.gen = {s.gen} => r.offset + s.bytes <= m + r.base

TrafficInv == Counted(recent, run, moved) /\ ActiveIsCaptured

-----------------------------------------------------------------------------
(* The events.                                                              *)

Work(e) == e.kind # "network"
Queued(q) == {q[i] : i \in 1..Len(q)}
Flight(p, ev) == p.numbered \cup Queued(p.queue) \cup ev

\* e was numbered apart from f, and earlier when both are of the workspace.
Before(e, f) == e.seq # f.seq /\ (Work(e) /\ Work(f) => e.seq < f.seq)

\* What a gap left, what is queued and what is not sent follow one another.
Orderly(p, ev) ==
  /\ \A e \in Flight(p, ev) : e.seq <= p.seq
  /\ \A e, f \in ev : e = f
  /\ \A e \in ev : \A f \in p.numbered : Before(e, f)
  /\ \A e \in ev : \A i \in 1..Len(p.queue) : Before(e, p.queue[i])
  /\ \A i, j \in 1..Len(p.queue) : i < j => Before(p.queue[i], p.queue[j])
  /\ \A i \in 1..Len(p.queue) : \A f \in p.numbered : Before(p.queue[i], f)
  /\ \A e, f \in p.numbered : e.seq = f.seq => e = f

\* Of the events F the last sleep or wake says whether the Mac sleeps.
Says(F, p) ==
  \A e \in F :
    Work(e) /\ (\A f \in F : Work(f) => f.seq <= e.seq) => (p.asleep <=> e.kind = "sleep")
Tells(p, ev) == Says(Flight(p, ev), p)

\* An authority that has every sleep and wake up to now, and was not told that it
\* missed one, is true.
Known(a, at, p, ev) ==
  /\ a.state # "unknown" /\ at # "init" /\ ~p.lagged
  /\ \A e \in Flight(p, ev) : Work(e) => e.seq <= a.sequence
  => (p.asleep <=> a.state = "sleeping")

EventInv ==
  /\ Len(plat.queue) <= Capacity
  /\ auth.sequence <= plat.seq
  /\ Orderly(plat, job.ev)
  /\ Tells(plat, {}) /\ (~plat.lagged => Tells(plat, job.ev))
  /\ Known(auth, job.at, plat, job.ev)

-----------------------------------------------------------------------------
(* The coordinator.                                                         *)

\* An event is kept only over the recovery of a gap, and is then either still to be
\* applied by an authority that does not know, or covered by what was observed.
Kept(a, j) ==
  /\ j.at \in {"loop", "init"} => j.ev = {}
  /\ a.state = "unknown" \/ \A e \in j.ev : e.seq <= a.sequence

Observing(j) == j.at = "observe" \/ (j.at = "pause" /\ j.then = "observe")
Course(a, j) ==
  /\ j.at = "pause" => j.then \in {"loop", "observe", "audit", "core"}
  /\ j.at = "resume" => j.then \in {"recent", "restore"}
  /\ j.at \in {"resume", "core"} \/ (j.at = "pause" /\ j.then = "core") => a.state = "awake"
  /\ a.recovery = "observing" => Observing(j)
  /\ Observing(j) => a.state = "unknown"
  /\ a.state = "unknown" => a.recovery # "current"

\* A runtime that observes its Controller while the authority is not awake is new, or
\* about to be paused.
Quiet(a, j, h, s) ==
  a.state # "awake" /\ s.active => h.changed \/ (j.at = "pause" /\ j.rt = h.rt)

JobInv == Kept(auth, job) /\ Course(auth, job) /\ Quiet(auth, job, host, run)

LifecycleInv == LifecycleTypeOK /\ TrafficInv /\ EventInv /\ JobInv

\* What `Traffic' leaves of the bytes transferred when the session r becomes q, and
\* that q counts right again.
Since(r, q, m) == IF q.session # r.session \/ q.phase = "idle" THEN 0 ELSE m
Follows(r, q, s, m) == q.session >= r.session /\ Counted(q, s, Since(r, q, m))

\* What a source with the counters of s may have been observed as.
Sights(s) == [gen : {s.gen}, seq : Nat, profile : Profiles, bytes : {s.bytes}]

-----------------------------------------------------------------------------
(* Operations on the session.                                               *)

\* Two operations in a row count right when each does.
LEMMA FollowsTrans ==
  ASSUME NEW s, NEW m \in Nat, NEW r \in Sessions, NEW q \in Sessions, NEW t \in Sessions,
         s \in Sources, Follows(r, q, s, m), Follows(q, t, s, Since(r, q, m))
  PROVE  Follows(r, t, s, m)
<1>1. r.session \in Nat /\ q.session \in Nat /\ t.session \in Nat /\ t.session >= r.session
  BY DEF Follows, Sessions
<1>2. /\ t.offset \in Nat /\ t.total \in Nat /\ t.base \in Nat
      /\ s.bytes \in Nat
  BY DEF Sessions, Sources
<1>3. Since(q, t, Since(r, q, m)) \in Nat /\ Since(r, t, m) \in Nat
  BY DEF Since
<1>4. t.phase # "idle" => Since(q, t, Since(r, q, m)) <= Since(r, t, m)
  BY <1>1 DEF Since, Follows
<1> QED
  BY <1>1, <1>2, <1>3, <1>4 DEF Follows, Counted

\* A session that is left alone counts right.
LEMMA FollowsSame ==
  ASSUME NEW s, NEW m \in Nat, NEW r, Counted(r, s, m)
  PROVE  Follows(r, r, s, m)
<1>1. r.session \in Nat
  BY DEF Counted, Sessions
<1> QED
  BY <1>1 DEF Follows, Counted, Since

\* reset_source_generation: no generation is known, and the next one counts on from
\* the total.
LEMMA ResetFields ==
  ASSUME NEW r \in Sessions
  PROVE  /\ ResetSource(r) \in Sessions
         /\ ResetSource(r).phase = r.phase /\ ResetSource(r).session = r.session
         /\ ResetSource(r).profile = r.profile /\ ResetSource(r).total = r.total
         /\ ResetSource(r).offset = r.total /\ ResetSource(r).gen = {}
<1>1. {} \in Generations /\ r.total \in Nat
  BY DEF Generations, Sessions
<1> QED
  BY <1>1 DEF Sessions, ResetSource

\* suspend: the session is not active, and what it counted stands for every source.
LEMMA SuspendFollows ==
  ASSUME NEW s, NEW z, NEW m \in Nat, NEW r, Counted(r, s, m)
  PROVE  Follows(r, Suspend(r), z, m) /\ Suspend(r).phase # "active"
<1>1. r \in Sessions /\ r.session \in Nat
  BY DEF Counted, Sessions
<1>2. CASE r.phase = "active"
  <2>1. Suspend(r) = [r EXCEPT !.phase = "suspended"]
    BY <1>2 DEF Suspend
  <2>2. /\ Suspend(r) \in Sessions /\ Suspend(r).phase = "suspended"
        /\ Suspend(r).session = r.session
        /\ Suspend(r).total = r.total /\ Suspend(r).offset = r.offset
    BY <1>1, <2>1 DEF Sessions, Phases
  <2> QED
    BY <1>1, <1>2, <2>2 DEF Follows, Counted, Since
<1>3. CASE r.phase # "active"
  <2>1. Suspend(r) = r
    BY <1>3 DEF Suspend
  <2>2. Follows(r, r, z, m)
    BY <1>1, <1>3 DEF Follows, Counted, Since
  <2> QED
    BY <1>3, <2>1, <2>2
<1> QED
  BY <1>2, <1>3

\* stop: nothing is counted any more.
LEMMA StopFollows ==
  ASSUME NEW s, NEW z, NEW m \in Nat, NEW r, Counted(r, s, m)
  PROVE  Follows(r, StopTraffic(r), z, m) /\ StopTraffic(r).phase = "idle"
<1>1. r \in Sessions /\ r.session \in Nat
  BY DEF Counted, Sessions
<1>2. CASE r.phase = "idle"
  <2>1. StopTraffic(r) = r
    BY <1>2 DEF StopTraffic
  <2> QED
    BY <1>1, <1>2, <2>1 DEF Follows, Counted, Since
<1>3. CASE r.phase # "idle"
  <2>1. StopTraffic(r) = ResetSource([r EXCEPT !.phase = "idle", !.profile = {}, !.total = 0])
    BY <1>3 DEF StopTraffic
  <2>2. "idle" \in Phases /\ {} \in Owners /\ {} \in Generations
    BY DEF Phases, Owners, Generations
  <2> DEFINE x == [r EXCEPT !.phase = "idle", !.profile = {}, !.total = 0]
  <2>3. x \in Sessions /\ x.phase = "idle" /\ x.session = r.session
    BY <1>1, <2>2 DEF Sessions
  <2> HIDE DEF x
  <2>4. /\ StopTraffic(r) \in Sessions /\ StopTraffic(r).phase = "idle"
        /\ StopTraffic(r).session = r.session
    BY <2>1, <2>3, ResetFields DEF x
  <2> QED
    BY <1>1, <2>4 DEF Follows, Counted, Since
<1> QED
  BY <1>2, <1>3

\* observe: the total becomes what the counter has moved since the baseline, which a
\* new generation or a counter that went back starts afresh.
LEMMA ObserveFollows ==
  ASSUME NEW s \in Sources, NEW m \in Nat, NEW r, Counted(r, s, m), NEW o \in Sights(s)
  PROVE  /\ Follows(r, Observe(r, o), s, m)
         /\ Observe(r, o).phase = r.phase /\ Observe(r, o).session = r.session
         /\ Observe(r, o).profile = r.profile
<1>1. /\ r \in Sessions /\ r.session \in Nat /\ r.total \in Nat /\ r.base \in Nat
      /\ r.offset \in Nat /\ s.gen \in Nat /\ s.bytes \in Nat /\ {s.gen} \in Generations
      /\ o.gen = s.gen /\ o.bytes = s.bytes /\ o.seq \in Nat
  BY DEF Counted, Sessions, Sources, Sights, Generations
<1>2. CASE r.phase # "active" \/ r.profile # {o.profile} \/ Outdated(r, o)
  <2>1. Observe(r, o) = r
    BY <1>2 DEF Observe
  <2>2. Follows(r, r, s, m)
    BY FollowsSame
  <2> QED
    BY <2>1, <2>2
<1>3. CASE ~(r.phase # "active" \/ r.profile # {o.profile} \/ Outdated(r, o))
  <2> DEFINE reset == Fresh(r, o) \/ Decreased(r, o)
             offset == IF reset THEN r.total ELSE r.offset
             base == IF reset THEN o.bytes ELSE r.base
             next == offset + (IF o.bytes < base THEN 0 ELSE o.bytes - base)
             total == IF next > r.total THEN next ELSE r.total
  <2>1. Observe(r, o) = [r EXCEPT !.gen = {o.gen}, !.seq = o.seq, !.base = base,
                                  !.offset = offset, !.total = total]
    BY <1>3 DEF Observe
  <2>2. offset \in Nat /\ base \in Nat /\ total \in Nat
    BY <1>1
  <2>3. /\ r.phase = "active" /\ r.offset <= r.total /\ r.total <= m
        /\ r.gen = {s.gen} => r.offset + s.bytes <= m + r.base
    BY <1>3 DEF Counted
  <2>4. ~reset => r.gen = {s.gen} /\ ~(o.bytes < r.base)
    BY <1>1 DEF Fresh, Decreased
  <2>5. offset <= total /\ total <= m /\ offset + s.bytes <= m + base
    BY <1>1, <2>3, <2>4
  <2> HIDE DEF reset, offset, base, next, total
  <2>6. /\ Observe(r, o) \in Sessions
        /\ Observe(r, o).phase = r.phase /\ Observe(r, o).session = r.session
        /\ Observe(r, o).profile = r.profile
        /\ Observe(r, o).gen = {s.gen} /\ Observe(r, o).base = base
        /\ Observe(r, o).offset = offset /\ Observe(r, o).total = total
    BY <1>1, <2>1, <2>2 DEF Sessions
  <2> QED
    BY <1>1, <2>3, <2>5, <2>6 DEF Follows, Counted, Since
<1> QED
  BY <1>2, <1>3

\* capture_applied: a session that is not active of this profile starts or goes on
\* without a generation, and then takes the observation there is.
LEMMA AppliedFollows ==
  ASSUME NEW s \in Sources, NEW m \in Nat, NEW r, Counted(r, s, m), NEW p \in Profiles,
         NEW obs, obs = {} \/ \E o \in Sights(s) : obs = {o}
  PROVE  Follows(r, CaptureApplied(r, p, obs), s, m) /\ CaptureApplied(r, p, obs) \in Sessions
<1>1. /\ r \in Sessions /\ r.session \in Nat /\ r.total \in Nat /\ r.phase \in Phases
      /\ s.gen \in Nat
  BY DEF Counted, Sessions, Sources
<1> DEFINE q == IF r.phase = "idle" \/ r.profile # {p} THEN StartSession(r, p)
                ELSE IF r.phase = "suspended" THEN ResetSource([r EXCEPT !.phase = "active"])
                ELSE r
<1>2. Follows(r, q, s, m) /\ q \in Sessions
  <2>1. CASE r.phase = "idle" \/ r.profile # {p}
    <3> DEFINE own == {p}
               n == r.session + 1
               x == [r EXCEPT !.phase = "active", !.profile = own, !.total = 0, !.session = n]
    <3>1. q = ResetSource(x)
      BY <2>1 DEF StartSession
    <3>2. "active" \in Phases /\ own \in Owners /\ n \in Nat
      BY <1>1 DEF Phases, Owners
    <3> HIDE DEF own, n, q
    <3>3. x \in Sessions /\ x.phase = "active" /\ x.total = 0 /\ x.session = n
      BY <1>1, <3>2 DEF Sessions
    <3> HIDE DEF x
    <3> USE DEF n
    <3>4. /\ q \in Sessions /\ q.phase = "active" /\ q.session = r.session + 1 /\ q.gen = {}
          /\ q.total = 0 /\ q.offset = 0
      BY <3>1, <3>3, ResetFields
    <3> QED
      BY <1>1, <3>4 DEF Follows, Counted, Since
  <2>2. CASE ~(r.phase = "idle" \/ r.profile # {p}) /\ r.phase = "suspended"
    <3> DEFINE x == [r EXCEPT !.phase = "active"]
    <3>1. "active" \in Phases
      BY DEF Phases
    <3>2. /\ x \in Sessions /\ x.phase = "active" /\ x.total = r.total /\ x.session = r.session
      BY <1>1, <3>1 DEF Sessions
    <3>3. q = ResetSource(x)
      BY <2>2
    <3> HIDE DEF x, q
    <3>4. /\ q \in Sessions /\ q.phase = "active" /\ q.session = r.session /\ q.gen = {}
          /\ q.total = r.total /\ q.offset = r.total
      BY <3>2, <3>3, ResetFields
    <3> QED
      BY <1>1, <2>2, <3>4 DEF Follows, Counted, Since
  <2>3. CASE ~(r.phase = "idle" \/ r.profile # {p}) /\ r.phase # "suspended"
    <3>1. q = r
      BY <2>3
    <3> HIDE DEF q
    <3>2. Follows(r, r, s, m)
      BY FollowsSame
    <3> QED
      BY <1>1, <3>1, <3>2
  <2> QED
    BY <2>1, <2>2, <2>3
<1>3. CaptureApplied(r, p, obs) = IF obs = {} THEN q ELSE Observe(q, CHOOSE o \in obs : TRUE)
  BY DEF CaptureApplied
<1> HIDE DEF q
<1>4. CASE obs = {}
  BY <1>2, <1>3, <1>4
<1>5. CASE obs # {}
  <2>1. PICK o \in Sights(s) : obs = {o}
    BY <1>5
  <2>2. CaptureApplied(r, p, obs) = Observe(q, o)
    BY <1>3, <1>5, <2>1
  <2> DEFINE k == Since(r, q, m)
  <2>3. k \in Nat
    BY DEF Since
  <2>4. Counted(q, s, k)
    BY <1>2 DEF Follows
  <2> HIDE DEF k
  <2>5. Follows(q, Observe(q, o), s, k)
    BY <2>3, <2>4, ObserveFollows
  <2>6. Observe(q, o) \in Sessions
    BY <2>5 DEF Follows, Counted
  <2>7. Follows(r, Observe(q, o), s, m)
    BY <1>1, <1>2, <2>5, <2>6, FollowsTrans DEF k
  <2> QED
    BY <2>2, <2>6, <2>7
<1> QED
  BY <1>4, <1>5

\* There is at most one observation, and it has the source's counters.
LEMMA ObservationIsSight ==
  ASSUME LifecycleTypeOK
  PROVE  Observation = {} \/ \E o \in Sights(run) : Observation = {o}
<1> DEFINE o == [gen |-> run.gen, seq |-> run.seq, profile |-> host.profile, bytes |-> run.bytes]
<1>1. o \in Sights(run)
  BY DEF LifecycleTypeOK, Sources, Hosts, Sights
<1>2. Observation = {} \/ Observation = {o}
  BY DEF Observation
<1> QED
  BY <1>1, <1>2

\* capture_applied, as the runtime calls it.
LEMMA AppliedHere ==
  ASSUME LifecycleTypeOK, NEW m \in Nat, NEW r, Counted(r, run, m)
  PROVE  Follows(r, CaptureApplied(r, host.profile, Observation), run, m)
<1>1. run \in Sources /\ host.profile \in Profiles
  BY DEF LifecycleTypeOK, Hosts
<1> DEFINE s == run
           p == host.profile
           obs == Observation
<1>2. obs = {} \/ \E o \in Sights(s) : obs = {o}
  BY ObservationIsSight
<1>3. s \in Sources /\ p \in Profiles /\ Counted(r, s, m)
  BY <1>1
<1> HIDE DEF s, p, obs
<1>4. Follows(r, CaptureApplied(r, p, obs), s, m)
  BY <1>2, <1>3, AppliedFollows
<1> QED
  BY <1>4 DEF s, p, obs

\* The observer of confirmed changes: the session counts on, and is not active
\* unless Capture is.
LEMMA ConfirmedFollows ==
  ASSUME LifecycleTypeOK, NEW m \in Nat, NEW r, Counted(r, run, m),
         NEW on \in BOOLEAN, NEW sel \in BOOLEAN
  PROVE  /\ Follows(r, Confirmed(r, on, sel), run, m)
         /\ Confirmed(r, on, sel).phase = "active" => on
<1>1. CASE on /\ r.phase = "idle"
  <2>1. Confirmed(r, on, sel) = CaptureApplied(r, host.profile, Observation)
    BY <1>1 DEF Confirmed
  <2> QED
    BY <1>1, <2>1, AppliedHere
<1>2. CASE on /\ r.phase # "idle"
  <2>1. Confirmed(r, on, sel) = r
    BY <1>2 DEF Confirmed
  <2>2. Follows(r, r, run, m)
    BY FollowsSame
  <2> QED
    BY <1>2, <2>1, <2>2
<1>3. CASE ~on /\ sel
  <2>1. Confirmed(r, on, sel) = Suspend(r)
    BY <1>3 DEF Confirmed
  <2> QED
    BY <2>1, SuspendFollows
<1>4. CASE ~on /\ ~sel
  <2>1. Confirmed(r, on, sel) = StopTraffic(r)
    BY <1>4 DEF Confirmed
  <2> QED
    BY <2>1, StopFollows
<1> QED
  BY <1>1, <1>2, <1>3, <1>4

\* The end of a command, and the end of a pause.
LEMMA SettledFollows ==
  ASSUME LifecycleTypeOK, NEW m \in Nat, NEW r, Counted(r, run, m),
         NEW on \in BOOLEAN, NEW sel \in BOOLEAN, r.phase = "active" => on
  PROVE  /\ Follows(r, AfterCapture(r, on, sel), run, m)
         /\ AfterCapture(r, on, sel).phase = "active" => on
         /\ Follows(r, Resumed(r, on, sel), run, m)
         /\ Resumed(r, on, sel).phase = "active" => on
<1>1. CASE on
  <2>1. /\ AfterCapture(r, on, sel) = CaptureApplied(r, host.profile, Observation)
        /\ Resumed(r, on, sel) = CaptureApplied(r, host.profile, Observation)
    BY <1>1 DEF AfterCapture, Resumed
  <2> QED
    BY <1>1, <2>1, AppliedHere
<1>2. CASE ~on /\ sel
  <2>1. AfterCapture(r, on, sel) = r /\ Resumed(r, on, sel) = r
    BY <1>2 DEF AfterCapture, Resumed
  <2>2. Follows(r, r, run, m)
    BY FollowsSame
  <2> QED
    BY <2>1, <2>2
<1>3. CASE ~on /\ ~sel
  <2>1. AfterCapture(r, on, sel) = StopTraffic(r) /\ Resumed(r, on, sel) = StopTraffic(r)
    BY <1>3 DEF AfterCapture, Resumed
  <2> QED
    BY <2>1, StopFollows
<1> QED
  BY <1>1, <1>2, <1>3

\* A change that is confirmed and then settled.
LEMMA ConfirmedThenSettled ==
  ASSUME LifecycleTypeOK, NEW m \in Nat, NEW r, Counted(r, run, m),
         NEW on \in BOOLEAN, NEW sel \in BOOLEAN
  PROVE  /\ Follows(r, AfterCapture(Confirmed(r, on, sel), on, sel), run, m)
         /\ AfterCapture(Confirmed(r, on, sel), on, sel).phase = "active" => on
         /\ Follows(r, Resumed(Confirmed(r, on, sel), on, sel), run, m)
         /\ Resumed(Confirmed(r, on, sel), on, sel).phase = "active" => on
         /\ Follows(r, StopTraffic(Confirmed(r, on, sel)), run, m)
         /\ StopTraffic(Confirmed(r, on, sel)).phase = "idle"
<1> DEFINE q == Confirmed(r, on, sel)
           k == Since(r, q, m)
<1>1. Follows(r, q, run, m) /\ (q.phase = "active" => on)
  BY ConfirmedFollows
<1>2. k \in Nat /\ Counted(q, run, k)
  BY <1>1 DEF Since, Follows
<1> HIDE DEF q, k
<1>3. /\ Follows(q, AfterCapture(q, on, sel), run, k)
      /\ AfterCapture(q, on, sel).phase = "active" => on
      /\ Follows(q, Resumed(q, on, sel), run, k)
      /\ Resumed(q, on, sel).phase = "active" => on
  BY <1>1, <1>2, SettledFollows
<1>4. Follows(q, StopTraffic(q), run, k) /\ StopTraffic(q).phase = "idle"
  BY <1>2, StopFollows
<1>5. ASSUME NEW t, Follows(q, t, run, k) PROVE Follows(r, t, run, m)
  <2>1. t \in Sessions /\ q \in Sessions /\ r \in Sessions /\ run \in Sources
    BY <1>2, <1>5 DEF Follows, Counted, LifecycleTypeOK
  <2>2. Follows(q, t, run, Since(r, q, m))
    BY <1>5 DEF k
  <2> DEFINE s == run
  <2>3. s \in Sources /\ Follows(r, q, s, m) /\ Follows(q, t, s, Since(r, q, m))
    BY <1>1, <2>1, <2>2
  <2> HIDE DEF s
  <2>4. Follows(r, t, s, m)
    BY <2>1, <2>3, FollowsTrans
  <2> QED
    BY <2>4 DEF s
<1> QED
  BY <1>3, <1>4, <1>5 DEF q

-----------------------------------------------------------------------------
(* What the actions do to the session.                                      *)

\* The step leaves the session alone, or only ends what it was counting.
Lull ==
  \/ UNCHANGED <<recent, moved>>
  \/ Traffic(recent) \/ Traffic(Suspend(recent)) \/ Traffic(StopTraffic(recent))

\* The source keeps its counters.
SameCounters == run'.gen = run.gen /\ run'.bytes = run.bytes

\* A session that counts on by the new source counts right in the next state.
LEMMA TrafficShown ==
  ASSUME LifecycleTypeOK, Follows(recent, recent', run', moved),
         moved' = Since(recent, recent', moved), recent'.phase = "active" => cap'.on
  PROVE  TrafficInv' /\ moved' \in Nat
<1>1. moved' \in Nat
  BY DEF LifecycleTypeOK, Since
<1>2. Counted(recent', run', moved')
  BY DEF Follows
<1> QED
  BY <1>1, <1>2 DEF TrafficInv, ActiveIsCaptured

\* Counters that stay the same count for the new source as for the old one.
LEMMA FollowsSource ==
  ASSUME NEW s, NEW z, NEW m, NEW r, NEW q, Follows(r, q, s, m),
         z.gen = s.gen, z.bytes = s.bytes
  PROVE  Follows(r, q, z, m)
BY DEF Follows, Counted

\* A step that calls `Traffic' with a session that follows keeps the invariant.
LEMMA TrafficSame ==
  ASSUME LifecycleTypeOK, SameCounters, Follows(recent, recent', run, moved),
         moved' = Since(recent, recent', moved), recent'.phase = "active" => cap'.on
  PROVE  TrafficInv' /\ moved' \in Nat
<1> DEFINE s == run
           z == run'
           m == moved
           r == recent
           q == recent'
<1>1. Follows(r, q, s, m) /\ z.gen = s.gen /\ z.bytes = s.bytes
  BY DEF SameCounters
<1> HIDE DEF s, z, m, r, q
<1>2. Follows(r, q, z, m)
  BY <1>1, FollowsSource
<1>3. Follows(recent, recent', run', moved)
  BY <1>2 DEF s, z, m, r, q
<1> QED
  BY <1>3, TrafficShown

\* A lull keeps the invariant while Capture stays as it is.
LEMMA LullHolds ==
  ASSUME LifecycleTypeOK, TrafficInv, Lull, SameCounters, cap'.on = cap.on
  PROVE  TrafficInv' /\ moved' \in Nat
<1> DEFINE s == run
           m == moved
           r == recent
<1>1. Counted(r, s, m) /\ m \in Nat
  BY DEF TrafficInv, LifecycleTypeOK
<1> HIDE DEF s, m, r
<1>2. /\ Follows(r, r, s, m)
      /\ Follows(r, Suspend(r), s, m) /\ Suspend(r).phase # "active"
      /\ Follows(r, StopTraffic(r), s, m) /\ StopTraffic(r).phase = "idle"
  BY <1>1, FollowsSame, SuspendFollows, StopFollows
<1> USE DEF s, m, r
<1>3. CASE UNCHANGED <<recent, moved>>
  BY <1>3 DEF TrafficInv, Counted, ActiveIsCaptured, SameCounters, LifecycleTypeOK
<1>4. CASE Traffic(recent)
  BY <1>2, <1>4, TrafficSame DEF Traffic, Since, TrafficInv, ActiveIsCaptured
<1>5. CASE Traffic(Suspend(recent))
  BY <1>2, <1>5, TrafficSame DEF Traffic, Since
<1>6. CASE Traffic(StopTraffic(recent))
  BY <1>2, <1>6, TrafficSame DEF Traffic, Since
<1> QED
  BY <1>3, <1>4, <1>5, <1>6 DEF Lull

\* set_capture ends, and the session follows what was confirmed.
LEMMA CaptureEndsCounts ==
  ASSUME LifecycleTypeOK, TrafficInv, NEW active \in BOOLEAN, NEW ok \in BOOLEAN,
         CaptureEnds(active, ok)
  PROVE  TrafficInv' /\ moved' \in Nat
<1> DEFINE on == IF ok THEN active /\ run.core ELSE FALSE
           c == Confirmed(recent, on, active)
           q == IF ok THEN AfterCapture(c, on, active) ELSE c
<1>1. on \in BOOLEAN
  BY DEF LifecycleTypeOK, Sources
<1>2. cap' = [sel |-> active, on |-> on, busy |-> FALSE] /\ Traffic(q) /\ UNCHANGED run
  BY DEF CaptureEnds
<1> HIDE DEF on
<1>3. Counted(recent, run, moved) /\ moved \in Nat
  BY DEF TrafficInv, LifecycleTypeOK
<1> DEFINE r == recent
           m == moved
<1>4. Counted(r, run, m) /\ m \in Nat
  BY <1>3
<1> HIDE DEF r, m
<1>5. /\ Follows(r, Confirmed(r, on, active), run, m)
      /\ Confirmed(r, on, active).phase = "active" => on
  BY <1>1, <1>4, ConfirmedFollows
<1>6. /\ Follows(r, AfterCapture(Confirmed(r, on, active), on, active), run, m)
      /\ AfterCapture(Confirmed(r, on, active), on, active).phase = "active" => on
  BY <1>1, <1>4, ConfirmedThenSettled
<1>7. Follows(recent, q, run, moved) /\ (q.phase = "active" => on)
  BY <1>5, <1>6 DEF r, m
<1> HIDE DEF q
<1>8. /\ recent' = q /\ moved' = Since(recent, q, moved)
      /\ cap'.on = on /\ SameCounters
  BY <1>2 DEF Traffic, Since, SameCounters
<1> QED
  BY <1>7, <1>8, TrafficSame

\* restore_capture_intent, and the session goes on, stays or ends.
LEMMA RestoreCounts ==
  ASSUME LifecycleTypeOK, TrafficInv, NEW ok \in BOOLEAN, RestoreStep(ok)
  PROVE  TrafficInv' /\ moved' \in Nat
<1> DEFINE on == IF cap.busy THEN cap.on ELSE ok /\ cap.sel /\ run.core
           sel == cap.sel
           c == Confirmed(recent, on, sel)
           q == IF ok THEN Resumed(c, on, sel) ELSE StopTraffic(c)
<1>1. on \in BOOLEAN /\ sel \in BOOLEAN
  BY DEF LifecycleTypeOK, Sources, Captures
<1>2. cap' = [cap EXCEPT !.on = on] /\ Traffic(q) /\ UNCHANGED run
  BY DEF RestoreStep
<1> HIDE DEF on, sel
<1> DEFINE r == recent
           m == moved
<1>4. Counted(r, run, m) /\ m \in Nat
  BY DEF TrafficInv, LifecycleTypeOK
<1> HIDE DEF r, m
<1>5. /\ Follows(r, Resumed(Confirmed(r, on, sel), on, sel), run, m)
      /\ Resumed(Confirmed(r, on, sel), on, sel).phase = "active" => on
      /\ Follows(r, StopTraffic(Confirmed(r, on, sel)), run, m)
      /\ StopTraffic(Confirmed(r, on, sel)).phase = "idle"
  BY <1>1, <1>4, ConfirmedThenSettled
<1>7. Follows(recent, q, run, moved) /\ (q.phase = "active" => on)
  BY <1>5 DEF r, m
<1> HIDE DEF q
<1>8. /\ recent' = q /\ moved' = Since(recent, q, moved)
      /\ cap'.on = on /\ SameCounters
  BY <1>2 DEF Traffic, Since, SameCounters, LifecycleTypeOK, Captures
<1> QED
  BY <1>7, <1>8, TrafficSame

\* resume_recent_traffic after a replacement.
LEMMA RecentCounts ==
  ASSUME LifecycleTypeOK, TrafficInv, RecentStep
  PROVE  TrafficInv' /\ moved' \in Nat
<1> DEFINE on == cap.on
           sel == cap.sel
           r == recent
           m == moved
           q == Resumed(r, on, sel)
<1>1. on \in BOOLEAN /\ sel \in BOOLEAN
  BY DEF LifecycleTypeOK, Captures
<1>2. Counted(r, run, m) /\ m \in Nat /\ (r.phase = "active" => on)
  BY DEF TrafficInv, LifecycleTypeOK, ActiveIsCaptured
<1>3. Traffic(q) /\ UNCHANGED <<run, cap>>
  BY DEF RecentStep
<1> HIDE DEF on, sel, r, m
<1>4. Follows(r, q, run, m) /\ (q.phase = "active" => on)
  BY <1>1, <1>2, SettledFollows
<1> HIDE DEF q
<1>5. recent' = q /\ moved' = Since(r, q, m) /\ cap'.on = on /\ SameCounters
  BY <1>3 DEF Traffic, Since, SameCounters, on, r, m
<1>6. Follows(recent, recent', run, moved) /\ moved' = Since(recent, recent', moved)
  BY <1>4, <1>5 DEF r, m
<1> QED
  BY <1>4, <1>5, <1>6, TrafficSame

\* audit_capture: a release that was found is confirmed.
LEMMA AuditCounts ==
  ASSUME LifecycleTypeOK, TrafficInv, NEW off \in BOOLEAN, AuditStep(off)
  PROVE  TrafficInv' /\ moved' \in Nat
<1>1. CASE ~off
  BY <1>1, LullHolds DEF AuditStep, Lull, SameCounters
<1>2. CASE off
  <2> DEFINE no == FALSE
             sel == cap.sel
             r == recent
             m == moved
             q == Confirmed(r, no, sel)
  <2>1. no \in BOOLEAN /\ ~no /\ sel \in BOOLEAN
    BY DEF LifecycleTypeOK, Captures
  <2>2. Counted(r, run, m) /\ m \in Nat
    BY DEF TrafficInv, LifecycleTypeOK
  <2>3. Traffic(q) /\ UNCHANGED run
    BY <1>2 DEF AuditStep
  <2> HIDE DEF no, sel, r, m
  <2>4. Follows(r, q, run, m) /\ q.phase # "active"
    BY <2>1, <2>2, ConfirmedFollows
  <2> HIDE DEF q
  <2>5. recent' = q /\ moved' = Since(r, q, m) /\ SameCounters
    BY <2>3 DEF Traffic, Since, SameCounters, r, m
  <2>6. Follows(recent, recent', run, moved) /\ moved' = Since(recent, recent', moved)
    BY <2>4, <2>5 DEF r, m
  <2> QED
    BY <2>4, <2>5, <2>6, TrafficSame
<1> QED
  BY <1>1, <1>2

\* The collector's sample is observed with the source's own counters.
LEMMA SampledCounts ==
  ASSUME LifecycleTypeOK, TrafficInv, Sampled
  PROVE  TrafficInv' /\ moved' \in Nat
<1> DEFINE r == recent
           m == moved
           s == run
           o == [gen |-> run.gen, seq |-> run.seq + 1, profile |-> host.profile,
                 bytes |-> run.bytes]
           q == Observe(r, o)
<1>1. Counted(r, s, m) /\ m \in Nat /\ s \in Sources /\ (r.phase = "active" => cap.on)
  BY DEF TrafficInv, LifecycleTypeOK, ActiveIsCaptured
<1>2. o \in Sights(s)
  BY DEF LifecycleTypeOK, Sights, Sources, Hosts
<1>3. Traffic(q) /\ run' = [run EXCEPT !.ready = TRUE, !.seq = @ + 1] /\ UNCHANGED cap
  BY DEF Sampled
<1> HIDE DEF r, m, s, o
<1>4. Follows(r, q, s, m) /\ q.phase = r.phase
  BY <1>1, <1>2, ObserveFollows
<1> HIDE DEF q
<1>5. recent' = q /\ moved' = Since(r, q, m)
  BY <1>3 DEF Traffic, Since, r, m
<1>6. Follows(recent, recent', run, moved) /\ moved' = Since(recent, recent', moved)
  BY <1>4, <1>5 DEF r, m, s
<1>7. SameCounters
  BY <1>3 DEF SameCounters, LifecycleTypeOK, Sources
<1> QED
  BY <1>1, <1>3, <1>4, <1>5, <1>6, <1>7, TrafficSame

\* A replacement leaves no active session, so that it counts by no old counter.
LEMMA ReplaceCounts ==
  ASSUME LifecycleTypeOK, TrafficInv, NEW p \in Profiles, NEW core \in BOOLEAN, Replace(p, core)
  PROVE  TrafficInv' /\ moved' \in Nat
<1> DEFINE r == recent
           m == moved
           s == run
           z == run'
           q == IF p # host.profile THEN StopTraffic(recent) ELSE Suspend(recent)
<1>1. Counted(r, s, m) /\ m \in Nat
  BY DEF TrafficInv, LifecycleTypeOK
<1>2. Traffic(q)
  BY DEF Replace
<1> HIDE DEF r, m, s, z
<1>3. /\ Follows(r, Suspend(r), z, m) /\ Suspend(r).phase # "active"
      /\ Follows(r, StopTraffic(r), z, m) /\ StopTraffic(r).phase = "idle"
  BY <1>1, SuspendFollows, StopFollows
<1>4. Follows(recent, q, run', moved) /\ q.phase # "active"
  BY <1>3 DEF r, m, z
<1> HIDE DEF q
<1>5. recent' = q /\ moved' = Since(recent, q, moved)
  BY <1>2 DEF Traffic, Since
<1> QED
  BY <1>4, <1>5, TrafficShown

\* The Core's counter starts again, the bytes go on, and a pause changes the
\* generation: none of them lets a baseline count twice.
LEMMA SourceCounts ==
  ASSUME LifecycleTypeOK, TrafficInv, CoreChanges \/ Transfers \/ PauseStep
  PROVE  TrafficInv' /\ moved' \in Nat
<1>1. /\ recent \in Sessions /\ recent.total \in Nat /\ recent.base \in Nat
      /\ recent.offset \in Nat /\ run.gen \in Nat /\ run.bytes \in Nat /\ moved \in Nat
      /\ run \in Sources
      /\ \A g \in recent.gen : g \in Nat
  BY DEF LifecycleTypeOK, Sessions, Sources, Generations
<1>2. CASE CoreChanges
  <2>1. run'.gen = run.gen /\ run'.bytes = 0 /\ UNCHANGED <<recent, moved, cap>>
    BY <1>1, <1>2 DEF CoreChanges, Sources
  <2> QED
    BY <1>1, <2>1 DEF TrafficInv, Counted, ActiveIsCaptured
<1>3. CASE Transfers
  <2>1. /\ run'.gen = run.gen /\ run'.bytes = run.bytes + 1 /\ UNCHANGED <<recent, cap>>
        /\ moved' = IF recent.phase = "idle" THEN 0 ELSE moved + 1
    BY <1>1, <1>3 DEF Transfers, Sources
  <2> QED
    BY <1>1, <2>1 DEF TrafficInv, Counted, ActiveIsCaptured
<1>4. CASE PauseStep
  <2>1. UNCHANGED <<recent, moved, cap>> /\ run' = IF Mine THEN Paused ELSE run
    BY <1>4 DEF PauseStep
  <2>2. CASE ~Mine
    BY <1>1, <2>1, <2>2 DEF TrafficInv, Counted, ActiveIsCaptured
  <2>3. CASE Mine
    <3>1. run'.gen = run.gen + 1 /\ run'.bytes = run.bytes
      <4>1. run' = [run EXCEPT !.active = FALSE, !.ready = FALSE, !.gen = run.gen + 1]
        BY <2>1, <2>3 DEF Paused
      <4> QED
        BY <1>1, <4>1 DEF Sources
    <3>2. recent.phase = "active" =>
            /\ \A g \in recent.gen : g <= run.gen + 1
            /\ recent.gen # {run.gen + 1}
      <4> SUFFICES ASSUME recent.phase = "active"
                   PROVE  /\ \A g \in recent.gen : g <= run.gen + 1
                          /\ run.gen + 1 \notin recent.gen
        OBVIOUS
      <4>1. \A g \in recent.gen : g <= run.gen
        BY DEF TrafficInv, Counted
      <4> QED
        BY <1>1, <4>1
    <3> QED
      BY <1>1, <2>1, <3>1, <3>2 DEF TrafficInv, Counted, ActiveIsCaptured
  <2> QED
    BY <2>2, <2>3
<1> QED
  BY <1>2, <1>3, <1>4

-----------------------------------------------------------------------------
(* The events.                                                              *)

\* What is taken out of flight came before what stays.
LEMMA FlightLess ==
  ASSUME NEW p, NEW F \in SUBSET Events, NEW G \in SUBSET F, Says(F, p),
         \A e \in G : \A f \in F \ G : Work(e) /\ Work(f) => f.seq < e.seq
  PROVE  Says(G, p)
<1> SUFFICES ASSUME NEW e \in G, Work(e), \A f \in G : Work(f) => f.seq <= e.seq
             PROVE  p.asleep <=> e.kind = "sleep"
  BY DEF Says
<1>1. ASSUME NEW f \in F, Work(f) PROVE f.seq <= e.seq
  <2>1. f.seq \in Nat /\ e.seq \in Nat
    BY DEF Events
  <2>2. CASE f \in G
    BY <1>1, <2>2
  <2>3. CASE f \notin G
    BY <1>1, <2>1, <2>3
  <2> QED
    BY <2>2, <2>3
<1> QED
  BY <1>1 DEF Says

\* What is in flight are events.
LEMMA FlightEvents ==
  ASSUME NEW p \in Platforms, NEW ev \in SUBSET Events
  PROVE  /\ Flight(p, ev) \in SUBSET Events
         /\ \A i \in 1..Len(p.queue) : p.queue[i] \in Events /\ p.queue[i] \in Flight(p, ev)
         /\ p.numbered \in SUBSET Flight(p, ev) /\ ev \in SUBSET Flight(p, ev)
         /\ p.queue \in Seq(Events) /\ Len(p.queue) \in Nat
<1>1. p.queue \in Seq(Events) /\ p.numbered \in SUBSET Events
  BY DEF Platforms
<1>2. Len(p.queue) \in Nat /\ \A i \in 1..Len(p.queue) : p.queue[i] \in Events
  BY <1>1
<1> QED
  BY <1>1, <1>2 DEF Flight, Queued

\* An event that was kept over a gap is let go.
LEMMA DropKept ==
  ASSUME NEW p \in Platforms, NEW ev \in SUBSET Events, Orderly(p, ev)
  PROVE  Orderly(p, {}) /\ (Tells(p, ev) => Tells(p, {}))
<1>1. Flight(p, {}) \in SUBSET Flight(p, ev) /\ Flight(p, ev) \in SUBSET Events
  BY FlightEvents DEF Flight
<1>2. Orderly(p, {})
  BY <1>1 DEF Orderly
<1>3. ASSUME Tells(p, ev) PROVE Tells(p, {})
  <2>1. ASSUME NEW e \in Flight(p, {}), NEW f \in Flight(p, ev) \ Flight(p, {}), Work(e), Work(f)
        PROVE  f.seq < e.seq
    <3>1. f \in ev
      BY <2>1 DEF Flight
    <3>2. Before(f, e)
      BY <3>1 DEF Orderly, Flight, Queued
    <3> QED
      BY <2>1, <3>2 DEF Before
  <2> QED
    BY <1>1, <1>3, <2>1, FlightLess DEF Tells
<1> QED
  BY <1>2, <1>3

\* The platform q is p after an event of that kind was numbered.
Numbering(p, q, kind) ==
  q = [p EXCEPT !.seq = p.seq + 1,
                !.asleep = kind = "sleep" \/ (p.asleep /\ kind # "wake"),
                !.numbered = p.numbered \cup {[kind |-> kind, seq |-> p.seq + 1]}]

\* publish_lifecycle_event numbers an event behind all others, and changes whether
\* the Mac sleeps as the event says.
LEMMA NumberedOrder ==
  ASSUME NEW p \in Platforms, NEW kind \in Kinds, NEW q, NEW ev \in SUBSET Events,
         Numbering(p, q, kind)
  PROVE  /\ q \in Platforms /\ q.seq = p.seq + 1 /\ q.queue = p.queue /\ q.lagged = p.lagged
         /\ Orderly(p, ev) => Orderly(q, ev)
         /\ Orderly(p, ev) /\ Tells(p, ev) => Tells(q, ev)
         /\ kind = "network" => (q.asleep <=> p.asleep)
         /\ Flight(q, ev) = Flight(p, ev) \cup {[kind |-> kind, seq |-> p.seq + 1]}
<1> DEFINE e == [kind |-> kind, seq |-> p.seq + 1]
           b == kind = "sleep" \/ (p.asleep /\ kind # "wake")
           N == p.numbered \cup {e}
<1>1. /\ p.seq \in Nat /\ p.asleep \in BOOLEAN /\ p.seq + 1 \in Nat /\ e \in Events /\ e.seq = p.seq + 1
      /\ e.kind = kind /\ b \in BOOLEAN /\ N \in SUBSET Events
  BY DEF Platforms, Events, Kinds
<1>2. kind = "sleep" => b
  OBVIOUS
<1>3. kind = "wake" => ~b
  OBVIOUS
<1>4. kind = "network" => (b <=> p.asleep)
  OBVIOUS
<1>5. q = [p EXCEPT !.seq = p.seq + 1, !.asleep = b, !.numbered = N]
  BY DEF Numbering
<1> HIDE DEF b, N
<1> DEFINE A == SUBSET Events
           Q == Seq(Events)
<1>6. N \in A /\ p \in [seq : Nat, asleep : BOOLEAN, numbered : A, queue : Q, lagged : BOOLEAN,
                        closed : BOOLEAN]
  BY <1>1 DEF Platforms
<1> HIDE DEF A, Q
<1>7. /\ q \in [seq : Nat, asleep : BOOLEAN, numbered : A, queue : Q, lagged : BOOLEAN,
                closed : BOOLEAN]
      /\ q.seq = p.seq + 1 /\ q.queue = p.queue /\ q.lagged = p.lagged /\ q.numbered = N
      /\ q.asleep = b
  BY <1>1, <1>5, <1>6
<1>8. q \in Platforms
  BY <1>7 DEF Platforms, A, Q
<1>9. Flight(q, ev) = Flight(p, ev) \cup {e}
  BY <1>7 DEF Flight, N
<1>10. /\ Flight(p, ev) \in SUBSET Events /\ Flight(q, ev) \in SUBSET Events
       /\ \A i \in 1..Len(p.queue) : p.queue[i] \in Events /\ p.queue[i] \in Flight(p, ev)
       /\ p.numbered \in SUBSET Flight(p, ev) /\ ev \in SUBSET Flight(p, ev)
  BY <1>8, FlightEvents
<1> HIDE DEF e
<1>11. ASSUME Orderly(p, ev) PROVE Orderly(q, ev)
  <2>1. \A f \in Flight(p, ev) : f.seq \in Nat /\ f.seq <= p.seq
    BY <1>10, <1>11 DEF Orderly, Events
  <2>2. \A f \in Flight(p, ev) : Before(f, e)
    BY <1>1, <2>1 DEF Before
  <2>3. \A f \in Flight(q, ev) : f.seq <= q.seq
    BY <1>1, <1>7, <1>9, <2>1
  <2>4. \A f \in ev : \A g \in q.numbered : Before(f, g)
    BY <1>7, <1>10, <1>11, <2>2 DEF Orderly, N
  <2>5. \A i \in 1..Len(q.queue) : \A g \in q.numbered : Before(q.queue[i], g)
    BY <1>7, <1>10, <1>11, <2>2 DEF Orderly, N
  <2>6. \A f, g \in q.numbered : f.seq = g.seq => f = g
    BY <1>7, <1>10, <1>11, <2>2 DEF Orderly, N, Before
  <2> QED
    BY <1>7, <1>11, <2>3, <2>4, <2>5, <2>6 DEF Orderly
<1>12. ASSUME Orderly(p, ev), Tells(p, ev) PROVE Tells(q, ev)
  <2> SUFFICES ASSUME NEW f \in Flight(q, ev), Work(f),
                      \A g \in Flight(q, ev) : Work(g) => g.seq <= f.seq
               PROVE  q.asleep <=> f.kind = "sleep"
    BY DEF Tells, Says
  <2>1. \A g \in Flight(p, ev) : g.seq \in Nat /\ g.seq <= p.seq
    BY <1>10, <1>12 DEF Orderly, Events
  <2>2. CASE f = e
    BY <1>1, <1>2, <1>3, <1>7, <2>2 DEF Work, Kinds
  <2>3. CASE f # e
    <3>1. f \in Flight(p, ev) /\ e \in Flight(q, ev)
      BY <1>9, <2>3
    <3>2. ~Work(e)
      BY <1>1, <2>1, <3>1
    <3>3. q.asleep <=> p.asleep
      BY <1>1, <1>4, <1>7, <3>2 DEF Work
    <3> QED
      BY <1>9, <1>12, <3>1, <3>3 DEF Tells, Says
  <2> QED
    BY <2>2, <2>3
<1> QED
  BY <1>1, <1>4, <1>7, <1>8, <1>9, <1>11, <1>12 DEF e

\* The platform q is p with another queue and other unsent events.
Same(p, q) == q \in Platforms /\ q.seq = p.seq /\ q.asleep = p.asleep

\* The first of the queue is taken out of it: it came before what stays.
LEMMA TakenOrder ==
  ASSUME NEW p \in Platforms, NEW q, Same(p, q), NEW ev \in SUBSET Events, Orderly(p, ev),
         p.queue # <<>>, q.numbered = p.numbered, q.queue = Tail(p.queue)
  PROVE  /\ Head(p.queue) \in Events /\ Head(p.queue).seq <= p.seq
         /\ Len(q.queue) = Len(p.queue) - 1
         /\ Orderly(q, ev) /\ (Tells(p, {}) => Tells(q, {}))
         /\ ev = {} => Orderly(q, {Head(p.queue)}) /\ Flight(q, {Head(p.queue)}) = Flight(p, {})
         /\ \A f \in Flight(q, {}) : Before(Head(p.queue), f)
<1> DEFINE e == Head(p.queue)
           n == Len(p.queue)
<1>1. /\ p.queue \in Seq(Events) /\ n \in Nat /\ Flight(p, ev) \in SUBSET Events
      /\ Flight(q, ev) \in SUBSET Events /\ Flight(p, {}) \in SUBSET Events
      /\ Flight(q, {}) \in SUBSET Events
      /\ \A i \in 1..n : p.queue[i] \in Events /\ p.queue[i] \in Flight(p, ev)
  BY FlightEvents DEF Same
<1>2. n # 0 /\ e = p.queue[1] /\ 1 \in 1..n
  BY <1>1
<1>3. Len(q.queue) = n - 1 /\ \A i \in 1..(n - 1) : q.queue[i] = p.queue[i + 1]
  BY <1>1, <1>2
<1>4. \A i \in 1..(n - 1) : i \in 1..n /\ i + 1 \in 1..n /\ 1 < i + 1
  BY <1>1
<1>5. e \in Events /\ e \in Flight(p, ev) /\ e.seq <= p.seq
  BY <1>1, <1>2 DEF Orderly
<1>6. \A f \in Queued(p.queue) : f = e \/ f \in Queued(q.queue)
  <2> SUFFICES ASSUME NEW i \in 1..n PROVE p.queue[i] = e \/ p.queue[i] \in Queued(q.queue)
    BY DEF Queued
  <2>1. CASE i = 1
    BY <1>2, <2>1
  <2>2. CASE i # 1
    <3>1. i - 1 \in 1..(n - 1) /\ (i - 1) + 1 = i
      BY <1>1, <2>2
    <3>2. q.queue[i - 1] = p.queue[i]
      BY <1>3, <3>1
    <3> QED
      BY <1>3, <3>1, <3>2 DEF Queued
  <2> QED
    BY <2>1, <2>2
<1>7. \A f \in Queued(q.queue) : f \in Queued(p.queue)
  BY <1>3, <1>4 DEF Queued
<1>8. e \in Queued(p.queue)
  BY <1>2 DEF Queued
<1> HIDE DEF e, n
<1>9. \A f \in Flight(q, {}) : Before(e, f)
  <2> SUFFICES ASSUME NEW f \in Flight(q, {}) PROVE Before(e, f)
    OBVIOUS
  <2>1. CASE f \in q.numbered
    BY <1>2, <2>1 DEF Orderly, n
  <2>2. CASE f \in Queued(q.queue)
    <3>1. PICK i \in 1..(n - 1) : f = q.queue[i]
      BY <1>3, <2>2 DEF Queued
    <3>2. f = p.queue[i + 1] /\ i + 1 \in 1..n /\ 1 < i + 1
      BY <1>3, <1>4, <3>1
    <3> QED
      BY <1>2, <3>2 DEF Orderly, n
  <2> QED
    BY <2>1, <2>2 DEF Flight
<1>10. Orderly(q, ev)
  <2>1. \A f \in Flight(q, ev) : f \in Flight(p, ev)
    BY <1>7 DEF Flight
  <2>2. \A f \in Flight(q, ev) : f.seq <= q.seq
    BY <2>1 DEF Orderly, Same
  <2>3. \A f \in ev : \A i \in 1..Len(q.queue) : Before(f, q.queue[i])
    BY <1>3, <1>4 DEF Orderly, n
  <2>4. \A i, j \in 1..Len(q.queue) : i < j => Before(q.queue[i], q.queue[j])
    <3> SUFFICES ASSUME NEW i \in 1..(n - 1), NEW j \in 1..(n - 1), i < j
                 PROVE  Before(q.queue[i], q.queue[j])
      BY <1>3
    <3>1. i + 1 \in 1..n /\ j + 1 \in 1..n /\ i + 1 < j + 1
      BY <1>4
    <3> QED
      BY <1>3, <3>1 DEF Orderly, n
  <2>5. \A i \in 1..Len(q.queue) : \A f \in q.numbered : Before(q.queue[i], f)
    BY <1>3, <1>4 DEF Orderly, n
  <2> QED
    BY <2>2, <2>3, <2>4, <2>5 DEF Orderly
<1>11. Flight(q, {e}) = Flight(p, {})
  BY <1>6, <1>7, <1>8 DEF Flight
<1>12. ASSUME Tells(p, {}) PROVE Tells(q, {})
  <2>1. Flight(q, {}) \in SUBSET Flight(p, {})
    BY <1>7 DEF Flight
  <2>2. ASSUME NEW g \in Flight(q, {}), NEW f \in Flight(p, {}) \ Flight(q, {}), Work(g), Work(f)
        PROVE  f.seq < g.seq
    <3>1. f = e
      BY <1>6, <2>2 DEF Flight
    <3> QED
      BY <1>9, <2>2, <3>1 DEF Before
  <2>3. Says(Flight(q, {}), p)
    BY <1>1, <1>12, <2>1, <2>2, FlightLess DEF Tells
  <2> QED
    BY <2>3 DEF Tells, Says, Same
<1>13. ASSUME ev = {} PROVE Orderly(q, {e})
  <2>1. \A f \in Flight(q, {e}) : f.seq <= q.seq
    BY <1>11, <1>13 DEF Orderly, Same
  <2>2. \A f \in q.numbered : Before(e, f)
    BY <1>9 DEF Flight
  <2>3. \A i \in 1..Len(q.queue) : Before(e, q.queue[i])
    BY <1>9 DEF Flight, Queued
  <2> QED
    BY <1>10, <1>13, <2>1, <2>2, <2>3 DEF Orderly
<1> QED
  BY <1>3, <1>5, <1>9, <1>10, <1>11, <1>12, <1>13 DEF e, n

\* The platform q is p after e was sent.
Sending(p, q, e) ==
  /\ e \in p.numbered
  /\ e.kind = "network" \/ \A f \in p.numbered : f.kind = "network" \/ f.seq >= e.seq
  /\ q.numbered = p.numbered \ {e} /\ q.queue = Append(p.queue, e)

\* An event that is sent goes behind all that were: no earlier one of the workspace
\* is still to be sent.
LEMMA SentOrder ==
  ASSUME NEW p \in Platforms, NEW q, Same(p, q), NEW ev \in SUBSET Events, Orderly(p, ev),
         NEW e, Sending(p, q, e)
  PROVE  /\ Orderly(q, ev) /\ Flight(q, ev) = Flight(p, ev) /\ Flight(q, {}) = Flight(p, {})
         /\ Len(q.queue) = Len(p.queue) + 1
<1> DEFINE n == Len(p.queue)
<1>1. /\ p.queue \in Seq(Events) /\ n \in Nat /\ Flight(p, ev) \in SUBSET Events
      /\ e \in Events /\ p.numbered \in SUBSET Events
      /\ \A i \in 1..n : p.queue[i] \in Events
      /\ e \in p.numbered /\ q.numbered = p.numbered \ {e} /\ q.queue = Append(p.queue, e)
  BY FlightEvents DEF Platforms, Sending
<1>2. /\ Len(q.queue) = n + 1 /\ q.queue[n + 1] = e
      /\ \A i \in 1..n : q.queue[i] = p.queue[i]
  BY <1>1
<1>3. \A i \in 1..(n + 1) : i \in 1..n \/ i = n + 1
  BY <1>1
<1>4. \A i \in 1..n : i \in 1..(n + 1)
  BY <1>1
<1>5. n + 1 \in 1..(n + 1)
  BY <1>1
<1> HIDE DEF n
<1>6. \A f : f \in Queued(q.queue) <=> f \in Queued(p.queue) \/ f = e
  <2>1. ASSUME NEW f \in Queued(q.queue) PROVE f \in Queued(p.queue) \/ f = e
    BY <1>2, <1>3, <2>1 DEF Queued, n
  <2>2. ASSUME NEW f \in Queued(p.queue) PROVE f \in Queued(q.queue)
    <3>1. PICK i \in 1..n : f = p.queue[i]
      BY <2>2 DEF Queued, n
    <3>2. f = q.queue[i] /\ i \in 1..(n + 1)
      BY <1>2, <1>4, <3>1
    <3> QED
      BY <1>2, <3>2 DEF Queued
  <2>3. e \in Queued(q.queue)
    BY <1>2, <1>5 DEF Queued
  <2> QED
    BY <2>1, <2>2, <2>3
<1>7. Flight(q, ev) = Flight(p, ev) /\ Flight(q, {}) = Flight(p, {})
  BY <1>1, <1>6 DEF Flight
<1>8. ASSUME NEW f \in p.numbered \ {e} PROVE Before(e, f)
  <2>1. e.seq \in Nat /\ f.seq \in Nat /\ e.seq # f.seq
    BY <1>1, <1>8 DEF Orderly, Events
  <2> QED
    BY <1>8, <2>1 DEF Before, Work, Sending
<1>9. \A f \in ev : \A i \in 1..Len(q.queue) : Before(f, q.queue[i])
  BY <1>1, <1>2, <1>3 DEF Orderly, n
<1>10. \A i, j \in 1..Len(q.queue) : i < j => Before(q.queue[i], q.queue[j])
  <2> SUFFICES ASSUME NEW i \in 1..(n + 1), NEW j \in 1..(n + 1), i < j
               PROVE  Before(q.queue[i], q.queue[j])
    BY <1>2
  <2>1. i \in 1..n
    BY <1>1
  <2>2. CASE j \in 1..n
    BY <1>2, <2>1, <2>2 DEF Orderly, n
  <2>3. CASE j = n + 1
    BY <1>1, <1>2, <2>1, <2>3 DEF Orderly, n
  <2> QED
    BY <1>3, <2>2, <2>3
<1>11. \A i \in 1..Len(q.queue) : \A f \in q.numbered : Before(q.queue[i], f)
  BY <1>1, <1>2, <1>3, <1>8 DEF Orderly, n
<1> QED
  BY <1>1, <1>2, <1>7, <1>9, <1>10, <1>11 DEF Orderly, Same, n

-----------------------------------------------------------------------------
(* The actions of the platform, of the host and of the runtimes.            *)

ControlTypeOK ==
  /\ auth \in Authorities /\ plat \in Platforms /\ host \in Hosts /\ run \in Sources
  /\ status \in Seq(BOOLEAN) /\ seen \in BOOLEAN /\ cap \in Captures /\ job \in Jobs
Control == ControlTypeOK /\ EventInv /\ JobInv

\* Neither the platform nor the coordinator moves, and a runtime that becomes active
\* is a new one.
Aside ==
  /\ UNCHANGED <<auth, plat, job>>
  /\ run'.active => (run.active /\ host' = host) \/ host'.changed

\* Such a step keeps what the coordinator relies on.
LEMMA AsideHolds ==
  ASSUME Control, Aside, host' \in Hosts, run' \in Sources, status' \in Seq(BOOLEAN),
         seen' \in BOOLEAN, cap' \in Captures
  PROVE  Control'
<1>1. ControlTypeOK'
  BY DEF Control, ControlTypeOK, Aside
<1>2. EventInv'
  BY DEF Control, EventInv, Aside
<1>3. JobInv'
  BY DEF Control, JobInv, Aside, Kept, Course, Quiet
<1> QED
  BY <1>1, <1>2, <1>3 DEF Control

\* Commands, the Core, its Controller and replaced runtimes.
LEMMA AsideActions ==
  ASSUME Control,
         \/ CaptureBegins \/ CoreChanges \/ Transfers \/ Sampled
         \/ \E a, ok \in BOOLEAN : CaptureEnds(a, ok)
         \/ \E p \in Profiles, core \in BOOLEAN : Replace(p, core)
  PROVE  Control'
<1>1. /\ host \in Hosts /\ run \in Sources /\ status \in Seq(BOOLEAN) /\ seen \in BOOLEAN
      /\ cap \in Captures
  BY DEF Control, ControlTypeOK
<1>2. CASE CaptureBegins
  <2>1. cap' \in Captures
    BY <1>1, <1>2 DEF CaptureBegins, Captures
  <2> QED
    BY <1>1, <1>2, <2>1, AsideHolds DEF CaptureBegins, Aside
<1>3. CASE CoreChanges
  <2>1. run' \in Sources /\ run'.active = run.active
    BY <1>1, <1>3 DEF CoreChanges, Sources
  <2>2. status' \in Seq(BOOLEAN)
    <3> DEFINE b == ~run.core
    <3>1. b \in BOOLEAN /\ status' = Append(status, b)
      BY <1>3 DEF CoreChanges
    <3> HIDE DEF b
    <3> QED
      BY <1>1, <3>1
  <2> QED
    BY <1>1, <1>3, <2>1, <2>2, AsideHolds DEF CoreChanges, Aside
<1>4. CASE Transfers
  <2>1. run' \in Sources /\ run'.active = run.active
    BY <1>1, <1>4 DEF Transfers, Sources
  <2> QED
    BY <1>1, <1>4, <2>1, AsideHolds DEF Transfers, Aside
<1>5. CASE Sampled
  <2> DEFINE n == run.seq + 1
             yes == TRUE
  <2>1. run' = [run EXCEPT !.ready = yes, !.seq = n] /\ n \in Nat /\ yes \in BOOLEAN
    BY <1>1, <1>5 DEF Sampled, Sources
  <2> HIDE DEF n, yes
  <2>2. run' \in Sources /\ run'.active = run.active
    BY <1>1, <2>1 DEF Sources
  <2> QED
    BY <1>1, <1>5, <2>2, AsideHolds DEF Sampled, Aside
<1>6. ASSUME NEW a \in BOOLEAN, NEW ok \in BOOLEAN, CaptureEnds(a, ok) PROVE Control'
  <2> DEFINE on == IF ok THEN a /\ run.core ELSE FALSE
  <2>1. on \in BOOLEAN /\ cap' = [sel |-> a, on |-> on, busy |-> FALSE]
    BY <1>1, <1>6 DEF CaptureEnds, Sources
  <2> HIDE DEF on
  <2>2. cap' \in Captures
    BY <2>1 DEF Captures
  <2>3. UNCHANGED <<auth, plat, host, run, status, seen, job>>
    BY <1>6 DEF CaptureEnds
  <2> QED
    BY <1>1, <2>2, <2>3, AsideHolds DEF Aside
<1>7. ASSUME NEW p \in Profiles, NEW core \in BOOLEAN, Replace(p, core) PROVE Control'
  <2>1. host' \in Hosts /\ host'.changed
    BY <1>1, <1>7 DEF Replace, Hosts
  <2>2. run' \in Sources
    BY <1>7 DEF Replace, Source, Sources
  <2> DEFINE on == cap.on /\ core
  <2>3. on \in BOOLEAN /\ cap' = [cap EXCEPT !.on = on]
    BY <1>1, <1>7 DEF Replace, Captures
  <2> HIDE DEF on
  <2>4. cap' \in Captures
    BY <1>1, <2>3 DEF Captures
  <2>5. UNCHANGED <<auth, plat, status, seen, job>>
    BY <1>7 DEF Replace
  <2> QED
    BY <1>1, <2>1, <2>2, <2>4, <2>5, AsideHolds DEF Aside
<1> QED
  BY <1>2, <1>3, <1>4, <1>5, <1>6, <1>7

\* The platform numbers, sends or ends, and the rest of the coordinator's state stays.
LEMMA PlatformHolds ==
  ASSUME Control, UNCHANGED <<auth, host, run, status, seen, cap, job>>, plat' \in Platforms,
         EventInv'
  PROVE  Control'
<1>1. ControlTypeOK'
  BY DEF Control, ControlTypeOK
<1>2. JobInv'
  BY DEF Control, JobInv, Kept, Course, Observing, Quiet
<1> QED
  BY <1>1, <1>2 DEF Control

\* publish_lifecycle_event.
LEMMA NumberedHolds ==
  ASSUME Control, NEW kind \in Kinds, Numbered(kind)
  PROVE  Control'
<1> DEFINE p == plat
           q == plat'
           ev == job.ev
           e == [kind |-> kind, seq |-> plat.seq + 1]
<1>1. /\ p \in Platforms /\ ev \in SUBSET Events /\ auth \in Authorities
      /\ Orderly(p, ev) /\ Tells(p, {}) /\ (~p.lagged => Tells(p, ev))
      /\ Known(auth, job.at, p, ev) /\ Len(p.queue) <= Capacity /\ auth.sequence <= p.seq
  BY DEF Control, ControlTypeOK, EventInv, Jobs, Kepts
<1>2. /\ Numbering(p, q, kind)
      /\ UNCHANGED <<auth, host, run, status, seen, cap, job>>
  BY DEF Numbered, Numbering
<1>3. p.seq \in Nat /\ auth.sequence \in Nat /\ e.kind = kind /\ e.seq = p.seq + 1
  BY <1>1 DEF Platforms, Authorities
<1> HIDE DEF p, q, ev, e
<1>4. /\ q \in Platforms /\ q.seq = p.seq + 1 /\ q.queue = p.queue /\ q.lagged = p.lagged
      /\ Orderly(q, ev) /\ (~p.lagged => Tells(q, ev))
      /\ kind = "network" => (q.asleep <=> p.asleep)
      /\ Flight(q, ev) = Flight(p, ev) \cup {e}
  BY <1>1, <1>2, NumberedOrder DEF e, p
<1>5. Tells(q, {})
  <2>1. Orderly(p, {}) /\ {} \in SUBSET Events
    BY <1>1, DropKept
  <2> QED
    BY <1>1, <1>2, <2>1, NumberedOrder
<1>6. Known(auth, job.at, q, ev)
  <2> SUFFICES ASSUME auth.state # "unknown", job.at # "init", ~q.lagged,
                      \A f \in Flight(q, ev) : Work(f) => f.seq <= auth.sequence
               PROVE  q.asleep <=> auth.state = "sleeping"
    BY DEF Known
  <2>1. ~Work(e)
    BY <1>1, <1>3, <1>4
  <2>2. q.asleep <=> p.asleep
    BY <1>3, <1>4, <2>1 DEF Work
  <2> QED
    BY <1>1, <1>4, <2>2 DEF Known
<1>7. EventInv'
  BY <1>1, <1>2, <1>3, <1>4, <1>5, <1>6 DEF EventInv, p, q, ev
<1> QED
  BY <1>2, <1>4, <1>7, PlatformHolds DEF q

\* The event is sent, and a full channel loses its oldest one and says so.
LEMMA SentHolds ==
  ASSUME Control, NEW e \in plat.numbered, Sent(e)
  PROVE  Control'
<1> DEFINE p == plat
           q == plat'
           ev == job.ev
           L == IF Len(p.queue) < Capacity THEN Append(p.queue, e) ELSE Append(Tail(p.queue), e)
           N == p.numbered \ {e}
           b == p.lagged \/ Len(p.queue) = Capacity
           x == IF Len(p.queue) < Capacity THEN p ELSE [p EXCEPT !.queue = Tail(p.queue)]
<1>1. /\ p \in Platforms /\ ev \in SUBSET Events /\ auth \in Authorities
      /\ Orderly(p, ev) /\ Tells(p, {}) /\ (~p.lagged => Tells(p, ev))
      /\ Known(auth, job.at, p, ev) /\ Len(p.queue) <= Capacity /\ auth.sequence <= p.seq
  BY DEF Control, ControlTypeOK, EventInv, Jobs, Kepts
<1>2. /\ q = [p EXCEPT !.numbered = N, !.queue = L, !.lagged = b]
      /\ UNCHANGED <<auth, host, run, status, seen, cap, job>>
      /\ e.kind = "network" \/ \A f \in p.numbered : f.kind = "network" \/ f.seq >= e.seq
      /\ e \in p.numbered
  BY DEF Sent
<1>3. p.queue \in Seq(Events) /\ e \in Events /\ Len(p.queue) \in Nat
  BY <1>1, <1>2 DEF Platforms
<1>4. ~(Len(p.queue) < Capacity) => p.queue # <<>> /\ Len(p.queue) = Capacity
  BY <1>1, <1>3, CapacityAssumption
<1>5. L \in Seq(Events) /\ N \in SUBSET Events /\ b \in BOOLEAN
  BY <1>1, <1>3, <1>4 DEF Platforms
<1> DEFINE A == SUBSET Events
           Q == Seq(Events)
           P == [seq : Nat, asleep : BOOLEAN, numbered : A, queue : Q, lagged : BOOLEAN,
                 closed : BOOLEAN]
<1>6. p \in P /\ L \in Q /\ N \in A /\ b \in BOOLEAN
  BY <1>1, <1>5 DEF Platforms
<1> HIDE DEF A, Q, L, N, b, p, q
<1>7. /\ q \in P /\ q.seq = p.seq /\ q.asleep = p.asleep /\ q.numbered = N /\ q.queue = L
      /\ q.lagged = b
  BY <1>2, <1>6
<1>8. Same(p, q)
  BY <1>7 DEF Same, Platforms, A, Q
<1>9. ~(Len(p.queue) < Capacity) =>
        Tail(p.queue) \in Q /\ x = [p EXCEPT !.queue = Tail(p.queue)]
  BY <1>3, <1>4 DEF Q
<1>10. /\ x \in P /\ x.seq = p.seq /\ x.asleep = p.asleep /\ x.numbered = p.numbered
       /\ Len(p.queue) < Capacity => x = p
       /\ ~(Len(p.queue) < Capacity) => x.queue = Tail(p.queue)
  BY <1>6, <1>9
<1> HIDE DEF x
<1>11. Same(p, x) /\ Same(x, q) /\ x \in Platforms
  BY <1>7, <1>8, <1>10 DEF Same, Platforms, A, Q
<1>12. Sending(x, q, e)
  BY <1>2, <1>7, <1>10 DEF L, N, Sending
<1>13. /\ Orderly(x, ev) /\ Tells(x, {}) /\ Len(x.queue) + 1 <= Capacity
       /\ ~b => x = p
  <2>1. CASE Len(p.queue) < Capacity
    BY <1>1, <1>3, <1>10, <2>1, CapacityAssumption
  <2>2. CASE ~(Len(p.queue) < Capacity)
    <3>1. /\ Len(x.queue) = Len(p.queue) - 1 /\ Orderly(x, ev) /\ (Tells(p, {}) => Tells(x, {}))
      BY <1>1, <1>4, <1>10, <1>11, <2>2, TakenOrder
    <3> QED
      BY <1>1, <1>3, <1>4, <2>2, <3>1, CapacityAssumption DEF b
  <2> QED
    BY <2>1, <2>2
<1>14. /\ Orderly(q, ev) /\ Flight(q, ev) = Flight(x, ev) /\ Flight(q, {}) = Flight(x, {})
       /\ Len(q.queue) = Len(x.queue) + 1
  BY <1>1, <1>11, <1>12, <1>13, SentOrder
<1>15. Tells(q, {}) /\ (~b => Tells(q, ev))
  BY <1>1, <1>7, <1>10, <1>13, <1>14 DEF Tells, Says, b
<1>16. Known(auth, job.at, q, ev)
  BY <1>1, <1>7, <1>13, <1>14 DEF Known, b
<1>17. EventInv'
  BY <1>1, <1>2, <1>7, <1>13, <1>14, <1>15, <1>16 DEF EventInv, q, p, ev
<1> QED
  BY <1>2, <1>11, <1>17, PlatformHolds DEF q, Same

\* The channel ends.
LEMMA ClosesHolds ==
  ASSUME Control, Closes
  PROVE  Control'
<1>1. /\ plat \in Platforms /\ plat' = [plat EXCEPT !.closed = TRUE]
      /\ UNCHANGED <<auth, host, run, status, seen, cap, job>>
  BY DEF Control, ControlTypeOK, Closes
<1>2. /\ plat' \in Platforms /\ plat'.seq = plat.seq /\ plat'.asleep = plat.asleep
      /\ plat'.numbered = plat.numbered /\ plat'.queue = plat.queue /\ plat'.lagged = plat.lagged
  BY <1>1 DEF Platforms
<1>3. EventInv'
  BY <1>1, <1>2 DEF Control, EventInv, Orderly, Tells, Says, Known, Flight
<1> QED
  BY <1>1, <1>2, <1>3, PlatformHolds

-----------------------------------------------------------------------------
(* The actions of the coordinator.                                          *)

\* A job is a place, where it goes on, a runtime and a kept event.
LEMMA JobFields ==
  /\ Kepts = SUBSET Events /\ {} \in Kepts
  /\ \A w \in Places, t \in Places, n \in Nat, k \in Kepts :
       [at |-> w, then |-> t, rt |-> n, ev |-> k] \in Jobs
  /\ Loop = [at |-> "loop", then |-> "loop", rt |-> 0, ev |-> {}]
  /\ \A w : At(w) = [at |-> w, then |-> "loop", rt |-> 0, ev |-> {}]
  /\ \A t, k : Pause(t, k) = [at |-> "pause", then |-> t, rt |-> host.rt, ev |-> k]
BY DEF Kepts, Jobs, Loop, At, Pause

\* A part of the work that ends goes back to the loop, or to the event that was kept.
LEMMA EndedFields ==
  ASSUME NEW j \in Jobs
  PROVE  /\ Ended(j) \in Jobs /\ Ended(j).ev = j.ev /\ Ended(j).at \in {"loop", "event"}
         /\ Ended(j).at = "loop" => j.ev = {}
<1>1. CASE j.ev = {}
  <2>1. Ended(j) = Loop
    BY <1>1 DEF Ended
  <2>2. Loop \in Jobs
    BY JobFields DEF Places
  <2> QED
    BY <1>1, <2>1, <2>2, JobFields
<1>2. CASE j.ev # {}
  <2>1. Ended(j) = [j EXCEPT !.at = "event"] /\ "event" \in Places
    BY <1>2 DEF Ended, Places
  <2>2. Ended(j) \in Jobs /\ Ended(j).ev = j.ev /\ Ended(j).at = "event"
    BY <2>1 DEF Jobs
  <2> QED
    BY <2>2
<1> QED
  BY <1>1, <1>2

\* The coordinator's part of a step, of which the rest has its type.
Steps ==
  /\ UNCHANGED plat
  /\ auth' \in Authorities /\ job' \in Jobs /\ host' \in Hosts /\ run' \in Sources
  /\ status' \in Seq(BOOLEAN) /\ seen' \in BOOLEAN /\ cap' \in Captures
  /\ job'.ev = job.ev \/ job'.ev = {}

\* An authority that stays as it is, or stops to know, is as true as before.
LEMMA StepStays ==
  ASSUME Control, Steps, JobInv',
         auth' = auth \/ (auth'.state = "unknown" /\ auth'.sequence = auth.sequence),
         job.at # "init" \/ auth'.state = "unknown"
  PROVE  Control'
<1> DEFINE p == plat
           ev == job.ev
           k == job'.ev
<1>1. /\ p \in Platforms /\ ev \in SUBSET Events /\ Orderly(p, ev) /\ Tells(p, {})
      /\ ~p.lagged => Tells(p, ev)
      /\ k = ev \/ k = {}
  BY DEF Control, ControlTypeOK, EventInv, Steps, Jobs, Kepts
<1> HIDE DEF p, ev, k
<1>2. Orderly(p, k) /\ (~p.lagged => Tells(p, k))
  BY <1>1, DropKept
<1> USE DEF p, ev, k
<1>3. Known(auth', job'.at, plat, job'.ev)
  <2> SUFFICES ASSUME auth'.state # "unknown", job'.at # "init", ~plat.lagged,
                      \A e \in Flight(plat, k) : Work(e) => e.seq <= auth'.sequence
               PROVE  plat.asleep <=> auth'.state = "sleeping"
    BY DEF Known
  <2>1. auth' = auth /\ job.at # "init"
    OBVIOUS
  <2>2. \A e \in ev : e.seq <= auth.sequence
    BY <2>1 DEF Control, JobInv, Kept
  <2>3. \A e \in Flight(plat, ev) : e \in Flight(plat, k) \/ e \in ev
    BY DEF Flight
  <2>4. \A e \in Flight(plat, ev) : Work(e) => e.seq <= auth.sequence
    BY <2>1, <2>2, <2>3
  <2> QED
    BY <2>1, <2>4 DEF Control, EventInv, Known
<1>4. EventInv'
  BY <1>1, <1>2, <1>3 DEF Control, EventInv, Steps
<1> QED
  BY <1>4 DEF Control, ControlTypeOK, Steps

\* An authority that was observed is true.
LEMMA StepSees ==
  ASSUME Control, Steps, JobInv', auth'.sequence = plat.seq,
         auth'.state = IF plat.asleep THEN "sleeping" ELSE "awake"
  PROVE  Control'
<1> DEFINE p == plat
           ev == job.ev
           k == job'.ev
<1>1. /\ p \in Platforms /\ ev \in SUBSET Events /\ Orderly(p, ev) /\ Tells(p, {})
      /\ ~p.lagged => Tells(p, ev)
      /\ k = ev \/ k = {}
  BY DEF Control, ControlTypeOK, EventInv, Steps, Jobs, Kepts
<1> HIDE DEF p, ev, k
<1>2. Orderly(p, k) /\ (~p.lagged => Tells(p, k))
  BY <1>1, DropKept
<1> USE DEF p, ev, k
<1>3. Known(auth', job'.at, plat, job'.ev)
  BY DEF Known
<1>4. auth'.sequence <= plat.seq
  BY <1>1 DEF Platforms
<1>5. EventInv'
  BY <1>1, <1>2, <1>3, <1>4 DEF Control, EventInv, Steps
<1> QED
  BY <1>5 DEF Control, ControlTypeOK, Steps

\* initialize_platform_authority.
LEMMA InitializeHolds ==
  ASSUME Control, NEW ok \in BOOLEAN, Initialize(ok)
  PROVE  Control'
<1>1. /\ auth \in Authorities /\ plat \in Platforms /\ host \in Hosts /\ host.rt \in Nat
      /\ plat.seq \in Nat /\ plat.asleep \in BOOLEAN /\ auth.sequence \in Nat
      /\ UNCHANGED <<plat, host, run, status, seen, cap>> /\ job.at = "init" /\ job.ev = {}
  BY DEF Control, ControlTypeOK, Initialize, Authorities, Platforms, Hosts, JobInv, Kept
<1>2. CASE ok
  <2>1. /\ auth' = [sequence |-> plat.seq, recovery |-> "current",
                    state |-> IF plat.asleep THEN "sleeping" ELSE "awake"]
        /\ job' = IF plat.asleep THEN Pause("loop", {}) ELSE At("audit")
    BY <1>2 DEF Initialize
  <2>2. /\ auth' \in Authorities /\ auth'.sequence = plat.seq /\ auth'.recovery = "current"
        /\ auth'.state = IF plat.asleep THEN "sleeping" ELSE "awake"
    BY <1>1, <2>1 DEF Authorities, States, Recoveries
  <2>3. /\ job' = IF plat.asleep THEN [at |-> "pause", then |-> "loop", rt |-> host.rt, ev |-> {}]
                  ELSE [at |-> "audit", then |-> "loop", rt |-> 0, ev |-> {}]
    BY <2>1, JobFields
  <2>4. job' \in Jobs /\ job'.ev = {}
    BY <1>1, <2>3, JobFields DEF Places
  <2>5. JobInv'
    BY <1>1, <2>2, <2>3 DEF JobInv, Kept, Course, Observing, Quiet
  <2> QED
    BY <1>1, <2>2, <2>4, <2>5, StepSees DEF Steps, Control, ControlTypeOK
<1>3. CASE ~ok
  <2>1. auth' = [auth EXCEPT !.state = "unknown", !.recovery = "unavailable"]
    BY <1>3 DEF Initialize, Unknown
  <2>2. job' = [at |-> "pause", then |-> "loop", rt |-> host.rt, ev |-> {}]
    BY <1>3, JobFields DEF Initialize
  <2>3. /\ auth' \in Authorities /\ auth'.sequence = auth.sequence
        /\ auth'.state = "unknown" /\ auth'.recovery = "unavailable"
    BY <1>1, <2>1 DEF Authorities, States, Recoveries
  <2>4. job' \in Jobs /\ job'.ev = {}
    BY <1>1, <2>2, JobFields DEF Places
  <2>5. JobInv'
    BY <1>1, <2>2, <2>3 DEF JobInv, Kept, Course, Observing, Quiet
  <2> QED
    BY <1>1, <2>3, <2>4, <2>5, StepStays DEF Steps, Control, ControlTypeOK
<1> QED
  BY <1>2, <1>3

\* handle_runtime_replacement: a new runtime is paused unless the Mac is awake.
LEMMA TakeReplacementHolds ==
  ASSUME Control, TakeReplacement
  PROVE  Control'
<1>1. /\ host \in Hosts /\ host.rt \in Nat /\ run \in Sources /\ run.core \in BOOLEAN
      /\ host' = [host EXCEPT !.changed = FALSE]
      /\ status' = <<>> /\ seen' = run.core
      /\ UNCHANGED <<auth, plat, run, cap>> /\ job.at = "loop" /\ job.ev = {}
  BY DEF Control, ControlTypeOK, TakeReplacement, Hosts, Sources, JobInv, Kept
<1>2. host' \in Hosts /\ host'.rt = host.rt /\ ~host'.changed
  BY <1>1 DEF Hosts
<1>3. status' \in Seq(BOOLEAN) /\ seen' \in BOOLEAN
  BY <1>1
<1>4. auth.recovery # "observing"
  BY <1>1 DEF Control, JobInv, Course, Observing
<1>5. \/ /\ auth.state # "awake"
         /\ job' = [at |-> "pause", then |-> "loop", rt |-> host.rt, ev |-> {}]
      \/ /\ auth.state = "awake"
         /\ \/ job' = [at |-> "resume", then |-> "recent", rt |-> host.rt, ev |-> {}]
            \/ job' = [at |-> "pause", then |-> "audit", rt |-> host.rt, ev |-> {}]
  <2> DEFINE next == Replaced(run.core)
  <2>1. job' = [next EXCEPT !.rt = host.rt]
    BY DEF TakeReplacement
  <2>2. CASE auth.state # "awake"
    <3>1. next = [at |-> "pause", then |-> "loop", rt |-> host.rt, ev |-> {}]
      BY <2>2, JobFields DEF Replaced
    <3> HIDE DEF next
    <3> QED
      BY <2>1, <2>2, <3>1
  <2>3. CASE auth.state = "awake" /\ run.core
    <3>1. next = [at |-> "resume", then |-> "recent", rt |-> 0, ev |-> {}]
      BY <2>3, JobFields DEF Replaced
    <3> HIDE DEF next
    <3> QED
      BY <2>1, <2>3, <3>1
  <2>4. CASE auth.state = "awake" /\ ~run.core
    <3>1. next = [at |-> "pause", then |-> "audit", rt |-> host.rt, ev |-> {}]
      BY <2>4, JobFields DEF Replaced
    <3> HIDE DEF next
    <3> QED
      BY <2>1, <2>4, <3>1
  <2> QED
    BY <2>2, <2>3, <2>4
<1>6. job' \in Jobs /\ job'.ev = {}
  <2>1. /\ [at |-> "pause", then |-> "loop", rt |-> host.rt, ev |-> {}] \in Jobs
        /\ [at |-> "resume", then |-> "recent", rt |-> host.rt, ev |-> {}] \in Jobs
        /\ [at |-> "pause", then |-> "audit", rt |-> host.rt, ev |-> {}] \in Jobs
    BY <1>1, JobFields DEF Places
  <2> QED
    BY <1>5, <2>1
<1>7. JobInv'
  BY <1>1, <1>2, <1>4, <1>5 DEF Control, JobInv, Kept, Course, Observing, Quiet
<1> QED
  BY <1>1, <1>2, <1>3, <1>6, <1>7, StepStays DEF Steps, Control, ControlTypeOK

\* handle_core_availability: a Core that comes up is resumed only while awake.
LEMMA TakeStatusHolds ==
  ASSUME Control, TakeStatus
  PROVE  Control'
<1> DEFINE running == Head(status)
<1>1. /\ host \in Hosts /\ host.rt \in Nat /\ status \in Seq(BOOLEAN) /\ status # <<>>
      /\ status' = Tail(status) /\ seen' = running
      /\ UNCHANGED <<auth, plat, host, run, cap>> /\ job.at = "loop" /\ job.ev = {}
      /\ job \in Jobs /\ ~host.changed
  BY DEF Control, ControlTypeOK, TakeStatus, Hosts, JobInv, Kept
<1>2. running \in BOOLEAN /\ status' \in Seq(BOOLEAN)
  BY <1>1
<1>3. auth.recovery # "observing"
  BY <1>1 DEF Control, JobInv, Course, Observing
<1>4. \/ job' = job
      \/ job' = Loop
      \/ auth.state # "awake" /\ job' = Pause("loop", {})
      \/ auth.state = "awake" /\ job' = [At("resume") EXCEPT !.then = "restore", !.rt = host.rt]
      \/ auth.state = "awake" /\ job' = Pause("audit", {})
  <2>1. CASE running = seen
    BY <2>1 DEF TakeStatus
  <2>2. CASE running # seen /\ auth.state # "awake"
    <3>1. job' = IF running THEN Pause("loop", {}) ELSE Loop
      BY <2>2 DEF TakeStatus
    <3> QED
      BY <2>2, <3>1
  <2>3. CASE running # seen /\ auth.state = "awake"
    <3>1. job' = IF running THEN [At("resume") EXCEPT !.then = "restore", !.rt = host.rt]
                 ELSE Pause("audit", {})
      BY <2>3 DEF TakeStatus
    <3> QED
      BY <2>3, <3>1
  <2> QED
    BY <2>1, <2>2, <2>3
<1>5. \/ job' = job
      \/ job' = [at |-> "loop", then |-> "loop", rt |-> 0, ev |-> {}]
      \/ /\ auth.state # "awake"
         /\ job' = [at |-> "pause", then |-> "loop", rt |-> host.rt, ev |-> {}]
      \/ /\ auth.state = "awake"
         /\ job' = [at |-> "resume", then |-> "restore", rt |-> host.rt, ev |-> {}]
      \/ /\ auth.state = "awake"
         /\ job' = [at |-> "pause", then |-> "audit", rt |-> host.rt, ev |-> {}]
  BY <1>4, JobFields
<1>6. job' \in Jobs /\ job'.ev = {}
  <2>1. /\ [at |-> "loop", then |-> "loop", rt |-> 0, ev |-> {}] \in Jobs
        /\ [at |-> "pause", then |-> "loop", rt |-> host.rt, ev |-> {}] \in Jobs
    BY <1>1, JobFields DEF Places
  <2>2. /\ [at |-> "resume", then |-> "restore", rt |-> host.rt, ev |-> {}] \in Jobs
        /\ [at |-> "pause", then |-> "audit", rt |-> host.rt, ev |-> {}] \in Jobs
    BY <1>1, JobFields DEF Places
  <2>3. job' \in Jobs
    BY <1>1, <1>5, <2>1, <2>2, Zenon
  <2>4. job'.ev = {}
    BY <1>1, <1>5
  <2> QED
    BY <2>3, <2>4
<1>7. JobInv'
  BY <1>1, <1>3, <1>5 DEF Control, JobInv, Kept, Course, Observing, Quiet
<1> QED
  BY <1>1, <1>2, <1>6, <1>7, StepStays DEF Steps, Control, ControlTypeOK

\* The two ways to rebuild.
LEMMA RebuildFields ==
  /\ Rebuild(FALSE) = [at |-> "rebuild", then |-> "core", rt |-> 0, ev |-> {}]
  /\ Rebuild(TRUE) = [at |-> "rebuild", then |-> "pause", rt |-> 0, ev |-> {}]
BY DEF Rebuild, At

\* A platform event that is applied sets the authority to what it says, and pauses or
\* rebuilds when that is news.
LEMMA ApplyMoves ==
  ASSUME Control, NEW e \in Events, Apply(e), UNCHANGED <<host, run>>, job.at \in {"loop", "event"}
  PROVE  /\ auth' \in Authorities /\ auth'.sequence = e.seq
         /\ job' \in Jobs /\ job'.ev = {} /\ JobInv'
         /\ \/ e.kind = "network" /\ auth'.state = auth.state
            \/ e.kind = "sleep" /\ auth'.state = "sleeping"
            \/ e.kind = "wake" /\ auth'.state = "awake"
<1>1. /\ auth \in Authorities /\ host.rt \in Nat /\ e.seq \in Nat /\ auth.state \in States
      /\ e.kind \in Kinds /\ auth.recovery # "observing" /\ auth.recovery \in Recoveries
      /\ auth.state # "awake" /\ run.active => host.changed
      /\ auth.state = "unknown" => auth.recovery # "current"
  BY DEF Control, ControlTypeOK, Authorities, Hosts, Events, JobInv, Course, Observing, Quiet
<1>2. /\ [at |-> "loop", then |-> "loop", rt |-> 0, ev |-> {}] \in Jobs
      /\ [at |-> "pause", then |-> "loop", rt |-> host.rt, ev |-> {}] \in Jobs
  BY <1>1, JobFields DEF Places
<1>3. /\ [at |-> "rebuild", then |-> "core", rt |-> 0, ev |-> {}] \in Jobs
      /\ [at |-> "rebuild", then |-> "pause", rt |-> 0, ev |-> {}] \in Jobs
  BY <1>1, JobFields DEF Places
<1>4. CASE auth.state = "unknown" /\ e.kind = "network"
  <2>1. auth' = [auth EXCEPT !.sequence = e.seq] /\ job' = Loop
    BY <1>4 DEF Apply
  <2>2. /\ auth' \in Authorities /\ auth'.sequence = e.seq /\ auth'.state = auth.state
        /\ auth'.recovery = auth.recovery
    BY <1>1, <2>1 DEF Authorities
  <2>3. job' = [at |-> "loop", then |-> "loop", rt |-> 0, ev |-> {}]
    BY <2>1, JobFields
  <2>4. JobInv'
    BY <1>1, <1>4, <2>2, <2>3 DEF JobInv, Kept, Course, Observing, Quiet
  <2> QED
    BY <1>2, <1>4, <2>2, <2>3, <2>4
<1>5. CASE ~(auth.state = "unknown" /\ e.kind = "network")
  <2> DEFINE st == CASE e.kind = "sleep" -> "sleeping" [] e.kind = "wake" -> "awake"
                     [] OTHER -> auth.state
  <2>1. /\ auth' = [sequence |-> e.seq, recovery |-> "current", state |-> st]
        /\ job' = CASE e.kind = "sleep" /\ auth.state = "awake" -> Pause("loop", {})
                    [] e.kind = "wake" /\ auth.state # "awake" -> Rebuild(FALSE)
                    [] e.kind = "network" /\ auth.state = "awake" -> Rebuild(TRUE)
                    [] OTHER -> Loop
    BY <1>5 DEF Apply
  <2>2. /\ e.kind = "sleep" => st = "sleeping"
        /\ e.kind = "wake" => st = "awake"
        /\ e.kind = "network" => st = auth.state
        /\ st \in States /\ (st # "unknown" \/ auth.state = "unknown")
    BY <1>1 DEF Kinds, States
  <2>3. st # "unknown"
    BY <1>1, <1>5, <2>2 DEF Kinds
  <2> HIDE DEF st
  <2>4. /\ auth' \in Authorities /\ auth'.sequence = e.seq /\ auth'.state = st
        /\ auth'.recovery = "current"
    BY <1>1, <2>1, <2>2 DEF Authorities, Recoveries
  <2>5. \/ /\ e.kind = "sleep" /\ auth.state = "awake"
           /\ job' = [at |-> "pause", then |-> "loop", rt |-> host.rt, ev |-> {}]
        \/ /\ e.kind = "wake" /\ auth.state # "awake"
           /\ job' = [at |-> "rebuild", then |-> "core", rt |-> 0, ev |-> {}]
        \/ /\ e.kind = "network" /\ auth.state = "awake"
           /\ job' = [at |-> "rebuild", then |-> "pause", rt |-> 0, ev |-> {}]
        \/ /\ ~(e.kind = "sleep" /\ auth.state = "awake")
           /\ job' = [at |-> "loop", then |-> "loop", rt |-> 0, ev |-> {}]
    BY <2>1, JobFields, RebuildFields
  <2>6. job' \in Jobs
    BY <1>2, <1>3, <2>5, Zenon
  <2>7. job'.ev = {}
    BY <2>5
  <2>8. JobInv'
    <3>1. Kept(auth', job')
      BY <2>7 DEF Kept
    <3>2. Course(auth', job')
      BY <2>3, <2>4, <2>5 DEF Course, Observing
    <3>3. Quiet(auth', job', host', run')
      BY <1>1, <2>2, <2>4, <2>5 DEF Quiet, Kinds
    <3> QED
      BY <3>1, <3>2, <3>3 DEF JobInv
  <2> QED
    BY <1>1, <2>2, <2>4, <2>6, <2>7, <2>8 DEF Kinds
<1> QED
  BY <1>4, <1>5

\* recover_after_event_gap: the authority stops to know before it observes.
LEMMA RecoverMoves ==
  ASSUME Control, NEW k \in Kepts, Recover(k), UNCHANGED <<host, run>>
  PROVE  /\ auth' \in Authorities /\ auth'.sequence = auth.sequence /\ auth'.state = "unknown"
         /\ job' \in Jobs /\ job'.ev = k /\ JobInv'
<1>1. auth \in Authorities /\ host.rt \in Nat
  BY DEF Control, ControlTypeOK, Hosts
<1>2. auth' = [auth EXCEPT !.state = "unknown", !.recovery = "observing"]
  BY DEF Recover, Unknown
<1>3. job' = [at |-> "pause", then |-> "observe", rt |-> host.rt, ev |-> k]
  BY JobFields DEF Recover
<1>4. /\ auth' \in Authorities /\ auth'.sequence = auth.sequence
      /\ auth'.state = "unknown" /\ auth'.recovery = "observing"
  BY <1>1, <1>2 DEF Authorities, States, Recoveries
<1>5. job' \in Jobs
  BY <1>1, <1>3, JobFields DEF Places
<1>6. JobInv'
  BY <1>3, <1>4 DEF JobInv, Kept, Course, Observing, Quiet
<1> QED
  BY <1>3, <1>4, <1>5, <1>6

\* handle_platform_event: an old event is dropped, a gap recovered, the next applied.
LEMMA TakeEventHolds ==
  ASSUME Control, TakeEvent
  PROVE  Control'
<1> DEFINE p == plat
           q == plat'
           e == Head(plat.queue)
<1>1. /\ p \in Platforms /\ job.at = "loop" /\ job.ev = {} /\ p.queue # <<>> /\ ~p.lagged
      /\ Orderly(p, {}) /\ Tells(p, {}) /\ Known(auth, job.at, p, {})
      /\ Len(p.queue) <= Capacity /\ auth.sequence <= p.seq
      /\ q = [p EXCEPT !.queue = Tail(p.queue)]
      /\ UNCHANGED <<host, run, status, seen, cap>> /\ HandleEvent(e)
      /\ auth \in Authorities /\ job \in Jobs
  BY DEF Control, ControlTypeOK, TakeEvent, JobInv, Kept, EventInv
<1>2. p.queue \in Seq(Events) /\ Tail(p.queue) \in Seq(Events)
  BY <1>1 DEF Platforms
<1> DEFINE Q == Seq(Events)
           A == SUBSET Events
           P == [seq : Nat, asleep : BOOLEAN, numbered : A, queue : Q, lagged : BOOLEAN,
                 closed : BOOLEAN]
<1>3. Tail(p.queue) \in Q /\ p \in P
  BY <1>1, <1>2 DEF Platforms
<1> HIDE DEF p, q, e, Q, A
<1>4. /\ q \in P /\ q.seq = p.seq /\ q.asleep = p.asleep /\ q.numbered = p.numbered
      /\ q.queue = Tail(p.queue) /\ q.lagged = p.lagged
  BY <1>1, <1>3
<1>5. Same(p, q) /\ q \in Platforms /\ {} \in SUBSET Events
  BY <1>4 DEF Same, Platforms, Q, A
<1>6. /\ e \in Events /\ e.seq <= p.seq /\ Len(q.queue) = Len(p.queue) - 1
      /\ Orderly(q, {}) /\ Tells(q, {}) /\ Orderly(q, {e}) /\ Flight(q, {e}) = Flight(p, {})
      /\ \A f \in Flight(q, {}) : Before(e, f)
  <2>1. /\ Head(p.queue) \in Events /\ Head(p.queue).seq <= p.seq
        /\ Len(q.queue) = Len(p.queue) - 1
        /\ Orderly(q, {}) /\ (Tells(p, {}) => Tells(q, {}))
        /\ Orderly(q, {Head(p.queue)}) /\ Flight(q, {Head(p.queue)}) = Flight(p, {})
        /\ \A f \in Flight(q, {}) : Before(Head(p.queue), f)
    <3> DEFINE none == {}
    <3>1. /\ p \in Platforms /\ Same(p, q) /\ none \in SUBSET Events /\ Orderly(p, none)
          /\ p.queue # <<>> /\ q.numbered = p.numbered /\ q.queue = Tail(p.queue)
      BY <1>1, <1>4, <1>5
    <3> HIDE DEF none
    <3>2. /\ Head(p.queue) \in Events /\ Head(p.queue).seq <= p.seq
          /\ Len(q.queue) = Len(p.queue) - 1
          /\ Orderly(q, none) /\ (Tells(p, {}) => Tells(q, {}))
          /\ none = {} => /\ Orderly(q, {Head(p.queue)})
                         /\ Flight(q, {Head(p.queue)}) = Flight(p, {})
          /\ \A f \in Flight(q, {}) : Before(Head(p.queue), f)
      BY <3>1, TakenOrder
    <3> QED
      BY <3>2 DEF none
  <2>2. e = Head(p.queue)
    BY DEF e, p
  <2> QED
    BY <1>1, <2>1, <2>2
<1>7. /\ e.seq \in Nat /\ auth.sequence \in Nat /\ p.seq \in Nat /\ Len(p.queue) \in Nat
      /\ Len(q.queue) <= Capacity /\ Flight(q, {}) \in SUBSET Events
  <2>1. e.seq \in Nat /\ auth.sequence \in Nat /\ p.seq \in Nat
    BY <1>1, <1>6 DEF Events, Authorities, Platforms
  <2>2. Flight(q, {}) \in SUBSET Events /\ Len(p.queue) \in Nat
    BY <1>1, <1>5, FlightEvents
  <2>3. Len(q.queue) <= Capacity
    BY <1>1, <1>6, <2>2, CapacityAssumption
  <2> QED
    BY <2>1, <2>2, <2>3
<1>8. \A f \in Flight(p, {}) : f = e \/ f \in Flight(q, {})
  BY <1>6 DEF Flight
<1>9. ControlTypeOK' /\ JobInv' /\ auth'.sequence <= q.seq /\ Orderly(q, job'.ev)
      /\ (~q.lagged => Tells(q, job'.ev)) /\ Known(auth', job'.at, q, job'.ev)
  <2>1. CASE e.seq <= auth.sequence
    <3>1. UNCHANGED <<auth, job>>
      BY <1>1, <2>1 DEF HandleEvent
    <3>2. ControlTypeOK'
      BY <1>1, <1>5, <3>1 DEF Control, ControlTypeOK, q
    <3>3. JobInv'
      BY <1>1, <3>1 DEF Control, JobInv
    <3>4. Known(auth, job.at, q, {})
      <4> SUFFICES ASSUME auth.state # "unknown", job.at # "init",
                          \A f \in Flight(q, {}) : Work(f) => f.seq <= auth.sequence
                   PROVE  q.asleep <=> auth.state = "sleeping"
        BY DEF Known
      <4>1. \A f \in Flight(p, {}) : Work(f) => f.seq <= auth.sequence
        BY <1>8, <2>1
      <4> QED
        BY <1>1, <1>4, <4>1 DEF Known
    <3> QED
      BY <1>1, <1>4, <1>6, <3>1, <3>2, <3>3, <3>4
  <2>2. CASE e.seq > auth.sequence + 1
    <3>1. Recover({e}) /\ {e} \in Kepts
      BY <1>1, <1>6, <1>7, <2>2 DEF HandleEvent, Kepts
    <3>2. /\ auth' \in Authorities /\ auth'.sequence = auth.sequence /\ auth'.state = "unknown"
          /\ job' \in Jobs /\ job'.ev = {e} /\ JobInv'
      BY <1>1, <3>1, RecoverMoves
    <3>3. ControlTypeOK'
      BY <1>1, <1>5, <3>2 DEF Control, ControlTypeOK, q
    <3>4. Tells(q, {e})
      BY <1>1, <1>4, <1>6 DEF Tells, Says
    <3>5. Known(auth', job'.at, q, job'.ev)
      BY <3>2 DEF Known
    <3> QED
      BY <1>1, <1>4, <1>6, <3>2, <3>3, <3>4, <3>5
  <2>3. CASE e.seq = auth.sequence + 1
    <3>1. Apply(e)
      BY <1>1, <1>7, <2>3 DEF HandleEvent
    <3>2. /\ auth' \in Authorities /\ auth'.sequence = e.seq
          /\ job' \in Jobs /\ job'.ev = {} /\ JobInv'
          /\ \/ e.kind = "network" /\ auth'.state = auth.state
             \/ e.kind = "sleep" /\ auth'.state = "sleeping"
             \/ e.kind = "wake" /\ auth'.state = "awake"
      BY <1>1, <1>6, <3>1, ApplyMoves
    <3>3. ControlTypeOK'
      BY <1>1, <1>5, <3>2 DEF Control, ControlTypeOK, q
    <3>4. Known(auth', job'.at, q, {})
      <4> SUFFICES ASSUME auth'.state # "unknown",
                          \A f \in Flight(q, {}) : Work(f) => f.seq <= e.seq
                   PROVE  q.asleep <=> auth'.state = "sleeping"
        BY <3>2 DEF Known
      <4>1. CASE e.kind = "network"
        <5>1. \A f \in Flight(q, {}) : Work(f) => f.seq <= auth.sequence
          <6> SUFFICES ASSUME NEW f \in Flight(q, {}), Work(f) PROVE f.seq <= auth.sequence
            OBVIOUS
          <6>1. f.seq \in Nat /\ f.seq <= e.seq /\ f.seq # e.seq
            BY <1>6, <1>7 DEF Before, Events
          <6> QED
            BY <1>7, <2>3, <6>1
        <5>2. ~Work(e)
          BY <4>1 DEF Work
        <5>3. \A f \in Flight(p, {}) : Work(f) => f.seq <= auth.sequence
          BY <1>8, <5>1, <5>2
        <5> QED
          BY <1>1, <1>4, <3>2, <4>1, <5>3 DEF Known
      <4>2. CASE e.kind # "network"
        <5>1. \A f \in Flight(p, {}) : Work(f) => f.seq <= e.seq
          BY <1>7, <1>8
        <5>2. e \in Flight(p, {}) /\ Work(e)
          BY <1>6, <4>2 DEF Flight, Work
        <5>3. p.asleep <=> e.kind = "sleep"
          BY <1>1, <5>1, <5>2 DEF Tells, Says
        <5> QED
          BY <1>4, <3>2, <4>2, <5>3
      <4> QED
        BY <4>1, <4>2
    <3> QED
      BY <1>1, <1>4, <1>6, <3>2, <3>3, <3>4
  <2> QED
    BY <1>7, <2>1, <2>2, <2>3
<1>10. EventInv'
  BY <1>6, <1>7, <1>9 DEF EventInv, q
<1> QED
  BY <1>9, <1>10 DEF Control

\* RecvError::Lagged: whatever was lost, the authority no longer claims to know.
LEMMA TakeLagHolds ==
  ASSUME Control, TakeLag
  PROVE  Control'
<1>1. /\ plat \in Platforms /\ plat' = [plat EXCEPT !.lagged = FALSE] /\ Recover({})
      /\ UNCHANGED <<host, run, status, seen, cap>> /\ job.ev = {}
  BY DEF Control, ControlTypeOK, TakeLag, JobInv, Kept
<1>2. /\ plat' \in Platforms /\ plat'.seq = plat.seq /\ plat'.asleep = plat.asleep
      /\ plat'.numbered = plat.numbered /\ plat'.queue = plat.queue
  BY <1>1 DEF Platforms
<1>3. /\ auth' \in Authorities /\ auth'.sequence = auth.sequence /\ auth'.state = "unknown"
      /\ job' \in Jobs /\ job'.ev = {} /\ JobInv'
  BY <1>1, JobFields, RecoverMoves
<1>4. EventInv'
  BY <1>1, <1>2, <1>3 DEF Control, EventInv, Orderly, Tells, Says, Known, Flight
<1> QED
  BY <1>1, <1>2, <1>3, <1>4 DEF Control, ControlTypeOK

\* handle_event_stream_closed.
LEMMA TakeClosedHolds ==
  ASSUME Control, TakeClosed
  PROVE  Control'
<1>1. /\ auth \in Authorities /\ host.rt \in Nat /\ job.at = "loop" /\ job.ev = {}
      /\ UNCHANGED <<plat, host, run, status, seen, cap>>
      /\ auth' = [auth EXCEPT !.state = "unknown", !.recovery = "closed"]
  BY DEF Control, ControlTypeOK, TakeClosed, Unknown, JobInv, Kept, Hosts
<1>2. job' = [at |-> "pause", then |-> "loop", rt |-> host.rt, ev |-> {}]
  BY JobFields DEF TakeClosed
<1>3. /\ auth' \in Authorities /\ auth'.sequence = auth.sequence
      /\ auth'.state = "unknown" /\ auth'.recovery = "closed"
  BY <1>1 DEF Authorities, States, Recoveries
<1>4. job' \in Jobs /\ job'.ev = {}
  BY <1>1, <1>2, JobFields DEF Places
<1>5. JobInv'
  BY <1>1, <1>2, <1>3 DEF JobInv, Kept, Course, Observing, Quiet
<1> QED
  BY <1>1, <1>3, <1>4, <1>5, StepStays DEF Steps, Control, ControlTypeOK

\* A part of the work ends: nothing is being observed, and a pause was made.
LEMMA EndsHolds ==
  ASSUME Control, UNCHANGED <<auth, plat, host, status, seen>>, cap' \in Captures,
         run' \in Sources, run'.active => run.active, job' = Ended(job) \/ job' = Loop,
         job.at # "init", ~Observing(job),
         job.at = "pause" /\ job.rt = host.rt => ~run'.active
  PROVE  Control'
<1>1. /\ job \in Jobs /\ Loop \in Jobs /\ Loop.ev = {} /\ Loop.at = "loop"
  BY JobFields DEF Control, ControlTypeOK, Places
<1>2. /\ Ended(job) \in Jobs /\ Ended(job).ev = job.ev /\ Ended(job).at \in {"loop", "event"}
      /\ Ended(job).at = "loop" => job.ev = {}
  BY <1>1, EndedFields
<1>3. /\ job' \in Jobs
      /\ job'.ev = job.ev \/ job'.ev = {}
      /\ job'.at \in {"loop", "event"} /\ (job'.at = "loop" => job'.ev = {})
  BY <1>1, <1>2
<1>4. auth.recovery # "observing"
  BY DEF Control, JobInv, Course
<1>5. JobInv'
  BY <1>3, <1>4 DEF Control, JobInv, Kept, Course, Observing, Quiet
<1> QED
  BY <1>3, <1>5, StepStays DEF Steps, Control, ControlTypeOK

\* Another place of the work, with the authority as it is.
LEMMA MovesHolds ==
  ASSUME Control, UNCHANGED <<auth, plat, host, status, seen, cap>>,
         run' \in Sources, job' \in Jobs, job'.ev = job.ev \/ job'.ev = {},
         job.at # "init", job'.at \notin {"init", "loop"}, Course(auth, job'),
         Quiet(auth, job', host, run')
  PROVE  Control'
<1>1. JobInv'
  BY DEF Control, JobInv, Kept
<1> QED
  BY <1>1, StepStays DEF Steps, Control, ControlTypeOK

\* periodic_audit begins.
LEMMA TickHolds ==
  ASSUME Control, Tick
  PROVE  Control'
<1>1. /\ job.at = "loop" /\ host.rt \in Nat /\ run \in Sources /\ auth.state = "awake"
      /\ UNCHANGED <<auth, plat, host, run, status, seen, cap>>
  BY DEF Control, ControlTypeOK, Tick, Hosts
<1>2. job' = [at |-> "audit", then |-> "loop", rt |-> host.rt, ev |-> {}]
  BY JobFields DEF Tick
<1>3. job' \in Jobs /\ job'.ev = {} /\ job'.at = "audit"
  BY <1>1, <1>2, JobFields DEF Places
<1>4. Course(auth, job') /\ Quiet(auth, job', host, run')
  BY <1>1, <1>3 DEF Control, JobInv, Course, Observing, Quiet
<1> QED
  BY <1>1, <1>3, <1>4, MovesHolds

\* observe_sleep_state after a gap: the observation is taken when it is news.
LEMMA ObservedHolds ==
  ASSUME Control, NEW ok \in BOOLEAN, Observed(ok)
  PROVE  Control'
<1>1. /\ auth \in Authorities /\ plat \in Platforms /\ job \in Jobs /\ job.at = "observe"
      /\ plat.seq \in Nat /\ plat.asleep \in BOOLEAN /\ job.ev \in Kepts
      /\ UNCHANGED <<plat, host, run, status, seen, cap>>
      /\ auth.state # "awake" /\ run.active => host.changed
  BY DEF Control, ControlTypeOK, Observed, Platforms, Jobs, JobInv, Quiet
<1>2. /\ Ended(job) \in Jobs /\ Ended(job).ev = job.ev /\ Ended(job).at \in {"loop", "event"}
      /\ Ended(job).at = "loop" => job.ev = {}
  BY <1>1, EndedFields
<1>3. CASE ~ok \/ plat.seq <= auth.sequence
  <2> DEFINE rec == IF ok THEN "stale" ELSE "unavailable"
  <2>1. auth' = [auth EXCEPT !.recovery = rec] /\ job' = Ended(job)
    BY <1>3 DEF Observed
  <2>2. rec \in Recoveries /\ rec # "current" /\ rec # "observing"
    BY DEF Recoveries
  <2> HIDE DEF rec
  <2>3. /\ auth' \in Authorities /\ auth'.sequence = auth.sequence /\ auth'.state = auth.state
        /\ auth'.recovery = rec
    BY <1>1, <2>1, <2>2 DEF Authorities
  <2>4. JobInv'
    BY <1>1, <1>2, <2>1, <2>2, <2>3 DEF Control, JobInv, Kept, Course, Observing, Quiet
  <2>5. ControlTypeOK'
    BY <1>1, <1>2, <2>1, <2>3 DEF Control, ControlTypeOK
  <2>6. EventInv'
    BY <1>1, <1>2, <2>1, <2>3 DEF Control, EventInv, Known
  <2> QED
    BY <2>4, <2>5, <2>6 DEF Control
<1>4. CASE ~(~ok \/ plat.seq <= auth.sequence)
  <2>1. /\ auth' = [sequence |-> plat.seq, recovery |-> "current",
                    state |-> IF plat.asleep THEN "sleeping" ELSE "awake"]
        /\ job' = IF plat.asleep THEN Ended(job) ELSE [Rebuild(FALSE) EXCEPT !.ev = job.ev]
    BY <1>4 DEF Observed
  <2>2. /\ auth' \in Authorities /\ auth'.sequence = plat.seq /\ auth'.recovery = "current"
        /\ auth'.state = IF plat.asleep THEN "sleeping" ELSE "awake"
    BY <1>1, <2>1 DEF Authorities, States, Recoveries
  <2> DEFINE j == [at |-> "rebuild", then |-> "core", rt |-> 0, ev |-> job.ev]
  <2>3. job' = IF plat.asleep THEN Ended(job) ELSE j
    <3> DEFINE b == Rebuild(FALSE)
    <3>1. b = [at |-> "rebuild", then |-> "core", rt |-> 0, ev |-> {}]
      BY RebuildFields
    <3>2. job' = IF plat.asleep THEN Ended(job) ELSE [b EXCEPT !.ev = job.ev]
      BY <2>1
    <3> HIDE DEF b
    <3>3. [b EXCEPT !.ev = job.ev] = j
      BY <3>1
    <3> QED
      BY <3>2, <3>3
  <2>4. j \in Jobs /\ j.ev = job.ev /\ j.at = "rebuild"
    BY <1>1, JobFields DEF Places
  <2> HIDE DEF j
  <2>5. /\ job' \in Jobs /\ job'.ev = job.ev /\ job'.at \in {"loop", "event", "rebuild"}
        /\ job'.at = "loop" => job'.ev = {}
    BY <1>2, <2>3, <2>4
  <2>6. \A e \in job.ev : e.seq <= plat.seq
    BY DEF Control, EventInv, Orderly, Flight
  <2>7. auth'.state # "awake" /\ run.active => host.changed
    BY <1>1, <1>4, <2>2 DEF Control, JobInv, Quiet, Course, Observing
  <2>8. JobInv'
    BY <1>1, <2>2, <2>5, <2>6, <2>7 DEF JobInv, Kept, Course, Observing, Quiet
  <2> QED
    BY <1>1, <2>2, <2>5, <2>8, StepSees DEF Steps, Control, ControlTypeOK
<1> QED
  BY <1>3, <1>4

\* The event that was kept over a gap: it is covered, or it is applied by an
\* authority that does not know, and then tells the truth unless a later one was lost.
LEMMA AfterGapHolds ==
  ASSUME Control, AfterGap
  PROVE  Control'
<1>1. /\ job.at = "event" /\ UNCHANGED <<plat, host, run, status, seen, cap>>
      /\ plat \in Platforms /\ job.ev \in SUBSET Events /\ cap \in Captures /\ run \in Sources
  BY DEF Control, ControlTypeOK, AfterGap, Jobs, Kepts
<1>2. PICK e \in job.ev : IF e.seq <= auth.sequence
                          THEN job' = Loop /\ UNCHANGED <<auth, recent, moved>> ELSE Apply(e)
  BY DEF AfterGap
<1>3. CASE e.seq <= auth.sequence
  BY <1>1, <1>2, <1>3, EndsHolds DEF Observing
<1>4. CASE ~(e.seq <= auth.sequence)
  <2>1. Apply(e) /\ e \in Events
    BY <1>1, <1>2, <1>4
  <2>2. auth.state = "unknown"
    BY <1>2, <1>4 DEF Control, JobInv, Kept
  <2>3. /\ auth' \in Authorities /\ auth'.sequence = e.seq
        /\ job' \in Jobs /\ job'.ev = {} /\ JobInv'
        /\ \/ e.kind = "network" /\ auth'.state = auth.state
           \/ e.kind = "sleep" /\ auth'.state = "sleeping"
           \/ e.kind = "wake" /\ auth'.state = "awake"
    BY <1>1, <2>1, ApplyMoves
  <2>4. Orderly(plat, {}) /\ Tells(plat, {}) /\ e.seq <= plat.seq /\ job.ev = {e}
    <3>1. Orderly(plat, job.ev) /\ Tells(plat, {})
      BY DEF Control, EventInv
    <3> DEFINE p == plat
               ev == job.ev
    <3>2. p \in Platforms /\ ev \in SUBSET Events /\ Orderly(p, ev)
      BY <1>1, <3>1
    <3> HIDE DEF p, ev
    <3>3. Orderly(p, {})
      BY <3>2, DropKept
    <3>4. e.seq <= plat.seq /\ job.ev = {e}
      BY <1>2, <3>1 DEF Orderly, Flight
    <3> QED
      BY <3>1, <3>3, <3>4 DEF p
  <2>5. Known(auth', job'.at, plat, {})
    <3> SUFFICES ASSUME auth'.state # "unknown", ~plat.lagged,
                        \A f \in Flight(plat, {}) : Work(f) => f.seq <= e.seq
                 PROVE  plat.asleep <=> auth'.state = "sleeping"
      BY <2>3 DEF Known
    <3>1. e.kind # "network" /\ Work(e)
      BY <2>2, <2>3 DEF Work
    <3>2. Tells(plat, {e})
      BY <2>4 DEF Control, EventInv
    <3>3. e \in Flight(plat, {e}) /\ e.seq \in Nat
      BY <2>1 DEF Flight, Events
    <3>4. \A f \in Flight(plat, {e}) : f \in Flight(plat, {}) \/ f = e
      BY DEF Flight
    <3>5. \A f \in Flight(plat, {e}) : Work(f) => f.seq <= e.seq
      BY <3>3, <3>4
    <3>6. plat.asleep <=> e.kind = "sleep"
      BY <3>1, <3>2, <3>3, <3>5 DEF Tells, Says
    <3> QED
      BY <2>3, <3>1, <3>6
  <2>6. EventInv'
    BY <1>1, <2>3, <2>4, <2>5 DEF Control, EventInv
  <2> QED
    BY <1>1, <2>3, <2>6 DEF Control, ControlTypeOK
<1> QED
  BY <1>3, <1>4

\* rebuild_current_authority: only while awake.
LEMMA RebuildHolds ==
  ASSUME Control, RebuildStep
  PROVE  Control'
<1>1. /\ job.at = "rebuild" /\ UNCHANGED <<auth, plat, host, run, status, seen, cap>>
      /\ job \in Jobs /\ job.ev \in Kepts /\ host.rt \in Nat /\ cap \in Captures /\ run \in Sources
      /\ auth.recovery # "observing"
      /\ auth.state = "unknown" => auth.recovery # "current"
  BY DEF Control, ControlTypeOK, RebuildStep, Jobs, Hosts, JobInv, Course, Observing
<1>2. CASE auth.state # "awake" \/ cap.busy
  <2>1. job' = Ended(job)
    BY <1>2 DEF RebuildStep
  <2> QED
    BY <1>1, <2>1, EndsHolds DEF Observing
<1>3. CASE ~(auth.state # "awake" \/ cap.busy)
  <2>1. job' = IF job.then = "pause" THEN Pause("core", job.ev)
               ELSE [job EXCEPT !.at = "core", !.rt = host.rt]
    BY <1>3 DEF RebuildStep
  <2>2. CASE job.then = "pause"
    <3>1. job' = [at |-> "pause", then |-> "core", rt |-> host.rt, ev |-> job.ev]
      BY <2>1, <2>2, JobFields
    <3>2. job' \in Jobs
      BY <1>1, <3>1, JobFields DEF Places
    <3>3. Course(auth, job') /\ Quiet(auth, job', host, run')
      BY <1>1, <1>3, <3>1 DEF Course, Observing, Quiet
    <3> QED
      BY <1>1, <3>1, <3>2, <3>3, MovesHolds
  <2>3. CASE job.then # "pause"
    <3>1. job' = [job EXCEPT !.at = "core", !.rt = host.rt] /\ "core" \in Places
      BY <2>1, <2>3 DEF Places
    <3>2. job' \in Jobs /\ job'.at = "core" /\ job'.ev = job.ev
      BY <1>1, <3>1 DEF Jobs
    <3>3. Course(auth, job') /\ Quiet(auth, job', host, run')
      BY <1>1, <1>3, <3>2 DEF Course, Observing, Quiet
    <3> QED
      BY <1>1, <3>2, <3>3, MovesHolds
  <2> QED
    BY <2>2, <2>3
<1> QED
  BY <1>2, <1>3

\* The pause is made, of the runtime it was meant for.
LEMMA PauseHolds ==
  ASSUME Control, PauseStep
  PROVE  Control'
<1>1. /\ job.at = "pause" /\ UNCHANGED <<auth, plat, host, status, seen, cap>>
      /\ job \in Jobs /\ job.ev \in Kepts /\ cap \in Captures /\ run \in Sources
      /\ run' = IF Mine THEN Paused ELSE run
      /\ job' = IF job.then = "loop" THEN Ended(job) ELSE [job EXCEPT !.at = job.then]
      /\ Course(auth, job) /\ Quiet(auth, job, host, run)
      /\ job.then \in {"loop", "observe", "audit", "core"}
  BY DEF Control, ControlTypeOK, PauseStep, Jobs, JobInv, Course
<1>2. run' \in Sources /\ (run'.active => run.active) /\ (job.rt = host.rt => ~run'.active)
  <2>1. CASE Mine
    <3> DEFINE no == FALSE
               n == run.gen + 1
    <3>1. run' = [run EXCEPT !.active = no, !.ready = no, !.gen = n]
      BY <1>1, <2>1 DEF Paused
    <3>2. no \in BOOLEAN /\ n \in Nat /\ ~no
      BY <1>1 DEF Sources
    <3> HIDE DEF no, n
    <3>3. run' \in Sources /\ run'.active = no
      BY <1>1, <3>1, <3>2 DEF Sources
    <3> QED
      BY <3>2, <3>3
  <2>2. CASE ~Mine
    BY <1>1, <2>2 DEF Mine
  <2> QED
    BY <2>1, <2>2
<1>3. CASE job.then = "loop"
  <2>1. job' = Ended(job) /\ ~Observing(job)
    BY <1>1, <1>3 DEF Observing
  <2> QED
    BY <1>1, <1>2, <2>1, EndsHolds
<1>4. CASE job.then # "loop"
  <2>1. job' = [job EXCEPT !.at = job.then] /\ job.then \in Places
    BY <1>1, <1>4 DEF Places
  <2>2. job' \in Jobs /\ job'.at = job.then /\ job'.then = job.then /\ job'.ev = job.ev
    BY <1>1, <2>1 DEF Jobs
  <2>3. Course(auth, job')
    BY <1>1, <1>4, <2>2 DEF Course, Observing
  <2>4. Quiet(auth, job', host, run')
    BY <1>1, <1>2 DEF Quiet
  <2> QED
    BY <1>1, <1>2, <1>4, <2>2, <2>3, <2>4, MovesHolds
<1> QED
  BY <1>3, <1>4

\* The Core is asked for, and a runtime that is still this one is resumed.
LEMMA CoreAndResumeHold ==
  ASSUME Control, CoreStep \/ ResumeStep
  PROVE  Control'
<1>1. /\ UNCHANGED <<auth, plat, host, status, seen, cap>> /\ job \in Jobs /\ run \in Sources
      /\ job.at \in {"core", "resume"} /\ Course(auth, job)
  BY DEF Control, ControlTypeOK, CoreStep, ResumeStep, JobInv
<1>2. auth.state = "awake"
  BY <1>1 DEF Course
<1>3. CASE CoreStep
  <2> DEFINE w == IF Mine /\ run.core THEN "resume" ELSE "audit"
  <2>1. job' = [job EXCEPT !.at = w, !.then = "restore"] /\ run' = run
    BY <1>3 DEF CoreStep
  <2>2. w \in {"resume", "audit"} /\ w \in Places /\ "restore" \in Places
    BY DEF Places
  <2> HIDE DEF w
  <2>3. job' \in Jobs /\ job'.at = w /\ job'.then = "restore" /\ job'.ev = job.ev
    BY <1>1, <2>1, <2>2 DEF Jobs
  <2>4. Course(auth, job') /\ Quiet(auth, job', host, run')
    BY <1>1, <1>2, <1>3, <2>2, <2>3 DEF Course, Observing, Quiet, CoreStep
  <2> QED
    BY <1>1, <2>1, <2>2, <2>3, <2>4, MovesHolds
<1>4. CASE ResumeStep
  <2> DEFINE yes == TRUE
  <2>1. /\ job' = [job EXCEPT !.at = job.then] /\ job.at = "resume"
        /\ run' = IF Mine THEN [run EXCEPT !.active = yes] ELSE run
    BY <1>4 DEF ResumeStep
  <2>2. job.then \in {"recent", "restore"} /\ job.then \in Places /\ yes \in BOOLEAN
    BY <1>1, <2>1 DEF Course, Places
  <2> HIDE DEF yes
  <2>3. job' \in Jobs /\ job'.at = job.then /\ job'.ev = job.ev
    BY <1>1, <2>1, <2>2 DEF Jobs
  <2>4. run' \in Sources
    BY <1>1, <2>1, <2>2 DEF Sources
  <2>5. Course(auth, job') /\ Quiet(auth, job', host, run')
    BY <1>1, <1>2, <2>1, <2>2, <2>3 DEF Course, Observing, Quiet
  <2> QED
    BY <1>1, <2>2, <2>3, <2>4, <2>5, MovesHolds
<1> QED
  BY <1>3, <1>4

\* The audit, the restored intent and the session that goes on end the work.
LEMMA LastStepsHold ==
  ASSUME Control, (\E b \in BOOLEAN : AuditStep(b) \/ RestoreStep(b)) \/ RecentStep
  PROVE  Control'
<1>1. /\ UNCHANGED <<auth, plat, host, run, status, seen>> /\ run \in Sources /\ cap \in Captures
      /\ job.at \in {"audit", "restore", "recent"} /\ (job' = Ended(job) \/ job' = Loop)
  BY DEF Control, ControlTypeOK, AuditStep, RestoreStep, RecentStep
<1>2. cap' \in Captures
  <2>1. ASSUME NEW b \in BOOLEAN, AuditStep(b) PROVE cap' \in Captures
    <3> DEFINE no == FALSE
    <3>1. (cap' = [cap EXCEPT !.on = no] \/ cap' = cap) /\ no \in BOOLEAN
      BY <2>1 DEF AuditStep
    <3> HIDE DEF no
    <3> QED
      BY <1>1, <3>1 DEF Captures
  <2>2. ASSUME NEW b \in BOOLEAN, RestoreStep(b) PROVE cap' \in Captures
    <3> DEFINE on == IF cap.busy THEN cap.on ELSE b /\ cap.sel /\ run.core
    <3>1. cap' = [cap EXCEPT !.on = on] /\ on \in BOOLEAN
      BY <1>1, <2>2 DEF RestoreStep, Captures, Sources
    <3> HIDE DEF on
    <3> QED
      BY <1>1, <3>1 DEF Captures
  <2>3. CASE RecentStep
    BY <1>1, <2>3 DEF RecentStep
  <2> QED
    BY <2>1, <2>2, <2>3
<1>3. ~Observing(job)
  BY <1>1 DEF Observing
<1> QED
  BY <1>1, <1>2, <1>3, EndsHolds

-----------------------------------------------------------------------------
(* The theorem.                                                             *)

\* The other actions leave the session alone, suspend it or stop it.
LEMMA LullActions ==
  ASSUME LifecycleTypeOK, TrafficInv,
         \/ CaptureBegins \/ (\E k \in Kinds : Numbered(k)) \/ (\E e \in plat.numbered : Sent(e))
         \/ Closes \/ (\E ok \in BOOLEAN : Initialize(ok) \/ Observed(ok))
         \/ TakeReplacement \/ TakeStatus \/ Tick \/ TakeEvent \/ TakeLag \/ TakeClosed
         \/ AfterGap \/ RebuildStep \/ CoreStep \/ ResumeStep
  PROVE  TrafficInv' /\ moved' \in Nat
<1>1. SameCounters
  <2>1. CASE ResumeStep
    BY <2>1 DEF ResumeStep, SameCounters, LifecycleTypeOK, Sources
  <2>2. CASE ~ResumeStep
    <3>1. UNCHANGED run
      BY <2>2 DEF CaptureBegins, Numbered, Sent, Closes, Initialize, Observed, TakeReplacement,
                  TakeStatus, Tick, TakeEvent, TakeLag, TakeClosed, AfterGap, RebuildStep, CoreStep
    <3> QED
      BY <3>1 DEF SameCounters
  <2> QED
    BY <2>1, <2>2
<1>2. cap'.on = cap.on
  <2>1. CASE CaptureBegins
    BY <2>1 DEF CaptureBegins, LifecycleTypeOK, Captures
  <2>2. CASE ~CaptureBegins
    <3>1. UNCHANGED cap
      BY <2>2 DEF Numbered, Sent, Closes, Initialize, Observed, TakeReplacement,
                  TakeStatus, Tick, TakeEvent, TakeLag, TakeClosed, AfterGap, RebuildStep, CoreStep,
                  ResumeStep
    <3> QED
      BY <3>1
  <2> QED
    BY <2>1, <2>2
<1>3. Lull
  <2>1. ASSUME NEW e, Apply(e) PROVE Lull
    BY <2>1 DEF Apply, Lull
  <2>2. ASSUME NEW k, Recover(k) PROVE Lull
    BY <2>2 DEF Recover, Lull
  <2>3. CASE \/ CaptureBegins \/ (\E k \in Kinds : Numbered(k)) \/ (\E e \in plat.numbered : Sent(e))
             \/ Closes \/ Tick \/ CoreStep \/ ResumeStep \/ (\E ok \in BOOLEAN : Observed(ok))
    BY <2>3 DEF CaptureBegins, Numbered, Sent, Closes, Tick, CoreStep, ResumeStep, Observed, Lull
  <2>4. CASE \E ok \in BOOLEAN : Initialize(ok)
    BY <2>4 DEF Initialize, Lull
  <2>5. CASE TakeReplacement
    BY <2>5 DEF TakeReplacement, Lull
  <2>6. CASE TakeStatus
    <3> DEFINE running == Head(status)
    <3>1. \/ UNCHANGED <<recent, moved>>
          \/ Traffic(IF running THEN Suspend(recent) ELSE recent)
          \/ Traffic(IF running THEN recent ELSE Suspend(recent))
      BY <2>6 DEF TakeStatus
    <3> HIDE DEF running
    <3> QED
      BY <3>1 DEF Lull
  <2>7. CASE TakeEvent
    BY <2>1, <2>2, <2>7 DEF TakeEvent, HandleEvent, Lull
  <2>8. CASE TakeLag
    BY <2>2, <2>8 DEF TakeLag
  <2>9. CASE TakeClosed
    BY <2>9 DEF TakeClosed, Lull
  <2>10. CASE AfterGap
    BY <2>1, <2>10 DEF AfterGap, Lull
  <2>11. CASE RebuildStep
    BY <2>11 DEF RebuildStep, Lull
  <2> QED
    BY <2>3, <2>4, <2>5, <2>6, <2>7, <2>8, <2>9, <2>10, <2>11
<1> QED
  BY <1>1, <1>2, <1>3, LullHolds

\* At the start no event is in flight, nothing is counted, and the authority is awake.
LEMMA LifecycleStarts ==
  ASSUME LifecycleInit
  PROVE  LifecycleInv
<1>1. PICK p \in Profiles : host = [rt |-> 1, profile |-> p, changed |-> FALSE]
  BY DEF LifecycleInit
<1>2. PICK core \in BOOLEAN : run = Source(core) /\ seen = core
  BY DEF LifecycleInit
<1>3. host \in Hosts /\ run \in Sources /\ seen \in BOOLEAN
  BY <1>1, <1>2 DEF Hosts, Source, Sources
<1>4. auth \in Authorities /\ auth.sequence = 0 /\ auth.state = "awake" /\ auth.recovery = "current"
  BY DEF LifecycleInit, Authorities, States, Recoveries
<1>5. plat \in Platforms /\ plat.numbered = {} /\ plat.queue = <<>> /\ plat.seq = 0
  BY DEF LifecycleInit, Platforms
<1>6. /\ job = [at |-> "init", then |-> "loop", rt |-> 0, ev |-> {}]
  BY JobFields DEF LifecycleInit
<1>7. job \in Jobs
  BY <1>6, JobFields DEF Places
<1>8. status \in Seq(BOOLEAN) /\ cap \in Captures /\ moved \in Nat
  BY DEF LifecycleInit, Captures
<1>9. recent \in Sessions /\ recent.phase = "idle"
  BY DEF LifecycleInit, IdleTraffic, Sessions, Phases, Owners, Generations
<1>10. LifecycleTypeOK
  BY <1>3, <1>4, <1>5, <1>7, <1>8, <1>9 DEF LifecycleTypeOK
<1>11. TrafficInv
  BY <1>9 DEF TrafficInv, Counted, ActiveIsCaptured
<1>12. Flight(plat, {}) = {} /\ Len(plat.queue) = 0
  BY <1>5 DEF Flight, Queued
<1>13. EventInv
  BY <1>4, <1>5, <1>6, <1>12, CapacityAssumption DEF EventInv, Orderly, Tells, Says, Known
<1>14. JobInv
  BY <1>4, <1>6 DEF JobInv, Kept, Course, Observing, Quiet
<1> QED
  BY <1>10, <1>11, <1>13, <1>14 DEF LifecycleInv

\* Every step keeps the invariant.
LEMMA LifecycleStep ==
  ASSUME LifecycleInv, [LifecycleNext]_lvars
  PROVE  LifecycleInv'
<1>1. LifecycleTypeOK /\ TrafficInv /\ Control
  BY DEF LifecycleInv, Control, ControlTypeOK, LifecycleTypeOK
<1>2. SUFFICES Control' /\ TrafficInv' /\ moved' \in Nat
  BY DEF LifecycleInv, Control, ControlTypeOK, LifecycleTypeOK, TrafficInv, Counted
<1>3. CASE CaptureBegins \/ CoreChanges \/ Transfers \/ Sampled
  BY <1>1, <1>3, AsideActions, LullActions, SourceCounts, SampledCounts
<1>4. ASSUME NEW a \in BOOLEAN, NEW ok \in BOOLEAN, CaptureEnds(a, ok)
      PROVE  Control' /\ TrafficInv' /\ moved' \in Nat
  BY <1>1, <1>4, AsideActions, CaptureEndsCounts
<1>5. ASSUME NEW k \in Kinds, Numbered(k)
      PROVE  Control' /\ TrafficInv' /\ moved' \in Nat
  BY <1>1, <1>5, NumberedHolds, LullActions
<1>6. ASSUME NEW e \in plat.numbered, Sent(e)
      PROVE  Control' /\ TrafficInv' /\ moved' \in Nat
  BY <1>1, <1>6, SentHolds, LullActions
<1>7. CASE Closes
  BY <1>1, <1>7, ClosesHolds, LullActions
<1>8. ASSUME NEW p \in Profiles, NEW core \in BOOLEAN, Replace(p, core)
      PROVE  Control' /\ TrafficInv' /\ moved' \in Nat
  BY <1>1, <1>8, AsideActions, ReplaceCounts
<1>9. ASSUME NEW ok \in BOOLEAN, Initialize(ok) \/ Observed(ok)
      PROVE  Control' /\ TrafficInv' /\ moved' \in Nat
  BY <1>1, <1>9, InitializeHolds, ObservedHolds, LullActions
<1>10. ASSUME NEW ok \in BOOLEAN, AuditStep(ok) \/ RestoreStep(ok)
       PROVE  Control' /\ TrafficInv' /\ moved' \in Nat
  BY <1>1, <1>10, LastStepsHold, AuditCounts, RestoreCounts
<1>11. CASE TakeReplacement \/ TakeStatus \/ Tick \/ TakeEvent \/ TakeLag \/ TakeClosed
  BY <1>1, <1>11, TakeReplacementHolds, TakeStatusHolds, TickHolds, TakeEventHolds, TakeLagHolds,
     TakeClosedHolds, LullActions
<1>12. CASE AfterGap \/ RebuildStep \/ PauseStep
  BY <1>1, <1>12, AfterGapHolds, RebuildHolds, PauseHolds, LullActions, SourceCounts
<1>13. CASE CoreStep \/ ResumeStep \/ RecentStep
  BY <1>1, <1>13, CoreAndResumeHold, LastStepsHold, LullActions, RecentCounts
<1>14. CASE UNCHANGED lvars
  <2>1. UNCHANGED <<auth, plat, host, run, status, seen, cap, recent, moved, job>>
    BY <1>14 DEF lvars
  <2>2. Control'
    BY <1>1, <2>1 DEF Control, ControlTypeOK, EventInv, JobInv
  <2>3. TrafficInv' /\ moved' \in Nat
    BY <1>1, <2>1 DEF TrafficInv, ActiveIsCaptured, LifecycleTypeOK
  <2> QED
    BY <2>2, <2>3
<1> QED
  BY <1>3, <1>4, <1>5, <1>6, <1>7, <1>8, <1>9, <1>10, <1>11, <1>12, <1>13, <1>14
     DEF LifecycleNext, Kinds

\* What the invariant says when the coordinator has nothing left to take.
LEMMA LifecycleInvImplies ==
  ASSUME LifecycleInv
  PROVE  LifecycleIsTrue
<1>1. AuthorityIsTrue
  <2> SUFFICES ASSUME Settled, plat.numbered = {}, auth.recovery # "closed"
               PROVE  \/ auth.state = IF plat.asleep THEN "sleeping" ELSE "awake"
                      \/ auth.state = "unknown" /\ auth.recovery \in {"stale", "unavailable"}
    BY DEF AuthorityIsTrue
  <2>1. /\ auth \in Authorities /\ auth.state \in States /\ auth.recovery \in Recoveries
        /\ plat.asleep \in BOOLEAN
    BY DEF LifecycleInv, LifecycleTypeOK, Authorities, Platforms
  <2>2. job.at = "loop" /\ plat.queue = <<>> /\ ~plat.lagged /\ job.ev = {}
    BY DEF Settled, LifecycleInv, JobInv, Kept
  <2>3. Flight(plat, job.ev) = {}
    BY <2>2 DEF Flight, Queued
  <2>4. auth.state # "unknown" => (plat.asleep <=> auth.state = "sleeping")
    BY <2>2, <2>3 DEF LifecycleInv, EventInv, Known
  <2>5. auth.state = "unknown" => auth.recovery \in {"stale", "unavailable"}
    BY <2>1, <2>2 DEF LifecycleInv, JobInv, Course, Observing, Recoveries
  <2> QED
    BY <2>1, <2>4, <2>5 DEF States
<1>2. QuietWhileAsleep
  BY DEF QuietWhileAsleep, Settled, LifecycleInv, JobInv, Quiet
<1>3. NeverOvercounts
  BY DEF NeverOvercounts, LifecycleInv, TrafficInv, Counted
<1>4. ActiveIsCaptured
  BY DEF LifecycleInv, TrafficInv
<1> QED
  BY <1>1, <1>2, <1>3, <1>4 DEF LifecycleIsTrue

\* The coordinator knows whether the Mac sleeps once it has taken every event, leaves
\* no runtime observing while it is not awake, and shows a session that counted no byte
\* twice and is active only while Capture is (lifecycle.rs, recent_traffic.rs).
THEOREM LifecycleHolds == LifecycleSpec => []LifecycleIsTrue
<1>1. LifecycleInit => LifecycleInv
  BY LifecycleStarts
<1>2. LifecycleInv /\ [LifecycleNext]_lvars => LifecycleInv'
  BY LifecycleStep
<1>3. LifecycleInv => LifecycleIsTrue
  BY LifecycleInvImplies
<1> QED
  BY <1>1, <1>2, <1>3, PTL DEF LifecycleSpec
=============================================================================
