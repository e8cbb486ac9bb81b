--------------------------- MODULE RecentTraffic ---------------------------
(***************************************************************************)
(* The recent-traffic session of the runtime                               *)
(* (crates/runtime/src/recent_traffic.rs) as operators on its state: a     *)
(* session counts bytes from a baseline of the Controller's counter and    *)
(* starts a new baseline whenever the source's generation changes or the   *)
(* counter goes back.  One direction stands for both; rates and the sample *)
(* window are left out.  A generation that is not known is {}.             *)
(***************************************************************************)
EXTENDS Naturals

IdleTraffic ==
    [phase |-> "idle", profile |-> {}, session |-> 0, total |-> 0,
     gen |-> {}, seq |-> 0, base |-> 0, offset |-> 0]

(* reset_source_generation *)
ResetSource(r) == [r EXCEPT !.gen = {}, !.seq = 0, !.base = 0, !.offset = r.total]

(* start_session *)
StartSession(r, p) ==
    ResetSource([r EXCEPT !.phase = "active", !.profile = {p}, !.total = 0,
                          !.session = @ + 1])

(* observe: an observation has a generation, a sequence, a profile, bytes.  *)
Fresh(r, o) == r.gen # {o.gen}
Decreased(r, o) == o.bytes < r.base \/ o.bytes < r.base + (r.total - r.offset)
Outdated(r, o) == \E g \in r.gen : o.gen < g \/ (o.gen = g /\ o.seq <= r.seq)
Observe(r, o) ==
    IF r.phase # "active" \/ r.profile # {o.profile} \/ Outdated(r, o) THEN r
    ELSE LET reset == Fresh(r, o) \/ Decreased(r, o)
             offset == IF reset THEN r.total ELSE r.offset
             base == IF reset THEN o.bytes ELSE r.base
             next == offset + (IF o.bytes < base THEN 0 ELSE o.bytes - base)
         IN [r EXCEPT !.gen = {o.gen}, !.seq = o.seq, !.base = base, !.offset = offset,
                      !.total = IF next > @ THEN next ELSE @]

(* capture_applied; obs is {} or one observation.                           *)
CaptureApplied(r, p, obs) ==
    LET s == IF r.phase = "idle" \/ r.profile # {p} THEN StartSession(r, p)
             ELSE IF r.phase = "suspended" THEN ResetSource([r EXCEPT !.phase = "active"])
             ELSE r
    IN IF obs = {} THEN s ELSE Observe(s, CHOOSE o \in obs : TRUE)

Suspend(r) == IF r.phase = "active" THEN [r EXCEPT !.phase = "suspended"] ELSE r

(* stop and reset_idle *)
StopTraffic(r) ==
    IF r.phase = "idle" THEN r
    ELSE ResetSource([r EXCEPT !.phase = "idle", !.profile = {}, !.total = 0])
=============================================================================
