--------------------------- MODULE ServiceProbes ---------------------------
(***************************************************************************)
(* The service monitors of the desktop bridge                              *)
(* (crates/desktop-bridge/src/service_probes.rs): a list of monitors that  *)
(* clients edit, a loop that probes them in a random but fixed order       *)
(* spread over one interval, immediate tests, a backoff per host, and the  *)
(* revision that keeps a late answer from being shown for another target.  *)
(* A URL is a pair <<host, path>>; an order is any permutation; time is    *)
(* the passing of a backoff, of an offset within the cycle or of the cycle.*)
(***************************************************************************)
EXTENDS Naturals, Sequences, FiniteSets

CONSTANTS
    Clients,        \* RPC callers
    Names,          \* monitor identifiers (the default ones and fresh ones)
    Hosts, Paths,   \* what URLs are made of
    Defaults,       \* default_service_monitors: a sequence of monitors
    Stored,         \* monitor lists the state file may hold at the start
    MaxMonitors,    \* MAX_MONITORS
    MaxCommands,    \* bound: edits and tests given
    MaxFaults,      \* bound: failing saves and probes
    MaxCycles,      \* bound: cycles the loop runs
    MaxRestarts     \* bound: restarts of the process

Urls == Hosts \X Paths
OffInterval == "off"        \* DISABLED_INTERVAL_SECONDS
OnInterval == "on"          \* DEFAULT_INTERVAL_SECONDS or another allowed one

VARIABLES
    cfg,        \* ProbeState: interval, order, revision, results, services
    file,       \* the persisted interval and services
    token,      \* the live revision_cancel token; smaller ones are cancelled
    hosts,      \* host_states
    wake,       \* the permit of Inner.wake
    started,    \* the permit of Inner.core_started
    loop,       \* the run task and the cycle it is in
    client,     \* what every client is doing
    closed,     \* Inner.cancel
    used        \* commands, faults and restarts spent

bvars == <<cfg, file, token, hosts, wake, started, loop, client, closed, used>>

Monitor(id, url) == [id |-> id, url |-> url]
NoResult == [url |-> <<>>, status |-> "pending"]        \* pending_result
Index(s) == 1 .. Len(s)
Has(services, id) == \E i \in Index(services) : services[i].id = id
Of(services, id) == services[CHOOSE i \in Index(services) : services[i].id = id]
Cancelled(t) == closed \/ t < token

(* randomized_probe_order, probe_order_from_samples: any permutation. *)
Orders(n) == {o \in [1 .. n -> 1 .. n] : \A i, j \in 1 .. n : o[i] = o[j] => i = j}

(* retained_results: a result survives an edit that keeps identity and URL. *)
Retained(before, results, after) ==
    [id \in {after[i].id : i \in Index(after)} |->
        IF Has(before, id) /\ Of(before, id).url = Of(after, id).url
        THEN results[id] ELSE NoResult]

Pending(services) == [id \in {services[i].id : i \in Index(services)} |-> NoResult]

(* from_parts over load_state: the stored list cut to MAX_MONITORS. *)
Truncated(services) == SubSeq(services, 1, IF Len(services) < MaxMonitors
                                           THEN Len(services) ELSE MaxMonitors)
Opened(f, order) ==
    [interval |-> f.interval, order |-> order, revision |-> 0,
     results |-> Pending(Truncated(f.services)), services |-> Truncated(f.services)]

NoHosts == [h \in {} |-> [active |-> 0, until |-> "none"]]
FreshHost == [active |-> 0, until |-> "none"]
NoCycle == [at |-> "select", revision |-> 0, token |-> 0, probes |-> <<>>]
Idle == [at |-> "idle", id |-> "none", url |-> <<>>, revision |-> 0, token |-> 0]

ProbesInit ==
    /\ \E s \in Stored, i \in {OffInterval, OnInterval} :
          /\ file = [interval |-> i, services |-> s]
          /\ \E o \in Orders(Len(Truncated(s))) : cfg = Opened(file, o)
    /\ token = 0 /\ hosts = NoHosts /\ wake = FALSE /\ started = FALSE
    /\ loop = NoCycle /\ client = [c \in Clients |-> Idle] /\ closed = FALSE
    /\ used = [commands |-> 0, cycles |-> 0, faults |-> 0, restarts |-> 0]

Spend(what, max) == used[what] < max /\ used' = [used EXCEPT ![what] = @ + 1]

-----------------------------------------------------------------------------
(* Edits: validate, clone, change, save and install under the state lock;   *)
(* changed() follows after the lock is dropped.                             *)

Install(c, services, interval, results) ==
    /\ \E o \in Orders(Len(services)) :
          cfg' = [interval |-> interval, order |-> o, revision |-> cfg.revision + 1,
                  results |-> results, services |-> services]
    /\ file' = [interval |-> interval, services |-> services]
    /\ client' = [client EXCEPT ![c].at = "changed"]
    /\ UNCHANGED <<token, hosts, wake, started, loop, closed>>

Edits(c) == client[c].at = "idle" /\ ~closed

(* upsert with an identifier. *)
Update(c, id, url) ==
    /\ Edits(c) /\ Spend("commands", MaxCommands) /\ Has(cfg.services, id)
    /\ LET next == [i \in Index(cfg.services) |->
                       IF cfg.services[i].id = id THEN Monitor(id, url) ELSE cfg.services[i]]
       IN Install(c, next, cfg.interval, Retained(cfg.services, cfg.results, next))

(* upsert without one: a fresh identifier, refused at the limit. *)
Add(c, id, url) ==
    /\ Edits(c) /\ Spend("commands", MaxCommands)
    /\ ~Has(cfg.services, id) /\ ~Has(Defaults, id) /\ Len(cfg.services) < MaxMonitors
    /\ LET next == Append(cfg.services, Monitor(id, url))
       IN Install(c, next, cfg.interval, Retained(cfg.services, cfg.results, next))

(* retain over distinct identifiers: the one that has this one goes. *)
Without(services, k) ==
    [i \in 1 .. Len(services) - 1 |-> services[IF i < k THEN i ELSE i + 1]]

Remove(c, id) ==
    /\ Edits(c) /\ Spend("commands", MaxCommands)
    /\ \E k \in Index(cfg.services) :
          /\ cfg.services[k].id = id
          /\ LET next == Without(cfg.services, k)
             IN Install(c, next, cfg.interval,
                        [m \in {next[i].id : i \in Index(next)} |-> cfg.results[m]])

RestoreDefaults(c) ==
    /\ Edits(c) /\ Spend("commands", MaxCommands)
    /\ Install(c, Defaults, OnInterval, Retained(cfg.services, cfg.results, Defaults))

SetInterval(c, interval) ==
    /\ Edits(c) /\ Spend("commands", MaxCommands)
    /\ Install(c, cfg.services, interval, cfg.results)

(* persist_locked fails: the clone is dropped and the edit answers Io.      *)
SaveFails(c) ==
    /\ Edits(c) /\ Spend("faults", MaxFaults)
    /\ UNCHANGED <<cfg, file, token, hosts, wake, started, loop, client, closed>>

(* changed: cancel the token, make a new one, wake the loop.                *)
Changed(c) ==
    /\ client[c].at = "changed"
    /\ token' = token + 1 /\ wake' = TRUE
    /\ client' = [client EXCEPT ![c] = Idle]
    /\ UNCHANGED <<cfg, file, hosts, started, loop, closed, used>>

-----------------------------------------------------------------------------
(* probe_monitor over host_states.                                          *)

Blocked(h) == h \in DOMAIN hosts /\ hosts[h].until = "future"

(* The table at its limit forgets one host that is neither busy nor backing off. *)
Evicted(h) ==
    LET idle == {k \in DOMAIN hosts : hosts[k].active = 0 /\ hosts[k].until = "none"} IN
    IF h \notin DOMAIN hosts /\ Cardinality(DOMAIN hosts) >= MaxMonitors /\ idle # {}
    THEN {DOMAIN hosts \ {k} : k \in idle} ELSE {DOMAIN hosts}

(* The first lock of probe_monitor: the request is counted on its host.     *)
Admit(h) ==
    \E keep \in Evicted(h) :
        hosts' = [k \in keep \cup {h} |->
                    LET s == IF k \in DOMAIN hosts THEN hosts[k] ELSE FreshHost
                    IN IF k = h THEN [s EXCEPT !.active = @ + 1] ELSE s]

(* update_host_backoff; failure_delay and Retry-After are some later time.  *)
Backoff(s, status) ==
    IF status = "healthy" THEN [s EXCEPT !.until = "none"]
    ELSE [s EXCEPT !.until = "future"]

(* The second lock: the request leaves, a finished one moves the backoff.   *)
Settle(h, status) ==
    LET s == IF h \in DOMAIN hosts THEN hosts[h] ELSE FreshHost
        out == [s EXCEPT !.active = IF @ = 0 THEN 0 ELSE @ - 1]
        next == IF status = "cancelled" THEN out ELSE Backoff(out, status)
    IN hosts' = IF next.active = 0 /\ next.until = "none"
                THEN [k \in DOMAIN hosts \ {h} |-> hosts[k]]
                ELSE [k \in DOMAIN hosts \cup {h} |-> IF k = h THEN next ELSE hosts[k]]

(* What transport.execute may answer a request with token t.                *)
Answer(t, status) ==
    \/ status = "cancelled" /\ Cancelled(t) /\ UNCHANGED used
    \/ status = "healthy" /\ UNCHANGED used
    \/ status = "error" /\ Spend("faults", MaxFaults)

(* A deadline passes. *)
BackoffEnds(h) ==
    /\ Blocked(h) /\ hosts' = [hosts EXCEPT ![h].until = "past"]
    /\ UNCHANGED <<cfg, file, token, wake, started, loop, client, closed, used>>

(* A result is stored while the revision it was asked under is current.     *)
MutantStore(revision, id, url, status) ==
    cfg' = IF id \in DOMAIN cfg.results
           THEN [cfg EXCEPT !.results[id] = [url |-> url, status |-> status]] ELSE cfg
Store(revision, id, url, status) ==
    cfg' = IF cfg.revision = revision /\ id \in DOMAIN cfg.results
           THEN [cfg EXCEPT !.results[id] = [url |-> url, status |-> status]] ELSE cfg

-----------------------------------------------------------------------------
(* test: an immediate probe.                                                *)

TestBegins(c, id) ==
    /\ Edits(c) /\ Spend("commands", MaxCommands) /\ Has(cfg.services, id)
    /\ LET url == Of(cfg.services, id).url IN
       /\ ~Blocked(url[1]) /\ Admit(url[1])
       /\ client' = [client EXCEPT ![c] = [at |-> "test", id |-> id, url |-> url,
                                           revision |-> cfg.revision, token |-> token]]
    /\ UNCHANGED <<cfg, file, token, wake, started, loop, closed>>

TestEnds(c, status) ==
    /\ client[c].at = "test" /\ Answer(client[c].token, status)
    /\ Settle(client[c].url[1], status)
    /\ IF status = "cancelled" THEN UNCHANGED cfg
       ELSE Store(client[c].revision, client[c].id, client[c].url, status)
    /\ client' = [client EXCEPT ![c] = Idle]
    /\ UNCHANGED <<file, token, wake, started, loop, closed>>

-----------------------------------------------------------------------------
(* run and run_cycle.                                                       *)

BeginCycle ==
    /\ Spend("cycles", MaxCycles)
    /\ loop' = [at |-> "cycle", revision |-> cfg.revision, token |-> token,
             probes |-> [i \in Index(cfg.order) |->
                            [at |-> "sleep", id |-> cfg.services[cfg.order[i]].id,
                             url |-> cfg.services[cfg.order[i]].url]]]

(* The select of run: an enabled interval runs a cycle at once, a disabled  *)
(* one waits for an edit or for a Core start.                               *)
Select ==
    /\ loop.at = "select" /\ ~closed
    /\ \/ cfg.interval # OffInterval /\ BeginCycle /\ UNCHANGED <<wake, started>>
       \/ cfg.interval = OffInterval /\ wake /\ wake' = FALSE /\ UNCHANGED <<loop, started, used>>
       \/ cfg.interval = OffInterval /\ started /\ started' = FALSE
          /\ BeginCycle /\ UNCHANGED wake
    /\ UNCHANGED <<cfg, file, token, hosts, client, closed>>

(* test_after_core_start *)
CoreStarts ==
    /\ ~closed /\ ~started /\ cfg.interval = OffInterval /\ started' = TRUE
    /\ UNCHANGED <<cfg, file, token, hosts, wake, loop, client, closed, used>>

Probe(i) == loop.probes[i]
Ends(i) == [loop EXCEPT !.probes[i].at = "done"]

(* The stream's loop ends at the first probe that answers None; the probes  *)
(* still under way are dropped with it.                                     *)
Skips(i) == [loop EXCEPT !.at = "wait", !.probes[i].at = "none"]

(* A probe's offset passes: in order, then the host's backoff is read.      *)
ProbeStarts(i) ==
    /\ loop.at = "cycle" /\ i \in DOMAIN loop.probes /\ Probe(i).at = "sleep"
    /\ \A j \in 1 .. i - 1 : Probe(j).at # "sleep"
    /\ IF Cancelled(loop.token) \/ Blocked(Probe(i).url[1])
       THEN loop' = Skips(i) /\ UNCHANGED hosts
       ELSE Admit(Probe(i).url[1]) /\ loop' = [loop EXCEPT !.probes[i].at = "request"]
    /\ UNCHANGED <<cfg, file, token, wake, started, client, closed, used>>

ProbeEnds(i, status) ==
    /\ loop.at = "cycle" /\ i \in DOMAIN loop.probes /\ Probe(i).at = "request"
    /\ Answer(loop.token, status)
    /\ Settle(Probe(i).url[1], status)
    /\ IF status = "cancelled" THEN loop' = Skips(i) /\ UNCHANGED cfg
       ELSE /\ loop' = Ends(i)
            /\ Store(loop.revision, Probe(i).id, Probe(i).url, status)
    /\ UNCHANGED <<file, token, wake, started, client, closed>>

(* The stream is drained: every probe has answered.                         *)
Drained ==
    /\ loop.at = "cycle" /\ \A i \in DOMAIN loop.probes : Probe(i).at = "done"
    /\ loop' = [loop EXCEPT !.at = "wait"]
    /\ UNCHANGED <<cfg, file, token, hosts, wake, started, client, closed, used>>

(* The rest of the interval passes, or an edit wakes the loop.              *)
CycleEnds ==
    /\ loop.at = "wait"
    /\ wake' \in {FALSE, wake} /\ loop' = NoCycle
    /\ UNCHANGED <<cfg, file, token, hosts, started, client, closed, used>>

(* shutdown: the run task breaks out of its select or its cycle.            *)
Shutdown ==
    /\ ~closed /\ closed' = TRUE /\ loop' = [NoCycle EXCEPT !.at = "ended"]
    /\ UNCHANGED <<cfg, file, token, hosts, wake, started, client, used>>

(* The process ends, at any point, and starts again from the file.          *)
Restart ==
    /\ Spend("restarts", MaxRestarts)
    /\ \E o \in Orders(Len(Truncated(file.services))) : cfg' = Opened(file, o)
    /\ token' = 0 /\ hosts' = NoHosts /\ wake' = FALSE /\ started' = FALSE
    /\ loop' = NoCycle /\ client' = [c \in Clients |-> Idle] /\ closed' = FALSE
    /\ UNCHANGED file

ProbesNext ==
    \/ \E c \in Clients :
          \/ \E id \in Names, u \in Urls : Update(c, id, u) \/ Add(c, id, u)
          \/ \E id \in Names : Remove(c, id) \/ TestBegins(c, id)
          \/ RestoreDefaults(c) \/ SaveFails(c) \/ Changed(c)
          \/ \E i \in {OffInterval, OnInterval} : SetInterval(c, i)
          \/ \E s \in {"healthy", "error", "cancelled"} : TestEnds(c, s)
    \/ \E h \in Hosts : BackoffEnds(h)
    \/ Select \/ CoreStarts \/ Drained \/ CycleEnds \/ Shutdown \/ Restart
    \/ \E i \in 1 .. MaxMonitors :
          \/ ProbeStarts(i)
          \/ \E s \in {"healthy", "error", "cancelled"} : ProbeEnds(i, s)

ProbesSpec == ProbesInit /\ [][ProbesNext]_bvars

-----------------------------------------------------------------------------
(* A result that is shown was observed at the URL its monitor has now, in   *)
(* whatever order edits, immediate tests, the cycle and their late answers  *)
(* interleave (service_probes.rs:372, 493 and 704-726).                     *)
ResultMatchesTarget ==
    \A i \in Index(cfg.services) :
        LET m == cfg.services[i] IN
        cfg.results[m.id].status = "pending" \/ cfg.results[m.id].url = m.url

=============================================================================
