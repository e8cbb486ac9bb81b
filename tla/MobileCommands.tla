--------------------------- MODULE MobileCommands ---------------------------
(***************************************************************************)
(* The commands of the mobile plugin that reach the embedded Core beside    *)
(* its lifecycle: selecting a child of a policy group, closing one          *)
(* connection and loading a configuration, with the ledgers that make a     *)
(* repeated operation harmless (mobile_routes.rs, mobile_traffic.rs,        *)
(* android.rs), the fact repository the Kotlin loader keeps                  *)
(* (MishMobileCoreLoad.kt) and the Core wrapper (mobile-core runtime.go).    *)
(*                                                                         *)
(* Every command is a client call of several steps: it waits for the gate,   *)
(* reads the lifecycle, calls the platform and reads the lifecycle again.    *)
(* Start, Stop, a lost network and the replacement of the lifecycle runtime *)
(* (MobileLifecycle models how they come about) happen between any two of    *)
(* those steps.                                                              *)
(***************************************************************************)
EXTENDS Naturals, Sequences, FiniteSets, SequencesExt

CONSTANTS
    Clients,     \* concurrent calls of the web view
    Ops,         \* operation identifiers
    Children,    \* children of the one policy group
    Configs,     \* committed configurations, each with its own revision
    Mixes,       \* sets of commands; the clients give those of one of them
    LedgerLimit, \* MAX_RECENT_OPERATIONS and TERMINAL_LEDGER_LIMIT
    MaxCalls,    \* commands given
    MaxEvents    \* lifecycle events and lost answers, together

VARIABLES
    life,      \* the lifecycle snapshot: [auth, session, phase]
    core,      \* the Core: [config, selected, running, session, auth, log, conns]
    facts,     \* the loader's facts: [state, config]
    gate,      \* the client holding route_config_gate, 0 when free
    routes,    \* the route authority, {} or one record
    traffic,   \* the traffic authority
    work,      \* what each client's call is doing
    sent,      \* requests given so far: what a client may repeat
    applied,   \* operations that changed the Core under the standing catalogue,
               \* each with how often
    refused,   \* operations answered as refused, or cancelled with success
    spent      \* [calls, events] and the mix

mcvars == <<life, core, facts, gate, routes, traffic, work, sent, applied, refused, spent>>

First == CHOOSE child \in Children : TRUE
Idle == [at |-> "idle"]
Kinds == spent.mix

\* An operation, within the lifecycle, the configuration and (for a connection)
\* the session it is for.
Key(req) == <<req.id, req.auth, req.config, IF req.kind = "close" THEN req.session ELSE 0>>

\* One more entry of a ledger that keeps the last LedgerLimit of them.
Kept(ledger) == IF Len(ledger) > LedgerLimit THEN Tail(ledger) ELSE ledger

Calls(c, kind) ==
    /\ work[c] = Idle
    /\ kind \in Kinds
    /\ spent.calls < MaxCalls
    /\ spent' = [spent EXCEPT !.calls = @ + 1]

Answered(c) == /\ work' = [work EXCEPT ![c] = Idle]
               /\ gate' = 0

Event == /\ spent.events < MaxEvents
         /\ spent' = [spent EXCEPT !.events = @ + 1]
Lost == Event

(***************************************************************************)
(* MobileRouteAuthority.                                                    *)
(***************************************************************************)
FromCommitted(config) ==
    [config |-> config, auth |-> life.auth, selected |-> First, order |-> 0,
     completed |-> <<>>, cancelled |-> <<>>]

\* The committed profile replaces the authority unless the load was a no-op
\* that found exactly this authority.
ReconcileCommitted(noop, config) ==
    IF noop /\ \E a \in routes : a.config = config /\ a.auth = life.auth
    THEN routes
    ELSE {[FromCommitted(config) EXCEPT !.order =
             IF \E a \in routes : a.auth = life.auth
             THEN (CHOOSE a \in routes : TRUE).order ELSE 0]}

RebindInactive(a) ==
    [a EXCEPT !.auth = life.auth, !.completed = <<>>, !.cancelled = <<>>, !.order = 0]

Recorded(a, req) == {e \in Range(a.completed) : e.id = req.id}

CancelRoute(a, id) == [a EXCEPT !.cancelled = Kept(Append(@, id))]

\* A refusal before the effect that is not recorded.
MutantRemember(a, req, answer) ==
    IF answer = "refused" THEN a
    ELSE [a EXCEPT !.completed = Kept(Append(@, [id |-> req.id, req |-> req, answer |-> answer]))]

Remember(a, req, answer) ==
    [a EXCEPT !.cancelled = SelectSeq(@, LAMBDA id : id # req.id),
              !.completed = Kept(Append(@, [id |-> req.id, req |-> req, answer |-> answer]))]

\* preflight: what refuses a selection before the native effect.
Preflight(a, req) ==
    IF req.id \in Range(a.cancelled) THEN {"cancelled"}
    ELSE IF req.auth # a.auth \/ req.config # a.config THEN {"stale-authority"}
    ELSE IF req.from # a.selected THEN {"invalid-relation"}
    ELSE {}

\* project accepts a native snapshot only for the committed configuration.
Projects(a) == core.config = a.config
Project(a) == [a EXCEPT !.selected = core.selected, !.order = @ + 1]

\* The gate holder in these steps holds the routes mutex too.
RoutesLocked == \E c \in Clients : work[c].at \in {"baseline", "effect", "applied"}

\* What get_route_snapshot and select_route_child do about an authority of
\* another lifecycle: only a stopped and clean platform is bound again.
Bindable(a) == a.auth = life.auth \/ (life.phase = "stopped" /\ ~core.running)
Bound(a) == IF a.auth = life.auth THEN a ELSE RebindInactive(a)

GetRoutes ==
    /\ "select" \in Kinds
    /\ gate = 0
    /\ \E a \in routes :
         /\ Bindable(a)
         /\ Projects(a)
         /\ Project(Bound(a)).selected # a.selected \/ Bound(a) # a
         /\ routes' = {Project(Bound(a))}
    /\ UNCHANGED <<life, core, facts, gate, traffic, work, sent, applied, refused, spent>>

(***************************************************************************)
(* select_route_child.                                                      *)
(***************************************************************************)
\* A client names what the last route snapshot showed, or repeats a request.
Select(c) ==
    /\ Calls(c, "select")
    /\ \E req \in {r \in sent : r.kind = "select"}
         \cup {[kind |-> "select", id |-> o, auth |-> a.auth, config |-> a.config,
                from |-> a.selected, to |-> child] :
               o \in Ops, a \in routes, child \in Children} :
         /\ req.from # req.to
         /\ work' = [work EXCEPT ![c] = [at |-> "select", req |-> req]]
         /\ sent' = sent \cup {req}
    /\ UNCHANGED <<life, core, facts, gate, routes, traffic, applied, refused>>

SelectEnter(c) ==
    /\ work[c].at = "select"
    /\ gate = 0
    /\ \/ /\ \E a \in routes : Bindable(a) /\ routes' = {Bound(a)}
          /\ gate' = c
          /\ work' = [work EXCEPT ![c] = [at |-> "baseline", req |-> work[c].req, was |-> life]]
       \/ /\ \A a \in routes : ~Bindable(a)
          /\ Answered(c)
          /\ UNCHANGED routes
    /\ UNCHANGED <<life, core, facts, traffic, sent, applied, refused, spent>>

\* The baseline read, the ledger and the preflight.
SelectBaseline(c) ==
    LET req == work[c].req
        b == Project(CHOOSE a \in routes : TRUE)
    IN  /\ work[c].at = "baseline"
        /\ UNCHANGED <<life, core, facts, traffic, sent, applied>>
        /\ \/ /\ Projects(b)
              /\ spent' = spent
              /\ IF Recorded(b, req) # {}
                 THEN routes' = {b} /\ UNCHANGED refused /\ Answered(c)
                 ELSE IF Preflight(b, req) # {}
                 THEN /\ routes' = {Remember(b, req, "refused")}
                      /\ refused' = refused \cup {Key(req)}
                      /\ Answered(c)
                 ELSE /\ routes' = {b}
                      /\ work' = [work EXCEPT ![c].at = "effect"]
                      /\ UNCHANGED <<gate, refused>>
           \/ /\ (~Projects(b) /\ spent' = spent) \/ Lost
              /\ Answered(c)
              /\ UNCHANGED <<routes, refused>>

Once(req) == Append(applied, Key(req))

\* The wrapper's select-policy command: an exact duplicate is a success
\* without a mutation, another request under the same identity a conflict.
CoreSelect(req) ==
    LET before == {e \in Range(core.log) : e.id = req.id}
        sets == core.running /\ core.auth = req.auth /\ before = {} /\ core.selected = req.from
    IN  [ok |-> sets \/ (core.running /\ core.auth = req.auth /\ before = {req}),
         sets |-> sets,
         core |-> IF sets THEN [core EXCEPT !.selected = req.to, !.log = Kept(Append(@, req))]
                  ELSE core]

\* The native effect; a lost answer ends the call without a record.
SelectEffect(c) ==
    LET done == CoreSelect(work[c].req)
    IN  /\ work[c].at = "effect"
        /\ core' = done.core
        /\ applied' = IF done.sets THEN Once(work[c].req) ELSE applied
        /\ \/ /\ work' = [work EXCEPT ![c] =
                    [at |-> "applied", req |-> work[c].req, was |-> work[c].was, ok |-> done.ok]]
              /\ UNCHANGED <<gate, spent>>
           \/ Lost /\ Answered(c)
        /\ UNCHANGED <<life, facts, routes, traffic, sent, refused>>

SelectAnswer(c) ==
    LET req == work[c].req
        a == CHOOSE r \in routes : TRUE
        same == /\ life.auth = work[c].was.auth /\ life.session = work[c].was.session
                /\ a.auth = life.auth
        well == same /\ work[c].ok /\ Projects(a)
    IN  /\ work[c].at = "applied"
        /\ routes' = {Remember(IF well THEN Project(a) ELSE a, req,
                               IF well THEN "success" ELSE "failure")}
        /\ Answered(c)
        /\ UNCHANGED <<life, core, facts, traffic, sent, applied, refused, spent>>

\* cancel_route_selection waits for the routes mutex, not for the gate.
CancelSelection ==
    /\ "cancel" \in Kinds
    /\ spent.calls < MaxCalls
    /\ ~RoutesLocked
    /\ \E a \in routes, o \in Ops :
         /\ \A e \in Range(a.completed) : e.id # o
         /\ o \notin Range(a.cancelled)
         /\ routes' = {CancelRoute(a, o)}
         /\ refused' = refused \cup {<<o, a.auth, a.config, 0>>}
    /\ spent' = [spent EXCEPT !.calls = @ + 1]
    /\ UNCHANGED <<life, core, facts, gate, traffic, work, sent, applied>>

(***************************************************************************)
(* load_config.                                                             *)
(***************************************************************************)
Load(c) ==
    /\ Calls(c, "load")
    /\ \E config \in Configs :
         work' = [work EXCEPT ![c] = [at |-> "load", config |-> config, asked |-> life]]
    /\ UNCHANGED <<life, core, facts, gate, routes, traffic, sent, applied, refused>>

LoadEnter(c) ==
    /\ work[c].at = "load"
    /\ gate = 0
    /\ IF work[c].asked # life THEN Answered(c)
       ELSE /\ gate' = c
            /\ work' = [work EXCEPT ![c].at = "loading"]
    /\ UNCHANGED <<life, core, facts, routes, traffic, sent, applied, refused, spent>>

CoreLoad(config) ==
    [core EXCEPT !.config = config, !.selected = First, !.log = <<>>]

\* The loader's facts name exactly this configuration.
AlreadyLoaded(config) == facts.state = "loaded" /\ facts.config = config

\* The coordinator: a revision already loaded is a no-op, a running Core
\* refuses, and an answer lost on the way leaves the loaded state unknown.
LoadNative(c) ==
    LET config == work[c].config
        noop == AlreadyLoaded(config)
    IN  /\ work[c].at = "loading"
        /\ \/ /\ noop
              /\ work' = [work EXCEPT ![c].at = "noop"]
              /\ UNCHANGED <<core, facts, gate, spent>>
           \/ /\ ~noop /\ ~core.running
              /\ core' = CoreLoad(config)
              /\ facts' = [state |-> "loaded", config |-> config]
              /\ work' = [work EXCEPT ![c].at = "committed"]
              /\ UNCHANGED <<gate, spent>>
           \/ /\ ~noop /\ core.running
              /\ Answered(c)
              /\ UNCHANGED <<core, facts, spent>>
           \/ /\ ~noop /\ ~core.running /\ Lost
              /\ core' \in {core, CoreLoad(config)}
              /\ facts' = [state |-> "unknown", config |-> 0]
              /\ Answered(c)
        /\ UNCHANGED <<life, routes, traffic, sent, applied, refused>>

\* A new catalogue forgets the operations of an earlier one of its identity.
Keeps(key) == key[2] # life.auth \/ key[3] # (CHOOSE a \in routes' : TRUE).config

\* A committed load replaces the route authority, unless the lifecycle was
\* replaced meanwhile.
LoadCommit(c) ==
    LET next == ReconcileCommitted(work[c].at = "noop", work[c].config)
    IN  /\ work[c].at \in {"noop", "committed"}
        /\ ~RoutesLocked
        /\ IF life.auth = work[c].asked.auth /\ life.session = work[c].asked.session
           THEN /\ routes' = next
                /\ IF routes = next THEN UNCHANGED <<applied, refused>>
                   ELSE /\ applied' = SelectSeq(applied, LAMBDA k : Keeps(k))
                        /\ refused' = {k \in refused : Keeps(k)}
           ELSE UNCHANGED <<routes, applied, refused>>
        /\ Answered(c)
        /\ UNCHANGED <<life, core, facts, traffic, sent, spent>>

(***************************************************************************)
(* MobileTrafficAuthority and close_traffic_connection.                     *)
(***************************************************************************)
NoTraffic == [ready |-> FALSE, auth |-> 0, config |-> 0, session |-> 0, sequence |-> 0,
              conns |-> {}, terminal |-> <<>>]

Profile == IF routes = {} THEN 0 ELSE (CHOOSE a \in routes : TRUE).config

Unavailable ==
    [traffic EXCEPT !.ready = FALSE, !.auth = life.auth, !.config = Profile,
                    !.session = 0, !.sequence = 0, !.conns = {}]

\* A snapshot of another scope starts the sequence again.
ProjectTraffic(auth) ==
    LET replacing == \/ traffic.auth # auth
                     \/ traffic.config # Profile
                     \/ traffic.session # core.session
    IN  [traffic EXCEPT !.ready = TRUE, !.auth = auth, !.config = Profile,
                        !.session = core.session, !.conns = core.conns,
                        !.sequence = IF replacing THEN 1 ELSE @ + 1]

RememberClose(t, req, answer) ==
    [t EXCEPT !.terminal = Kept(Append(@, [id |-> req.id, answer |-> answer]))]

ValidClose(req) ==
    /\ traffic.ready
    /\ traffic.auth = req.auth
    /\ traffic.config = req.config
    /\ traffic.session = req.session
    /\ traffic.sequence = req.sequence

SameScope(t, req) == t.ready /\ t.auth = req.auth /\ t.config = req.config /\ t.session = req.session

\* A native snapshot is accepted when it is well formed and of a running Core.
ValidNative == core.running

\* runtime_allows_close_dispatch.
AllowsDispatch(req) == life.phase = "running" /\ life.auth = req.auth

GetTraffic ==
    /\ "close" \in Kinds
    /\ spent.calls < MaxCalls
    /\ gate = 0
    /\ traffic' = IF life.phase # "running" \/ Profile = 0 THEN Unavailable
                  ELSE ProjectTraffic(life.auth)
    /\ spent' = [spent EXCEPT !.calls = @ + 1]
    /\ UNCHANGED <<life, core, facts, gate, routes, work, sent, applied, refused>>

\* A client closes a connection of the snapshot it holds, or repeats.
Close(c) ==
    /\ Calls(c, "close")
    /\ \E req \in {r \in sent : r.kind = "close"}
         \cup {[kind |-> "close", id |-> o, auth |-> traffic.auth, config |-> traffic.config,
                session |-> traffic.session, sequence |-> traffic.sequence, conn |-> conn] :
               o \in Ops, conn \in traffic.conns} :
         /\ work' = [work EXCEPT ![c] = [at |-> "close", req |-> req]]
         /\ sent' = sent \cup {req}
    /\ UNCHANGED <<life, core, facts, gate, routes, traffic, applied, refused>>

\* The ledger and the checks against the held snapshot and the lifecycle.
CloseEnter(c) ==
    LET req == work[c].req
    IN  /\ work[c].at = "close"
        /\ gate = 0
        /\ IF \E e \in Range(traffic.terminal) : e.id = req.id
           THEN Answered(c) /\ UNCHANGED <<traffic, refused>>
           ELSE IF ~ValidClose(req) \/ ~AllowsDispatch(req) \/ Profile # req.config
           THEN /\ traffic' = RememberClose(traffic, req, "refused")
                /\ refused' = refused \cup {Key(req)}
                /\ Answered(c)
           ELSE /\ gate' = c
                /\ work' = [work EXCEPT ![c].at = "fresh"]
                /\ UNCHANGED <<traffic, refused>>
        /\ UNCHANGED <<life, core, facts, routes, sent, applied, spent>>

\* The fresh native snapshot, and the lifecycle once more before dispatch.
CloseFresh(c) ==
    LET req == work[c].req
        t == ProjectTraffic(req.auth)
    IN  /\ work[c].at = "fresh"
        /\ \/ /\ ValidNative /\ SameScope(t, req) /\ req.conn \in t.conns
              /\ IF AllowsDispatch(req)
                 THEN /\ traffic' = t
                      /\ work' = [work EXCEPT ![c] = [at |-> "dispatch", req |-> req, session |-> core.session]]
                      /\ UNCHANGED <<gate, refused>>
                 ELSE /\ traffic' = RememberClose(Unavailable, req, "refused")
                      /\ refused' = refused \cup {Key(req)}
                      /\ Answered(c)
              /\ spent' = spent
           \/ /\ ~(ValidNative /\ SameScope(t, req) /\ req.conn \in t.conns)
              /\ traffic' = RememberClose(IF ValidNative THEN t ELSE traffic, req, "refused")
              /\ refused' = refused \cup {Key(req)}
              /\ Answered(c)
              /\ spent' = spent
           \/ Lost /\ Answered(c) /\ UNCHANGED <<traffic, refused>>
        /\ UNCHANGED <<life, core, facts, routes, sent, applied>>

\* closeConnection: only the session the fresh snapshot came from.
CoreClose(session, conn) ==
    IF core.running /\ core.session = session /\ conn \in core.conns
    THEN [core EXCEPT !.conns = @ \ {conn}] ELSE core

CloseEffect(c) ==
    LET req == work[c].req
    IN  /\ work[c].at = "dispatch"
        /\ core' = CoreClose(work[c].session, req.conn)
        /\ applied' = IF core' = core THEN applied ELSE Once(req)
        /\ \/ /\ work' = [work EXCEPT ![c] =
                    [at |-> "closed", req |-> req, ran |-> core.running, ok |-> core' # core]]
              /\ UNCHANGED <<gate, spent>>
           \/ Lost /\ Answered(c)
        /\ UNCHANGED <<life, facts, routes, traffic, sent, refused>>

\* The answer, after a last look at the lifecycle.
CloseAnswer(c) ==
    LET req == work[c].req
        t == IF ~work[c].ran THEN traffic ELSE ProjectTraffic(req.auth)
        now == IF life.phase = "running" /\ ValidNative THEN ProjectTraffic(life.auth)
               ELSE Unavailable
    IN  /\ work[c].at = "closed"
        /\ traffic' = IF work[c].ran /\ ~AllowsDispatch(req) THEN RememberClose(now, req, "failure")
                      ELSE RememberClose(t, req, IF work[c].ok THEN "success" ELSE "failure")
        /\ Answered(c)
        /\ UNCHANGED <<life, core, facts, routes, sent, applied, refused, spent>>

(***************************************************************************)
(* The lifecycle and the platform, between any two steps.                   *)
(***************************************************************************)
\* lifecycleSuccessor: only the machine that ran the Core before may.
Admits == core.auth \in {0, life.auth}

Start ==
    /\ Event
    /\ life.phase = "stopped" /\ ~core.running /\ core.config # 0
    /\ IF Admits
       THEN /\ core' = [core EXCEPT !.running = TRUE, !.session = life.session + 1,
                                    !.auth = life.auth, !.conns = {life.session + 1}]
            /\ life' = [life EXCEPT !.session = @ + 1, !.phase = "running"]
       ELSE UNCHANGED <<life, core>>
    /\ UNCHANGED <<facts, gate, routes, traffic, work, sent, applied, refused>>

Stop ==
    /\ Event
    /\ life.phase # "stopped"
    /\ core' = [core EXCEPT !.running = FALSE, !.session = 0, !.conns = {}]
    /\ life' = [life EXCEPT !.phase = "stopped"]
    /\ UNCHANGED <<facts, gate, routes, traffic, work, sent, applied, refused>>

\* Network loss and recovery move the phase, not the Core.
NetworkChanged ==
    /\ Event
    /\ life.phase # "stopped"
    /\ life' = [life EXCEPT !.phase = IF @ = "running" THEN "unavailable" ELSE "running"]
    /\ UNCHANGED <<core, facts, gate, routes, traffic, work, sent, applied, refused>>

\* runtime() replaces a retired lifecycle: on a clean platform the new one has
\* a fresh authority (LifecycleState::initial finds none to recover).
ReplaceRuntime ==
    /\ Event
    /\ life.phase = "stopped" /\ ~core.running
    /\ life' = [auth |-> life.auth + 1, session |-> life.session + 1, phase |-> "stopped"]
    /\ UNCHANGED <<core, facts, gate, routes, traffic, work, sent, applied, refused>>

MobileCommandsInit ==
    /\ life = [auth |-> 1, session |-> 1, phase |-> "stopped"]
    /\ core = [config |-> CHOOSE config \in Configs : TRUE, selected |-> First,
               running |-> FALSE, session |-> 0, auth |-> 0, log |-> <<>>, conns |-> {}]
    /\ facts = [state |-> "loaded", config |-> core.config]
    /\ gate = 0
    /\ routes = {FromCommitted(core.config)}
    /\ traffic = NoTraffic
    /\ work = [c \in Clients |-> Idle]
    /\ sent = {}
    /\ applied = <<>>
    /\ refused = {}
    /\ spent \in {[calls |-> 0, events |-> 0, mix |-> mix] : mix \in Mixes}

MobileCommandsNext ==
    \/ GetRoutes \/ CancelSelection \/ GetTraffic
    \/ \E c \in Clients :
         \/ Select(c) \/ SelectEnter(c) \/ SelectBaseline(c) \/ SelectEffect(c) \/ SelectAnswer(c)
         \/ Load(c) \/ LoadEnter(c) \/ LoadNative(c) \/ LoadCommit(c)
         \/ Close(c) \/ CloseEnter(c) \/ CloseFresh(c) \/ CloseEffect(c) \/ CloseAnswer(c)
    \/ Start \/ Stop \/ NetworkChanged \/ ReplaceRuntime

MobileCommandsSpec == MobileCommandsInit /\ [][MobileCommandsNext]_mcvars

(***************************************************************************)
(* Properties.                                                              *)
(***************************************************************************)
\* As long as one committed catalogue stands, an operation changes the Core
\* at most once, whatever is repeated and whichever answers are lost, within
\* the operations that the ledgers still remember: with more than LedgerLimit
\* later ones the oldest is forgotten (duplicate, remember and the wrapper's
\* own ledger).
AppliedOnce == IsInjective(applied)

\* An operation that was answered as refused, or whose cancellation was
\* accepted, never changes the Core afterwards, however often it is repeated
\* (preflight and failure remember the refusal; cancel is read before the
\* effect).
RefusedStaysRefused ==
    [][(Len(applied') > Len(applied)) => Last(applied') \notin refused]_mcvars

\* A selection reaches the Core only for the configuration, and under the
\* lifecycle, it was validated against: stopping, loading another
\* configuration and starting again cannot slip in between (the gate shared
\* by load_config and select_route_child).
EffectMatchesCatalogue ==
    [][\A c \in Clients :
         (work[c].at = "effect" /\ core'.log # core.log /\ core'.log # <<>>)
           => (core.config = work[c].req.config /\ core.auth = work[c].req.auth)]_mcvars

=============================================================================
