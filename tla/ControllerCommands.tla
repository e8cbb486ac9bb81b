------------------------- MODULE ControllerCommands -------------------------
(***************************************************************************)
(* The Status commands of the Controller source                            *)
(* (crates/desktop-bridge/src/controller_source.rs): routing mode, policy  *)
(* group selection with the cleanup of the old child's connections, group  *)
(* delay tests, provider updates, and the refresh after a failed Traffic   *)
(* command, beside the status collector, pauses and the source's end.      *)
(*                                                                         *)
(* There is one policy group G.  A connection is the chain of labels it    *)
(* goes through.  A mapper is the set of observations it has, empty for    *)
(* none.  A call to the Controller is a step of its own and may fail; the  *)
(* revisions of the catalog stand for its membership, which is fixed, so   *)
(* what a cleanup revalidates is the selection.                            *)
(***************************************************************************)
EXTENDS Naturals, Sequences, FiniteSets

CONSTANTS
  Clients,       \* the sockets and native surfaces that give commands: not 0
  Children,      \* the group's direct children
  Mixes,         \* sets of commands: a behaviour gives those of one of them
  QuietScans,    \* cleanup_quiet_scans
  MaxCommands,   \* bound: commands
  MaxFaults,     \* bound: calls to the Controller that fail
  MaxPauses,     \* bound: pauses of the observations
  MaxChanges     \* bound: selections and connections made elsewhere

VARIABLES
  source,     \* SourceInner and SourceState: mapper, readiness, generation
  authority,  \* SourceInner::authority: its holder and who waits, in turn
  command,    \* SourceInner::command: its holders
  execution,  \* SourceInner::cleanup_execution: its holders
  latest,     \* latest_group_selection_operation
  control,    \* cleanup_control: the client whose cleanup it names
  work,       \* each client's command
  test,       \* SourceState::group_delay_test
  probe,      \* group_delay_control and the delay task
  providers,  \* the update phase of each provider of the inventory
  mihomo,     \* the Controller
  spent

cvars == <<source, authority, command, execution, latest, control, work, test, probe,
           providers, mihomo, spent>>
locks == <<authority, command, execution>>
selection == <<latest, control>>
delays == <<test, probe>>

Providers == {"x", "y"}
NoWork == [at |-> "idle", kind |-> "none", op |-> 0, child |-> "none", old |-> "none",
           generation |-> 0, targets |-> {}, seen |-> {}, quiet |-> 0, cancelled |-> FALSE]
NoTest == [id |-> 0, phase |-> "Idle", children |-> [k \in Children |-> "Pending"]]
NoProbe == [id |-> 0, at |-> "off", cancelled |-> FALSE, asked |-> {},
            children |-> [k \in Children |-> "off"]]

ControllerInit ==
  /\ source = [active |-> TRUE, generation |-> 1, ready |-> FALSE, mapper |-> {},
               collector |-> "starting", pause |-> "none", closed |-> FALSE]
  /\ authority = <<>> /\ command = {} /\ execution = {}
  /\ latest = 0 /\ control = {}
  /\ work = [c \in Clients |-> NoWork]
  /\ test = NoTest /\ probe = NoProbe
  /\ providers = [p \in {} |-> "idle"]
  /\ \E now \in Children :
       mihomo = [mode |-> "rule", now |-> now, by |-> "elsewhere", open |-> {<<now, "G">>},
                 providers |-> Providers]
  /\ \E mix \in Mixes :
       spent = [mix |-> mix, commands |-> 0, faults |-> 0, pauses |-> 0, changes |-> 0]

At(c, place) == work[c].at = place
Holds(c, place) == At(c, place) /\ authority # <<>> /\ Head(authority) = c
Unheld == authority = <<>>
Goes(c, place) ==
  work' = [work EXCEPT ![c] = IF place = "idle" THEN NoWork ELSE [@ EXCEPT !.at = place]]

\* ControllerClient: after shutdown every call fails.
Answers(ok) ==
  IF source.closed THEN ~ok /\ UNCHANGED spent
  ELSE \/ ok /\ UNCHANGED spent
       \/ ~ok /\ spent.faults < MaxFaults /\ spent' = [spent EXCEPT !.faults = @ + 1]

\* apply_observations: without a generation nothing retires the observation, and
\* a source without a mapper gets a new one.
Observed(fields) == [source EXCEPT !.mapper = @ \cup fields]

-----------------------------------------------------------------------------
(* Observation: the collector, pause and resume, and the end.               *)

\* observe_active_session: the first complete batch; late batches are dropped.
CollectorReady ==
  /\ source.collector = "starting" /\ Unheld
  /\ source' = IF ~source.active THEN [source EXCEPT !.collector = "live"]
               ELSE [Observed({"config", "proxies", "connections"}) EXCEPT
                      !.ready = TRUE, !.collector = "live"]
  /\ providers' = [p \in mihomo.providers |-> IF p \in DOMAIN providers THEN providers[p] ELSE "idle"]
  /\ UNCHANGED <<locks, selection, work, delays, mihomo, spent>>

\* run_status_collector: the session failed, and is tried again.
CollectorFails ==
  /\ source.collector = "live" /\ ~source.closed
  /\ source' = [source EXCEPT !.collector = "starting"]
  /\ UNCHANGED <<locks, selection, work, delays, providers, mihomo, spent>>

\* The cancellations pause_observation_task and close make.
CancelTokens ==
  /\ probe' = [probe EXCEPT !.cancelled = @ \/ probe.id # 0]
  /\ work' = [c \in Clients |-> [work[c] EXCEPT !.cancelled = @ \/ c \in control]]

PauseBegin ==
  /\ source.pause = "none" /\ source.active /\ ~source.closed /\ spent.pauses < MaxPauses
  /\ source' = [source EXCEPT !.generation = @ + 1, !.active = FALSE, !.pause = "stop"]
  /\ CancelTokens
  /\ spent' = [spent EXCEPT !.pauses = @ + 1]
  /\ UNCHANGED <<locks, selection, test, providers, mihomo>>

\* stop_observation_task; the pause (0) then waits for the authority.
PauseStop ==
  /\ source.pause = "stop"
  /\ source' = [source EXCEPT !.collector = "off", !.pause = "invalidate"]
  /\ authority' = Append(authority, 0)
  /\ UNCHANGED <<command, execution, selection, work, delays, providers, mihomo, spent>>

\* invalidate_source_state, for sleep and for the other reasons.
PauseInvalidate(asleep) ==
  /\ source.pause = "invalidate" /\ Head(authority) = 0
  /\ authority' = Tail(authority)
  /\ source' = IF asleep THEN [source EXCEPT !.pause = "none"]
               ELSE [source EXCEPT !.pause = "none", !.mapper = {}, !.ready = FALSE]
  /\ test' = NoTest
  /\ UNCHANGED <<command, execution, selection, work, probe, providers, mihomo, spent>>

\* resume_observation_task.
Resume ==
  /\ source.pause = "none" /\ source.collector = "off" /\ ~source.closed
  /\ source' = [source EXCEPT !.generation = @ + 1, !.active = TRUE, !.collector = "starting"]
  /\ UNCHANGED <<locks, selection, work, delays, providers, mihomo, spent>>

\* close: everything is cancelled and the client shut down.
Close ==
  /\ ~source.closed /\ source.pause = "none"
  /\ source' = [source EXCEPT !.closed = TRUE, !.active = FALSE, !.collector = "off"]
  /\ CancelTokens
  /\ UNCHANGED <<locks, selection, test, providers, mihomo, spent>>

\* Another Controller client selects a child, or traffic opens a connection.
SelectedElsewhere(child) ==
  /\ spent.changes < MaxChanges /\ "select" \in spent.mix /\ child # mihomo.now
  /\ mihomo' = [mihomo EXCEPT !.now = child, !.by = "elsewhere"]
  /\ spent' = [spent EXCEPT !.changes = @ + 1]
  /\ UNCHANGED <<source, locks, selection, work, delays, providers>>
ConnectionOpens ==
  /\ spent.changes < MaxChanges /\ "select" \in spent.mix /\ <<mihomo.now, "G">> \notin mihomo.open
  /\ mihomo' = [mihomo EXCEPT !.open = @ \cup {<<mihomo.now, "G">>}]
  /\ spent' = [spent EXCEPT !.changes = @ + 1]
  /\ UNCHANGED <<source, locks, selection, work, delays, providers>>
\* A provider leaves the running configuration.
ProviderLeaves(p) ==
  /\ spent.changes < MaxChanges /\ "provider" \in spent.mix /\ p \in mihomo.providers
  /\ mihomo' = [mihomo EXCEPT !.providers = @ \ {p}]
  /\ spent' = [spent EXCEPT !.changes = @ + 1]
  /\ UNCHANGED <<source, locks, selection, work, delays, providers>>

-----------------------------------------------------------------------------
(* Commands: admission and failure.                                         *)

\* A selection is not admitted before its id is drawn and stored.
Begin(c, kind, child) ==
  /\ At(c, "idle") /\ spent.commands < MaxCommands /\ kind \in spent.mix
  /\ kind = "select" \/ child = CHOOSE k \in Children : TRUE
  /\ spent' = [spent EXCEPT !.commands = @ + 1]
  /\ work' = [work EXCEPT ![c] = [NoWork EXCEPT !.kind = kind, !.child = child,
       !.op = IF kind = "select" THEN spent.commands + 1 ELSE 0,
       !.at = CASE kind = "select" -> "store" [] kind = "cancel" -> "cancel"
                [] kind = "traffic" -> "refresh" [] OTHER -> "admit"]]
  /\ UNCHANGED <<source, locks, selection, delays, providers, mihomo>>

\* run_group_command: the id that was drawn is stored, and a running cleanup
\* cancelled.  Nothing keeps the stores in the order of the draws.
StoreLatest(c) ==
  /\ At(c, "store")
  /\ latest' = work[c].op
  /\ work' = [d \in Clients |->
       [work[d] EXCEPT !.at = IF d = c THEN "boundary" ELSE @, !.cancelled = @ \/ d \in control]]
  /\ UNCHANGED <<source, locks, control, delays, providers, mihomo, spent>>

\* command_readiness_error; provider updates do not ask it.
Ready(c) ==
  \/ work[c].kind = "provider"
  \/ source.active /\ source.ready /\ source.mapper # {}

\* The one pending command; a delay test is also refused while one runs.
Admission(c) ==
  IF ~Ready(c) \/ command # {} \/ (work[c].kind = "delay" /\ probe.id # 0)
    THEN /\ Goes(c, IF work[c].kind \in {"select", "route"} THEN "failed" ELSE "idle")
         /\ UNCHANGED <<authority, command>>
    ELSE /\ command' = {c} /\ authority' = Append(authority, c)
         /\ Goes(c, CASE work[c].kind = "route" -> "config" [] work[c].kind = "select" -> "catalog"
                      [] work[c].kind = "delay" -> "targets" [] OTHER -> "inventory")

\* A selection waits until no cleanup executes, and lets the lock go again
\* before it is admitted.
Boundary(c) ==
  /\ At(c, "boundary") /\ execution = {}
  /\ Goes(c, "admit")
  /\ UNCHANGED <<source, locks, selection, delays, providers, mihomo, spent>>

Admit(c) ==
  /\ At(c, "admit")
  /\ Admission(c)
  /\ UNCHANGED <<source, execution, selection, delays, providers, mihomo, spent>>

\* The guards of a command are dropped where it returns.
Leaves(c, place) ==
  /\ authority' = Tail(authority) /\ command' = {}
  /\ Goes(c, place)

\* refresh_after_command_failure.
FailedRefresh(c) ==
  /\ At(c, "failed") /\ Unheld
  /\ \E ok \in BOOLEAN : Answers(ok) /\ source' = IF ok THEN Observed({"config", "proxies"}) ELSE source
  /\ Goes(c, "idle")
  /\ UNCHANGED <<locks, selection, delays, providers, mihomo>>

\* refresh_connections_after_command, of a Traffic command that failed.
ConnectionsRefresh(c) ==
  /\ At(c, "refresh") /\ Unheld
  /\ \E ok \in BOOLEAN : Answers(ok) /\ source' = IF ok THEN Observed({"connections"}) ELSE source
  /\ Goes(c, "idle")
  /\ UNCHANGED <<locks, selection, delays, providers, mihomo>>

-----------------------------------------------------------------------------
(* confirm_routing_command.                                                 *)

\* The configuration is read and applied; the mode asked for may be the one that
\* is set already.
Target(c) == IF mihomo.mode = "rule" THEN "direct" ELSE "rule"
RouteLook(c) ==
  /\ Holds(c, "config")
  /\ \E ok, already \in BOOLEAN :
       /\ Answers(ok)
       /\ source' = IF ok THEN Observed({"config"}) ELSE source
       /\ IF ok /\ ~already THEN Goes(c, "set") /\ UNCHANGED <<authority, command>>
          ELSE Leaves(c, IF ok THEN "idle" ELSE "failed")
  /\ UNCHANGED <<execution, selection, delays, providers, mihomo>>
RouteSet(c) ==
  /\ Holds(c, "set")
  /\ \E ok \in BOOLEAN :
       /\ Answers(ok)
       /\ IF ok THEN mihomo' = [mihomo EXCEPT !.mode = Target(c)] /\ Goes(c, "readback")
                     /\ UNCHANGED <<authority, command>>
          ELSE Leaves(c, "failed") /\ UNCHANGED mihomo
  /\ UNCHANGED <<source, execution, selection, delays, providers>>
RouteConfirm(c) ==
  /\ Holds(c, "readback")
  /\ \E ok \in BOOLEAN :
       /\ Answers(ok)
       /\ source' = IF ok THEN Observed({"config"}) ELSE source
       /\ Leaves(c, IF ok THEN "idle" ELSE "failed")
  /\ UNCHANGED <<execution, selection, delays, providers, mihomo>>

-----------------------------------------------------------------------------
(* confirm_group_command and the cleanup.                                   *)

\* The catalog is read and applied; the context of a later cleanup is taken.
SelectLook(c) ==
  /\ Holds(c, "catalog")
  /\ \E ok \in BOOLEAN :
       /\ Answers(ok)
       /\ source' = IF ok THEN Observed({"proxies"}) ELSE source
       /\ IF ok /\ mihomo.now # work[c].child
            THEN /\ work' = [work EXCEPT ![c].at = "choose", ![c].old = mihomo.now,
                                         ![c].generation = source.generation]
                 /\ UNCHANGED <<authority, command>>
            ELSE Leaves(c, IF ok THEN "idle" ELSE "failed")
  /\ UNCHANGED <<execution, selection, delays, providers, mihomo>>
\* History: whether the selection is still the newest when it is sent, which
\* nothing looks at.
Sender(c) == IF latest = work[c].op THEN "newest" ELSE "superseded"
\* A request whose answer is lost may have been carried out.
SelectSend(c) ==
  /\ Holds(c, "choose")
  /\ \E ok, done \in BOOLEAN :
       /\ Answers(ok)
       /\ ok => done
       /\ mihomo' = IF done THEN [mihomo EXCEPT !.now = work[c].child, !.by = Sender(c)] ELSE mihomo
       /\ IF ok THEN Goes(c, "confirm") /\ UNCHANGED <<authority, command>>
          ELSE Leaves(c, "failed")
  /\ UNCHANGED <<source, execution, selection, delays, providers>>
\* observe_group_selection_until: read back, or the deadline passes.
SelectConfirm(c) ==
  /\ Holds(c, "confirm")
  /\ \E ok \in BOOLEAN :
       /\ Answers(ok)
       /\ source' = IF ok THEN Observed({"proxies"}) ELSE source
       /\ Leaves(c, IF ok /\ mihomo.now = work[c].child THEN "claim" ELSE "failed")
  /\ UNCHANGED <<execution, selection, delays, providers, mihomo>>

\* run_group_selection_cleanup: a new cleanup cancels the one before.
Claim(c) ==
  /\ At(c, "claim")
  /\ control' = {c}
  /\ work' = [d \in Clients |->
       IF d = c THEN [work[c] EXCEPT !.at = "execute", !.cancelled = FALSE]
       ELSE [work[d] EXCEPT !.cancelled = @ \/ d \in control]]
  /\ UNCHANGED <<source, locks, latest, delays, providers, mihomo, spent>>
Execute(c) ==
  /\ At(c, "execute") /\ execution = {}
  /\ execution' = {c}
  /\ Goes(c, "scan")
  /\ UNCHANGED <<source, authority, command, selection, delays, providers, mihomo, spent>>

\* cleanup_guard_failure.
MutantGuarded(c) ==
  /\ ~source.closed /\ source.active /\ source.generation = work[c].generation
  /\ ~work[c].cancelled
Guarded(c) ==
  /\ ~source.closed /\ source.active /\ source.generation = work[c].generation
  /\ latest = work[c].op
  /\ ~work[c].cancelled

\* validate_cleanup_catalog.
ValidCatalog(c) == mihomo.now = work[c].child

\* connection_uses_old_direct_child: the label before the group's.
UsesOldChild(chain, old, new) ==
  /\ Len(chain) >= 2 /\ old # new
  /\ \A i, j \in DOMAIN chain : i # j => chain[i] # chain[j]
  /\ \E i \in DOMAIN chain : chain[i] = "G" /\ i > 1 /\ chain[i - 1] = old

\* The cleanup ends: it gives back the execution and its control.
CleanupEnds(c) ==
  /\ execution' = execution \ {c}
  /\ control' = control \ {c}
  /\ Goes(c, "idle")
  /\ UNCHANGED <<source, authority, command, latest, delays, providers, mihomo>>

\* cleanup_old_child_connections: the guard and a valid catalog,
CleanupScan(c) ==
  /\ At(c, "scan")
  /\ \E ok \in BOOLEAN :
       /\ Answers(ok)
       /\ IF ok /\ Guarded(c) /\ ValidCatalog(c)
            THEN Goes(c, "connections")
                 /\ UNCHANGED <<source, locks, selection, delays, providers, mihomo>>
            ELSE CleanupEnds(c)
\* the connections, with the guard again,
CleanupRead(c) ==
  LET found == {chain \in mihomo.open : UsesOldChild(chain, work[c].old, work[c].child)}
  IN /\ At(c, "connections")
     /\ \E ok \in BOOLEAN :
          /\ Answers(ok)
          /\ IF ok /\ Guarded(c)
               THEN /\ work' = [work EXCEPT ![c].at = "revalidate", ![c].targets = found \ work[c].seen,
                                            ![c].seen = @ \cup found]
                    /\ UNCHANGED <<source, locks, selection, delays, providers, mihomo>>
               ELSE CleanupEnds(c)
\* and the catalog once more;
CleanupRevalidate(c) ==
  /\ At(c, "revalidate")
  /\ \E ok \in BOOLEAN :
       /\ Answers(ok)
       /\ IF ok /\ ValidCatalog(c)
            THEN /\ work' = [work EXCEPT ![c].at = "next",
                               ![c].quiet = IF work[c].targets = {} THEN @ + 1 ELSE 0]
                 /\ UNCHANGED <<source, locks, selection, delays, providers, mihomo>>
            ELSE CleanupEnds(c)
\* then each target, behind the guard, until enough scans are quiet or the
\* deadline has passed.
CleanupNext(c) ==
  /\ At(c, "next")
  /\ UNCHANGED spent
  /\ \/ /\ work[c].targets # {} /\ Guarded(c)
        /\ Goes(c, "close")
        /\ UNCHANGED <<source, locks, selection, delays, providers, mihomo>>
     \/ work[c].targets # {} /\ ~Guarded(c) /\ CleanupEnds(c)
     \/ /\ work[c].targets = {} /\ work[c].quiet < QuietScans
        /\ Goes(c, "scan")
        /\ UNCHANGED <<source, locks, selection, delays, providers, mihomo>>
     \/ work[c].targets = {} /\ CleanupEnds(c)
CleanupClose(c) ==
  /\ At(c, "close")
  /\ \E chain \in work[c].targets, ok \in BOOLEAN :
       /\ Answers(ok)
       /\ mihomo' = IF ok THEN [mihomo EXCEPT !.open = @ \ {chain}] ELSE mihomo
       /\ work' = [work EXCEPT ![c].at = "next", ![c].targets = @ \ {chain}]
  /\ UNCHANGED <<source, locks, selection, delays, providers>>

-----------------------------------------------------------------------------
(* Group delay tests.                                                       *)

\* begin_group_delay_test: the targets are read and applied,
DelayLook(c) ==
  /\ Holds(c, "targets")
  /\ \E ok \in BOOLEAN :
       /\ Answers(ok)
       /\ IF ok THEN source' = Observed({"proxies"}) /\ Goes(c, "spawn") /\ UNCHANGED <<authority, command>>
          ELSE Leaves(c, "idle") /\ UNCHANGED source
  /\ UNCHANGED <<execution, selection, delays, providers, mihomo>>
\* and the test published, its control set and its task spawned.
DelaySpawn(c) ==
  /\ Holds(c, "spawn")
  /\ IF probe.id # 0 THEN UNCHANGED delays
     ELSE /\ test' = [NoTest EXCEPT !.id = spent.commands, !.phase = "Pending"]
          /\ probe' = [NoProbe EXCEPT !.id = spent.commands, !.at = "run",
                                      !.children = [k \in Children |-> "probe"]]
  /\ Leaves(c, "idle")
  /\ UNCHANGED <<source, execution, selection, providers, mihomo, spent>>

Cancelled == probe.cancelled \/ source.closed
Current == test.id = probe.id

\* run_child_delay: the probe ends or is cancelled,
ChildProbed(k) ==
  /\ probe.at = "run" /\ probe.children[k] = "probe"
  /\ \E ok \in BOOLEAN :
       /\ IF Cancelled THEN UNCHANGED spent ELSE Answers(ok)
       /\ probe' = [probe EXCEPT !.children[k] =
            IF Cancelled THEN "Cancelled" ELSE IF ok THEN "answered" ELSE "unanswered"]
  /\ UNCHANGED <<source, locks, selection, work, test, providers, mihomo>>
\* and its target is revalidated under the authority, and the catalog applied.
ChildRevalidated(k) ==
  /\ probe.at = "run" /\ probe.children[k] \in {"answered", "unanswered"} /\ Unheld
  /\ \E ok \in BOOLEAN :
       /\ Answers(ok)
       /\ source' = IF ok /\ ~Cancelled THEN Observed({"proxies"}) ELSE source
       /\ probe' = [probe EXCEPT !.children[k] =
            IF ~ok THEN "Failed" ELSE IF Cancelled THEN "Cancelled"
            ELSE IF @ = "answered" THEN "Success" ELSE "Failed"]
  /\ UNCHANGED <<locks, selection, work, test, providers, mihomo>>
\* run_group_delay_test: a result is recorded in the test it belongs to.
ChildRecorded(k) ==
  /\ probe.at = "run" /\ probe.children[k] \in {"Success", "Failed", "Cancelled"} /\ ~Cancelled
  /\ probe' = [probe EXCEPT !.children[k] = "done"]
  /\ test' = IF Current /\ test.phase \in {"Pending", "Progress"}
               THEN [test EXCEPT !.children[k] = probe.children[k], !.phase = "Progress"] ELSE test
  /\ UNCHANGED <<source, locks, selection, work, providers, mihomo, spent>>

\* mark_group_delay_cancelled.
Marked(t, id) ==
  IF t.id # id THEN t
  ELSE [t EXCEPT !.phase = "Cancelled",
          !.children = [k \in Children |-> IF t.children[k] = "Pending" THEN "Cancelled" ELSE t.children[k]]]
\* finish_group_delay_test.
Finished(t, id) ==
  LET good == {k \in Children : t.children[k] = "Success"}
  IN IF t.id # id \/ t.phase = "Cancelled" THEN t
     ELSE [t EXCEPT !.phase = IF good = Children THEN "Completed" ELSE IF good # {} THEN "Partial" ELSE "Failed"]

\* The loop ends, the end is recorded, the control given back.
TaskLoopEnds ==
  /\ probe.at = "run" /\ (Cancelled \/ \A k \in Children : probe.children[k] = "done")
  /\ probe' = [probe EXCEPT !.at = IF Cancelled THEN "mark" ELSE "finish"]
  /\ UNCHANGED <<source, locks, selection, work, test, providers, mihomo, spent>>
TaskEnds ==
  /\ probe.at \in {"mark", "finish"}
  /\ test' = IF probe.at = "mark" THEN Marked(test, probe.id) ELSE Finished(test, probe.id)
  /\ probe' = [probe EXCEPT !.at = "release"]
  /\ UNCHANGED <<source, locks, selection, work, providers, mihomo, spent>>
TaskReleases ==
  /\ probe.at = "release"
  /\ probe' = [NoProbe EXCEPT !.asked = probe.asked]
  /\ UNCHANGED <<source, locks, selection, work, test, providers, mihomo, spent>>

\* cancel_group_delay: the token first, then the published test.
CancelToken(c) ==
  /\ At(c, "cancel")
  /\ IF probe.id = 0 THEN Goes(c, "idle") /\ UNCHANGED probe
     ELSE /\ work' = [work EXCEPT ![c].at = "mark", ![c].op = probe.id]
          /\ probe' = [probe EXCEPT !.cancelled = TRUE]
  /\ UNCHANGED <<source, locks, selection, test, providers, mihomo, spent>>
CancelMark(c) ==
  /\ At(c, "mark")
  /\ test' = Marked(test, work[c].op)
  /\ probe' = [probe EXCEPT !.asked = @ \cup {work[c].op}]
  /\ Goes(c, "idle")
  /\ UNCHANGED <<source, locks, selection, providers, mihomo, spent>>

-----------------------------------------------------------------------------
(* Provider updates.  A command's targets are one provider or all of them.  *)

\* refresh_provider_inventory_kind: the phases are carried over.
Inventory == [p \in mihomo.providers |-> IF p \in DOMAIN providers THEN providers[p] ELSE "idle"]
\* mark_provider_pending, finish_provider_update.
Phase(inventory, ids, phase) ==
  [p \in DOMAIN inventory |-> IF p \in ids THEN phase ELSE inventory[p]]

\* The targets come from a fresh inventory and are marked pending.
Looks(c, ids) ==
  /\ Holds(c, "inventory")
  /\ \E ok \in BOOLEAN :
       /\ Answers(ok)
       /\ IF ok /\ ids \cap mihomo.providers # {}
            THEN /\ providers' = Phase(Inventory, ids, "pending")
                 /\ work' = [work EXCEPT ![c].at = "version", ![c].targets = ids \cap mihomo.providers]
                 /\ UNCHANGED <<authority, command>>
            ELSE Leaves(c, "idle") /\ providers' = IF ok THEN Inventory ELSE providers
  /\ UNCHANGED <<source, execution, selection, delays, mihomo>>
\* run_provider_update, run_all_provider_updates.
UpdateLook(c) == Looks(c, {"x"})
UpdateAllLook(c) == Looks(c, Providers)
\* The version is verified: a failure is every target's.
UpdateVersion(c) ==
  /\ Holds(c, "version")
  /\ \E ok \in BOOLEAN :
       /\ Answers(ok)
       /\ IF ok THEN Goes(c, "update") /\ UNCHANGED <<authority, command, providers>>
          ELSE Leaves(c, "idle") /\ providers' = Phase(providers, work[c].targets, "failure")
  /\ UNCHANGED <<source, execution, selection, delays, mihomo>>
\* Each provider in turn: a failure ends its own update.
UpdateEach(c) ==
  /\ Holds(c, "update") /\ work[c].targets # {}
  /\ \E p \in work[c].targets, ok \in BOOLEAN :
       /\ Answers(ok)
       /\ work' = [work EXCEPT ![c].targets = @ \ {p}, ![c].seen = IF ok THEN @ \cup {p} ELSE @]
       /\ providers' = IF ok THEN providers ELSE Phase(providers, {p}, "failure")
  /\ UNCHANGED <<source, locks, selection, delays, mihomo>>
\* The inventory is read back: what was accepted and is still there succeeded.
UpdateConfirm(c) ==
  /\ Holds(c, "update") /\ work[c].targets = {}
  /\ \E ok \in BOOLEAN :
       /\ Answers(ok)
       /\ providers' = IF ok THEN Phase(Inventory, work[c].seen, "success")
                       ELSE Phase(providers, work[c].seen, "failure")
  /\ Leaves(c, "idle")
  /\ UNCHANGED <<source, execution, selection, delays, mihomo>>

-----------------------------------------------------------------------------
Observation ==
  \/ CollectorReady \/ CollectorFails \/ PauseBegin \/ PauseStop \/ Resume \/ Close
  \/ \E asleep \in BOOLEAN : PauseInvalidate(asleep)
Elsewhere ==
  \/ \E child \in Children : SelectedElsewhere(child)
  \/ ConnectionOpens
  \/ \E p \in Providers : ProviderLeaves(p)
CommandStep(c) ==
  \/ StoreLatest(c) \/ Boundary(c) \/ Admit(c)
  \/ FailedRefresh(c) \/ ConnectionsRefresh(c)
  \/ RouteLook(c) \/ RouteSet(c) \/ RouteConfirm(c)
  \/ SelectLook(c) \/ SelectSend(c) \/ SelectConfirm(c)
  \/ Claim(c) \/ Execute(c) \/ CleanupScan(c) \/ CleanupRead(c) \/ CleanupRevalidate(c)
  \/ CleanupNext(c) \/ CleanupClose(c)
  \/ DelayLook(c) \/ DelaySpawn(c) \/ CancelToken(c) \/ CancelMark(c)
  \/ UpdateLook(c) \/ UpdateAllLook(c) \/ UpdateVersion(c) \/ UpdateEach(c) \/ UpdateConfirm(c)
DelayTask ==
  \/ \E k \in Children : ChildProbed(k) \/ ChildRevalidated(k) \/ ChildRecorded(k)
  \/ TaskLoopEnds \/ TaskEnds \/ TaskReleases
ControllerNext ==
  \/ Observation \/ Elsewhere \/ DelayTask
  \/ \E c \in Clients : CommandStep(c)
  \/ \E c \in Clients, kind \in UNION Mixes, child \in Children : Begin(c, kind, child)
ControllerSpec == ControllerInit /\ [][ControllerNext]_cvars

-----------------------------------------------------------------------------
(* A cleanup never closes a connection over a child that the newest         *)
(* selection made through Mish has chosen again: the guard on the newest    *)
(* selection and the execution boundary keep a cleanup and the selection    *)
(* that replaces it apart, wherever a thread is preempted.  The exception   *)
(* is a selection that is carried out although another one stored its id    *)
(* after it, in run_group_command, before it was admitted: the other one's  *)
(* cleanup then still takes its own selection for the newest.               *)
CleanupSparesSelected ==
  [][\A c \in Clients : CleanupClose(c) =>
       mihomo.now = work[c].child \/ mihomo.by # "newest"]_cvars

\* A delay test whose cancellation was answered never ends as a success, a
\* partial success or a failure (docs/architecture/mihomo-controller-integration.md).
CancelHolds == test.id \in probe.asked => test.phase = "Cancelled"

\* A provider shows a pending update only while a command works on it, whichever
\* of the command's calls fail and whatever leaves the inventory.
PendingIsOwned ==
  \A p \in DOMAIN providers : providers[p] = "pending" =>
    \E c \in Clients : work[c].kind = "provider" /\ work[c].at \in {"version", "update"}
                       /\ p \in work[c].targets \cup work[c].seen

\* The stored mapper can always be projected: snapshot() expects that it "has the
\* required observations".
SnapshotIsMappable == source.mapper # {} => {"config", "proxies"} \subseteq source.mapper
=============================================================================
