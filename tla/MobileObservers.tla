--------------------------- MODULE MobileObservers ---------------------------
(***************************************************************************)
(* What the mobile lifecycle runtime keeps for its observers: the bounded    *)
(* event history built from platform facts, and the one fixed diagnostic    *)
(* that may run at a time (mobile_events.rs and the diagnostic commands of  *)
(* android.rs).                                                             *)
(*                                                                         *)
(* A diagnostic is admitted under the diagnostic mutex, its task is spawned  *)
(* and its handle stored in later steps, and the task, a cancellation and    *)
(* the retirement of the runtime race to give it its terminal.               *)
(***************************************************************************)
EXTENDS Naturals, Sequences, SequencesExt

CONSTANTS
    Callers,      \* concurrent start or cancel calls
    MaxRuns,      \* diagnostics started
    MaxFacts,     \* platform facts observed
    EventLimit,   \* MOBILE_EVENTS_LIMIT
    DiagnosticLimit \* MOBILE_DIAGNOSTIC_HISTORY_LIMIT

ASSUME LimitsAssumption ==
    /\ EventLimit \in Nat \ {0} /\ DiagnosticLimit \in Nat \ {0}
    /\ MaxFacts \in Nat

VARIABLES
    diag,    \* [active, history, token, handle, retired]
    run,     \* each admitted run's task: [at, cancelled]
    dcall,    \* each caller's call
    ended,   \* runs given a terminal, in order
    events,  \* [last, session, sequence, kept]
    fact     \* sequence of the latest platform fact

movars == <<diag, run, dcall, ended, events, fact>>

Idle == [at |-> "idle"]
Bounded(seq, limit) == IF Len(seq) > limit THEN Tail(seq) ELSE seq

(***************************************************************************)
(* MobileDiagnosticAuthority.                                               *)
(***************************************************************************)
ValidTerminal(phase) == phase \in {"completed", "failed", "cancelled", "timed-out", "replaced"}

\* A late completion that is not compared with the active run.
MutantFinish(d, r, phase) ==
    [d EXCEPT !.active = {}, !.history = Bounded(Append(@, [run |-> r, phase |-> phase]), DiagnosticLimit)]

\* finish: only the active run, and only with a terminal of its kind.
Finish(d, r, phase) ==
    IF d.active = {r} /\ ValidTerminal(phase)
    THEN [d EXCEPT !.active = {}, !.history = Bounded(Append(@, [run |-> r, phase |-> phase]), DiagnosticLimit)]
    ELSE d

\* The runs this step gave a terminal.
Terminal(d, r) == IF d.history # diag.history THEN Append(ended, r) ELSE ended

(***************************************************************************)
(* start_diagnostic: admission, then the task, then its handle.             *)
(***************************************************************************)
StartDiagnostic(c) ==
    /\ dcall[c] = Idle
    /\ Len(run) < MaxRuns
    /\ diag.active = {}
    /\ run' = Append(run, [at |-> "admitted", cancelled |-> FALSE])
    /\ diag' = [diag EXCEPT !.active = {Len(run) + 1}, !.token = {Len(run) + 1}]
    /\ dcall' = [dcall EXCEPT ![c] = [at |-> "spawn", run |-> Len(run) + 1]]
    /\ UNCHANGED <<ended, events, fact>>

Spawn(c) ==
    /\ dcall[c].at = "spawn"
    /\ run' = [run EXCEPT ![dcall[c].run].at = "running"]
    /\ dcall' = [dcall EXCEPT ![c].at = "store"]
    /\ UNCHANGED <<diag, ended, events, fact>>

StoreHandle(c) ==
    /\ dcall[c].at = "store"
    /\ diag' = [diag EXCEPT !.handle = {dcall[c].run}]
    /\ dcall' = [dcall EXCEPT ![c] = Idle]
    /\ UNCHANGED <<run, ended, events, fact>>

\* The task's select: the platform's answer, its failure, the timeout or the
\* cancellation. Whatever it was, a platform that did not answer is cancelled.
TaskEnds(r) ==
    /\ run[r].at = "running"
    /\ \E result \in {"completed", "failed", "unusable", "none"} :
         run' = [run EXCEPT ![r] = [at |-> "answered", cancelled |-> @.cancelled, result |-> result]]
    /\ UNCHANGED <<diag, dcall, ended, events, fact>>

\* The terminal the task proposes for its run.
Proposed(r) ==
    CASE run[r].result \in {"completed", "failed"} -> run[r].result
      [] run[r].result = "unusable" -> "failed"
      [] run[r].cancelled -> "cancelled"
      [] OTHER -> "timed-out"

TaskFinishes(r) ==
    LET d == Finish(diag, r, Proposed(r))
    IN  /\ run[r].at = "answered"
        /\ run' = [run EXCEPT ![r].at = "gone"]
        /\ diag' = IF d = diag THEN diag ELSE [d EXCEPT !.token = {}]
        /\ ended' = Terminal(d, r)
        /\ UNCHANGED <<dcall, events, fact>>

(***************************************************************************)
(* cancel_diagnostic and retire_diagnostic end the active run themselves,    *)
(* cancel its task and wait for the handle they find.                        *)
(***************************************************************************)
CancelToken == IF diag.token = {} THEN run
               ELSE [run EXCEPT ![CHOOSE r \in diag.token : TRUE].cancelled = TRUE]

CancelDiagnostic(c) ==
    LET r == CHOOSE active \in diag.active : TRUE
        d == Finish(diag, r, "cancelled")
    IN  /\ dcall[c] = Idle
        /\ diag.active # {}
        /\ run' = CancelToken
        /\ diag' = [d EXCEPT !.token = {}, !.handle = {}]
        /\ ended' = Terminal(d, r)
        /\ dcall' = [dcall EXCEPT ![c] = [at |-> "wait", for |-> diag.handle]]
        /\ UNCHANGED <<events, fact>>

RetireDiagnostic(c) ==
    LET d == IF diag.active = {} THEN diag
             ELSE Finish(diag, CHOOSE r \in diag.active : TRUE, "replaced")
    IN  /\ dcall[c] = Idle
        /\ ~diag.retired
        /\ run' = CancelToken
        /\ diag' = [d EXCEPT !.token = {}, !.handle = {}, !.retired = TRUE]
        /\ ended' = IF diag.active = {} THEN ended
                    ELSE Terminal(d, CHOOSE r \in diag.active : TRUE)
        /\ dcall' = [dcall EXCEPT ![c] = [at |-> "wait", for |-> diag.handle]]
        /\ UNCHANGED <<events, fact>>

Waited(c) ==
    /\ dcall[c].at = "wait"
    /\ \A r \in dcall[c].for : run[r].at = "gone"
    /\ dcall' = [dcall EXCEPT ![c] = Idle]
    /\ UNCHANGED <<diag, run, ended, events, fact>>

(***************************************************************************)
(* MobileEventsAuthority.                                                   *)
(***************************************************************************)
Push(e, about) ==
    [e EXCEPT !.sequence = @ + 1,
              !.kept = Bounded(Append(@, [sequence |-> e.sequence + 1, about |-> about]), EventLimit)]

FromBaseline(f) ==
    Push([last |-> f, session |-> 1, sequence |-> 0, kept |-> <<>>], f)

\* After a gap a new session starts, with a reconciliation record first.
Reconciled(e, f) ==
    IF f > e.last + 1
    THEN Push([e EXCEPT !.session = @ + 1, !.sequence = 0, !.kept = <<>>], f - 1)
    ELSE e

\* observe: an older or repeated fact changes nothing.
Observe(e, f) ==
    IF f <= e.last THEN e ELSE Push([Reconciled(e, f) EXCEPT !.last = f], f)

\* The platform publishes; facts may be coalesced before they are reduced,
\* and one already reduced may be offered again.
FactObserved ==
    \E f \in 1..MaxFacts :
      /\ f <= fact + 2
      /\ fact' = IF f > fact THEN f ELSE fact
      /\ events' = Observe(events, f)
      /\ events' # events
      /\ UNCHANGED <<diag, run, dcall, ended>>

MobileObserversInit ==
    /\ diag = [active |-> {}, history |-> <<>>, token |-> {}, handle |-> {}, retired |-> FALSE]
    /\ run = <<>>
    /\ dcall = [c \in Callers |-> Idle]
    /\ ended = <<>>
    /\ fact = 1
    /\ events = FromBaseline(1)

MobileObserversNext ==
    \/ \E c \in Callers : \/ StartDiagnostic(c) \/ Spawn(c) \/ StoreHandle(c)
                          \/ CancelDiagnostic(c) \/ RetireDiagnostic(c) \/ Waited(c)
    \/ \E r \in 1..Len(run) : TaskEnds(r) \/ TaskFinishes(r)
    \/ FactObserved

MobileObserversSpec == MobileObserversInit /\ [][MobileObserversNext]_movars

(***************************************************************************)
(* Properties.                                                              *)
(***************************************************************************)
\* Every diagnostic that was admitted is active or has exactly one terminal:
\* the task, a cancellation and the retirement never both give it one, and
\* never none.
OneTerminal ==
    /\ IsInjective(ended)
    /\ \A r \in 1..Len(run) : (r \in diag.active) # (r \in Range(ended))

\* The retained events of one session are about consecutive facts: a gap in
\* the fact sequence starts a new session instead of hiding in this one.
EventsHaveNoHole ==
    \A i \in 1..Len(events.kept) - 1 : events.kept[i + 1].about = events.kept[i].about + 1

\* A diagnostic run has one terminal, and the list of mobile events has no hole.
ObservationsAreWhole == OneTerminal /\ EventsHaveNoHole
=============================================================================
