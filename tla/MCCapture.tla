----------------------------- MODULE MCCapture -----------------------------
(***************************************************************************)
(* Capture with three sets of callers, one of which the initial state      *)
(* chooses: an aggregate launch beside requests, audits and recoveries;    *)
(* requests, audits and recoveries that panic or outlive a shutdown's      *)
(* deadline; and a shutdown of a launched Capture.                         *)
(***************************************************************************)
EXTENDS Capture

VARIABLE unit  \* the callers that take part

mcvars == <<unit, vars>>

\* Requests, the first set, is Capture with the constants of the configuration.
Panics == INSTANCE Capture WITH
  Actors <- {"call", "audit", "recover", "shutdown"}, Faults <- {"panic", "deadline"},
  MaxOperations <- 2, TaskId <- 1..4
Releases == INSTANCE Capture WITH
  Actors <- {"launch", "audit", "shutdown"}, Faults <- {"panic", "deadline"},
  MaxOperations <- 2, TaskId <- 1..4

MCInit == unit \in {"requests", "panics", "releases"} /\ Init

MCNext ==
  /\ \/ unit = "requests" /\ Next
     \/ unit = "panics" /\ Panics!Next
     \/ unit = "releases" /\ Releases!Next
  /\ UNCHANGED unit

\* tokio's mutex is fair (Enter), tasks, actor and callers are scheduled.
MCFairness ==
  /\ \A t \in 1..4 :
       /\ SF_vars(unit = "requests" /\ Enter(t))
       /\ WF_vars(unit = "requests" /\ (\/ Finish(t) \/ LoadJournal(t)
                                        \/ CommitAudit(t) \/ Preflight(t)))
       /\ SF_vars(unit = "requests" /\ Join(t))
  /\ WF_vars(unit = "requests" /\ LaunchStep)
  /\ WF_vars(unit = "requests" /\ CallLearns)

MCSpec == MCInit /\ [][MCNext]_mcvars /\ MCFairness
-----------------------------------------------------------------------------
\* At rest, Capture publishes what the platform reconciler established last, and
\* what it publishes as Applied is held; its shutdown answers Ok only if nothing
\* of the proxy is left (a plain request racing a shutdown is the subject of a
\* run of its own).
CaptureIsTrue ==
  /\ unit = "requests" => AppliedIsHeld
  /\ unit = "panics" => Panics!PublishedIsCurrent
  /\ unit = "releases" => Releases!ShutdownReleases

\* Capture never stays Pending or Finalizing, and a launch that reserved its
\* operation returns.
BusyEnds == unit = "requests" => OperationsEnd
=============================================================================
