--------------------------- MODULE MCSystemProxy ---------------------------
(***************************************************************************)
(* Two network services, one of them irreversible at times.  The initial   *)
(* state chooses what may happen: failing calls, cancellations and crashes *)
(* around starts, stops and audits, or launches that were prepared by an   *)
(* earlier preflight.                                                      *)
(***************************************************************************)
EXTENDS SystemProxy

VARIABLE scenario

MCInit == Init /\ scenario \in {"audits", "preflights"}

MCNext ==
  /\ Next
  /\ scenario = "audits" => preflight' = NoPreflight
  /\ scenario = "preflights" => faults' = 0 /\ crashes' = 0
  /\ UNCHANGED scenario

MCSpec == MCInit /\ [][MCNext]_<<vars, scenario>> /\ Fairness
=============================================================================
