----------------------------- MODULE MCRestore -----------------------------
(***************************************************************************)
(* Backups of one profile, of no profile and of the settings alone,        *)
(* restored over an empty and a non-empty store.                           *)
(***************************************************************************)
EXTENDS Restore

Entry(content) == [id |-> "a", rev |-> 2, patch |-> 1, content |-> content]
AtLogin == [other |-> 1, login |-> TRUE]

MCManifests ==
  {[touches |-> TRUE, entries |-> <<Entry(TRUE)>>, settings |-> {AtLogin}],
   [touches |-> TRUE, entries |-> <<Entry(FALSE)>>, settings |-> {}],
   [touches |-> TRUE, entries |-> <<>>, settings |-> {}],
   [touches |-> FALSE, entries |-> <<>>, settings |-> {AtLogin}]}
MCStores == {{}, {[i \in {"a"} |-> [rev |-> 1, patch |-> 0]]}}
=============================================================================
