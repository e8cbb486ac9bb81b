----------------------------- MODULE HelperGate -----------------------------
(***************************************************************************)
(* Requests to the privileged Helper: the client's challenge handshake and *)
(* its time limits, the connection tasks of the Helper, the gate that      *)
(* issues and consumes challenges, and the maintenance client that         *)
(* observes, waits for the owner's death and disables with bounded         *)
(* retries.                                                                *)
(*                                                                         *)
(* A request the client gave up on is still in the Helper: its connection  *)
(* task reads the proof from the socket after the client has gone.  What   *)
(* the commands do is one value here (the owner of TUN); module TunHelper  *)
(* has the detail.  The client's limit (service_request_timeout, 11 s or   *)
(* more) runs from its connect, the five seconds of a challenge from its   *)
(* issue: when the Helper accepts late, a client gives up while its proof  *)
(* is still good.                                                          *)
(***************************************************************************)
EXTENDS Naturals, Sequences, FiniteSets, SequencesExt

CONSTANTS
  Conns,           \* connection tasks (SERVICE_CONNECTION_TASK_LIMIT)
  MaxOutstanding,  \* DEV_CORE_HOST_MAX_OUTSTANDING_CHALLENGES
  ReplayWindow,    \* DEV_CORE_HOST_REPLAY_WINDOW
  Attempts,        \* attempts of one maintenance request
  MaxRequests,     \* bounds on requests
  MaxFaults        \*   and on failing steps and lost connections

VARIABLES
  gate,       \* ServiceRequestGate
  conn,       \* the connection tasks and what is in their sockets
  client,     \* the application's command stream and the maintenance tool
  tun,        \* {} or the Core that has TUN: its owner and, as history, whether
              \* its start had been given up on while the proof was still good
  running,    \* the connection whose command the lifecycle machine runs
  counted     \* requests made and faults spent

gvars == <<gate, conn, client, tun, running, counted>>

Clients == {"app", "ctl"}

FreeConn   == [at |-> "free", from |-> "app", cmd |-> "status", req |-> 0,
               there |-> FALSE, proof |-> FALSE, aged |-> FALSE, early |-> FALSE, answer |-> "none"]
IdleClient == [at |-> "idle", cmd |-> "status", told |-> "none", attempt |-> 0, saw |-> FALSE]

CanFault == counted.faults < MaxFaults
Fault    == counted' = [counted EXCEPT !.faults = @ + 1]

ConnOf(c) == {k \in Conns : conn[k].there /\ conn[k].from = c}

---------------------------------------------------------------------------
(* ServiceRequestGate.                                                     *)

Replayed(req) == req \in ToSet(gate.recent) \/ \E o \in gate.outstanding : o.req = req

Remember(req) ==
  LET recent == Append(gate.recent, req)
  IN IF Len(recent) > ReplayWindow THEN Tail(recent) ELSE recent

GateBegin(k) ==
  [outstanding |-> gate.outstanding \cup {[conn |-> k, req |-> conn[k].req]},
   recent |-> Remember(conn[k].req)]

GateTake(k) ==
  [gate EXCEPT !.outstanding = {o \in @ : o.conn # k \/ o.req # conn[k].req}]

GateCancel(k) == GateTake(k)

(* A bug: the proof is checked, the age of its challenge is not. *)
MutantExpired(k) == FALSE

(* verify_challenge_proof: the time limits of a challenge. *)
Expired(k) == conn[k].aged

---------------------------------------------------------------------------
(* The client.                                                             *)

(* map_service_response_error, map_host_error: what a caller learns.       *)
Outcome(answer) ==
  CASE answer = "ok" -> "ok" [] answer = "failed" -> "failed" [] answer = "rejected" -> "rejected"

(* request_with_id: one command at a time per process, on a connection of  *)
(* its own.                                                                *)
RequestWithId(c, cmd) ==
  /\ counted.requests < MaxRequests
  /\ \E k \in Conns :
       /\ conn[k].at = "free" /\ \A j \in Conns : conn[j].at = "free" => k <= j
       /\ conn' = [conn EXCEPT ![k] = [FreeConn EXCEPT !.at = "first", !.from = c, !.cmd = cmd,
                                                       !.req = counted.requests + 1, !.there = TRUE]]
  /\ client' = [client EXCEPT ![c].at = "challenge", ![c].cmd = cmd]
  /\ counted' = [counted EXCEPT !.requests = @ + 1]
  /\ UNCHANGED <<gate, tun, running>>

Command(cmd) == client["app"].at = "idle" /\ RequestWithId("app", cmd)

Health == client["app"].at = "idle" /\ RequestWithId("app", "health")

Told(c, outcome) == [client EXCEPT ![c].at = "told", ![c].told = outcome]

(* The challenge is checked and signed; an answer that is none ends it.    *)
SendProof(c) ==
  /\ client[c].at = "sign"
  /\ \E k \in ConnOf(c) :
       \/ /\ ~conn[k].aged /\ conn' = [conn EXCEPT ![k].proof = TRUE]
          /\ client' = [client EXCEPT ![c].at = "response"] /\ UNCHANGED counted
       \/ /\ conn[k].aged \/ CanFault
          /\ IF conn[k].aged THEN UNCHANGED counted ELSE Fault
          /\ conn' = [conn EXCEPT ![k].there = FALSE]
          /\ client' = Told(c, IF conn[k].aged THEN "protocol" ELSE "rejected")
  /\ UNCHANGED <<gate, tun, running>>

(* The time limit of the whole request may strike at any of its steps.     *)
(* `early` is history: the proof was in the socket and still good.         *)
GiveUp(c) ==
  /\ client[c].at \in {"challenge", "sign", "response"} /\ CanFault /\ Fault
  /\ \E k \in ConnOf(c) :
       conn' = [conn EXCEPT ![k].there = FALSE,
                            ![k].early = conn[k].at = "proof" /\ conn[k].proof /\ ~conn[k].aged]
  /\ client' = Told(c, "unavailable")
  /\ UNCHANGED <<gate, tun, running>>

---------------------------------------------------------------------------
(* The Helper's connection task: handle_connection.                        *)

Answered(k, answer) == conn' = [conn EXCEPT ![k].at = "reply", ![k].answer = answer]

ReadFirst(k) ==
  /\ conn[k].at = "first"
  /\ CASE conn[k].cmd = "health" -> Answered(k, "ok") /\ UNCHANGED gate
       [] conn[k].cmd # "health" /\ (Replayed(conn[k].req)
                                     \/ Cardinality(gate.outstanding) >= MaxOutstanding) ->
            Answered(k, "rejected") /\ UNCHANGED gate
       [] OTHER -> gate' = GateBegin(k) /\ conn' = [conn EXCEPT ![k].at = "write"]
  /\ UNCHANGED <<client, tun, running, counted>>

(* The challenge is written; a client that has gone ends the task here,    *)
(* and the challenge stays outstanding.                                    *)
WriteChallenge(k) ==
  /\ conn[k].at = "write"
  /\ IF conn[k].there
     THEN /\ conn' = [conn EXCEPT ![k].at = "proof"]
          /\ client' = [client EXCEPT ![conn[k].from].at = "sign"]
     ELSE conn' = [conn EXCEPT ![k] = FreeConn] /\ UNCHANGED client
  /\ UNCHANGED <<gate, tun, running, counted>>

(* Five seconds pass. *)
ChallengeAges(k) ==
  /\ conn[k].at \in {"write", "proof"} /\ ~conn[k].aged
  /\ conn' = [conn EXCEPT ![k].aged = TRUE]
  /\ UNCHANGED <<gate, client, tun, running, counted>>

NoProof(k) ==
  /\ conn[k].at = "proof" /\ ~conn[k].proof /\ (conn[k].aged \/ ~conn[k].there)
  /\ gate' = GateCancel(k) /\ conn' = [conn EXCEPT ![k] = FreeConn]
  /\ client' = IF conn[k].there THEN Told(conn[k].from, "unavailable") ELSE client
  /\ UNCHANGED <<tun, running, counted>>

(* The challenge is consumed, the proof verified, and execute_request asks *)
(* the lifecycle machine, which runs one command at a time.                *)
ReadProof(k) ==
  /\ conn[k].at = "proof" /\ conn[k].proof
  /\ gate' = GateTake(k)
  /\ IF Expired(k) \/ running # {}
     THEN Answered(k, "rejected") /\ UNCHANGED running
     ELSE conn' = [conn EXCEPT ![k].at = "run"] /\ running' = {k}
  /\ UNCHANGED <<client, tun, counted>>

(* The command: only one Core runs, and only the process that owns it may  *)
(* stop it while that process lives.                                       *)
AlreadyOwned(k) == conn[k].cmd = "start" /\ tun # {}

OwnerMismatch(k) ==
  /\ conn[k].cmd = "disable" /\ client["app"].at # "gone"
  /\ \E core \in tun : core.owner # conn[k].from

ExecuteRequest(k) ==
  /\ conn[k].at = "run" /\ running' = {}
  /\ \/ /\ AlreadyOwned(k) \/ OwnerMismatch(k)
        /\ Answered(k, "rejected") /\ UNCHANGED <<tun, counted>>
     \/ /\ ~AlreadyOwned(k) /\ ~OwnerMismatch(k) /\ Answered(k, "ok") /\ UNCHANGED counted
        /\ tun' = CASE conn[k].cmd = "start" -> {[owner |-> conn[k].from, early |-> conn[k].early]}
                    [] conn[k].cmd = "disable" -> {} [] OTHER -> tun
     \/ CanFault /\ Fault /\ Answered(k, "failed") /\ UNCHANGED tun
  /\ UNCHANGED <<gate, client>>

WriteResponse(k) ==
  /\ conn[k].at = "reply" /\ conn' = [conn EXCEPT ![k] = FreeConn]
  /\ client' = IF ~conn[k].there THEN client
               ELSE [Told(conn[k].from, Outcome(conn[k].answer))
                      EXCEPT ![conn[k].from].saw = IF conn[k].answer = "ok" THEN tun # {} ELSE @]
  /\ UNCHANGED <<gate, tun, running, counted>>

(* owner_monitor: the Core of a process that died is stopped. *)
OwnerMonitor ==
  /\ tun # {} /\ client["app"].at = "gone" /\ running = {} /\ tun' = {}
  /\ UNCHANGED <<gate, conn, client, running, counted>>

---------------------------------------------------------------------------
(* What the callers do with an answer.                                     *)

AppGoesOn ==
  /\ client["app"].at = "told" /\ client' = [client EXCEPT !["app"].at = "idle"]
  /\ UNCHANGED <<gate, conn, tun, running, counted>>

(* maintenance_request_with_retry: refused and unavailable are tried again *)
(* under the next identity.                                                *)
Retries(c) == c.told \in {"rejected", "unavailable"} /\ c.attempt + 1 < Attempts

(* admit_maintenance_reconciliation. *)
AdmitMaintenance ==
  /\ client["ctl"].at = "idle" /\ RequestWithId("ctl", "status")

(* complete_maintenance_reconciliation. *)
NeededDisable(c) == c.saw

Maintain ==
  /\ client["ctl"].at = "told"
  /\ LET c == client["ctl"] IN
     \/ /\ Retries(c) /\ UNCHANGED tun
        /\ client' = [client EXCEPT !["ctl"].at = "again", !["ctl"].attempt = @ + 1]
     \/ /\ ~Retries(c) /\ c.told = "ok" /\ c.cmd = "status" /\ UNCHANGED tun
        /\ client' = IF NeededDisable(c)
                     THEN [client EXCEPT !["ctl"].at = "terminate", !["ctl"].attempt = 0]
                     ELSE [client EXCEPT !["ctl"].at = "done"]
     \/ /\ ~Retries(c) /\ (c.told # "ok" \/ c.cmd = "disable") /\ UNCHANGED tun
        /\ client' = [client EXCEPT !["ctl"].at = "done",
                        !["ctl"].told = IF c.told = "ok" /\ c.saw THEN "failed" ELSE @]
  /\ UNCHANGED <<gate, conn, running, counted>>

RetryMaintenance == client["ctl"].at = "again" /\ RequestWithId("ctl", client["ctl"].cmd)

(* terminate_running_mish_app: the owner's connections close with it.      *)
TerminateApp ==
  /\ client["ctl"].at = "terminate"
  /\ client' = [client EXCEPT !["app"].at = "gone", !["ctl"].at = "again", !["ctl"].cmd = "disable"]
  /\ conn' = [k \in Conns |-> IF k \in ConnOf("app") THEN [conn[k] EXCEPT !.there = FALSE]
                                                      ELSE conn[k]]
  /\ UNCHANGED <<gate, tun, running, counted>>

---------------------------------------------------------------------------
GateInit ==
  /\ gate = [outstanding |-> {}, recent |-> <<>>]
  /\ conn = [k \in Conns |-> FreeConn]
  /\ client = [c \in Clients |-> IdleClient]
  /\ tun = {} /\ running = {}
  /\ counted = [requests |-> 0, faults |-> 0]

GateNext ==
  \/ \E cmd \in {"start", "disable", "status"} : Command(cmd)
  \/ Health \/ AppGoesOn \/ AdmitMaintenance \/ Maintain \/ RetryMaintenance \/ TerminateApp
  \/ \E c \in Clients : SendProof(c) \/ GiveUp(c)
  \/ \E k \in Conns : ReadFirst(k) \/ WriteChallenge(k) \/ ChallengeAges(k) \/ NoProof(k)
                      \/ ReadProof(k) \/ ExecuteRequest(k) \/ WriteResponse(k)
  \/ OwnerMonitor

GateSpec == GateInit /\ [][GateNext]_gvars

---------------------------------------------------------------------------
(* A start the application gave up on does not take effect behind a later  *)
(* disable: once the Helper has confirmed TUN off and the application has  *)
(* asked for nothing since, TUN stays off, although the proof of the       *)
(* abandoned start may still be in the Helper's socket (expiry in          *)
(* verify_challenge_proof).  The one exception is a start whose proof was  *)
(* within the five seconds of its challenge when the application's own     *)
(* limit struck, which takes a Helper that accepted the connection late:   *)
(* that start may turn TUN on again, and only such a one.                  *)
OffStaysOff ==
  /\ client["app"].at \in {"told", "idle"}
  /\ client["app"].cmd = "disable" /\ client["app"].told = "ok"
  => \A core \in tun : core.early
=============================================================================
