--------------------------- MODULE PlatformProofs ---------------------------
(***************************************************************************)
(* What is proved about the platform services that MCPlatform composes:    *)
(* the helper's gate, the Android observers, the settings service and the  *)
(* journal of the helper's removal.                                        *)
(***************************************************************************)
EXTENDS HelperGate, MobileObservers, SettingsService, HelperLifecycle, Integers, SequenceTheorems, TLAPS

(***************************************************************************)
(* The helper's gate: a confirmed disable holds, for any number of         *)
(* connection tasks, any size of the gate's tables and any number of       *)
(* requests and faults.                                                    *)
(***************************************************************************)
Commands == {"start", "disable", "status", "health"}
Answers  == {"none", "ok", "failed", "rejected"}
Outcomes == {"none", "ok", "failed", "rejected", "protocol", "unavailable"}
Asking   == {"challenge", "sign", "response"}
Resting  == {"idle", "told", "gone", "again", "terminate", "done"}

Conn   == [at : {"free", "first", "write", "proof", "run", "reply"}, from : Clients,
           cmd : Commands, req : Nat, there : BOOLEAN, proof : BOOLEAN, aged : BOOLEAN,
           early : BOOLEAN, answer : Answers]
Client == [at : Asking \cup Resting, cmd : Commands, told : Outcomes, attempt : Nat,
           saw : BOOLEAN]

\* The connections, the clients and what the commands act on are well typed.
Typed ==
  /\ conn \in [Conns -> Conn]
  /\ client \in [Clients -> Client]
  /\ tun \in SUBSET [owner : {"app"}, early : BOOLEAN] /\ running \in SUBSET Conns
  /\ counted \in [requests : Nat, faults : Nat]

\* Only the application starts TUN.
OnlyAppStarts ==
  /\ client["ctl"].cmd # "start"
  /\ \A k \in Conns : conn[k].cmd = "start" => conn[k].from = "app"

\* The lifecycle machine runs one command.
OneRuns == \A k \in Conns : conn[k].at = "run" => running = {k}

\* A client is on one connection.
OnePerClient ==
  \A j, k \in Conns : conn[j].there /\ conn[k].there /\ conn[j].from = conn[k].from => j = k

\* It waits there for the command it asked for, and while it signs its proof is
\* still to come.
ClientWaits ==
  \A k \in Conns : conn[k].there =>
    /\ client[conn[k].from].at \in Asking
    /\ client[conn[k].from].cmd = conn[k].cmd
    /\ client[conn[k].from].at = "sign" => conn[k].at = "proof" /\ ~conn[k].proof

\* A proof follows its challenge, and an answer is one before it is written.
StagesInOrder ==
  /\ \A k \in Conns : conn[k].at \in {"first", "write"} => ~conn[k].proof
  /\ \A k \in Conns : conn[k].at = "reply" => conn[k].answer # "none"

OnOneConnection == OnePerClient /\ ClientWaits /\ StagesInOrder

\* What the application walked away from can no longer be proven in time, unless
\* its proof was good at that moment.
AbandonedIsExpired ==
  client["app"].at # "gone" =>
    \A k \in Conns : conn[k].from = "app" /\ ~conn[k].there /\ conn[k].at = "proof" =>
      ~conn[k].proof \/ conn[k].aged \/ conn[k].early

\* The application was told that TUN is off, or the answer is on its way.
DisableConfirmed ==
  \/ client["app"].at \in {"told", "idle"} /\ client["app"].cmd = "disable" /\ client["app"].told = "ok"
  \/ \E k \in Conns : /\ conn[k].there /\ conn[k].from = "app" /\ conn[k].cmd = "disable"
                      /\ conn[k].at = "reply" /\ conn[k].answer = "ok"

ConfirmedIsOff ==
  DisableConfirmed =>
    /\ \A core \in tun : core.early
    /\ \A k \in Conns : conn[k].at = "run" /\ conn[k].cmd = "start" => conn[k].early

GateInv ==
  /\ Typed /\ OnlyAppStarts /\ OneRuns /\ OnOneConnection /\ AbandonedIsExpired
  /\ ConfirmedIsOff

-----------------------------------------------------------------------------

USE DEF Clients, Commands, Answers, Outcomes, Asking, Resting, Conn, Client

\* What the steps write into a connection and into a client is well typed.
LEMMA ConnUpdates ==
  ASSUME Typed, NEW k \in Conns
  PROVE  /\ [conn EXCEPT ![k].proof = TRUE] \in [Conns -> Conn]
         /\ [conn EXCEPT ![k].there = FALSE] \in [Conns -> Conn]
         /\ \A e \in BOOLEAN : [conn EXCEPT ![k].there = FALSE, ![k].early = e] \in [Conns -> Conn]
         /\ [conn EXCEPT ![k].aged = TRUE] \in [Conns -> Conn]
         /\ [conn EXCEPT ![k] = FreeConn] \in [Conns -> Conn]
         /\ [conn EXCEPT ![k].at = "write"] \in [Conns -> Conn]
         /\ [conn EXCEPT ![k].at = "proof"] \in [Conns -> Conn]
         /\ [conn EXCEPT ![k].at = "run"] \in [Conns -> Conn]
         /\ \A answer \in Answers :
              [conn EXCEPT ![k].at = "reply", ![k].answer = answer] \in [Conns -> Conn]
         /\ conn[k] \in Conn
<1> DEFINE r == conn[k]
<1>1. r \in Conn
  BY DEF Typed
<1>2. /\ [r EXCEPT !.proof = TRUE] \in Conn
      /\ [r EXCEPT !.there = FALSE] \in Conn
      /\ \A e \in BOOLEAN : [r EXCEPT !.there = FALSE, !.early = e] \in Conn
      /\ [r EXCEPT !.aged = TRUE] \in Conn
      /\ FreeConn \in Conn
  BY <1>1 DEF FreeConn
<1>3. /\ [r EXCEPT !.at = "write"] \in Conn
      /\ [r EXCEPT !.at = "proof"] \in Conn
      /\ [r EXCEPT !.at = "run"] \in Conn
  BY <1>1
<1>4. \A answer \in Answers : [r EXCEPT !.at = "reply", !.answer = answer] \in Conn
  BY <1>1
<1>5. conn \in [Conns -> Conn]
  BY DEF Typed
<1> HIDE DEF Conn, FreeConn
<1>6. \A q \in Conn : [conn EXCEPT ![k] = q] \in [Conns -> Conn]
  BY <1>5
<1> QED
  BY <1>1, <1>2, <1>3, <1>4, <1>6

\* The same for the record of a client.
LEMMA ClientUpdates ==
  ASSUME Typed, NEW c \in Clients
  PROVE  /\ [client EXCEPT ![c].at = "sign"] \in [Clients -> Client]
         /\ [client EXCEPT ![c].at = "response"] \in [Clients -> Client]
         /\ \A told \in Outcomes :
              [client EXCEPT ![c].at = "told", ![c].told = told] \in [Clients -> Client]
<1> DEFINE r == client[c]
<1>1. r \in Client
  BY DEF Typed
<1>2. [r EXCEPT !.at = "sign"] \in Client /\ [r EXCEPT !.at = "response"] \in Client
  BY <1>1
<1>3. \A told \in Outcomes : [r EXCEPT !.at = "told", !.told = told] \in Client
  BY <1>1
<1>4. client \in [Clients -> Client]
  BY DEF Typed
<1> HIDE DEF Client
<1>5. \A q \in Client : [client EXCEPT ![c] = q] \in [Clients -> Client]
  BY <1>4
<1> QED
  BY <1>2, <1>3, <1>5

\* A Helper that has just started.
LEMMA GateInitial == GateInit => GateInv
BY DEF GateInit, GateInv, Typed, OnlyAppStarts, OneRuns, OnOneConnection, OnePerClient, ClientWaits, StagesInOrder, AbandonedIsExpired,
       ConfirmedIsOff, DisableConfirmed, FreeConn, IdleClient

\* A new request.
LEMMA RequestKeeps ==
  ASSUME GateInv, NEW c \in Clients, NEW cmd \in Commands, RequestWithId(c, cmd),
         client[c].at \in {"idle", "again"}, cmd = "start" => c = "app"
  PROVE  GateInv'
<1> USE DEF RequestWithId, FreeConn
<1>1. PICK k \in Conns : /\ conn[k].at = "free"
                         /\ conn' = [conn EXCEPT ![k] = [FreeConn EXCEPT !.at = "first", !.from = c, !.cmd = cmd,
                                                       !.req = counted.requests + 1, !.there = TRUE]]
  OBVIOUS
<1>2. Typed'
  <2>1. conn' \in [Conns -> Conn]
    <3> DEFINE r == [FreeConn EXCEPT !.at = "first", !.from = c, !.cmd = cmd,
                                     !.req = counted.requests + 1, !.there = TRUE]
    <3>1. counted.requests + 1 \in Nat
      BY DEF GateInv, Typed
    <3>2. r \in Conn
      BY <3>1
    <3>3. conn' = [conn EXCEPT ![k] = r]
      BY <1>1
    <3> HIDE DEF r
    <3> QED
      BY <3>2, <3>3 DEF GateInv, Typed
  <2>2. client' \in [Clients -> Client]
    <3> DEFINE q == [client[c] EXCEPT !.at = "challenge", !.cmd = cmd]
    <3>1. client[c] \in Client
      BY DEF GateInv, Typed
    <3>3. q \in Client
      <4> DEFINE old == client[c]
      <4>1. old \in Client /\ q = [old EXCEPT !.at = "challenge", !.cmd = cmd]
        BY <3>1
      <4> HIDE DEF old, q
      <4> QED
        BY <4>1
    <3>2. client' = [client EXCEPT ![c] = q]
      OBVIOUS
    <3> HIDE DEF q, Client
    <3> QED
      BY <3>2, <3>3 DEF GateInv, Typed
  <2>3. counted' \in [requests : Nat, faults : Nat]
    BY DEF GateInv, Typed
  <2> QED
    BY <2>1, <2>2, <2>3 DEF GateInv, Typed
<1>3. OnlyAppStarts' /\ OneRuns'
  BY <1>1 DEF GateInv, Typed, OnlyAppStarts, OneRuns
<1>4. OnOneConnection'
  <2>1. OnePerClient'
    BY <1>1 DEF GateInv, Typed, OnOneConnection, OnePerClient, ClientWaits
  <2>2. ClientWaits'
    BY <1>1 DEF GateInv, Typed, OnOneConnection, OnePerClient, ClientWaits, StagesInOrder
  <2>3. StagesInOrder'
    BY <1>1 DEF GateInv, Typed, OnOneConnection, ClientWaits, StagesInOrder
  <2> QED
    BY <2>1, <2>2, <2>3 DEF OnOneConnection
<1>5. AbandonedIsExpired'
  BY <1>1 DEF GateInv, Typed, AbandonedIsExpired
<1>6. ConfirmedIsOff'
  BY <1>1 DEF GateInv, Typed, ConfirmedIsOff, DisableConfirmed
<1> QED
  BY <1>2, <1>3, <1>4, <1>5, <1>6 DEF GateInv
\* The client sends its proof, or finds that it cannot.
LEMMA SendProofKeeps ==
  ASSUME GateInv, NEW c \in Clients, SendProof(c)
  PROVE  GateInv'
<1> USE DEF SendProof, ConnOf, Told, Fault, CanFault
<1>0. PICK k \in ConnOf(c) :
        \/ /\ ~conn[k].aged /\ conn' = [conn EXCEPT ![k].proof = TRUE]
           /\ client' = [client EXCEPT ![c].at = "response"] /\ UNCHANGED counted
        \/ /\ conn[k].aged \/ CanFault
           /\ IF conn[k].aged THEN UNCHANGED counted ELSE Fault
           /\ conn' = [conn EXCEPT ![k].there = FALSE]
           /\ client' = Told(c, IF conn[k].aged THEN "protocol" ELSE "rejected")
  OBVIOUS
<1>a. CASE /\ ~conn[k].aged /\ conn' = [conn EXCEPT ![k].proof = TRUE]
           /\ client' = [client EXCEPT ![c].at = "response"] /\ UNCHANGED counted
  <2>1. Typed'
    <3> HIDE DEF Conn, Client
    <3>1. Typed
      BY DEF GateInv
    <3> QED
      BY <1>a, <3>1, ConnUpdates, ClientUpdates DEF Typed
  <2>2. OnlyAppStarts' /\ OneRuns'
    BY <1>a DEF GateInv, Typed, OnlyAppStarts, OneRuns
  <2>3. OnOneConnection'
    BY <1>a DEF GateInv, Typed, OnOneConnection, OnePerClient, ClientWaits, StagesInOrder
  <2>4. AbandonedIsExpired'
    BY <1>a DEF GateInv, Typed, OnOneConnection, OnePerClient, ClientWaits, StagesInOrder, AbandonedIsExpired
  <2>5. ConfirmedIsOff'
    BY <1>a DEF GateInv, Typed, OnOneConnection, OnePerClient, ClientWaits, StagesInOrder, ConfirmedIsOff, DisableConfirmed
  <2> QED
    BY <2>1, <2>2, <2>3, <2>4, <2>5 DEF GateInv
<1>b. CASE /\ IF conn[k].aged THEN UNCHANGED counted ELSE Fault
           /\ conn' = [conn EXCEPT ![k].there = FALSE]
           /\ client' = Told(c, IF conn[k].aged THEN "protocol" ELSE "rejected")
  <2>1. Typed'
    <3> HIDE DEF Conn, Client
    <3>1. Typed
      BY DEF GateInv
    <3>2. conn' \in [Conns -> Conn] /\ client' \in [Clients -> Client]
      BY <1>b, <3>1, ConnUpdates, ClientUpdates
    <3> QED
      BY <1>b, <3>1, <3>2 DEF Typed
  <2>2. OnlyAppStarts' /\ OneRuns'
    BY <1>b DEF GateInv, Typed, OnlyAppStarts, OneRuns
  <2>3. OnOneConnection'
    BY <1>b DEF GateInv, Typed, OnOneConnection, OnePerClient, ClientWaits, StagesInOrder
  <2>4. AbandonedIsExpired'
    <3>1. conn[k].at = "proof" => ~conn[k].proof \/ conn[k].aged
      BY DEF GateInv, OnOneConnection, OnePerClient, ClientWaits, StagesInOrder
    <3> QED
      BY <1>b, <3>1 DEF GateInv, Typed, AbandonedIsExpired
  <2>5. ConfirmedIsOff'
    <3>1. DisableConfirmed' => DisableConfirmed
      BY <1>b DEF GateInv, Typed, DisableConfirmed
    <3>2. \A j \in Conns : /\ conn'[j].at = conn[j].at /\ conn'[j].cmd = conn[j].cmd
                           /\ conn'[j].early = conn[j].early
      BY <1>b DEF GateInv, Typed
    <3> QED
      BY <3>1, <3>2 DEF GateInv, ConfirmedIsOff
  <2> QED
    BY <2>1, <2>2, <2>3, <2>4, <2>5 DEF GateInv
<1> QED
  BY <1>0, <1>a, <1>b

\* The client's time limit passes.
LEMMA GiveUpKeeps ==
  ASSUME GateInv, NEW c \in Clients, GiveUp(c)
  PROVE  GateInv'
<1> USE DEF GiveUp, ConnOf, Told, Fault
<1>0. PICK k \in Conns : /\ conn[k].there /\ conn[k].from = c
                         /\ conn' = [conn EXCEPT ![k].there = FALSE,
                              ![k].early = conn[k].at = "proof" /\ conn[k].proof /\ ~conn[k].aged]
  OBVIOUS
<1>1. Typed'
  <2> HIDE DEF Conn, Client, FreeConn
  <2>1. Typed
    BY DEF GateInv
  <2>2. conn' \in [Conns -> Conn]
    BY <1>0, <2>1, ConnUpdates
  <2>3. client' \in [Clients -> Client]
    BY <2>1, ClientUpdates
  <2> QED
    BY <2>1, <2>2, <2>3 DEF Typed
<1>2. OnlyAppStarts' /\ OneRuns'
  BY DEF GateInv, Typed, OnlyAppStarts, OneRuns
<1>3. OnOneConnection'
  <2>1. OnePerClient'
    BY DEF GateInv, Typed, OnOneConnection, OnePerClient, ClientWaits
  <2>2. ClientWaits'
    BY DEF GateInv, Typed, OnOneConnection, OnePerClient, ClientWaits, StagesInOrder
  <2>3. StagesInOrder'
    BY DEF GateInv, Typed, OnOneConnection, ClientWaits, StagesInOrder
  <2> QED
    BY <2>1, <2>2, <2>3 DEF OnOneConnection
<1>4. AbandonedIsExpired'
  BY DEF GateInv, Typed, OnOneConnection, OnePerClient, ClientWaits, StagesInOrder, AbandonedIsExpired
<1>5. ConfirmedIsOff'
  BY DEF GateInv, Typed, OnlyAppStarts, OneRuns, OnOneConnection, OnePerClient, ClientWaits, StagesInOrder, AbandonedIsExpired, ConfirmedIsOff, DisableConfirmed
<1> QED
  BY <1>1, <1>2, <1>3, <1>4, <1>5 DEF GateInv

\* The Helper reads a request and answers it or issues a challenge.
LEMMA ReadFirstKeeps ==
  ASSUME GateInv, NEW k \in Conns, ReadFirst(k)
  PROVE  GateInv'
<1> USE DEF ReadFirst, Answered
<1>1. Typed'
  BY DEF GateInv, Typed
<1>2. OnlyAppStarts' /\ OneRuns'
  BY DEF GateInv, Typed, OnlyAppStarts, OneRuns
<1>3. OnOneConnection'
  <2>1. OnePerClient'
    BY DEF GateInv, Typed, OnOneConnection, OnePerClient, ClientWaits
  <2>2. ClientWaits'
    BY DEF GateInv, Typed, OnOneConnection, OnePerClient, ClientWaits, StagesInOrder
  <2>3. StagesInOrder'
    BY DEF GateInv, Typed, OnOneConnection, ClientWaits, StagesInOrder
  <2> QED
    BY <2>1, <2>2, <2>3 DEF OnOneConnection
<1>4. AbandonedIsExpired'
  BY DEF GateInv, Typed, OnOneConnection, OnePerClient, ClientWaits, StagesInOrder, AbandonedIsExpired
<1>5. ConfirmedIsOff'
  BY DEF GateInv, Typed, OnlyAppStarts, OneRuns, OnOneConnection, OnePerClient, ClientWaits, StagesInOrder, AbandonedIsExpired, ConfirmedIsOff, DisableConfirmed
<1> QED
  BY <1>1, <1>2, <1>3, <1>4, <1>5 DEF GateInv

\* The challenge reaches the client, or the task ends.
LEMMA WriteChallengeKeeps ==
  ASSUME GateInv, NEW k \in Conns, WriteChallenge(k)
  PROVE  GateInv'
<1> USE DEF WriteChallenge, FreeConn
<1>1. Typed'
  <2> HIDE DEF Conn, Client, FreeConn
  <2>1. Typed
    BY DEF GateInv
  <2>2. conn' \in [Conns -> Conn]
    <3>1. /\ [conn EXCEPT ![k].at = "proof"] \in [Conns -> Conn]
          /\ [conn EXCEPT ![k] = FreeConn] \in [Conns -> Conn]
      BY <2>1, ConnUpdates
    <3> QED
      BY <3>1
  <2>3. client' \in [Clients -> Client]
    <3>1. conn[k].from \in Clients
      BY <2>1 DEF Typed, Conn
    <3>2. CASE conn[k].there
      BY <2>1, <3>1, <3>2, ClientUpdates
    <3>3. CASE ~conn[k].there
      BY <2>1, <3>3 DEF Typed
    <3> QED
      BY <3>2, <3>3
  <2> QED
    BY <2>1, <2>2, <2>3 DEF Typed
<1>2. OnlyAppStarts' /\ OneRuns'
  BY DEF GateInv, Typed, OnlyAppStarts, OneRuns
<1>3. OnOneConnection'
  <2>1. OnePerClient'
    BY DEF GateInv, Typed, OnOneConnection, OnePerClient, ClientWaits
  <2>2. ClientWaits'
    BY DEF GateInv, Typed, OnOneConnection, OnePerClient, ClientWaits, StagesInOrder
  <2>3. StagesInOrder'
    BY DEF GateInv, Typed, OnOneConnection, ClientWaits, StagesInOrder
  <2> QED
    BY <2>1, <2>2, <2>3 DEF OnOneConnection
<1>4. AbandonedIsExpired'
  BY DEF GateInv, Typed, OnOneConnection, OnePerClient, ClientWaits, StagesInOrder, AbandonedIsExpired
<1>5. ConfirmedIsOff'
  BY DEF GateInv, Typed, OnlyAppStarts, OneRuns, OnOneConnection, OnePerClient, ClientWaits, StagesInOrder, AbandonedIsExpired, ConfirmedIsOff, DisableConfirmed
<1> QED
  BY <1>1, <1>2, <1>3, <1>4, <1>5 DEF GateInv

\* The life of a challenge ends.
LEMMA ChallengeAgesKeeps ==
  ASSUME GateInv, NEW k \in Conns, ChallengeAges(k)
  PROVE  GateInv'
<1> USE DEF ChallengeAges
<1>1. Typed'
  <2> HIDE DEF Conn, Client, FreeConn
  <2>1. Typed
    BY DEF GateInv
  <2>2. conn' \in [Conns -> Conn]
    BY <2>1, ConnUpdates
  <2>3. client' \in [Clients -> Client]
    BY <2>1 DEF Typed
  <2> QED
    BY <2>1, <2>2, <2>3 DEF Typed
<1>2. OnlyAppStarts' /\ OneRuns'
  BY DEF GateInv, Typed, OnlyAppStarts, OneRuns
<1>3. OnOneConnection'
  <2>1. OnePerClient'
    BY DEF GateInv, Typed, OnOneConnection, OnePerClient, ClientWaits
  <2>2. ClientWaits'
    BY DEF GateInv, Typed, OnOneConnection, OnePerClient, ClientWaits, StagesInOrder
  <2>3. StagesInOrder'
    BY DEF GateInv, Typed, OnOneConnection, ClientWaits, StagesInOrder
  <2> QED
    BY <2>1, <2>2, <2>3 DEF OnOneConnection
<1>4. AbandonedIsExpired'
  BY DEF GateInv, Typed, OnOneConnection, OnePerClient, ClientWaits, StagesInOrder, AbandonedIsExpired
<1>5. ConfirmedIsOff'
  BY DEF GateInv, Typed, OnlyAppStarts, OneRuns, OnOneConnection, OnePerClient, ClientWaits, StagesInOrder, AbandonedIsExpired, ConfirmedIsOff, DisableConfirmed
<1> QED
  BY <1>1, <1>2, <1>3, <1>4, <1>5 DEF GateInv

\* No proof came.
LEMMA NoProofKeeps ==
  ASSUME GateInv, NEW k \in Conns, NoProof(k)
  PROVE  GateInv'
<1> USE DEF NoProof, FreeConn, Told
<1>1. Typed'
  BY DEF GateInv, Typed
<1>2. OnlyAppStarts' /\ OneRuns'
  BY DEF GateInv, Typed, OnlyAppStarts, OneRuns
<1>3. OnOneConnection'
  <2>1. OnePerClient'
    BY DEF GateInv, Typed, OnOneConnection, OnePerClient, ClientWaits
  <2>2. ClientWaits'
    BY DEF GateInv, Typed, OnOneConnection, OnePerClient, ClientWaits, StagesInOrder
  <2>3. StagesInOrder'
    BY DEF GateInv, Typed, OnOneConnection, ClientWaits, StagesInOrder
  <2> QED
    BY <2>1, <2>2, <2>3 DEF OnOneConnection
<1>4. AbandonedIsExpired'
  BY DEF GateInv, Typed, OnOneConnection, OnePerClient, ClientWaits, StagesInOrder, AbandonedIsExpired
<1>5. ConfirmedIsOff'
  BY DEF GateInv, Typed, OnlyAppStarts, OneRuns, OnOneConnection, OnePerClient, ClientWaits, StagesInOrder, AbandonedIsExpired, ConfirmedIsOff, DisableConfirmed
<1> QED
  BY <1>1, <1>2, <1>3, <1>4, <1>5 DEF GateInv

\* The proof is read: what the application abandoned is refused here.
LEMMA ReadProofKeeps ==
  ASSUME GateInv, NEW k \in Conns, ReadProof(k)
  PROVE  GateInv'
<1> USE DEF ReadProof, Expired, Answered
<1>1. Typed'
  BY DEF GateInv, Typed
<1>2. OnlyAppStarts' /\ OneRuns'
  BY DEF GateInv, Typed, OnlyAppStarts, OneRuns
<1>3. OnOneConnection'
  <2>1. \A j \in Conns : /\ conn'[j].there = conn[j].there /\ conn'[j].from = conn[j].from
                         /\ conn'[j].cmd = conn[j].cmd /\ conn'[j].proof = conn[j].proof
                         /\ j # k => conn'[j].at = conn[j].at /\ conn'[j].answer = conn[j].answer
    BY DEF GateInv, Typed
  <2>2. conn'[k].at = "run" \/ (conn'[k].at = "reply" /\ conn'[k].answer = "rejected")
    BY DEF GateInv, Typed
  <2>3. conn[k].there => client[conn[k].from].at # "sign"
    BY DEF GateInv, OnOneConnection, OnePerClient, ClientWaits, StagesInOrder
  <2>4. OnePerClient'
    BY <2>1 DEF GateInv, OnOneConnection, OnePerClient
  <2>5. ClientWaits'
    BY <2>1, <2>2, <2>3 DEF GateInv, Typed, OnOneConnection, ClientWaits
  <2>6. StagesInOrder'
    BY <2>1, <2>2 DEF GateInv, OnOneConnection, StagesInOrder
  <2> QED
    BY <2>4, <2>5, <2>6 DEF OnOneConnection
<1>4. AbandonedIsExpired'
  BY DEF GateInv, Typed, OnOneConnection, OnePerClient, ClientWaits, StagesInOrder, AbandonedIsExpired
<1>5. ConfirmedIsOff'
  BY DEF GateInv, Typed, OnlyAppStarts, OneRuns, OnOneConnection, OnePerClient, ClientWaits, StagesInOrder, AbandonedIsExpired, ConfirmedIsOff, DisableConfirmed
<1> QED
  BY <1>1, <1>2, <1>3, <1>4, <1>5 DEF GateInv

\* The command runs.
LEMMA ExecuteRequestKeeps ==
  ASSUME GateInv, NEW k \in Conns, ExecuteRequest(k)
  PROVE  GateInv'
<1> USE DEF ExecuteRequest, AlreadyOwned, OwnerMismatch, Answered, Fault
<1>0. PICK w \in {"ok", "failed", "rejected"} :
        /\ conn' = [conn EXCEPT ![k].at = "reply", ![k].answer = w]
        /\ \/ tun' = tun
           \/ tun' = {}
           \/ conn[k].cmd = "start" /\ tun' = {[owner |-> conn[k].from, early |-> conn[k].early]}
        /\ w = "ok" /\ conn[k].cmd = "disable" => tun' = {}
        /\ counted' = counted \/ Fault
  OBVIOUS
<1> HIDE DEF ExecuteRequest
<1>r. conn[k].at = "run" /\ running' = {} /\ UNCHANGED <<gate, client>>
  BY DEF ExecuteRequest
<1>1. Typed'
  <2> HIDE DEF Conn
  <2>1. Typed
    BY DEF GateInv
  <2>2. conn' \in [Conns -> Conn]
    BY <1>0, <2>1, ConnUpdates
  <2>3. tun' \in SUBSET [owner : {"app"}, early : BOOLEAN]
    <3>1. conn[k].early \in BOOLEAN /\ (conn[k].cmd = "start" => conn[k].from = "app")
      BY <2>1 DEF GateInv, OnlyAppStarts, Typed, Conn
    <3> QED
      BY <1>0, <2>1, <3>1 DEF Typed
  <2>4. counted' \in [requests : Nat, faults : Nat]
    BY <1>0, <2>1 DEF Typed
  <2> QED
    BY <1>r, <2>1, <2>2, <2>3, <2>4 DEF Typed
<1>2. /\ OnlyAppStarts' /\ OneRuns'
      /\ \A j \in Conns : conn'[j].at # "run"
  <2>1. running = {k}
    BY <1>r DEF GateInv, OneRuns
  <2>2. \A j \in Conns : conn[j].at = "run" => j = k
    BY <2>1 DEF GateInv, OneRuns
  <2>3. \A j \in Conns : conn'[j].at # "run"
    BY <1>0, <2>2 DEF GateInv, Typed
  <2>4. OnlyAppStarts'
    BY <1>0, <1>r DEF GateInv, Typed, OnlyAppStarts
  <2> QED
    BY <2>3, <2>4 DEF OneRuns
<1>3. OnOneConnection'
  <2>1. OnePerClient'
    BY <1>0, <1>r DEF GateInv, Typed, OnOneConnection, OnePerClient, ClientWaits
  <2>2. ClientWaits'
    BY <1>0, <1>r DEF GateInv, Typed, OnOneConnection, OnePerClient, ClientWaits, StagesInOrder
  <2>3. StagesInOrder'
    BY <1>0, <1>r DEF GateInv, Typed, OnOneConnection, ClientWaits, StagesInOrder
  <2> QED
    BY <2>1, <2>2, <2>3 DEF OnOneConnection
<1>4. AbandonedIsExpired'
  BY <1>0, <1>r DEF GateInv, Typed, OnOneConnection, OnePerClient, ClientWaits, StagesInOrder, AbandonedIsExpired
<1>5. ConfirmedIsOff'
  <2>1. \A j \in Conns : conn'[j].at # "run"
    BY <1>2
  <2>2. CASE w = "ok" /\ conn[k].cmd = "disable"
    BY <1>0, <2>1, <2>2 DEF ConfirmedIsOff
  <2>3. CASE ~(w = "ok" /\ conn[k].cmd = "disable")
    <3>1. DisableConfirmed' => DisableConfirmed
      BY <1>0, <1>r, <2>3 DEF GateInv, Typed, DisableConfirmed
    <3>2. DisableConfirmed => /\ \A core \in tun : core.early
                              /\ conn[k].cmd = "start" => conn[k].early
      BY <1>r DEF GateInv, ConfirmedIsOff
    <3>3. DisableConfirmed' => \A core \in tun' : core.early
      BY <1>0, <3>1, <3>2
    <3> QED
      BY <2>1, <3>3 DEF ConfirmedIsOff
  <2> QED
    BY <2>2, <2>3
<1> QED
  BY <1>1, <1>2, <1>3, <1>4, <1>5 DEF GateInv

\* The response reaches the client, if it is still there.
LEMMA WriteResponseKeeps ==
  ASSUME GateInv, NEW k \in Conns, WriteResponse(k)
  PROVE  GateInv'
<1> USE DEF WriteResponse, FreeConn, Told, Outcome
<1>1. Typed'
  <2> HIDE DEF Conn, Client, FreeConn
  <2>1. Typed
    BY DEF GateInv
  <2>2. conn' \in [Conns -> Conn]
    BY <2>1, ConnUpdates
  <2>3. client' \in [Clients -> Client]
    <3>1. conn[k].from \in Clients /\ conn[k].answer \in {"ok", "failed", "rejected"}
      BY <2>1 DEF Typed, Conn, GateInv, OnOneConnection, OnePerClient, ClientWaits, StagesInOrder
    <3>2. Outcome(conn[k].answer) \in Outcomes
      BY <3>1
    <3> DEFINE q == Told(conn[k].from, Outcome(conn[k].answer))
    <3>3. q \in [Clients -> Client]
      BY <2>1, <3>1, <3>2, ClientUpdates
    <3> HIDE DEF q
    <3>4. \A b \in BOOLEAN : [q EXCEPT ![conn[k].from].saw = b] \in [Clients -> Client]
      BY <3>1, <3>3 DEF Client
    <3>5. q[conn[k].from].saw \in BOOLEAN
      BY <3>1, <3>3 DEF Client
    <3> QED
      BY <2>1, <3>3, <3>4, <3>5 DEF Typed, q
  <2> QED
    BY <2>1, <2>2, <2>3 DEF Typed
<1>2. OnlyAppStarts' /\ OneRuns'
  BY DEF GateInv, Typed, OnlyAppStarts, OneRuns
<1>3. OnOneConnection'
  <2>1. CASE conn[k].there
    <3>1. \A j \in Conns : conn'[j].there => j # k /\ conn'[j] = conn[j] /\ conn[j].from # conn[k].from
      BY <2>1 DEF GateInv, Typed, OnOneConnection, OnePerClient, ClientWaits, StagesInOrder
    <3>2. \A c \in Clients : c # conn[k].from => client'[c] = client[c]
      BY <2>1 DEF GateInv, Typed
    <3>3. \A j \in Conns : conn'[j].there => client'[conn'[j].from] = client[conn[j].from]
      BY <3>1, <3>2 DEF GateInv, Typed
    <3>4. \A j \in Conns : conn'[j].at \in {"first", "write"} => j # k /\ conn'[j] = conn[j]
      BY DEF GateInv, Typed
    <3>5. \A j \in Conns : conn'[j].at = "reply" => j # k /\ conn'[j] = conn[j]
      BY DEF GateInv, Typed
    <3>6. \A i, j \in Conns : conn'[i].there /\ conn'[j].there /\ conn'[i].from = conn'[j].from => i = j
      BY <3>1 DEF GateInv, OnOneConnection, OnePerClient, ClientWaits, StagesInOrder
    <3>7. \A j \in Conns : conn'[j].there =>
            /\ client'[conn'[j].from].at \in Asking
            /\ client'[conn'[j].from].cmd = conn'[j].cmd
            /\ client'[conn'[j].from].at = "sign" => conn'[j].at = "proof" /\ ~conn'[j].proof
      <4> HIDE DEF WriteResponse
      <4>1. TAKE j \in Conns
      <4>2. HAVE conn'[j].there
      <4>3. conn'[j] = conn[j] /\ client'[conn'[j].from] = client[conn[j].from] /\ conn[j].there
        BY <3>1, <3>3, <4>2
      <4> QED
        BY <4>3 DEF GateInv, OnOneConnection, ClientWaits
    <3>8. /\ \A j \in Conns : conn'[j].at \in {"first", "write"} => ~conn'[j].proof
          /\ \A j \in Conns : conn'[j].at = "reply" => conn'[j].answer # "none"
      BY <3>4, <3>5 DEF GateInv, OnOneConnection, OnePerClient, ClientWaits, StagesInOrder
    <3> HIDE DEF WriteResponse
    <3> QED
      BY <3>6, <3>7, <3>8 DEF OnOneConnection, OnePerClient, ClientWaits, StagesInOrder
  <2>2. CASE ~conn[k].there
    BY <2>2 DEF GateInv, Typed, OnOneConnection, OnePerClient, ClientWaits, StagesInOrder
  <2> QED
    BY <2>1, <2>2
<1>4. AbandonedIsExpired'
  BY DEF GateInv, Typed, OnOneConnection, OnePerClient, ClientWaits, StagesInOrder, AbandonedIsExpired
<1>5. ConfirmedIsOff'
  BY DEF GateInv, Typed, OnlyAppStarts, OneRuns, OnOneConnection, OnePerClient, ClientWaits, StagesInOrder, AbandonedIsExpired, ConfirmedIsOff, DisableConfirmed
<1> QED
  BY <1>1, <1>2, <1>3, <1>4, <1>5 DEF GateInv

\* The owner monitor.
LEMMA OwnerMonitorKeeps ==
  ASSUME GateInv, OwnerMonitor
  PROVE  GateInv'
<1> USE DEF OwnerMonitor
<1>1. Typed'
  BY DEF GateInv, Typed
<1>2. OnlyAppStarts' /\ OneRuns'
  BY DEF GateInv, Typed, OnlyAppStarts, OneRuns
<1>3. OnOneConnection'
  <2>1. OnePerClient'
    BY DEF GateInv, Typed, OnOneConnection, OnePerClient, ClientWaits
  <2>2. ClientWaits'
    BY DEF GateInv, Typed, OnOneConnection, OnePerClient, ClientWaits, StagesInOrder
  <2>3. StagesInOrder'
    BY DEF GateInv, Typed, OnOneConnection, ClientWaits, StagesInOrder
  <2> QED
    BY <2>1, <2>2, <2>3 DEF OnOneConnection
<1>4. AbandonedIsExpired'
  BY DEF GateInv, Typed, OnOneConnection, OnePerClient, ClientWaits, StagesInOrder, AbandonedIsExpired
<1>5. ConfirmedIsOff'
  BY DEF GateInv, Typed, OnlyAppStarts, OneRuns, OnOneConnection, OnePerClient, ClientWaits, StagesInOrder, AbandonedIsExpired, ConfirmedIsOff, DisableConfirmed
<1> QED
  BY <1>1, <1>2, <1>3, <1>4, <1>5 DEF GateInv

\* The application takes note of an answer.
LEMMA AppGoesOnKeeps ==
  ASSUME GateInv, AppGoesOn
  PROVE  GateInv'
<1> USE DEF AppGoesOn
<1>1. Typed'
  BY DEF GateInv, Typed
<1>2. OnlyAppStarts' /\ OneRuns'
  BY DEF GateInv, Typed, OnlyAppStarts, OneRuns
<1>3. OnOneConnection'
  <2>1. OnePerClient'
    BY DEF GateInv, Typed, OnOneConnection, OnePerClient, ClientWaits
  <2>2. ClientWaits'
    BY DEF GateInv, Typed, OnOneConnection, OnePerClient, ClientWaits, StagesInOrder
  <2>3. StagesInOrder'
    BY DEF GateInv, Typed, OnOneConnection, ClientWaits, StagesInOrder
  <2> QED
    BY <2>1, <2>2, <2>3 DEF OnOneConnection
<1>4. AbandonedIsExpired'
  BY DEF GateInv, Typed, OnOneConnection, OnePerClient, ClientWaits, StagesInOrder, AbandonedIsExpired
<1>5. ConfirmedIsOff'
  BY DEF GateInv, Typed, OnlyAppStarts, OneRuns, OnOneConnection, OnePerClient, ClientWaits, StagesInOrder, AbandonedIsExpired, ConfirmedIsOff, DisableConfirmed
<1> QED
  BY <1>1, <1>2, <1>3, <1>4, <1>5 DEF GateInv

\* The maintenance tool decides what to do next.
LEMMA MaintainKeeps ==
  ASSUME GateInv, Maintain
  PROVE  GateInv'
<1> USE DEF Maintain, Retries, NeededDisable
<1>1. Typed'
  BY DEF GateInv, Typed
<1>2. OnlyAppStarts' /\ OneRuns'
  BY DEF GateInv, Typed, OnlyAppStarts, OneRuns
<1>3. OnOneConnection'
  <2>1. OnePerClient'
    BY DEF GateInv, Typed, OnOneConnection, OnePerClient, ClientWaits
  <2>2. ClientWaits'
    BY DEF GateInv, Typed, OnOneConnection, OnePerClient, ClientWaits, StagesInOrder
  <2>3. StagesInOrder'
    BY DEF GateInv, Typed, OnOneConnection, ClientWaits, StagesInOrder
  <2> QED
    BY <2>1, <2>2, <2>3 DEF OnOneConnection
<1>4. AbandonedIsExpired'
  <2>1. client'["app"] = client["app"] /\ conn' = conn
    BY DEF GateInv, Typed
  <2> HIDE DEF Maintain
  <2> QED
    BY <2>1 DEF GateInv, AbandonedIsExpired
<1>5. ConfirmedIsOff'
  BY DEF GateInv, Typed, OnlyAppStarts, OneRuns, OnOneConnection, OnePerClient, ClientWaits, StagesInOrder, AbandonedIsExpired, ConfirmedIsOff, DisableConfirmed
<1> QED
  BY <1>1, <1>2, <1>3, <1>4, <1>5 DEF GateInv

\* The maintenance tool ends the application.
LEMMA TerminateAppKeeps ==
  ASSUME GateInv, TerminateApp
  PROVE  GateInv'
<1> USE DEF TerminateApp, ConnOf
<1>1. Typed'
  <2> HIDE DEF Conn, Client, FreeConn
  <2>1. Typed
    BY DEF GateInv
  <2>2. conn' \in [Conns -> Conn]
    <3>1. \A k \in Conns : [conn[k] EXCEPT !.there = FALSE] \in Conn
      <4> TAKE k \in Conns
      <4>1. conn[k] \in Conn
        BY <2>1 DEF Typed
      <4> QED
        BY <4>1 DEF Conn
    <3> QED
      BY <2>1, <3>1 DEF Typed
  <2>3. client' \in [Clients -> Client]
    <3>1. /\ [client["app"] EXCEPT !.at = "gone"] \in Client
          /\ [client["ctl"] EXCEPT !.at = "again", !.cmd = "disable"] \in Client
      BY <2>1 DEF Typed, Client
    <3>2. client' = [c \in Clients |-> IF c = "app" THEN [client["app"] EXCEPT !.at = "gone"]
                                        ELSE [client["ctl"] EXCEPT !.at = "again", !.cmd = "disable"]]
      BY <2>1 DEF Typed
    <3> QED
      BY <3>1, <3>2
  <2> QED
    BY <2>1, <2>2, <2>3 DEF Typed
<1>2. OnlyAppStarts' /\ OneRuns'
  BY DEF GateInv, Typed, OnlyAppStarts, OneRuns
<1>3. OnOneConnection'
  <2>1. OnePerClient'
    BY DEF GateInv, Typed, OnOneConnection, OnePerClient, ClientWaits
  <2>2. ClientWaits'
    BY DEF GateInv, Typed, OnOneConnection, OnePerClient, ClientWaits, StagesInOrder
  <2>3. StagesInOrder'
    BY DEF GateInv, Typed, OnOneConnection, ClientWaits, StagesInOrder
  <2> QED
    BY <2>1, <2>2, <2>3 DEF OnOneConnection
<1>4. AbandonedIsExpired'
  BY DEF GateInv, Typed, OnOneConnection, OnePerClient, ClientWaits, StagesInOrder, AbandonedIsExpired
<1>5. ConfirmedIsOff'
  BY DEF GateInv, Typed, OnlyAppStarts, OneRuns, OnOneConnection, OnePerClient, ClientWaits, StagesInOrder, AbandonedIsExpired, ConfirmedIsOff, DisableConfirmed
<1> QED
  BY <1>1, <1>2, <1>3, <1>4, <1>5 DEF GateInv

-----------------------------------------------------------------------------

\* Every step of the clients and of the connection tasks keeps the invariant.
LEMMA GateStep == GateInv /\ [GateNext]_gvars => GateInv'
<1> SUFFICES ASSUME GateInv, [GateNext]_gvars PROVE GateInv'
  OBVIOUS
<1>1. CASE UNCHANGED gvars
  BY <1>1 DEF gvars, GateInv, Typed, OnlyAppStarts, OneRuns, OnOneConnection, OnePerClient, ClientWaits, StagesInOrder, AbandonedIsExpired,
              ConfirmedIsOff, DisableConfirmed
<1>2. ASSUME NEW cmd \in {"start", "disable", "status"}, Command(cmd) PROVE GateInv'
  BY <1>2, RequestKeeps DEF Command
<1>3. CASE Health
  BY <1>3, RequestKeeps DEF Health
<1>4. CASE AdmitMaintenance
  BY <1>4, RequestKeeps DEF AdmitMaintenance
<1>5. CASE RetryMaintenance
  <2>1. client["ctl"].cmd \in Commands /\ client["ctl"].cmd # "start"
    BY DEF GateInv, Typed, OnlyAppStarts
  <2> QED
    BY <1>5, <2>1, RequestKeeps DEF RetryMaintenance
<1>6. CASE AppGoesOn \/ Maintain \/ TerminateApp \/ OwnerMonitor
  BY <1>6, AppGoesOnKeeps, MaintainKeeps, TerminateAppKeeps, OwnerMonitorKeeps
<1>7. ASSUME NEW c \in Clients, SendProof(c) \/ GiveUp(c) PROVE GateInv'
  BY <1>7, SendProofKeeps, GiveUpKeeps
<1>8. ASSUME NEW k \in Conns,
             \/ ReadFirst(k) \/ WriteChallenge(k) \/ ChallengeAges(k) \/ NoProof(k)
             \/ ReadProof(k) \/ ExecuteRequest(k) \/ WriteResponse(k)
      PROVE  GateInv'
  BY <1>8, ReadFirstKeeps, WriteChallengeKeeps, ChallengeAgesKeeps, NoProofKeeps, ReadProofKeeps,
     ExecuteRequestKeeps, WriteResponseKeeps
<1> QED
  BY <1>1, <1>2, <1>3, <1>4, <1>5, <1>6, <1>7, <1>8 DEF GateNext

\* Once the Helper has confirmed a disable to the application, TUN stays off until
\* the application asks again, whatever proofs of abandoned starts are still in the
\* Helper's sockets (verify_challenge_proof, execute_request, owner_monitor): only a
\* start given up on within the life of its challenge can turn it on.
THEOREM DisableHolds == GateSpec => []OffStaysOff
<1>1. GateInv => OffStaysOff
  BY DEF GateInv, ConfirmedIsOff, DisableConfirmed, OffStaysOff
<1> QED
  BY <1>1, GateInitial, GateStep, PTL DEF GateSpec

(***************************************************************************)
(* The Android observers: what they report is whole, for any number of     *)
(* callers, any limit of events and of diagnostics.                        *)
(***************************************************************************)
Phases == {"completed", "failed", "cancelled", "timed-out", "replaced"}
Tasks ==
  [at : {"admitted", "running", "gone"}, cancelled : BOOLEAN]
  \cup [at : {"running", "answered", "gone"}, cancelled : BOOLEAN,
        result : {"completed", "failed", "unusable", "none"}]
Entries == [run : Nat, phase : Phases]
Histories == Seq(Entries)
Numbers == SUBSET Nat
Diagnostics == [active : Numbers, history : Histories, token : Numbers, handle : Numbers,
                retired : BOOLEAN]
Calls == [at : {"idle"}] \cup [at : {"spawn", "store"}, run : Nat] \cup [at : {"wait"}, for : Numbers]

\* The shape of the diagnostic's state.
DiagnosticTypeOK ==
  /\ diag \in Diagnostics
  /\ run \in Seq(Tasks)
  /\ dcall \in [Callers -> Calls]
  /\ ended \in Seq(Nat)

\* A run has ended once it has a terminal.
HasEnded(r) == \E i \in 1 .. Len(ended) : ended[i] = r

\* Nothing refers to a run that was not admitted; every admitted run is active or
\* ended; the history records ended runs only, so it grows when a run ends.
DiagnosticInv ==
  /\ DiagnosticTypeOK
  /\ diag.active = {} \/ \E r \in 1 .. Len(run) : diag.active = {r}
  /\ diag.token \subseteq 1 .. Len(run)
  /\ \A c \in Callers : dcall[c].at \in {"spawn", "store"} => dcall[c].run \in 1 .. Len(run)
  /\ \A i \in 1 .. Len(ended) : ended[i] \in 1 .. Len(run)
  /\ \A i, j \in 1 .. Len(ended) : ended[i] = ended[j] => i = j
  /\ \A i \in 1 .. Len(diag.history) : HasEnded(diag.history[i].run)
  /\ \A r \in 1 .. Len(run) : r \in diag.active <=> ~HasEnded(r)

Records == [sequence : Nat, about : Nat]
Kept == Seq(Records)

\* The retained records end with the fact named, and each is about the fact
\* after the one before it.
Consecutive(kept, last) ==
  /\ kept \in Kept /\ kept # <<>>
  /\ kept[Len(kept)].about = last
  /\ \A i \in 1 .. Len(kept) - 1 : kept[i + 1].about = kept[i].about + 1

EventHistories == [last : Nat, session : Nat, sequence : Nat, kept : Kept]

ObserverEventInv ==
  /\ events \in EventHistories /\ fact \in Nat
  /\ Consecutive(events.kept, events.last)

\* t is s with e appended, from its first or its second element on.
Grown(s, e, t) ==
  /\ t # <<>> /\ t[Len(t)] = e
  /\ \E k \in {0, 1} : /\ Len(t) = Len(s) + 1 - k
                       /\ \A i \in 1 .. Len(t) : t[i] = IF i + k = Len(s) + 1 THEN e ELSE s[i + k]

\* A bounded sequence that was just appended to is not empty, ends with what was
\* appended, and holds what it held, from some place on.
LEMMA BoundedAppend ==
  ASSUME NEW S, NEW s \in Seq(S), NEW e \in S, NEW limit \in Nat \ {0},
         NEW t, t = Bounded(Append(s, e), limit)
  PROVE  t \in Seq(S) /\ Grown(s, e, t)
<1> DEFINE a == Append(s, e)
<1>1. /\ a \in Seq(S) /\ Len(a) = Len(s) + 1 /\ Len(s) \in Nat
      /\ \A i \in 1 .. Len(a) : a[i] = IF i = Len(s) + 1 THEN e ELSE s[i]
  BY AppendProperties, LenProperties
<1>2. CASE Len(a) > limit
  <2>1. t = Tail(a) /\ Len(s) > 0
    BY <1>2, <1>1 DEF Bounded
  <2>2. a # <<>>
    BY <1>1, <2>1
  <2>3. t \in Seq(S) /\ Len(t) = Len(a) - 1 /\ \A i \in 1 .. Len(t) : t[i] = a[i + 1]
    BY <1>1, <2>1, <2>2, HeadTailProperties
  <2>4. t # <<>>
    BY <2>3, <2>1, <1>1
  <2>5. \A i \in 1 .. Len(t) : t[i] = IF i + 1 = Len(s) + 1 THEN e ELSE s[i + 1]
    BY <2>3, <1>1
  <2> QED
    BY <2>1, <2>3, <2>4, <2>5, <1>1 DEF Grown
<1>3. CASE ~(Len(a) > limit)
  <2>1. t = a
    BY <1>3 DEF Bounded
  <2>2. a # <<>>
    BY <1>1
  <2>3. Len(a) \in 1 .. Len(a)
    BY <1>1
  <2>4. \A i \in 1 .. Len(a) : a[i] = IF i + 0 = Len(s) + 1 THEN e ELSE s[i + 0]
    BY <1>1
  <2> QED
    BY <2>1, <2>2, <2>3, <2>4, <1>1 DEF Grown
<1> QED
  BY <1>2, <1>3

\* A record about the fact after the last one leaves no hole, and neither does
\* the first record of a session.
LEMMA PushedInOrder ==
  ASSUME NEW e \in EventHistories, NEW about \in Nat,
         e.kept = <<>> \/ \E last \in Nat : Consecutive(e.kept, last) /\ about = last + 1
  PROVE  /\ Push(e, about) \in EventHistories
         /\ Push(e, about).last = e.last
         /\ Consecutive(Push(e, about).kept, about)
<1> DEFINE rec == [sequence |-> e.sequence + 1, about |-> about]
           s == e.kept
           t == Bounded(Append(s, rec), EventLimit)
<1>1. s \in Seq(Records) /\ rec \in Records /\ rec.about = about /\ Len(s) \in Nat
  BY LenProperties DEF EventHistories, Kept, Records
<1>2. EventLimit \in Nat \ {0}
  BY LimitsAssumption
<1>3. t \in Seq(Records) /\ Grown(s, rec, t)
  <2>1. t = Bounded(Append(s, rec), EventLimit)
    OBVIOUS
  <2> HIDE DEF rec, s, t
  <2> QED
    BY <1>1, <1>2, <2>1, BoundedAppend
<1>4. t \in Kept /\ t # <<>>
  BY <1>3 DEF Kept, Grown
<1>5. Push(e, about) \in EventHistories /\ Push(e, about).last = e.last /\ Push(e, about).kept = t
  <2> DEFINE n == [e EXCEPT !.sequence = @ + 1]
  <2>1. n \in EventHistories /\ n.last = e.last
    BY DEF EventHistories
  <2>2. Push(e, about) = [n EXCEPT !.kept = t]
    BY Zenon DEF Push
  <2> HIDE DEF n, t
  <2> QED
    BY <1>4, <2>1, <2>2 DEF EventHistories
<1>6. \A i \in 1 .. Len(t) - 1 : t[i + 1].about = t[i].about + 1
  <2>0. PICK k \in {0, 1} : /\ Len(t) = Len(s) + 1 - k
                            /\ \A i \in 1 .. Len(t) : t[i] = IF i + k = Len(s) + 1 THEN rec ELSE s[i + k]
    BY <1>3 DEF Grown
  <2> HIDE DEF t, rec
  <2>1. CASE s = <<>>
    <3>1. Len(s) = 0
      BY <2>1
    <3> HIDE DEF s
    <3> QED
      BY <2>0, <3>1
  <2>2. CASE s # <<>>
    <3>1. PICK last \in Nat : Consecutive(s, last) /\ about = last + 1
      BY <2>2
    <3>2. s[Len(s)].about = last /\ \A i \in 1 .. Len(s) - 1 : s[i + 1].about = s[i].about + 1
      BY <3>1 DEF Consecutive
    <3> HIDE DEF s
    <3> TAKE i \in 1 .. Len(t) - 1
    <3>3. t[i] = s[i + k] /\ i + k \in 1 .. Len(s)
      <4>1. Len(s) \in Nat /\ Len(t) = Len(s) + 1 - k /\ k \in {0, 1}
        BY <1>1, <2>0
      <4>2. i \in 1 .. Len(t) /\ i + k \in 1 .. Len(s) /\ i + k # Len(s) + 1
        BY <4>1
      <4>3. t[i] = IF i + k = Len(s) + 1 THEN rec ELSE s[i + k]
        BY <2>0, <4>2
      <4> QED
        BY <4>2, <4>3
    <3>4. CASE i + k = Len(s)
      <4>1. t[i + 1] = rec
        BY <1>1, <2>0, <3>4
      <4>2. t[i].about = last
        BY <3>2, <3>3, <3>4
      <4> QED
        BY <1>1, <3>1, <4>1, <4>2
    <3>5. CASE i + k < Len(s)
      <4>1. t[i + 1] = s[(i + k) + 1] /\ i + k \in 1 .. Len(s) - 1
        BY <1>1, <2>0, <3>3, <3>5
      <4> QED
        BY <3>2, <3>3, <4>1
    <3> QED
      BY <1>1, <3>3, <3>4, <3>5
  <2> QED
    BY <2>1, <2>2
<1>7. t[Len(t)].about = about
  BY <1>1, <1>3 DEF Grown
<1> HIDE DEF t
<1> QED
  BY <1>4, <1>5, <1>6, <1>7 DEF Consecutive

\* A fact that was observed extends the session it follows, or starts one.
LEMMA ObservedInOrder ==
  ASSUME NEW e \in EventHistories, Consecutive(e.kept, e.last), NEW f \in Nat
  PROVE  Observe(e, f) \in EventHistories /\ Consecutive(Observe(e, f).kept, Observe(e, f).last)
<1>1. CASE f <= e.last
  BY <1>1 DEF Observe
<1>2. CASE f > e.last + 1
  <2> DEFINE first == [e EXCEPT !.session = @ + 1, !.sequence = 0, !.kept = <<>>]
             g == Push(first, f - 1)
             h == [g EXCEPT !.last = f]
  <2>1. <<>> \in Kept /\ f - 1 \in Nat /\ ~(f <= e.last)
    BY <1>2 DEF Kept, EventHistories
  <2>2. first \in EventHistories /\ first.kept = <<>>
    <3> DEFINE a == [e EXCEPT !.session = @ + 1]
               b == [a EXCEPT !.sequence = 0]
    <3>1. a \in EventHistories
      BY DEF EventHistories
    <3> HIDE DEF a
    <3>2. b \in EventHistories
      BY <3>1 DEF EventHistories
    <3>3. first = [b EXCEPT !.kept = <<>>]
      BY Zenon DEF a
    <3> HIDE DEF b, first
    <3> QED
      BY <2>1, <3>2, <3>3 DEF EventHistories
  <2>3. g \in EventHistories /\ Consecutive(g.kept, f - 1)
    <3> HIDE DEF first
    <3> QED
      BY <2>1, <2>2, PushedInOrder
  <2>4. h \in EventHistories /\ h.kept = g.kept /\ h.last = f
    <3> HIDE DEF g
    <3> QED
      BY <2>3 DEF EventHistories
  <2>5. Observe(e, f) = Push(h, f)
    BY <1>2, <2>1 DEF Observe, Reconciled
  <2>6. Consecutive(h.kept, f - 1) /\ f = (f - 1) + 1
    BY <2>3, <2>4
  <2> HIDE DEF h
  <2>7. Push(h, f) \in EventHistories /\ Push(h, f).last = f /\ Consecutive(Push(h, f).kept, f)
    BY <2>1, <2>4, <2>6, PushedInOrder
  <2> QED
    BY <2>5, <2>7
<1>3. CASE f = e.last + 1
  <2> DEFINE h == [e EXCEPT !.last = f]
  <2>1. h \in EventHistories /\ h.kept = e.kept /\ h.last = f /\ e.last \in Nat
    BY DEF EventHistories
  <2>2. Observe(e, f) = Push(h, f)
    BY <1>3, <2>1 DEF Observe, Reconciled
  <2>3. Consecutive(h.kept, e.last)
    BY <2>1
  <2> HIDE DEF h
  <2>4. Push(h, f) \in EventHistories /\ Push(h, f).last = f /\ Consecutive(Push(h, f).kept, f)
    BY <1>3, <2>1, <2>3, PushedInOrder
  <2> QED
    BY <2>2, <2>4
<1> QED
  BY <1>1, <1>2, <1>3 DEF EventHistories

\* What a diagnostic's end leaves: no active run, and a history that is another
\* because its newest entry is of the run that ended.
Concluded(d, r) ==
  /\ d \in Diagnostics /\ d.active = {} /\ d.token = diag.token
  /\ d.history # diag.history
  /\ \A i \in 1 .. Len(d.history) : HasEnded(d.history[i].run) \/ d.history[i].run = r

\* The first terminal an active run is given ends it.
LEMMA FinishConcludes ==
  ASSUME DiagnosticInv, NEW r \in 1 .. Len(run), diag.active = {r}, NEW phase \in Phases
  PROVE  Concluded(Finish(diag, r, phase), r)
<1> DEFINE s == diag.history
           e == [run |-> r, phase |-> phase]
           t == Bounded(Append(s, e), DiagnosticLimit)
           n == [diag EXCEPT !.active = {}]
           d == [n EXCEPT !.history = t]
<1>1. diag \in Diagnostics /\ Len(run) \in Nat /\ ~HasEnded(r)
  BY LenProperties DEF DiagnosticInv, DiagnosticTypeOK
<1>2. s \in Seq(Entries) /\ e \in Entries /\ e.run = r /\ Len(s) \in Nat
  BY <1>1, LenProperties DEF Diagnostics, Histories, Entries
<1>3. DiagnosticLimit \in Nat \ {0}
  BY LimitsAssumption
<1>4. t \in Seq(Entries) /\ Grown(s, e, t)
  <2>1. t = Bounded(Append(s, e), DiagnosticLimit)
    OBVIOUS
  <2> HIDE DEF s, e, t
  <2> QED
    BY <1>2, <1>3, <2>1, BoundedAppend
<1>5. Finish(diag, r, phase) = d
  BY Zenon DEF Finish, ValidTerminal, Phases
<1>6. d \in Diagnostics /\ d.active = {} /\ d.token = diag.token /\ d.history = t
  <2>1. n \in Diagnostics /\ n.active = {} /\ n.token = diag.token
    <3>1. {} \in Numbers
      BY DEF Numbers
    <3> QED
      BY <1>1, <3>1 DEF Diagnostics
  <2>2. t \in Histories
    BY <1>4 DEF Histories
  <2> HIDE DEF n, t
  <2> QED
    BY <2>1, <2>2 DEF Diagnostics
<1>7. t # s
  <2>1. Len(t) \in Nat /\ t # <<>> /\ t[Len(t)].run = r
    BY <1>2, <1>4, LenProperties DEF Grown
  <2>2. Len(t) \in 1 .. Len(t)
    <3> HIDE DEF t
    <3> QED
      BY <1>4, <2>1, EmptySeq
  <2>3. \A i \in 1 .. Len(s) : HasEnded(s[i].run)
    BY DEF DiagnosticInv
  <2> HIDE DEF s, t
  <2> QED
    BY <1>1, <2>1, <2>2, <2>3
<1>8. \A i \in 1 .. Len(t) : HasEnded(t[i].run) \/ t[i].run = r
  <2>1. PICK k \in {0, 1} : /\ Len(t) = Len(s) + 1 - k
                            /\ \A i \in 1 .. Len(t) : t[i] = IF i + k = Len(s) + 1 THEN e ELSE s[i + k]
    BY <1>4 DEF Grown
  <2>2. \A i \in 1 .. Len(s) : HasEnded(s[i].run)
    BY DEF DiagnosticInv
  <2> HIDE DEF s, e, t
  <2> QED
    BY <1>2, <2>1, <2>2
<1> HIDE DEF d, t
<1> QED
  BY <1>5, <1>6, <1>7, <1>8 DEF Concluded

\* Whoever gives the active run its terminal, every run still has one or is active.
LEMMA EndingKeeps ==
  ASSUME DiagnosticInv, DiagnosticTypeOK',
         NEW r \in 1 .. Len(run), diag.active = {r}, NEW d, Concluded(d, r),
         diag'.active = {}, diag'.history = d.history, diag'.token \subseteq diag.token,
         ended' = Append(ended, r), Len(run') = Len(run),
         \A c \in Callers : dcall'[c].at \in {"spawn", "store"} => dcall'[c] = dcall[c]
  PROVE  DiagnosticInv'
<1>1. ended \in Seq(Nat) /\ r \in Nat /\ Len(ended) \in Nat /\ Len(run) \in Nat /\ ~HasEnded(r)
  BY LenProperties DEF DiagnosticInv, DiagnosticTypeOK
<1>2. /\ Len(ended') = Len(ended) + 1 /\ ended'[Len(ended) + 1] = r
      /\ \A i \in 1 .. Len(ended) : ended'[i] = ended[i]
  BY <1>1, AppendProperties
<1>3. \A q : HasEnded(q)' <=> HasEnded(q) \/ q = r
  <2> TAKE q
  <2>1. HasEnded(q) => HasEnded(q)'
    BY <1>1, <1>2 DEF HasEnded
  <2>2. Len(ended) + 1 \in 1 .. Len(ended')
    BY <1>1, <1>2
  <2>3. q = r => HasEnded(q)'
    BY <1>2, <2>2 DEF HasEnded
  <2>4. HasEnded(q)' => HasEnded(q) \/ q = r
    BY <1>1, <1>2 DEF HasEnded
  <2> QED
    BY <2>1, <2>3, <2>4
<1>4. (\A i \in 1 .. Len(ended) : ended[i] \in 1 .. Len(run))'
  BY <1>1, <1>2 DEF DiagnosticInv
<1>5. (\A i, j \in 1 .. Len(ended) : ended[i] = ended[j] => i = j)'
  <2>1. \A i \in 1 .. Len(ended) : ended[i] # r
    BY <1>1 DEF HasEnded
  <2> QED
    BY <1>1, <1>2, <2>1 DEF DiagnosticInv
<1>6. (\A i \in 1 .. Len(diag.history) : HasEnded(diag.history[i].run))'
  BY <1>3 DEF Concluded
<1>7. (\A q \in 1 .. Len(run) : q \in diag.active <=> ~HasEnded(q))'
  BY <1>3 DEF DiagnosticInv
<1>8. (\A c \in Callers : dcall[c].at \in {"spawn", "store"} => dcall[c].run \in 1 .. Len(run))'
  BY DEF DiagnosticInv
<1>9. (diag.token \subseteq 1 .. Len(run))' /\ (diag.active = {})'
  BY DEF DiagnosticInv
<1> QED
  BY <1>4, <1>5, <1>6, <1>7, <1>8, <1>9 DEF DiagnosticInv

\* A step that gives no terminal and admits no run.
LEMMA OthersKeep ==
  ASSUME DiagnosticInv, DiagnosticTypeOK', UNCHANGED ended, Len(run') = Len(run),
         diag'.active = diag.active, diag'.history = diag.history, diag'.token \subseteq diag.token,
         \A c \in Callers : dcall'[c].at \in {"spawn", "store"} =>
           dcall[c].at \in {"spawn", "store"} /\ dcall'[c].run = dcall[c].run
  PROVE  DiagnosticInv'
<1>1. \A q : HasEnded(q)' <=> HasEnded(q)
  BY DEF HasEnded
<1>2. (\A i \in 1 .. Len(diag.history) : HasEnded(diag.history[i].run))'
  BY <1>1 DEF DiagnosticInv
<1>3. (\A q \in 1 .. Len(run) : q \in diag.active <=> ~HasEnded(q))'
  BY <1>1 DEF DiagnosticInv
<1>4. (\A c \in Callers : dcall[c].at \in {"spawn", "store"} => dcall[c].run \in 1 .. Len(run))'
  BY DEF DiagnosticInv
<1> QED
  BY <1>2, <1>3, <1>4 DEF DiagnosticInv

\* The task's own end stays in the runs, whatever becomes of its fields.
LEMMA RunsKeep ==
  ASSUME NEW s \in Seq(Tasks), NEW r \in 1 .. Len(s), NEW task \in Tasks
  PROVE  [s EXCEPT ![r] = task] \in Seq(Tasks) /\ Len([s EXCEPT ![r] = task]) = Len(s)
  BY ExceptSeq

\* Cancelling the token of a diagnostic reaches an admitted run, or none.
LEMMA TokenCancelled ==
  ASSUME DiagnosticInv
  PROVE  CancelToken \in Seq(Tasks) /\ Len(CancelToken) = Len(run)
<1>1. run \in Seq(Tasks)
  BY DEF DiagnosticInv, DiagnosticTypeOK
<1>2. CASE diag.token = {}
  BY <1>1, <1>2 DEF CancelToken
<1>3. CASE diag.token # {}
  <2> DEFINE r == CHOOSE q \in diag.token : TRUE
             task == [run[r] EXCEPT !.cancelled = TRUE]
  <2>1. r \in 1 .. Len(run)
    BY <1>3 DEF DiagnosticInv
  <2>2. run[r] \in Tasks
    BY <1>1, <2>1, ElementOfSeq
  <2>3. task \in Tasks
    <3> HIDE DEF r
    <3> QED
      BY <2>2 DEF Tasks
  <2>4. CancelToken = [run EXCEPT ![r] = task]
    BY <1>3 DEF CancelToken
  <2> HIDE DEF r, task
  <2> QED
    BY <1>1, <2>1, <2>3, <2>4, RunsKeep
<1> QED
  BY <1>2, <1>3

\* start_diagnostic admits a run that is new, and active.
LEMMA StartKeepsDiagnostics ==
  ASSUME DiagnosticInv, NEW c \in Callers, StartDiagnostic(c)
  PROVE  DiagnosticInv'
<1> DEFINE n == Len(run) + 1
           task == [at |-> "admitted", cancelled |-> FALSE]
           a == [diag EXCEPT !.active = {n}]
           call == [at |-> "spawn", run |-> n]
<1>1. /\ DiagnosticTypeOK /\ Len(run) \in Nat /\ n \in Nat /\ {n} \in Numbers
      /\ Len(ended) \in Nat
  BY LenProperties DEF DiagnosticInv, DiagnosticTypeOK, Numbers
<1>2. task \in Tasks /\ call \in Calls
  BY <1>1 DEF Tasks, Calls
<1>3. /\ run' \in Seq(Tasks) /\ Len(run') = n
  BY <1>1, <1>2, AppendProperties DEF StartDiagnostic, DiagnosticTypeOK
<1>4. /\ diag' \in Diagnostics /\ diag'.active = {n} /\ diag'.token = {n}
      /\ diag'.history = diag.history
  <2>1. a \in Diagnostics /\ a.active = {n} /\ a.history = diag.history
    BY <1>1 DEF Diagnostics, DiagnosticTypeOK
  <2>2. diag' = [a EXCEPT !.token = {n}]
    BY Zenon DEF StartDiagnostic
  <2> HIDE DEF a, n
  <2> QED
    BY <1>1, <2>1, <2>2 DEF Diagnostics
<1>5. dcall' = [dcall EXCEPT ![c] = call] /\ ended' = ended
  BY DEF StartDiagnostic
<1>6. DiagnosticTypeOK'
  BY <1>1, <1>2, <1>3, <1>4, <1>5 DEF DiagnosticTypeOK
<1>7. \A q : HasEnded(q)' <=> HasEnded(q)
  BY <1>5 DEF HasEnded
<1>8. \A q \in 1 .. Len(run) : HasEnded(q)
  BY DEF DiagnosticInv, StartDiagnostic
<1>9. ~HasEnded(n)
  BY <1>1 DEF DiagnosticInv, HasEnded
<1>10. (\A q \in 1 .. Len(run) : q \in diag.active <=> ~HasEnded(q))'
  <2> SUFFICES ASSUME NEW q \in 1 .. n
               PROVE  q \in {n} <=> ~HasEnded(q)
    BY <1>3, <1>4, <1>7
  <2> QED
    BY <1>1, <1>8, <1>9
<1>11. (\A i \in 1 .. Len(diag.history) : HasEnded(diag.history[i].run))'
  BY <1>4, <1>7 DEF DiagnosticInv
<1>12. (\A q \in Callers : dcall[q].at \in {"spawn", "store"} => dcall[q].run \in 1 .. Len(run))'
  <2> SUFFICES ASSUME NEW q \in Callers, dcall'[q].at \in {"spawn", "store"}
               PROVE  dcall'[q].run \in 1 .. n
    BY <1>3
  <2>1. CASE q = c
    BY <1>1, <1>5, <2>1 DEF DiagnosticTypeOK
  <2>2. CASE q # c
    BY <1>1, <1>5, <2>2 DEF DiagnosticTypeOK, DiagnosticInv
  <2> QED
    BY <2>1, <2>2
<1>13. (\A i \in 1 .. Len(ended) : ended[i] \in 1 .. Len(run))'
  BY <1>1, <1>3, <1>5 DEF DiagnosticInv
<1>14. /\ (diag.active = {} \/ \E r \in 1 .. Len(run) : diag.active = {r})'
       /\ (diag.token \subseteq 1 .. Len(run))'
       /\ (\A i, j \in 1 .. Len(ended) : ended[i] = ended[j] => i = j)'
  BY <1>1, <1>3, <1>4, <1>5 DEF DiagnosticInv
<1> QED
  BY <1>6, <1>10, <1>11, <1>12, <1>13, <1>14 DEF DiagnosticInv

\* The steps of a caller between admission and the end give no terminal.
LEMMA CallersKeepDiagnostics ==
  ASSUME DiagnosticInv, NEW c \in Callers, Spawn(c) \/ StoreHandle(c) \/ Waited(c)
  PROVE  DiagnosticInv'
<1>1. /\ DiagnosticTypeOK /\ run \in Seq(Tasks) /\ diag \in Diagnostics
      /\ dcall \in [Callers -> Calls] /\ dcall[c] \in Calls
  BY DEF DiagnosticInv, DiagnosticTypeOK
<1>2. Idle \in Calls /\ Idle.at = "idle"
  BY DEF Idle, Calls
<1>3. CASE Spawn(c)
  <2> DEFINE r == dcall[c].run
             task == [run[r] EXCEPT !.at = "running"]
             call == [dcall[c] EXCEPT !.at = "store"]
  <2>1. r \in 1 .. Len(run)
    BY <1>3 DEF DiagnosticInv, Spawn
  <2>2. run[r] \in Tasks
    BY <1>1, <2>1, ElementOfSeq
  <2>3. run' \in Seq(Tasks) /\ Len(run') = Len(run)
    <3>1. run' = [run EXCEPT ![r] = task]
      BY <1>3 DEF Spawn
    <3>2. task \in Tasks
      <4> DEFINE old == run[r]
      <4>1. old \in Tasks
        BY <2>2
      <4>2. task = [old EXCEPT !.at = "running"]
        OBVIOUS
      <4> HIDE DEF old, task
      <4> QED
        BY <4>1, <4>2 DEF Tasks
    <3> HIDE DEF r, task
    <3> QED
      BY <1>1, <2>1, <3>1, <3>2, RunsKeep
  <2>4. call \in Calls /\ call.run = r /\ dcall[c].at = "spawn"
    BY <1>1, <1>3 DEF Spawn, Calls
  <2>5. dcall' = [dcall EXCEPT ![c] = call] /\ UNCHANGED <<diag, ended>>
    BY <1>3 DEF Spawn
  <2> HIDE DEF call
  <2>6. DiagnosticTypeOK'
    BY <1>1, <2>3, <2>4, <2>5 DEF DiagnosticTypeOK
  <2>7. \A q \in Callers : dcall'[q].at \in {"spawn", "store"} =>
          dcall[q].at \in {"spawn", "store"} /\ dcall'[q].run = dcall[q].run
    BY <1>1, <2>4, <2>5
  <2> QED
    BY <2>3, <2>5, <2>6, <2>7, OthersKeep
<1>4. CASE StoreHandle(c)
  <2> DEFINE h == {dcall[c].run}
  <2>1. h \in Numbers
    BY <1>1, <1>4 DEF StoreHandle, Calls, Numbers
  <2>2. diag' = [diag EXCEPT !.handle = h] /\ UNCHANGED <<run, ended>> /\ dcall' = [dcall EXCEPT ![c] = Idle]
    BY <1>4 DEF StoreHandle
  <2> HIDE DEF h
  <2>3. /\ diag' \in Diagnostics /\ diag'.active = diag.active /\ diag'.history = diag.history
        /\ diag'.token = diag.token
    BY <1>1, <2>1, <2>2 DEF Diagnostics
  <2>4. DiagnosticTypeOK'
    BY <1>1, <1>2, <2>2, <2>3 DEF DiagnosticTypeOK
  <2>5. \A q \in Callers : dcall'[q].at \in {"spawn", "store"} =>
          dcall[q].at \in {"spawn", "store"} /\ dcall'[q].run = dcall[q].run
    BY <1>1, <1>2, <2>2
  <2> QED
    BY <2>2, <2>3, <2>4, <2>5, OthersKeep
<1>5. CASE Waited(c)
  <2>1. UNCHANGED <<diag, run, ended>> /\ dcall' = [dcall EXCEPT ![c] = Idle]
    BY <1>5 DEF Waited
  <2>2. DiagnosticTypeOK'
    BY <1>1, <1>2, <2>1 DEF DiagnosticTypeOK
  <2>3. \A q \in Callers : dcall'[q].at \in {"spawn", "store"} =>
          dcall[q].at \in {"spawn", "store"} /\ dcall'[q].run = dcall[q].run
    BY <1>1, <1>2, <2>1
  <2> QED
    BY <2>1, <2>2, <2>3, OthersKeep
<1> QED
  BY <1>3, <1>4, <1>5

\* The task proposes a terminal of its kind.
LEMMA ProposedIsTerminal ==
  ASSUME NEW r, run[r] \in Tasks, run[r].at = "answered"
  PROVE  Proposed(r) \in Phases
<1> DEFINE task == run[r]
<1>1. /\ task \in [at : {"running", "answered", "gone"}, cancelled : BOOLEAN,
                   result : {"completed", "failed", "unusable", "none"}]
  BY DEF Tasks
<1>2. task.result \in {"completed", "failed", "unusable", "none"} /\ task.cancelled \in BOOLEAN
  BY <1>1
<1> QED
  BY <1>2 DEF Proposed, Phases

\* What a task does for a run: the end of the platform's call, and the terminal
\* if the run is still the active one.
LEMMA TasksKeepDiagnostics ==
  ASSUME DiagnosticInv, NEW r \in 1 .. Len(run), TaskEnds(r) \/ TaskFinishes(r)
  PROVE  DiagnosticInv'
<1>1. /\ DiagnosticTypeOK /\ run \in Seq(Tasks) /\ diag \in Diagnostics
      /\ dcall \in [Callers -> Calls] /\ run[r] \in Tasks
  BY ElementOfSeq DEF DiagnosticInv, DiagnosticTypeOK
<1>2. CASE TaskEnds(r)
  <2>1. PICK result \in {"completed", "failed", "unusable", "none"} :
          run' = [run EXCEPT ![r] = [at |-> "answered", cancelled |-> @.cancelled, result |-> result]]
    BY <1>2 DEF TaskEnds
  <2> DEFINE task == [at |-> "answered", cancelled |-> run[r].cancelled, result |-> result]
  <2>2. task \in Tasks
    <3>1. run[r].cancelled \in BOOLEAN
      BY <1>1 DEF Tasks
    <3> QED
      BY <3>1 DEF Tasks
  <2>3. run' = [run EXCEPT ![r] = task]
    BY <2>1
  <2> HIDE DEF task
  <2>4. run' \in Seq(Tasks) /\ Len(run') = Len(run)
    BY <1>1, <2>2, <2>3, RunsKeep
  <2>5. UNCHANGED <<diag, dcall, ended>>
    BY <1>2 DEF TaskEnds
  <2>6. DiagnosticTypeOK'
    BY <1>1, <2>4, <2>5 DEF DiagnosticTypeOK
  <2> QED
    BY <2>4, <2>5, <2>6, OthersKeep
<1>3. CASE TaskFinishes(r)
  <2> DEFINE task == [run[r] EXCEPT !.at = "gone"]
             phase == Proposed(r)
             d == Finish(diag, r, phase)
  <2>1. run' = [run EXCEPT ![r] = task] /\ UNCHANGED dcall
    BY <1>3 DEF TaskFinishes
  <2>2. task \in Tasks
    BY <1>1 DEF Tasks
  <2>3. run' \in Seq(Tasks) /\ Len(run') = Len(run)
    <3> HIDE DEF task
    <3> QED
      BY <1>1, <2>1, <2>2, RunsKeep
  <2>4. phase \in Phases
    BY <1>1, <1>3, ProposedIsTerminal DEF TaskFinishes
  <2>5. /\ diag' = IF d = diag THEN diag ELSE [d EXCEPT !.token = {}]
        /\ ended' = Terminal(d, r)
    BY <1>3 DEF TaskFinishes
  <2>6. CASE diag.active = {r}
    <3>1. Concluded(d, r)
      <4> HIDE DEF phase
      <4> QED
        BY <2>4, <2>6, FinishConcludes
    <3> HIDE DEF d
    <3>2. {} \in Numbers
      BY DEF Numbers
    <3>3. diag' = [d EXCEPT !.token = {}] /\ ended' = Append(ended, r)
      BY <2>5, <3>1 DEF Concluded, Terminal
    <3>4. /\ diag' \in Diagnostics /\ diag'.active = {} /\ diag'.history = d.history
          /\ diag'.token = {}
      BY <3>1, <3>2, <3>3 DEF Concluded, Diagnostics
    <3>5. ended' \in Seq(Nat)
      <4>1. ended \in Seq(Nat) /\ r \in Nat
        BY <1>1, LenProperties DEF DiagnosticTypeOK
      <4> QED
        BY <3>3, <4>1, AppendProperties
    <3>6. DiagnosticTypeOK'
      BY <1>1, <2>1, <2>3, <3>4, <3>5 DEF DiagnosticTypeOK
    <3> QED
      BY <2>1, <2>3, <2>6, <3>1, <3>3, <3>4, <3>6, EndingKeeps
  <2>7. CASE diag.active # {r}
    <3>1. d = diag
      BY <2>7 DEF Finish
    <3>2. diag' = diag /\ ended' = ended
      BY <2>5, <3>1 DEF Terminal
    <3>3. DiagnosticTypeOK'
      BY <1>1, <2>1, <2>3, <3>2 DEF DiagnosticTypeOK
    <3> QED
      BY <2>1, <2>3, <3>2, <3>3, OthersKeep
  <2> QED
    BY <2>6, <2>7
<1> QED
  BY <1>2, <1>3

\* cancel_diagnostic and retire_diagnostic give the active run, if there is one,
\* its terminal, and take the token and the handle with them.
LEMMA EndersKeepDiagnostics ==
  ASSUME DiagnosticInv, NEW c \in Callers, CancelDiagnostic(c) \/ RetireDiagnostic(c)
  PROVE  DiagnosticInv'
<1> DEFINE r == CHOOSE active \in diag.active : TRUE
           none == {}
           call == [at |-> "wait", for |-> diag.handle]
<1>1. /\ DiagnosticTypeOK /\ run \in Seq(Tasks) /\ diag \in Diagnostics
      /\ dcall \in [Callers -> Calls] /\ none \in Numbers /\ diag.handle \in Numbers
      /\ ended \in Seq(Nat)
  BY DEF DiagnosticInv, DiagnosticTypeOK, Diagnostics, Numbers
<1>2. call \in Calls /\ call.at = "wait"
  BY <1>1 DEF Calls
<1>3. dcall' = [dcall EXCEPT ![c] = call] /\ run' = CancelToken
  BY DEF CancelDiagnostic, RetireDiagnostic
<1>4. dcall' \in [Callers -> Calls] /\ \A q \in Callers :
        dcall'[q].at \in {"spawn", "store"} => dcall'[q] = dcall[q]
  <2> HIDE DEF call
  <2> QED
    BY <1>1, <1>2, <1>3
<1>5. run' \in Seq(Tasks) /\ Len(run') = Len(run)
  BY <1>3, TokenCancelled
<1>6. CASE diag.active # {}
  <2>1. r \in 1 .. Len(run) /\ diag.active = {r}
    BY <1>6 DEF DiagnosticInv
  <2>2. PICK phase \in {"cancelled", "replaced"}, retired \in BOOLEAN :
          LET d == Finish(diag, r, phase)
          IN  /\ diag' = [[[d EXCEPT !.token = none] EXCEPT !.handle = none] EXCEPT !.retired = retired]
              /\ ended' = Terminal(d, r)
    <3>1. CASE CancelDiagnostic(c)
      <4> DEFINE d == Finish(diag, r, "cancelled")
      <4>1. diag' = [d EXCEPT !.token = {}, !.handle = {}] /\ ended' = Terminal(d, r)
        BY <3>1 DEF CancelDiagnostic
      <4>2. d \in Diagnostics
        <5>1. Concluded(d, r)
          <6> DEFINE phase == "cancelled"
          <6>1. phase \in Phases
            BY DEF Phases
          <6> HIDE DEF phase, r
          <6>2. Concluded(Finish(diag, r, phase), r)
            BY <2>1, <6>1, FinishConcludes
          <6> QED
            BY <6>2 DEF phase
        <5> QED
          BY <5>1 DEF Concluded
      <4> DEFINE b == [[d EXCEPT !.token = none] EXCEPT !.handle = none]
      <4>3. diag' = b
        BY <4>1, Zenon
      <4>4. b \in Diagnostics
        <5> DEFINE g == [d EXCEPT !.token = none]
        <5> HIDE DEF d, none
        <5>1. g \in Diagnostics
          BY <1>1, <4>2 DEF Diagnostics
        <5> HIDE DEF g
        <5> QED
          BY <1>1, <5>1 DEF Diagnostics, g
      <4>5. b = [b EXCEPT !.retired = b.retired] /\ b.retired \in BOOLEAN
        <5> HIDE DEF b
        <5> QED
          BY <4>4 DEF Diagnostics
      <4> QED
        BY <4>1, <4>3, <4>5, Zenon
    <3>2. CASE RetireDiagnostic(c)
      BY <1>6, <3>2, Zenon DEF RetireDiagnostic
    <3> QED
      BY <3>1, <3>2
  <2> DEFINE d == Finish(diag, r, phase)
             x == [d EXCEPT !.token = none]
             y == [x EXCEPT !.handle = none]
  <2>3. phase \in Phases
    BY DEF Phases
  <2>4. Concluded(d, r)
    <3> HIDE DEF r
    <3> QED
      BY <2>1, <2>3, FinishConcludes
  <2>5. diag' = [y EXCEPT !.retired = retired] /\ ended' = Append(ended, r)
    <3>1. diag' = [y EXCEPT !.retired = retired] /\ ended' = Terminal(d, r)
      BY <2>2, Zenon
    <3> HIDE DEF d, r
    <3> QED
      BY <2>4, <3>1 DEF Terminal, Concluded
  <2> HIDE DEF d
  <2>6. x \in Diagnostics /\ x.active = {} /\ x.history = d.history /\ x.token = none
    <3> HIDE DEF none
    <3> QED
      BY <1>1, <2>4 DEF Concluded, Diagnostics
  <2> HIDE DEF x
  <2>7. y \in Diagnostics /\ y.active = {} /\ y.history = d.history /\ y.token = none
    <3> HIDE DEF none
    <3> QED
      BY <1>1, <2>6 DEF Diagnostics
  <2> HIDE DEF y
  <2>8. diag' \in Diagnostics /\ diag'.active = {} /\ diag'.history = d.history /\ diag'.token = {}
    BY <2>5, <2>7 DEF Diagnostics
  <2>9. ended' \in Seq(Nat)
    <3>1. r \in Nat
      BY <1>1, <2>1, LenProperties
    <3> HIDE DEF r
    <3> QED
      BY <1>1, <2>5, <3>1, AppendProperties
  <2>10. DiagnosticTypeOK'
    BY <1>4, <1>5, <2>8, <2>9 DEF DiagnosticTypeOK
  <2> HIDE DEF r
  <2> QED
    BY <1>4, <1>5, <2>1, <2>4, <2>5, <2>8, <2>10, EndingKeeps
<1>7. CASE diag.active = {}
  <2> DEFINE x == [diag EXCEPT !.token = none]
             y == [x EXCEPT !.handle = none]
  <2>1. diag' = [y EXCEPT !.retired = TRUE] /\ ended' = ended
    BY <1>7, Zenon DEF RetireDiagnostic, CancelDiagnostic
  <2>2. x \in Diagnostics /\ x.active = diag.active /\ x.history = diag.history /\ x.token = none
    <3> HIDE DEF none
    <3> QED
      BY <1>1 DEF Diagnostics
  <2> HIDE DEF x
  <2>3. y \in Diagnostics /\ y.active = diag.active /\ y.history = diag.history /\ y.token = none
    <3> HIDE DEF none
    <3> QED
      BY <1>1, <2>2 DEF Diagnostics
  <2> HIDE DEF y
  <2>4. /\ diag' \in Diagnostics /\ diag'.active = diag.active /\ diag'.history = diag.history
        /\ diag'.token = {}
    BY <2>1, <2>3 DEF Diagnostics
  <2>5. DiagnosticTypeOK'
    BY <1>1, <1>4, <1>5, <2>1, <2>4 DEF DiagnosticTypeOK
  <2> QED
    BY <1>4, <1>5, <2>1, <2>4, <2>5, OthersKeep
<1> QED
  BY <1>6, <1>7

\* A diagnostic run has exactly one terminal or is active, and the retained events
\* of a session are about consecutive facts, for any number of callers,
\* diagnostics and facts and any limits of the two histories.
THEOREM ObservationsHold == MobileObserversSpec => []ObservationsAreWhole
<1> DEFINE Inv == DiagnosticInv /\ ObserverEventInv
<1>1. MobileObserversInit => Inv
  <2> SUFFICES ASSUME MobileObserversInit PROVE Inv
    OBVIOUS
  <2>1. DiagnosticInv
    <3>1. DiagnosticTypeOK
      BY DEF MobileObserversInit, DiagnosticTypeOK, Diagnostics, Numbers, Histories, Calls, Idle
    <3>2. \A c \in Callers : dcall[c].at = "idle"
      BY DEF MobileObserversInit, Idle
    <3> QED
      BY <3>1, <3>2 DEF MobileObserversInit, DiagnosticInv, HasEnded
  <2>2. ObserverEventInv
    <3> DEFINE none == [last |-> 1, session |-> 1, sequence |-> 0, kept |-> <<>>]
               one == 1
    <3>1. none \in EventHistories /\ none.kept = <<>> /\ none.last = 1 /\ one \in Nat
      BY DEF EventHistories, Kept
    <3>2. events = Push(none, one) /\ fact = 1
      BY DEF MobileObserversInit, FromBaseline
    <3>3. /\ Push(none, one) \in EventHistories /\ Push(none, one).last = 1
          /\ Consecutive(Push(none, one).kept, one)
      <4> HIDE DEF none, one
      <4> QED
        BY <3>1, PushedInOrder
    <3> HIDE DEF none
    <3> QED
      BY <3>2, <3>3 DEF ObserverEventInv
  <2> QED
    BY <2>1, <2>2
<1>2. Inv /\ [MobileObserversNext]_movars => Inv'
  <2> SUFFICES ASSUME Inv, [MobileObserversNext]_movars PROVE Inv'
    OBVIOUS
  <2>1. ASSUME UNCHANGED <<events, fact>>
        PROVE  ObserverEventInv'
    BY <2>1 DEF ObserverEventInv
  <2>2. ASSUME UNCHANGED <<diag, run, dcall, ended>>
        PROVE  DiagnosticInv'
    BY <2>2 DEF DiagnosticInv, DiagnosticTypeOK, HasEnded
  <2>3. ASSUME NEW c \in Callers, StartDiagnostic(c)
        PROVE  Inv'
    BY <2>1, <2>3, StartKeepsDiagnostics DEF StartDiagnostic
  <2>4. ASSUME NEW c \in Callers, Spawn(c) \/ StoreHandle(c) \/ Waited(c)
        PROVE  Inv'
    BY <2>1, <2>4, CallersKeepDiagnostics DEF Spawn, StoreHandle, Waited
  <2>5. ASSUME NEW c \in Callers, CancelDiagnostic(c) \/ RetireDiagnostic(c)
        PROVE  Inv'
    BY <2>1, <2>5, EndersKeepDiagnostics DEF CancelDiagnostic, RetireDiagnostic
  <2>6. ASSUME NEW r \in 1 .. Len(run), TaskEnds(r) \/ TaskFinishes(r)
        PROVE  Inv'
    BY <2>1, <2>6, TasksKeepDiagnostics DEF TaskEnds, TaskFinishes
  <2>7. CASE FactObserved
    <3>1. PICK f \in 1 .. MaxFacts : fact' = (IF f > fact THEN f ELSE fact) /\ events' = Observe(events, f)
      BY <2>7 DEF FactObserved
    <3>2. f \in Nat
      BY LimitsAssumption
    <3>3. events \in EventHistories /\ Consecutive(events.kept, events.last) /\ fact \in Nat
      BY DEF ObserverEventInv
    <3>4. events' \in EventHistories /\ Consecutive(events'.kept, events'.last)
      <4> DEFINE e == events
      <4>1. e \in EventHistories /\ Consecutive(e.kept, e.last) /\ events' = Observe(e, f)
        BY <3>1, <3>3
      <4> HIDE DEF e
      <4> QED
        BY <3>2, <4>1, ObservedInOrder
    <3>5. ObserverEventInv'
      BY <3>1, <3>2, <3>3, <3>4 DEF ObserverEventInv
    <3> QED
      BY <2>2, <2>7, <3>5 DEF FactObserved
  <2>8. CASE UNCHANGED movars
    BY <2>1, <2>2, <2>8 DEF movars
  <2> QED
    BY <2>3, <2>4, <2>5, <2>6, <2>7, <2>8 DEF MobileObserversNext
<1>3. Inv => ObservationsAreWhole
  <2> SUFFICES ASSUME Inv PROVE ObservationsAreWhole
    OBVIOUS
  <2>1. DOMAIN ended = 1 .. Len(ended)
    BY LenProperties DEF DiagnosticInv, DiagnosticTypeOK
  <2>2. \A r : HasEnded(r) <=> r \in Range(ended)
    BY <2>1 DEF HasEnded, Range
  <2>3. OneTerminal
    BY <2>1, <2>2, Zenon DEF DiagnosticInv, OneTerminal, IsInjective
  <2>4. EventsHaveNoHole
    BY DEF ObserverEventInv, Consecutive, EventsHaveNoHole
  <2> QED
    BY <2>3, <2>4 DEF ObservationsAreWhole
<1> QED
  BY <1>1, <1>2, <1>3, PTL DEF MobileObserversSpec

(***************************************************************************)
(* The settings service: what is stored and remembered is true, for any    *)
(* clock and any number of refreshers, updates and failures.               *)
(***************************************************************************)
\* A timestamp that is not set, or set once.
Stamp(S) == S = {} \/ \E t \in Nat : S = {t}

\* The timestamps of an invitation, each not before the ones it follows.
Invited(i) ==
  /\ i = [created |-> i.created, prompted |-> i.prompted, opened |-> i.opened,
          dismissed |-> i.dismissed, completed |-> i.completed]
  /\ i.created \in Nat
  /\ Stamp(i.prompted) /\ Stamp(i.opened) /\ Stamp(i.dismissed) /\ Stamp(i.completed)

Sound(invitations) == ValidOnboarding(invitations) /\ \A i \in invitations : Invited(i)

\* What is stored and what is in memory is valid, and the file is in the form of
\* this version.
PreferencesInv ==
  /\ Sound(file.invitation) /\ Sound(prefs.invitation)
  /\ file.version = CurrentVersion /\ file.shape = "fits"
  /\ prefs = [chosen |-> prefs.chosen, invitation |-> prefs.invitation, recovered |-> prefs.recovered]

\* Only the first start may have recovered.
RecoveredInv ==
  /\ "restarts" \in DOMAIN budget
  /\ budget.restarts > 0 => ~prefs.recovered

Refresh == [at : {"idle", "wait", "observe", "check", "write"}, completed : Nat,
            authority : Nat, saw : Nat, told : Nat]
Networks == SUBSET Nat
Coordinator == [authority : Nat, completed : Nat, holder : SUBSET Refreshers,
                phase : {"unknown", "stale", "ready", "failed"}, saw : Networks, overtaken : BOOLEAN]

\* A refresh that may still be written was made after the last network change
\* Mish was told of when it checked its authority, or its authority has passed.
DnsInv ==
  /\ dns \in Coordinator
  /\ refresh \in [Refreshers -> Refresh]
  /\ network \in [now : Nat, told : Nat] /\ network.told <= network.now
  /\ \A c \in Refreshers :
       /\ refresh[c].at \in {"observe", "check"} => refresh[c].authority <= dns.authority
       /\ refresh[c].at = "check" /\ refresh[c].authority = dns.authority =>
            refresh[c].saw >= network.told
       /\ refresh[c].at = "write" => refresh[c].saw >= refresh[c].told
  /\ dns.phase = "ready" /\ ~dns.overtaken => \A n \in dns.saw : n >= network.told

\* A set of naturals with a greatest element.
Bounds(S) == S \subseteq Nat /\ \E x \in S : \A y \in S : x >= y

\* One more timestamp leaves a greatest element.
LEMMA StampBounds ==
  ASSUME NEW S, Bounds(S), NEW T, Stamp(T)
  PROVE  Bounds(S \cup T)
<1>1. PICK x \in S : \A y \in S : x >= y
  BY DEF Bounds
<1>2. CASE T = {}
  BY <1>2 DEF Bounds
<1>3. ASSUME NEW t \in Nat, T = {t}
      PROVE  Bounds(S \cup T)
  <2>1. x \in Nat /\ S \cup T \subseteq Nat
    BY <1>3 DEF Bounds
  <2>2. CASE x >= t
    BY <1>1, <1>3, <2>1, <2>2 DEF Bounds
  <2>3. CASE ~(x >= t)
    <3>1. \A y \in S \cup T : t >= y
      BY <1>1, <1>3, <2>1, <2>3 DEF Bounds
    <3> QED
      BY <1>3, <2>1, <3>1 DEF Bounds
  <2> QED
    BY <2>2, <2>3
<1> QED
  BY <1>2, <1>3 DEF Stamp

\* The time of a step is a time, and not before anything the invitation says.
LEMMA NowIsNotBefore ==
  ASSUME NEW i, Invited(i), NEW clock \in Nat
  PROVE  /\ NowFor(i, clock) \in Nat
         /\ NowFor(i, clock) >= i.created
         /\ \A t \in i.prompted \cup i.opened \cup i.dismissed : NowFor(i, clock) >= t
<1> DEFINE a == {clock, i.created}
           b == a \cup i.prompted
           c == b \cup i.opened
           d == c \cup i.dismissed
<1>1. Bounds(a)
  BY DEF Bounds, Invited
<1>2. Bounds(b)
  <2> HIDE DEF a
  <2> QED
    BY <1>1, StampBounds DEF Invited
<1>3. Bounds(c)
  <2> HIDE DEF b
  <2> QED
    BY <1>2, StampBounds DEF Invited
<1>4. Bounds(d)
  <2> HIDE DEF c
  <2> QED
    BY <1>3, StampBounds DEF Invited
<1>5. NowFor(i, clock) = CHOOSE x \in d : \A y \in d : x >= y
  BY DEF NowFor, Max
<1>6. NowFor(i, clock) \in d /\ \A y \in d : NowFor(i, clock) >= y
  <2> HIDE DEF d
  <2> QED
    BY <1>4, <1>5 DEF Bounds
<1>7. NowFor(i, clock) \in Nat
  <2> HIDE DEF d
  <2> QED
    BY <1>4, <1>6 DEF Bounds
<1> QED
  BY <1>6, <1>7

\* A step of the welcome invitation keeps it valid.
LEMMA ActedIsSound ==
  ASSUME NEW i, Invited(i), ValidOnboarding({i}), i.completed = {}, NEW now \in Nat,
         now >= i.created, \A t \in i.prompted \cup i.opened \cup i.dismissed : now >= t,
         NEW action \in {"prompt", "open", "dismiss", "complete"}
  PROVE  Invited(Acted(i, action, now)) /\ ValidOnboarding({Acted(i, action, now)})
<1> DEFINE p == OrNow(i.prompted, now)
           o == OrNow(i.opened, now)
<1>1. /\ i.created \in Nat
      /\ Stamp(i.prompted) /\ Stamp(i.opened) /\ Stamp(i.dismissed) /\ Stamp({now}) /\ Stamp({})
  BY DEF Invited, Stamp
<1>2. Stamp(p) /\ Stamp(o) /\ p # {} /\ o # {}
  BY <1>1 DEF OrNow, Stamp
<1>3. (\A t \in p : t >= i.created /\ now >= t) /\ (\A t \in o : t >= i.created /\ now >= t)
  BY <1>1 DEF OrNow, ValidOnboarding, Stamp
<1>4. \A s \in p : \A t \in o : t >= s
  BY <1>1, <1>3 DEF OrNow, ValidOnboarding, Stamp
<1>5. \A t \in i.dismissed : t >= i.created /\ \A s \in p \cup o : t >= s
  BY <1>1, <1>3 DEF OrNow, ValidOnboarding, Stamp
<1>6. \A t \in i.opened : \A s \in p : t >= s
  BY <1>1, <1>3 DEF OrNow, ValidOnboarding, Stamp
<1> DEFINE Rec(pr, op, di, co) == [created |-> i.created, prompted |-> pr, opened |-> op,
                                   dismissed |-> di, completed |-> co]
<1>7. Acted(i, action, now) \in
        {Rec(p, i.opened, i.dismissed, {}), Rec(p, o, i.dismissed, {}), Rec(p, o, {now}, {}),
         Rec(p, o, i.dismissed, {now})}
  <2>1. i = Rec(i.prompted, i.opened, i.dismissed, {})
    BY DEF Invited
  <2> DEFINE x == Rec(i.prompted, i.opened, i.dismissed, {})
  <2>2. Acted(i, action, now) = Acted(x, action, now)
    BY <2>1
  <2>3. CASE action = "prompt"
    BY <2>2, <2>3 DEF Acted
  <2>4. CASE action = "open"
    BY <2>2, <2>4 DEF Acted
  <2>5. CASE action = "dismiss"
    BY <2>2, <2>5 DEF Acted
  <2>6. CASE action = "complete"
    BY <2>2, <2>6 DEF Acted
  <2> QED
    BY <2>3, <2>4, <2>5, <2>6
<1>8. i.opened = {} => i.dismissed = {}
  BY DEF ValidOnboarding
<1> HIDE DEF p, o
<1>9. \A r \in {Rec(p, i.opened, i.dismissed, {}), Rec(p, o, i.dismissed, {}), Rec(p, o, {now}, {}),
                Rec(p, o, i.dismissed, {now})} : Invited(r)
  BY <1>1, <1>2 DEF Invited
<1>10. ValidOnboarding({Rec(p, i.opened, i.dismissed, {})})
  BY <1>1, <1>2, <1>3, <1>5, <1>6, <1>8 DEF ValidOnboarding
<1>11. ValidOnboarding({Rec(p, o, i.dismissed, {})})
  BY <1>1, <1>2, <1>3, <1>4, <1>5 DEF ValidOnboarding
<1>12. ValidOnboarding({Rec(p, o, {now}, {})})
  BY <1>1, <1>2, <1>3, <1>4 DEF ValidOnboarding
<1>13. ValidOnboarding({Rec(p, o, i.dismissed, {now})})
  BY <1>1, <1>2, <1>3, <1>4, <1>5 DEF ValidOnboarding
<1> HIDE DEF Rec
<1> QED
  BY <1>7, <1>9, <1>10, <1>11, <1>12, <1>13

\* Invitations are valid one by one.
LEMMA SoundOneByOne ==
  ASSUME NEW S
  PROVE  Sound(S) <=> \A i \in S : Invited(i) /\ ValidOnboarding({i})
  BY Zenon DEF Sound, ValidOnboarding

\* An invitation that was just made is sound, and so is none.
LEMMA FreshIsSound ==
  ASSUME NEW now \in Clock
  PROVE  Sound(FreshInvitation(now)) /\ Sound({})
<1>1. now \in Nat
  BY ClockAssumption
<1>2. Sound(FreshInvitation(now))
  BY <1>1 DEF FreshInvitation, Sound, ValidOnboarding, Invited, Stamp
<1>3. Sound({})
  BY DEF Sound, ValidOnboarding
<1> QED
  BY <1>2, <1>3

\* What Mish stores, it accepts.
LEMMA AcceptedFile ==
  ASSUME PreferencesInv
  PROVE  ~Corrupt(file)
<1>1. CurrentVersion \in KnownVersions
  BY DEF CurrentVersion, KnownVersions
<1> QED
  BY <1>1 DEF Corrupt, PreferencesInv, Sound

\* What update does with sound preferences, whether or not the file follows.
LEMMA UpdateKeepsSound ==
  ASSUME PreferencesInv, NEW p, Sound(p.invitation),
         p = [chosen |-> p.chosen, invitation |-> p.invitation, recovered |-> p.recovered],
         file' = file \/ file' = StoredFile(p),
         prefs' = prefs \/ prefs' = [p EXCEPT !.recovered = FALSE]
  PROVE  PreferencesInv'
<1>1. file' = file \/ file' = StoredFile(p)
  OBVIOUS
<1>2. Sound(file'.invitation) /\ file'.version = CurrentVersion /\ file'.shape = "fits"
  BY <1>1 DEF PreferencesInv, StoredFile
<1>3. prefs' = prefs \/ prefs' = [p EXCEPT !.recovered = FALSE]
  OBVIOUS
<1>4. CASE prefs' = prefs
  BY <1>2, <1>4 DEF PreferencesInv
<1>5. CASE prefs' = [p EXCEPT !.recovered = FALSE]
  <2>1. prefs' = [chosen |-> p.chosen, invitation |-> p.invitation, recovered |-> FALSE]
    BY <1>5
  <2> QED
    BY <1>2, <2>1 DEF PreferencesInv
<1> QED
  BY <1>3, <1>4, <1>5

\* Every operation on the preferences keeps what is stored valid.
LEMMA PreferencesStep ==
  ASSUME PreferencesInv, [SettingsNext]_ssvars
  PROVE  PreferencesInv'
<1> DEFINE Shape(p) == p = [chosen |-> p.chosen, invitation |-> p.invitation, recovered |-> p.recovered]
<1>1. Shape(prefs) /\ Sound(prefs.invitation)
  BY DEF PreferencesInv
<1>2. ASSUME NEW field
      PROVE  Shape(Toggled(field)) /\ Sound(Toggled(field).invitation)
  <2> DEFINE ch == prefs.chosen
             inv == prefs.invitation
             rec == prefs.recovered
             new == IF field \in ch THEN ch \ {field} ELSE ch \cup {field}
  <2>1. prefs = [chosen |-> ch, invitation |-> inv, recovered |-> rec]
    BY <1>1
  <2>2. Toggled(field) = [prefs EXCEPT !.chosen = new]
    BY DEF Toggled
  <2>3. Sound(inv)
    BY <1>1
  <2> HIDE DEF ch, inv, rec, new
  <2>4. Toggled(field) = [chosen |-> new, invitation |-> inv, recovered |-> rec]
    BY <2>1, <2>2
  <2> QED
    BY <2>3, <2>4
<1>3. ASSUME UNCHANGED <<file, prefs>>
      PROVE  PreferencesInv'
  BY <1>3 DEF PreferencesInv
<1>4. ASSUME NEW field \in Options \ {"onboarding"}, SetPreference(field)
      PROVE  PreferencesInv'
  <2> DEFINE p == Toggled(field)
  <2>1. /\ file' = file \/ file' = StoredFile(p)
        /\ prefs' = prefs \/ prefs' = [p EXCEPT !.recovered = FALSE]
    BY <1>4 DEF SetPreference, Update, Saved
  <2>2. Shape(p) /\ Sound(p.invitation)
    BY <1>2
  <2> HIDE DEF p
  <2> QED
    BY <2>1, <2>2, UpdateKeepsSound
<1>5. CASE SetWindowSurface
  <2> DEFINE p == Toggled("surface")
  <2>1. /\ file' = file \/ file' = StoredFile(p)
        /\ prefs' = prefs \/ prefs' = [p EXCEPT !.recovered = FALSE]
    BY <1>5 DEF SetWindowSurface, Update, Saved
  <2>2. Shape(p) /\ Sound(p.invitation)
    BY <1>2
  <2> HIDE DEF p
  <2> QED
    BY <2>1, <2>2, UpdateKeepsSound
<1>6. ASSUME NEW action \in {"prompt", "open", "dismiss", "complete", "remove"}, NEW clock \in Clock,
             SetOnboardingWelcomeState(action, clock)
      PROVE  PreferencesInv'
  <2> DEFINE Next(i) == IF i.completed # {} THEN i ELSE Acted(i, action, NowFor(i, clock))
             next == IF action = "remove" THEN {} ELSE {Next(i) : i \in prefs.invitation}
             p == [prefs EXCEPT !.invitation = next]
  <2>1. /\ file' = file \/ file' = StoredFile(p)
        /\ prefs' = prefs \/ prefs' = [p EXCEPT !.recovered = FALSE]
    BY <1>6 DEF SetOnboardingWelcomeState, Update, Saved
  <2>2. Sound(next)
    <3>1. CASE action = "remove"
      BY <3>1, FreshIsSound
    <3>2. CASE action # "remove"
      <4>1. ASSUME NEW i \in prefs.invitation
            PROVE  Invited(Next(i)) /\ ValidOnboarding({Next(i)})
        <5>1. Invited(i) /\ ValidOnboarding({i})
          BY <1>1, SoundOneByOne
        <5>2. CASE i.completed # {}
          BY <5>1, <5>2
        <5>3. CASE i.completed = {}
          <6> DEFINE now == NowFor(i, clock)
          <6>1. clock \in Nat /\ action \in {"prompt", "open", "dismiss", "complete"}
            BY <3>2, ClockAssumption
          <6>2. /\ now \in Nat /\ now >= i.created
                /\ \A t \in i.prompted \cup i.opened \cup i.dismissed : now >= t
            BY <5>1, <6>1, NowIsNotBefore
          <6>3. Next(i) = Acted(i, action, now)
            BY <5>3
          <6> HIDE DEF now
          <6>4. Invited(Acted(i, action, now)) /\ ValidOnboarding({Acted(i, action, now)})
            BY <5>1, <5>3, <6>1, <6>2, ActedIsSound
          <6> QED
            BY <6>3, <6>4
        <5> QED
          BY <5>2, <5>3
      <4> HIDE DEF Next
      <4>2. next = {Next(i) : i \in prefs.invitation}
        BY <3>2
      <4>3. \A i \in next : Invited(i) /\ ValidOnboarding({i})
        BY <4>1, <4>2
      <4> QED
        BY <4>3, SoundOneByOne
    <3> QED
      BY <3>1, <3>2
  <2> HIDE DEF next
  <2>3. Shape(p) /\ p.invitation = next
    <3> DEFINE ch == prefs.chosen
               inv == prefs.invitation
               rec == prefs.recovered
    <3>1. prefs = [chosen |-> ch, invitation |-> inv, recovered |-> rec]
      BY <1>1
    <3>2. p = [prefs EXCEPT !.invitation = next]
      OBVIOUS
    <3> HIDE DEF ch, inv, rec, p
    <3>3. p = [chosen |-> ch, invitation |-> next, recovered |-> rec]
      BY <3>1, <3>2
    <3> QED
      BY <3>3
  <2> HIDE DEF p
  <2> QED
    BY <2>1, <2>2, <2>3, UpdateKeepsSound
<1>7. CASE RestartService
  <2>1. PICK now \in Clock : prefs' = Loaded(file, now) /\ file' = StoredFile(Loaded(file, now))
    BY <1>7 DEF RestartService, Load
  <2>2. Loaded(file, now) = Migrated(file, now)
    BY AcceptedFile DEF Loaded
  <2>3. Sound(Migrated(file, now).invitation)
    BY FreshIsSound DEF Migrated, PreferencesInv
  <2> QED
    BY <2>1, <2>2, <2>3 DEF PreferencesInv, Migrated, StoredFile
<1>8. CASE NetworkChanges \/ Invalidate
  BY <1>3, <1>8 DEF NetworkChanges, Invalidate
<1>9. ASSUME NEW c \in Refreshers,
             \/ BeginRefresh(c) \/ TakeOperation(c) \/ ObserveNetwork(c)
             \/ CheckAuthority(c) \/ WriteObservation(c)
      PROVE  PreferencesInv'
  BY <1>3, <1>9 DEF BeginRefresh, TakeOperation, ObserveNetwork, CheckAuthority, WriteObservation
<1>10. CASE UNCHANGED ssvars
  BY <1>3, <1>10 DEF ssvars
<1> QED
  BY <1>4, <1>5, <1>6, <1>7, <1>8, <1>9, <1>10 DEF SettingsNext

\* No operation and no later start recovers.
LEMMA RecoveredStep ==
  ASSUME PreferencesInv, RecoveredInv, [SettingsNext]_ssvars
  PROVE  RecoveredInv'
<1>1. ASSUME "restarts" \in DOMAIN budget', budget'.restarts = budget.restarts,
             prefs' = prefs \/ prefs'.recovered = FALSE
      PROVE  RecoveredInv'
  BY <1>1 DEF RecoveredInv
<1>2. ASSUME NEW p, NEW ok \in BOOLEAN, Update(p, ok), DOMAIN p = DOMAIN prefs
      PROVE  prefs' = prefs \/ prefs'.recovered = FALSE
  <2>1. "recovered" \in DOMAIN prefs
    BY DEF PreferencesInv
  <2> QED
    BY <1>2, <2>1 DEF Update
<1>3. "restarts" \in DOMAIN budget
  BY DEF RecoveredInv
<1>4. ASSUME NEW field \in Options \ {"onboarding"}, SetPreference(field)
      PROVE  RecoveredInv'
  <2>1. PICK ok \in BOOLEAN : Update(Toggled(field), ok)
    BY <1>4 DEF SetPreference
  <2>2. budget'.restarts = budget.restarts /\ "restarts" \in DOMAIN budget'
    BY <1>3, <1>4 DEF SetPreference
  <2>3. DOMAIN Toggled(field) = DOMAIN prefs
    BY DEF Toggled
  <2> QED
    BY <1>1, <1>2, <2>1, <2>2, <2>3
<1>5. CASE SetWindowSurface
  <2> DEFINE p == Toggled("surface")
  <2>1. UNCHANGED prefs \/ \E ok \in BOOLEAN : Update(p, ok)
    BY <1>5, Zenon DEF SetWindowSurface
  <2>2. budget'.restarts = budget.restarts /\ "restarts" \in DOMAIN budget'
    BY <1>3, <1>5 DEF SetWindowSurface
  <2>3. DOMAIN p = DOMAIN prefs
    BY DEF Toggled
  <2> HIDE DEF p
  <2> QED
    BY <1>1, <1>2, <2>1, <2>2, <2>3
<1>6. ASSUME NEW action, NEW clock, SetOnboardingWelcomeState(action, clock)
      PROVE  RecoveredInv'
  <2>1. PICK next : \E ok \in BOOLEAN : Update([prefs EXCEPT !.invitation = next], ok)
    BY <1>6, Zenon DEF SetOnboardingWelcomeState
  <2>2. budget'.restarts = budget.restarts /\ "restarts" \in DOMAIN budget'
    BY <1>3, <1>6 DEF SetOnboardingWelcomeState
  <2>3. DOMAIN [prefs EXCEPT !.invitation = next] = DOMAIN prefs
    OBVIOUS
  <2> QED
    BY <1>1, <1>2, <2>1, <2>2, <2>3
<1>7. CASE RestartService
  <2>1. PICK now \in Clock : prefs' = Loaded(file, now)
    BY <1>7 DEF RestartService, Load
  <2>2. prefs'.recovered = FALSE
    BY <2>1, AcceptedFile DEF Loaded, Migrated
  <2>3. "restarts" \in DOMAIN budget'
    BY <1>3, <1>7 DEF RestartService, Pay
  <2> QED
    BY <2>2, <2>3 DEF RecoveredInv
<1>8. CASE NetworkChanges \/ Invalidate
  <2>1. budget'.restarts = budget.restarts /\ "restarts" \in DOMAIN budget'
    BY <1>3, <1>8 DEF NetworkChanges, Invalidate, Pay
  <2> QED
    BY <1>1, <1>8, <2>1 DEF NetworkChanges, Invalidate
<1>9. ASSUME NEW c \in Refreshers,
             \/ BeginRefresh(c) \/ TakeOperation(c) \/ ObserveNetwork(c)
             \/ CheckAuthority(c) \/ WriteObservation(c)
      PROVE  RecoveredInv'
  <2>1. budget' = budget \/ Pay("commands") \/ Pay("faults")
    BY <1>9, Zenon DEF BeginRefresh, TakeOperation, ObserveNetwork, CheckAuthority, WriteObservation, Accept
  <2>2. budget'.restarts = budget.restarts /\ "restarts" \in DOMAIN budget'
    BY <1>3, <2>1 DEF Pay
  <2>3. prefs' = prefs
    BY <1>9 DEF BeginRefresh, TakeOperation, ObserveNetwork, CheckAuthority, WriteObservation
  <2> QED
    BY <1>1, <2>2, <2>3
<1>10. CASE UNCHANGED ssvars
  BY <1>1, <1>3, <1>10 DEF ssvars
<1> QED
  BY <1>4, <1>5, <1>6, <1>7, <1>8, <1>9, <1>10 DEF SettingsNext

\* The DNS observation: only a refresh whose authority is still the coordinator's
\* when it looks is written.
LEMMA DnsStep ==
  ASSUME DnsInv, [SettingsNext]_ssvars
  PROVE  DnsInv'
<1>1. /\ dns \in Coordinator /\ refresh \in [Refreshers -> Refresh]
      /\ network \in [now : Nat, told : Nat] /\ network.told <= network.now
  BY DEF DnsInv
<1>2. ASSUME UNCHANGED <<network, dns, refresh>>
      PROVE  DnsInv'
  BY <1>2 DEF DnsInv
<1>3. NotRefreshing \in Refresh /\ NotRefreshing.at = "idle"
  BY DEF NotRefreshing, Refresh
<1>4. CASE NetworkChanges
  <2>1. network' = [network EXCEPT !.now = @ + 1] /\ UNCHANGED <<dns, refresh>>
    BY <1>4 DEF NetworkChanges
  <2>2. network' \in [now : Nat, told : Nat] /\ network'.told = network.told /\ network'.told <= network'.now
    BY <1>1, <2>1
  <2> QED
    BY <2>1, <2>2 DEF DnsInv
<1>5. CASE Invalidate
  <2> DEFINE phase == IF dns.saw # {} THEN "stale" ELSE "unknown"
             a == [dns EXCEPT !.authority = @ + 1]
  <2>1. network' = [network EXCEPT !.told = network.now] /\ UNCHANGED refresh
    BY <1>5 DEF Invalidate
  <2>2. dns' = [a EXCEPT !.phase = phase]
    BY <1>5, Zenon DEF Invalidate
  <2>3. a \in Coordinator /\ a.authority = dns.authority + 1 /\ dns.authority \in Nat
    BY <1>1 DEF Coordinator
  <2>4. phase \in {"stale", "unknown"}
    OBVIOUS
  <2> HIDE DEF a, phase
  <2>5. dns' \in Coordinator /\ dns'.authority = dns.authority + 1 /\ dns'.phase # "ready"
    BY <2>2, <2>3, <2>4 DEF Coordinator
  <2>6. network' \in [now : Nat, told : Nat] /\ network'.told <= network'.now
    BY <1>1, <2>1
  <2>7. \A c \in Refreshers : refresh[c].authority \in Nat
    BY <1>1 DEF Refresh
  <2> QED
    BY <1>1, <2>1, <2>3, <2>5, <2>6, <2>7 DEF DnsInv
<1>6. ASSUME NEW c \in Refreshers, BeginRefresh(c)
      PROVE  DnsInv'
  <2> DEFINE r == [NotRefreshing EXCEPT !.at = "wait", !.completed = dns.completed]
             b == [NotRefreshing EXCEPT !.at = "wait"]
  <2>1. b \in Refresh /\ b.at = "wait" /\ dns.completed \in Nat
    BY <1>1, <1>3 DEF Refresh, Coordinator
  <2>2. r = [b EXCEPT !.completed = dns.completed]
    BY Zenon
  <2>3. refresh' = [refresh EXCEPT ![c] = r] /\ UNCHANGED <<dns, network>>
    BY <1>6 DEF BeginRefresh
  <2> HIDE DEF r, b
  <2>4. r \in Refresh /\ r.at = "wait"
    BY <2>1, <2>2 DEF Refresh
  <2> QED
    BY <1>1, <2>3, <2>4 DEF DnsInv
<1>7. ASSUME NEW c \in Refreshers, TakeOperation(c)
      PROVE  DnsInv'
  <2>1. CASE dns.completed # refresh[c].completed
    <3>1. refresh' = [refresh EXCEPT ![c] = NotRefreshing] /\ UNCHANGED <<dns, network>>
      BY <1>7, <2>1 DEF TakeOperation
    <3> QED
      BY <1>1, <1>3, <3>1 DEF DnsInv
  <2>2. CASE dns.completed = refresh[c].completed
    <3> DEFINE b == [refresh[c] EXCEPT !.at = "observe"]
               r == [b EXCEPT !.authority = dns.authority]
               h == {c}
    <3>1. /\ refresh' = [refresh EXCEPT ![c].at = "observe", ![c].authority = dns.authority]
          /\ dns' = [dns EXCEPT !.holder = {c}] /\ UNCHANGED network
      BY <1>7, <2>2 DEF TakeOperation
    <3>2. refresh[c] \in Refresh /\ dns.authority \in Nat /\ h \in SUBSET Refreshers
      BY <1>1 DEF Coordinator
    <3>3. b \in Refresh /\ b.at = "observe"
      BY <3>2 DEF Refresh
    <3>4. refresh' = [refresh EXCEPT ![c] = r]
      <4> DEFINE one == [refresh EXCEPT ![c] = b]
      <4>1. refresh' = [one EXCEPT ![c] = [@ EXCEPT !.authority = dns.authority]]
        BY <3>1, Zenon
      <4>2. one \in [Refreshers -> Refresh] /\ one[c] = b
        <5> HIDE DEF b
        <5> QED
          BY <1>1, <3>3
      <4>3. refresh' = [one EXCEPT ![c] = r]
        <5> HIDE DEF one, b
        <5> QED
          BY <4>1, <4>2
      <4> HIDE DEF r, b
      <4> QED
        BY <1>1, <4>3
    <3> HIDE DEF b
    <3>5. r \in Refresh /\ r.at = "observe" /\ r.authority = dns.authority
      BY <3>2, <3>3 DEF Refresh
    <3> HIDE DEF r, h
    <3>6. /\ dns' \in Coordinator /\ dns'.authority = dns.authority /\ dns'.saw = dns.saw
          /\ dns'.phase = dns.phase /\ dns'.overtaken = dns.overtaken
      <4>1. dns' = [dns EXCEPT !.holder = h]
        BY <3>1 DEF h
      <4> DEFINE H == SUBSET Refreshers
      <4>2. h \in H /\ dns \in [authority : Nat, completed : Nat, holder : H,
                phase : {"unknown", "stale", "ready", "failed"}, saw : Networks, overtaken : BOOLEAN]
        BY <1>1, <3>2 DEF Coordinator
      <4> HIDE DEF H
      <4>3. dns' \in [authority : Nat, completed : Nat, holder : H,
                phase : {"unknown", "stale", "ready", "failed"}, saw : Networks, overtaken : BOOLEAN]
            /\ dns'.authority = dns.authority /\ dns'.saw = dns.saw /\ dns'.phase = dns.phase
            /\ dns'.overtaken = dns.overtaken
        BY <4>1, <4>2
      <4> QED
        BY <4>3 DEF Coordinator, H
    <3>7. refresh' \in [Refreshers -> Refresh]
      BY <1>1, <3>4, <3>5
    <3>8. ASSUME NEW q \in Refreshers
          PROVE  /\ refresh'[q].at \in {"observe", "check"} => refresh'[q].authority <= dns'.authority
                 /\ refresh'[q].at = "check" /\ refresh'[q].authority = dns'.authority =>
                      refresh'[q].saw >= network.told
                 /\ refresh'[q].at = "write" => refresh'[q].saw >= refresh'[q].told
      <4>1. CASE q = c
        BY <1>1, <3>2, <3>4, <3>5, <3>6, <4>1
      <4>2. CASE q # c
        <5>1. refresh'[q] = refresh[q]
          BY <1>1, <3>4, <4>2
        <5> QED
          BY <3>6, <5>1 DEF DnsInv
      <4> QED
        BY <4>1, <4>2
    <3>9. (dns.phase = "ready" /\ ~dns.overtaken => \A n \in dns.saw : n >= network.told)'
      BY <3>1, <3>6 DEF DnsInv
    <3> QED
      BY <1>1, <3>1, <3>6, <3>7, <3>8, <3>9 DEF DnsInv
  <2> QED
    BY <2>1, <2>2
<1>8. ASSUME NEW c \in Refreshers, ObserveNetwork(c)
      PROVE  DnsInv'
  <2> DEFINE b == [refresh[c] EXCEPT !.at = "check"]
             r == [b EXCEPT !.saw = network.now]
  <2>1. refresh[c] \in Refresh /\ network.now \in Nat /\ refresh[c].at = "observe"
    BY <1>1, <1>8 DEF ObserveNetwork
  <2>2. b \in Refresh /\ b.at = "check" /\ b.authority = refresh[c].authority
    BY <2>1 DEF Refresh
  <2>3. refresh' = [refresh EXCEPT ![c] = r] /\ UNCHANGED <<dns, network>>
    <3> DEFINE one == [refresh EXCEPT ![c] = b]
    <3>1. /\ refresh' = [one EXCEPT ![c] = [@ EXCEPT !.saw = network.now]]
          /\ UNCHANGED <<dns, network>>
      BY <1>8, Zenon DEF ObserveNetwork
    <3>2. one \in [Refreshers -> Refresh] /\ one[c] = b
      <4> HIDE DEF b
      <4> QED
        BY <1>1, <2>2
    <3>3. refresh' = [one EXCEPT ![c] = r]
      <4> HIDE DEF one, b
      <4> QED
        BY <3>1, <3>2
    <3> HIDE DEF r, b
    <3> QED
      BY <1>1, <3>1, <3>3
  <2> HIDE DEF b
  <2>4. r \in Refresh /\ r.at = "check" /\ r.authority = refresh[c].authority /\ r.saw = network.now
    BY <2>1, <2>2 DEF Refresh
  <2> HIDE DEF r
  <2> QED
    BY <1>1, <2>1, <2>3, <2>4 DEF DnsInv
<1>9. ASSUME NEW c \in Refreshers, CheckAuthority(c)
      PROVE  DnsInv'
  <2>1. CASE Current(c)
    <3> DEFINE b == [refresh[c] EXCEPT !.at = "write"]
               r == [b EXCEPT !.told = network.told]
    <3>1. refresh' = [refresh EXCEPT ![c] = r] /\ UNCHANGED <<dns, network>> /\ refresh[c].at = "check"
      <4>1. refresh' = [refresh EXCEPT ![c] = [refresh[c] EXCEPT !.at = "write", !.told = network.told]]
            /\ UNCHANGED <<dns, network>> /\ refresh[c].at = "check"
        BY <1>1, <1>9, <2>1 DEF CheckAuthority
      <4> QED
        BY <4>1, Zenon
    <3>2. b \in Refresh /\ b.at = "write" /\ b.saw = refresh[c].saw
      BY <1>1 DEF Refresh
    <3> HIDE DEF b
    <3>4. r \in Refresh /\ r.at = "write" /\ r.saw = refresh[c].saw /\ r.told = network.told
      BY <1>1, <3>2 DEF Refresh
    <3>3. r.saw >= r.told
      BY <2>1, <3>1, <3>4 DEF DnsInv, Current
    <3> HIDE DEF r
    <3> QED
      BY <1>1, <3>1, <3>4, <3>3 DEF DnsInv
  <2>2. CASE ~Current(c)
    <3>1. /\ refresh' = [refresh EXCEPT ![c] = NotRefreshing] /\ UNCHANGED network
          /\ dns' = [dns EXCEPT !.holder = {}]
      BY <1>9, <2>2 DEF CheckAuthority
    <3>2. /\ dns' \in Coordinator /\ dns'.authority = dns.authority /\ dns'.saw = dns.saw
          /\ dns'.phase = dns.phase /\ dns'.overtaken = dns.overtaken
      BY <1>1, <3>1 DEF Coordinator
    <3> QED
      BY <1>1, <1>3, <3>1, <3>2 DEF DnsInv
  <2> QED
    BY <2>1, <2>2
<1>10. ASSUME NEW c \in Refreshers, WriteObservation(c)
       PROVE  DnsInv'
  <2>1. PICK ok \in BOOLEAN : dns' = Accepted(c, ok)
    BY <1>10 DEF WriteObservation, Accept
  <2>2. refresh' = [refresh EXCEPT ![c] = NotRefreshing] /\ UNCHANGED network /\ refresh[c].at = "write"
    BY <1>10 DEF WriteObservation, Accept
  <2>3. refresh[c].saw \in Nat /\ refresh[c].saw >= refresh[c].told
    BY <1>1, <2>2 DEF DnsInv, Refresh
  <2> DEFINE phase == IF ok THEN "ready" ELSE "failed"
             saw == IF ok THEN {refresh[c].saw} ELSE dns.saw
             h == [dns EXCEPT !.holder = {}]
             d == [h EXCEPT !.completed = @ + 1]
             e == [d EXCEPT !.phase = phase]
             g == [e EXCEPT !.saw = saw]
             late == network.told # refresh[c].told
  <2>4. dns' = [g EXCEPT !.overtaken = late]
    BY <2>1 DEF Accepted
  <2>5. h \in Coordinator /\ h.authority = dns.authority /\ h.saw = dns.saw
    BY <1>1 DEF Coordinator
  <2> HIDE DEF h
  <2>6. d \in Coordinator /\ d.authority = dns.authority /\ d.saw = dns.saw
    BY <2>5 DEF Coordinator
  <2> HIDE DEF d
  <2>7. phase \in {"ready", "failed"} /\ (phase = "ready" => ok)
    OBVIOUS
  <2>8. saw \in Networks /\ (ok => saw = {refresh[c].saw})
    BY <1>1, <2>3 DEF Coordinator, Networks
  <2> HIDE DEF phase, saw
  <2>9. e \in Coordinator /\ e.authority = dns.authority /\ e.phase = phase
    BY <2>6, <2>7 DEF Coordinator
  <2> HIDE DEF e
  <2>12. g \in Coordinator /\ g.authority = dns.authority /\ g.phase = phase /\ g.saw = saw
    BY <2>8, <2>9 DEF Coordinator
  <2>13. late \in BOOLEAN /\ (~late => network.told = refresh[c].told)
    OBVIOUS
  <2> HIDE DEF g, late
  <2>10. /\ dns' \in Coordinator /\ dns'.authority = dns.authority /\ dns'.phase = phase
         /\ dns'.saw = saw /\ dns'.overtaken = late
    BY <2>4, <2>12, <2>13 DEF Coordinator
  <2>11. (dns.phase = "ready" /\ ~dns.overtaken => \A n \in dns.saw : n >= network.told)'
    BY <2>2, <2>3, <2>7, <2>8, <2>10, <2>13
  <2> QED
    BY <1>1, <1>3, <2>2, <2>10, <2>11 DEF DnsInv
<1>11. CASE RestartService
  <2>1. /\ dns' = NewCoordinator /\ refresh' = [c \in Refreshers |-> NotRefreshing]
        /\ network' = [network EXCEPT !.told = network.now]
    BY <1>11 DEF RestartService
  <2>2. dns' \in Coordinator /\ dns'.phase = "unknown"
    BY <2>1 DEF NewCoordinator, Coordinator, Networks
  <2>3. network' \in [now : Nat, told : Nat] /\ network'.told <= network'.now
    BY <1>1, <2>1
  <2> QED
    BY <1>3, <2>1, <2>2, <2>3 DEF DnsInv
<1>12. ASSUME NEW field, SetPreference(field)
       PROVE  DnsInv'
  BY <1>2, <1>12 DEF SetPreference
<1>13. CASE SetWindowSurface
  BY <1>2, <1>13 DEF SetWindowSurface
<1>14. ASSUME NEW action, NEW clock, SetOnboardingWelcomeState(action, clock)
       PROVE  DnsInv'
  BY <1>2, <1>14 DEF SetOnboardingWelcomeState
<1>15. CASE UNCHANGED ssvars
  BY <1>2, <1>15 DEF ssvars
<1> QED
  BY <1>4, <1>5, <1>6, <1>7, <1>8, <1>9, <1>10, <1>11, <1>12, <1>13, <1>14, <1>15 DEF SettingsNext

\* The service starts from valid preferences and with nothing observed.
LEMMA SettingsStart ==
  ASSUME SettingsInit
  PROVE  PreferencesInv /\ RecoveredInv /\ DnsInv
<1>1. PICK found \in FoundFiles, now \in Clock : prefs = Loaded(found, now)
  BY DEF SettingsInit
<1>2. Sound(prefs.invitation)
  <2>1. CASE Corrupt(found)
    BY <1>1, <2>1, FreshIsSound DEF Loaded, Defaults
  <2>2. CASE ~Corrupt(found) /\ "onboarding" \notin Fields(found.version)
    BY <1>1, <2>2, FreshIsSound DEF Loaded, Migrated
  <2>3. CASE ~Corrupt(found) /\ "onboarding" \in Fields(found.version)
    <3>1. prefs.invitation = found.invitation /\ ValidOnboarding(found.invitation)
      BY <1>1, <2>3 DEF Loaded, Migrated, Corrupt
    <3>2. found.invitation \in FoundInvitations
      BY DEF FoundFiles
    <3>3. \A i \in found.invitation : Invited(i)
      <4>1. PICK n \in Clock : found.invitation \in
              {{}, FreshInvitation(n), {[i EXCEPT !.opened = {n}] : i \in FreshInvitation(n)}}
        BY <3>2 DEF FoundInvitations
      <4>2. n \in Nat
        BY ClockAssumption
      <4> QED
        BY <4>1, <4>2 DEF FreshInvitation, Invited, Stamp
    <3> QED
      BY <3>1, <3>3 DEF Sound
  <2> QED
    BY <2>1, <2>2, <2>3
<1>3. prefs = [chosen |-> prefs.chosen, invitation |-> prefs.invitation, recovered |-> prefs.recovered]
  BY <1>1 DEF Loaded, Defaults, Migrated
<1>4. PreferencesInv
  BY <1>2, <1>3 DEF SettingsInit, PreferencesInv, StoredFile
<1>5. RecoveredInv
  BY DEF SettingsInit, RecoveredInv
<1>6. DnsInv
  BY DEF SettingsInit, DnsInv, NewCoordinator, Coordinator, Networks, NotRefreshing, Refresh
<1> QED
  BY <1>4, <1>5, <1>6

\* Whatever file the first start found, whatever the clock shows, whichever write
\* fails and whenever the process dies, the file is one the next start accepts and
\* no later start discards the settings as corrupt: for every set of preferences,
\* file versions, clock values and commands.
THEOREM SettingsAreKept == SettingsSpec => []NeverDiscarded
<1> DEFINE Inv == PreferencesInv /\ RecoveredInv
<1>1. SettingsInit => Inv
  BY SettingsStart
<1>2. Inv /\ [SettingsNext]_ssvars => Inv'
  BY PreferencesStep, RecoveredStep
<1>3. Inv => NeverDiscarded
  BY AcceptedFile DEF RecoveredInv, NeverDiscarded
<1> QED
  BY <1>1, <1>2, <1>3, PTL DEF SettingsSpec

\* The same, and a DNS observation that is shown as ready was made after the last
\* network change Mish was told of, unless it was told of one between the
\* authority check of the refresh and its write: for any number of refreshing
\* clients and network changes.
THEOREM SettingsHold == SettingsSpec => []SettingsAreTrue
<1> DEFINE Inv == PreferencesInv /\ RecoveredInv /\ DnsInv
<1>1. SettingsInit => Inv
  BY SettingsStart
<1>2. Inv /\ [SettingsNext]_ssvars => Inv'
  BY PreferencesStep, RecoveredStep, DnsStep
<1>3. Inv => SettingsAreTrue
  BY AcceptedFile DEF RecoveredInv, DnsInv, SettingsAreTrue, NeverDiscarded, ReadyIsCurrent
<1> QED
  BY <1>1, <1>2, <1>3, PTL DEF SettingsSpec

(***************************************************************************)
(* The removal of the helper: the journal says what happened to it, for    *)
(* any operations, failing writes and restarts, as long as there are no    *)
(* more commands than the journal keeps records.                           *)
(***************************************************************************)
Occurrences == [op : Ids, rev : Nat, phase : {"admitted", "shutdown", "observation", "maintenance"}]
RecordOutcomes == {"removed", "incomplete", "cancelled", "authorization", "shutdown", "failed"}
RemovalRecords == [op : Ids, rev : Nat, outcome : RecordOutcomes, cleanup : {"absent", "incomplete", "none"}]
Journals == [active : SUBSET Occurrences, next : Nat, records : Seq(RemovalRecords)]

HandlerStages == {"idle", "occurrence", "refresh", "advance_shutdown", "shutdown", "advance_observation",
                  "confirm", "observe", "advance_maintenance", "admit", "disable", "check", "run", "settle",
                  "recheck", "removed", "network", "handoff", "resume", "failed"}
HandlerErrors == {"none", "unconfirmed", "capture", "unsafe", "confirmation", "identity", "operation",
                  "observation", "connection", "cancelled"}
Handlers == [at : HandlerStages, op : Ids \cup {0}, kind : {"none", "install", "repair", "remove"},
             resume : BOOLEAN, err : HandlerErrors]

\* What holds of the journal's owners whatever happens: the file and its copy in
\* memory, the handler, the counters.
HelperTyped ==
  /\ disk \in Journals
  /\ store \in [active : SUBSET Occurrences, next : Nat, records : Seq(RemovalRecords),
                retry : BOOLEAN, usable : BOOLEAN]
  /\ job \in Handlers
  /\ ran \in [Ids -> Nat]
  /\ used \in [commands : Nat, faults : Nat, crashes : Nat]
  /\ used.commands <= MaxCommands

\* One occurrence is at work at a time, on disk and in memory.
OneOccurrence ==
  /\ \A a, b \in disk.active : a = b
  /\ \A a, b \in store.active : a = b
  /\ ~store.usable => store.active = {}

\* The stages of a removal: before its uninstall is started, and from then on.
RemovalBefore == {"refresh", "advance_shutdown", "shutdown", "advance_observation", "confirm",
                  "observe", "advance_maintenance", "admit", "check"}
RemovalAfter == {"run", "settle", "recheck", "removed"}
RemovalOnly == {"occurrence", "recheck", "removed"} \cup (RemovalBefore \ {"admit", "check"})

StagesOfRemoval ==
  /\ job.at \in RemovalOnly => job.kind = "remove"
  /\ job.kind = "remove" => /\ job.op \in Ids
                            /\ job.at \in {"occurrence", "failed"} \cup RemovalBefore \cup RemovalAfter

\* A removal that was admitted is the occurrence in the journal, on disk as in
\* memory, and in privileged maintenance when its uninstall may start.
RemovalIsOwned ==
  job.kind = "remove" /\ job.at # "occurrence" =>
    /\ store.usable /\ ~store.retry /\ disk = Journal
    /\ \E a \in store.active : /\ a.op = job.op
                               /\ job.at \in {"admit", "check"} \cup RemovalAfter => a.phase = "maintenance"

\* The journal never holds more than there were commands, nor the command that is
\* not admitted yet.
JournalCount(j) == Len(j.records) + (IF j.active = {} THEN 0 ELSE 1)
Unadmitted == IF job.at = "occurrence" THEN 1 ELSE 0
RecordsAreCounted ==
  /\ JournalCount(disk) + Unadmitted <= used.commands
  /\ JournalCount(store) + Unadmitted <= used.commands

RecordsSay(j, op) == \E r \in ToSet(j.records) : r.op = op
EvidenceOf(op) == (\E a \in disk.active : a.op = op /\ a.phase = "maintenance") \/ RecordsSay(disk, op)

\* Every uninstall that was started is in the file, and in a usable memory unless
\* it is the one at work; one that was not started is at work at most once.
StartsAreRecorded ==
  \A op \in Ids :
    /\ ran[op] <= 1
    /\ ran[op] > 0 =>
         /\ EvidenceOf(op)
         /\ \/ ~store.usable \/ RecordsSay(store, op)
            \/ job.kind = "remove" /\ job.op = op /\ job.at \in RemovalAfter \cup {"failed"}
    /\ job.kind = "remove" /\ job.op = op /\ job.at \in RemovalBefore => ran[op] = 0

\* A record says "removed" only of an operation that took the helper away, and the
\* handler is about to say so only of one that did.
RemovedIsTrue ==
  /\ \A r \in ToSet(disk.records) \cup ToSet(store.records) : r.outcome = "removed" => r.op \in gone
  /\ job.kind = "remove" /\ (job.at \in {"recheck", "removed"} \/ (job.at = "settle" /\ job.err = "none"))
       => job.op \in gone

Roomy == MaxCommands <= RecordLimit

HelperInv ==
  /\ HelperTyped /\ OneOccurrence /\ StagesOfRemoval /\ RemovalIsOwned /\ RecordsAreCounted
  /\ Roomy => StartsAreRecorded
  /\ RemovedIsTrue

\* What a step may do to the counters.
UsedGrows ==
  /\ used' \in [commands : Nat, faults : Nat, crashes : Nat]
  /\ used.commands <= used'.commands /\ used'.commands <= MaxCommands

\* A failing call is counted, and no command with it.
LEMMA FaultsAreUsed ==
  ASSUME HelperTyped, Spend("faults") \/ UNCHANGED used
  PROVE  UsedGrows /\ used'.commands = used.commands
BY HelperAssumption DEF HelperTyped, UsedGrows, Spend

\* A command is counted up to the bound.
LEMMA CommandsAreUsed ==
  ASSUME HelperTyped, used.commands < MaxCommands, Spend("commands")
  PROVE  UsedGrows /\ used'.commands = used.commands + 1
BY HelperAssumption DEF HelperTyped, UsedGrows, Spend

\* What the records of a longer journal say.
LEMMA AppendSays ==
  ASSUME NEW s \in Seq(RemovalRecords), NEW e \in RemovalRecords
  PROVE  /\ Append(s, e) \in Seq(RemovalRecords) /\ Len(Append(s, e)) = Len(s) + 1
         /\ ToSet(Append(s, e)) = ToSet(s) \cup {e}
<1> DEFINE t == Append(s, e)
<1>1. t \in Seq(RemovalRecords) /\ Len(t) = Len(s) + 1 /\ DOMAIN t = 1..Len(s)+1 /\ DOMAIN s = 1..Len(s) /\ Len(s) \in Nat
  OBVIOUS
<1>2. (\A i \in 1..Len(s) : t[i] = s[i]) /\ t[Len(s) + 1] = e
  OBVIOUS
<1> HIDE DEF t
<1>3. {t[i] : i \in 1..Len(s)+1} = {s[i] : i \in 1..Len(s)} \cup {e}
  BY <1>1, <1>2
<1> QED
  BY <1>1, <1>3 DEF ToSet, t

\* Trimming keeps the newest records, and all of them while there is room.
LEMMA TrimSays ==
  ASSUME NEW s \in Seq(RemovalRecords)
  PROVE  /\ Trim(s) \in Seq(RemovalRecords) /\ Len(Trim(s)) <= Len(s) /\ Len(Trim(s)) \in Nat
         /\ ToSet(Trim(s)) \subseteq ToSet(s)
         /\ Len(s) <= RecordLimit => Trim(s) = s
<1>1. CASE Len(s) <= RecordLimit
  BY <1>1, HelperAssumption DEF Trim
<1>2. CASE Len(s) > RecordLimit
  <2> DEFINE t == SubSeq(s, 2, Len(s))
  <2>1. Len(s) \in Nat /\ 1 <= Len(s) /\ DOMAIN s = 1..Len(s)
    BY <1>2, HelperAssumption
  <2>2. t \in Seq(RemovalRecords) /\ Len(t) = Len(s) - 1 /\ DOMAIN t = 1..(Len(s) - 1)
    BY <2>1
  <2>3. \A i \in 1..(Len(s) - 1) : t[i] = s[i + 1]
    BY <2>1
  <2>4. Trim(s) = t
    BY <1>2, HelperAssumption, <2>1 DEF Trim
  <2> HIDE DEF t
  <2>5. \A i \in DOMAIN t : \E k \in DOMAIN s : t[i] = s[k]
    <3> TAKE i \in DOMAIN t
    <3>1. i + 1 \in DOMAIN s /\ t[i] = s[i + 1]
      BY <2>1, <2>2, <2>3
    <3> QED
      BY <3>1
  <2>6. ToSet(t) \subseteq ToSet(s)
    BY <2>5 DEF ToSet
  <2> QED
    BY <1>2, <2>1, <2>2, <2>4, <2>6, HelperAssumption
<1> QED
  BY <1>1, <1>2, HelperAssumption

\* The journal's count is a number.
LEMMA CountIsNat ==
  ASSUME NEW j, j.records \in Seq(RemovalRecords) PROVE JournalCount(j) \in Nat
<1>1. Len(j.records) \in Nat
  OBVIOUS
<1>2. CASE j.active = {}
  BY <1>1, <1>2 DEF JournalCount
<1>3. CASE j.active # {}
  <2>1. JournalCount(j) = Len(j.records) + 1
    BY <1>3 DEF JournalCount
  <2> QED
    BY <1>1, <2>1
<1> QED
  BY <1>2, <1>3

\* A journal that stays is counted as before.
LEMMA CountsStay ==
  ASSUME HelperInv, UsedGrows, UNCHANGED <<store, disk>>, job'.at = "occurrence" => job.at = "occurrence"
  PROVE  RecordsAreCounted'
<1>1. JournalCount(disk) \in Nat /\ JournalCount(store) \in Nat
  BY CountIsNat DEF HelperInv, HelperTyped, Journals
<1>2. JournalCount(disk)' = JournalCount(disk) /\ JournalCount(store)' = JournalCount(store)
  BY DEF JournalCount
<1>3. Unadmitted \in Nat /\ Unadmitted' \in Nat /\ Unadmitted' <= Unadmitted
  BY DEF Unadmitted
<1>4. used.commands \in Nat /\ used'.commands \in Nat /\ used.commands <= used'.commands
  BY DEF HelperInv, HelperTyped, UsedGrows
<1>5. /\ JournalCount(disk) + Unadmitted <= used.commands
      /\ JournalCount(store) + Unadmitted <= used.commands
  BY DEF HelperInv, RecordsAreCounted
<1>6. /\ JournalCount(disk) + Unadmitted' <= used'.commands
      /\ JournalCount(store) + Unadmitted' <= used'.commands
  BY <1>1, <1>3, <1>4, <1>5
<1> QED
  BY <1>2, <1>6 DEF RecordsAreCounted

\* A step that leaves the journal, the handler and what it did alone keeps the
\* invariant.
LEMMA HelperFrame ==
  ASSUME HelperInv, UsedGrows, UNCHANGED <<store, disk, ran, gone, job>>
  PROVE  HelperInv'
<1>1. HelperTyped'
  BY DEF HelperInv, HelperTyped, UsedGrows
<1>2. OneOccurrence' /\ StagesOfRemoval' /\ RemovalIsOwned' /\ RemovedIsTrue'
  BY DEF HelperInv, OneOccurrence, StagesOfRemoval, RemovalIsOwned, Journal, RemovedIsTrue
<1>3. RecordsAreCounted'
  BY CountsStay
<1>4. Roomy => StartsAreRecorded'
  BY DEF HelperInv, StartsAreRecorded, EvidenceOf, RecordsSay
<1>5. Roomy' <=> Roomy
  BY DEF Roomy
<1> QED
  BY <1>1, <1>2, <1>3, <1>4, <1>5 DEF HelperInv

\* Where a handler may go without touching the journal.
MovesOn ==
  /\ job' \in Handlers
  /\ job'.kind = job.kind /\ job'.op = job.op
  /\ job.at # "occurrence" /\ job'.at # "occurrence"
  /\ job.kind # "remove" => job'.at \notin RemovalOnly
  /\ job.kind = "remove" =>
       /\ job'.at \in {"failed"} \cup RemovalBefore \cup RemovalAfter
       /\ job'.at \in {"admit", "check"} \cup RemovalAfter => job.at \in {"admit", "check"} \cup RemovalAfter
       /\ job'.at \in RemovalBefore => job.at \in RemovalBefore
       /\ job.at \in RemovalAfter \cup {"failed"} => job'.at \in RemovalAfter \cup {"failed"}
       /\ job'.at \in {"recheck", "removed"} \/ (job'.at = "settle" /\ job'.err = "none") => job.op \in gone'

\* Such a move keeps the invariant.
LEMMA HelperMoves ==
  ASSUME HelperInv, UsedGrows, MovesOn, UNCHANGED <<store, disk, ran>>, gone \subseteq gone'
  PROVE  HelperInv'
<1>1. HelperTyped'
  BY DEF HelperInv, HelperTyped, UsedGrows, MovesOn
<1>2. OneOccurrence' /\ RemovedIsTrue'
  BY DEF HelperInv, OneOccurrence, RemovedIsTrue, MovesOn
<1>3. StagesOfRemoval'
  BY DEF HelperInv, StagesOfRemoval, MovesOn
<1>4. RemovalIsOwned'
  BY DEF HelperInv, RemovalIsOwned, MovesOn, Journal
<1>5. RecordsAreCounted'
  BY CountsStay DEF MovesOn
<1>6. Roomy => StartsAreRecorded'
  <2> SUFFICES ASSUME Roomy, NEW op \in Ids PROVE
        /\ ran'[op] <= 1
        /\ ran'[op] > 0 =>
             /\ EvidenceOf(op)'
             /\ \/ ~store.usable' \/ RecordsSay(store, op)'
                \/ job'.kind = "remove" /\ job'.op = op /\ job'.at \in RemovalAfter \cup {"failed"}
        /\ job'.kind = "remove" /\ job'.op = op /\ job'.at \in RemovalBefore => ran'[op] = 0
    BY DEF StartsAreRecorded
  <2>1. /\ ran[op] <= 1
        /\ ran[op] > 0 =>
             /\ EvidenceOf(op)
             /\ \/ ~store.usable \/ RecordsSay(store, op)
                \/ job.kind = "remove" /\ job.op = op /\ job.at \in RemovalAfter \cup {"failed"}
        /\ job.kind = "remove" /\ job.op = op /\ job.at \in RemovalBefore => ran[op] = 0
    BY DEF HelperInv, StartsAreRecorded
  <2>2. EvidenceOf(op)' <=> EvidenceOf(op)
    BY DEF EvidenceOf, RecordsSay
  <2>3. RecordsSay(store, op)' <=> RecordsSay(store, op)
    BY DEF RecordsSay
  <2> QED
    BY <2>1, <2>2, <2>3 DEF MovesOn
<1>7. Roomy' <=> Roomy
  BY DEF Roomy
<1> QED
  BY <1>1, <1>2, <1>3, <1>4, <1>5, <1>6, <1>7 DEF HelperInv

\* The end of a handler that is no removal.
LEMMA HelperQuiets ==
  ASSUME HelperInv, UsedGrows, job.kind # "remove", job' = Quiet, UNCHANGED <<store, disk, ran, gone>>
  PROVE  HelperInv'
<1>1. job' \in Handlers
      /\ job'.at = "idle" /\ job'.kind = "none"
  BY DEF Quiet, Handlers, HandlerStages, HandlerErrors
<1>2. HelperTyped'
  BY <1>1 DEF HelperInv, HelperTyped, UsedGrows
<1>3. OneOccurrence' /\ RemovedIsTrue' /\ StagesOfRemoval' /\ RemovalIsOwned'
  BY <1>1 DEF HelperInv, OneOccurrence, RemovedIsTrue, StagesOfRemoval, RemovalIsOwned, RemovalOnly, RemovalBefore
<1>4. RecordsAreCounted'
  BY <1>1, CountsStay
<1>5. Roomy => StartsAreRecorded'
  BY <1>1 DEF HelperInv, StartsAreRecorded, EvidenceOf, RecordsSay
<1>6. Roomy' <=> Roomy
  BY DEF Roomy
<1> QED
  BY <1>2, <1>3, <1>4, <1>5, <1>6 DEF HelperInv

\* A Capture command only counts.
LEMMA RequestCaptureSafe == ASSUME HelperInv, NEW on \in BOOLEAN, RequestCapture(on) PROVE HelperInv'
<1>1. UsedGrows
  BY CommandsAreUsed DEF HelperInv, RequestCapture
<1> QED
  BY <1>1, HelperFrame DEF RequestCapture

\* The steps of Capture and a refresh leave the removal alone.
LEMMA CaptureSafe ==
  ASSUME HelperInv, StartPrivilegedCore \/ SetTunEnabled \/ RefreshHelper PROVE HelperInv'
<1>1. (Spend("faults") \/ UNCHANGED used) /\ UNCHANGED <<store, disk, ran, gone, job>>
  BY DEF StartPrivilegedCore, SetTunEnabled, RefreshHelper
<1>2. UsedGrows
  BY <1>1, FaultsAreUsed DEF HelperInv
<1> QED
  BY <1>1, <1>2, HelperFrame

\* The first look at the helper.
LEMMA RefreshRemovalAvailableSafe == ASSUME HelperInv, RefreshRemovalAvailable PROVE HelperInv'
<1>1. Spend("faults") \/ UNCHANGED used
  BY DEF RefreshRemovalAvailable, RefreshLocked
<1>2. UsedGrows
  BY <1>1, FaultsAreUsed DEF HelperInv
<1>3. UNCHANGED <<store, disk, ran, gone>>
  BY DEF RefreshRemovalAvailable
<1>4. job.at = "refresh" /\ job.kind = "remove"
  BY DEF RefreshRemovalAvailable, HelperInv, StagesOfRemoval, RemovalOnly, RemovalBefore
<1>5. \/ job' = [job EXCEPT !.at = "advance_shutdown"]
      \/ job' = [job EXCEPT !.at = "failed", !.err = "unconfirmed"]
  BY DEF RefreshRemovalAvailable, RefreshLocked, Go, Fail
<1>6. job \in Handlers
  BY DEF HelperInv, HelperTyped
<1>7. MovesOn
  BY <1>3, <1>4, <1>5, <1>6 DEF MovesOn, Handlers, HandlerStages, HandlerErrors, RemovalBefore, RemovalAfter, RemovalOnly
<1> QED
  BY <1>2, <1>3, <1>7, HelperMoves

\* Capture is asked to let go.
LEMMA ShutDownCaptureSafe == ASSUME HelperInv, ShutDownCapture PROVE HelperInv'
<1>1. Spend("faults") \/ UNCHANGED used
  BY DEF ShutDownCapture, DisableTun
<1>2. UsedGrows
  BY <1>1, FaultsAreUsed DEF HelperInv
<1>3. UNCHANGED <<store, disk, ran, gone>>
  BY DEF ShutDownCapture
<1>4. job.at = "shutdown" /\ job.kind = "remove"
  BY DEF ShutDownCapture, HelperInv, StagesOfRemoval, RemovalOnly, RemovalBefore
<1>5. \/ job' = [job EXCEPT !.at = "advance_observation"]
      \/ job' = [job EXCEPT !.at = "failed", !.err = "capture"]
  BY DEF ShutDownCapture, DisableTun, Go, Fail
<1>6. job \in Handlers
  BY DEF HelperInv, HelperTyped
<1>7. MovesOn
  BY <1>3, <1>4, <1>5, <1>6 DEF MovesOn, Handlers, HandlerStages, HandlerErrors, RemovalBefore, RemovalAfter, RemovalOnly
<1> QED
  BY <1>2, <1>3, <1>7, HelperMoves

\* The second look.
LEMMA ConfirmRemovalSafeSafe == ASSUME HelperInv, ConfirmRemovalSafe PROVE HelperInv'
<1>1. Spend("faults") \/ UNCHANGED used
  BY DEF ConfirmRemovalSafe, RefreshLocked
<1>2. UsedGrows
  BY <1>1, FaultsAreUsed DEF HelperInv
<1>3. UNCHANGED <<store, disk, ran, gone>>
  BY DEF ConfirmRemovalSafe
<1>4. job.at = "confirm" /\ job.kind = "remove"
  BY DEF ConfirmRemovalSafe, HelperInv, StagesOfRemoval, RemovalOnly, RemovalBefore
<1>5. \/ job' = [job EXCEPT !.at = "observe"]
      \/ job' = [job EXCEPT !.at = "failed", !.err = "unconfirmed"]
  BY DEF ConfirmRemovalSafe, RefreshLocked, Go, Fail
<1>6. job \in Handlers
  BY DEF HelperInv, HelperTyped
<1>7. MovesOn
  BY <1>3, <1>4, <1>5, <1>6 DEF MovesOn, Handlers, HandlerStages, HandlerErrors, RemovalBefore, RemovalAfter, RemovalOnly
<1> QED
  BY <1>2, <1>3, <1>7, HelperMoves

\* TUN is observed off.
LEMMA ObserveRemovalSafeSafe == ASSUME HelperInv, ObserveRemovalSafe PROVE HelperInv'
<1>1. Spend("faults") \/ UNCHANGED used
  BY DEF ObserveRemovalSafe, ObserveTun
<1>2. UsedGrows
  BY <1>1, FaultsAreUsed DEF HelperInv
<1>3. UNCHANGED <<store, disk, ran, gone>>
  BY DEF ObserveRemovalSafe
<1>4. job.at = "observe" /\ job.kind = "remove"
  BY DEF ObserveRemovalSafe, HelperInv, StagesOfRemoval, RemovalOnly, RemovalBefore
<1>5. \/ job' = [job EXCEPT !.at = "advance_maintenance"]
      \/ job' = [job EXCEPT !.at = "failed", !.err = "unsafe"]
  BY DEF ObserveRemovalSafe, ObserveTun, Go, Fail
<1>6. job \in Handlers
  BY DEF HelperInv, HelperTyped
<1>7. MovesOn
  BY <1>3, <1>4, <1>5, <1>6 DEF MovesOn, Handlers, HandlerStages, HandlerErrors, RemovalBefore, RemovalAfter, RemovalOnly
<1> QED
  BY <1>2, <1>3, <1>7, HelperMoves

\* TUN is switched off before an installation.
LEMMA DisableBeforeLifecycleSafe == ASSUME HelperInv, DisableBeforeLifecycle PROVE HelperInv'
<1>1. Spend("faults") \/ UNCHANGED used
  BY DEF DisableBeforeLifecycle
<1>2. UsedGrows
  BY <1>1, FaultsAreUsed DEF HelperInv
<1>3. UNCHANGED <<store, disk, ran, gone>>
  BY DEF DisableBeforeLifecycle
<1>4. job.at = "disable" /\ job.kind # "remove"
  BY DEF DisableBeforeLifecycle, HelperInv, StagesOfRemoval, RemovalBefore, RemovalAfter
<1>5. \/ job' = [job EXCEPT !.at = "check"]
      \/ job' = [job EXCEPT !.at = "failed", !.err = "operation"]
  BY DEF DisableBeforeLifecycle, Go, Fail
<1>6. job \in Handlers
  BY DEF HelperInv, HelperTyped
<1>7. MovesOn
  BY <1>3, <1>4, <1>5, <1>6 DEF MovesOn, Handlers, HandlerStages, HandlerErrors, RemovalBefore, RemovalAfter, RemovalOnly
<1> QED
  BY <1>2, <1>3, <1>7, HelperMoves

\* The helper is seen to be gone.
LEMMA RecheckRemovalSafe == ASSUME HelperInv, RecheckRemoval PROVE HelperInv'
<1>1. Spend("faults") \/ UNCHANGED used
  BY DEF RecheckRemoval, RefreshLocked
<1>2. UsedGrows
  BY <1>1, FaultsAreUsed DEF HelperInv
<1>3. UNCHANGED <<store, disk, ran, gone>>
  BY DEF RecheckRemoval
<1>4. job.at = "recheck" /\ job.kind = "remove"
  BY DEF RecheckRemoval, HelperInv, StagesOfRemoval, RemovalOnly, RemovalBefore
<1>5. \/ job' = [job EXCEPT !.at = "removed"]
      \/ job' = [job EXCEPT !.at = "failed", !.err = "confirmation"]
  BY DEF RecheckRemoval, RefreshLocked, Go, Fail
<1>6. job \in Handlers
  BY DEF HelperInv, HelperTyped
<1>8. job.op \in gone
  BY <1>4 DEF HelperInv, RemovedIsTrue
<1>7. MovesOn
  BY <1>3, <1>4, <1>5, <1>6, <1>8 DEF MovesOn, Handlers, HandlerStages, HandlerErrors, RemovalBefore, RemovalAfter, RemovalOnly
<1> QED
  BY <1>2, <1>3, <1>7, HelperMoves

\* TUN is off after an installation.
LEMMA ConfirmNetworkSafe == ASSUME HelperInv, ConfirmNetwork PROVE HelperInv'
<1>1. Spend("faults") \/ UNCHANGED used
  BY DEF ConfirmNetwork, ObserveTun
<1>2. UsedGrows
  BY <1>1, FaultsAreUsed DEF HelperInv
<1>3. UNCHANGED <<store, disk, ran, gone>>
  BY DEF ConfirmNetwork
<1>4. job.at = "network" /\ job.kind # "remove"
  BY DEF ConfirmNetwork, HelperInv, StagesOfRemoval, RemovalBefore, RemovalAfter
<1>5. \/ job' = [job EXCEPT !.at = "handoff"]
      \/ job' = [job EXCEPT !.at = "failed", !.err = "observation"]
      \/ job' = [job EXCEPT !.at = "failed", !.err = "connection"]
  BY DEF ConfirmNetwork, ObserveTun, Go, Fail
<1>6. job \in Handlers
  BY DEF HelperInv, HelperTyped
<1>7. MovesOn
  BY <1>3, <1>4, <1>5, <1>6 DEF MovesOn, Handlers, HandlerStages, HandlerErrors, RemovalBefore, RemovalAfter, RemovalOnly
<1> QED
  BY <1>2, <1>3, <1>7, HelperMoves

\* The fresh observation admits a lifecycle step.
LEMMA AdmitLifecycleSafe == ASSUME HelperInv, AdmitLifecycle PROVE HelperInv'
<1>1. Spend("faults") \/ UNCHANGED used
  BY DEF AdmitLifecycle, RefreshLocked
<1>2. UsedGrows
  BY <1>1, FaultsAreUsed DEF HelperInv
<1>3. job.at = "admit" /\ UNCHANGED <<store, disk, ran, gone>>
  BY DEF AdmitLifecycle
<1>4. \/ job.kind = "remove" /\ job' = [job EXCEPT !.at = "check"]
      \/ job.kind = "remove" /\ job' = [job EXCEPT !.at = "failed", !.err = "confirmation"]
      \/ job.kind # "remove" /\ job' = [job EXCEPT !.at = "failed", !.err = "identity"]
      \/ job.kind # "remove" /\ job' = [job EXCEPT !.at = "disable"]
      \/ job.kind # "remove" /\ job' = [job EXCEPT !.at = "run"]
  <2>1. PICK c : CASE job.kind = "remove" ->
                 IF RemovalAvailable(c) THEN Go("check") /\ ctl' = c
                 ELSE Fail("confirmation") /\ ctl' = Recorded(c, "confirmation")
            [] job.kind # "remove" /\ (used' # used \/ c.kind = "foreign") ->
                 Fail("identity") /\ ctl' = c
            [] OTHER ->
                 IF HasHealthyIdentity(c) THEN Go("disable") /\ ctl' = c
                                          ELSE Go("run") /\ ctl' = SetPhase(c, job.kind)
    BY DEF AdmitLifecycle
  <2>2. CASE job.kind = "remove"
    BY <2>1, <2>2 DEF Go, Fail
  <2>3. CASE job.kind # "remove" /\ (used' # used \/ c.kind = "foreign")
    BY <2>1, <2>3 DEF Go, Fail
  <2>4. CASE ~(job.kind = "remove") /\ ~(used' # used \/ c.kind = "foreign")
    BY <2>1, <2>4 DEF Go, Fail
  <2> QED
    BY <2>2, <2>3, <2>4
<1>5. job \in Handlers
  BY DEF HelperInv, HelperTyped
<1>6. MovesOn
  BY <1>3, <1>4, <1>5 DEF MovesOn, Handlers, HandlerStages, HandlerErrors, RemovalBefore, RemovalAfter, RemovalOnly
<1> QED
  BY <1>2, <1>3, <1>6, HelperMoves

\* The observation after the privileged run.
LEMMA SettleLifecycleSafe == ASSUME HelperInv, SettleLifecycle PROVE HelperInv'
<1>1. Spend("faults") \/ UNCHANGED used
  BY DEF SettleLifecycle, RefreshLocked
<1>2. UsedGrows
  BY <1>1, FaultsAreUsed DEF HelperInv
<1>3. job.at = "settle" /\ UNCHANGED <<store, disk, ran, gone>>
  BY DEF SettleLifecycle
<1>4. \/ job' = [job EXCEPT !.at = "failed", !.err = job.err]
      \/ job.err = "none" /\ job.kind = "remove" /\ job' = [job EXCEPT !.at = "recheck"]
      \/ job.kind # "remove" /\ job' = [job EXCEPT !.at = "network"]
      \/ job' = [job EXCEPT !.at = "failed", !.err = "confirmation"]
  <2>1. PICK c : CASE job.err # "none" -> Fail(job.err) /\ ctl' = c
            [] job.err = "none" /\ Confirmed(c) ->
                 IF job.kind = "remove" THEN Go("recheck") /\ ctl' = [c EXCEPT !.blocked = {}]
                                        ELSE Go("network") /\ ctl' = c
            [] OTHER -> /\ Fail("confirmation")
                        /\ ctl' = IF c.kind = "healthy" /\ c.blocked # {} THEN c
                                  ELSE Recorded(c, "confirmation")
    BY DEF SettleLifecycle
  <2>2. CASE job.err # "none"
    BY <2>1, <2>2 DEF Go, Fail
  <2>3. CASE job.err = "none" /\ Confirmed(c)
    BY <2>1, <2>3 DEF Go, Fail
  <2>4. CASE ~(job.err # "none") /\ ~(job.err = "none" /\ Confirmed(c))
    BY <2>1, <2>4 DEF Go, Fail
  <2> QED
    BY <2>2, <2>3, <2>4
<1>5. job \in Handlers
  BY DEF HelperInv, HelperTyped
<1>6. job.kind = "remove" /\ job.err = "none" => job.op \in gone
  BY <1>3 DEF HelperInv, RemovedIsTrue
<1>7. MovesOn
  BY <1>3, <1>4, <1>5, <1>6 DEF MovesOn, Handlers, HandlerStages, HandlerErrors, RemovalBefore, RemovalAfter, RemovalOnly
<1> QED
  BY <1>2, <1>3, <1>7, HelperMoves

\* The ends of an installation.
LEMMA InstallEndsSafe == ASSUME HelperInv, HandOff \/ ResumeTun \/ InstallFails PROVE HelperInv'
<1>1. Spend("faults") \/ UNCHANGED used
  BY DEF HandOff, DisableTun, ResumeTun, InstallFails
<1>2. UsedGrows
  BY <1>1, FaultsAreUsed DEF HelperInv
<1>3. UNCHANGED <<store, disk, ran, gone>>
  BY DEF HandOff, ResumeTun, InstallFails
<1>4. job.kind # "remove" /\ job.at \in {"handoff", "resume", "failed"}
  BY DEF HandOff, ResumeTun, InstallFails, HelperInv, StagesOfRemoval, RemovalBefore, RemovalAfter
<1>5. job' = [job EXCEPT !.at = "resume"] \/ job' = Quiet
  BY DEF HandOff, ResumeTun, InstallFails, Go, Answer
<1>6. CASE job' = Quiet
  BY <1>2, <1>3, <1>4, <1>6, HelperQuiets
<1>7. CASE job' = [job EXCEPT !.at = "resume"]
  <2>1. job \in Handlers
    BY DEF HelperInv, HelperTyped
  <2>2. MovesOn
    BY <1>4, <1>7, <2>1 DEF MovesOn, Handlers, HandlerStages, HandlerErrors, RemovalBefore, RemovalAfter, RemovalOnly
  <2> QED
    BY <1>2, <1>3, <2>2, HelperMoves
<1> QED
  BY <1>5, <1>6, <1>7

\* The uninstall of a removal starts after its occurrence is durable.
LEMMA CheckBeforeLifecycleSafe == ASSUME HelperInv, CheckBeforeLifecycle PROVE HelperInv'
<1>1. Spend("faults") \/ UNCHANGED used
  BY DEF CheckBeforeLifecycle, ObserveTun
<1>2. UsedGrows
  BY <1>1, FaultsAreUsed DEF HelperInv
<1>3. job.at = "check" /\ UNCHANGED <<store, disk, gone>>
  BY DEF CheckBeforeLifecycle
<1>4. \/ job' = [job EXCEPT !.at = "run"] /\ job.kind = "remove" /\ ran' = [ran EXCEPT ![job.op] = @ + 1]
      \/ job' = [job EXCEPT !.at = "run"] /\ job.kind # "remove" /\ ran' = ran
      \/ \E f \in {"observation", "connection"} : job' = [job EXCEPT !.at = "failed", !.err = f] /\ ran' = ran
  BY DEF CheckBeforeLifecycle, Go, Fail
<1>5. job \in Handlers
  BY DEF HelperInv, HelperTyped
<1>6. CASE ran' = ran /\ ~(job' = [job EXCEPT !.at = "run"] /\ job.kind = "remove")
  <2>1. MovesOn
    BY <1>3, <1>4, <1>5, <1>6 DEF MovesOn, Handlers, HandlerStages, HandlerErrors, RemovalBefore, RemovalAfter, RemovalOnly
  <2> QED
    BY <1>2, <1>3, <1>6, <2>1, HelperMoves
<1>7. CASE job' = [job EXCEPT !.at = "run"] /\ job.kind = "remove" /\ ran' = [ran EXCEPT ![job.op] = @ + 1]
  <2>1. /\ job' \in Handlers /\ job'.at = "run" /\ job'.kind = "remove" /\ job'.op = job.op
        /\ job.op \in Ids
    BY <1>5, <1>7 DEF Handlers, HandlerStages, HelperInv, StagesOfRemoval
  <2>2. ran \in [Ids -> Nat]
    BY DEF HelperInv, HelperTyped
  <2>3. HelperTyped'
    BY <1>2, <1>3, <1>7, <2>1, <2>2 DEF HelperInv, HelperTyped, UsedGrows
  <2>4. PICK a \in store.active : a.op = job.op /\ a.phase = "maintenance"
    BY <1>3, <1>7 DEF HelperInv, RemovalIsOwned
  <2>5. store.usable /\ ~store.retry /\ disk = Journal
    BY <1>3, <1>7 DEF HelperInv, RemovalIsOwned
  <2>6. OneOccurrence' /\ StagesOfRemoval' /\ RemovedIsTrue'
    BY <1>3, <2>1 DEF HelperInv, OneOccurrence, StagesOfRemoval, RemovedIsTrue, RemovalOnly, RemovalBefore, RemovalAfter
  <2>7. RemovalIsOwned'
    BY <1>3, <2>1, <2>4, <2>5 DEF RemovalIsOwned, Journal
  <2>8. RecordsAreCounted'
    BY <1>2, <1>3, <2>1, CountsStay
  <2>9. Roomy => StartsAreRecorded'
    <3> SUFFICES ASSUME Roomy, NEW op \in Ids PROVE
          /\ ran'[op] <= 1
          /\ ran'[op] > 0 =>
               /\ EvidenceOf(op)'
               /\ \/ ~store.usable' \/ RecordsSay(store, op)'
                  \/ job'.kind = "remove" /\ job'.op = op /\ job'.at \in RemovalAfter \cup {"failed"}
          /\ job'.kind = "remove" /\ job'.op = op /\ job'.at \in RemovalBefore => ran'[op] = 0
      BY DEF StartsAreRecorded
    <3>1. /\ ran[op] <= 1
          /\ ran[op] > 0 =>
               /\ EvidenceOf(op)
               /\ \/ ~store.usable \/ RecordsSay(store, op)
                  \/ job.kind = "remove" /\ job.op = op /\ job.at \in RemovalAfter \cup {"failed"}
          /\ job.kind = "remove" /\ job.op = op /\ job.at \in RemovalBefore => ran[op] = 0
      BY DEF HelperInv, StartsAreRecorded
    <3>2. (EvidenceOf(op)' <=> EvidenceOf(op)) /\ (RecordsSay(store, op)' <=> RecordsSay(store, op))
      BY <1>3 DEF EvidenceOf, RecordsSay
    <3>3. CASE op = job.op
      <4>1. ran[op] = 0
        BY <1>3, <1>7, <3>1, <3>3 DEF RemovalBefore
      <4>2. ran'[op] = 1
        BY <1>7, <2>1, <2>2, <3>3, <4>1
      <4>3. EvidenceOf(op)
        BY <2>4, <2>5, <3>3 DEF EvidenceOf, Journal
      <4> QED
        BY <2>1, <3>2, <3>3, <4>2, <4>3 DEF RemovalAfter, RemovalBefore
    <3>4. CASE op # job.op
      <4>1. ran'[op] = ran[op]
        BY <1>7, <2>2, <3>4
      <4> QED
        BY <2>1, <3>1, <3>2, <3>4, <4>1, <1>3
    <3> QED
      BY <3>3, <3>4
  <2>10. Roomy' <=> Roomy
    BY DEF Roomy
  <2> QED
    BY <2>3, <2>6, <2>7, <2>8, <2>9, <2>10 DEF HelperInv
<1> QED
  BY <1>4, <1>5, <1>6, <1>7 DEF Handlers

\* The privileged run.
LEMMA RunLifecycleSafe == ASSUME HelperInv, RunLifecycle PROVE HelperInv'
<1>1. Spend("faults") \/ UNCHANGED used
  BY DEF RunLifecycle
<1>2. UsedGrows
  BY <1>1, FaultsAreUsed DEF HelperInv
<1>3. job.at = "run" /\ UNCHANGED <<store, disk, ran>> /\ gone \subseteq gone'
  BY DEF RunLifecycle
<1>4. \/ /\ job' = [job EXCEPT !.at = "settle"]
         /\ job.kind = "remove" => job.op \in gone'
      \/ \E err \in {"cancelled", "identity", "operation"} : job' = [job EXCEPT !.at = "settle", !.err = err]
  <2>1. CASE /\ host' = [helper |-> IF job.kind = "remove" THEN "absent" ELSE "healthy",
                         net |-> IF job.kind = "remove" THEN "off" ELSE host.net]
             /\ Go("settle")
    <3>1. job.kind = "remove" => host'.helper = "absent"
      BY <2>1
    <3>2. gone' = IF job.kind = "remove" /\ host'.helper = "absent" THEN gone \cup {job.op} ELSE gone
      BY DEF RunLifecycle
    <3> QED
      BY <2>1, <3>1, <3>2 DEF Go
  <2>2. CASE \E err \in {"cancelled", "identity", "operation"} : job' = [job EXCEPT !.at = "settle", !.err = err]
    BY <2>2
  <2> QED
    BY <2>1, <2>2 DEF RunLifecycle
<1>5. job \in Handlers
  BY DEF HelperInv, HelperTyped
<1>6. MovesOn
  BY <1>3, <1>4, <1>5 DEF MovesOn, Handlers, HandlerStages, HandlerErrors, RemovalBefore, RemovalAfter, RemovalOnly
<1> QED
  BY <1>2, <1>3, <1>6, HelperMoves

\* A new handler.
LEMMA BeginSafe ==
  ASSUME HelperInv, NEW op \in Ids, NEW resume \in BOOLEAN, NEW kind \in {"install", "repair"}, Begin(op, kind, resume)
  PROVE  HelperInv'
<1>1. UsedGrows
  BY CommandsAreUsed DEF HelperInv, Begin
<1>2. UNCHANGED <<store, disk, ran, gone>> /\ job.at = "idle"
  BY DEF Begin
<1>3. job' = [at |-> "admit", op |-> op, kind |-> kind, resume |-> resume, err |-> "none"]
  BY DEF Begin
<1>4. job.kind # "remove"
  BY <1>2 DEF HelperInv, StagesOfRemoval, RemovalBefore, RemovalAfter
<1>5. job' \in Handlers /\ job'.kind # "remove" /\ job'.at = "admit"
  BY <1>3 DEF Handlers, HandlerStages, HandlerErrors
<1>6. HelperTyped'
  BY <1>1, <1>2, <1>5 DEF HelperInv, HelperTyped, UsedGrows
<1>7. OneOccurrence' /\ StagesOfRemoval' /\ RemovalIsOwned' /\ RemovedIsTrue'
  BY <1>2, <1>5 DEF HelperInv, OneOccurrence, StagesOfRemoval, RemovalIsOwned, RemovedIsTrue, RemovalOnly, RemovalBefore
<1>8. RecordsAreCounted'
  BY <1>1, <1>2, <1>5, CountsStay
<1>9. Roomy => StartsAreRecorded'
  BY <1>2, <1>4, <1>5 DEF HelperInv, StartsAreRecorded, EvidenceOf, RecordsSay
<1>10. Roomy' <=> Roomy
  BY DEF Roomy
<1> QED
  BY <1>6, <1>7, <1>8, <1>9, <1>10 DEF HelperInv

\* A removal before its admission: its command is the one the journal has not yet.
LEMMA BeginRemoveSafe == ASSUME HelperInv, NEW op \in Ids, BeginRemove(op) PROVE HelperInv'
<1>1. UsedGrows /\ used'.commands = used.commands + 1
  BY CommandsAreUsed DEF HelperInv, BeginRemove
<1>2. UNCHANGED <<store, disk, ran, gone>> /\ job.at = "idle"
  BY DEF BeginRemove
<1>3. job' = [at |-> "occurrence", op |-> op, kind |-> "remove", resume |-> FALSE, err |-> "none"]
  BY DEF BeginRemove, Quiet
<1>4. job.kind # "remove"
  BY <1>2 DEF HelperInv, StagesOfRemoval, RemovalBefore, RemovalAfter
<1>5. job' \in Handlers /\ job'.kind = "remove" /\ job'.at = "occurrence" /\ job'.op = op
  BY <1>3 DEF Handlers, HandlerStages, HandlerErrors
<1>6. HelperTyped'
  BY <1>1, <1>2, <1>5 DEF HelperInv, HelperTyped, UsedGrows
<1>7. OneOccurrence' /\ StagesOfRemoval' /\ RemovalIsOwned' /\ RemovedIsTrue'
  BY <1>2, <1>5 DEF HelperInv, OneOccurrence, StagesOfRemoval, RemovalIsOwned, RemovedIsTrue, RemovalOnly, RemovalBefore
<1>8. RecordsAreCounted'
  <2>1. JournalCount(disk) \in Nat /\ JournalCount(store) \in Nat
    BY CountIsNat DEF HelperInv, HelperTyped, Journals
  <2>2. JournalCount(disk)' = JournalCount(disk) /\ JournalCount(store)' = JournalCount(store)
    BY <1>2 DEF JournalCount
  <2>3. Unadmitted = 0 /\ Unadmitted' = 1
    BY <1>2, <1>5 DEF Unadmitted
  <2>4. JournalCount(disk) + Unadmitted <= used.commands /\ JournalCount(store) + Unadmitted <= used.commands
    BY DEF HelperInv, RecordsAreCounted
  <2>5. used.commands \in Nat
    BY DEF HelperInv, HelperTyped
  <2>6. JournalCount(disk) + Unadmitted' <= used'.commands /\ JournalCount(store) + Unadmitted' <= used'.commands
    BY <1>1, <2>1, <2>3, <2>4, <2>5
  <2> QED
    BY <2>2, <2>6 DEF RecordsAreCounted
<1>9. Roomy => StartsAreRecorded'
  BY <1>2, <1>4, <1>5 DEF HelperInv, StartsAreRecorded, EvidenceOf, RecordsSay, RemovalBefore
<1>10. Roomy' <=> Roomy
  BY DEF Roomy
<1> QED
  BY <1>6, <1>7, <1>8, <1>9, <1>10 DEF HelperInv

\* A journal that may be written or held: well typed, within the count, and it says
\* "removed" of no operation that did not remove the helper.
SafeJournal(j) ==
  /\ j.active \in SUBSET Occurrences /\ j.next \in Nat /\ j.records \in Seq(RemovalRecords)
  /\ \A a, b \in j.active : a = b
  /\ JournalCount(j) <= used.commands
  /\ \A r \in ToSet(j.records) : r.outcome = "removed" => r.op \in gone

\* A journal that has a record of every uninstall that was started.
Remembers(j) == \A op \in Ids : ran[op] > 0 => RecordsSay(j, op)

\* The journal that is settled, and the one that admits an operation after it.
SettledJournal == ReconcileInterrupted(Journal)
AdmittedJournal(op) == Admission(op, SettledJournal)

\* What the file and memory hold may be written.
LEMMA HeldIsSafe ==
  ASSUME HelperInv PROVE SafeJournal(disk) /\ SafeJournal(store) /\ SafeJournal(Journal)
<1>1. JournalCount(disk) \in Nat /\ JournalCount(store) \in Nat
  BY CountIsNat DEF HelperInv, HelperTyped, Journals
<1>2. JournalCount(disk) <= used.commands /\ JournalCount(store) <= used.commands
  <2>1. JournalCount(disk) + Unadmitted <= used.commands /\ JournalCount(store) + Unadmitted <= used.commands
    BY DEF HelperInv, RecordsAreCounted
  <2>2. Unadmitted \in {0, 1} /\ used.commands \in Nat
    BY DEF Unadmitted, HelperInv, HelperTyped
  <2> QED
    BY <1>1, <2>1, <2>2
<1>3. SafeJournal(disk)
  BY <1>2 DEF SafeJournal, HelperInv, HelperTyped, Journals, OneOccurrence, RemovedIsTrue
<1>4. SafeJournal(store)
  BY <1>2 DEF SafeJournal, HelperInv, HelperTyped, OneOccurrence, RemovedIsTrue
<1>5. Journal.active = store.active /\ Journal.next = store.next /\ Journal.records = store.records
  BY DEF Journal
<1>6. JournalCount(Journal) = JournalCount(store)
  BY <1>5 DEF JournalCount
<1>7. SafeJournal(Journal)
  BY <1>4, <1>5, <1>6 DEF SafeJournal
<1> QED
  BY <1>3, <1>4, <1>7

\* A record at the end of a journal whose occurrence it is.
LEMMA RecordedSays ==
  ASSUME HelperInv, NEW j \in Journals, NEW k \in Journals, NEW r \in RemovalRecords, SafeJournal(j), j.active # {},
         k.active = {}, k.records = Trim(Append(j.records, r)),
         r.outcome = "removed" => r.op \in gone
  PROVE  /\ SafeJournal(k)
         /\ JournalCount(k) <= JournalCount(j)
         /\ Roomy => /\ \A q \in ToSet(j.records) : q \in ToSet(k.records)
                     /\ r \in ToSet(k.records)
<1> DEFINE t == Append(j.records, r)
<1>1. j.records \in Seq(RemovalRecords)
  BY DEF SafeJournal
<1>2. t \in Seq(RemovalRecords) /\ Len(t) = Len(j.records) + 1 /\ ToSet(t) = ToSet(j.records) \cup {r}
  BY <1>1, AppendSays
<1>3. k.records = Trim(t)
  OBVIOUS
<1> HIDE DEF t
<1>4. /\ Len(k.records) <= Len(t) /\ Len(k.records) \in Nat
      /\ ToSet(k.records) \subseteq ToSet(t)
      /\ Len(t) <= RecordLimit => k.records = t
  BY <1>2, <1>3, TrimSays
<1>5. JournalCount(j) = Len(t)
  BY <1>1, <1>2 DEF JournalCount
<1>6. JournalCount(k) = Len(k.records)
  BY <1>4 DEF JournalCount
<1>7. Len(t) \in Nat /\ used.commands \in Nat /\ JournalCount(j) <= used.commands /\ used.commands <= MaxCommands
  BY <1>1, <1>2 DEF HelperInv, HelperTyped, SafeJournal
<1>8. JournalCount(k) <= JournalCount(j) /\ JournalCount(k) <= used.commands
  BY <1>4, <1>5, <1>6, <1>7
<1>9. SafeJournal(k)
  <2>1. \A q \in ToSet(k.records) : q.outcome = "removed" => q.op \in gone
    BY <1>2, <1>4 DEF SafeJournal
  <2> QED
    BY <1>8, <2>1 DEF SafeJournal, Journals
<1>10. Roomy => k.records = t
  BY <1>4, <1>5, <1>7, HelperAssumption DEF Roomy
<1> QED
  BY <1>2, <1>8, <1>9, <1>10

\* Settling leaves a journal that may be written, with nothing forgotten while
\* there is room.
LEMMA SettledSays ==
  ASSUME HelperInv, NEW j \in Journals, SafeJournal(j)
  PROVE  LET s == ReconcileInterrupted(j) IN
         /\ s \in Journals /\ SafeJournal(s) /\ s.active = {} /\ s.next = j.next
         /\ JournalCount(s) <= JournalCount(j)
         /\ Roomy => \A op \in Ids : RecordsSay(j, op) \/ (\E a \in j.active : a.op = op) => RecordsSay(s, op)
<1> DEFINE s == ReconcileInterrupted(j)
<1>1. JournalCount(j) \in Nat
  BY CountIsNat DEF SafeJournal
<1>2. CASE j.active = {}
  <2>1. s.active = {} /\ s.next = j.next /\ s.records = j.records /\ s \in Journals
    BY <1>2 DEF ReconcileInterrupted, Journals
  <2> HIDE DEF s
  <2>2. JournalCount(s) = JournalCount(j)
    BY <1>2, <2>1 DEF JournalCount
  <2>3. SafeJournal(s)
    BY <2>1, <2>2, <1>2 DEF SafeJournal
  <2>4. \A op \in Ids : RecordsSay(j, op) => RecordsSay(s, op)
    BY <2>1 DEF RecordsSay
  <2>5. /\ s \in Journals /\ SafeJournal(s) /\ s.active = {} /\ s.next = j.next
        /\ JournalCount(s) <= JournalCount(j)
        /\ Roomy => \A op \in Ids : RecordsSay(j, op) \/ (\E a \in j.active : a.op = op) => RecordsSay(s, op)
    BY <1>1, <1>2, <2>1, <2>2, <2>3, <2>4
  <2> QED
    BY <2>5 DEF s
<1>3. CASE j.active # {}
  <2> DEFINE a == CHOOSE a \in j.active : TRUE
             r == [op |-> a.op, rev |-> a.rev, outcome |-> "incomplete",
                   cleanup |-> IF a.phase = "maintenance" THEN "incomplete" ELSE "none"]
  <2>1. a \in j.active /\ a \in Occurrences
    BY <1>3 DEF Journals
  <2>2. \A b \in j.active : b = a
    BY <2>1 DEF SafeJournal
  <2> HIDE DEF a
  <2>3. r \in RemovalRecords /\ r.op = a.op /\ r.outcome = "incomplete"
    BY <2>1 DEF RemovalRecords, RecordOutcomes, Occurrences
  <2>4. s.active = {} /\ s.next = j.next /\ s.records = Trim(Append(j.records, r)) /\ s = [active |-> {}, next |-> j.next, records |-> s.records]
    <3>1. s = [j EXCEPT !.active = {}, !.records = Trim(Append(j.records, r))]
      BY <1>3, Zenon DEF ReconcileInterrupted, a
    <3> HIDE DEF s, r
    <3> QED
      BY <3>1 DEF Journals
  <2> HIDE DEF r
  <2> HIDE DEF s
  <2>5. Trim(Append(j.records, r)) \in Seq(RemovalRecords)
    BY <2>3, AppendSays, TrimSays DEF Journals
  <2>6. s \in Journals
    BY <2>4, <2>5 DEF Journals
  <2>7. /\ SafeJournal(s) /\ JournalCount(s) <= JournalCount(j)
        /\ Roomy => (\A q \in ToSet(j.records) : q \in ToSet(s.records)) /\ r \in ToSet(s.records)
    BY <1>3, <2>3, <2>4, <2>6, RecordedSays
  <2>8. Roomy => \A op \in Ids : RecordsSay(j, op) \/ (\E b \in j.active : b.op = op) => RecordsSay(s, op)
    BY <2>2, <2>3, <2>7 DEF RecordsSay
  <2> QED
    BY <2>4, <2>6, <2>7, <2>8 DEF s
<1> QED
  BY <1>2, <1>3

\* The end of a handler that wrote the journal, or of the process.
LEMMA HelperEnds ==
  ASSUME HelperInv, UsedGrows, job' = Quiet, UNCHANGED ran, gone \subseteq gone',
         NEW D \in Journals, disk' = D, SafeJournal(D),
         Roomy => \A op \in Ids : ran[op] > 0 =>
                    (\E a \in D.active : a.op = op /\ a.phase = "maintenance") \/ RecordsSay(D, op),
         NEW T \in [active : SUBSET Occurrences, next : Nat, records : Seq(RemovalRecords),
                    retry : BOOLEAN, usable : BOOLEAN],
         store' = T, SafeJournal(T), ~T.usable => T.active = {},
         Roomy /\ T.usable => Remembers(T)
  PROVE  HelperInv'
<1>1. job' \in Handlers /\ job'.at = "idle" /\ job'.kind = "none"
  BY DEF Quiet, Handlers, HandlerStages, HandlerErrors
<1>2. HelperTyped'
  BY <1>1 DEF HelperInv, HelperTyped, UsedGrows
<1>3. OneOccurrence'
  BY DEF OneOccurrence, SafeJournal
<1>4. StagesOfRemoval' /\ RemovalIsOwned'
  BY <1>1 DEF StagesOfRemoval, RemovalIsOwned, RemovalOnly, RemovalBefore
<1>5. RemovedIsTrue'
  BY <1>1 DEF RemovedIsTrue, SafeJournal
<1>6. RecordsAreCounted'
  <2>1. JournalCount(D) \in Nat /\ JournalCount(T) \in Nat
    BY CountIsNat DEF SafeJournal
  <2>2. JournalCount(D) <= used.commands /\ JournalCount(T) <= used.commands
    BY DEF SafeJournal
  <2>3. Unadmitted' = 0
    BY <1>1 DEF Unadmitted
  <2>4. used.commands \in Nat /\ used'.commands \in Nat /\ used.commands <= used'.commands
    BY DEF HelperInv, HelperTyped, UsedGrows
  <2>5. JournalCount(D) + Unadmitted' <= used'.commands /\ JournalCount(T) + Unadmitted' <= used'.commands
    BY <2>1, <2>2, <2>3, <2>4
  <2>6. JournalCount(disk)' = JournalCount(D) /\ JournalCount(store)' = JournalCount(T)
    BY DEF JournalCount
  <2> QED
    BY <2>5, <2>6 DEF RecordsAreCounted
<1>7. Roomy => StartsAreRecorded'
  <2> SUFFICES ASSUME Roomy PROVE StartsAreRecorded'
    OBVIOUS
  <2>1. \A op \in Ids : ran[op] <= 1
    BY DEF HelperInv, StartsAreRecorded
  <2>2. \A op \in Ids : ran[op] > 0 => EvidenceOf(op)'
    BY DEF EvidenceOf, RecordsSay
  <2>3. \A op \in Ids : ran[op] > 0 => ~store.usable' \/ RecordsSay(store, op)'
    BY DEF Remembers, RecordsSay
  <2> QED
    BY <1>1, <2>1, <2>2, <2>3 DEF StartsAreRecorded
<1>8. Roomy' <=> Roomy
  BY DEF Roomy
<1> QED
  BY <1>2, <1>3, <1>4, <1>5, <1>6, <1>7, <1>8 DEF HelperInv

\* What an admission may leave behind: it was written and nothing had that
\* operation, or it was not and the file has the old, the settled or the new journal.
LEMMA AdmitOutcomes ==
  ASSUME HelperInv, NEW op \in Ids, NEW ok \in BOOLEAN, AdmitOccurrence(op, ok)
  PROVE  /\ Spend("faults") \/ UNCHANGED used
         /\ ok => /\ store.usable /\ ~RecordsSay(SettledJournal, op)
                  /\ disk' = AdmittedJournal(op) /\ store' = Holding(AdmittedJournal(op), FALSE)
         /\ ~ok => /\ store' = store \/ (store.usable /\ store' = Holding(SettledJournal, FALSE))
                   /\ disk' = disk \/ (store.usable /\ disk' \in {SettledJournal, AdmittedJournal(op)})
<1> DEFINE settled  == SettledJournal
           admitted == AdmittedJournal(op)
           busy     == store.active # {} /\ ~store.retry
           refused  == busy \/ \E r \in ToSet(settled.records) : r.op = op
<1>1. \/ ok = TRUE /\ ~refused /\ WritePrivateJournal(admitted, TRUE)
        /\ store' = Holding(admitted, FALSE)
      \/ /\ ok = FALSE /\ ~busy /\ store.active # {}
         /\ \/ WritePrivateJournal(settled, FALSE) /\ UNCHANGED store
            \/ /\ ~refused /\ CanFail /\ Spend("faults")
               /\ store' = Holding(settled, FALSE) /\ disk' \in {settled, admitted}
      \/ /\ ok = FALSE /\ store.active = {}
         /\ \/ refused /\ UNCHANGED <<store, disk, used>>
            \/ ~refused /\ WritePrivateJournal(admitted, FALSE) /\ UNCHANGED store
  BY Zenon DEF AdmitOccurrence, SettledJournal, AdmittedJournal
<1>2. ASSUME NEW j, WritePrivateJournal(j, TRUE)
      PROVE  store.usable /\ disk' = j /\ UNCHANGED used
  BY <1>2 DEF WritePrivateJournal
<1>3. ASSUME NEW j, WritePrivateJournal(j, FALSE)
      PROVE  /\ Spend("faults") \/ UNCHANGED used
             /\ disk' = disk \/ (store.usable /\ disk' = j)
  BY <1>3 DEF WritePrivateJournal
<1>4. store.active # {} => store.usable
  BY DEF HelperInv, OneOccurrence
<1>5. ~refused => ~RecordsSay(settled, op)
  BY DEF RecordsSay
<1> HIDE DEF settled, admitted, busy, refused
<1>6. CASE ok = TRUE /\ ~refused /\ WritePrivateJournal(admitted, TRUE) /\ store' = Holding(admitted, FALSE)
  BY <1>2, <1>5, <1>6 DEF settled, admitted
<1>7. CASE ok = FALSE /\ WritePrivateJournal(settled, FALSE) /\ UNCHANGED store
  BY <1>3, <1>7 DEF settled, admitted
<1>8. CASE ok = FALSE /\ store.active # {} /\ Spend("faults") /\ store' = Holding(settled, FALSE) /\ disk' \in {settled, admitted}
  BY <1>4, <1>8 DEF settled, admitted
<1>9. CASE ok = FALSE /\ UNCHANGED <<store, disk, used>>
  BY <1>9
<1>10. CASE ok = FALSE /\ WritePrivateJournal(admitted, FALSE) /\ UNCHANGED store
  BY <1>3, <1>10 DEF settled, admitted
<1> QED
  BY <1>1, <1>6, <1>7, <1>8, <1>9, <1>10

\* The settled journal, and the one that admits an operation, may be written.
LEMMA AdmissionSays ==
  ASSUME HelperInv, job.at = "occurrence", NEW op \in Ids
  PROVE  /\ SettledJournal \in Journals /\ SafeJournal(SettledJournal) /\ SettledJournal.active = {}
         /\ AdmittedJournal(op) \in Journals /\ SafeJournal(AdmittedJournal(op))
         /\ \E a \in AdmittedJournal(op).active : a.op = op
         /\ AdmittedJournal(op).records = SettledJournal.records
         /\ Roomy /\ store.usable => Remembers(SettledJournal) /\ Remembers(AdmittedJournal(op))
<1> DEFINE s == SettledJournal
           d == AdmittedJournal(op)
           a == [op |-> op, rev |-> s.next, phase |-> "admitted"]
<1>1. Journal \in Journals /\ SafeJournal(Journal) /\ JournalCount(Journal) = JournalCount(store)
  <2>1. Journal \in Journals
    BY DEF HelperInv, HelperTyped, Journals, Journal
  <2> QED
    BY <2>1, HeldIsSafe DEF JournalCount, Journal
<1>2. /\ s \in Journals /\ SafeJournal(s) /\ s.active = {} /\ s.next = Journal.next
      /\ JournalCount(s) <= JournalCount(Journal)
      /\ Roomy => \A o \in Ids : RecordsSay(Journal, o) => RecordsSay(s, o)
  BY <1>1, SettledSays DEF SettledJournal
<1>3. d = [s EXCEPT !.next = @ + 1, !.active = {a}]
  BY DEF AdmittedJournal, Admission
<1> HIDE DEF s, d
<1>4. a \in Occurrences /\ a.op = op
  BY <1>2 DEF Occurrences, Journals
<1> HIDE DEF a
<1>5. d \in Journals /\ d.active = {a} /\ d.records = s.records
  <2>1. s.next + 1 \in Nat /\ {a} \in SUBSET Occurrences
    BY <1>2, <1>4 DEF Journals
  <2>2. d = [s EXCEPT !.next = s.next + 1, !.active = {a}]
    BY <1>3
  <2> QED
    BY <1>2, <2>1, <2>2 DEF Journals
<1>6. JournalCount(d) <= used.commands
  <2>1. JournalCount(s) = Len(s.records) /\ Len(s.records) \in Nat
    BY <1>2 DEF JournalCount, Journals
  <2>2. JournalCount(d) = Len(s.records) + 1
    BY <1>5 DEF JournalCount
  <2>3. JournalCount(store) + 1 <= used.commands
    BY DEF HelperInv, RecordsAreCounted, Unadmitted
  <2>4. JournalCount(store) \in Nat /\ used.commands \in Nat
    BY CountIsNat DEF HelperInv, HelperTyped
  <2> QED
    BY <1>1, <1>2, <2>1, <2>2, <2>3, <2>4
<1>7. SafeJournal(d)
  BY <1>2, <1>5, <1>6 DEF SafeJournal, Journals
<1>8. Roomy /\ store.usable => Remembers(s)
  <2> SUFFICES ASSUME Roomy, store.usable, NEW o \in Ids, ran[o] > 0 PROVE RecordsSay(s, o)
    BY DEF Remembers
  <2>1. RecordsSay(store, o)
    BY DEF HelperInv, StartsAreRecorded, RemovalAfter
  <2>2. RecordsSay(Journal, o)
    BY <2>1 DEF RecordsSay, Journal
  <2> QED
    BY <1>2, <2>2
<1>9. Remembers(s) => Remembers(d)
  BY <1>5 DEF Remembers, RecordsSay
<1> QED
  BY <1>2, <1>4, <1>5, <1>7, <1>8, <1>9 DEF s, d

\* A journal held in memory.
LEMMA HoldingSays ==
  ASSUME HelperInv, NEW j \in Journals, SafeJournal(j), NEW retry \in BOOLEAN
  PROVE  LET h == Holding(j, retry) IN
         /\ h \in [active : SUBSET Occurrences, next : Nat, records : Seq(RemovalRecords), retry : BOOLEAN, usable : BOOLEAN]
         /\ h.active = j.active /\ h.next = j.next /\ h.records = j.records /\ h.retry = retry /\ h.usable = store.usable
         /\ SafeJournal(h) /\ JournalCount(h) = JournalCount(j)
         /\ Remembers(j) => Remembers(h)
<1> DEFINE h == Holding(j, retry)
<1>1. /\ h \in [active : SUBSET Occurrences, next : Nat, records : Seq(RemovalRecords), retry : BOOLEAN, usable : BOOLEAN]
      /\ h.active = j.active /\ h.next = j.next /\ h.records = j.records /\ h.retry = retry /\ h.usable = store.usable
  BY DEF Holding, Journals, HelperInv, HelperTyped
<1> HIDE DEF h
<1>2. JournalCount(h) = JournalCount(j)
  BY <1>1 DEF JournalCount
<1>3. SafeJournal(h)
  BY <1>1, <1>2 DEF SafeJournal
<1>4. Remembers(j) => Remembers(h)
  BY <1>1 DEF Remembers, RecordsSay
<1> QED
  BY <1>1, <1>2, <1>3, <1>4 DEF h

\* The admission of a removal.
LEMMA AdmitRemovalSafe == ASSUME HelperInv, AdmitRemoval PROVE HelperInv'
<1> DEFINE op == job.op
           s  == SettledJournal
           d  == AdmittedJournal(op)
<1>1. job.at = "occurrence" /\ job.kind = "remove" /\ op \in Ids /\ UNCHANGED <<ran, gone>>
  BY DEF AdmitRemoval, HelperInv, StagesOfRemoval, RemovalOnly
<1>2. PICK ok \in BOOLEAN : /\ AdmitOccurrence(op, ok)
                            /\ IF ok THEN Go("refresh") ELSE Answer("recovery")
  BY DEF AdmitRemoval
<1>3. /\ s \in Journals /\ SafeJournal(s) /\ s.active = {}
      /\ d \in Journals /\ SafeJournal(d)
      /\ \E a \in d.active : a.op = op
      /\ d.records = s.records
      /\ Roomy /\ store.usable => Remembers(s) /\ Remembers(d)
  BY <1>1, AdmissionSays
<1>4. Spend("faults") \/ UNCHANGED used
  BY <1>1, <1>2, AdmitOutcomes
<1>5. UsedGrows /\ used'.commands = used.commands
  BY <1>4, FaultsAreUsed DEF HelperInv
<1>6. CASE ok = FALSE
  <2>1. /\ store' = store \/ (store.usable /\ store' = Holding(s, FALSE))
        /\ disk' = disk \/ (store.usable /\ disk' \in {s, d})
    BY <1>1, <1>2, <1>6, AdmitOutcomes
  <2>2. job' = Quiet
    BY <1>2, <1>6 DEF Answer
  <2> HIDE DEF s, d
  <2>3. disk' \in Journals /\ SafeJournal(disk')
    <3>1. disk \in Journals
      BY DEF HelperInv, HelperTyped
    <3> QED
      BY <1>3, <2>1, <3>1, HeldIsSafe
  <2>4. Roomy => \A o \in Ids : ran[o] > 0 =>
                   (\E a \in disk'.active : a.op = o /\ a.phase = "maintenance") \/ RecordsSay(disk', o)
    <3>1. CASE disk' = disk
      BY <3>1 DEF HelperInv, StartsAreRecorded, EvidenceOf
    <3>2. CASE store.usable /\ disk' \in {s, d}
      BY <1>3, <3>2 DEF Remembers
    <3> QED
      BY <2>1, <3>1, <3>2
  <2>5. /\ store' \in [active : SUBSET Occurrences, next : Nat, records : Seq(RemovalRecords), retry : BOOLEAN, usable : BOOLEAN]
        /\ SafeJournal(store') /\ (~store'.usable => store'.active = {})
        /\ Roomy /\ store'.usable => Remembers(store')
    <3>1. CASE store' = store
      <4>1. Roomy /\ store.usable => Remembers(store)
        BY <1>1 DEF HelperInv, StartsAreRecorded, Remembers, RemovalAfter
      <4> QED
        BY <3>1, <4>1, HeldIsSafe DEF HelperInv, HelperTyped, OneOccurrence
    <3>2. CASE store.usable /\ store' = Holding(s, FALSE)
      BY <1>3, <3>2, HoldingSays
    <3> QED
      BY <2>1, <3>1, <3>2
  <2> QED
    BY <1>1, <1>5, <2>2, <2>3, <2>4, <2>5, HelperEnds
<1>7. CASE ok = TRUE
  <2>1. /\ store.usable /\ ~RecordsSay(s, op)
        /\ disk' = d /\ store' = Holding(d, FALSE)
    BY <1>1, <1>2, <1>7, AdmitOutcomes
  <2>2. job \in Handlers
    BY DEF HelperInv, HelperTyped
  <2>3. job' \in Handlers /\ job'.at = "refresh" /\ job'.kind = "remove" /\ job'.op = op
    BY <1>1, <1>2, <1>7, <2>2 DEF Go, Handlers, HandlerStages
  <2> HIDE DEF s, d
  <2>4. /\ store' \in [active : SUBSET Occurrences, next : Nat, records : Seq(RemovalRecords), retry : BOOLEAN, usable : BOOLEAN]
        /\ store'.active = d.active /\ store'.next = d.next /\ store'.records = d.records
        /\ store'.retry = FALSE /\ store'.usable = TRUE
        /\ SafeJournal(store') /\ JournalCount(store') = JournalCount(d)
    BY <1>3, <2>1, HoldingSays DEF HelperInv, HelperTyped
  <2>5. HelperTyped'
    BY <1>1, <1>3, <1>5, <2>1, <2>3, <2>4 DEF HelperInv, HelperTyped, UsedGrows
  <2>6. OneOccurrence'
    BY <1>3, <2>1, <2>4 DEF OneOccurrence, SafeJournal
  <2>7. StagesOfRemoval'
    BY <1>1, <2>3 DEF StagesOfRemoval, RemovalBefore
  <2>8. RemovalIsOwned'
    <3>1. d = [active |-> d.active, next |-> d.next, records |-> d.records]
      BY <1>3 DEF Journals
    <3>2. disk' = Journal'
      BY <2>1, <2>4, <3>1 DEF Journal
    <3> QED
      BY <1>3, <2>3, <2>4, <3>2 DEF RemovalIsOwned, RemovalAfter
  <2>9. RecordsAreCounted'
    <3>1. Unadmitted' = 0
      BY <2>3 DEF Unadmitted
    <3>2. JournalCount(d) \in Nat /\ JournalCount(d) <= used.commands
      BY <1>3, CountIsNat DEF SafeJournal
    <3>3. JournalCount(disk)' = JournalCount(d) /\ JournalCount(store)' = JournalCount(d)
      BY <2>1, <2>4 DEF JournalCount
    <3>4. JournalCount(d) + Unadmitted' <= used'.commands
      BY <1>5, <3>1, <3>2
    <3> QED
      BY <3>3, <3>4 DEF RecordsAreCounted
  <2>10. RemovedIsTrue'
    BY <1>1, <1>3, <2>1, <2>3, <2>4 DEF RemovedIsTrue, SafeJournal
  <2>11. Roomy => StartsAreRecorded'
    <3> SUFFICES ASSUME Roomy PROVE StartsAreRecorded'
      OBVIOUS
    <3>1. Remembers(d) /\ Remembers(s)
      BY <1>3, <2>1
    <3>2. \A o \in Ids : ran[o] \in Nat /\ ran[o] <= 1
      BY DEF HelperInv, HelperTyped, StartsAreRecorded
    <3>3. \A o \in Ids : ran[o] > 0 => EvidenceOf(o)' /\ RecordsSay(store, o)'
      BY <2>1, <2>4, <3>1 DEF EvidenceOf, RecordsSay, Remembers
    <3>4. ran[op] = 0
      BY <1>1, <2>1, <3>1, <3>2 DEF Remembers
    <3> QED
      BY <1>1, <2>3, <3>2, <3>3, <3>4 DEF StartsAreRecorded
  <2>12. Roomy' <=> Roomy
    BY DEF Roomy
  <2> QED
    BY <2>5, <2>6, <2>7, <2>8, <2>9, <2>10, <2>11, <2>12 DEF HelperInv
<1> QED
  BY <1>6, <1>7

\* The journal of a removal that moves on to a phase.
AdvancedJournal(phase) == [Journal EXCEPT !.active = {[a EXCEPT !.phase = phase] : a \in @}]

\* It is the same journal but for the phase.
LEMMA AdvancedSays ==
  ASSUME HelperInv, job.kind = "remove", job.at # "occurrence", job.op \in Ids,
         NEW phase \in {"shutdown", "observation", "maintenance"}
  PROVE  LET j == AdvancedJournal(phase) IN
         /\ j \in Journals /\ SafeJournal(j) /\ j.records = store.records
         /\ \E a \in j.active : a.op = job.op /\ a.phase = phase
<1> DEFINE j == AdvancedJournal(phase)
<1>1. Journal \in Journals /\ SafeJournal(Journal) /\ Journal.active = store.active /\ Journal.records = store.records
  <2>1. Journal \in Journals
    BY DEF HelperInv, HelperTyped, Journals, Journal
  <2> QED
    BY <2>1, HeldIsSafe DEF Journal
<1>2. PICK a \in store.active : a.op = job.op
  BY DEF HelperInv, RemovalIsOwned
<1>3. store.active = {a}
  BY <1>2 DEF HelperInv, OneOccurrence
<1> DEFINE b == [a EXCEPT !.phase = phase]
<1>4. a \in Occurrences
  BY <1>1, <1>2 DEF Journals
<1>5. b \in Occurrences /\ b.op = job.op /\ b.phase = phase
  BY <1>2, <1>4 DEF Occurrences
<1>6. {[x EXCEPT !.phase = phase] : x \in Journal.active} = {b}
  BY <1>1, <1>3
<1>7. j = [Journal EXCEPT !.active = {b}]
  BY <1>6, Zenon DEF AdvancedJournal
<1> HIDE DEF j, b
<1>8. j \in Journals /\ j.active = {b} /\ j.records = store.records /\ j.next = Journal.next
  BY <1>1, <1>5, <1>7 DEF Journals
<1>9. JournalCount(j) = JournalCount(Journal)
  BY <1>1, <1>3, <1>8 DEF JournalCount
<1>10. SafeJournal(j)
  BY <1>1, <1>8, <1>9 DEF SafeJournal, Journals
<1> QED
  BY <1>5, <1>8, <1>10 DEF j

\* A removal moves on once its phase is on disk, and ends when it is not.
LEMMA AdvanceRemovalSafe == ASSUME HelperInv, AdvanceRemoval PROVE HelperInv'
<1>1. /\ job.at \in {"advance_shutdown", "advance_observation", "advance_maintenance"}
      /\ job.kind = "remove" /\ job.op \in Ids /\ UNCHANGED <<ran, gone>>
  BY DEF AdvanceRemoval, Stages, HelperInv, StagesOfRemoval, RemovalOnly, RemovalBefore
<1> DEFINE phase == Stages[job.at]
           j == AdvancedJournal(phase)
<1>2. /\ phase \in {"shutdown", "observation", "maintenance"}
      /\ job.at = "advance_maintenance" => phase = "maintenance"
  BY <1>1 DEF Stages
<1>3. PICK ok \in BOOLEAN :
        /\ Advance(phase, ok)
        /\ CASE ~ok -> Answer("recovery")
             [] ok /\ job.at = "advance_shutdown" -> Go("shutdown") /\ UNCHANGED <<published, note>>
             [] ok /\ job.at = "advance_observation" -> Go("confirm") /\ UNCHANGED <<published, note>>
             [] ok /\ job.at = "advance_maintenance" ->
                  /\ published' = [published EXCEPT !.phase = "finalizing"]
                  /\ note' = [note EXCEPT ![job.op] = "finalizing"] /\ Go("admit")
  BY DEF AdvanceRemoval
<1>4. /\ ~ok => job' = Quiet
      /\ ok /\ job.at = "advance_shutdown" => job' = [job EXCEPT !.at = "shutdown"]
      /\ ok /\ job.at = "advance_observation" => job' = [job EXCEPT !.at = "confirm"]
      /\ ok /\ job.at = "advance_maintenance" => job' = [job EXCEPT !.at = "admit"]
  BY <1>3 DEF Answer, Go
<1>5. WritePrivateJournal(j, ok) /\ store' = Holding(j, ~ok)
  BY <1>3, Zenon DEF Advance, AdvancedJournal
<1> HIDE DEF phase
<1>6. /\ j \in Journals /\ SafeJournal(j) /\ j.records = store.records
      /\ \E a \in j.active : a.op = job.op /\ a.phase = phase
  BY <1>1, <1>2, AdvancedSays
<1> HIDE DEF j
<1>7. store.usable /\ ~store.retry /\ disk = Journal
  BY <1>1 DEF HelperInv, RemovalIsOwned
<1>8. (Spend("faults") \/ UNCHANGED used) /\ disk' \in {disk, j} /\ (ok => disk' = j)
  BY <1>5, <1>7 DEF WritePrivateJournal
<1>9. UsedGrows /\ used'.commands = used.commands
  BY <1>8, FaultsAreUsed DEF HelperInv
<1>10. Roomy => Remembers(j) /\ ran[job.op] = 0
  <2> SUFFICES ASSUME Roomy PROVE Remembers(j) /\ ran[job.op] = 0
    OBVIOUS
  <2>1. ran[job.op] = 0
    BY <1>1 DEF HelperInv, StartsAreRecorded, RemovalBefore
  <2>2. \A o \in Ids : ran[o] > 0 => RecordsSay(store, o)
    BY <1>1, <1>7 DEF HelperInv, StartsAreRecorded, RemovalAfter
  <2>3. Remembers(j)
    BY <1>6, <2>2 DEF Remembers, RecordsSay
  <2> QED
    BY <2>1, <2>3
<1>11. /\ store' \in [active : SUBSET Occurrences, next : Nat, records : Seq(RemovalRecords), retry : BOOLEAN, usable : BOOLEAN]
       /\ store'.active = j.active /\ store'.next = j.next /\ store'.records = j.records
       /\ store'.retry = ~ok /\ store'.usable = store.usable
       /\ SafeJournal(store') /\ JournalCount(store') = JournalCount(j)
       /\ Remembers(j) => Remembers(store')
  BY <1>5, <1>6, HoldingSays
<1>12. disk \in Journals /\ job \in Handlers
  BY DEF HelperInv, HelperTyped
<1>13. Roomy => \A o \in Ids : ran[o] > 0 =>
                  (\E a \in disk'.active : a.op = o /\ a.phase = "maintenance") \/ RecordsSay(disk', o)
  <2>1. CASE disk' = disk
    BY <2>1 DEF HelperInv, StartsAreRecorded, EvidenceOf
  <2>2. CASE disk' = j
    BY <1>10, <2>2 DEF Remembers
  <2> QED
    BY <1>8, <2>1, <2>2
<1>14. CASE ok = FALSE
  <2>1. disk' \in Journals /\ SafeJournal(disk')
    BY <1>6, <1>8, <1>12, HeldIsSafe
  <2>2. job' = Quiet
    BY <1>4, <1>14
  <2> QED
    BY <1>1, <1>7, <1>9, <1>10, <1>11, <1>13, <2>1, <2>2, HelperEnds
<1>15. CASE ok = TRUE
  <2>1. /\ job' \in Handlers /\ job'.kind = "remove" /\ job'.op = job.op
        /\ job'.at \in {"shutdown", "confirm", "admit"}
        /\ job'.at = "admit" => phase = "maintenance"
    BY <1>1, <1>2, <1>4, <1>12, <1>15 DEF Handlers, HandlerStages
  <2>2. HelperTyped'
    BY <1>1, <1>6, <1>8, <1>9, <1>11, <1>15, <2>1 DEF HelperInv, HelperTyped, UsedGrows
  <2>3. OneOccurrence'
    BY <1>6, <1>7, <1>8, <1>11, <1>15 DEF OneOccurrence, SafeJournal
  <2>4. StagesOfRemoval'
    BY <1>1, <2>1 DEF StagesOfRemoval, RemovalBefore
  <2>5. RemovalIsOwned'
    <3>1. j = [active |-> j.active, next |-> j.next, records |-> j.records]
      BY <1>6 DEF Journals
    <3>2. disk' = Journal'
      BY <1>8, <1>11, <1>15, <3>1 DEF Journal
    <3> QED
      BY <1>6, <1>7, <1>11, <1>15, <2>1, <3>2 DEF RemovalIsOwned, RemovalAfter
  <2>6. RecordsAreCounted'
    <3>1. Unadmitted' = 0
      BY <2>1 DEF Unadmitted
    <3>2. JournalCount(j) \in Nat /\ JournalCount(j) <= used.commands
      BY <1>6, CountIsNat DEF SafeJournal
    <3>3. JournalCount(disk)' = JournalCount(j) /\ JournalCount(store)' = JournalCount(j)
      BY <1>8, <1>11, <1>15 DEF JournalCount
    <3>4. JournalCount(j) + Unadmitted' <= used'.commands
      BY <1>9, <3>1, <3>2
    <3> QED
      BY <3>3, <3>4 DEF RecordsAreCounted
  <2>7. RemovedIsTrue'
    BY <1>1, <1>6, <1>8, <1>11, <1>15, <2>1 DEF RemovedIsTrue, SafeJournal
  <2>8. Roomy => StartsAreRecorded'
    <3> SUFFICES ASSUME Roomy PROVE StartsAreRecorded'
      OBVIOUS
    <3>1. \A o \in Ids : ran[o] <= 1
      BY DEF HelperInv, StartsAreRecorded
    <3>2. \A o \in Ids : ran[o] > 0 => EvidenceOf(o)'
      BY <1>13 DEF EvidenceOf, RecordsSay
    <3>3. \A o \in Ids : ran[o] > 0 => RecordsSay(store, o)'
      BY <1>10, <1>11 DEF RecordsSay, Remembers
    <3> QED
      BY <1>1, <1>10, <2>1, <3>1, <3>2, <3>3 DEF StartsAreRecorded
  <2>9. Roomy' <=> Roomy
    BY DEF Roomy
  <2> QED
    BY <2>2, <2>3, <2>4, <2>5, <2>6, <2>7, <2>8, <2>9 DEF HelperInv
<1> QED
  BY <1>14, <1>15

\* The end of a removal: its record replaces its occurrence, in memory even when the
\* write failed, and the file has either.
LEMMA FinishSafe ==
  ASSUME HelperInv, job.kind = "remove", job.at # "occurrence", job' = Quiet, UNCHANGED <<ran, gone>>,
         NEW outcome \in RecordOutcomes, NEW cleanup \in {"absent", "incomplete", "none"},
         outcome = "removed" => job.op \in gone, FinishOccurrence(outcome, cleanup)
  PROVE  HelperInv'
<1> DEFINE j == Finished(Journal, outcome, cleanup)
           a == CHOOSE a \in Journal.active : TRUE
           r == [op |-> a.op, rev |-> a.rev, outcome |-> outcome, cleanup |-> cleanup]
<1>1. PICK ok \in BOOLEAN : WritePrivateJournal(j, ok) /\ store' = Holding(j, FALSE)
  BY Zenon DEF FinishOccurrence
<1>2. /\ store.usable /\ job.op \in Ids
      /\ \E b \in store.active : b.op = job.op
  BY DEF HelperInv, RemovalIsOwned, StagesOfRemoval
<1>3. Journal \in Journals /\ SafeJournal(Journal) /\ Journal.active = store.active /\ Journal.records = store.records
  <2>1. Journal \in Journals
    BY DEF HelperInv, HelperTyped, Journals, Journal
  <2> QED
    BY <2>1, HeldIsSafe DEF Journal
<1>4. a \in Journal.active /\ a \in Occurrences /\ a.op = job.op
  <2>1. a \in Journal.active
    BY <1>2, <1>3
  <2> HIDE DEF a
  <2> QED
    BY <1>2, <1>3, <2>1 DEF Journals, HelperInv, OneOccurrence
<1>5. j = [Journal EXCEPT !.active = {}, !.records = Trim(Append(Journal.records, r))]
  BY Zenon DEF Finished
<1> HIDE DEF a
<1>6. r \in RemovalRecords /\ r.op = job.op /\ r.outcome = outcome
  BY <1>4 DEF RemovalRecords, Occurrences
<1> HIDE DEF j, r
<1>7. Trim(Append(Journal.records, r)) \in Seq(RemovalRecords)
  BY <1>3, <1>6, AppendSays, TrimSays DEF Journals
<1>8. j \in Journals /\ j.active = {} /\ j.records = Trim(Append(Journal.records, r))
  BY <1>3, <1>5, <1>7 DEF Journals
<1>9. /\ SafeJournal(j)
      /\ Roomy => (\A q \in ToSet(Journal.records) : q \in ToSet(j.records)) /\ r \in ToSet(j.records)
  BY <1>2, <1>3, <1>6, <1>8, RecordedSays
<1>10. Roomy => Remembers(j)
  <2> SUFFICES ASSUME Roomy, NEW o \in Ids, ran[o] > 0 PROVE RecordsSay(j, o)
    BY DEF Remembers
  <2>1. RecordsSay(store, o) \/ job.op = o
    BY <1>2 DEF HelperInv, StartsAreRecorded
  <2> QED
    BY <1>3, <1>6, <1>9, <2>1 DEF RecordsSay
<1>11. (Spend("faults") \/ UNCHANGED used) /\ disk' \in {disk, j}
  BY <1>1, <1>2 DEF WritePrivateJournal
<1>12. UsedGrows
  BY <1>11, FaultsAreUsed DEF HelperInv
<1>13. disk' \in Journals /\ SafeJournal(disk')
  <2>1. disk \in Journals
    BY DEF HelperInv, HelperTyped
  <2> QED
    BY <1>8, <1>9, <1>11, <2>1, HeldIsSafe
<1>14. Roomy => \A o \in Ids : ran[o] > 0 =>
                  (\E b \in disk'.active : b.op = o /\ b.phase = "maintenance") \/ RecordsSay(disk', o)
  <2>1. CASE disk' = disk
    BY <2>1 DEF HelperInv, StartsAreRecorded, EvidenceOf
  <2>2. CASE disk' = j
    BY <1>10, <2>2 DEF Remembers
  <2> QED
    BY <1>11, <2>1, <2>2
<1>15. /\ store' \in [active : SUBSET Occurrences, next : Nat, records : Seq(RemovalRecords), retry : BOOLEAN, usable : BOOLEAN]
       /\ store'.usable = store.usable /\ SafeJournal(store')
       /\ Remembers(j) => Remembers(store')
  BY <1>1, <1>8, <1>9, HoldingSays
<1> QED
  BY <1>2, <1>10, <1>12, <1>13, <1>14, <1>15, HelperEnds

\* The two ends of a removal.
LEMMA RemovalEndsSafe == ASSUME HelperInv, RemovalFails \/ RemovalSucceeds PROVE HelperInv'
<1>1. CASE RemovalFails
  <2> DEFINE outcome == RemovalOutcome(job.err)
  <2>1. outcome \in RecordOutcomes /\ outcome # "removed" /\ CleanupOutcome(outcome) \in {"absent", "incomplete", "none"}
    BY DEF RemovalOutcome, RecordOutcomes, CleanupOutcome
  <2>2. /\ job.kind = "remove" /\ job.at # "occurrence" /\ job' = Quiet /\ UNCHANGED <<ran, gone>>
        /\ FinishOccurrence(outcome, CleanupOutcome(outcome))
    BY <1>1 DEF RemovalFails, Answer
  <2> QED
    BY <2>1, <2>2, FinishSafe
<1>2. CASE RemovalSucceeds
  <2>1. /\ job.at = "removed" /\ job' = Quiet /\ UNCHANGED <<ran, gone>>
        /\ FinishOccurrence("removed", "absent")
    BY <1>2 DEF RemovalSucceeds, Answer
  <2>2. job.kind = "remove" /\ job.op \in gone
    BY <2>1 DEF HelperInv, StagesOfRemoval, RemovalOnly, RemovedIsTrue
  <2> QED
    BY <2>1, <2>2, FinishSafe DEF RecordOutcomes
<1> QED
  BY <1>1, <1>2

\* A restart settles what the last process left, or closes the store.
LEMMA RestartSafe == ASSUME HelperInv, Restart PROVE HelperInv'
<1> DEFINE j == ReconcileInterrupted(disk)
<1>1. job' = Quiet /\ UNCHANGED ran /\ gone \subseteq gone'
  BY DEF Restart
<1>2. UsedGrows
  <2>1. PICK ok \in BOOLEAN : used' = [used EXCEPT !.crashes = @ + 1, !.faults = IF ok THEN @ ELSE @ + 1]
    BY DEF Restart
  <2>2. used \in [commands : Nat, faults : Nat, crashes : Nat] /\ used.commands <= MaxCommands
    BY DEF HelperInv, HelperTyped
  <2>3. used.crashes + 1 \in Nat /\ used.faults \in Nat /\ used.faults + 1 \in Nat
    BY <2>2
  <2>4. PICK c \in Nat, n \in Nat : used' = [used EXCEPT !.crashes = c, !.faults = n]
    <3>1. CASE ok
      BY <2>1, <2>3, <3>1
    <3>2. CASE ~ok
      BY <2>1, <2>3, <3>2
    <3> QED
      BY <3>1, <3>2
  <2>5. used' \in [commands : Nat, faults : Nat, crashes : Nat] /\ used'.commands = used.commands
    BY <2>2, <2>4
  <2> QED
    BY <2>2, <2>5, HelperAssumption DEF UsedGrows
<1>3. PICK ok \in BOOLEAN : OpenPrivateFile(ok)
  BY DEF Restart
<1>4. \/ /\ disk' = j
         /\ store' = [active |-> {}, next |-> j.next, records |-> j.records, retry |-> FALSE, usable |-> TRUE]
      \/ /\ disk' \in {disk, j}
         /\ store' = [active |-> {}, next |-> 1, records |-> <<>>, retry |-> FALSE, usable |-> FALSE]
  BY <1>3 DEF OpenPrivateFile
<1>5. disk \in Journals /\ SafeJournal(disk)
  BY HeldIsSafe DEF HelperInv, HelperTyped
<1>6. /\ j \in Journals /\ SafeJournal(j) /\ j.active = {}
      /\ Roomy => \A op \in Ids : RecordsSay(disk, op) \/ (\E a \in disk.active : a.op = op) => RecordsSay(j, op)
  BY <1>5, SettledSays
<1> HIDE DEF j
<1>7. Roomy => Remembers(j)
  <2> SUFFICES ASSUME Roomy, NEW op \in Ids, ran[op] > 0 PROVE RecordsSay(j, op)
    BY DEF Remembers
  <2>1. EvidenceOf(op)
    BY DEF HelperInv, StartsAreRecorded
  <2> QED
    BY <1>6, <2>1 DEF EvidenceOf
<1>8. disk' \in Journals /\ SafeJournal(disk')
  BY <1>4, <1>5, <1>6
<1>9. Roomy => \A op \in Ids : ran[op] > 0 =>
                 (\E a \in disk'.active : a.op = op /\ a.phase = "maintenance") \/ RecordsSay(disk', op)
  <2>1. CASE disk' = disk
    BY <2>1 DEF HelperInv, StartsAreRecorded, EvidenceOf
  <2>2. CASE disk' = j
    BY <1>7, <2>2 DEF Remembers
  <2> QED
    BY <1>4, <2>1, <2>2
<1>10. /\ store' \in [active : SUBSET Occurrences, next : Nat, records : Seq(RemovalRecords), retry : BOOLEAN, usable : BOOLEAN]
       /\ SafeJournal(store') /\ store'.active = {}
       /\ Roomy /\ store'.usable => Remembers(store')
  <2>1. CASE store' = [active |-> {}, next |-> j.next, records |-> j.records, retry |-> FALSE, usable |-> TRUE]
    <3>1. store'.active = {} /\ store'.next = j.next /\ store'.records = j.records
      BY <2>1
    <3>2. JournalCount(store') = JournalCount(j)
      BY <1>6, <3>1 DEF JournalCount
    <3>3. SafeJournal(store')
      BY <1>6, <3>1, <3>2 DEF SafeJournal
    <3>4. Remembers(j) => Remembers(store')
      BY <3>1 DEF Remembers, RecordsSay
    <3> QED
      BY <1>6, <1>7, <2>1, <3>1, <3>3, <3>4 DEF Journals
  <2>2. CASE store' = [active |-> {}, next |-> 1, records |-> <<>>, retry |-> FALSE, usable |-> FALSE]
    <3>1. store'.active = {} /\ store'.next = 1 /\ store'.records = <<>> /\ store'.usable = FALSE
      BY <2>2
    <3>2. <<>> \in Seq(RemovalRecords) /\ Len(<<>>) = 0 /\ ToSet(<<>>) = {}
      BY DEF ToSet
    <3>3. JournalCount(store') = 0
      BY <3>1, <3>2 DEF JournalCount
    <3>4. used.commands \in Nat
      BY DEF HelperInv, HelperTyped
    <3>5. SafeJournal(store')
      BY <3>1, <3>2, <3>3, <3>4 DEF SafeJournal
    <3> QED
      BY <2>2, <3>1, <3>2, <3>5
  <2> QED
    BY <1>4, <2>1, <2>2
<1> QED
  BY <1>1, <1>2, <1>8, <1>9, <1>10, HelperEnds

\* The first state.
LEMMA HelperInitSafe == HelperInit => HelperInv
<1> SUFFICES ASSUME HelperInit PROVE HelperInv
  OBVIOUS
<1>1. /\ store = [active |-> {}, next |-> 1, records |-> <<>>, retry |-> FALSE, usable |-> TRUE]
      /\ disk = [active |-> {}, next |-> 1, records |-> <<>>] /\ job = Quiet /\ gone = {}
      /\ ran = [op \in Ids |-> 0] /\ used = [commands |-> 0, faults |-> 0, crashes |-> 0]
  BY DEF HelperInit, EmptyJournal
<1>2. <<>> \in Seq(RemovalRecords) /\ Len(<<>>) = 0 /\ ToSet(<<>>) = {}
  BY DEF ToSet
<1>3. job \in Handlers /\ job.at = "idle" /\ job.kind = "none"
  BY <1>1 DEF Quiet, Handlers, HandlerStages, HandlerErrors
<1>4. HelperTyped
  BY <1>1, <1>2, <1>3, HelperAssumption DEF HelperTyped, Journals
<1>5. OneOccurrence /\ StagesOfRemoval /\ RemovalIsOwned /\ RemovedIsTrue
  BY <1>1, <1>2, <1>3 DEF OneOccurrence, StagesOfRemoval, RemovalIsOwned, RemovedIsTrue, RemovalOnly, RemovalBefore
<1>6. RecordsAreCounted
  BY <1>1, <1>2, <1>3 DEF RecordsAreCounted, JournalCount, Unadmitted
<1>7. StartsAreRecorded
  BY <1>1, <1>3 DEF StartsAreRecorded
<1> QED
  BY <1>4, <1>5, <1>6, <1>7 DEF HelperInv

\* The invariant holds of every behaviour of the helper's life cycle, for any
\* operations, record limit, commands, failing calls and restarts
\* (tun_helper_removal_occurrences.rs).
THEOREM HelperInvHolds == HelperSpec => []HelperInv
<1>1. HelperInv /\ [HelperNext]_hvars => HelperInv'
  <2> SUFFICES ASSUME HelperInv, [HelperNext]_hvars PROVE HelperInv'
    OBVIOUS
  <2>1. CASE UNCHANGED hvars
    <3>1. UsedGrows /\ UNCHANGED <<store, disk, ran, gone, job>>
      BY <2>1, FaultsAreUsed DEF hvars, HelperInv
    <3> QED
      BY <3>1, HelperFrame
  <2>2. CASE \E op \in Ids, resume \in BOOLEAN : BeginInstall(op, resume) \/ BeginRepair(op, resume)
    BY <2>2, BeginSafe DEF BeginInstall, BeginRepair
  <2>3. CASE \E op \in Ids : BeginRemove(op)
    BY <2>3, BeginRemoveSafe
  <2>4. CASE AdmitRemoval \/ RefreshRemovalAvailable \/ AdvanceRemoval \/ ShutDownCapture
    BY <2>4, AdmitRemovalSafe, RefreshRemovalAvailableSafe, AdvanceRemovalSafe, ShutDownCaptureSafe
  <2>5. CASE \E on \in BOOLEAN : RequestCapture(on)
    BY <2>5, RequestCaptureSafe
  <2>6. CASE StartPrivilegedCore \/ SetTunEnabled \/ RefreshHelper
    BY <2>6, CaptureSafe
  <2>7. CASE HandOff \/ ResumeTun \/ InstallFails
    BY <2>7, InstallEndsSafe
  <2>8. CASE ConfirmRemovalSafe \/ ObserveRemovalSafe
    BY <2>8, ConfirmRemovalSafeSafe, ObserveRemovalSafeSafe
  <2>9. CASE AdmitLifecycle \/ DisableBeforeLifecycle \/ CheckBeforeLifecycle \/ RunLifecycle
    BY <2>9, AdmitLifecycleSafe, DisableBeforeLifecycleSafe, CheckBeforeLifecycleSafe, RunLifecycleSafe
  <2>10. CASE SettleLifecycle \/ RecheckRemoval \/ ConfirmNetwork
    BY <2>10, SettleLifecycleSafe, RecheckRemovalSafe, ConfirmNetworkSafe
  <2>11. CASE RemovalFails \/ RemovalSucceeds
    BY <2>11, RemovalEndsSafe
  <2>12. CASE Restart
    BY <2>12, RestartSafe
  <2> QED
    BY <2>1, <2>2, <2>3, <2>4, <2>5, <2>6, <2>7, <2>8, <2>9, <2>10, <2>11, <2>12 DEF HelperNext
<1> QED
  BY <1>1, HelperInitSafe, PTL DEF HelperSpec

\* With no more commands than the journal keeps records: from the moment an
\* uninstall was started the file holds its operation, whatever writes failed and
\* wherever the application died, a record that says "removed" is true, and no
\* operation removes the helper twice (advance, finish and open_private_file).
THEOREM RemovalHolds == ASSUME MaxCommands <= RecordLimit PROVE HelperSpec => []RemovalIsRecorded
<1>1. HelperInv => RemovalIsRecorded
  <2> SUFFICES ASSUME HelperInv PROVE RemovalIsRecorded
    OBVIOUS
  <2>1. StartsAreRecorded /\ RemovedIsTrue
    BY DEF HelperInv, Roomy
  <2>2. EvidenceIsTrue
    BY <2>1 DEF EvidenceIsTrue, StartsAreRecorded, EvidenceOf, RecordsSay, RemovedIsTrue
  <2>3. RemovesOnce
    BY <2>1 DEF RemovesOnce, StartsAreRecorded
  <2> QED
    BY <2>2, <2>3 DEF RemovalIsRecorded
<1> QED
  BY <1>1, HelperInvHolds, PTL

=============================================================================
