----------------------------- MODULE Snapshots -----------------------------
(***************************************************************************)
(* The order of complete Status snapshots: the application snapshot        *)
(* authority (crates/desktop-bridge/src/snapshot_order.rs), the reads that *)
(* are stamped with it (protocol.rs, runtime_host.rs), one socket with its *)
(* loop and one spawned status.setCapture command, and the acceptance of   *)
(* the client (packages/rpc-client/src/session-authority.ts).              *)
(*                                                                         *)
(* A read is four steps, since it awaits the core: reserve an order, look  *)
(* at the runtime, check that it was not replaced, stamp.  What a snapshot *)
(* shows is the core's status and the capture status.  The first is        *)
(* announced without a value and read again; the second travels with its   *)
(* announcement.                                                           *)
(***************************************************************************)
EXTENDS Naturals, Sequences

CONSTANTS
  MaxChanges,  \* bound: changes of the core status, and of the capture status
  MaxReplaced, \* bound: runtime replacements
  MaxCut,      \* bound: connections lost
  MaxRestarts  \* bound: restarts of the service

VARIABLES
  truth,      \* core, capture and runtime as they are, counted
  replacing,  \* replace has published the runtime and not yet retired the epoch
  authority,  \* ApplicationSnapshotAuthority: id, epoch, next_order, latest
  feed,       \* what the loop will be told: runtime change, status, captures
  loop, command,  \* the two readers of the socket
  responses,  \* command results on the way to the loop
  wire,       \* messages to the client, in order
  client      \* RpcSessionAuthority, and whether it ever calls status.setCapture

svars == <<truth, replacing, authority, feed, loop, command, responses, wire, client>>

Shows(core, capture, runtime) == [core |-> core, capture |-> capture, runtime |-> runtime]

NoContent == [core |-> MaxChanges + 1, capture |-> 0, runtime |-> 0]
None == [content |-> NoContent, order |-> 0]
NoTicket == [epoch |-> 0, order |-> 0]
IdleReader == [at |-> "idle", ticket |-> NoTicket, delivery |-> "none", capture |-> 0,
               valued |-> FALSE, runtime |-> 0, content |-> NoContent]
NoFeed == [runtime |-> FALSE, status |-> FALSE, captures |-> <<>>]
NewAuthority(id) == [id |-> id, epoch |-> 1, next_order |-> 1, latest |-> None]

SnapshotsInit ==
  /\ truth = [core |-> 0, capture |-> 0, runtime |-> 0]
  /\ replacing = FALSE
  /\ authority = NewAuthority(1)
  /\ feed = NoFeed /\ loop = IdleReader /\ command = IdleReader
  /\ responses = <<>> /\ wire = <<>>
  /\ \E commands \in BOOLEAN :
       client = [connected |-> TRUE, subscribed |-> FALSE, baselinePending |-> TRUE,
                 reconnectPending |-> FALSE, conflict |-> FALSE, cuts |-> 0, current |-> None,
                 commands |-> commands]

-----------------------------------------------------------------------------
(* The runtime changes and says so.                                         *)

ChangeCore ==
  /\ truth.core < MaxChanges
  /\ truth' = [truth EXCEPT !.core = @ + 1]
  /\ feed' = [feed EXCEPT !.status = TRUE]
  /\ UNCHANGED <<replacing, authority, loop, command, responses, wire, client>>

ChangeCapture ==
  /\ truth.capture < MaxChanges
  /\ truth' = [truth EXCEPT !.capture = @ + 1]
  /\ feed' = [feed EXCEPT !.captures = Append(@, truth.capture + 1)]
  /\ UNCHANGED <<replacing, authority, loop, command, responses, wire, client>>

\* replace: the new runtime is visible before the epoch of the old one retires.
SendReplace ==
  /\ ~replacing /\ truth.runtime < MaxReplaced
  /\ replacing' = TRUE
  /\ truth' = [truth EXCEPT !.runtime = @ + 1]
  /\ feed' = [feed EXCEPT !.runtime = TRUE]
  /\ UNCHANGED <<authority, loop, command, responses, wire, client>>
RetireRuntime ==
  /\ replacing
  /\ replacing' = FALSE
  /\ authority' = [NewAuthority(authority.id) EXCEPT !.epoch = authority.epoch + 1]
  /\ UNCHANGED <<truth, feed, loop, command, responses, wire, client>>

-----------------------------------------------------------------------------
(* A reader r of either task.                                               *)

\* begin: the order is reserved first.
Ticket == [epoch |-> authority.epoch, order |-> authority.next_order]
Reserve == authority' = [authority EXCEPT !.next_order = @ + 1]
Begun(delivery, valued, capture) ==
  [IdleReader EXCEPT !.at = "read", !.ticket = Ticket, !.delivery = delivery,
                     !.valued = valued, !.capture = capture]

\* The runtime is looked up and its status awaited; the content is what it
\* shows then, with the announced capture status if there is one.
Read(r) ==
  [r EXCEPT !.at = "check", !.runtime = truth.runtime,
            !.content = Shows(truth.core, IF r.valued THEN r.capture ELSE truth.capture,
                              truth.runtime)]

\* A runtime replaced meanwhile: an unordered read is repeated under its ticket,
\* one with an announced capture status starts over as a plain read.
Check(r) ==
  IF r.runtime = truth.runtime THEN [r EXCEPT !.at = "stamp"] ELSE [r EXCEPT !.at = "read"]
Restarts(r) == r.valued /\ r.runtime # truth.runtime

\* stamp: the same content keeps its order; an older ticket does not replace
\* the latest content; a ticket of a retired epoch keeps its own.
MutantStampOrder(r) ==
  IF authority.latest.content = r.content \/ authority.latest.order > r.ticket.order
    THEN authority.latest.order ELSE r.ticket.order
StampOrder(r) ==
  IF r.ticket.epoch = authority.epoch /\ authority.latest.content = r.content
    THEN authority.latest.order ELSE r.ticket.order
StampLatest(r) ==
  IF \/ r.ticket.epoch # authority.epoch
     \/ authority.latest.content = r.content
     \/ authority.latest.order > r.ticket.order
    THEN authority.latest
    ELSE [content |-> r.content, order |-> r.ticket.order]
Message(r) ==
  [delivery |-> r.delivery, content |-> r.content, order |-> StampOrder(r),
   epoch |-> r.ticket.epoch, id |-> authority.id]
Stamp(r) == authority' = [authority EXCEPT !.latest = StampLatest(r)]

-----------------------------------------------------------------------------
(* serve_socket: one thing at a time, in this order of preference.          *)

Keep == UNCHANGED <<truth, replacing>>

OnRuntimeChanged ==
  /\ loop.at = "idle" /\ client.connected /\ feed.runtime
  /\ feed' = NoFeed
  /\ IF client.subscribed THEN Reserve /\ loop' = Begun("update", FALSE, 0)
     ELSE UNCHANGED <<authority, loop>>
  /\ Keep /\ UNCHANGED <<command, responses, wire, client>>

OnSubscribe ==
  /\ loop.at = "idle" /\ client.connected /\ ~feed.runtime /\ ~client.subscribed
  /\ client' = [client EXCEPT !.subscribed = TRUE]
  /\ feed' = NoFeed
  /\ Reserve /\ loop' = Begun("baseline", FALSE, 0)
  /\ Keep /\ UNCHANGED <<command, responses, wire>>

OnResponse ==
  /\ loop.at = "idle" /\ client.connected /\ ~feed.runtime /\ responses # <<>>
  /\ wire' = Append(wire, Head(responses))
  /\ responses' = Tail(responses)
  /\ Keep /\ UNCHANGED <<authority, feed, loop, command, client>>

OnStatus ==
  /\ loop.at = "idle" /\ client.connected /\ client.subscribed
  /\ ~feed.runtime /\ responses = <<>> /\ feed.status
  /\ feed' = [feed EXCEPT !.status = FALSE]
  /\ Reserve /\ loop' = Begun("update", FALSE, 0)
  /\ Keep /\ UNCHANGED <<command, responses, wire, client>>

OnCapture ==
  /\ loop.at = "idle" /\ client.connected /\ client.subscribed
  /\ ~feed.runtime /\ responses = <<>> /\ ~feed.status /\ feed.captures # <<>>
  /\ feed' = [feed EXCEPT !.captures = Tail(@)]
  /\ Reserve /\ loop' = Begun("update", TRUE, Head(feed.captures))
  /\ Keep /\ UNCHANGED <<command, responses, wire, client>>

LoopRead ==
  /\ loop.at = "read" /\ loop' = Read(loop)
  /\ Keep /\ UNCHANGED <<authority, feed, command, responses, wire, client>>
LoopCheck ==
  /\ loop.at = "check"
  /\ IF Restarts(loop) THEN Reserve /\ loop' = Begun(loop.delivery, FALSE, 0)
     ELSE loop' = Check(loop) /\ UNCHANGED authority
  /\ Keep /\ UNCHANGED <<feed, command, responses, wire, client>>
LoopStamp ==
  /\ loop.at = "stamp" /\ Stamp(loop) /\ loop' = IdleReader
  /\ wire' = Append(wire, Message(loop))
  /\ Keep /\ UNCHANGED <<feed, command, responses, client>>

\* status.setCapture runs on its own task and answers with a snapshot.
CommandBegin ==
  /\ client.commands /\ command.at = "idle" /\ client.connected /\ client.current # None
  /\ Reserve /\ command' = Begun("command", FALSE, 0)
  /\ Keep /\ UNCHANGED <<feed, loop, responses, wire, client>>
CommandRead ==
  /\ command.at = "read" /\ command' = Read(command)
  /\ Keep /\ UNCHANGED <<authority, feed, loop, responses, wire, client>>
CommandCheck ==
  /\ command.at = "check" /\ command' = Check(command)
  /\ Keep /\ UNCHANGED <<authority, feed, loop, responses, wire, client>>
CommandStamp ==
  /\ command.at = "stamp" /\ Stamp(command)
  /\ command' = [IdleReader EXCEPT !.at = "done"]
  /\ responses' = IF command.delivery = "lost" THEN responses ELSE Append(responses, Message(command))
  /\ Keep /\ UNCHANGED <<feed, loop, wire, client>>

-----------------------------------------------------------------------------
(* The client.                                                              *)

\* accept: the verdict on the next message.
Newer(m, c) == m.epoch > c.epoch \/ (m.epoch = c.epoch /\ m.order > c.order)
Same(m, c) == m.epoch = c.epoch /\ m.order = c.order
Verdict(m) ==
  LET c == client.current
      update == m.delivery = "update"
  IN IF c = None THEN (IF update THEN "stale" ELSE "accepted")
     ELSE IF client.baselinePending /\ update THEN "stale"
     ELSE IF m.id # c.id
       THEN IF m.delivery = "baseline" \/ (client.reconnectPending /\ m.delivery = "command")
              THEN "accepted" ELSE "stale"
     ELSE IF Newer(m, c) THEN "accepted"
     ELSE IF ~Same(m, c) THEN "stale"
     ELSE IF m.content = c.content THEN "duplicate" ELSE "conflict"

Deliver ==
  /\ wire # <<>>
  /\ LET m == Head(wire)
         verdict == Verdict(m)
         confirms == verdict \in {"accepted", "duplicate"}
     IN client' = [client EXCEPT
          !.current = IF verdict = "accepted"
                        THEN [content |-> m.content, order |-> m.order, epoch |-> m.epoch, id |-> m.id]
                        ELSE @,
          !.baselinePending = @ /\ ~confirms, !.reconnectPending = @ /\ ~confirms,
          !.conflict = @ \/ verdict = "conflict"]
  /\ wire' = Tail(wire)
  /\ Keep /\ UNCHANGED <<authority, feed, loop, command, responses>>

\* The socket is lost with everything on it; a command under way finishes for nobody.
Lost(r) == IF r.at \in {"read", "check", "stamp"} THEN [r EXCEPT !.delivery = "lost"] ELSE r
Gone ==
  /\ client.connected /\ client.cuts < MaxCut
  /\ wire' = <<>> /\ responses' = <<>> /\ feed' = NoFeed /\ loop' = IdleReader
  /\ client' = [client EXCEPT !.connected = FALSE, !.subscribed = FALSE, !.baselinePending = TRUE,
                              !.reconnectPending = client.current # None, !.cuts = @ + 1]
Cut ==
  /\ Gone /\ command' = Lost(command)
  /\ Keep /\ UNCHANGED authority
Restart ==
  /\ Gone /\ authority.id <= MaxRestarts
  /\ authority' = NewAuthority(authority.id + 1)
  /\ replacing' = FALSE /\ command' = IdleReader
  /\ UNCHANGED truth
Reconnect ==
  /\ ~client.connected
  /\ client' = [client EXCEPT !.connected = TRUE, !.baselinePending = TRUE,
                              !.reconnectPending = client.current # None]
  /\ Keep /\ UNCHANGED <<authority, feed, loop, command, responses, wire>>

SnapshotsNext ==
  \/ ChangeCore \/ ChangeCapture \/ SendReplace \/ RetireRuntime
  \/ OnRuntimeChanged \/ OnSubscribe \/ OnResponse \/ OnStatus \/ OnCapture
  \/ LoopRead \/ LoopCheck \/ LoopStamp
  \/ CommandBegin \/ CommandRead \/ CommandCheck \/ CommandStamp
  \/ Deliver \/ Cut \/ Restart \/ Reconnect

SnapshotsSpec == SnapshotsInit /\ [][SnapshotsNext]_svars

-----------------------------------------------------------------------------
(* One order never names two contents: the client never meets the contract  *)
(* conflict of session-authority.ts, however the loop and the command's     *)
(* reads, stamps, a replaced runtime and reconnects interleave.             *)
NoConflict == ~client.conflict

(* Nothing left to send: neither reader is under way, every announcement    *)
(* was handled and the wire is empty.                                       *)
Quiet ==
  /\ client.connected /\ client.subscribed /\ ~replacing
  /\ loop.at = "idle" /\ command.at \in {"idle", "done"}
  /\ feed = NoFeed /\ responses = <<>> /\ wire = <<>>

(* The client ends up with what is true: once quiet, its snapshot shows the *)
(* current core, capture status and runtime.  It holds for the loop alone.  *)
(* With a command beside it, the loop's later read may be stamped with an   *)
(* order below the command's, and the client keeps the older content.       *)
Converges == Quiet => client.current.content = truth

(* What a client may rely on: it meets no conflict and, when it gives no    *)
(* command, shows what is true once everything was delivered.               *)
SnapshotsAgree == NoConflict /\ (~client.commands => Converges)

(* While connected and confirmed, what the client shows never goes back: a  *)
(* later snapshot is of the same authority with no smaller epoch or order,  *)
(* or of a restarted service after a reconnect.                             *)
NeverReopens ==
  [][client.current # None /\ client'.current # client.current =>
       \/ Newer(client'.current, client.current) /\ client'.current.id = client.current.id
       \/ client'.current.id > client.current.id]_svars
=============================================================================
