-------------------------- MODULE SnapshotsProofs --------------------------
(***************************************************************************)
(* One snapshot order never names two contents, what a client shows never  *)
(* goes back, and without a command beside the loop the client ends up     *)
(* with what is true: for any number of changes, replaced runtimes, lost   *)
(* connections and restarts.                                               *)
(*                                                                         *)
(* The second half is about the same desktop's durable data: a restore of  *)
(* a backup leaves the profiles, their projection and the settings of one  *)
(* moment, whichever of its steps fails and wherever the desktop dies.     *)
(***************************************************************************)
EXTENDS Snapshots, Restore, Integers, SequenceTheorems, TLAPS

Content == [core : Nat, capture : Nat, runtime : Nat]
Latest == [content : Content, order : Nat]
Authority == [id : Nat, epoch : Nat, next_order : Nat \ {0}, latest : Latest]
Delivery == {"none", "update", "baseline", "command", "lost"}
Reader == [at : {"idle", "read", "check", "stamp", "done"}, ticket : [epoch : Nat, order : Nat],
           delivery : Delivery, capture : Nat, valued : BOOLEAN, runtime : Nat, content : Content]
Sent == [delivery : Delivery, content : Content, order : Nat \ {0}, epoch : Nat, id : Nat]
Shown == [content : Content, order : Nat \ {0}, epoch : Nat, id : Nat]
Session == [connected : BOOLEAN, subscribed : BOOLEAN, baselinePending : BOOLEAN,
            reconnectPending : BOOLEAN, conflict : BOOLEAN, cuts : Nat, current : Shown \cup {None},
            commands : BOOLEAN]
Feed == [runtime : BOOLEAN, status : BOOLEAN, captures : Seq(Nat)]

\* The shape of the state.
Typed ==
  /\ truth \in [core : Nat, capture : Nat, runtime : Nat] /\ truth.core <= MaxChanges
  /\ replacing \in BOOLEAN
  /\ authority \in Authority /\ feed \in Feed
  /\ loop \in Reader /\ command \in Reader
  /\ responses \in Seq(Sent) /\ wire \in Seq(Sent)
  /\ client \in Session

\* A reader holds an order that it has not stamped yet.
Active(r) == r.at \in {"read", "check", "stamp"}

\* A stamp: an order, and the content it was given.
Stamped(m) == [epoch |-> m.epoch, order |-> m.order, content |-> m.content]
StampsOf(s) == {Stamped(s[i]) : i \in 1 .. Len(s)}
Kept(c, id) == IF c # None /\ c.id = id THEN {Stamped(c)} ELSE {}
Remembered(a) ==
  IF a.latest.order # 0
  THEN {[epoch |-> a.epoch, order |-> a.latest.order, content |-> a.latest.content]} ELSE {}

\* Every stamp of the running service that somebody still has.
Stamps ==
  StampsOf(wire) \cup StampsOf(responses) \cup Kept(client.current, authority.id)
    \cup Remembered(authority)

\* An order that was reserved from an authority.
Reserved(a, t) == t.epoch <= a.epoch /\ t.order # 0 /\ (t.epoch = a.epoch => t.order < a.next_order)
SameOrder(t, u) == t.epoch = u.epoch /\ t.order = u.order

\* Tickets are reserved, and no two readers hold the same one.
Tickets ==
  /\ Active(loop) => Reserved(authority, loop.ticket)
  /\ Active(command) => Reserved(authority, command.ticket)
  /\ Active(loop) /\ Active(command) => ~SameOrder(loop.ticket, command.ticket)

\* What was stamped was reserved, is no reader's ticket, and has one content.
OneContent ==
  \A x \in Stamps :
    /\ Reserved(authority, x)
    /\ Active(loop) => ~SameOrder(x, loop.ticket)
    /\ Active(command) => ~SameOrder(x, command.ticket)
    /\ \A y \in Stamps : SameOrder(x, y) => x.content = y.content

\* What is on the way, or remembered, is of the running service, and no service
\* restarts backwards; nothing was stamped with the content of no snapshot.
OfService ==
  /\ \A i \in 1 .. Len(wire) : wire[i].id = authority.id
  /\ \A i \in 1 .. Len(responses) : responses[i].id = authority.id
  /\ client.current # None => client.current.id <= authority.id
  /\ authority.latest.order = 0 => authority.latest = None
  /\ loop.at \in {"check", "stamp"} => loop.content # NoContent
  /\ command.at \in {"check", "stamp"} => command.content # NoContent

OrderInv == Typed /\ Tickets /\ OneContent /\ OfService /\ NoConflict

-----------------------------------------------------------------------------
(* Stamps of sequences.                                                     *)

\* Nothing is stamped in an empty sequence.
LEMMA StampsEmpty == StampsOf(<<>>) = {}
BY DEF StampsOf

\* A sequence with one message more, or without its first.
LEMMA StampsAppend ==
  ASSUME NEW s \in Seq(Sent), NEW m \in Sent
  PROVE  /\ Append(s, m) \in Seq(Sent)
         /\ StampsOf(Append(s, m)) \subseteq StampsOf(s) \cup {Stamped(m)}
         /\ \A id : (\A i \in 1 .. Len(s) : s[i].id = id) /\ m.id = id
              => \A i \in 1 .. Len(Append(s, m)) : Append(s, m)[i].id = id
<1> DEFINE t == Append(s, m)
<1>1. /\ t \in Seq(Sent) /\ Len(s) \in Nat /\ Len(t) = Len(s) + 1
      /\ \A i \in 1 .. Len(s) : t[i] = s[i]
      /\ t[Len(s) + 1] = m
  BY AppendProperties, LenProperties
<1> HIDE DEF t
<1>2. \A i \in 1 .. Len(t) : i \in 1 .. Len(s) \/ i = Len(s) + 1
  BY <1>1
<1>3. StampsOf(t) \subseteq StampsOf(s) \cup {Stamped(m)}
  BY <1>1, <1>2 DEF StampsOf
<1>4. ASSUME NEW id, \A i \in 1 .. Len(s) : s[i].id = id, m.id = id
      PROVE  \A i \in 1 .. Len(t) : t[i].id = id
  BY <1>1, <1>2, <1>4
<1> QED
  BY <1>1, <1>3, <1>4 DEF t

\* A sequence without its first message, and that message.
LEMMA StampsTail ==
  ASSUME NEW s \in Seq(Sent), s # <<>>
  PROVE  /\ Tail(s) \in Seq(Sent) /\ Head(s) \in Sent /\ Head(s) = s[1] /\ 1 \in 1 .. Len(s)
         /\ StampsOf(Tail(s)) \subseteq StampsOf(s) /\ Stamped(Head(s)) \in StampsOf(s)
         /\ \A i \in 1 .. Len(Tail(s)) : i + 1 \in 1 .. Len(s) /\ Tail(s)[i] = s[i + 1]
<1>1. /\ Len(s) \in Nat /\ Len(s) # 0 /\ Tail(s) \in Seq(Sent) /\ Len(Tail(s)) = Len(s) - 1
      /\ \A i \in 1 .. Len(Tail(s)) : Tail(s)[i] = s[i + 1]
  BY HeadTailProperties, EmptySeq, LenProperties
<1>2. \A i \in 1 .. Len(Tail(s)) : i + 1 \in 1 .. Len(s)
  BY <1>1
<1>3. Head(s) = s[1] /\ 1 \in 1 .. Len(s) /\ s[1] \in Sent
  BY <1>1
<1> QED
  BY <1>1, <1>2, <1>3 DEF StampsOf

-----------------------------------------------------------------------------
(* The state before and after a step.                                       *)

\* The initial records have their shapes.
LEMMA Shapes ==
  ASSUME MaxChanges \in Nat
  PROVE  /\ NoContent \in Content /\ None \in Latest /\ None.order = 0
         /\ IdleReader \in Reader /\ ~Active(IdleReader) /\ NoFeed \in Feed
<1>1. NoContent \in Content
  BY DEF NoContent, Content
<1>2. None \in Latest /\ None.order = 0
  BY <1>1 DEF None, Latest
<1>3. IdleReader \in Reader /\ ~Active(IdleReader)
  BY <1>1 DEF IdleReader, Reader, Delivery, NoTicket, Active
<1>4. NoFeed \in Feed
  BY DEF NoFeed, Feed
<1> QED
  BY <1>2, <1>3, <1>4, <1>1

\* A step that stamps nothing new and reserves no order: readers may end.
LEMMA NothingNew ==
  ASSUME Tickets, OneContent, Stamps' \subseteq Stamps, authority' = authority,
         Active(loop') => Active(loop) /\ loop'.ticket = loop.ticket,
         Active(command') => Active(command) /\ command'.ticket = command.ticket
  PROVE  Tickets' /\ OneContent'
BY DEF Tickets, OneContent

\* begin: the next order is reserved by one of the readers.
LEMMA ReserveKeeps ==
  ASSUME Typed, Tickets, OneContent, Stamps' \subseteq Stamps, Reserve,
         \/ /\ loop'.ticket = Ticket
            /\ Active(command') => Active(command) /\ command'.ticket = command.ticket
         \/ /\ command'.ticket = Ticket
            /\ Active(loop') => Active(loop) /\ loop'.ticket = loop.ticket
  PROVE  Tickets' /\ OneContent'
<1>1. /\ authority'.epoch = authority.epoch /\ authority'.next_order = authority.next_order + 1
      /\ authority.epoch \in Nat /\ authority.next_order \in Nat /\ authority.next_order # 0
  BY DEF Typed, Authority, Reserve
<1>2. Ticket.epoch = authority.epoch /\ Ticket.order = authority.next_order
  BY DEF Ticket
<1>3. Reserved(authority', Ticket)
  BY <1>1, <1>2 DEF Reserved
<1>4. ASSUME NEW t, t.order \in Nat, Reserved(authority, t)
      PROVE  Reserved(authority', t) /\ ~SameOrder(t, Ticket) /\ ~SameOrder(Ticket, t)
  BY <1>1, <1>2, <1>4 DEF Reserved, SameOrder
<1>5. loop.ticket.order \in Nat /\ command.ticket.order \in Nat
  BY DEF Typed, Reader
<1>6. \A x \in Stamps : x.order \in Nat
  <2>1. \A s \in Seq(Sent) : \A i \in 1 .. Len(s) : Stamped(s[i]).order \in Nat
    <3>1. \A m \in Sent : Stamped(m).order \in Nat
      BY DEF Sent, Stamped
    <3> QED
      BY <3>1, ElementOfSeq
  <2>2. client.current # None => Stamped(client.current).order \in Nat
    BY DEF Typed, Session, Shown, Stamped
  <2>3. authority.latest.order \in Nat
    BY DEF Typed, Authority, Latest
  <2> QED
    BY <2>1, <2>2, <2>3 DEF Stamps, StampsOf, Kept, Remembered, Typed
<1> QED
  BY <1>3, <1>4, <1>5, <1>6 DEF Tickets, OneContent

\* A reader that has just begun.
LEMMA BegunShape ==
  ASSUME MaxChanges \in Nat, Typed, NEW d \in Delivery, NEW v \in BOOLEAN, NEW c \in Nat
  PROVE  /\ Begun(d, v, c) \in Reader /\ Begun(d, v, c).at = "read"
         /\ Begun(d, v, c).ticket = Ticket
<1>1. Ticket \in [epoch : Nat, order : Nat]
  BY DEF Ticket, Typed, Authority
<1>2. IdleReader \in Reader
  BY Shapes
<1> HIDE DEF Ticket
<1> QED
  BY <1>1, <1>2 DEF Begun, Reader

\* A reader that looks at the runtime sees a content, and keeps its ticket.
LEMMA ReadShape ==
  ASSUME MaxChanges \in Nat, Typed, NEW r \in Reader
  PROVE  /\ Read(r) \in Reader /\ Read(r).at = "check" /\ Read(r).ticket = r.ticket
         /\ Read(r).content # NoContent /\ Read(r).delivery = r.delivery
         /\ Read(r).content = Shows(truth.core, IF r.valued THEN r.capture ELSE truth.capture,
                                    truth.runtime)
<1> DEFINE x == Shows(truth.core, IF r.valued THEN r.capture ELSE truth.capture, truth.runtime)
<1>1. x \in Content /\ x.core = truth.core
  BY DEF Shows, Content, Typed, Reader
<1>2. x # NoContent
  BY <1>1 DEF NoContent, Typed
<1>3. Read(r) = [r EXCEPT !.at = "check", !.runtime = truth.runtime, !.content = x]
  BY DEF Read
<1> HIDE DEF x
<1>4. truth.runtime \in Nat
  BY DEF Typed
<1> QED
  BY <1>1, <1>2, <1>3, <1>4 DEF Reader, x

\* A reader that compares the runtime keeps its ticket and its content.
LEMMA CheckShape ==
  ASSUME NEW r \in Reader
  PROVE  /\ Check(r) \in Reader /\ Check(r).at \in {"stamp", "read"} /\ Check(r).ticket = r.ticket
         /\ Check(r).content = r.content /\ Check(r).delivery = r.delivery
BY DEF Check, Reader

\* What a stamp does to the authority, and the message that carries it.
LEMMA StampShape ==
  ASSUME Typed, OfService, NEW r \in Reader, r.content # NoContent,
         Reserved(authority, r.ticket), Stamp(r)
  PROVE  LET new == [epoch |-> r.ticket.epoch, order |-> r.ticket.order, content |-> r.content]
         IN  /\ authority' \in Authority /\ authority'.id = authority.id
             /\ authority'.epoch = authority.epoch /\ authority'.next_order = authority.next_order
             /\ authority'.latest.order = 0 => authority'.latest = None
             /\ Message(r) \in Sent /\ Message(r).id = authority.id
             /\ Message(r).content = r.content /\ Message(r).delivery = r.delivery
             /\ Remembered(authority') \subseteq Remembered(authority) \cup {new}
             /\ Stamped(Message(r)) \in Remembered(authority) \cup {new}
<1> DEFINE new == [epoch |-> r.ticket.epoch, order |-> r.ticket.order, content |-> r.content]
           a == authority
           fresh == [content |-> r.content, order |-> r.ticket.order]
<1>1. /\ a \in Authority /\ a.latest \in Latest /\ a.latest.order \in Nat /\ a.epoch \in Nat
      /\ a.id \in Nat
  BY DEF Typed, Authority, Latest
<1>2. /\ r.ticket.order \in Nat /\ r.ticket.epoch \in Nat /\ r.content \in Content
      /\ r.delivery \in Delivery /\ r.ticket.order # 0
  BY DEF Reader, Reserved
<1>3. fresh \in Latest /\ fresh.order = r.ticket.order /\ fresh.content = r.content
  BY <1>2 DEF Latest
<1>4. StampLatest(r) = a.latest \/ (StampLatest(r) = fresh /\ r.ticket.epoch = a.epoch)
  BY DEF StampLatest
<1>5. StampLatest(r) \in Latest
  BY <1>1, <1>3, <1>4
<1>6. /\ a' \in Authority /\ a'.id = a.id /\ a'.epoch = a.epoch /\ a'.next_order = a.next_order
      /\ a'.latest = StampLatest(r)
  BY <1>1, <1>5 DEF Stamp, Authority
<1>7. a'.latest.order = 0 => a'.latest = None
  BY <1>2, <1>3, <1>4, <1>6 DEF OfService
<1>8. Remembered(a') \subseteq Remembered(a) \cup {new}
  BY <1>3, <1>4, <1>6 DEF Remembered
<1>9. \/ StampOrder(r) = r.ticket.order
      \/ /\ StampOrder(r) = a.latest.order /\ r.ticket.epoch = a.epoch
         /\ a.latest.content = r.content /\ a.latest.order # 0
  <2>1. a.latest.content = r.content => a.latest.order # 0
    BY DEF OfService, None
  <2> QED
    BY <2>1 DEF StampOrder
<1>10. StampOrder(r) \in Nat \ {0}
  BY <1>1, <1>2, <1>9
<1> DEFINE m == Message(r)
<1>11. /\ m.content = r.content /\ m.order = StampOrder(r) /\ m.epoch = r.ticket.epoch
       /\ m.id = a.id /\ m.delivery = r.delivery
  BY DEF Message
<1>12. m \in Sent
  BY <1>1, <1>2, <1>10 DEF Message, Sent
<1> HIDE DEF m
<1>13. Stamped(m) \in Remembered(a) \cup {new}
  <2>1. CASE StampOrder(r) = r.ticket.order
    BY <1>11, <2>1 DEF Stamped
  <2>2. CASE /\ StampOrder(r) = a.latest.order /\ r.ticket.epoch = a.epoch
             /\ a.latest.content = r.content /\ a.latest.order # 0
    BY <1>11, <2>2 DEF Stamped, Remembered
  <2> QED
    BY <1>9, <2>1, <2>2
<1> QED
  BY <1>6, <1>7, <1>8, <1>11, <1>12, <1>13 DEF m

\* A ticket is spent on one content by the reader that gives it up.
LEMMA NewStamp ==
  ASSUME Tickets, OneContent, NEW new,
         authority'.epoch = authority.epoch, authority'.next_order = authority.next_order,
         Stamps' \subseteq Stamps \cup {new},
         \/ /\ Active(loop) /\ ~Active(loop') /\ SameOrder(new, loop.ticket)
            /\ Active(command') => Active(command) /\ command'.ticket = command.ticket
         \/ /\ Active(command) /\ ~Active(command') /\ SameOrder(new, command.ticket)
            /\ Active(loop') => Active(loop) /\ loop'.ticket = loop.ticket
  PROVE  Tickets' /\ OneContent'
<1>1. \A t : Reserved(authority, t) => Reserved(authority', t)
  BY DEF Reserved
<1>2. Reserved(authority, new)
  BY DEF Tickets, Reserved, SameOrder
<1>3. \A x \in Stamps : ~SameOrder(x, new) /\ ~SameOrder(new, x)
  BY DEF OneContent, SameOrder
<1>4. /\ Active(loop') => ~SameOrder(new, loop'.ticket)
      /\ Active(command') => ~SameOrder(new, command'.ticket)
  BY DEF Tickets, SameOrder
<1>5. Tickets'
  BY <1>1 DEF Tickets
<1>6. ASSUME NEW x \in Stamps'
      PROVE  /\ Reserved(authority', x)
             /\ Active(loop') => ~SameOrder(x, loop'.ticket)
             /\ Active(command') => ~SameOrder(x, command'.ticket)
             /\ \A y \in Stamps' : SameOrder(x, y) => x.content = y.content
  BY <1>1, <1>2, <1>3, <1>4, <1>6 DEF OneContent
<1> QED
  BY <1>5, <1>6 DEF OneContent

-----------------------------------------------------------------------------
(* The steps keep the order.                                                *)

\* At the start nothing was stamped.
LEMMA OrderStart ==
  ASSUME MaxChanges \in Nat
  PROVE  SnapshotsInit => OrderInv
<1> SUFFICES ASSUME SnapshotsInit PROVE OrderInv
  OBVIOUS
<1>1. /\ authority = [id |-> 1, epoch |-> 1, next_order |-> 1, latest |-> None]
      /\ feed = NoFeed /\ loop = IdleReader /\ command = IdleReader /\ responses = <<>> /\ wire = <<>>
      /\ client.current = None /\ client.conflict = FALSE
  BY DEF SnapshotsInit, NewAuthority
<1>2. authority \in Authority /\ authority.latest = None /\ authority.latest.order = 0
  BY <1>1, Shapes DEF Authority
<1>3. client \in Session
  BY DEF SnapshotsInit, Session
<1>4. Typed
  <2>1. truth \in [core : Nat, capture : Nat, runtime : Nat] /\ truth.core <= MaxChanges
    BY DEF SnapshotsInit
  <2>2. <<>> \in Seq(Sent)
    OBVIOUS
  <2> QED
    BY <1>1, <1>2, <1>3, <2>1, <2>2, Shapes DEF Typed, SnapshotsInit
<1>5. Stamps = {}
  BY <1>1, <1>2, StampsEmpty DEF Stamps, Kept, Remembered
<1>6. Tickets /\ OneContent
  BY <1>1, <1>5, Shapes DEF Tickets, OneContent
<1>7. OfService
  <2>1. Len(<<>>) = 0
    OBVIOUS
  <2>2. IdleReader.at = "idle"
    BY DEF IdleReader
  <2> QED
    BY <1>1, <1>2, <2>1, <2>2 DEF OfService
<1> QED
  BY <1>1, <1>4, <1>6, <1>7 DEF OrderInv, NoConflict

\* The core, the capture status or the runtime changes.
LEMMA ChangeKeeps ==
  ASSUME OrderInv, ChangeCore \/ ChangeCapture \/ SendReplace, MaxChanges \in Nat
  PROVE  OrderInv'
<1>1. UNCHANGED <<authority, loop, command, responses, wire, client>>
  BY DEF ChangeCore, ChangeCapture, SendReplace
<1>2. Stamps' \subseteq Stamps
  BY <1>1 DEF Stamps
<1>3. Tickets' /\ OneContent'
  BY <1>1, <1>2, NothingNew DEF OrderInv
<1>4. replacing' \in BOOLEAN
  BY DEF ChangeCore, ChangeCapture, SendReplace, OrderInv, Typed
<1>5. truth' \in [core : Nat, capture : Nat, runtime : Nat] /\ truth'.core <= MaxChanges
  BY DEF ChangeCore, ChangeCapture, SendReplace, OrderInv, Typed
<1>6. feed' \in Feed
  <2>1. feed \in Feed /\ feed.captures \in Seq(Nat) /\ truth.capture + 1 \in Nat
    BY DEF OrderInv, Typed, Feed
  <2>2. Append(feed.captures, truth.capture + 1) \in Seq(Nat)
    BY <2>1
  <2> QED
    BY <2>1, <2>2 DEF ChangeCore, ChangeCapture, SendReplace, Feed
<1> QED
  BY <1>1, <1>3, <1>4, <1>5, <1>6 DEF OrderInv, Typed, OfService, NoConflict

\* replace retires the epoch: every ticket and stamp is of an earlier one.
LEMMA RetireKeeps ==
  ASSUME OrderInv, RetireRuntime, MaxChanges \in Nat
  PROVE  OrderInv'
<1>1. UNCHANGED <<truth, feed, loop, command, responses, wire, client>> /\ replacing' = FALSE
  BY DEF RetireRuntime
<1>2. authority \in Authority
  BY DEF OrderInv, Typed
<1>3. /\ authority' \in Authority /\ authority'.id = authority.id
      /\ authority'.epoch = authority.epoch + 1 /\ authority'.latest = None
  <2>1. authority' = [id |-> authority.id, epoch |-> authority.epoch + 1, next_order |-> 1,
                      latest |-> None]
    BY DEF RetireRuntime, NewAuthority
  <2> QED
    BY <1>2, <2>1, Shapes DEF Authority
<1>4. \A t : t.epoch \in Nat /\ Reserved(authority, t) => Reserved(authority', t)
  BY <1>2, <1>3 DEF Reserved, Authority
<1>5. Stamps' \subseteq Stamps
  BY <1>1, <1>3, Shapes DEF Stamps, Remembered
<1>6. loop.ticket.epoch \in Nat /\ command.ticket.epoch \in Nat
  BY DEF OrderInv, Typed, Reader
<1>7. \A x \in Stamps : x.epoch \in Nat
  <2>1. \A q \in Seq(Sent) : \A i \in 1 .. Len(q) : Stamped(q[i]).epoch \in Nat
    <3>1. \A m \in Sent : Stamped(m).epoch \in Nat
      BY DEF Sent, Stamped
    <3> QED
      BY <3>1, ElementOfSeq
  <2>2. client.current # None => Stamped(client.current).epoch \in Nat
    BY DEF OrderInv, Typed, Session, Shown, Stamped
  <2>3. authority.epoch \in Nat
    BY <1>2 DEF Authority
  <2> QED
    BY <2>1, <2>2, <2>3 DEF Stamps, StampsOf, Kept, Remembered, OrderInv, Typed
<1>8. Tickets'
  BY <1>1, <1>4, <1>6 DEF OrderInv, Tickets
<1>9. OneContent'
  BY <1>1, <1>4, <1>5, <1>7 DEF OrderInv, OneContent
<1> QED
  BY <1>1, <1>3, <1>8, <1>9, Shapes DEF OrderInv, Typed, OfService, NoConflict

\* The loop begins a read, or has nobody to read for.
LEMMA LoopBeginKeeps ==
  ASSUME OrderInv, MaxChanges \in Nat, OnRuntimeChanged \/ OnSubscribe \/ OnStatus \/ OnCapture
  PROVE  OrderInv'
<1>1. UNCHANGED <<truth, replacing, command, responses, wire>>
  BY DEF OnRuntimeChanged, OnSubscribe, OnStatus, OnCapture, Keep
<1>2. /\ client' \in Session /\ client'.current = client.current
      /\ client'.conflict = client.conflict
  BY DEF OnRuntimeChanged, OnSubscribe, OnStatus, OnCapture, OrderInv, Typed, Session
<1>3. feed' \in Feed
  <2>1. feed \in Feed /\ feed.captures \in Seq(Nat)
    BY DEF OrderInv, Typed, Feed
  <2>2. feed.captures # <<>> => Tail(feed.captures) \in Seq(Nat)
    BY <2>1, HeadTailProperties
  <2> QED
    BY <2>1, <2>2, Shapes DEF OnRuntimeChanged, OnSubscribe, OnStatus, OnCapture, Feed
<1>4. CASE UNCHANGED <<authority, loop>>
  <2>1. Stamps' \subseteq Stamps
    BY <1>1, <1>2, <1>4 DEF Stamps
  <2>2. Tickets' /\ OneContent'
    BY <1>1, <1>4, <2>1, NothingNew DEF OrderInv
  <2> QED
    BY <1>1, <1>2, <1>3, <1>4, <2>2 DEF OrderInv, Typed, OfService, NoConflict
<1>5. ASSUME NEW d \in {"update", "baseline"}, NEW v \in BOOLEAN, NEW c \in Nat, Reserve,
             loop' = Begun(d, v, c)
      PROVE  OrderInv'
  <2>1. /\ loop' \in Reader /\ loop'.at = "read" /\ loop'.ticket = Ticket
    BY <1>5, BegunShape DEF OrderInv, Delivery
  <2>2. /\ authority' \in Authority /\ authority'.id = authority.id
        /\ authority'.latest = authority.latest /\ authority'.epoch = authority.epoch
    BY <1>5 DEF Reserve, OrderInv, Typed, Authority
  <2>3. Stamps' \subseteq Stamps
    BY <1>1, <1>2, <2>2 DEF Stamps, Remembered
  <2>4. Tickets' /\ OneContent'
    BY <1>1, <1>5, <2>1, <2>3, ReserveKeeps DEF OrderInv
  <2> QED
    BY <1>1, <1>2, <1>3, <2>1, <2>2, <2>4 DEF OrderInv, Typed, OfService, NoConflict
<1>6. CASE OnCapture
  <2>1. Head(feed.captures) \in Nat
    <3>1. feed.captures \in Seq(Nat) /\ feed.captures # <<>>
      BY <1>6 DEF OrderInv, Typed, Feed, OnCapture
    <3> QED
      BY <3>1, HeadTailProperties
  <2> QED
    BY <1>5, <1>6, <2>1 DEF OnCapture
<1> QED
  BY <1>4, <1>5, <1>6 DEF OnRuntimeChanged, OnSubscribe, OnStatus

\* A command begins a read.
LEMMA CommandBeginKeeps ==
  ASSUME OrderInv, MaxChanges \in Nat, CommandBegin
  PROVE  OrderInv'
<1>1. UNCHANGED <<truth, replacing, feed, loop, responses, wire, client>>
  BY DEF CommandBegin, Keep
<1>2. /\ command' \in Reader /\ command'.at = "read" /\ command'.ticket = Ticket
  BY BegunShape DEF CommandBegin, OrderInv, Delivery
<1>3. /\ authority' \in Authority /\ authority'.id = authority.id
      /\ authority'.latest = authority.latest /\ authority'.epoch = authority.epoch
  BY DEF CommandBegin, Reserve, OrderInv, Typed, Authority
<1>4. Stamps' \subseteq Stamps
  BY <1>1, <1>3 DEF Stamps, Remembered
<1>5. Tickets' /\ OneContent'
  BY <1>1, <1>2, <1>4, ReserveKeeps DEF CommandBegin, OrderInv
<1> QED
  BY <1>1, <1>2, <1>3, <1>5 DEF OrderInv, Typed, OfService, NoConflict

\* A read under way: the content, then the comparison of the runtime.
LEMMA ReadKeeps ==
  ASSUME OrderInv, MaxChanges \in Nat, LoopRead \/ LoopCheck \/ CommandRead \/ CommandCheck
  PROVE  OrderInv'
<1>1. UNCHANGED <<truth, replacing, feed, responses, wire, client>>
  BY DEF LoopRead, LoopCheck, CommandRead, CommandCheck, Keep
<1>2. loop \in Reader /\ command \in Reader
  BY DEF OrderInv, Typed
<1>3. ASSUME UNCHANGED <<authority, command>>, loop' \in Reader, Active(loop),
             loop'.ticket = loop.ticket,
             loop'.at \in {"check", "stamp"} => loop'.content # NoContent
      PROVE  OrderInv'
  <2>1. Stamps' \subseteq Stamps
    BY <1>1, <1>3 DEF Stamps
  <2>2. Tickets' /\ OneContent'
    BY <1>3, <2>1, NothingNew DEF OrderInv
  <2> QED
    BY <1>1, <1>3, <2>2 DEF OrderInv, Typed, OfService, NoConflict
<1>4. ASSUME UNCHANGED <<authority, loop>>, command' \in Reader, Active(command),
             command'.ticket = command.ticket,
             command'.at \in {"check", "stamp"} => command'.content # NoContent
      PROVE  OrderInv'
  <2>1. Stamps' \subseteq Stamps
    BY <1>1, <1>4 DEF Stamps
  <2>2. Tickets' /\ OneContent'
    BY <1>4, <2>1, NothingNew DEF OrderInv
  <2> QED
    BY <1>1, <1>4, <2>2 DEF OrderInv, Typed, OfService, NoConflict
<1>5. CASE LoopRead
  BY <1>2, <1>3, <1>5, ReadShape DEF LoopRead, Active, OrderInv
<1>6. CASE CommandRead
  BY <1>2, <1>4, <1>6, ReadShape DEF CommandRead, Active, OrderInv
<1>7. CASE CommandCheck
  BY <1>2, <1>4, <1>7, CheckShape DEF CommandCheck, Active, OrderInv, OfService
<1>8. CASE LoopCheck
  <2>1. UNCHANGED command
    BY <1>8 DEF LoopCheck
  <2>2. CASE loop' = Check(loop) /\ UNCHANGED authority
    BY <1>2, <1>3, <1>8, <2>1, <2>2, CheckShape DEF LoopCheck, Active, OrderInv, OfService
  <2>3. CASE Reserve /\ loop' = Begun(loop.delivery, FALSE, 0)
    <3>1. loop.delivery \in Delivery
      BY <1>2 DEF Reader
    <3>2. /\ loop' \in Reader /\ loop'.at = "read" /\ loop'.ticket = Ticket
      BY <2>3, <3>1, BegunShape DEF OrderInv
    <3>3. /\ authority' \in Authority /\ authority'.id = authority.id
          /\ authority'.latest = authority.latest /\ authority'.epoch = authority.epoch
      BY <2>3 DEF Reserve, OrderInv, Typed, Authority
    <3>4. Stamps' \subseteq Stamps
      BY <1>1, <3>3 DEF Stamps, Remembered
    <3>5. Tickets' /\ OneContent'
      BY <2>1, <2>3, <3>2, <3>4, ReserveKeeps DEF OrderInv
    <3> QED
      BY <1>1, <2>1, <3>2, <3>3, <3>5 DEF OrderInv, Typed, OfService, NoConflict
  <2> QED
    BY <1>8, <2>2, <2>3 DEF LoopCheck
<1> QED
  BY <1>5, <1>6, <1>7, <1>8

\* A read is stamped and sent, by the loop or by the command.
LEMMA StampKeeps ==
  ASSUME OrderInv, MaxChanges \in Nat, LoopStamp \/ CommandStamp
  PROVE  OrderInv'
<1>1. UNCHANGED <<truth, replacing, feed, client>>
  BY DEF LoopStamp, CommandStamp, Keep
<1>2. loop \in Reader /\ command \in Reader /\ wire \in Seq(Sent) /\ responses \in Seq(Sent)
  BY DEF OrderInv, Typed
<1>3. CASE LoopStamp
  <2> DEFINE new == [epoch |-> loop.ticket.epoch, order |-> loop.ticket.order, content |-> loop.content]
             m == Message(loop)
  <2>1. /\ loop.at = "stamp" /\ Stamp(loop) /\ loop' = IdleReader /\ wire' = Append(wire, m)
        /\ UNCHANGED <<command, responses>>
    BY <1>3 DEF LoopStamp
  <2>2. Active(loop) /\ Reserved(authority, loop.ticket) /\ loop.content # NoContent
    BY <2>1 DEF Active, OrderInv, Tickets, OfService
  <2>3. /\ authority' \in Authority /\ authority'.id = authority.id
        /\ authority'.epoch = authority.epoch /\ authority'.next_order = authority.next_order
        /\ authority'.latest.order = 0 => authority'.latest = None
        /\ m \in Sent /\ m.id = authority.id
        /\ Remembered(authority') \subseteq Remembered(authority) \cup {new}
        /\ Stamped(m) \in Remembered(authority) \cup {new}
    BY <1>2, <2>1, <2>2, StampShape DEF OrderInv
  <2> HIDE DEF m, new
  <2>4. /\ wire' \in Seq(Sent) /\ StampsOf(wire') \subseteq StampsOf(wire) \cup {Stamped(m)}
        /\ \A i \in 1 .. Len(wire') : wire'[i].id = authority.id
    BY <1>2, <2>1, <2>3, StampsAppend DEF OrderInv, OfService
  <2>5. Stamps' \subseteq Stamps \cup {new}
    BY <1>1, <2>1, <2>3, <2>4 DEF Stamps
  <2>6. SameOrder(new, loop.ticket) /\ ~Active(loop')
    BY <2>1, Shapes DEF new, SameOrder
  <2>7. Tickets' /\ OneContent'
    BY <2>1, <2>2, <2>3, <2>5, <2>6, NewStamp DEF OrderInv
  <2>8. IdleReader.at = "idle"
    BY DEF IdleReader
  <2> QED
    BY <1>1, <2>1, <2>3, <2>4, <2>7, <2>8, Shapes DEF OrderInv, Typed, OfService, NoConflict
<1>4. CASE CommandStamp
  <2> DEFINE new == [epoch |-> command.ticket.epoch, order |-> command.ticket.order,
                     content |-> command.content]
             m == Message(command)
             done == [IdleReader EXCEPT !.at = "done"]
  <2>1. /\ command.at = "stamp" /\ Stamp(command) /\ command' = done
        /\ responses' = responses \/ responses' = Append(responses, m)
        /\ UNCHANGED <<loop, wire>>
    BY <1>4 DEF CommandStamp
  <2>2. Active(command) /\ Reserved(authority, command.ticket) /\ command.content # NoContent
    BY <2>1 DEF Active, OrderInv, Tickets, OfService
  <2>3. /\ authority' \in Authority /\ authority'.id = authority.id
        /\ authority'.epoch = authority.epoch /\ authority'.next_order = authority.next_order
        /\ authority'.latest.order = 0 => authority'.latest = None
        /\ m \in Sent /\ m.id = authority.id
        /\ Remembered(authority') \subseteq Remembered(authority) \cup {new}
        /\ Stamped(m) \in Remembered(authority) \cup {new}
    BY <1>2, <2>1, <2>2, StampShape DEF OrderInv
  <2>4. done \in Reader /\ done.at = "done"
    BY Shapes DEF Reader
  <2> HIDE DEF m, new, done
  <2>5. /\ responses' \in Seq(Sent)
        /\ StampsOf(responses') \subseteq StampsOf(responses) \cup {Stamped(m)}
        /\ \A i \in 1 .. Len(responses') : responses'[i].id = authority.id
    <3>1. CASE responses' = responses
      BY <1>2, <3>1 DEF OrderInv, OfService
    <3>2. CASE responses' = Append(responses, m)
      BY <1>2, <2>3, <3>2, StampsAppend DEF OrderInv, OfService
    <3> QED
      BY <2>1, <3>1, <3>2
  <2>6. Stamps' \subseteq Stamps \cup {new}
    BY <1>1, <2>1, <2>3, <2>5 DEF Stamps
  <2>7. SameOrder(new, command.ticket) /\ ~Active(command')
    BY <2>1, <2>4 DEF new, SameOrder, Active
  <2>8. Tickets' /\ OneContent'
    BY <2>1, <2>2, <2>3, <2>6, <2>7, NewStamp DEF OrderInv
  <2> QED
    BY <1>1, <2>1, <2>3, <2>4, <2>5, <2>8 DEF OrderInv, Typed, OfService, NoConflict
<1> QED
  BY <1>3, <1>4

\* A command's result moves to the wire.
LEMMA ResponseKeeps ==
  ASSUME OrderInv, OnResponse
  PROVE  OrderInv'
<1>1. /\ UNCHANGED <<truth, replacing, authority, feed, loop, command, client>>
      /\ responses # <<>> /\ wire' = Append(wire, Head(responses)) /\ responses' = Tail(responses)
  BY DEF OnResponse, Keep
<1>2. wire \in Seq(Sent) /\ responses \in Seq(Sent)
  BY DEF OrderInv, Typed
<1>3. /\ responses' \in Seq(Sent) /\ Head(responses) \in Sent /\ Head(responses).id = authority.id
      /\ StampsOf(responses') \subseteq StampsOf(responses)
      /\ Stamped(Head(responses)) \in StampsOf(responses)
      /\ \A i \in 1 .. Len(responses') : responses'[i].id = authority.id
  BY <1>1, <1>2, StampsTail DEF OrderInv, OfService
<1>4. /\ wire' \in Seq(Sent) /\ StampsOf(wire') \subseteq StampsOf(wire) \cup {Stamped(Head(responses))}
      /\ \A i \in 1 .. Len(wire') : wire'[i].id = authority.id
  BY <1>1, <1>2, <1>3, StampsAppend DEF OrderInv, OfService
<1>5. Stamps' \subseteq Stamps
  BY <1>1, <1>3, <1>4 DEF Stamps
<1>6. Tickets' /\ OneContent'
  BY <1>1, <1>5, NothingNew DEF OrderInv
<1> QED
  BY <1>1, <1>3, <1>4, <1>6 DEF OrderInv, Typed, OfService, NoConflict

\* What the client does with the next message: it keeps what it shows, or shows
\* the message, which is then newer or of a service started later.
LEMMA DeliverShape ==
  ASSUME OrderInv, Deliver, MaxChanges \in Nat
  PROVE  LET m == Head(wire)
             c == client.current
         IN  /\ client' \in Session /\ ~client'.conflict
             /\ client'.connected = client.connected /\ client'.subscribed = client.subscribed
             /\ \/ client'.current = c
                \/ /\ client'.current \in Shown /\ client'.current # None
                   /\ client'.current.id = authority.id /\ Stamped(client'.current) = Stamped(m)
                   /\ Verdict(m) = "accepted"
                   /\ c # None => \/ client'.current.id = c.id /\ Newer(client'.current, c)
                                  \/ client'.current.id > c.id
<1> DEFINE m == Head(wire)
           c == client.current
           shown == [content |-> m.content, order |-> m.order, epoch |-> m.epoch, id |-> m.id]
           d == client'.current
<1>1. wire # <<>> /\ wire \in Seq(Sent) /\ client \in Session
  BY DEF Deliver, OrderInv, Typed
<1>2. m \in Sent /\ m.id = authority.id /\ Stamped(m) \in StampsOf(wire)
  BY <1>1, StampsTail DEF OrderInv, OfService
<1>3. c \in Shown \cup {None} /\ client.conflict = FALSE /\ authority.id \in Nat
  BY <1>1 DEF Session, OrderInv, NoConflict, Typed, Authority
<1>4. client' = [client EXCEPT
          !.current = IF Verdict(m) = "accepted" THEN shown ELSE c,
          !.baselinePending = client.baselinePending /\ ~(Verdict(m) \in {"accepted", "duplicate"}),
          !.reconnectPending = client.reconnectPending /\ ~(Verdict(m) \in {"accepted", "duplicate"}),
          !.conflict = client.conflict \/ Verdict(m) = "conflict"]
  BY DEF Deliver
<1>5. shown \in Shown /\ shown.order # 0 /\ shown.id = m.id /\ Stamped(shown) = Stamped(m)
      /\ shown.epoch = m.epoch /\ shown.order = m.order
  BY <1>2 DEF Sent, Shown, Stamped
<1>6. shown # None
  BY <1>5, Shapes
<1>7. Verdict(m) # "conflict"
  <2> SUFFICES ASSUME Verdict(m) = "conflict" PROVE FALSE
    OBVIOUS
  <2>1. c # None /\ m.id = c.id /\ Same(m, c) /\ m.content # c.content
    BY DEF Verdict
  <2>2. Stamped(c) \in Stamps /\ Stamped(m) \in Stamps
    BY <1>2, <2>1 DEF Stamps, Kept
  <2>3. SameOrder(Stamped(m), Stamped(c)) /\ Stamped(m).content # Stamped(c).content
    BY <2>1 DEF Stamped, SameOrder, Same
  <2> QED
    BY <2>2, <2>3 DEF OrderInv, OneContent
<1>8. Verdict(m) = "accepted" /\ c # None => (m.id = c.id /\ Newer(m, c)) \/ m.id # c.id
  BY DEF Verdict
<1>9. c # None => c.id \in Nat /\ c.id <= authority.id
  BY <1>3 DEF Shown, OrderInv, OfService
<1> HIDE DEF m, c, shown
<1>10. /\ client' \in Session /\ ~client'.conflict
       /\ client'.connected = client.connected /\ client'.subscribed = client.subscribed
       /\ d = IF Verdict(m) = "accepted" THEN shown ELSE c
  <2> DEFINE p == client.baselinePending /\ ~(Verdict(m) \in {"accepted", "duplicate"})
             q == client.reconnectPending /\ ~(Verdict(m) \in {"accepted", "duplicate"})
             x == IF Verdict(m) = "accepted" THEN shown ELSE c
  <2>1. p \in BOOLEAN /\ q \in BOOLEAN /\ x \in Shown \cup {None}
    BY <1>3, <1>5
  <2>2. (client.conflict \/ Verdict(m) = "conflict") = FALSE
    BY <1>3, <1>7
  <2>3. client' = [client EXCEPT !.current = x, !.baselinePending = p, !.reconnectPending = q,
                                 !.conflict = FALSE]
    BY <1>4, <2>2
  <2> HIDE DEF p, q, x
  <2>4. /\ client' \in Session /\ ~client'.conflict /\ d = x
        /\ client'.connected = client.connected /\ client'.subscribed = client.subscribed
    BY <1>1, <2>1, <2>3 DEF Session
  <2> QED
    BY <2>4 DEF x
<1>11. Newer(m, c) => Newer(shown, c)
  BY <1>5 DEF Newer
<1>12. CASE Verdict(m) = "accepted"
  <2>1. d = shown
    BY <1>10, <1>12
  <2>2. c # None => (shown.id = c.id /\ Newer(shown, c)) \/ shown.id > c.id
    BY <1>2, <1>3, <1>5, <1>8, <1>9, <1>11, <1>12
  <2> QED
    BY <1>2, <1>5, <1>6, <1>10, <1>12, <2>1, <2>2 DEF m, c
<1>13. CASE Verdict(m) # "accepted"
  BY <1>10, <1>13 DEF m, c
<1> QED
  BY <1>12, <1>13

\* The client takes the next message.
LEMMA DeliverKeeps ==
  ASSUME OrderInv, Deliver, MaxChanges \in Nat
  PROVE  OrderInv'
<1>1. /\ UNCHANGED <<truth, replacing, authority, feed, loop, command, responses>>
      /\ wire # <<>> /\ wire' = Tail(wire) /\ wire \in Seq(Sent)
  BY DEF Deliver, Keep, OrderInv, Typed
<1>2. /\ wire' \in Seq(Sent) /\ StampsOf(wire') \subseteq StampsOf(wire)
      /\ Stamped(Head(wire)) \in StampsOf(wire)
      /\ \A i \in 1 .. Len(wire') : wire'[i].id = authority.id
  BY <1>1, StampsTail DEF OrderInv, OfService
<1>3. /\ client' \in Session /\ ~client'.conflict
      /\ \/ client'.current = client.current
         \/ /\ client'.current.id = authority.id /\ client'.current # None
            /\ Stamped(client'.current) = Stamped(Head(wire))
  BY DeliverShape
<1>4. Kept(client'.current, authority.id) \subseteq Kept(client.current, authority.id) \cup StampsOf(wire)
  BY <1>2, <1>3 DEF Kept
<1>5. Stamps' \subseteq Stamps
  BY <1>1, <1>2, <1>4 DEF Stamps
<1>6. Tickets' /\ OneContent'
  BY <1>1, <1>5, NothingNew DEF OrderInv
<1>7. client'.current # None => client'.current.id <= authority.id
  BY <1>3 DEF OrderInv, OfService, Typed, Authority
<1> QED
  BY <1>1, <1>2, <1>3, <1>6, <1>7 DEF OrderInv, Typed, OfService, NoConflict

\* The connection is lost, alone or with the service, and comes back.
LEMMA GoneKeeps ==
  ASSUME OrderInv, Cut \/ Restart \/ Reconnect, MaxChanges \in Nat
  PROVE  OrderInv'
<1>1. /\ client' \in Session /\ client'.current = client.current
      /\ client'.conflict = client.conflict /\ UNCHANGED truth
  <2> DEFINE back == client.current # None
  <2>1. back \in BOOLEAN /\ client \in Session
    BY DEF OrderInv, Typed
  <2>2. \/ client' = [client EXCEPT !.connected = FALSE, !.subscribed = FALSE, !.baselinePending = TRUE,
                                    !.reconnectPending = back, !.cuts = client.cuts + 1]
        \/ client' = [client EXCEPT !.connected = TRUE, !.baselinePending = TRUE,
                                    !.reconnectPending = back]
    BY DEF Cut, Restart, Gone, Reconnect
  <2> HIDE DEF back
  <2>3. client' \in Session /\ client'.current = client.current /\ client'.conflict = client.conflict
    <3>1. client.cuts + 1 \in Nat
      BY <2>1 DEF Session
    <3>2. CASE client' = [client EXCEPT !.connected = FALSE, !.subscribed = FALSE,
                            !.baselinePending = TRUE, !.reconnectPending = back,
                            !.cuts = client.cuts + 1]
      BY <2>1, <3>1, <3>2 DEF Session
    <3>3. CASE client' = [client EXCEPT !.connected = TRUE, !.baselinePending = TRUE,
                            !.reconnectPending = back]
      BY <2>1, <3>3 DEF Session
    <3> QED
      BY <2>2, <3>2, <3>3
  <2> QED
    BY <2>3 DEF Cut, Restart, Reconnect, Keep
<1>2. <<>> \in Seq(Sent) /\ Len(<<>>) = 0 /\ IdleReader.at = "idle"
  BY DEF IdleReader
<1>3. CASE Cut
  <2>1. /\ UNCHANGED <<replacing, authority>> /\ wire' = <<>> /\ responses' = <<>>
        /\ feed' = NoFeed /\ loop' = IdleReader /\ command' = Lost(command)
    BY <1>3 DEF Cut, Gone, Keep
  <2>2. /\ command' \in Reader /\ command'.at = command.at /\ command'.ticket = command.ticket
        /\ command'.content = command.content
    BY <2>1 DEF Lost, OrderInv, Typed, Reader, Delivery
  <2>3. Stamps' \subseteq Stamps
    BY <1>1, <2>1, StampsEmpty DEF Stamps
  <2>4. Tickets' /\ OneContent'
    BY <2>1, <2>2, <2>3, Shapes, NothingNew DEF OrderInv, Active
  <2> QED
    BY <1>1, <1>2, <2>1, <2>2, <2>4, Shapes DEF OrderInv, Typed, OfService, NoConflict
<1>4. CASE Restart
  <2>1. /\ replacing' = FALSE /\ wire' = <<>> /\ responses' = <<>>
        /\ feed' = NoFeed /\ loop' = IdleReader /\ command' = IdleReader
        /\ authority' = [id |-> authority.id + 1, epoch |-> 1, next_order |-> 1, latest |-> None]
    BY <1>4 DEF Restart, Gone, NewAuthority
  <2>2. authority.id \in Nat
    BY DEF OrderInv, Typed, Authority
  <2>3. authority' \in Authority /\ authority'.id = authority.id + 1 /\ authority'.latest = None
    BY <2>1, <2>2, Shapes DEF Authority
  <2>4. client.current # None => client.current.id \in Nat /\ client.current.id <= authority.id
    BY DEF OrderInv, OfService, Typed, Session, Shown
  <2>5. Kept(client'.current, authority'.id) = {}
    BY <1>1, <2>2, <2>3, <2>4 DEF Kept
  <2>6. Stamps' = {}
    BY <2>1, <2>3, <2>5, StampsEmpty, Shapes DEF Stamps, Remembered
  <2>7. Tickets' /\ OneContent'
    BY <2>1, <2>6, Shapes DEF Tickets, OneContent
  <2> QED
    <3>1. Typed'
      BY <1>1, <1>2, <2>1, <2>3, Shapes DEF OrderInv, Typed
    <3>2. client'.current # None => client'.current.id <= authority'.id
      BY <1>1, <2>2, <2>3, <2>4
    <3>3. OfService'
      BY <1>2, <2>1, <2>3, <3>2 DEF OfService
    <3> QED
      BY <1>1, <2>7, <3>1, <3>3 DEF OrderInv, NoConflict
<1>5. CASE Reconnect
  <2>1. UNCHANGED <<replacing, authority, feed, loop, command, responses, wire>>
    BY <1>5 DEF Reconnect, Keep
  <2>2. Stamps' \subseteq Stamps
    BY <1>1, <2>1 DEF Stamps
  <2>3. Tickets' /\ OneContent'
    BY <2>1, <2>2, NothingNew DEF OrderInv
  <2> QED
    BY <1>1, <2>1, <2>3 DEF OrderInv, Typed, OfService, NoConflict
<1> QED
  BY <1>3, <1>4, <1>5

\* Every step keeps the order.
LEMMA OrderStep ==
  ASSUME MaxChanges \in Nat
  PROVE  OrderInv /\ [SnapshotsNext]_svars => OrderInv'
<1> SUFFICES ASSUME OrderInv, [SnapshotsNext]_svars PROVE OrderInv'
  OBVIOUS
<1>1. CASE UNCHANGED svars
  <2>1. Stamps' \subseteq Stamps
    BY <1>1 DEF Stamps, svars
  <2>2. Tickets' /\ OneContent'
    BY <1>1, <2>1, NothingNew DEF OrderInv, svars
  <2> QED
    BY <1>1, <2>2 DEF svars, OrderInv, Typed, OfService, NoConflict
<1>2. CASE SnapshotsNext
  BY <1>2, ChangeKeeps, RetireKeeps, LoopBeginKeeps, CommandBeginKeeps, ReadKeeps, StampKeeps,
     ResponseKeeps, DeliverKeeps, GoneKeeps DEF SnapshotsNext
<1> QED
  BY <1>1, <1>2

\* What the client shows changes only when it takes a message.
LEMMA ReopenStep ==
  ASSUME MaxChanges \in Nat, OrderInv, [SnapshotsNext]_svars,
         client.current # None, client'.current # client.current
  PROVE  \/ Newer(client'.current, client.current) /\ client'.current.id = client.current.id
         \/ client'.current.id > client.current.id
<1>1. CASE Deliver
  BY <1>1, DeliverShape
<1>2. CASE ~Deliver
  <2>1. client'.current = client.current
    BY <1>2 DEF SnapshotsNext, svars, ChangeCore, ChangeCapture, SendReplace, RetireRuntime,
       OnRuntimeChanged, OnSubscribe, OnResponse, OnStatus, OnCapture, LoopRead, LoopCheck, LoopStamp,
       CommandBegin, CommandRead, CommandCheck, CommandStamp, Cut, Restart, Gone, Reconnect,
       OrderInv, Typed, Session
  <2> QED
    BY <2>1
<1> QED
  BY <1>1, <1>2

-----------------------------------------------------------------------------
(* The loop alone.                                                          *)

\* x is not after y.
AtMost(x, y) == x.epoch < y.epoch \/ (x.epoch = y.epoch /\ x.order <= y.order)

\* No command runs, and only a subscribed socket is read for or sent to.
LoopOnly ==
  /\ command.at = "idle" /\ responses = <<>> /\ loop.at # "done"
  /\ ~client.connected => ~client.subscribed
  /\ ~client.subscribed => loop.at = "idle" /\ wire = <<>> /\ client.baselinePending

\* A stamp is not after the latest of its epoch, or the ticket of a read under way.
Sends(a, l, x) ==
  /\ x.epoch = a.epoch => x.order <= a.latest.order
  /\ Active(l) => AtMost(x, l.ticket)

\* Stamps are sent in their order.
InOrder ==
  /\ \A i \in 1 .. Len(wire) : Sends(authority, loop, wire[i])
  /\ \A i \in 1 .. Len(wire) : \A j \in 1 .. i : AtMost(wire[j], wire[i])
  /\ client.current # None /\ client.current.id = authority.id =>
       /\ Sends(authority, loop, client.current)
       /\ \A i \in 1 .. Len(wire) : AtMost(client.current, wire[i])
  /\ Active(loop) /\ loop.ticket.epoch = authority.epoch => authority.latest.order <= loop.ticket.order

\* A client that waits for a baseline gets one first; one that does not wait
\* shows a snapshot of this service.
Baseline ==
  /\ client.subscribed /\ client.baselinePending =>
       /\ wire = <<>> => Active(loop) /\ loop.delivery = "baseline"
       /\ wire # <<>> => wire[1].delivery = "baseline"
  /\ ~client.baselinePending => client.current # None /\ client.current.id = authority.id

\* What differs from the truth was announced and is not handled yet.
Fresh(f, t, x) ==
  /\ f.status \/ x.core = t.core
  /\ f.runtime \/ x.runtime = t.runtime
  /\ f.captures # <<>> \/ x.capture = t.capture
LastSent(w, c) == IF w = <<>> THEN c ELSE w[Len(w)]
UpToDate ==
  /\ feed.captures # <<>> => feed.captures[Len(feed.captures)] = truth.capture
  /\ loop.at = "read" /\ loop.valued /\ feed.captures = <<>> => loop.capture = truth.capture
  /\ loop.at \in {"check", "stamp"} => Fresh(feed, truth, loop.content)
  /\ client.subscribed /\ loop.at = "idle" => Fresh(feed, truth, LastSent(wire, client.current).content)

LoopInv == LoopOnly /\ InOrder /\ Baseline /\ UpToDate
LoopAlone == ~client.commands => LoopInv

\* The last element of a sequence and of its tail.
LEMMA LastOf ==
  ASSUME NEW S, NEW s \in Seq(S)
  PROVE  /\ s # <<>> /\ Tail(s) = <<>> => Head(s) = s[Len(s)]
         /\ s # <<>> /\ Tail(s) # <<>> => Tail(s)[Len(Tail(s))] = s[Len(s)]
<1>2. ASSUME s # <<>>
      PROVE  /\ Tail(s) \in Seq(S) /\ Len(s) \in Nat /\ Len(Tail(s)) = Len(s) - 1 /\ Head(s) = s[1]
             /\ Len(s) # 0 /\ \A i \in 1 .. Len(Tail(s)) : Tail(s)[i] = s[i + 1]
  BY <1>2, HeadTailProperties, EmptySeq, LenProperties
<1>3. ASSUME s # <<>>, Tail(s) = <<>>
      PROVE  Head(s) = s[Len(s)]
  <2>1. Len(Tail(s)) = 0
    BY <1>2, <1>3, EmptySeq
  <2> QED
    BY <1>2, <1>3, <2>1
<1>4. ASSUME s # <<>>, Tail(s) # <<>>
      PROVE  Tail(s)[Len(Tail(s))] = s[Len(s)]
  <2>1. Len(Tail(s)) # 0
    BY <1>2, <1>4, EmptySeq
  <2>2. Len(Tail(s)) \in 1 .. Len(Tail(s)) /\ Len(Tail(s)) + 1 = Len(s)
    BY <1>2, <1>4, <2>1
  <2> QED
    BY <1>2, <1>4, <2>2
<1> QED
  BY <1>3, <1>4

\* What was sent was reserved from the running service.
LEMMA SentReserved ==
  ASSUME OrderInv
  PROVE  /\ \A i \in 1 .. Len(wire) :
              wire[i] \in Sent /\ wire[i].epoch \in Nat /\ wire[i].order \in Nat
                /\ Reserved(authority, wire[i])
         /\ client.current # None =>
              client.current \in Shown /\ client.current.epoch \in Nat /\ client.current.order \in Nat
         /\ client.current # None /\ client.current.id = authority.id =>
              Reserved(authority, client.current)
         /\ authority.epoch \in Nat /\ authority.next_order \in Nat /\ authority.latest.order \in Nat
         /\ authority.latest.order < authority.next_order
<1>1. \A x : Reserved(authority, Stamped(x)) => Reserved(authority, x)
  BY DEF Reserved, Stamped
<1>2. ASSUME NEW i \in 1 .. Len(wire)
      PROVE  wire[i] \in Sent /\ Reserved(authority, wire[i])
  <2>1. Stamped(wire[i]) \in Stamps
    BY DEF Stamps, StampsOf
  <2>2. wire \in Seq(Sent)
    BY DEF OrderInv, Typed
  <2> QED
    BY <1>1, <2>1, <2>2, ElementOfSeq DEF OrderInv, OneContent
<1>3. client.current # None /\ client.current.id = authority.id => Reserved(authority, client.current)
  BY <1>1 DEF OrderInv, OneContent, Stamps, Kept
<1>4. client.current # None => client.current \in Shown
  BY DEF OrderInv, Typed, Session
<1>5. /\ authority.epoch \in Nat /\ authority.next_order \in Nat /\ authority.latest.order \in Nat
      /\ authority.next_order # 0
  BY DEF OrderInv, Typed, Authority, Latest
<1>6. authority.latest.order < authority.next_order
  <2> DEFINE x == [epoch |-> authority.epoch, order |-> authority.latest.order,
                   content |-> authority.latest.content]
  <2>1. CASE authority.latest.order # 0
    <3>1. x \in Stamps
      BY <2>1 DEF Stamps, Remembered
    <3>2. Reserved(authority, x)
      BY <3>1 DEF OrderInv, OneContent
    <3> QED
      BY <3>2 DEF Reserved
  <2> QED
    BY <1>5, <2>1
<1>7. \A m \in Sent : m.epoch \in Nat /\ m.order \in Nat
  BY DEF Sent
<1>8. \A m \in Shown : m.epoch \in Nat /\ m.order \in Nat
  BY DEF Shown
<1> QED
  BY <1>2, <1>3, <1>4, <1>5, <1>6, <1>7, <1>8

\* A step that sends nothing, and after which the stamps sent are still in order.
LEMMA OrderKept ==
  ASSUME InOrder, wire' = wire, client'.current = client.current, authority'.id = authority.id,
         \A i \in 1 .. Len(wire) :
           Sends(authority, loop, wire[i]) => Sends(authority', loop', wire[i]),
         client.current # None /\ client.current.id = authority.id
           /\ Sends(authority, loop, client.current) => Sends(authority', loop', client.current),
         Active(loop') /\ loop'.ticket.epoch = authority'.epoch
           => authority'.latest.order <= loop'.ticket.order
  PROVE  InOrder'
BY DEF InOrder

\* A read that begins takes an order after everything sent.
LEMMA BeginsAfter ==
  ASSUME OrderInv, InOrder, Reserve, loop'.ticket = Ticket, wire' = wire,
         client'.current = client.current
  PROVE  InOrder'
<1>1. /\ authority'.id = authority.id /\ authority'.epoch = authority.epoch
      /\ authority'.latest = authority.latest
  BY DEF Reserve, OrderInv, Typed, Authority
<1>2. Ticket.epoch = authority.epoch /\ Ticket.order = authority.next_order
  BY DEF Ticket
<1>3. ASSUME NEW x, x.epoch \in Nat, x.order \in Nat, Reserved(authority, x),
             Sends(authority, loop, x)
      PROVE  Sends(authority', loop', x)
  <2>1. AtMost(x, loop'.ticket)
    BY <1>2, <1>3, SentReserved DEF Reserved, AtMost
  <2> QED
    BY <1>1, <1>3, <2>1 DEF Sends
<1>4. authority'.latest.order <= loop'.ticket.order
  BY <1>1, <1>2, SentReserved
<1> QED
  BY <1>1, <1>3, <1>4, SentReserved, OrderKept

\* At the start nobody is subscribed.
LEMMA LoopStart ==
  ASSUME MaxChanges \in Nat
  PROVE  SnapshotsInit => LoopInv
<1> SUFFICES ASSUME SnapshotsInit PROVE LoopInv
  OBVIOUS
<1>1. Len(<<>>) = 0 /\ IdleReader.at = "idle" /\ NoFeed.captures = <<>>
  BY DEF IdleReader, NoFeed
<1>2. /\ feed = NoFeed /\ loop = IdleReader /\ command = IdleReader /\ responses = <<>> /\ wire = <<>>
      /\ client.current = None /\ client.connected /\ ~client.subscribed /\ client.baselinePending
  BY DEF SnapshotsInit
<1>3. LoopOnly /\ Baseline
  BY <1>1, <1>2 DEF LoopOnly, Baseline
<1>4. InOrder
  BY <1>1, <1>2, Shapes DEF InOrder
<1>5. UpToDate
  BY <1>1, <1>2 DEF UpToDate
<1> QED
  BY <1>3, <1>4, <1>5 DEF LoopInv

\* A change is announced in the same step.
LEMMA LoopChangeKeeps ==
  ASSUME OrderInv, LoopInv, ChangeCore \/ ChangeCapture \/ SendReplace, MaxChanges \in Nat
  PROVE  LoopInv'
<1>1. UNCHANGED <<authority, loop, command, responses, wire, client>>
  BY DEF ChangeCore, ChangeCapture, SendReplace
<1>2. LoopOnly' /\ InOrder' /\ Baseline'
  BY <1>1 DEF LoopInv, LoopOnly, InOrder, Baseline
<1>3. /\ truth \in [core : Nat, capture : Nat, runtime : Nat] /\ feed \in Feed
      /\ feed.captures \in Seq(Nat) /\ truth.capture + 1 \in Nat
  BY DEF OrderInv, Typed, Feed
<1>4. CASE ChangeCore
  <2>1. /\ truth'.capture = truth.capture /\ truth'.runtime = truth.runtime
        /\ feed'.captures = feed.captures /\ feed'.runtime = feed.runtime /\ feed'.status
    BY <1>3, <1>4 DEF ChangeCore, Feed
  <2>2. \A x : Fresh(feed, truth, x) => Fresh(feed', truth', x)
    BY <2>1 DEF Fresh
  <2> QED
    BY <1>1, <1>2, <2>1, <2>2 DEF LoopInv, UpToDate
<1>5. CASE ChangeCapture
  <2>1. /\ truth'.core = truth.core /\ truth'.runtime = truth.runtime
        /\ truth'.capture = truth.capture + 1
        /\ feed'.captures = Append(feed.captures, truth.capture + 1)
        /\ feed'.runtime = feed.runtime /\ feed'.status = feed.status
    BY <1>3, <1>5 DEF ChangeCapture, Feed
  <2>2. feed'.captures # <<>> /\ feed'.captures[Len(feed'.captures)] = truth'.capture
    <3>1. ASSUME NEW q \in Seq(Nat), NEW e \in Nat
          PROVE  Append(q, e) # <<>> /\ Append(q, e)[Len(Append(q, e))] = e
      BY AppendProperties
    <3> QED
      BY <1>3, <2>1, <3>1
  <2>3. \A x : Fresh(feed, truth, x) => Fresh(feed', truth', x)
    BY <2>1, <2>2 DEF Fresh
  <2> QED
    BY <1>1, <1>2, <2>2, <2>3 DEF LoopInv, UpToDate
<1>6. CASE SendReplace
  <2>1. /\ truth'.core = truth.core /\ truth'.capture = truth.capture
        /\ feed'.captures = feed.captures /\ feed'.status = feed.status /\ feed'.runtime
    BY <1>3, <1>6 DEF SendReplace, Feed
  <2>2. \A x : Fresh(feed, truth, x) => Fresh(feed', truth', x)
    BY <2>1 DEF Fresh
  <2> QED
    BY <1>1, <1>2, <2>1, <2>2 DEF LoopInv, UpToDate
<1> QED
  BY <1>4, <1>5, <1>6

\* What was sent is of an epoch that retired.
LEMMA LoopRetireKeeps ==
  ASSUME OrderInv, LoopInv, RetireRuntime, MaxChanges \in Nat
  PROVE  LoopInv'
<1>1. UNCHANGED <<truth, feed, loop, command, responses, wire, client>>
  BY DEF RetireRuntime
<1>2. authority'.id = authority.id /\ authority'.epoch = authority.epoch + 1
  BY DEF RetireRuntime, NewAuthority
<1>3. ASSUME NEW x, x.epoch \in Nat, Reserved(authority, x)
      PROVE  x.epoch # authority'.epoch
  BY <1>2, <1>3, SentReserved DEF Reserved
<1>4. Active(loop) => loop.ticket.epoch # authority'.epoch
  <2>1. loop.ticket.epoch \in Nat
    BY DEF OrderInv, Typed, Reader
  <2> QED
    BY <1>3, <2>1 DEF OrderInv, Tickets
<1>5. InOrder'
  <2>1. \A x : Sends(authority, loop, x) /\ x.epoch # authority'.epoch => Sends(authority', loop', x)
    BY <1>1 DEF Sends
  <2> QED
    BY <1>1, <1>2, <1>3, <1>4, <2>1, SentReserved, OrderKept DEF LoopInv
<1> QED
  BY <1>1, <1>2, <1>5 DEF LoopInv, LoopOnly, Baseline, UpToDate

\* A read begins with the announcement it handles, or there is nobody to read for.
LEMMA LoopBeginOrder ==
  ASSUME OrderInv, LoopInv, MaxChanges \in Nat, OnRuntimeChanged \/ OnSubscribe \/ OnStatus \/ OnCapture
  PROVE  LoopInv'
<1>1. UNCHANGED <<truth, replacing, command, responses, wire>> /\ loop.at = "idle" /\ client.connected
  BY DEF OnRuntimeChanged, OnSubscribe, OnStatus, OnCapture, Keep
<1>2. /\ client'.current = client.current /\ client'.connected
      /\ client'.baselinePending = client.baselinePending
      /\ client'.subscribed = (client.subscribed \/ OnSubscribe)
  <2>1. client \in Session
    BY DEF OrderInv, Typed
  <2>2. CASE OnSubscribe
    BY <1>1, <2>1, <2>2 DEF OnSubscribe, Session
  <2>3. CASE ~OnSubscribe
    <3>1. client' = client
      BY <2>3 DEF OnRuntimeChanged, OnStatus, OnCapture
    <3> QED
      BY <1>1, <2>1, <2>3, <3>1 DEF Session
  <2> QED
    BY <2>2, <2>3
<1>3. ~Active(loop)
  BY <1>1 DEF Active
<1>4. NoFeed.captures = <<>>
  BY DEF NoFeed
<1>5. CASE UNCHANGED <<authority, loop>>
  <2>1. OnRuntimeChanged /\ ~client.subscribed /\ feed' = NoFeed /\ client' = client
    <3>1. ASSUME NEW d \in {"update", "baseline"}, NEW v \in BOOLEAN, NEW c \in Nat
          PROVE  loop' # Begun(d, v, c)
      <4>1. d \in Delivery
        BY DEF Delivery
      <4> QED
        BY <1>1, <1>5, <4>1, BegunShape DEF OrderInv
    <3>2. OnCapture => Head(feed.captures) \in Nat
      <4>1. feed.captures \in Seq(Nat)
        BY DEF OrderInv, Typed, Feed
      <4> QED
        BY <4>1, HeadTailProperties DEF OnCapture
    <3> QED
      BY <3>1, <3>2 DEF OnRuntimeChanged, OnSubscribe, OnStatus, OnCapture
  <2>2. InOrder'
    BY <1>1, <1>2, <1>5 DEF LoopInv, InOrder
  <2> QED
    BY <1>1, <1>2, <1>3, <1>4, <1>5, <2>1, <2>2 DEF LoopInv, LoopOnly, Baseline, UpToDate
<1>6. ASSUME NEW d \in {"update", "baseline"}, NEW v \in BOOLEAN, NEW c \in Nat, Reserve,
             loop' = Begun(d, v, c), client'.subscribed,
             ~client.subscribed => d = "baseline",
             feed'.captures # <<>> => feed'.captures[Len(feed'.captures)] = truth.capture,
             v /\ feed'.captures = <<>> => c = truth.capture
      PROVE  LoopInv'
  <2>1. d \in Delivery
    BY DEF Delivery
  <2>2. loop'.at = "read" /\ loop'.ticket = Ticket
    BY <1>6, <2>1, BegunShape DEF OrderInv
  <2>3. loop'.delivery = d /\ loop'.valued = v /\ loop'.capture = c
    BY <1>6 DEF Begun, IdleReader
  <2>4. authority'.id = authority.id
    BY <1>6 DEF Reserve, OrderInv, Typed, Authority
  <2>5. InOrder'
    BY <1>1, <1>2, <1>6, <2>2, BeginsAfter DEF LoopInv
  <2>6. Active(loop')
    BY <2>2 DEF Active
  <2>7. LoopOnly'
    BY <1>1, <1>2, <1>6, <2>2 DEF LoopInv, LoopOnly
  <2>8. Baseline'
    BY <1>1, <1>2, <1>3, <1>6, <2>3, <2>4, <2>6 DEF LoopInv, LoopOnly, Baseline
  <2>9. UpToDate'
    BY <1>1, <1>6, <2>2, <2>3 DEF UpToDate
  <2> QED
    BY <2>5, <2>7, <2>8, <2>9 DEF LoopInv
<1>7. CASE OnRuntimeChanged
  BY <1>2, <1>4, <1>5, <1>6, <1>7 DEF OnRuntimeChanged
<1>8. CASE OnSubscribe
  BY <1>2, <1>4, <1>6, <1>8 DEF OnSubscribe
<1>9. CASE OnStatus
  <2>1. feed'.captures = feed.captures
    BY <1>9 DEF OnStatus, OrderInv, Typed, Feed
  <2> QED
    BY <1>2, <1>6, <1>9, <2>1 DEF OnStatus, LoopInv, UpToDate
<1>10. CASE OnCapture
  <2>1. feed.captures \in Seq(Nat) /\ feed.captures # <<>> /\ feed'.captures = Tail(feed.captures)
    BY <1>10 DEF OnCapture, OrderInv, Typed, Feed
  <2>2. Head(feed.captures) \in Nat
    BY <2>1, HeadTailProperties
  <2>3. /\ feed'.captures # <<>> => feed'.captures[Len(feed'.captures)] = truth.capture
        /\ feed'.captures = <<>> => Head(feed.captures) = truth.capture
    BY <2>1, LastOf DEF LoopInv, UpToDate
  <2> QED
    BY <1>2, <1>6, <1>10, <2>2, <2>3 DEF OnCapture
<1> QED
  BY <1>7, <1>8, <1>9, <1>10

\* A read shows what is true, or what was announced meanwhile differs from it.
LEMMA LoopReadKeeps ==
  ASSUME OrderInv, LoopInv, MaxChanges \in Nat, LoopRead \/ LoopCheck
  PROVE  LoopInv'
<1>1. /\ UNCHANGED <<truth, replacing, feed, command, responses, wire, client>>
      /\ Active(loop) /\ loop.at # "idle"
  BY DEF LoopRead, LoopCheck, Keep, Active
<1>2. loop \in Reader
  BY DEF OrderInv, Typed
<1>3. ASSUME loop'.at \in {"read", "check", "stamp"}, loop'.delivery = loop.delivery,
             authority'.id = authority.id, InOrder',
             loop'.at = "read" /\ loop'.valued /\ feed.captures = <<>> => loop'.capture = truth.capture,
             loop'.at \in {"check", "stamp"} => Fresh(feed, truth, loop'.content)
      PROVE  LoopInv'
  <2>1. Active(loop')
    BY <1>3 DEF Active
  <2>2. LoopOnly' /\ Baseline'
    BY <1>1, <1>3, <2>1 DEF LoopInv, LoopOnly, Baseline
  <2>3. UpToDate'
    BY <1>1, <1>3 DEF LoopInv, UpToDate
  <2> QED
    BY <1>3, <2>2, <2>3 DEF LoopInv
<1>4. ASSUME UNCHANGED authority, loop'.ticket = loop.ticket
      PROVE  InOrder'
  <2>1. \A x : Sends(authority, loop, x) => Sends(authority', loop', x)
    BY <1>1, <1>4 DEF Sends
  <2> QED
    BY <1>1, <1>4, <2>1, OrderKept DEF LoopInv, InOrder
<1>5. CASE LoopRead
  <2>1. UNCHANGED authority /\ loop' = Read(loop) /\ loop.at = "read"
    BY <1>5 DEF LoopRead
  <2>2. /\ loop'.at = "check" /\ loop'.ticket = loop.ticket /\ loop'.delivery = loop.delivery
        /\ loop'.content = Shows(truth.core, IF loop.valued THEN loop.capture ELSE truth.capture,
                                 truth.runtime)
    BY <1>2, <2>1, ReadShape DEF OrderInv
  <2>3. Fresh(feed, truth, loop'.content)
    BY <2>1, <2>2 DEF Fresh, Shows, LoopInv, UpToDate
  <2> QED
    BY <1>3, <1>4, <2>1, <2>2, <2>3
<1>6. CASE LoopCheck
  <2>1. loop.at = "check"
    BY <1>6 DEF LoopCheck
  <2>2. CASE Restarts(loop)
    <3>1. Reserve /\ loop' = Begun(loop.delivery, FALSE, 0)
      BY <1>6, <2>2 DEF LoopCheck
    <3>2. loop.delivery \in Delivery
      BY <1>2 DEF Reader
    <3>3. loop'.at = "read" /\ loop'.ticket = Ticket
      BY <3>1, <3>2, BegunShape DEF OrderInv
    <3>4. loop'.delivery = loop.delivery /\ loop'.valued = FALSE
      BY <3>1 DEF Begun, IdleReader
    <3>5. authority'.id = authority.id
      BY <3>1 DEF Reserve, OrderInv, Typed, Authority
    <3>6. InOrder'
      BY <1>1, <3>1, <3>3, BeginsAfter DEF LoopInv
    <3> QED
      BY <1>3, <3>3, <3>4, <3>5, <3>6
  <2>3. CASE ~Restarts(loop)
    <3>1. loop' = Check(loop) /\ UNCHANGED authority
      BY <1>6, <2>3 DEF LoopCheck
    <3>2. /\ loop'.at \in {"stamp", "read"} /\ loop'.ticket = loop.ticket
          /\ loop'.content = loop.content /\ loop'.delivery = loop.delivery
      BY <1>2, <3>1, CheckShape
    <3>3. loop'.at = "read" => ~loop'.valued
      BY <1>2, <2>3, <3>1 DEF Check, Restarts, Reader
    <3>4. loop'.at = "stamp" => Fresh(feed, truth, loop'.content)
      BY <2>1, <3>2 DEF LoopInv, UpToDate
    <3> QED
      BY <1>3, <1>4, <3>1, <3>2, <3>3, <3>4
  <2> QED
    BY <2>2, <2>3
<1> QED
  BY <1>5, <1>6

\* A stamp follows everything sent before it.
LEMMA LoopStampKeeps ==
  ASSUME OrderInv, LoopInv, MaxChanges \in Nat, LoopStamp
  PROVE  LoopInv'
<1> DEFINE m == Message(loop)
           a == authority
           T == loop.ticket
<1>1. /\ loop.at = "stamp" /\ Stamp(loop) /\ loop' = IdleReader /\ wire' = Append(wire, m)
      /\ UNCHANGED <<truth, replacing, feed, command, responses, client>>
  BY DEF LoopStamp, Keep
<1>2. loop \in Reader /\ wire \in Seq(Sent) /\ a \in Authority /\ client \in Session
  BY DEF OrderInv, Typed
<1>3. Active(loop) /\ Reserved(a, T) /\ loop.content # NoContent
  BY <1>1 DEF Active, OrderInv, Tickets, OfService
<1>4. /\ a'.id = a.id /\ a'.epoch = a.epoch /\ m \in Sent /\ m.id = a.id
      /\ m.content = loop.content /\ m.delivery = loop.delivery
  BY <1>1, <1>2, <1>3, StampShape DEF OrderInv
<1>5. m.epoch = T.epoch /\ m.order = StampOrder(loop) /\ a'.latest = StampLatest(loop)
  BY <1>1, <1>2 DEF Message, Stamp, Authority
<1>6. /\ T.epoch \in Nat /\ T.order \in Nat /\ a.epoch \in Nat /\ a.latest.order \in Nat
      /\ T.epoch <= a.epoch /\ (T.epoch = a.epoch => a.latest.order <= T.order)
  <2>1. T.epoch \in Nat /\ T.order \in Nat
    BY <1>2 DEF Reader
  <2> QED
    BY <1>3, <2>1, SentReserved DEF Reserved, LoopInv, InOrder
<1>7. a.latest.order <= a'.latest.order /\ a'.latest.order \in Nat
  BY <1>5, <1>6 DEF StampLatest
<1>8. /\ m.epoch = a.epoch => m.order <= a'.latest.order
      /\ m.epoch \in Nat /\ m.order \in Nat
  BY <1>5, <1>6 DEF StampLatest, StampOrder
<1>9. ~Active(loop') /\ loop'.at = "idle"
  BY <1>1, Shapes DEF IdleReader
<1> HIDE DEF m
<1>10. ASSUME NEW x, x.epoch \in Nat, x.order \in Nat, Sends(a, loop, x)
       PROVE  Sends(a', loop', x) /\ AtMost(x, m)
  <2>1. Sends(a', loop', x)
    BY <1>4, <1>6, <1>7, <1>9, <1>10 DEF Sends
  <2>2. AtMost(x, T) /\ (x.epoch = a.epoch => x.order <= a.latest.order)
    BY <1>3, <1>10 DEF Sends
  <2>3. CASE m.order = T.order
    BY <1>5, <2>1, <2>2, <2>3 DEF AtMost
  <2>4. CASE T.epoch = a.epoch /\ m.order = a.latest.order
    BY <1>5, <1>6, <2>1, <2>2, <2>4 DEF AtMost
  <2> QED
    BY <1>5, <2>1, <2>3, <2>4 DEF StampOrder
<1>11. Sends(a', loop', m) /\ AtMost(m, m)
  BY <1>4, <1>8, <1>9 DEF Sends, AtMost
<1>12. /\ Len(wire) \in Nat /\ Len(wire') = Len(wire) + 1 /\ wire'[Len(wire) + 1] = m
       /\ \A i \in 1 .. Len(wire) : wire'[i] = wire[i]
       /\ wire' # <<>>
  BY <1>1, <1>2, <1>4, AppendProperties, LenProperties
<1>13. \A i \in 1 .. Len(wire') : i \in 1 .. Len(wire) \/ (i = Len(wire) + 1 /\ wire'[i] = m)
  BY <1>12
<1>14. \A i \in 1 .. Len(wire) : Sends(a', loop', wire[i]) /\ AtMost(wire[i], m)
  BY <1>10, SentReserved DEF LoopInv, InOrder
<1>15. InOrder'
  <2>1. \A i \in 1 .. Len(wire') : Sends(a', loop', wire'[i])
    BY <1>11, <1>12, <1>13, <1>14
  <2>2. ASSUME NEW i \in 1 .. Len(wire'), NEW j \in 1 .. i
        PROVE  AtMost(wire'[j], wire'[i])
    <3>1. CASE i \in 1 .. Len(wire)
      <4>1. j \in 1 .. Len(wire)
        BY <1>12, <3>1
      <4> QED
        BY <1>12, <3>1, <4>1 DEF LoopInv, InOrder
    <3>2. CASE i = Len(wire) + 1
      <4>1. wire'[i] = m
        BY <1>12, <3>2
      <4>2. j \in 1 .. Len(wire) \/ j = i
        BY <1>12, <3>2
      <4> QED
        BY <1>11, <1>12, <1>14, <4>1, <4>2
    <3> QED
      BY <1>13, <3>1, <3>2
  <2>3. ASSUME client.current # None, client.current.id = a.id
        PROVE  /\ Sends(a', loop', client.current)
               /\ \A i \in 1 .. Len(wire') : AtMost(client.current, wire'[i])
    <3>1. /\ Sends(a, loop, client.current)
          /\ \A i \in 1 .. Len(wire) : AtMost(client.current, wire[i])
      BY <2>3 DEF LoopInv, InOrder
    <3>2. Sends(a', loop', client.current) /\ AtMost(client.current, m)
      BY <1>10, <2>3, <3>1, SentReserved
    <3> QED
      BY <1>12, <1>13, <3>1, <3>2
  <2> QED
    BY <1>1, <1>4, <1>9, <2>1, <2>2, <2>3 DEF InOrder
<1>16. client.subscribed
  BY <1>1 DEF LoopInv, LoopOnly
<1>17. LoopOnly'
  BY <1>1, <1>9, <1>16 DEF LoopInv, LoopOnly
<1>18. Baseline'
  <2>1. wire'[1].delivery = IF wire = <<>> THEN loop.delivery ELSE wire[1].delivery
    <3>1. CASE wire = <<>>
      <4>1. Len(wire) = 0
        BY <1>2, <3>1, EmptySeq
      <4> QED
        BY <1>4, <1>12, <3>1, <4>1
    <3>2. CASE wire # <<>>
      <4>1. Len(wire) # 0
        BY <1>2, <3>2, EmptySeq
      <4> QED
        BY <1>12, <3>2, <4>1
    <3> QED
      BY <3>1, <3>2
  <2> QED
    BY <1>1, <1>4, <1>12, <2>1 DEF LoopInv, Baseline
<1>19. UpToDate'
  <2>1. LastSent(wire', client'.current) = m
    BY <1>12 DEF LastSent
  <2>2. Fresh(feed, truth, m.content)
    BY <1>1, <1>4 DEF LoopInv, UpToDate
  <2> QED
    BY <1>1, <1>9, <2>1, <2>2 DEF LoopInv, UpToDate
<1> QED
  BY <1>15, <1>17, <1>18, <1>19 DEF LoopInv

\* The client confirms every message of the loop, so the last one sent is what
\* it shows when the wire is empty.
LEMMA LoopDeliverKeeps ==
  ASSUME OrderInv, LoopInv, MaxChanges \in Nat, Deliver
  PROVE  LoopInv'
<1> DEFINE m == Head(wire)
           c == client.current
<1>1. /\ UNCHANGED <<truth, replacing, authority, feed, loop, command, responses>>
      /\ wire # <<>> /\ wire' = Tail(wire) /\ wire \in Seq(Sent)
  BY DEF Deliver, Keep, OrderInv, Typed
<1>2. /\ m \in Sent /\ m = wire[1] /\ 1 \in 1 .. Len(wire) /\ m.id = authority.id
      /\ \A i \in 1 .. Len(wire') : i + 1 \in 1 .. Len(wire) /\ wire'[i] = wire[i + 1]
      /\ wire' \in Seq(Sent)
  BY <1>1, StampsTail DEF OrderInv, OfService
<1>3. client.subscribed
  BY <1>1 DEF LoopInv, LoopOnly
<1>4. client.baselinePending => m.delivery = "baseline"
  BY <1>1, <1>2, <1>3 DEF LoopInv, Baseline
<1>5. c # None /\ m.id = c.id => AtMost(c, m)
  BY <1>2 DEF LoopInv, InOrder
<1>6. c # None => c.epoch \in Nat /\ c.order \in Nat
  BY SentReserved
<1>7. m.epoch \in Nat /\ m.order \in Nat
  BY <1>2, SentReserved
<1>8. c # None /\ m.id = c.id => Newer(m, c) \/ Same(m, c)
  BY <1>5, <1>6, <1>7 DEF AtMost, Newer, Same
<1>9. ~client.baselinePending => c # None /\ c.id = m.id
  BY <1>2 DEF LoopInv, Baseline
<1>10. Verdict(m) \in {"accepted", "duplicate"} /\ (Verdict(m) = "duplicate" => c # None /\ c.id = m.id /\ c.content = m.content)
  <2>1. Verdict(m) # "conflict"
    <3>1. client' \in Session /\ ~client'.conflict
      BY DeliverShape
    <3>2. client \in Session
      BY DEF OrderInv, Typed
    <3> QED
      BY <3>1, <3>2 DEF Deliver, Session
  <2> QED
    BY <1>4, <1>8, <1>9, <2>1 DEF Verdict
<1>11. /\ client'.subscribed = client.subscribed /\ client'.connected = client.connected
       /\ ~client'.baselinePending
       /\ client'.current # None /\ client'.current.id = authority.id
       /\ client'.current.content = m.content
       /\ client'.current = c \/ (client'.current.epoch = m.epoch /\ client'.current.order = m.order)
  <2> DEFINE shown == [content |-> m.content, order |-> m.order, epoch |-> m.epoch, id |-> m.id]
  <2>1. client \in Session
    BY DEF OrderInv, Typed
  <2>2. /\ client'.subscribed = client.subscribed /\ client'.connected = client.connected
        /\ client'.baselinePending = (client.baselinePending /\ ~(Verdict(m) \in {"accepted", "duplicate"}))
        /\ client'.current = IF Verdict(m) = "accepted" THEN shown ELSE c
    BY <2>1 DEF Deliver, Session
  <2>3. shown # None
    <3>1. m.order # 0
      BY <1>2 DEF Sent
    <3>2. shown.order # 0
      BY <3>1
    <3> QED
      BY <3>2, Shapes
  <2>4. CASE Verdict(m) = "accepted"
    <3>1. client'.current = shown
      BY <2>2, <2>4
    <3>2. /\ shown.id = m.id /\ shown.content = m.content /\ shown.epoch = m.epoch
          /\ shown.order = m.order
      OBVIOUS
    <3>3. ~client'.baselinePending
      BY <2>2, <2>4
    <3> HIDE DEF shown
    <3> QED
      BY <1>2, <2>2, <2>3, <3>1, <3>2, <3>3
  <2>5. CASE Verdict(m) = "duplicate"
    <3>1. client'.current = c
      BY <2>2, <2>5
    <3> QED
      BY <1>2, <1>10, <2>2, <2>5, <3>1
  <2> QED
    BY <1>10, <2>4, <2>5
<1> HIDE DEF m, c
<1>12. InOrder'
  <2>1. \A i \in 1 .. Len(wire) : Sends(authority, loop, wire[i]) /\ AtMost(wire[1], wire[i])
    BY <1>2 DEF LoopInv, InOrder
  <2>2. \A i \in 1 .. Len(wire') : Sends(authority', loop', wire'[i])
    BY <1>1, <1>2, <2>1
  <2>3. ASSUME NEW i \in 1 .. Len(wire'), NEW j \in 1 .. i
        PROVE  AtMost(wire'[j], wire'[i])
    <3>1. Len(wire') \in Nat
      BY <1>2, LenProperties
    <3>2. j \in 1 .. Len(wire') /\ j + 1 \in 1 .. (i + 1)
      BY <3>1
    <3>3. /\ i + 1 \in 1 .. Len(wire) /\ wire'[i] = wire[i + 1] /\ wire'[j] = wire[j + 1]
      BY <1>2, <3>2
    <3> QED
      BY <3>2, <3>3 DEF LoopInv, InOrder
  <2>4. /\ Sends(authority, loop, client'.current)
        /\ \A i \in 1 .. Len(wire') : AtMost(client'.current, wire'[i])
    <3>1. CASE client'.current = c
      <4>1. /\ Sends(authority, loop, c) /\ \A i \in 1 .. Len(wire) : AtMost(c, wire[i])
        BY <1>11, <3>1 DEF LoopInv, InOrder, c
      <4> QED
        BY <1>2, <3>1, <4>1
    <3>2. CASE client'.current.epoch = m.epoch /\ client'.current.order = m.order
      <4>1. \A x : AtMost(m, x) => AtMost(client'.current, x)
        BY <3>2 DEF AtMost
      <4>2. Sends(authority, loop, m) => Sends(authority, loop, client'.current)
        BY <3>2 DEF Sends, AtMost
      <4> QED
        BY <1>2, <2>1, <4>1, <4>2
    <3> QED
      BY <1>11, <3>1, <3>2
  <2> QED
    BY <1>1, <2>2, <2>3, <2>4 DEF LoopInv, InOrder
<1>13. LoopOnly' /\ Baseline'
  BY <1>1, <1>3, <1>11 DEF LoopInv, LoopOnly, Baseline
<1>14. LastSent(wire', client'.current).content = LastSent(wire, c).content
  <2>1. CASE wire' = <<>>
    BY <1>1, <1>11, <2>1, LastOf DEF LastSent, m
  <2>2. CASE wire' # <<>>
    BY <1>1, <2>2, LastOf DEF LastSent
  <2> QED
    BY <2>1, <2>2
<1>15. UpToDate'
  BY <1>1, <1>3, <1>14 DEF LoopInv, UpToDate, c
<1> QED
  BY <1>12, <1>13, <1>15 DEF LoopInv

\* A lost connection leaves nothing sent, and the next one starts with a baseline.
LEMMA LoopGoneKeeps ==
  ASSUME OrderInv, LoopInv, MaxChanges \in Nat, Cut \/ Restart \/ Reconnect
  PROVE  LoopInv'
<1>1. Len(<<>>) = 0 /\ IdleReader.at = "idle" /\ NoFeed.captures = <<>> /\ ~Active(IdleReader)
  BY Shapes DEF IdleReader, NoFeed
<1>2. /\ client'.current = client.current /\ client'.baselinePending
      /\ ~client'.subscribed
  BY DEF Cut, Restart, Gone, Reconnect, OrderInv, Typed, Session, LoopInv, LoopOnly
<1>3. ASSUME wire' = <<>>, loop' = IdleReader, feed' = NoFeed, responses' = <<>>,
             command'.at = "idle",
             client.current # None /\ client.current.id = authority'.id =>
               Sends(authority', loop', client.current)
      PROVE  LoopInv'
  <2>1. LoopOnly' /\ Baseline' /\ UpToDate'
    BY <1>1, <1>2, <1>3 DEF LoopOnly, Baseline, UpToDate
  <2>2. InOrder'
    BY <1>1, <1>2, <1>3 DEF InOrder
  <2> QED
    BY <2>1, <2>2 DEF LoopInv
<1>4. CASE Cut
  <2>1. /\ wire' = <<>> /\ loop' = IdleReader /\ feed' = NoFeed /\ responses' = <<>>
        /\ command' = Lost(command) /\ UNCHANGED authority
    BY <1>4 DEF Cut, Gone
  <2>2. command'.at = "idle"
    BY <2>1 DEF Lost, LoopInv, LoopOnly
  <2>3. \A x : Sends(authority, loop, x) => Sends(authority', loop', x)
    BY <1>1, <2>1 DEF Sends
  <2> QED
    BY <1>3, <2>1, <2>2, <2>3 DEF LoopInv, InOrder
<1>5. CASE Restart
  <2>1. /\ wire' = <<>> /\ loop' = IdleReader /\ feed' = NoFeed /\ responses' = <<>>
        /\ command' = IdleReader /\ authority'.id = authority.id + 1
    BY <1>5 DEF Restart, Gone, NewAuthority
  <2>2. client.current # None => client.current.id \in Nat /\ client.current.id <= authority.id
    BY DEF OrderInv, OfService, Typed, Session, Shown
  <2>3. authority.id \in Nat
    BY DEF OrderInv, Typed, Authority
  <2>4. ~(client.current # None /\ client.current.id = authority'.id)
    BY <2>1, <2>2, <2>3
  <2> QED
    BY <1>1, <1>3, <2>1, <2>4
<1>6. CASE Reconnect
  <2>1. UNCHANGED <<truth, authority, feed, loop, command, responses, wire>> /\ ~client.subscribed
    BY <1>6 DEF Reconnect, Keep, LoopInv, LoopOnly
  <2> QED
    BY <1>2, <2>1 DEF LoopInv, LoopOnly, InOrder, Baseline, UpToDate
<1> QED
  BY <1>4, <1>5, <1>6

\* Every step keeps LoopInv for a client that gives no command.
LEMMA LoopStep ==
  ASSUME MaxChanges \in Nat
  PROVE  OrderInv /\ LoopAlone /\ [SnapshotsNext]_svars => LoopAlone'
<1>0. OrderInv /\ [SnapshotsNext]_svars => client'.commands = client.commands
  BY DEF SnapshotsNext, svars, ChangeCore, ChangeCapture, SendReplace, RetireRuntime,
     OnRuntimeChanged, OnSubscribe, OnResponse, OnStatus, OnCapture, LoopRead, LoopCheck, LoopStamp,
     CommandBegin, CommandRead, CommandCheck, CommandStamp, Deliver, Cut, Restart, Gone, Reconnect,
     OrderInv, Typed, Session
<1> SUFFICES ASSUME OrderInv, LoopInv, [SnapshotsNext]_svars, ~client.commands PROVE LoopInv'
  BY <1>0 DEF LoopAlone
<1>1. CASE UNCHANGED svars
  BY <1>1 DEF svars, LoopInv, LoopOnly, InOrder, Baseline, UpToDate
<1>2. ~(OnResponse \/ CommandBegin \/ CommandRead \/ CommandCheck \/ CommandStamp)
  BY DEF OnResponse, CommandBegin, CommandRead, CommandCheck, CommandStamp, LoopInv, LoopOnly
<1>3. CASE SnapshotsNext
  BY <1>2, <1>3, LoopChangeKeeps, LoopRetireKeeps, LoopBeginOrder, LoopReadKeeps, LoopStampKeeps,
     LoopDeliverKeeps, LoopGoneKeeps DEF SnapshotsNext
<1> QED
  BY <1>1, <1>3

\* When nothing is left to send, the client shows the last snapshot sent.
LEMMA LoopConverges ==
  ASSUME OrderInv, LoopInv
  PROVE  Converges
<1> SUFFICES ASSUME Quiet PROVE client.current.content = truth
  BY DEF Converges
<1>1. client.subscribed /\ loop.at = "idle" /\ wire = <<>> /\ feed = NoFeed
  BY DEF Quiet
<1>2. ~client.baselinePending
  BY <1>1 DEF LoopInv, Baseline, Active
<1>3. Fresh(NoFeed, truth, client.current.content)
  BY <1>1 DEF LoopInv, UpToDate, LastSent
<1>4. /\ client.current.content.core = truth.core /\ client.current.content.runtime = truth.runtime
      /\ client.current.content.capture = truth.capture
  BY <1>3 DEF Fresh, NoFeed
<1>5. client.current \in Shown
  BY <1>2 DEF OrderInv, Typed, Session, LoopInv, Baseline
<1>6. client.current.content \in Content /\ truth \in Content
  BY <1>5 DEF Shown, OrderInv, Typed, Content
<1> QED
  BY <1>4, <1>6 DEF Content

(* For any number of changes, replacements, lost connections and restarts:  *)
(* the stamps of snapshot_order.rs give an order one content, so the client *)
(* never meets a conflict; what session-authority.ts accepts never takes it *)
(* back to an older snapshot; and when no command runs beside the loop, a   *)
(* client to which nothing is left to send shows what is true.              *)
THEOREM SnapshotsHold ==
  ASSUME MaxChanges \in Nat
  PROVE  SnapshotsSpec => []SnapshotsAgree /\ NeverReopens
<1>1. SnapshotsInit => OrderInv
  BY OrderStart
<1>2. OrderInv /\ [SnapshotsNext]_svars => OrderInv'
  BY OrderStep
<1>3. OrderInv => NoConflict
  BY DEF OrderInv
<1>4. OrderInv /\ [SnapshotsNext]_svars =>
        [client.current # None /\ client'.current # client.current =>
           \/ Newer(client'.current, client.current) /\ client'.current.id = client.current.id
           \/ client'.current.id > client.current.id]_svars
  BY ReopenStep
<1>5. SnapshotsInit => LoopAlone
  BY LoopStart DEF LoopAlone
<1>6. OrderInv /\ LoopAlone /\ [SnapshotsNext]_svars => LoopAlone'
  BY LoopStep
<1>7. OrderInv /\ LoopAlone => SnapshotsAgree
  BY <1>3, LoopConverges DEF SnapshotsAgree, LoopAlone
<1> QED
  BY <1>1, <1>2, <1>4, <1>5, <1>6, <1>7, PTL DEF SnapshotsSpec, NeverReopens
-----------------------------------------------------------------------------
(* The restore of a backup: the shape of its state.                         *)

Fields == {"dest", "original", "staged"}
Prefs == [other : Nat, login : BOOLEAN]
Spent == [restores : Nat, writes : Nat, faults : Nat, crashes : Nat]
Phases == {"none", "staging-projection", "committing", "committed", "rolling-back"}
CallFields == {"who", "step", "parts", "data", "before", "after", "rolling", "found"}

\* The places of the three components, and the files in use.
IsPlace(pl) == DOMAIN pl = KindSet /\ \A k \in KindSet : DOMAIN pl[k] = Fields
DestOf(pl) == [k \in KindSet |-> pl[k].dest]
\* The components of a transaction, each at most once.
PartsOK(parts) ==
  /\ parts \in Seq([kind : KindSet, had : BOOLEAN])
  /\ \A i, j \in DOMAIN parts : parts[i].kind = parts[j].kind => i = j

\* What a rollback of the parts makes of the files.
Had(parts, k, h) == \E i \in DOMAIN parts : parts[i].kind = k /\ parts[i].had = h
Prior(pl, parts) ==
  [k \in KindSet |->
    IF Had(parts, k, TRUE) THEN IF pl[k].original # {} THEN pl[k].original ELSE pl[k].dest
    ELSE IF Had(parts, k, FALSE) THEN {} ELSE pl[k].dest]
\* What the commit of the data makes of them.
Later(pl, data) == [k \in KindSet |-> IF k \in DOMAIN data THEN {data[k]} ELSE pl[k].dest]

\* A component is as it was, is ready to be swapped, is swapped.
Back(pl, part) == pl[part.kind].original = {} /\ (pl[part.kind].dest # {}) = part.had
Ready(pl, data, part) == Back(pl, part) /\ pl[part.kind].staged = {data[part.kind]}
In(pl, data, part) == pl[part.kind].dest = {data[part.kind]}

\* The shape of the files and of the journal, of the memory, and of a transaction.
FileTypes ==
  /\ IsPlace(place)
  /\ \A x \in Fields : place["settings"][x] \subseteq Prefs
  /\ DOMAIN journal = {"phase", "parts"} /\ journal.phase \in Phases /\ PartsOK(journal.parts)
  /\ journal.phase = "none" => journal = NoJournal
ValueTypes ==
  /\ life \in {"down", "starting", "loading", "up"}
  /\ mem \in Prefs /\ login \in BOOLEAN /\ drifted \in BOOLEAN /\ unavailable \in BOOLEAN
  /\ permit \in {"none", "settings", "restore"}
  /\ used \in Spent
  /\ \A p \in preview : p.manifest \in Manifests
CallTypes ==
  /\ DOMAIN call = CallFields /\ call.who \in {"none", "restore", "recovery"}
  /\ call.who = "none" => call = NoCall
  /\ PartsOK(call.parts) /\ call.rolling \in BOOLEAN
  /\ "settings" \in DOMAIN call.data => call.data["settings"] \in Prefs
RTypes == FileTypes /\ ValueTypes /\ CallTypes

\* Who holds the permit, and when.
Roles ==
  /\ permit = "restore" <=> call.who = "restore"
  /\ call.who = "restore" => life = "up" /\ ~unavailable
  /\ call.who = "recovery" <=> life = "starting"
  /\ permit = "settings" => life = "up" /\ ~unavailable
  /\ checked # {} => life = "up"
  /\ life = "loading" => journal = NoJournal

\* Whatever a crash leaves, the next start finds one of the states that the disk may
\* hold: the files as they are, or the ones to which a rollback of the journal leads.
Recoverable ==
  IF journal.phase \in {"committing", "rolling-back"}
  THEN Prior(place, journal.parts) \in stored ELSE DestOf(place) \in stored

\* The journal a failed first write may leave.
Stale ==
  /\ journal.phase \in {"none", "staging-projection", "committing"}
  /\ journal.phase = "committing" =>
       /\ \A i \in DOMAIN journal.parts : journal.parts[i].had
       /\ \A k \in KindSet : place[k].original = {}

\* With nothing in progress the files are those of one moment.
IdleInv ==
  life = "up" /\ call.who = "none" /\ ~unavailable =>
    DestOf(place) \in stored /\ place["settings"].dest # {} /\ Stale

\* A restore knows what it started from and what it leads to.
RestoreCall ==
  call.who = "restore" =>
    /\ call.before \subseteq stored /\ call.after \subseteq stored
    /\ DOMAIN call.data = KindsOf(call.parts)
    /\ \A i \in DOMAIN call.parts : call.parts[i].kind = "settings" => call.parts[i].had
    /\ "settings" \notin KindsOf(call.parts) => place["settings"].dest # {}
    /\ ~call.rolling => Later(place, call.data) \in call.after

\* A recovery stages nothing.
RecoveryCall == call.who = "recovery" => DOMAIN call.data = {}

\* The journal of this transaction, and how far its components are.
Journalled(phase) == journal.phase = phase /\ journal.parts = call.parts
Backs(n) == \A i \in DOMAIN call.parts : i > n => Back(place, call.parts[i])
Readys(n) == \A i \in DOMAIN call.parts : i > n => Ready(place, call.data, call.parts[i])
Ins(n) == \A i \in DOMAIN call.parts : i < n => In(place, call.data, call.parts[i])
OnlySettings ==
  "projection" \notin KindsOf(call.parts) => \A i \in DOMAIN call.parts : call.parts[i].had

\* The steps before the commit is recorded, and those of the cleanup.
ForwardSteps == {"Begin", "Project", "committing", "MoveOut", "MoveIn", "committed"}
DropSteps == {"DropRollback", "DropStage", "DropJournal"}

\* A restore on its way: before step i of the swap the components below i are in, and
\* those above are still as they were, with their successors staged.
Forward ==
  call.who = "restore" /\ ~call.rolling =>
    LET do == call.step.do
        i == call.step.i
        n == Len(call.parts)
    IN  /\ do \in ForwardSteps \cup DropSteps \cup {"Stage", "Settle", "Accept"}
        /\ do \in ForwardSteps => Prior(place, call.parts) \in call.before
        /\ do \in {"Stage", "Begin"} => journal.phase = "none" /\ OnlySettings
        /\ do = "Stage" => DestOf(place) \in call.before
        /\ do = "Stage" => \A j \in DOMAIN call.parts :
                              (place[call.parts[j].kind].dest # {}) = call.parts[j].had
        /\ do \in {"Begin", "Project"} =>
             /\ \A k \in KindSet : place[k].original = {}
             /\ \A j \in DOMAIN call.parts :
                 /\ Back(place, call.parts[j])
                 /\ call.parts[j].kind # "projection" => Ready(place, call.data, call.parts[j])
        /\ do = "Project" => Journalled("staging-projection") /\ "projection" \in KindsOf(call.parts)
        /\ do = "committing" => Journalled("staging-projection") /\ Readys(0)
        /\ do = "MoveOut" =>
             Journalled("committing") /\ i \in 1..n /\ call.parts[i].had /\ Ins(i) /\ Readys(i - 1)
        /\ do = "MoveIn" =>
             /\ Journalled("committing") /\ i \in 1..n /\ Ins(i) /\ Readys(i)
             /\ place[call.parts[i].kind].staged = {call.data[call.parts[i].kind]}
             /\ call.parts[i].had => place[call.parts[i].kind].original # {}
        /\ do = "committed" => Journalled("committing")
        /\ do \in {"committed", "Settle", "Accept"} \cup DropSteps => Ins(n + 1)
        /\ do \in DropSteps => Journalled("committed")
        /\ do \in {"Settle", "Accept"} => journal.phase = "none"
        /\ do = "Accept" => "settings" \in DOMAIN call.data

\* The state to which a rollback leads.
Before == IF call.who = "restore" THEN call.before ELSE stored

\* A rollback, of a restore or at startup: the components above i are back.
Rolling ==
  call.who # "none" /\ call.rolling =>
    LET do == call.step.do
        i == call.step.i
        n == Len(call.parts)
    IN  /\ do \in {"rolling-back", "Undo", "Settle"} \cup DropSteps
        /\ do \in {"rolling-back", "Undo"} => Prior(place, call.parts) \in Before
        /\ do \in {"rolling-back"} \cup DropSteps => journal.phase # "none" /\ journal.parts = call.parts
        /\ do = "Undo" => Journalled("rolling-back") /\ i \in 1..n /\ Backs(i)
        /\ do \in {"Settle"} \cup DropSteps => Backs(0) /\ DestOf(place) \in Before
        /\ do = "Settle" => journal.phase = "none"

\* A startup that finds the commit recorded only cleans up.
Completing ==
  call.who = "recovery" /\ ~call.rolling =>
    /\ call.step.do \in DropSteps \cup {"Settle"}
    /\ DestOf(place) \in stored
    /\ call.step.do \in DropSteps => Journalled("committed")
    /\ call.step.do = "Settle" => journal.phase = "none"

CallInv == RestoreCall /\ RecoveryCall /\ Forward /\ Rolling /\ Completing

\* The login item follows the preference.
LoginInv == life = "up" /\ permit # "settings" /\ ~drifted => login = mem.login

\* The inductive invariant.
RestoreInv ==
  RTypes /\ Roles /\ Recoverable /\ IdleInv /\ CallInv /\ LoginInv

\* The components of a transaction are listed once each.
LEMMA PartsFacts ==
  ASSUME NEW p, PartsOK(p)
  PROVE  /\ Len(p) \in Nat /\ DOMAIN p = 1..Len(p)
         /\ \A i \in DOMAIN p : p[i].kind \in KindSet /\ p[i].had \in BOOLEAN
         /\ \A i, j \in DOMAIN p : p[i].kind = p[j].kind => i = j
<1>1. p \in Seq([kind : KindSet, had : BOOLEAN])
  BY DEF PartsOK
<1>2. Len(p) \in Nat /\ DOMAIN p = 1..Len(p)
  BY <1>1, LenProperties
<1>3. \A i \in DOMAIN p : p[i] \in [kind : KindSet, had : BOOLEAN]
  <2> DEFINE T == [kind : KindSet, had : BOOLEAN]
  <2>1. p \in Seq(T)
    BY <1>1
  <2> HIDE DEF T
  <2>2. \A i \in DOMAIN p : p[i] \in T
    BY <2>1
  <2> QED
    BY <2>2 DEF T
<1>4. \A i \in DOMAIN p : p[i].kind \in KindSet /\ p[i].had \in BOOLEAN
  BY <1>3
<1> QED
  BY <1>2, <1>4 DEF PartsOK

\* A rename within the places of one component.
LEMMA MovedIs ==
  ASSUME IsPlace(place), NEW k \in KindSet, NEW a \in Fields, NEW b \in Fields, a # b,
         NEW q, q = Moved(k, a, b)
  PROVE  /\ IsPlace(q)
         /\ q[k][b] = place[k][a] /\ q[k][a] = {}
         /\ \A x \in Fields \ {a, b} : q[k][x] = place[k][x]
         /\ \A j \in KindSet \ {k} : q[j] = place[j]
<1>1. DOMAIN q = KindSet /\ \A j \in KindSet \ {k} : q[j] = place[j]
  BY DEF IsPlace, Moved
<1>2. q[k] = [[place[k] EXCEPT ![b] = place[k][a]] EXCEPT ![a] = {}]
  BY DEF IsPlace, Moved
<1>3. DOMAIN q[k] = Fields /\ q[k][b] = place[k][a] /\ q[k][a] = {}
        /\ \A x \in Fields \ {a, b} : q[k][x] = place[k][x]
  BY <1>2 DEF IsPlace
<1> QED
  BY <1>1, <1>3 DEF IsPlace

\* A removal of all that is staged, or of all that was moved out of the way.
LEMMA DiscardIs ==
  ASSUME NEW pl, IsPlace(pl), NEW a \in Fields, NEW q, q = Discard(pl, a)
  PROVE  /\ IsPlace(q)
         /\ \A k \in KindSet : q[k][a] = {} /\ \A x \in Fields \ {a} : q[k][x] = pl[k][x]
BY DEF IsPlace, Discard

\* Once every component is back, a rollback has nothing left to do.
LEMMA PriorBack ==
  ASSUME NEW pl, NEW p, PartsOK(p), \A i \in DOMAIN p : Back(pl, p[i])
  PROVE  Prior(pl, p) = DestOf(pl)
<1>1. ASSUME NEW k \in KindSet PROVE Prior(pl, p)[k] = pl[k].dest
  BY <1>1 DEF Prior, Had, Back
<1> QED
  BY <1>1 DEF Prior, DestOf

\* Moving a component out of the way does not change what a rollback leads to.
LEMMA PriorMoveOut ==
  ASSUME IsPlace(place), NEW p, PartsOK(p), NEW i \in DOMAIN p, p[i].had, Back(place, p[i])
  PROVE  Prior(Moved(p[i].kind, "dest", "original"), p) = Prior(place, p)
<1> DEFINE q == Moved(p[i].kind, "dest", "original")
<1>1. p[i].kind \in KindSet /\ Had(p, p[i].kind, TRUE)
  BY PartsFacts DEF Had
<1>2. q[p[i].kind].original = place[p[i].kind].dest /\ \A j \in KindSet \ {p[i].kind} : q[j] = place[j]
  BY <1>1, MovedIs DEF Fields
<1>3. place[p[i].kind].original = {} /\ place[p[i].kind].dest # {}
  BY DEF Back
<1> QED
  BY <1>1, <1>2, <1>3 DEF Prior

\* Nor does moving the staged one in, once the original is out of the way.
LEMMA PriorMoveIn ==
  ASSUME IsPlace(place), NEW p, PartsOK(p), NEW i \in DOMAIN p,
         p[i].had => place[p[i].kind].original # {}
  PROVE  Prior(Moved(p[i].kind, "staged", "dest"), p) = Prior(place, p)
<1> DEFINE q == Moved(p[i].kind, "staged", "dest")
<1>1. p[i].kind \in KindSet /\ p[i].had \in BOOLEAN
  BY PartsFacts
<1>2. q[p[i].kind].original = place[p[i].kind].original /\ \A j \in KindSet \ {p[i].kind} : q[j] = place[j]
  BY <1>1, MovedIs DEF Fields
<1>3. p[i].had => Had(p, p[i].kind, TRUE)
  BY DEF Had
<1>4. ~p[i].had => ~Had(p, p[i].kind, TRUE) /\ Had(p, p[i].kind, FALSE)
  BY <1>1, PartsFacts DEF Had
<1> HIDE DEF q
<1>5. \A k \in KindSet : Prior(q, p)[k] = Prior(place, p)[k]
  BY <1>1, <1>2, <1>3, <1>4 DEF Prior
<1>6. Prior(q, p) = Prior(place, p)
  BY <1>5 DEF Prior
<1> QED
  BY <1>6 DEF q

\* A stale journal whose components all existed leads to the files as they are.
LEMMA PriorStale ==
  ASSUME NEW pl, NEW p, \A k \in KindSet : pl[k].original = {}, PartsOK(p),
         \A i \in DOMAIN p : p[i].had
  PROVE  Prior(pl, p) = DestOf(pl)
<1>1. \A k \in KindSet : ~Had(p, k, FALSE)
  BY DEF Had
<1> QED
  BY <1>1 DEF Prior, DestOf

\* The counters of the bounds stay numbers.
LEMMA SpendCounts ==
  ASSUME used \in Spent
  PROVE  /\ Spend("restores") \/ Spend("writes") \/ Spend("faults") \/ Spend("crashes") => used' \in Spent
         /\ used' = [used EXCEPT !.writes = @ + 1, !.faults = @ + 1] => used' \in Spent
         /\ \A n \in Nat : used' = [used EXCEPT !.faults = @ + n] => used' \in Spent
<1>1. ASSUME NEW x \in {"restores", "writes", "faults", "crashes"}, Spend(x) PROVE used' \in Spent
  BY <1>1 DEF Spent, Spend
<1>2. ASSUME used' = [used EXCEPT !.writes = @ + 1, !.faults = @ + 1] PROVE used' \in Spent
  <2>1. used.writes + 1 \in Nat /\ used.faults + 1 \in Nat
    BY DEF Spent
  <2>2. used' = [[used EXCEPT !.writes = used.writes + 1] EXCEPT !.faults = used.faults + 1]
    BY <1>2 DEF Spent
  <2>3. [used EXCEPT !.writes = used.writes + 1] \in Spent
    BY <2>1 DEF Spent
  <2> QED
    BY <2>1, <2>2, <2>3 DEF Spent
<1>3. ASSUME NEW n \in Nat, used' = [used EXCEPT !.faults = @ + n] PROVE used' \in Spent
  BY <1>3 DEF Spent
<1> QED
  BY <1>1, <1>2, <1>3

\* Without a transaction there is nothing to say of one.
LEMMA NoCallHolds ==
  ASSUME call' = NoCall
  PROVE  CallInv'
BY DEF NoCall, CallInv, RestoreCall, RecoveryCall, Forward, Rolling, Completing

\* A step that leaves files, journal and transaction alone keeps what is said of them.
LEMMA FilesKept ==
  ASSUME Recoverable, CallInv, UNCHANGED <<place, journal, call, stored>>
  PROVE  Recoverable' /\ CallInv'
<1>1. Recoverable'
  BY DEF Recoverable
<1>2. RestoreCall' /\ RecoveryCall'
  BY DEF CallInv, RestoreCall, RecoveryCall
<1>3. Forward'
  BY DEF CallInv, Forward, Journalled, Readys, Ins, OnlySettings
<1>4. Rolling'
  BY DEF CallInv, Rolling, Journalled, Backs, Before
<1>5. Completing'
  BY DEF CallInv, Completing, Journalled
<1> QED
  BY <1>1, <1>2, <1>3, <1>4, <1>5 DEF CallInv

\* A writer that gets the permit, and was not overtaken, finds the authority open and
\* nothing in progress.
LEMMA AcquiredIdle ==
  ASSUME RestoreInv, ~overtaken', NEW who, TryAcquireLock(who)
  PROVE  life = "up" /\ ~unavailable /\ call.who = "none" /\ call = NoCall /\ permit = "none"
<1>1. permit = "none" /\ checked # {} /\ ~unavailable
  BY DEF TryAcquireLock
<1>2. life = "up"
  BY <1>1 DEF RestoreInv, Roles
<1>3. call.who = "none"
  BY <1>1, <1>2 DEF RestoreInv, Roles, RTypes, FileTypes, ValueTypes, CallTypes
<1> QED
  BY <1>1, <1>2, <1>3 DEF RestoreInv, RTypes, FileTypes, ValueTypes, CallTypes

\* The record of no transaction has its shape.
LEMMA NoCallTypes ==
  ASSUME call' = NoCall
  PROVE  CallTypes'
<1>1. <<>> \in Seq([kind : KindSet, had : BOOLEAN]) /\ DOMAIN <<>> = {}
  OBVIOUS
<1>2. PartsOK(<<>>)
  BY <1>1 DEF PartsOK
<1> QED
  BY <1>2 DEF NoCall, CallTypes, CallFields

\* The steps that leave the files and the calls alone.
LEMMA QuietSteps ==
  ASSUME RestoreInv, ~overtaken',
         \/ \E who \in {"settings", "profile", "restore"} : TryAcquireCheck(who) \/ TryAcquireBusy(who)
         \/ Activate \/ PrepareRestore \/ SetStartupPlatform
  PROVE  RestoreInv'
<1>1. UNCHANGED <<place, journal, call, stored, life, unavailable, mem, drifted>>
  BY DEF TryAcquireCheck, TryAcquireBusy, Activate, PrepareRestore, SetStartupPlatform
<1>2. Recoverable' /\ CallInv'
  BY <1>1, FilesKept DEF RestoreInv
<1>3. IdleInv'
  BY <1>1 DEF RestoreInv, IdleInv, Stale
<1>4. used' \in Spent
  BY SpendCounts DEF RestoreInv, RTypes, FileTypes, ValueTypes, CallTypes, TryAcquireCheck, TryAcquireBusy, Activate, PrepareRestore,
         SetStartupPlatform
<1>5. \A p \in preview' : p.manifest \in Manifests
  <2>1. CASE PrepareRestore
    BY <2>1 DEF PrepareRestore
  <2>2. CASE ~PrepareRestore
    BY <2>2 DEF RestoreInv, RTypes, FileTypes, ValueTypes, CallTypes, TryAcquireCheck, TryAcquireBusy, Activate, SetStartupPlatform
  <2> QED
    BY <2>1, <2>2
<1>6. CASE SetStartupPlatform
  <2>1. life = "up" /\ ~unavailable /\ call.who = "none" /\ permit = "none"
    BY <1>6, AcquiredIdle DEF SetStartupPlatform
  <2>2. permit' \in {"none", "settings"} /\ login' \in BOOLEAN /\ checked' \subseteq checked
    BY <1>6, <2>1 DEF SetStartupPlatform, RestoreInv, RTypes, FileTypes, ValueTypes, CallTypes, TryAcquireLock
  <2>3. permit' # "settings" => login' = login
    BY <1>6 DEF SetStartupPlatform
  <2>4. RTypes'
    BY <1>1, <1>4, <1>5, <2>2 DEF RestoreInv, RTypes, FileTypes, ValueTypes, CallTypes
  <2>5. Roles'
    BY <1>1, <2>1, <2>2 DEF RestoreInv, Roles
  <2>6. LoginInv'
    BY <1>1, <2>1, <2>3 DEF RestoreInv, LoginInv
  <2> QED
    BY <1>2, <1>3, <2>4, <2>5, <2>6 DEF RestoreInv
<1>7. CASE ~SetStartupPlatform
  <2>1. UNCHANGED <<permit, login>> /\ (checked' # {} => life = "up")
    BY <1>7 DEF TryAcquireCheck, TryAcquireBusy, Activate, PrepareRestore, RestoreInv, Roles, TryAcquireLock
  <2>2. RTypes'
    BY <1>1, <1>4, <1>5, <2>1 DEF RestoreInv, RTypes, FileTypes, ValueTypes, CallTypes
  <2>3. Roles' /\ LoginInv'
    BY <1>1, <2>1 DEF RestoreInv, Roles, LoginInv
  <2> QED
    BY <1>2, <1>3, <2>2, <2>3 DEF RestoreInv
<1> QED
  BY <1>6, <1>7

\* A write of the settings or of the profiles, with no transaction in progress.
LEMMA IdleWrite ==
  ASSUME RestoreInv, life = "up", ~unavailable, call = NoCall,
         UNCHANGED <<journal, life, unavailable, call, checked, preview>> \/
           (UNCHANGED <<journal, life, unavailable, call, preview>> /\ checked' \subseteq checked),
         permit' = "none", used' \in Spent, mem' \in Prefs, login' \in BOOLEAN, drifted' \in BOOLEAN,
         LoginInv',
         IsPlace(place'), \A x \in Fields : place'["settings"][x] \subseteq Prefs,
         \A k \in KindSet : place'[k].original = place[k].original,
         place'["settings"].dest # {},
         DestOf(place') \in stored'
  PROVE  RestoreInv'
<1>0. call.who = "none"
  BY DEF NoCall
<1>1. Stale /\ UNCHANGED <<journal, life, unavailable, call, preview>> /\ checked' \subseteq checked
  BY <1>0 DEF RestoreInv, IdleInv
<1>2. RTypes'
  BY <1>1 DEF RestoreInv, RTypes, FileTypes, ValueTypes, CallTypes
<1>3. Roles'
  BY <1>0, <1>1 DEF RestoreInv, Roles
<1>4. Stale'
  BY <1>1 DEF Stale
<1>5. IdleInv'
  BY <1>4 DEF IdleInv
<1>6. Recoverable'
  <2>1. CASE journal.phase = "committing"
    <3>1. Prior(place', journal.parts) = DestOf(place')
      BY <1>1, <2>1, PriorStale DEF Stale, RestoreInv, RTypes, FileTypes, ValueTypes, CallTypes
    <3> QED
      BY <3>1, <1>1, <2>1 DEF Recoverable
  <2>2. CASE journal.phase # "committing"
    BY <1>1, <2>2 DEF Recoverable, Stale
  <2> QED
    BY <2>1, <2>2
<1>7. CallInv'
  BY <1>1, NoCallHolds
<1> QED
  BY <1>2, <1>3, <1>5, <1>6, <1>7 DEF RestoreInv

\* What a save of the settings leaves.
LEMMA UpdateWrites ==
  ASSUME RTypes, DestOf(place) \in stored, place["settings"].dest # {},
         NEW next \in Prefs, NEW outcome \in Outcomes, Update(next, outcome)
  PROVE  /\ mem' = IF outcome = "ok" THEN next ELSE mem
         /\ IsPlace(place') /\ \A x \in Fields : place'["settings"][x] \subseteq Prefs
         /\ \A k \in KindSet : place'[k].original = place[k].original
         /\ place'["settings"].dest # {}
         /\ DestOf(place') \in stored'
<1>1. CASE outcome = "early"
  BY <1>1 DEF Update, RTypes, FileTypes, ValueTypes, CallTypes
<1>2. CASE outcome \in {"ok", "late"}
  <2>1. place' = [place EXCEPT !["settings"].dest = {next}] /\ "settings" \in KindSet
    BY <1>2 DEF Update, Wrote, KindSet
  <2>2. /\ IsPlace(place') /\ place'["settings"].dest = {next}
        /\ \A x \in Fields \ {"dest"} : place'["settings"][x] = place["settings"][x]
        /\ \A k \in KindSet \ {"settings"} : place'[k] = place[k]
    BY <2>1 DEF RTypes, FileTypes, ValueTypes, CallTypes, IsPlace, Fields
  <2>3. DestOf(place') = [DestOf(place) EXCEPT !["settings"] = {next}]
    <3>1. \A k \in KindSet \ {"settings"} : place'[k].dest = place[k].dest
      BY <2>2
    <3> DEFINE d == DestOf(place)
               e == DestOf(place')
    <3>2. DOMAIN d = KindSet /\ e = [j \in KindSet |-> e[j]]
          /\ \A j \in KindSet : d[j] = place[j].dest /\ e[j] = place'[j].dest
      BY DEF DestOf
    <3> HIDE DEF d, e
    <3>3. \A j \in KindSet : e[j] = IF j = "settings" THEN {next} ELSE d[j]
      BY <2>2, <3>1, <3>2
    <3>4. e = [j \in KindSet |-> IF j = "settings" THEN {next} ELSE d[j]]
      BY <3>2, <3>3
    <3>5. e = [d EXCEPT !["settings"] = {next}]
      BY <3>2, <3>4
    <3> QED
      BY <3>5 DEF d, e
  <2>4. DestOf(place') \in With(stored, "settings", next)
    BY <2>3 DEF With
  <2>5. DestOf(place') \in stored'
    BY <1>2, <2>4 DEF Update
  <2>6. mem' = IF outcome = "ok" THEN next ELSE mem
    BY <1>2 DEF Update
  <2>7. \A x \in Fields : place'["settings"][x] \subseteq Prefs
    BY <2>2 DEF RTypes, FileTypes, ValueTypes, CallTypes
  <2>8. \A k \in KindSet : place'[k].original = place[k].original
    BY <2>2 DEF Fields
  <2> QED
    BY <2>2, <2>5, <2>6, <2>7, <2>8
<1> QED
  BY <1>1, <1>2 DEF Outcomes

\* A change of the settings other than the login item.
LEMMA SetPreferenceKeeps ==
  ASSUME RestoreInv, ~overtaken', SetPreference
  PROVE  RestoreInv'
<1>1. life = "up" /\ ~unavailable /\ call.who = "none" /\ call = NoCall /\ permit = "none"
  BY AcquiredIdle DEF SetPreference
<1>2. DestOf(place) \in stored /\ place["settings"].dest # {} /\ RTypes /\ mem \in Prefs /\ used \in Spent
  BY <1>1 DEF RestoreInv, IdleInv, RTypes, FileTypes, ValueTypes, CallTypes
<1>3. PICK outcome \in Outcomes :
        Charge(outcome, "writes") /\ Update([mem EXCEPT !.other = used.writes + 2], outcome)
  BY DEF SetPreference
<1>4. used.writes + 2 \in Nat
  BY <1>2 DEF Spent
<1>5. [mem EXCEPT !.other = used.writes + 2] \in Prefs
      /\ [mem EXCEPT !.other = used.writes + 2].login = mem.login
  BY <1>2, <1>4 DEF Prefs
<1>6. mem' \in Prefs /\ mem'.login = mem.login
  BY <1>2, <1>3, <1>5, UpdateWrites
<1>7. used' \in Spent
  <2> DEFINE n == IF outcome = "ok" THEN 0 ELSE 1
  <2>1. used.writes + 1 \in Nat /\ used.faults + n \in Nat
    BY <1>2 DEF Spent
  <2>2. used' = [[used EXCEPT !.writes = used.writes + 1] EXCEPT !.faults = used.faults + n]
    BY <1>2, <1>3 DEF Charge, Spent
  <2> HIDE DEF n
  <2>3. [used EXCEPT !.writes = used.writes + 1] \in Spent
    BY <1>2, <2>1 DEF Spent
  <2> QED
    BY <2>1, <2>2, <2>3 DEF Spent
<1>8. UNCHANGED <<journal, life, unavailable, call, preview, permit, login, drifted>>
      /\ checked' \subseteq checked
  BY DEF SetPreference, TryAcquireLock
<1>9. LoginInv'
  BY <1>1, <1>6, <1>8 DEF RestoreInv, LoginInv
<1>10. login' \in BOOLEAN /\ drifted' \in BOOLEAN
  BY <1>2, <1>8 DEF RTypes, FileTypes, ValueTypes, CallTypes
<1>11. /\ IsPlace(place') /\ \A x \in Fields : place'["settings"][x] \subseteq Prefs
       /\ \A k \in KindSet : place'[k].original = place[k].original
       /\ place'["settings"].dest # {}
       /\ DestOf(place') \in stored'
  BY <1>2, <1>3, <1>5, UpdateWrites
<1> QED
  BY <1>1, <1>6, <1>7, <1>8, <1>9, <1>10, <1>11, IdleWrite

\* The save after the login item was set, which may take the item back.
LEMMA SetStartupSaveKeeps ==
  ASSUME RestoreInv, SetStartupSave
  PROVE  RestoreInv'
<1>1. life = "up" /\ ~unavailable /\ call.who = "none" /\ call = NoCall
  <2>1. life = "up" /\ ~unavailable /\ call.who # "restore" /\ call.who # "recovery"
    BY DEF SetStartupSave, RestoreInv, Roles
  <2> QED
    BY <2>1 DEF RestoreInv, RTypes, FileTypes, ValueTypes, CallTypes
<1>2. DestOf(place) \in stored /\ place["settings"].dest # {} /\ RTypes /\ mem \in Prefs /\ used \in Spent
      /\ login \in BOOLEAN /\ drifted \in BOOLEAN
  BY <1>1 DEF RestoreInv, IdleInv, RTypes, FileTypes, ValueTypes, CallTypes
<1>3. PICK outcome \in Outcomes, undone \in BOOLEAN :
        /\ undone \/ outcome # "ok"
        /\ used' = [used EXCEPT !.faults = @ + ((IF outcome = "ok" THEN 0 ELSE 1) + (IF undone THEN 0 ELSE 1))]
        /\ Update([mem EXCEPT !.login = login], outcome)
        /\ login' = IF outcome # "ok" /\ undone THEN mem.login ELSE login
        /\ drifted' = (drifted \/ ~undone)
  BY DEF SetStartupSave
<1>5. [mem EXCEPT !.login = login] \in Prefs /\ [mem EXCEPT !.login = login].login = login
      /\ mem.login \in BOOLEAN
  BY <1>2 DEF Prefs
<1>6. mem' = IF outcome = "ok" THEN [mem EXCEPT !.login = login] ELSE mem
  BY <1>2, <1>3, <1>5, UpdateWrites
<1>7. used' \in Spent
  <2>1. (IF outcome = "ok" THEN 0 ELSE 1) + (IF undone THEN 0 ELSE 1) \in Nat
    OBVIOUS
  <2> QED
    BY <1>2, <1>3, <2>1, SpendCounts
<1>8. UNCHANGED <<journal, life, unavailable, call, preview, checked>> /\ permit' = "none"
  BY DEF SetStartupSave
<1>9. ~drifted' => login' = mem'.login
  BY <1>2, <1>3, <1>5, <1>6
<1>10. LoginInv'
  BY <1>9 DEF LoginInv
<1>11. login' \in BOOLEAN /\ drifted' \in BOOLEAN /\ mem' \in Prefs
  BY <1>2, <1>3, <1>5, <1>6
<1>12. /\ IsPlace(place') /\ \A x \in Fields : place'["settings"][x] \subseteq Prefs
       /\ \A k \in KindSet : place'[k].original = place[k].original
       /\ place'["settings"].dest # {}
       /\ DestOf(place') \in stored'
  BY <1>2, <1>3, <1>5, UpdateWrites
<1> QED
  BY <1>1, <1>7, <1>8, <1>10, <1>11, <1>12, IdleWrite

\* A write of the profile store and of its projection.
LEMMA ProfileWriteKeeps ==
  ASSUME RestoreInv, ~overtaken', ProfileWrite
  PROVE  RestoreInv'
<1>1. life = "up" /\ ~unavailable /\ call.who = "none" /\ call = NoCall /\ permit = "none"
  BY AcquiredIdle DEF ProfileWrite
<1>2. DestOf(place) \in stored /\ place["settings"].dest # {} /\ RTypes /\ mem \in Prefs /\ used \in Spent
      /\ login \in BOOLEAN /\ drifted \in BOOLEAN /\ IsPlace(place)
  BY <1>1 DEF RestoreInv, IdleInv, RTypes, FileTypes, ValueTypes, CallTypes
<1>3. \E next :
        /\ place' = [place EXCEPT !["store"].dest = {next}, !["projection"].dest = {DOMAIN next}]
        /\ stored' = {[d EXCEPT !["store"] = {next}, !["projection"] = {DOMAIN next}] : d \in stored}
  <2> DEFINE n(id) == IF id \in DOMAIN Profiles THEN Without(Profiles, {id})
                      ELSE Put(Profiles, id, [rev |-> used.writes + 2, patch |-> 0])
  <2>1. PICK id \in Ids :
          /\ place' = [place EXCEPT !["store"].dest = {n(id)}, !["projection"].dest = {DOMAIN n(id)}]
          /\ stored' = {[d EXCEPT !["store"] = {n(id)}, !["projection"] = {DOMAIN n(id)}] : d \in stored}
    BY DEF ProfileWrite
  <2> HIDE DEF n
  <2> QED
    BY <2>1
<1> PICK next :
        /\ place' = [place EXCEPT !["store"].dest = {next}, !["projection"].dest = {DOMAIN next}]
        /\ stored' = {[d EXCEPT !["store"] = {next}, !["projection"] = {DOMAIN next}] : d \in stored}
  BY <1>3
<1>4. /\ IsPlace(place') /\ place'["settings"] = place["settings"]
      /\ \A k \in {"store", "projection"} : place'[k].original = place[k].original
      /\ place'["store"].dest = {next} /\ place'["projection"].dest = {DOMAIN next}
  BY <1>2 DEF IsPlace, Fields, KindSet
<1>5. DestOf(place') = [DestOf(place) EXCEPT !["store"] = {next}, !["projection"] = {DOMAIN next}]
  <2> DEFINE d == DestOf(place)
             e == DestOf(place')
  <2>1. DOMAIN d = KindSet /\ e = [j \in KindSet |-> e[j]]
    BY DEF DestOf
  <2>3. e["store"] = place'["store"].dest /\ e["projection"] = place'["projection"].dest
        /\ e["settings"] = place'["settings"].dest /\ d["settings"] = place["settings"].dest
    BY DEF DestOf, KindSet
  <2>4. e["store"] = {next} /\ e["projection"] = {DOMAIN next} /\ e["settings"] = d["settings"]
    BY <1>4, <2>3
  <2> HIDE DEF d, e
  <2>2. e = [d EXCEPT !["store"] = {next}, !["projection"] = {DOMAIN next}]
    <3>1. e = [j \in KindSet |-> IF j = "store" THEN {next} ELSE IF j = "projection" THEN {DOMAIN next} ELSE d[j]]
      <4>1. \A j \in KindSet :
              e[j] = IF j = "store" THEN {next} ELSE IF j = "projection" THEN {DOMAIN next} ELSE d[j]
        BY <2>4 DEF KindSet
      <4> QED
        BY <2>1, <4>1
    <3> QED
      BY <2>1, <3>1
  <2> QED
    BY <2>2 DEF d, e
<1>6. DestOf(place') \in stored'
  <2> DEFINE e(d) == [d EXCEPT !["store"] = {next}, !["projection"] = {DOMAIN next}]
  <2>1. stored' = {e(d) : d \in stored} /\ DestOf(place') = e(DestOf(place))
    BY <1>5
  <2> HIDE DEF e
  <2> QED
    BY <1>2, <2>1
<1>7. used' \in Spent
  BY <1>2, SpendCounts DEF ProfileWrite
<1>8. UNCHANGED <<journal, life, unavailable, call, preview, permit, login, drifted, mem>>
      /\ checked' \subseteq checked
  BY DEF ProfileWrite, TryAcquireLock
<1>9. LoginInv'
  BY <1>8 DEF RestoreInv, LoginInv
<1>10. \A k \in KindSet : place'[k].original = place[k].original
  BY <1>4 DEF KindSet
<1>11. place'["settings"].dest # {} /\ \A x \in Fields : place'["settings"][x] \subseteq Prefs
  BY <1>2, <1>4 DEF RTypes, FileTypes, ValueTypes, CallTypes
<1> QED
  BY <1>1, <1>2, <1>4, <1>6, <1>7, <1>8, <1>9, <1>10, <1>11, IdleWrite

----------------------------------------------------------------------------
(* The ways a step of a transaction goes on.                                *)

\* The next step of the same transaction.
LEMMA ContinueIs ==
  ASSUME RTypes, Continue
  PROVE  /\ DOMAIN call' = CallFields /\ call'.step = Following(call) /\ call'.who = call.who
         /\ call'.parts = call.parts /\ call'.data = call.data /\ call'.before = call.before
         /\ call'.after = call.after /\ call'.rolling = call.rolling
BY DEF Continue, RTypes, CallTypes, CallFields

\* The first step of a rollback.
LEMMA RollbackIs ==
  ASSUME RTypes, Rollback
  PROVE  /\ DOMAIN call' = CallFields /\ call'.step = At("rolling-back", 0) /\ call'.who = call.who
         /\ call'.parts = call.parts /\ call'.data = call.data /\ call'.before = call.before
         /\ call'.after = call.after /\ call'.rolling = TRUE
BY DEF Rollback, RTypes, CallTypes, CallFields

Others == <<mem, login, checked, unavailable, preview, drifted>>

\* A step that stays in its transaction.
LEMMA CallStep ==
  ASSUME RestoreInv, call.who # "none", UNCHANGED <<permit, stored, life, Others>>, used' \in Spent,
         FileTypes', DOMAIN call' = CallFields, call'.who = call.who, call'.parts = call.parts,
         call'.data = call.data, call'.rolling \in BOOLEAN, Recoverable', CallInv'
  PROVE  RestoreInv'
<1>1. RTypes'
  BY DEF RestoreInv, RTypes, ValueTypes, CallTypes, Others
<1>2. Roles'
  BY DEF RestoreInv, Roles, Others, RTypes, CallTypes
<1>3. IdleInv' /\ LoginInv'
  BY DEF RestoreInv, IdleInv, LoginInv, Others
<1> QED
  BY <1>1, <1>2, <1>3 DEF RestoreInv

\* RecoveryRequired.
LEMMA FatalHolds ==
  ASSUME RestoreInv, call.who # "none", Fatal, UNCHANGED <<mem, login, checked, preview, drifted>>,
         used' \in Spent, FileTypes', Recoverable'
  PROVE  RestoreInv'
<1>1. call' = NoCall /\ permit' = (IF permit = "restore" THEN "none" ELSE permit) /\ stored' = stored
  BY DEF Fatal, EndCall
<1>2. CASE call.who = "restore"
  <2>1. life' = life /\ unavailable' = TRUE /\ life = "up" /\ permit = "restore"
    BY <1>2 DEF Fatal, RestoreInv, Roles
  <2>2. ValueTypes'
    BY <1>1, <2>1 DEF RestoreInv, RTypes, ValueTypes
  <2>3. Roles' /\ IdleInv' /\ LoginInv'
    BY <1>1, <2>1 DEF RestoreInv, Roles, IdleInv, LoginInv, NoCall
  <2> QED
    BY <1>1, <2>2, <2>3, NoCallHolds, NoCallTypes DEF RestoreInv, RTypes
<1>3. CASE call.who = "recovery"
  <2>1. life' = "down" /\ unavailable' = unavailable /\ life = "starting" /\ permit = "none" /\ checked = {}
    BY <1>3 DEF Fatal, RestoreInv, Roles, RTypes, ValueTypes
  <2>2. ValueTypes'
    BY <1>1, <2>1 DEF RestoreInv, RTypes, ValueTypes
  <2>3. Roles' /\ IdleInv' /\ LoginInv'
    BY <1>1, <2>1 DEF RestoreInv, Roles, IdleInv, LoginInv, NoCall
  <2> QED
    BY <1>1, <2>2, <2>3, NoCallHolds, NoCallTypes DEF RestoreInv, RTypes
<1> QED
  BY <1>2, <1>3 DEF RestoreInv, RTypes, CallTypes

\* The end of a transaction: the desktop goes on with the files as they are.
LEMMA EndHolds ==
  ASSUME RestoreInv, call.who = "restore", EndCall, UNCHANGED <<life, unavailable, login, checked, preview>>,
         used' \in Spent, FileTypes', mem' \in Prefs, drifted' \in BOOLEAN,
         ~drifted' => mem' = mem /\ drifted' = drifted,
         DestOf(place') \in stored', place'["settings"].dest # {}, Stale'
  PROVE  RestoreInv'
<1>1. call' = NoCall /\ permit' = "none" /\ life = "up" /\ permit = "restore" /\ ~unavailable
  BY DEF EndCall, RestoreInv, Roles
<1>2. ValueTypes'
  BY <1>1 DEF RestoreInv, RTypes, ValueTypes
<1>3. Roles' /\ IdleInv' /\ LoginInv'
  BY <1>1 DEF RestoreInv, Roles, IdleInv, LoginInv, NoCall
<1>4. Recoverable'
  <2>1. CASE journal'.phase = "committing"
    <3>1. Prior(place', journal'.parts) = DestOf(place')
      BY <2>1, PriorStale DEF Stale, FileTypes
    <3> QED
      BY <3>1, <2>1 DEF Recoverable
  <2>2. CASE journal'.phase # "committing"
    BY <2>2 DEF Recoverable, Stale
  <2> QED
    BY <2>1, <2>2
<1> QED
  BY <1>1, <1>2, <1>3, <1>4, NoCallHolds, NoCallTypes DEF RestoreInv, RTypes

\* A failure before the commit is settled turns the transaction round.
LEMMA RollbackHolds ==
  ASSUME RestoreInv, call.who = "restore", Rollback, UNCHANGED <<permit, stored, life, Others>>,
         used' \in Spent, FileTypes', Recoverable',
         journal'.phase # "none", journal'.parts = call.parts,
         Prior(place', call.parts) \in call.before,
         "settings" \notin KindsOf(call.parts) => place'["settings"].dest # {}
  PROVE  RestoreInv'
<1>1. /\ DOMAIN call' = CallFields /\ call'.step = At("rolling-back", 0) /\ call'.who = call.who
      /\ call'.parts = call.parts /\ call'.data = call.data /\ call'.before = call.before
      /\ call'.after = call.after /\ call'.rolling = TRUE
  BY RollbackIs DEF RestoreInv
<1>2. RestoreCall' /\ RecoveryCall' /\ Forward' /\ Completing'
  BY <1>1 DEF RestoreInv, CallInv, RestoreCall, RecoveryCall, Forward, Completing
<1>3. call'.step.do = "rolling-back" /\ Before' = call.before
  BY <1>1 DEF At, Before
<1>4. Rolling'
  BY <1>1, <1>3 DEF Rolling, DropSteps
<1> QED
  BY <1>1, <1>2, <1>4, CallStep DEF CallInv

----------------------------------------------------------------------------
(* The steps of a restore, as far as it goes forward.                       *)

\* Staged files are no part of what was, is or will be.
LEMMA StagedOnly ==
  ASSUME NEW pl, NEW q,
         \A k \in KindSet : q[k].dest = pl[k].dest /\ q[k].original = pl[k].original
  PROVE  /\ DestOf(q) = DestOf(pl) /\ \A p : Prior(q, p) = Prior(pl, p)
         /\ \A data : Later(q, data) = Later(pl, data)
BY DEF DestOf, Prior, Later

\* The files as they are, in two states that agree on them.
LEMMA DestSame ==
  ASSUME NEW pl, NEW q, \A k \in KindSet : q[k].dest = pl[k].dest
  PROVE  DestOf(q) = DestOf(pl) /\ \A data : Later(q, data) = Later(pl, data)
BY DEF DestOf, Later

\* Once every component is in, the files are what the commit promises.
LEMMA InsLater ==
  ASSUME RestoreInv, call.who = "restore", Ins(Len(call.parts) + 1)
  PROVE  DestOf(place) = Later(place, call.data)
<1>1. DOMAIN call.data = KindsOf(call.parts)
  BY DEF RestoreInv, CallInv, RestoreCall
<1>2. Len(call.parts) \in Nat /\ DOMAIN call.parts = 1..Len(call.parts)
  BY PartsFacts DEF RestoreInv, RTypes, CallTypes
<1>3. \A j \in DOMAIN call.parts : place[call.parts[j].kind].dest = {call.data[call.parts[j].kind]}
  BY <1>2 DEF Ins, In
<1>4. \A k \in KindsOf(call.parts) : place[k].dest = {call.data[k]}
  BY <1>3 DEF KindsOf
<1> QED
  BY <1>1, <1>4 DEF DestOf, Later

\* A restore always has preferences on the disk, or will have them again.
LEMMA SettingsStay ==
  ASSUME RestoreInv, call.who = "restore",
         \A j \in DOMAIN call.parts : (place[call.parts[j].kind].dest # {}) = call.parts[j].had
  PROVE  place["settings"].dest # {}
<1>1. CASE "settings" \notin KindsOf(call.parts)
  BY <1>1 DEF RestoreInv, CallInv, RestoreCall
<1>2. CASE "settings" \in KindsOf(call.parts)
  <2>1. PICK j \in DOMAIN call.parts : call.parts[j].kind = "settings"
    BY <1>2 DEF KindsOf
  <2>2. call.parts[j].had
    BY <2>1 DEF RestoreInv, CallInv, RestoreCall
  <2> QED
    BY <2>1, <2>2
<1> QED
  BY <1>1, <1>2

\* Which transactions take which steps.
LEMMA WhoIs ==
  ASSUME RestoreInv, call.who # "none"
  PROVE  /\ call.who \in {"restore", "recovery"} /\ RTypes /\ PartsOK(call.parts) /\ IsPlace(place)
         /\ FileTypes /\ used \in Spent /\ call.rolling \in BOOLEAN
         /\ call.step.do \in {"Stage", "Accept"} \cup ForwardSteps => call.who = "restore" /\ ~call.rolling
         /\ call.step.do \in {"rolling-back", "Undo"} => call.rolling
         /\ call.who = "recovery" => DOMAIN call.data = {}
BY DEF RestoreInv, RTypes, CallTypes, FileTypes, ValueTypes, CallInv, Forward, Rolling, Completing, RecoveryCall,
       ForwardSteps, DropSteps

\* A step that may fail counts at most one fault.
LEMMA MayFailCounts ==
  ASSUME used \in Spent, Spend("faults") \/ UNCHANGED used
  PROVE  used' \in Spent
BY SpendCounts

\* Where the next component is to be moved.
LEMMA MoveFromHolds ==
  ASSUME RestoreInv, call.who = "restore", ~call.rolling,
         DOMAIN call' = CallFields, call'.who = call.who,
         call'.parts = call.parts, call'.data = call.data, call'.before = call.before,
         call'.after = call.after, call'.rolling = call.rolling,
         UNCHANGED <<permit, stored, life, Others>>, used' \in Spent,
         NEW i \in 1..(Len(call.parts) + 1), call'.step = MoveFrom(call.parts, i),
         FileTypes', Journalled("committing")', Ins(i)', Readys(i - 1)',
         Prior(place', call.parts) \in call.before, Later(place', call.data) \in call.after,
         "settings" \notin KindsOf(call.parts) => place'["settings"].dest # {}
  PROVE  RestoreInv'
<1>1. Len(call.parts) \in Nat /\ DOMAIN call.parts = 1..Len(call.parts)
      /\ \A j \in DOMAIN call.parts : call.parts[j].had \in BOOLEAN
  BY PartsFacts DEF RestoreInv, RTypes, CallTypes
<1>0. call'.rolling \in BOOLEAN /\ call.who # "none"
  BY DEF RestoreInv, RTypes, CallTypes
<1>2. RestoreCall' /\ RecoveryCall' /\ Rolling' /\ Completing'
  BY DEF RestoreInv, CallInv, RestoreCall, RecoveryCall, Rolling, Completing
<1>3. Recoverable'
  BY <1>2 DEF Recoverable, Journalled, RestoreCall
<1>4. CASE i > Len(call.parts)
  <2>1. i = Len(call.parts) + 1 /\ call'.step.do = "committed"
    BY <1>1, <1>4 DEF MoveFrom, At
  <2>2. Forward'
    BY <2>1 DEF Forward, ForwardSteps, DropSteps
  <2> QED
    BY <1>0, <1>2, <1>3, <2>2, CallStep DEF CallInv
<1>5. CASE ~(i > Len(call.parts)) /\ call.parts[i].had
  <2>1. i \in DOMAIN call.parts /\ call'.step.do = "MoveOut" /\ call'.step.i = i
    BY <1>1, <1>5 DEF MoveFrom, At
  <2>2. Forward'
    BY <1>1, <1>5, <2>1 DEF Forward, ForwardSteps, DropSteps
  <2> QED
    BY <1>0, <1>2, <1>3, <2>2, CallStep DEF CallInv
<1>6. CASE ~(i > Len(call.parts)) /\ ~call.parts[i].had
  <2>1. i \in DOMAIN call.parts /\ call'.step.do = "MoveIn" /\ call'.step.i = i
    BY <1>1, <1>6 DEF MoveFrom, At
  <2>2. Readys(i)' /\ Ready(place', call'.data, call'.parts[i])
    BY <1>1, <2>1 DEF Readys
  <2>3. place'[call'.parts[i].kind].staged = {call'.data[call'.parts[i].kind]}
    BY <2>2 DEF Ready
  <2>4. Forward'
    BY <1>1, <1>6, <2>1, <2>2, <2>3 DEF Forward, ForwardSteps, DropSteps
  <2> QED
    BY <1>0, <1>2, <1>3, <2>4, CallStep DEF CallInv
<1> QED
  BY <1>4, <1>5, <1>6

\* From one component in place to the next.
LEMMA MoveFromNext ==
  ASSUME RestoreInv, call.who = "restore", ~call.rolling,
         DOMAIN call' = CallFields, call'.who = call.who,
         call'.parts = call.parts, call'.data = call.data, call'.before = call.before,
         call'.after = call.after, call'.rolling = call.rolling,
         UNCHANGED <<permit, stored, life, Others>>, used' \in Spent,
         NEW i \in 1..Len(call.parts), call'.step = MoveFrom(call.parts, i + 1),
         FileTypes', Journalled("committing")',
         \A j \in DOMAIN call.parts : j < i + 1 => In(place', call.data, call.parts[j]),
         \A j \in DOMAIN call.parts : j > i => Ready(place', call.data, call.parts[j]),
         Prior(place', call.parts) \in call.before, Later(place', call.data) \in call.after,
         "settings" \notin KindsOf(call.parts) => place'["settings"].dest # {}
  PROVE  RestoreInv'
<1> DEFINE m == i + 1
<1>1. Len(call.parts) \in Nat
  BY PartsFacts DEF RestoreInv, RTypes, CallTypes
<1>2. m \in 1..(Len(call.parts) + 1) /\ m - 1 = i
  BY <1>1
<1>3. Ins(m)' /\ Readys(i)'
  BY DEF Ins, Readys
<1> HIDE DEF m
<1>4. Readys(m - 1)'
  BY <1>2, <1>3
<1>5. call'.step = MoveFrom(call.parts, m)
  BY DEF m
<1> QED
  BY <1>2, <1>3, <1>4, <1>5, MoveFromHolds

\* The new profile store and settings are written beside the old ones.
LEMMA StageDataKeeps ==
  ASSUME RestoreInv, StageData
  PROVE  RestoreInv'
<1> DEFINE do == call.step.do
<1>1. call.who = "restore" /\ ~call.rolling /\ RTypes /\ PartsOK(call.parts) /\ IsPlace(place)
      /\ FileTypes /\ used \in Spent /\ call.rolling \in BOOLEAN /\ do = "Stage"
  BY WhoIs DEF StageData, Doing
<1>2. /\ journal.phase = "none" /\ OnlySettings /\ DestOf(place) \in call.before
      /\ \A j \in DOMAIN call.parts : (place[call.parts[j].kind].dest # {}) = call.parts[j].had
  BY <1>1 DEF RestoreInv, CallInv, Forward
<1>3. place["settings"].dest # {}
  BY <1>1, <1>2, SettingsStay
<1>4. UNCHANGED <<journal, Others>>
  BY DEF StageData, Others
<1>5. CASE /\ place' = [k \in KindSet |-> [place[k] EXCEPT !.original = {},
                          !.staged = IF k \in DOMAIN call.data \ {"projection"} THEN {call.data[k]} ELSE {}]]
           /\ Continue /\ UNCHANGED <<permit, stored, life, used>>
  <2>1. /\ IsPlace(place')
        /\ \A k \in KindSet : /\ place'[k].dest = place[k].dest /\ place'[k].original = {}
                              /\ place'[k].staged = IF k \in DOMAIN call.data \ {"projection"}
                                                    THEN {call.data[k]} ELSE {}
    BY <1>1, <1>5 DEF IsPlace, Fields
  <2>2. /\ DOMAIN call' = CallFields /\ call'.step = Following(call) /\ call'.who = call.who
        /\ call'.parts = call.parts /\ call'.data = call.data /\ call'.before = call.before
        /\ call'.after = call.after /\ call'.rolling = call.rolling
    BY <1>1, <1>5, ContinueIs
  <2>3. call'.step.do = "Begin"
    BY <1>1, <2>2 DEF Following, At
  <2>4. FileTypes'
    <3>1. /\ "settings" \in KindSet
          /\ \/ "settings" \in DOMAIN call.data /\ place'["settings"].staged = {call.data["settings"]}
             \/ place'["settings"].staged = {}
          /\ place'["settings"].dest = place["settings"].dest /\ place'["settings"].original = {}
      BY <2>1 DEF KindSet
    <3>2. "settings" \in DOMAIN call.data => call.data["settings"] \in Prefs
      BY <1>1 DEF RTypes, CallTypes
    <3>3. \A x \in Fields : place'["settings"][x] \subseteq Prefs
      BY <1>1, <3>1, <3>2 DEF FileTypes, Fields
    <3> QED
      BY <1>1, <1>4, <2>1, <3>3 DEF FileTypes
  <2>5. \A j \in DOMAIN call.parts : call.parts[j].kind \in KindSet /\ call.parts[j].kind \in DOMAIN call.data
    BY <1>1, PartsFacts DEF RestoreInv, CallInv, RestoreCall, KindsOf
  <2>6. \A j \in DOMAIN call.parts :
          /\ Back(place', call.parts[j])
          /\ call.parts[j].kind # "projection" => Ready(place', call.data, call.parts[j])
    BY <1>2, <2>1, <2>5 DEF Back, Ready
  <2>7. DestOf(place') = DestOf(place) /\ Later(place', call.data) = Later(place, call.data)
    <3>1. \A k \in KindSet : place'[k].dest = place[k].dest
      BY <2>1
    <3> QED
      BY <3>1, DestSame
  <2>8. Prior(place', call.parts) \in call.before
    BY <1>1, <1>2, <2>6, <2>7, PriorBack
  <2>9. RestoreCall' /\ RecoveryCall' /\ Rolling' /\ Completing'
    BY <1>1, <1>3, <1>5, <2>1, <2>2, <2>7
       DEF RestoreInv, CallInv, RestoreCall, RecoveryCall, Rolling, Completing, KindSet
  <2>10. Forward'
    BY <1>2, <1>4, <2>1, <2>2, <2>3, <2>6, <2>8 DEF Forward, ForwardSteps, DropSteps, OnlySettings
  <2>11. Recoverable'
    BY <1>1, <1>2, <1>4, <1>5, <2>7 DEF Recoverable, RestoreInv, CallInv, RestoreCall
  <2> QED
    BY <1>1, <1>4, <1>5, <2>2, <2>4, <2>9, <2>10, <2>11, CallStep DEF CallInv
<1>6. CASE /\ Spend("faults") /\ UNCHANGED place
           /\ EndCall /\ stored' = call.before /\ UNCHANGED life
  <2>1. used' \in Spent
    BY <1>1, <1>6, SpendCounts
  <2>2. Stale' /\ FileTypes'
    BY <1>1, <1>2, <1>4, <1>6 DEF Stale, FileTypes
  <2>3. mem' \in Prefs /\ drifted' \in BOOLEAN /\ UNCHANGED <<life, unavailable, login, checked, preview, mem, drifted>>
    BY <1>1, <1>4, <1>6 DEF RTypes, ValueTypes, Others
  <2> QED
    BY <1>1, <1>2, <1>3, <1>6, <2>1, <2>2, <2>3, EndHolds
<1> QED
  BY <1>5, <1>6 DEF StageData

\* The first write of the journal, which may fail and still leave it.
LEMMA BeginJournalKeeps ==
  ASSUME RestoreInv, BeginJournal
  PROVE  RestoreInv'
<1>1. call.who = "restore" /\ ~call.rolling /\ RTypes /\ PartsOK(call.parts) /\ IsPlace(place)
      /\ FileTypes /\ used \in Spent /\ call.rolling \in BOOLEAN /\ call.step.do = "Begin"
  BY WhoIs DEF BeginJournal, Doing, ForwardSteps
<1>2. /\ journal.phase = "none" /\ OnlySettings /\ Prior(place, call.parts) \in call.before
      /\ \A k \in KindSet : place[k].original = {}
      /\ \A j \in DOMAIN call.parts :
           /\ Back(place, call.parts[j])
           /\ call.parts[j].kind # "projection" => Ready(place, call.data, call.parts[j])
  BY <1>1 DEF RestoreInv, CallInv, Forward, ForwardSteps
<1>3. DestOf(place) \in call.before
  BY <1>1, <1>2, PriorBack
<1>4. place["settings"].dest # {}
  BY <1>1, <1>2, SettingsStay DEF Back
<1>5. UNCHANGED Others
  BY DEF BeginJournal, Others
<1>6. RestoreCall
  BY DEF RestoreInv, CallInv
<1> DEFINE written == [phase |-> FirstPhase, parts |-> call.parts]
<1>7. /\ written.phase \in {"staging-projection", "committing"} /\ written.parts = call.parts
      /\ DOMAIN written = {"phase", "parts"}
      /\ written.phase = "committing" <=> "projection" \notin KindsOf(call.parts)
  BY DEF FirstPhase
<1> HIDE DEF written
<1>8. CASE /\ journal' = written
           /\ Continue /\ UNCHANGED <<place, permit, stored, life, used>>
  <2>2. /\ DOMAIN call' = CallFields /\ call'.step = Following(call) /\ call'.who = call.who
        /\ call'.parts = call.parts /\ call'.data = call.data /\ call'.before = call.before
        /\ call'.after = call.after /\ call'.rolling = call.rolling
    BY <1>1, <1>8, ContinueIs
  <2>3. FileTypes'
    BY <1>1, <1>7, <1>8 DEF FileTypes, Phases
  <2>4. CASE "projection" \in KindsOf(call.parts)
    <3>1. call'.step.do = "Project" /\ Journalled("staging-projection")'
      BY <1>1, <1>7, <1>8, <2>2, <2>4 DEF Following, At, Journalled
    <3>2. RestoreCall' /\ RecoveryCall' /\ Rolling' /\ Completing'
      BY <1>1, <1>6, <1>8, <2>2 DEF RestoreCall, RecoveryCall, Rolling, Completing
    <3>3. Forward'
      BY <1>2, <1>8, <2>2, <2>4, <3>1 DEF Forward, ForwardSteps, DropSteps
    <3>4. Recoverable'
      BY <1>3, <1>6, <1>1, <1>8, <3>1 DEF Recoverable, Journalled, RestoreCall
    <3> QED
      BY <1>1, <1>5, <1>8, <2>2, <2>3, <3>2, <3>3, <3>4, CallStep DEF CallInv
  <2>5. CASE "projection" \notin KindsOf(call.parts)
    <3>1. call'.step = MoveFrom(call.parts, 1) /\ Journalled("committing")'
      BY <1>1, <1>7, <1>8, <2>2, <2>5 DEF Following, Journalled
    <3>2. \A j \in DOMAIN call.parts : Ready(place, call.data, call.parts[j])
      BY <1>2, <2>5 DEF KindsOf
    <3>3. Len(call.parts) \in Nat /\ DOMAIN call.parts = 1..Len(call.parts)
      BY <1>1, PartsFacts
    <3>4. Ins(1)' /\ Readys(1 - 1)' /\ 1 \in 1..(Len(call.parts) + 1)
      BY <1>8, <2>2, <3>2, <3>3 DEF Ins, Readys
    <3>5. Prior(place', call.parts) \in call.before /\ Later(place', call.data) \in call.after
          /\ place'["settings"].dest # {}
      BY <1>1, <1>2, <1>4, <1>6, <1>8 DEF RestoreCall
    <3> QED
      BY <1>1, <1>5, <1>8, <2>2, <2>3, <3>1, <3>4, <3>5, MoveFromHolds
  <2> QED
    BY <2>4, <2>5
<1>9. CASE /\ Spend("faults")
           /\ journal' = written \/ UNCHANGED journal
           /\ place' = Discard(Discard(place, "staged"), "original")
           /\ EndCall /\ stored' = call.before /\ UNCHANGED life
  <2>1. used' \in Spent
    BY <1>1, <1>9, SpendCounts
  <2>2. IsPlace(Discard(place, "staged")) /\ \A k \in KindSet :
          /\ Discard(place, "staged")[k].staged = {}
          /\ \A x \in Fields \ {"staged"} : Discard(place, "staged")[k][x] = place[k][x]
    BY <1>1, DiscardIs DEF Fields
  <2>3. IsPlace(place') /\ \A k \in KindSet :
          /\ place'[k].original = {}
          /\ \A x \in Fields \ {"original"} : place'[k][x] = Discard(place, "staged")[k][x]
    BY <1>9, <2>2, DiscardIs DEF Fields
  <2>4. \A k \in KindSet : place'[k].original = {} /\ place'[k].staged = {} /\ place'[k].dest = place[k].dest
    BY <2>2, <2>3 DEF Fields
  <2>5. \A x \in Fields : place'["settings"][x] \subseteq Prefs
    BY <1>1, <2>4 DEF FileTypes, Fields, KindSet
  <2>6. FileTypes'
    BY <1>1, <1>7, <1>9, <2>3, <2>5 DEF FileTypes, Phases
  <2>7. Stale'
    BY <1>2, <1>7, <1>9, <2>4 DEF Stale, OnlySettings
  <2>8. DestOf(place') = DestOf(place) /\ place'["settings"].dest # {}
    BY <1>4, <2>4, DestSame DEF KindSet
  <2>9. mem' \in Prefs /\ drifted' \in BOOLEAN /\ UNCHANGED <<life, unavailable, login, checked, preview, mem, drifted>>
    BY <1>1, <1>5, <1>9 DEF RTypes, ValueTypes, Others
  <2> QED
    BY <1>1, <1>3, <1>9, <2>1, <2>6, <2>7, <2>8, <2>9, EndHolds
<1> QED
  BY <1>8, <1>9 DEF BeginJournal, written

\* The projection of the new profiles is staged.
LEMMA StageProfileProjectionKeeps ==
  ASSUME RestoreInv, StageProfileProjection
  PROVE  RestoreInv'
<1>1. call.who = "restore" /\ ~call.rolling /\ RTypes /\ PartsOK(call.parts) /\ IsPlace(place)
      /\ FileTypes /\ used \in Spent /\ call.rolling \in BOOLEAN /\ call.step.do = "Project"
  BY WhoIs DEF StageProfileProjection, Doing, ForwardSteps
<1>2. /\ Prior(place, call.parts) \in call.before
      /\ Journalled("staging-projection") /\ "projection" \in KindsOf(call.parts)
      /\ \A j \in DOMAIN call.parts :
           /\ Back(place, call.parts[j])
           /\ call.parts[j].kind # "projection" => Ready(place, call.data, call.parts[j])
  BY <1>1 DEF RestoreInv, CallInv, Forward, ForwardSteps
<1>3. DestOf(place) \in call.before
  BY <1>1, <1>2, PriorBack
<1>4. RestoreCall
  BY DEF RestoreInv, CallInv
<1>5. UNCHANGED <<journal, permit, stored, life, Others>>
  BY DEF StageProfileProjection, Others
<1>6. ASSUME NEW v, place' = [place EXCEPT !["projection"].staged = v]
      PROVE  /\ IsPlace(place') /\ place'["projection"].staged = v
             /\ \A k \in KindSet : place'[k].dest = place[k].dest /\ place'[k].original = place[k].original
             /\ \A k \in KindSet \ {"projection"} : place'[k] = place[k]
  BY <1>1, <1>6 DEF IsPlace, Fields, KindSet
<1>7. ASSUME UNCHANGED place \/ \E v : place' = [place EXCEPT !["projection"].staged = v]
      PROVE  /\ FileTypes' /\ \A k \in KindSet : place'[k].dest = place[k].dest
             /\ DestOf(place') = DestOf(place) /\ Prior(place', call.parts) = Prior(place, call.parts)
             /\ Later(place', call.data) = Later(place, call.data)
             /\ place'["settings"].dest = place["settings"].dest
             /\ Recoverable'
  <2>1. /\ IsPlace(place') /\ place'["settings"] = place["settings"]
        /\ \A k \in KindSet : place'[k].dest = place[k].dest /\ place'[k].original = place[k].original
    BY <1>1, <1>6, <1>7 DEF KindSet
  <2>2. FileTypes'
    BY <1>1, <1>5, <2>1 DEF FileTypes
  <2>3. /\ DestOf(place') = DestOf(place) /\ Prior(place', call.parts) = Prior(place, call.parts)
        /\ Later(place', call.data) = Later(place, call.data)
    BY <2>1, StagedOnly
  <2>4. Recoverable'
    BY <1>1, <1>2, <1>3, <1>4, <1>5, <2>3 DEF Recoverable, Journalled, RestoreCall
  <2> QED
    BY <2>1, <2>2, <2>3, <2>4
<1>8. CASE place' = [place EXCEPT !["projection"].staged = {call.data["projection"]}] /\ Continue /\ UNCHANGED used
  <2>1. /\ place'["projection"].staged = {call.data["projection"]}
        /\ \A k \in KindSet : place'[k].dest = place[k].dest /\ place'[k].original = place[k].original
        /\ \A k \in KindSet \ {"projection"} : place'[k] = place[k]
    BY <1>6, <1>8
  <2>2. /\ DOMAIN call' = CallFields /\ call'.step = Following(call) /\ call'.who = call.who
        /\ call'.parts = call.parts /\ call'.data = call.data /\ call'.before = call.before
        /\ call'.after = call.after /\ call'.rolling = call.rolling
    BY <1>1, <1>8, ContinueIs
  <2>3. call'.step.do = "committing"
    BY <1>1, <2>2 DEF Following, At
  <2>4. \A j \in DOMAIN call.parts : call.parts[j].kind \in KindSet
    BY <1>1, PartsFacts
  <2>5. \A j \in DOMAIN call.parts : Ready(place', call.data, call.parts[j])
    BY <1>2, <2>1, <2>4 DEF Ready, Back
  <2>6. Readys(0)' /\ Journalled("staging-projection")'
    BY <1>2, <1>5, <2>2, <2>5 DEF Readys, Journalled
  <2>7. RestoreCall' /\ RecoveryCall' /\ Rolling' /\ Completing'
    BY <1>1, <1>4, <1>5, <1>7, <1>8, <2>2 DEF RestoreCall, RecoveryCall, Rolling, Completing
  <2>8. Forward'
    BY <1>2, <1>7, <1>8, <2>2, <2>3, <2>6 DEF Forward, ForwardSteps, DropSteps
  <2> QED
    BY <1>1, <1>5, <1>7, <1>8, <2>2, <2>7, <2>8, CallStep DEF CallInv
<1>9. CASE /\ Spend("faults") /\ Rollback
           /\ \/ UNCHANGED place
              \/ place' = [place EXCEPT !["projection"].staged = {{}}]
  <2>1. used' \in Spent
    BY <1>1, <1>9, SpendCounts
  <2>2. journal'.phase # "none" /\ journal'.parts = call.parts
    BY <1>2, <1>5 DEF Journalled
  <2>3. "settings" \notin KindsOf(call.parts) => place'["settings"].dest # {}
    BY <1>1, <1>4, <1>7, <1>9 DEF RestoreCall
  <2> QED
    BY <1>1, <1>2, <1>5, <1>7, <1>9, <2>1, <2>2, <2>3, RollbackHolds
<1> QED
  BY <1>8, <1>9 DEF StageProfileProjection

\* The journal moves to committing, committed or rolling back.
LEMMA WriteSpecificJournalKeeps ==
  ASSUME RestoreInv, WriteSpecificJournal
  PROVE  RestoreInv'
<1> DEFINE do == call.step.do
           written == [journal EXCEPT !.phase = call.step.do]
<1>1. RTypes /\ PartsOK(call.parts) /\ IsPlace(place) /\ FileTypes /\ used \in Spent
      /\ call.rolling \in BOOLEAN /\ do \in {"committing", "committed", "rolling-back"}
      /\ call.who \in {"restore", "recovery"}
      /\ (do # "rolling-back" => call.who = "restore" /\ ~call.rolling)
      /\ (do = "rolling-back" => call.rolling)
  BY WhoIs DEF WriteSpecificJournal, Doing, ForwardSteps
<1>2. journal.phase # "none" /\ journal.parts = call.parts
  BY <1>1 DEF RestoreInv, CallInv, Forward, Rolling, Journalled
<1>3. Prior(place, call.parts) \in Before
  BY <1>1 DEF RestoreInv, CallInv, Forward, Rolling, ForwardSteps, Before
<1>4. Before \subseteq stored /\ (call.who = "restore" => Before = call.before)
  BY <1>1 DEF Before, RestoreInv, CallInv, RestoreCall
<1>5. UNCHANGED <<place, mem, login, checked, preview, drifted>>
  BY DEF WriteSpecificJournal
<1>6. DOMAIN written = {"phase", "parts"} /\ written.phase = do /\ written.parts = call.parts
  BY <1>1, <1>2 DEF FileTypes
<1>7. do = "committed" => DestOf(place) \in stored /\ Ins(Len(call.parts) + 1)
  <2>1. SUFFICES ASSUME do = "committed" PROVE DestOf(place) \in stored /\ Ins(Len(call.parts) + 1)
    OBVIOUS
  <2>2. Ins(Len(call.parts) + 1)
    BY <1>1, <2>1 DEF RestoreInv, CallInv, Forward
  <2>3. DestOf(place) = Later(place, call.data)
    BY <1>1, <2>1, <2>2, InsLater
  <2>4. Later(place, call.data) \in stored
    BY <1>1, <2>1 DEF RestoreInv, CallInv, RestoreCall
  <2> QED
    BY <2>2, <2>3, <2>4
<1>8. ASSUME journal' \in {journal, written}, stored' = stored
      PROVE  FileTypes' /\ Recoverable'
  <2>1. FileTypes'
    BY <1>1, <1>5, <1>6, <1>8 DEF FileTypes, Phases
  <2>2. Recoverable'
    BY <1>1, <1>3, <1>4, <1>5, <1>6, <1>7, <1>8 DEF Recoverable, RestoreInv
  <2> QED
    BY <2>1, <2>2
<1> HIDE DEF written
<1>9. CASE /\ journal' = written /\ Continue /\ UNCHANGED <<used, unavailable, permit, stored, life>>
  <2>1. /\ DOMAIN call' = CallFields /\ call'.step = Following(call) /\ call'.who = call.who
        /\ call'.parts = call.parts /\ call'.data = call.data /\ call'.before = call.before
        /\ call'.after = call.after /\ call'.rolling = call.rolling
    BY <1>1, <1>9, ContinueIs
  <2>2. FileTypes' /\ Recoverable' /\ UNCHANGED <<permit, stored, life, Others>>
    BY <1>5, <1>8, <1>9 DEF Others
  <2>3. RestoreCall' /\ RecoveryCall'
    BY <1>5, <1>9, <2>1 DEF RestoreInv, CallInv, RestoreCall, RecoveryCall
  <2>4. Len(call.parts) \in Nat /\ DOMAIN call.parts = 1..Len(call.parts)
    BY <1>1, PartsFacts
  <2>5. journal'.phase = do /\ journal'.parts = call'.parts
    BY <1>6, <1>9, <2>1
  <2>6. CASE do = "committing"
    <3>1. Readys(0)
      BY <1>1, <2>6 DEF RestoreInv, CallInv, Forward
    <3>2. Ins(1)' /\ Readys(1 - 1)' /\ 1 \in 1..(Len(call.parts) + 1)
      BY <1>5, <2>1, <2>4, <3>1 DEF Ins, Readys
    <3>3. call'.step = MoveFrom(call.parts, 1)
      BY <2>1, <2>6 DEF Following
    <3>4. Prior(place', call.parts) \in call.before /\ Later(place', call.data) \in call.after
          /\ ("settings" \notin KindsOf(call.parts) => place'["settings"].dest # {})
      BY <1>1, <1>3, <1>4, <1>5, <2>6 DEF RestoreInv, CallInv, RestoreCall
    <3>5. Journalled("committing")'
      BY <2>5, <2>6 DEF Journalled
    <3> QED
      BY <1>1, <1>9, <2>1, <2>2, <2>6, <3>2, <3>3, <3>4, <3>5, MoveFromHolds
  <2>7. CASE do = "committed"
    <3>1. call'.step.do = "DropRollback" /\ Ins(Len(call.parts) + 1)'
      BY <1>5, <1>7, <2>1, <2>7 DEF Following, At, Ins
    <3>2. Forward' /\ Rolling' /\ Completing'
      BY <1>1, <2>1, <2>5, <2>7, <3>1 DEF Forward, Rolling, Completing, ForwardSteps, DropSteps, Journalled
    <3> QED
      BY <1>1, <1>9, <2>1, <2>2, <2>3, <3>2, CallStep DEF CallInv
  <2>8. CASE do = "rolling-back"
    <3>1. call'.step = UndoFrom(Len(call.parts)) /\ call'.rolling = TRUE
      BY <1>1, <2>1, <2>8 DEF Following
    <3>2. Before' = Before /\ Prior(place', call'.parts) \in Before'
      BY <1>3, <1>5, <1>9, <2>1 DEF Before
    <3>3. Forward' /\ Completing'
      BY <3>1 DEF Forward, Completing
    <3>4. CASE Len(call.parts) = 0
      <4>1. call'.step.do = "DropRollback"
        BY <3>1, <3>4 DEF UndoFrom, At
      <4>2. DestOf(place') \in Before' /\ Backs(0)'
        BY <1>1, <1>5, <2>1, <2>4, <3>2, <3>4, PriorBack DEF Backs
      <4>3. Rolling'
        BY <2>5, <2>8, <4>1, <4>2 DEF Rolling, DropSteps, Journalled
      <4> QED
        BY <1>1, <1>9, <2>1, <2>2, <2>3, <3>3, <4>3, CallStep DEF CallInv
    <3>5. CASE Len(call.parts) # 0
      <4>1. call'.step.do = "Undo" /\ call'.step.i = Len(call.parts)
        BY <3>1, <3>5 DEF UndoFrom, At
      <4>2. Backs(Len(call.parts))' /\ Len(call.parts) \in 1..Len(call.parts)
        BY <2>1, <2>4, <3>5 DEF Backs
      <4>3. Rolling'
        BY <2>1, <2>5, <2>8, <3>2, <4>1, <4>2 DEF Rolling, DropSteps, Journalled
      <4> QED
        BY <1>1, <1>9, <2>1, <2>2, <2>3, <3>3, <4>3, CallStep DEF CallInv
    <3> QED
      BY <3>4, <3>5
  <2> QED
    BY <1>1, <2>6, <2>7, <2>8
<1>10. CASE /\ Spend("faults") /\ journal' \in {journal, written} /\ do # "committed" /\ Fatal
  <2>1. used' \in Spent /\ stored' = stored
    BY <1>1, <1>10, SpendCounts DEF Fatal
  <2> QED
    BY <1>1, <1>5, <1>8, <1>10, <2>1, FatalHolds
<1>11. CASE /\ Spend("faults") /\ journal' \in {journal, written} /\ do = "committed" /\ Rollback
            /\ UNCHANGED <<unavailable, permit, stored, life>>
  <2>1. used' \in Spent /\ UNCHANGED <<permit, stored, life, Others>>
    BY <1>1, <1>5, <1>11, SpendCounts DEF Others
  <2>2. journal'.phase # "none" /\ journal'.parts = call.parts
    BY <1>2, <1>6, <1>11
  <2>3. "settings" \notin KindsOf(call.parts) => place'["settings"].dest # {}
    BY <1>1, <1>5, <1>11 DEF RestoreInv, CallInv, RestoreCall
  <2> QED
    BY <1>1, <1>3, <1>4, <1>5, <1>8, <1>11, <2>1, <2>2, <2>3, RollbackHolds
<1> QED
  BY <1>9, <1>10, <1>11 DEF WriteSpecificJournal, written

\* The other components of the list are not the one that moves.
LEMMA OtherKinds ==
  ASSUME IsPlace(place), NEW p, PartsOK(p), NEW i \in DOMAIN p, NEW q,
         \A k \in KindSet \ {p[i].kind} : q[k] = place[k]
  PROVE  \A j \in DOMAIN p \ {i} : q[p[j].kind] = place[p[j].kind]
BY PartsFacts

\* One component is moved out of the way, or its successor in.
LEMMA CommitComponentKeeps ==
  ASSUME RestoreInv, CommitComponent
  PROVE  RestoreInv'
<1> DEFINE do == call.step.do
           i == call.step.i
           n == Len(call.parts)
           moved == IF do = "MoveOut" THEN Moved(Kind, "dest", "original") ELSE Moved(Kind, "staged", "dest")
<1>1. call.who = "restore" /\ ~call.rolling /\ RTypes /\ PartsOK(call.parts) /\ IsPlace(place)
      /\ FileTypes /\ used \in Spent /\ call.rolling \in BOOLEAN /\ do \in {"MoveOut", "MoveIn"}
  BY WhoIs DEF CommitComponent, Doing, ForwardSteps
<1>2. /\ Prior(place, call.parts) \in call.before /\ Journalled("committing") /\ i \in 1..n /\ Ins(i) /\ Readys(i)
      /\ do = "MoveOut" => call.parts[i].had /\ Readys(i - 1)
      /\ do = "MoveIn" => /\ place[Kind].staged = {call.data[Kind]}
                          /\ call.parts[i].had => place[Kind].original # {}
  <2>1. CASE do = "MoveOut"
    <3>1. Prior(place, call.parts) \in call.before /\ Journalled("committing") /\ i \in 1..n /\ Ins(i)
          /\ call.parts[i].had /\ Readys(i - 1)
      BY <1>1, <2>1 DEF RestoreInv, CallInv, Forward, ForwardSteps
    <3>2. Readys(i)
      BY <1>1, <3>1, PartsFacts DEF Readys
    <3> QED
      BY <2>1, <3>1, <3>2
  <2>2. CASE do = "MoveIn"
    BY <1>1, <2>2 DEF RestoreInv, CallInv, Forward, ForwardSteps, Kind
  <2> QED
    BY <1>1, <2>1, <2>2
<1>3. RestoreCall /\ n \in Nat /\ DOMAIN call.parts = 1..n /\ i \in DOMAIN call.parts /\ Kind = call.parts[i].kind
      /\ Kind \in KindSet /\ Kind \in DOMAIN call.data /\ DOMAIN call.data = KindsOf(call.parts)
  BY <1>1, <1>2, PartsFacts DEF RestoreInv, CallInv, RestoreCall, Kind, KindsOf
<1>4. UNCHANGED <<journal, permit, stored, life, Others>>
  BY DEF CommitComponent, Others
<1>5. /\ IsPlace(moved) /\ \A k \in KindSet \ {Kind} : moved[k] = place[k]
      /\ do = "MoveOut" => /\ moved[Kind].original = place[Kind].dest /\ moved[Kind].dest = {}
                           /\ moved[Kind].staged = place[Kind].staged
      /\ do = "MoveIn" => /\ moved[Kind].dest = place[Kind].staged /\ moved[Kind].staged = {}
                          /\ moved[Kind].original = place[Kind].original
  <2>1. CASE do = "MoveOut"
    BY <1>1, <1>3, <2>1, MovedIs DEF Fields
  <2>2. CASE do = "MoveIn"
    BY <1>1, <1>3, <2>2, MovedIs DEF Fields
  <2> QED
    BY <1>1, <2>1, <2>2
<1>6. Prior(moved, call.parts) = Prior(place, call.parts)
  <2>1. CASE do = "MoveOut"
    <3>1. Back(place, call.parts[i]) /\ call.parts[i].had
      BY <1>2, <1>3, <2>1 DEF Readys, Ready
    <3> QED
      BY <1>1, <1>3, <2>1, <3>1, PriorMoveOut
  <2>2. CASE do = "MoveIn"
    BY <1>1, <1>2, <1>3, <2>2, PriorMoveIn
  <2> QED
    BY <1>1, <2>1, <2>2
<1> HIDE DEF moved
<1>7. \A j \in DOMAIN call.parts \ {i} : moved[call.parts[j].kind] = place[call.parts[j].kind]
  BY <1>1, <1>3, <1>5, OtherKinds
<1>8. Later(moved, call.data) = Later(place, call.data)
  BY <1>3, <1>5 DEF Later
<1>9. \A x \in Fields : moved["settings"][x] \subseteq Prefs
  <2>1. CASE Kind # "settings"
    BY <1>1, <1>5, <2>1 DEF FileTypes, KindSet
  <2>2. CASE Kind = "settings"
    BY <1>1, <1>5, <2>2 DEF FileTypes, Fields
  <2> QED
    BY <2>1, <2>2
<1>10. "settings" \notin KindsOf(call.parts) => moved["settings"].dest # {}
  BY <1>1, <1>3, <1>5 DEF RestoreCall, KindSet
<1>11. ASSUME place' \in {place, moved}
       PROVE  /\ FileTypes' /\ Prior(place', call.parts) \in call.before /\ Recoverable'
              /\ Later(place', call.data) \in call.after
              /\ "settings" \notin KindsOf(call.parts) => place'["settings"].dest # {}
  <2>1. FileTypes'
    BY <1>1, <1>4, <1>5, <1>9, <1>11 DEF FileTypes
  <2>2. Prior(place', call.parts) \in call.before /\ Later(place', call.data) \in call.after
    BY <1>1, <1>2, <1>3, <1>6, <1>8, <1>11 DEF RestoreCall
  <2>3. Recoverable'
    BY <1>1, <1>2, <1>3, <1>4, <2>2 DEF Recoverable, Journalled, RestoreCall
  <2> QED
    BY <1>1, <1>3, <1>10, <1>11, <2>1, <2>2, <2>3 DEF RestoreCall
<1>12. CASE place' = moved /\ Continue /\ UNCHANGED used
  <2>1. /\ DOMAIN call' = CallFields /\ call'.step = Following(call) /\ call'.who = call.who
        /\ call'.parts = call.parts /\ call'.data = call.data /\ call'.before = call.before
        /\ call'.after = call.after /\ call'.rolling = call.rolling
    BY <1>1, <1>12, ContinueIs
  <2>2. Journalled("committing")'
    BY <1>2, <1>4, <2>1 DEF Journalled
  <2>3. \A j \in DOMAIN call.parts : j > i => Ready(place', call.data, call.parts[j])
    <3>1. SUFFICES ASSUME NEW j \in DOMAIN call.parts, j > i PROVE Ready(place', call.data, call.parts[j])
      OBVIOUS
    <3>2. Ready(place, call.data, call.parts[j]) /\ place'[call.parts[j].kind] = place[call.parts[j].kind]
      BY <1>2, <1>7, <1>12, <1>3, <3>1 DEF Readys
    <3> QED
      BY <3>2 DEF Ready, Back
  <2>4. \A j \in DOMAIN call.parts : j < i => In(place', call.data, call.parts[j])
    <3>1. SUFFICES ASSUME NEW j \in DOMAIN call.parts, j < i PROVE In(place', call.data, call.parts[j])
      OBVIOUS
    <3>2. In(place, call.data, call.parts[j]) /\ place'[call.parts[j].kind] = place[call.parts[j].kind]
      BY <1>2, <1>7, <1>12, <1>3, <3>1 DEF Ins
    <3> QED
      BY <3>2 DEF In
  <2>5. CASE do = "MoveOut"
    <3>1. call'.step.do = "MoveIn" /\ call'.step.i = i
      BY <2>1, <2>5 DEF Following, At
    <3>2. place[Kind].staged = {call.data[Kind]} /\ place[Kind].dest # {}
      <4>1. Ready(place, call.data, call.parts[i]) /\ call.parts[i].had
        BY <1>2, <1>3, <2>5 DEF Readys
      <4> QED
        BY <1>3, <4>1 DEF Ready, Back
    <3>3. place'[call'.parts[i].kind].staged = {call'.data[call'.parts[i].kind]}
          /\ place'[call'.parts[i].kind].original # {}
      BY <1>3, <1>5, <1>12, <2>1, <2>5, <3>2
    <3>4. Ins(i)' /\ Readys(i)'
      BY <2>1, <2>3, <2>4, <3>1 DEF Ins, Readys
    <3>5. RestoreCall' /\ RecoveryCall' /\ Rolling' /\ Completing'
      BY <1>1, <1>3, <1>4, <1>11, <1>12, <2>1 DEF RestoreCall, RecoveryCall, Rolling, Completing
    <3>6. Forward'
      BY <1>2, <1>11, <1>12, <2>1, <2>2, <3>1, <3>3, <3>4 DEF Forward, ForwardSteps, DropSteps
    <3> QED
      BY <1>1, <1>4, <1>11, <1>12, <2>1, <3>5, <3>6, CallStep DEF CallInv
  <2>6. CASE do = "MoveIn"
    <3>1. call'.step = MoveFrom(call.parts, i + 1) /\ i + 1 \in 1..(n + 1) /\ (i + 1) - 1 = i
      BY <1>2, <1>3, <2>1, <2>6 DEF Following
    <3>2. In(place', call.data, call.parts[i])
      BY <1>2, <1>3, <1>5, <1>12, <2>6 DEF In
    <3>3. \A j \in DOMAIN call.parts : j < i + 1 => In(place', call.data, call.parts[j])
      BY <1>2, <1>3, <2>4, <3>2
    <3> QED
      BY <1>1, <1>2, <1>4, <1>11, <1>12, <2>1, <2>2, <2>3, <3>1, <3>3, MoveFromNext
  <2> QED
    BY <1>1, <2>5, <2>6
<1>13. CASE Spend("faults") /\ place' \in {place, moved} /\ Rollback
  <2>1. used' \in Spent
    BY <1>1, <1>13, SpendCounts
  <2>2. journal'.phase # "none" /\ journal'.parts = call.parts
    BY <1>2, <1>4 DEF Journalled
  <2> QED
    BY <1>1, <1>4, <1>11, <1>13, <2>1, <2>2, RollbackHolds
<1> QED
  BY <1>12, <1>13 DEF CommitComponent, moved

----------------------------------------------------------------------------
(* The rollback and the cleanup, of a restore or of a recovery.             *)

\* One component is put back, in the opposite order.
LEMMA RollbackComponentKeeps ==
  ASSUME RestoreInv, RollbackComponent
  PROVE  RestoreInv'
<1> DEFINE i == call.step.i
           n == Len(call.parts)
<1>1. RTypes /\ PartsOK(call.parts) /\ IsPlace(place) /\ FileTypes /\ used \in Spent /\ call.rolling
      /\ call.who \in {"restore", "recovery"} /\ call.step.do = "Undo" /\ call.rolling \in BOOLEAN
  BY WhoIs DEF RollbackComponent, Doing
<1>2. Prior(place, call.parts) \in Before /\ Journalled("rolling-back") /\ i \in 1..n /\ Backs(i)
  BY <1>1 DEF RestoreInv, CallInv, Rolling
<1>3. n \in Nat /\ DOMAIN call.parts = 1..n /\ i \in DOMAIN call.parts /\ Kind = call.parts[i].kind
      /\ Kind \in KindSet /\ Kind \in KindsOf(call.parts) /\ call.parts[i].had \in BOOLEAN
  BY <1>1, <1>2, PartsFacts DEF Kind, KindsOf
<1>4. HadOriginal(Kind) <=> call.parts[i].had
  <2>1. ASSUME call.parts[i].had PROVE HadOriginal(Kind)
    <3>1. call.parts[i] = [kind |-> Kind, had |-> TRUE]
      <4>1. call.parts[i] \in [kind : KindSet, had : BOOLEAN]
        BY <1>1, <1>3, ElementOfSeq DEF PartsOK
      <4> QED
        BY <1>3, <2>1, <4>1
    <3> QED
      BY <1>3, <3>1 DEF HadOriginal
  <2>2. ASSUME HadOriginal(Kind) PROVE call.parts[i].had
    <3>1. PICK j \in DOMAIN call.parts : call.parts[j] = [kind |-> Kind, had |-> TRUE]
      BY <2>2 DEF HadOriginal
    <3>2. call.parts[j].kind = Kind /\ call.parts[j].had = TRUE
      BY <3>1
    <3> QED
      BY <1>1, <1>3, <3>2, PartsFacts
  <2> QED
    BY <2>1, <2>2
<1>5. Before \subseteq stored
  BY <1>1 DEF Before, RestoreInv, CallInv, RestoreCall
<1>6. UNCHANGED <<journal, mem, login, checked, preview, drifted>>
  BY DEF RollbackComponent
<1>7. CASE Exists(Kind) = Undone(Kind) /\ Continue /\ UNCHANGED <<place, used, unavailable, permit, stored, life>>
  <2>1. /\ DOMAIN call' = CallFields /\ call'.step = Following(call) /\ call'.who = call.who
        /\ call'.parts = call.parts /\ call'.data = call.data /\ call'.before = call.before
        /\ call'.after = call.after /\ call'.rolling = call.rolling
    BY <1>1, <1>7, ContinueIs
  <2>2. Back(place, call.parts[i])
    BY <1>3, <1>4, <1>7 DEF Exists, Undone, Back
  <2>3. \A j \in DOMAIN call.parts : j > i - 1 => Back(place, call.parts[j])
    <3>1. SUFFICES ASSUME NEW j \in DOMAIN call.parts, j > i - 1 PROVE Back(place, call.parts[j])
      OBVIOUS
    <3>2. j = i \/ j > i
      BY <1>3, <3>1
    <3> QED
      BY <1>2, <2>2, <3>1, <3>2 DEF Backs
  <2>4. call'.step = UndoFrom(i - 1) /\ i - 1 \in 0..n
    BY <1>1, <1>3, <2>1 DEF Following
  <2>5. Before' = Before /\ Prior(place', call'.parts) \in Before' /\ Journalled("rolling-back")'
    BY <1>2, <1>6, <1>7, <2>1 DEF Before, Journalled
  <2>6. RestoreCall' /\ RecoveryCall' /\ Forward' /\ Completing' /\ Recoverable'
    BY <1>1, <1>6, <1>7, <2>1 DEF RestoreInv, CallInv, RestoreCall, RecoveryCall, Forward, Completing, Recoverable
  <2>7. FileTypes' /\ UNCHANGED <<permit, stored, life, Others>>
    BY <1>1, <1>6, <1>7 DEF FileTypes, Others
  <2>8. CASE i - 1 = 0
    <3>1. call'.step.do = "DropRollback"
      BY <2>4, <2>8 DEF UndoFrom, At
    <3>2. Backs(0)' /\ \A j \in DOMAIN call.parts : Back(place, call.parts[j])
      BY <1>3, <1>7, <2>1, <2>3, <2>8 DEF Backs
    <3>3. DestOf(place') \in Before'
      BY <1>1, <1>2, <1>7, <2>5, <3>2, PriorBack
    <3>4. Rolling'
      BY <2>5, <3>1, <3>2, <3>3 DEF Rolling, DropSteps, Journalled
    <3> QED
      BY <1>1, <1>7, <2>1, <2>6, <2>7, <3>4, CallStep DEF CallInv
  <2>9. CASE i - 1 # 0
    <3>1. call'.step.do = "Undo" /\ call'.step.i = i - 1
      BY <2>4, <2>9 DEF UndoFrom, At
    <3>4. i - 1 \in 1..n
      BY <1>3, <2>4, <2>9
    <3>2. \A j \in DOMAIN call'.parts : j > call'.step.i => Back(place', call'.parts[j])
      BY <1>7, <2>1, <2>3, <3>1
    <3>3. Rolling'
      BY <2>1, <2>5, <3>1, <3>2, <3>4 DEF Rolling, DropSteps, Backs
    <3> QED
      BY <1>1, <1>7, <2>1, <2>6, <2>7, <3>3, CallStep DEF CallInv
  <2> QED
    BY <2>8, <2>9
<1>8. CASE place' \in UndoRename(Kind) /\ UNCHANGED <<call, used, unavailable, permit, stored, life>>
  <2>1. \/ /\ place' = Moved(Kind, "original", "dest") /\ call.parts[i].had
           /\ place[Kind].original # {} /\ place[Kind].dest = {}
        \/ /\ place' = Moved(Kind, "dest", "staged")
           /\ call.parts[i].had => place[Kind].original # {}
    BY <1>4, <1>8 DEF UndoRename, Exists
  <2>2. /\ IsPlace(place') /\ \A k \in KindSet \ {Kind} : place'[k] = place[k]
        /\ \/ /\ place'[Kind].dest = place[Kind].original /\ place'[Kind].original = {}
              /\ place'[Kind].staged = place[Kind].staged /\ call.parts[i].had
              /\ place[Kind].original # {} /\ place[Kind].dest = {}
           \/ /\ place'[Kind].staged = place[Kind].dest /\ place'[Kind].dest = {}
              /\ place'[Kind].original = place[Kind].original
              /\ call.parts[i].had => place[Kind].original # {}
    <3>1. CASE place' = Moved(Kind, "original", "dest") /\ call.parts[i].had
                 /\ place[Kind].original # {} /\ place[Kind].dest = {}
      <4> DEFINE q == Moved(Kind, "original", "dest")
      <4>1. /\ IsPlace(q) /\ q[Kind].dest = place[Kind].original /\ q[Kind].original = {}
            /\ q[Kind].staged = place[Kind].staged /\ \A k \in KindSet \ {Kind} : q[k] = place[k]
        BY <1>1, <1>3, MovedIs DEF Fields
      <4> HIDE DEF q
      <4> QED
        BY <3>1, <4>1 DEF q
    <3>2. CASE place' = Moved(Kind, "dest", "staged") /\ (call.parts[i].had => place[Kind].original # {})
      <4> DEFINE q == Moved(Kind, "dest", "staged")
      <4>1. /\ IsPlace(q) /\ q[Kind].staged = place[Kind].dest /\ q[Kind].dest = {}
            /\ q[Kind].original = place[Kind].original /\ \A k \in KindSet \ {Kind} : q[k] = place[k]
        BY <1>1, <1>3, MovedIs DEF Fields
      <4> HIDE DEF q
      <4> QED
        BY <3>2, <4>1 DEF q
    <3> QED
      BY <2>1, <3>1, <3>2
  <2>3. Prior(place', call.parts) = Prior(place, call.parts)
    <3>1. call.parts[i].had => Had(call.parts, Kind, TRUE)
      BY <1>3 DEF Had
    <3>2. ~call.parts[i].had => ~Had(call.parts, Kind, TRUE) /\ Had(call.parts, Kind, FALSE)
      BY <1>1, <1>3, PartsFacts DEF Had
    <3>3. \A k \in KindSet : Prior(place', call.parts)[k] = Prior(place, call.parts)[k]
      BY <1>3, <2>2, <3>1, <3>2 DEF Prior
    <3> QED
      BY <3>3 DEF Prior
  <2>4. \A x \in Fields : place'["settings"][x] \subseteq Prefs
    <3>1. CASE Kind # "settings"
      BY <1>1, <2>2, <3>1 DEF FileTypes, KindSet
    <3>2. CASE Kind = "settings"
      BY <1>1, <2>2, <3>2 DEF FileTypes, Fields
    <3> QED
      BY <3>1, <3>2
  <2>5. FileTypes' /\ UNCHANGED <<permit, stored, life, Others>>
    BY <1>1, <1>6, <1>8, <2>2, <2>4 DEF FileTypes, Others
  <2>6. \A j \in DOMAIN call.parts \ {i} : place'[call.parts[j].kind] = place[call.parts[j].kind]
    BY <1>1, <1>3, <2>2, PartsFacts
  <2>7. Backs(i)'
    <3>1. \A j \in DOMAIN call.parts : j > i => Back(place', call.parts[j])
      <4>1. SUFFICES ASSUME NEW j \in DOMAIN call.parts, j > i PROVE Back(place', call.parts[j])
        OBVIOUS
      <4>2. Back(place, call.parts[j]) /\ place'[call.parts[j].kind] = place[call.parts[j].kind]
        BY <1>2, <1>3, <2>6, <4>1 DEF Backs
      <4> QED
        BY <4>2 DEF Back
    <3> QED
      BY <1>8, <3>1 DEF Backs
  <2>8. Before' = Before /\ Journalled("rolling-back")' /\ Recoverable'
    BY <1>2, <1>5, <1>6, <1>8, <2>3 DEF Before, Journalled, Recoverable
  <2>9. "settings" \notin KindsOf(call.parts) => place'["settings"] = place["settings"]
    BY <1>3, <2>2 DEF KindSet
  <2>10. RestoreCall' /\ RecoveryCall' /\ Forward' /\ Completing'
    BY <1>1, <1>8, <2>9 DEF RestoreInv, CallInv, RestoreCall, RecoveryCall, Forward, Completing
  <2>11. Rolling'
    BY <1>1, <1>2, <1>8, <2>3, <2>7, <2>8 DEF Rolling, DropSteps
  <2> QED
    BY <1>1, <1>8, <2>5, <2>8, <2>10, <2>11, CallStep DEF CallInv, RTypes, CallTypes
<1>9. CASE Fatal /\ UNCHANGED place /\ (UNCHANGED used \/ Spend("faults"))
  <2>1. used' \in Spent
    BY <1>1, <1>9, SpendCounts
  <2>2. FileTypes' /\ Recoverable'
    BY <1>1, <1>6, <1>9 DEF FileTypes, Recoverable, RestoreInv, Fatal
  <2> QED
    BY <1>1, <1>6, <1>9, <2>1, <2>2, FatalHolds
<1> QED
  BY <1>7, <1>8, <1>9 DEF RollbackComponent

\* What a cleanup finds: the files are those of one moment.
LEMMA CleanupFinds ==
  ASSUME RestoreInv, call.who # "none", call.step.do \in DropSteps \cup {"Settle", "Accept"}
  PROVE  /\ DestOf(place) \in stored
         /\ call.rolling => Backs(0) /\ DestOf(place) \in Before
         /\ call.who = "restore" /\ ~call.rolling =>
              /\ Ins(Len(call.parts) + 1) /\ DestOf(place) \in call.after
              /\ Later(place, call.data) \in call.after
         /\ call.who = "restore" => place["settings"].dest # {}
         /\ call.step.do \in DropSteps =>
              journal.phase # "none" /\ journal.parts = call.parts /\ (~call.rolling => journal.phase = "committed")
         /\ call.step.do \in {"Settle", "Accept"} => journal.phase = "none"
<1>1. RTypes /\ PartsOK(call.parts) /\ IsPlace(place) /\ call.who \in {"restore", "recovery"}
      /\ call.rolling \in BOOLEAN /\ CallInv
  BY WhoIs DEF RestoreInv
<1>2. Len(call.parts) \in Nat /\ DOMAIN call.parts = 1..Len(call.parts)
  BY <1>1, PartsFacts
<1>3. CASE call.rolling
  <2>1. call.step.do \in DropSteps \cup {"Settle"} /\ Backs(0) /\ DestOf(place) \in Before
        /\ (call.step.do \in DropSteps => journal.phase # "none" /\ journal.parts = call.parts)
        /\ (call.step.do = "Settle" => journal.phase = "none")
    BY <1>1, <1>3 DEF CallInv, Rolling, DropSteps
  <2>2. Before \subseteq stored
    BY <1>1 DEF CallInv, RestoreCall, Before
  <2>3. call.who = "restore" => place["settings"].dest # {}
    BY <1>2, <2>1, SettingsStay DEF Backs, Back
  <2> QED
    BY <1>3, <2>1, <2>2, <2>3 DEF DropSteps
<1>4. CASE ~call.rolling /\ call.who = "restore"
  <2>1. /\ Ins(Len(call.parts) + 1) /\ (call.step.do \in DropSteps => Journalled("committed"))
        /\ (call.step.do \in {"Settle", "Accept"} => journal.phase = "none")
    BY <1>1, <1>4 DEF CallInv, Forward, DropSteps
  <2>2. DestOf(place) = Later(place, call.data)
    BY <1>4, <2>1, InsLater
  <2>3. Later(place, call.data) \in call.after /\ call.after \subseteq stored
    BY <1>1, <1>4 DEF CallInv, RestoreCall
  <2>4. place["settings"].dest # {}
    <3>1. CASE "settings" \notin KindsOf(call.parts)
      BY <1>1, <1>4, <3>1 DEF CallInv, RestoreCall
    <3>2. CASE "settings" \in KindsOf(call.parts)
      <4>1. PICK j \in DOMAIN call.parts : call.parts[j].kind = "settings"
        BY <3>2 DEF KindsOf
      <4>2. In(place, call.data, call.parts[j])
        BY <1>2, <2>1 DEF Ins
      <4> QED
        BY <4>1, <4>2 DEF In
    <3> QED
      BY <3>1, <3>2
  <2> QED
    BY <1>4, <2>1, <2>2, <2>3, <2>4 DEF Journalled
<1>5. CASE ~call.rolling /\ call.who = "recovery"
  BY <1>1, <1>5 DEF CallInv, Completing, DropSteps, Journalled
<1> QED
  BY <1>1, <1>3, <1>4, <1>5

\* A cleanup step that goes on, with the places of the components as they were.
LEMMA CleanupGoesOn ==
  ASSUME RestoreInv, call.who # "none", call.step.do \in DropSteps, Continue,
         UNCHANGED <<used, permit, stored, life, Others>>, FileTypes',
         \A k \in KindSet : place'[k].dest = place[k].dest,
         \A k \in KindSet : place[k].original = {} => place'[k].original = {},
         IF call.step.do = "DropJournal" THEN journal' = NoJournal ELSE journal' = journal
  PROVE  RestoreInv'
<1>1. RTypes /\ PartsOK(call.parts) /\ IsPlace(place) /\ call.who \in {"restore", "recovery"}
      /\ call.rolling \in BOOLEAN /\ CallInv /\ used \in Spent
  BY WhoIs DEF RestoreInv
<1>2. /\ DOMAIN call' = CallFields /\ call'.step = Following(call) /\ call'.who = call.who
      /\ call'.parts = call.parts /\ call'.data = call.data /\ call'.before = call.before
      /\ call'.after = call.after /\ call'.rolling = call.rolling
  BY <1>1, ContinueIs
<1>3. /\ DestOf(place) \in stored
      /\ call.rolling => Backs(0) /\ DestOf(place) \in Before
      /\ call.who = "restore" /\ ~call.rolling =>
           Ins(Len(call.parts) + 1) /\ Later(place, call.data) \in call.after
      /\ journal.phase # "none" /\ journal.parts = call.parts /\ (~call.rolling => journal.phase = "committed")
  BY CleanupFinds
<1>4. /\ call.step.do = "DropRollback" => call'.step.do = "DropStage"
      /\ call.step.do = "DropStage" => call'.step.do = "DropJournal"
      /\ call.step.do = "DropJournal" => call'.step.do = "Settle"
  BY <1>2 DEF Following, At
<1>5. DestOf(place') = DestOf(place) /\ Later(place', call.data) = Later(place, call.data)
  BY DestSame
<1>6. \A j \in DOMAIN call.parts : call.parts[j].kind \in KindSet
  BY <1>1, PartsFacts
<1>7. call.rolling => Backs(0)'
  BY <1>2, <1>3, <1>6 DEF Backs, Back
<1>8. call.who = "restore" /\ ~call.rolling => Ins(Len(call.parts) + 1)'
  BY <1>2, <1>3, <1>6 DEF Ins, In
<1>9. Before' = Before
  BY <1>2 DEF Before
<1>10. RestoreCall' /\ RecoveryCall'
  BY <1>1, <1>2, <1>3, <1>5 DEF CallInv, RestoreCall, RecoveryCall, KindSet
<1>11. call'.step.do = "Settle" => journal'.phase = "none"
  BY <1>4 DEF DropSteps, NoJournal
<1>12. call'.step.do \in DropSteps => journal' = journal
  BY <1>4 DEF DropSteps
<1>13. call'.step.do \in {"DropStage", "DropJournal", "Settle"}
  BY <1>4 DEF DropSteps
<1>14. Rolling'
  BY <1>2, <1>3, <1>5, <1>7, <1>9, <1>11, <1>12, <1>13 DEF Rolling, DropSteps
<1>15. Forward'
  BY <1>2, <1>3, <1>8, <1>11, <1>12, <1>13 DEF Forward, ForwardSteps, DropSteps, Journalled
<1>16. Completing'
  BY <1>2, <1>3, <1>5, <1>11, <1>12, <1>13 DEF Completing, DropSteps, Journalled
<1>17. Recoverable'
  <2>1. CASE call.rolling
    <3>1. \A j \in DOMAIN call.parts : Back(place', call.parts[j])
      BY <1>1, <1>2, <1>7, <2>1, PartsFacts DEF Backs
    <3>2. Prior(place', call.parts) = DestOf(place')
      BY <1>1, <3>1, PriorBack
    <3> QED
      BY <1>3, <1>5, <3>2 DEF Recoverable, NoJournal
  <2>2. CASE ~call.rolling
    BY <1>3, <1>5, <2>2 DEF Recoverable, NoJournal
  <2> QED
    BY <1>1, <2>1, <2>2
<1> QED
  BY <1>1, <1>2, <1>10, <1>14, <1>15, <1>16, <1>17, CallStep DEF CallInv

\* The directories of the originals and of the staged files are removed.
LEMMA CleanupRootsKeeps ==
  ASSUME RestoreInv, CleanupRoots
  PROVE  RestoreInv'
<1>1. call.who # "none" /\ call.step.do \in {"DropRollback", "DropStage"}
  BY DEF CleanupRoots, Doing
<1>2. RTypes /\ FileTypes /\ used \in Spent /\ IsPlace(place)
  BY <1>1, WhoIs
<1>3. UNCHANGED <<journal, mem, login, checked, preview, drifted>>
  BY DEF CleanupRoots
<1>4. CASE /\ place' = Discard(place, IF call.step.do = "DropRollback" THEN "original" ELSE "staged")
           /\ Continue /\ UNCHANGED <<used, unavailable, permit, stored, life>>
  <2> DEFINE a == IF call.step.do = "DropRollback" THEN "original" ELSE "staged"
  <2>1. a \in Fields /\ a # "dest"
    BY DEF Fields
  <2>2. IsPlace(place') /\ \A k \in KindSet : place'[k][a] = {} /\ \A x \in Fields \ {a} : place'[k][x] = place[k][x]
    BY <1>2, <1>4, <2>1, DiscardIs
  <2> HIDE DEF a
  <2>3. \A k \in KindSet : place'[k].dest = place[k].dest
    BY <2>1, <2>2 DEF Fields
  <2>4. \A k \in KindSet : place[k].original = {} => place'[k].original = {}
    BY <2>1, <2>2 DEF Fields
  <2>5. \A x \in Fields : place'["settings"][x] \subseteq Prefs
    BY <1>2, <2>2 DEF FileTypes, KindSet
  <2>6. FileTypes' /\ UNCHANGED <<used, permit, stored, life, Others>>
    BY <1>2, <1>3, <1>4, <2>2, <2>5 DEF FileTypes, Others
  <2> QED
    BY <1>1, <1>3, <1>4, <2>3, <2>4, <2>6, CleanupGoesOn DEF DropSteps
<1>5. ASSUME Spend("faults"), Fatal, NEW some \in SUBSET KindSet,
             place' = [k \in KindSet |-> IF k \in some
                         THEN Discard(place, IF call.step.do = "DropRollback" THEN "original" ELSE "staged")[k]
                         ELSE place[k]]
      PROVE  RestoreInv'
  <2> DEFINE a == IF call.step.do = "DropRollback" THEN "original" ELSE "staged"
             gone == Discard(place, a)
  <2>1. used' \in Spent /\ stored' = stored
    BY <1>2, <1>5, SpendCounts DEF Fatal
  <2>2. a \in Fields /\ a # "dest"
    BY DEF Fields
  <2>3. IsPlace(gone) /\ \A k \in KindSet : gone[k][a] = {} /\ \A x \in Fields \ {a} : gone[k][x] = place[k][x]
    BY <1>2, <2>2, DiscardIs
  <2>4. place' = [k \in KindSet |-> IF k \in some THEN gone[k] ELSE place[k]]
    BY <1>5
  <2> HIDE DEF a, gone
  <2>5. IsPlace(place')
    BY <1>2, <2>3, <2>4 DEF IsPlace
  <2>6. \A k \in KindSet : \A x \in Fields : place'[k][x] = place[k][x] \/ (x = a /\ place'[k][x] = {})
    <3> SUFFICES ASSUME NEW k \in KindSet, NEW x \in Fields
                 PROVE  place'[k][x] = place[k][x] \/ (x = a /\ place'[k][x] = {})
      OBVIOUS
    <3>1. CASE k \in some
      <4>1. place'[k] = gone[k]
        BY <2>4, <3>1
      <4> QED
        BY <2>3, <4>1
    <3>2. CASE k \notin some
      BY <2>4, <3>2
    <3> QED
      BY <3>1, <3>2
  <2>7. /\ \A k \in KindSet : place'[k].dest = place[k].dest
        /\ \A k \in KindSet : place[k].original = {} => place'[k].original = {}
    BY <2>2, <2>6 DEF Fields
  <2>8. FileTypes'
    <3>1. \A x \in Fields : place'["settings"][x] \subseteq Prefs
      BY <1>2, <2>6 DEF FileTypes, KindSet
    <3> QED
      BY <1>2, <1>3, <2>5, <3>1 DEF FileTypes
  <2>9. DestOf(place') = DestOf(place)
    BY <2>7 DEF DestOf
  <2>10. /\ DestOf(place) \in stored /\ PartsOK(call.parts) /\ journal.parts = call.parts
         /\ call.rolling => Backs(0)
         /\ ~call.rolling => journal.phase = "committed"
    BY <1>1, WhoIs, CleanupFinds DEF DropSteps
  <2>11. call.rolling => Prior(place', call.parts) = DestOf(place')
    <3>1. call.rolling => \A j \in DOMAIN call.parts : Back(place, call.parts[j])
      BY <2>10, PartsFacts DEF Backs
    <3>2. call.rolling => \A j \in DOMAIN call.parts : Back(place', call.parts[j])
      BY <2>7, <2>10, <3>1, PartsFacts DEF Back
    <3> QED
      BY <2>10, <3>2, PriorBack
  <2>12. Recoverable'
    BY <1>3, <2>1, <2>9, <2>10, <2>11 DEF Recoverable
  <2> QED
    BY <1>1, <1>3, <1>5, <2>1, <2>8, <2>12, FatalHolds
<1> QED
  BY <1>4, <1>5 DEF CleanupRoots

\* A removed journal has its shape.
LEMMA NoJournalTypes ==
  ASSUME FileTypes, UNCHANGED place, journal' = NoJournal
  PROVE  FileTypes'
<1>1. <<>> \in Seq([kind : KindSet, had : BOOLEAN]) /\ DOMAIN <<>> = {}
  OBVIOUS
<1>2. PartsOK(<<>>)
  BY <1>1 DEF PartsOK
<1> QED
  BY <1>2 DEF FileTypes, NoJournal, Phases

\* The journal is removed.
LEMMA CleanupJournalKeeps ==
  ASSUME RestoreInv, CleanupJournal
  PROVE  RestoreInv'
<1>1. call.who # "none" /\ call.step.do = "DropJournal"
  BY DEF CleanupJournal, Doing
<1>2. RTypes /\ FileTypes /\ used \in Spent /\ IsPlace(place)
  BY <1>1, WhoIs
<1>3. UNCHANGED <<place, mem, login, checked, preview, drifted>>
  BY DEF CleanupJournal
<1>4. CASE journal' = NoJournal /\ Continue /\ UNCHANGED <<used, unavailable, permit, stored, life>>
  <2>1. FileTypes' /\ UNCHANGED <<used, permit, stored, life, Others>>
    BY <1>2, <1>3, <1>4, NoJournalTypes DEF Others
  <2> QED
    BY <1>1, <1>3, <1>4, <2>1, CleanupGoesOn DEF DropSteps
<1>5. CASE Spend("faults") /\ Fatal /\ UNCHANGED journal
  <2>1. used' \in Spent
    BY <1>2, <1>5, SpendCounts
  <2>2. FileTypes' /\ Recoverable'
    BY <1>2, <1>3, <1>5 DEF FileTypes, Recoverable, RestoreInv, Fatal
  <2> QED
    BY <1>1, <1>3, <1>5, <2>1, <2>2, FatalHolds
<1> QED
  BY <1>4, <1>5 DEF CleanupJournal

\* A recovery that ends well lets the startup go on.
LEMMA RecoveryEnds ==
  ASSUME RestoreInv, call.who = "recovery", call.step.do = "Settle", EndCall,
         stored' = stored \cap {Dest}, life' = "loading",
         UNCHANGED <<place, journal, used, unavailable, mem, login, checked, preview, drifted>>
  PROVE  RestoreInv'
<1>1. DestOf(place) \in stored /\ journal.phase = "none"
  BY CleanupFinds
<1>2. call' = NoCall /\ permit' = "none" /\ checked = {} /\ permit = "none"
  BY DEF EndCall, RestoreInv, Roles, RTypes, ValueTypes
<1>3. Dest = DestOf(place)
  BY DEF Dest, DestOf
<1>4. journal = NoJournal
  BY <1>1 DEF RestoreInv, RTypes, FileTypes
<1>5. FileTypes' /\ ValueTypes'
  BY <1>2 DEF RestoreInv, RTypes, FileTypes, ValueTypes
<1>6. Roles' /\ IdleInv' /\ LoginInv'
  BY <1>2, <1>4 DEF Roles, IdleInv, LoginInv, NoCall
<1>7. Recoverable'
  BY <1>1, <1>3 DEF Recoverable
<1> QED
  BY <1>2, <1>5, <1>6, <1>7, NoCallHolds, NoCallTypes DEF RestoreInv, RTypes

\* The transaction is settled, and its caller is answered.
LEMMA CleanupSettleKeeps ==
  ASSUME RestoreInv, CleanupSettle
  PROVE  RestoreInv'
<1>1. call.who # "none" /\ call.step.do = "Settle"
  BY DEF CleanupSettle, Doing
<1>2. RTypes /\ FileTypes /\ used \in Spent /\ IsPlace(place) /\ PartsOK(call.parts) /\ CallInv
      /\ call.who \in {"restore", "recovery"} /\ call.rolling \in BOOLEAN
      /\ (call.who = "recovery" => DOMAIN call.data = {})
  BY <1>1, WhoIs DEF RestoreInv
<1>3. UNCHANGED <<place, mem, login, checked, preview, drifted>>
  BY DEF CleanupSettle
<1>4. /\ DestOf(place) \in stored
      /\ call.rolling => Backs(0) /\ DestOf(place) \in Before
      /\ call.who = "restore" /\ ~call.rolling =>
           /\ Ins(Len(call.parts) + 1) /\ DestOf(place) \in call.after
           /\ Later(place, call.data) \in call.after
      /\ call.who = "restore" => place["settings"].dest # {}
      /\ journal.phase = "none"
  BY <1>1, CleanupFinds
<1>5. CASE /\ ~call.rolling /\ "settings" \in DOMAIN call.data
           /\ Continue /\ UNCHANGED <<permit, stored, life, journal, used, unavailable>>
  <2>1. /\ DOMAIN call' = CallFields /\ call'.step = Following(call) /\ call'.who = call.who
        /\ call'.parts = call.parts /\ call'.data = call.data /\ call'.before = call.before
        /\ call'.after = call.after /\ call'.rolling = call.rolling
    BY <1>2, <1>5, ContinueIs
  <2>2. call.who = "restore" /\ call'.step.do = "Accept"
    BY <1>1, <1>2, <1>5, <2>1 DEF Following, At
  <2>3. RestoreCall' /\ RecoveryCall' /\ Rolling' /\ Completing'
    BY <1>2, <1>3, <1>5, <2>1, <2>2 DEF CallInv, RestoreCall, RecoveryCall, Rolling, Completing
  <2>4. Ins(Len(call.parts) + 1)'
    BY <1>3, <1>4, <1>5, <2>1, <2>2 DEF Ins
  <2>5. Forward'
    BY <1>4, <1>5, <2>1, <2>2, <2>4 DEF Forward, ForwardSteps, DropSteps
  <2>6. FileTypes' /\ Recoverable' /\ UNCHANGED <<permit, stored, life, Others>>
    BY <1>2, <1>3, <1>5 DEF FileTypes, Recoverable, RestoreInv, Others
  <2> QED
    BY <1>1, <1>2, <1>5, <2>1, <2>3, <2>5, <2>6, CallStep DEF CallInv
<1>6. CASE Answer(~call.rolling) /\ UNCHANGED <<journal, used, unavailable>>
  <2>1. CASE call.who = "recovery"
    <3>1. EndCall /\ stored' = stored \cap {Dest} /\ life' = "loading"
      BY <1>6, <2>1 DEF Answer
    <3> QED
      BY <1>1, <1>3, <1>6, <2>1, <3>1, RecoveryEnds
  <2>2. CASE call.who = "restore"
    <3>1. EndCall /\ stored' = (IF ~call.rolling THEN call.after ELSE call.before) /\ life' = life
      BY <1>6, <2>2 DEF Answer
    <3>2. DestOf(place') \in stored'
      BY <1>2, <1>3, <1>4, <2>2, <3>1 DEF Before
    <3>3. Stale' /\ FileTypes'
      BY <1>2, <1>3, <1>4, <1>6 DEF Stale, FileTypes
    <3>4. mem' \in Prefs /\ drifted' \in BOOLEAN /\ place'["settings"].dest # {} /\ used' \in Spent
      BY <1>2, <1>3, <1>4, <1>6, <2>2 DEF RTypes, ValueTypes
    <3> QED
      BY <1>3, <1>6, <2>2, <3>1, <3>2, <3>3, <3>4, EndHolds
  <2> QED
    BY <1>2, <2>1, <2>2
<1>7. CASE /\ Spend("faults") /\ Fatal
           /\ journal' \in {journal, [phase |-> PhaseBefore, parts |-> call.parts]}
  <2>1. used' \in Spent /\ stored' = stored
    BY <1>2, <1>7, SpendCounts DEF Fatal
  <2>2. /\ PhaseBefore \in {"staging-projection", "rolling-back", "committed"}
        /\ PhaseBefore = "rolling-back" => call.rolling
    BY <1>2 DEF PhaseBefore
  <2>3. \/ journal' = journal
        \/ /\ journal'.phase = PhaseBefore /\ journal'.parts = call.parts
           /\ DOMAIN journal' = {"phase", "parts"}
    BY <1>7
  <2>4. FileTypes'
    BY <1>2, <1>3, <2>2, <2>3 DEF FileTypes, Phases
  <2>5. call.rolling => Prior(place, call.parts) = DestOf(place)
    <3>1. call.rolling => \A j \in DOMAIN call.parts : Back(place, call.parts[j])
      BY <1>2, <1>4, PartsFacts DEF Backs
    <3> QED
      BY <1>2, <3>1, PriorBack
  <2>6. Recoverable'
    BY <1>3, <1>4, <2>1, <2>2, <2>3, <2>5 DEF Recoverable
  <2> QED
    BY <1>1, <1>3, <1>7, <2>1, <2>4, <2>6, FatalHolds
<1> QED
  BY <1>5, <1>6, <1>7 DEF CleanupSettle

\* The restored preferences are taken into memory; the login item is left as it is.
LEMMA AcceptRestoredPreferencesKeeps ==
  ASSUME RestoreInv, AcceptRestoredPreferences
  PROVE  RestoreInv'
<1>1. call.who # "none" /\ call.step.do = "Accept"
  BY DEF AcceptRestoredPreferences, Doing
<1>2. RTypes /\ FileTypes /\ used \in Spent /\ call.who = "restore" /\ ~call.rolling /\ CallInv
  BY <1>1, WhoIs DEF RestoreInv
<1>3. /\ DestOf(place) \in call.after /\ place["settings"].dest # {} /\ journal.phase = "none"
      /\ "settings" \in DOMAIN call.data
  BY <1>1, <1>2, CleanupFinds DEF CallInv, Forward
<1>4. EndCall /\ stored' = call.after /\ life' = life
      /\ UNCHANGED <<place, journal, login, checked, unavailable, preview>> /\ drifted' = TRUE
  BY <1>2 DEF AcceptRestoredPreferences, Answer
<1>5. mem' \in Prefs /\ used' \in Spent
  BY <1>2, <1>3, SpendCounts DEF AcceptRestoredPreferences, RTypes, CallTypes, ValueTypes
<1>6. Stale' /\ FileTypes'
  BY <1>2, <1>3, <1>4 DEF Stale, FileTypes
<1> QED
  BY <1>2, <1>3, <1>4, <1>5, <1>6, EndHolds

----------------------------------------------------------------------------
(* The process, and the beginning of a restore.                             *)

\* A process that is gone leaves the files, and nothing in memory.
LEMMA DownHolds ==
  ASSUME RestoreInv, life' = "down", mem' = [other |-> 0, login |-> FALSE],
         permit' = "none", checked' = {}, preview' = {}, unavailable' = FALSE, call' = NoCall,
         used' \in Spent, drifted' \in BOOLEAN, UNCHANGED <<journal, login, stored>>,
         FileTypes', Recoverable'
  PROVE  RestoreInv'
<1>1. ValueTypes'
  BY DEF RestoreInv, RTypes, ValueTypes, Prefs
<1>2. Roles' /\ IdleInv' /\ LoginInv'
  BY DEF Roles, IdleInv, LoginInv, NoCall
<1> QED
  BY <1>1, <1>2, NoCallHolds, NoCallTypes DEF RestoreInv, RTypes

\* The desktop dies between any two steps.
LEMMA DieKeeps ==
  ASSUME RestoreInv, Die
  PROVE  RestoreInv'
<1>1. /\ life' = "down" /\ mem' = [other |-> 0, login |-> FALSE]
      /\ permit' = "none" /\ checked' = {} /\ preview' = {} /\ unavailable' = FALSE /\ call' = NoCall
      /\ Spend("crashes") /\ drifted' \in BOOLEAN /\ UNCHANGED <<journal, login, stored>>
  BY DEF Die, RestoreInv, RTypes, ValueTypes
<1>2. used' \in Spent
  BY <1>1, SpendCounts DEF RestoreInv, RTypes, ValueTypes
<1>3. FileTypes /\ IsPlace(place)
  BY DEF RestoreInv, RTypes, FileTypes
<1>4. CASE journal = NoJournal
  <2> DEFINE q == Discard(place, "staged")
  <2>1. IsPlace(q) /\ \A k \in KindSet :
          q[k].staged = {} /\ \A x \in Fields \ {"staged"} : q[k][x] = place[k][x]
    BY <1>3, DiscardIs DEF Fields
  <2>2. place' = Discard(q, "original")
    BY <1>4 DEF Die
  <2> HIDE DEF q
  <2>3. IsPlace(place') /\ \A k \in KindSet :
          place'[k].original = {} /\ \A x \in Fields \ {"original"} : place'[k][x] = q[k][x]
    BY <2>1, <2>2, DiscardIs DEF Fields
  <2>4. \A k \in KindSet : place'[k].original = {} /\ place'[k].staged = {} /\ place'[k].dest = place[k].dest
    BY <2>1, <2>3 DEF Fields
  <2>5. \A x \in Fields : place'["settings"][x] \subseteq Prefs
    BY <1>3, <2>4 DEF FileTypes, Fields, KindSet
  <2>6. FileTypes'
    BY <1>1, <1>3, <2>3, <2>5 DEF FileTypes
  <2>7. DestOf(place') = DestOf(place)
    BY <2>4 DEF DestOf
  <2>8. Recoverable'
    BY <1>1, <1>4, <2>7 DEF Recoverable, RestoreInv, NoJournal
  <2> QED
    BY <1>1, <1>2, <2>6, <2>8, DownHolds
<1>5. CASE journal # NoJournal
  <2>1. place' = place
    BY <1>5 DEF Die
  <2>2. FileTypes' /\ Recoverable'
    BY <1>1, <1>3, <2>1 DEF FileTypes, Recoverable, RestoreInv
  <2> QED
    BY <1>1, <1>2, <2>2, DownHolds
<1> QED
  BY <1>4, <1>5

\* The desktop is left with nothing in progress.
LEMMA QuitKeeps ==
  ASSUME RestoreInv, Quit
  PROVE  RestoreInv'
<1>1. /\ life' = "down" /\ mem' = [other |-> 0, login |-> FALSE]
      /\ permit' = "none" /\ checked' = {} /\ preview' = {} /\ unavailable' = FALSE /\ call' = NoCall
      /\ UNCHANGED <<place, journal, login, stored, drifted, used>>
  BY DEF Quit
<1>2. FileTypes' /\ Recoverable' /\ used' \in Spent /\ drifted' \in BOOLEAN
  BY <1>1 DEF FileTypes, Recoverable, RestoreInv, RTypes, ValueTypes
<1> QED
  BY <1>1, <1>2, DownHolds

\* A start looks at the journal before anything is loaded.
LEMMA StartupKeeps ==
  ASSUME RestoreInv, Startup
  PROVE  RestoreInv'
<1>1. life = "down" /\ permit = "none" /\ checked = {}
      /\ UNCHANGED <<place, journal, mem, login, permit, checked, unavailable, preview, stored, drifted, used>>
  BY DEF Startup, RestoreInv, Roles, RTypes, ValueTypes
<1>2. call.who = "none" /\ FileTypes /\ PartsOK(journal.parts)
  BY <1>1 DEF RestoreInv, Roles, RTypes, ValueTypes, CallTypes, FileTypes
<1>3. call = NoCall
  BY <1>2 DEF RestoreInv, RTypes, CallTypes
<1>4. FileTypes' /\ Recoverable' /\ IdleInv' /\ LoginInv'
  <2>1. life' # "up"
    BY DEF Startup
  <2> QED
    BY <1>1, <2>1 DEF RestoreInv, RTypes, FileTypes, Recoverable, IdleInv, LoginInv
<1>5. CASE journal = NoJournal
  <2>1. life' = "loading" /\ call' = NoCall
    BY <1>3, <1>5 DEF Startup
  <2>2. ValueTypes' /\ Roles'
    BY <1>1, <1>5, <2>1 DEF RestoreInv, RTypes, ValueTypes, Roles, NoCall
  <2> QED
    BY <1>4, <2>1, <2>2, NoCallHolds, NoCallTypes DEF RestoreInv, RTypes
<1>6. CASE journal # NoJournal
  <2>1. /\ life' = "starting" /\ journal.phase # "none"
        /\ journal.phase = "staging-projection" => StagingIntact
        /\ call' = [NoCall EXCEPT !.who = "recovery", !.step = RecoveryStep, !.parts = journal.parts,
                                  !.rolling = journal.phase # "committed", !.found = journal.phase]
    BY <1>2, <1>6 DEF Startup, FileTypes
  <2>2. /\ DOMAIN call' = CallFields /\ call'.who = "recovery" /\ call'.step = RecoveryStep
        /\ call'.parts = journal.parts /\ call'.rolling = (journal.phase # "committed")
        /\ call'.data = [k \in {} |-> 0]
    BY <2>1 DEF NoCall, CallFields
  <2>3. DOMAIN call'.data = {}
    BY <2>2
  <2>4. ValueTypes' /\ Roles'
    BY <1>1, <2>1, <2>2 DEF RestoreInv, RTypes, ValueTypes, Roles
  <2>5. CallTypes'
    BY <1>2, <2>2, <2>3 DEF CallTypes
  <2>6. RestoreCall' /\ RecoveryCall' /\ Forward'
    BY <2>2, <2>3 DEF RestoreCall, RecoveryCall, Forward
  <2>7. Before' = stored
    BY <1>1, <2>2 DEF Before
  <2>8. Completing'
    <3>1. SUFFICES ASSUME journal.phase = "committed" PROVE Completing'
      BY <2>2 DEF Completing
    <3>2. call'.step.do = "DropRollback" /\ DestOf(place) \in stored
      BY <2>2, <3>1 DEF RecoveryStep, At, RestoreInv, Recoverable
    <3> QED
      BY <1>1, <2>2, <3>1, <3>2 DEF Completing, DropSteps, Journalled
  <2>9. Rolling'
    <3>1. CASE journal.phase \in {"committing", "rolling-back"}
      <4>1. call'.step.do = "rolling-back" /\ Prior(place, journal.parts) \in stored
        BY <2>2, <3>1 DEF RecoveryStep, At, RestoreInv, Recoverable
      <4> QED
        BY <1>1, <2>1, <2>2, <2>7, <4>1 DEF Rolling, DropSteps
    <3>2. CASE journal.phase = "staging-projection"
      <4>1. call'.step.do = "DropRollback" /\ DestOf(place) \in stored /\ StagingIntact
        BY <2>1, <2>2, <3>2 DEF RecoveryStep, At, RestoreInv, Recoverable
      <4>2. \A j \in DOMAIN journal.parts : Back(place, journal.parts[j])
        BY <4>1 DEF StagingIntact, Back
      <4>3. Backs(0)'
        BY <1>1, <2>2, <4>2 DEF Backs
      <4> QED
        BY <1>1, <2>1, <2>2, <2>7, <4>1, <4>3 DEF Rolling, DropSteps
    <3>3. CASE journal.phase = "committed"
      BY <2>2, <3>3 DEF Rolling
    <3> QED
      BY <1>2, <2>1, <3>1, <3>2, <3>3 DEF FileTypes, Phases
  <2> QED
    BY <1>4, <2>4, <2>5, <2>6, <2>8, <2>9 DEF RestoreInv, RTypes, CallInv
<1> QED
  BY <1>5, <1>6

\* The settings are loaded; the login item may differ from them since a crash.
LEMMA LoadSettingsKeeps ==
  ASSUME RestoreInv, LoadSettings
  PROVE  RestoreInv'
<1>1. life = "loading" /\ life' = "up" /\ journal = NoJournal /\ permit = "none" /\ checked = {}
      /\ call.who = "none" /\ IsPlace(place) /\ FileTypes
      /\ UNCHANGED <<journal, login, permit, checked, unavailable, preview, call, used>>
  BY DEF LoadSettings, RestoreInv, Roles, RTypes, ValueTypes, CallTypes, FileTypes
<1>2. DestOf(place) \in stored
  BY <1>1 DEF RestoreInv, Recoverable, NoJournal
<1>3. mem' \in Prefs
  <2>1. CASE place["settings"].dest = {}
    BY <2>1 DEF LoadSettings, Prefs
  <2>2. CASE place["settings"].dest # {}
    <3>1. mem' = CHOOSE v \in place["settings"].dest : TRUE
      BY <2>2 DEF LoadSettings, Stored
    <3>2. mem' \in place["settings"].dest
      BY <2>2, <3>1
    <3>3. place["settings"].dest \subseteq Prefs
      BY <1>1 DEF FileTypes, Fields
    <3> QED
      BY <3>2, <3>3
  <2> QED
    BY <2>1, <2>2
<1>4. place' = [place EXCEPT !["settings"].dest = {mem'}]
      /\ stored' = {[d EXCEPT !["settings"] = {mem'}] : d \in {e \in stored : e["settings"] = place["settings"].dest}}
      /\ drifted' = (drifted \/ login # mem'.login)
  BY DEF LoadSettings
<1>5. /\ IsPlace(place') /\ place'["settings"].dest = {mem'}
      /\ \A x \in Fields \ {"dest"} : place'["settings"][x] = place["settings"][x]
      /\ \A k \in KindSet \ {"settings"} : place'[k] = place[k]
  BY <1>1, <1>4 DEF IsPlace, Fields, KindSet
<1>6. DestOf(place') = [DestOf(place) EXCEPT !["settings"] = {mem'}]
  <2> DEFINE d == DestOf(place)
             e == DestOf(place')
  <2>1. DOMAIN d = KindSet /\ e = [j \in KindSet |-> e[j]]
        /\ \A j \in KindSet : d[j] = place[j].dest /\ e[j] = place'[j].dest
    BY DEF DestOf
  <2> HIDE DEF d, e
  <2>2. \A j \in KindSet \ {"settings"} : place'[j].dest = place[j].dest
    BY <1>5
  <2>3. \A j \in KindSet : e[j] = IF j = "settings" THEN {mem'} ELSE d[j]
    BY <1>5, <2>1, <2>2
  <2>4. e = [j \in KindSet |-> IF j = "settings" THEN {mem'} ELSE d[j]]
    BY <2>1, <2>3
  <2>5. e = [d EXCEPT !["settings"] = {mem'}]
    BY <2>1, <2>4
  <2> QED
    BY <2>5 DEF d, e
<1>7. DestOf(place') \in stored'
  <2>1. DestOf(place)["settings"] = place["settings"].dest
    BY DEF DestOf, KindSet
  <2> QED
    BY <1>2, <1>4, <1>6, <2>1
<1>8. FileTypes'
  <2>1. \A x \in Fields : place'["settings"][x] \subseteq Prefs
    BY <1>1, <1>3, <1>5 DEF FileTypes
  <2> QED
    BY <1>1, <1>5, <2>1 DEF FileTypes
<1>9. ValueTypes' /\ Roles' /\ LoginInv'
  BY <1>1, <1>3, <1>4 DEF RestoreInv, RTypes, ValueTypes, Roles, LoginInv
<1>10. IdleInv' /\ Recoverable'
  BY <1>1, <1>5, <1>7 DEF IdleInv, Stale, Recoverable, NoJournal
<1>11. call' = NoCall
  BY <1>1 DEF RestoreInv, RTypes, CallTypes
<1> QED
  BY <1>8, <1>9, <1>10, <1>11, NoCallHolds, NoCallTypes DEF RestoreInv, RTypes

\* The components that a backup replaces.
LEMMA TouchedIs ==
  ASSUME NEW m, NEW w, w = Touched(m)
  PROVE  /\ w \in Seq(KindSet) /\ \A i, j \in DOMAIN w : w[i] = w[j] => i = j
         /\ (\A i \in DOMAIN w : w[i] # "projection") => \A i \in DOMAIN w : w[i] = "settings"
         /\ \A i \in DOMAIN w : w[i] = "settings" => m.settings # {}
<1>1. CASE HasProfiles(m) /\ m.settings = {}
  BY <1>1 DEF Touched, KindSet
<1>2. CASE HasProfiles(m) /\ m.settings # {}
  <2>1. w = <<"store", "projection", "settings">>
    BY <1>2 DEF Touched
  <2>2. w \in Seq(KindSet) /\ DOMAIN w = {1, 2, 3}
    BY <2>1 DEF KindSet
  <2>3. w[1] = "store" /\ w[2] = "projection" /\ w[3] = "settings"
    BY <2>1
  <2>4. \A i, j \in DOMAIN w : w[i] = w[j] => i = j
    BY <2>2, <2>3
  <2> QED
    BY <1>2, <2>2, <2>3, <2>4
<1>3. CASE ~HasProfiles(m) /\ m.settings = {}
  BY <1>3 DEF Touched, KindSet
<1>4. CASE ~HasProfiles(m) /\ m.settings # {}
  <2>1. w = <<"settings">>
    BY <1>4 DEF Touched
  <2>2. w \in Seq(KindSet) /\ DOMAIN w = {1}
    BY <2>1 DEF KindSet
  <2>3. w[1] = "settings"
    BY <2>1
  <2> QED
    BY <1>4, <2>2, <2>3
<1> QED
  BY <1>1, <1>2, <1>3, <1>4

\* They are listed with what exists before the restore.
LEMMA PartsIs ==
  ASSUME NEW m, NEW p, p = Parts(m), place["settings"].dest # {}
  PROVE  /\ PartsOK(p)
         /\ \A i \in DOMAIN p : (place[p[i].kind].dest # {}) = p[i].had
         /\ \A i \in DOMAIN p : p[i].kind = "settings" => p[i].had
         /\ "projection" \notin KindsOf(p) => \A i \in DOMAIN p : p[i].had
         /\ "settings" \in KindsOf(p) => m.settings # {}
<1> DEFINE w == Touched(m)
           T == [kind : KindSet, had : BOOLEAN]
<1>1. /\ w \in Seq(KindSet) /\ \A i, j \in DOMAIN w : w[i] = w[j] => i = j
      /\ (\A i \in DOMAIN w : w[i] # "projection") => \A i \in DOMAIN w : w[i] = "settings"
      /\ \A i \in DOMAIN w : w[i] = "settings" => m.settings # {}
  BY TouchedIs
<1>2. p = [i \in DOMAIN w |-> [kind |-> w[i], had |-> place[w[i]].dest # {}]]
  BY DEF Parts
<1> HIDE DEF w
<1>3. DOMAIN p = DOMAIN w /\ \A i \in DOMAIN w : p[i].kind = w[i] /\ p[i].had = (place[w[i]].dest # {})
  BY <1>2
<1>4. Len(w) \in Nat /\ DOMAIN w = 1..Len(w) /\ \A i \in DOMAIN w : w[i] \in KindSet
  BY <1>1, LenProperties, ElementOfSeq
<1>5. \A i \in 1..Len(w) : [kind |-> w[i], had |-> place[w[i]].dest # {}] \in T
  BY <1>4
<1>6. p \in [1..Len(w) -> T]
  BY <1>2, <1>4, <1>5
<1> HIDE DEF T
<1>7. p \in Seq(T)
  BY <1>4, <1>6
<1>8. PartsOK(p)
  BY <1>1, <1>3, <1>7 DEF PartsOK, T
<1>9. "projection" \notin KindsOf(p) => \A i \in DOMAIN p : p[i].had
  <2>1. "projection" \notin KindsOf(p) => \A i \in DOMAIN w : w[i] # "projection"
    BY <1>3 DEF KindsOf
  <2> QED
    BY <1>1, <1>3, <2>1
<1>10. "settings" \in KindsOf(p) => m.settings # {}
  BY <1>1, <1>3 DEF KindsOf
<1>11. \A i \in DOMAIN p : (place[p[i].kind].dest # {}) = p[i].had
  BY <1>3
<1>12. \A i \in DOMAIN p : p[i].kind = "settings" => p[i].had
  <2> SUFFICES ASSUME NEW i \in DOMAIN p, p[i].kind = "settings" PROVE p[i].had
    OBVIOUS
  <2>1. w[i] = "settings" /\ p[i].had = (place[w[i]].dest # {})
    BY <1>3
  <2>2. p[i].had = (place["settings"].dest # {})
    BY <2>1
  <2> QED
    BY <2>2
<1> QED
  BY <1>8, <1>9, <1>10, <1>11, <1>12

\* The call a restore begins with.
Restoring(parts, data, after) ==
  [who |-> "restore", step |-> At("Stage", 0), parts |-> parts, data |-> data,
   before |-> stored, after |-> after, rolling |-> FALSE, found |-> "none"]

\* A restore begins.
LEMMA CommitRestoreKeeps ==
  ASSUME RestoreInv, ~overtaken', CommitRestore
  PROVE  RestoreInv'
<1>1. life = "up" /\ ~unavailable /\ call.who = "none" /\ call = NoCall /\ permit = "none"
  BY AcquiredIdle DEF CommitRestore
<1>2. DestOf(place) \in stored /\ place["settings"].dest # {} /\ FileTypes /\ ValueTypes /\ Stale
  BY <1>1 DEF RestoreInv, IdleInv, RTypes
<1>3. preview' = {} /\ checked' \subseteq checked /\ UNCHANGED <<place, journal, life, mem, login, drifted>>
      /\ Spend("restores")
  BY DEF CommitRestore, TryAcquireLock
<1>4. used' \in Spent /\ FileTypes'
  BY <1>2, <1>3, SpendCounts DEF FileTypes, ValueTypes
<1> DEFINE next(m, b) == Desired(m, b)
           data(m, b) == [k \in KindsOf(Parts(m)) |->
                            CASE k = "store" -> Desired(m, b) [] k = "projection" -> DOMAIN Desired(m, b)
                              [] k = "settings" -> CHOOSE s \in m.settings : TRUE]
           after(d) == {[k \in KindSet |-> IF k \in DOMAIN d THEN {d[k]} ELSE e[k]] : e \in stored}
<1>5. PICK p \in preview, b \in BOOLEAN :
        IF p.digest # StateDigest THEN UNCHANGED <<permit, call, unavailable, stored>>
        ELSE IF journal # NoJournal THEN unavailable' = TRUE /\ UNCHANGED <<permit, call, stored>>
        ELSE /\ permit' = "restore"
             /\ call' = Restoring(Parts(p.manifest), data(p.manifest, b), after(data(p.manifest, b)))
             /\ stored' = stored \cup after(data(p.manifest, b))
             /\ UNCHANGED unavailable
  BY DEF CommitRestore, Restoring
<1>6. CASE UNCHANGED <<permit, call, stored>> /\ unavailable' \in {unavailable, TRUE}
  <2>1. Recoverable' /\ CallInv'
    BY <1>3, <1>6, FilesKept DEF RestoreInv
  <2>2. ValueTypes' /\ CallTypes'
    BY <1>2, <1>3, <1>4, <1>6 DEF RestoreInv, RTypes, ValueTypes, CallTypes
  <2>3. Roles' /\ LoginInv'
    BY <1>1, <1>3, <1>6 DEF RestoreInv, Roles, LoginInv
  <2>4. IdleInv'
    BY <1>2, <1>3, <1>6 DEF IdleInv, Stale
  <2> QED
    BY <1>4, <2>1, <2>2, <2>3, <2>4 DEF RestoreInv, RTypes
<1>7. CASE /\ journal = NoJournal
           /\ permit' = "restore"
           /\ call' = Restoring(Parts(p.manifest), data(p.manifest, b), after(data(p.manifest, b)))
           /\ stored' = stored \cup after(data(p.manifest, b))
           /\ UNCHANGED unavailable
  <2> DEFINE parts == Parts(p.manifest)
             d == data(p.manifest, b)
             a == after(d)
  <2>1. /\ PartsOK(parts)
        /\ \A i \in DOMAIN parts : (place[parts[i].kind].dest # {}) = parts[i].had
        /\ \A i \in DOMAIN parts : parts[i].kind = "settings" => parts[i].had
        /\ "projection" \notin KindsOf(parts) => \A i \in DOMAIN parts : parts[i].had
        /\ "settings" \in KindsOf(parts) => p.manifest.settings # {}
    BY <1>2, PartsIs
  <2>2. DOMAIN d = KindsOf(parts)
    OBVIOUS
  <2>3. "settings" \in DOMAIN d => d["settings"] \in Prefs
    <3>1. SUFFICES ASSUME "settings" \in KindsOf(parts) PROVE d["settings"] \in Prefs
      BY <2>2
    <3>2. d["settings"] = CHOOSE s \in p.manifest.settings : TRUE
      BY <3>1
    <3>3. p.manifest.settings # {} /\ p.manifest.settings \subseteq Prefs
      BY <1>2, <1>5, <2>1, <3>1, RestoreAssumption DEF ValueTypes, Prefs
    <3>4. (CHOOSE s \in p.manifest.settings : TRUE) \in p.manifest.settings
      BY <3>3
    <3> QED
      BY <3>2, <3>3, <3>4
  <2>4. Later(place, d) \in a
    <3> DEFINE lt(e) == [k \in KindSet |-> IF k \in DOMAIN d THEN {d[k]} ELSE e[k]]
    <3>1. a = {lt(e) : e \in stored}
      OBVIOUS
    <3> HIDE DEF d, a
    <3>2. Later(place, d) = lt(DestOf(place))
      BY DEF Later, DestOf
    <3> QED
      BY <1>2, <3>1, <3>2
  <2> HIDE DEF parts, d, a
  <2>5. call' = Restoring(parts, d, a) /\ stored' = stored \cup a
    BY <1>7 DEF parts, d, a
  <2>6. /\ DOMAIN call' = CallFields /\ call'.who = "restore" /\ call'.step = At("Stage", 0)
        /\ call'.parts = parts /\ call'.data = d /\ call'.before = stored /\ call'.after = a
        /\ call'.rolling = FALSE
    BY <2>5 DEF Restoring, CallFields
  <2>7. call'.step.do = "Stage"
    BY <2>6 DEF At
  <2>8. CallTypes'
    BY <2>1, <2>3, <2>6 DEF CallTypes
  <2>9. ValueTypes' /\ Roles' /\ IdleInv' /\ LoginInv'
    BY <1>1, <1>2, <1>3, <1>4, <1>7, <2>6 DEF RestoreInv, ValueTypes, Roles, IdleInv, LoginInv
  <2>10. RestoreCall' /\ RecoveryCall' /\ Rolling' /\ Completing'
    BY <1>2, <1>3, <2>1, <2>2, <2>4, <2>5, <2>6 DEF RestoreCall, RecoveryCall, Rolling, Completing
  <2>11. Forward'
    BY <1>2, <1>3, <1>7, <2>1, <2>6, <2>7 DEF Forward, ForwardSteps, DropSteps, OnlySettings, NoJournal
  <2>12. Recoverable'
    BY <1>2, <1>3, <1>7, <2>5 DEF Recoverable, NoJournal
  <2> QED
    BY <1>4, <2>8, <2>9, <2>10, <2>11, <2>12 DEF RestoreInv, RTypes, CallInv
<1> QED
  BY <1>5, <1>6, <1>7

----------------------------------------------------------------------------

\* The first start.
LEMMA RestoreInitHolds ==
  RestoreInit => RestoreInv
<1> SUFFICES ASSUME RestoreInit PROVE RestoreInv
  OBVIOUS
<1>1. PICK first \in FirstStores :
        place = [k \in KindSet |->
            [dest |-> CASE k = "store" -> first
                        [] k = "projection" -> {DOMAIN p : p \in first}
                        [] k = "settings" -> {},
             original |-> {}, staged |-> {}]]
  BY DEF RestoreInit
<1>2. IsPlace(place) /\ \A x \in Fields : place["settings"][x] = {}
  BY <1>1 DEF IsPlace, Fields, KindSet
<1>3. <<>> \in Seq([kind : KindSet, had : BOOLEAN]) /\ DOMAIN <<>> = {}
  OBVIOUS
<1>4. PartsOK(<<>>)
  BY <1>3 DEF PartsOK
<1>5. FileTypes
  BY <1>2, <1>4 DEF RestoreInit, FileTypes, NoJournal, Phases
<1>6. ValueTypes
  BY DEF RestoreInit, ValueTypes, Prefs, Spent
<1>7. CallTypes
  BY <1>4 DEF RestoreInit, CallTypes, NoCall, CallFields
<1>8. Roles /\ IdleInv /\ LoginInv
  BY DEF RestoreInit, Roles, IdleInv, LoginInv, NoCall
<1>9. CallInv
  BY DEF RestoreInit, NoCall, CallInv, RestoreCall, RecoveryCall, Forward, Rolling, Completing
<1>10. Recoverable
  BY DEF RestoreInit, Recoverable, NoJournal, Dest, DestOf
<1> QED
  BY <1>5, <1>6, <1>7, <1>8, <1>9, <1>10 DEF RestoreInv, RTypes

\* Every step keeps the invariant.
LEMMA RestoreStepHolds ==
  ASSUME ~overtaken', RestoreInv, [RestoreNext]_rvars
  PROVE  RestoreInv'
<1>1. CASE UNCHANGED rvars
  <2>1. Recoverable' /\ CallInv'
    BY <1>1, FilesKept DEF RestoreInv, rvars
  <2>2. RTypes' /\ Roles' /\ IdleInv' /\ LoginInv'
    BY <1>1 DEF rvars, RestoreInv, RTypes, FileTypes, ValueTypes, CallTypes, Roles, IdleInv, Stale, LoginInv
  <2> QED
    BY <2>1, <2>2 DEF RestoreInv
<1>2. CASE \/ \E who \in {"settings", "profile", "restore"} : TryAcquireCheck(who) \/ TryAcquireBusy(who)
           \/ Activate \/ PrepareRestore \/ SetStartupPlatform
  BY <1>2, QuietSteps
<1>3. CASE SetPreference \/ SetStartupSave \/ ProfileWrite
  BY <1>3, SetPreferenceKeeps, SetStartupSaveKeeps, ProfileWriteKeeps
<1>4. CASE CommitRestore
  BY <1>4, CommitRestoreKeeps
<1>5. CASE StageData \/ BeginJournal \/ StageProfileProjection \/ WriteSpecificJournal \/ CommitComponent
  BY <1>5, StageDataKeeps, BeginJournalKeeps, StageProfileProjectionKeeps, WriteSpecificJournalKeeps,
     CommitComponentKeeps
<1>6. CASE RollbackComponent \/ CleanupRoots \/ CleanupJournal \/ CleanupSettle \/ AcceptRestoredPreferences
  BY <1>6, RollbackComponentKeeps, CleanupRootsKeeps, CleanupJournalKeeps, CleanupSettleKeeps,
     AcceptRestoredPreferencesKeeps
<1>7. CASE Die \/ Quit \/ Startup \/ LoadSettings
  BY <1>7, DieKeeps, QuitKeeps, StartupKeeps, LoadSettingsKeeps
<1> QED
  BY <1>1, <1>2, <1>3, <1>4, <1>5, <1>6, <1>7 DEF RestoreNext

\* The invariant says that the files are those of one moment.
LEMMA RestoreInvImplies ==
  RestoreInv => RestoreIsAtomic /\ StartupFollowsPreference
<1> SUFFICES ASSUME RestoreInv PROVE RestoreIsAtomic /\ StartupFollowsPreference
  OBVIOUS
<1>1. RestoreIsAtomic
  <2>1. SUFFICES ASSUME life = "up", ~unavailable, call = NoCall PROVE Dest \in stored
    BY DEF RestoreIsAtomic
  <2>2. call.who = "none"
    BY <2>1 DEF NoCall
  <2> QED
    BY <2>1, <2>2 DEF RestoreInv, IdleInv, Dest, DestOf
<1>2. StartupFollowsPreference
  BY DEF RestoreInv, LoginInv, StartupFollowsPreference
<1> QED
  BY <1>1, <1>2

\* That a writer was overtaken is never forgotten.
LEMMA OvertakenStays ==
  ASSUME [RestoreNext]_rvars, overtaken
  PROVE  overtaken'
<1>1. CASE UNCHANGED rvars
  BY <1>1 DEF rvars
<1>2. CASE \/ \E who \in {"settings", "profile", "restore"} : TryAcquireCheck(who) \/ TryAcquireBusy(who)
           \/ SetPreference \/ SetStartupPlatform \/ SetStartupSave \/ ProfileWrite \/ Activate
           \/ PrepareRestore \/ CommitRestore
  BY <1>2 DEF TryAcquireCheck, TryAcquireBusy, SetPreference, SetStartupPlatform, SetStartupSave,
              ProfileWrite, Activate, PrepareRestore, CommitRestore, TryAcquireLock
<1>3. CASE \/ StageData \/ BeginJournal \/ StageProfileProjection \/ WriteSpecificJournal
           \/ CommitComponent \/ RollbackComponent
  BY <1>3 DEF StageData, BeginJournal, StageProfileProjection, WriteSpecificJournal,
              CommitComponent, RollbackComponent
<1>4. CASE \/ CleanupRoots \/ CleanupJournal \/ CleanupSettle \/ AcceptRestoredPreferences
           \/ Die \/ Quit \/ Startup \/ LoadSettings
  BY <1>4 DEF CleanupRoots, CleanupJournal, CleanupSettle, AcceptRestoredPreferences, Die, Quit,
              Startup, LoadSettings
<1> QED
  BY <1>1, <1>2, <1>3, <1>4 DEF RestoreNext

\* A restore of a backup, and a recovery at startup, take effect as a whole or not at
\* all: while the desktop serves and no transaction is in progress, the profile store,
\* its projection and the settings are those of one moment, and the login item is what
\* the preference says unless a crash or a failed undo left it behind.  This holds for
\* every set of backups and of profiles, and however often a step fails before or after
\* it took effect, the desktop dies or is started again; it holds until a writer is
\* overtaken between the two halves of try_acquire, which the code does not exclude.
THEOREM RestoreHolds == RestoreSpec => []RestoreIsWhole
<1> DEFINE IInv == overtaken \/ RestoreInv
<1>1. RestoreInit => IInv
  BY RestoreInitHolds
<1>2. IInv /\ [RestoreNext]_rvars => IInv'
  <2>1. SUFFICES ASSUME IInv, [RestoreNext]_rvars, ~overtaken' PROVE RestoreInv'
    OBVIOUS
  <2>2. RestoreInv
    BY <2>1, OvertakenStays
  <2> QED
    BY <2>1, <2>2, RestoreStepHolds
<1>3. IInv => RestoreIsWhole
  BY RestoreInvImplies DEF RestoreIsWhole
<1> QED
  BY <1>1, <1>2, <1>3, PTL DEF RestoreSpec
=============================================================================
