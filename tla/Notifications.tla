--------------------------- MODULE Notifications ---------------------------
(***************************************************************************)
(* NotificationCenter (crates/runtime/src/notifications.rs) and the socket *)
(* side of it (crates/desktop-bridge/src/protocol.rs): one queue of        *)
(* records, the lease under which one client session presents one record,  *)
(* the registry that binds a client identity to one socket, and the sweep. *)
(*                                                                         *)
(* Every public call holds the centre's mutex, so it is one step.  A lease *)
(* carries the time it has left instead of a deadline.  A record's         *)
(* revision counts its own changes: the code stamps a global counter, but  *)
(* compares it only with an earlier stamp of the same record.  `claims` is *)
(* the claim each client was told last, which its acknowledgement names:   *)
(* that may come late, twice or after a reconnect.                         *)
(***************************************************************************)
EXTENDS Naturals, Sequences, SequencesExt

CONSTANTS
  Publications,     \* [key, content, resolved, replaces]; content "pinned" is pinned
  Sockets, Identities,
  Names,            \* the identities the client of a socket may name
  RetentionLimit,   \* NOTIFICATION_RETENTION_LIMIT
  LeaseTime,        \* NOTIFICATION_PRESENTATION_LEASE_MILLISECONDS, in ticks
  SubscriptionLimit,
  MaxId,            \* bound: records ever made
  MaxRevision,      \* bound: changes of one record before it is published again
  MaxGeneration     \* bound: claims of one record

VARIABLES
  records,   \* NotificationState::records, oldest first
  next_id,
  owners,    \* NotificationPresentationSessionRegistry::owners
  sockets,   \* open or gone; a gone one may still be dropping its leases
  subscribed, \* tracker.subscriptions: how many for each identity
  releasing, \* the identity a socket has released the leases of, not yet the name
  claims     \* the clients: the claim each was told last

centre == <<records, next_id>>
nvars == <<centre, owners, sockets, subscribed, releasing, claims>>

NoOne == "nobody"
NoLease == [identity |-> NoOne, left |-> 0]
Free == NoOne
Held(r) == r.lease # NoLease
NoClaim == [id |-> 0, generation |-> 0, revision |-> 0]

NotificationsInit ==
  /\ records = <<>> /\ next_id = 0
  /\ owners = [i \in Identities |-> Free]
  /\ sockets = [s \in Sockets |-> "gone"]
  /\ subscribed = [s \in Sockets |-> [i \in Identities |-> 0]]
  /\ releasing = [s \in Sockets |-> NoOne]
  /\ claims = [i \in Identities |-> NoClaim]

-----------------------------------------------------------------------------
(* The centre: each operator is what one call leaves of the records.        *)

\* expire_locked: the expired leases are put back in the queue.
MutantExpired(r) == Held(r) /\ r.lease.left > LeaseTime
Expired(r) == Held(r) /\ r.lease.left = 0
Unpresented(r) == [r EXCEPT !.phase = "unpresented", !.lease = NoLease]

\* commit_indices_locked: the changed records take the next revision.
Commit(before, after) ==
  [n \in DOMAIN after |->
     IF after[n] = before[n] THEN after[n] ELSE [after[n] EXCEPT !.revision = @ + 1]]
ExpiredRequeued ==
  [n \in DOMAIN records |-> IF Expired(records[n]) THEN Unpresented(records[n]) ELSE records[n]]

\* fold_resolved_unpresented_record.
FoldResolved(r) ==
  IF r.resolved /\ r.phase = "unpresented"
    THEN [r EXCEPT !.phase = "folded", !.lease = NoLease] ELSE r

\* publish: an unresolved occurrence is updated, a resolved one is history that
\* only a resolving publication touches; what it replaces goes; the oldest is
\* dropped at the limit.  The same publication again changes nothing.
Matching(seq, p) ==
  SelectLastInSeq(seq, LAMBDA r : r.key = p.key /\ (~r.resolved \/ p.resolved))
Replaced(p, r) == r.key # p.key /\ r.key \in p.replaces
SamePublication(p) ==
  LET n == Matching(records, p)
  IN /\ \A m \in DOMAIN records : ~Replaced(p, records[m])
     /\ n # 0 /\ records[n].content = p.content /\ records[n].resolved = p.resolved
NewRecord(p) ==
  [id |-> next_id + 1, key |-> p.key, content |-> p.content, resolved |-> p.resolved,
   read |-> FALSE, revision |-> 1, phase |-> "unpresented",
   generation |-> 0, lease |-> NoLease]
Retained(seq) ==
  IF Len(seq) > RetentionLimit THEN SubSeq(seq, Len(seq) - RetentionLimit + 1, Len(seq)) ELSE seq
Publish(p) ==
  LET kept == SelectSeq(records, LAMBDA r : ~Replaced(p, r))
      n == Matching(kept, p)
      record == IF n = 0 THEN NewRecord(p)
                ELSE [kept[n] EXCEPT !.content = p.content, !.resolved = p.resolved,
                                     !.revision = @ + 1]
      rest == IF n = 0 THEN kept ELSE RemoveAt(kept, n)
  IN /\ ~SamePublication(p)
     /\ IF n = 0 THEN next_id < MaxId ELSE kept[n].revision < MaxRevision
     /\ records' = Retained(Append(rest, FoldResolved(record)))
     /\ next_id' = IF n = 0 THEN next_id + 1 ELSE next_id
     /\ UNCHANGED <<owners, sockets, subscribed, releasing, claims>>

Unaffected == UNCHANGED <<next_id, owners, sockets, subscribed, releasing, claims>>

MarkRead(id) ==
  /\ \E n \in DOMAIN records : records[n].id = id /\ ~records[n].read
  /\ records' = [n \in DOMAIN records |->
              IF records[n].id = id THEN [records[n] EXCEPT !.read = TRUE, !.revision = @ + 1]
              ELSE records[n]]
  /\ Unaffected

\* remove and remove_by_dedupe_key: a pinned record only goes by its key.
RemoveMatching(Test(_)) ==
  /\ \E n \in DOMAIN records : Test(records[n])
  /\ records' = SelectSeq(records, LAMBDA r : ~Test(r))
  /\ Unaffected
RemoveById(id) == RemoveMatching(LAMBDA r : r.id = id /\ r.content # "pinned")
RemoveByKey(key) == RemoveMatching(LAMBDA r : r.key = key)

\* resolve_by_dedupe_key reaches the newest open record of a key, the namespace
\* form every open record.  A pinned record loses the pin.
Resolved(r) ==
  FoldResolved([r EXCEPT !.resolved = TRUE, !.revision = @ + 1,
                         !.content = IF @ = "pinned" THEN "plain" ELSE @])
ResolveAt(indices) ==
  /\ indices # {}
  /\ records' = [n \in DOMAIN records |-> IF n \in indices THEN Resolved(records[n]) ELSE records[n]]
  /\ Unaffected
ResolveByKey(key) ==
  LET n == SelectLastInSeq(records, LAMBDA r : r.key = key /\ ~r.resolved)
  IN ResolveAt({n} \ {0})
ResolveByNamespace == ResolveAt({n \in DOMAIN records : ~records[n].resolved})

-----------------------------------------------------------------------------
(* Claims and acknowledgements.                                             *)

ClaimOf(r) == [id |-> r.id, generation |-> r.generation, revision |-> r.revision]

\* claim_next_locked: the lease the identity has, else the head of the queue,
\* but only while nobody else presents.
Presenting(seq) == \E n \in DOMAIN seq : seq[n].phase = "presenting"
Head1(seq) == SelectInSeq(seq, LAMBDA r : r.phase = "unpresented")
Claimed(i) ==
  LET queue == ExpiredRequeued
      mine == SelectInSeq(queue, LAMBDA r : r.lease.identity = i)
      head == Head1(queue)
  IN IF mine # 0 \/ Presenting(queue) \/ head = 0 THEN queue
     ELSE [queue EXCEPT ![head].phase = "presenting", ![head].generation = @ + 1,
                        ![head].lease = [identity |-> i, left |-> LeaseTime]]
ClaimNext(i) ==
  LET after == Commit(records, Claimed(i))
      mine == SelectInSeq(after, LAMBDA r : r.lease.identity = i)
  IN /\ \A n \in DOMAIN after : after[n].generation <= MaxGeneration
     /\ records' = after
     /\ claims' = IF mine = 0 THEN claims ELSE [claims EXCEPT ![i] = ClaimOf(after[mine])]

\* complete_presentation.
MutantAccepted(r, i) ==
  /\ r.phase = "presenting" /\ r.lease.identity = i
  /\ r.id = claims[i].id /\ r.generation = claims[i].generation
Accepted(r, i) ==
  /\ r.phase = "presenting" /\ r.lease.identity = i
  /\ ClaimOf(r) = claims[i]
CompletedBy(i) ==
  LET queue == ExpiredRequeued
  IN Commit(records, [n \in DOMAIN queue |->
       IF Accepted(queue[n], i) THEN [queue[n] EXCEPT !.phase = "folded", !.lease = NoLease]
       ELSE queue[n]])

\* release_presentation_leases.
ReleasedOf(i) ==
  LET queue == ExpiredRequeued
  IN Commit(records, [n \in DOMAIN queue |->
       IF queue[n].lease.identity = i THEN Unpresented(queue[n]) ELSE queue[n]])

-----------------------------------------------------------------------------
(* The sockets: each runs its own loop, so between its steps others act.    *)

Connect(s) ==
  /\ sockets[s] = "gone" /\ releasing[s] = NoOne /\ SumFunction(subscribed[s]) = 0
  /\ sockets' = [sockets EXCEPT ![s] = "open"]
  /\ UNCHANGED <<centre, owners, subscribed, releasing, claims>>

Serving(s) == sockets[s] = "open" /\ releasing[s] = NoOne

\* reserve: an identity belongs to one socket.
Reserves(s, i) == owners[i] \in {Free, s}

Subscribe(s, i) ==
  /\ Serving(s)
  /\ SumFunction(subscribed[s]) < SubscriptionLimit
  /\ Reserves(s, i)
  /\ owners' = [owners EXCEPT ![i] = s]
  /\ subscribed' = [subscribed EXCEPT ![s][i] = @ + 1]
  /\ ClaimNext(i)
  /\ UNCHANGED <<next_id, sockets, releasing>>

\* NotificationPresentationLeaseTracker::contains.
Contained(s, i) == owners[i] = s /\ subscribed[s][i] > 0

ClaimPresentation(s, i) ==
  /\ Serving(s) /\ Contained(s, i)
  /\ ClaimNext(i)
  /\ UNCHANGED <<next_id, owners, sockets, subscribed, releasing>>

CompletePresentation(s, i) ==
  /\ Serving(s) /\ Contained(s, i) /\ claims[i] # NoClaim
  /\ records' = CompletedBy(i)
  /\ Unaffected

\* unsubscribe and the tracker's Drop: forget the subscription, and if it was
\* the last of its identity release the leases, then the identity.
Unsubscribe(s, i) ==
  /\ releasing[s] = NoOne /\ subscribed[s][i] > 0
  /\ subscribed' = [subscribed EXCEPT ![s][i] = IF sockets[s] = "open" THEN @ - 1 ELSE 0]
  /\ IF subscribed'[s][i] > 0 THEN UNCHANGED <<records, releasing>>
     ELSE records' = ReleasedOf(i) /\ releasing' = [releasing EXCEPT ![s] = i]
  /\ UNCHANGED <<next_id, owners, sockets, claims>>
ReleaseIdentity(s) ==
  /\ releasing[s] # NoOne
  /\ owners' = [owners EXCEPT ![releasing[s]] = IF @ = s THEN Free ELSE @]
  /\ releasing' = [releasing EXCEPT ![s] = NoOne]
  /\ UNCHANGED <<centre, sockets, subscribed, claims>>
Disconnect(s) ==
  /\ Serving(s)
  /\ sockets' = [sockets EXCEPT ![s] = "gone"]
  /\ UNCHANGED <<centre, owners, subscribed, releasing, claims>>

\* The one-second sweep of a socket with subscriptions reads the snapshot, and
\* that requeues.
Sweep(s) ==
  /\ Serving(s) /\ SumFunction(subscribed[s]) > 0
  /\ \E n \in DOMAIN records : Expired(records[n])
  /\ records' = Commit(records, ExpiredRequeued)
  /\ Unaffected
Tick ==
  /\ \E n \in DOMAIN records : records[n].lease.left > 0
  /\ records' = [n \in DOMAIN records |->
                   [records[n] EXCEPT !.lease.left = IF @ > 0 THEN @ - 1 ELSE 0]]
  /\ Unaffected

Keys == {p.key : p \in Publications}

NotificationsNext ==
  \/ \E p \in Publications : Publish(p)
  \/ \E n \in DOMAIN records : MarkRead(records[n].id) \/ RemoveById(records[n].id)
  \/ \E key \in Keys : RemoveByKey(key) \/ ResolveByKey(key)
  \/ ResolveByNamespace \/ Tick
  \/ \E s \in Sockets :
       \/ Connect(s) \/ Disconnect(s) \/ ReleaseIdentity(s) \/ Sweep(s)
       \/ \E i \in Names[s] :
            \/ Subscribe(s, i) \/ Unsubscribe(s, i)
            \/ ClaimPresentation(s, i) \/ CompletePresentation(s, i)

\* A socket loop runs its interval and its Drop; the clock moves.
NotificationsFairness ==
  /\ WF_nvars(Tick)
  /\ \A s \in Sockets :
       /\ WF_nvars(Sweep(s)) /\ WF_nvars(ReleaseIdentity(s))
       /\ \A i \in Identities : WF_nvars(sockets[s] = "gone" /\ Unsubscribe(s, i))

NotificationsSpec == NotificationsInit /\ [][NotificationsNext]_nvars /\ NotificationsFairness

-----------------------------------------------------------------------------
(* One queue: at most one record is presented, a presented record has a     *)
(* live lease and a waiting or folded one has none, whatever was published, *)
(* resolved, removed or evicted meanwhile.                                  *)
OnePresenter ==
  /\ \A m, n \in DOMAIN records :
       records[m].phase = "presenting" /\ records[n].phase = "presenting" => m = n
  /\ \A n \in DOMAIN records : Held(records[n]) <=> records[n].phase = "presenting"

(* A lease is never orphaned: its identity is bound to a socket that still  *)
(* counts a subscription of it, so its client can finish the presentation   *)
(* or the socket's Drop will release it (protocol.rs, the lease tracker).   *)
LeaseHasOwner ==
  \A n \in DOMAIN records : Held(records[n]) =>
    LET i == records[n].lease.identity
    IN \E s \in Sockets : owners[i] = s /\ subscribed[s][i] > 0

(* An acknowledgement folds a record only with the content its client was   *)
(* shown: one that arrives after the record was published again, expired or *)
(* was claimed by somebody else changes nothing.                            *)
FoldsWhatWasShown ==
  [][\A n \in DOMAIN records :
       records[n].phase = "presenting" =>
         \A m \in DOMAIN records' :
           records'[m].id = records[n].id /\ records'[m].phase = "folded" =>
             ClaimOf(records[n]) = claims[records[n].lease.identity]]_nvars

(* A holder that stalls without disconnecting does not hold up the queue:   *)
(* every lease ends, by acknowledgement, release, eviction or the sweep     *)
(* (claims are bounded, so a lease that ended is not followed for ever).    *)
LeaseEnds == []<>(\A n \in DOMAIN records : ~Held(records[n]))
=============================================================================
