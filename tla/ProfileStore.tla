---------------------------- MODULE ProfileStore ----------------------------
(***************************************************************************)
(* The Profile service and its repository (crates/profile service.rs and   *)
(* repository.rs).  A Profile is kept three times: in the generation the   *)
(* pointer file names (what is listed and activated), in a mirror that is  *)
(* rewritten file by file (what refresh, policy and delete load), and as a *)
(* visible file in `profiles/' that the user may edit or remove at any     *)
(* time.  One mutation at a time holds the permit; a preflight does not.   *)
(*                                                                         *)
(* Every write may fail before it took effect, or after it (the rename is  *)
(* done and its directory cannot be flushed), and the process may die      *)
(* between any two steps.  A place holds {} (nothing) or {value}.          *)
(*                                                                         *)
(* The revisions are the contents a source may have.  Broken ones do not   *)
(* pass the preflight; to Conflicting ones the patches of an existing      *)
(* Profile cannot be bound.  The persisted `active' flag is never set by   *)
(* the code and is left out, as is what only the display needs.            *)
(***************************************************************************)
EXTENDS Naturals, Sequences, FiniteSets, FiniteSetsExt

CONSTANTS Ids, Files, Contents, Broken, Conflicting,
          Operations,          \* the commands given
          MaxCommands, MaxEdits, MaxFaults, MaxCrashes

VARIABLES
  pointer,   \* current generation: {} or {number}
  shelf,     \* complete generations on disk: {[no, profiles]}
  root,      \* does the generations directory exist
  mirror,    \* profiles/<id> of the store
  visible,   \* the user's directory: file -> {} or {revision}
  observed,  \* observed_directory_revisions
  pending,   \* PendingPreflights: [next, active, reports]
  pre,       \* the preflight in progress
  call,      \* the mutation that holds the permit
  spent      \* commands, edits, faults and crashes so far

svars == <<pointer, shelf, root, mirror, visible, observed, pending, pre, call, spent>>

S(do, arg) == [do |-> do, arg |-> arg]
TheOne(place) == CHOOSE v \in place : TRUE
Empty == [id \in Ids |-> {}]
Unseen == [f \in Files |-> {}]
NoCall == [do |-> "none", id |-> 0, rec |-> {}, at |-> "", todo |-> <<>>, files |-> {}, seen |-> Unseen]
Idle == call = NoCall
Spend(what) == spent' = [spent EXCEPT ![what] = @ + 1]

(***************************************************************************)
(* The repository                                                          *)
(***************************************************************************)
\* A record: the revision, the revision its patches are bound to, the status flags.
\* `due' says that next_run_at has passed.
Record(file, source, rev) ==
  [file |-> file, source |-> source, rev |-> rev, bound |-> rev, valid |-> TRUE,
   error |-> FALSE, updating |-> FALSE, scheduled |-> FALSE, due |-> FALSE]

\* Patches of a valid record are bound to its revision.
ValidateRecord(r) == r.valid => r.bound = r.rev

\* The mirror of a Profile: content-addressed files, and three that are replaced.
Mirrored(r) == [contents |-> {r.rev, r.bound}, source |-> r.source, meta |-> r, index |-> r.bound]
LoadedRecord(m) == [m.meta EXCEPT !.source = m.source, !.bound = m.index]
Loadable(m) == /\ {m.meta.rev, m.index} \subseteq m.contents
               /\ ValidateRecord(LoadedRecord(m))
Load(id) == IF mirror[id] # {} /\ Loadable(TheOne(mirror[id]))
            THEN {LoadedRecord(TheOne(mirror[id]))} ELSE {}

\* read_current_generation: an absent store is an empty one only while the
\* generations directory is absent as well.
Current == {g \in shelf : g.no \in pointer}
Readable == IF pointer = {} THEN ~root ELSE Current # {}
Profiles == IF pointer = {} THEN Empty ELSE TheOne(Current).profiles
GenerationId == IF pointer = {} THEN 0 ELSE TheOne(pointer)
Listed == {id \in Ids : Profiles[id] # {}}

\* publish_records: stage_generation, then publish_generation.
Generation(profiles) ==
  [no |-> 1 + Max({0} \cup pointer \cup {g.no : g \in shelf}), profiles |-> profiles]
PublishSteps(profiles) ==
  LET g == Generation(profiles)
  IN  <<S("root", 0), S("stage", g), S("promote", g), S("point", g)>>
Published(id, record) == PublishSteps([Profiles EXCEPT ![id] = record])

\* write_record into a directory that exists: the source descriptor, the
\* content-addressed files, the metadata, the pointer to the patch set.
WriteRecord(r) == <<S("source", r), S("contents", r), S("meta", r), S("index", r)>>
\* write_profile_mirror: a new directory is staged and renamed.
WriteProfileMirror(id, r) == IF mirror[id] # {} THEN WriteRecord(r) ELSE <<S("mirror", r)>>

Save(id, r) == <<S("mirror", r)>> \o Published(id, {r})
Updates(id, r) == Readable /\ ValidateRecord(r) /\ id \in Listed
\* update: the record's source cannot change; replace_source allows it.
Update(id, r) == WriteProfileMirror(id, r) \o Published(id, {r})
Delete(id) == (IF mirror[id] # {} THEN <<S("unmirror", 0)>> ELSE <<>>) \o Published(id, {})

\* One write of an operation.
WroteMirror(id, do, r) ==
  mirror' = [mirror EXCEPT ![id] =
    CASE do = "mirror" -> {Mirrored(r)}
      [] do = "source" -> {[m EXCEPT !.source = r.source] : m \in @}
      [] do = "contents" -> {[m EXCEPT !.contents = @ \cup {r.rev, r.bound}] : m \in @}
      [] do = "meta" -> {[m EXCEPT !.meta = r] : m \in @}
      [] do = "index" -> {[m EXCEPT !.index = r.bound] : m \in @}
      [] do = "unmirror" -> {}]
Wrote(step) ==
  CASE step.do \in {"mirror", "source", "contents", "meta", "index", "unmirror"} ->
         WroteMirror(call.id, step.do, step.arg) /\ UNCHANGED <<pointer, shelf, root, visible>>
    [] step.do = "root" -> root' = TRUE /\ UNCHANGED <<pointer, shelf, mirror, visible>>
    \* The staging directory is private and its name is never reused.
    [] step.do = "stage" -> UNCHANGED <<pointer, shelf, root, mirror, visible>>
    \* A generation that is not the current one is never read again.
    [] step.do = "promote" -> /\ shelf' = Current \cup {step.arg}
                              /\ UNCHANGED <<pointer, root, mirror, visible>>
    [] step.do = "point" -> pointer' = {step.arg.no} /\ UNCHANGED <<shelf, root, mirror, visible>>
    [] step.do = "show" -> /\ visible' = [visible EXCEPT ![step.arg.file] = {step.arg.rev}]
                           /\ UNCHANGED <<pointer, shelf, root, mirror>>
    [] step.do = "hide" -> /\ visible' = [visible EXCEPT ![step.arg.file] = {}]
                           /\ UNCHANGED <<pointer, shelf, root, mirror>>

(***************************************************************************)
(* Commands that hold the permit                                           *)
(***************************************************************************)
Begin(do, id, rec, at, todo) ==
  call' = [do |-> do, id |-> id, rec |-> {rec}, at |-> at, todo |-> todo, files |-> {}, seen |-> Unseen]
May(operation) == Idle /\ Readable /\ operation \in Operations /\ spent.commands < MaxCommands

\* take_pending: only the newest request, prepared against the current generation.
MutantTakePending(report) == pending.active = report.sequence
TakePending(report) == pending.active = report.sequence /\ report.generation = GenerationId

Fresh == Ids \ (Listed \cup {id \in Ids : mirror[id] # {}})

\* save_preview_authorized; the visible file is written before the record.
SavePreview ==
  /\ May("save") /\ Fresh # {}
  /\ Spend("commands")
  /\ \E report \in pending.reports :
       /\ pending' = [pending EXCEPT !.reports = @ \ {report}]
       /\ IF TakePending(report) /\ visible[report.file] = {}
          THEN LET r == Record(report.file, "https", report.rev)
                   id == Min(Fresh)
               IN  Begin("save", id, r, "saved", <<S("show", r)>> \o Save(id, r))
          ELSE UNCHANGED call
  /\ UNCHANGED <<pointer, shelf, root, mirror, visible, observed, pre>>

\* delete_authorized: loads the mirror, deletes, removes the visible file.
DeleteProfile(id) ==
  /\ May("delete") /\ Load(id) # {} /\ id \in Listed
  /\ Spend("commands")
  /\ Begin("delete", id, TheOne(Load(id)), "deleted", Delete(id) \o <<S("hide", TheOne(Load(id)))>>)
  /\ UNCHANGED <<pointer, shelf, root, mirror, visible, observed, pending, pre>>

\* detach_subscription: reads the generation and keeps the visible file.
Detach(id) ==
  /\ May("detach") /\ id \in Listed
  /\ LET r == TheOne(Profiles[id])
         local == [r EXCEPT !.source = "local", !.scheduled = FALSE, !.due = FALSE]
     IN  /\ r.source = "https"
         /\ Updates(id, local)
         /\ Begin("detach", id, local, "updated", Update(id, local))
  /\ Spend("commands")
  /\ UNCHANGED <<pointer, shelf, root, mirror, visible, observed, pending, pre>>

\* set_refresh_policy_authorized: loads the mirror; only a subscription is scheduled.
SetRefreshPolicy(id, scheduled) ==
  /\ May("policy") /\ Load(id) # {}
  /\ LET r == [TheOne(Load(id)) EXCEPT !.scheduled = scheduled, !.due = FALSE]
     IN  /\ r.source = "https" \/ ~scheduled
         /\ Updates(id, r) /\ r.source = TheOne(Profiles[id]).source
         /\ Begin("policy", id, r, "updated", Update(id, r))
  /\ Spend("commands")
  /\ UNCHANGED <<pointer, shelf, root, mirror, visible, observed, pending, pre>>

\* next_run_at passes.
Due(id) ==
  /\ Idle /\ Readable /\ id \in Listed /\ "refresh" \in Operations
  /\ LET r == TheOne(Profiles[id])
     IN  r.scheduled /\ ~r.due
  /\ shelf' = {[g EXCEPT !.profiles = [@ EXCEPT ![id] = {[r EXCEPT !.due = TRUE] : r \in @}]] : g \in shelf}
  /\ mirror' = [mirror EXCEPT ![id] = {[m EXCEPT !.meta.due = m.meta.scheduled] : m \in @}]
  /\ UNCHANGED <<pointer, root, visible, observed, pending, pre, call, spent>>

\* refresh_with_trigger, after mark_refresh_pending_authorized: the record is shown
\* as updating before the source is read.
Refresh(id, trigger) ==
  /\ May("refresh") /\ Load(id) # {}
  /\ trigger = "scheduled" => TheOne(mirror[id]).meta.due
  /\ LET r == [TheOne(Load(id)) EXCEPT !.updating = TRUE]
     IN  /\ Updates(id, r) /\ r.source = TheOne(Profiles[id]).source
         /\ Begin("refresh", id, r, trigger, Update(id, r))
  /\ Spend("commands")
  /\ UNCHANGED <<pointer, shelf, root, mirror, visible, observed, pending, pre>>

\* The schedule after an attempt: both kinds of run move next_run_at into the future.
Attempted(r) == [r EXCEPT !.due = FALSE, !.updating = FALSE]
Failed(r) == [Attempted(r) EXCEPT !.error = TRUE]

\* The record a refresh stores: the new revision with its patches bound; the new
\* revision marked invalid when they cannot be; or the old one after a failed read.
\* last_success is set by every import and never cleared, so a failed read stores
\* a valid record.
Fetched(r, rev) ==
  IF rev = {} THEN [Failed(r) EXCEPT !.valid = TRUE]
  ELSE IF TheOne(rev) \in Conflicting
       THEN [Failed(r) EXCEPT !.rev = TheOne(rev), !.valid = FALSE]
       ELSE [Record(r.file, r.source, TheOne(rev)) EXCEPT !.scheduled = r.scheduled]

\* Once the source was read (rev = {} stands for a failure, of the preflight too).
RefreshRead(rev) ==
  LET r == TheOne(call.rec)
      next == Fetched(r, rev)
      applied == rev # {} /\ TheOne(rev) \notin Conflicting
  IN  /\ call.at \in {"manual", "scheduled"} /\ call.todo = <<>>
      /\ IF Updates(call.id, next)
         THEN call' = [call EXCEPT !.at = "refreshed", !.rec = {next},
                         !.todo = (IF applied THEN <<S("show", next)>> ELSE <<>>) \o Update(call.id, next)]
         ELSE call' = NoCall
      /\ UNCHANGED <<pointer, shelf, root, mirror, visible, observed, pending, pre, spent>>

(***************************************************************************)
(* reconcile_profile_directory                                             *)
(***************************************************************************)
Reconcile ==
  /\ May("reconcile")
  /\ Spend("commands")
  /\ call' = [do |-> "reconcile", id |-> 0, rec |-> {}, at |-> "next", todo |-> <<>>,
              files |-> Files, seen |-> Unseen]
  /\ UNCHANGED <<pointer, shelf, root, mirror, visible, observed, pending, pre>>

\* The record of a file; of two with one name the map keeps the last.
RecordOf(file) == {id \in Listed : TheOne(Profiles[id]).file = file}

\* Self-writes and what was seen before are skipped; a Profile in error is tried again.
Unchanged(file, rev) ==
  \/ observed[file] = {rev}
  \/ \E id \in RecordOf(file) :
       TheOne(Profiles[id]).rev = rev /\ ~TheOne(Profiles[id]).error

Noted(file, rev) == [call EXCEPT !.files = @ \ {file}, !.seen = [@ EXCEPT ![file] = rev]]

\* A file is there: the bytes are read once to see whether they are new, and again
\* by the preflight, after the user may have changed them.
ReconcileFile(file) ==
  /\ call.at = "next" /\ call.todo = <<>> /\ file \in call.files /\ visible[file] # {}
  /\ LET rev == visible[file]
     IN  call' = IF Unchanged(file, TheOne(rev)) THEN Noted(file, rev)
                 ELSE [Noted(file, rev) EXCEPT !.at = "read", !.rec = {file}]
  /\ UNCHANGED <<pointer, shelf, root, mirror, visible, observed, pending, pre, spent>>

\* mark_directory_profile_invalid keeps the last good contents.
MarkDirectoryProfileInvalid(r) == [r EXCEPT !.error = TRUE, !.updating = FALSE, !.valid = TRUE]

\* A subscription keeps its source and schedule, any other record becomes local.
Reimported(r, rev) ==
  IF rev = {} \/ rev \subseteq Broken \/ rev \subseteq Conflicting
  THEN MarkDirectoryProfileInvalid(r)
  ELSE [Record(r.file, r.source, TheOne(rev)) EXCEPT !.scheduled = r.scheduled, !.due = r.due]

ReconcileRead ==
  LET file == TheOne(call.rec)
      rev == visible[file]
      next == [call EXCEPT !.at = "next", !.rec = {}]
  IN  /\ call.at = "read"
      /\ IF RecordOf(file) # {}
         THEN LET id == Max(RecordOf(file))
                  r == Reimported(TheOne(Profiles[id]), rev)
              IN  call' = IF Updates(id, r) THEN [next EXCEPT !.id = id, !.todo = Update(id, r)]
                          ELSE NoCall
         ELSE IF rev = {} \/ rev \subseteq Broken THEN call' = next
         ELSE /\ Fresh # {}
              /\ LET id == Min(Fresh)
                     r == Record(file, "local", TheOne(rev))
                 IN  call' = [next EXCEPT !.id = id, !.todo = Save(id, r)]
      /\ UNCHANGED <<pointer, shelf, root, mirror, visible, observed, pending, pre, spent>>

\* Records whose file was not there are deleted; then the revisions seen are kept.
ReconcileGone(file) ==
  /\ call.at = "next" /\ call.todo = <<>> /\ file \in call.files /\ visible[file] = {}
  /\ LET next == [call EXCEPT !.files = @ \ {file}]
     IN  call' = IF RecordOf(file) = {} THEN next
                 ELSE [next EXCEPT !.id = Max(RecordOf(file)), !.todo = Delete(Max(RecordOf(file)))]
  /\ UNCHANGED <<pointer, shelf, root, mirror, visible, observed, pending, pre, spent>>

ReconcileDone ==
  /\ call.at = "next" /\ call.todo = <<>> /\ call.files = {}
  /\ observed' = call.seen
  /\ call' = NoCall
  /\ UNCHANGED <<pointer, shelf, root, mirror, visible, pending, pre, spent>>

(***************************************************************************)
(* The steps of a mutation                                                 *)
(***************************************************************************)
\* A failed write ends the call; save then removes the visible file again.
Abandon == IF call.do = "save" /\ call.at = "saved" /\ Head(call.todo).do \notin {"show", "hide"}
           THEN call' = [call EXCEPT !.at = "undo", !.todo = <<S("hide", TheOne(call.rec))>>]
           ELSE call' = NoCall
Advance == LET rest == Tail(call.todo)
           IN  call' = IF rest = <<>> /\ call.at \in {"saved", "deleted", "updated", "refreshed", "undo"}
                       THEN NoCall ELSE [call EXCEPT !.todo = rest]

Step ==
  /\ call.todo # <<>>
  /\ Wrote(Head(call.todo)) /\ Advance
  /\ UNCHANGED <<observed, pending, pre, spent>>

\* The write fails, before (early) or after it took effect.
Fails(late) ==
  /\ call.todo # <<>> /\ spent.faults < MaxFaults
  /\ IF late THEN Wrote(Head(call.todo)) ELSE UNCHANGED <<pointer, shelf, root, mirror, visible>>
  /\ Abandon /\ Spend("faults")
  /\ UNCHANGED <<observed, pending, pre>>

(***************************************************************************)
(* Preflights, the user and the process                                    *)
(***************************************************************************)
NoPre == [sequence |-> 0, generation |-> 0]

\* preflight: the generation is read, then the new request retires the older ones.
Preflight ==
  /\ "save" \in Operations /\ pre = NoPre /\ Readable /\ spent.commands < MaxCommands
  /\ pre' = [sequence |-> pending.next + 1, generation |-> GenerationId]
  /\ pending' = [next |-> pending.next + 1, active |-> pending.next + 1, reports |-> {}]
  /\ Spend("commands")
  /\ UNCHANGED <<pointer, shelf, root, mirror, visible, observed, call>>

\* store_pending: only for the newest request and an unchanged generation.
StorePending(file, rev) ==
  /\ pre # NoPre
  /\ pre' = NoPre
  /\ IF pending.active = pre.sequence /\ Readable /\ pre.generation = GenerationId
     THEN pending' = [pending EXCEPT !.reports = @ \cup
            {[file |-> file, rev |-> rev, sequence |-> pre.sequence, generation |-> pre.generation]}]
     ELSE UNCHANGED pending
  /\ UNCHANGED <<pointer, shelf, root, mirror, visible, observed, call, spent>>

\* The user writes or removes a file of the visible directory.
Edit(file, rev) ==
  /\ spent.edits < MaxEdits /\ visible[file] # rev
  /\ visible' = [visible EXCEPT ![file] = rev]
  /\ Spend("edits")
  /\ UNCHANGED <<pointer, shelf, root, mirror, observed, pending, pre, call>>

\* The process dies and is started again: what was in memory is gone.
Crash ==
  /\ spent.crashes < MaxCrashes
  /\ call' = NoCall /\ pre' = NoPre
  /\ pending' = [next |-> 0, active |-> 0, reports |-> {}]
  /\ observed' = Unseen
  /\ Spend("crashes")
  /\ UNCHANGED <<pointer, shelf, root, mirror, visible>>
-----------------------------------------------------------------------------
Good == Contents \ (Broken \cup Conflicting)

\* A fresh installation, or one with one subscription.
ProfileStoreInit ==
  LET file == CHOOSE f \in Files : TRUE
      r == Record(file, "https", Min(Good))
      records == [Empty EXCEPT ![Min(Ids)] = {r}]
  IN  /\ root \in BOOLEAN
      /\ pointer = IF root THEN {1} ELSE {}
      /\ shelf = IF root THEN {[no |-> 1, profiles |-> records]} ELSE {}
      /\ mirror = IF root THEN [Empty EXCEPT ![Min(Ids)] = {Mirrored(r)}] ELSE Empty
      /\ visible = [f \in Files |-> IF root /\ f = file THEN {r.rev} ELSE {}]
      /\ observed = Unseen
      /\ pending = [next |-> 0, active |-> 0, reports |-> {}]
      /\ pre = NoPre /\ call = NoCall
      /\ spent = [commands |-> 0, edits |-> 0, faults |-> 0, crashes |-> 0]

ProfileStoreNext ==
  \/ SavePreview \/ Reconcile \/ ReconcileRead \/ ReconcileDone
  \/ \E id \in Ids : DeleteProfile(id) \/ Detach(id) \/ Due(id)
  \/ \E id \in Ids, on \in BOOLEAN : SetRefreshPolicy(id, on)
  \/ \E id \in Ids, trigger \in {"manual", "scheduled"} : Refresh(id, trigger)
  \/ \E rev \in {{}} \cup {{c} : c \in Contents \ Broken} : RefreshRead(rev)
  \/ \E file \in Files : ReconcileFile(file) \/ ReconcileGone(file)
  \/ Step \/ \E late \in BOOLEAN : Fails(late)
  \/ Preflight \/ \E file \in Files, rev \in Good : StorePending(file, rev)
  \/ \E file \in Files, rev \in {{}} \cup {{c} : c \in Contents} : Edit(file, rev)
  \/ Crash

ProfileStoreSpec == ProfileStoreInit /\ [][ProfileStoreNext]_svars
-----------------------------------------------------------------------------
\* Whatever write fails and whenever the process dies, the Profiles can be listed
\* afterwards: the pointer names a complete generation of valid records.  One
\* exception: the first publication of a fresh store, which makes the generations
\* directory (prepare_generation_root) long before it writes the first pointer.  A
\* failure or a death between the two leaves a store that is read as corrupt
\* (read_generation_pointer) and takes no Profile any more.
Interrupted == pointer = {} /\ root /\ spent.faults + spent.crashes > 0
StoreReadable ==
  Idle =>
  /\ Readable \/ Interrupted
  /\ \A id \in Listed : ValidateRecord(TheOne(Profiles[id]))

\* A preview that is being saved was prepared against the generation it is added to
\* (take_pending): no other mutation came between the preview and its confirmation.
PreviewIsCurrent ==
  [][\A report \in pending.reports :
       report \notin pending'.reports /\ call'.do = "save" /\ Idle => report.generation = GenerationId]_svars

=============================================================================
