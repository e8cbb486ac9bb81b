------------------------------ MODULE Restore ------------------------------
(***************************************************************************)
(* The durable Profile and Settings data of the desktop and the three      *)
(* kinds of writer that share one StateMutationAuthority: a Profile        *)
(* mutation, a Settings mutation and the restore of a local backup         *)
(* (crates/state-authority, crates/settings, desktop-bridge local_backup). *)
(*                                                                         *)
(* A restore swaps up to three components of the application directory     *)
(* under a journal: the private Profile store, the visible `profiles/'     *)
(* projection and settings.json.  Every step of the swap may fail before   *)
(* or after it took effect (a rename that is done and a directory that     *)
(* cannot be flushed), and the desktop may die between any two of them.    *)
(* Startup recovers from the journal before anything else is loaded.       *)
(*                                                                         *)
(* A place holds {} (no such file) or {contents}.                          *)
(***************************************************************************)
EXTENDS Naturals, Sequences, FiniteSets, SequencesExt

CONSTANTS Ids,          \* Profile identities
          Manifests,    \* the backups a user can choose
          FirstStores,  \* what the Profile store may hold at first
          MaxRestores, MaxWrites, MaxFaults, MaxCrashes

\* A backup holds the preferences or none, and Profiles only if its scope touches them
\* (its decoder refuses anything else).
ASSUME RestoreAssumption ==
    \A m \in Manifests :
        /\ m.settings \subseteq [other : Nat, login : BOOLEAN]
        /\ m.touches \in BOOLEAN /\ (m.touches \/ m.entries = <<>>)

VARIABLES place,     \* kind -> [dest, original, staged]: files of the three components
          journal,   \* local-restore-journal.json: [phase, parts]
          life,      \* "up", "down" or "starting"
          mem,       \* SettingsState.preferences
          login,     \* the login item of the platform (StartupPlatform)
          active,    \* the active Profile the activation coordinator names
          permit,    \* who holds the mutation permit
          checked,   \* writers between the two halves of try_acquire
          unavailable,
          preview,   \* the prepared restore: {} or {[manifest, digest]}
          call,      \* the restore or recovery in progress
          stored,    \* ghost: the triples of contents the disk may hold
          drifted,   \* ghost: a crash or failed undo left the login item behind
          overtaken, \* ghost: a writer got the lock of an authority that had closed
          used       \* restores, writes, faults and crashes so far

rvars == <<place, journal, life, mem, login, active, permit, checked, unavailable,
           preview, call, stored, drifted, overtaken, used>>

KindSet == {"store", "projection", "settings"}
NoJournal == [phase |-> "none", parts |-> <<>>]
At(do, i) == [do |-> do, i |-> i]
NoCall == [who |-> "none", step |-> At("none", 0), parts |-> <<>>, data |-> [k \in {} |-> 0],
           before |-> {}, after |-> {}, rolling |-> FALSE, found |-> "none"]
Dest == [k \in KindSet |-> place[k].dest]
Spend(what) == used' = [used EXCEPT ![what] = @ + 1]
MayFail == used.faults < MaxFaults

(***************************************************************************)
(* The plan of a restore: what becomes of every Profile of the store       *)
(***************************************************************************)
Put(desired, id, record) ==
    [i \in DOMAIN desired \cup {id} |-> IF i = id THEN record ELSE desired[i]]
Without(desired, ids) == [i \in DOMAIN desired \ ids |-> desired[i]]

\* Another identity that already owns the revision of a backup entry.
Duplicates(desired, entry) ==
    {i \in DOMAIN desired \ {entry.id} : desired[i].rev = entry.rev}

\* profile_conflict: none, or whether the conflict may be replaced.
ProfileConflict(desired, entry, activeId) ==
    LET duplicate == {entry.content /\ activeId \notin Duplicates(desired, entry)}
    IN  IF entry.id \in DOMAIN desired
        THEN IF entry.id = activeId THEN {FALSE}
             ELSE IF desired[entry.id].rev # entry.rev THEN {entry.content}
             ELSE IF Duplicates(desired, entry) # {} THEN duplicate ELSE {}
        ELSE IF Duplicates(desired, entry) # {} THEN duplicate
             ELSE IF entry.content THEN {} ELSE {FALSE}

\* restore_record: the record a backup entry with contents becomes; apply_schedule
\* and the patches of the entry are part of it.
RestoreRecord(entry) == [rev |-> entry.rev, patch |-> entry.patch]

ApplyRestoreEntry(desired, entry, useBackup, activeId) ==
    LET conflict == ProfileConflict(desired, entry, activeId)
        base == IF conflict = {} THEN desired
                ELSE Without(desired, {entry.id} \cup
                         (IF Duplicates(desired, entry) = {} THEN {}
                          ELSE {CHOOSE i \in Duplicates(desired, entry) : TRUE}))
    IN  IF conflict # {} /\ (~useBackup \/ conflict = {FALSE}) THEN desired
        ELSE IF entry.content THEN Put(base, entry.id, RestoreRecord(entry))
        ELSE IF entry.id \in DOMAIN base
             THEN Put(base, entry.id, [base[entry.id] EXCEPT !.patch = entry.patch])
             ELSE base

Stored(k) == IF place[k].dest = {} THEN <<>> ELSE CHOOSE v \in place[k].dest : TRUE
Profiles == IF place["store"].dest = {} THEN [i \in {} |-> 0] ELSE Stored("store")

\* The Profile records a commit stages, entry after entry.
Desired(manifest, useBackup) ==
    FoldLeft(LAMBDA desired, entry : ApplyRestoreEntry(desired, entry, useBackup, active),
             Profiles, manifest.entries)

\* state_digest: Profiles, Settings and the active identity.
StateDigest == <<place["store"].dest, mem, active>>

(***************************************************************************)
(* StateMutationAuthority                                                  *)
(***************************************************************************)
TryAcquireCheck(who) ==
    /\ life = "up" /\ ~unavailable /\ who \notin checked /\ permit # who
    /\ checked' = checked \cup {who}
    /\ UNCHANGED <<place, journal, life, mem, login, active, permit, unavailable, preview,
                   call, stored, drifted, used, overtaken>>

\* Busy while another mutation is in progress.
TryAcquireBusy(who) ==
    /\ who \in checked /\ permit # "none"
    /\ checked' = checked \ {who}
    /\ UNCHANGED <<place, journal, life, mem, login, active, permit, unavailable, preview,
                   call, stored, drifted, used, overtaken>>

\* The lock half takes a free lock and does not look at `unavailable' again: a writer
\* that made its check in time gets the permit although the authority closed in between.
TryAcquireLock(who) ==
    /\ who \in checked /\ permit = "none"
    /\ checked' = checked \ {who}
    /\ overtaken' = (overtaken \/ unavailable)

(***************************************************************************)
(* SettingsService                                                         *)
(***************************************************************************)
Wrote(k, v) == place' = [place EXCEPT ![k].dest = {v}]
With(dests, k, v) == {[d EXCEPT ![k] = {v}] : d \in dests}

\* FileSettingsRepository::save: a temporary file renamed over settings.json, then
\* the directory flushed; "late" is a failure of the flush.
\* SettingsService::update: memory follows only a save that returned Ok.
Update(next, outcome) ==
    CASE outcome = "ok" -> /\ Wrote("settings", next) /\ mem' = next
                           /\ stored' = With(stored, "settings", next)
      [] outcome = "early" -> UNCHANGED <<place, mem, stored>>
      [] outcome = "late" -> /\ Wrote("settings", next) /\ mem' = mem
                             /\ stored' = stored \cup With(stored, "settings", next)

Outcomes == {"ok", "early", "late"}
Charge(outcome, what) ==
    /\ outcome # "ok" => MayFail
    /\ used' = [used EXCEPT ![what] = @ + 1, !.faults = @ + (IF outcome = "ok" THEN 0 ELSE 1)]

\* set_appearance, set_language, ..., set_managed_ports: one permit, one update.
SetPreference ==
    /\ TryAcquireLock("settings") /\ used.writes < MaxWrites
    /\ \E outcome \in Outcomes :
        /\ Charge(outcome, "writes")
        /\ Update([mem EXCEPT !.other = used.writes + 2], outcome)
    /\ UNCHANGED <<journal, life, login, active, permit, unavailable, preview, call, drifted>>

\* set_startup, first half: the login item is registered before the preference is
\* saved (set_window_surface has the same shape, with the native surface).
SetStartupPlatform ==
    /\ TryAcquireLock("settings") /\ used.writes < MaxWrites
    /\ login = mem.login
    /\ \/ permit' = "settings" /\ login' = ~login /\ Spend("writes")
       \/ MayFail /\ used' = [used EXCEPT !.writes = @ + 1, !.faults = @ + 1]
          /\ UNCHANGED <<permit, login>>
    /\ UNCHANGED <<place, journal, life, mem, active, unavailable, preview, call, stored, drifted>>

\* set_startup, second half: a save that fails puts the registration back.
SetStartupSave ==
    /\ permit = "settings" /\ permit' = "none"
    /\ \E outcome \in Outcomes, undone \in BOOLEAN :
        LET cost == (IF outcome = "ok" THEN 0 ELSE 1) + (IF undone THEN 0 ELSE 1)
        IN  /\ undone \/ outcome # "ok"
            /\ used.faults + cost <= MaxFaults
            /\ used' = [used EXCEPT !.faults = @ + cost]
            /\ Update([mem EXCEPT !.login = login], outcome)
            /\ login' = IF outcome # "ok" /\ undone THEN mem.login ELSE login
            /\ drifted' = (drifted \/ ~undone)
    /\ UNCHANGED <<journal, life, active, checked, unavailable, preview, call, overtaken>>

(***************************************************************************)
(* The other writers of the same authority                                 *)
(***************************************************************************)
\* A Profile mutation: the store and the visible file change together (their own
\* order is the subject of module ProfileStore).
ProfileWrite ==
    /\ TryAcquireLock("profile") /\ used.writes < MaxWrites
    /\ Spend("writes")
    /\ \E id \in Ids :
        LET next == IF id \in DOMAIN Profiles THEN Without(Profiles, {id})
                    ELSE Put(Profiles, id, [rev |-> used.writes + 2, patch |-> 0])
        IN  /\ id # active
            /\ place' = [place EXCEPT !["store"].dest = {next}, !["projection"].dest = {DOMAIN next}]
            /\ stored' = {[d EXCEPT !["store"] = {next}, !["projection"] = {DOMAIN next}] : d \in stored}
    /\ UNCHANGED <<journal, life, mem, login, active, permit, unavailable, preview, call, drifted>>

\* An activation holds the permit while it changes the active identity.
Activate ==
    /\ TryAcquireLock("profile") /\ used.writes < MaxWrites
    /\ \E id \in DOMAIN Profiles \ {active} : active' = id
    /\ Spend("writes")
    /\ UNCHANGED <<place, journal, life, mem, login, permit, unavailable, preview, call,
                   stored, drifted>>

(***************************************************************************)
(* LocalBackupService                                                      *)
(***************************************************************************)
\* prepare_restore: reads the state under a permit and keeps its digest.
PrepareRestore ==
    /\ TryAcquireLock("restore") /\ preview = {} /\ used.restores < MaxRestores
    /\ \E m \in Manifests : preview' = {[manifest |-> m, digest |-> StateDigest]}
    /\ UNCHANGED <<place, journal, life, mem, login, active, permit, unavailable, call, stored,
                   drifted, used>>

HasProfiles(m) == m.touches

\* RestoreTransaction::stage builds the list of components, with what exists now.
Touched(m) ==
    IF HasProfiles(m)
    THEN IF m.settings = {} THEN <<"store", "projection">> ELSE <<"store", "projection", "settings">>
    ELSE IF m.settings = {} THEN <<>> ELSE <<"settings">>
Parts(m) ==
    [i \in DOMAIN Touched(m) |->
        [kind |-> Touched(m)[i], had |-> place[Touched(m)[i]].dest # {}]]
KindsOf(parts) == {parts[i].kind : i \in DOMAIN parts}

\* The order of the steps: the components are moved one after the other, each out
\* of the way first where there is one, and undone in the opposite order.
MoveFrom(parts, i) ==
    IF i > Len(parts) THEN At("committed", 0)
    ELSE At(IF parts[i].had THEN "MoveOut" ELSE "MoveIn", i)
UndoFrom(i) == IF i = 0 THEN At("DropRollback", 0) ELSE At("Undo", i)
Following(c) ==
    CASE c.step.do = "Stage" -> At("Begin", 0)
      [] c.step.do = "Begin" -> IF "projection" \in KindsOf(c.parts) THEN At("Project", 0)
                                ELSE MoveFrom(c.parts, 1)
      [] c.step.do = "Project" -> At("committing", 0)
      [] c.step.do = "committing" -> MoveFrom(c.parts, 1)
      [] c.step.do = "MoveOut" -> At("MoveIn", c.step.i)
      [] c.step.do = "MoveIn" -> MoveFrom(c.parts, c.step.i + 1)
      [] c.step.do = "committed" -> At("DropRollback", 0)
      [] c.step.do = "rolling-back" -> UndoFrom(Len(c.parts))
      [] c.step.do = "Undo" -> UndoFrom(c.step.i - 1)
      [] c.step.do = "DropRollback" -> At("DropStage", 0)
      [] c.step.do = "DropStage" -> At("DropJournal", 0)
      [] c.step.do = "DropJournal" -> At("Settle", 0)
      [] c.step.do = "Settle" -> At("Accept", 0)

\* commit_restore, up to the digest check: it answers StateChanged, or keeps the
\* permit for the whole transaction.  A journal that is already there ends it at
\* once with RecoveryRequired.
CommitRestore ==
    /\ TryAcquireLock("restore") /\ preview # {} /\ used.restores < MaxRestores
    /\ preview' = {} /\ Spend("restores")
    /\ \E p \in preview, useBackup \in BOOLEAN :
        LET m == p.manifest
            next == Desired(m, useBackup)
            data == [k \in KindsOf(Parts(m)) |->
                        CASE k = "store" -> next [] k = "projection" -> DOMAIN next
                          [] k = "settings" -> CHOOSE s \in m.settings : TRUE]
            after == {[k \in KindSet |-> IF k \in DOMAIN data THEN {data[k]} ELSE d[k]] : d \in stored}
        IN  IF p.digest # StateDigest
            THEN UNCHANGED <<permit, call, unavailable, stored>>
            ELSE IF journal # NoJournal
            THEN unavailable' = TRUE /\ UNCHANGED <<permit, call, stored>>
            ELSE /\ permit' = "restore"
                 /\ call' = [who |-> "restore", step |-> At("Stage", 0), parts |-> Parts(m),
                             data |-> data, before |-> stored, after |-> after, rolling |-> FALSE,
                             found |-> "none"]
                 /\ stored' = stored \cup after
                 /\ UNCHANGED unavailable
    /\ UNCHANGED <<place, journal, life, mem, login, active, drifted>>

(***************************************************************************)
(* RestoreTransaction, one step at a time                                  *)
(***************************************************************************)
Doing(do) == call.who # "none" /\ call.step.do = do
Kind == call.parts[call.step.i].kind
Continue == call' = [call EXCEPT !.step = Following(call)]
Discard(pl, field) == [k \in KindSet |-> [pl[k] EXCEPT ![field] = {}]]

\* The transaction is over: Ok, Storage (the old state) or RecoveryRequired.
EndCall == call' = NoCall /\ permit' = IF permit = "restore" THEN "none" ELSE permit
Answer(ok) ==
    /\ EndCall
    /\ stored' = IF call.who = "recovery" THEN stored \cap {Dest}
                 ELSE IF ok THEN call.after ELSE call.before
    /\ life' = IF call.who = "recovery" THEN "loading" ELSE life

\* RecoveryRequired: the running authority closes until restart; a startup aborts.
Fatal ==
    /\ EndCall
    /\ IF call.who = "recovery" THEN life' = "down" /\ UNCHANGED unavailable
                                ELSE unavailable' = TRUE /\ UNCHANGED life
    /\ UNCHANGED stored

Rollback == call' = [call EXCEPT !.step = At("rolling-back", 0), !.rolling = TRUE]

\* stage_with_filesystem before the journal: a failure removes the stage (its guard)
\* and answers Storage.
StageData ==
    /\ Doing("Stage")
    /\ \/ /\ place' = [k \in KindSet |-> [place[k] EXCEPT !.original = {},
                          !.staged = IF k \in DOMAIN call.data \ {"projection"} THEN {call.data[k]} ELSE {}]]
          /\ Continue /\ UNCHANGED <<permit, stored, life, used>>
       \/ /\ MayFail /\ Spend("faults") /\ UNCHANGED place
          /\ EndCall /\ stored' = call.before /\ UNCHANGED life
    /\ UNCHANGED <<journal, mem, login, active, checked, unavailable, preview, drifted, overtaken>>

FirstPhase ==
    IF "projection" \in KindsOf(call.parts) THEN "staging-projection" ELSE "committing"

\* The first write of the journal.  It may be in place although the write failed.
BeginJournal ==
    /\ Doing("Begin")
    /\ \/ /\ journal' = [phase |-> FirstPhase, parts |-> call.parts]
          /\ Continue /\ UNCHANGED <<place, permit, stored, life, used>>
       \/ /\ MayFail /\ Spend("faults")
          /\ \/ journal' = [phase |-> FirstPhase, parts |-> call.parts]
             \/ UNCHANGED journal
          /\ place' = Discard(Discard(place, "staged"), "original")
          /\ EndCall /\ stored' = call.before /\ UNCHANGED life
    /\ UNCHANGED <<mem, login, active, checked, unavailable, preview, drifted, overtaken>>

\* stage_profile_projection: the candidate directory, or a failure before or after
\* the directory was made.
StageProfileProjection ==
    /\ Doing("Project")
    /\ \/ place' = [place EXCEPT !["projection"].staged = {call.data["projection"]}] /\ Continue /\ UNCHANGED used
       \/ /\ MayFail /\ Spend("faults") /\ Rollback
          /\ \/ UNCHANGED place
             \/ place' = [place EXCEPT !["projection"].staged = {{}}]
    /\ UNCHANGED <<journal, permit, stored, life, mem, login, active, checked, unavailable, preview, drifted, overtaken>>

\* write_specific_journal in one of its later phases.
WriteSpecificJournal ==
    /\ Doing("committing") \/ Doing("committed") \/ Doing("rolling-back")
    /\ \/ journal' = [journal EXCEPT !.phase = call.step.do] /\ Continue /\ UNCHANGED <<used, unavailable, permit, stored, life>>
       \/ /\ MayFail /\ Spend("faults")
          /\ journal' \in {journal, [journal EXCEPT !.phase = call.step.do]}
          /\ IF call.step.do = "committed" THEN Rollback /\ UNCHANGED <<unavailable, permit, stored, life>> ELSE Fatal
    /\ UNCHANGED <<place, mem, login, active, checked, preview, drifted, overtaken>>

Moved(k, from, to) == [place EXCEPT ![k][to] = place[k][from], ![k][from] = {}]

\* commit_components: each rename, with the flushes that follow it.
CommitComponent ==
    /\ Doing("MoveOut") \/ Doing("MoveIn")
    /\ LET after == IF call.step.do = "MoveOut" THEN Moved(Kind, "dest", "original")
                                                ELSE Moved(Kind, "staged", "dest")
       IN  \/ place' = after /\ Continue /\ UNCHANGED used
           \/ MayFail /\ Spend("faults") /\ place' \in {place, after} /\ Rollback
    /\ UNCHANGED <<journal, permit, stored, life, mem, login, active, checked, unavailable, preview, drifted, overtaken>>

\* rollback_components looks at what exists of a component.
Exists(k) == <<place[k].original # {}, place[k].dest # {}, place[k].staged # {}>>
HadOriginal(k) == \E i \in DOMAIN call.parts : call.parts[i] = [kind |-> k, had |-> TRUE]
Undone(k) == IF HadOriginal(k) THEN <<FALSE, TRUE, TRUE>> ELSE <<FALSE, FALSE, TRUE>>
UndoRename(k) ==
    IF HadOriginal(k)
    THEN CASE Exists(k) = <<TRUE, FALSE, TRUE>> -> {Moved(k, "original", "dest")}
           [] Exists(k) = <<TRUE, TRUE, FALSE>> -> {Moved(k, "dest", "staged")}
           [] OTHER -> {}
    ELSE IF Exists(k) = <<FALSE, TRUE, FALSE>> THEN {Moved(k, "dest", "staged")} ELSE {}
Ambiguous(k) == Exists(k) # Undone(k) /\ UndoRename(k) = {}

MutantRollbackComponent ==
    /\ Doing("Undo")
    /\ \/ /\ Exists(Kind) = Undone(Kind) \/ Exists(Kind) = <<TRUE, TRUE, FALSE>>
          /\ Continue /\ UNCHANGED <<place, used, unavailable, permit, stored, life>>
       \/ Exists(Kind) # <<TRUE, TRUE, FALSE>> /\ place' \in UndoRename(Kind)
          /\ UNCHANGED <<call, used, unavailable, permit, stored, life>>
       \/ Ambiguous(Kind) /\ Fatal /\ UNCHANGED <<place, used>>
    /\ UNCHANGED <<journal, mem, login, active, checked, preview, drifted, overtaken>>

RollbackComponent ==
    /\ Doing("Undo")
    /\ \/ Exists(Kind) = Undone(Kind) /\ Continue /\ UNCHANGED <<place, used, unavailable, permit, stored, life>>
       \/ place' \in UndoRename(Kind) /\ UNCHANGED <<call, used, unavailable, permit, stored, life>>
       \/ Ambiguous(Kind) /\ Fatal /\ UNCHANGED <<place, used>>
       \/ MayFail /\ Spend("faults") /\ Fatal /\ UNCHANGED place
    /\ UNCHANGED <<journal, mem, login, active, checked, preview, drifted, overtaken>>

\* cleanup: the rollback root, then the stage root.  A removal that fails may have
\* removed some of the components.
CleanupRoots ==
    /\ Doing("DropRollback") \/ Doing("DropStage")
    /\ LET gone == Discard(place, IF call.step.do = "DropRollback" THEN "original" ELSE "staged")
       IN  \/ place' = gone /\ Continue /\ UNCHANGED <<used, unavailable, permit, stored, life>>
           \/ /\ MayFail /\ Spend("faults") /\ Fatal
              /\ \E some \in SUBSET KindSet :
                   place' = [k \in KindSet |-> IF k \in some THEN gone[k] ELSE place[k]]
    /\ UNCHANGED <<journal, mem, login, active, checked, preview, drifted, overtaken>>

\* cleanup: the journal goes last.
CleanupJournal ==
    /\ Doing("DropJournal")
    /\ \/ journal' = NoJournal /\ Continue /\ UNCHANGED <<used, unavailable, permit, stored, life>>
       \/ MayFail /\ Spend("faults") /\ Fatal /\ UNCHANGED journal
    /\ UNCHANGED <<place, mem, login, active, checked, preview, drifted, overtaken>>

\* The phase of the journal that a cleanup was given.
PhaseBefore ==
    IF call.found = "staging-projection" THEN call.found
    ELSE IF call.rolling THEN "rolling-back" ELSE "committed"

\* cleanup: the flush after the journal is gone; when it fails the journal is written
\* again as evidence, if that works.
CleanupSettle ==
    /\ Doing("Settle")
    /\ \/ /\ IF ~call.rolling /\ "settings" \in DOMAIN call.data
             THEN Continue /\ UNCHANGED <<permit, stored, life>>
             ELSE Answer(~call.rolling)
          /\ UNCHANGED <<journal, used, unavailable>>
       \/ /\ MayFail /\ Spend("faults") /\ Fatal
          /\ journal' \in {journal, [phase |-> PhaseBefore, parts |-> call.parts]}
    /\ UNCHANGED <<place, mem, login, active, checked, preview, drifted, overtaken>>

\* accept_restored_preferences_authorized: saves the restored preferences once more
\* and takes them into memory; no platform adapter is called.
AcceptRestoredPreferences ==
    /\ Doing("Accept")
    /\ LET next == call.data["settings"]
       IN  \/ mem' = next /\ UNCHANGED used
           \/ MayFail /\ Spend("faults") /\ UNCHANGED mem
    /\ drifted' = TRUE
    /\ UNCHANGED place /\ Answer(TRUE)
    /\ UNCHANGED <<journal, login, active, checked, unavailable, preview, overtaken>>

(***************************************************************************)
(* The process                                                             *)
(***************************************************************************)
\* Dying keeps the files.  A stage without a journal is forgotten: the next
\* transaction has an identity of its own.
Die ==
    /\ life # "down" /\ used.crashes < MaxCrashes /\ Spend("crashes")
    /\ life' = "down" /\ mem' = [other |-> 0, login |-> FALSE]
    /\ permit' = "none" /\ checked' = {} /\ preview' = {} /\ unavailable' = FALSE
    /\ active' = "none" /\ call' = NoCall
    /\ place' = IF journal = NoJournal THEN Discard(Discard(place, "staged"), "original") ELSE place
    /\ drifted' = (drifted \/ permit = "settings")
    /\ UNCHANGED <<journal, login, stored, overtaken>>

\* A restart the user asks for, the only way out of an unavailable authority.
Quit ==
    /\ life = "up" /\ unavailable /\ call = NoCall
    /\ life' = "down" /\ mem' = [other |-> 0, login |-> FALSE]
    /\ permit' = "none" /\ checked' = {} /\ preview' = {} /\ unavailable' = FALSE /\ active' = "none"
    /\ UNCHANGED <<place, journal, login, call, stored, drifted, used, overtaken>>

\* recover_with_filesystem: what the phase of the journal asks for.
RecoveryStep ==
    IF journal.phase \in {"committing", "rolling-back"} THEN At("rolling-back", 0)
    ELSE At("DropRollback", 0)

\* staging-projection: nothing may have moved yet.
StagingIntact ==
    \A i \in DOMAIN journal.parts :
        /\ place[journal.parts[i].kind].original = {}
        /\ (place[journal.parts[i].kind].dest # {}) = journal.parts[i].had

Startup ==
    /\ life = "down"
    /\ IF journal = NoJournal THEN life' = "loading" /\ UNCHANGED call
       ELSE /\ journal.phase = "staging-projection" => StagingIntact
            /\ life' = "starting"
            /\ call' = [NoCall EXCEPT !.who = "recovery", !.step = RecoveryStep, !.parts = journal.parts,
                                      !.rolling = journal.phase # "committed", !.found = journal.phase]
    /\ UNCHANGED <<place, journal, mem, login, active, permit, checked, unavailable, preview, stored,
                   drifted, used, overtaken>>

\* load_with_configuration: preferences from the file, fresh ones where there is none.
LoadSettings ==
    /\ life = "loading" /\ life' = "up"
    /\ mem' = IF place["settings"].dest = {} THEN [other |-> 1, login |-> FALSE] ELSE Stored("settings")
    /\ place' = [place EXCEPT !["settings"].dest = {mem'}]
    /\ stored' = {[d EXCEPT !["settings"] = {mem'}] : d \in {e \in stored : e["settings"] = place["settings"].dest}}
    /\ drifted' = (drifted \/ login # mem'.login)
    /\ UNCHANGED <<journal, login, active, permit, checked, unavailable, preview, call, used, overtaken>>

RestoreInit ==
    /\ \E first \in FirstStores :
        place = [k \in KindSet |->
            [dest |-> CASE k = "store" -> first
                        [] k = "projection" -> {DOMAIN p : p \in first}
                        [] k = "settings" -> {},
             original |-> {}, staged |-> {}]]
    /\ journal = NoJournal /\ life = "down"
    /\ mem = [other |-> 0, login |-> FALSE] /\ login = FALSE /\ active = "none"
    /\ permit = "none" /\ checked = {} /\ unavailable = FALSE
    /\ preview = {} /\ call = NoCall /\ stored = {Dest} /\ drifted = FALSE /\ overtaken = FALSE
    /\ used = [restores |-> 0, writes |-> 0, faults |-> 0, crashes |-> 0]

RestoreNext ==
    \/ \E who \in {"settings", "profile", "restore"} : TryAcquireCheck(who) \/ TryAcquireBusy(who)
    \/ SetPreference \/ SetStartupPlatform \/ SetStartupSave
    \/ ProfileWrite \/ Activate
    \/ PrepareRestore \/ CommitRestore
    \/ StageData \/ BeginJournal \/ StageProfileProjection \/ WriteSpecificJournal
    \/ CommitComponent \/ RollbackComponent
    \/ CleanupRoots \/ CleanupJournal \/ CleanupSettle \/ AcceptRestoredPreferences
    \/ Die \/ Quit \/ Startup \/ LoadSettings

RestoreSpec == RestoreInit /\ [][RestoreNext]_rvars

(***************************************************************************)
(* Properties                                                              *)
(***************************************************************************)
\* A desktop that is up with its authority open and no transaction in progress has
\* the store, the projection and the settings of one moment: all of them as before
\* the last restore or all of them as the backup says, whatever step of the swap,
\* of its rollback or of its cleanup failed or was cut by a crash
\* (local_backup.rs RestoreTransaction).
RestoreIsAtomic ==
    life = "up" /\ ~unavailable /\ call = NoCall => Dest \in stored

\* Startup recovery never meets a combination of files it cannot resolve: a journal
\* in a rolling-back or committing phase always rolls back (recover_with_filesystem).
RecoverySucceeds ==
    call.who = "recovery" /\ Doing("Undo") => ~Ambiguous(Kind)

\* Between operations the login item is what the preferences in memory say, also
\* after a save that failed, unless a crash, a failed undo or a restore (which calls
\* no platform adapter on purpose) came in between (set_startup).
StartupFollowsPreference ==
    life = "up" /\ permit = "none" /\ ~drifted => login = mem.login

\* A restore takes effect as a whole or not at all, and the login item is what the
\* settings say, as long as no writer was overtaken: try_acquire does not look at
\* `unavailable' again under the lock, so a writer that made its check before a failing
\* transaction closed the authority writes between two states of the swap, and the
\* recovery at the next start then rolls part of its write back.  Once that happened
\* the property promises nothing; in every other interleaving it holds.
RestoreIsWhole == ~overtaken => RestoreIsAtomic /\ StartupFollowsPreference
=============================================================================
