---------------------------- MODULE InternalTun ----------------------------
(***************************************************************************)
(* Installation, repair, rollback and removal of the privileged TUN helper *)
(* (crates/platform-macos/src/bin/mish-internal-tun-alpha-ctl.rs,          *)
(* internal_tun_package_machine.rs, internal_tun_maintenance.rs).          *)
(*                                                                         *)
(* A package version stands for the bytes of its helper, Core and launchd  *)
(* plist, for the installation identity derived from them and for the      *)
(* receipt that names them; 0 is a file that is absent.  The command line  *)
(* runs the package machine as the user; its privileged half runs as root  *)
(* and keeps a journal; launchd starts the helper whenever the plist is    *)
(* loaded.  A power loss ends them all between any two steps and the boot  *)
(* that follows loads the plist that is on disk.                           *)
(***************************************************************************)
EXTENDS Integers, Sequences

CONSTANTS
  Versions,     \* the package versions, 1..n
  MaxCommands,  \* bound: commands the user gives
  MaxFaults,    \* bound: steps that fail although nothing in the model makes them
  MaxCrashes,   \* bound: power losses
  MaxConnects   \* bound: times the app turns TUN capture on

VARIABLES
  files,    \* the root-owned files: the version each of them is of
  enrolled, \* the client key in the enrollment
  backup,   \* the copies in the maintenance backup directory
  kept,     \* the client key in the enrollment's backup
  journal,  \* maintenance-journal.json
  service,  \* launchd: whether the job is loaded, the version of the helper that serves (0: none)
  core,     \* whether the helper runs a Core
  root,     \* the privileged process
  cli,      \* the command line and its package machine
  user,     \* the user's receipt, its backup in the installer directory, key and restore marker
  serial,   \* client keys made so far
  used      \* commands, faults, crashes and connections so far; whether a removal was authorised

tvars == <<files, enrolled, backup, kept, journal, service, core, root, cli, user, serial, used>>
disk == <<files, enrolled, backup, kept>>

Files == {"helper", "core", "plist", "enrollment", "receipt"}
Absent == [f \in Files |-> 0]
Whole(v) == [f \in Files |-> v]
Artifacts == <<"helper", "core", "plist", "enrollment", "receipt">>

Points == <<"IntentPersisted", "CaptureReconciled", "PriorArtifactsBackedUp", "PriorServiceDetached",
            "HelperReplaced", "CoreReplaced", "EnrollmentCommitted", "ReceiptCommitted",
            "LaunchDaemonCommitted", "ServiceStarted", "Verified">>
Reached(j, point) == \E a, b \in DOMAIN Points : Points[a] = point /\ Points[b] = j.point /\ a <= b

NoJournal == [new |-> 0, old |-> 0, point |-> "IntentPersisted", pending |-> FALSE, terminal |-> "none"]
Terminal(j) == j.terminal # "none"

\* permits_helper_startup.
Permits(j) == j.terminal \in {"Committed", "RolledBack"}

Faulty == used.faults < MaxFaults /\ used' = [used EXCEPT !.faults = @ + 1]
Sound == UNCHANGED used

\* launchctl print.
Loaded == service.loaded
Unloaded == [loaded |-> FALSE, serves |-> 0]

\* admitted_existing_installation_artifacts_are_intact: the receipt names every other file.
ArtifactsIntact == files.receipt # 0 /\ files = Whole(files.receipt)
Intact == ArtifactsIntact /\ Loaded

\* The client proves its identity with the enrolled key.
Authenticated == service.serves # 0 /\ user.key # 0 /\ user.key = enrolled

-----------------------------------------------------------------------------
\* The helper, as launchd runs it.

\* run_tun_service: the Core it pins and the identity in its environment.
Admits == files.helper # 0 /\ files.core = files.helper /\ files.plist # 0 /\ files.enrollment = files.plist

\* Only an exact installation past the enrollment completes by itself.
Completes == ~Terminal(journal) /\ Reached(journal, "EnrollmentCommitted") /\ files = Whole(journal.new)

Startable == Admits /\ (journal.new = 0 \/ Permits(journal) \/ Completes)

\* complete_internal_tun_maintenance_on_helper_startup, and the service after it.
HelperStart ==
  /\ Loaded
  /\ service.serves = 0
  /\ Startable
  /\ journal' = IF journal.new # 0 /\ Completes
                  THEN [journal EXCEPT !.point = "Verified", !.terminal = "Committed"] ELSE journal
  /\ service' = [service EXCEPT !.serves = files.helper]
  /\ UNCHANGED <<disk, core, root, cli, user, serial, used>>

\* The app turns TUN capture on.
Connect ==
  /\ Authenticated
  /\ ~core
  /\ used.connects < MaxConnects
  /\ core' = TRUE
  /\ used' = [used EXCEPT !.connects = @ + 1]
  /\ UNCHANGED <<disk, journal, service, root, cli, user, serial>>

-----------------------------------------------------------------------------
\* The privileged process: a list of steps, each of which may fail.

S(do, arg) == [do |-> do, arg |-> arg]
Each(do, names) == [i \in 1..Len(names) |-> S(do, names[i])]
RootOff == [phase |-> "off", op |-> "none", todo |-> <<>>, mem |-> NoJournal, ok |-> FALSE]

Discard == Each("unsave", Artifacts)

MutantBackupSteps(old) ==
  (IF old # 0 THEN <<S("recheck", "")>> \o Discard ELSE Discard)
    \o <<S("point", "PriorArtifactsBackedUp")>> \o (IF old # 0 THEN Each("save", Artifacts) ELSE <<>>)

\* backup_prior_installation, or cleanup_maintenance_backup without a prior.
BackupSteps(old) ==
  (IF old # 0 THEN <<S("recheck", "")>> \o Discard \o Each("save", Artifacts) ELSE Discard)
    \o <<S("point", "PriorArtifactsBackedUp")>>

\* The transaction of privileged_install after its intent is durable.
InstallSteps(old) ==
  <<S("bootout", ""), S("network", ""), S("point", "CaptureReconciled")>>
    \o BackupSteps(old)
    \o <<S("remove", "plist"), S("point", "PriorServiceDetached"),
         S("copy", "helper"), S("point", "HelperReplaced"),
         S("copy", "core"), S("point", "CoreReplaced"),
         S("enroll", ""), S("point", "EnrollmentCommitted"),
         S("copy", "receipt"), S("point", "ReceiptCommitted"),
         S("copy", "plist"), S("point", "LaunchDaemonCommitted"),
         S("point", "ServiceStarted"), S("start", "")>>

\* verify_prior_installation_in_place, or restore_prior_installation.
RestoreSteps(j) ==
  IF Reached(j, "PriorArtifactsBackedUp") THEN Each("restore", Artifacts) ELSE <<S("verify", "")>> \o Discard

RemoveSteps == Each("remove", <<"enrollment", "plist", "helper", "core", "receipt">>)

\* compensate_maintenance: the outcome is durable once everything is restored
\* and before the service starts.
CompensateSteps(j) ==
  <<S("pending", ""), S("bootout", ""), S("network", "")>>
    \o (IF j.old # 0 THEN RestoreSteps(j) \o <<S("terminal", "RolledBack"), S("restart", "")>>
                     ELSE RemoveSteps \o <<S("terminal", "BoundedDisabled")>>)

\* privileged_cleanup.
UninstallSteps ==
  <<S("network", ""), S("bootout", "")>> \o RemoveSteps \o Discard \o <<S("forget", "")>>

Step == Head(root.todo)
On(do) == root.phase \in {"recover", "apply", "compensate", "uninstall", "rollback"} /\ root.todo # <<>> /\ Step.do = do
Advance == root' = [root EXCEPT !.todo = Tail(@)]
AdvanceWith(mem) == root' = [root EXCEPT !.todo = Tail(@), !.mem = mem]
Exit(ok) == root' = [root EXCEPT !.phase = "done", !.todo = <<>>, !.ok = ok]

\* validate_existing_installation_owner.
OwnerAccepted == files.enrollment = 0 \/ files.receipt = 0 \/ files.enrollment = files.receipt

\* privileged_install up to its intent: an unfinished journal is compensated first.
PrivilegedInstall ==
  /\ root.phase = "install"
  /\ \/ ~OwnerAccepted /\ Exit(FALSE)
     \/ OwnerAccepted /\ journal.new # 0 /\ ~Terminal(journal)
          /\ root' = [root EXCEPT !.phase = "recover", !.mem = journal,
                                  !.todo = CompensateSteps(journal) \o Discard]
     \/ OwnerAccepted /\ journal.new # 0 /\ Terminal(journal)
          /\ root' = [root EXCEPT !.phase = "recover", !.todo = Discard]
     \/ OwnerAccepted /\ journal.new = 0
          /\ root' = [root EXCEPT !.phase = "intent"]
  /\ Sound
  /\ UNCHANGED <<disk, journal, service, core, cli, user, serial>>

Recovered ==
  /\ root.phase = "recover"
  /\ root.todo = <<>>
  /\ root' = [root EXCEPT !.phase = "intent"]
  /\ UNCHANGED <<disk, journal, service, core, cli, user, serial, used>>

\* rollback_receipt_for_verified_prior: only an intact prior is worth restoring.
PersistIntent ==
  /\ root.phase = "intent"
  /\ \/ /\ cli.pkg >= files.receipt
        /\ LET old == IF Intact THEN files.receipt ELSE 0
               j == [NoJournal EXCEPT !.new = cli.pkg, !.old = old]
           IN /\ journal' = j
              /\ root' = [root EXCEPT !.phase = "apply", !.mem = j, !.todo = InstallSteps(old)]
        /\ used' = [used EXCEPT !.purged = FALSE]
     \/ cli.pkg < files.receipt /\ Exit(FALSE) /\ UNCHANGED journal /\ Sound
     \/ Exit(FALSE) /\ UNCHANGED journal /\ Faulty
  /\ UNCHANGED <<disk, service, core, cli, user, serial>>

\* Whatever may fail in a transaction is compensated; a compensation that
\* fails is recorded and left to the next command.
StepFails ==
  \/ root.phase = "apply" /\ root' = [root EXCEPT !.phase = "compensate", !.todo = CompensateSteps(root.mem)]
       /\ UNCHANGED journal
  \/ root.phase = "compensate" /\ Exit(FALSE) /\ journal' = root.mem
  \/ root.phase \in {"recover", "rollback", "uninstall"} /\ Exit(FALSE) /\ UNCHANGED journal

Fail ==
  /\ root.todo # <<>>
  /\ Step.do \notin {"bootout", "restart", "terminal"}
  /\ StepFails
  /\ Faulty
  /\ UNCHANGED <<disk, service, core, cli, user, serial>>

\* launchctl bootout, whose result is ignored.
Bootout ==
  /\ On("bootout")
  /\ service' = Unloaded
  /\ core' = FALSE
  /\ Advance
  /\ UNCHANGED <<disk, journal, cli, user, serial, used>>

\* recover_managed_network_record, and verify_core_version.
Network ==
  /\ On("network")
  /\ Advance
  /\ UNCHANGED <<disk, journal, service, core, cli, user, serial, used>>

\* advance_maintenance_journal.
AdvancePoint ==
  /\ On("point")
  /\ LET j == [root.mem EXCEPT !.point = Step.arg] IN journal' = j /\ AdvanceWith(j)
  /\ UNCHANGED <<disk, service, core, cli, user, serial, used>>

\* The prior installation is still what the intent saw.
Recheck ==
  /\ On("recheck") \/ On("verify")
  /\ \/ ArtifactsIntact /\ files.receipt = root.mem.old /\ Advance /\ UNCHANGED journal
     \/ ~(ArtifactsIntact /\ files.receipt = root.mem.old) /\ StepFails
  /\ UNCHANGED <<disk, service, core, cli, user, serial, used>>

\* install_atomic into the backup directory, and cleanup_maintenance_backup.
Save ==
  /\ On("save") \/ On("unsave")
  /\ backup' = [backup EXCEPT ![Step.arg] = IF Step.do = "save" THEN files[Step.arg] ELSE 0]
  /\ kept' = IF Step.arg # "enrollment" THEN kept ELSE IF Step.do = "save" THEN enrolled ELSE 0
  /\ Advance
  /\ UNCHANGED <<files, enrolled, journal, service, core, cli, user, serial, used>>

\* install_atomic of a package file or a receipt, and remove_fixed_file.
Place ==
  /\ On("copy") \/ On("remove")
  /\ files' = [files EXCEPT ![Step.arg] = IF Step.do = "copy" THEN root.mem.new ELSE 0]
  /\ enrolled' = IF Step.arg = "enrollment" THEN 0 ELSE enrolled
  /\ Advance
  /\ UNCHANGED <<backup, kept, journal, service, core, cli, user, serial, used>>

\* Enroll: an enrolled key is never replaced by a reinstall.
Enroll ==
  /\ On("enroll")
  /\ \/ /\ enrolled \in {0, user.key}
        /\ files' = [files EXCEPT !.enrollment = root.mem.new]
        /\ enrolled' = user.key
        /\ Advance
        /\ UNCHANGED journal
     \/ /\ enrolled \notin {0, user.key}
        /\ StepFails
        /\ UNCHANGED <<files, enrolled>>
  /\ UNCHANGED <<backup, kept, service, core, cli, user, serial, used>>

\* install_atomic checks the digest of what it restores.
Restore ==
  /\ On("restore")
  /\ \/ /\ backup[Step.arg] # 0
        /\ files' = [files EXCEPT ![Step.arg] = backup[Step.arg]]
        /\ enrolled' = IF Step.arg = "enrollment" THEN kept ELSE enrolled
        /\ Advance
        /\ UNCHANGED journal
     \/ /\ backup[Step.arg] = 0
        /\ StepFails
        /\ UNCHANGED <<files, enrolled>>
  /\ UNCHANGED <<backup, kept, service, core, cli, user, serial, used>>

\* launchctl bootstrap and kickstart of the new service.
Start ==
  /\ On("start")
  /\ service' = [loaded |-> TRUE, serves |-> 0]
  /\ Advance
  /\ UNCHANGED <<disk, journal, core, cli, user, serial, used>>

\* The journal says that a compensation began.
Pending ==
  /\ On("pending")
  /\ LET j == [root.mem EXCEPT !.pending = TRUE] IN journal' = j /\ AdvanceWith(j)
  /\ UNCHANGED <<disk, service, core, cli, user, serial, used>>

Ended(outcome) == [root.mem EXCEPT !.pending = FALSE, !.point = "Verified", !.terminal = outcome]

\* The terminal outcome, in memory and then on disk: a failed write leaves the
\* outcome in memory for the record of the failed compensation.
WriteTerminal ==
  /\ On("terminal")
  /\ \/ journal' = Ended(Step.arg) /\ AdvanceWith(Ended(Step.arg)) /\ Sound
     \/ /\ Faulty
        /\ journal' = IF root.phase = "compensate" THEN Ended(Step.arg) ELSE journal
        /\ Exit(FALSE)
  /\ UNCHANGED <<disk, service, core, cli, user, serial>>

\* The restored service starts, or the installation stays disabled.
Restart ==
  /\ On("restart")
  /\ \/ /\ service' = [loaded |-> TRUE, serves |-> 0]
        /\ Advance
        /\ UNCHANGED journal
        /\ Sound
     \/ /\ Faulty
        /\ service' = Unloaded
        /\ journal' = Ended("BoundedDisabled")
        /\ Exit(FALSE)
     \/ /\ Faulty
        /\ service' = [loaded |-> TRUE, serves |-> 0]
        /\ Exit(FALSE)
        /\ UNCHANGED journal
  /\ UNCHANGED <<disk, core, cli, user, serial>>

\* The journal goes last.
Forget ==
  /\ On("forget")
  /\ journal' = NoJournal
  /\ Advance
  /\ UNCHANGED <<disk, service, core, cli, user, serial, used>>

\* A failed installation reports failure also when it compensated.
RootEnds ==
  /\ root.phase \in {"apply", "compensate", "rollback", "uninstall"}
  /\ root.todo = <<>>
  /\ Exit(root.phase # "compensate")
  /\ UNCHANGED <<disk, journal, service, core, cli, user, serial, used>>

\* privileged_rollback.
PrivilegedRollback ==
  /\ root.phase = "undo"
  /\ \/ journal.new = 0 /\ Exit(FALSE)
     \/ journal.new # 0 /\ root' = [root EXCEPT !.phase = "rollback", !.mem = journal, !.todo = CompensateSteps(journal)]
  /\ UNCHANGED <<disk, journal, service, core, cli, user, serial, used>>

\* validate_uninstall_authorization, and what bounded_disabled_journal_authorizes_uninstall adds.
Authorizes ==
  \/ journal.new # 0 /\ ~Terminal(journal)
  \/ journal.terminal = "BoundedDisabled" /\ journal.old = 0 /\ files = Absent /\ backup = Absent /\ ~Loaded
  \/ files.enrollment # 0 /\ files.receipt = files.enrollment
  \/ files = Absent /\ ~Loaded /\ journal.new = 0

\* privileged_uninstall.
PrivilegedUninstall ==
  /\ root.phase = "purge"
  /\ \/ /\ Authorizes
        /\ root' = [root EXCEPT !.phase = "uninstall", !.todo = UninstallSteps]
        /\ used' = [used EXCEPT !.purged = TRUE]
     \/ ~Authorizes /\ Exit(FALSE) /\ Sound
  /\ UNCHANGED <<disk, journal, service, core, cli, user, serial>>

Root ==
  \/ PrivilegedInstall \/ Recovered \/ PersistIntent \/ Fail \/ Bootout \/ Network \/ AdvancePoint \/ Recheck
  \/ Save \/ Place \/ Enroll \/ Restore \/ Start \/ Pending \/ WriteTerminal \/ Restart \/ Forget \/ RootEnds
  \/ PrivilegedRollback \/ PrivilegedUninstall

-----------------------------------------------------------------------------
\* The command line and its package machine.

NoCli == [at |-> "idle", op |-> "none", pkg |-> 0, initial |-> "none", captured |-> FALSE, before |-> 0, settled |-> TRUE, result |-> "none"]

Run(op) == [RootOff EXCEPT !.op = op, !.phase = op]
Move(at) == cli' = [cli EXCEPT !.at = at]
End(result) == cli' = [cli EXCEPT !.at = "idle", !.result = result]

\* maintenance_journal_permits_package_observation.
JournalPermits(v) == journal.new = 0 \/ (Permits(journal) /\ ~(journal.terminal = "Committed" /\ journal.new # v))

\* status.
Status(v) ==
  CASE ~JournalPermits(v) -> "recovery-required"
    [] JournalPermits(v) /\ ~Loaded /\ \A f \in Files \ {"enrollment"} : files[f] = 0 -> "not-installed"
    [] JournalPermits(v) /\ Loaded /\ files.receipt = v /\ \A f \in {"helper", "core", "plist"} : files[f] # 0 -> "installed"
    [] OTHER -> "repair-required"

\* observed_package_state; a repair does not trust an installation that is not intact.
Observed(op, v) ==
  CASE Status(v) = "not-installed" -> "Absent"
    [] Status(v) = "installed" /\ (op # "repair" \/ Intact) -> "HealthyDisabled"
    [] Status(v) \in {"repair-required", "recovery-required"} /\ Intact -> "HealthyDisabled"
    [] OTHER -> "RepairRequired"

\* verify_installed_files.
Installed(v) == files = Whole(v) /\ user.receipt = v

\* health.
Healthy(v) == JournalPermits(v) /\ Installed(v) /\ Loaded /\ Authenticated /\ service.serves = v /\ ~core

\* identical_reinstall_or_downgrade.
Identical(v) == JournalPermits(v) /\ (journal.new \in {0, v}) /\ Installed(v)
Downgrade(v) == (journal.new = 0 \/ (Permits(journal) /\ journal.new = v)) /\ v < files.receipt

Command(op, v) ==
  /\ cli.at = "idle"
  /\ root.phase = "off"
  /\ used.commands < MaxCommands
  /\ used' = [used EXCEPT !.commands = @ + 1]
  /\ cli' = [NoCli EXCEPT !.op = op, !.pkg = v, !.initial = Observed(op, v), !.at = "evidence", !.before = used.faults + used.connects,
                          !.settled = journal.new = 0 \/ Terminal(journal)]
  /\ ~(op = "install" /\ (Identical(v) \/ Downgrade(v)))
  /\ UNCHANGED <<disk, journal, service, core, root, user, serial>>

\* The two commands that end before they touch anything.
Refuse(v) ==
  /\ cli.at = "idle"
  /\ root.phase = "off"
  /\ used.commands < MaxCommands
  /\ Identical(v) \/ Downgrade(v)
  /\ used' = [used EXCEPT !.commands = @ + 1]
  /\ cli' = [NoCli EXCEPT !.op = "install", !.pkg = v,
                          !.result = IF ~Downgrade(v) /\ Authenticated /\ service.serves = v THEN "identical" ELSE "failed"]
  /\ UNCHANGED <<disk, journal, service, core, root, user, serial>>

\* prepare_native_authorization: the administrator declines.
Decline ==
  /\ cli.at = "evidence"
  /\ Faulty
  /\ user' = [user EXCEPT !.backup = 0]
  /\ End("failed")
  /\ UNCHANGED <<disk, journal, service, core, root, serial>>

\* maintenance_capture_evidence: capture is off before anything is replaced, and
\* the marker that brings it back is durable before the app is told to leave.
Evidence ==
  /\ cli.at = "evidence"
  /\ \/ cli.initial = "Absent" /\ Move("Staging") /\ UNCHANGED <<core, user>> /\ Sound
     \/ /\ cli.initial # "Absent"
        /\ Authenticated
        /\ core' = FALSE
        /\ user' = [user EXCEPT !.marker = @ \/ (core /\ cli.op # "uninstall")]
        /\ cli' = [cli EXCEPT !.at = "Staging", !.captured = core]
        /\ Sound
  /\ UNCHANGED <<disk, journal, service, root, serial>>

\* The evidence is out of reach: only a broken installation goes on without it,
\* and an interrupted transaction is rolled back first.
NoEvidence ==
  /\ cli.at = "evidence"
  /\ cli.initial # "Absent"
  /\ IF Authenticated \/ (Loaded /\ Startable) THEN Faulty ELSE Sound
  /\ \/ cli.initial # "RepairRequired" /\ End("failed") /\ UNCHANGED root
     \/ /\ cli.initial = "RepairRequired"
        /\ cli.op = "uninstall" \/ journal.new = 0 \/ Terminal(journal)
        /\ Move("Staging")
        /\ UNCHANGED root
     \/ /\ cli.initial = "RepairRequired"
        /\ cli.op # "uninstall"
        /\ journal.new # 0 /\ ~Terminal(journal)
        /\ Move("recovering")
        /\ root' = Run("undo")
  /\ UNCHANGED <<disk, journal, service, core, user, serial>>

\* recover_interrupted_maintenance_before_capture, and the observation after it.
Reobserve ==
  /\ cli.at = "recovering"
  /\ root.phase = "done"
  /\ root' = RootOff
  /\ \/ ~root.ok /\ End("failed") /\ Sound /\ UNCHANGED <<core, user>>
     \/ root.ok /\ LET seen == Observed(cli.op, cli.pkg) IN
          \/ seen = "Absent" /\ cli' = [cli EXCEPT !.at = "Staging", !.initial = seen] /\ Sound /\ UNCHANGED <<core, user>>
          \/ seen # "Absent" /\ Authenticated /\ Sound
               /\ cli' = [cli EXCEPT !.at = "Staging", !.initial = seen, !.captured = core]
               /\ core' = FALSE /\ user' = [user EXCEPT !.marker = @ \/ core]
          \/ seen # "Absent" /\ ~Authenticated /\ End("failed") /\ UNCHANGED <<core, user>>
               /\ IF Loaded /\ Startable THEN Faulty ELSE Sound
  /\ UNCHANGED <<disk, journal, service, serial>>

\* PackageEffect::Stage.
Stage ==
  /\ cli.at = "Staging"
  /\ \/ /\ user' = [user EXCEPT !.backup = IF user.receipt # 0 THEN user.receipt ELSE @,
                                !.key = IF @ = 0 /\ cli.op # "uninstall" THEN serial + 1 ELSE @]
        /\ serial' = IF user.key = 0 /\ cli.op # "uninstall" THEN serial + 1 ELSE serial
        /\ Move("AwaitingAuthorization")
        /\ root' = Run(IF cli.op = "uninstall" THEN "purge" ELSE "install")
        /\ Sound
     \/ End("failed") /\ Faulty /\ UNCHANGED <<user, serial, root>>
  /\ UNCHANGED <<disk, journal, service, core>>

\* PackageEffect::Authorize.
Authorize ==
  /\ cli.at = "AwaitingAuthorization"
  /\ root.phase = "done"
  /\ root' = RootOff
  /\ \/ root.ok /\ Move(IF cli.op = "uninstall" THEN "Uninstalling" ELSE "Installing") /\ UNCHANGED user
     \/ ~root.ok /\ End("failed") /\ user' = [user EXCEPT !.backup = 0]
  /\ UNCHANGED <<disk, journal, service, core, serial, used>>

\* failure_transition: what changed the installation is rolled back.
RollBack == Move("RollingBack") /\ root' = Run("undo")

\* PackageEffect::CommitReceipt.
CommitReceipt ==
  /\ cli.at = "Installing"
  /\ \/ files.receipt = cli.pkg /\ user' = [user EXCEPT !.receipt = cli.pkg] /\ Move("Starting") /\ UNCHANGED root /\ Sound
     \/ UNCHANGED user /\ RollBack /\ Faulty
  /\ UNCHANGED <<disk, journal, service, core, serial>>

\* PackageEffect::AwaitReady.
AwaitReady ==
  /\ cli.at = "Starting"
  /\ \/ Healthy(cli.pkg) /\ Move("Verifying") /\ UNCHANGED root /\ Sound
     \/ ~Healthy(cli.pkg) /\ ~(Loaded /\ Startable /\ service.serves = 0) /\ RollBack /\ Sound
     \/ RollBack /\ Faulty
  /\ UNCHANGED <<disk, journal, service, core, user, serial>>

\* PackageEffect::Verify.
Verify ==
  /\ cli.at = "Verifying"
  /\ \/ Healthy(cli.pkg) /\ user' = [user EXCEPT !.backup = 0] /\ End("healthy") /\ UNCHANGED root /\ Sound
     \/ ~Healthy(cli.pkg) /\ RollBack /\ UNCHANGED user /\ Sound
     \/ RollBack /\ UNCHANGED user /\ Faulty
  /\ UNCHANGED <<disk, journal, service, core, serial>>

\* remove_user_installation_state.
NoUserState == [user EXCEPT !.receipt = 0, !.marker = FALSE, !.key = 0, !.backup = 0]

\* restore_user_installation_state, and cleanup_installer_files.
RestoredUser == IF user.backup # 0 THEN [user EXCEPT !.receipt = user.backup, !.backup = 0] ELSE NoUserState

\* PackageEffect::Rollback.
RolledBack ==
  /\ cli.at = "RollingBack"
  /\ root.phase = "done"
  /\ root' = RootOff
  /\ \/ root.ok /\ user' = RestoredUser /\ End("rolled-back") /\ Sound
     \/ ~root.ok /\ UNCHANGED user /\ End("failed") /\ Sound
     \/ root.ok /\ UNCHANGED user /\ End("failed") /\ Faulty
  /\ UNCHANGED <<disk, journal, service, core, serial>>

\* PackageEffect::FinalizeUninstall.
FinalizeUninstall ==
  /\ cli.at = "Uninstalling"
  /\ \/ user' = NoUserState /\ End("absent") /\ Sound
     \/ UNCHANGED user /\ End("failed") /\ Faulty
  /\ UNCHANGED <<disk, journal, service, core, root, serial>>

Cli ==
  \/ Decline \/ Evidence \/ NoEvidence \/ Reobserve \/ Stage \/ Authorize \/ CommitReceipt \/ AwaitReady \/ Verify
  \/ RolledBack \/ FinalizeUninstall

-----------------------------------------------------------------------------
\* A power loss and the boot after it.
PowerLoss ==
  /\ used.crashes < MaxCrashes
  /\ used' = [used EXCEPT !.crashes = @ + 1]
  /\ root' = RootOff
  /\ cli' = [NoCli EXCEPT !.result = "lost"]
  /\ service' = [loaded |-> files.plist # 0, serves |-> 0]
  /\ core' = FALSE
  /\ UNCHANGED <<disk, journal, user, serial>>

TunInit ==
  /\ files = Absent /\ enrolled = 0
  /\ backup = Absent /\ kept = 0
  /\ journal = NoJournal
  /\ service = Unloaded
  /\ core = FALSE
  /\ root = RootOff
  /\ cli = NoCli
  /\ user = [receipt |-> 0, backup |-> 0, key |-> 0, marker |-> FALSE]
  /\ serial = 0
  /\ used = [commands |-> 0, faults |-> 0, crashes |-> 0, connects |-> 0, purged |-> FALSE]

TunNext ==
  \/ HelperStart \/ Connect \/ Root \/ Cli \/ PowerLoss
  \/ \E op \in {"install", "repair", "uninstall"}, v \in Versions : Command(op, v)
  \/ \E v \in Versions : Refuse(v)

TunSpec == TunInit /\ [][TunNext]_tvars

-----------------------------------------------------------------------------
\* Until a transaction over a verified prior installation is settled, that
\* installation is whole, in place or in the backup, wherever the power is lost
\* (unless its removal was authorised in between).
PriorRecoverable ==
  journal.old # 0 /\ ~Terminal(journal) /\ ~used.purged =>
    IF Reached(journal, "PriorArtifactsBackedUp") THEN backup = Whole(journal.old) ELSE files = Whole(journal.old)

\* A rollback of an installation that its helper had already committed keeps the
\* terminal outcome in the journal while it restores (compensate_maintenance).
RevertsCommitted == journal.terminal = "Committed" /\ journal.pending

\* The installation that the helper serves is whole, with one exception: after a
\* power loss in a rollback of a committed installation the journal still permits
\* the helper to start, and until the next transaction boots it out it serves the
\* files as they are.  Its Core is then still the one it pins, and its enrollment
\* the one its plist names (run_tun_service); its identity and its receipt may be
\* of another version.
ServesSettled ==
  service.serves # 0 =>
    /\ files.helper = service.serves /\ files.core = service.serves /\ files.enrollment = files.plist
    /\ files = Whole(service.serves) \/ RevertsCommitted \/ On("bootout")

=============================================================================
