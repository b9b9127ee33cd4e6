--------------------------- MODULE ExternalUpdater ---------------------------
(***************************************************************************)
(* The updater that runs outside the browser:                               *)
(* tools/VastUpdaterBootstrapper/Program.cs downloads a release bundle and  *)
(* checks it, and resources/updater/VastUpdater.ps1 (Invoke-VastUpdate)     *)
(* brings an installation and the user's data from an earlier version, or   *)
(* from what a run cut short left behind, to the bundle's version.          *)
(*                                                                          *)
(* One run of the script is in progress at a time.  Files are copied one by *)
(* one, and nothing protects them from the user, who may start the browser  *)
(* between two steps, or from a power cut.  A copy that fails leaves its    *)
(* destination as it was or missing; a power cut leaves a part of it.       *)
(*                                                                          *)
(* Abstracted: a file is told apart by whose bytes it holds; one legacy     *)
(* data root beside the canonical one; logging, path detection and the      *)
(* checks of the ZIP, which only decide whether a run begins.               *)
(*                                                                          *)
(* Names that UpdateHandoff has too are the updater's here (UpdaterNext,    *)
(* failures): UpdateProofs speaks of both.                                  *)
(***************************************************************************)
EXTENDS Naturals, Sequences

CONSTANTS
    Payload,   \* the bundle's runtime files in the order they are copied
    Items,     \* the user data items in the order they are migrated
    Folders,   \* those that are directories
    Critical,  \* those whose backup may not fail
    MaxRuns,   \* bound: runs of the script
    MaxFailures  \* bound: failed copies, locked files and power cuts

Elements(s) == {s[i] : i \in 1 .. Len(s)}
Files == Elements(Payload) \cup {"version.json"}
Data  == Elements(Items)

ASSUME UpdaterAssumption ==
    /\ Payload \in Seq(STRING) /\ Items \in Seq(STRING)
    /\ {"Vast.exe", "resources/app.asar"} \subseteq Files
    /\ Folders \subseteq Data /\ Critical \subseteq Data
    /\ MaxRuns \in Nat /\ MaxFailures \in Nat

VARIABLES
    bundle,    \* what the bootstrapper has on disk
    install,   \* the runtime files
    registry,  \* the version of the uninstall entry
    browser,   \* whether the browser runs
    data,      \* the items in the canonical data root
    legacy,    \* the items in the legacy root
    kept,      \* items the migration copied aside before it replaced them
    backup,    \* the backup of the user's data that this run made
    saved,     \* this run's runtime-backup directory
    run,       \* this run: its step, options and lists
    before,    \* history: the runtime files when this run began
    stuck,     \* history: the new files that its rollback could not remove
    runs, failures

userData    == <<data, kept, backup>>
runtime     == <<install, saved>>
outside     == <<bundle, legacy, before, stuck, runs>>
updaterVars == <<bundle, install, registry, browser, data, legacy, kept, backup,
                 saved, run, before, stuck, runs, failures>>

\* A runtime file holds the bytes of an old release, of the bundle, of a newer
\* release, what Write-VastInstalledVersionFile writes, or a part of some.
Bytes == {"none", "old", "new", "newer", "stamp", "torn"}
\* A data item is missing, looks empty, is the user's, came from the legacy
\* root, or is a part of one.
Contents == {"none", "blank", "mine", "theirs", "part"}

Steps   == {"idle", "close", "locks", "migrate", "replaced", "backup",
            "copy", "aside", "stamp", "undo", "verify"}
Results == {"none", "AlreadyCurrent", "Updated", "Repaired", "DryRun", "failed"}
Runs    == [step : Steps, force : BOOLEAN, dry : BOOLEAN,
            kind : {"Updated", "Repaired"}, next : Nat \ {0},
            fresh : SUBSET Files, result : Results, undone : BOOLEAN]
NoRun   == [step |-> "idle", force |-> FALSE, dry |-> FALSE,
            kind |-> "Updated", next |-> 1, fresh |-> {},
            result |-> "none", undone |-> FALSE]
NoFiles == [f \in Files |-> "none"]
NoData  == [i \in Data |-> "none"]

\* An old installation, whole or with one file that it lacks or that an
\* earlier update did not reach, and a newer one.  Test-VastInstallPath asks
\* for the executable.
UpdaterInit ==
    /\ bundle = "none"
    /\ install \in
          {[f \in Files |-> "old"], [f \in Files |-> "newer"]}
          \cup {[f \in Files |-> IF f = g THEN "none" ELSE "old"] :
                    g \in Files \ {"Vast.exe"}}
          \cup {[f \in Files |-> IF f = g THEN "old" ELSE "new"] : g \in Files}
    /\ registry \in {"none", "old"} /\ browser \in BOOLEAN
    /\ data \in [Data -> {"none", "blank", "mine"}]
    /\ legacy \in [Data -> {"none", "theirs"}]
    /\ kept = {} /\ backup = NoData /\ saved = NoFiles
    /\ run = NoRun /\ before = install /\ stuck = {} /\ runs = 0 /\ failures = 0

-----------------------------------------------------------------------------
(* Versions and hashes.                                                     *)

Release(bytes) == CASE bytes \in {"new", "stamp"} -> "new"
                    [] bytes \in {"none", "torn"} -> "none"
                    [] OTHER -> bytes

\* Get-VastInstalledVersion: version.json, then resources/version.json, the
\* uninstall entry and the executable; each where the ones before say nothing.
InstalledVersion ==
    LET Of(f) == IF f \in Files THEN Release(install[f]) ELSE "none"
    IN CASE Of("version.json") # "none" -> Of("version.json")
         [] OTHER -> CASE Of("resources/version.json") # "none" ->
                                  Of("resources/version.json")
                       [] registry # "none" -> registry
                       [] OTHER -> Of("Vast.exe")

\* Test-VastRuntimeMatchesPayload compares the hashes of every file.
RuntimeMatchesVersion == InstalledVersion = "new"
RuntimeMatchesPayload == \A f \in Elements(Payload) : install[f] = "new"

-----------------------------------------------------------------------------
(* The bootstrapper.                                                        *)

\* DownloadResourceAsync: the bytes may be cut short or damaged on the way.
Download ==
    /\ bundle = "none" /\ runs < MaxRuns
    /\ bundle' \in {"good", "damaged"}
    /\ UNCHANGED <<runtime, userData, registry, browser, legacy, run, before,
                   stuck, runs, failures>>

\* The size and the SHA-256 of the package and then of the script must match.
Verify ==
    /\ bundle \in {"good", "damaged"}
    /\ bundle' = IF bundle = "good" THEN "ready" ELSE "none"
    /\ UNCHANGED <<runtime, userData, registry, browser, legacy, run, before,
                   stuck, runs, failures>>

-----------------------------------------------------------------------------
(* The script, up to its first change.                                      *)

Goto(step) == run' = [run EXCEPT !.step = step, !.next = 1]
Stop(result) == run' = [run EXCEPT !.step = "idle", !.result = result]
Continue == run' = [run EXCEPT !.next = @ + 1]
Failure == failures < MaxFailures /\ failures' = failures + 1

\* Invoke-VastUpdate up to Test-VastWritePermission.
Begin(force, dry) ==
    /\ bundle = "ready" /\ run.step = "idle" /\ runs < MaxRuns
    /\ runs' = runs + 1
    /\ LET version == InstalledVersion
           current == version = "new" /\ RuntimeMatchesPayload
           result  == CASE current -> "AlreadyCurrent"
                        [] version = "newer" -> "failed"
                        [] OTHER -> "none"
       IN /\ run' = [NoRun EXCEPT
                !.force = force, !.dry = dry, !.result = result,
                !.kind = IF version = "new" THEN "Repaired" ELSE "Updated",
                !.step = IF result = "none" THEN "close" ELSE "idle"]
          /\ registry' = IF current /\ ~dry THEN "new" ELSE registry
    /\ saved' = NoFiles /\ backup' = NoData /\ before' = install /\ stuck' = {}
    /\ UNCHANGED <<bundle, install, browser, data, legacy, kept, failures>>

\* Stop-VastIfRequested, the one look at the running processes.
CloseVast ==
    /\ run.step = "close"
    /\ IF browser /\ ~run.force
       THEN Stop("failed") /\ UNCHANGED browser
       ELSE Goto("locks") /\ browser' = FALSE
    /\ UNCHANGED <<outside, runtime, userData, registry, failures>>

\* Test-VastLockedTargets: the executable of a running browser is in use.
TestLocks ==
    /\ run.step = "locks"
    /\ IF browser THEN Stop("failed")
       ELSE Goto(IF run.dry THEN "copy" ELSE "migrate")
    /\ UNCHANGED <<outside, runtime, userData, registry, browser, failures>>

-----------------------------------------------------------------------------
(* The user's data.                                                         *)

Item == Items[run.next]
HasMigrated(i) == data[i] = "theirs"
HasContent(i) == data[i] \notin {"none", "blank"}

\* Sync-VastLegacyUserData up to the copy of an item: what is to be replaced is
\* copied aside first, and a directory then removed.
MigrateItem ==
    /\ run.step = "migrate" /\ run.next <= Len(Items)
    /\ IF legacy[Item] = "none" \/ HasContent(Item)
       THEN Continue /\ UNCHANGED <<data, kept>>
       ELSE /\ run' = [run EXCEPT !.step = "replaced"]
            /\ kept' = IF data[Item] = "none" THEN kept ELSE kept \cup {Item}
            /\ data' = [data EXCEPT ![Item] =
                            IF Item \in Folders THEN "none" ELSE @]
    /\ UNCHANGED <<outside, runtime, registry, browser, backup, failures>>

\* Copy-VastBackupItem from the legacy root.
CopyItem ==
    /\ run.step = "replaced"
    /\ data' = [data EXCEPT ![Item] = legacy[Item]]
    /\ run' = [run EXCEPT !.step = "migrate", !.next = @ + 1]
    /\ UNCHANGED <<outside, runtime, registry, browser, kept, backup, failures>>

\* A file in it cannot be read or written: a directory keeps what was copied.
CopyItemFails ==
    /\ run.step = "replaced" /\ Failure
    /\ \E left \in IF Item \in Folders THEN {"blank", "part"}
                   ELSE {data[Item], "none"} :
          data' = [data EXCEPT ![Item] = left]
    /\ Stop("failed")
    /\ UNCHANGED <<outside, runtime, registry, browser, kept, backup>>

Migrated ==
    /\ run.step = "migrate" /\ run.next > Len(Items)
    /\ Goto("backup")
    /\ UNCHANGED <<outside, runtime, userData, registry, browser, failures>>

\* Backup-VastUserData collects the errors of critical items and throws at the
\* end; an item that is not critical may be left out.
BackupUserData(unreadable) ==
    /\ run.step = "backup"
    /\ IF unreadable = {} THEN UNCHANGED failures ELSE Failure
    /\ backup' = [i \in Data |-> IF i \in unreadable THEN "none" ELSE data[i]]
    /\ IF unreadable \cap Critical = {} THEN Goto("copy") ELSE Stop("failed")
    /\ UNCHANGED <<outside, runtime, registry, browser, data, kept>>

-----------------------------------------------------------------------------
(* The runtime: Copy-VastApplicationRuntime.                                *)

File == Payload[run.next]
InUse(f) == browser /\ f = "Vast.exe"

\* Names of new files are not noted.
SetAsideNothingNew ==
    /\ run.step = "copy" /\ run.next <= Len(Payload)
    /\ IF install[File] = "new"
       THEN Continue /\ UNCHANGED saved
       ELSE /\ run' = [run EXCEPT
                  !.step = IF run.dry THEN "copy" ELSE "aside",
                  !.next = IF run.dry THEN @ + 1 ELSE @]
            /\ saved' = IF run.dry THEN saved
                        ELSE [saved EXCEPT ![File] = install[File]]
    /\ UNCHANGED <<outside, install, userData, registry, browser, failures>>

\* A file with the bundle's bytes is passed over; of another the old bytes are
\* copied aside, or its name is noted as new.
SetAside ==
    /\ run.step = "copy" /\ run.next <= Len(Payload)
    /\ IF install[File] = "new"
       THEN Continue /\ UNCHANGED saved
       ELSE /\ run' = [run EXCEPT
                  !.step = IF run.dry THEN "copy" ELSE "aside",
                  !.next = IF run.dry THEN @ + 1 ELSE @,
                  !.fresh = IF install[File] = "none" THEN @ \cup {File} ELSE @]
            /\ saved' = IF run.dry THEN saved
                        ELSE [saved EXCEPT ![File] = install[File]]
    /\ UNCHANGED <<outside, install, userData, registry, browser, failures>>

\* The copy aside fails: nothing of this file has changed.
SetAsideFails ==
    /\ run.step = "copy" /\ run.next <= Len(Payload) /\ ~run.dry
    /\ install[File] \notin {"new", "none"} /\ Failure
    /\ Goto("undo")
    /\ UNCHANGED <<outside, runtime, userData, registry, browser>>

CopyFile ==
    /\ run.step = "aside" /\ ~InUse(File)
    /\ install' = [install EXCEPT ![File] = "new"]
    /\ run' = [run EXCEPT !.step = "copy", !.next = @ + 1]
    /\ UNCHANGED <<outside, saved, userData, registry, browser, failures>>

\* The file is in use, or the disk is full.
CopyFileFails ==
    /\ run.step = "aside"
    /\ IF InUse(File) THEN UNCHANGED <<install, failures>>
       ELSE /\ Failure
            /\ install' \in {install, [install EXCEPT ![File] = "none"]}
    /\ Goto("undo")
    /\ UNCHANGED <<outside, saved, userData, registry, browser>>

\* All files are there: version.json is copied aside, once more when it is one
\* of them, before it is written anew.
SaveVersion ==
    /\ run.step = "copy" /\ run.next > Len(Payload)
    /\ IF run.dry THEN Stop("DryRun") /\ UNCHANGED saved
       ELSE LET stored == install["version.json"]
            IN /\ run' = [run EXCEPT !.step = "stamp", !.fresh =
                    IF stored = "none" THEN @ \cup {"version.json"} ELSE @]
               /\ saved' = IF stored = "none" THEN saved
                           ELSE [saved EXCEPT !["version.json"] = stored]
    /\ UNCHANGED <<outside, install, userData, registry, browser, failures>>

WriteInstalledVersionFile ==
    /\ run.step = "stamp"
    /\ install' = [install EXCEPT !["version.json"] = "stamp"]
    /\ Goto("verify")
    /\ UNCHANGED <<outside, saved, userData, registry, browser, failures>>

WriteVersionFails ==
    /\ run.step = "stamp" /\ Failure
    /\ \E left \in {install["version.json"], "none", "torn"} :
          install' = [install EXCEPT !["version.json"] = left]
    /\ Goto("undo")
    /\ UNCHANGED <<outside, saved, userData, registry, browser>>

\* Restore-VastRuntimeBackup: new files go but for those left, the copies come
\* back.
Restored(left) == [f \in Files |->
    IF saved[f] # "none" THEN saved[f]
    ELSE IF f \in run.fresh \ left THEN "none" ELSE install[f]]

\* A new file that is in use or locked stays, and the rollback goes on to its
\* end: Remove-Item's error is swallowed.
RestoreRuntimeBackup ==
    /\ run.step = "undo" /\ \A f \in Files : InUse(f) => saved[f] = "none"
    /\ stuck' \in SUBSET {f \in run.fresh : install[f] # "none"}
    /\ {f \in run.fresh : InUse(f) /\ install[f] # "none"} \subseteq stuck'
    /\ IF \A f \in stuck' : InUse(f) THEN UNCHANGED failures ELSE Failure
    /\ install' = Restored(stuck')
    /\ run' = [run EXCEPT !.step = "idle", !.result = "failed", !.undone = TRUE]
    /\ UNCHANGED <<bundle, legacy, before, runs, saved, userData, registry, browser>>

\* A copy cannot be put back: its file is in use or cannot be written.  It and
\* the copies after it stay aside, and new files may stay too.
RestoreFails ==
    /\ run.step = "undo"
    /\ IF \E f \in Files : InUse(f) /\ saved[f] # "none"
       THEN UNCHANGED failures ELSE Failure
    /\ \E done \in SUBSET {f \in Files : ~InUse(f)} :
          install' = [f \in Files |-> IF f \in done THEN Restored({})[f]
                                      ELSE install[f]]
    /\ Stop("failed")
    /\ UNCHANGED <<outside, saved, userData, registry, browser>>

\* The version found must be the target; the uninstall entry follows it.
VerifyVersion ==
    /\ run.step = "verify"
    /\ IF InstalledVersion = "new"
       THEN Stop(run.kind) /\ registry' = "new"
       ELSE Stop("failed") /\ UNCHANGED registry
    /\ UNCHANGED <<outside, runtime, userData, browser, failures>>

-----------------------------------------------------------------------------
(* The user and the power.                                                  *)

OpenBrowser ==
    /\ ~browser /\ install["Vast.exe"] \notin {"none", "torn"}
    /\ run.step # "idle" /\ Failure
    /\ browser' = TRUE
    /\ UNCHANGED <<outside, runtime, userData, registry, run>>

CloseBrowser ==
    /\ browser /\ browser' = FALSE
    /\ UNCHANGED <<outside, runtime, userData, registry, run, failures>>

\* The file being copied is left torn, wherever the run was.
PowerCut ==
    /\ run.step # "idle" /\ Failure
    /\ install' \in {install} \cup
          CASE run.step = "aside" -> {[install EXCEPT ![File] = "torn"]}
            [] run.step = "stamp" -> {[install EXCEPT !["version.json"] = "torn"]}
            [] run.step = "undo" -> {[install EXCEPT ![f] = "torn"] :
                                        f \in {g \in Files : saved[g] # "none"}}
            [] OTHER -> {}
    /\ data' \in {data} \cup
          IF run.step = "replaced" THEN {[data EXCEPT ![Item] = "part"]} ELSE {}
    /\ run' = [NoRun EXCEPT !.result = "none"] /\ browser' = FALSE
    /\ UNCHANGED <<outside, saved, registry, kept, backup>>

Script ==
    \/ CloseVast \/ TestLocks \/ MigrateItem \/ CopyItem \/ Migrated
    \/ \E unreadable \in SUBSET Data : BackupUserData(unreadable)
    \/ SetAside \/ CopyFile \/ CopyFileFails \/ SaveVersion
    \/ WriteInstalledVersionFile \/ RestoreRuntimeBackup \/ VerifyVersion

UpdaterNext ==
    \/ Download \/ Verify
    \/ \E force, dry \in BOOLEAN : Begin(force, dry)
    \/ Script
    \/ CopyItemFails \/ SetAsideFails \/ WriteVersionFails \/ RestoreFails
    \/ OpenBrowser \/ CloseBrowser \/ PowerCut

UpdaterSpec == UpdaterInit /\ [][UpdaterNext]_updaterVars

-----------------------------------------------------------------------------
(* Properties.                                                              *)

UpdaterTypeOK ==
    /\ bundle \in {"none", "good", "damaged", "ready"}
    /\ install \in [Files -> Bytes] /\ before \in [Files -> Bytes]
    /\ saved \in [Files -> Bytes]
    /\ registry \in {"none", "old", "new"} /\ browser \in BOOLEAN
    /\ data \in [Data -> Contents] /\ legacy \in [Data -> Contents]
    /\ backup \in [Data -> Contents] /\ kept \in SUBSET Data
    /\ stuck \in SUBSET Files
    /\ run \in Runs /\ (run.result # "none" => run.step = "idle")
    /\ runs \in 0 .. MaxRuns /\ failures \in 0 .. MaxFailures

\* A run that reports the target version as installed, updated or repaired
\* leaves every runtime file with the bundle's bytes, whatever mixture it or an
\* earlier run that was cut short began with (Invoke-VastUpdate); and (UpdaterTypeOK)
\* a run that reports has ended.
ReportedIsInstalled ==
    /\ UpdaterTypeOK
    /\ run.result \in {"AlreadyCurrent", "Updated", "Repaired"} =>
        \A f \in Elements(Payload) :
            install[f] \in {"new"} \cup (IF f = "version.json" THEN {"stamp"} ELSE {})

\* No runtime file changes before the user's critical data, as the migration
\* left it, is in this run's backup (Backup-VastUserData).
BackedUpFirst ==
    [][install' # install => \A i \in Critical : backup[i] = data[i]]_updaterVars

\* The migration never touches an item of the canonical root that holds the
\* user's content, and what it does replace it has copied aside before
\* (Sync-VastLegacyUserData), also when it is cut short.
NoUserDataLost ==
    [][\A i \in Data : data'[i] # data[i] =>
          data[i] # "mine" /\ (data[i] = "blank" => i \in kept')]_updaterVars

\* The user's data is backed up before anything changes, and never lost itself.
UserDataIsSafe == BackedUpFirst /\ NoUserDataLost

\* A failed run whose rollback finished, and a dry run, leave the runtime files
\* as they found them: also the missing ones, and whichever step failed
\* (Restore-VastRuntimeBackup).  Only a new file that the rollback could not
\* remove stays, and it has the bundle's bytes.  version.json is left out: it is
\* copied aside twice, and the second copy is the bundle's.
LeftAsFound ==
    run.undone \/ run.dry =>
        \A f \in Files \ {"version.json"} :
            IF f \in stuck THEN before[f] = "none" /\ install[f] = "new"
            ELSE install[f] = before[f]

\* After an update the same updater finds nothing to do
\* (tests/updater/vast-updater.test.ps1: "second update should detect current
\* version").
SecondRunIsCurrent ==
    run.result \in {"Updated", "Repaired"} => RuntimeMatchesPayload

=============================================================================
