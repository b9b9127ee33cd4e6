-------------------------- MODULE ManagedExtension --------------------------
(***************************************************************************)
(* The installation of one managed browser extension: the transaction with  *)
(* which src/main/extensions/extension-manager.ts activates a version of it *)
(* and undoes a failed one, the directories of extension-managed-store.ts,  *)
(* the record of extension-registry.ts, and what the next start makes of a  *)
(* transaction that a crash cut short.                                      *)
(*                                                                          *)
(* The manager runs its operations one at a time (enqueue), so there is one *)
(* operation in progress, op, at a step.  Files: releases/<version>, the    *)
(* runtime directories current and current.previous, state.json and the     *)
(* registry's record.  A rename and a JSON file are replaced as a whole; a   *)
(* recursive deletion is not, and a crash leaves some remains.              *)
(*                                                                          *)
(* Abstracted: a version stands for its one package; sources, permissions   *)
(* and signatures, which decide only whether an operation may begin; the    *)
(* workspace sessions an extension is loaded into are one.  current.next,    *)
(* deleted before every use, is the copy in op.  Keyless installs from      *)
(* before the releases directory (runtimeRelativePath) are left out.         *)
(***************************************************************************)
EXTENDS Naturals, Sequences, SequencesExt

CONSTANTS
    MaxVersion,   \* bound: versions are released up to this one
    KeptVersions  \* how many releases state.json keeps (3)

ASSUME ExtensionAssumption ==
    MaxVersion \in Nat \ {0} /\ KeptVersions \in Nat \ {0}

VARIABLES
    registry,     \* the record, or None
    state,        \* state.json, or None
    releases,     \* per version: what releases/<version> holds
    current,      \* the runtime directory
    previous,     \* current.previous
    running,      \* the version loaded into the sessions, or 0
    known,        \* whether the manifest of the installation is in memory
    step,         \* of the operation in progress
    op,           \* the operation in progress
    cut           \* whether a deletion of the whole directory fell short

disk   == <<registry, state, releases, current, previous>>
memory == <<running, known>>
vars   == <<registry, state, releases, current, previous, running, known,
            step, op, cut>>

None     == [none |-> TRUE]
Versions == 1 .. MaxVersion

\* A directory: all files, some files with the manifest or without it, none.
Parts  == {"whole", "torn", "bare", "absent"}
Dirs   == {d \in [version : 0 .. MaxVersion, part : Parts] :
              (d.version = 0) = (d.part = "absent")}
Absent == [version |-> 0, part |-> "absent"]

Records == [version : Versions, enabled : BOOLEAN, failed : 0 .. MaxVersion]
States  == [active : Versions, kept : Seq(Versions)]
Steps   == {"down", "restore", "idle", "commit", "check", "prepare",
            "swapOut", "swapIn", "record", "load", "write", "tidy",
            "undo", "putBack", "reload", "mark", "drop", "clear"}
Ops     == [target : Versions, before : Records \cup {None}, old : Dirs,
            copy : Parts]

TypeOK ==
    /\ registry \in Records \cup {None}
    /\ state = None \/ (state \in States /\ Len(state.kept) <= KeptVersions)
    /\ releases \in [Versions -> Parts]
    /\ current \in Dirs /\ previous \in Dirs
    /\ running \in 0 .. MaxVersion
    /\ known \in BOOLEAN /\ cut \in BOOLEAN
    /\ step \in Steps
    /\ op \in Ops \cup {None}

Init ==
    /\ registry = None /\ state = None
    /\ releases = [v \in Versions |-> "absent"]
    /\ current = Absent /\ previous = Absent
    /\ running = 0 /\ known = FALSE
    /\ step = "idle" /\ op = None /\ cut = FALSE

-----------------------------------------------------------------------------
(* Directories.                                                             *)

\* What a deletion that is cut short leaves of a directory.
PartsLeft(part) ==
    CASE part = "whole" -> Parts
      [] part = "torn"  -> {"torn", "bare", "absent"}
      [] part = "bare"  -> {"bare", "absent"}
      [] OTHER          -> {"absent"}

Remains(d) == {IF part = "absent" THEN Absent ELSE [d EXCEPT !.part = part] :
                  part \in PartsLeft(d.part)}

\* What validateExtensionManifest can say: it reads the manifest and the files
\* it names, not every file.
Verdicts(part) ==
    CASE part = "whole" -> {TRUE}
      [] part = "torn"  -> BOOLEAN
      [] OTHER          -> {FALSE}

\* The version in the manifest of a directory, or 0.
ManifestVersion(d) == IF d.part \in {"whole", "torn"} THEN d.version ELSE 0

Listed(v) == state # None /\ v \in ToSet(state.kept)

\* recoverRuntimeSwap: a swap that did not finish is undone, unless state.json
\* already names the version it put in place.
\* Mutant: a directory whose manifest can be read is taken for finished.
SwapFinishedReadable == ManifestVersion(current) # 0

SwapFinished == state # None /\ ManifestVersion(current) = state.active

Recovered == IF previous = Absent \/ (current # Absent /\ SwapFinished)
             THEN current ELSE previous

RecoverRuntimeSwap == current' = Recovered /\ previous' = Absent

\* A deletion of the whole directory of the extension that falls short.
FallsShort ==
    /\ state' \in {state, None}
    /\ releases' \in {r \in [Versions -> Parts] :
                         \A v \in Versions : r[v] \in PartsLeft(releases[v])}
    /\ current' \in Remains(current) /\ previous' \in Remains(previous)
    /\ cut' = TRUE

-----------------------------------------------------------------------------
(* Activating a version.                                                    *)

At(s)     == step = s
GoTo(s)   == step' = s
Finish    == GoTo("idle") /\ op' = None

\* Mutant: an older version may replace a newer one.
BeginAny(v, automatic) ==
    /\ At("idle")
    /\ registry # None => known \/ TRUE \in Verdicts(current.part)
    /\ automatic => registry # None /\ registry.failed # v
    /\ op' = [target |-> v, before |-> registry, old |-> Absent,
              copy |-> "absent"]
    /\ GoTo("commit")
    /\ UNCHANGED <<disk, memory, cut>>

\* An install or update the user confirms, or one the update check finds:
\* that one leaves out a version that failed before.
Begin(v, automatic) ==
    /\ At("idle")
    /\ registry # None =>
          /\ v > registry.version
          /\ known \/ TRUE \in Verdicts(current.part)
    /\ automatic => registry # None /\ registry.failed # v
    /\ op' = [target |-> v, before |-> registry, old |-> Absent,
              copy |-> "absent"]
    /\ GoTo("commit")
    /\ UNCHANGED <<disk, memory, cut>>

\* The staged files become releases/<version>; a directory that is there is
\* taken for them when state.json lists the version.
Commit ==
    /\ At("commit")
    /\ \/ /\ releases[op.target] = "absent"
          /\ releases' = [releases EXCEPT ![op.target] = "whole"]
          /\ GoTo("check") /\ UNCHANGED op
       \/ /\ releases[op.target] # "absent" /\ Listed(op.target)
          /\ GoTo("check") /\ UNCHANGED <<releases, op>>
       \/ /\ releases[op.target] # "absent" /\ ~Listed(op.target)
          /\ Finish /\ UNCHANGED releases
    /\ UNCHANGED <<registry, state, current, previous, memory, cut>>

Check ==
    /\ At("check")
    /\ \E ok \in Verdicts(releases[op.target]) :
          GoTo(IF ok THEN "prepare" ELSE "drop")
    /\ UNCHANGED <<disk, memory, op, cut>>

\* The release is copied to where the swap takes it from.
PrepareRuntime ==
    /\ At("prepare")
    /\ RecoverRuntimeSwap
    /\ \/ /\ op' = [op EXCEPT !.old = current',
                              !.copy = releases[op.target]]
          /\ GoTo("swapOut")
       \/ GoTo("drop") /\ UNCHANGED op
    /\ UNCHANGED <<registry, state, releases, memory, cut>>

\* What runs is stopped and its directory set aside.
SwapOut ==
    /\ At("swapOut")
    /\ running' = IF op.before = None THEN running ELSE 0
    /\ \/ /\ op.old # Absent
          /\ previous' = current /\ current' = Absent
          /\ GoTo("swapIn")
       \/ /\ op.old = Absent
          /\ GoTo("swapIn") /\ UNCHANGED <<current, previous>>
       \/ /\ op.old # Absent
          /\ GoTo("undo") /\ UNCHANGED <<current, previous>>
    /\ UNCHANGED <<registry, state, releases, known, op, cut>>

\* The copy becomes the runtime directory.  When the rename fails, the
\* directory set aside is put back, if that rename does not fail too.
SwapIn ==
    /\ At("swapIn")
    /\ \/ /\ current' = [version |-> op.target, part |-> op.copy]
          /\ \E ok \in Verdicts(op.copy) : GoTo(IF ok THEN "record" ELSE "undo")
          /\ UNCHANGED previous
       \/ /\ op.old # Absent
          /\ current' = previous /\ previous' = Absent
          /\ GoTo("undo")
       \/ GoTo("undo") /\ UNCHANGED <<current, previous>>
    /\ UNCHANGED <<registry, state, releases, memory, op, cut>>

\* An update leaves an extension enabled or disabled; a new one is enabled,
\* unless it is an import of one that was disabled.
Record ==
    /\ At("record")
    /\ \E enabled \in BOOLEAN :
          /\ op.before # None => enabled = op.before.enabled
          /\ registry' = [version |-> op.target, enabled |-> enabled, failed |-> 0]
    /\ \/ known' = TRUE /\ GoTo("load")
       \/ UNCHANGED known /\ GoTo("undo")
    /\ UNCHANGED <<state, releases, current, previous, running, op, cut>>

Load ==
    /\ At("load")
    /\ \/ /\ running' = IF registry.enabled THEN op.target ELSE running
          /\ GoTo("write")
       \/ /\ registry.enabled
          /\ running' \in {running, op.target}
          /\ GoTo("undo")
    /\ UNCHANGED <<disk, known, op, cut>>

FirstOf(seq) ==
    SubSeq(seq, 1, IF Len(seq) < KeptVersions THEN Len(seq) ELSE KeptVersions)

\* The versions state.json keeps, the newest first and each of them once.
Retained(v) ==
    FirstOf(<<v>> \o (IF state = None THEN <<>>
                      ELSE RemoveFirst(state.kept, v)))

\* state.json names the version active and keeps the last few; releases it
\* does not keep are deleted, as far as that succeeds.
Activate ==
    /\ At("write")
    /\ \/ /\ state' = [active |-> op.target, kept |-> Retained(op.target)]
          /\ releases' \in {r \in [Versions -> Parts] :
                \A v \in Versions :
                    IF Listed(v)' THEN r[v] = releases[v] ELSE r[v] \in PartsLeft(releases[v])}
          /\ GoTo("tidy")
       \/ GoTo("undo") /\ UNCHANGED <<state, releases>>
    /\ UNCHANGED <<registry, current, previous, memory, op, cut>>

\* What was set aside goes; that it may stay behind is only logged.
CommitRuntime ==
    /\ At("tidy")
    /\ previous' \in {Absent, previous}
    /\ Finish
    /\ UNCHANGED <<registry, state, releases, current, memory, cut>>

-----------------------------------------------------------------------------
(* Undoing a failed activation.                                             *)

\* Mutant: what was loaded stays loaded.
RollbackLoaded ==
    /\ At("undo")
    /\ \/ current' = Absent /\ GoTo("putBack")
       \/ current' \in Remains(current) /\ GoTo("reload")
    /\ UNCHANGED <<registry, state, releases, previous, memory, op, cut>>

\* rollbackRuntime, whose errors are ignored: the runtime directory goes, then
\* what was set aside returns.
RollbackRuntime ==
    /\ At("undo")
    /\ running' = 0
    /\ \/ current' = Absent /\ GoTo("putBack")
       \/ current' \in Remains(current) /\ GoTo("reload")
    /\ UNCHANGED <<registry, state, releases, previous, known, op, cut>>

PutBack ==
    /\ At("putBack")
    /\ \/ /\ op.old # Absent /\ previous # Absent
          /\ current' = previous /\ previous' = Absent
       \/ UNCHANGED <<current, previous>>
    /\ GoTo("reload")
    /\ UNCHANGED <<registry, state, releases, memory, op, cut>>

\* The record returns to what it was, and the directory is loaded again.
Reload ==
    /\ At("reload")
    /\ registry' = op.before
    /\ \/ /\ op.before # None
          /\ TRUE \in Verdicts(current.part)
          /\ known' = TRUE
          /\ running' \in IF op.before.enabled THEN {0, current.version} ELSE {0}
          /\ GoTo("mark") /\ UNCHANGED op
       \/ /\ op.before # None
          /\ FALSE \in Verdicts(current.part)
          /\ Finish /\ UNCHANGED memory
       \/ /\ op.before = None
          /\ known' = FALSE
          /\ GoTo("clear") /\ UNCHANGED <<running, op>>
    /\ UNCHANGED <<state, releases, current, previous, cut>>

MarkFailed ==
    /\ At("mark")
    /\ registry' = [registry EXCEPT !.failed = op.target]
    /\ GoTo("drop")
    /\ UNCHANGED <<state, releases, current, previous, memory, op, cut>>

\* Mutant: the version to return to is deleted, not the one that failed.
RemovePrevious ==
    LET v == IF registry = None THEN op.target ELSE registry.version
    IN  /\ At("drop")
        /\ releases' \in {[releases EXCEPT ![v] = part] :
                             part \in PartsLeft(releases[v])}
        /\ Finish
        /\ UNCHANGED <<registry, state, current, previous, memory, cut>>

RemoveVersion ==
    /\ At("drop")
    /\ releases' \in {[releases EXCEPT ![op.target] = part] :
                         part \in PartsLeft(releases[op.target])}
    /\ Finish
    /\ UNCHANGED <<registry, state, current, previous, memory, cut>>

\* remove(): everything of the extension is deleted at once.
Clear ==
    /\ At("clear")
    /\ \/ /\ state' = None
          /\ releases' = [v \in Versions |-> "absent"]
          /\ current' = Absent /\ previous' = Absent
          /\ cut' = FALSE
       \/ FallsShort
    /\ Finish
    /\ UNCHANGED <<registry, memory>>

-----------------------------------------------------------------------------
(* The other operations.                                                    *)

\* A damaged installation, whose manifest is not in memory, is not removed.
Uninstall ==
    /\ At("idle") /\ registry # None
    /\ known \/ TRUE \in Verdicts(current.part)
    /\ registry' = None /\ running' = 0 /\ known' = FALSE
    /\ GoTo("clear")
    /\ UNCHANGED <<state, releases, current, previous, op, cut>>

\* refreshRecord: the record takes its version from the manifest it finds.
Refreshed(enabled) ==
    [registry EXCEPT !.version = current.version, !.enabled = enabled]

\* What is loaded already stays; the others may fail to load.
Enable ==
    /\ At("idle") /\ registry # None
    /\ TRUE \in Verdicts(current.part)
    /\ registry' = Refreshed(TRUE) /\ known' = TRUE
    /\ running' \in IF running # 0 THEN {running} ELSE {0, current.version}
    /\ UNCHANGED <<state, releases, current, previous, step, op, cut>>

Disable ==
    /\ At("idle") /\ registry # None
    /\ registry' = [registry EXCEPT !.enabled = FALSE]
    /\ \/ known /\ running' = 0 /\ UNCHANGED known
       \/ /\ ~known /\ TRUE \in Verdicts(current.part)
          /\ running' = 0 /\ UNCHANGED known
       \/ /\ ~known /\ FALSE \in Verdicts(current.part)
          /\ UNCHANGED memory
    /\ UNCHANGED <<state, releases, current, previous, step, op, cut>>

\* reload(): what runs is unloaded and the directory loaded again.
Restart ==
    /\ At("idle") /\ registry # None
    /\ TRUE \in Verdicts(current.part)
    /\ registry' = Refreshed(registry.enabled) /\ known' = TRUE
    /\ running' \in IF registry.enabled THEN {0, current.version} ELSE {0}
    /\ UNCHANGED <<state, releases, current, previous, step, op, cut>>

-----------------------------------------------------------------------------
(* Crashes and starts.                                                      *)

\* What a deletion leaves that the crash falls into; down, it is one of Boot.
FilesLeft ==
    CASE At("undo") ->
            /\ current' \in Remains(current)
            /\ UNCHANGED <<state, releases, previous, cut>>
      [] At("tidy") ->
            /\ previous' \in Remains(previous)
            /\ UNCHANGED <<state, releases, current, cut>>
      [] At("drop") ->
            /\ releases' \in {[releases EXCEPT ![op.target] = part] :
                                 part \in PartsLeft(releases[op.target])}
            /\ UNCHANGED <<state, current, previous, cut>>
      [] At("clear") -> FallsShort
      [] step \in {"prepare", "down"} /\ previous # Absent /\ current # Absent ->
            /\ IF SwapFinished
               THEN previous' \in Remains(previous) /\ UNCHANGED current
               ELSE current' \in Remains(current) /\ UNCHANGED previous
            /\ UNCHANGED <<state, releases, cut>>
      [] OTHER -> UNCHANGED <<state, releases, current, previous, cut>>

Crash ==
    /\ FilesLeft
    /\ running' = 0 /\ known' = FALSE
    /\ GoTo("down") /\ op' = None
    /\ UNCHANGED registry

\* managedStore.initialize looks at every directory, with a record or without.
Boot ==
    /\ At("down")
    /\ RecoverRuntimeSwap
    /\ GoTo("restore")
    /\ UNCHANGED <<registry, state, releases, memory, op, cut>>

\* An enabled extension whose directory validates is loaded; ensureCurrent,
\* which would rebuild a missing directory, is not reached without it.
Restore ==
    /\ At("restore")
    /\ \/ /\ registry # None /\ registry.enabled
          /\ TRUE \in Verdicts(current.part)
          /\ registry' = Refreshed(TRUE) /\ known' = TRUE
          /\ running' \in {0, current.version}
       \/ /\ ~(/\ registry # None /\ registry.enabled
               /\ Verdicts(current.part) = {TRUE})
          /\ UNCHANGED <<registry, memory>>
    /\ GoTo("idle")
    /\ UNCHANGED <<state, releases, current, previous, op, cut>>

-----------------------------------------------------------------------------
Next ==
    \/ \E v \in Versions, automatic \in BOOLEAN : Begin(v, automatic)
    \/ Commit \/ Check \/ PrepareRuntime \/ SwapOut \/ SwapIn
    \/ Record \/ Load \/ Activate \/ CommitRuntime
    \/ RollbackRuntime \/ PutBack \/ Reload \/ MarkFailed
    \/ RemoveVersion \/ Clear
    \/ Uninstall \/ Enable \/ Disable \/ Restart
    \/ Crash \/ Boot \/ Restore

Spec == Init /\ [][Next]_vars

-----------------------------------------------------------------------------
(* Properties.                                                              *)

\* Whatever fails or crashes, every release that state.json lists keeps all its
\* files: no deletion of a rejected version reaches one that is in use, a
\* version is listed only with its files in place, and (TypeOK) no more than
\* KeptVersions are.
ReleasesKept ==
    /\ TypeOK
    /\ ~cut /\ state # None => \A v \in ToSet(state.kept) : releases[v] = "whole"

\* What runs between operations can be stopped: it has an enabled record, and
\* its manifest is in memory, without which neither disable nor remove stops an
\* extension whose directory no longer validates.
RunsCanBeStopped ==
    At("idle") /\ running # 0 => registry # None /\ registry.enabled /\ known

\* An activation is one step to the next start: up to the write of state.json
\* a crash leads back to the directory that ran before, if there was one, and
\* after it to the files of the new version.
CrashUndoesOrCompletes ==
    ~cut /\ op # None =>
        /\ step \in {"swapOut", "swapIn", "record", "load", "write"} /\ op.old # Absent
              => Recovered = op.old
        /\ At("tidy") => Recovered = [version |-> op.target, part |-> op.copy]

\* No sequence of failures, rollbacks and crashes takes an installation back to
\* an older version than one it completed, unless it was removed in between.
ActiveNeverFalls ==
    [][~cut /\ state # None /\ state' # None => state'.active >= state.active]_vars

\* A failed update leaves the directory that ran before it, before that is
\* loaded again: "failed candidates roll back" (native-api-v1.md:55), "the
\* previous version was restored" (extension-manager.ts:1243).
FailedUpdatesRollBack ==
    At("reload") /\ op.before # None /\ op.old # Absent => current = op.old
=============================================================================
