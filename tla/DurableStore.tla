------------------------------ MODULE DurableStore ------------------------------
(***************************************************************************)
(* The durable profile store of the main process: src/main/storage.ts with *)
(* the SerializedTaskQueue that orders its writes.                         *)
(*                                                                         *)
(* The active file vast-data.json holds one profile.  Every mutation is a  *)
(* task of one FIFO queue; a task computes the next profile from the       *)
(* in-memory copy, writes a temporary file, may copy the active file to a  *)
(* rolling backup, renames the temporary file over the active one and only *)
(* then updates memory.  A crash, a failed write or a damaged file may     *)
(* come between any two of these steps.                                    *)
(***************************************************************************)
EXTENDS ProfileUpdates, Sequences

CONSTANTS
    Clients,       \* IPC handlers and main-process callers that mutate the profile
    Loaders,       \* concurrent loadData calls that may find no cached profile
    InitialFiles,  \* contents of the active file at the first start
    KeepRolling, KeepManual,  \* maxRollingBackups, maxManualBackups
    MaxRequests, MaxFaults,   \* bounds: requests submitted, faults injected
    MaxClock       \* bound: no rolling or manual backup is taken after this many backups

Procs == Clients \union Loaders

BackupKinds == {"rolling", "manual", "invalid"} \union Replacing
Backup == [kind : BackupKinds, at : Nat, body : FileContents]

Stages == {"idle", "copied", "temp", "rename", "renamed", "readback"}
LoaderStates == {"idle", "read", "picked", "saving"}
Loading == [pc : LoaderStates, raw : FileContents \union {Nothing}, pick : Profile]
IdleLoader == [pc |-> "idle", raw |-> Nothing, pick |-> DefaultData]

ASSUME Separate == Clients \intersect Loaders = {}

ASSUME Bounds ==
    /\ InitialFiles \subseteq FileContents
    /\ KeepRolling \in Nat \ {0} /\ KeepManual \in Nat \ {0}
    /\ MaxRequests \in Nat /\ MaxFaults \in Nat /\ MaxClock \in Nat

VARIABLES
    up,              \* the main process is running
    disk,            \* the active file
    backups,         \* the backup directory
    clock,           \* creation stamps of backups
    cachedData, lastWritten, mainDownloads, recovered,   \* module state of storage.ts
    loader,          \* the loadData calls in flight
    view,            \* the profile the renderer was hydrated with, plus its edits
    queue, task,     \* durableSaveQueue: waiting and running tasks
    stage,           \* how far the running task is
    next, priorDownloads,                                \* locals of the running task
    acked,           \* history: download states whose upsert was reported durable
    sent, faults     \* bounds: requests submitted, faults injected

vars == <<up, disk, backups, clock, cachedData, lastWritten, mainDownloads, recovered,
          loader, view, queue, task, stage, next, priorDownloads, acked, sent, faults>>
files == <<disk, backups, clock>>
memory == <<cachedData, lastWritten, mainDownloads, recovered>>
running == <<queue, task, stage, next, priorDownloads>>
counters == <<sent, faults>>

Init ==
    /\ up = FALSE
    /\ disk \in InitialFiles
    /\ backups = {} /\ clock = 0
    /\ cachedData = Nothing /\ lastWritten = Nothing
    /\ mainDownloads = Nothing /\ recovered = FALSE
    /\ loader = [l \in Loaders |-> IdleLoader]
    /\ view = Nothing
    /\ queue = <<>> /\ task = [p \in Procs |-> NoTask]
    /\ stage = "idle" /\ next = Nothing /\ priorDownloads = Nothing
    /\ acked = NoDownloads
    /\ sent = 0 /\ faults = 0

Fault == faults < MaxFaults /\ faults' = faults + 1

-----------------------------------------------------------------------------
\* durableSaveQueue: one task at a time, in submission order.

Enqueue(p, t) ==
    /\ queue' = Append(queue, p)
    /\ task' = [task EXCEPT ![p] = t]

Runs(p, s) == up /\ queue # <<>> /\ Head(queue) = p /\ stage = s

\* Mutation of Settle: the promise settles and does not release the tasks behind it.
SettleKeepsTail(p) ==
    /\ queue' = Tail(queue)
    /\ task' = [task EXCEPT ![p] = NoTask]
    /\ stage' = "held" /\ next' = Nothing /\ priorDownloads' = Nothing
    /\ loader' = IF p \in Loaders THEN [loader EXCEPT ![p] = IdleLoader] ELSE loader

\* The promise of the running task resolves or rejects; either way the tail advances.
Settle(p) ==
    /\ queue' = Tail(queue)
    /\ task' = [task EXCEPT ![p] = NoTask]
    /\ stage' = "idle" /\ next' = Nothing /\ priorDownloads' = Nothing
    /\ loader' = IF p \in Loaders THEN [loader EXCEPT ![p] = IdleLoader] ELSE loader

Continue(s) == stage' = s /\ UNCHANGED <<queue, task, loader>>

-----------------------------------------------------------------------------
\* Backups.

Newest(S) == {b \in S : \A c \in S : c.at <= b.at}
OfKind(S, k) == {b \in S : b.kind = k}
Trimmed(S, k, keep) ==
    S \ {b \in OfKind(S, k) : Cardinality({c \in OfKind(S, k) : c.at > b.at}) >= keep}

\* copyActiveStorageToBackup: nothing is copied when there is no active file.
CopyActive(kind) ==
    IF disk = Absent THEN UNCHANGED <<backups, clock>>
    ELSE /\ clock' = clock + 1
         /\ LET grown == backups \union {[kind |-> kind, at |-> clock, body |-> disk]}
            IN backups' = CASE kind = "rolling" -> Trimmed(grown, kind, KeepRolling)
                            [] kind = "manual" -> Trimmed(grown, kind, KeepManual)
                            [] OTHER -> grown

\* createStorageBackup("manual"): outside the queue, at any time.
BackUpManually ==
    /\ up /\ clock < MaxClock
    /\ CopyActive("manual")
    /\ UNCHANGED <<up, disk, memory, loader, view, running, acked, counters>>

RecoverySources == {b \in backups : b.kind # "invalid" /\ b.body \in Profile}

-----------------------------------------------------------------------------
\* loadData and recoverCorruptStorage.

LoadRead(l) ==
    /\ up /\ cachedData = Nothing /\ loader[l].pc = "idle"
    /\ loader' = [loader EXCEPT ![l] = [@ EXCEPT !.pc = "read", !.raw = disk]]
    /\ UNCHANGED <<up, files, memory, view, running, acked, counters>>

LoadParsed(l) ==
    /\ up /\ loader[l].pc = "read" /\ loader[l].raw \in Profile
    /\ cachedData' = Loaded(loader[l].raw)
    /\ IF loader[l].raw.schema = "current"
       THEN /\ lastWritten' = cachedData'
            /\ loader' = [loader EXCEPT ![l] = IdleLoader]
            /\ UNCHANGED <<queue, task>>
       ELSE /\ Enqueue(l, [kind |-> "first save", data |-> cachedData'])
            /\ loader' = [loader EXCEPT ![l] = [@ EXCEPT !.pc = "saving"]]
            /\ UNCHANGED lastWritten
    /\ UNCHANGED <<up, files, mainDownloads, recovered, view, stage, next, priorDownloads,
                   acked, counters>>

LoadMissing(l) ==
    /\ up /\ loader[l].pc = "read" /\ loader[l].raw = Absent
    /\ cachedData' = Loaded(Absent)
    /\ Enqueue(l, [kind |-> "first save", data |-> cachedData'])
    /\ loader' = [loader EXCEPT ![l] = [@ EXCEPT !.pc = "saving"]]
    /\ UNCHANGED <<up, files, lastWritten, mainDownloads, recovered, view, stage, next,
                   priorDownloads, acked, counters>>

\* findLatestValidStorageBackup: the newest backup that can be read; a backup that
\* cannot be read is skipped, and with none left the defaults are taken.
PickRecovery(l) ==
    /\ up /\ loader[l].pc = "read" /\ loader[l].raw \in Damaged
    /\ \E readable \in SUBSET RecoverySources :
          /\ IF readable = RecoverySources THEN UNCHANGED faults ELSE Fault
          /\ \E pick \in IF readable = {} THEN {DefaultData}
                         ELSE {Migrated(b.body) : b \in Newest(readable)} :
                loader' = [loader EXCEPT ![l] = [@ EXCEPT !.pc = "picked", !.pick = pick]]
    /\ UNCHANGED <<up, files, memory, view, running, acked, sent>>

\* backupRejectedStorageFile: copy, read the copy back, compare; only a verified copy
\* lets the recovery go on.
KeepRejected(l) ==
    /\ up /\ loader[l].pc = "picked" /\ disk = loader[l].raw
    /\ backups' = backups \union {[kind |-> "invalid", at |-> 0, body |-> disk]}
    /\ Enqueue(l, [kind |-> "recovery", data |-> loader[l].pick])
    /\ loader' = [loader EXCEPT ![l] = [@ EXCEPT !.pc = "saving"]]
    /\ UNCHANGED <<up, disk, clock, memory, view, stage, next, priorDownloads, acked, counters>>

KeepRejectedFails(l) ==
    /\ up /\ loader[l].pc = "picked"
    /\ IF disk = loader[l].raw THEN Fault ELSE UNCHANGED faults
    /\ loader' = [loader EXCEPT ![l] = IdleLoader]
    /\ UNCHANGED <<up, files, memory, view, running, acked, sent>>

-----------------------------------------------------------------------------
\* The requests.  Each caller awaits loadData first, so a profile is cached.

Submit(c, t) ==
    /\ up /\ cachedData # Nothing
    /\ task[c] = NoTask /\ sent < MaxRequests
    /\ Enqueue(c, t)
    /\ sent' = sent + 1
    /\ UNCHANGED <<up, files, memory, loader, stage, next, priorDownloads, acked, faults>>

\* vast:storage:load: the renderer replaces its store with the cached profile.
Hydrate ==
    /\ up /\ cachedData # Nothing
    /\ view' = cachedData
    /\ UNCHANGED <<up, files, memory, loader, running, acked, counters>>

\* vast:storage:save and flush: the payload is the whole renderer store.
SaveRendererData(c) ==
    /\ view # Nothing
    /\ \E r \in Revs :
          /\ view' = [view EXCEPT !.rev = r]
          /\ Submit(c, [kind |-> "renderer", data |-> view'])

\* clearHistory, a remembered permission, a detached tab: the profile is derived from
\* a snapshot of the cached one, before the task is queued.
SaveSnapshot(c) ==
    /\ \E r \in Revs : Submit(c, [kind |-> "snapshot", data |-> [cachedData EXCEPT !.rev = r]])
    /\ UNCHANGED view

UpsertDownload(c) ==
    /\ \E d \in Downloads, s \in {"active", "done"} :
          /\ s = "active" => acked[d] = "none"
          /\ \A q \in Procs : task[q].kind = "upsert" => task[q].id # d
          /\ Submit(c, [kind |-> "upsert", id |-> d, state |-> s])
    /\ UNCHANGED view

ClearCompletedDownloads(c) ==
    /\ Submit(c, [kind |-> "clear"])
    /\ UNCHANGED view

CommitImportData(c) ==
    /\ \E o \in Ops, sel \in SUBSET Exts :
          Submit(c, [kind |-> "commit", op |-> o, selected |-> sel])
    /\ UNCHANGED view

\* The import coordinator records results only for the operation it finds committed.
RecordImportExtensionResult(c) ==
    /\ cachedData # Nothing
    /\ \E o \in Ops \intersect {cachedData.op}, e \in Exts, s \in {"failed", "final"} :
          Submit(c, [kind |-> "extension", op |-> o, ext |-> e, status |-> s])
    /\ UNCHANGED view

\* An exported profile: another content, nothing imported, its own download list.
ReplaceDataFromImport(c) ==
    /\ \E r \in Revs :
          Submit(c, [kind |-> "pre-import", data |-> [DefaultData EXCEPT !.rev = r]])
    /\ UNCHANGED view

RestoreStorageBackup(c) ==
    /\ \E b \in RecoverySources :
          Submit(c, [kind |-> "pre-restore", data |-> Migrated(b.body)])
    /\ UNCHANGED view

-----------------------------------------------------------------------------
\* The steps of the running task.

\* createStorageBackup("pre-import" or "pre-restore") before anything is computed.
CopyBeforeReplace(p) ==
    /\ Runs(p, "idle") /\ task[p].kind \in Replacing
    /\ CopyActive(task[p].kind)
    /\ Continue("copied")
    /\ UNCHANGED <<up, disk, memory, view, next, priorDownloads, acked, counters>>

CopyBeforeReplaceFails(p) ==
    /\ Runs(p, "idle") /\ task[p].kind \in Replacing
    /\ Fault /\ Settle(p)
    /\ UNCHANGED <<up, files, memory, view, acked, sent>>

\* Mutation of Ready: the replacement does not wait for the copy.
ReadyAtOnce(p) == Runs(p, "idle")

Ready(p) == Runs(p, IF task[p].kind \in Replacing THEN "copied" ELSE "idle")

Refuse(p) ==
    /\ Ready(p) /\ Refused(task[p], cachedData)
    /\ Settle(p)
    /\ UNCHANGED <<up, files, memory, view, acked, counters>>

AnswerFromReceipt(p) ==
    /\ Ready(p) /\ Answered(task[p], cachedData) /\ ~Refused(task[p], cachedData)
    /\ IF task[p].kind = "commit"
       THEN Continue("readback") /\ UNCHANGED <<next, priorDownloads>>
       ELSE Settle(p)
    /\ UNCHANGED <<up, files, memory, view, acked, counters>>

\* Mutation of Proceeds: the checks are logged and not enforced.
ProceedsUnchecked(p) == Ready(p)

Proceeds(p) == Ready(p) /\ Accepted(task[p], cachedData)
Result(p) == Written(task[p], cachedData, mainDownloads)

\* Clearing gives up what was acknowledged of the entries it finds completed.
AckedAtStart(t) ==
    IF t.kind = "clear"
    THEN [d \in Downloads |->
             IF OwnedDownloads(cachedData, mainDownloads)[d] = "done" THEN "none" ELSE acked[d]]
    ELSE acked
AckedAtEnd(t) == IF t.kind = "upsert" THEN [acked EXCEPT ![t.id] = t.state] ELSE acked

\* The commit and extension tasks read the file back before they resolve.
Finish(p) ==
    IF task[p].kind \in {"commit", "extension"}
    THEN Continue("readback") /\ next' = Nothing /\ priorDownloads' = Nothing
    ELSE Settle(p)

SkipUnchangedWrite(p) ==
    /\ Proceeds(p) /\ Result(p) = lastWritten
    /\ mainDownloads' = DownloadsAfter(task[p], cachedData, mainDownloads)
    /\ acked' = IF task[p].kind = "clear" THEN AckedAtStart(task[p]) ELSE AckedAtEnd(task[p])
    /\ recovered' = (recovered \/ task[p].kind = "recovery")
    /\ Finish(p)
    /\ UNCHANGED <<up, files, cachedData, lastWritten, view, counters>>

WriteTemp(p) ==
    /\ Proceeds(p) /\ Result(p) # lastWritten
    /\ next' = Result(p)
    /\ mainDownloads' = DownloadsAfter(task[p], cachedData, mainDownloads)
    /\ priorDownloads' = mainDownloads
    /\ acked' = AckedAtStart(task[p])
    /\ Continue("temp")
    /\ UNCHANGED <<up, files, cachedData, lastWritten, recovered, view, counters>>

\* A rolling backup, when a minute has passed; its failure is only logged.
RollingBackup(p) ==
    /\ Runs(p, "temp")
    /\ \/ clock < MaxClock /\ CopyActive("rolling")
       \/ UNCHANGED <<backups, clock>>
    /\ Continue("rename")
    /\ UNCHANGED <<up, disk, memory, view, next, priorDownloads, acked, counters>>

Rename(p) ==
    /\ Runs(p, "rename")
    /\ disk' = next
    /\ acked' = IF task[p].kind \in Replacing THEN NoDownloads ELSE acked
    /\ Continue("renamed")
    /\ UNCHANGED <<up, backups, clock, memory, view, next, priorDownloads, counters>>

\* Mutation of WriteFails: the failed profile is cached.
CacheFailedWrite(p) ==
    /\ Runs(p, "temp") \/ Runs(p, "rename")
    /\ mainDownloads' = IF task[p].kind \in Replacing THEN priorDownloads ELSE mainDownloads
    /\ cachedData' = next
    /\ Fault /\ Settle(p)
    /\ UNCHANGED <<up, files, lastWritten, recovered, view, acked, sent>>

\* The temporary file cannot be written, or the fifth rename attempt fails.
WriteFails(p) ==
    /\ Runs(p, "temp") \/ Runs(p, "rename")
    /\ mainDownloads' = IF task[p].kind \in Replacing THEN priorDownloads ELSE mainDownloads
    /\ Fault /\ Settle(p)
    /\ UNCHANGED <<up, files, cachedData, lastWritten, recovered, view, acked, sent>>

RecordWrite(p) ==
    /\ Runs(p, "renamed")
    /\ cachedData' = next /\ lastWritten' = next
    /\ acked' = AckedAtEnd(task[p])
    /\ recovered' = (recovered \/ task[p].kind = "recovery")
    /\ Finish(p)
    /\ UNCHANGED <<up, files, mainDownloads, view, counters>>

\* The caller learns of success or of a readback error; nothing else changes.
ReadBack(p) ==
    /\ Runs(p, "readback")
    /\ Settle(p)
    /\ UNCHANGED <<up, files, memory, view, acked, counters>>

-----------------------------------------------------------------------------
\* The process and its environment.

Boot ==
    /\ ~up /\ up' = TRUE
    /\ UNCHANGED <<files, memory, loader, view, running, acked, counters>>

Crash ==
    /\ up /\ up' = FALSE /\ Fault
    /\ cachedData' = Nothing /\ lastWritten' = Nothing
    /\ mainDownloads' = Nothing /\ recovered' = FALSE
    /\ loader' = [l \in Loaders |-> IdleLoader]
    /\ view' = Nothing
    /\ queue' = <<>> /\ task' = [p \in Procs |-> NoTask]
    /\ stage' = "idle" /\ next' = Nothing /\ priorDownloads' = Nothing
    /\ UNCHANGED <<files, acked, sent>>

\* Outside damage to the active file while Vast is not running.
Damage ==
    /\ ~up /\ disk \in Profile /\ Fault
    /\ disk' \in Damaged
    /\ acked' = NoDownloads
    /\ UNCHANGED <<up, backups, clock, memory, loader, view, running, sent>>

Load(l) ==
    \/ LoadRead(l) \/ LoadParsed(l) \/ LoadMissing(l)
    \/ PickRecovery(l) \/ KeepRejected(l) \/ KeepRejectedFails(l)

Request(c) ==
    \/ SaveRendererData(c) \/ SaveSnapshot(c) \/ UpsertDownload(c)
    \/ ClearCompletedDownloads(c) \/ CommitImportData(c) \/ RecordImportExtensionResult(c)
    \/ ReplaceDataFromImport(c) \/ RestoreStorageBackup(c)

Step(p) ==
    \/ CopyBeforeReplace(p) \/ Refuse(p) \/ AnswerFromReceipt(p) \/ SkipUnchangedWrite(p)
    \/ WriteTemp(p) \/ RollingBackup(p) \/ Rename(p) \/ RecordWrite(p) \/ ReadBack(p)

StepFails(p) == CopyBeforeReplaceFails(p) \/ WriteFails(p)

Next ==
    \/ \E l \in Loaders : Load(l)
    \/ \E c \in Clients : Request(c)
    \/ \E p \in Procs : Step(p) \/ StepFails(p)
    \/ Hydrate \/ BackUpManually \/ Boot \/ Crash \/ Damage

Spec == Init /\ [][Next]_vars

\* Awaited promises and I/O settle; nobody has to submit a request or restart Vast.
Fairness ==
    /\ \A l \in Loaders : WF_vars(Load(l))
    /\ \A p \in Procs : WF_vars(Step(p))

FairSpec == Spec /\ Fairness

-----------------------------------------------------------------------------
\* Properties.

\* Type correctness: every variable of the store keeps its shape.
TypeOK ==
    /\ up \in BOOLEAN
    /\ disk \in FileContents
    /\ backups \subseteq Backup
    /\ clock \in Nat
    /\ cachedData \in Profile \union {Nothing}
    /\ lastWritten \in Profile \union {Nothing}
    /\ mainDownloads \in DownloadList \union {Nothing}
    /\ recovered \in BOOLEAN
    /\ loader \in [Loaders -> Loading]
    /\ view \in Profile \union {Nothing}
    /\ queue \in Seq(Procs)
    /\ task \in [Procs -> Tasks]
    /\ stage \in Stages
    /\ next \in Profile \union {Nothing}
    /\ priorDownloads \in DownloadList \union {Nothing}
    /\ acked \in DownloadList
    /\ sent \in Nat
    /\ faults \in Nat

\* Memory agrees with the active file, except between the rename and the assignment
\* after it: what memory calls written is in the file, and the cached profile is what a
\* restart would load.  writeData relies on both: it skips a write equal to lastWritten,
\* and every mutation is derived from cachedData.
CacheIsDurable ==
    /\ lastWritten # Nothing => cachedData = lastWritten
    /\ cachedData # Nothing /\ stage # "renamed" =>
          /\ disk \notin Damaged
          /\ cachedData = Loaded(disk)
          /\ lastWritten # Nothing => disk = lastWritten

\* A download state whose upsert was reported durable is never taken back by a renderer
\* save, a snapshot save, a failed replacement, a crash or a restart: the file holds that
\* state or a later one until the list is cleared, replaced or the file is damaged.
Rank(s) == CASE s = "none" -> 0 [] s = "active" -> 1 [] s = "done" -> 2
DownloadsKept ==
    disk \in Profile => \A d \in Downloads : Rank(acked[d]) <= Rank(disk.dl[d])

\* The import generation fences stale writers: while the generation in the file stays,
\* so do the committed import and the data it merged, and a write advances it by one at most.
Fenced(old, new) ==
    \/ new.gen = old.gen + 1
    \/ new.gen = old.gen /\ new.op = old.op /\ old.imports \subseteq new.imports
ImportFence ==
    [][{disk, disk'} \subseteq Profile => Fenced(disk, disk')]_vars

\* A renderer save never changes the import state in the file, however old the payload.
Running(kind) == queue # <<>> /\ task[Head(queue)].kind = kind
RendererKeepsImportState ==
    [][disk' # disk /\ {disk, disk'} \subseteq Profile /\ Running("renderer") =>
          ImportState(disk') = ImportState(disk)]_vars

\* Rejected bytes are overwritten only when a verified copy of them is kept.
RejectedBytesKept ==
    [][up /\ disk \in Damaged /\ disk' # disk =>
          \E b \in backups : b.kind = "invalid" /\ b.body = disk]_vars

\* The profile an import or a restore replaces can be found among the backups.
ReplacedProfileKept ==
    [][\A k \in Replacing : up /\ disk' # disk /\ disk # Absent /\ Running(k) =>
          \E b \in backups : b.kind = k /\ b.body = disk]_vars

\* A committed import stays in the file, whoever writes with an older profile in hand.
ImportStands == ImportFence /\ RendererKeepsImportState

\* What a recovery, an import or a restore overwrites can be found among the backups.
OverwrittenIsKept == ReplacedProfileKept /\ RejectedBytesKept

\* The staged, cached and queued store implements the atomic one: a mutation takes effect
\* at the rename, and a task past it has nothing left to ask.
Atomic == INSTANCE AtomicStore WITH
    file <- disk,
    owned <- IF stage \in {"temp", "rename"} THEN priorDownloads ELSE mainDownloads,
    asked <- [c \in Clients |->
                IF stage \in {"renamed", "readback"} /\ Head(queue) = c THEN NoTask ELSE task[c]]
ImplementsAtomicStore == Atomic!Spec

\* Every queued mutation settles, after whatever failures before it.
RequestsSettle == \A p \in Procs : task[p] # NoTask ~> task[p] = NoTask

\* docs/STORAGE_RECOVERY.md: when the active file is rejected, "the storage module
\* automatically restores the newest valid backup".
DamagedFileIsRestored ==
    up /\ disk \in Damaged /\ RecoverySources # {} ~> ~up \/ disk \in Profile

\* serialized-task-queue.ts: "Every durable mutation is executed and awaited individually;
\* none is dropped."  An extension result recorded as final stays so in the file until
\* another import or a replacement moves the generation.
Final(p) == {e \in Exts : p.receipts[e] = "final"}
RecordedResultsStay ==
    [][{disk, disk'} \subseteq Profile /\ disk'.gen = disk.gen => Final(disk) \subseteq Final(disk')]_vars

=============================================================================
