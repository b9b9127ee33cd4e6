# Vast Browser: verification project

Vast Browser is an Electron application: a main process in TypeScript (`src/main`), a React renderer
(`src/renderer`), services in Cloudflare Workers (`relay`, `extensions-hub`) and a media server in Python
(`resources/avidae`). This directory holds TLA+ models of the parts that keep state across awaits,
failures and restarts, TLC configurations that check them on small instances, and TLAPS proofs for every
value of their constants. `PROJECT.json` maps each definition to the source lines it stands for, and lists
the runs, the mutants that show each property can fail, the hazards and the theorems.

Paths below are relative to the repository.

## 1. Inventory

| Component | State it keeps | Operations | What is hard | What makes it correct |
|---|---|---|---|---|
| **Durable profile store** `src/main/storage.ts`, `serialized-task-queue.ts` | `vast-data.json`, its backups, the cached profile, the download list of the main process | load, renderer save, whole-profile saves, download upserts, import commit, extension results, replace and restore | awaits between read and rename, several callers, a crash anywhere, a damaged file, saves computed from an old profile | a write is atomic and durable before memory shows it; committed imports and acknowledged downloads survive; damaged bytes are kept; every request settles |
| **Relay client** `src/main/relay/*`, `atomic-file.ts` | dismissals in `vast-relay-state.json`, the queue of presentations, one timer, image loads | start, check-in, retry, publish, dismiss, stop | late answers and images, two writes of a file, stop during an await | dismissals last, the first card is shown, a running client always has a next attempt |
| **Shutdown** `windows/WindowCloseCoordinator.ts`, `before-quit` in `main.ts`, `onPrepareClose` in `App.tsx` | per window: request in flight, closing flag; the cleanup | close, flush, time out, retry, close without saving, quit | a renderer that hangs, late answers of old requests, a second close or quit, failing cleanup | a confirmed window has its state stored; a quit ends; the exit is marked clean |
| **Browser session** `renderer/store/browser-store.ts` | workspaces, tabs, groups, split view, recently closed tabs, snapshots, whether onboarding is completed | open, activate, move, close, reopen, split, workspace and snapshot operations, restart | many operations over references between the parts | references stay inside a workspace; the split view is a pair on screen; a restart returns the session |
| **Managed extensions** `extensions/extension-manager.ts`, `extension-managed-store.ts`, `extension-registry.ts` | release directories, `current`, `current.previous`, `state.json`, the registry, what is loaded | install, update, enable, disable, reload, remove, start | a transaction over several directories and files, any step of which fails or is cut off by a crash | releases in use keep their files; a crash undoes or completes an activation; what runs can be stopped |
| **Application update** `updater*.ts`, `resources/apply-update.ps1` | the staged record with its attempts, helper processes | check, stage, hand off at startup, apply now | two processes, a handshake with a timeout, a record rewritten by both | at most three automatic attempts, the browser comes back |
| **Startup health** `startup-health.ts`, `main.ts` | phase file, count of failed starts, recovery snapshot | begin, stable, clean exit, preserve | a crash before any of them, a late timer, a start that is handed to the updater | safe start after failed starts only |
| **External updater** `resources/updater/VastUpdater.ps1`, `tools/VastUpdaterBootstrapper` | runtime files, user data in two roots, backups, a version file, the uninstall entry | compare, back up, migrate, copy, record, roll back | any step fails or the power goes; the browser is started in between | success means every file is installed; a rollback that ends leaves what was found, and at most a new file that is locked; no user data is lost |
| **Downloads** `downloads.ts`, `scanner.ts`, the list in `App.tsx` | the process's map, the profile's list, the window's list, checkpoint timers | start, progress, end, scan, clear, recover the list; an import or restore replaces it | timers, scans that end after a clear, failed writes, a replaced list, a page that reloads between events | the lists agree once nothing waits, until an import replaces one; only an import takes the file back; a scan is reported |
| **Relay worker** `relay/src/admin`, `relay/src/public` | D1 rows of broadcasts, releases and assets, objects in R2 | create, edit, enable, delete, upload, delete an image; check in | requests that interleave at every await, two stores without a common transaction | no update is lost, nothing live is deleted, an image has its bytes |
| **Avidae media server** `resources/avidae` | jobs in a file and a row, cancellation flags, threads | create, schedule, run, cancel, delete, retry | threads and requests without locks, a restart | a job ends with a final status, is cancellable while it runs |
| **Avidae bridge** `avidae*.ts` | a supervised process | start, stop | the life of a process | one server at a time |
| **Browser import** `import/import-coordinator.ts`, `browser-import.ts` | the active preview, busy flags, the pending extension | prepare, commit, discard, approve or decline an extension | flags checked before and set after awaits | one import at a time; a receipt per extension that tells the truth |
| **Tab retention** `store/tab-lifecycle.ts`, `TabRetentionController.ts` | lifecycle of each tab, timers | sleep, discard, wake | memory pressure, visible tabs, playing media | what is on screen is never unloaded |
| **External navigation** `windows/ExternalNavigationRouter.ts` | a queue of at most 100 targets, recently accepted ones | accept, flush, deliver | windows not ready or destroyed | each accepted target opens once |
| **Session continuity, data directory** `session-continuity*.ts`, `data-path*.ts` | copied stores and a marker | migrate once | a crash in the middle of a copy | no store is overwritten or taken for complete when it is not |
| **Backup** `vast-backup.ts` | an encrypted archive | export, import | formats | goes through the durable store |
| **Sessions and permissions** `sessions.ts`, `permission-policy.ts` | request filters, remembered permissions | per request | policy tables | decisions per request; remembering is a save of the durable store |
| **Extension hub** `extensions-hub/src` | D1 rows of listing, releases and submissions, staged and published packages in R2 | create, upload, submit, review, yank, suspend, clean up | uploads and reviews that interleave at every await, requests that die half way, two stores | what is published was submitted, is there and only rises; no review stays open |
| **Interface, process bridge, tools** `renderer/components`, `ipc.ts`, `preload`, `network`, `notices*`, `pdf-resources.ts` | presentation | forwarding | little of their own | - |

How they interact: renderer stores save through IPC into the durable store, whose queue orders every
write; the close barrier waits for such a save before it destroys a window; the quit barrier runs after
the last window and writes the startup marker; import commits and download states are further callers of
the durable store; the extension manager and the Relay client keep files of their own through
`atomic-file.ts`; the updater and a new data directory end in `app.quit()` and so in the quit barrier. The
start counter runs before the update handoff, which may end the start; downloads write the profile's list
through the store's queue and tell the window by messages, and a window that loads takes its list from the
profile first. The Relay client shows what the Relay worker holds; the browser starts the media server and
its page talks to it by HTTP.

`PROJECT.json` lists every component with its status, and under "hazards" what is hard to test in the
code, with the properties that cover it or the reason why none does.

## 2. Modules

| Module | Models |
|---|---|
| `ProfileUpdates` | the profile and every mutation of it as functions: the pure part of `storage.ts` |
| `AtomicStore` | abstract specification: a file that changes by one requested mutation at a time, all or nothing, at most once |
| `DurableStore` | the store: loading, recovery, the FIFO queue, the stages of a write (temporary file, rolling backup, rename, memory), replacing writes with their read-back, crashes, failures, damage. Implements `AtomicStore` |
| `RelayClient` | timer, check-in, retries, image loads, dismissals through the queued state file, stop, restart |
| `Shutdown` | the renderer's flush, the close barrier per window with its dialog, and the quit barrier with its cleanup steps |
| `BrowserSession` | the zustand store's session part and its way through save, migration and hydration |
| `ManagedExtension` | one managed extension's activation transaction, its undoing, and what the next start makes of what it finds |
| `ExternalUpdater` | a run of the repair script over an old, mixed or current installation: comparison, backup of the data, migration, copy, version file, registry, rollback, with faults at each step |
| `UpdateHandoff` | an update from its download to the installed version: the browser's starts, the handshake with the helper, workers that outlive the browser, the record both rewrite, and the start counter beside it |
| `RelayWorker` | the requests of several administrators, await by await, against the rows, the assets and the image bytes |
| `AvidaeJobs` | the media server's jobs: the threads of each runner program, the scheduler, requests, the file and the row that both hold a job's status |
| `Downloads` | the life of a download, its writes in the queue, and the window that follows it by messages |
| `ExtensionHub` | the hub's Worker: the releases of one extension from upload to publication, await by await, and the scheduled clean up |
| `MC*` | values for TLC |
| `DurableStoreProofs` (the refinement among them), `RelayProofs` (client and worker), `WindowProofs` (`Shutdown` and `BrowserSession`), `ManagedExtensionProofs`, `UpdateProofs` (`UpdateHandoff` and `ExternalUpdater`), `AvidaeJobsProofs`, `DownloadsProofs`, `ExtensionHubProofs` | the theorems |

Correspondence. An action is one stretch of code between two awaits, or a whole synchronous handler. In
`DurableStore` a caller has at most one task in the queue (`task`, `queue`), the head task is at a `stage`
of `writeData`, `cachedData`, `lastWritten` and `mainDownloads` are the variables of the file of that
name, and `loader` holds the calls of `loadData` that overlap before anything is cached. In `RelayClient`
`attempt` is the check-in in flight with what it captured when it began, `operations` the queued calls of
`RelayStateStore`. In `Shutdown` `request`, `pending`, `asked`, `saving` and `replies` are the numbered flush
requests at the coordinator, under way, in the renderer and back. In `BrowserSession` the state is one
record and an operation a function of it, as in the store; a handler that calls several operations is
their composition. In `ManagedExtension` `op` is the one operation the manager's queue lets run and `step`
where it is; a directory holds the files of one version, whole, torn (with its manifest), bare, or absent.
In `ExternalUpdater` `run` is the script's local state at a step of `Invoke-VastUpdate`, one file or item
copied per action. In `UpdateHandoff` `app` is the browser process with what it read, `worker` each helper
with the record it read, `pending` the record on disk. In `RelayWorker` `req` holds an administrator's page and
the request it sent; each action is the code between two awaited calls, and a D1 batch is one action. In
`AvidaeJobs` a thread follows one of the paths its runner's code allows, written as a sequence of step names
(where an exception is passed over, `outer`, it goes on with one of `FallbackPaths`, `downloader.py:628-649`);
`update_job` is several actions, since it reads, truncates, writes and updates the row without a lock. In
`Downloads` `queue` is the queue of writes, `main` and `stored` the profile's list in memory and in the file,
`copies` what exports and backups hold of each download, from which `Replace` takes the list of an imported
profile (`ipc.ts:605`) or a restored backup, `channel` the messages on their way to the window. In `ExtensionHub` `req` is the request of a publisher or
reviewer at one of its awaits with what it read before; `release` and `submission` are rows, `staged` and
`packages` the two parts of the bucket; a version stands for its release, a staging key for the bytes.

Abstractions: contents of the profile are a revision plus what imports and downloads merge into it; a
version of an extension stands for its package; a URL is a page; a Relay presentation is its id and its
place in the order. Migration of old profiles is a change of schema. Validation of signatures and packages
decides only whether an operation happens. Ghost variables: `acked` (downloads acknowledged), `promised` and
`atLaunch` (dismissals confirmed), `due` (the state a window had when it was asked), `cut` (an uninstall
that left files behind), `tries`, `streak` and `lost` (attempts recorded for a version since the user
last retried it, starts that ended before they were stable, processes that ended by themselves), `edit` and `since` of a row (which change wrote it, and
which created it), `torn` (assets given up), `doubled` and `lost` of a job (two threads, a thread a restart took),
`dropped`, `cleared` and `forgotten` (downloads of which a failed clear or a replacement put something else in the
list than the process says, that a clear took for good, or that left the file while a page starts, after it read
the profile and before it asks for the list), `submitted`, `gone` and the packages in `torn` of the hub (what a publisher submitted,
what expired or was deleted because the answer of a committed batch was lost). None of them decides what an action does,
but for one bound: `AvidaeJobs` does not combine a second thread with a restart (`doubled` in `Restart`).

## 3. Runs

| Run | Instance | Shows |
|---|---|---|
| `durable_store` | two callers (symmetric), one loader, two requests, one fault, one import, one extension, one download; the first file absent, old, with an import, or damaged | `CacheIsDurable`, `DownloadsKept`, `ImportStands` (no renderer takes an import back, and none changes its state), `OverwrittenIsKept` (a profile that is replaced and damaged bytes are overwritten only when a copy is kept), that the store implements `AtomicStore`, and `RequestsSettle`: every request ends, whatever failed before it |
| `durable_store_recovery` | refuted | "a damaged file is restored from a backup": not when the backup's import generation is above zero |
| `relay_client` | three presentations, one with an image, two dismissals kept, one retry, two launches, one fault | `ShowsTheFirst`, `DismissalsLast` (promised ones stay in the file, those from before the launch are not shown), `TimerFits` (a stopped client is quiet, a running one has a next attempt, in one invariant) and `ChecksInAgain` |
| `shutdown` | two windows, one edit, close, quit, retry and fault | `FlushedStateKept`, `BarriersHold` (a closing window has its flush or dialog; the exit comes after the cleanup), `QuitEnds` |
| `browser_session` | four tabs, three workspaces, one closed tab and one snapshot kept, one address besides the onboarding page, onboarding pending or completed | `SessionIsConsistent` (types, split pair, groups and active tabs inside their workspace), `KeepsShowing`, `RestartKeepsSession` (tabs, workspace on screen and split come back; pages too, but for the tab that pending onboarding takes and those left on a completed one) |
| `managed_extension` | three versions, one release kept | `ReleasesKept`, `RunsCanBeStopped`, `CrashUndoesOrCompletes`, `ActiveNeverFalls` |
| `external_updater` | four files, two of them version files, one directory and one file of user data, three runs, two faults | `ReportedIsInstalled`, `LeftAsFound`, `UserDataIsSafe` (backed up before anything is touched, and never lost) |
| `update_handoff` | three versions (two updates), two workers, two automatic attempts, four starts by the user, three faults | `AttemptsAreBounded`, `SafeAfterCrashesOnly`, `BrowserComesBack` |
| `relay_worker` | two administrators (symmetric), a broadcast, a release, an image, three changes, one failed insertion | `ImagesAreKept`, `ChangesAreOfWhatWasSeen` (an edit builds on the contents its page showed, and nothing that is live is deleted) |
| `avidae_jobs` | two jobs (one scheduled by a request, the other perhaps its retry), two threads of a job, one client, every path of every runner and of the fallback, two requests, one restart | `IdleMeansSettled`, `FlagsFollowThreads`, `ScheduledJobsStart` |
| `downloads` | an ordinary and a private download, one progress event, one clear, one import or restore, two of failed writes, reloads and restarts | `ListsAgree`, `ScansGoOn`, `QuietScreenIsTrue`, `StoreNeverGoesBack` |
| `extension_hub` | two actors, two versions, two staged packages, two of failed calls, requests cut off and expirations | `ObjectsAreThere`, `StatusesAgree`, `OnlySubmittedIsPublished`, `VersionsOnlyRise`, `ReviewsEnd` |

Each passing run has, for each of its properties, a mutant of one definition that the property refutes
(`PROJECT.json`, "mutants"): the check of a transition left out, an answer taken from the wrong copy, a step
in the wrong order.

Why the bounds are enough. The races of the store need two callers and a loader, and one fault at any step
meets every stage. A first file that holds an import lets two requests meet the import's state, which
would otherwise take one request more; that a third request between two others changes nothing is shown by
the theorems, which cover every number of requests, and for three by `DurableStoreThree.cfg`
(`MCDurableStore`, safety only), which takes too long for the list of runs. The Relay client needs two waiting
store calls to overlap, a second launch to see what a file kept, and three presentations so that the one
after the dismissed one also has a successor. Two windows make "the last window" differ from "a window".
The session needs two tabs for a split, a third as follower, a fourth in another workspace; limits of one
make every list overflow at once. Tabs go to one address and may borrow the identity of the second workspace
(`Addresses`, `Lenders`): which page a tab shows decides only whether it is the onboarding page, and the theorems
hold for all of them. For an extension the second update meets what the first left: a release
to delete, a directory that stayed behind, a state file that names an older version. The repair script's
third run finds what a run cut short and a rollback cut short left. Of an update a second one supersedes
the first while a worker still waits, and two attempts make the limit be reached with two workers. Two
administrators are what a lost update takes; three changes create, edit and create again. A job can have two
threads only through the scheduler, which starts one that has not left the list yet; the jobs it starts
take the path of a conversion (`ScheduledPaths`), one job is scheduled (`Timed`), and the second job exists
only as a retry (`Overlap` FALSE), since two jobs share nothing but the count of running ones. A download
has one task in the queue for each of its steps, so the clear can come between any two; the theorems of
`DownloadsProofs` hold for every number of them. After an import the private download no longer starts (`Apart`,
the constraint of that run): no list names it. A cancelled transfer is one refused at its start (`Outcomes`). In the hub two actors are an approval against an upload, a decision or
a second approval; two versions make one overtake the other, and two packages let one version be uploaded
again. The timings that are assumed stand in the header of `UpdateHandoff`, and in `ExpireClaim` and
`ExpireStaged`: no request lives for an hour, no upload waits for days. Every bound is a CONSTANT of its module with the comment "bound"; the limits of the code
(backups, dismissals, closed tabs, snapshots, kept releases, attempts) are CONSTANTS too, and small.

Deadlock is not checked where a program may stop for good: when its bounds are used up (all modules that
count faults or requests) or when the process has exited (`Shutdown`). `browser_session` and
`managed_extension` check it.

Fairness. `DurableStore`: a loader that reads and the task at the head of the queue go on, as awaited file
operations do; crashes, faults and requests have none. `RelayClient`: an armed timer fires, a request ends
(it has a timeout), an image load ends. `Shutdown`: the flush timer fires, the user answers a modal dialog,
each cleanup step ends, as each is awaited with its errors caught; a hung renderer need never answer.
`UpdateHandoff`: a start that loads goes on, a handshake is answered or times out, a browser told to leave
leaves, a worker goes on. `AvidaeJobs`: a thread and a request go on, the scheduler's loop looks and starts
what it found. `ExtensionHub`: a request goes on until it is cut off, and the daily clean up gives back the
claims it left. The user, crashes and faults have none. Nothing else is assumed; the other modules state
safety only.

### Where the code disagrees with its documents

`durable_store_recovery` is the run that is refuted; its quote is in `PROJECT.json` under "findings". The
following are shown by further configurations, to be run by hand on the module named; each checks one
statement and TLC finds it violated.

| Configuration (module) | Statement | What the code does |
|---|---|---|
| `DurableStoreSnapshot.cfg` (`MCDurableStore`) | `RecordedResultsStay`; `tests/main/import-storage-commit.test.ts:96` "independent extension receipts are durable" | a save computed from a profile taken before a receipt was recorded (`sessions.ts:685`, `storage.ts:857`) takes the receipt back: the generation it is checked by did not change |
| `ShutdownSecondClose.cfg` (`MCShutdown`) | `SavedUnlessAbandoned`; `WindowCloseCoordinator.ts:11` "Main-owned close barrier that waits for renderer persistence completion" | a second close event, or the quit at the end of the cleanup, passes the barrier while the first flush is under way (line 23) |
| `ShutdownSiteData.cfg` (`MCShutdown`) | `SiteDataClearedOnExit`; `docs/BACKGROUND_UPDATES.md:19` "Clear-on-exit privacy preferences remain effective." | Close and update clears site data before the windows close; what their pages write afterwards stays |
| `BrowserSessionRestore.cfg` (`MCBrowserSession`) | `RestoreIsCaptured`; `SessionTimelinePage.tsx:100` "Auto-captures before workspace switches and restores" | the capture is of the workspace on screen, the tabs replaced are those of the snapshot's (`browser-store.ts:1238`) |
| `ManagedExtensionRollback.cfg` (`MCManagedExtension`) | `FailedUpdatesRollBack`; `docs/extensions/native-api-v1.md:55` "failed candidates roll back" | a failed rename makes the rollback delete the version it should return to (`extension-managed-store.ts:403`) |
| `ExternalUpdaterSecond.cfg` (`MCExternalUpdater`) | `SecondRunIsCurrent`; `tests/updater/vast-updater.test.ps1:240` "second update should detect current version" | the script replaces the bundle's `version.json` (`VastUpdater.ps1:1460`), so with a production bundle every later run repairs again |
| `RelayWorkerAssets.cfg` (`MCRelayWorker`) | `ReferencedAssetsKept`; `docs/VAST_RELAY.md:285` "Referenced assets cannot be deleted." | the bytes are deleted before the row (`assets.ts:154`): a broadcast created in between keeps the row and loses the image |
| `AvidaeJobsLimit.cfg` (`MCAvidaeJobs`) | `ConcurrencyIsLimited`; `config.py:75` "Max concurrent jobs" | the limit counts statuses that the table of active jobs never holds (`job_manager.py:106`): no job is refused |
| `ExtensionHubStale.cfg` (`MCExtensionHub`) | `PublishedAsStaged`; `extensions-hub/tests/hub.test.ts:372` "cannot re-upload a release after submission or replace its reviewed staging object" | the claim does not compare the staging key it read (`index.ts:659`): an approval that began before another reviewer asked for changes publishes the earlier package of the same release |
| `ExtensionHubSuspend.cfg` (`MCExtensionHub`) | `SuspensionStays`; `extensions-hub/README.md:68` "suspended listings, descriptors, packages, and media stop being publicly served" | an approval, also one under way, sets a suspended listing to published again (`index.ts:621`) |
| `ExtensionHubReject.cfg` (`MCExtensionHub`) | `RejectionsAreRecorded`; `extensions-hub/README.md:11` names "rejected" releases | the batch writes the submission's status as `reject` (`index.ts:671`), the schema allows only `rejected` (`0001_initial.sql:81`): every rejection fails and goes back to pending |

Seen while modelling, and reached in the models or plain from one function:

* *Store.* `loadData` is not single-flight (`storage.ts:666`); `OneLoader` is the assumption under which
  `CacheIsDurable` is proved.
* *Session.* Recently closed tabs of a deleted workspace stay and reopen into no workspace
  (`browser-store.ts:926`); deleting the workspace on screen moves to one that may show no tab (line 648); a
  page opened from a tab with a borrowed identity does not inherit it (`browser-tab-open.ts:43`).
* *Extensions.* After a crash between commit and activation the same package is refused as a different one
  (`extension-managed-store.ts:305`); `initialize` validates the runtime directory before `ensureCurrent`
  could rebuild it (`extension-manager.ts:199`).
* *Updates.* `version.json` is copied aside a second time after the bundle's replaced it
  (`VastUpdater.ps1:1454`), which is why `LeftAsFound` leaves that file out; a rollback swallows the error of
  a removal (line 1376) and ends with that new file in place, which `LeftAsFound` says by name (`stuck`); the path of the recovery snapshot
  is carried from start to start for ever (`startup-health.ts:87`).
* *Relay worker.* A change that meets another revision answers 409, but the audit rows of the same batch are
  committed (`broadcasts.ts:181`, `releases.ts:145`). Revisions count from 1 again when a record is deleted and
  created under the same name, so a page from before replaces the new one (`broadcasts.ts:144`);
  `ChangesAreOfWhatWasSeen` speaks of one life of a record. When the answer to an upload's insertion is
  lost, the clean up deletes the object of a row that exists.
* *Extension hub.* When the answer to the publishing batch is lost, the clean up deletes the package that was
  published (`index.ts:632`), and in the same way the staged package of an upload that was saved (line 523);
  `ObjectsAreThere` leaves both out. A request for changes sets a listing without a release to draft although
  another version of it may be pending (line 673).
* *Media server.* After a restart a job that ran says recording for ever and can be neither cancelled nor
  retried (`job_manager.py:117`). The file and the row may end with different final statuses, and a conversion
  cancelled while ffmpeg runs ends completed (line 165), where `resources/avidae/README.md:70` says that jobs can
  be cancelled at any point. Two writers may leave half a `metadata.json`, which makes the job impossible to
  delete. The scheduler may start a job twice, and start one after its cancellation. A retry keeps the moment
  the job was scheduled for and starts at once (`job_manager.py:195`), so the scheduler may start it once more.
* *Downloads.* A restart during a scan leaves an entry that says its scan is in progress and that nothing
  scans again. A clear during a scan takes the entry, and the scan's result brings it back
  (`downloads.ts:270`). A cancellation that is announced while a clear's write is under way leaves the screen
  but stays in the file; a clear whose write fails takes effect with the next write. The comment at
  `downloads.ts:240`, "Terminal transfer state is durable before hashing or scanning starts", does not hold
  when that write fails, which line 134 catches. An import of a profile, and a restored backup, put their list in
  place of the one the main process keeps (`storage.ts:893`, `914`), while its map and the windows keep theirs:
  an entry of this run may be missing or older in the file until it is written again, and a cleared one may be
  back. `ListsAgree` and `StoreNeverGoesBack` leave out just that. The window is told only that settings were
  saved (`ipc.ts:617`), which no listener takes up.
* *Import.* A discard made while `commit` awaits the profile does not stop the commit
  (`import-coordinator.ts:138`). *Migration.* A crash in the middle of the one-time copy leaves a partial store
  that the next start preserves (`session-continuity-files.ts:78`).

## 4. Proofs

All theorems hold for every value of the constants that their modules' assumptions admit.

* **Durable store.** `TypeCorrect` rests on `TypeInv`: `TypeOK` is not inductive, because a stage may read
  the profile to be written and a settled task frees its caller, so the queue must hold each pending caller
  once (`QueueOK`), a stage must belong to a running task (`StageOK`), and only a loader saves before
  anything is cached (`CallersOK`, `LoadersOK`). `CacheDurable`, `ImportIsFenced`, `RendererIsFenced` and their
  conjunction `ImportsStand` assume `OneLoader`, that calls of `loadData` do not overlap, which is what the code arranges by loading at
  startup before it opens a window. The fence rests on one fact about every profile in flight
  (`PayloadsOK`, `NextOK`): it was taken from the cached profile, so it has a lower generation or the same
  import.
  Under the same assumption:
  `StoreIsAtomic` shows the refinement of `AtomicStore`. Its invariant `AtomicInv` says that what is on its way
  to the file is the running task applied to the cached profile, and that the cached profile is what the file
  loads as (`WritingOK`, `PickedOK`); a loader's save runs before anything else is queued (`SavingOK`). The rename
  and a skipped write that changes nothing map to `Apply`, refusals and failures to `Decline`, the rest stutters.
  `ReplacedIsKept` and `RejectedIsKept`, together `OverwrittenStays`, add that the copy a write waits for is still there at its rename: only
  rolling and manual backups are trimmed (`CopiesOK`). `DownloadsStay` needs all places an older list could come
  back from to know what was acknowledged: the file (`FileKeeps`), the main process's list (`OwnedKeeps`), the
  profile being written (`NextKeeps`), and the snapshots and upserts in the queue (`SnapshotsKeep`, `UpsertsKeep`).
* **Relay client.** `FirstCardIsShown`, `StoppedClientIsQuiet`, `NextAttemptComes`, `TimerIsRight` (both in one
  formula, as the run checks them), `DismissedBeforeLaunchIsHidden` and the types follow from `RelayInv`, which adds
  what the code captured at the beginning of an attempt and the shape of the queued store calls. That a
  first card exists uses that the naturals are well founded. `DismissalsStay` rests on `ReadsInv`: the queued calls
  of the store do not overlap, so the call that runs has read what the file holds, and what it writes back
  keeps the promised dismissals or, when it prunes, fills the file with newer ones. `DismissalsLastAlways` is
  both, as the run checks them.
* **Shutdown.** `ConfirmedWindowIsStored` rests on `Ordered`: flushes reach the main process in the order of
  their requests, with states that only grow, so an answer to the last request is about a state at least as
  new as the one it asked for. `ClosingFlagIsReset`, `ExitIsOrderly` and `BarriersAreKept`, which the run checks,
  come from the same invariant.
* **Browser session.** `SessionStaysConsistent`, `SomethingFollows` and `RestartsKeepTheSession` rest on `Whole`:
  what the run checks, with two facts that make it inductive. Whatever has an id got it before (`TabsOK`,
  `GroupsOK`, `SpacesOK`), so an `activeTabId` that names no tab cannot come to name the next one; and the pages of
  a snapshot can be counted (`Shots`), so restoring it takes that many ids. Each operation of the store has a
  lemma that it keeps `Whole` and what is shown; a handler composes them. A restart is proved in two halves:
  migration leaves all but the split view right (`Bare`), and `hydrate` repairs that (`PairOK`) after
  `applyOnboardingStart` changed at most the pages of some tabs; which ones `RestartsKeepTheSession` says: while
  onboarding is pending and no restored tab shows it, one, the active tab of the workspace on screen if that came
  back (`tests/renderer/onboarding-store.test.ts:46`), and once it is completed those still on its page. They hold for
  any number of tabs, workspaces, groups and pages and any limits of the lists; that a filtered list is no longer
  than the list is shown by looking at the shortest part of it that would be (`OfList`).
* **Relay worker.** `NoEditIsLost` and `LiveBroadcastsStay`, together `ChangesAreOfTheirRecord`, rest on `SightsAreBehind`: what a page or a request saw
  of a record in the same life of it is never ahead of the record, and at the same revision it is the same
  contents; so a conditional write that finds the revision finds what was seen. `ImagesKept` rests on who may
  own an object: of an image no deletion was begun for, the object belongs to its row, or else to the one
  upload that has put it.
* **Media server.** `FlagsAreThere`: a job with two threads is one the scheduler started again, and only the end
  of one of two threads takes the flag of another. It holds for any runner program. `JobsSettle`, for every
  program whose paths, the fallback's included, end as the code's do (`RunnersEnd`), says that a job nobody works on has ended in the file
  and in the row; it follows each thread and request from its read to its last write (`JobInv`): a thread in the
  middle of a path has a handler, and what the handler makes of it still ends in a final status.
* **Downloads.** `ListsAgreeAlways`, `ScansGoOnAlways` and `StoreNeverGoesBackAlways` follow the queue, one
  download at a time (`Good`). None of the three is inductive: that a finished write takes the right entry
  to the list needs that the last task of a download carries what the process says (`Agrees`); that the
  handler of the end goes on needs that its task is the last one and the only one that waits (`Waits`); and
  that the file never goes back needs an order of the entries along file, list and queue (`Ranked`), which
  holds because all entries of a running transfer rank alike and the timer stops at its end. An imported list
  may be any the file held before, so the same order is kept of all copies of it (`Copied`): no write that still
  waits is older than what an import may bring. What a clear took for good has nothing left that writes it
  (`Gone`), but for an import. `QuietScreenIsTrueAlways` follows a page from the file
  it reads to the list it asks for and the events it hears (`PageInv`): the last event of a download tells how it
  is, comes after every clear, and what was read from the file is still there or is `forgotten`. The attempt to prove it found a case the small
  instance did not reach, and the ghost variable `forgotten` was corrected.
* **Extension hub.** `StatusesAgreeAlways` needs that at most one request holds a claim (`Exclusive`) and that a
  request past its claim finds both rows under review (`Held`), for which the clean up must not take a claim
  from a living request. `VersionsOnlyRiseAlways` adds that the current release is published (`CurrentOK`).
  `OnlySubmittedAlways` and `ObjectsAreThereAlways` need that a staging key belongs to one version and, unless
  nothing can use it any more, is in its row or with one upload (`KeyInv`: `RowKeys`, `KeysOK`, `Apart`), so
  that what a request deletes is nobody else's.
* **Managed extensions.** `Transaction`, `ReleasesStay`, `WhatRunsStops`, `ActivationIsOneStep` and
  `ActiveOnlyRises` rest on `ExtensionInv`, which says for each step of an activation where the two directories of
  the swap are (`SwapOK`), that nothing runs between the swap and its record (`RunOK`), and that the version an
  operation activates is newer than what `state.json` lists (`ListOK`), so that what it deletes is no release in
  use, and that what it copies is whole (`CopyOK`).
* **Application update.** `AttemptsStayBounded` follows every copy of a record (`HandoffInv`): the one on disk,
  the one being written and the one each waiting worker holds have counted all attempts (`CountsAgree`), and a
  record of another version than the cached one hides none (`OtherCounts`). It holds for every finite set of
  workers. The attempt at the proof showed that the property failed with two versions and one attempt as long
  as it counted installations: it now counts recorded attempts. `SafeModeIsEarned` rests on `Streaks`: the start
  counter and the starts that ended too early agree in every phase.
* **External updater.** `ReportsAreTrue`, `RollbackIsWhole` and `UserDataStaysSafe` share `UpdaterInv`: what was set
  aside is what was found and what was not is untouched (`AsideOK`), the files up to the present one are the
  bundle's (`CopiedOK`), the critical items are in the backup before anything changes (`BackupOK`), and an item is
  replaced only if it was not the user's (`ReplaceOK`). `RollbackIsWhole` is exact about what stays: a file that
  was not there, whose removal failed, with the bytes of the bundle. They hold for every list of files and items and any
  number of faults and runs.

Only model-checked: liveness (`RequestsSettle`, `ChecksInAgain`, `QuitEnds`, `BrowserComesBack`,
`ScheduledJobsStart`, `ReviewsEnd`), which the prover does not reach. Every safety property of a run is
also a theorem, under the assumptions named above.

## 5. What would come next

The import coordinator between its awaits, composed with the commits that `ProfileUpdates` defines.

## 6. Not modelled

The repository has about 97 000 lines of implementation, most of it interface, request policies, vendored
filter scripts and tools; what is modelled is the part whose state survives an await, a failure or a
restart. Left out: protocol and file formats (packages, backups, signatures), per-request policies,
presentation, the extension runtime that Electron itself keeps, one-time migrations of earlier layouts, build
and release tooling, and the import coordinator, which stands under 5.

Of the modelled components: what `migrateData` sanitises beyond the schema; bookmarks, notes and settings in
the store of the renderer; the onboarding page's own calls of `hydrate` with what it just saved
(`OnboardingPage.tsx:221`), which no start precedes; unpacked and bundled extensions and installs from before the release
directories; the updater's schedule, channels and signatures; the checks of the repair bundle; check-ins,
analytics, the audit log and sessions of the Relay worker; the media work, extraction and browsing session of
the media server, whose loops pass once and whose creation of a job's folder is one step; of the extension hub sign-in, roles,
media and screenshots, reports, rate limits, the catalogue, the audit log and the signing service; of downloads the
limit of 200 entries, pausing, opening with its hash check, and a second window, to which a clear is not
announced. Windows receive the main process's messages in their order, and an answer to a request is
computed and sent in one step. A failed write of the extensions' registry, after which memory is ahead of
its file, counts as written.
