---------------------------- MODULE UpdateHandoff ----------------------------
(***************************************************************************)
(* How an installed browser updates itself on Windows: an update downloaded *)
(* by one run (updater.ts) is recorded (updater-pending.ts); the next run   *)
(* hands it to a helper before it loads anything (updater-startup.ts); the  *)
(* helper's worker (resources/apply-update.ps1) waits for that run to exit, *)
(* installs and starts the browser again.  Beside it the start counter of   *)
(* startup-health.ts, which a handed off start must not disturb.            *)
(*                                                                          *)
(* Actors: the user, one browser process (the single instance lock), up to  *)
(* two workers that outlive it, and the installer.  A browser or a worker   *)
(* may end at any step.                                                     *)
(*                                                                          *)
(* Times: the handshake may time out at any moment (8 s).  A worker gives   *)
(* up waiting (30 s) only for a browser that was not told to leave, since   *)
(* one that was exits after a single small write.  A browser looks for      *)
(* updates ten seconds after it is up, and by then the workers started      *)
(* before have read the record and those whose browser is gone have         *)
(* recorded their attempt (Settled).                                        *)
(***************************************************************************)
EXTENDS Naturals, FiniteSets

CONSTANTS
    Workers,      \* the workers there may be at once
    Latest,       \* bound: versions 1 .. Latest are released
    MaxAttempts,  \* automatic installations of one update (3)
    SafeAfter,    \* failed starts before a safe one (2)
    MaxStarts,    \* bound: starts by the user
    MaxFaults     \* bound: crashes, failed installations and killed workers

ASSUME HandoffAssumption ==
    /\ IsFiniteSet(Workers)
    /\ Latest \in Nat \ {0} /\ MaxAttempts \in Nat \ {0} /\ SafeAfter \in Nat
    /\ MaxStarts \in Nat /\ MaxFaults \in Nat

VARIABLES
    app,        \* the browser process
    health,     \* Startup Health/state.json
    installed,  \* the version on disk
    cached,     \* the version of the installer in the update cache, or 0
    pending,    \* the pending record, version 0 when there is none
    staging,    \* a pending record being written by the browser, or None
    worker,     \* each worker's step and the record it read
    tries,      \* history: attempts at each version recorded since a retry
    streak,     \* history: starts in a row that ended before they were stable
    lost,       \* history: a browser or a worker ended by itself
    starts, faults

onDisk == <<installed, cached, pending>>
past   == <<tries, streak, lost>>
vars   == <<app, health, installed, cached, pending, staging, worker, tries,
            streak, lost, starts, faults>>

Versions == 1 .. Latest
Records  == [version : 0 .. Latest, attempts : 0 .. MaxAttempts,
             automatic : BOOLEAN]
None     == [version |-> 0, attempts |-> 0, automatic |-> FALSE]

Phases == {"off", "booting", "handing", "leaving", "running", "stable"}
Off    == [phase |-> "off", boot |-> 0, version |-> 0, skip |-> FALSE,
           failed |-> 0, ready |-> 0, helper |-> {}]

WorkerSteps == {"none", "started", "waiting", "install", "relaunch", "left"}
NoWorker    == [step |-> "none", parent |-> 0, record |-> None]

Init ==
    /\ app = Off /\ health = [phase |-> "clean-exit", failed |-> 0]
    /\ installed = 1 /\ cached = 0 /\ pending = None /\ staging = None
    /\ worker = [w \in Workers |-> NoWorker]
    /\ tries = [v \in Versions |-> 0] /\ streak = 0 /\ lost = FALSE
    /\ starts = 0 /\ faults = 0

Fault == faults < MaxFaults /\ faults' = faults + 1

-----------------------------------------------------------------------------
(* Starts.                                                                  *)

\* StartupHealthTracker.begin: a start that finds the mark of another start
\* counts it as failed.
Failures == IF health.phase = "booting" THEN health.failed + 1 ELSE 0

\* The number of the new process: its process id.
NextBoot == IF \E w \in Workers : worker[w].step # "none"
            THEN 1 + CHOOSE b \in {worker[w].parent : w \in Workers} :
                        \A w \in Workers : worker[w].parent <= b
            ELSE 1

Boot(skip) ==
    /\ app' = [Off EXCEPT !.phase = "booting", !.boot = NextBoot,
                          !.version = installed, !.skip = skip,
                          !.failed = Failures]
    /\ health' = [phase |-> "booting", failed |-> Failures]

UserStarts ==
    /\ app.phase = "off" /\ starts < MaxStarts
    /\ starts' = starts + 1
    /\ Boot(FALSE)
    /\ UNCHANGED <<onDisk, staging, worker, past, faults>>

\* pendingStartupDecision: the record to hand over, or None.
Decision ==
    IF app.skip \/ ~pending.automatic \/ pending.attempts >= MaxAttempts
    THEN None ELSE pending

Obsolete == pending.version # 0 /\ pending.version <= app.version

\* No update to hand over: an installed one's record is removed.
Load ==
    /\ app.phase = "booting"
    /\ Obsolete \/ Decision = None
    /\ pending' = IF Obsolete THEN None ELSE pending
    /\ app' = [app EXCEPT !.phase = "running"]
    /\ UNCHANGED <<health, installed, cached, staging, worker, past, starts,
                   faults>>

\* applyPendingUpdateAtStartup starts the helper, and that a worker.
HandOver(w) ==
    /\ app.phase = "booting" /\ ~Obsolete /\ Decision # None
    /\ worker[w].step = "none"
    /\ worker' = [worker EXCEPT ![w] =
                     [step |-> "started", parent |-> app.boot, record |-> None]]
    /\ app' = [app EXCEPT !.phase = "handing", !.helper = {w}]
    /\ UNCHANGED <<health, onDisk, staging, past, starts, faults>>

\* VAST_UPDATE_READY arrives in time.
Acknowledged ==
    /\ app.phase = "handing"
    /\ \E w \in app.helper : worker[w].step = "waiting"
    /\ app' = [app EXCEPT !.phase = "leaving"]
    /\ UNCHANGED <<health, onDisk, staging, worker, past, starts, faults>>

\* The helper exits or eight seconds pass: it is killed, its worker is not.
HandshakeFails ==
    /\ app.phase = "handing"
    /\ app' = [app EXCEPT !.phase = "running"]
    /\ UNCHANGED <<health, onDisk, staging, worker, past, starts, faults>>

Stopped(phase, counted) ==
    /\ health' = [phase |-> phase, failed |-> 0]
    /\ streak' = counted
    /\ app' = Off

\* The mark is not written.
LeaveUnmarked ==
    /\ app.phase = "leaving"
    /\ app' = Off /\ streak' = 0
    /\ UNCHANGED <<health, onDisk, staging, worker, tries, lost, starts, faults>>

\* markCleanExit, then exit.
Leave ==
    /\ app.phase = "leaving"
    /\ Stopped("clean-exit", 0)
    /\ UNCHANGED <<onDisk, staging, worker, tries, lost, starts, faults>>

-----------------------------------------------------------------------------
(* The running browser.                                                     *)

Up == app.phase \in {"running", "stable"}
ParentGone(w) == app.phase = "off" \/ app.boot # worker[w].parent

\* The ten seconds before the first check.
Settled == \A w \in Workers :
    /\ worker[w].step # "started"
    /\ worker[w].step = "waiting" => ~ParentGone(w)

\* markStable, ten seconds after the page has loaded; the count is kept.
MarkStable ==
    /\ app.phase = "running"
    /\ app' = [app EXCEPT !.phase = "stable"]
    /\ health' = [health EXCEPT !.phase = "stable"]
    /\ streak' = 0
    /\ UNCHANGED <<onDisk, staging, worker, tries, lost, starts, faults>>

\* The same update starts again too.
StagedAfresh(v, automatic, reset) ==
    [version |-> v, automatic |-> automatic, attempts |-> 0]

\* stagePendingUpdate reads what is there: a retry of the user starts again,
\* the same update keeps its attempts.
Staged(v, automatic, reset) ==
    [version |-> v, automatic |-> automatic,
     attempts |-> IF ~reset /\ pending.version = v THEN pending.attempts ELSE 0]

\* update-downloaded: the cache holds the one installer; no check follows once
\* the state is ready.
Downloaded(v, automatic) ==
    /\ Up /\ Settled /\ app.ready = 0 /\ staging = None
    /\ v > app.version /\ v >= cached
    /\ cached' = v
    /\ staging' = Staged(v, automatic, FALSE)
    /\ UNCHANGED <<app, health, installed, pending, worker, past, starts, faults>>

\* The record is renamed into place.
StagingDone ==
    /\ Up /\ staging # None
    /\ pending' = staging /\ staging' = None
    /\ app' = [app EXCEPT !.ready = staging.version]
    /\ UNCHANGED <<health, installed, cached, worker, past, starts, faults>>

\* The user closes the browser.
Close ==
    /\ Up /\ Stopped("clean-exit", 0) /\ staging' = None
    /\ UNCHANGED <<onDisk, worker, tries, lost, starts, faults>>

\* applyUpdateNow: a record with no attempts, and then the normal close.
ApplyUpdateNow ==
    /\ Up /\ app.ready # 0 /\ staging = None
    /\ pending' = Staged(app.ready, TRUE, TRUE)
    /\ Stopped("clean-exit", 0)
    /\ tries' = [tries EXCEPT ![app.ready] = 0]
    /\ UNCHANGED <<installed, cached, staging, worker, lost, starts, faults>>

Crash ==
    /\ app.phase # "off" /\ Fault
    /\ streak' = IF app.phase = "stable" THEN 0 ELSE streak + 1
    /\ app' = Off /\ staging' = None /\ lost' = TRUE
    /\ UNCHANGED <<health, onDisk, worker, tries, starts>>

-----------------------------------------------------------------------------
(* The worker and the installer.                                            *)

LockFree == \A w \in Workers : worker[w].step \notin {"waiting", "install"}

\* The record is read under the lock, before the browser has gone.
Accept(w) ==
    /\ worker[w].step = "started" /\ LockFree
    /\ pending.version # 0 /\ pending.attempts < MaxAttempts
    /\ worker' = [worker EXCEPT ![w].step = "waiting", ![w].record = pending]
    /\ UNCHANGED <<app, health, onDisk, staging, past, starts, faults>>

\* The lock is taken, the record is gone or exhausted: exit code 1.
Refuse(w) ==
    /\ worker[w].step = "started"
    /\ ~(LockFree /\ pending.version # 0 /\ pending.attempts < MaxAttempts)
    /\ worker' = [worker EXCEPT ![w] = NoWorker]
    /\ UNCHANGED <<app, health, onDisk, staging, past, starts, faults>>

\* Thirty seconds pass and the browser is still there.
GiveUp(w) ==
    /\ worker[w].step = "waiting" /\ ~ParentGone(w)
    /\ ~(app.phase \in {"handing", "leaving"} /\ w \in app.helper)
    /\ worker' = [worker EXCEPT ![w] = NoWorker]
    /\ UNCHANGED <<app, health, onDisk, staging, past, starts, faults>>

\* The attempt is recorded, in the record as it was read, before it is made.
RecordAttempt(w) ==
    /\ worker[w].step = "waiting" /\ ParentGone(w)
    /\ LET record == [worker[w].record EXCEPT !.attempts = @ + 1]
       IN /\ pending' = record
          /\ worker' = [worker EXCEPT ![w].step = "install",
                                      ![w].record = record]
          /\ tries' = [tries EXCEPT ![record.version] = @ + 1]
    /\ UNCHANGED <<app, health, installed, cached, staging, streak, lost, starts,
                   faults>>

\* The installer defers while a browser runs, and may fail.
Install(w) ==
    /\ worker[w].step = "install"
    /\ \/ /\ app.phase = "off" /\ cached = worker[w].record.version
          /\ installed' = cached /\ UNCHANGED faults
       \/ /\ IF app.phase = "off" /\ cached = worker[w].record.version
             THEN Fault ELSE UNCHANGED faults
          /\ UNCHANGED installed
    /\ worker' = [worker EXCEPT ![w].step = "relaunch"]
    /\ UNCHANGED <<app, health, cached, pending, staging, past, starts>>

\* A worker that failed does not start the browser.
RelaunchUpdated(w) ==
    /\ worker[w].step = "relaunch"
    /\ worker' = [worker EXCEPT ![w] = NoWorker]
    /\ IF app.phase = "off" /\ installed = worker[w].record.version
       THEN Boot(TRUE) ELSE UNCHANGED <<app, health>>
    /\ UNCHANGED <<onDisk, staging, past, starts, faults>>

\* The browser is started with --vast-after-update; one that runs already keeps
\* the instance lock, and the new one quits.
Relaunch(w) ==
    /\ worker[w].step = "relaunch"
    /\ worker' = [worker EXCEPT ![w] = NoWorker]
    /\ IF app.phase = "off" THEN Boot(TRUE) ELSE UNCHANGED <<app, health>>
    /\ UNCHANGED <<onDisk, staging, past, starts, faults>>

\* The worker is ended from outside.
Killed(w) ==
    /\ worker[w].step # "none" /\ Fault
    /\ worker' = [worker EXCEPT ![w] = NoWorker] /\ lost' = TRUE
    /\ UNCHANGED <<app, health, onDisk, staging, tries, streak, starts>>

Work(w) ==
    Accept(w) \/ Refuse(w) \/ RecordAttempt(w) \/ Install(w) \/ Relaunch(w)

Next ==
    \/ UserStarts \/ Load \/ Acknowledged \/ HandshakeFails \/ Leave
    \/ MarkStable \/ StagingDone \/ Close \/ ApplyUpdateNow \/ Crash
    \/ \E v \in Versions, automatic \in BOOLEAN : Downloaded(v, automatic)
    \/ \E w \in Workers : HandOver(w) \/ Work(w) \/ GiveUp(w) \/ Killed(w)

\* Processes run and end their steps; nothing makes the user act, a transfer
\* end, a handshake fail or a process die.
Fairness ==
    /\ WF_vars(Load) /\ WF_vars(Leave) /\ WF_vars(Acknowledged \/ HandshakeFails)
    /\ \A w \in Workers : WF_vars(HandOver(w)) /\ WF_vars(Work(w))

Spec == Init /\ [][Next]_vars /\ Fairness

-----------------------------------------------------------------------------
(* Properties.                                                              *)

TypeOK ==
    /\ app \in [phase : Phases, boot : Nat, version : 0 .. Latest,
                skip : BOOLEAN, failed : 0 .. MaxFaults, ready : 0 .. Latest,
                helper : SUBSET Workers]
    /\ health \in [phase : {"booting", "stable", "clean-exit"},
                   failed : 0 .. MaxFaults]
    /\ installed \in Versions /\ cached \in 0 .. Latest
    /\ pending \in Records /\ staging \in Records
    /\ worker \in [Workers -> [step : WorkerSteps, parent : Nat, record : Records]]
    /\ starts \in 0 .. MaxStarts /\ faults \in 0 .. MaxFaults

\* An update that keeps failing is tried automatically three times and no more:
\* neither a later download of it, a worker that outlived its handshake nor two
\* workers at once start the count again; only the user's retry does
\* (docs/BACKGROUND_UPDATES.md: "attempts are bounded to three").
AttemptsAreBounded == TypeOK /\ \A v \in Versions : tries[v] <= MaxAttempts

\* The start counter counts crashes only: a start that handed over an update is
\* not a failed one, and every crash before a start was stable is counted.
SafeAfterCrashesOnly ==
    app.phase \in {"booting", "handing", "running"} =>
        (app.failed >= SafeAfter <=> streak >= SafeAfter)

\* A browser that exits for an update comes back and stays, whether the
\* installation succeeds or fails, as long as the installer ends and no process
\* is killed: the worker that told it to leave starts it again, and that start
\* hands over nothing.
BrowserComesBack == app.phase = "leaving" ~> (Up \/ lost)

=============================================================================
