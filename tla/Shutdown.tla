------------------------------ MODULE Shutdown ------------------------------
(***************************************************************************)
(* How Vast Browser closes.  Two barriers meet here.                        *)
(*                                                                          *)
(* The close barrier (src/main/windows/WindowCloseCoordinator.ts): a window *)
(* that is asked to close first asks its renderer to flush its state, and   *)
(* is destroyed when that very request is confirmed, or when the user       *)
(* chooses so in the dialog that follows a failure or a timeout.            *)
(*                                                                          *)
(* The quit barrier (before-quit in src/main/main.ts): the first app.quit() *)
(* is prevented, a cleanup runs once, and its end quits again.              *)
(*                                                                          *)
(* The renderer is the onPrepareClose handler and the autosave of           *)
(* src/renderer/app/App.tsx.  Its state is a version number; the flushes of *)
(* one renderer reach the main process in the order it sent them.           *)
(***************************************************************************)
EXTENDS Naturals, Sequences, FiniteSets

CONSTANTS
    Windows,        \* the browser windows
    ClearOnExit,    \* the setting "Clear cookies/site data on exit"
    Hydrated,       \* those whose renderer has loaded a state to save
    MaxEdits,       \* bound: changes of state in each renderer
    MaxCloses,      \* bound: how often the user closes some window
    MaxQuits,       \* bound: app.quit() from the updater or the data directory
    MaxRetries,     \* bound: "Retry save" answers
    MaxFaults       \* bound: failing saves and failing cleanup steps

ASSUME BoundsAssumption ==
    /\ IsFiniteSet(Windows) /\ Windows # {} /\ Hydrated \subseteq Windows
    /\ ClearOnExit \in BOOLEAN
    /\ {MaxEdits, MaxCloses, MaxQuits, MaxRetries, MaxFaults} \subseteq Nat

VARIABLES
    end,            \* [Windows -> "open" or the way the window ended]
    closing,        \* the windows whose closing flag is set
    request,        \* [Windows -> the number of the last flush request]
    pending,        \* [Windows -> the request the coordinator awaits, or None]
    dialog,         \* the windows showing "Vast could not finish saving"
    asked,          \* [Windows -> requests the renderer has not begun]
    saving,         \* [Windows -> flushes on their way to the store]
    replies,        \* [Windows -> close-ready messages on their way]
    version,        \* [Windows -> the state of the renderer]
    stored,         \* [Windows -> the last version the store took]
    due,            \* history: [Windows -> version at the last request]
    cancelled,      \* history: "Cancel close" answered a quit
    cleanup,        \* how far the quit barrier has come
    health,         \* the phase in the startup health file (the timer that
                    \* may turn "booting" into "stable" is left out)
    siteData,       \* cookies and site data of the pages
    running,        \* the process has not exited
    closes, quits, retries, faults   \* counters of the bounded events

barrierVars  == <<end, closing, request, pending, dialog, asked, due>>
rendererVars == <<saving, replies, version, stored>>
quitVars     == <<cleanup, running>>
counters     == <<closes, quits, retries, faults>>
vars == <<barrierVars, rendererVars, quitVars, counters,
          cancelled, health, siteData>>

\* How a window ends: destroyed after a confirmed flush, destroyed by the
\* user's choice, or closed by a close event that nobody prevented.
Ends == {"open", "flushed", "abandoned", "default"}

Phases == {"none", "avidae", "extensions", "settings", "clear",
           "checkpoint", "marker", "done"}

None == 0

RequestNumbers == 0 .. (MaxCloses + MaxQuits + MaxRetries + 1)
Versions       == 0 .. MaxEdits
Flushes        == [id : RequestNumbers, version : Versions]
Replies        == [id : RequestNumbers, ok : BOOLEAN]

TypeOK ==
    /\ end \in [Windows -> Ends]
    /\ closing \in SUBSET Windows /\ dialog \in SUBSET Windows
    /\ request \in [Windows -> RequestNumbers]
    /\ pending \in [Windows -> RequestNumbers]
    /\ asked \in [Windows -> SUBSET RequestNumbers]
    /\ saving \in [Windows -> Seq(Flushes)]
    /\ replies \in [Windows -> SUBSET Replies]
    /\ version \in [Windows -> Versions]
    /\ stored \in [Windows -> Versions]
    /\ due \in [Windows -> Versions]
    /\ cleanup \in Phases
    /\ health \in {"booting", "clean-exit"}
    /\ siteData \in {"none", "some"}
    /\ cancelled \in BOOLEAN  /\ running \in BOOLEAN
    /\ closes \in 0 .. MaxCloses /\ quits \in 0 .. MaxQuits
    /\ retries \in 0 .. MaxRetries /\ faults \in 0 .. MaxFaults

Open == {w \in Windows : end[w] = "open"}

Init ==
    /\ end = [w \in Windows |-> "open"]
    /\ closing = {} /\ dialog = {}
    /\ request = [w \in Windows |-> 0]
    /\ pending = [w \in Windows |-> None]
    /\ asked = [w \in Windows |-> {}]
    /\ saving = [w \in Windows |-> <<>>]
    /\ replies = [w \in Windows |-> {}]
    /\ version = [w \in Windows |-> 0]
    /\ stored = [w \in Windows |-> 0]
    /\ due = [w \in Windows |-> 0]
    /\ cancelled = FALSE /\ cleanup = "none"
    /\ health = "booting" /\ siteData = "some"
    /\ running = TRUE
    /\ closes = 0 /\ quits = 0 /\ retries = 0 /\ faults = 0

-----------------------------------------------------------------------------
(* The close barrier.                                                       *)

\* The windows gone end, and the "closed" listener drops what was pending for
\* them; the windows fresh are sent prepare-close, and their answer awaited.
Barrier(gone, how, fresh) ==
    /\ end' = [w \in Windows |-> IF w \in gone THEN how ELSE end[w]]
    /\ closing' = (closing \cup fresh) \ gone
    /\ dialog' = dialog \ (gone \cup fresh)
    /\ request' = [w \in Windows |->
                     IF w \in fresh THEN request[w] + 1 ELSE request[w]]
    /\ asked' = [w \in Windows |->
                     CASE w \in fresh -> asked[w] \cup {request[w] + 1}
                       [] w \in gone  -> {}
                       [] OTHER       -> asked[w]]
    /\ due' = [w \in Windows |-> IF w \in fresh THEN version[w] ELSE due[w]]
    /\ pending' = [w \in Windows |->
                     CASE w \in fresh -> request[w] + 1
                       [] w \in gone  -> None
                       [] OTHER       -> pending[w]]

\* A close event that finds the closing flag set is not prevented: that
\* window goes at once, and its renderer's pagehide handler sends a last
\* flush.  The other windows begin the barrier.
CloseEvent(ws) ==
    LET gone == ws \cap closing
    IN  /\ Barrier(gone, "default", ws \ closing)
        /\ saving' = [w \in Windows |->
                        IF w \in gone \cap Hydrated
                        THEN Append(saving[w],
                                    [id |-> None, version |-> version[w]])
                        ELSE saving[w]]

\* A flush that is not confirmed is put to the user.
AskUser(w) ==
    /\ pending' = [pending EXCEPT ![w] = None]
    /\ dialog' = dialog \cup {w}
    /\ UNCHANGED <<end, closing, request, asked, due>>

NotConfirmed(w) == AskUser(w)

\* resolve accepts the answer to the pending request only.  Mutant: whatever
\* request the answer names.
AnswersAny(w, r) == pending[w] # None

Answers(w, r) == pending[w] = r.id

-----------------------------------------------------------------------------
(* The quit barrier.                                                        *)

\* before-quit lets a quit reach the windows once the cleanup is complete.
QuitPasses == cleanup = "done"

StartCleanup == cleanup' = IF cleanup = "none" THEN "avidae" ELSE cleanup

\* app.quit() that passes asks the open windows to close, and the process
\* exits unless one of them prevents it.
CloseAllWindows ==
    /\ CloseEvent(Open)
    /\ running' = (Open \ closing # {})

\* The last window's "closed" listener and window-all-closed call app.quit().
QuitAfterLast(gone) ==
    IF Open \subseteq gone
    THEN StartCleanup /\ running' = ~QuitPasses
    ELSE UNCHANGED quitVars

-----------------------------------------------------------------------------
(* The user, the renderer and the pages.                                    *)

\* The user closes a window.
UserCloses(w) ==
    /\ running /\ end[w] = "open" /\ closes < MaxCloses
    /\ closes' = closes + 1
    /\ CloseEvent({w})
    /\ QuitAfterLast({w} \cap closing)
    /\ UNCHANGED <<replies, version, stored, quits, retries, faults,
                   cancelled, health, siteData>>

\* The renderer's state changes.
Edit(w) ==
    /\ running /\ end[w] = "open" /\ w \in Hydrated /\ version[w] < MaxEdits
    /\ version' = [version EXCEPT ![w] = @ + 1]
    /\ UNCHANGED <<barrierVars, saving, replies, stored, quitVars, counters,
                   cancelled, health, siteData>>

\* saveChainRef: at most one autosave of a renderer is on its way.
Autosaving(w) == \E i \in DOMAIN saving[w] : saving[w][i].id = None

Send(w, id) ==
    saving' = [saving EXCEPT ![w] =
                 Append(@, [id |-> id, version |-> version[w]])]

Reply(w, id, ok) ==
    replies' = [replies EXCEPT ![w] = @ \cup {[id |-> id, ok |-> ok]}]

\* flushPendingSave sends the state if it differs from the last one saved.
Autosave(w) ==
    /\ running /\ end[w] = "open"
    /\ ~Autosaving(w) /\ version[w] # stored[w]
    /\ Send(w, None)
    /\ UNCHANGED <<barrierVars, replies, version, stored, quitVars, counters,
                   cancelled, health, siteData>>

\* onPrepareClose: once the autosave is answered, the renderer flushes the
\* state it has then; with nothing to save it confirms at once.
BeginFlush(w) ==
    /\ running /\ end[w] = "open" /\ ~Autosaving(w)
    /\ \E id \in asked[w] :
         /\ asked' = [asked EXCEPT ![w] = @ \ {id}]
         /\ \/ /\ w \in Hydrated
               /\ Send(w, id) /\ UNCHANGED replies
            \/ /\ w \notin Hydrated
               /\ Reply(w, id, TRUE) /\ UNCHANGED saving
    /\ UNCHANGED <<end, closing, request, pending, dialog, due, version,
                   stored, quitVars, counters, cancelled, health, siteData>>

\* The main process takes the first flush of w, or fails to, and the
\* renderer answers with close-ready what it was told.
Answered(w, taken) ==
    /\ running /\ saving[w] # <<>>
    /\ saving' = [saving EXCEPT ![w] = Tail(@)]
    /\ IF Head(saving[w]).id = None \/ end[w] # "open"
       THEN UNCHANGED replies
       ELSE Reply(w, Head(saving[w]).id, taken)
    /\ UNCHANGED <<barrierVars, version, quitVars, closes, quits, retries,
                   cancelled, health, siteData>>

SaveTaken(w) ==
    /\ Answered(w, TRUE)
    /\ stored' = [stored EXCEPT ![w] = Head(saving[w]).version]
    /\ UNCHANGED faults

SaveFails(w) ==
    /\ faults < MaxFaults /\ faults' = faults + 1
    /\ Answered(w, FALSE)
    /\ UNCHANGED stored

\* close-ready arrives.  A confirmed flush destroys the window, and the last
\* window quits; an answer to another request changes nothing.
CloseReady(w) ==
    /\ running /\ end[w] = "open"
    /\ \E r \in replies[w] :
         /\ replies' = [replies EXCEPT ![w] = @ \ {r}]
         /\ \/ /\ Answers(w, r) /\ r.ok
               /\ Barrier({w}, "flushed", {})
               /\ QuitAfterLast({w})
            \/ /\ Answers(w, r) /\ ~r.ok
               /\ NotConfirmed(w) /\ UNCHANGED quitVars
            \/ /\ ~Answers(w, r)
               /\ UNCHANGED <<barrierVars, quitVars>>
    /\ UNCHANGED <<saving, version, stored, counters, cancelled, health,
                   siteData>>

\* Five seconds pass without an answer.
FlushTimeout(w) ==
    /\ running /\ pending[w] # None
    /\ NotConfirmed(w)
    /\ UNCHANGED <<rendererVars, quitVars, counters, cancelled, health,
                   siteData>>

\* The three answers of the dialog.
RetrySave(w) ==
    /\ running /\ w \in dialog /\ retries < MaxRetries
    /\ retries' = retries + 1
    /\ Barrier({}, "open", {w})
    /\ UNCHANGED <<rendererVars, quitVars, closes, quits, faults, cancelled,
                   health, siteData>>

CloseWithoutSaving(w) ==
    /\ running /\ w \in dialog
    /\ Barrier({w}, "abandoned", {})
    /\ QuitAfterLast({w})
    /\ UNCHANGED <<rendererVars, counters, cancelled, health, siteData>>

\* "Cancel close" resets the closing flag.  Mutant: it stays set.
FlagKept(w) == closing

FlagReset(w) == closing \ {w}

CancelClose(w) ==
    /\ running /\ w \in dialog
    /\ dialog' = dialog \ {w}
    /\ closing' = FlagReset(w)
    /\ cancelled' = (cancelled \/ QuitPasses)
    /\ UNCHANGED <<end, request, pending, asked, due, rendererVars, quitVars,
                   counters, health, siteData>>

\* A page writes cookies or other site data.
PageWrites ==
    /\ running /\ Open # {} /\ siteData = "none"
    /\ siteData' = "some"
    /\ UNCHANGED <<barrierVars, rendererVars, quitVars, counters, cancelled,
                   health>>

-----------------------------------------------------------------------------
(* Quitting.                                                                *)

\* "Close and update" or a new data directory calls app.quit().
AppQuit ==
    /\ running /\ Open # {} /\ quits < MaxQuits
    /\ quits' = quits + 1
    /\ \/ /\ QuitPasses
          /\ CloseAllWindows /\ UNCHANGED cleanup
       \/ /\ ~QuitPasses
          /\ StartCleanup
          /\ UNCHANGED <<barrierVars, saving, running>>
    /\ UNCHANGED <<replies, version, stored, closes, retries, faults,
                   cancelled, health, siteData>>

\* Where a cleanup step leads, and where it leads when it fails: a failing
\* stop of Video & Audio is ignored, unreadable settings preserve the
\* sessions, any other failure skips to the marker.
NextPhase ==
    [avidae     |-> "extensions",
     extensions |-> "settings",
     settings   |-> IF ClearOnExit THEN "clear" ELSE "checkpoint",
     clear      |-> "marker",
     checkpoint |-> "marker"]

PhaseAfterFailure ==
    [avidae     |-> "extensions",
     extensions |-> "marker",
     settings   |-> "checkpoint",
     clear      |-> "marker",
     checkpoint |-> "marker"]

CleanupStep ==
    /\ running /\ cleanup \in DOMAIN NextPhase
    /\ cleanup' = NextPhase[cleanup]
    /\ siteData' = IF cleanup = "clear" THEN "none" ELSE siteData
    /\ UNCHANGED <<barrierVars, rendererVars, running, counters,
                   cancelled, health>>

CleanupStepFails ==
    /\ running /\ cleanup \in DOMAIN PhaseAfterFailure
    /\ faults < MaxFaults /\ faults' = faults + 1
    /\ cleanup' = PhaseAfterFailure[cleanup]
    /\ UNCHANGED <<barrierVars, rendererVars, running, closes, quits,
                   retries, cancelled, health, siteData>>

\* The end of the cleanup, whatever failed: the clean-exit marker, then
\* app.quit() again, now let through.  Mutant: nobody quits
\* again.
NoQuitAgain == UNCHANGED <<barrierVars, saving, running>>

QuitAgain == CloseAllWindows

FinishCleanup ==
    /\ running /\ cleanup = "marker"
    /\ cleanup' = "done"
    /\ \/ health' = "clean-exit" /\ UNCHANGED faults
       \/ /\ faults < MaxFaults /\ faults' = faults + 1
          /\ UNCHANGED health
    /\ QuitAgain
    /\ UNCHANGED <<replies, version, stored, closes, quits, retries,
                   cancelled, siteData>>

Next ==
    \/ \E w \in Windows :
         \/ UserCloses(w) \/ Edit(w) \/ Autosave(w) \/ BeginFlush(w)
         \/ SaveTaken(w) \/ SaveFails(w) \/ CloseReady(w) \/ FlushTimeout(w)
         \/ RetrySave(w) \/ CloseWithoutSaving(w) \/ CancelClose(w)
    \/ PageWrites \/ AppQuit \/ CleanupStep \/ CleanupStepFails \/ FinishCleanup

Spec == Init /\ [][Next]_vars

\* Timers fire, the user answers a dialog in the end, and the steps of the
\* cleanup come to an end one way or the other.  Nothing is assumed of the
\* renderers, which may hang.
Fairness ==
    /\ \A w \in Windows :
         /\ WF_vars(FlushTimeout(w))
         /\ WF_vars(RetrySave(w) \/ CloseWithoutSaving(w) \/ CancelClose(w))
    /\ WF_vars(CleanupStep)
    /\ WF_vars(FinishCleanup)

FairSpec == Spec /\ Fairness

-----------------------------------------------------------------------------
(* Properties.                                                              *)

\* A window destroyed because its renderer confirmed had, at least, the state
\* of the last request in the store: the late answer of a request that timed
\* out never stands for the retry (WindowCloseCoordinator.resolve).
FlushedStateKept ==
    \A w \in Windows : end[w] = "flushed" => stored[w] >= due[w]

\* The closing flag of an open window means that something will end the
\* attempt: a request is awaited or the user is being asked.  A flag left
\* behind would let the next close event through unprevented.
ClosingIsBusy ==
    closing = {w \in Open : pending[w] # None \/ w \in dialog}

\* The process ends only after the windows, the whole cleanup and, when its
\* write worked, the clean-exit marker: an orderly exit never counts as a
\* failed startup (before-quit in main.ts).
ExitAfterCleanup ==
    ~running => /\ Open = {} /\ cleanup = "done"
                /\ faults = 0 => health # "booting"

\* Neither barrier is passed early: a window by a flag left behind, or the
\* process before its windows and its cleanup.
BarriersHold == ClosingIsBusy /\ ExitAfterCleanup

\* A quit that has begun ends with the exit, unless the user cancels it:
\* hanging renderers, failing saves and failing cleanup steps included.
QuitEnds == (cleanup # "none") ~> (~running \/ cancelled)

\* What a "close barrier that waits for renderer persistence completion" says:
\* after the exit, the state of every window asked to close is in the store,
\* unless the user chose to close it without saving.
SavedUnlessAbandoned ==
    ~running => \A w \in Windows :
                    end[w] # "abandoned" => stored[w] >= due[w]

\* What the setting says: no site data is left after the exit.
SiteDataClearedOnExit ==
    (~running /\ ClearOnExit /\ faults = 0) => siteData = "none"

=============================================================================
