------------------------------ MODULE Downloads ------------------------------
(***************************************************************************)
(* The life of a download (main/downloads.ts): its transfer, its security   *)
(* scan, and the three places that say how it stands.                       *)
(*                                                                          *)
(*   runtime     the main process's map of this run's downloads;            *)
(*   main        the list it keeps for the profile (storage.ts), which      *)
(*               every write of the profile contains, and stored, what the  *)
(*               file holds;                                                *)
(*   shown       the window's list (App.tsx, browser-store.ts).             *)
(*                                                                          *)
(* Writes run one at a time in a queue and may fail; the main process's     *)
(* messages reach the window in order; a page that reloads starts from the  *)
(* profile, subscribes and asks for the current list; the process may end   *)
(* at any step.  An import or a restored backup puts another list in place  *)
(* of the profile's, in a task of the queue, and tells the window nothing.  *)
(* A retry is the start of another download.  Left out: the limit of 200    *)
(* entries (fewer downloads than that), pausing, opening a file, a second   *)
(* window, the import of a full backup (Vast starts anew after it).  What a *)
(* write does to the file is in DurableStore.                               *)
(***************************************************************************)
EXTENDS Naturals, Sequences

CONSTANTS
    Ids,          \* downloads
    Private,      \* those of a session that is not persistent
    MaxUpdates,   \* bound: progress events
    MaxClears,    \* bound: requests to clear the finished downloads
    MaxReplaces,  \* bound: imports and restored backups that are written
    MaxFaults,    \* bound: failed writes, reloads and restarts
    Outcomes      \* bound: how a transfer may end

ASSUME DownloadsAssumption ==
    /\ Private \subseteq Ids
    /\ MaxUpdates \in Nat /\ MaxClears \in Nat /\ MaxReplaces \in Nat /\ MaxFaults \in Nat
    /\ Outcomes \subseteq {"scanning", "completed", "cancelled", "interrupted"}

VARIABLES
    phase,      \* the transfer, then the steps of the handler of its end
    runtime,    \* runtimeDownloads: an entry's state and scan status, or none
    armed,      \* durableCheckpointTimers
    queue,      \* the tasks of durableSaveQueue
    main,       \* mainDownloads
    stored,     \* the downloads in the profile's file
    copies,     \* what backups and exports of the file say of each, or nothing
    screen,     \* how far the page is
    startup,    \* the downloads of the profile the page starts from
    shown,      \* the store's downloads
    changed,    \* ids of the events since the page subscribed
    channel,    \* messages on their way to the window
    dropped,    \* history: entries a failed clear or a replacement changed
    cleared,    \* history: finished entries a clear took for good
    forgotten,  \* history: entries that left the file while the page starts
    updates, clears, replaces, faults

kept   == <<main, stored, copies>>
page   == <<screen, startup, shown, changed>>
past   == <<dropped, cleared, forgotten>>
counts == <<updates, clears, replaces, faults>>
vars   == <<phase, runtime, armed, queue, kept, page, channel, past, counts>>

-----------------------------------------------------------------------------
\* An entry: its state and, of a completed one with a path, the scan.
Finished == {"cancelled", "completed", "scanning", "scanned"}
Settled  == Finished \cup {"interrupted"}
Records  == Settled \cup {"progressing"}
Entries  == Records \cup {"none"}

Phases  == {"unused", "active", "saving", "scanning", "over"}
Screens == {"loading", "loaded", "recovering", "listed", "ready"}

\* A write of an entry; the end of a transfer awaits its own ("done").
Task(op, d, entry) == [op |-> op, id |-> d, entry |-> entry]
Upserts(d) == {Task(op, d, entry) : op \in {"upsert", "done"}, entry \in Records}
\* reply: the page that asked is still there.
Clear(reply) == [op |-> "clear", reply |-> reply]

Pending(d, tasks) == {i \in DOMAIN tasks : tasks[i] \in Upserts(d)}

Event(d, entry) == [kind |-> "event", id |-> d, entry |-> entry]
List(items)     == [kind |-> "list", items |-> items]
Cleared         == [kind |-> "cleared"]

Fault == faults < MaxFaults /\ faults' = faults + 1

Empty == [d \in Ids |-> "none"]

Init ==
    /\ phase = [d \in Ids |-> "unused"] /\ runtime = Empty
    /\ armed = [d \in Ids |-> FALSE] /\ queue = <<>>
    /\ main = Empty /\ stored = Empty /\ copies = [d \in Ids |-> {"none"}]
    /\ screen = "loading" /\ startup = Empty /\ shown = Empty
    /\ changed = {} /\ channel = <<>>
    /\ dropped = {} /\ cleared = {} /\ forgotten = {}
    /\ updates = 0 /\ clears = 0 /\ replaces = 0 /\ faults = 0

-----------------------------------------------------------------------------
(* The transfer.                                                            *)

\* publishDownload: the map, the window, and a write of a persistent entry.
Publish(d, entry, op) ==
    /\ runtime' = [runtime EXCEPT ![d] = entry]
    /\ channel' = Append(channel, Event(d, entry))
    /\ queue' = IF op = "none" \/ d \in Private THEN queue
                ELSE Append(queue, Task(op, d, entry))

Start(d) ==
    /\ phase[d] = "unused"
    /\ phase' = [phase EXCEPT ![d] = "active"]
    /\ Publish(d, "progressing", "upsert")
    /\ UNCHANGED <<armed, kept, page, past, counts>>

\* A dangerous download that the user declines.
Refuse(d) ==
    /\ phase[d] = "unused"
    /\ phase' = [phase EXCEPT ![d] = "over"]
    /\ Publish(d, "cancelled", "upsert")
    /\ UNCHANGED <<armed, kept, page, past, counts>>

\* Progress is written by the timer only, an interruption at once.
Updated(d, entry) ==
    /\ phase[d] = "active" /\ updates < MaxUpdates
    /\ updates' = updates + 1
    /\ Publish(d, entry, IF entry = "interrupted" THEN "upsert" ELSE "none")
    /\ armed' = [armed EXCEPT ![d] = d \notin Private]
    /\ UNCHANGED <<phase, kept, page, past, clears, replaces, faults>>

\* The timer writes the latest entry, if the transfer goes on.
Checkpoint(d) ==
    /\ armed[d]
    /\ armed' = [armed EXCEPT ![d] = FALSE]
    /\ queue' = IF runtime[d] = "progressing"
                THEN Append(queue, Task("upsert", d, runtime[d])) ELSE queue
    /\ UNCHANGED <<phase, runtime, kept, page, channel, past, counts>>

\* What the handler of the end does once the end is written.
AfterSave(entry) == IF entry = "scanning" THEN "scanning" ELSE "over"

Done(d, entry) ==
    /\ phase[d] = "active"
    /\ phase' = [phase EXCEPT ![d] = IF d \in Private THEN AfterSave(entry) ELSE "saving"]
    /\ armed' = [armed EXCEPT ![d] = FALSE]
    /\ Publish(d, entry, "done")
    /\ UNCHANGED <<kept, page, past, counts>>

\* The scan's result announced but not written.
ScanUnsaved(d) ==
    /\ phase[d] = "scanning"
    /\ phase' = [phase EXCEPT ![d] = "over"]
    /\ Publish(d, "scanned", "none")
    /\ UNCHANGED <<armed, kept, page, past, counts>>

\* The scan ends, with whatever result.
ScanEnds(d) ==
    /\ phase[d] = "scanning"
    /\ phase' = [phase EXCEPT ![d] = "over"]
    /\ Publish(d, "scanned", "upsert")
    /\ UNCHANGED <<armed, kept, page, past, counts>>

-----------------------------------------------------------------------------
(* The queue of writes.                                                     *)

Without(items) == [d \in Ids |-> IF items[d] \in Finished THEN "none" ELSE items[d]]

\* The list a task writes.
Listed(task) ==
    IF task.op = "clear" THEN Without(main) ELSE [main EXCEPT ![task.id] = task.entry]

\* A clear that takes the entries from the file's copy of the list only.
OwnedUnlessClear(task) == IF task.op = "clear" THEN main ELSE Listed(task)

\* mainDownloads, which is set before the write and stays when it fails.
Owned(task) == Listed(task)

\* A write that fails and takes the handler of the end along.
ResumedIfSaved(task, ok) ==
    IF task.op = "done"
    THEN [phase EXCEPT ![task.id] = IF ok THEN AfterSave(task.entry) ELSE "over"]
    ELSE phase

\* publishDownload catches a failed write: the handler goes on either way.
Resumed(task, ok) ==
    IF task.op = "done" THEN [phase EXCEPT ![task.id] = AfterSave(task.entry)] ELSE phase

\* Entries that nothing will write again.
Quiet == {d \in Ids : phase[d] = "over" /\ Pending(d, Tail(queue)) = {}}
Over  == {d \in Ids : main[d] \in Finished}

\* What a write takes from the file that the page that starts has read.
Lost(list) ==
    IF screen \in {"loaded", "recovering"}
    THEN {d \in Ids : stored[d] # "none" /\ list[d] = "none"} ELSE {}

\* A write of the profile's file, which a later backup or export may copy.
Stores(list) ==
    /\ stored' = list /\ forgotten' = forgotten \cup Lost(list)
    /\ copies' = [d \in Ids |-> copies[d] \cup {list[d]}]

\* The next task; clearCompletedDownloadHistory goes on, once the list is
\* written, to the map and to the page that asked.
RunTask(ok) ==
    LET task == Head(queue) IN
    /\ queue # <<>>
    /\ IF ok THEN UNCHANGED faults ELSE Fault
    /\ queue' = Tail(queue)
    /\ main' = Owned(task)
    /\ Stores(IF ok THEN Listed(task) ELSE stored)
    /\ phase' = Resumed(task, ok)
    /\ runtime' = IF task.op = "clear" /\ ok THEN Without(runtime) ELSE runtime
    /\ channel' = IF task.op = "clear" /\ ok /\ task.reply
                  THEN Append(channel, Cleared) ELSE channel
    /\ dropped' = IF task.op # "clear" THEN dropped \ {task.id}
                  ELSE IF ok THEN dropped ELSE dropped \cup Over
    /\ cleared' = IF task.op = "clear" /\ ok THEN cleared \cup (Over \cap Quiet) ELSE cleared
    /\ UNCHANGED <<armed, page, updates, clears, replaces>>

\* A write of the profile that keeps its downloads (the renderer's, an import's
\* from another browser) takes the main process's list along.
OtherWrite ==
    /\ Stores(main)
    /\ UNCHANGED <<phase, runtime, armed, queue, main, page, channel, dropped, cleared, counts>>

\* The downloads of an imported profile or of a backup: what copies of this
\* profile held, or nothing of a download they do not know.
Replacements == {items \in [Ids -> Entries] : \A d \in Ids : items[d] \in copies[d]}

\* An import of a profile, or a restored backup, where its task runs: the map
\* and the window keep what they say.
Replace(items) ==
    /\ replaces < MaxReplaces /\ replaces' = replaces + 1
    /\ main' = items /\ Stores(items)
    /\ dropped' = dropped \cup {d \in Ids : items[d] # main[d]}
    /\ cleared' = {d \in cleared : items[d] = "none"}
    /\ UNCHANGED <<phase, runtime, armed, queue, page, channel, updates, clears, faults>>

\* Its write fails, and the list of the main process is given back.
ReplaceFails ==
    /\ Fault
    /\ UNCHANGED <<phase, runtime, armed, queue, kept, page, channel, past,
                   updates, clears, replaces>>

-----------------------------------------------------------------------------
(* The window.                                                              *)

Screen(here, there) == screen = here /\ screen' = there

\* loadData for the page that starts.
AnswerLoad ==
    /\ Screen("loading", "loaded")
    /\ startup' = stored
    /\ UNCHANGED <<phase, runtime, armed, queue, kept, shown, changed, channel, past, counts>>

\* hydrate; the effect that waits for it subscribes and asks for the list.
Hydrate ==
    /\ Screen("loaded", "recovering")
    /\ shown' = startup /\ startup' = Empty
    /\ UNCHANGED <<phase, runtime, armed, queue, kept, changed, channel, past, counts>>

\* A transfer the file calls progressing was abandoned.
Abandoned(items) ==
    [d \in Ids |-> IF items[d] = "progressing" THEN "interrupted" ELSE items[d]]

\* The list of the profile, without what goes on.
StoredList == Abandoned(stored)

\* listCurrentDownloads: what goes on wins.
CurrentList == [d \in Ids |-> IF runtime[d] # "none" THEN runtime[d] ELSE Abandoned(stored)[d]]

AnswerList ==
    /\ Screen("recovering", "listed")
    /\ channel' = Append(channel, List(CurrentList))
    /\ UNCHANGED <<phase, runtime, armed, queue, kept, startup, shown, changed, past, counts>>

\* An entry that changed since the page subscribed is newer than the list.
Recovered(items) ==
    [d \in Ids |-> IF d \in changed \/ items[d] = "none" THEN shown[d] ELSE items[d]]

\* Before it is hydrated the page's list does not matter: hydrate replaces it.
Deliver ==
    LET message == Head(channel) IN
    /\ channel # <<>> /\ channel' = Tail(channel)
    /\ \/ /\ message.kind = "event"
          /\ shown' = IF screen \in {"loading", "loaded"} THEN shown
                      ELSE [shown EXCEPT ![message.id] = message.entry]
          /\ changed' = IF screen \in {"recovering", "listed"}
                        THEN changed \cup {message.id} ELSE changed
          /\ UNCHANGED screen
       \/ /\ message.kind = "list"
          /\ shown' = Recovered(message.items) /\ changed' = {}
          /\ Screen("listed", "ready")
       \/ /\ message.kind = "cleared"
          /\ shown' = Without(shown)
          /\ UNCHANGED <<changed, screen>>
    /\ UNCHANGED <<phase, runtime, armed, queue, kept, startup, past, counts>>

\* The downloads panel offers it when something is finished.  The request
\* comes after the page's request of the list.
AskClear ==
    /\ screen \in {"listed", "ready"} /\ clears < MaxClears
    /\ \E d \in Ids : shown[d] \in Finished
    /\ clears' = clears + 1
    /\ queue' = Append(queue, Clear(TRUE))
    /\ UNCHANGED <<phase, runtime, armed, kept, page, channel, past, updates, replaces, faults>>

NewPage ==
    /\ screen' = "loading" /\ startup' = Empty /\ shown' = Empty /\ changed' = {}
    /\ channel' = <<>> /\ forgotten' = {}

Reload ==
    /\ Fault
    /\ NewPage
    /\ queue' = [i \in DOMAIN queue |->
                   IF queue[i].op = "clear" THEN Clear(FALSE) ELSE queue[i]]
    /\ UNCHANGED <<phase, runtime, armed, kept, dropped, cleared, updates, clears, replaces>>

\* The browser ends at any step and starts again from the file.
Restart ==
    /\ Fault
    /\ phase' = [d \in Ids |-> IF phase[d] = "unused" THEN "unused" ELSE "over"]
    /\ runtime' = Empty /\ armed' = [d \in Ids |-> FALSE] /\ queue' = <<>>
    /\ main' = stored /\ dropped' = {}
    /\ NewPage
    /\ UNCHANGED <<stored, copies, cleared, updates, clears, replaces>>

Next ==
    \/ \E d \in Ids : Start(d) \/ Refuse(d) \/ Checkpoint(d) \/ ScanEnds(d)
    \/ \E d \in Ids, entry \in {"progressing", "interrupted"} : Updated(d, entry)
    \/ \E d \in Ids, entry \in Outcomes : Done(d, entry)
    \/ \E ok \in BOOLEAN : RunTask(ok)
    \/ OtherWrite
    \/ \E items \in Replacements : Replace(items)
    \/ ReplaceFails
    \/ AnswerLoad \/ Hydrate \/ AnswerList \/ Deliver \/ AskClear
    \/ Reload \/ Restart

Spec == Init /\ [][Next]_vars

-----------------------------------------------------------------------------
(* Properties.                                                              *)

Tasks    == [op : {"upsert", "done"}, id : Ids \ Private, entry : Records]
            \cup [op : {"clear"}, reply : BOOLEAN]
Messages == [kind : {"event"}, id : Ids, entry : Records]
            \cup [kind : {"list"}, items : [Ids -> Entries]] \cup [kind : {"cleared"}]

\* The variables have their types; what is private is in no list and no task.
TypeOK ==
    /\ phase \in [Ids -> Phases] /\ runtime \in [Ids -> Entries]
    /\ armed \in [Ids -> BOOLEAN] /\ queue \in Seq(Tasks)
    /\ main \in [Ids -> Entries] /\ stored \in [Ids -> Entries]
    /\ copies \in [Ids -> SUBSET Entries]
    /\ screen \in Screens /\ startup \in [Ids -> Entries] /\ shown \in [Ids -> Entries]
    /\ changed \subseteq Ids /\ channel \in Seq(Messages)
    /\ dropped \subseteq Ids /\ cleared \subseteq Ids /\ forgotten \subseteq Ids
    /\ updates \in Nat /\ clears \in Nat /\ replaces \in Nat /\ faults \in Nat

\* Once nothing about a download waits in the queue, the list the profile is
\* written from says of a transfer that stopped what the process says: no
\* order of progress, checkpoints, the end, the scan and clears leaves an older
\* entry behind.  (Two things do, until the entry is written again: a clear
\* whose write failed took it from the list; and an import or a restored backup
\* put another one there, which the process's map knows nothing of.)  Private
\* downloads are never in the list or the file (download-lifecycle.test.ts:
\* "private progress, completion and retry remain in memory only").
ListsAgree ==
    /\ \A d \in Ids \ (Private \cup dropped) :
         runtime[d] \in Settled /\ Pending(d, queue) = {} => main[d] = runtime[d]
    /\ \A d \in Private : main[d] = "none" /\ stored[d] = "none"

Rank(entry) == CASE entry = "scanned" -> 2
                 [] entry \in Finished \ {"scanned"} -> 1
                 [] OTHER -> 0

\* The file never goes back: a finished download does not become a running or
\* interrupted one, nor a scanned one unscanned, also over restarts and failed
\* writes; and what was cleared does not come back with a later write.  Only an
\* import or a restored backup that is written may do that: a task that waited
\* behind it does not, nor does a replacement whose write failed.
StoreNeverGoesBack ==
    [][\/ replaces' = replaces + 1
       \/ \A d \in Ids :
            /\ stored'[d] = "none" \/ Rank(stored'[d]) >= Rank(stored[d])
            /\ d \in cleared => stored'[d] = "none"]_vars

\* A page that has caught up shows every download of this run as it is, and
\* shows as running only what runs: neither a reload in the middle of events
\* nor a restart leaves a stale entry on the screen.  (Except for one that left
\* the file after the page had read it and before it asked for the list, by a
\* clear of the page before: that list does not name the entry.)
QuietScreenIsTrue ==
    screen = "ready" /\ channel = <<>> =>
      \A d \in Ids : /\ runtime[d] # "none" => shown[d] = runtime[d]
                     /\ shown[d] = "progressing" =>
                          phase[d] = "active" \/ d \in forgotten

\* A download that says its security scan is pending (it cannot be opened
\* before) has a handler that will report the result: one that scans, or one
\* whose write is still in the queue, whatever writes fail.
ScansGoOn ==
    \A d \in Ids : runtime[d] = "scanning" =>
      phase[d] = "scanning" \/ (phase[d] = "saving" /\ Pending(d, queue) # {})
=============================================================================
