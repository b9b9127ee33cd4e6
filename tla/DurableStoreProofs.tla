--------------------------- MODULE DurableStoreProofs ---------------------------
(***************************************************************************)
(* What the durable store does and keeps, for every set of loaders,        *)
(* requests, downloads and every bound.                                    *)
(*                                                                         *)
(* First what the mutations return, the types, and that memory agrees with *)
(* the active file once a write is over.                                   *)
(*                                                                         *)
(* Then that it implements AtomicStore.  The argument: between the first   *)
(* step of a task and its rename the cached profile is what the file loads *)
(* as, so the profile on its way to the file is the task applied to the    *)
(* file; a loader's save runs before anything else can be queued.  Each    *)
(* step of a task then maps to applying it (Rename, SkipUnchangedWrite),   *)
(* declining it, or a stutter.                                             *)
(*                                                                         *)
(* Last what is kept: the import state a stale writer would overwrite, the *)
(* profile a replacement replaces, the bytes loadData rejected, and the    *)
(* downloads reported durable.                                             *)
(***************************************************************************)
EXTENDS DurableStore, TLAPS

-----------------------------------------------------------------------------
\* What the mutations return.

\* A task of each kind carries what the definitions read from it.
LEMMA TaskShape ==
    ASSUME NEW t \in Tasks
    PROVE  /\ t.kind \in Saving \union Replacing => t.data \in Profile
           /\ t.kind = "upsert" => t.id \in Downloads /\ t.state \in DownloadStates
           /\ t.kind = "commit" => t.op \in Ops /\ t.selected \in SUBSET Exts
           /\ t.kind = "extension" => t.op \in Ops /\ t.ext \in Exts /\ t.status \in {"failed", "final"}
           /\ t.kind \in Saving \union Replacing
                          \union {"none", "clear", "upsert", "commit", "extension"}
<1>1. CASE t \in {NoTask, [kind |-> "clear"]}
  <2>1. t.kind \in {"none", "clear"}
    BY <1>1 DEF NoTask
  <2> QED BY <2>1 DEF Saving, Replacing
<1>2. CASE t \in [kind : Saving \union Replacing, data : Profile]
  BY <1>2 DEF Saving, Replacing
<1>3. CASE t \in [kind : {"upsert"}, id : Downloads, state : DownloadStates]
  BY <1>3 DEF Saving, Replacing
<1>4. CASE t \in [kind : {"commit"}, op : Ops, selected : SUBSET Exts]
  BY <1>4 DEF Saving, Replacing
<1>5. CASE t \in [kind : {"extension"}, op : Ops, ext : Exts, status : {"failed", "final"}]
  BY <1>5 DEF Saving, Replacing
<1> QED BY <1>1, <1>2, <1>3, <1>4, <1>5 DEF Tasks

\* The only task of kind "none" is NoTask.
LEMMA NoneIsNoTask == ASSUME NEW t \in Tasks, t.kind = "none" PROVE t = NoTask
<1>1. t \notin [kind : Saving \union Replacing, data : Profile]
  BY DEF Saving, Replacing
<1>2. t \in {NoTask, [kind |-> "clear"]}
  BY <1>1 DEF Tasks
<1> QED BY <1>2

\* The profile of a first start is a profile.
LEMMA DefaultIsProfile == DefaultData \in Profile
BY Distinct DEF DefaultData, Profile, NoReceipts, NoDownloads, DownloadList, DownloadStates, ReceiptStates

\* A migrated profile is a profile of the current schema.
LEMMA MigratedIsProfile == ASSUME NEW p \in Profile PROVE Migrated(p) \in Profile /\ Migrated(p).schema = "current"
BY DEF Migrated, Profile

\* What the main process holds of the downloads is a download list.
LEMMA OwnedIsList ==
    ASSUME NEW cur \in Profile, NEW owned \in DownloadList \union {Nothing}
    PROVE  OwnedDownloads(cur, owned) \in DownloadList
BY DEF OwnedDownloads, Profile

\* Every task leaves the main process with a download list.
LEMMA DownloadsAfterIsList ==
    ASSUME NEW t \in Tasks, NEW cur \in Profile, NEW owned \in DownloadList \union {Nothing}
    PROVE  DownloadsAfter(t, cur, owned) \in DownloadList \union {Nothing}
<1> DEFINE list == OwnedDownloads(cur, owned)
<1>1. list \in DownloadList
  BY OwnedIsList
<1>2. CASE t.kind = "renderer"
  BY <1>1, <1>2 DEF DownloadsAfter, Replacing
<1>3. CASE t.kind = "upsert"
  <2>1. [list EXCEPT ![t.id] = t.state] \in DownloadList
    BY <1>1, <1>3, TaskShape DEF DownloadList
  <2> QED BY <2>1, <1>3 DEF DownloadsAfter, Replacing
<1>4. CASE t.kind = "clear"
  <2>1. [d \in Downloads |-> IF list[d] = "done" THEN "none" ELSE list[d]] \in DownloadList
    BY <1>1 DEF DownloadList, DownloadStates
  <2> QED BY <2>1, <1>4 DEF DownloadsAfter, Replacing
<1>5. CASE t.kind \in Replacing
  BY <1>5, TaskShape DEF DownloadsAfter, Profile, Replacing
<1>6. CASE t.kind \notin {"renderer", "upsert", "clear"} \union Replacing
  BY <1>6 DEF DownloadsAfter
<1> QED BY <1>2, <1>3, <1>4, <1>5, <1>6

\* What a task asks to write is a profile.
LEMMA CandidateIsProfile ==
    ASSUME NEW t \in Tasks, NEW cur \in Profile
    PROVE  Candidate(t, cur) \in Profile
<1>1. CASE t.kind \in Saving
  BY <1>1, TaskShape DEF Candidate, Saving, Replacing
<1>2. CASE t.kind \in Replacing
  <2>1. t.data \in Profile
    BY <1>2, TaskShape
  <2>2. [t.data EXCEPT !.gen = cur.gen + 1, !.op = Nothing, !.pending = {},
                       !.receipts = NoReceipts] \in Profile
    <3>1. cur.gen + 1 \in Nat
      BY DEF Profile
    <3>2. NoReceipts \in [Exts -> ReceiptStates]
      BY DEF NoReceipts, ReceiptStates
    <3> QED BY <2>1, <3>1, <3>2 DEF Profile
  <2> QED BY <2>2, <1>2 DEF Candidate, Replacing, Saving
<1>3. CASE t.kind = "commit"
  <2>1. cur.imports \union {t.op} \in SUBSET Ops /\ t.op \in Ops /\ t.selected \in SUBSET Exts
    BY <1>3, TaskShape DEF Profile
  <2>2. cur.gen + 1 \in Nat
    BY DEF Profile
  <2>3. NoReceipts \in [Exts -> ReceiptStates]
    BY DEF NoReceipts, ReceiptStates
  <2>4. [cur EXCEPT !.imports = @ \union {t.op}, !.gen = @ + 1, !.op = t.op,
                    !.pending = t.selected, !.receipts = NoReceipts] \in Profile
    BY <2>1, <2>2, <2>3 DEF Profile
  <2> QED BY <2>4, <1>3 DEF Candidate, Saving, Replacing
<1>4. CASE t.kind = "extension"
  BY <1>4, TaskShape DEF Candidate, Profile, ReceiptStates, Saving, Replacing
<1>5. CASE t.kind \notin Saving \union Replacing \union {"commit", "extension"}
  BY <1>5 DEF Candidate
<1> QED BY <1>1, <1>2, <1>3, <1>4, <1>5

\* Putting the main process's downloads into a profile leaves a profile.
LEMMA MergedIsProfile ==
    ASSUME NEW p \in Profile, NEW owned \in DownloadList \union {Nothing}
    PROVE  Merged(p, owned) \in Profile /\ Merged(p, owned).schema = "current"
BY DEF Merged, Profile

\* Whatever the task, the profile it writes is one loadData accepts as current.
LEMMA WrittenIsProfile ==
    ASSUME NEW t \in Tasks, NEW cur \in Profile, NEW owned \in DownloadList \union {Nothing}
    PROVE  Written(t, cur, owned) \in Profile /\ Written(t, cur, owned).schema = "current"
<1>1. Candidate(t, cur) \in Profile
  BY CandidateIsProfile
<1>2. DownloadsAfter(t, cur, owned) \in DownloadList \union {Nothing}
  BY DownloadsAfterIsList
<1> QED BY <1>1, <1>2, MergedIsProfile DEF Written

-----------------------------------------------------------------------------
\* The inductive invariant behind type correctness.

\* The queue holds exactly once every task that has not settled.
QueueOK ==
    /\ \A i \in 1 .. Len(queue) : task[queue[i]] # NoTask
    /\ \A i, j \in 1 .. Len(queue) : queue[i] = queue[j] => i = j

\* A stage belongs to a running task, and the later ones to a profile about to be written.
StageOK ==
    /\ stage # "idle" => queue # <<>>
    /\ stage \in {"temp", "rename", "renamed"} => next \in Profile /\ next.schema = "current"

\* Only a loader saves before there is a cached profile.
CallersOK ==
    /\ cachedData = Nothing =>
          lastWritten = Nothing /\ mainDownloads = Nothing /\ \A c \in Clients : task[c] = NoTask
    /\ \A c \in Clients : task[c].kind \notin {"first save", "recovery"}
    /\ \A l \in Loaders : task[l].kind \in {"none", "first save", "recovery"}

\* A loader that is reading has queued nothing yet.
LoadersOK == \A l \in Loaders : task[l] # NoTask => loader[l].pc = "saving"

TypeInv == TypeOK /\ QueueOK /\ StageOK /\ CallersOK /\ LoadersOK

\* Submitting a task keeps the queue well formed and does not change which task runs.
LEMMA EnqueueKeeps ==
    ASSUME TypeInv, NEW p \in Procs, task[p] = NoTask,
           NEW t \in Tasks, t # NoTask, Enqueue(p, t)
    PROVE  /\ queue' \in Seq(Procs) /\ queue' # <<>> /\ task' \in [Procs -> Tasks] /\ QueueOK'
           /\ queue # <<>> => Head(queue') = Head(queue)
<1> USE DEF TypeInv, TypeOK, QueueOK, Enqueue
<1>1. queue' \in Seq(Procs) /\ queue' # <<>> /\ task' \in [Procs -> Tasks]
  OBVIOUS
<1>2. \A i \in 1 .. Len(queue) : queue[i] # p
  OBVIOUS
<1>3. Len(queue') = Len(queue) + 1 /\ queue'[Len(queue) + 1] = p
      /\ \A i \in 1 .. Len(queue) : queue'[i] = queue[i]
  OBVIOUS
<1>4. QueueOK'
  BY <1>1, <1>2, <1>3
<1> QED BY <1>1, <1>3, <1>4

\* Settling the running task takes it off the queue, and only it.
LEMMA SettleKeeps ==
    ASSUME TypeInv, NEW p \in Procs, queue # <<>>, Head(queue) = p, Settle(p)
    PROVE  /\ queue' \in Seq(Procs) /\ task' \in [Procs -> Tasks] /\ QueueOK'
           /\ loader' \in [Loaders -> Loading]
           /\ stage' = "idle" /\ next' = Nothing /\ priorDownloads' = Nothing
           /\ task' = [task EXCEPT ![p] = NoTask]
           /\ \A q \in Procs : task'[q] = NoTask \/ (q # p /\ task'[q] = task[q])
           /\ \A l \in Loaders : loader'[l] = IF l = p THEN IdleLoader ELSE loader[l]
<1> USE DEF TypeInv, TypeOK, QueueOK, Settle
<1>1. queue' \in Seq(Procs) /\ Len(queue') = Len(queue) - 1
      /\ \A i \in 1 .. Len(queue') : queue'[i] = queue[i + 1] /\ i + 1 \in 1 .. Len(queue)
  OBVIOUS
<1>2. NoTask \in Tasks
  BY DEF Tasks
<1>3. task' \in [Procs -> Tasks]
  BY <1>2
<1>4. 1 \in 1 .. Len(queue) /\ queue[1] = p
  OBVIOUS
<1>5. \A i \in 1 .. Len(queue') : queue'[i] # p
  BY <1>1, <1>4
<1>6. QueueOK'
  <2>1. ASSUME NEW i \in 1 .. Len(queue') PROVE task'[queue'[i]] # NoTask
    <3>1. queue'[i] \in Procs /\ queue'[i] # p
      BY <1>1, <1>5
    <3>2. task'[queue'[i]] = task[queue[i + 1]]
      BY <3>1, <1>1
    <3> QED BY <3>2, <1>1
  <2>2. ASSUME NEW i \in 1 .. Len(queue'), NEW j \in 1 .. Len(queue'), queue'[i] = queue'[j]
        PROVE  i = j
    <3>1. queue[i + 1] = queue[j + 1] /\ i + 1 \in 1 .. Len(queue) /\ j + 1 \in 1 .. Len(queue)
      BY <1>1, <2>2
    <3>2. i + 1 = j + 1
      BY <3>1
    <3> QED BY <3>2
  <2> QED BY <2>1, <2>2
<1>7. IdleLoader \in Loading
  BY DefaultIsProfile DEF IdleLoader, Loading, LoaderStates
<1>8. loader' \in [Loaders -> Loading] /\ \A l \in Loaders : loader'[l] = IF l = p THEN IdleLoader ELSE loader[l]
  BY <1>7
<1> QED BY <1>1, <1>3, <1>6, <1>8

\* While a stage is under way the running task is a real one.
LEMMA RunningTask ==
    ASSUME TypeInv, NEW p, NEW s, Runs(p, s)
    PROVE  /\ p \in Procs /\ queue # <<>> /\ Head(queue) = p /\ task[p] # NoTask /\ task[p] \in Tasks
           /\ p \in Clients => cachedData \in Profile
           /\ p \in Loaders => task[p].kind \in {"first save", "recovery"}
<1>1. p \in Procs /\ queue # <<>> /\ Head(queue) = p /\ 1 \in 1 .. Len(queue) /\ queue[1] = p
  BY DEF TypeInv, TypeOK, Runs
<1>2. task[p] # NoTask /\ task[p] \in Tasks
  BY <1>1 DEF TypeInv, TypeOK, QueueOK
<1>3. p \in Clients => cachedData \in Profile
  BY <1>2 DEF TypeInv, TypeOK, CallersOK
<1>4. p \in Loaders => task[p].kind \in {"first save", "recovery"}
  <2>1. task[p].kind # "none"
    BY <1>2, NoneIsNoTask
  <2> QED BY <2>1 DEF TypeInv, CallersOK
<1> QED BY <1>1, <1>2, <1>3, <1>4

\* Whatever runs, what it writes is a current profile and the list it takes over is one.
LEMMA ResultIsProfile ==
    ASSUME TypeInv, NEW p, NEW s, Runs(p, s)
    PROVE  /\ Result(p) \in Profile /\ Result(p).schema = "current"
           /\ DownloadsAfter(task[p], cachedData, mainDownloads) \in DownloadList \union {Nothing}
           /\ p \in Loaders => DownloadsAfter(task[p], cachedData, mainDownloads) = mainDownloads
           /\ AckedAtStart(task[p]) \in DownloadList /\ AckedAtEnd(task[p]) \in DownloadList
<1>1. /\ p \in Procs /\ task[p] \in Tasks
      /\ p \in Clients => cachedData \in Profile
      /\ p \in Loaders => task[p].kind \in {"first save", "recovery"}
  BY RunningTask
<1>2. mainDownloads \in DownloadList \union {Nothing} /\ acked \in DownloadList
  BY DEF TypeInv, TypeOK
<1>5. AckedAtStart(task[p]) \in DownloadList /\ AckedAtEnd(task[p]) \in DownloadList
  <2>1. task[p].kind = "upsert" => task[p].id \in Downloads /\ task[p].state \in DownloadStates
    BY <1>1, TaskShape
  <2> QED BY <2>1, <1>2 DEF AckedAtStart, AckedAtEnd, DownloadList, DownloadStates
<1>3. CASE p \in Clients
  <2>1. task[p] \in Tasks /\ cachedData \in Profile /\ p \notin Loaders
    BY <1>1, <1>3, Separate
  <2>2. Written(task[p], cachedData, mainDownloads) \in Profile
        /\ Written(task[p], cachedData, mainDownloads).schema = "current"
    BY <2>1, <1>2, WrittenIsProfile
  <2>3. DownloadsAfter(task[p], cachedData, mainDownloads) \in DownloadList \union {Nothing}
    BY <2>1, <1>2, DownloadsAfterIsList
  <2> QED BY <2>1, <2>2, <2>3, <1>5 DEF Result
<1>4. CASE p \in Loaders
  <2>1. task[p].kind \in Saving /\ task[p].kind \notin Replacing
        /\ task[p].kind \notin {"renderer", "upsert", "clear"}
    BY <1>1, <1>4 DEF Saving, Replacing
  <2>2. Candidate(task[p], cachedData) = task[p].data /\ task[p].data \in Profile
    BY <2>1, <1>1, TaskShape DEF Candidate, Saving, Replacing
  <2>3. DownloadsAfter(task[p], cachedData, mainDownloads) = mainDownloads
    BY <2>1 DEF DownloadsAfter
  <2>4. Result(p) = Merged(task[p].data, mainDownloads)
    BY <2>2, <2>3 DEF Result, Written
  <2> QED BY <2>2, <2>3, <2>4, <1>2, <1>5, MergedIsProfile
<1> QED BY <1>1, <1>3, <1>4, <1>5 DEF Procs

\* The first start satisfies the invariant.
LEMMA InitTypeInv == Init => TypeInv
<1> SUFFICES ASSUME Init PROVE TypeInv
  OBVIOUS
<1> USE DEF Init
<1>1. NoTask \in Tasks /\ NoTask.kind = "none"
  BY DEF Tasks, NoTask
<1>2. IdleLoader \in Loading
  BY DefaultIsProfile DEF IdleLoader, Loading, LoaderStates
<1>3. NoDownloads \in DownloadList
  BY DEF NoDownloads, DownloadList, DownloadStates
<1>4. TypeOK
  <2>1. disk \in FileContents /\ backups \subseteq Backup /\ queue \in Seq(Procs)
    BY Bounds
  <2>2. task \in [Procs -> Tasks] /\ loader \in [Loaders -> Loading] /\ acked \in DownloadList
    BY <1>1, <1>2, <1>3
  <2> QED BY <2>1, <2>2 DEF TypeOK, Stages
<1>5. QueueOK /\ StageOK /\ CallersOK /\ LoadersOK
  <2>1. \A p \in Procs : task[p] = NoTask
    OBVIOUS
  <2>2. Clients \subseteq Procs /\ Loaders \subseteq Procs
    BY DEF Procs
  <2>3. QueueOK /\ StageOK
    BY DEF QueueOK, StageOK
  <2>4. CallersOK /\ LoadersOK
    BY <1>1, <2>1, <2>2 DEF CallersOK, LoadersOK
  <2> QED BY <2>3, <2>4
<1> QED BY <1>4, <1>5 DEF TypeInv

-----------------------------------------------------------------------------
\* The step: what every settling, continuing or submitting action has in common first.

DataOK ==
    /\ up \in BOOLEAN /\ disk \in FileContents /\ backups \subseteq Backup /\ clock \in Nat
    /\ cachedData \in Profile \union {Nothing} /\ lastWritten \in Profile \union {Nothing}
    /\ mainDownloads \in DownloadList \union {Nothing} /\ recovered \in BOOLEAN
    /\ view \in Profile \union {Nothing} /\ acked \in DownloadList
    /\ sent \in Nat /\ faults \in Nat

\* The part of the invariant about data follows from it.
LEMMA TypeInvData == TypeInv => DataOK
BY DEF TypeInv, TypeOK, DataOK

\* Ending a task keeps the invariant, whatever it left in memory and on disk.
LEMMA SettleTypeInv ==
    ASSUME TypeInv, NEW p, NEW s, Runs(p, s), Settle(p), DataOK',
           cachedData' = Nothing =>
                cachedData = Nothing /\ lastWritten' = Nothing /\ mainDownloads' = Nothing
    PROVE  TypeInv'
<1>1. p \in Procs /\ queue # <<>> /\ Head(queue) = p
  BY RunningTask
<1>2. /\ queue' \in Seq(Procs) /\ task' \in [Procs -> Tasks] /\ QueueOK'
      /\ loader' \in [Loaders -> Loading]
      /\ stage' = "idle" /\ next' = Nothing /\ priorDownloads' = Nothing
      /\ \A q \in Procs : task'[q] = NoTask \/ (q # p /\ task'[q] = task[q])
      /\ \A l \in Loaders : loader'[l] = IF l = p THEN IdleLoader ELSE loader[l]
  BY <1>1, SettleKeeps
<1>3. TypeOK'
  BY <1>2 DEF DataOK, TypeOK, Stages
<1>4. StageOK'
  BY <1>2 DEF StageOK
<1>5. CallersOK' /\ LoadersOK'
  <2>1. Clients \subseteq Procs /\ Loaders \subseteq Procs /\ NoTask.kind = "none"
    BY DEF Procs, NoTask
  <2>2. CallersOK'
    BY <1>2, <2>1 DEF TypeInv, CallersOK
  <2>3. LoadersOK'
    BY <1>2, <2>1 DEF TypeInv, LoadersOK
  <2> QED BY <2>2, <2>3
<1> QED BY <1>2, <1>3, <1>4, <1>5 DEF TypeInv

\* A task that goes on to its next stage keeps the invariant.
LEMMA ContinueTypeInv ==
    ASSUME TypeInv, NEW p, NEW s, Runs(p, s), NEW r \in Stages, Continue(r), DataOK',
           next' \in Profile \union {Nothing},
           r \in {"temp", "rename", "renamed"} => next' \in Profile /\ next'.schema = "current",
           priorDownloads' \in DownloadList \union {Nothing},
           cachedData' = Nothing =>
                cachedData = Nothing /\ lastWritten' = Nothing /\ mainDownloads' = Nothing
    PROVE  TypeInv'
<1>1. queue # <<>>
  BY RunningTask
<1>2. queue' = queue /\ task' = task /\ loader' = loader /\ stage' = r
  BY DEF Continue
<1>3. TypeOK'
  BY <1>2 DEF TypeInv, DataOK, TypeOK
<1>4. QueueOK' /\ LoadersOK'
  BY <1>2 DEF TypeInv, QueueOK, LoadersOK
<1>5. StageOK'
  BY <1>1, <1>2 DEF StageOK
<1>6. CallersOK'
  BY <1>2 DEF TypeInv, CallersOK
<1> QED BY <1>3, <1>4, <1>5, <1>6 DEF TypeInv

\* Submitting a task that carries a profile keeps the invariant.
LEMMA SubmitTypeInv ==
    ASSUME TypeInv, NEW c \in Clients, NEW t \in Tasks,
           t.kind \notin {"none", "first save", "recovery"},
           Submit(c, t), view' \in Profile \union {Nothing}
    PROVE  TypeInv'
<1>1. c \in Procs /\ t # NoTask /\ task[c] = NoTask /\ Enqueue(c, t) /\ c \notin Loaders
  <2>1. NoTask.kind = "none" /\ t.kind # "none"
    BY DEF NoTask
  <2> QED BY <2>1, Separate DEF Procs, Submit
<1>2. queue' \in Seq(Procs) /\ queue' # <<>> /\ task' \in [Procs -> Tasks] /\ QueueOK'
  BY <1>1, EnqueueKeeps
<1>3. /\ up' = up /\ disk' = disk /\ backups' = backups /\ clock' = clock
      /\ cachedData' = cachedData /\ lastWritten' = lastWritten
      /\ mainDownloads' = mainDownloads /\ recovered' = recovered
      /\ loader' = loader /\ stage' = stage /\ next' = next
      /\ priorDownloads' = priorDownloads /\ acked' = acked /\ faults' = faults
      /\ sent' = sent + 1 /\ cachedData # Nothing
  BY DEF Submit, files, memory
<1>4. \A q \in Procs : task'[q] = IF q = c THEN t ELSE task[q]
  BY <1>1 DEF Enqueue, TypeInv, TypeOK
<1>5. TypeOK'
  <2>1. sent \in Nat
    BY DEF TypeInv, TypeOK
  <2>2. sent' = sent + 1
    BY <1>3
  <2>3. sent' \in Nat
    BY ONLY <2>1, <2>2
  <2> QED BY <1>2, <1>3, <2>3 DEF TypeInv, TypeOK
<1>6. StageOK'
  BY <1>2, <1>3 DEF TypeInv, StageOK
<1>7. CallersOK' /\ LoadersOK'
  BY <1>1, <1>3, <1>4 DEF TypeInv, CallersOK, LoadersOK, Procs
<1> QED BY <1>2, <1>5, <1>6, <1>7 DEF TypeInv

-----------------------------------------------------------------------------
\* The step: one lemma per group of actions.

\* A loadData call that is still reading moves on without queueing anything.
LEMMA LoaderMoves ==
    ASSUME TypeInv, NEW l \in Loaders, loader[l].pc # "saving", NEW x \in Loading,
           loader' = [loader EXCEPT ![l] = x], UNCHANGED running, DataOK',
           cachedData' = Nothing =>
                cachedData = Nothing /\ lastWritten' = Nothing /\ mainDownloads' = Nothing
    PROVE  TypeInv'
<1>1. /\ queue' = queue /\ task' = task /\ stage' = stage /\ next' = next
      /\ priorDownloads' = priorDownloads
  BY DEF running
<1>2. loader' \in [Loaders -> Loading] /\ task[l] = NoTask
      /\ \A m \in Loaders : m # l => loader'[m] = loader[m]
  BY DEF TypeInv, TypeOK, LoadersOK
<1>3. TypeOK'
  BY <1>1, <1>2 DEF TypeInv, TypeOK, DataOK
<1>4. QueueOK' /\ StageOK'
  BY <1>1 DEF TypeInv, QueueOK, StageOK
<1>5. CallersOK'
  BY <1>1 DEF TypeInv, CallersOK
<1>6. LoadersOK'
  BY <1>1, <1>2 DEF TypeInv, LoadersOK
<1> QED BY <1>3, <1>4, <1>5, <1>6 DEF TypeInv

\* A loadData call queues the save that ends it.
LEMMA LoaderSaves ==
    ASSUME TypeInv, NEW l \in Loaders, loader[l].pc # "saving",
           NEW k \in {"first save", "recovery"}, NEW p \in Profile,
           Enqueue(l, [kind |-> k, data |-> p]),
           loader' = [loader EXCEPT ![l] = [@ EXCEPT !.pc = "saving"]],
           UNCHANGED <<stage, next, priorDownloads>>, DataOK',
           cachedData' = Nothing =>
                cachedData = Nothing /\ lastWritten' = Nothing /\ mainDownloads' = Nothing
    PROVE  TypeInv'
<1> DEFINE t == [kind |-> k, data |-> p]
<1>1. /\ t \in Tasks /\ t.kind = k /\ t # NoTask /\ l \in Procs /\ l \notin Clients
      /\ task[l] = NoTask
  <2>1. t \in Tasks /\ t.kind = k
    BY DEF Tasks, Saving
  <2>2. t # NoTask
    BY DEF NoTask
  <2> QED BY <2>1, <2>2, Separate DEF Procs, TypeInv, LoadersOK
<1>2. /\ queue' \in Seq(Procs) /\ queue' # <<>> /\ task' \in [Procs -> Tasks] /\ QueueOK'
  BY <1>1, EnqueueKeeps
<1>3. stage' = stage /\ next' = next /\ priorDownloads' = priorDownloads
  OBVIOUS
<1>4. \A q \in Procs : task'[q] = IF q = l THEN t ELSE task[q]
  BY <1>1 DEF Enqueue, TypeInv, TypeOK
<1>5. /\ loader' \in [Loaders -> Loading] /\ loader'[l].pc = "saving"
      /\ \A m \in Loaders : m # l => loader'[m] = loader[m]
  BY DEF TypeInv, TypeOK, Loading, LoaderStates
<1>6. TypeOK'
  BY <1>2, <1>3, <1>5 DEF TypeInv, TypeOK, DataOK
<1>7. StageOK'
  BY <1>2, <1>3 DEF TypeInv, StageOK
<1>8. CallersOK'
  BY <1>1, <1>4 DEF TypeInv, CallersOK, Procs
<1>9. LoadersOK'
  BY <1>4, <1>5 DEF TypeInv, LoadersOK, Procs
<1> QED BY <1>2, <1>6, <1>7, <1>8, <1>9 DEF TypeInv

\* Every step of loadData keeps the invariant.
LEMMA LoadTypeInv ==
    ASSUME TypeInv, NEW l \in Loaders, Load(l)
    PROVE  TypeInv'
<1>0. /\ loader[l] \in Loading /\ disk \in FileContents /\ DataOK
      /\ IdleLoader \in Loading
  BY TypeInvData, DefaultIsProfile DEF TypeInv, TypeOK, IdleLoader, Loading, LoaderStates
<1>1. CASE LoadRead(l)
  <2>1. [loader[l] EXCEPT !.pc = "read", !.raw = disk] \in Loading
    BY <1>0 DEF Loading, LoaderStates
  <2>2. loader' = [loader EXCEPT ![l] = [loader[l] EXCEPT !.pc = "read", !.raw = disk]]
        /\ loader[l].pc # "saving" /\ UNCHANGED running
    BY <1>1 DEF LoadRead
  <2>3. DataOK' /\ (cachedData' = Nothing =>
            cachedData = Nothing /\ lastWritten' = Nothing /\ mainDownloads' = Nothing)
    BY <1>0, <1>1 DEF LoadRead, DataOK, files, memory, counters, TypeInv, CallersOK
  <2> QED BY <2>1, <2>2, <2>3, LoaderMoves
<1>2. CASE LoadParsed(l)
  <2>1. loader[l].raw \in Profile /\ loader[l].pc # "saving" /\ loader[l].raw # Absent
    BY <1>2, Distinct DEF LoadParsed
  <2>2. cachedData' = Migrated(loader[l].raw) /\ cachedData' \in Profile /\ cachedData' # Nothing
    BY <1>2, <2>1, MigratedIsProfile, Distinct DEF LoadParsed, Loaded
  <2>3. CASE loader[l].raw.schema = "current"
    <3>1. DataOK'
      BY <1>0, <1>2, <2>2, <2>3 DEF LoadParsed, DataOK, files, counters
    <3>2. loader' = [loader EXCEPT ![l] = IdleLoader] /\ UNCHANGED running
      BY <1>2, <2>3 DEF LoadParsed, running
    <3> QED BY <1>0, <2>1, <2>2, <3>1, <3>2, LoaderMoves
  <2>4. CASE loader[l].raw.schema # "current"
    <3>1. DataOK'
      BY <1>0, <1>2, <2>2, <2>4 DEF LoadParsed, DataOK, files, counters
    <3>2. /\ Enqueue(l, [kind |-> "first save", data |-> cachedData'])
          /\ loader' = [loader EXCEPT ![l] = [@ EXCEPT !.pc = "saving"]]
          /\ UNCHANGED <<stage, next, priorDownloads>>
      BY <1>2, <2>4 DEF LoadParsed
    <3> QED BY <2>1, <2>2, <3>1, <3>2, LoaderSaves
  <2> QED BY <2>3, <2>4
<1>3. CASE LoadMissing(l)
  <2>1. cachedData' = DefaultData /\ cachedData' \in Profile /\ cachedData' # Nothing
    BY <1>3, DefaultIsProfile, Distinct DEF LoadMissing, Loaded
  <2>2. DataOK'
    BY <1>0, <1>3, <2>1 DEF LoadMissing, DataOK, files, counters
  <2>3. /\ Enqueue(l, [kind |-> "first save", data |-> cachedData'])
        /\ loader' = [loader EXCEPT ![l] = [@ EXCEPT !.pc = "saving"]]
        /\ UNCHANGED <<stage, next, priorDownloads>> /\ loader[l].pc # "saving"
    BY <1>3 DEF LoadMissing
  <2> QED BY <2>1, <2>2, <2>3, LoaderSaves
<1>4. CASE PickRecovery(l)
  <2>1. PICK readable \in SUBSET RecoverySources :
            /\ IF readable = RecoverySources THEN UNCHANGED faults ELSE Fault
            /\ \E pick \in IF readable = {} THEN {DefaultData}
                           ELSE {Migrated(b.body) : b \in Newest(readable)} :
                  loader' = [loader EXCEPT ![l] = [@ EXCEPT !.pc = "picked", !.pick = pick]]
    BY <1>4 DEF PickRecovery
  <2>2. PICK pick \in IF readable = {} THEN {DefaultData}
                      ELSE {Migrated(b.body) : b \in Newest(readable)} :
            loader' = [loader EXCEPT ![l] = [@ EXCEPT !.pc = "picked", !.pick = pick]]
    BY <2>1
  <2>3. pick \in Profile
    <3>1. \A b \in Newest(readable) : Migrated(b.body) \in Profile
      BY <2>1, MigratedIsProfile DEF Newest, RecoverySources
    <3> QED BY <2>2, <3>1, DefaultIsProfile
  <2>4. [loader[l] EXCEPT !.pc = "picked", !.pick = pick] \in Loading
    BY <1>0, <2>3 DEF Loading, LoaderStates
  <2>5. DataOK' /\ cachedData' = cachedData /\ lastWritten' = lastWritten
        /\ mainDownloads' = mainDownloads
    <3>1. faults' \in Nat
      BY <1>0, <2>1 DEF DataOK, Fault
    <3> QED BY <1>0, <1>4, <3>1 DEF PickRecovery, DataOK, files, memory
  <2>6. loader' = [loader EXCEPT ![l] = [loader[l] EXCEPT !.pc = "picked", !.pick = pick]]
        /\ UNCHANGED running /\ loader[l].pc # "saving"
    BY <1>4, <2>2 DEF PickRecovery
  <2>7. cachedData' = Nothing =>
            cachedData = Nothing /\ lastWritten' = Nothing /\ mainDownloads' = Nothing
    BY <2>5 DEF TypeInv, CallersOK
  <2> QED BY <2>4, <2>5, <2>6, <2>7, LoaderMoves
<1>5. CASE KeepRejected(l)
  <2>1. loader[l].pick \in Profile
    BY <1>0 DEF Loading
  <2>2. backups' \subseteq Backup
    <3>1. [kind |-> "invalid", at |-> 0, body |-> disk] \in Backup
      BY <1>0 DEF Backup, BackupKinds
    <3> QED BY <1>0, <1>5, <3>1 DEF KeepRejected, DataOK
  <2>3. DataOK' /\ cachedData' = cachedData /\ lastWritten' = lastWritten
        /\ mainDownloads' = mainDownloads
    BY <1>0, <1>5, <2>2 DEF KeepRejected, DataOK, memory, counters
  <2>4. /\ Enqueue(l, [kind |-> "recovery", data |-> loader[l].pick])
        /\ loader' = [loader EXCEPT ![l] = [@ EXCEPT !.pc = "saving"]]
        /\ UNCHANGED <<stage, next, priorDownloads>> /\ loader[l].pc # "saving"
    BY <1>5 DEF KeepRejected
  <2>5. cachedData' = Nothing =>
            cachedData = Nothing /\ lastWritten' = Nothing /\ mainDownloads' = Nothing
    BY <2>3 DEF TypeInv, CallersOK
  <2> QED BY <2>1, <2>3, <2>4, <2>5, LoaderSaves
<1>6. CASE KeepRejectedFails(l)
  <2>1. DataOK' /\ cachedData' = cachedData /\ lastWritten' = lastWritten
        /\ mainDownloads' = mainDownloads
    <3>1. faults' \in Nat
      BY <1>0, <1>6 DEF KeepRejectedFails, DataOK, Fault
    <3> QED BY <1>0, <1>6, <3>1 DEF KeepRejectedFails, DataOK, files, memory
  <2>2. loader' = [loader EXCEPT ![l] = IdleLoader]
        /\ UNCHANGED running /\ loader[l].pc # "saving"
    BY <1>6 DEF KeepRejectedFails
  <2>3. cachedData' = Nothing =>
            cachedData = Nothing /\ lastWritten' = Nothing /\ mainDownloads' = Nothing
    BY <2>1 DEF TypeInv, CallersOK
  <2> QED BY <1>0, <2>1, <2>2, <2>3, LoaderMoves
<1> QED BY <1>1, <1>2, <1>3, <1>4, <1>5, <1>6 DEF Load

\* Every request keeps the invariant.
LEMMA RequestTypeInv ==
    ASSUME TypeInv, NEW c \in Clients, Request(c)
    PROVE  TypeInv'
<1>0. view \in Profile \union {Nothing} /\ cachedData \in Profile \union {Nothing}
  BY DEF TypeInv, TypeOK
<1>1. CASE SaveRendererData(c)
  <2>1. PICK r \in Revs : /\ view' = [view EXCEPT !.rev = r]
                          /\ Submit(c, [kind |-> "renderer", data |-> view'])
    BY <1>1 DEF SaveRendererData
  <2>2. view' \in Profile
    BY <1>0, <1>1, <2>1 DEF SaveRendererData, Profile
  <2>3. [kind |-> "renderer", data |-> view'] \in Tasks
    BY <2>2 DEF Tasks, Saving
  <2> QED BY <2>1, <2>2, <2>3, SubmitTypeInv
<1>2. CASE SaveSnapshot(c)
  <2>1. PICK r \in Revs : Submit(c, [kind |-> "snapshot", data |-> [cachedData EXCEPT !.rev = r]])
    BY <1>2 DEF SaveSnapshot
  <2>2. [cachedData EXCEPT !.rev = r] \in Profile
    BY <1>0, <2>1 DEF Submit, Profile
  <2>3. [kind |-> "snapshot", data |-> [cachedData EXCEPT !.rev = r]] \in Tasks
    BY <2>2 DEF Tasks, Saving
  <2> QED BY <1>0, <1>2, <2>1, <2>3, SubmitTypeInv DEF SaveSnapshot
<1>3. CASE UpsertDownload(c)
  <2>1. PICK d \in Downloads, s \in {"active", "done"} :
            Submit(c, [kind |-> "upsert", id |-> d, state |-> s])
    BY <1>3 DEF UpsertDownload
  <2>2. [kind |-> "upsert", id |-> d, state |-> s] \in Tasks
    BY DEF Tasks, DownloadStates
  <2> QED BY <1>0, <1>3, <2>1, <2>2, SubmitTypeInv DEF UpsertDownload
<1>4. CASE ClearCompletedDownloads(c)
  <2>1. [kind |-> "clear"] \in Tasks
    BY DEF Tasks
  <2> QED BY <1>0, <1>4, <2>1, SubmitTypeInv DEF ClearCompletedDownloads
<1>5. CASE CommitImportData(c)
  <2>1. PICK o \in Ops, sel \in SUBSET Exts :
            Submit(c, [kind |-> "commit", op |-> o, selected |-> sel])
    BY <1>5 DEF CommitImportData
  <2>2. [kind |-> "commit", op |-> o, selected |-> sel] \in Tasks
    BY DEF Tasks
  <2> QED BY <1>0, <1>5, <2>1, <2>2, SubmitTypeInv DEF CommitImportData
<1>6. CASE RecordImportExtensionResult(c)
  <2>1. PICK o \in Ops, e \in Exts, s \in {"failed", "final"} :
            Submit(c, [kind |-> "extension", op |-> o, ext |-> e, status |-> s])
    BY <1>6 DEF RecordImportExtensionResult
  <2>2. [kind |-> "extension", op |-> o, ext |-> e, status |-> s] \in Tasks
    BY DEF Tasks
  <2> QED BY <1>0, <1>6, <2>1, <2>2, SubmitTypeInv DEF RecordImportExtensionResult
<1>7. CASE ReplaceDataFromImport(c)
  <2>1. PICK r \in Revs : Submit(c, [kind |-> "pre-import", data |-> [DefaultData EXCEPT !.rev = r]])
    BY <1>7 DEF ReplaceDataFromImport
  <2>2. [DefaultData EXCEPT !.rev = r] \in Profile
    BY DefaultIsProfile DEF Profile
  <2>3. [kind |-> "pre-import", data |-> [DefaultData EXCEPT !.rev = r]] \in Tasks
    BY <2>2 DEF Tasks, Replacing
  <2> QED BY <1>0, <1>7, <2>1, <2>3, SubmitTypeInv DEF ReplaceDataFromImport
<1>8. CASE RestoreStorageBackup(c)
  <2>1. PICK b \in RecoverySources : Submit(c, [kind |-> "pre-restore", data |-> Migrated(b.body)])
    BY <1>8 DEF RestoreStorageBackup
  <2>2. Migrated(b.body) \in Profile
    BY MigratedIsProfile DEF RecoverySources
  <2>3. [kind |-> "pre-restore", data |-> Migrated(b.body)] \in Tasks
    BY <2>2 DEF Tasks, Replacing
  <2> QED BY <1>0, <1>8, <2>1, <2>3, SubmitTypeInv DEF RestoreStorageBackup
<1> QED BY <1>1, <1>2, <1>3, <1>4, <1>5, <1>6, <1>7, <1>8 DEF Request

\* Copying the active file keeps the backup directory well formed, whatever is trimmed.
LEMMA CopyActiveKeeps ==
    ASSUME DataOK, NEW kind \in BackupKinds,
           CopyActive(kind) \/ UNCHANGED <<backups, clock>>
    PROVE  backups' \subseteq Backup /\ clock' \in Nat
<1>1. CASE UNCHANGED <<backups, clock>>
  BY <1>1 DEF DataOK
<1>2. CASE disk = Absent /\ CopyActive(kind)
  BY <1>2 DEF DataOK, CopyActive
<1>3. CASE disk # Absent /\ CopyActive(kind)
  <2>1. clock \in Nat /\ clock' = clock + 1
    BY <1>3 DEF DataOK, CopyActive
  <2>2. clock' \in Nat
    BY ONLY <2>1
  <2> DEFINE copy == [kind |-> kind, at |-> clock, body |-> disk]
  <2>3. copy \in Backup
    BY <2>1 DEF DataOK, Backup
  <2>4. backups \union {copy} \subseteq Backup
    BY <2>3 DEF DataOK
  <2>5. backups' \subseteq backups \union {copy}
    <3>1. kind = "rolling" => backups' = Trimmed(backups \union {copy}, kind, KeepRolling)
      BY <1>3 DEF CopyActive
    <3>2. kind = "manual" => backups' = Trimmed(backups \union {copy}, kind, KeepManual)
      BY <1>3 DEF CopyActive
    <3>3. kind \notin {"rolling", "manual"} => backups' = backups \union {copy}
      BY <1>3 DEF CopyActive
    <3>4. \A S, n : Trimmed(S, kind, n) \subseteq S
      BY DEF Trimmed
    <3> QED BY <3>1, <3>2, <3>3, <3>4
  <2> QED BY <2>2, <2>4, <2>5
<1> QED BY <1>1, <1>2, <1>3

\* A task that ends by settling, or by reading the file back.
LEMMA FinishTypeInv ==
    ASSUME TypeInv, NEW p, NEW s, Runs(p, s), Finish(p), DataOK',
           cachedData' = Nothing =>
                cachedData = Nothing /\ lastWritten' = Nothing /\ mainDownloads' = Nothing
    PROVE  TypeInv'
<1>1. CASE Settle(p)
  BY <1>1, SettleTypeInv
<1>2. CASE Continue("readback") /\ next' = Nothing /\ priorDownloads' = Nothing
  BY <1>2, ContinueTypeInv DEF Stages
<1> QED BY <1>1, <1>2 DEF Finish

\* Every step of the running task, a failing one included, keeps the invariant.
LEMMA StepTypeInv ==
    ASSUME TypeInv, NEW p \in Procs, Step(p) \/ StepFails(p)
    PROVE  TypeInv'
<1>0. /\ DataOK
      /\ next \in Profile \union {Nothing} /\ priorDownloads \in DownloadList \union {Nothing}
      /\ cachedData = Nothing => lastWritten = Nothing /\ mainDownloads = Nothing
  BY TypeInvData DEF TypeInv, TypeOK, CallersOK
<1>1. CASE CopyBeforeReplace(p)
  <2>1. Runs(p, "idle") /\ task[p].kind \in BackupKinds /\ CopyActive(task[p].kind)
        /\ Continue("copied")
    BY <1>1 DEF CopyBeforeReplace, BackupKinds
  <2>2. DataOK'
    BY <1>0, <1>1, <2>1, CopyActiveKeeps DEF CopyBeforeReplace, DataOK, memory, counters
  <2>3. next' = next /\ priorDownloads' = priorDownloads /\ cachedData' = cachedData
        /\ lastWritten' = lastWritten /\ mainDownloads' = mainDownloads /\ "copied" \in Stages
    BY <1>1 DEF CopyBeforeReplace, memory, Stages
  <2> QED BY <1>0, <2>1, <2>2, <2>3, ContinueTypeInv
<1>2. CASE Refuse(p)
  <2>1. PICK s : Runs(p, s)
    BY <1>2 DEF Refuse, Ready
  <2>2. DataOK' /\ Settle(p) /\ cachedData' = cachedData
        /\ lastWritten' = lastWritten /\ mainDownloads' = mainDownloads
    BY <1>0, <1>2 DEF Refuse, DataOK, files, memory, counters
  <2> QED BY <1>0, <2>1, <2>2, SettleTypeInv
<1>3. CASE AnswerFromReceipt(p)
  <2>1. PICK s : Runs(p, s)
    BY <1>3 DEF AnswerFromReceipt, Ready
  <2>2. DataOK' /\ cachedData' = cachedData
        /\ lastWritten' = lastWritten /\ mainDownloads' = mainDownloads
    BY <1>0, <1>3 DEF AnswerFromReceipt, DataOK, files, memory, counters
  <2>3. CASE Settle(p)
    BY <1>0, <2>1, <2>2, <2>3, SettleTypeInv
  <2>4. CASE Continue("readback") /\ UNCHANGED <<next, priorDownloads>>
    BY <1>0, <2>1, <2>2, <2>4, ContinueTypeInv DEF Stages
  <2> QED BY <1>3, <2>3, <2>4 DEF AnswerFromReceipt
<1>4. CASE SkipUnchangedWrite(p)
  <2>1. PICK s : Runs(p, s)
    BY <1>4 DEF SkipUnchangedWrite, Proceeds, Ready
  <2>2. /\ Result(p) \in Profile /\ Result(p) = lastWritten
        /\ DownloadsAfter(task[p], cachedData, mainDownloads) \in DownloadList \union {Nothing}
        /\ AckedAtStart(task[p]) \in DownloadList /\ AckedAtEnd(task[p]) \in DownloadList
    BY <1>4, <2>1, ResultIsProfile DEF SkipUnchangedWrite
  <2>3. cachedData' # Nothing
    BY <1>0, <1>4, <2>2, Distinct DEF SkipUnchangedWrite
  <2>4. DataOK'
    BY <1>0, <1>4, <2>2 DEF SkipUnchangedWrite, DataOK, files, counters
  <2>5. Finish(p)
    BY <1>4 DEF SkipUnchangedWrite
  <2> QED BY <2>1, <2>3, <2>4, <2>5, FinishTypeInv
<1>5. CASE WriteTemp(p)
  <2>1. PICK s : Runs(p, s)
    BY <1>5 DEF WriteTemp, Proceeds, Ready
  <2>2. /\ Result(p) \in Profile /\ Result(p).schema = "current"
        /\ DownloadsAfter(task[p], cachedData, mainDownloads) \in DownloadList \union {Nothing}
        /\ p \in Loaders => DownloadsAfter(task[p], cachedData, mainDownloads) = mainDownloads
        /\ AckedAtStart(task[p]) \in DownloadList
    BY <2>1, ResultIsProfile
  <2>3. next' = Result(p) /\ priorDownloads' = mainDownloads /\ cachedData' = cachedData
        /\ lastWritten' = lastWritten /\ Continue("temp") /\ "temp" \in Stages
        /\ mainDownloads' = DownloadsAfter(task[p], cachedData, mainDownloads)
    BY <1>5 DEF WriteTemp, Stages
  <2>4. DataOK'
    BY <1>0, <1>5, <2>2 DEF WriteTemp, DataOK, files, counters
  <2>5. cachedData = Nothing => p \in Loaders
    BY <2>1, RunningTask, Distinct DEF Procs
  <2>6. priorDownloads' \in DownloadList \union {Nothing}
    BY <1>0, <2>3 DEF DataOK
  <2>7. cachedData' = Nothing =>
            cachedData = Nothing /\ lastWritten' = Nothing /\ mainDownloads' = Nothing
    BY <1>0, <2>2, <2>3, <2>5
  <2> QED BY <2>1, <2>2, <2>3, <2>4, <2>6, <2>7, ContinueTypeInv
<1>6. CASE RollingBackup(p)
  <2>1. Runs(p, "temp") /\ Continue("rename")
        /\ (CopyActive("rolling") \/ UNCHANGED <<backups, clock>>) /\ "rolling" \in BackupKinds
    BY <1>6 DEF RollingBackup, BackupKinds
  <2>2. DataOK'
    BY <1>0, <1>6, <2>1, CopyActiveKeeps DEF RollingBackup, DataOK, memory, counters
  <2>3. next' = next /\ priorDownloads' = priorDownloads /\ cachedData' = cachedData
        /\ lastWritten' = lastWritten /\ mainDownloads' = mainDownloads /\ "rename" \in Stages
    BY <1>6 DEF RollingBackup, memory, Stages
  <2>4. next \in Profile /\ next.schema = "current"
    BY <2>1 DEF Runs, TypeInv, StageOK
  <2> QED BY <1>0, <2>1, <2>2, <2>3, <2>4, ContinueTypeInv
<1>7. CASE Rename(p)
  <2>1. Runs(p, "rename") /\ Continue("renamed") /\ disk' = next
    BY <1>7 DEF Rename
  <2>2. next \in Profile /\ next.schema = "current"
    BY <2>1 DEF Runs, TypeInv, StageOK
  <2>3. acked' \in DownloadList
    BY <1>0, <1>7 DEF Rename, DataOK, NoDownloads, DownloadList, DownloadStates
  <2>4. DataOK'
    BY <1>0, <1>7, <2>2, <2>3 DEF Rename, DataOK, memory, counters, FileContents
  <2>5. next' = next /\ priorDownloads' = priorDownloads /\ cachedData' = cachedData
        /\ lastWritten' = lastWritten /\ mainDownloads' = mainDownloads /\ "renamed" \in Stages
    BY <1>7 DEF Rename, memory, Stages
  <2> QED BY <1>0, <2>1, <2>2, <2>4, <2>5, ContinueTypeInv
<1>8. CASE RecordWrite(p)
  <2>1. Runs(p, "renamed") /\ cachedData' = next /\ Finish(p)
    BY <1>8 DEF RecordWrite
  <2>2. next \in Profile /\ next # Nothing
    BY <2>1, Distinct DEF Runs, TypeInv, StageOK
  <2>3. AckedAtEnd(task[p]) \in DownloadList
    BY <2>1, ResultIsProfile
  <2>4. DataOK'
    BY <1>0, <1>8, <2>2, <2>3 DEF RecordWrite, DataOK, files, counters
  <2> QED BY <2>1, <2>2, <2>4, FinishTypeInv
<1>9. CASE ReadBack(p)
  <2>1. Runs(p, "readback") /\ Settle(p) /\ cachedData' = cachedData
        /\ lastWritten' = lastWritten /\ mainDownloads' = mainDownloads
    BY <1>9 DEF ReadBack, memory
  <2>2. DataOK'
    BY <1>0, <1>9 DEF ReadBack, DataOK, files, memory, counters
  <2> QED BY <1>0, <2>1, <2>2, SettleTypeInv
<1>10. CASE CopyBeforeReplaceFails(p)
  <2>1. Runs(p, "idle") /\ Settle(p) /\ cachedData' = cachedData
        /\ lastWritten' = lastWritten /\ mainDownloads' = mainDownloads
    BY <1>10 DEF CopyBeforeReplaceFails, memory
  <2>2. DataOK'
    <3>1. faults' \in Nat
      BY <1>0, <1>10 DEF CopyBeforeReplaceFails, DataOK, Fault
    <3> QED BY <1>0, <1>10, <3>1 DEF CopyBeforeReplaceFails, DataOK, files, memory
  <2> QED BY <1>0, <2>1, <2>2, SettleTypeInv
<1>11. CASE WriteFails(p)
  <2>1. PICK s : Runs(p, s)
    BY <1>11 DEF WriteFails
  <2>2. Settle(p) /\ cachedData' = cachedData /\ lastWritten' = lastWritten
    BY <1>11 DEF WriteFails
  <2>3. DataOK'
    <3>1. faults' \in Nat
      BY <1>0, <1>11 DEF WriteFails, DataOK, Fault
    <3>2. mainDownloads' \in DownloadList \union {Nothing}
      BY <1>0, <1>11 DEF WriteFails, DataOK
    <3> QED BY <1>0, <1>11, <3>1, <3>2 DEF WriteFails, DataOK, files
  <2>4. cachedData = Nothing => mainDownloads' = Nothing
    <3>1. cachedData = Nothing => p \in Loaders
      BY <2>1, RunningTask, Distinct DEF Procs
    <3>2. p \in Loaders => task[p].kind \notin Replacing
      BY <2>1, RunningTask DEF Replacing
    <3> QED BY <1>0, <1>11, <3>1, <3>2 DEF WriteFails
  <2> QED BY <1>0, <2>1, <2>2, <2>3, <2>4, SettleTypeInv
<1> QED BY <1>1, <1>2, <1>3, <1>4, <1>5, <1>6, <1>7, <1>8, <1>9, <1>10, <1>11 DEF Step, StepFails

\* Everything else keeps it too: what the process and its environment do.
LEMMA RestTypeInv ==
    ASSUME TypeInv, Hydrate \/ BackUpManually \/ Boot \/ Crash \/ Damage
    PROVE  TypeInv'
<1>0. DataOK
  BY TypeInvData
<1>1. CASE Hydrate \/ BackUpManually \/ Boot \/ Damage
  <2>1. DataOK'
    <3>1. CASE Hydrate
      BY <1>0, <3>1 DEF Hydrate, DataOK, files, memory, counters
    <3>2. CASE BackUpManually
      <4>1. backups' \subseteq Backup /\ clock' \in Nat
        BY <1>0, <3>2, CopyActiveKeeps DEF BackUpManually, BackupKinds
      <4> QED BY <1>0, <3>2, <4>1 DEF BackUpManually, DataOK, memory, counters
    <3>3. CASE Boot
      BY <1>0, <3>3 DEF Boot, DataOK, files, memory, counters
    <3>4. CASE Damage
      <4>1. acked' \in DownloadList /\ disk' \in FileContents
        BY <3>4 DEF Damage, NoDownloads, DownloadList, DownloadStates, FileContents
      <4>2. faults' \in Nat
        BY <1>0, <3>4 DEF Damage, DataOK, Fault
      <4> QED BY <1>0, <3>4, <4>1, <4>2 DEF Damage, DataOK, memory
    <3> QED BY <1>1, <3>1, <3>2, <3>3, <3>4
  <2>2. /\ loader' = loader /\ queue' = queue /\ task' = task /\ stage' = stage
        /\ next' = next /\ priorDownloads' = priorDownloads /\ cachedData' = cachedData
        /\ lastWritten' = lastWritten /\ mainDownloads' = mainDownloads
    BY <1>1 DEF Hydrate, BackUpManually, Boot, Damage, running, memory
  <2>3. TypeOK'
    BY <2>1, <2>2 DEF TypeInv, TypeOK, DataOK
  <2>4. QueueOK' /\ StageOK' /\ CallersOK' /\ LoadersOK'
    BY <2>2 DEF TypeInv, QueueOK, StageOK, CallersOK, LoadersOK
  <2> QED BY <2>3, <2>4 DEF TypeInv
<1>2. CASE Crash
  <2>1. NoTask \in Tasks /\ NoTask.kind = "none"
    BY DEF Tasks, NoTask
  <2>2. IdleLoader \in Loading
    BY DefaultIsProfile DEF IdleLoader, Loading, LoaderStates
  <2>3. DataOK'
    <3>1. faults' \in Nat
      BY <1>0, <1>2 DEF Crash, DataOK, Fault
    <3> QED BY <1>0, <1>2, <3>1 DEF Crash, DataOK, files
  <2>4. /\ loader' = [l \in Loaders |-> IdleLoader] /\ queue' = <<>>
        /\ task' = [p \in Procs |-> NoTask] /\ stage' = "idle"
        /\ next' = Nothing /\ priorDownloads' = Nothing
        /\ lastWritten' = Nothing /\ mainDownloads' = Nothing
    BY <1>2 DEF Crash
  <2>5. TypeOK'
    BY <2>1, <2>2, <2>3, <2>4 DEF TypeOK, DataOK, Stages
  <2>6. QueueOK' /\ StageOK' /\ LoadersOK'
    BY <2>4 DEF QueueOK, StageOK, LoadersOK, Procs
  <2>7. CallersOK'
    BY <2>1, <2>4 DEF CallersOK, Procs
  <2> QED BY <2>5, <2>6, <2>7 DEF TypeInv
<1> QED BY <1>1, <1>2

\* TypeInv is inductive.
LEMMA NextTypeInv == TypeInv /\ [Next]_vars => TypeInv'
<1> SUFFICES ASSUME TypeInv, [Next]_vars PROVE TypeInv'
  OBVIOUS
<1>1. ASSUME NEW l \in Loaders, Load(l) PROVE TypeInv'
  BY <1>1, LoadTypeInv
<1>2. ASSUME NEW c \in Clients, Request(c) PROVE TypeInv'
  BY <1>2, RequestTypeInv
<1>3. ASSUME NEW p \in Procs, Step(p) \/ StepFails(p) PROVE TypeInv'
  BY <1>3, StepTypeInv
<1>4. CASE Hydrate \/ BackUpManually \/ Boot \/ Crash \/ Damage
  BY <1>4, RestTypeInv
<1>5. CASE UNCHANGED vars
  BY <1>5 DEF vars, files, memory, running, counters, TypeInv, TypeOK, QueueOK, StageOK,
              CallersOK, LoadersOK
<1> QED BY <1>1, <1>2, <1>3, <1>4, <1>5 DEF Next

\* Whatever the callers do and wherever writes fail and the process dies, every variable
\* of the store keeps its shape: what is written to the file is always a valid profile.
THEOREM TypeCorrect == Spec => []TypeOK
<1>1. TypeInv => TypeOK
  BY DEF TypeInv
<1> QED BY <1>1, InitTypeInv, NextTypeInv, PTL DEF Spec

-----------------------------------------------------------------------------
\* Memory agrees with the file, when loadData calls do not overlap.

OneLoader == \A l, m \in Loaders : l = m

\* A stopped process holds nothing in memory, so outside damage surprises nobody.
StoppedOK ==
    ~up => cachedData = Nothing /\ queue = <<>> /\ \A l \in Loaders : loader[l].pc = "idle"

\* What a loader has read is still what the file holds.
ReadersOK ==
    \A l \in Loaders :
        loader[l].pc \in {"read", "picked"} => cachedData = Nothing /\ loader[l].raw = disk

RenamedOK == stage = "renamed" => disk = next

DurableInv == TypeInv /\ StoppedOK /\ ReadersOK /\ RenamedOK /\ CacheIsDurable

\* loadData gives back a profile written by writeData as it is.
LEMMA CurrentLoadsAsIs ==
    ASSUME NEW p \in Profile, p.schema = "current"
    PROVE  Loaded(p) = p /\ p \notin Damaged
<1>1. p # Absent /\ p \notin Damaged
  BY Distinct
<1>2. [p EXCEPT !.schema = "current"] = p
  BY DEF Profile
<1> QED BY <1>1, <1>2 DEF Loaded, Migrated

\* While a task runs nobody is between reading the file and caching it.
LEMMA NobodyReads ==
    ASSUME OneLoader, DurableInv, NEW p, NEW s, Runs(p, s)
    PROVE  \A l \in Loaders : loader[l].pc \notin {"read", "picked"}
<1>1. TypeInv /\ p \in Procs /\ task[p] # NoTask /\ (p \in Clients => cachedData \in Profile)
  BY RunningTask DEF DurableInv
<1>2. CASE p \in Clients
  BY <1>1, <1>2, Distinct DEF DurableInv, ReadersOK
<1>3. CASE p \in Loaders
  <2>1. loader[p].pc = "saving"
    BY <1>1, <1>3 DEF TypeInv, LoadersOK
  <2> QED BY <1>3, <2>1 DEF OneLoader
<1> QED BY <1>1, <1>2, <1>3 DEF Procs

\* A step of the running task leaves the loaders' part of the invariant alone.
LEMMA StepReaders ==
    ASSUME OneLoader, DurableInv, NEW p, NEW s, Runs(p, s), up' = up,
           \/ Settle(p)
           \/ UNCHANGED loader
    PROVE  StoppedOK' /\ ReadersOK'
<1>1. up' /\ \A l \in Loaders : loader[l].pc \notin {"read", "picked"}
  BY NobodyReads DEF Runs
<1>2. \A l \in Loaders : loader'[l] = loader[l] \/ loader'[l] = IdleLoader
  <2>1. loader \in [Loaders -> Loading]
    BY DEF DurableInv, TypeInv, TypeOK
  <2> QED BY <2>1 DEF Settle
<1>3. IdleLoader.pc = "idle"
  BY DEF IdleLoader
<1> QED BY <1>1, <1>2, <1>3 DEF StoppedOK, ReadersOK

\* A task keeps memory and the file in agreement, whether it ends well or not.
LEMMA StepDurable ==
    ASSUME OneLoader, DurableInv, NEW p \in Procs, Step(p) \/ StepFails(p)
    PROVE  DurableInv'
<1>0. TypeInv /\ TypeInv' /\ CacheIsDurable /\ RenamedOK
  BY StepTypeInv DEF DurableInv
<1>1. CASE \/ CopyBeforeReplace(p) \/ Refuse(p) \/ AnswerFromReceipt(p)
           \/ SkipUnchangedWrite(p) \/ WriteTemp(p) \/ RollingBackup(p) \/ ReadBack(p)
           \/ CopyBeforeReplaceFails(p) \/ WriteFails(p)
  <2>1. PICK s : Runs(p, s) /\ s # "renamed"
    BY <1>1 DEF CopyBeforeReplace, Refuse, AnswerFromReceipt, SkipUnchangedWrite, WriteTemp,
                RollingBackup, ReadBack, CopyBeforeReplaceFails, WriteFails, Proceeds, Ready
  <2>2. /\ up' = up /\ disk' = disk /\ cachedData' = cachedData /\ lastWritten' = lastWritten
        /\ stage' # "renamed" /\ (Settle(p) \/ UNCHANGED loader)
    BY <1>1 DEF CopyBeforeReplace, Refuse, AnswerFromReceipt, SkipUnchangedWrite, WriteTemp,
                RollingBackup, ReadBack, CopyBeforeReplaceFails, WriteFails, Finish, Settle,
                Continue, files, memory
  <2>3. StoppedOK' /\ ReadersOK'
    BY <2>1, <2>2, StepReaders
  <2>4. RenamedOK'
    BY <2>2 DEF RenamedOK
  <2>5. CacheIsDurable'
    BY <1>0, <2>1, <2>2 DEF CacheIsDurable, Runs
  <2> QED BY <1>0, <2>3, <2>4, <2>5 DEF DurableInv
<1>2. CASE Rename(p)
  <2>1. /\ Runs(p, "rename") /\ up' = up /\ disk' = next /\ next' = next /\ stage' = "renamed"
        /\ UNCHANGED loader /\ cachedData' = cachedData /\ lastWritten' = lastWritten
    BY <1>2 DEF Rename, Continue, memory
  <2>2. StoppedOK' /\ ReadersOK'
    BY <2>1, StepReaders
  <2>3. RenamedOK' /\ CacheIsDurable'
    BY <1>0, <2>1 DEF RenamedOK, CacheIsDurable
  <2> QED BY <1>0, <2>2, <2>3 DEF DurableInv
<1>3. CASE RecordWrite(p)
  <2>1. /\ Runs(p, "renamed") /\ up' = up /\ disk' = disk
        /\ cachedData' = next /\ lastWritten' = next /\ Finish(p)
    BY <1>3 DEF RecordWrite, files
  <2>2. disk = next /\ next \in Profile /\ next.schema = "current"
    BY <1>0, <2>1 DEF RenamedOK, Runs, TypeInv, StageOK
  <2>3. stage' # "renamed" /\ (Settle(p) \/ UNCHANGED loader)
    BY <2>1 DEF Finish, Settle, Continue
  <2>4. StoppedOK' /\ ReadersOK'
    BY <2>1, <2>3, StepReaders
  <2>5. CacheIsDurable'
    BY <2>1, <2>2, CurrentLoadsAsIs DEF CacheIsDurable
  <2> QED BY <1>0, <2>3, <2>4, <2>5 DEF DurableInv, RenamedOK
<1> QED BY <1>1, <1>2, <1>3 DEF Step, StepFails

\* loadData caches what the file holds.
LEMMA LoadDurable ==
    ASSUME OneLoader, DurableInv, NEW l \in Loaders, Load(l)
    PROVE  DurableInv'
<1>0. /\ TypeInv /\ TypeInv' /\ CacheIsDurable /\ RenamedOK /\ ReadersOK
      /\ loader \in [Loaders -> Loading] /\ \A m \in Loaders : m = l
  BY LoadTypeInv DEF DurableInv, TypeInv, TypeOK, OneLoader
<1>1. up /\ up' = up /\ disk' = disk /\ stage' = stage /\ next' = next
  BY DEF Load, LoadRead, LoadParsed, LoadMissing, PickRecovery, KeepRejected, KeepRejectedFails,
         files, running
<1>2. StoppedOK' /\ RenamedOK'
  BY <1>0, <1>1 DEF StoppedOK, RenamedOK
<1>3. CASE LoadRead(l)
  <2>1. /\ cachedData' = cachedData /\ lastWritten' = lastWritten /\ cachedData = Nothing
        /\ loader'[l].raw = disk
    BY <1>0, <1>3 DEF LoadRead, memory, Loading
  <2> QED BY <1>0, <1>1, <1>2, <2>1 DEF DurableInv, ReadersOK, CacheIsDurable
<1>4. CASE PickRecovery(l) \/ KeepRejected(l) \/ KeepRejectedFails(l)
  <2>1. /\ cachedData' = cachedData /\ lastWritten' = lastWritten
        /\ loader[l].pc \in {"read", "picked"}
        /\ loader'[l].pc \in {"read", "picked"} => loader'[l].raw = loader[l].raw
    <3>1. loader[l] \in Loading
      BY <1>0
    <3>2. CASE PickRecovery(l)
      <4>1. PICK pick : loader' = [loader EXCEPT ![l] = [@ EXCEPT !.pc = "picked", !.pick = pick]]
        BY <3>2 DEF PickRecovery
      <4> QED BY <1>0, <3>1, <3>2, <4>1 DEF PickRecovery, memory, Loading
    <3>3. CASE KeepRejected(l)
      BY <1>0, <3>1, <3>3 DEF KeepRejected, memory, Loading
    <3>4. CASE KeepRejectedFails(l)
      BY <1>0, <3>4 DEF KeepRejectedFails, memory, IdleLoader
    <3> QED BY <1>4, <3>2, <3>3, <3>4
  <2> QED BY <1>0, <1>1, <1>2, <2>1 DEF DurableInv, ReadersOK, CacheIsDurable
<1>5. CASE LoadParsed(l)
  <2>1. /\ loader[l].raw = disk /\ disk \in Profile /\ lastWritten = Nothing
        /\ cachedData' = Loaded(disk)
    BY <1>0, <1>5 DEF LoadParsed, ReadersOK, TypeInv, CallersOK
  <2>2. disk \notin Damaged /\ (disk.schema = "current" => Loaded(disk) = disk)
    BY <2>1, CurrentLoadsAsIs, Distinct
  <2>3. loader'[l].pc \notin {"read", "picked"}
    <3>1. loader[l] \in Loading /\ IdleLoader.pc = "idle"
      BY <1>0 DEF IdleLoader
    <3>2. CASE loader[l].raw.schema = "current"
      BY <1>0, <1>5, <3>1, <3>2 DEF LoadParsed
    <3>3. CASE loader[l].raw.schema # "current"
      BY <1>0, <1>5, <3>1, <3>3 DEF LoadParsed, Loading
    <3> QED BY <3>2, <3>3
  <2>4. lastWritten' = IF disk.schema = "current" THEN cachedData' ELSE Nothing
    BY <1>5, <2>1 DEF LoadParsed
  <2>5. CacheIsDurable'
    BY <1>1, <2>1, <2>2, <2>4 DEF CacheIsDurable
  <2> QED BY <1>0, <1>2, <2>3, <2>5 DEF DurableInv, ReadersOK
<1>6. CASE LoadMissing(l)
  <2>1. /\ loader[l].raw = disk /\ disk = Absent /\ lastWritten = Nothing
        /\ cachedData' = Loaded(disk) /\ lastWritten' = lastWritten
    BY <1>0, <1>6 DEF LoadMissing, ReadersOK, TypeInv, CallersOK
  <2>2. disk \notin Damaged
    BY <2>1, Distinct
  <2>3. loader'[l].pc \notin {"read", "picked"}
    BY <1>0, <1>6 DEF LoadMissing, Loading
  <2>4. CacheIsDurable'
    BY <1>1, <2>1, <2>2 DEF CacheIsDurable
  <2> QED BY <1>0, <1>2, <2>3, <2>4 DEF DurableInv, ReadersOK
<1> QED BY <1>3, <1>4, <1>5, <1>6 DEF Load

\* DurableInv is inductive.
LEMMA NextDurable == ASSUME OneLoader PROVE DurableInv /\ [Next]_vars => DurableInv'
<1> SUFFICES ASSUME DurableInv, [Next]_vars PROVE DurableInv'
  OBVIOUS
<1>0. TypeInv'
  BY NextTypeInv DEF DurableInv
<1>1. ASSUME NEW l \in Loaders, Load(l) PROVE DurableInv'
  BY <1>1, LoadDurable
<1>2. ASSUME NEW p \in Procs, Step(p) \/ StepFails(p) PROVE DurableInv'
  BY <1>2, StepDurable
<1>3. ASSUME NEW c \in Clients, Request(c) PROVE DurableInv'
  <2>1. PICK t : Submit(c, t)
    BY <1>3 DEF Request, SaveRendererData, SaveSnapshot, UpsertDownload,
                ClearCompletedDownloads, CommitImportData, RecordImportExtensionResult,
                ReplaceDataFromImport, RestoreStorageBackup
  <2>2. /\ up /\ up' = up /\ disk' = disk /\ cachedData' = cachedData
        /\ lastWritten' = lastWritten /\ loader' = loader /\ stage' = stage /\ next' = next
    BY <2>1 DEF Submit, files, memory
  <2> QED BY <1>0, <2>2 DEF DurableInv, StoppedOK, ReadersOK, RenamedOK, CacheIsDurable
<1>4. CASE Hydrate \/ BackUpManually \/ Boot \/ UNCHANGED vars
  <2>1. /\ disk' = disk /\ cachedData' = cachedData /\ lastWritten' = lastWritten
        /\ loader' = loader /\ stage' = stage /\ next' = next /\ queue' = queue
        /\ up' \in {up, TRUE}
    BY <1>4 DEF Hydrate, BackUpManually, Boot, vars, files, memory, running
  <2> QED BY <1>0, <2>1 DEF DurableInv, StoppedOK, ReadersOK, RenamedOK, CacheIsDurable
<1>5. CASE Crash
  <2>1. /\ disk' = disk /\ cachedData' = Nothing /\ lastWritten' = Nothing /\ queue' = <<>>
        /\ stage' = "idle" /\ \A l \in Loaders : loader'[l].pc = "idle"
    BY <1>5 DEF Crash, files, IdleLoader
  <2> QED BY <1>0, <2>1 DEF DurableInv, StoppedOK, ReadersOK, RenamedOK, CacheIsDurable
<1>6. CASE Damage
  <2>1. /\ ~up /\ up' = up /\ cachedData' = cachedData /\ lastWritten' = lastWritten
        /\ loader' = loader /\ queue' = queue /\ stage' = stage
    BY <1>6 DEF Damage, memory, running
  <2>2. cachedData = Nothing /\ lastWritten = Nothing /\ queue = <<>> /\ stage = "idle"
        /\ \A l \in Loaders : loader[l].pc = "idle"
    BY <2>1 DEF DurableInv, StoppedOK, TypeInv, StageOK, CallersOK
  <2> QED BY <1>0, <2>1, <2>2 DEF DurableInv, StoppedOK, ReadersOK, RenamedOK, CacheIsDurable
<1> QED BY <1>1, <1>2, <1>3, <1>4, <1>5, <1>6 DEF Next

\* As long as loadData calls do not overlap, memory never disagrees with the file once a
\* write is over: a skipped write is really there, and the next mutation builds on what a
\* restart would load.
THEOREM CacheDurable == ASSUME OneLoader PROVE Spec => []CacheIsDurable
<1>1. Init => DurableInv
  <2> SUFFICES ASSUME Init PROVE DurableInv
    OBVIOUS
  <2>1. \A l \in Loaders : loader[l].pc = "idle"
    BY DEF Init, IdleLoader
  <2> QED BY <2>1, InitTypeInv DEF Init, DurableInv, StoppedOK, ReadersOK, RenamedOK, CacheIsDurable
<1>2. DurableInv /\ [Next]_vars => DurableInv'
  BY NextDurable
<1>3. DurableInv => CacheIsDurable
  BY DEF DurableInv
<1> QED BY <1>1, <1>2, <1>3, PTL DEF Spec

-----------------------------------------------------------------------------
\* The staged store implements the atomic one, when loadData calls do not overlap.

\* What is on its way to the file is what the running task makes of the cached profile.
WritingOK ==
    stage \in {"temp", "rename"} =>
        LET t == task[Head(queue)]
        IN /\ Accepted(t, cachedData)
           /\ mainDownloads = DownloadsAfter(t, cachedData, priorDownloads)
           /\ next = Written(t, cachedData, priorDownloads)

\* A recovery is picked for a file that is damaged.
PickedOK == \A l \in Loaders : loader[l].pc = "picked" => loader[l].raw \in Damaged

\* A loader's save runs ahead of every other task, and its profile is the cached one
\* unless it recovers from a damaged file.
SavingOK ==
    \A l \in Loaders : task[l] # NoTask =>
        /\ queue # <<>> /\ Head(queue) = l /\ mainDownloads = Nothing
        /\ stage # "renamed" =>
              IF cachedData = Nothing THEN disk \in Damaged ELSE task[l].data = cachedData

AtomicInv == DurableInv /\ WritingOK /\ PickedOK /\ SavingOK

\* Before anything is cached only a loader can have queued something.
LEMMA NothingQueued ==
    ASSUME OneLoader, TypeInv, NEW l \in Loaders, loader[l].pc # "saving", cachedData = Nothing
    PROVE  queue = <<>> /\ stage = "idle" /\ mainDownloads = Nothing /\ task[l] = NoTask
<1>1. \A p \in Procs : task[p] = NoTask
  BY DEF TypeInv, CallersOK, LoadersOK, OneLoader, Procs
<1>2. \A i \in 1 .. Len(queue) : queue[i] \in Procs /\ task[queue[i]] # NoTask
  BY DEF TypeInv, TypeOK, QueueOK
<1>3. queue \in Seq(Procs)
  BY DEF TypeInv, TypeOK
<1>4. queue = <<>>
  <2>1. ~(1 \in 1 .. Len(queue))
    BY <1>1, <1>2
  <2>2. Len(queue) = 0
    BY <1>3, <2>1
  <2> QED BY <1>3, <2>2
<1>5. mainDownloads = Nothing
  BY DEF TypeInv, CallersOK
<1>6. stage = "idle"
  BY <1>4 DEF TypeInv, StageOK
<1>7. l \in Procs
  BY DEF Procs
<1> QED BY <1>1, <1>4, <1>5, <1>6, <1>7

\* Nobody waits for a loader's save that has settled.
LEMMA SettleAtomicInv ==
    ASSUME AtomicInv, NEW p, NEW s, Runs(p, s), Settle(p), DurableInv'
    PROVE  AtomicInv'
<1>1. TypeInv /\ p \in Procs /\ queue # <<>> /\ Head(queue) = p
  BY RunningTask DEF AtomicInv, DurableInv
<1>2. /\ stage' = "idle"
      /\ \A q \in Procs : task'[q] = NoTask \/ (q # p /\ task'[q] = task[q])
      /\ \A l \in Loaders : loader'[l] = IF l = p THEN IdleLoader ELSE loader[l]
  BY <1>1, SettleKeeps
<1>3. WritingOK'
  BY <1>2 DEF WritingOK
<1>4. PickedOK'
  BY <1>2 DEF AtomicInv, PickedOK, IdleLoader
<1>5. SavingOK'
  <2>1. \A l \in Loaders : l \in Procs
    BY DEF Procs
  <2>2. \A l \in Loaders : task'[l] = NoTask
    BY <1>1, <1>2, <2>1 DEF AtomicInv, SavingOK
  <2> QED BY <2>2 DEF SavingOK
<1> QED BY <1>3, <1>4, <1>5 DEF AtomicInv

\* A task on its way keeps what is said of it, as long as the file and memory stay.
LEMMA ContinueAtomicInv ==
    ASSUME AtomicInv, NEW p, NEW s, Runs(p, s), NEW r \in Stages, Continue(r), DurableInv',
           r = "renamed" \/ (disk' = disk /\ s # "renamed"),
           cachedData' = cachedData,
           p \in Loaders => mainDownloads' = mainDownloads,
           r \in {"temp", "rename"} => WritingOK'
    PROVE  AtomicInv'
<1>1. TypeInv /\ p \in Procs /\ queue # <<>> /\ Head(queue) = p
  BY RunningTask DEF AtomicInv, DurableInv
<1>2. queue' = queue /\ task' = task /\ loader' = loader /\ stage' = r
  BY DEF Continue
<1>3. WritingOK'
  BY <1>2 DEF WritingOK
<1>4. PickedOK'
  BY <1>2 DEF AtomicInv, PickedOK
<1>5. SavingOK'
  BY <1>1, <1>2 DEF AtomicInv, SavingOK, Runs
<1> QED BY <1>3, <1>4, <1>5 DEF AtomicInv

\* The tasks' steps keep the invariant.
LEMMA StepAtomicInv ==
    ASSUME OneLoader, AtomicInv, NEW p \in Procs, Step(p) \/ StepFails(p)
    PROVE  AtomicInv'
<1>0. DurableInv'
  BY StepDurable DEF AtomicInv
<1>1. ASSUME Settle(p), NEW s, Runs(p, s) PROVE AtomicInv'
  BY <1>0, <1>1, SettleAtomicInv
<1>2. CASE StepFails(p)
  <2>1. Settle(p) /\ \E s : Runs(p, s)
    BY <1>2 DEF StepFails, CopyBeforeReplaceFails, WriteFails
  <2> QED BY <1>1, <2>1
<1>3. CASE Refuse(p) \/ ReadBack(p)
  <2>1. Settle(p) /\ \E s : Runs(p, s)
    BY <1>3 DEF Refuse, ReadBack, Ready
  <2> QED BY <1>1, <2>1
<1>4. ASSUME NEW s, Runs(p, s), Continue("readback"), p \notin Loaders,
             disk' = disk, cachedData' = cachedData \/ s = "renamed"
      PROVE  AtomicInv'
  <2>1. queue' = queue /\ task' = task /\ loader' = loader /\ stage' = "readback"
        /\ queue # <<>> /\ Head(queue) = p
    BY <1>4 DEF Continue, Runs
  <2>2. \A l \in Loaders : task[l] = NoTask
    BY <1>4, <2>1 DEF AtomicInv, SavingOK
  <2>3. WritingOK' /\ PickedOK' /\ SavingOK'
    BY <2>1, <2>2 DEF AtomicInv, WritingOK, PickedOK, SavingOK
  <2> QED BY <1>0, <2>3 DEF AtomicInv
<1>5. ASSUME task[p].kind \in {"commit", "extension"}, NEW s, Runs(p, s) PROVE p \notin Loaders
  <2>1. p \in Loaders => task[p].kind \in {"first save", "recovery"}
    BY <1>5, RunningTask DEF AtomicInv, DurableInv
  <2> QED BY <1>5, <2>1
<1>6. CASE AnswerFromReceipt(p)
  <2>1. PICK s : Runs(p, s)
    BY <1>6 DEF AnswerFromReceipt, Ready
  <2>2. disk' = disk /\ cachedData' = cachedData
    BY <1>6 DEF AnswerFromReceipt, files, memory
  <2>3. Settle(p) \/ (task[p].kind = "commit" /\ Continue("readback"))
    BY <1>6 DEF AnswerFromReceipt
  <2> QED BY <1>1, <1>4, <1>5, <2>1, <2>2, <2>3
<1>7. CASE SkipUnchangedWrite(p)
  <2>1. PICK s : Runs(p, s)
    BY <1>7 DEF SkipUnchangedWrite, Proceeds, Ready
  <2>2. disk' = disk /\ cachedData' = cachedData
    BY <1>7 DEF SkipUnchangedWrite, files
  <2>3. Settle(p) \/ (task[p].kind \in {"commit", "extension"} /\ Continue("readback"))
    BY <1>7 DEF SkipUnchangedWrite, Finish
  <2> QED BY <1>1, <1>4, <1>5, <2>1, <2>2, <2>3
<1>8. CASE RecordWrite(p)
  <2>1. Runs(p, "renamed") /\ disk' = disk
    BY <1>8 DEF RecordWrite, files
  <2>2. Settle(p) \/ (task[p].kind \in {"commit", "extension"} /\ Continue("readback"))
    BY <1>8 DEF RecordWrite, Finish
  <2> QED BY <1>1, <1>4, <1>5, <2>1, <2>2
<1>9. CASE CopyBeforeReplace(p)
  <2>1. Runs(p, "idle") /\ Continue("copied") /\ disk' = disk /\ cachedData' = cachedData
        /\ mainDownloads' = mainDownloads /\ "copied" \in Stages
    BY <1>9 DEF CopyBeforeReplace, memory, Stages
  <2> QED BY <1>0, <2>1, ContinueAtomicInv
<1>10. CASE WriteTemp(p)
  <2>1. PICK s : Runs(p, s) /\ s # "renamed"
    BY <1>10 DEF WriteTemp, Proceeds, Ready
  <2>2. /\ Continue("temp") /\ disk' = disk /\ cachedData' = cachedData /\ "temp" \in Stages
        /\ Accepted(task[p], cachedData) /\ priorDownloads' = mainDownloads
        /\ mainDownloads' = DownloadsAfter(task[p], cachedData, mainDownloads)
        /\ next' = Written(task[p], cachedData, mainDownloads)
    BY <1>10 DEF WriteTemp, Proceeds, Result, files, Stages
  <2>3. p \in Loaders => mainDownloads' = mainDownloads
    BY <2>1, <2>2, ResultIsProfile DEF AtomicInv, DurableInv
  <2>4. Head(queue') = p /\ task' = task
    BY <2>1, <2>2 DEF Runs, Continue
  <2>5. WritingOK'
    BY <2>2, <2>4 DEF WritingOK
  <2> QED BY <1>0, <2>1, <2>2, <2>3, <2>5, ContinueAtomicInv
<1>11. CASE RollingBackup(p)
  <2>1. /\ Runs(p, "temp") /\ Continue("rename") /\ disk' = disk /\ cachedData' = cachedData
        /\ mainDownloads' = mainDownloads /\ next' = next /\ priorDownloads' = priorDownloads
        /\ "rename" \in Stages
    BY <1>11 DEF RollingBackup, memory, Stages
  <2>2. WritingOK'
    BY <2>1 DEF AtomicInv, WritingOK, Runs, Continue
  <2> QED BY <1>0, <2>1, <2>2, ContinueAtomicInv
<1>12. CASE Rename(p)
  <2>1. Runs(p, "rename") /\ Continue("renamed") /\ cachedData' = cachedData
        /\ mainDownloads' = mainDownloads /\ "renamed" \in Stages
    BY <1>12 DEF Rename, memory, Stages
  <2> QED BY <1>0, <2>1, ContinueAtomicInv
<1> QED BY <1>2, <1>3, <1>6, <1>7, <1>8, <1>9, <1>10, <1>11, <1>12 DEF Step

\* loadData keeps the invariant: it queues its save when nothing else is queued.
LEMMA LoadAtomicInv ==
    ASSUME OneLoader, AtomicInv, NEW l \in Loaders, Load(l)
    PROVE  AtomicInv'
<1>0. /\ DurableInv' /\ TypeInv /\ loader \in [Loaders -> Loading] /\ loader[l] \in Loading
      /\ \A m \in Loaders : m = l
      /\ task \in [Procs -> Tasks] /\ l \in Procs
  BY LoadDurable DEF AtomicInv, DurableInv, TypeInv, TypeOK, OneLoader, Procs
<1>1. CASE LoadRead(l)
  <2>1. /\ loader'[l].pc = "read" /\ disk' = disk
        /\ UNCHANGED memory /\ UNCHANGED running
    BY <1>0, <1>1 DEF LoadRead, files, Loading
  <2> QED BY <1>0, <2>1 DEF AtomicInv, WritingOK, PickedOK, SavingOK, memory, running
<1> DEFINE Starting == /\ loader[l].pc # "saving" /\ cachedData = Nothing /\ stage' = stage
                       /\ mainDownloads' = mainDownloads /\ loader'[l].pc # "picked"
<1>2. Starting => /\ queue = <<>> /\ stage = "idle" /\ mainDownloads = Nothing
                  /\ task[l] = NoTask /\ WritingOK' /\ PickedOK'
  BY <1>0, NothingQueued DEF WritingOK, PickedOK
<1>3. Starting /\ queue' = queue /\ task' = task => AtomicInv'
  <2>1. Starting /\ queue' = queue /\ task' = task => SavingOK'
    BY <1>0, <1>2 DEF SavingOK
  <2> QED BY <1>0, <1>2, <2>1 DEF AtomicInv
<1>4. ASSUME Starting, NEW t, Enqueue(l, t),
             IF cachedData' = Nothing THEN disk' \in Damaged ELSE t.data = cachedData'
      PROVE  AtomicInv'
  <2>1. queue' = <<l>> /\ task'[l] = t
    <3>1. queue = <<>> /\ queue' = Append(queue, l) /\ task' = [task EXCEPT ![l] = t]
      BY <1>2, <1>4 DEF Enqueue
    <3> QED BY <1>0, <3>1
  <2>2. queue' # <<>> /\ Head(queue') = l
    BY <2>1
  <2>3. SavingOK'
    BY <1>0, <1>2, <1>4, <2>1, <2>2 DEF SavingOK
  <2> QED BY <1>0, <1>2, <1>4, <2>3 DEF AtomicInv
<1>5. CASE LoadParsed(l)
  <2>1. loader[l].pc # "saving" /\ stage' = stage /\ mainDownloads' = mainDownloads
        /\ cachedData' = Loaded(loader[l].raw) /\ loader[l].raw \in Profile
    BY <1>5 DEF LoadParsed
  <2>2. cachedData = Nothing
    BY <1>0, <1>5 DEF LoadParsed, AtomicInv, DurableInv, ReadersOK
  <2>3. cachedData' # Nothing
    BY <2>1, MigratedIsProfile, Distinct DEF Loaded
  <2>4. CASE loader[l].raw.schema = "current"
    <3>1. loader'[l].pc # "picked" /\ queue' = queue /\ task' = task
      BY <1>0, <1>5, <2>4 DEF LoadParsed, IdleLoader
    <3> QED BY <1>3, <2>1, <2>2, <3>1
  <2>5. CASE loader[l].raw.schema # "current"
    <3>1. /\ loader'[l].pc # "picked"
          /\ Enqueue(l, [kind |-> "first save", data |-> cachedData'])
      BY <1>0, <1>5, <2>5 DEF LoadParsed, Loading
    <3> QED BY <1>4, <2>1, <2>2, <2>3, <3>1
  <2> QED BY <2>4, <2>5
<1>6. CASE LoadMissing(l)
  <2>1. /\ loader[l].pc # "saving" /\ stage' = stage /\ mainDownloads' = mainDownloads
        /\ cachedData' = DefaultData /\ loader'[l].pc # "picked"
        /\ Enqueue(l, [kind |-> "first save", data |-> cachedData'])
    BY <1>0, <1>6 DEF LoadMissing, Loading, Loaded
  <2>2. cachedData = Nothing
    BY <1>0, <1>6 DEF LoadMissing, AtomicInv, DurableInv, ReadersOK
  <2>3. cachedData' # Nothing
    BY <2>1, DefaultIsProfile, Distinct
  <2> QED BY <1>4, <2>1, <2>2, <2>3
<1>7. CASE PickRecovery(l)
  <2>1. PICK pick : loader' = [loader EXCEPT ![l] = [@ EXCEPT !.pc = "picked", !.pick = pick]]
    BY <1>7 DEF PickRecovery
  <2>2. loader'[l].raw = loader[l].raw /\ loader[l].raw \in Damaged /\ disk' = disk
        /\ UNCHANGED memory /\ UNCHANGED running
    BY <1>0, <1>7, <2>1 DEF PickRecovery, Loading, files
  <2> QED BY <1>0, <2>2 DEF AtomicInv, WritingOK, PickedOK, SavingOK, memory, running
<1>8. CASE KeepRejected(l)
  <2>1. /\ loader[l].pc = "picked" /\ stage' = stage /\ mainDownloads' = mainDownloads
        /\ cachedData' = cachedData /\ loader'[l].pc # "picked" /\ disk' = loader[l].raw
        /\ Enqueue(l, [kind |-> "recovery", data |-> loader[l].pick])
    BY <1>0, <1>8 DEF KeepRejected, Loading, memory
  <2>2. cachedData = Nothing /\ disk' \in Damaged
    BY <2>1 DEF AtomicInv, DurableInv, ReadersOK, PickedOK
  <2> QED BY <1>4, <2>1, <2>2
<1>9. CASE KeepRejectedFails(l)
  <2>1. /\ loader[l].pc = "picked" /\ stage' = stage /\ mainDownloads' = mainDownloads
        /\ loader'[l].pc # "picked" /\ queue' = queue /\ task' = task
    BY <1>0, <1>9 DEF KeepRejectedFails, IdleLoader, memory, running
  <2>2. cachedData = Nothing
    BY <2>1 DEF AtomicInv, DurableInv, ReadersOK
  <2> QED BY <1>3, <2>1, <2>2
<1> QED BY <1>1, <1>5, <1>6, <1>7, <1>8, <1>9 DEF Load

\* AtomicInv is inductive.
LEMMA NextAtomicInv == ASSUME OneLoader PROVE AtomicInv /\ [Next]_vars => AtomicInv'
<1> SUFFICES ASSUME AtomicInv, [Next]_vars PROVE AtomicInv'
  OBVIOUS
<1>0. DurableInv' /\ TypeInv
  BY NextDurable DEF AtomicInv, DurableInv
<1>1. ASSUME NEW l \in Loaders, Load(l) PROVE AtomicInv'
  BY <1>1, LoadAtomicInv
<1>2. ASSUME NEW p \in Procs, Step(p) \/ StepFails(p) PROVE AtomicInv'
  BY <1>2, StepAtomicInv
<1>3. ASSUME NEW c \in Clients, Request(c) PROVE AtomicInv'
  <2>1. PICK t : Submit(c, t)
    BY <1>3 DEF Request, SaveRendererData, SaveSnapshot, UpsertDownload,
                ClearCompletedDownloads, CommitImportData, RecordImportExtensionResult,
                ReplaceDataFromImport, RestoreStorageBackup
  <2>2. /\ queue' = Append(queue, c) /\ task' = [task EXCEPT ![c] = t]
        /\ disk' = disk /\ UNCHANGED memory /\ loader' = loader /\ stage' = stage
        /\ next' = next /\ priorDownloads' = priorDownloads
        /\ queue \in Seq(Procs) /\ c \in Procs /\ task \in [Procs -> Tasks] /\ task[c] = NoTask
    BY <1>0, <2>1 DEF Submit, Enqueue, files, TypeInv, TypeOK, Procs
  <2>3. queue # <<>> => /\ queue' # <<>> /\ Head(queue') = Head(queue)
                        /\ Head(queue) # c /\ task'[Head(queue)] = task[Head(queue)]
    <3>1. ASSUME queue # <<>>
          PROVE  queue' # <<>> /\ Head(queue') = Head(queue)
      BY <2>2, <3>1
    <3>2. queue # <<>> => Head(queue) # c /\ Head(queue) \in Procs
      <4>1. queue # <<>> => 1 \in 1 .. Len(queue) /\ Head(queue) = queue[1] /\ queue[1] \in Procs
        BY <2>2
      <4> QED BY <1>0, <2>2, <4>1 DEF TypeInv, QueueOK
    <3> QED BY <2>2, <3>1, <3>2
  <2>4. \A l \in Loaders : task'[l] = task[l]
    BY <2>2, Separate DEF Procs
  <2>5. WritingOK'
    <3>1. stage \in {"temp", "rename"} => queue # <<>>
      BY <1>0 DEF TypeInv, StageOK
    <3> QED BY <2>2, <2>3, <3>1 DEF AtomicInv, WritingOK, memory
  <2>6. PickedOK' /\ SavingOK'
    BY <2>2, <2>3, <2>4 DEF AtomicInv, PickedOK, SavingOK, memory
  <2> QED BY <1>0, <2>5, <2>6 DEF AtomicInv
<1>4. CASE Hydrate \/ BackUpManually \/ Boot \/ UNCHANGED vars
  <2>1. /\ disk' = disk /\ UNCHANGED memory /\ loader' = loader /\ UNCHANGED running
    BY <1>4 DEF Hydrate, BackUpManually, Boot, vars, files, memory, running
  <2> QED BY <1>0, <2>1 DEF AtomicInv, WritingOK, PickedOK, SavingOK, memory, running
<1>5. CASE Crash
  <2>1. /\ stage' = "idle" /\ \A l \in Loaders : loader'[l].pc = "idle" /\ task'[l] = NoTask
    BY <1>5 DEF Crash, IdleLoader, Procs
  <2> QED BY <1>0, <2>1 DEF AtomicInv, WritingOK, PickedOK, SavingOK
<1>6. CASE Damage
  <2>1. /\ ~up /\ loader' = loader /\ UNCHANGED running
    BY <1>6 DEF Damage, memory
  <2>2. queue = <<>> /\ stage = "idle"
    BY <2>1 DEF AtomicInv, DurableInv, StoppedOK, TypeInv, StageOK
  <2> QED BY <1>0, <2>1, <2>2 DEF AtomicInv, WritingOK, PickedOK, SavingOK, running
<1> QED BY <1>1, <1>2, <1>3, <1>4, <1>5, <1>6 DEF Next

-----------------------------------------------------------------------------
\* The refinement mapping.

OwnedNow == IF stage \in {"temp", "rename"} THEN priorDownloads ELSE mainDownloads
AskedNow ==
    [c \in Clients |->
        IF stage \in {"renamed", "readback"} /\ Head(queue) = c THEN NoTask ELSE task[c]]

\* The mutations mean the same in both specifications.
LEMMA SameMutations ==
    /\ Atomic!NoTask = NoTask /\ Atomic!Tasks = Tasks
    /\ Atomic!Profile = Profile /\ Atomic!Replacing = Replacing
    /\ \A f : Atomic!Loaded(f) = Loaded(f)
    /\ \A t, cur : Atomic!Accepted(t, cur) = Accepted(t, cur)
    /\ \A t, cur, owned : Atomic!DownloadsAfter(t, cur, owned) = DownloadsAfter(t, cur, owned)
    /\ \A t, cur, owned : Atomic!Written(t, cur, owned) = Written(t, cur, owned)
<1>1. /\ Atomic!NoTask = NoTask /\ Atomic!Profile = Profile /\ Atomic!Replacing = Replacing
      /\ Atomic!Saving = Saving /\ Atomic!DownloadStates = DownloadStates
      /\ Atomic!NoReceipts = NoReceipts /\ Atomic!DefaultData = DefaultData
  BY DEF Atomic!NoTask, NoTask, Atomic!Profile, Profile, Atomic!Replacing, Replacing,
         Atomic!Saving, Saving, Atomic!DownloadStates, DownloadStates,
         Atomic!NoReceipts, NoReceipts, Atomic!DefaultData, DefaultData,
         Atomic!DownloadList, DownloadList, Atomic!ReceiptStates, ReceiptStates,
         Atomic!NoDownloads, NoDownloads
<1>2. Atomic!Tasks = Tasks
  BY <1>1 DEF Atomic!Tasks, Tasks
<1>3. \A f : Atomic!Loaded(f) = Loaded(f)
  BY <1>1 DEF Atomic!Loaded, Loaded, Atomic!Migrated, Migrated
<1>4. \A t, cur, owned : Atomic!DownloadsAfter(t, cur, owned) = DownloadsAfter(t, cur, owned)
  BY <1>1 DEF Atomic!DownloadsAfter, DownloadsAfter, Atomic!OwnedDownloads, OwnedDownloads
<1>5. \A t, cur : Atomic!Candidate(t, cur) = Candidate(t, cur)
  BY <1>1 DEF Atomic!Candidate, Candidate
<1>6. \A t, cur, owned : Atomic!Written(t, cur, owned) = Written(t, cur, owned)
  BY <1>4, <1>5 DEF Atomic!Written, Written, Atomic!Merged, Merged
<1>7. \A t, cur : Atomic!Accepted(t, cur) = Accepted(t, cur)
  BY <1>1, <1>5 DEF Atomic!Accepted, Accepted, Atomic!Answered, Answered, Atomic!Refused, Refused,
         Atomic!StaleImportState, StaleImportState, Atomic!NotPending, NotPending,
         Atomic!StaleGeneration, StaleGeneration, Atomic!GenerationAdvance, GenerationAdvance,
         Atomic!ImportGeneration, ImportGeneration, Atomic!ImportState, ImportState
<1> QED BY <1>1, <1>2, <1>3, <1>4, <1>6, <1>7

\* A task becomes asked.
LEMMA AskStep ==
    ASSUME NEW c \in Clients, NEW t \in Tasks, AskedNow[c] = NoTask, disk \notin Damaged,
           AskedNow' = [AskedNow EXCEPT ![c] = t], OwnedNow' = OwnedNow, disk' = disk
    PROVE  Atomic!Ask(c)
<1>1. AskedNow'[c] = t
  BY DEF AskedNow
<1>2. AskedNow' = [AskedNow EXCEPT ![c] = AskedNow'[c]]
  BY <1>1
<1>3. Atomic!NoTask = NoTask /\ Atomic!Tasks = Tasks
  BY SameMutations
<1>4. AskedNow[c] = Atomic!NoTask
  BY <1>3
<1>5. AskedNow'[c] \in Atomic!Tasks
  BY <1>1, <1>3
<1> QED BY <1>2, <1>4, <1>5 DEF Atomic!Ask, AskedNow, OwnedNow

\* An asked task takes effect on the file.
LEMMA ApplyStep ==
    ASSUME NEW c \in Clients, AskedNow[c] # NoTask, disk \notin Damaged,
           Accepted(AskedNow[c], Loaded(disk)),
           disk' = Written(AskedNow[c], Loaded(disk), OwnedNow),
           OwnedNow' = DownloadsAfter(AskedNow[c], Loaded(disk), OwnedNow),
           AskedNow' = [AskedNow EXCEPT ![c] = NoTask]
    PROVE  Atomic!Apply(c)
<1>1. /\ AskedNow[c] # Atomic!NoTask
      /\ AskedNow' = [AskedNow EXCEPT ![c] = Atomic!NoTask]
  BY SameMutations
<1>2. Atomic!Accepted(AskedNow[c], Atomic!Loaded(disk))
  BY SameMutations
<1>3. disk' = Atomic!Written(AskedNow[c], Atomic!Loaded(disk), OwnedNow)
  BY SameMutations
<1>4. OwnedNow' = Atomic!DownloadsAfter(AskedNow[c], Atomic!Loaded(disk), OwnedNow)
  BY SameMutations
<1> QED BY <1>1, <1>2, <1>3, <1>4 DEF Atomic!Apply, AskedNow, OwnedNow

\* An asked task is given up.
LEMMA DeclineStep ==
    ASSUME NEW c \in Clients, AskedNow[c] # NoTask, disk' = disk,
           \/ OwnedNow' = OwnedNow
           \/ /\ AskedNow[c].kind \notin Replacing
              /\ OwnedNow' = DownloadsAfter(AskedNow[c], Loaded(disk), OwnedNow),
           AskedNow' = [AskedNow EXCEPT ![c] = NoTask]
    PROVE  Atomic!Decline(c)
<1>1. /\ AskedNow[c] # Atomic!NoTask
      /\ AskedNow' = [AskedNow EXCEPT ![c] = Atomic!NoTask]
  BY SameMutations
<1>2. OwnedNow' \in {OwnedNow} \union
          IF AskedNow[c].kind \in Atomic!Replacing THEN {}
          ELSE {Atomic!DownloadsAfter(AskedNow[c], Atomic!Loaded(disk), OwnedNow)}
  BY SameMutations
<1> QED BY <1>1, <1>2 DEF Atomic!Decline, AskedNow, OwnedNow

Stutters == AskedNow' = AskedNow /\ OwnedNow' = OwnedNow /\ disk' = disk

\* What leaves the file, the list taken over and the asked tasks alone is a stutter.
LEMMA StutterStep == Stutters => UNCHANGED Atomic!vars
BY DEF Stutters, Atomic!vars, AskedNow, OwnedNow

\* Once its file is written, or if none will be, the running task asks nothing any more.
Late == {"renamed", "readback"}

LEMMA TaskEnds ==
    ASSUME AtomicInv, NEW p, NEW s, Runs(p, s), s \notin Late,
           Settle(p) \/ \E r \in Late : Continue(r)
    PROVE  /\ p \in Clients => /\ AskedNow[p] = task[p] /\ AskedNow[p] # NoTask
                               /\ AskedNow' = [AskedNow EXCEPT ![p] = NoTask]
           /\ p \in Loaders => AskedNow' = AskedNow
<1>1. TypeInv /\ p \in Procs /\ queue # <<>> /\ Head(queue) = p /\ task[p] # NoTask
      /\ stage = s
  BY RunningTask DEF AtomicInv, DurableInv, Runs
<1>2. \A c \in Clients : AskedNow[c] = task[c] /\ c \in Procs
  BY <1>1 DEF AskedNow, Late, Procs
<1>3. \A c \in Clients : AskedNow'[c] = IF c = p THEN NoTask ELSE task[c]
  <2>1. CASE Settle(p)
    <3>1. stage' = "idle" /\ task' = [task EXCEPT ![p] = NoTask] /\ task \in [Procs -> Tasks]
      BY <1>1, <2>1, SettleKeeps DEF TypeInv, TypeOK
    <3> QED BY <1>1, <1>2, <3>1 DEF AskedNow
  <2>2. ASSUME NEW r \in Late, Continue(r)
        PROVE  \A c \in Clients : AskedNow'[c] = IF c = p THEN NoTask ELSE task[c]
    BY <1>1, <1>2, <2>2 DEF AskedNow, Continue, Late
  <2> QED BY <2>1, <2>2
<1>4. AskedNow = [c \in Clients |-> AskedNow[c]] /\ AskedNow' = [c \in Clients |-> AskedNow'[c]]
  BY DEF AskedNow
<1>5. p \in Clients => AskedNow' = [AskedNow EXCEPT ![p] = NoTask]
  BY <1>2, <1>3, <1>4
<1>6. p \in Loaders => AskedNow' = AskedNow
  <2>1. p \in Loaders => \A c \in Clients : AskedNow'[c] = AskedNow[c]
    BY <1>2, <1>3, Separate
  <2> QED BY <2>1, <1>4
<1> QED BY <1>1, <1>2, <1>5, <1>6

\* Otherwise a step of the running task changes nothing about what is asked.
LEMMA TaskGoesOn ==
    ASSUME AtomicInv, NEW p, NEW s, Runs(p, s),
           \/ s \in Late /\ (Settle(p) \/ \E r \in Late : Continue(r))
           \/ s \notin Late /\ \E r \in Stages \ Late : Continue(r)
    PROVE  AskedNow' = AskedNow
<1>1. TypeInv /\ p \in Procs /\ queue # <<>> /\ Head(queue) = p /\ stage = s
  BY RunningTask DEF AtomicInv, DurableInv, Runs
<1>2. CASE \E r \in Stages : Continue(r) /\ (s \in Late <=> r \in Late)
  BY <1>1, <1>2 DEF AskedNow, Continue, Late
<1>3. CASE s \in Late /\ Settle(p)
  <2>1. stage' = "idle" /\ task' = [task EXCEPT ![p] = NoTask] /\ task \in [Procs -> Tasks]
    BY <1>1, <1>3, SettleKeeps DEF TypeInv, TypeOK
  <2>2. \A c \in Clients : c \in Procs
    BY DEF Procs
  <2> QED BY <1>1, <1>3, <2>1, <2>2 DEF AskedNow, Late
<1>4. Late \subseteq Stages
  BY DEF Late, Stages
<1> QED BY <1>2, <1>3, <1>4

\* What the file holds while a task is on its way, whoever asked for it.
LEMMA RunningFacts ==
    ASSUME AtomicInv, NEW p, NEW s, Runs(p, s), s # "renamed"
    PROVE  /\ p \in Procs
           /\ p \in Clients => /\ cachedData = Loaded(disk) /\ disk \notin Damaged
                               /\ lastWritten # Nothing => disk = lastWritten
           /\ p \in Loaders => \A owned : DownloadsAfter(task[p], cachedData, owned) = owned
<1>1. /\ TypeInv /\ p \in Procs
      /\ p \in Clients => cachedData \in Profile
      /\ p \in Loaders => task[p].kind \in {"first save", "recovery"}
  BY RunningTask DEF AtomicInv, DurableInv
<1>2. p \in Clients => /\ cachedData = Loaded(disk) /\ disk \notin Damaged
                       /\ lastWritten # Nothing => disk = lastWritten
  <2>1. p \in Clients => cachedData # Nothing /\ stage # "renamed"
    BY <1>1, Distinct DEF Runs
  <2> QED BY <2>1 DEF AtomicInv, DurableInv, CacheIsDurable
<1>3. p \in Loaders => \A owned : DownloadsAfter(task[p], cachedData, owned) = owned
  BY <1>1 DEF DownloadsAfter, Replacing
<1> QED BY <1>1, <1>2, <1>3

\* A loader's save replaces the file by what loadData made of it, or a damaged one by a
\* recovered profile.
LEMMA LoaderRenames ==
    ASSUME OneLoader, AtomicInv, NEW l \in Loaders, Rename(l)
    PROVE  /\ OwnedNow' = OwnedNow
           /\ \/ disk \notin Damaged /\ disk' = Loaded(disk)
              \/ disk \in Damaged /\ disk' \in Profile
<1>1. /\ Runs(l, "rename") /\ Continue("renamed") /\ disk' = next
      /\ mainDownloads' = mainDownloads /\ stage = "rename" /\ stage' = "renamed"
  BY DEF Rename, Runs, Continue, memory
<1>2. /\ TypeInv /\ Head(queue) = l /\ task[l] # NoTask /\ task[l] \in Tasks
      /\ task[l].kind \in {"first save", "recovery"}
  BY <1>1, RunningTask DEF AtomicInv, DurableInv
<1>3. /\ mainDownloads = Nothing
      /\ IF cachedData = Nothing THEN disk \in Damaged ELSE task[l].data = cachedData
  BY <1>1, <1>2 DEF AtomicInv, SavingOK
<1>4. /\ mainDownloads = DownloadsAfter(task[l], cachedData, priorDownloads)
      /\ next = Written(task[l], cachedData, priorDownloads)
  BY <1>1, <1>2 DEF AtomicInv, WritingOK
<1>5. DownloadsAfter(task[l], cachedData, priorDownloads) = priorDownloads
  BY <1>1, RunningFacts
<1>6. OwnedNow' = OwnedNow
  BY <1>1, <1>4, <1>5 DEF OwnedNow
<1>7. next \in Profile
  BY <1>1, <1>2 DEF TypeInv, StageOK
<1>8. CASE cachedData = Nothing
  BY <1>1, <1>3, <1>6, <1>7, <1>8
<1>9. CASE cachedData # Nothing
  <2>1. cachedData \in Profile /\ cachedData = Loaded(disk) /\ disk \notin Damaged
    BY <1>1, <1>2, <1>9 DEF AtomicInv, DurableInv, CacheIsDurable, TypeInv, TypeOK
  <2>2. Loaded(disk).schema = "current"
    <3>1. disk \in Profile \/ disk = Absent
      BY <1>2, <2>1 DEF TypeInv, TypeOK, FileContents
    <3>2. disk \in Profile => disk # Absent
      BY Distinct
    <3>3. DefaultData.schema = "current"
      BY DEF DefaultData
    <3> QED BY <3>1, <3>2, <3>3, MigratedIsProfile DEF Loaded
  <2>3. Candidate(task[l], cachedData) = cachedData
    BY <1>2, <1>3, <1>9 DEF Candidate, Saving, Replacing
  <2>4. next = Merged(cachedData, Nothing)
    BY <1>3, <1>4, <2>3 DEF Written
  <2>5. cachedData.schema = "current"
    BY <2>1, <2>2
  <2>6. next = cachedData
    <3>1. Merged(cachedData, Nothing) = [cachedData EXCEPT !.schema = "current", !.dl = @]
      BY Zenon DEF Merged
    <3>2. [cachedData EXCEPT !.schema = "current", !.dl = @] = cachedData
      BY <2>1, <2>5 DEF Profile
    <3> QED BY <2>4, <3>1, <3>2
  <2> QED BY <1>1, <1>6, <2>1, <2>6
<1> QED BY <1>8, <1>9

\* A step of the running task is a step of the atomic store or a stutter.
LEMMA StepImplements ==
    ASSUME OneLoader, AtomicInv, NEW p \in Procs, Step(p) \/ StepFails(p)
    PROVE  Atomic!Next \/ Stutters
<1>1. CASE CopyBeforeReplace(p) \/ WriteTemp(p) \/ RollingBackup(p)
  <2>1. PICK s \in {"idle", "copied", "temp"}, r \in {"copied", "temp", "rename"} :
            Runs(p, s) /\ Continue(r)
    BY <1>1 DEF CopyBeforeReplace, WriteTemp, RollingBackup, Proceeds, Ready
  <2>2. AskedNow' = AskedNow
    BY <2>1, TaskGoesOn DEF Late, Stages
  <2>3. disk' = disk
    BY <1>1 DEF CopyBeforeReplace, WriteTemp, RollingBackup, files
  <2>4. OwnedNow' = OwnedNow
    BY <1>1 DEF CopyBeforeReplace, WriteTemp, RollingBackup, Proceeds, Ready, Runs, Continue,
                memory, OwnedNow
  <2> QED BY <2>2, <2>3, <2>4 DEF Stutters
<1>2. CASE RecordWrite(p) \/ ReadBack(p)
  <2>1. PICK s \in Late : Runs(p, s) /\ (Settle(p) \/ Continue("readback"))
    BY <1>2 DEF RecordWrite, ReadBack, Finish, Late
  <2>2. AskedNow' = AskedNow
    BY <2>1, TaskGoesOn DEF Late
  <2>3. disk' = disk /\ mainDownloads' = mainDownloads /\ stage \in Late
        /\ stage' \in {"idle", "readback"}
    BY <1>2, <2>1 DEF RecordWrite, ReadBack, files, memory, Runs, Settle, Continue
  <2> QED BY <2>2, <2>3 DEF Stutters, OwnedNow, Late
<1>3. CASE Refuse(p) \/ AnswerFromReceipt(p) \/ CopyBeforeReplaceFails(p)
  <2>1. PICK s \in {"idle", "copied"} : Runs(p, s) /\ (Settle(p) \/ Continue("readback"))
    BY <1>3 DEF Refuse, AnswerFromReceipt, CopyBeforeReplaceFails, Ready
  <2>2. /\ p \in Clients => /\ AskedNow[p] # NoTask
                            /\ AskedNow' = [AskedNow EXCEPT ![p] = NoTask]
        /\ p \in Loaders => AskedNow' = AskedNow
    BY <2>1, TaskEnds DEF Late
  <2>3. disk' = disk /\ mainDownloads' = mainDownloads
        /\ stage \in {"idle", "copied"} /\ stage' \in {"idle", "readback"}
    BY <1>3, <2>1 DEF Refuse, AnswerFromReceipt, CopyBeforeReplaceFails, files, memory, Runs,
                      Settle, Continue
  <2>4. OwnedNow' = OwnedNow
    BY <2>3 DEF OwnedNow
  <2>5. p \in Clients => Atomic!Decline(p)
    BY <2>2, <2>3, <2>4, DeclineStep
  <2> QED BY <2>2, <2>3, <2>4, <2>5 DEF Stutters, Procs, Atomic!Next
<1>4. CASE SkipUnchangedWrite(p)
  <2>1. PICK s \in {"idle", "copied"} : Runs(p, s)
    BY <1>4 DEF SkipUnchangedWrite, Proceeds, Ready
  <2>2. /\ Settle(p) \/ Continue("readback")
        /\ Accepted(task[p], cachedData)
        /\ Written(task[p], cachedData, mainDownloads) = lastWritten
        /\ mainDownloads' = DownloadsAfter(task[p], cachedData, mainDownloads)
        /\ disk' = disk
    BY <1>4 DEF SkipUnchangedWrite, Proceeds, Result, Finish, files
  <2>3. /\ p \in Clients => /\ AskedNow[p] = task[p] /\ AskedNow[p] # NoTask
                            /\ AskedNow' = [AskedNow EXCEPT ![p] = NoTask]
        /\ p \in Loaders => AskedNow' = AskedNow
    BY <2>1, <2>2, TaskEnds DEF Late
  <2>4. OwnedNow = mainDownloads /\ OwnedNow' = mainDownloads'
    BY <2>1, <2>2 DEF OwnedNow, Runs, Settle, Continue
  <2>5. /\ p \in Clients => /\ cachedData = Loaded(disk) /\ disk \notin Damaged
                            /\ lastWritten # Nothing => disk = lastWritten
        /\ p \in Loaders => mainDownloads' = mainDownloads
    BY <2>1, <2>2, RunningFacts
  <2>6. lastWritten # Nothing
    <3>1. Result(p) \in Profile
      BY <2>1, ResultIsProfile DEF AtomicInv, DurableInv
    <3> QED BY <2>2, <3>1, Distinct DEF Result
  <2>7. p \in Clients => Atomic!Apply(p)
    BY <2>2, <2>3, <2>4, <2>5, <2>6, ApplyStep
  <2> QED BY <2>2, <2>3, <2>4, <2>5, <2>7 DEF Stutters, Procs, Atomic!Next
<1>5. CASE Rename(p)
  <2>1. /\ Runs(p, "rename") /\ Continue("renamed") /\ disk' = next /\ stage = "rename"
        /\ mainDownloads' = mainDownloads /\ stage' = "renamed" /\ Head(queue) = p
    BY <1>5 DEF Rename, memory, Runs, Continue
  <2>2. /\ p \in Clients => /\ AskedNow[p] = task[p] /\ AskedNow[p] # NoTask
                            /\ AskedNow' = [AskedNow EXCEPT ![p] = NoTask]
        /\ p \in Loaders => AskedNow' = AskedNow
    BY <2>1, TaskEnds DEF Late
  <2>3. CASE p \in Clients
    <3>1. /\ Accepted(task[p], cachedData)
          /\ mainDownloads = DownloadsAfter(task[p], cachedData, priorDownloads)
          /\ next = Written(task[p], cachedData, priorDownloads)
      BY <2>1 DEF AtomicInv, WritingOK
    <3>2. OwnedNow = priorDownloads /\ OwnedNow' = mainDownloads
      BY <2>1 DEF OwnedNow
    <3>3. cachedData = Loaded(disk) /\ disk \notin Damaged
      BY <2>1, <2>3, RunningFacts
    <3>4. Atomic!Apply(p)
      BY <2>1, <2>2, <2>3, <3>1, <3>2, <3>3, ApplyStep
    <3> QED BY <2>3, <3>4 DEF Atomic!Next
  <2>4. CASE p \in Loaders
    <3>1. /\ OwnedNow' = OwnedNow /\ AskedNow' = AskedNow
          /\ \/ disk \notin Damaged /\ disk' = Loaded(disk)
             \/ disk \in Damaged /\ disk' \in Profile
      BY <1>5, <2>2, <2>4, LoaderRenames
    <3>2. Atomic!FirstSave \/ Atomic!Recover
      <4>1. Atomic!Loaded(disk) = Loaded(disk) /\ Atomic!Profile = Profile
        BY SameMutations
      <4> QED BY <3>1, <4>1 DEF Atomic!FirstSave, Atomic!Recover, OwnedNow, AskedNow
    <3> QED BY <3>2 DEF Atomic!Next
  <2> QED BY <2>3, <2>4 DEF Procs
<1>6. CASE WriteFails(p)
  <2>1. PICK s \in {"temp", "rename"} : Runs(p, s)
    BY <1>6 DEF WriteFails
  <2>2. /\ Settle(p) /\ disk' = disk /\ stage \in {"temp", "rename"} /\ stage' = "idle"
        /\ mainDownloads' = IF task[p].kind \in Replacing THEN priorDownloads ELSE mainDownloads
        /\ Head(queue) = p
    BY <1>6, <2>1 DEF WriteFails, files, Runs, Settle
  <2>3. /\ p \in Clients => /\ AskedNow[p] = task[p] /\ AskedNow[p] # NoTask
                            /\ AskedNow' = [AskedNow EXCEPT ![p] = NoTask]
        /\ p \in Loaders => AskedNow' = AskedNow
    BY <2>1, <2>2, TaskEnds DEF Late
  <2>4. OwnedNow = priorDownloads /\ OwnedNow' = mainDownloads'
    BY <2>2 DEF OwnedNow
  <2>5. mainDownloads = DownloadsAfter(task[p], cachedData, priorDownloads)
    BY <2>2 DEF AtomicInv, WritingOK
  <2>6. CASE p \in Clients
    <3>1. cachedData = Loaded(disk)
      BY <2>1, <2>6, RunningFacts
    <3>2. Atomic!Decline(p)
      BY <2>2, <2>3, <2>4, <2>5, <2>6, <3>1, DeclineStep
    <3> QED BY <2>6, <3>2 DEF Atomic!Next
  <2>7. CASE p \in Loaders
    <3>1. DownloadsAfter(task[p], cachedData, priorDownloads) = priorDownloads
      BY <2>1, <2>7, RunningFacts
    <3> QED BY <2>2, <2>3, <2>4, <2>5, <2>7, <3>1 DEF Stutters
  <2> QED BY <2>6, <2>7 DEF Procs
<1> QED BY <1>1, <1>2, <1>3, <1>4, <1>5, <1>6 DEF Step, StepFails

\* A request is a task asked of the atomic store.
LEMMA RequestImplements ==
    ASSUME AtomicInv, NEW c \in Clients, Request(c)
    PROVE  Atomic!Next
<1>0. TypeInv
  BY DEF AtomicInv, DurableInv
<1>1. PICK t : Submit(c, t)
  BY DEF Request, SaveRendererData, SaveSnapshot, UpsertDownload, ClearCompletedDownloads,
         CommitImportData, RecordImportExtensionResult, ReplaceDataFromImport,
         RestoreStorageBackup
<1>2. /\ queue' = Append(queue, c) /\ task' = [task EXCEPT ![c] = t]
      /\ disk' = disk /\ UNCHANGED memory /\ stage' = stage /\ priorDownloads' = priorDownloads
      /\ queue \in Seq(Procs) /\ c \in Procs /\ task \in [Procs -> Tasks] /\ task[c] = NoTask
      /\ cachedData # Nothing
  BY <1>0, <1>1 DEF Submit, Enqueue, files, TypeInv, TypeOK, Procs
<1>3. t \in Tasks
  <2>1. TypeInv'
    BY RequestTypeInv, <1>0
  <2>2. task'[c] \in Tasks
    BY <1>2, <2>1 DEF TypeInv, TypeOK
  <2> QED BY <1>2, <2>2
<1>4. stage \in Late => queue # <<>> /\ Head(queue') = Head(queue) /\ Head(queue) # c
  <2>1. stage \in Late => queue # <<>>
    BY <1>0 DEF TypeInv, StageOK, Late
  <2>2. queue # <<>> => 1 \in 1 .. Len(queue) /\ Head(queue) = queue[1] /\ Head(queue') = Head(queue)
    BY <1>2
  <2>3. queue # <<>> => Head(queue) # c
    BY <1>0, <1>2, <2>2 DEF TypeInv, QueueOK
  <2> QED BY <2>1, <2>2, <2>3
<1>5. \A d \in Clients : d \in Procs
  BY DEF Procs
<1>6. AskedNow[c] = NoTask /\ AskedNow' = [AskedNow EXCEPT ![c] = t]
  <2>1. AskedNow[c] = NoTask
    BY <1>2 DEF AskedNow
  <2>2. \A d \in Clients : AskedNow'[d] = IF d = c THEN t ELSE AskedNow[d]
    BY <1>2, <1>4, <1>5 DEF AskedNow, Late
  <2>3. AskedNow = [d \in Clients |-> AskedNow[d]] /\ AskedNow' = [d \in Clients |-> AskedNow'[d]]
    BY DEF AskedNow
  <2> QED BY <2>1, <2>2, <2>3
<1>7. OwnedNow' = OwnedNow
  BY <1>2 DEF OwnedNow, memory
<1>8. disk \notin Damaged
  <2>1. stage = "renamed" => disk \in Profile
    BY <1>0 DEF AtomicInv, DurableInv, RenamedOK, TypeInv, StageOK
  <2>2. stage # "renamed" => disk \notin Damaged
    BY <1>2 DEF AtomicInv, DurableInv, CacheIsDurable
  <2> QED BY <2>1, <2>2, Distinct
<1>9. Atomic!Ask(c)
  BY <1>2, <1>3, <1>6, <1>7, <1>8, AskStep
<1> QED BY <1>9 DEF Atomic!Next

\* loadData shows the atomic store nothing but the save it queues.
LEMMA LoadImplements ==
    ASSUME AtomicInv, NEW l \in Loaders, Load(l)
    PROVE  Stutters
<1>0. TypeInv /\ queue \in Seq(Procs) /\ task \in [Procs -> Tasks] /\ l \in Procs /\ l \notin Clients
  BY Separate DEF AtomicInv, DurableInv, TypeInv, TypeOK, Procs
<1>1. disk' = disk /\ stage' = stage /\ priorDownloads' = priorDownloads
      /\ mainDownloads' = mainDownloads
  BY DEF Load, LoadRead, LoadParsed, LoadMissing, PickRecovery, KeepRejected, KeepRejectedFails,
         files, memory, running
<1>2. OwnedNow' = OwnedNow
  BY <1>1 DEF OwnedNow
<1>3. UNCHANGED <<queue, task>> \/ \E t : Enqueue(l, t)
  BY DEF Load, LoadRead, LoadParsed, LoadMissing, PickRecovery, KeepRejected, KeepRejectedFails,
         running
<1>4. stage \in Late => queue # <<>>
  BY <1>0 DEF TypeInv, StageOK, Late
<1>5. CASE UNCHANGED <<queue, task>>
  BY <1>1, <1>2, <1>5 DEF Stutters, AskedNow
<1>6. ASSUME NEW t, Enqueue(l, t) PROVE Stutters
  <2>1. queue' = Append(queue, l) /\ task' = [task EXCEPT ![l] = t]
    BY <1>6 DEF Enqueue
  <2>2. \A d \in Clients : d \in Procs /\ d # l
    BY <1>0 DEF Procs
  <2>3. \A d \in Clients : task'[d] = task[d]
    BY <1>0, <2>1, <2>2
  <2>4. stage \in Late => Head(queue') = Head(queue)
    BY <1>0, <1>4, <2>1
  <2>5. AskedNow' = AskedNow
    BY <1>1, <2>3, <2>4 DEF AskedNow, Late
  <2> QED BY <1>1, <1>2, <2>5 DEF Stutters
<1> QED BY <1>3, <1>5, <1>6

\* The other steps: a crash makes the main process forget, damage is damage.
LEMMA RestImplements ==
    ASSUME AtomicInv, Hydrate \/ BackUpManually \/ Boot \/ Crash \/ Damage
    PROVE  Atomic!Next \/ Stutters
<1>1. CASE Hydrate \/ BackUpManually \/ Boot
  BY <1>1 DEF Hydrate, BackUpManually, Boot, files, memory, running, Stutters, OwnedNow, AskedNow
<1>2. CASE Crash
  <2>1. /\ disk' = disk /\ stage' = "idle" /\ mainDownloads' = Nothing
        /\ task' = [p \in Procs |-> NoTask]
    BY <1>2 DEF Crash, files
  <2>2. OwnedNow' = Nothing /\ AskedNow' = [c \in Clients |-> Atomic!NoTask]
    BY <2>1, SameMutations DEF OwnedNow, AskedNow, Procs
  <2>3. Atomic!Forget
    BY <2>1, <2>2 DEF Atomic!Forget, OwnedNow, AskedNow
  <2> QED BY <2>3 DEF Atomic!Next
<1>3. CASE Damage
  <2>1. /\ disk \in Profile /\ disk' \in Damaged /\ UNCHANGED memory /\ UNCHANGED running
    BY <1>3 DEF Damage
  <2>2. OwnedNow' = OwnedNow /\ AskedNow' = AskedNow
    BY <2>1 DEF OwnedNow, AskedNow, memory, running
  <2>3. Atomic!Damage
    BY <2>1, <2>2, SameMutations DEF Atomic!Damage, OwnedNow, AskedNow
  <2> QED BY <2>3 DEF Atomic!Next
<1> QED BY <1>1, <1>2, <1>3

\* With its queue, its cache, its temporary files and its stages, through failed writes,
\* crashes and restarts, the store changes the file as the atomic store does: one accepted
\* mutation at a time, computed from the profile in the file, all or nothing, at most once.
THEOREM StoreIsAtomic == ASSUME OneLoader PROVE Spec => ImplementsAtomicStore
<1>1. Init => AtomicInv
  <2> SUFFICES ASSUME Init PROVE AtomicInv
    OBVIOUS
  <2>1. \A l \in Loaders : loader[l].pc = "idle" /\ task[l] = NoTask
    BY DEF Init, IdleLoader, Procs
  <2>2. DurableInv
    BY <2>1, InitTypeInv DEF Init, DurableInv, StoppedOK, ReadersOK, RenamedOK, CacheIsDurable
  <2> QED BY <2>1, <2>2 DEF Init, AtomicInv, WritingOK, PickedOK, SavingOK
<1>2. AtomicInv /\ [Next]_vars => AtomicInv'
  BY NextAtomicInv
<1>3. Init => Atomic!Init
  <2> SUFFICES ASSUME Init PROVE Atomic!Init
    OBVIOUS
  <2>1. OwnedNow = Nothing /\ AskedNow = [c \in Clients |-> Atomic!NoTask]
    BY SameMutations DEF Init, OwnedNow, AskedNow, Procs
  <2> QED BY <2>1 DEF Init, Atomic!Init, OwnedNow, AskedNow
<1>4. AtomicInv /\ [Next]_vars => [Atomic!Next]_Atomic!vars
  <2> SUFFICES ASSUME AtomicInv, [Next]_vars PROVE Atomic!Next \/ Stutters
    BY StutterStep
  <2>1. CASE UNCHANGED vars
    BY <2>1 DEF vars, files, memory, running, Stutters, OwnedNow, AskedNow
  <2>2. ASSUME Next PROVE Atomic!Next \/ Stutters
    BY <2>2, LoadImplements, RequestImplements, StepImplements, RestImplements DEF Next
  <2> QED BY <2>1, <2>2
<1> QED BY <1>1, <1>2, <1>3, <1>4, PTL DEF Spec, ImplementsAtomicStore, Atomic!Spec

-----------------------------------------------------------------------------
\* The import generation fences stale writers.

\* What a write does to the import a profile belongs to: as Fenced, with nothing merged
\* unless the generation advances.
SameImport(old, new) == new.gen = old.gen /\ new.op = old.op /\ new.imports = old.imports
Follows(old, new) == new.gen = old.gen + 1 \/ SameImport(old, new)

\* A profile taken from the cached one at some earlier time.
TakenFrom(cur, x) == x.gen < cur.gen \/ SameImport(cur, x)

\* What the renderer and the queued whole-profile saves carry is such a profile.
PayloadsOK ==
    /\ view # Nothing => cachedData # Nothing /\ TakenFrom(cachedData, view)
    /\ \A p \in Procs : task[p].kind \in {"renderer", "snapshot", "first save"} =>
          cachedData # Nothing /\ TakenFrom(cachedData, task[p].data)

\* A recovery saves over a damaged file, before anything is cached.
RecoveryOK ==
    /\ \A l \in Loaders : loader[l].pc = "picked" => loader[l].raw \in Damaged
    /\ \A l \in Loaders : task[l].kind = "recovery" =>
          cachedData = Nothing /\ (stage = "renamed" \/ disk \in Damaged)

\* The profile on its way to the file follows the cached one.
NextOK ==
    stage \in {"temp", "rename", "renamed"} /\ cachedData # Nothing =>
        /\ Follows(cachedData, next)
        /\ Running("renderer") => ImportState(next) = ImportState(cachedData)

FenceInv == DurableInv /\ PayloadsOK /\ RecoveryOK /\ NextOK

-----------------------------------------------------------------------------
\* What one accepted task does to the profile it finds.
LEMMA AcceptedFollows ==
    ASSUME NEW t \in Tasks, NEW cur \in Profile, NEW owned \in DownloadList \union {Nothing},
           Accepted(t, cur), t.kind # "recovery",
           t.kind \in {"renderer", "snapshot", "first save"} => TakenFrom(cur, t.data)
    PROVE  /\ Follows(cur, Written(t, cur, owned))
           /\ t.kind = "renderer" => ImportState(Written(t, cur, owned)) = ImportState(cur)
<1> DEFINE x == Candidate(t, cur)
           w == Written(t, cur, owned)
<1>1. x \in Profile /\ cur # Nothing
  BY CandidateIsProfile, Distinct
<1>2. w.gen = x.gen /\ w.op = x.op /\ w.imports = x.imports /\ ImportState(w) = ImportState(x)
  BY <1>1 DEF Written, Merged, Profile, ImportState
<1>3. x.gen = cur.gen + GenerationAdvance(t)
  BY <1>1 DEF Accepted, Refused, StaleGeneration, ImportGeneration
<1>4. CASE t.kind \in {"renderer", "snapshot", "first save"}
  <2>1. x = t.data /\ t.data \in Profile
    BY <1>4, TaskShape DEF Candidate, Saving, Replacing
  <2>2. GenerationAdvance(t) = 0
    BY <1>4 DEF GenerationAdvance, Replacing
  <2>3. x.gen = cur.gen
    <3>1. cur.gen \in Nat
      BY DEF Profile
    <3> QED BY ONLY <1>3, <2>2, <3>1
  <2>4. SameImport(cur, x)
    <3>1. x.gen \in Nat /\ cur.gen \in Nat
      BY <1>1 DEF Profile
    <3>2. ~(x.gen < cur.gen)
      BY ONLY <2>3, <3>1
    <3> QED BY <1>4, <2>1, <3>2 DEF TakenFrom
  <2>5. t.kind = "renderer" => ImportState(x) = ImportState(cur)
    BY <2>1 DEF Accepted, Refused, StaleImportState
  <2> QED BY <1>2, <2>4, <2>5 DEF Follows, SameImport
<1>5. CASE t.kind \in Replacing \union {"commit"}
  <2>1. GenerationAdvance(t) = 1 /\ t.kind # "renderer"
    BY <1>5 DEF GenerationAdvance, Replacing
  <2> QED BY <1>2, <1>3, <2>1 DEF Follows
<1>6. CASE t.kind \in {"none", "clear", "upsert", "extension"}
  <2>1. x.gen = cur.gen /\ x.op = cur.op /\ x.imports = cur.imports
    BY <1>6 DEF Candidate, Saving, Replacing, Profile
  <2> QED BY <1>2, <1>6, <2>1 DEF Follows, SameImport
<1> QED BY <1>4, <1>5, <1>6, TaskShape DEF Saving

\* A profile taken from the cached one stays so when a profile that follows it is cached.
LEMMA TakenFromStays ==
    ASSUME NEW x \in Profile, NEW old \in Profile, NEW new \in Profile,
           TakenFrom(old, x), Follows(old, new)
    PROVE  TakenFrom(new, x)
<1>1. x.gen \in Nat /\ old.gen \in Nat /\ new.gen \in Nat
  BY DEF Profile
<1>2. CASE new.gen = old.gen + 1
  <2>1. x.gen \leq old.gen
    BY <1>1 DEF TakenFrom, SameImport
  <2>2. x.gen < new.gen
    BY ONLY <1>1, <1>2, <2>1
  <2> QED BY <2>2 DEF TakenFrom
<1>3. CASE SameImport(old, new)
  BY <1>3 DEF TakenFrom, SameImport
<1> QED BY <1>2, <1>3 DEF Follows

\* A step of the running task that changes neither memory nor the file.
LEMMA QuietStep ==
    ASSUME FenceInv, NEW p, NEW s, Runs(p, s), s # "renamed",
           Settle(p) \/ UNCHANGED <<queue, task, loader>>,
           disk' = disk, cachedData' = cachedData, view' = view
    PROVE  PayloadsOK' /\ RecoveryOK'
<1>1. TypeInv /\ p \in Procs /\ queue # <<>> /\ Head(queue) = p
  BY RunningTask DEF FenceInv, DurableInv
<1>2. \A q \in Procs : task'[q] = task[q] \/ task'[q].kind = "none"
  BY <1>1, SettleKeeps DEF NoTask
<1>3. \A l \in Loaders : loader'[l] = loader[l] \/ loader'[l].pc = "idle"
  BY <1>1, SettleKeeps DEF IdleLoader
<1>4. PayloadsOK'
  BY <1>2 DEF FenceInv, PayloadsOK
<1>5. RecoveryOK'
  BY <1>2, <1>3 DEF FenceInv, RecoveryOK, Runs, Procs
<1> QED BY <1>4, <1>5

\* A recovery runs alone.
LEMMA RecoveryRunsAlone ==
    ASSUME OneLoader, FenceInv, NEW p, NEW s, Runs(p, s), NEW l \in Loaders, task[l].kind = "recovery"
    PROVE  p = l
<1>1. TypeInv /\ p \in Procs /\ (p \in Clients => cachedData \in Profile) /\ cachedData = Nothing
  BY RunningTask DEF FenceInv, DurableInv, RecoveryOK
<1> QED BY <1>1, Distinct DEF Procs, OneLoader

\* A task never brings a profile to the file that does not follow the one in it.
LEMMA StepFence ==
    ASSUME OneLoader, FenceInv, NEW p \in Procs, Step(p) \/ StepFails(p)
    PROVE  FenceInv'
<1>0. DurableInv' /\ TypeInv /\ CacheIsDurable /\ PayloadsOK /\ RecoveryOK /\ NextOK
      /\ cachedData \in Profile \union {Nothing} /\ view \in Profile \union {Nothing}
      /\ mainDownloads \in DownloadList \union {Nothing}
  BY StepDurable DEF FenceInv, DurableInv, TypeInv, TypeOK
<1>1. CASE \/ CopyBeforeReplace(p) \/ Refuse(p) \/ AnswerFromReceipt(p)
           \/ SkipUnchangedWrite(p) \/ ReadBack(p)
           \/ CopyBeforeReplaceFails(p) \/ WriteFails(p)
  <2>1. PICK s : Runs(p, s) /\ s # "renamed"
    BY <1>1 DEF CopyBeforeReplace, Refuse, AnswerFromReceipt, SkipUnchangedWrite,
                ReadBack, CopyBeforeReplaceFails, WriteFails, Proceeds, Ready
  <2>2. /\ disk' = disk /\ cachedData' = cachedData /\ view' = view
        /\ stage' \notin {"temp", "rename", "renamed"}
        /\ (Settle(p) \/ UNCHANGED <<queue, task, loader>>)
    BY <1>1 DEF CopyBeforeReplace, Refuse, AnswerFromReceipt, SkipUnchangedWrite,
                ReadBack, CopyBeforeReplaceFails, WriteFails, Finish, Settle,
                Continue, files, memory
  <2>3. PayloadsOK' /\ RecoveryOK'
    BY <2>1, <2>2, QuietStep
  <2> QED BY <1>0, <2>2, <2>3 DEF FenceInv, NextOK
<1>2. CASE WriteTemp(p)
  <2>1. PICK s : Runs(p, s) /\ s # "renamed"
    BY <1>2 DEF WriteTemp, Proceeds, Ready
  <2>2. /\ disk' = disk /\ cachedData' = cachedData /\ view' = view
        /\ UNCHANGED <<queue, task, loader>> /\ next' = Result(p)
        /\ Accepted(task[p], cachedData)
    BY <1>2 DEF WriteTemp, Proceeds, Continue, files
  <2>3. PayloadsOK' /\ RecoveryOK'
    BY <2>1, <2>2, QuietStep
  <2>4. task[p] \in Tasks /\ queue # <<>> /\ Head(queue) = p
    BY <1>0, <2>1, RunningTask
  <2>5. ASSUME cachedData # Nothing
        PROVE  /\ Follows(cachedData, Result(p))
               /\ task[p].kind = "renderer" => ImportState(Result(p)) = ImportState(cachedData)
    <3>1. task[p].kind # "recovery"
      BY <1>0, <2>5 DEF RecoveryOK, TypeInv, CallersOK, Procs
    <3>2. task[p].kind \in {"renderer", "snapshot", "first save"} =>
              TakenFrom(cachedData, task[p].data)
      BY <1>0 DEF PayloadsOK
    <3> QED BY <1>0, <2>2, <2>4, <2>5, <3>1, <3>2, AcceptedFollows DEF Result
  <2>6. NextOK'
    BY <2>2, <2>4, <2>5 DEF NextOK, Running
  <2> QED BY <1>0, <2>3, <2>6 DEF FenceInv
<1>3. CASE RollingBackup(p)
  <2>1. /\ Runs(p, "temp") /\ disk' = disk /\ cachedData' = cachedData /\ view' = view
        /\ queue' = queue /\ task' = task /\ loader' = loader /\ next' = next
    BY <1>3 DEF RollingBackup, Continue, memory
  <2>2. PayloadsOK' /\ RecoveryOK'
    BY <2>1, QuietStep
  <2>3. NextOK'
    BY <1>0, <2>1 DEF NextOK, Running, ImportState, Runs
  <2> QED BY <1>0, <2>2, <2>3 DEF FenceInv
<1>4. CASE Rename(p)
  <2>1. /\ Runs(p, "rename") /\ cachedData' = cachedData /\ view' = view /\ stage' = "renamed"
        /\ queue' = queue /\ task' = task /\ loader' = loader /\ next' = next
    BY <1>4 DEF Rename, Continue, memory
  <2>2. PayloadsOK' /\ RecoveryOK'
    BY <1>0, <2>1 DEF PayloadsOK, RecoveryOK
  <2>3. NextOK'
    BY <1>0, <2>1 DEF NextOK, Running, ImportState, Runs
  <2> QED BY <1>0, <2>2, <2>3 DEF FenceInv
<1>5. CASE RecordWrite(p)
  <2>1. /\ Runs(p, "renamed") /\ cachedData' = next /\ view' = view /\ disk' = disk /\ Finish(p)
    BY <1>5 DEF RecordWrite, files
  <2>2. next \in Profile /\ next # Nothing /\ queue # <<>> /\ Head(queue) = p
    BY <1>0, <2>1, Distinct DEF Runs, TypeInv, StageOK
  <2>3. cachedData # Nothing => Follows(cachedData, next)
    BY <1>0, <2>1 DEF NextOK, Runs
  <2>4. stage' \notin {"temp", "rename", "renamed"} /\ (Settle(p) \/ UNCHANGED <<task, loader>>)
    BY <2>1 DEF Finish, Settle, Continue
  <2>5. \A q \in Procs : task'[q] = task[q] \/ task'[q].kind = "none"
    BY <1>0, <2>2, <2>4, SettleKeeps DEF NoTask
  <2>6. \A l \in Loaders : loader'[l] = loader[l] \/ loader'[l].pc = "idle"
    BY <1>0, <2>2, <2>4, SettleKeeps DEF IdleLoader
  <2>7. PayloadsOK'
    <3>1. view # Nothing => TakenFrom(next, view)
      BY <1>0, <2>2, <2>3, TakenFromStays DEF PayloadsOK
    <3>2. ASSUME NEW q \in Procs, task[q].kind \in {"renderer", "snapshot", "first save"}
          PROVE  TakenFrom(next, task[q].data)
      <4>1. task[q].data \in Profile
        BY <1>0, <3>2, TaskShape DEF TypeInv, TypeOK, Saving
      <4>2. cachedData \in Profile /\ TakenFrom(cachedData, task[q].data)
        BY <1>0, <3>2 DEF PayloadsOK
      <4> QED BY <2>2, <2>3, <4>1, <4>2, Distinct, TakenFromStays
    <3> QED BY <2>1, <2>2, <2>5, <3>1, <3>2 DEF PayloadsOK
  <2>8. RecoveryOK'
    <3>1. ASSUME NEW l \in Loaders PROVE task'[l].kind # "recovery"
      <4>1. CASE task[l].kind = "recovery"
        <5>1. p = l
          BY <2>1, <4>1, RecoveryRunsAlone
        <5>2. Settle(p)
          BY <2>1, <4>1, <5>1 DEF Finish
        <5>3. task'[l] = NoTask /\ NoTask.kind = "none"
          BY <1>0, <5>1, <5>2 DEF Settle, NoTask, TypeInv, TypeOK, Procs
        <5> QED BY <5>3
      <4>2. CASE task[l].kind # "recovery"
        BY <2>5, <4>2 DEF Procs
      <4> QED BY <4>1, <4>2
    <3> QED BY <1>0, <2>6, <3>1 DEF RecoveryOK
  <2> QED BY <1>0, <2>4, <2>7, <2>8 DEF FenceInv, NextOK
<1> QED BY <1>1, <1>2, <1>3, <1>4, <1>5 DEF Step, StepFails

\* What loadData caches follows from the file, and nobody holds an older profile then.
LEMMA LoadFence ==
    ASSUME OneLoader, FenceInv, NEW l \in Loaders, Load(l)
    PROVE  FenceInv'
<1>0. /\ DurableInv' /\ TypeInv /\ PayloadsOK /\ RecoveryOK /\ NextOK /\ ReadersOK
      /\ loader \in [Loaders -> Loading] /\ \A m \in Loaders : m = l
      /\ task \in [Procs -> Tasks] /\ loader[l] \in Loading
  BY LoadDurable DEF FenceInv, DurableInv, TypeInv, TypeOK, OneLoader
<1>1. view' = view /\ disk' = disk /\ stage' = stage /\ next' = next
  BY DEF Load, LoadRead, LoadParsed, LoadMissing, PickRecovery, KeepRejected, KeepRejectedFails,
         files, running
<1>2. CASE LoadRead(l) \/ PickRecovery(l) \/ KeepRejectedFails(l)
  <2>1. /\ cachedData' = cachedData /\ task' = task /\ queue' = queue
        /\ loader'[l].pc = "picked" => loader'[l].raw \in Damaged
    <3>1. CASE LoadRead(l)
      BY <1>0, <3>1 DEF LoadRead, memory, running, Loading
    <3>2. CASE PickRecovery(l)
      <4>1. PICK pick : loader' = [loader EXCEPT ![l] = [@ EXCEPT !.pc = "picked", !.pick = pick]]
        BY <3>2 DEF PickRecovery
      <4> QED BY <1>0, <3>2, <4>1 DEF PickRecovery, memory, running, Loading
    <3>3. CASE KeepRejectedFails(l)
      BY <1>0, <3>3 DEF KeepRejectedFails, memory, running, IdleLoader
    <3> QED BY <1>2, <3>1, <3>2, <3>3
  <2>2. PayloadsOK' /\ RecoveryOK' /\ NextOK'
    BY <1>0, <1>1, <2>1 DEF PayloadsOK, RecoveryOK, NextOK, Running, ImportState
  <2> QED BY <1>0, <2>2 DEF FenceInv
<1>3. CASE KeepRejected(l)
  <2>1. /\ cachedData' = cachedData /\ cachedData = Nothing /\ disk \in Damaged
    BY <1>0, <1>3 DEF KeepRejected, memory, RecoveryOK, ReadersOK
  <2>2. \A q \in Procs : task'[q] = task[q] \/ task'[q].kind = "recovery"
    BY <1>0, <1>3 DEF KeepRejected, Enqueue
  <2>3. loader'[l].pc = "saving"
    BY <1>0, <1>3 DEF KeepRejected, Loading
  <2>4. PayloadsOK'
    BY <1>0, <1>1, <2>1, <2>2 DEF PayloadsOK
  <2>5. RecoveryOK'
    BY <1>0, <1>1, <2>1, <2>3 DEF RecoveryOK
  <2>6. NextOK'
    BY <2>1 DEF NextOK
  <2> QED BY <1>0, <2>4, <2>5, <2>6 DEF FenceInv
<1>4. CASE LoadParsed(l) \/ LoadMissing(l)
  <2>1. cachedData = Nothing /\ view = Nothing
        /\ \A q \in Procs : task[q].kind \notin {"renderer", "snapshot", "first save"}
    BY <1>0, <1>4 DEF LoadParsed, LoadMissing, ReadersOK, PayloadsOK
  <2>2. \A c \in Clients : task[c] = NoTask
    BY <1>0, <2>1 DEF TypeInv, CallersOK
  <2>3. task[l] = NoTask /\ l \in Procs
    BY <1>0, <1>4 DEF LoadParsed, LoadMissing, TypeInv, LoadersOK, Procs
  <2>4. \A q \in Procs : \/ task'[q].kind = "none"
                         \/ task'[q].kind = "first save" /\ task'[q].data = cachedData'
    <3>1. \A q \in Procs : task[q].kind = "none"
      BY <1>0, <2>2, <2>3 DEF Procs, NoTask
    <3> DEFINE first == [kind |-> "first save", data |-> cachedData']
    <3>2. task' = task \/ task' = [task EXCEPT ![l] = first]
      BY <1>4 DEF LoadParsed, LoadMissing, Enqueue
    <3>3. \A q \in Procs : task'[q] = task[q] \/ task'[q] = first
      BY <1>0, <3>2
    <3>4. first.kind = "first save" /\ first.data = cachedData'
      OBVIOUS
    <3> HIDE DEF first
    <3> QED BY <3>1, <3>3, <3>4
  <2>5. cachedData' # Nothing
    <3>1. loader[l].raw \in Profile \union {Absent} /\ cachedData' = Loaded(loader[l].raw)
      BY <1>4 DEF LoadParsed, LoadMissing
    <3> QED BY <3>1, MigratedIsProfile, DefaultIsProfile, Distinct DEF Loaded
  <2>6. PayloadsOK'
    <3>1. TakenFrom(cachedData, cachedData)'
      BY DEF TakenFrom, SameImport
    <3> QED BY <1>1, <2>1, <2>4, <2>5, <3>1 DEF PayloadsOK
  <2>7. loader'[l].pc # "picked"
    <3>1. loader' = [loader EXCEPT ![l] = IdleLoader]
          \/ loader' = [loader EXCEPT ![l] = [@ EXCEPT !.pc = "saving"]]
      BY <1>4 DEF LoadParsed, LoadMissing
    <3>2. IdleLoader.pc = "idle" /\ [loader[l] EXCEPT !.pc = "saving"].pc = "saving"
      BY <1>0 DEF IdleLoader, Loading
    <3> QED BY <1>0, <3>1, <3>2
  <2>8. RecoveryOK'
    BY <1>0, <2>4, <2>7 DEF RecoveryOK, Procs
  <2>9. stage = "idle"
    <3>1. queue = <<>>
      <4>1. \A q \in Procs : task[q] = NoTask
        BY <1>0, <2>2, <2>3 DEF Procs
      <4> QED BY <4>1 DEF FenceInv, TypeInv, TypeOK, QueueOK, DurableInv
    <3> QED BY <1>0, <3>1 DEF TypeInv, StageOK
  <2>10. NextOK'
    BY <1>1, <2>9 DEF NextOK
  <2> QED BY <1>0, <2>6, <2>8, <2>10 DEF FenceInv
<1> QED BY <1>2, <1>3, <1>4 DEF Load

\* A request carries the renderer's profile or one derived from the cached one.
LEMMA RequestFence ==
    ASSUME OneLoader, FenceInv, NEW c \in Clients, Request(c)
    PROVE  FenceInv'
<1>0. /\ DurableInv' /\ TypeInv /\ PayloadsOK /\ RecoveryOK /\ NextOK
      /\ task \in [Procs -> Tasks] /\ c \in Procs /\ c \notin Loaders
  BY NextDurable, Separate DEF FenceInv, DurableInv, TypeInv, TypeOK, Next, Procs
<1>1. PICK t : /\ Submit(c, t) /\ t.kind \notin {"first save", "recovery"}
               /\ view' = view \/ (cachedData # Nothing /\ TakenFrom(cachedData, view'))
               /\ t.kind \in {"renderer", "snapshot"} => TakenFrom(cachedData, t.data)
  <2> DEFINE Goal(t) == /\ Submit(c, t) /\ t.kind \notin {"first save", "recovery"}
                        /\ view' = view \/ (cachedData # Nothing /\ TakenFrom(cachedData, view'))
                        /\ t.kind \in {"renderer", "snapshot"} => TakenFrom(cachedData, t.data)
  <2> SUFFICES \E t : Goal(t)
    OBVIOUS
  <2>1. CASE SaveRendererData(c)
    <3>1. PICK r \in Revs : /\ view' = [view EXCEPT !.rev = r]
                            /\ Submit(c, [kind |-> "renderer", data |-> view'])
      BY <2>1 DEF SaveRendererData
    <3>2. TakenFrom(cachedData, view) /\ cachedData # Nothing /\ view \in Profile
      BY <1>0, <2>1 DEF SaveRendererData, PayloadsOK, TypeInv, TypeOK
    <3>3. TakenFrom(cachedData, view')
      BY <3>1, <3>2 DEF TakenFrom, SameImport, Profile
    <3>4. Goal([kind |-> "renderer", data |-> view'])
      BY <3>1, <3>2, <3>3
    <3> QED BY <3>4
  <2>2. CASE SaveSnapshot(c)
    <3>1. PICK r \in Revs : Submit(c, [kind |-> "snapshot", data |-> [cachedData EXCEPT !.rev = r]])
      BY <2>2 DEF SaveSnapshot
    <3>2. cachedData \in Profile /\ view' = view
      BY <1>0, <2>2, <3>1 DEF SaveSnapshot, Submit, TypeInv, TypeOK
    <3>3. TakenFrom(cachedData, [cachedData EXCEPT !.rev = r])
      BY <3>2 DEF TakenFrom, SameImport, Profile
    <3>4. Goal([kind |-> "snapshot", data |-> [cachedData EXCEPT !.rev = r]])
      BY <3>1, <3>2, <3>3
    <3> QED BY <3>4
  <2>3. CASE \/ UpsertDownload(c) \/ ClearCompletedDownloads(c) \/ CommitImportData(c)
             \/ RecordImportExtensionResult(c) \/ ReplaceDataFromImport(c)
             \/ RestoreStorageBackup(c)
    <3>1. view' = view
      BY <2>3 DEF UpsertDownload, ClearCompletedDownloads, CommitImportData,
                  RecordImportExtensionResult, ReplaceDataFromImport, RestoreStorageBackup
    <3>2. \E t : Submit(c, t) /\ t.kind \in {"upsert", "clear", "commit", "extension"} \union Replacing
      <4>1. CASE UpsertDownload(c)
        BY <4>1 DEF UpsertDownload
      <4>2. CASE ClearCompletedDownloads(c)
        BY <4>2 DEF ClearCompletedDownloads
      <4>3. CASE CommitImportData(c)
        BY <4>3 DEF CommitImportData
      <4>4. CASE RecordImportExtensionResult(c)
        BY <4>4 DEF RecordImportExtensionResult
      <4>5. CASE ReplaceDataFromImport(c)
        BY <4>5 DEF ReplaceDataFromImport, Replacing
      <4>6. CASE RestoreStorageBackup(c)
        BY <4>6 DEF RestoreStorageBackup, Replacing
      <4> QED BY <2>3, <4>1, <4>2, <4>3, <4>4, <4>5, <4>6
    <3> QED BY <3>1, <3>2 DEF Replacing
  <2> QED BY <2>1, <2>2, <2>3 DEF Request
<1>2. /\ disk' = disk /\ cachedData' = cachedData /\ loader' = loader /\ stage' = stage
      /\ next' = next /\ Enqueue(c, t) /\ cachedData # Nothing /\ task[c] = NoTask
  BY <1>1 DEF Submit, files, memory
<1>3. \A q \in Procs : task'[q] = IF q = c THEN t ELSE task[q]
  BY <1>0, <1>2 DEF Enqueue
<1>4. PayloadsOK'
  BY <1>0, <1>1, <1>2, <1>3 DEF PayloadsOK
<1>5. RecoveryOK'
  BY <1>0, <1>2, <1>3 DEF RecoveryOK, Procs
<1>6. NextOK'
  <2>1. CASE stage = "idle"
    BY <1>2, <2>1 DEF NextOK
  <2>2. CASE stage # "idle"
    <3>1. queue # <<>> /\ queue \in Seq(Procs)
      BY <1>0, <2>2 DEF TypeInv, StageOK, TypeOK
    <3>2. queue' # <<>> /\ Head(queue') = Head(queue) /\ Head(queue) \in Procs
      BY <1>0, <1>2, <3>1 DEF Enqueue
    <3>3. Head(queue) # c
      BY <1>0, <1>2, <3>1 DEF TypeInv, QueueOK
    <3>4. Running("renderer")' => Running("renderer")
      BY <1>3, <3>1, <3>2, <3>3 DEF Running
    <3> QED BY <1>0, <1>2, <3>4 DEF NextOK, ImportState
  <2> QED BY <2>1, <2>2
<1> QED BY <1>0, <1>4, <1>5, <1>6 DEF FenceInv

\* FenceInv is inductive.
LEMMA NextFence == ASSUME OneLoader PROVE FenceInv /\ [Next]_vars => FenceInv'
<1> SUFFICES ASSUME FenceInv, [Next]_vars PROVE FenceInv'
  OBVIOUS
<1>0. DurableInv' /\ TypeInv /\ PayloadsOK /\ RecoveryOK /\ NextOK
  BY NextDurable DEF FenceInv, DurableInv
<1>1. ASSUME NEW l \in Loaders, Load(l) PROVE FenceInv'
  BY <1>1, LoadFence
<1>2. ASSUME NEW p \in Procs, Step(p) \/ StepFails(p) PROVE FenceInv'
  BY <1>2, StepFence
<1>3. ASSUME NEW c \in Clients, Request(c) PROVE FenceInv'
  BY <1>3, RequestFence
<1>4. CASE Hydrate
  <2>1. /\ view' = cachedData /\ cachedData' = cachedData /\ disk' = disk /\ loader' = loader
        /\ queue' = queue /\ task' = task /\ stage' = stage /\ next' = next
        /\ cachedData # Nothing
    BY <1>4 DEF Hydrate, files, memory, running
  <2> QED BY <1>0, <2>1 DEF FenceInv, PayloadsOK, RecoveryOK, NextOK, TakenFrom, SameImport,
                            Running, ImportState
<1>5. CASE BackUpManually \/ Boot \/ UNCHANGED vars
  <2>1. /\ view' = view /\ cachedData' = cachedData /\ disk' = disk /\ loader' = loader
        /\ queue' = queue /\ task' = task /\ stage' = stage /\ next' = next
    BY <1>5 DEF BackUpManually, Boot, vars, files, memory, running
  <2> QED BY <1>0, <2>1 DEF FenceInv, PayloadsOK, RecoveryOK, NextOK, Running, ImportState
<1>6. CASE Crash
  <2>1. /\ view' = Nothing /\ stage' = "idle"
        /\ \A q \in Procs : task'[q] = NoTask
        /\ \A l \in Loaders : loader'[l].pc = "idle"
    BY <1>6 DEF Crash, IdleLoader
  <2>2. NoTask.kind = "none"
    BY DEF NoTask
  <2> QED BY <1>0, <2>1, <2>2 DEF FenceInv, PayloadsOK, RecoveryOK, NextOK, Procs
<1>7. CASE Damage
  <2>1. /\ view' = view /\ cachedData' = cachedData /\ loader' = loader /\ disk' \in Damaged
        /\ queue' = queue /\ task' = task /\ stage' = stage /\ next' = next
    BY <1>7 DEF Damage, memory, running
  <2> QED BY <1>0, <2>1 DEF FenceInv, PayloadsOK, RecoveryOK, NextOK, Running, ImportState
<1> QED BY <1>1, <1>2, <1>3, <1>4, <1>5, <1>6, <1>7 DEF Next

\* Nothing is cached or queued at the first start, so the fence holds.
LEMMA InitFence == Init => FenceInv
<1> SUFFICES ASSUME Init PROVE FenceInv
  OBVIOUS
<1>1. \A l \in Loaders : loader[l].pc = "idle"
  BY DEF Init, IdleLoader
<1>2. DurableInv
  BY <1>1, InitTypeInv DEF Init, DurableInv, StoppedOK, ReadersOK, RenamedOK, CacheIsDurable
<1>3. \A q \in Procs : task[q].kind = "none"
  BY DEF Init, NoTask
<1> QED BY <1>1, <1>2, <1>3 DEF Init, FenceInv, PayloadsOK, RecoveryOK, NextOK, Procs

\* Where the file goes from one profile to another, that is the rename of a profile that
\* follows the cached one, and the cached one is what the file holds.
LEMMA FileSteps ==
    ASSUME FenceInv, Next, disk' # disk, disk \in Profile, disk' \in Profile
    PROVE  /\ Follows(disk, disk')
           /\ Running("renderer") => ImportState(disk') = ImportState(disk)
<1>1. PICK p \in Procs : Rename(p)
  <2>1. ~Damage
    BY Distinct DEF Damage
  <2>2. ~Boot /\ ~Crash /\ ~Hydrate /\ ~BackUpManually
    BY DEF Boot, Crash, Hydrate, BackUpManually, files
  <2>3. \A l \in Loaders : ~Load(l)
    BY DEF Load, LoadRead, LoadParsed, LoadMissing, PickRecovery, KeepRejected,
           KeepRejectedFails, files
  <2>4. \A c \in Clients : ~Request(c)
    BY DEF Request, SaveRendererData, SaveSnapshot, UpsertDownload, ClearCompletedDownloads,
           CommitImportData, RecordImportExtensionResult, ReplaceDataFromImport,
           RestoreStorageBackup, Submit, files
  <2>5. \A q \in Procs : Step(q) \/ StepFails(q) => Rename(q)
    BY DEF Step, StepFails, CopyBeforeReplace, Refuse, AnswerFromReceipt, SkipUnchangedWrite,
           WriteTemp, RollingBackup, RecordWrite, ReadBack, CopyBeforeReplaceFails, WriteFails,
           files
  <2> QED BY <2>1, <2>2, <2>3, <2>4, <2>5 DEF Next
<1>2. Runs(p, "rename") /\ disk' = next /\ stage = "rename"
  BY <1>1 DEF Rename, Runs
<1>3. TypeInv /\ CacheIsDurable /\ PayloadsOK /\ RecoveryOK /\ NextOK
  BY DEF FenceInv, DurableInv
<1>4. cachedData # Nothing
  <2>1. CASE p \in Clients
    BY <1>2, <1>3, <2>1, RunningTask, Distinct
  <2>2. CASE p \in Loaders
    <3>1. task[p].kind = "first save"
      BY <1>2, <1>3, <2>2, RunningTask, Distinct DEF RecoveryOK
    <3> QED BY <1>3, <3>1 DEF PayloadsOK
  <2> QED BY <2>1, <2>2 DEF Procs
<1>5. cachedData = Migrated(disk)
  BY <1>2, <1>3, <1>4, Distinct DEF CacheIsDurable, Loaded
<1>6. /\ cachedData.gen = disk.gen /\ cachedData.op = disk.op /\ cachedData.imports = disk.imports
      /\ ImportState(cachedData) = ImportState(disk)
  BY <1>5 DEF Migrated, Profile, ImportState
<1>7. Follows(cachedData, next) /\ (Running("renderer") => ImportState(next) = ImportState(cachedData))
  BY <1>2, <1>3, <1>4 DEF NextOK
<1> QED BY <1>2, <1>6, <1>7 DEF Follows, SameImport

\* As long as loadData calls do not overlap: while the generation in the file stays, so do
\* the committed import and the data it merged, and a write advances it by one at most.
THEOREM ImportIsFenced == ASSUME OneLoader PROVE Spec => ImportFence
<1>1. FenceInv /\ [Next]_vars => [{disk, disk'} \subseteq Profile => Fenced(disk, disk')]_vars
  <2> SUFFICES ASSUME FenceInv, Next, disk \in Profile, disk' \in Profile
               PROVE  Fenced(disk, disk')
    OBVIOUS
  <2>1. CASE disk' = disk
    BY <2>1 DEF Fenced
  <2>2. CASE disk' # disk
    BY <2>2, FileSteps DEF Fenced, Follows, SameImport
  <2> QED BY <2>1, <2>2
<1> QED BY <1>1, InitFence, NextFence, PTL DEF Spec, ImportFence

\* As long as loadData calls do not overlap: a renderer save never changes the import state
\* in the file, however old the profile the renderer saves.
THEOREM RendererIsFenced == ASSUME OneLoader PROVE Spec => RendererKeepsImportState
<1>1. FenceInv /\ [Next]_vars =>
        [disk' # disk /\ {disk, disk'} \subseteq Profile /\ Running("renderer") =>
            ImportState(disk') = ImportState(disk)]_vars
  BY FileSteps
<1> QED BY <1>1, InitFence, NextFence, PTL DEF Spec, RendererKeepsImportState

\* A committed import stays in the file, whoever writes with an older profile in hand.
THEOREM ImportsStand == ASSUME OneLoader PROVE Spec => ImportStands
BY ImportIsFenced, RendererIsFenced DEF ImportStands

-----------------------------------------------------------------------------
\* Nothing is overwritten that has to be kept.

Keeps(k) == \E b \in backups : b.kind = k /\ b.body = disk

\* From its copy to its rename a replacement has the file it replaces among the backups,
\* and a recovery the rejected bytes from before it is queued.
CopiesOK ==
    /\ \A k \in Replacing :
          stage \in {"copied", "temp", "rename"} /\ Running(k) /\ disk # Absent => Keeps(k)
    /\ \A l \in Loaders :
          task[l] # NoTask /\ cachedData = Nothing /\ stage # "renamed" => Keeps("invalid")

CopyInv == AtomicInv /\ CopiesOK

\* Only rolling and manual backups are ever removed.
LEMMA CopiesStay ==
    ASSUME NEW kind, CopyActive(kind) \/ UNCHANGED <<backups, clock>> \/ backups \subseteq backups'
    PROVE  \A b \in backups : b.kind \notin {"rolling", "manual"} => b \in backups'
<1>1. CASE UNCHANGED <<backups, clock>> \/ backups \subseteq backups'
  BY <1>1
<1>2. CASE CopyActive(kind) /\ disk = Absent
  BY <1>2 DEF CopyActive
<1>3. CASE CopyActive(kind) /\ disk # Absent
  <2> DEFINE grown == backups \union {[kind |-> kind, at |-> clock, body |-> disk]}
  <2>1. \A k, n : \A b \in grown : b.kind # k => b \in Trimmed(grown, k, n)
    BY DEF Trimmed, OfKind
  <2>2. kind = "rolling" => backups' = Trimmed(grown, kind, KeepRolling)
    BY <1>3 DEF CopyActive
  <2>3. kind = "manual" => backups' = Trimmed(grown, kind, KeepManual)
    BY <1>3 DEF CopyActive
  <2>4. kind \notin {"rolling", "manual"} => backups' = grown
    BY <1>3 DEF CopyActive
  <2> QED BY <2>1, <2>2, <2>3, <2>4
<1> QED BY <1>1, <1>2, <1>3

\* A copy of the kind asked for is there afterwards.
LEMMA CopyIsThere ==
    ASSUME NEW kind \in Replacing, CopyActive(kind), disk # Absent
    PROVE  \E b \in backups' : b.kind = kind /\ b.body = disk
<1> DEFINE b == [kind |-> kind, at |-> clock, body |-> disk]
<1>1. kind \notin {"rolling", "manual"}
  BY DEF Replacing
<1>2. backups' = backups \union {b}
  BY <1>1 DEF CopyActive
<1>3. b \in backups' /\ b.kind = kind /\ b.body = disk
  BY <1>2
<1> QED BY <1>3

\* What is kept stays kept while the file stays.
LEMMA KeepsStays ==
    ASSUME disk' = disk, NEW kind,
           CopyActive(kind) \/ UNCHANGED <<backups, clock>> \/ backups \subseteq backups'
    PROVE  \A k \in Replacing \union {"invalid"} : Keeps(k) => Keeps(k)'
BY CopiesStay DEF Keeps, Replacing

\* Every step of the running task keeps the copies.
LEMMA StepCopies ==
    ASSUME OneLoader, CopyInv, NEW p \in Procs, Step(p) \/ StepFails(p)
    PROVE  CopyInv'
<1>0. AtomicInv' /\ AtomicInv /\ TypeInv
  BY StepAtomicInv DEF CopyInv, AtomicInv, DurableInv
<1>1. ASSUME NEW s, Runs(p, s), Settle(p) PROVE CopiesOK'
  <2>1. p \in Procs /\ queue # <<>> /\ Head(queue) = p
    BY <1>0, <1>1, RunningTask
  <2>2. stage' = "idle" /\ \A q \in Procs : task'[q] = NoTask \/ (q # p /\ task'[q] = task[q])
    BY <1>0, <1>1, <2>1, SettleKeeps
  <2>3. \A l \in Loaders : l \in Procs
    BY DEF Procs
  <2>4. \A l \in Loaders : task'[l] = NoTask
    BY <1>0, <2>1, <2>2, <2>3 DEF AtomicInv, SavingOK
  <2> QED BY <2>2, <2>4 DEF CopiesOK
<1>2. ASSUME NEW s, Runs(p, s), NEW r, Continue(r), s # "renamed", disk' = disk,
             cachedData' = cachedData, NEW kind,
             CopyActive(kind) \/ UNCHANGED <<backups, clock>>,
             task[p].kind \in Replacing => s \in {"copied", "temp"}
      PROVE  CopiesOK'
  <2>1. queue' = queue /\ task' = task /\ stage = s /\ stage' = r /\ Head(queue) = p
    BY <1>2 DEF Continue, Runs
  <2>2. \A k \in Replacing : Running(k)' => Running(k) /\ task[p].kind = k
    BY <2>1 DEF Running
  <2>3. \A k \in Replacing : Running(k)' /\ disk' # Absent => Keeps(k)
    BY <1>2, <2>1, <2>2 DEF CopyInv, CopiesOK
  <2>4. \A k \in Replacing \union {"invalid"} : Keeps(k) => Keeps(k)'
    BY <1>2, KeepsStays
  <2>5. \A l \in Loaders : task'[l] # NoTask /\ cachedData' = Nothing => Keeps("invalid")
    BY <1>2, <2>1 DEF CopyInv, CopiesOK
  <2> QED BY <2>3, <2>4, <2>5 DEF CopiesOK
<1>3. ASSUME NEW s, Runs(p, s), Continue("readback"), task[p].kind \in {"commit", "extension"}
      PROVE  CopiesOK'
  <2>1. queue' = queue /\ task' = task /\ stage' = "readback" /\ Head(queue) = p
    BY <1>3 DEF Continue, Runs
  <2>2. p \notin Loaders
    <3>1. p \in Loaders => task[p].kind \in {"first save", "recovery"}
      BY <1>0, <1>3, RunningTask
    <3> QED BY <1>3, <3>1
  <2>3. \A l \in Loaders : task'[l] = NoTask
    BY <1>0, <2>1, <2>2 DEF AtomicInv, SavingOK
  <2> QED BY <2>1, <2>3 DEF CopiesOK
<1>4. CASE CopyBeforeReplace(p)
  <2>1. /\ Runs(p, "idle") /\ task[p].kind \in Replacing /\ CopyActive(task[p].kind)
        /\ queue' = queue /\ task' = task /\ stage' = "copied" /\ disk' = disk /\ Head(queue) = p
    BY <1>4 DEF CopyBeforeReplace, Continue, Runs
  <2>2. \A k \in Replacing : Running(k)' /\ disk' # Absent => Keeps(k)'
    BY <2>1, CopyIsThere DEF Running, Keeps
  <2>3. p \notin Loaders
    <3>1. p \in Loaders => task[p].kind \in {"first save", "recovery"}
      BY <1>0, <2>1, RunningTask
    <3> QED BY <2>1, <3>1 DEF Replacing
  <2>4. \A l \in Loaders : task'[l] = NoTask
    BY <1>0, <2>1, <2>3 DEF AtomicInv, SavingOK
  <2> QED BY <1>0, <2>2, <2>4 DEF CopyInv, CopiesOK
<1>5. CASE StepFails(p) \/ Refuse(p) \/ ReadBack(p)
  <2>1. Settle(p) /\ \E s : Runs(p, s)
    BY <1>5 DEF StepFails, CopyBeforeReplaceFails, WriteFails, Refuse, ReadBack, Ready
  <2> QED BY <1>0, <1>1, <2>1 DEF CopyInv
<1>6. CASE AnswerFromReceipt(p) \/ SkipUnchangedWrite(p) \/ RecordWrite(p)
  <2>1. \E s : Runs(p, s)
    BY <1>6 DEF AnswerFromReceipt, SkipUnchangedWrite, RecordWrite, Proceeds, Ready
  <2>2. Settle(p) \/ (task[p].kind \in {"commit", "extension"} /\ Continue("readback"))
    BY <1>6 DEF AnswerFromReceipt, SkipUnchangedWrite, RecordWrite, Finish
  <2> QED BY <1>0, <1>1, <1>3, <2>1, <2>2 DEF CopyInv
<1>7. CASE WriteTemp(p)
  <2>1. PICK s \in {"idle", "copied"} : Runs(p, s) /\ (task[p].kind \in Replacing => s = "copied")
    BY <1>7 DEF WriteTemp, Proceeds, Ready
  <2>2. Continue("temp") /\ disk' = disk /\ cachedData' = cachedData
        /\ UNCHANGED <<backups, clock>>
    BY <1>7 DEF WriteTemp, files
  <2>3. CopiesOK'
    BY <1>2, <2>1, <2>2
  <2> QED BY <1>0, <2>3 DEF CopyInv
<1>8. CASE RollingBackup(p)
  <2>1. /\ Runs(p, "temp") /\ Continue("rename") /\ disk' = disk /\ cachedData' = cachedData
        /\ CopyActive("rolling") \/ UNCHANGED <<backups, clock>>
    BY <1>8 DEF RollingBackup, memory
  <2>2. CopiesOK'
    BY <1>2, <2>1
  <2> QED BY <1>0, <2>2 DEF CopyInv
<1>9. CASE Rename(p)
  <2>1. stage' = "renamed"
    BY <1>9 DEF Rename, Continue
  <2> QED BY <1>0, <2>1 DEF CopyInv, CopiesOK
<1> QED BY <1>4, <1>5, <1>6, <1>7, <1>8, <1>9 DEF Step

\* A recovery is queued only with a copy of the rejected file among the backups.
LEMMA LoadCopies ==
    ASSUME OneLoader, CopyInv, NEW l \in Loaders, Load(l)
    PROVE  CopyInv'
<1>0. /\ AtomicInv' /\ AtomicInv /\ TypeInv /\ ReadersOK
      /\ \A m \in Loaders : m = l
      /\ task \in [Procs -> Tasks] /\ l \in Procs
  BY LoadAtomicInv DEF CopyInv, AtomicInv, DurableInv, TypeInv, TypeOK, OneLoader, Procs
<1>1. CASE LoadRead(l) \/ PickRecovery(l) \/ KeepRejectedFails(l)
  <2>1. disk' = disk /\ backups' = backups /\ UNCHANGED memory /\ UNCHANGED running
    BY <1>1 DEF LoadRead, PickRecovery, KeepRejectedFails, files
  <2> QED BY <1>0, <2>1 DEF CopyInv, CopiesOK, Running, Keeps, memory, running
<1>2. CASE LoadParsed(l) \/ LoadMissing(l) \/ KeepRejected(l)
  <2>1. loader[l].pc \in {"read", "picked"} /\ stage' = stage /\ backups \subseteq backups'
        /\ disk' = disk
    BY <1>2 DEF LoadParsed, LoadMissing, KeepRejected, files
  <2>2. cachedData = Nothing /\ stage = "idle"
    BY <1>0, <2>1, NothingQueued DEF ReadersOK
  <2>3. cachedData' # Nothing \/ Keeps("invalid")'
    <3>1. CASE LoadParsed(l)
      BY <3>1, MigratedIsProfile, Distinct DEF LoadParsed, Loaded
    <3>2. CASE LoadMissing(l)
      BY <3>2, DefaultIsProfile, Distinct DEF LoadMissing, Loaded
    <3>3. CASE KeepRejected(l)
      <4>1. [kind |-> "invalid", at |-> 0, body |-> disk] \in backups' /\ disk' = disk
        BY <3>3 DEF KeepRejected
      <4> QED BY <4>1 DEF Keeps
    <3> QED BY <1>2, <3>1, <3>2, <3>3
  <2>4. CopiesOK'
    BY <2>1, <2>2, <2>3 DEF CopiesOK
  <2> QED BY <1>0, <2>4 DEF CopyInv
<1> QED BY <1>1, <1>2 DEF Load

\* CopyInv is inductive.
LEMMA NextCopies == ASSUME OneLoader PROVE CopyInv /\ [Next]_vars => CopyInv'
<1> SUFFICES ASSUME CopyInv, [Next]_vars PROVE CopyInv'
  OBVIOUS
<1>0. AtomicInv /\ AtomicInv' /\ TypeInv
  BY NextAtomicInv DEF CopyInv, AtomicInv, DurableInv
<1>1. ASSUME NEW c \in Clients, Request(c) PROVE CopyInv'
  <2>1. PICK t : Submit(c, t)
    BY <1>1 DEF Request, SaveRendererData, SaveSnapshot, UpsertDownload,
                ClearCompletedDownloads, CommitImportData, RecordImportExtensionResult,
                ReplaceDataFromImport, RestoreStorageBackup
  <2>2. /\ queue' = Append(queue, c) /\ task' = [task EXCEPT ![c] = t]
        /\ disk' = disk /\ backups' = backups /\ UNCHANGED memory /\ stage' = stage
        /\ queue \in Seq(Procs) /\ c \in Procs /\ task \in [Procs -> Tasks] /\ task[c] = NoTask
    BY <1>0, <2>1 DEF Submit, Enqueue, files, TypeInv, TypeOK, Procs
  <2>3. stage # "idle" => queue # <<>> /\ Head(queue') = Head(queue) /\ task'[Head(queue)] = task[Head(queue)]
    <3>1. stage # "idle" => queue # <<>>
      BY <1>0 DEF TypeInv, StageOK
    <3>2. queue # <<>> => /\ 1 \in 1 .. Len(queue) /\ Head(queue) = queue[1] /\ queue[1] \in Procs
                          /\ Head(queue') = Head(queue)
      BY <2>2
    <3>3. queue # <<>> => Head(queue) # c
      BY <1>0, <2>2, <3>2 DEF TypeInv, QueueOK
    <3> QED BY <2>2, <3>1, <3>2, <3>3
  <2>4. \A l \in Loaders : task'[l] = task[l]
    BY <2>2, Separate DEF Procs
  <2>5. \A k \in Replacing : stage' \in {"copied", "temp", "rename"} /\ Running(k)' => Running(k)
    BY <2>2, <2>3 DEF Running
  <2> QED BY <1>0, <2>2, <2>4, <2>5 DEF CopyInv, CopiesOK, Keeps, memory
<1>2. CASE Hydrate \/ BackUpManually \/ Boot \/ UNCHANGED vars
  <2>1. /\ disk' = disk /\ UNCHANGED memory /\ UNCHANGED running
        /\ CopyActive("manual") \/ UNCHANGED <<backups, clock>>
    BY <1>2 DEF Hydrate, BackUpManually, Boot, vars, files, memory, running
  <2>2. \A k \in Replacing \union {"invalid"} : Keeps(k) => Keeps(k)'
    BY <2>1, KeepsStays
  <2>3. CopiesOK'
    BY <2>1, <2>2 DEF CopyInv, CopiesOK, Running, memory, running
  <2> QED BY <1>0, <2>3 DEF CopyInv
<1>3. CASE Crash
  <2>1. stage' = "idle" /\ \A l \in Loaders : task'[l] = NoTask
    BY <1>3 DEF Crash, Procs
  <2> QED BY <1>0, <2>1 DEF CopyInv, CopiesOK
<1>4. CASE Damage
  <2>1. stage' = stage /\ queue' = queue /\ task' = task /\ queue = <<>>
    BY <1>0, <1>4 DEF Damage, running, AtomicInv, DurableInv, StoppedOK
  <2>2. stage' = "idle" /\ \A l \in Loaders : task'[l] = NoTask
    BY <1>0, <2>1 DEF TypeInv, StageOK, AtomicInv, SavingOK
  <2> QED BY <1>0, <2>2 DEF CopyInv, CopiesOK
<1> QED BY <1>1, <1>2, <1>3, <1>4, StepCopies, LoadCopies DEF Next

\* Only a rename changes the file of a running process.
LEMMA OnlyRename ==
    ASSUME [Next]_vars, up, disk' # disk
    PROVE  \E p \in Procs : Rename(p)
<1>1. \A l \in Loaders : ~Load(l)
  BY DEF Load, LoadRead, LoadParsed, LoadMissing, PickRecovery, KeepRejected, KeepRejectedFails, files
<1>2. \A c \in Clients : ~Request(c)
  BY DEF Request, SaveRendererData, SaveSnapshot, UpsertDownload, ClearCompletedDownloads,
         CommitImportData, RecordImportExtensionResult, ReplaceDataFromImport,
         RestoreStorageBackup, Submit, files
<1>3. ~(Hydrate \/ BackUpManually \/ Boot \/ Crash \/ Damage \/ UNCHANGED vars)
  BY DEF Hydrate, BackUpManually, Boot, Crash, Damage, vars, files
<1>4. \A p \in Procs : Step(p) \/ StepFails(p) => Rename(p)
  BY DEF Step, StepFails, CopyBeforeReplace, Refuse, AnswerFromReceipt, SkipUnchangedWrite,
         WriteTemp, RollingBackup, RecordWrite, ReadBack, CopyBeforeReplaceFails, WriteFails, files
<1> QED BY <1>1, <1>2, <1>3, <1>4 DEF Next

\* The first start has nothing to keep.
LEMMA InitCopies == Init => CopyInv
<1> SUFFICES ASSUME Init PROVE CopyInv
  OBVIOUS
<1>1. stage = "idle" /\ \A l \in Loaders : loader[l].pc = "idle" /\ task[l] = NoTask
  BY DEF Init, IdleLoader, Procs
<1>2. DurableInv
  BY <1>1, InitTypeInv DEF Init, DurableInv, StoppedOK, ReadersOK, RenamedOK, CacheIsDurable
<1> QED BY <1>1, <1>2 DEF Init, AtomicInv, WritingOK, PickedOK, SavingOK, CopyInv, CopiesOK

\* An import or a restore never replaces a profile that is not among the backups, whatever
\* is trimmed, fails or runs in between.
THEOREM ReplacedIsKept == ASSUME OneLoader PROVE Spec => ReplacedProfileKept
<1>1. ASSUME CopyInv, [Next]_vars, NEW k \in Replacing, up, disk' # disk, disk # Absent, Running(k)
      PROVE  \E b \in backups : b.kind = k /\ b.body = disk
  <2>1. PICK p \in Procs : Rename(p)
    BY <1>1, OnlyRename
  <2>2. stage = "rename"
    BY <2>1 DEF Rename, Runs
  <2> QED BY <1>1, <2>2 DEF CopyInv, CopiesOK, Keeps
<1>2. CopyInv /\ [Next]_vars =>
        [\A k \in Replacing : up /\ disk' # disk /\ disk # Absent /\ Running(k) =>
            \E b \in backups : b.kind = k /\ b.body = disk]_vars
  BY <1>1
<1> QED BY <1>2, InitCopies, NextCopies, PTL DEF Spec, ReplacedProfileKept

\* The bytes loadData rejected are never overwritten without a copy of them.
THEOREM RejectedIsKept == ASSUME OneLoader PROVE Spec => RejectedBytesKept
<1>1. ASSUME CopyInv, [Next]_vars, up, disk \in Damaged, disk' # disk
      PROVE  \E b \in backups : b.kind = "invalid" /\ b.body = disk
  <2>1. PICK p \in Procs : Rename(p)
    BY <1>1, OnlyRename
  <2>2. Runs(p, "rename") /\ stage = "rename"
    BY <2>1 DEF Rename, Runs
  <2>3. cachedData = Nothing
    BY <1>1, <2>2 DEF CopyInv, AtomicInv, DurableInv, CacheIsDurable
  <2>4. p \in Loaders /\ task[p] # NoTask
    BY <1>1, <2>2, <2>3, RunningTask, Distinct DEF CopyInv, AtomicInv, DurableInv, Procs
  <2> QED BY <1>1, <2>2, <2>3, <2>4 DEF CopyInv, CopiesOK, Keeps
<1>2. CopyInv /\ [Next]_vars =>
        [up /\ disk \in Damaged /\ disk' # disk =>
            \E b \in backups : b.kind = "invalid" /\ b.body = disk]_vars
  BY <1>1
<1> QED BY <1>2, InitCopies, NextCopies, PTL DEF Spec, RejectedBytesKept

\* What a recovery, an import or a restore overwrites is in a backup.
THEOREM OverwrittenStays == ASSUME OneLoader PROVE Spec => OverwrittenIsKept
BY ReplacedIsKept, RejectedIsKept DEF OverwrittenIsKept

-----------------------------------------------------------------------------
\* A download state that was reported durable stays in the file.

Below(a, b) == \A d \in Downloads : Rank(a[d]) <= Rank(b[d])

\* Nothing is acknowledged of a file that is missing or damaged.
FileKeeps == DownloadsKept /\ (disk \notin Profile => acked = NoDownloads)

\* The list the main process has taken over knows what was acknowledged.
OwnedKeeps == OwnedNow # Nothing => Below(acked, OwnedNow)

\* So does the profile on its way to the file, unless it replaces everything.
NextKeeps ==
    stage \in {"temp", "rename", "renamed"} =>
        LET t == task[Head(queue)]
        IN /\ t.kind \notin Replacing => Below(acked, next.dl)
           /\ mainDownloads # Nothing => next.dl = mainDownloads
           /\ mainDownloads = Nothing /\ cachedData # Nothing => next.dl = cachedData.dl
           /\ t.kind = "upsert" => mainDownloads # Nothing /\ mainDownloads[t.id] = t.state

\* Until the list is taken over, the queued snapshots carry the downloads of the cache.
SnapshotsKeep ==
    cachedData # Nothing /\ OwnedNow = Nothing =>
        \A p \in Procs : task[p].kind = "snapshot" => task[p].data.dl = cachedData.dl

\* A queued upsert takes no acknowledged state back, and is the only one of its download.
UpsertsKeep ==
    \A p \in Procs : task[p].kind = "upsert" =>
        /\ Rank(acked[task[p].id]) <= Rank(task[p].state)
        /\ \A q \in Procs : task[q].kind = "upsert" /\ task[q].id = task[p].id => q = p

KeepInv == AtomicInv /\ FileKeeps /\ OwnedKeeps /\ NextKeeps /\ SnapshotsKeep /\ UpsertsKeep

\* The ranks are ordered, and nothing ranks below what was never acknowledged.
LEMMA Ranks ==
    /\ \A s \in DownloadStates : Rank(s) \in {0, 1, 2} /\ Rank("none") <= Rank(s)
    /\ Rank("none") = 0 /\ Rank("active") = 1 /\ Rank("done") = 2
    /\ \A a \in DownloadList : Below(NoDownloads, a) /\ Below(a, a)
<1>1. Rank("none") = 0 /\ Rank("active") = 1 /\ Rank("done") = 2
  BY DEF Rank
<1>2. \A s \in DownloadStates : Rank(s) \in {0, 1, 2} /\ Rank("none") <= Rank(s)
  BY <1>1 DEF DownloadStates
<1>3. \A a \in DownloadList : Below(NoDownloads, a) /\ Below(a, a)
  BY <1>2 DEF Below, NoDownloads, DownloadList
<1> QED BY <1>1, <1>2, <1>3

\* The list the next task finds, taken over or still in the cached profile, knows what was
\* acknowledged.
LEMMA ListKeeps ==
    ASSUME KeepInv, cachedData # Nothing, stage \notin {"temp", "rename", "renamed"}
    PROVE  /\ OwnedDownloads(cachedData, mainDownloads) \in DownloadList
           /\ Below(acked, OwnedDownloads(cachedData, mainDownloads))
<1>1. TypeInv /\ cachedData \in Profile /\ mainDownloads \in DownloadList \union {Nothing}
      /\ disk \in FileContents
  BY DEF KeepInv, AtomicInv, DurableInv, TypeInv, TypeOK
<1>2. OwnedDownloads(cachedData, mainDownloads) \in DownloadList
  BY <1>1, OwnedIsList
<1>3. CASE mainDownloads # Nothing
  BY <1>2, <1>3 DEF KeepInv, OwnedKeeps, OwnedNow, OwnedDownloads
<1>4. CASE mainDownloads = Nothing
  <2>1. cachedData = Loaded(disk) /\ disk \notin Damaged
    BY DEF KeepInv, AtomicInv, DurableInv, CacheIsDurable
  <2>2. OwnedDownloads(cachedData, mainDownloads) = cachedData.dl
    BY <1>4 DEF OwnedDownloads
  <2>3. CASE disk \in Profile
    <3>1. cachedData.dl = disk.dl
      <4>1. disk # Absent
        BY <2>3, Distinct
      <4> QED BY <2>1, <2>3, <4>1 DEF Loaded, Migrated, Profile
    <3> QED BY <1>2, <2>2, <2>3, <3>1 DEF KeepInv, FileKeeps, DownloadsKept, Below
  <2>4. CASE disk \notin Profile
    <3>1. acked = NoDownloads
      BY <2>4 DEF KeepInv, FileKeeps
    <3> QED BY <1>2, <3>1, Ranks
  <2> QED BY <2>3, <2>4
<1> QED BY <1>2, <1>3, <1>4

\* What an accepted task that replaces nothing writes knows what is acknowledged then; what
\* is written with a list taken over has that list, and otherwise the cached one.
LEMMA ResultKeeps ==
    ASSUME KeepInv, NEW p, NEW s \in {"idle", "copied"}, Runs(p, s)
    PROVE  LET after == DownloadsAfter(task[p], cachedData, mainDownloads)
           IN /\ task[p].kind \notin Replacing => Below(AckedAtStart(task[p]), Result(p).dl)
              /\ after # Nothing => Result(p).dl = after
              /\ after = Nothing /\ cachedData # Nothing => Result(p).dl = cachedData.dl
              /\ task[p].kind = "upsert" => after # Nothing /\ after[task[p].id] = task[p].state
              /\ after # Nothing /\ task[p].kind \notin Replacing => Below(AckedAtStart(task[p]), after)
<1> DEFINE t == task[p]
           list == OwnedDownloads(cachedData, mainDownloads)
           after == DownloadsAfter(t, cachedData, mainDownloads)
<1>1. /\ TypeInv /\ p \in Procs /\ Head(queue) = p /\ t # NoTask /\ t \in Tasks /\ stage = s
      /\ p \in Clients => cachedData \in Profile
      /\ p \in Loaders => t.kind \in {"first save", "recovery"}
      /\ acked \in DownloadList /\ mainDownloads \in DownloadList \union {Nothing}
  BY RunningTask DEF KeepInv, AtomicInv, DurableInv, Runs, TypeInv, TypeOK
<1>2. /\ Result(p) \in Profile /\ after \in DownloadList \union {Nothing}
      /\ AckedAtStart(t) \in DownloadList
  BY <1>1, ResultIsProfile
<1>3. Result(p) = Merged(Candidate(t, cachedData), after)
  BY DEF Result, Written
<1>4. Candidate(t, cachedData) \in Profile
  <2>1. CASE p \in Clients
    BY <1>1, <2>1, CandidateIsProfile
  <2>2. CASE p \in Loaders
    BY <1>1, <2>2, TaskShape DEF Candidate, Saving, Replacing
  <2> QED BY <1>1, <2>1, <2>2 DEF Procs
<1>5. Result(p).dl = IF after = Nothing THEN Candidate(t, cachedData).dl ELSE after
  BY <1>3, <1>4 DEF Merged, Profile
<1>6. CASE cachedData = Nothing
  <2>1. p \in Loaders /\ mainDownloads = Nothing /\ disk \in Damaged
    <3>1. p \in Loaders
      BY <1>1, <1>6, Distinct DEF Procs
    <3> QED BY <1>1, <1>6, <3>1 DEF KeepInv, AtomicInv, SavingOK
  <2>2. acked = NoDownloads
    BY <2>1, Distinct DEF KeepInv, FileKeeps
  <2>3. t.kind \in {"first save", "recovery"}
    BY <1>1, <2>1
  <2>4. AckedAtStart(t) = acked /\ after = Nothing
    BY <2>1, <2>3 DEF AckedAtStart, DownloadsAfter, Replacing
  <2>5. Result(p).dl \in DownloadList
    BY <1>2 DEF Profile
  <2>6. Below(AckedAtStart(t), Result(p).dl)
    BY <2>2, <2>4, <2>5, Ranks
  <2> QED BY <1>6, <2>3, <2>4, <2>6
<1>7. CASE cachedData # Nothing
  <2>1. list \in DownloadList /\ Below(acked, list) /\ cachedData \in Profile
    BY <1>1, <1>7, ListKeeps DEF TypeInv, TypeOK
  <2>2. CASE t.kind = "renderer"
    <3>1. after = list /\ AckedAtStart(t) = acked
      BY <2>2 DEF DownloadsAfter, AckedAtStart, Replacing
    <3> QED BY <1>5, <2>1, <2>2, <3>1, Distinct
  <2>3. CASE t.kind = "upsert"
    <3>1. t.id \in Downloads /\ t.state \in DownloadStates
      BY <1>1, <2>3, TaskShape
    <3>2. after = [list EXCEPT ![t.id] = t.state] /\ AckedAtStart(t) = acked
      BY <2>3 DEF DownloadsAfter, AckedAtStart, Replacing
    <3>3. Rank(acked[t.id]) <= Rank(t.state)
      BY <1>1, <2>3 DEF KeepInv, UpsertsKeep
    <3>4. after[t.id] = t.state /\ \A d \in Downloads : d # t.id => after[d] = list[d]
      BY <2>1, <3>1, <3>2 DEF DownloadList
    <3>5. Below(acked, after)
      BY <2>1, <3>3, <3>4 DEF Below
    <3>6. after \in DownloadList
      BY <2>1, <3>1, <3>2 DEF DownloadList
    <3> QED BY <1>5, <2>3, <3>2, <3>4, <3>5, <3>6, Distinct
  <2>4. CASE t.kind = "clear"
    <3>1. after = [d \in Downloads |-> IF list[d] = "done" THEN "none" ELSE list[d]]
      BY <2>4 DEF DownloadsAfter, Replacing
    <3>2. AckedAtStart(t) = [d \in Downloads |-> IF list[d] = "done" THEN "none" ELSE acked[d]]
      BY <2>4 DEF AckedAtStart
    <3>3. Below(AckedAtStart(t), after)
      BY <2>1, <3>1, <3>2, Ranks DEF Below
    <3>4. after \in DownloadList
      BY <2>1, <3>1 DEF DownloadList, DownloadStates
    <3> QED BY <1>5, <2>4, <3>3, <3>4, Distinct
  <2>5. CASE t.kind \in Replacing
    <3>1. after = t.data.dl /\ t.data \in Profile
      BY <1>1, <2>5, TaskShape DEF DownloadsAfter, Replacing
    <3>2. after \in DownloadList
      BY <3>1 DEF Profile
    <3> QED BY <1>5, <2>5, <3>2, Distinct DEF Replacing
  <2>6. CASE t.kind \notin {"renderer", "upsert", "clear"} \union Replacing
    <3>1. after = mainDownloads /\ AckedAtStart(t) = acked
      BY <2>6 DEF DownloadsAfter, AckedAtStart
    <3>2. mainDownloads = Nothing => Candidate(t, cachedData).dl = cachedData.dl
      <4>1. CASE t.kind = "snapshot"
        <5>1. Candidate(t, cachedData) = t.data
          BY <4>1 DEF Candidate, Saving, Replacing
        <5>2. OwnedNow = mainDownloads
          BY <1>1 DEF OwnedNow
        <5> QED BY <1>1, <1>7, <4>1, <5>1, <5>2 DEF KeepInv, SnapshotsKeep
      <4>2. CASE t.kind \in {"first save", "recovery"}
        <5>1. p \in Loaders
          BY <1>1, <4>2 DEF TypeInv, CallersOK, Procs
        <5>2. t.data = cachedData
          BY <1>1, <1>7, <5>1 DEF KeepInv, AtomicInv, SavingOK
        <5> QED BY <4>2, <5>2 DEF Candidate, Saving, Replacing
      <4>3. CASE t.kind = "commit"
        BY <2>1, <4>3 DEF Candidate, Saving, Replacing, Profile
      <4>4. CASE t.kind = "extension"
        BY <2>1, <4>4 DEF Candidate, Saving, Replacing, Profile
      <4>5. t.kind # "none"
        BY <1>1, NoneIsNoTask
      <4> QED BY <1>1, <2>6, <4>1, <4>2, <4>3, <4>4, <4>5, TaskShape DEF Saving
    <3>3. list = IF mainDownloads = Nothing THEN cachedData.dl ELSE mainDownloads
      BY DEF OwnedDownloads
    <3>4. Result(p).dl = list
      BY <1>5, <3>1, <3>2, <3>3
    <3> QED BY <1>5, <2>1, <2>6, <3>1, <3>2, <3>3, <3>4
  <2> QED BY <2>2, <2>3, <2>4, <2>5, <2>6
<1> QED BY <1>6, <1>7

\* A list once taken over is not handed back by a task that starts.
LEMMA StaysTakenOver ==
    ASSUME NEW t \in Tasks, NEW cur, NEW owned \in DownloadList
    PROVE  DownloadsAfter(t, cur, owned) # Nothing
<1>1. OwnedDownloads(cur, owned) = owned /\ owned # Nothing
  BY Distinct DEF OwnedDownloads
<1>2. CASE t.kind = "renderer"
  BY <1>1, <1>2 DEF DownloadsAfter, Replacing
<1>3. CASE t.kind = "upsert"
  <2>1. [owned EXCEPT ![t.id] = t.state] \in DownloadList
    BY <1>3, TaskShape DEF DownloadList
  <2> QED BY <1>1, <1>3, <2>1, Distinct DEF DownloadsAfter, Replacing
<1>4. CASE t.kind = "clear"
  <2>1. [d \in Downloads |-> IF owned[d] = "done" THEN "none" ELSE owned[d]] \in DownloadList
    BY DEF DownloadList, DownloadStates
  <2> QED BY <1>1, <1>4, <2>1, Distinct DEF DownloadsAfter, Replacing
<1>5. CASE t.kind \in Replacing
  <2>1. t.data.dl \in DownloadList
    BY <1>5, TaskShape DEF Profile
  <2> QED BY <1>5, <2>1, Distinct DEF DownloadsAfter, Replacing
<1>6. CASE t.kind \notin {"renderer", "upsert", "clear"} \union Replacing
  BY <1>1, <1>6 DEF DownloadsAfter
<1> QED BY <1>2, <1>3, <1>4, <1>5, <1>6

\* What a step does to the tasks: it settles one, at most.
LEMMA TasksShrink ==
    ASSUME TypeInv, NEW p, NEW s, Runs(p, s), Settle(p) \/ \E r : Continue(r)
    PROVE  /\ \A q \in Procs : task'[q] = NoTask \/ task'[q] = task[q]
           /\ Settle(p) => task'[p] = NoTask
           /\ NoTask.kind = "none"
<1>1. p \in Procs /\ queue # <<>> /\ Head(queue) = p /\ task \in [Procs -> Tasks]
  BY RunningTask DEF TypeInv, TypeOK
<1> QED BY <1>1 DEF Settle, Continue, NoTask

\* Nothing waits in the queue that a step with fewer tasks could disturb.
LEMMA QueueKeeps ==
    ASSUME KeepInv, \A q \in Procs : task'[q] = NoTask \/ task'[q] = task[q]
    PROVE  /\ (\A q \in Procs : task'[q].kind = "upsert" =>
                  Rank(acked'[task[q].id]) <= Rank(task[q].state)) => UpsertsKeep'
           /\ (cachedData' # Nothing /\ OwnedNow' = Nothing =>
                  \/ cachedData = Nothing
                  \/ OwnedNow = Nothing /\ cachedData'.dl = cachedData.dl) => SnapshotsKeep'
<1>1. NoTask.kind = "none"
  BY DEF NoTask
<1>2. cachedData = Nothing => \A q \in Procs : task[q].kind # "snapshot"
  BY <1>1 DEF KeepInv, AtomicInv, DurableInv, TypeInv, CallersOK, Procs
<1>3. ASSUME \A q \in Procs : task'[q].kind = "upsert" =>
                  Rank(acked'[task[q].id]) <= Rank(task[q].state)
      PROVE  UpsertsKeep'
  <2>1. \A q \in Procs : task'[q].kind = "upsert" => task'[q] = task[q]
    BY <1>1
  <2> QED BY <1>3, <2>1 DEF KeepInv, UpsertsKeep
<1>4. ASSUME cachedData' # Nothing /\ OwnedNow' = Nothing =>
                  \/ cachedData = Nothing
                  \/ OwnedNow = Nothing /\ cachedData'.dl = cachedData.dl
      PROVE  SnapshotsKeep'
  <2>1. \A q \in Procs : task'[q].kind = "snapshot" => task'[q] = task[q]
    BY <1>1
  <2> QED BY <1>2, <1>4, <2>1 DEF KeepInv, SnapshotsKeep
<1> QED BY <1>3, <1>4

\* The end of a task whose result is in the file: what it reports is there.
LEMMA DoneKeeps ==
    ASSUME KeepInv, KeepInv => AtomicInv', NEW p, NEW s, Runs(p, s),
           Settle(p) \/ (task[p].kind # "upsert" /\ Continue("readback")),
           disk' = disk, disk \in Profile,
           mainDownloads' # Nothing => disk.dl = mainDownloads',
           task[p].kind = "upsert" => mainDownloads' # Nothing /\ mainDownloads'[task[p].id] = task[p].state,
           \/ acked' = AckedAtEnd(task[p])
           \/ task[p].kind = "clear" /\ acked' = AckedAtStart(task[p]),
           cachedData' # Nothing /\ mainDownloads' = Nothing =>
                  \/ cachedData = Nothing
                  \/ OwnedNow = Nothing /\ cachedData'.dl = cachedData.dl
    PROVE  KeepInv'
<1>1. /\ TypeInv /\ p \in Procs /\ task[p] \in Tasks /\ acked \in DownloadList
      /\ disk.dl \in DownloadList
  BY RunningTask DEF KeepInv, AtomicInv, DurableInv, TypeInv, TypeOK, Profile
<1>2. /\ \A q \in Procs : task'[q] = NoTask \/ task'[q] = task[q]
      /\ Settle(p) => task'[p] = NoTask
      /\ NoTask.kind = "none"
  BY <1>1, TasksShrink
<1>3. stage' \in {"idle", "readback"}
  BY DEF Settle, Continue
<1>4. OwnedNow' = mainDownloads'
  BY <1>3 DEF OwnedNow
<1>5. Below(acked, disk.dl)
  BY DEF KeepInv, FileKeeps, DownloadsKept, Below
<1>6. CASE task[p].kind = "upsert"
  <2>1. task[p].id \in Downloads /\ acked' = [acked EXCEPT ![task[p].id] = task[p].state]
        /\ disk.dl[task[p].id] = task[p].state /\ task[p].state \in DownloadStates
    BY <1>1, <1>6, TaskShape DEF AckedAtEnd
  <2>2. acked'[task[p].id] = task[p].state
        /\ \A d \in Downloads : d # task[p].id => acked'[d] = acked[d]
    BY <1>1, <2>1 DEF DownloadList
  <2>3. Below(acked', disk.dl)
    BY <1>5, <2>1, <2>2, Ranks DEF Below
  <2>4. ASSUME NEW q \in Procs, task'[q].kind = "upsert"
        PROVE  Rank(acked'[task[q].id]) <= Rank(task[q].state)
    <3>1. q # p /\ task'[q] = task[q]
      BY <1>2, <1>6, <2>4
    <3>2. task[q].id # task[p].id /\ Rank(acked[task[q].id]) <= Rank(task[q].state)
      BY <1>1, <1>6, <2>4, <3>1 DEF KeepInv, UpsertsKeep
    <3>3. task[q].id \in Downloads
      BY <1>1, <2>4, <3>1, TaskShape DEF TypeInv, TypeOK
    <3> QED BY <2>2, <3>2, <3>3
  <2>5. UpsertsKeep' /\ SnapshotsKeep'
    BY <1>2, <1>4, <2>4, QueueKeeps
  <2>6. FileKeeps' /\ OwnedKeeps'
    BY <1>4, <2>3 DEF FileKeeps, OwnedKeeps, DownloadsKept, Below
  <2> QED BY <1>3, <2>5, <2>6 DEF KeepInv, NextKeeps
<1>7. CASE task[p].kind # "upsert"
  <2>1. \A d \in Downloads : acked'[d] = acked[d] \/ acked'[d] = "none"
    <3>1. acked' = acked \/ acked' = [d \in Downloads |->
             IF OwnedDownloads(cachedData, mainDownloads)[d] = "done" THEN "none" ELSE acked[d]]
      BY <1>7 DEF AckedAtEnd, AckedAtStart
    <3> QED BY <3>1
  <2>2. \A d \in Downloads : Rank(acked'[d]) <= Rank(acked[d]) /\ acked[d] \in DownloadStates
    BY <1>1, <2>1, Ranks DEF DownloadList
  <2>3. Below(acked', disk.dl)
    <3>1. \A d \in Downloads : Rank(acked[d]) \in {0, 1, 2} /\ Rank(disk.dl[d]) \in {0, 1, 2}
      BY <1>1, Ranks DEF DownloadList
    <3>2. \A d \in Downloads : Rank(acked'[d]) \in {0, 1, 2}
      BY <2>1, <3>1, Ranks
    <3> QED BY <1>5, <2>2, <3>1, <3>2 DEF Below
  <2>4. ASSUME NEW q \in Procs, task'[q].kind = "upsert"
        PROVE  Rank(acked'[task[q].id]) <= Rank(task[q].state)
    <3>1. task'[q] = task[q] /\ Rank(acked[task[q].id]) <= Rank(task[q].state)
      BY <1>2, <2>4 DEF KeepInv, UpsertsKeep
    <3>2. task[q].id \in Downloads /\ task[q].state \in DownloadStates
      BY <1>1, <2>4, <3>1, TaskShape DEF TypeInv, TypeOK
    <3>3. /\ acked'[task[q].id] = acked[task[q].id] \/ acked'[task[q].id] = "none"
      BY <2>1, <3>2
    <3> QED BY <3>1, <3>2, <3>3, Ranks
  <2>5. UpsertsKeep' /\ SnapshotsKeep'
    BY <1>2, <1>4, <2>4, QueueKeeps
  <2>6. FileKeeps' /\ OwnedKeeps'
    BY <1>4, <2>3 DEF FileKeeps, OwnedKeeps, DownloadsKept, Below
  <2> QED BY <1>3, <2>5, <2>6 DEF KeepInv, NextKeeps
<1> QED BY <1>6, <1>7

\* Every step of the running task keeps what was acknowledged.
LEMMA StepKeeps ==
    ASSUME OneLoader, KeepInv, NEW p \in Procs, Step(p) \/ StepFails(p)
    PROVE  KeepInv'
<1>0. /\ AtomicInv' /\ AtomicInv /\ TypeInv /\ acked \in DownloadList
      /\ mainDownloads \in DownloadList \union {Nothing}
      /\ priorDownloads \in DownloadList \union {Nothing}
  BY StepAtomicInv DEF KeepInv, AtomicInv, DurableInv, TypeInv, TypeOK
<1>1. \A q \in Procs : task[q].kind = "upsert" => Rank(acked[task[q].id]) <= Rank(task[q].state)
  BY DEF KeepInv, UpsertsKeep
<1>2. ASSUME NEW s, Runs(p, s), s \in {"temp", "rename"}
      PROVE  mainDownloads = Nothing => priorDownloads = Nothing
  <2>1. mainDownloads = DownloadsAfter(task[p], cachedData, priorDownloads) /\ task[p] \in Tasks
    BY <1>0, <1>2, RunningTask DEF AtomicInv, WritingOK, Runs
  <2> QED BY <1>0, <2>1, StaysTakenOver
<1>3. CASE CopyBeforeReplace(p) \/ Refuse(p) \/ AnswerFromReceipt(p) \/ ReadBack(p)
           \/ CopyBeforeReplaceFails(p)
  <2>1. PICK s \in {"idle", "copied", "readback"} : Runs(p, s)
    BY <1>3 DEF CopyBeforeReplace, Refuse, AnswerFromReceipt, ReadBack, CopyBeforeReplaceFails, Ready
  <2>2. /\ Settle(p) \/ \E r \in {"copied", "readback"} : Continue(r)
        /\ disk' = disk /\ acked' = acked /\ cachedData' = cachedData
        /\ mainDownloads' = mainDownloads
    BY <1>3 DEF CopyBeforeReplace, Refuse, AnswerFromReceipt, ReadBack, CopyBeforeReplaceFails,
                files, memory
  <2>3. stage' \notin {"temp", "rename", "renamed"} /\ OwnedNow' = OwnedNow
    BY <2>1, <2>2 DEF Settle, Continue, OwnedNow, Runs
  <2>4. \A q \in Procs : task'[q] = NoTask \/ task'[q] = task[q]
    BY <1>0, <2>1, <2>2, TasksShrink
  <2>5. \A q \in Procs : task'[q].kind = "upsert" => task'[q] = task[q]
    BY <2>4 DEF NoTask
  <2>6. UpsertsKeep' /\ SnapshotsKeep'
    BY <1>1, <2>2, <2>3, <2>4, <2>5, QueueKeeps
  <2>7. FileKeeps' /\ OwnedKeeps' /\ NextKeeps'
    BY <2>2, <2>3 DEF KeepInv, FileKeeps, DownloadsKept, OwnedKeeps, NextKeeps
  <2> QED BY <1>0, <2>6, <2>7 DEF KeepInv
<1>4. CASE WriteTemp(p)
  <2>1. PICK s \in {"idle", "copied"} : Runs(p, s)
    BY <1>4 DEF WriteTemp, Proceeds, Ready
  <2>2. /\ Continue("temp") /\ disk' = disk /\ cachedData' = cachedData
        /\ next' = Result(p) /\ priorDownloads' = mainDownloads
        /\ mainDownloads' = DownloadsAfter(task[p], cachedData, mainDownloads)
        /\ acked' = AckedAtStart(task[p])
    BY <1>4 DEF WriteTemp, files
  <2>3. Head(queue') = p /\ task' = task /\ stage' = "temp" /\ OwnedNow' = OwnedNow
    BY <2>1, <2>2 DEF Continue, Runs, OwnedNow
  <2>4. \A d \in Downloads : acked'[d] = acked[d] \/ acked'[d] = "none"
    BY <2>2 DEF AckedAtStart
  <2>5. ASSUME NEW a \in DownloadList, Below(acked, a) PROVE Below(acked', a)
    <3>1. \A d \in Downloads : a[d] \in DownloadStates
      BY DEF DownloadList
    <3> QED BY <2>4, <2>5, <3>1, Ranks DEF Below
  <2>6. NextKeeps'
    BY <2>1, <2>2, <2>3, ResultKeeps DEF NextKeeps
  <2>7. OwnedKeeps'
    <3>1. OwnedNow \in DownloadList \union {Nothing}
      BY <1>0 DEF OwnedNow
    <3> QED BY <2>3, <2>5, <3>1 DEF KeepInv, OwnedKeeps
  <2>8. FileKeeps'
    <3>1. disk \in Profile => Below(acked', disk.dl)
      <4>1. disk \in Profile => disk.dl \in DownloadList /\ Below(acked, disk.dl)
        BY DEF KeepInv, FileKeeps, DownloadsKept, Below, Profile
      <4> QED BY <2>5, <4>1
    <3>2. acked = NoDownloads => acked' = NoDownloads
      BY <2>2 DEF AckedAtStart, NoDownloads
    <3> QED BY <2>2, <3>1, <3>2 DEF KeepInv, FileKeeps, DownloadsKept, Below
  <2>9. ASSUME NEW q \in Procs, task'[q].kind = "upsert"
        PROVE  Rank(acked'[task[q].id]) <= Rank(task[q].state)
    <3>1. task[q].id \in Downloads /\ task[q].state \in DownloadStates
      BY <1>0, <2>3, <2>9, TaskShape DEF TypeInv, TypeOK
    <3> QED BY <1>1, <2>3, <2>4, <2>9, <3>1, Ranks
  <2>10. UpsertsKeep' /\ SnapshotsKeep'
    BY <2>2, <2>3, <2>9, QueueKeeps
  <2> QED BY <1>0, <2>6, <2>7, <2>8, <2>10 DEF KeepInv
<1>5. CASE RollingBackup(p)
  <2>1. /\ Runs(p, "temp") /\ Continue("rename") /\ disk' = disk /\ acked' = acked
        /\ UNCHANGED memory /\ next' = next /\ priorDownloads' = priorDownloads
    BY <1>5 DEF RollingBackup
  <2>2. queue' = queue /\ task' = task /\ stage = "temp" /\ stage' = "rename"
    BY <2>1 DEF Continue, Runs
  <2> QED BY <1>0, <2>1, <2>2 DEF KeepInv, FileKeeps, DownloadsKept, OwnedKeeps, OwnedNow,
                                  NextKeeps, SnapshotsKeep, UpsertsKeep, memory
<1>6. CASE Rename(p)
  <2>1. /\ Runs(p, "rename") /\ Continue("renamed") /\ disk' = next /\ next' = next
        /\ acked' = IF task[p].kind \in Replacing THEN NoDownloads ELSE acked
        /\ cachedData' = cachedData /\ mainDownloads' = mainDownloads
    BY <1>6 DEF Rename, memory
  <2>2. queue' = queue /\ task' = task /\ stage = "rename" /\ stage' = "renamed" /\ Head(queue) = p
        /\ OwnedNow = priorDownloads /\ OwnedNow' = mainDownloads
    BY <2>1 DEF Continue, Runs, OwnedNow
  <2>3. next \in Profile /\ next.dl \in DownloadList
    BY <1>0, <2>2 DEF TypeInv, StageOK, Profile
  <2>4. Below(acked', next.dl)
    BY <2>1, <2>2, <2>3, Ranks DEF KeepInv, NextKeeps
  <2>5. FileKeeps' /\ OwnedKeeps' /\ NextKeeps'
    BY <2>1, <2>2, <2>3, <2>4 DEF KeepInv, FileKeeps, DownloadsKept, Below, OwnedKeeps, NextKeeps
  <2>6. ASSUME NEW q \in Procs, task'[q].kind = "upsert"
        PROVE  Rank(acked'[task[q].id]) <= Rank(task[q].state)
    <3>1. task[q].id \in Downloads /\ task[q].state \in DownloadStates
      BY <1>0, <2>2, <2>6, TaskShape DEF TypeInv, TypeOK
    <3>2. acked'[task[q].id] = acked[task[q].id] \/ acked'[task[q].id] = "none"
      BY <2>1, <3>1 DEF NoDownloads
    <3> QED BY <1>1, <2>2, <2>6, <3>1, <3>2, Ranks
  <2>7. UpsertsKeep' /\ SnapshotsKeep'
    BY <1>2, <2>1, <2>2, <2>6, QueueKeeps
  <2> QED BY <1>0, <2>5, <2>7 DEF KeepInv
<1>7. CASE WriteFails(p)
  <2>1. PICK s \in {"temp", "rename"} : Runs(p, s)
    BY <1>7 DEF WriteFails
  <2>2. /\ Settle(p) /\ disk' = disk /\ acked' = acked /\ cachedData' = cachedData
        /\ mainDownloads' = IF task[p].kind \in Replacing THEN priorDownloads ELSE mainDownloads
    BY <1>7 DEF WriteFails, files
  <2>3. stage \in {"temp", "rename"} /\ stage' = "idle" /\ Head(queue) = p
        /\ OwnedNow = priorDownloads /\ OwnedNow' = mainDownloads'
    BY <2>1, <2>2 DEF Settle, Runs, OwnedNow
  <2>4. FileKeeps' /\ NextKeeps'
    BY <2>2, <2>3 DEF KeepInv, FileKeeps, DownloadsKept, NextKeeps
  <2>5. OwnedKeeps'
    <3>1. CASE task[p].kind \in Replacing
      BY <2>2, <2>3, <3>1 DEF KeepInv, OwnedKeeps
    <3>2. CASE task[p].kind \notin Replacing
      BY <2>2, <2>3, <3>2 DEF KeepInv, OwnedKeeps, NextKeeps
    <3> QED BY <3>1, <3>2
  <2>6. \A q \in Procs : task'[q] = NoTask \/ task'[q] = task[q]
    BY <1>0, <2>1, <2>2, TasksShrink
  <2>7. \A q \in Procs : task'[q].kind = "upsert" => task'[q] = task[q]
    BY <2>6 DEF NoTask
  <2>8. mainDownloads' = Nothing => OwnedNow = Nothing
    BY <1>2, <2>1, <2>2, <2>3
  <2>9. UpsertsKeep' /\ SnapshotsKeep'
    BY <1>1, <2>2, <2>3, <2>6, <2>7, <2>8, QueueKeeps
  <2> QED BY <1>0, <2>4, <2>5, <2>9 DEF KeepInv
<1>8. CASE RecordWrite(p)
  <2>1. /\ Runs(p, "renamed") /\ disk' = disk /\ cachedData' = next
        /\ mainDownloads' = mainDownloads /\ acked' = AckedAtEnd(task[p])
        /\ Settle(p) \/ (task[p].kind # "upsert" /\ Continue("readback"))
    BY <1>8 DEF RecordWrite, Finish, files
  <2>2. stage = "renamed" /\ Head(queue) = p /\ OwnedNow = mainDownloads
    BY <2>1 DEF Runs, OwnedNow
  <2>3. disk = next /\ next \in Profile
    BY <1>0, <2>2 DEF AtomicInv, DurableInv, RenamedOK, TypeInv, StageOK
  <2>4. /\ mainDownloads # Nothing => next.dl = mainDownloads
        /\ mainDownloads = Nothing /\ cachedData # Nothing => next.dl = cachedData.dl
        /\ task[p].kind = "upsert" => mainDownloads # Nothing /\ mainDownloads[task[p].id] = task[p].state
    BY <2>2 DEF KeepInv, NextKeeps
  <2> QED BY <1>0, <2>1, <2>2, <2>3, <2>4, DoneKeeps
<1>9. CASE SkipUnchangedWrite(p)
  <2>1. PICK s \in {"idle", "copied"} : Runs(p, s)
    BY <1>9 DEF SkipUnchangedWrite, Proceeds, Ready
  <2>2. /\ disk' = disk /\ cachedData' = cachedData /\ Result(p) = lastWritten
        /\ mainDownloads' = DownloadsAfter(task[p], cachedData, mainDownloads)
        /\ \/ acked' = AckedAtEnd(task[p])
           \/ task[p].kind = "clear" /\ acked' = AckedAtStart(task[p])
        /\ Settle(p) \/ (task[p].kind # "upsert" /\ Continue("readback"))
    BY <1>9 DEF SkipUnchangedWrite, Finish, files
  <2>3. Result(p) \in Profile /\ task[p] \in Tasks
    BY <1>0, <2>1, ResultIsProfile, RunningTask
  <2>4. disk = Result(p)
    <3>1. lastWritten # Nothing /\ cachedData # Nothing /\ stage # "renamed"
      BY <1>0, <2>1, <2>2, <2>3, Distinct DEF AtomicInv, DurableInv, CacheIsDurable, Runs
    <3> QED BY <1>0, <2>2, <3>1 DEF AtomicInv, DurableInv, CacheIsDurable
  <2>5. /\ mainDownloads' # Nothing => disk.dl = mainDownloads'
        /\ task[p].kind = "upsert" => mainDownloads' # Nothing /\ mainDownloads'[task[p].id] = task[p].state
    BY <2>1, <2>2, <2>4, ResultKeeps
  <2>6. mainDownloads' = Nothing => OwnedNow = Nothing
    <3>1. OwnedNow = mainDownloads
      BY <2>1 DEF OwnedNow, Runs
    <3> QED BY <1>0, <2>2, <2>3, <3>1, StaysTakenOver
  <2> QED BY <1>0, <2>1, <2>2, <2>3, <2>4, <2>5, <2>6, DoneKeeps
<1> QED BY <1>3, <1>4, <1>5, <1>6, <1>7, <1>8, <1>9 DEF Step, StepFails

\* A caller that waits for nothing has a task of no kind.
LEMMA NoneKind == NoTask.kind = "none"
BY DEF NoTask

\* loadData acknowledges nothing and queues neither a snapshot nor an upsert.
LEMMA LoadKeeps ==
    ASSUME OneLoader, KeepInv, NEW l \in Loaders, Load(l)
    PROVE  KeepInv'
<1>0. /\ AtomicInv' /\ AtomicInv /\ TypeInv /\ ReadersOK
      /\ task \in [Procs -> Tasks] /\ l \in Procs
  BY LoadAtomicInv DEF KeepInv, AtomicInv, DurableInv, TypeInv, TypeOK, Procs
<1>1. /\ disk' = disk /\ acked' = acked /\ stage' = stage /\ mainDownloads' = mainDownloads
      /\ priorDownloads' = priorDownloads /\ next' = next
  BY DEF Load, LoadRead, LoadParsed, LoadMissing, PickRecovery, KeepRejected, KeepRejectedFails,
         files, memory, running
<1>2. OwnedNow' = OwnedNow
  BY <1>1 DEF OwnedNow
<1>3. CASE LoadRead(l)
  <2>1. UNCHANGED memory /\ UNCHANGED running
    BY <1>3 DEF LoadRead
  <2> QED BY <1>0, <1>1, <1>2, <2>1 DEF KeepInv, FileKeeps, DownloadsKept, OwnedKeeps,
                                        NextKeeps, SnapshotsKeep, UpsertsKeep, memory, running
<1>4. CASE ~LoadRead(l)
  <2>1. loader[l].pc \in {"read", "picked"}
    BY <1>4 DEF Load, LoadParsed, LoadMissing, PickRecovery, KeepRejected, KeepRejectedFails
  <2>2. cachedData = Nothing /\ stage = "idle" /\ \A c \in Clients : task[c] = NoTask
    BY <1>0, <2>1, NothingQueued DEF ReadersOK, TypeInv, CallersOK
  <2>3. \/ UNCHANGED <<queue, task>>
        \/ \E k \in {"first save", "recovery"} : \E x : Enqueue(l, [kind |-> k, data |-> x])
    <3>1. CASE PickRecovery(l) \/ KeepRejectedFails(l)
      BY <3>1 DEF PickRecovery, KeepRejectedFails, running
    <3>2. CASE LoadParsed(l)
      BY <3>2 DEF LoadParsed
    <3>3. CASE LoadMissing(l)
      BY <3>3 DEF LoadMissing
    <3>4. CASE KeepRejected(l)
      BY <3>4 DEF KeepRejected
    <3> QED BY <1>4, <3>1, <3>2, <3>3, <3>4 DEF Load
  <2>4. task[l].kind \in {"none", "first save", "recovery"}
    BY <1>0 DEF TypeInv, CallersOK
  <2>5. \A q \in Procs : task'[q].kind \notin {"snapshot", "upsert"}
    <3>1. \A q \in Procs : task[q].kind \notin {"snapshot", "upsert"}
      BY <1>0, <2>2, NoneKind DEF TypeInv, CallersOK, Procs
    <3>2. CASE UNCHANGED <<queue, task>>
      BY <3>1, <3>2
    <3>3. ASSUME NEW k \in {"first save", "recovery"}, NEW x, Enqueue(l, [kind |-> k, data |-> x])
          PROVE  \A q \in Procs : task'[q].kind \notin {"snapshot", "upsert"}
      <4>1. task' = [task EXCEPT ![l] = [kind |-> k, data |-> x]]
        BY <3>3 DEF Enqueue
      <4> QED BY <1>0, <3>1, <3>3, <4>1
    <3> QED BY <2>3, <3>2, <3>3
  <2>6. UpsertsKeep' /\ SnapshotsKeep'
    BY <2>5 DEF UpsertsKeep, SnapshotsKeep
  <2>7. FileKeeps' /\ OwnedKeeps' /\ NextKeeps'
    BY <1>1, <1>2, <2>2 DEF KeepInv, FileKeeps, DownloadsKept, OwnedKeeps, NextKeeps
  <2> QED BY <1>0, <2>6, <2>7 DEF KeepInv
<1> QED BY <1>3, <1>4

\* A request is queued with downloads no older than the cached ones.
LEMMA RequestKeeps ==
    ASSUME OneLoader, KeepInv, NEW c \in Clients, Request(c), AtomicInv'
    PROVE  KeepInv'
<1>0. TypeInv /\ cachedData \in Profile \union {Nothing} /\ acked \in DownloadList
  BY DEF KeepInv, AtomicInv, DurableInv, TypeInv, TypeOK
<1>1. PICK t : /\ Submit(c, t)
               /\ t.kind = "snapshot" => \E r \in Revs : t.data = [cachedData EXCEPT !.rev = r]
               /\ t.kind = "upsert" =>
                     /\ t.id \in Downloads /\ t.state \in {"active", "done"}
                     /\ t.state = "active" => acked[t.id] = "none"
                     /\ \A q \in Procs : task[q].kind = "upsert" => task[q].id # t.id
  <2>1. CASE SaveSnapshot(c)
    BY <2>1 DEF SaveSnapshot
  <2>2. CASE UpsertDownload(c)
    BY <2>2 DEF UpsertDownload
  <2>3. CASE SaveRendererData(c)
    BY <2>3 DEF SaveRendererData
  <2>4. CASE ReplaceDataFromImport(c)
    BY <2>4 DEF ReplaceDataFromImport
  <2>5. CASE RestoreStorageBackup(c)
    BY <2>5 DEF RestoreStorageBackup
  <2>6. CASE ClearCompletedDownloads(c)
    BY <2>6 DEF ClearCompletedDownloads
  <2>7. CASE CommitImportData(c)
    BY <2>7 DEF CommitImportData
  <2>8. CASE RecordImportExtensionResult(c)
    BY <2>8 DEF RecordImportExtensionResult
  <2> QED BY <2>1, <2>2, <2>3, <2>4, <2>5, <2>6, <2>7, <2>8 DEF Request
<1>2. /\ queue' = Append(queue, c) /\ task' = [task EXCEPT ![c] = t]
      /\ disk' = disk /\ UNCHANGED memory /\ stage' = stage /\ acked' = acked /\ next' = next
      /\ priorDownloads' = priorDownloads /\ cachedData # Nothing
      /\ queue \in Seq(Procs) /\ c \in Procs /\ task \in [Procs -> Tasks] /\ task[c] = NoTask
  BY <1>0, <1>1 DEF Submit, Enqueue, files, TypeInv, TypeOK, Procs
<1>3. stage # "idle" => Head(queue') = Head(queue) /\ task'[Head(queue)] = task[Head(queue)]
  <2>1. stage # "idle" => queue # <<>>
    BY <1>0 DEF TypeInv, StageOK
  <2>2. queue # <<>> => /\ 1 \in 1 .. Len(queue) /\ Head(queue) = queue[1] /\ queue[1] \in Procs
                        /\ Head(queue') = Head(queue)
    BY <1>2
  <2>3. queue # <<>> => Head(queue) # c
    BY <1>0, <1>2, <2>2 DEF TypeInv, QueueOK
  <2> QED BY <1>2, <2>1, <2>2, <2>3
<1>4. OwnedNow' = OwnedNow
  BY <1>2 DEF OwnedNow, memory
<1>5. FileKeeps' /\ OwnedKeeps'
  BY <1>2, <1>4 DEF KeepInv, FileKeeps, DownloadsKept, OwnedKeeps
<1>6. NextKeeps'
  BY <1>2, <1>3 DEF KeepInv, NextKeeps, memory
<1>7. \A q \in Procs : task'[q] = IF q = c THEN t ELSE task[q]
  BY <1>2
<1>8. SnapshotsKeep'
  <2>1. t.kind = "snapshot" => t.data.dl = cachedData.dl
    BY <1>0, <1>1, <1>2 DEF Profile
  <2> QED BY <1>2, <1>4, <1>7, <2>1 DEF KeepInv, SnapshotsKeep, memory
<1>9. UpsertsKeep'
  <2>1. t.kind = "upsert" => Rank(acked[t.id]) <= Rank(t.state)
    <3>1. t.kind = "upsert" => acked[t.id] \in DownloadStates
      BY <1>0, <1>1 DEF DownloadList
    <3> QED BY <1>1, <3>1, Ranks DEF DownloadStates
  <2> QED BY <1>1, <1>2, <1>7, <2>1 DEF KeepInv, UpsertsKeep
<1> QED BY <1>5, <1>6, <1>8, <1>9 DEF KeepInv

\* KeepInv is inductive.
LEMMA NextKeepInv == ASSUME OneLoader PROVE KeepInv /\ [Next]_vars => KeepInv'
<1> SUFFICES ASSUME KeepInv, [Next]_vars PROVE KeepInv'
  OBVIOUS
<1>0. AtomicInv /\ AtomicInv' /\ TypeInv
  BY NextAtomicInv DEF KeepInv, AtomicInv, DurableInv
<1>1. ASSUME NEW c \in Clients, Request(c) PROVE KeepInv'
  BY <1>0, <1>1, RequestKeeps
<1>2. CASE Hydrate \/ BackUpManually \/ Boot \/ UNCHANGED vars
  <2>1. disk' = disk /\ acked' = acked /\ UNCHANGED memory /\ UNCHANGED running
    BY <1>2 DEF Hydrate, BackUpManually, Boot, vars, files, memory, running
  <2> QED BY <1>0, <2>1 DEF KeepInv, FileKeeps, DownloadsKept, OwnedKeeps, OwnedNow,
                            NextKeeps, SnapshotsKeep, UpsertsKeep, memory, running
<1>3. CASE Crash
  <2>1. /\ disk' = disk /\ acked' = acked /\ stage' = "idle" /\ mainDownloads' = Nothing
        /\ task' = [p \in Procs |-> NoTask] /\ cachedData' = Nothing
    BY <1>3 DEF Crash, files
  <2>2. FileKeeps' /\ OwnedKeeps' /\ NextKeeps'
    BY <2>1 DEF KeepInv, FileKeeps, DownloadsKept, OwnedKeeps, OwnedNow, NextKeeps
  <2>3. SnapshotsKeep' /\ UpsertsKeep'
    BY <2>1 DEF SnapshotsKeep, UpsertsKeep, NoTask
  <2> QED BY <1>0, <2>2, <2>3 DEF KeepInv
<1>4. CASE Damage
  <2>1. /\ acked' = NoDownloads /\ disk' \in Damaged /\ UNCHANGED memory /\ UNCHANGED running /\ ~up
    BY <1>4 DEF Damage
  <2>2. cachedData = Nothing /\ queue = <<>> /\ stage = "idle" /\ mainDownloads = Nothing
    BY <1>0, <2>1 DEF AtomicInv, DurableInv, StoppedOK, TypeInv, StageOK, CallersOK
  <2>3. FileKeeps' /\ OwnedKeeps' /\ NextKeeps'
    BY <2>1, <2>2, Distinct DEF FileKeeps, DownloadsKept, OwnedKeeps, OwnedNow, NextKeeps,
                                memory, running
  <2>4. SnapshotsKeep'
    BY <2>1, <2>2 DEF SnapshotsKeep, memory
  <2>5. UpsertsKeep'
    <3>1. ASSUME NEW p \in Procs, task[p].kind = "upsert" PROVE FALSE
      BY <1>0, <2>2, <3>1, NoneKind DEF TypeInv, CallersOK, Procs
    <3> QED BY <2>1, <3>1 DEF UpsertsKeep, running
  <2> QED BY <1>0, <2>3, <2>4, <2>5 DEF KeepInv
<1> QED BY <1>1, <1>2, <1>3, <1>4, StepKeeps, LoadKeeps DEF Next

\* A download state reported durable is in the file from then on, or a later one is,
\* whatever is saved, fails, crashes or restarts, until its list is cleared, replaced or lost.
THEOREM DownloadsStay == ASSUME OneLoader PROVE Spec => []DownloadsKept
<1>1. Init => KeepInv
  <2> SUFFICES ASSUME Init PROVE KeepInv
    OBVIOUS
  <2>1. AtomicInv
    BY InitCopies DEF CopyInv
  <2>2. FileKeeps
    <3>1. disk \in Profile => disk.dl \in DownloadList
      BY DEF Profile
    <3> QED BY <3>1, Ranks DEF Init, FileKeeps, DownloadsKept, Below
  <2>3. OwnedKeeps /\ NextKeeps /\ SnapshotsKeep /\ UpsertsKeep
    BY DEF Init, OwnedKeeps, OwnedNow, NextKeeps, SnapshotsKeep, UpsertsKeep, NoTask
  <2> QED BY <2>1, <2>2, <2>3 DEF KeepInv
<1>2. KeepInv /\ [Next]_vars => KeepInv'
  BY NextKeepInv
<1>3. KeepInv => DownloadsKept
  BY DEF KeepInv, FileKeeps
<1> QED BY <1>1, <1>2, <1>3, PTL DEF Spec

=============================================================================
