----------------------------- MODULE AvidaeJobs -----------------------------
(***************************************************************************)
(* The jobs of the media server (resources/avidae): downloads, recordings   *)
(* and conversions, each run by a thread of its own.                        *)
(*                                                                          *)
(* A job is kept twice: metadata.json in its folder, and a row of a         *)
(* database.  update_job reads the file, writes it again in place and then  *)
(* updates the row, with no lock: the job's thread, the requests of the     *)
(* page and a second thread of the same job interleave at every step.  A    *)
(* file that is being written reads as broken JSON, which raises.           *)
(*                                                                          *)
(* A thread follows the path of one of the runner programs: the order of    *)
(* its status updates, cancellation checks, progress notes and handlers.    *)
(* Any step may fail or raise.  The loops of a runner (progress, polling)   *)
(* pass once; the media they produce is left out.                           *)
(***************************************************************************)
EXTENDS Integers, FiniteSets, Sequences

CONSTANTS
    Jobs,            \* job ids
    Slots,           \* bound: threads of one job at a time
    Clients,         \* requests served at a time
    MaxConcurrent,   \* config.MAX_CONCURRENT_JOBS
    Timed,           \* bound: the jobs a request may schedule
    Paths,           \* runner paths of a job that starts at once
    ScheduledPaths,  \* bound: runner paths of a job with a schedule
    FallbackPaths,   \* runner paths after an address that yt-dlp does not know
    Overlap,         \* bound: whether jobs run at a time; without it, a second
                     \* job is only made by a retry
    MaxRequests,     \* bound
    MaxRestarts      \* bound

ASSUME AvidaeAssumption ==
    /\ Timed \subseteq Jobs
    /\ MaxConcurrent \in Nat /\ MaxRequests \in Nat /\ MaxRestarts \in Nat
    /\ Overlap \in BOOLEAN
    /\ Paths \subseteq Seq(STRING) /\ ScheduledPaths \subseteq Seq(STRING)
    /\ FallbackPaths \subseteq Seq(STRING)

VARIABLES
    meta,       \* metadata.json: none, partial, torn, or the status it holds
    db,         \* the row: none, or its status
    scheduled,  \* scheduled_at: none, in the future, passed; unused: no job yet
    flag,       \* _cancel_flags: none, clear or set
    active,     \* _active_jobs: none, or what an entry says
    threads,    \* the threads of each job
    request,    \* the request of each client
    ready,      \* the scheduler's list of jobs to start
    requests, restarts,
    lost,       \* history: jobs that a restart took a thread or request from
    doubled     \* history: jobs that had two threads at a time

vars == <<meta, db, scheduled, flag, active, threads, request, ready,
          requests, restarts, lost, doubled>>

-----------------------------------------------------------------------------
(* The runner programs.                                                     *)

Final    == {"completed", "failed", "cancelled"}
Statuses == Final \cup {"queued", "analyzing", "recording", "post-processing"}

Convert  == <<"params", "analyzing", "check", "recording", "ffmpeg",
              "post-processing", "note", "completed">>
Record   == <<"params", "analyzing", "check", "recording", "try", "note", "end",
              "check", "post-processing", "note", "completed">>
Merge    == <<"params", "analyzing", "check", "recording", "ffmpeg",
              "post-processing", "note", "completed">>
Trim     == <<"params", "analyzing", "check", "recording", "ffmpeg",
              "post-processing", "note", "completed">>
Compress == <<"params", "analyzing", "check", "recording", "ffmpeg",
              "post-processing", "note", "completed">>
AudioRecord  == <<"params", "analyzing", "check", "recording", "ffmpeg", "completed">>
AudioTrim    == <<"params", "analyzing", "check", "recording", "ffmpeg", "completed">>
AudioExtract == <<"params", "analyzing", "check", "recording", "ffmpeg", "completed">>
AudioConvert == <<"params", "analyzing", "check", "recording", "ffmpeg",
                  "post-processing", "completed">>

\* The progress hook raises on cancellation, and the handler of the first
\* attempt turns that into cancelled; the attempt with cookies into failed.
Fetched == <<"post-processing", "post-processing", "note", "completed">>
YtDlp   == {<<"try", "analyzing", "note", "check", "recording", "check", "note">>
                \o rest : rest \in {Fetched, <<"end", "analyzing", "try", "recording",
                                               "abort", "note">> \o Fetched}}
Direct  == <<"recording", "try", "check", "note", "end",
             "post-processing", "note", "completed">>
Playwright == <<"analyzing", "note">> \o Direct
TezFiles   == {<<"analyzing", "note">> \o rest : rest \in {Direct, Playwright}}
YouTube    == {<<"analyzing", "recording">> \o rest :
                 rest \in YtDlp \cup {<<"note", "post-processing", "note", "completed">>}}
PornHub    == <<"analyzing", "note", "recording", "ffmpeg",
                "post-processing", "note", "completed">>
\* run_download_job: by the kind of address; with an unknown one yt-dlp is tried
\* first, and an exception of that attempt is passed over: a page in the address
\* is looked for, or the job fails.
Download   == {<<"params">> \o rest : rest \in YouTube \cup YtDlp \cup TezFiles
                 \cup {Direct, PornHub, Playwright}
                 \cup {<<"outer">> \o p : p \in YtDlp}}
Fallback   == {Playwright, <<"failed">>}

Runners == Download \cup {Convert, Record, Merge, Trim, Compress, AudioRecord,
                          AudioTrim, AudioExtract, AudioConvert}

\* The handlers of a runner's own that are open after the first i steps of a path.
Nested(path, i) == Cardinality({k \in 1 .. i : path[k] = "try"})
                     - Cardinality({k \in 1 .. i : path[k] = "end"})

\* A path ends with a status that says how the job ended, and closes no handler
\* that it has not opened.
ASSUME RunnersEnd ==
    \A path \in Paths \cup ScheduledPaths \cup FallbackPaths :
        /\ path # <<>> /\ path[Len(path)] \in Final
        /\ \A i \in 0 .. Len(path) - 1 : Nested(path, i) >= 0

-----------------------------------------------------------------------------
\* A call of update_job: the status it writes, or none; what it read; whether
\* the caller swallows an exception.
NoCall       == [at |-> "none", status |-> "none", read |-> "none", soft |-> FALSE]
Call(status) == [NoCall EXCEPT !.at = "load", !.status = status]

\* One handler is _run_job's; fallback: whether the thread is inside the handler
\* that passes an exception over.
NoThread == [rest |-> <<>>, handlers |-> 0, fallback |-> FALSE, call |-> NoCall,
             alive |-> FALSE]
Fresh(path) == [NoThread EXCEPT !.rest = path, !.handlers = 1, !.alive = TRUE]

NoRequest == [job |-> "none", op |-> "idle", call |-> NoCall]

Init ==
    /\ meta = [j \in Jobs |-> "none"] /\ db = [j \in Jobs |-> "none"]
    /\ scheduled = [j \in Jobs |-> "unused"]
    /\ flag = [j \in Jobs |-> "none"] /\ active = [j \in Jobs |-> "none"]
    /\ threads = [j \in Jobs |-> [s \in Slots |-> NoThread]]
    /\ request = [c \in Clients |-> NoRequest] /\ ready = {}
    /\ requests = 0 /\ restarts = 0 /\ lost = {} /\ doubled = {}

Threads(j) == {s \in Slots : threads[j][s].alive}
Running    == {j \in Jobs : Threads(j) # {}}
Broken(j)  == meta[j] \in {"partial", "torn"}
Writers(j) == {s \in Slots : threads[j][s].call.at = "write"}
              \cup {c \in Clients : request[c].job = j /\ request[c].call.at = "write"}

-----------------------------------------------------------------------------
(* start_job.                                                               *)

\* The entries that count: none does, as each says "running".
Counted == {j \in Jobs : active[j] \in {"analyzing", "recording", "post-processing"}}
Accepts == Cardinality(Counted) < MaxConcurrent

FreeSlot(j) == CHOOSE s \in Slots \ Threads(j) : TRUE

\* A new flag replaces the one of a thread that runs.
Start(j, paths) ==
    /\ Slots # Threads(j) /\ (Threads(j) = {} \/ restarts = 0) /\ (Overlap \/ Running \subseteq {j})
    /\ \E path \in paths :
         threads' = [threads EXCEPT ![j][FreeSlot(j)] = Fresh(path)]
    /\ flag' = [flag EXCEPT ![j] = "clear"]
    /\ active' = [active EXCEPT ![j] = "running"]
    /\ doubled' = IF j \in Running THEN doubled \cup {j} ELSE doubled

\* A new id; which one does not matter.
IsNew(j) == scheduled[j] = "unused" /\ j = CHOOSE k \in Jobs : scheduled[k] = "unused"

\* create_job: the folder, metadata.json, then the row.  Nobody knows the id
\* before the row is there.  A refused job is failed at once.
CreateAndStart(j, schedule) ==
    /\ IsNew(j) /\ requests < MaxRequests
    /\ scheduled' = [scheduled EXCEPT ![j] = schedule]
    /\ requests' = requests + 1
    /\ IF Accepts
       THEN /\ Start(j, IF schedule = "none" THEN Paths ELSE ScheduledPaths)
            /\ meta' = [meta EXCEPT ![j] = "queued"] /\ db' = [db EXCEPT ![j] = "queued"]
       ELSE /\ meta' = [meta EXCEPT ![j] = "failed"] /\ db' = [db EXCEPT ![j] = "failed"]
            /\ UNCHANGED <<threads, flag, active, doubled>>
    /\ UNCHANGED <<request, ready, restarts, lost>>

First == Overlap \/ \A j \in Jobs : scheduled[j] = "unused"

Create(j) == First /\ CreateAndStart(j, "none")

Schedule(j) ==
    /\ First /\ scheduled[j] = "unused" /\ requests < MaxRequests
    /\ scheduled' = [scheduled EXCEPT ![j] = "later"]
    /\ requests' = requests + 1
    /\ meta' = [meta EXCEPT ![j] = "queued"] /\ db' = [db EXCEPT ![j] = "queued"]
    /\ UNCHANGED <<flag, active, threads, request, ready, restarts, lost, doubled>>

\* get_job: the file, or the row without one; a broken file raises.
Stored(j) == IF meta[j] = "none" THEN db[j] ELSE meta[j]

\* retry_job clones a failed or cancelled job and starts the clone at once.  The
\* file holds the moment the job was scheduled for, and the clone takes it over:
\* the scheduler may start it once more.  The row alone does not tell it.
Retry(j, new) ==
    /\ scheduled[j] # "unused" /\ Stored(j) \in {"failed", "cancelled"}
    /\ CreateAndStart(new, IF meta[j] = "none" THEN "none" ELSE scheduled[j])

-----------------------------------------------------------------------------
(* update_job, step by step, for a thread or a request.                     *)

\* What _load_metadata does to a call: without a file only the row is written.
Loaded(call, j) ==
    IF meta[j] = "none" THEN [call EXCEPT !.at = "row"]
    ELSE [call EXCEPT !.at = "open",
                      !.read = IF call.status = "none" THEN meta[j] ELSE call.status]

\* json.dump from the start of a file emptied by open: over what another
\* writer put there meanwhile, longer text stays behind.
Written(call, j) ==
    IF meta[j] \in {"partial", "none"} THEN {call.read} ELSE {call.read, "torn"}

After(call, j) ==
    CASE call.at = "load"  -> Loaded(call, j)
      [] call.at = "open"  -> [call EXCEPT !.at = "write"]
      [] call.at = "write" -> [call EXCEPT !.at = "row", !.read = "none"]
      [] OTHER             -> NoCall

\* The UPDATE changes no row of a deleted job.
Row(call, j) ==
    IF call.at = "row" /\ db[j] # "none" /\ call.status # "none" THEN call.status ELSE db[j]

Files(call, j) ==
    CASE call.at = "open"  -> {"partial"}
      [] call.at = "write" -> Written(call, j)
      [] OTHER             -> {meta[j]}

\* What a step of the call does to the file and the row.
Effect(call, j) ==
    /\ \E m \in Files(call, j) : meta' = [meta EXCEPT ![j] = m]
    /\ db' = [db EXCEPT ![j] = Row(call, j)]

\* A broken file is read: at first, and again by emit_job_update after the row.
Raises(call, j) == call.at \in {"load", "row"} /\ Broken(j)

-----------------------------------------------------------------------------
(* The threads.                                                             *)

Thread(j, s, thread) == threads' = [threads EXCEPT ![j][s] = thread]
Between(j, s) == threads[j][s].alive /\ threads[j][s].call.at = "none"

\* A thread without _run_job's handler.
Unhandled(thread) == {[thread EXCEPT !.rest = <<>>, !.call = NoCall]}

\* An exception, or a failure the runner reports itself: the job is failed by
\* the innermost handler, which may raise in turn; _run_job's is the last.  The
\* handler around yt-dlp with an unknown address goes on with the fallback.
Handled(thread) ==
    IF thread.handlers = 1 /\ thread.fallback
    THEN {[thread EXCEPT !.rest = path, !.fallback = FALSE, !.call = NoCall] :
            path \in FallbackPaths}
    ELSE IF thread.handlers > 0
    THEN {[thread EXCEPT !.handlers = @ - 1, !.rest = <<>>, !.call = Call("failed")]}
    ELSE {[thread EXCEPT !.rest = <<>>, !.call = NoCall]}

\* The thread raises.
Throw(j, s) == \E thread \in Handled(threads[j][s]) : Thread(j, s, thread)

\* is_cancelled.
Cancelled(j) == flag[j] = "set"

\* The next step of the path, between two calls of update_job.
Advance(j, s) ==
    LET t    == threads[j][s]
        step == Head(t.rest)
        then == [t EXCEPT !.rest = Tail(t.rest)]
    IN
    /\ Between(j, s) /\ t.rest # <<>>
    /\ \/ /\ step \in Statuses
          /\ Thread(j, s, [then EXCEPT !.call = Call(step)])
       \/ /\ step \in {"note", "ffmpeg"}
          /\ \/ Thread(j, s, [then EXCEPT !.call = [Call("none") EXCEPT
                                                      !.soft = (step = "ffmpeg")]])
             \/ Thread(j, s, then)
       \/ /\ step \in {"check", "abort"}
          /\ Thread(j, s, IF ~Cancelled(j) THEN then
                          ELSE [t EXCEPT !.rest = <<>>, !.call =
                                  Call(IF step = "check" THEN "cancelled" ELSE "failed")])
       \/ /\ step = "try"
          /\ Thread(j, s, [then EXCEPT !.handlers = @ + 1])
       \/ /\ step = "outer"
          /\ Thread(j, s, [then EXCEPT !.fallback = TRUE])
       \/ /\ step = "end"
          /\ Thread(j, s, [then EXCEPT !.handlers = @ - 1])
       \/ /\ step = "params"
          /\ IF meta[j] = "none" \/ Broken(j) THEN Throw(j, s) ELSE Thread(j, s, then)
    /\ UNCHANGED <<meta, db, scheduled, flag, active, request, ready, requests,
                   restarts, lost, doubled>>

\* The work of the step fails: the runner reports it and returns, or it raises.
Fail(j, s) ==
    /\ Between(j, s) /\ threads[j][s].rest # <<>>
    /\ Throw(j, s)
    /\ UNCHANGED <<meta, db, scheduled, flag, active, request, ready, requests,
                   restarts, lost, doubled>>

Report(j, s) ==
    LET t == threads[j][s] IN
    /\ Between(j, s) /\ t.rest # <<>> /\ Head(t.rest) \notin {"params", "try", "outer"}
    /\ Thread(j, s, [t EXCEPT !.rest = <<>>, !.call = Call("failed")])
    /\ UNCHANGED <<meta, db, scheduled, flag, active, request, ready, requests,
                   restarts, lost, doubled>>

\* A step of update_job; run_ffmpeg swallows what its progress callback raises.
Update(j, s) ==
    LET t == threads[j][s] IN
    /\ t.call.at # "none"
    /\ IF Raises(t.call, j) /\ ~t.call.soft THEN Throw(j, s)
       ELSE Thread(j, s, [t EXCEPT !.call = IF Raises(t.call, j) THEN NoCall
                                            ELSE After(t.call, j)])
    /\ Effect(t.call, j)
    /\ UNCHANGED <<scheduled, flag, active, request, ready, requests, restarts,
                   lost, doubled>>

\* A finally that leaves the cancellation flag.
FlagLeft(j, s) ==
    /\ Between(j, s) /\ threads[j][s].rest = <<>>
    /\ Thread(j, s, NoThread)
    /\ active' = [active EXCEPT ![j] = "none"]
    /\ UNCHANGED <<meta, db, scheduled, flag, request, ready, requests, restarts,
                   lost, doubled>>

\* _run_job's finally takes the entries of the job, whoever made them.
Finish(j, s) ==
    /\ Between(j, s) /\ threads[j][s].rest = <<>>
    /\ Thread(j, s, NoThread)
    /\ active' = [active EXCEPT ![j] = "none"] /\ flag' = [flag EXCEPT ![j] = "none"]
    /\ UNCHANGED <<meta, db, scheduled, request, ready, requests, restarts,
                   lost, doubled>>

ThreadStep(j, s) == Update(j, s) \/ Finish(j, s) \/ Fail(j, s) \/ Report(j, s) \/ Advance(j, s)

-----------------------------------------------------------------------------
(* The requests.                                                            *)

Request(c, r) == request' = [request EXCEPT ![c] = r]
Begin(op, j)  == [job |-> j, op |-> op, call |-> NoCall]

Ask(c, op, j) ==
    /\ request[c] = NoRequest /\ scheduled[j] # "unused" /\ requests < MaxRequests
    /\ Request(c, Begin(op, j))
    /\ requests' = requests + 1
    /\ UNCHANGED <<meta, db, scheduled, flag, active, threads, ready, restarts,
                   lost, doubled>>

\* After cancel_job: a deletion goes on.
Goes(r) == IF r.op = "delete" THEN [r EXCEPT !.op = "deleteRow", !.call = NoCall]
            ELSE NoRequest

\* cancel_job: a job with a flag, or one whose file says queued; a broken file
\* ends the request.
Cancel(c) ==
    LET r == request[c]
        j == r.job
    IN
    /\ r.op \in {"cancel", "delete"} /\ r.call.at = "none"
    /\ flag' = [flag EXCEPT ![j] = IF flag[j] = "none" THEN "none" ELSE "set"]
    /\ Request(c, IF flag[j] # "none" \/ meta[j] = "queued"
                  THEN [r EXCEPT !.call = Call("cancelled")]
                  ELSE IF Broken(j) THEN NoRequest ELSE Goes(r))
    /\ UNCHANGED <<meta, db, scheduled, active, threads, ready, requests, restarts,
                   lost, doubled>>

RequestUpdate(c) ==
    LET r == request[c]
        call == After(r.call, r.job)
    IN
    /\ r.call.at # "none"
    /\ Request(c, IF Raises(r.call, r.job) THEN NoRequest
                  ELSE IF call = NoCall THEN Goes(r) ELSE [r EXCEPT !.call = call])
    /\ Effect(r.call, r.job)
    /\ UNCHANGED <<scheduled, flag, active, threads, ready, requests, restarts,
                   lost, doubled>>

\* delete_job: the row, then the folder; Windows keeps a file that is open.
DeleteRow(c) ==
    /\ request[c].op = "deleteRow"
    /\ db' = [db EXCEPT ![request[c].job] = "none"]
    /\ Request(c, [request[c] EXCEPT !.op = "deleteFolder"])
    /\ UNCHANGED <<meta, scheduled, flag, active, threads, ready, requests, restarts,
                   lost, doubled>>

DeleteFolder(c) ==
    LET j == request[c].job IN
    /\ request[c].op = "deleteFolder"
    /\ meta' = [meta EXCEPT ![j] = IF Writers(j) = {} THEN "none" ELSE meta[j]]
    /\ Request(c, NoRequest)
    /\ UNCHANGED <<db, scheduled, flag, active, threads, ready, requests, restarts,
                   lost, doubled>>

RequestStep(c) == Cancel(c) \/ RequestUpdate(c) \/ DeleteRow(c) \/ DeleteFolder(c)

-----------------------------------------------------------------------------
(* The scheduler and the process.                                           *)

Due(j) ==
    /\ scheduled[j] = "later"
    /\ scheduled' = [scheduled EXCEPT ![j] = "due"]
    /\ UNCHANGED <<meta, db, flag, active, threads, request, ready, requests,
                   restarts, lost, doubled>>

\* The comparison the other way round.
NotYetDue == {j \in Jobs : db[j] = "queued" /\ scheduled[j] = "later"}

\* get_scheduled_ready.
DueJobs == {j \in Jobs : db[j] = "queued" /\ scheduled[j] = "due"}

Look ==
    /\ ready = {} /\ DueJobs # {}
    /\ ready' = DueJobs
    /\ UNCHANGED <<meta, db, scheduled, flag, active, threads, request, requests,
                   restarts, lost, doubled>>

\* The list may be old: nothing is looked at again.
StartReady(j) ==
    /\ j \in ready
    /\ ready' = ready \ {j}
    /\ IF Accepts THEN Start(j, ScheduledPaths) ELSE UNCHANGED <<threads, flag, active, doubled>>
    /\ UNCHANGED <<meta, db, scheduled, request, requests, restarts, lost>>

\* The loop of the scheduler.
Scheduler == Look \/ \E j \in Jobs : StartReady(j)

Busy == Running \cup {request[c].job : c \in {d \in Clients : request[d] # NoRequest}}

\* Vast ends the server process and starts it again.  Bound: a job that had
\* two threads and a restart do not come together.
Restart ==
    /\ restarts < MaxRestarts /\ restarts' = restarts + 1 /\ doubled = {}
    /\ lost' = lost \cup Busy
    /\ flag' = [j \in Jobs |-> "none"] /\ active' = [j \in Jobs |-> "none"]
    /\ ready' = {}
    /\ threads' = [j \in Jobs |-> [s \in Slots |-> NoThread]]
    /\ request' = [c \in Clients |-> NoRequest]
    /\ UNCHANGED <<meta, db, scheduled, requests, doubled>>

Next ==
    \/ \E j \in Jobs : Create(j)
    \/ \E j \in Timed : Schedule(j)
    \/ \E j \in Jobs : Due(j)
    \/ \E j, new \in Jobs : Retry(j, new)
    \/ \E j \in Jobs, s \in Slots : ThreadStep(j, s)
    \/ \E c \in Clients, j \in Jobs, op \in {"cancel", "delete"} : Ask(c, op, j)
    \/ \E c \in Clients : RequestStep(c)
    \/ Scheduler
    \/ Restart

\* Threads, requests and the scheduler go on; work and waiting have time limits.
Fairness ==
    /\ \A j \in Jobs, s \in Slots : WF_vars(ThreadStep(j, s))
    /\ \A c \in Clients : WF_vars(RequestStep(c))
    /\ WF_vars(Scheduler)

Spec == Init /\ [][Next]_vars /\ Fairness

-----------------------------------------------------------------------------
(* Properties.                                                              *)

CallType == [at : {"none", "load", "open", "write", "row"},
             status : Statuses \cup {"none"}, read : Statuses \cup {"none"},
             soft : BOOLEAN]

Operations  == {"idle", "cancel", "delete", "deleteRow", "deleteFolder"}
ThreadType  == [rest : Seq(STRING), handlers : Int, fallback : BOOLEAN,
                call : CallType, alive : BOOLEAN]
RequestType == [job : Jobs \cup {"none"}, op : Operations, call : CallType]

\* The variables have their types; a job without a folder or a row is "none".
TypeOK ==
    /\ meta \in [Jobs -> Statuses \cup {"none", "partial", "torn"}]
    /\ db \in [Jobs -> Statuses \cup {"none"}]
    /\ scheduled \in [Jobs -> {"unused", "none", "later", "due"}]
    /\ flag \in [Jobs -> {"none", "clear", "set"}]
    /\ active \in [Jobs -> {"none", "running"}] /\ ready \subseteq Jobs
    /\ threads \in [Jobs -> [Slots -> ThreadType]]
    /\ request \in [Clients -> RequestType]
    /\ requests \in Nat /\ restarts \in Nat
    /\ lost \subseteq Jobs \cup {"none"} /\ doubled \subseteq Jobs

Settled(j, status) ==
    status \in Final \cup {"none"} \/ (status = "queued" /\ scheduled[j] \in {"later", "due"})

\* When nothing works on a job any more, the file and the row both say how it
\* ended: no job is left analyzing or recording for ever, whatever its runner
\* did and however cancellation, deletion and a second thread came in between.
\* Two writers at once may tear the file, and a restart takes the threads away:
\* nothing in the code mends either.
IdleMeansSettled ==
    \A j \in Jobs \ (Busy \cup lost) :
      meta[j] # "torn" => Settled(j, meta[j]) /\ Settled(j, db[j])

\* Whoever sees a job run can cancel it, and nobody can cancel one that ended:
\* the flag is there as long as the thread, unless a second thread of the job
\* took it along.
FlagsFollowThreads ==
    /\ \A j \in Jobs : flag[j] # "none" => j \in Running
    /\ \A j \in Running \ doubled : flag[j] # "none"

\* No more than MaxConcurrent jobs run at a time (config.py, the settings page).
ConcurrencyIsLimited == Cardinality(Running) <= MaxConcurrent

\* A scheduled job whose time has come does not wait for ever, nor the clone that
\* a retry makes of it, also after a restart: again and again none is left
\* waiting, but for jobs whose file is torn, of which every attempt ends at once.
ScheduledJobsStart ==
    []<>(\A j \in Jobs : db[j] = "queued" /\ scheduled[j] = "due" => Broken(j))
=============================================================================
