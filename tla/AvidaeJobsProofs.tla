-------------------------- MODULE AvidaeJobsProofs --------------------------
(***************************************************************************)
(* What holds of the media server's jobs for any number of jobs, threads    *)
(* and requests and for any runner program.                                 *)
(*                                                                          *)
(* The cancellation flag of a job comes and goes with its thread: a job     *)
(* with two threads is one the scheduler started again, and only the end of *)
(* one of two threads can take the flag of another.                         *)
(*                                                                          *)
(* A job that nothing works on any more is settled: a thread in the middle  *)
(* of its path has a handler that will catch it and a final status before   *)
(* it, so as long as the file or the row says something else, somebody is   *)
(* still going to write it.                                                 *)
(***************************************************************************)
EXTENDS AvidaeJobs, FiniteSetTheorems, SequenceTheorems, TLAPS

\* A request with something to do is about a job.
AboutAJob == \A c \in Clients : request[c].op # "idle" \/ request[c].call.at # "none"
                                  => request[c].job \in Jobs

Typed == TypeOK /\ AboutAJob

\* Two threads at a time belong to a job that was started again.
OneThread == \A j \in Jobs : \A s, u \in Slots :
               threads[j][s].alive /\ threads[j][u].alive /\ s # u => j \in doubled

LEMMA CallTyped == /\ NoCall \in CallType
                   /\ \A x \in Statuses \cup {"none"} : Call(x) \in CallType
BY DEF NoCall, Call, CallType

\* The threads that an exception makes: one that goes on with the fallback, one that
\* writes failed, one that is done.
FellBack(t, path) == [rest |-> path, handlers |-> t.handlers, fallback |-> FALSE,
                      call |-> NoCall, alive |-> t.alive]
FailedBy(t) == [rest |-> <<>>, handlers |-> t.handlers - 1, fallback |-> t.fallback,
                call |-> Call("failed"), alive |-> t.alive]
Ended(t)    == [rest |-> <<>>, handlers |-> t.handlers, fallback |-> t.fallback,
                call |-> NoCall, alive |-> t.alive]

LEMMA HandledValue ==
  ASSUME NEW t \in ThreadType, NEW u \in Handled(t)
  PROVE  /\ t.handlers = 1 /\ t.fallback => \E path \in FallbackPaths : u = FellBack(t, path)
         /\ ~(t.handlers = 1 /\ t.fallback) /\ t.handlers > 0 => u = FailedBy(t)
         /\ ~(t.handlers = 1 /\ t.fallback) /\ ~(t.handlers > 0) => u = Ended(t)
<1>1. CASE t.handlers = 1 /\ t.fallback
  <2>1. PICK path \in FallbackPaths :
           u = [t EXCEPT !.rest = path, !.fallback = FALSE, !.call = NoCall]
    BY <1>1 DEF Handled
  <2>2. u = FellBack(t, path)
    BY <2>1 DEF FellBack, ThreadType
  <2> QED BY <1>1, <2>2
<1>2. CASE ~(t.handlers = 1 /\ t.fallback) /\ t.handlers > 0
  <2>1. u = [t EXCEPT !.handlers = @ - 1, !.rest = <<>>, !.call = Call("failed")]
    BY <1>2 DEF Handled
  <2> QED BY <1>2, <2>1 DEF FailedBy, ThreadType
<1>3. CASE ~(t.handlers = 1 /\ t.fallback) /\ ~(t.handlers > 0)
  <2>1. u = [t EXCEPT !.rest = <<>>, !.call = NoCall]
    BY <1>3 DEF Handled
  <2> QED BY <1>3, <2>1 DEF Ended, ThreadType
<1> QED BY <1>1, <1>2, <1>3

\* A handler takes over: the thread keeps running.
LEMMA HandledTyped ==
  ASSUME NEW t \in ThreadType, NEW u \in Handled(t)
  PROVE  u \in ThreadType /\ u.alive = t.alive
<1>1. Call("failed") \in CallType /\ NoCall \in CallType
  BY CallTyped DEF Statuses, Final
<1>2. <<>> \in Seq(STRING)
  OBVIOUS
<1>3. CASE t.handlers = 1 /\ t.fallback
  <2>1. PICK path \in FallbackPaths : u = FellBack(t, path)
    BY <1>3, HandledValue
  <2> QED BY <1>1, <2>1, AvidaeAssumption DEF FellBack, ThreadType
<1>4. CASE ~(t.handlers = 1 /\ t.fallback)
  <2>1. u = FailedBy(t) \/ u = Ended(t)
    BY <1>4, HandledValue DEF ThreadType
  <2>2. FailedBy(t) \in ThreadType /\ FailedBy(t).alive = t.alive
    BY <1>1, <1>2 DEF FailedBy, ThreadType
  <2>3. Ended(t) \in ThreadType /\ Ended(t).alive = t.alive
    BY <1>1, <1>2 DEF Ended, ThreadType
  <2> QED BY <2>1, <2>2, <2>3
<1> QED BY <1>3, <1>4

\* A call of update_job that does not raise goes on to a call.
LEMMA AfterTyped ==
  ASSUME TypeOK, NEW j \in Jobs, NEW call \in CallType, ~Raises(call, j)
  PROVE  After(call, j) \in CallType
<1>1. CASE call.at = "load"
  <2>1. meta[j] \in Statuses \cup {"none"}
    BY <1>1 DEF TypeOK, Raises, Broken
  <2>2. CASE meta[j] = "none"
    BY <1>1, <2>2 DEF After, Loaded, CallType
  <2>3. CASE meta[j] # "none"
    <3> DEFINE what == IF call.status = "none" THEN meta[j] ELSE call.status
    <3>1. what \in Statuses \cup {"none"}
      BY <2>1 DEF CallType
    <3>2. After(call, j) = [at |-> "open", status |-> call.status, read |-> what,
                            soft |-> call.soft]
      BY <1>1, <2>3 DEF After, Loaded, CallType
    <3> QED BY <3>1, <3>2 DEF CallType
  <2> QED BY <2>2, <2>3
<1>2. CASE call.at = "open"
  BY <1>2 DEF After, CallType
<1>3. CASE call.at = "write"
  BY <1>3 DEF After, CallType
<1>4. CASE call.at \notin {"load", "open", "write"}
  BY <1>4, CallTyped DEF After
<1> QED BY <1>1, <1>2, <1>3, <1>4

\* What a step of a call leaves in the file and the row.
LEMMA EffectTyped ==
  ASSUME TypeOK, NEW j \in Jobs, NEW call \in CallType, Effect(call, j)
  PROVE  /\ meta' \in [Jobs -> Statuses \cup {"none", "partial", "torn"}]
         /\ db' \in [Jobs -> Statuses \cup {"none"}]
<1>1. Files(call, j) \subseteq Statuses \cup {"none", "partial", "torn"}
  BY DEF Files, Written, TypeOK, CallType
<1>2. Row(call, j) \in Statuses \cup {"none"}
  BY DEF Row, TypeOK, CallType
<1> QED BY <1>1, <1>2 DEF Effect, TypeOK

\* The thread that a step's two assignments make.
LEMMA StepValue ==
  ASSUME NEW t \in ThreadType, NEW x, NEW r
  PROVE  /\ [[t EXCEPT !.rest = r] EXCEPT !.call = x]
               = [rest |-> r, handlers |-> t.handlers, fallback |-> t.fallback,
                  call |-> x, alive |-> t.alive]
         /\ [t EXCEPT !.rest = r, !.call = x]
               = [rest |-> r, handlers |-> t.handlers, fallback |-> t.fallback,
                  call |-> x, alive |-> t.alive]
<1>1. [t EXCEPT !.rest = r]
        = [rest |-> r, handlers |-> t.handlers, fallback |-> t.fallback,
           call |-> t.call, alive |-> t.alive]
  BY DEF ThreadType
<1>2. [[rest |-> r, handlers |-> t.handlers, fallback |-> t.fallback,
        call |-> t.call, alive |-> t.alive]
         EXCEPT !.call = x]
        = [rest |-> r, handlers |-> t.handlers, fallback |-> t.fallback,
           call |-> x, alive |-> t.alive]
  OBVIOUS
<1>3. [t EXCEPT !.rest = r, !.call = x]
        = [rest |-> r, handlers |-> t.handlers, fallback |-> t.fallback,
           call |-> x, alive |-> t.alive]
  <2> DEFINE u == [t EXCEPT !.rest = r, !.call = x]
  <2>1. u = [f \in {"rest", "handlers", "fallback", "call", "alive"} |->
               IF f = "call" THEN x ELSE IF f = "rest" THEN r ELSE t[f]]
    BY DEF ThreadType
  <2> QED BY <2>1
<1> QED BY <1>1, <1>2, <1>3

\* A thread that starts.
LEMMA FreshValue ==
  ASSUME NEW path
  PROVE  Fresh(path) = [rest |-> path, handlers |-> 1, fallback |-> FALSE, call |-> NoCall,
                        alive |-> TRUE]
<1> DEFINE u == Fresh(path)
<1>1. u = [f \in {"rest", "handlers", "fallback", "call", "alive"} |->
             IF f = "alive" THEN TRUE ELSE IF f = "handlers" THEN 1
             ELSE IF f = "rest" THEN path ELSE NoThread[f]]
  BY DEF Fresh, NoThread
<1> QED BY <1>1 DEF NoThread

\* What is left of a program after one step.
LEMMA RestTyped == ASSUME NEW q \in Seq(STRING), q # <<>> PROVE Tail(q) \in Seq(STRING)
OBVIOUS

\* What a step puts into a thread leaves it a thread that runs as before.
LEMMA StepTyped ==
  ASSUME NEW t \in ThreadType, NEW x \in CallType, NEW r \in Seq(STRING)
  PROVE  /\ [[t EXCEPT !.rest = r] EXCEPT !.call = x] \in ThreadType
         /\ [[t EXCEPT !.rest = r] EXCEPT !.call = x].alive = t.alive
         /\ [t EXCEPT !.rest = r, !.call = x] \in ThreadType
         /\ [t EXCEPT !.rest = r, !.call = x].alive = t.alive
<1> QED BY StepValue DEF ThreadType

\* A step of a thread of the job that the runner takes or a handler decides:
\* the thread stays a thread and keeps running.
LEMMA ThreadKept ==
  ASSUME Typed, NEW j \in Jobs, NEW s \in Slots,
         Advance(j, s) \/ Fail(j, s) \/ Report(j, s) \/ Update(j, s)
  PROVE  /\ threads' \in [Jobs -> [Slots -> ThreadType]]
         /\ \A k \in Jobs, u \in Slots : threads'[k][u].alive = threads[k][u].alive
<1> DEFINE t == threads[j][s]
<1> USE DEF Typed
<1>0. t \in ThreadType
  BY DEF TypeOK
<1>1. SUFFICES ASSUME NEW th \in ThreadType, th.alive = t.alive, Thread(j, s, th)
               PROVE  /\ threads' \in [Jobs -> [Slots -> ThreadType]]
                      /\ \A k \in Jobs, u \in Slots :
                           threads'[k][u].alive = threads[k][u].alive
  <2> SUFFICES \E th \in ThreadType : th.alive = t.alive /\ Thread(j, s, th)
    BY <1>1
  <2>1. CASE Advance(j, s)
    <3> DEFINE step == Head(t.rest)
               then == [t EXCEPT !.rest = Tail(t.rest)]
    <3>1. t.rest # <<>> /\ t.rest \in Seq(STRING)
      BY <1>0, <2>1 DEF Advance, ThreadType
    <3>2. Tail(t.rest) \in Seq(STRING) /\ <<>> \in Seq(STRING)
      <4>1. <<>> \in Seq(STRING)
        OBVIOUS
      <4> QED BY <3>1, <4>1, RestTyped
    <3>3. \A x \in CallType : /\ [then EXCEPT !.call = x] \in ThreadType
                              /\ [then EXCEPT !.call = x].alive = t.alive
                              /\ [t EXCEPT !.rest = <<>>, !.call = x] \in ThreadType
                              /\ [t EXCEPT !.rest = <<>>, !.call = x].alive = t.alive
      BY <1>0, <3>2, StepTyped
    <3>4. then \in ThreadType /\ then.alive = t.alive
      BY <1>0, <3>2 DEF ThreadType
    <3>5. \A n \in Int : /\ [then EXCEPT !.handlers = n] \in ThreadType
                         /\ [then EXCEPT !.handlers = n].alive = t.alive
      BY <3>4 DEF ThreadType
    <3>6. then.handlers + 1 \in Int /\ then.handlers - 1 \in Int
      BY <3>4 DEF ThreadType
    <3>7. \A b \in BOOLEAN : [Call("none") EXCEPT !.soft = b] \in CallType
      BY CallTyped DEF CallType
    <3>8. /\ Call("cancelled") \in CallType /\ Call("failed") \in CallType
          /\ step \in Statuses => Call(step) \in CallType
      BY CallTyped DEF Statuses, Final
    <3>9. \A u \in Handled(t) : u \in ThreadType /\ u.alive = t.alive
      BY <1>0, HandledTyped
    <3>a. [then EXCEPT !.fallback = TRUE] \in ThreadType
          /\ [then EXCEPT !.fallback = TRUE].alive = t.alive
      BY <3>4 DEF ThreadType
    <3> HIDE DEF t, then
    <3>10. CASE step \in Statuses /\ Thread(j, s, [then EXCEPT !.call = Call(step)])
      BY <3>3, <3>8, <3>10
    <3>11. CASE Thread(j, s, [then EXCEPT !.call = [Call("none") EXCEPT
                                                      !.soft = (step = "ffmpeg")]])
      <4>1. [Call("none") EXCEPT !.soft = (step = "ffmpeg")] \in CallType
        BY <3>7
      <4> QED BY <3>3, <3>11, <4>1
    <3>12. CASE Thread(j, s, then)
      BY <3>4, <3>12
    <3>13. CASE Thread(j, s, IF ~Cancelled(j) THEN then
                          ELSE [t EXCEPT !.rest = <<>>, !.call =
                                  Call(IF step = "check" THEN "cancelled" ELSE "failed")])
      <4>1. Call(IF step = "check" THEN "cancelled" ELSE "failed") \in CallType
        BY <3>8
      <4> QED BY <3>3, <3>4, <3>13, <4>1
    <3>14. CASE Thread(j, s, [then EXCEPT !.handlers = @ + 1])
      BY <3>5, <3>6, <3>14
    <3>15. CASE Thread(j, s, [then EXCEPT !.handlers = @ - 1])
      BY <3>5, <3>6, <3>15
    <3>16. CASE Throw(j, s)
      BY <3>9, <3>16 DEF Throw, t
    <3>17. CASE Thread(j, s, [then EXCEPT !.fallback = TRUE])
      BY <3>a, <3>17
    <3> QED BY <2>1, <3>10, <3>11, <3>12, <3>13, <3>14, <3>15, <3>16, <3>17
            DEF Advance, t, then
  <2>2. CASE Fail(j, s)
    BY <1>0, <2>2, HandledTyped DEF Fail, Throw
  <2>3. CASE Report(j, s)
    <3> DEFINE th == [t EXCEPT !.rest = <<>>, !.call = Call("failed")]
    <3>1. Call("failed") \in CallType
      BY CallTyped DEF Statuses, Final
    <3>2. <<>> \in Seq(STRING)
      OBVIOUS
    <3>3. th \in ThreadType /\ th.alive = t.alive
      BY <1>0, <3>1, <3>2, StepTyped
    <3> QED BY <2>3, <3>3 DEF Report
  <2>4. CASE Update(j, s)
    <3>1. t.call \in CallType
      BY <1>0 DEF ThreadType
    <3>2. \A x \in CallType : [t EXCEPT !.call = x] \in ThreadType
                              /\ [t EXCEPT !.call = x].alive = t.alive
      BY <1>0 DEF ThreadType
    <3>3. CASE ~Raises(t.call, j)
      <4>1. After(t.call, j) \in CallType
        BY <3>1, <3>3, AfterTyped
      <4> QED BY <2>4, <3>2, <3>3, <4>1 DEF Update
    <3>4. CASE Raises(t.call, j)
      BY <1>0, <2>4, <3>2, <3>4, HandledTyped, CallTyped DEF Update, Throw
    <3> QED BY <3>3, <3>4
  <2> QED BY <2>1, <2>2, <2>3, <2>4
<1>2. threads' = [threads EXCEPT ![j][s] = th]
  BY <1>1 DEF Thread
<1>3. threads \in [Jobs -> [Slots -> ThreadType]]
  BY DEF TypeOK
<1>4. threads'[j][s] = th /\ threads'[j] \in [Slots -> ThreadType]
  BY <1>1, <1>2, <1>3
<1>5. \A u \in Slots : u # s => threads'[j][u] = threads[j][u]
  BY <1>2, <1>3
<1>6. \A k \in Jobs : k # j => threads'[k] = threads[k]
  BY <1>2, <1>3
<1> QED BY <1>1, <1>2, <1>3, <1>4, <1>5, <1>6

\* Whose threads run is unchanged by a step of a runner.
LEMMA RunningKept ==
  ASSUME \A k \in Jobs, u \in Slots : threads'[k][u].alive = threads[k][u].alive
  PROVE  /\ \A k \in Jobs : Threads(k)' = Threads(k)
         /\ Running' = Running
BY DEF Threads, Running

\* What the two arguments say together.
FlagInv == Typed /\ OneThread /\ FlagsFollowThreads

LEMMA InitFlags == Init => FlagInv
<1> SUFFICES ASSUME Init PROVE FlagInv
  OBVIOUS
<1>1. NoThread \in ThreadType /\ NoThread.alive = FALSE
  BY CallTyped DEF NoThread, ThreadType
<1>2. NoRequest \in RequestType /\ NoRequest.op = "idle" /\ NoRequest.call.at = "none"
  <2>1. NoCall \in CallType /\ NoCall.at = "none"
    BY CallTyped DEF NoCall
  <2>2. NoRequest = [job |-> "none", op |-> "idle", call |-> NoCall]
    BY DEF NoRequest
  <2> QED BY <2>1, <2>2 DEF RequestType, Operations
<1>3. TypeOK
  BY <1>1, <1>2 DEF Init, TypeOK
<1>4. AboutAJob
  BY <1>2 DEF Init, AboutAJob
<1>5. \A j \in Jobs, s \in Slots : ~threads[j][s].alive
  BY <1>1 DEF Init
<1>6. OneThread /\ FlagsFollowThreads
  BY <1>5 DEF OneThread, FlagsFollowThreads, Running, Threads, Init
<1> QED BY <1>3, <1>4, <1>6 DEF FlagInv, Typed

\* A start of a job puts a thread in a free slot and its flag beside it.
LEMMA StartKeeps ==
  ASSUME FlagInv, NEW j \in Jobs, NEW paths \in SUBSET Seq(STRING), Start(j, paths)
  PROVE  /\ threads' \in [Jobs -> [Slots -> ThreadType]]
         /\ flag' \in [Jobs -> {"none", "clear", "set"}]
         /\ active' \in [Jobs -> {"none", "running"}] /\ doubled' \subseteq Jobs
         /\ OneThread' /\ FlagsFollowThreads'
<1> USE DEF FlagInv, Typed, TypeOK
<1> DEFINE s == FreeSlot(j)
<1>1. s \in Slots \ Threads(j)
  BY DEF Start, Threads, FreeSlot
<1>2. PICK path \in paths : threads' = [threads EXCEPT ![j][s] = Fresh(path)]
  BY DEF Start
<1>3. Fresh(path) \in ThreadType /\ Fresh(path).alive
  <2>1. path \in Seq(STRING) /\ NoCall \in CallType
    BY <1>2, CallTyped
  <2> DEFINE fresh == [rest |-> path, handlers |-> 1, fallback |-> FALSE, call |-> NoCall,
                       alive |-> TRUE]
  <2>2. fresh \in ThreadType /\ fresh.alive
    BY <2>1 DEF ThreadType
  <2>3. Fresh(path) = fresh
    BY FreshValue
  <2> HIDE DEF fresh
  <2> QED BY <2>2, <2>3
<1> HIDE DEF s
<1>4. /\ threads'[j][s] = Fresh(path) /\ threads'[j] \in [Slots -> ThreadType]
      /\ \A u \in Slots : u # s => threads'[j][u] = threads[j][u]
  BY <1>1, <1>2, <1>3
<1>5. \A k \in Jobs : k # j => threads'[k] = threads[k]
  BY <1>2
<1>6. threads' \in [Jobs -> [Slots -> ThreadType]]
  BY <1>2, <1>4, <1>5
<1>7. /\ flag' = [flag EXCEPT ![j] = "clear"]
      /\ active' = [active EXCEPT ![j] = "running"]
      /\ doubled' = IF j \in Running THEN doubled \cup {j} ELSE doubled
  BY DEF Start
<1>8. OneThread'
  <2> SUFFICES ASSUME NEW k \in Jobs, NEW u \in Slots, NEW v \in Slots,
                      threads'[k][u].alive, threads'[k][v].alive, u # v
               PROVE  k \in doubled'
    BY DEF OneThread
  <2>1. CASE k # j
    BY <1>5, <1>7, <2>1 DEF OneThread
  <2>2. CASE k = j
    <3>1. PICK w \in Slots : w # s /\ threads'[j][w].alive
      BY <2>2
    <3>2. threads[j][w].alive
      BY <1>4, <3>1
    <3>3. j \in Running
      BY <3>2 DEF Running, Threads
    <3> QED BY <1>7, <2>2, <3>3
  <2> QED BY <2>1, <2>2
<1>9. FlagsFollowThreads'
  <2>1. Threads(j)' # {}
    BY <1>1, <1>3, <1>4 DEF Threads
  <2>2. \A k \in Jobs : k # j => Threads(k)' = Threads(k)
    BY <1>5 DEF Threads
  <2>3. Running' = Running \cup {j}
    BY <2>1, <2>2 DEF Running
  <2>4. flag'[j] # "none" /\ \A k \in Jobs : k # j => flag'[k] = flag[k]
    BY <1>7
  <2> QED BY <1>7, <2>3, <2>4 DEF FlagsFollowThreads
<1> QED BY <1>6, <1>7, <1>8, <1>9

\* A retry makes its new job with the schedule of the old one or with none.
LEMMA RetryStarts ==
  ASSUME Typed, NEW j \in Jobs, NEW new \in Jobs, Retry(j, new)
  PROVE  \E schedule \in {"none", "later", "due"} : CreateAndStart(new, schedule)
<1>1. scheduled[j] \in {"none", "later", "due"}
  BY DEF Typed, TypeOK, Retry
<1> QED BY <1>1 DEF Retry

\* Every step keeps what was said of types, threads and flags.
LEMMA StepFlags == FlagInv /\ [Next]_vars => FlagInv'
<1> SUFFICES ASSUME FlagInv, [Next]_vars PROVE FlagInv'
  OBVIOUS
<1> USE DEF FlagInv, Typed
<1>a. ASSUME \A k \in Jobs, u \in Slots : threads'[k][u].alive = threads[k][u].alive,
             UNCHANGED <<flag, doubled>>
      PROVE  OneThread' /\ FlagsFollowThreads'
  BY <1>a, RunningKept DEF OneThread, FlagsFollowThreads
<1>b. \A c \in Clients : /\ request[c] \in RequestType
                         /\ request[c].call \in CallType
  BY DEF TypeOK, RequestType
<1>c. Running \subseteq Jobs
  BY DEF Running
<1>1. ASSUME NEW j \in Jobs, NEW schedule \in {"none", "later", "due"},
             CreateAndStart(j, schedule)
      PROVE  FlagInv'
  <2>1. /\ meta' \in [Jobs -> Statuses \cup {"none", "partial", "torn"}]
        /\ db' \in [Jobs -> Statuses \cup {"none"}]
        /\ scheduled' \in [Jobs -> {"unused", "none", "later", "due"}]
    BY <1>1 DEF CreateAndStart, TypeOK, Statuses, Final
  <2>2. requests' \in Nat /\ UNCHANGED <<request, ready, restarts, lost>>
    BY <1>1 DEF CreateAndStart, TypeOK
  <2>3. ASSUME NEW paths \in {Paths, ScheduledPaths}, Start(j, paths) PROVE FlagInv'
    <3>1. paths \in SUBSET Seq(STRING)
      BY AvidaeAssumption
    <3>2. /\ threads' \in [Jobs -> [Slots -> ThreadType]]
          /\ flag' \in [Jobs -> {"none", "clear", "set"}]
          /\ active' \in [Jobs -> {"none", "running"}] /\ doubled' \subseteq Jobs
          /\ OneThread' /\ FlagsFollowThreads'
      BY <2>3, <3>1, StartKeeps
    <3>3. TypeOK' /\ AboutAJob'
      BY <2>1, <2>2, <3>2 DEF TypeOK, AboutAJob
    <3> QED BY <3>2, <3>3
  <2>4. CASE UNCHANGED <<threads, flag, active, doubled>>
    <3>1. TypeOK' /\ AboutAJob'
      BY <2>1, <2>2, <2>4 DEF TypeOK, AboutAJob
    <3> QED BY <1>a, <2>4, <3>1
  <2> QED BY <1>1, <2>3, <2>4 DEF CreateAndStart
<1>2. ASSUME NEW j \in Jobs, Schedule(j) PROVE FlagInv'
  <2>1. TypeOK' /\ AboutAJob'
    BY <1>2 DEF Schedule, TypeOK, AboutAJob, Statuses, Final
  <2> QED BY <1>a, <1>2, <2>1 DEF Schedule
<1>3. ASSUME NEW j \in Jobs, Due(j) PROVE FlagInv'
  <2>1. TypeOK' /\ AboutAJob'
    BY <1>3 DEF Due, TypeOK, AboutAJob
  <2> QED BY <1>a, <1>3, <2>1 DEF Due
<1>4. ASSUME NEW j \in Jobs, StartReady(j) PROVE FlagInv'
  <2>1. /\ ready' \subseteq Jobs
        /\ UNCHANGED <<meta, db, scheduled, request, requests, restarts, lost>>
    BY <1>4 DEF StartReady, TypeOK
  <2>2. CASE Start(j, ScheduledPaths)
    <3>1. ScheduledPaths \in SUBSET Seq(STRING)
      BY AvidaeAssumption
    <3>2. /\ threads' \in [Jobs -> [Slots -> ThreadType]]
          /\ flag' \in [Jobs -> {"none", "clear", "set"}]
          /\ active' \in [Jobs -> {"none", "running"}] /\ doubled' \subseteq Jobs
          /\ OneThread' /\ FlagsFollowThreads'
      BY <2>2, <3>1, StartKeeps
    <3>3. TypeOK' /\ AboutAJob'
      BY <2>1, <3>2 DEF TypeOK, AboutAJob
    <3> QED BY <3>2, <3>3
  <2>3. CASE UNCHANGED <<threads, flag, active, doubled>>
    <3>1. TypeOK' /\ AboutAJob'
      BY <2>1, <2>3 DEF TypeOK, AboutAJob
    <3> QED BY <1>a, <2>3, <3>1
  <2> QED BY <1>4, <2>2, <2>3 DEF StartReady
<1>5. ASSUME NEW j \in Jobs, NEW s \in Slots,
             Advance(j, s) \/ Fail(j, s) \/ Report(j, s) \/ Update(j, s)
      PROVE  FlagInv'
  <2>1. /\ threads' \in [Jobs -> [Slots -> ThreadType]]
        /\ \A k \in Jobs, u \in Slots : threads'[k][u].alive = threads[k][u].alive
    BY <1>5, ThreadKept
  <2>2. /\ meta' \in [Jobs -> Statuses \cup {"none", "partial", "torn"}]
        /\ db' \in [Jobs -> Statuses \cup {"none"}]
    <3>1. CASE Update(j, s)
      <4>1. threads[j][s].call \in CallType
        BY DEF TypeOK, ThreadType
      <4> QED BY <3>1, <4>1, EffectTyped DEF Update
    <3>2. CASE UNCHANGED <<meta, db>>
      BY <3>2 DEF TypeOK
    <3> QED BY <1>5, <3>1, <3>2 DEF Advance, Fail, Report
  <2>3. UNCHANGED <<scheduled, flag, active, request, ready, requests, restarts,
                    lost, doubled>>
    BY <1>5 DEF Advance, Fail, Report, Update
  <2>4. TypeOK' /\ AboutAJob'
    BY <2>1, <2>2, <2>3 DEF TypeOK, AboutAJob
  <2> QED BY <1>a, <2>1, <2>3, <2>4
<1>6. ASSUME NEW j \in Jobs, NEW s \in Slots, Finish(j, s) PROVE FlagInv'
  <2>1. NoThread \in ThreadType /\ ~NoThread.alive
    BY CallTyped DEF NoThread, ThreadType
  <2>2. /\ threads' = [threads EXCEPT ![j][s] = NoThread]
        /\ active' = [active EXCEPT ![j] = "none"] /\ flag' = [flag EXCEPT ![j] = "none"]
        /\ UNCHANGED <<meta, db, scheduled, request, ready, requests, restarts, lost, doubled>>
    BY <1>6 DEF Finish, Thread
  <2>3. /\ threads' \in [Jobs -> [Slots -> ThreadType]]
        /\ \A u \in Slots \ {s} : threads'[j][u] = threads[j][u]
        /\ \A k \in Jobs \ {j} : threads'[k] = threads[k]
        /\ threads'[j][s] = NoThread
    BY <2>1, <2>2 DEF TypeOK
  <2>4. TypeOK' /\ AboutAJob'
    BY <2>2, <2>3 DEF TypeOK, AboutAJob
  <2>5. OneThread'
    BY <2>1, <2>2, <2>3 DEF OneThread
  <2>6. FlagsFollowThreads'
    <3>1. \A k \in Jobs \ {j} : Threads(k)' = Threads(k) /\ flag'[k] = flag[k]
      BY <2>2, <2>3 DEF Threads, TypeOK
    <3>2. \A k \in Jobs \ {j} : k \in Running' <=> k \in Running
      BY <3>1 DEF Running
    <3>3. flag'[j] = "none"
      BY <2>2 DEF TypeOK
    <3>4. j \in Running' => j \in doubled'
      <4> SUFFICES ASSUME j \in Running' PROVE j \in doubled
        BY <2>2
      <4>1. PICK u \in Slots : threads'[j][u].alive
        BY DEF Running, Threads
      <4>2. u # s /\ threads[j][u].alive
        BY <2>1, <2>3, <4>1
      <4>3. threads[j][s].alive
        BY <1>6 DEF Finish, Between
      <4> QED BY <4>2, <4>3 DEF OneThread
    <3>5. \A k \in Jobs : flag'[k] # "none" => k \in Running'
      BY <3>1, <3>2, <3>3 DEF FlagsFollowThreads
    <3>6. \A k \in Running' \ doubled' : flag'[k] # "none"
      <4> SUFFICES ASSUME NEW k \in Running', k \notin doubled' PROVE flag'[k] # "none"
        OBVIOUS
      <4>1. k \in Jobs /\ k # j
        BY <3>4 DEF Running
      <4> QED BY <2>2, <3>1, <3>2, <4>1 DEF FlagsFollowThreads
    <3> QED BY <3>5, <3>6 DEF FlagsFollowThreads
  <2> QED BY <2>4, <2>5, <2>6
<1>7. ASSUME NEW c \in Clients, NEW j \in Jobs, NEW op \in {"cancel", "delete"}, Ask(c, op, j)
      PROVE  FlagInv'
  <2>1. Begin(op, j) \in RequestType /\ Begin(op, j).job = j
    <3>1. Begin(op, j) = [job |-> j, op |-> op, call |-> NoCall]
      BY DEF Begin
    <3>2. NoCall \in CallType
      BY CallTyped
    <3> QED BY <3>1, <3>2 DEF RequestType, Operations
  <2>2. /\ request' = [request EXCEPT ![c] = Begin(op, j)] /\ requests' \in Nat
        /\ UNCHANGED <<meta, db, scheduled, flag, active, threads, ready, restarts,
                       lost, doubled>>
    BY <1>7 DEF Ask, Request, TypeOK
  <2>3. TypeOK' /\ AboutAJob'
    BY <2>1, <2>2 DEF TypeOK, AboutAJob
  <2> QED BY <1>a, <2>2, <2>3
<1>d. /\ NoRequest \in RequestType
      /\ NoRequest.op = "idle" /\ NoRequest.call.at = "none"
  <2>1. NoCall \in CallType /\ NoCall.at = "none"
    BY CallTyped DEF NoCall
  <2>2. NoRequest = [job |-> "none", op |-> "idle", call |-> NoCall]
    BY DEF NoRequest
  <2> QED BY <2>1, <2>2 DEF RequestType, Operations
<1>e. ASSUME NEW c \in Clients, NEW r \in RequestType, Request(c, r),
             r.op # "idle" \/ r.call.at # "none" => r.job \in Jobs
      PROVE  request' \in [Clients -> RequestType] /\ AboutAJob'
  BY <1>e DEF Request, TypeOK, AboutAJob
<1>f. ASSUME NEW r \in RequestType, NEW x \in CallType, r.job \in Jobs
      PROVE  /\ [r EXCEPT !.call = x] \in RequestType
             /\ [r EXCEPT !.call = x].job \in Jobs
             /\ Goes(r) \in RequestType
             /\ Goes(r).op # "idle" \/ Goes(r).call.at # "none" => Goes(r).job \in Jobs
  <2>1. [r EXCEPT !.call = x] = [job |-> r.job, op |-> r.op, call |-> x]
    BY <1>f DEF RequestType
  <2>2. CASE r.op = "delete"
    <3>1. Goes(r) = [job |-> r.job, op |-> "deleteRow", call |-> NoCall]
      BY <2>2 DEF Goes, RequestType
    <3> QED BY <1>f, <2>1, <3>1, CallTyped DEF RequestType, Operations
  <2>3. CASE r.op # "delete"
    BY <1>d, <1>f, <2>1, <2>3 DEF Goes, RequestType
  <2> QED BY <2>2, <2>3
<1>8. ASSUME NEW c \in Clients, Cancel(c) PROVE FlagInv'
  <2> DEFINE r == request[c]
             j == r.job
  <2>1. r \in RequestType /\ j \in Jobs
    BY <1>b, <1>8 DEF Cancel, AboutAJob
  <2>2. Call("cancelled") \in CallType
    BY CallTyped DEF Statuses, Final
  <2>3. /\ flag' = [flag EXCEPT ![j] = IF flag[j] = "none" THEN "none" ELSE "set"]
        /\ UNCHANGED <<meta, db, scheduled, active, threads, ready, requests, restarts,
                       lost, doubled>>
        /\ \/ Request(c, [r EXCEPT !.call = Call("cancelled")])
           \/ Request(c, NoRequest) \/ Request(c, Goes(r))
    BY <1>8 DEF Cancel
  <2> HIDE DEF r
  <2>4. request' \in [Clients -> RequestType] /\ AboutAJob'
    BY <1>d, <1>e, <1>f, <2>1, <2>2, <2>3
  <2>5. /\ flag' \in [Jobs -> {"none", "clear", "set"}]
        /\ \A k \in Jobs : flag'[k] = "none" <=> flag[k] = "none"
    BY <2>1, <2>3 DEF TypeOK
  <2>6. TypeOK'
    BY <2>3, <2>4, <2>5 DEF TypeOK
  <2>7. OneThread' /\ FlagsFollowThreads'
    BY <2>3, <2>5, <1>c DEF OneThread, FlagsFollowThreads, Running, Threads
  <2> QED BY <2>4, <2>6, <2>7
<1>9. ASSUME NEW c \in Clients, RequestUpdate(c) PROVE FlagInv'
  <2> DEFINE r == request[c]
  <2>1. r \in RequestType /\ r.call \in CallType /\ r.job \in Jobs
    BY <1>b, <1>9 DEF RequestUpdate, AboutAJob
  <2>2. /\ meta' \in [Jobs -> Statuses \cup {"none", "partial", "torn"}]
        /\ db' \in [Jobs -> Statuses \cup {"none"}]
    BY <1>9, <2>1, EffectTyped DEF RequestUpdate
  <2>3. UNCHANGED <<scheduled, flag, active, threads, ready, requests, restarts,
                    lost, doubled>>
    BY <1>9 DEF RequestUpdate
  <2>4. request' \in [Clients -> RequestType] /\ AboutAJob'
    <3>1. CASE Raises(r.call, r.job)
      <4>1. Request(c, NoRequest)
        BY <1>9, <3>1 DEF RequestUpdate
      <4> QED BY <1>d, <1>e, <4>1
    <3>2. CASE ~Raises(r.call, r.job)
      <4>1. After(r.call, r.job) \in CallType
        BY <2>1, <3>2, AfterTyped
      <4>2. \/ Request(c, Goes(r))
            \/ Request(c, [r EXCEPT !.call = After(r.call, r.job)])
        BY <1>9, <3>2 DEF RequestUpdate
      <4> HIDE DEF r
      <4> QED BY <1>e, <1>f, <2>1, <4>1, <4>2
    <3> QED BY <3>1, <3>2
  <2>5. TypeOK'
    BY <2>2, <2>3, <2>4 DEF TypeOK
  <2> QED BY <1>a, <2>3, <2>4, <2>5
<1>10. ASSUME NEW c \in Clients, DeleteRow(c) PROVE FlagInv'
  <2> DEFINE r == request[c]
             q == [r EXCEPT !.op = "deleteFolder"]
  <2>1. r \in RequestType /\ r.job \in Jobs
    BY <1>b, <1>10 DEF DeleteRow, AboutAJob
  <2>2. q \in RequestType /\ q.job \in Jobs
    BY <2>1 DEF RequestType, Operations
  <2>3. /\ Request(c, q) /\ db' = [db EXCEPT ![r.job] = "none"]
        /\ UNCHANGED <<meta, scheduled, flag, active, threads, ready, requests, restarts,
                       lost, doubled>>
    BY <1>10 DEF DeleteRow
  <2> HIDE DEF q
  <2>4. request' \in [Clients -> RequestType] /\ AboutAJob'
    BY <1>e, <2>2, <2>3
  <2>5. TypeOK'
    BY <2>3, <2>4 DEF TypeOK
  <2> QED BY <1>a, <2>3, <2>4, <2>5
<1>11. ASSUME NEW c \in Clients, DeleteFolder(c) PROVE FlagInv'
  <2>1. /\ Request(c, NoRequest)
        /\ UNCHANGED <<db, scheduled, flag, active, threads, ready, requests, restarts,
                       lost, doubled>>
    BY <1>11 DEF DeleteFolder
  <2>2. meta' \in [Jobs -> Statuses \cup {"none", "partial", "torn"}]
    <3>1. request[c].job \in Jobs
      BY <1>11 DEF DeleteFolder, AboutAJob
    <3> QED BY <1>11, <3>1 DEF DeleteFolder, TypeOK
  <2>3. request' \in [Clients -> RequestType] /\ AboutAJob'
    BY <1>d, <1>e, <2>1
  <2>4. TypeOK'
    BY <2>1, <2>2, <2>3 DEF TypeOK
  <2> QED BY <1>a, <2>1, <2>3, <2>4
<1>12. ASSUME Look PROVE FlagInv'
  <2>1. TypeOK' /\ AboutAJob'
    BY <1>12 DEF Look, DueJobs, TypeOK, AboutAJob
  <2> QED BY <1>a, <1>12, <2>1 DEF Look
<1>13. ASSUME Restart PROVE FlagInv'
  <2>1. NoThread \in ThreadType /\ ~NoThread.alive
    BY CallTyped DEF NoThread, ThreadType
  <2>2. lost' \subseteq Jobs \cup {"none"}
    <3>1. \A c \in Clients : request[c].job \in Jobs \cup {"none"}
      BY DEF TypeOK, RequestType
    <3> QED BY <1>13, <1>c, <3>1 DEF Restart, Busy, TypeOK
  <2>3. TypeOK' /\ AboutAJob'
    BY <1>13, <1>d, <2>1, <2>2 DEF Restart, TypeOK, AboutAJob
  <2>4. OneThread' /\ FlagsFollowThreads'
    BY <1>13, <2>1 DEF Restart, OneThread, FlagsFollowThreads, Running, Threads
  <2> QED BY <2>3, <2>4
<1>14. CASE UNCHANGED vars
  <2>1. TypeOK' /\ AboutAJob'
    BY <1>14 DEF vars, TypeOK, AboutAJob
  <2> QED BY <1>a, <1>14, <2>1 DEF vars
<1>15. ASSUME Next PROVE FlagInv'
  <2>1. \A j, new \in Jobs : Retry(j, new) =>
           \E schedule \in {"none", "later", "due"} : CreateAndStart(new, schedule)
    BY RetryStarts
  <2>2. \A j : Create(j) => CreateAndStart(j, "none")
    BY DEF Create
  <2>3. \A j \in Timed : j \in Jobs
    BY AvidaeAssumption
  <2> HIDE DEF FlagInv
  <2> QED BY <1>1, <1>2, <1>3, <1>4, <1>5, <1>6, <1>7, <1>8, <1>9, <1>10, <1>11, <1>12,
             <1>13, <1>15, <2>1, <2>2, <2>3 DEF Next, ThreadStep, RequestStep, Scheduler
<1> QED BY <1>14, <1>15

-----------------------------------------------------------------------------
\* Who is still going to write.

\* A place of a runner's path, with the handlers that are open there.
AnyPath == Paths \cup ScheduledPaths \cup FallbackPaths

OnPath(t) ==
    \E path \in AnyPath : \E i \in 0 .. Len(path) - 1 :
        /\ t.rest = SubSeq(path, i + 1, Len(path))
        /\ t.handlers = 1 + Nested(path, i)

\* A thread is on its path, or it writes the last status of its job, or it is done.
ThreadOK(t) ==
    /\ ~t.alive => t.rest = <<>> /\ t.call.at = "none"
    /\ t.rest # <<>> => OnPath(t)
    /\ t.rest = <<>> /\ t.call.at # "none" => t.call.status \in Final
    /\ t.call.at \in {"open", "write"} =>
          /\ t.call.read \in Statuses
          /\ t.call.status # "none" => t.call.read = t.call.status

\* A request only ever cancels a job that was made, and deletes the folder after the row.
RequestOK(r) ==
    /\ r.call.at # "none" => r.call.status = "cancelled" /\ r.op \in {"cancel", "delete"}
    /\ r.call.at \in {"open", "write"} => r.call.read = "cancelled"
    /\ r.op # "idle" => scheduled[r.job] # "unused"
    /\ r.op = "deleteFolder" => db[r.job] = "none"

\* Somebody is about to write: a thread on its path, or a call at one of these steps.
Working(j, ats) ==
    \E s \in Slots : threads[j][s].rest # <<>> \/ threads[j][s].call.at \in ats
Asking(j, ats) ==
    \E c \in Clients : request[c].job = j /\ request[c].call.at \in ats

\* A file that is open has a writer; a file or a row that is not settled will be written,
\* unless the file is torn.
JobOK(j) ==
    /\ meta[j] = "partial" => Writers(j) # {}
    /\ ~Settled(j, meta[j]) /\ meta[j] # "torn" =>
          Working(j, {"load", "open", "write"}) \/ Asking(j, {"open", "write"})
    /\ ~Settled(j, db[j]) /\ meta[j] # "torn" =>
          Working(j, {"load", "open", "write", "row"}) \/ Asking(j, {"open", "write", "row"})

ThreadsOK  == \A j \in Jobs, s \in Slots : ThreadOK(threads[j][s])
RequestsOK == \A c \in Clients : RequestOK(request[c])
JobsOK     == \A j \in Jobs \ lost : JobOK(j)
JobInv     == ThreadsOK /\ RequestsOK /\ JobsOK

\* A step of a path opens a handler, closes one or leaves them as they are.
Opens(step) == IF step = "try" THEN 1 ELSE IF step = "end" THEN -1 ELSE 0

LEMMA NestedStep ==
  ASSUME NEW path, NEW i \in Nat
  PROVE  /\ Nested(path, 0) = 0 /\ Nested(path, i) \in Int
         /\ Nested(path, i + 1) = Nested(path, i) + Opens(path[i + 1])
<1> DEFINE At(x, n) == {k \in 1 .. n : path[k] = x}
<1>1. \A x, n : n \in Nat => IsFiniteSet(At(x, n)) /\ Cardinality(At(x, n)) \in Nat
  <2> SUFFICES ASSUME NEW x, NEW n \in Nat
               PROVE  IsFiniteSet(At(x, n)) /\ Cardinality(At(x, n)) \in Nat
    OBVIOUS
  <2>1. IsFiniteSet(1 .. n)
    BY FS_Interval
  <2>2. IsFiniteSet(At(x, n))
    BY <2>1, FS_Subset
  <2> QED BY <2>2, FS_CardinalityType
<1>2. \A x : Cardinality(At(x, 0)) = 0
  <2> SUFFICES ASSUME NEW x PROVE Cardinality(At(x, 0)) = 0
    OBVIOUS
  <2>1. At(x, 0) = {}
    OBVIOUS
  <2> QED BY <2>1, FS_EmptySet
<1>3. \A x : Cardinality(At(x, i + 1))
               = Cardinality(At(x, i)) + (IF path[i + 1] = x THEN 1 ELSE 0)
  <2> SUFFICES ASSUME NEW x
               PROVE  Cardinality(At(x, i + 1))
                        = Cardinality(At(x, i)) + (IF path[i + 1] = x THEN 1 ELSE 0)
    OBVIOUS
  <2>0. IsFiniteSet(At(x, i)) /\ Cardinality(At(x, i)) \in Nat /\ i + 1 \notin At(x, i)
    <3>1. i + 1 \notin At(x, i)
      OBVIOUS
    <3> HIDE DEF At
    <3> QED BY <1>1, <3>1
  <2>1. CASE path[i + 1] = x
    <3>1. At(x, i + 1) = At(x, i) \cup {i + 1}
      BY <2>1
    <3> HIDE DEF At
    <3>2. Cardinality(At(x, i) \cup {i + 1}) = Cardinality(At(x, i)) + 1
      BY <2>0, FS_AddElement
    <3> QED BY <2>1, <3>1, <3>2
  <2>2. CASE path[i + 1] # x
    <3>1. At(x, i + 1) = At(x, i)
      BY <2>2
    <3> HIDE DEF At
    <3> QED BY <2>0, <2>2, <3>1
  <2> QED BY <2>1, <2>2
<1>4. \A n : Nested(path, n) = Cardinality(At("try", n)) - Cardinality(At("end", n))
  BY DEF Nested
<1> HIDE DEF At
<1>5. /\ Cardinality(At("try", 0)) = 0 /\ Cardinality(At("end", 0)) = 0
      /\ Cardinality(At("try", i)) \in Nat /\ Cardinality(At("end", i)) \in Nat
  BY <1>1, <1>2
<1>6. /\ Cardinality(At("try", i + 1)) = Cardinality(At("try", i))
                                           + (IF path[i + 1] = "try" THEN 1 ELSE 0)
      /\ Cardinality(At("end", i + 1)) = Cardinality(At("end", i))
                                           + (IF path[i + 1] = "end" THEN 1 ELSE 0)
  BY <1>3
<1> QED BY <1>4, <1>5, <1>6 DEF Opens

\* The first place of a path, and the next one: a thread in the middle has a handler, and
\* only a final status is the last step.
LEMMA PathStart ==
  ASSUME NEW path \in AnyPath
  PROVE  /\ path # <<>> /\ ThreadOK(Fresh(path))
         /\ \A u : u.rest = path /\ u.handlers = 1 => OnPath(u)
<1>1. path # <<>> /\ path \in Seq(STRING)
  BY AvidaeAssumption, RunnersEnd DEF AnyPath
<1>2. Len(path) \in Nat \ {0} /\ SubSeq(path, 1, Len(path)) = path
  BY <1>1
<1>3. Nested(path, 0) = 0
  BY NestedStep
<1>4. Fresh(path).rest = path /\ Fresh(path).handlers = 1 /\ Fresh(path).call = NoCall
      /\ Fresh(path).alive
  BY FreshValue
<1>5. 0 \in 0 .. Len(path) - 1
  BY <1>2
<1>6. ASSUME NEW u, u.rest = path, u.handlers = 1 PROVE OnPath(u)
  <2>1. u.rest = SubSeq(path, 0 + 1, Len(path)) /\ u.handlers = 1 + Nested(path, 0)
    BY <1>2, <1>3, <1>6
  <2> QED BY <1>5, <2>1 DEF OnPath
<1>7. OnPath(Fresh(path))
  BY <1>4, <1>6
<1> QED BY <1>1, <1>4, <1>6, <1>7 DEF ThreadOK, NoCall

LEMMA PathStep ==
  ASSUME NEW t \in ThreadType, OnPath(t)
  PROVE  /\ t.rest # <<>> /\ t.handlers >= 1
         /\ Tail(t.rest) = <<>> => Head(t.rest) \in Final
         /\ \A u : /\ Tail(t.rest) # <<>> /\ u.rest = Tail(t.rest)
                   /\ u.handlers = t.handlers + Opens(Head(t.rest))
                   => OnPath(u)
<1>0. PICK path \in AnyPath :
         \E i \in 0 .. Len(path) - 1 : /\ t.rest = SubSeq(path, i + 1, Len(path))
                                      /\ t.handlers = 1 + Nested(path, i)
  BY DEF OnPath
<1>1. PICK i \in 0 .. Len(path) - 1 : /\ t.rest = SubSeq(path, i + 1, Len(path))
                                     /\ t.handlers = 1 + Nested(path, i)
  BY <1>0
<1>2. /\ path \in Seq(STRING) /\ path # <<>> /\ path[Len(path)] \in Final
      /\ Nested(path, i) >= 0 /\ i \in Nat /\ Len(path) \in Nat /\ i < Len(path)
  BY AvidaeAssumption, RunnersEnd DEF AnyPath
<1>3. /\ t.rest # <<>> /\ Head(t.rest) = path[i + 1]
      /\ Tail(t.rest) = SubSeq(path, i + 2, Len(path))
  <2>1. i + 1 \in 1 .. Len(path) /\ Len(path) \in i + 1 .. Len(path) /\ (i + 1) + 1 = i + 2
    BY <1>2
  <2>2. Len(SubSeq(path, i + 1, Len(path))) = Len(path) - i
    BY <1>2
  <2>3. /\ Head(SubSeq(path, i + 1, Len(path))) = path[i + 1]
        /\ Tail(SubSeq(path, i + 1, Len(path))) = SubSeq(path, (i + 1) + 1, Len(path))
    BY <1>2, <2>1, HeadTailOfSubSeq
  <2>4. SubSeq(path, i + 1, Len(path)) # <<>>
    <3>1. Len(path) - i # 0 /\ Len(<<>>) = 0
      BY <1>2
    <3> QED BY <2>2, <3>1
  <2> QED BY <1>1, <2>1, <2>3, <2>4
<1>4. Tail(t.rest) = <<>> => i + 1 = Len(path)
  <2>1. i + 2 <= Len(path) => Len(SubSeq(path, i + 2, Len(path))) = Len(path) - (i + 1)
    BY <1>2
  <2>2. Len(<<>>) = 0
    OBVIOUS
  <2>3. ASSUME i + 2 <= Len(path), SubSeq(path, i + 2, Len(path)) = <<>> PROVE FALSE
    <3>1. Len(path) - (i + 1) = 0
      BY <2>1, <2>2, <2>3
    <3> QED BY <1>2, <2>3, <3>1
  <2> QED BY <1>2, <1>3, <2>3
<1>5. t.handlers >= 1
  BY <1>1, <1>2, NestedStep
<1>6. ASSUME NEW u, Tail(t.rest) # <<>>, u.rest = Tail(t.rest),
             u.handlers = t.handlers + Opens(Head(t.rest))
      PROVE  OnPath(u)
  <2>1. i + 1 \in 0 .. Len(path) - 1
    BY <1>2, <1>3, <1>6
  <2>2. u.rest = SubSeq(path, (i + 1) + 1, Len(path))
    BY <1>2, <1>3, <1>6
  <2>3. Nested(path, i + 1) = Nested(path, i) + Opens(path[i + 1]) /\ Nested(path, i) \in Int
    BY <1>2, NestedStep
  <2>4. Opens(path[i + 1]) \in Int
    BY DEF Opens
  <2>5. u.handlers = 1 + Nested(path, i + 1)
    BY <1>1, <1>3, <1>6, <2>3, <2>4
  <2> QED BY <2>1, <2>2, <2>5 DEF OnPath
<1> QED BY <1>2, <1>3, <1>4, <1>5, <1>6

\* A handler that takes over writes failed or starts the fallback; without one the thread
\* is done.
LEMMA HandledOK ==
  ASSUME NEW t \in ThreadType, t.alive, NEW u \in Handled(t)
  PROVE  /\ ThreadOK(u)
         /\ t.handlers >= 1 => u.rest # <<>> \/ u.call.at = "load"
         /\ u.call.at \in {"none", "load"}
<1>0. NoCall.at = "none"
  BY DEF NoCall
<1>1. CASE t.handlers = 1 /\ t.fallback
  <2>1. PICK path \in FallbackPaths : u = FellBack(t, path)
    BY <1>1, HandledValue
  <2>2. path \in AnyPath
    BY DEF AnyPath
  <2>3. /\ u.rest = path /\ u.handlers = 1 /\ u.call = NoCall /\ u.alive
    BY <1>1, <2>1 DEF FellBack
  <2>4. u.rest # <<>> /\ OnPath(u)
    BY <2>2, <2>3, PathStart
  <2> QED BY <1>0, <2>3, <2>4 DEF ThreadOK
<1>2. CASE ~(t.handlers = 1 /\ t.fallback) /\ t.handlers > 0
  <2>1. u = FailedBy(t)
    BY <1>2, HandledValue
  <2>2. Call("failed").at = "load" /\ Call("failed").status = "failed"
    BY DEF Call, NoCall
  <2>3. u.rest = <<>> /\ u.call = Call("failed") /\ u.alive
    BY <2>1 DEF FailedBy
  <2> QED BY <2>2, <2>3 DEF ThreadOK, Final
<1>3. CASE ~(t.handlers = 1 /\ t.fallback) /\ ~(t.handlers > 0)
  <2>1. u.rest = <<>> /\ u.call = NoCall /\ u.alive
    BY <1>3, HandledValue DEF Ended
  <2>2. ~(t.handlers >= 1)
    BY <1>3 DEF ThreadType
  <2> QED BY <1>0, <2>1, <2>2 DEF ThreadOK
<1> QED BY <1>1, <1>2, <1>3

\* The thread that changing one field makes.
LEMMA FieldValue ==
  ASSUME NEW t \in ThreadType, NEW r, NEW n
  PROVE  /\ [t EXCEPT !.rest = r]
              = [rest |-> r, handlers |-> t.handlers, fallback |-> t.fallback,
                 call |-> t.call, alive |-> t.alive]
         /\ [t EXCEPT !.call = r]
              = [rest |-> t.rest, handlers |-> t.handlers, fallback |-> t.fallback,
                 call |-> r, alive |-> t.alive]
         /\ [[t EXCEPT !.rest = r] EXCEPT !.handlers = n]
              = [rest |-> r, handlers |-> n, fallback |-> t.fallback,
                 call |-> t.call, alive |-> t.alive]
<1>1. [t EXCEPT !.rest = r]
         = [rest |-> r, handlers |-> t.handlers, fallback |-> t.fallback,
            call |-> t.call, alive |-> t.alive]
  BY DEF ThreadType
<1>2. [t EXCEPT !.call = r]
         = [rest |-> t.rest, handlers |-> t.handlers, fallback |-> t.fallback,
            call |-> r, alive |-> t.alive]
  BY DEF ThreadType
<1>3. [[rest |-> r, handlers |-> t.handlers, fallback |-> t.fallback,
        call |-> t.call, alive |-> t.alive]
         EXCEPT !.handlers = n] = [rest |-> r, handlers |-> n, fallback |-> t.fallback,
                                   call |-> t.call, alive |-> t.alive]
  OBVIOUS
<1> QED BY <1>1, <1>2, <1>3

LEMMA FallbackValue ==
  ASSUME NEW t \in ThreadType, NEW r, NEW n
  PROVE  [[t EXCEPT !.rest = r] EXCEPT !.fallback = n]
           = [rest |-> r, handlers |-> t.handlers, fallback |-> n,
              call |-> t.call, alive |-> t.alive]
<1>1. [t EXCEPT !.rest = r]
         = [rest |-> r, handlers |-> t.handlers, fallback |-> t.fallback,
            call |-> t.call, alive |-> t.alive]
  BY FieldValue
<1>2. [[rest |-> r, handlers |-> t.handlers, fallback |-> t.fallback, call |-> t.call,
        alive |-> t.alive] EXCEPT !.fallback = n]
         = [rest |-> r, handlers |-> t.handlers, fallback |-> n, call |-> t.call,
            alive |-> t.alive]
  OBVIOUS
<1> QED BY <1>1, <1>2

\* What a step makes of a thread is the thread's new value.
LEMMA NewThread ==
  ASSUME TypeOK, NEW j \in Jobs, NEW s \in Slots, NEW th, Thread(j, s, th)
  PROVE  /\ threads'[j][s] = th
         /\ \A u \in Slots : u # s => threads'[j][u] = threads[j][u]
         /\ \A k \in Jobs : k # j => threads'[k] = threads[k]
<1> QED BY DEF Thread, TypeOK

\* The next step of a runner leaves a thread that is going to write.
LEMMA AdvanceOK ==
  ASSUME Typed, NEW j \in Jobs, NEW s \in Slots, ThreadOK(threads[j][s]), Advance(j, s)
  PROVE  /\ ThreadOK(threads'[j][s])
         /\ threads'[j][s].rest # <<>> \/ threads'[j][s].call.at = "load"
<1> DEFINE t    == threads[j][s]
           step == Head(t.rest)
           then == [t EXCEPT !.rest = Tail(t.rest)]
           Good(u) == ThreadOK(u) /\ (u.rest # <<>> \/ u.call.at = "load")
<1>0. /\ t \in ThreadType /\ t.alive /\ t.call.at = "none" /\ t.rest # <<>>
      /\ t.rest \in Seq(STRING) /\ TypeOK
  BY DEF Advance, Between, Typed, TypeOK, ThreadType
<1>1. OnPath(t)
  BY <1>0 DEF ThreadOK
<1>2. /\ t.handlers >= 1 /\ t.handlers \in Int
      /\ Tail(t.rest) = <<>> => step \in Final
      /\ \A u : /\ Tail(t.rest) # <<>> /\ u.rest = Tail(t.rest)
                /\ u.handlers = t.handlers + Opens(step)
                => OnPath(u)
  <2>1. t.handlers \in Int
    BY <1>0 DEF ThreadType
  <2> HIDE DEF t
  <2>2. t.handlers >= 1 /\ (Tail(t.rest) = <<>> => step \in Final)
    BY <1>0, <1>1, PathStep
  <2>3. \A u : /\ Tail(t.rest) # <<>> /\ u.rest = Tail(t.rest)
               /\ u.handlers = t.handlers + Opens(step)
               => OnPath(u)
    BY <1>0, <1>1, PathStep
  <2> QED BY <2>1, <2>2, <2>3
<1>3. then = [rest |-> Tail(t.rest), handlers |-> t.handlers, fallback |-> t.fallback,
              call |-> t.call, alive |-> t.alive]
  BY <1>0, FieldValue
<1>4. \A x : [then EXCEPT !.call = x]
               = [rest |-> Tail(t.rest), handlers |-> t.handlers, fallback |-> t.fallback,
                  call |-> x, alive |-> t.alive]
  <2> HIDE DEF t
  <2>1. \A r, x : [[t EXCEPT !.rest = r] EXCEPT !.call = x]
                    = [rest |-> r, handlers |-> t.handlers, fallback |-> t.fallback,
                       call |-> x, alive |-> t.alive]
    BY <1>0, StepValue
  <2> QED BY <2>1
<1>5. \A x : [t EXCEPT !.rest = <<>>, !.call = x]
               = [rest |-> <<>>, handlers |-> t.handlers, fallback |-> t.fallback,
                  call |-> x, alive |-> t.alive]
  BY <1>0, StepValue
<1>6. \A n : [then EXCEPT !.handlers = n]
               = [rest |-> Tail(t.rest), handlers |-> n, fallback |-> t.fallback,
                  call |-> t.call, alive |-> t.alive]
  BY <1>0, FieldValue
<1>15. [then EXCEPT !.fallback = TRUE]
          = [rest |-> Tail(t.rest), handlers |-> t.handlers, fallback |-> TRUE,
             call |-> t.call, alive |-> t.alive]
  <2> HIDE DEF t
  <2>1. \A r, n : [[t EXCEPT !.rest = r] EXCEPT !.fallback = n]
                    = [rest |-> r, handlers |-> t.handlers, fallback |-> n,
                       call |-> t.call, alive |-> t.alive]
    BY <1>0, FallbackValue
  <2> QED BY <2>1
<1>7. \A x : Call(x).at = "load" /\ Call(x).status = x
             /\ \A b : /\ [Call(x) EXCEPT !.soft = b].at = "load"
                       /\ [Call(x) EXCEPT !.soft = b].status = x
  BY DEF Call, NoCall
<1>8. step \notin {"try", "end"} => t.handlers + Opens(step) = t.handlers
  BY <1>2 DEF Opens
<1> HIDE DEF t, step, then
<1>9. ASSUME step \notin {"try", "end"}, NEW x, x.at = "load",
             Tail(t.rest) = <<>> => x.status \in Final
      PROVE  Good([then EXCEPT !.call = x])
  <2> DEFINE u == [rest |-> Tail(t.rest), handlers |-> t.handlers, fallback |-> t.fallback,
                   call |-> x, alive |-> t.alive]
  <2>1. u.rest # <<>> => OnPath(u)
    BY <1>2, <1>8, <1>9
  <2> QED BY <1>0, <1>4, <1>9, <2>1 DEF ThreadOK
<1>10. ASSUME step \notin Final, step \notin {"try", "end"} PROVE Good(then)
  <2> DEFINE u == [rest |-> Tail(t.rest), handlers |-> t.handlers, fallback |-> t.fallback,
                   call |-> t.call,
                   alive |-> t.alive]
  <2>1. u.rest # <<>> /\ OnPath(u)
    BY <1>2, <1>8, <1>10
  <2> QED BY <1>0, <1>3, <2>1 DEF ThreadOK
<1>11. ASSUME step \notin Final PROVE Good([then EXCEPT !.handlers = t.handlers + Opens(step)])
  <2> DEFINE u == [rest |-> Tail(t.rest), handlers |-> t.handlers + Opens(step),
                   fallback |-> t.fallback, call |-> t.call,
                   alive |-> t.alive]
  <2>1. u.rest # <<>> /\ OnPath(u)
    BY <1>2, <1>11
  <2> HIDE DEF Opens
  <2> QED BY <1>0, <1>6, <2>1 DEF ThreadOK
<1>12. \A x \in Final : Good([t EXCEPT !.rest = <<>>, !.call = Call(x)])
  BY <1>0, <1>5, <1>7 DEF ThreadOK
<1>13. \A u \in Handled(t) : Good(u)
  BY <1>0, <1>2, HandledOK
<1>16. ASSUME step = "outer" PROVE Good([then EXCEPT !.fallback = TRUE])
  <2> DEFINE u == [rest |-> Tail(t.rest), handlers |-> t.handlers, fallback |-> TRUE,
                   call |-> t.call, alive |-> t.alive]
  <2>1. u.rest # <<>> /\ OnPath(u)
    BY <1>2, <1>8, <1>16 DEF Final
  <2> QED BY <1>0, <1>15, <2>1 DEF ThreadOK
<1>14. SUFFICES ASSUME NEW th, Thread(j, s, th), Good(th)
                PROVE  Good(threads'[j][s])
  <2> HIDE DEF Good
  <2> SUFFICES \E th : Thread(j, s, th) /\ Good(th)
    <3>1. Good(threads'[j][s])
      BY <1>14
    <3> QED BY <3>1 DEF Good
  <2>0. /\ "note" \notin Final /\ "ffmpeg" \notin Final /\ "check" \notin Final
        /\ "abort" \notin Final /\ "params" \notin Final /\ "try" \notin Final
        /\ "end" \notin Final /\ "try" \notin Statuses /\ "end" \notin Statuses
        /\ "cancelled" \in Final /\ "failed" \in Final /\ Final \subseteq Statuses
    BY DEF Final, Statuses
  <2>1. CASE step \in Statuses /\ Thread(j, s, [then EXCEPT !.call = Call(step)])
    <3> DEFINE x == Call(step)
    <3>0. /\ x.at = "load" /\ step \notin {"try", "end"}
          /\ Tail(t.rest) = <<>> => x.status \in Final
      BY <1>2, <1>7, <2>0, <2>1
    <3>1. Good([then EXCEPT !.call = x])
      <4> HIDE DEF x, Good
      <4> QED BY <1>9, <3>0
    <3> QED BY <2>1, <3>1
  <2>2. CASE /\ step \in {"note", "ffmpeg"}
             /\ Thread(j, s, [then EXCEPT
                               !.call = [Call("none") EXCEPT !.soft = (step = "ffmpeg")]])
    <3> DEFINE x == [Call("none") EXCEPT !.soft = (step = "ffmpeg")]
    <3>0. x.at = "load" /\ step \notin {"try", "end"} /\ Tail(t.rest) # <<>>
      BY <1>2, <2>0, <2>2 DEF Call, NoCall
    <3>1. Good([then EXCEPT !.call = x])
      <4> HIDE DEF x, Good
      <4> QED BY <1>9, <3>0
    <3> QED BY <2>2, <3>1
  <2>3. CASE step \in {"note", "ffmpeg", "check", "abort", "params"} /\ Thread(j, s, then)
    <3>1. Good(then)
      BY <1>10, <2>0, <2>3
    <3> QED BY <2>3, <3>1
  <2>4. CASE \E x \in Final : Thread(j, s, [t EXCEPT !.rest = <<>>, !.call = Call(x)])
    BY <1>12, <2>4
  <2>5. CASE step = "try" /\ Thread(j, s, [then EXCEPT !.handlers = @ + 1])
    <3>1. [then EXCEPT !.handlers = @ + 1] = [then EXCEPT !.handlers = t.handlers + Opens(step)]
      BY <1>3, <2>5 DEF Opens
    <3>2. Good([then EXCEPT !.handlers = t.handlers + Opens(step)])
      BY <1>11, <2>0, <2>5
    <3> QED BY <2>5, <3>1, <3>2
  <2>6. CASE step = "end" /\ Thread(j, s, [then EXCEPT !.handlers = @ - 1])
    <3>1. [then EXCEPT !.handlers = @ - 1] = [then EXCEPT !.handlers = t.handlers + Opens(step)]
      BY <1>2, <1>3, <2>6 DEF Opens
    <3>2. Good([then EXCEPT !.handlers = t.handlers + Opens(step)])
      BY <1>11, <2>0, <2>6
    <3> QED BY <2>6, <3>1, <3>2
  <2>7. CASE \E u \in Handled(t) : Thread(j, s, u)
    BY <1>13, <2>7
  <2>9. CASE step = "outer" /\ Thread(j, s, [then EXCEPT !.fallback = TRUE])
    BY <1>16, <2>9
  <2>8. \/ step \in Statuses /\ Thread(j, s, [then EXCEPT !.call = Call(step)])
        \/ /\ step \in {"note", "ffmpeg"}
           /\ Thread(j, s, [then EXCEPT
                             !.call = [Call("none") EXCEPT !.soft = (step = "ffmpeg")]])
        \/ step \in {"note", "ffmpeg", "check", "abort", "params"} /\ Thread(j, s, then)
        \/ \E x \in Final : Thread(j, s, [t EXCEPT !.rest = <<>>, !.call = Call(x)])
        \/ step = "try" /\ Thread(j, s, [then EXCEPT !.handlers = @ + 1])
        \/ step = "end" /\ Thread(j, s, [then EXCEPT !.handlers = @ - 1])
        \/ \E u \in Handled(t) : Thread(j, s, u)
        \/ step = "outer" /\ Thread(j, s, [then EXCEPT !.fallback = TRUE])
    <3>1. CASE /\ step \in {"check", "abort"}
               /\ Thread(j, s, IF ~Cancelled(j) THEN then
                          ELSE [t EXCEPT !.rest = <<>>, !.call =
                                  Call(IF step = "check" THEN "cancelled" ELSE "failed")])
      BY <2>0, <3>1
    <3>2. CASE ~(/\ step \in {"check", "abort"}
                 /\ Thread(j, s, IF ~Cancelled(j) THEN then
                          ELSE [t EXCEPT !.rest = <<>>, !.call =
                                  Call(IF step = "check" THEN "cancelled" ELSE "failed")]))
      BY <3>2 DEF Advance, Throw, t, step, then
    <3> QED BY <3>1, <3>2
  <2> QED BY <2>1, <2>2, <2>3, <2>4, <2>5, <2>6, <2>7, <2>8, <2>9
<1> HIDE DEF Good
<1> QED BY <1>0, <1>14, NewThread

\* A failure is reported, by the runner or by the innermost handler, or the fallback starts.
LEMMA FailOK ==
  ASSUME Typed, NEW j \in Jobs, NEW s \in Slots, ThreadOK(threads[j][s]),
         Fail(j, s) \/ Report(j, s)
  PROVE  /\ ThreadOK(threads'[j][s])
         /\ threads'[j][s].rest # <<>> \/ threads'[j][s].call.at = "load"
<1> DEFINE t == threads[j][s]
<1>0. t \in ThreadType /\ t.alive /\ t.rest # <<>> /\ TypeOK
  BY DEF Fail, Report, Between, Typed, TypeOK
<1>1. t.handlers >= 1
  BY <1>0, PathStep DEF ThreadOK
<1>2. CASE Fail(j, s)
  <2>1. PICK u \in Handled(t) : Thread(j, s, u)
    BY <1>2 DEF Fail, Throw
  <2>2. threads'[j][s] = u
    BY <1>0, <2>1, NewThread
  <2> QED BY <1>0, <1>1, <2>2, HandledOK
<1>3. CASE Report(j, s)
  <2> DEFINE u == [rest |-> <<>>, handlers |-> t.handlers, fallback |-> t.fallback,
                   call |-> Call("failed"),
                   alive |-> t.alive]
  <2>1. Thread(j, s, [t EXCEPT !.rest = <<>>, !.call = Call("failed")])
    BY <1>3 DEF Report
  <2>2. [t EXCEPT !.rest = <<>>, !.call = Call("failed")] = u
    BY <1>0, StepValue
  <2>3. Call("failed").at = "load" /\ Call("failed").status = "failed"
    BY DEF Call, NoCall
  <2>4. ThreadOK(u) /\ u.call.at = "load"
    BY <1>0, <2>3 DEF ThreadOK, Final
  <2>5. Thread(j, s, u)
    BY <2>1, <2>2
  <2> HIDE DEF u, t
  <2> QED BY <1>0, <2>4, <2>5, NewThread
<1> QED BY <1>2, <1>3

\* A step of a call of update_job, of a thread or of a request.
LEMMA CallSteps ==
  ASSUME TypeOK, NEW j \in Jobs, NEW call \in CallType, Effect(call, j)
  PROVE  /\ call.at \in {"load", "row"} => meta' = meta
         /\ call.at = "open" => meta'[j] = "partial" /\ After(call, j).at = "write"
         /\ call.at = "write" => meta'[j] \in {call.read, "torn"} /\ After(call, j).at = "row"
         /\ call.at # "row" => db' = db
         /\ call.at = "row" => /\ After(call, j) = NoCall
                               /\ db'[j] = (IF db[j] # "none" /\ call.status # "none"
                                            THEN call.status ELSE db[j])
         /\ call.at = "load" /\ ~Raises(call, j) =>
               /\ meta[j] \notin {"partial", "torn"}
               /\ meta[j] = "none" => After(call, j).at = "row"
               /\ meta[j] # "none" => After(call, j).at = "open"
         /\ \A k \in Jobs : k # j => meta'[k] = meta[k] /\ db'[k] = db[k]
<1>1. PICK m \in Files(call, j) : meta' = [meta EXCEPT ![j] = m]
  BY DEF Effect
<1>2. /\ meta \in [Jobs -> Statuses \cup {"none", "partial", "torn"}]
      /\ db \in [Jobs -> Statuses \cup {"none"}]
  BY DEF TypeOK
<1>3. call.at \in {"load", "row"} => meta' = meta
  BY <1>1, <1>2 DEF Files
<1>4. call.at = "open" => meta'[j] = "partial" /\ After(call, j).at = "write"
  BY <1>1, <1>2 DEF Files, After, CallType
<1>5. call.at = "write" => meta'[j] \in {call.read, "torn"} /\ After(call, j).at = "row"
  BY <1>1, <1>2 DEF Files, Written, After, CallType
<1>6. db' = [db EXCEPT ![j] = Row(call, j)]
  BY DEF Effect
<1>7. call.at # "row" => db' = db
  BY <1>2, <1>6 DEF Row
<1>8. call.at = "row" => /\ After(call, j) = NoCall
                         /\ db'[j] = (IF db[j] # "none" /\ call.status # "none"
                                      THEN call.status ELSE db[j])
  BY <1>2, <1>6 DEF Row, After
<1>9. call.at = "load" /\ ~Raises(call, j) =>
               /\ meta[j] \notin {"partial", "torn"}
               /\ meta[j] = "none" => After(call, j).at = "row"
               /\ meta[j] # "none" => After(call, j).at = "open"
  BY DEF Raises, Broken, After, Loaded, CallType
<1>10. \A k \in Jobs : k # j => meta'[k] = meta[k] /\ db'[k] = db[k]
  BY <1>1, <1>2, <1>6
<1> QED BY <1>3, <1>4, <1>5, <1>7, <1>8, <1>9, <1>10

\* What a call knows after a step that did not raise.
LEMMA AfterOK ==
  ASSUME TypeOK, NEW j \in Jobs, NEW call \in CallType, call.at # "none", ~Raises(call, j),
         call.at \in {"open", "write"} =>
            call.read \in Statuses /\ (call.status # "none" => call.read = call.status)
  PROVE  LET new == After(call, j)
         IN /\ new.at # "none" => new.status = call.status
            /\ new.at \in {"open", "write"} =>
                  new.read \in Statuses /\ (new.status # "none" => new.read = new.status)
<1>1. CASE call.at = "load"
  <2>1. meta[j] \in Statuses \cup {"none"}
    BY <1>1 DEF TypeOK, Raises, Broken
  <2>2. CASE meta[j] = "none"
    BY <1>1, <2>2 DEF After, Loaded, CallType
  <2>3. CASE meta[j] # "none"
    <3> DEFINE what == IF call.status = "none" THEN meta[j] ELSE call.status
    <3>1. After(call, j) = [at |-> "open", status |-> call.status, read |-> what,
                            soft |-> call.soft]
      BY <1>1, <2>3 DEF After, Loaded, CallType
    <3>2. what \in Statuses /\ (call.status # "none" => what = call.status)
      BY <2>1, <2>3 DEF CallType
    <3> HIDE DEF what
    <3> QED BY <3>1, <3>2
  <2> QED BY <2>2, <2>3
<1>2. CASE call.at = "open"
  BY <1>2 DEF After, CallType
<1>3. CASE call.at = "write"
  BY <1>3 DEF After, CallType
<1>4. CASE call.at = "row"
  BY <1>4 DEF After, NoCall
<1> QED BY <1>1, <1>2, <1>3, <1>4 DEF CallType

\* A step of update_job keeps a thread as it should be; when it raises in the middle of a
\* path, a handler is there.
LEMMA UpdateOK ==
  ASSUME Typed, NEW j \in Jobs, NEW s \in Slots, ThreadOK(threads[j][s]), Update(j, s)
  PROVE  LET t == threads[j][s]
             u == threads'[j][s]
         IN /\ ThreadOK(u)
            /\ ~Raises(t.call, j) => u.rest = t.rest /\ u.call = After(t.call, j)
            /\ Raises(t.call, j) /\ t.rest # <<>> => u.rest # <<>> \/ u.call.at = "load"
            /\ Raises(t.call, j) => u.call.at \in {"none", "load"}
<1> DEFINE t == threads[j][s]
<1>0. /\ t \in ThreadType /\ t.call \in CallType /\ t.call.at # "none" /\ t.alive /\ TypeOK
  <2>1. t \in ThreadType
    BY DEF Typed, TypeOK
  <2> QED BY <2>1 DEF Update, Typed, ThreadType, ThreadOK
<1>1. \A x : [t EXCEPT !.call = x]
               = [rest |-> t.rest, handlers |-> t.handlers, fallback |-> t.fallback,
                  call |-> x, alive |-> t.alive]
  BY <1>0, FieldValue
<1>2. ASSUME NEW x, t.rest # <<>> \/ x.at = "none" \/ x.status \in Final,
             x.at \in {"open", "write"} =>
                x.read \in Statuses /\ (x.status # "none" => x.read = x.status)
      PROVE  ThreadOK([t EXCEPT !.call = x])
  <2> DEFINE u == [rest |-> t.rest, handlers |-> t.handlers, fallback |-> t.fallback,
                   call |-> x, alive |-> t.alive]
  <2>1. t.rest # <<>> => OnPath(u)
    BY DEF ThreadOK, OnPath
  <2>2. ThreadOK(u)
    BY <1>0, <1>2, <2>1 DEF ThreadOK
  <2> QED BY <1>1, <2>2
<1>3. CASE ~Raises(t.call, j)
  <2>1. Thread(j, s, [t EXCEPT !.call = After(t.call, j)])
    BY <1>3 DEF Update
  <2>2. /\ t.call.at \in {"open", "write"} =>
              t.call.read \in Statuses /\ (t.call.status # "none" => t.call.read = t.call.status)
        /\ t.rest # <<>> \/ t.call.status \in Final
    BY <1>0 DEF ThreadOK
  <2> DEFINE x == After(t.call, j)
  <2>3. /\ x.at # "none" => x.status = t.call.status
        /\ x.at \in {"open", "write"} =>
              x.read \in Statuses /\ (x.status # "none" => x.read = x.status)
    BY <1>0, <1>3, <2>2, AfterOK
  <2> HIDE DEF x, t
  <2>4. ThreadOK([t EXCEPT !.call = x])
    BY <1>2, <2>2, <2>3
  <2>5. threads'[j][s] = [t EXCEPT !.call = x]
    BY <1>0, <2>1, NewThread DEF x
  <2>6. [t EXCEPT !.call = x].rest = t.rest /\ [t EXCEPT !.call = x].call = x
    BY <1>1
  <2> QED BY <1>3, <2>4, <2>5, <2>6 DEF t, x
<1>4. CASE Raises(t.call, j) /\ t.call.soft
  <2>1. Thread(j, s, [t EXCEPT !.call = NoCall])
    BY <1>4 DEF Update
  <2>2. NoCall.at = "none"
    BY DEF NoCall
  <2> HIDE DEF t
  <2>3. ThreadOK([t EXCEPT !.call = NoCall])
    BY <1>2, <2>2
  <2>4. threads'[j][s] = [t EXCEPT !.call = NoCall]
    BY <1>0, <2>1, NewThread
  <2>5. [t EXCEPT !.call = NoCall].rest = t.rest /\ [t EXCEPT !.call = NoCall].call = NoCall
    BY <1>1
  <2> QED BY <1>4, <2>2, <2>3, <2>4, <2>5 DEF t
<1>5. CASE Raises(t.call, j) /\ ~t.call.soft
  <2>1. PICK u \in Handled(t) : Thread(j, s, u)
    BY <1>5 DEF Update, Throw
  <2>2. t.rest # <<>> => t.handlers >= 1
    BY <1>0, PathStep DEF ThreadOK
  <2> HIDE DEF t
  <2>3. threads'[j][s] = u
    BY <1>0, <2>1, NewThread
  <2> QED BY <1>0, <1>5, <2>2, <2>3, HandledOK DEF t
<1> QED BY <1>3, <1>4, <1>5

\* A job that a step leaves alone is as it was.
LEMMA OtherJob ==
  ASSUME NEW k \in Jobs, JobOK(k), meta'[k] = meta[k], db'[k] = db[k],
         threads'[k] = threads[k],
         scheduled'[k] = scheduled[k] \/ scheduled'[k] = "due",
         \A c \in Clients :
            request[c].job = k /\ request[c].call.at \in {"open", "write", "row"} =>
               request'[c].job = k /\ request'[c].call.at = request[c].call.at
  PROVE  JobOK(k)'
<1>1. \A x : Settled(k, x) => Settled(k, x)'
  BY DEF Settled
<1>2. \A ats : Working(k, ats) => Working(k, ats)'
  BY DEF Working
<1>3. \A ats : ats \subseteq {"open", "write", "row"} => (Asking(k, ats) => Asking(k, ats)')
  BY DEF Asking
<1>4. Writers(k) # {} => Writers(k)' # {}
  BY DEF Writers
<1>5. Settled(k, meta[k])' \/ ~Settled(k, meta[k])
  BY <1>1
<1>6. Settled(k, db[k])' \/ ~Settled(k, db[k])
  BY <1>1
<1> QED BY <1>2, <1>3, <1>4, <1>5, <1>6 DEF JobOK

\* What a step of one thread leaves of those that are about to write.
LEMMA OthersWork ==
  ASSUME NEW j \in Jobs, NEW s \in Slots, request' = request,
         \A v \in Slots : v # s => threads'[j][v] = threads[j][v]
  PROVE  /\ \A ats : \/ ~Working(j, ats) \/ Working(j, ats)'
                     \/ threads[j][s].rest # <<>> \/ threads[j][s].call.at \in ats
         /\ \A ats : threads'[j][s].rest # <<>> \/ threads'[j][s].call.at \in ats
                       => Working(j, ats)'
         /\ \A ats : Asking(j, ats) => Asking(j, ats)'
         /\ \/ Writers(j) = {} \/ Writers(j)' # {} \/ threads[j][s].call.at = "write"
         /\ threads'[j][s].call.at = "write" => Writers(j)' # {}
         /\ Writers(j)' # {} => /\ \/ Working(j, {"load", "open", "write"})'
                                   \/ Asking(j, {"open", "write"})'
                                /\ \/ Working(j, {"load", "open", "write", "row"})'
                                   \/ Asking(j, {"open", "write", "row"})'
<1> QED BY DEF Working, Asking, Writers

\* No step of a runner leaves a job unsettled with nobody to write.
LEMMA RunnerKeepsJobs ==
  ASSUME Typed, JobInv, NEW j \in Jobs, NEW s \in Slots,
         Advance(j, s) \/ Fail(j, s) \/ Report(j, s) \/ Update(j, s)
  PROVE  JobInv'
<1> DEFINE t == threads[j][s]
           u == threads'[j][s]
<1> USE DEF JobInv
<1>0. /\ UNCHANGED <<scheduled, request, lost>> /\ TypeOK
      /\ t \in ThreadType /\ t.call \in CallType /\ ThreadOK(t)
      /\ \E th : Thread(j, s, th)
  <2>1. \E th : Thread(j, s, th)
    BY DEF Advance, Fail, Report, Update, Throw
  <2>2. UNCHANGED <<scheduled, request, lost>>
    BY DEF Advance, Fail, Report, Update
  <2> QED BY <2>1, <2>2 DEF Typed, TypeOK, ThreadType, ThreadsOK
<1>1. /\ \A v \in Slots : v # s => threads'[j][v] = threads[j][v]
      /\ \A k \in Jobs : k # j => threads'[k] = threads[k]
  BY <1>0, NewThread
<1>2. ThreadOK(u)
  BY <1>0, AdvanceOK, FailOK, UpdateOK
<1>3. ThreadsOK'
  BY <1>1, <1>2 DEF ThreadsOK
<1>4. CASE Advance(j, s) \/ Fail(j, s) \/ Report(j, s)
  <2>1. UNCHANGED <<meta, db>> /\ t.call.at = "none"
    BY <1>4 DEF Advance, Fail, Report, Between
  <2>2. u.rest # <<>> \/ u.call.at = "load"
    BY <1>0, <1>4, AdvanceOK, FailOK
  <2>3. RequestsOK'
    BY <1>0, <2>1 DEF RequestsOK, RequestOK
  <2>4. \A k \in Jobs \ lost : k # j => JobOK(k)'
    BY <1>0, <1>1, <2>1, OtherJob DEF JobsOK
  <2>5. JobOK(j) => JobOK(j)'
    BY <1>0, <1>1, <2>1, <2>2, OthersWork DEF JobOK
  <2> QED BY <1>0, <1>3, <2>3, <2>4, <2>5 DEF JobsOK
<1>5. CASE Update(j, s)
  <2> DEFINE call == t.call
  <2>1. call.at # "none" /\ Effect(call, j)
    BY <1>5 DEF Update
  <2>2. /\ call.at \in {"load", "row"} => meta' = meta
        /\ call.at = "open" => meta'[j] = "partial" /\ After(call, j).at = "write"
        /\ call.at = "write" => meta'[j] \in {call.read, "torn"} /\ After(call, j).at = "row"
        /\ call.at # "row" => db' = db
        /\ call.at = "row" => db'[j] = (IF db[j] # "none" /\ call.status # "none"
                                        THEN call.status ELSE db[j])
        /\ call.at = "load" /\ ~Raises(call, j) =>
              /\ meta[j] \notin {"partial", "torn"}
              /\ meta[j] = "none" => After(call, j).at = "row"
              /\ meta[j] # "none" => After(call, j).at = "open"
        /\ \A k \in Jobs : k # j => meta'[k] = meta[k] /\ db'[k] = db[k]
    BY <1>0, <2>1, CallSteps
  <2>3. /\ ~Raises(call, j) => u.rest = t.rest /\ u.call = After(call, j)
        /\ Raises(call, j) /\ t.rest # <<>> => u.rest # <<>> \/ u.call.at = "load"
        /\ Raises(call, j) => call.at \in {"load", "row"} /\ meta[j] \in {"partial", "torn"}
    BY <1>0, <1>5, UpdateOK DEF Raises, Broken
  <2>4. /\ t.rest = <<>> => call.status \in Final
        /\ call.at \in {"open", "write"} =>
              call.read \in Statuses /\ (call.status # "none" => call.read = call.status)
    BY <1>0, <2>1 DEF ThreadOK
  <2>5. RequestsOK'
    <3> SUFFICES ASSUME NEW c \in Clients PROVE RequestOK(request[c])'
      BY DEF RequestsOK
    <3>1. RequestOK(request[c]) /\ (request[c].op # "idle" => request[c].job \in Jobs)
      BY DEF RequestsOK, Typed, AboutAJob
    <3>2. \A k \in Jobs : db[k] = "none" => db'[k] = "none"
      BY <2>2
    <3> QED BY <1>0, <3>1, <3>2 DEF RequestOK
  <2>6. \A k \in Jobs \ lost : k # j => JobOK(k)'
    BY <1>0, <1>1, <2>2, OtherJob DEF JobsOK
  <2>7. ASSUME JobOK(j) PROVE JobOK(j)'
    <3>0. /\ \A x : Settled(j, x)' = Settled(j, x)
          /\ \A x \in Final \cup {"none"} : Settled(j, x)
          /\ Final \subseteq Statuses /\ "partial" \notin Statuses /\ "none" \notin Statuses
      BY <1>0 DEF Settled, Final, Statuses
    <3> HIDE DEF call, t, u
    <3>1. CASE call.at = "load" /\ ~Raises(call, j)
      BY <1>0, <1>1, <2>2, <2>3, <2>7, <3>0, <3>1, OthersWork DEF JobOK, t, u, call
    <3>2. CASE call.at = "load" /\ Raises(call, j)
      <4>1. meta' = meta /\ meta[j] \in {"partial", "torn"}
        BY <2>2, <2>3, <3>2
      <4>2. meta[j] = "partial" => Writers(j)' # {}
        BY <1>0, <1>1, <2>7, <3>2, OthersWork DEF JobOK, t, call
      <4>3. Writers(j)' # {} => /\ \/ Working(j, {"load", "open", "write"})'
                                   \/ Asking(j, {"open", "write"})'
                                /\ \/ Working(j, {"load", "open", "write", "row"})'
                                   \/ Asking(j, {"open", "write", "row"})'
        BY <1>0, <1>1, OthersWork
      <4> QED BY <4>1, <4>2, <4>3 DEF JobOK
    <3>3. CASE call.at = "open"
      BY <1>0, <1>1, <2>2, <2>3, <2>7, <3>0, <3>3, OthersWork DEF JobOK, t, u, call
    <3>4. CASE call.at = "write"
      BY <1>0, <1>1, <2>2, <2>3, <2>4, <2>7, <3>0, <3>4, OthersWork DEF JobOK, t, u, call
    <3>5. CASE call.at = "row"
      BY <1>0, <1>1, <2>2, <2>3, <2>4, <2>7, <3>0, <3>5, OthersWork DEF JobOK, t, u, call
    <3> QED BY <1>0, <2>1, <3>1, <3>2, <3>3, <3>4, <3>5 DEF CallType, call
  <2> QED BY <1>0, <1>3, <2>5, <2>6, <2>7 DEF JobsOK
<1> QED BY <1>4, <1>5

\* A thread that starts is on its path, and goes where none runs.
LEMMA StartsOK ==
  ASSUME Typed, ThreadsOK, NEW j \in Jobs, NEW paths \in SUBSET AnyPath,
         Start(j, paths), request' = request
  PROVE  /\ ThreadsOK' /\ \A ats : Working(j, ats)'
         /\ \A k \in Jobs : k # j => threads'[k] = threads[k]
         /\ Writers(j) # {} => Writers(j)' # {}
<1> DEFINE s == FreeSlot(j)
<1>1. s \in Slots \ Threads(j)
  BY DEF Start, Threads, FreeSlot
<1>2. PICK path \in paths : threads' = [threads EXCEPT ![j][s] = Fresh(path)]
  BY DEF Start
<1> HIDE DEF s
<1>3. /\ threads'[j][s] = Fresh(path)
      /\ \A v \in Slots : v # s => threads'[j][v] = threads[j][v]
      /\ \A k \in Jobs : k # j => threads'[k] = threads[k]
  BY <1>1, <1>2 DEF Typed, TypeOK
<1>4. ThreadOK(Fresh(path)) /\ Fresh(path).rest # <<>>
  <2>1. Fresh(path).rest = path
    BY FreshValue
  <2> QED BY <2>1, PathStart
<1>5. ThreadsOK'
  BY <1>3, <1>4 DEF ThreadsOK
<1>6. \A ats : Working(j, ats)'
  BY <1>1, <1>3, <1>4 DEF Working
<1>7. threads[j][s].call.at # "write"
  BY <1>1 DEF ThreadsOK, ThreadOK, Threads
<1> QED BY <1>1, <1>3, <1>5, <1>6, <1>7, OthersWork

\* A job that is made anew is queued with a thread, or failed.
LEMMA MadeJob ==
  ASSUME Typed, JobInv, NEW j \in Jobs, NEW schedule \in {"none", "later", "due"},
         CreateAndStart(j, schedule)
  PROVE  JobInv'
<1> USE DEF JobInv
<1>0. /\ UNCHANGED <<request, lost>> /\ scheduled[j] = "unused" /\ scheduled'[j] = schedule
      /\ \A k \in Jobs : k # j => /\ meta'[k] = meta[k] /\ db'[k] = db[k]
                                  /\ scheduled'[k] = scheduled[k]
      /\ \/ /\ \E paths \in {Paths, ScheduledPaths} : Start(j, paths)
            /\ meta'[j] = "queued" /\ db'[j] = "queued"
         \/ UNCHANGED threads /\ meta'[j] = "failed" /\ db'[j] = "failed"
  BY DEF CreateAndStart, IsNew, Typed, TypeOK
<1>1. RequestsOK'
  <2> SUFFICES ASSUME NEW c \in Clients PROVE RequestOK(request[c])'
    BY DEF RequestsOK
  <2>1. RequestOK(request[c]) /\ (request[c].op # "idle" => request[c].job \in Jobs \ {j})
    BY <1>0 DEF RequestsOK, RequestOK, Typed, AboutAJob
  <2> QED BY <1>0, <2>1 DEF RequestOK
<1>2. ASSUME NEW paths \in {Paths, ScheduledPaths}, Start(j, paths),
             meta'[j] = "queued", db'[j] = "queued"
      PROVE  JobInv'
  <2>0. paths \in SUBSET AnyPath
    BY DEF AnyPath
  <2>1. /\ ThreadsOK' /\ \A ats : Working(j, ats)'
        /\ \A k \in Jobs : k # j => threads'[k] = threads[k]
    BY <1>0, <1>2, <2>0, StartsOK
  <2>2. JobOK(j)'
    BY <1>2, <2>1 DEF JobOK
  <2>3. \A k \in Jobs \ lost : k # j => JobOK(k)'
    BY <1>0, <2>1, OtherJob DEF JobsOK
  <2> QED BY <1>0, <1>1, <2>1, <2>2, <2>3 DEF JobsOK
<1>3. CASE UNCHANGED threads /\ meta'[j] = "failed" /\ db'[j] = "failed"
  <2>1. ThreadsOK'
    BY <1>3 DEF ThreadsOK
  <2>2. JobOK(j)'
    BY <1>3 DEF JobOK, Settled, Final
  <2>3. \A k \in Jobs \ lost : k # j => JobOK(k)'
    BY <1>0, <1>3, OtherJob DEF JobsOK
  <2> QED BY <1>0, <1>1, <2>1, <2>2, <2>3 DEF JobsOK
<1> QED BY <1>0, <1>2, <1>3

\* A request ends what it began, and what it leaves is settled.
LEMMA RequestKeepsJobs ==
  ASSUME Typed, JobInv, NEW c \in Clients, RequestStep(c)
  PROVE  JobInv'
<1> USE DEF JobInv
<1>r. PICK r : r = request[c]
  OBVIOUS
<1>j. PICK j : j = r.job
  OBVIOUS
<1>0. /\ r \in RequestType /\ r.call \in CallType /\ j \in Jobs /\ RequestOK(r)
      /\ scheduled[j] # "unused" /\ r.op # "idle" /\ TypeOK
  <2>1. r \in RequestType /\ r.call \in CallType /\ RequestOK(r)
    BY <1>r DEF Typed, TypeOK, RequestType, RequestsOK
  <2>2. r.op # "idle"
    BY <1>r, <2>1 DEF RequestStep, Cancel, RequestUpdate, DeleteRow, DeleteFolder, RequestOK
  <2> QED BY <1>r, <1>j, <2>1, <2>2 DEF Typed, AboutAJob, RequestOK
<1>1. UNCHANGED <<threads, scheduled, lost>>
  BY <1>r DEF RequestStep, Cancel, RequestUpdate, DeleteRow, DeleteFolder
<1>2. ThreadsOK'
  BY <1>r, <1>j, <1>1 DEF ThreadsOK
<1>3. ASSUME NEW q, Request(c, q), RequestOK(q)',
             \A k \in Jobs : db[k] = "none" => db'[k] = "none"
      PROVE  /\ RequestsOK' /\ request'[c] = q
             /\ \A d \in Clients : d # c => request'[d] = request[d]
  <2>1. request'[c] = q /\ \A d \in Clients : d # c => request'[d] = request[d]
    BY <1>r, <1>j, <1>3 DEF Request, TypeOK, Typed
  <2>2. ASSUME NEW d \in Clients PROVE RequestOK(request[d])'
    <3>1. CASE d = c
      BY <1>r, <1>j, <1>3, <2>1, <3>1 DEF RequestOK
    <3>2. CASE d # c
      <4>1. RequestOK(request[d]) /\ (request[d].op # "idle" => request[d].job \in Jobs)
        BY <1>r DEF RequestsOK, Typed, AboutAJob
      <4> QED BY <1>r, <1>j, <1>1, <1>3, <2>1, <3>2, <4>1 DEF RequestOK
    <3> QED BY <1>r, <1>j, <3>1, <3>2
  <2> QED BY <1>r, <1>j, <2>1, <2>2 DEF RequestsOK
<1>4. RequestOK(NoRequest)' /\ NoRequest.call.at = "none"
  BY DEF RequestOK, NoRequest, NoCall
<1>5. \A x : [r EXCEPT !.call = x] = [job |-> j, op |-> r.op, call |-> x]
  BY <1>r, <1>j, <1>0 DEF RequestType
<1>6. RequestOK(Goes(r))' /\ Goes(r).call.at = "none"
  <2>1. CASE r.op = "delete"
    <3>1. Goes(r) = [job |-> j, op |-> "deleteRow", call |-> NoCall]
      BY <1>r, <1>j, <1>0, <2>1 DEF Goes, RequestType
    <3> QED BY <1>r, <1>j, <1>0, <1>1, <3>1 DEF RequestOK, NoCall
  <2>2. CASE r.op # "delete"
    BY <1>r, <1>j, <1>4, <2>2 DEF Goes
  <2> QED BY <1>r, <1>j, <2>1, <2>2
<1>7. CASE Cancel(c)
  <2>1. UNCHANGED <<meta, db>> /\ r.call.at = "none" /\ r.op \in {"cancel", "delete"}
    BY <1>r, <1>j, <1>7 DEF Cancel
  <2>2. \/ Request(c, [r EXCEPT !.call = Call("cancelled")])
        \/ Request(c, NoRequest) \/ Request(c, Goes(r))
    BY <1>r, <1>j, <1>7 DEF Cancel
  <2>3. RequestOK([r EXCEPT !.call = Call("cancelled")])'
    BY <1>r, <1>j, <1>0, <1>1, <1>5, <2>1 DEF RequestOK, Call, NoCall
  <2>4. RequestsOK' /\ \A d \in Clients : d # c => request'[d] = request[d]
    BY <1>r, <1>j, <1>3, <1>4, <1>6, <2>1, <2>2, <2>3
  <2>5. \A k \in Jobs \ lost : JobOK(k)'
    BY <1>1, <2>1, <2>4, OtherJob, <1>r, <1>j DEF JobsOK
  <2> QED BY <1>r, <1>j, <1>1, <1>2, <2>4, <2>5 DEF JobsOK
<1>8. CASE RequestUpdate(c)
  <2> DEFINE call == r.call
  <2>0. /\ call.at # "none" /\ call.status = "cancelled" /\ Effect(call, j)
        /\ call.at \in {"open", "write"} => call.read = "cancelled"
        /\ r.op \in {"cancel", "delete"}
    BY <1>r, <1>j, <1>0, <1>8 DEF RequestUpdate, RequestOK
  <2>1. /\ call.at \in {"load", "row"} => meta' = meta
        /\ call.at = "open" => meta'[j] = "partial" /\ After(call, j).at = "write"
        /\ call.at = "write" => meta'[j] \in {call.read, "torn"} /\ After(call, j).at = "row"
        /\ call.at # "row" => db' = db
        /\ call.at = "row" => /\ After(call, j) = NoCall
                              /\ db'[j] = (IF db[j] # "none" /\ call.status # "none"
                                           THEN call.status ELSE db[j])
        /\ \A k \in Jobs : k # j => meta'[k] = meta[k] /\ db'[k] = db[k]
    BY <1>r, <1>j, <1>0, <2>0, CallSteps
  <2>2. \A k \in Jobs : db[k] = "none" => db'[k] = "none"
    BY <1>r, <1>j, <2>1
  <2>3. /\ Raises(call, j) => Request(c, NoRequest) /\ call.at \in {"load", "row"}
        /\ ~Raises(call, j) => \/ After(call, j) = NoCall /\ Request(c, Goes(r))
                               \/ Request(c, [r EXCEPT !.call = After(call, j)])
    BY <1>r, <1>j, <1>8 DEF RequestUpdate, Raises
  <2>4. ~Raises(call, j) =>
           /\ After(call, j).at # "none" => After(call, j).status = "cancelled"
           /\ After(call, j).at \in {"open", "write"} => After(call, j).read = "cancelled"
    <3>1. "cancelled" \in Statuses /\ "cancelled" # "none"
      BY DEF Statuses, Final
    <3> QED BY <1>r, <1>j, <1>0, <2>0, <3>1, AfterOK
  <2>n. PICK new : new = After(call, j)
    OBVIOUS
  <2>5. ~Raises(call, j) => RequestOK([r EXCEPT !.call = new])'
    <3> SUFFICES ASSUME ~Raises(call, j) PROVE RequestOK([r EXCEPT !.call = new])'
      OBVIOUS
    <3>1. /\ new.at # "none" => new.status = "cancelled"
          /\ new.at \in {"open", "write"} => new.read = "cancelled"
      BY <2>4, <2>n
    <3> QED BY <1>0, <1>1, <1>5, <2>0, <3>1 DEF RequestOK
  <2>6. /\ RequestsOK' /\ \A d \in Clients : d # c => request'[d] = request[d]
        /\ Raises(call, j) => request'[c] = NoRequest
        /\ ~Raises(call, j) => \/ request'[c] = [r EXCEPT !.call = After(call, j)]
                               \/ After(call, j) = NoCall /\ request'[c] = Goes(r)
    <3>1. ~Raises(call, j) => \/ Request(c, [r EXCEPT !.call = new])
                              \/ After(call, j) = NoCall /\ Request(c, Goes(r))
      BY <2>3, <2>n
    <3> HIDE DEF call
    <3> QED BY <2>n, <3>1, <1>r, <1>j, <1>3, <1>4, <1>6, <2>2, <2>3, <2>5
  <2>7. /\ call.at = "open" => request'[c].job = j /\ request'[c].call.at = "write"
        /\ call.at = "write" => request'[c].job = j /\ request'[c].call.at = "row"
    <3>1. call.at \in {"open", "write"} => After(call, j) # NoCall /\ ~Raises(call, j)
      BY <1>r, <1>j, <2>1 DEF NoCall, Raises
    <3> QED BY <1>r, <1>j, <1>5, <2>1, <2>6, <3>1
  <2>8. ASSUME NEW k \in Jobs \ lost, k # j \/ call.at = "load" PROVE JobOK(k)'
    BY <1>r, <1>j, <1>1, <2>1, <2>6, <2>8, OtherJob DEF JobsOK
  <2>9. ASSUME j \notin lost, call.at # "load" PROVE JobOK(j)'
    <3>0. /\ \A x : Settled(j, x)' = Settled(j, x)
          /\ Settled(j, "cancelled") /\ Settled(j, "none")
          /\ \A ats : Working(j, ats)' = Working(j, ats)
          /\ JobOK(j)
      BY <1>r, <1>j, <1>0, <1>1, <2>9 DEF Settled, Final, Working, JobsOK
    <3>1. CASE call.at = "open"
      <4>1. Writers(j)' # {} /\ \A ats : "write" \in ats => Asking(j, ats)'
        BY <1>r, <1>j, <2>7, <3>1 DEF Writers, Asking
      <4> QED BY <1>r, <1>j, <2>1, <3>0, <3>1, <4>1 DEF JobOK
    <3>2. CASE call.at = "write"
      <4>1. \A ats : "row" \in ats => Asking(j, ats)'
        BY <1>r, <1>j, <2>7, <3>2 DEF Asking
      <4>2. meta'[j] \in {"cancelled", "torn"}
        BY <1>r, <1>j, <2>0, <2>1, <3>2
      <4> QED BY <1>r, <1>j, <3>0, <4>1, <4>2 DEF JobOK
    <3>3. CASE call.at = "row"
      <4>1. Writers(j)' # {} \/ Writers(j) = {}
        BY <1>r, <1>j, <1>1, <2>6, <3>3 DEF Writers
      <4>2. Asking(j, {"open", "write"}) => Asking(j, {"open", "write"})'
        BY <1>r, <1>j, <2>6, <3>3 DEF Asking
      <4>3. db'[j] \in {"none", "cancelled"}
        BY <1>r, <1>j, <2>0, <2>1, <3>3
      <4> QED BY <1>r, <1>j, <2>1, <3>0, <3>3, <4>1, <4>2, <4>3 DEF JobOK
    <3> QED BY <1>r, <1>j, <1>0, <2>0, <2>9, <3>1, <3>2, <3>3 DEF CallType
  <2> QED BY <1>r, <1>j, <1>0, <1>1, <1>2, <2>6, <2>8, <2>9 DEF JobsOK
<1>9. CASE DeleteRow(c)
  <2>1. /\ Request(c, [r EXCEPT !.op = "deleteFolder"]) /\ db' = [db EXCEPT ![j] = "none"]
        /\ meta' = meta /\ r.op = "deleteRow"
    BY <1>r, <1>j, <1>9 DEF DeleteRow
  <2>2. /\ db'[j] = "none" /\ \A k \in Jobs : k # j => db'[k] = db[k]
    BY <1>r, <1>j, <1>0, <2>1 DEF TypeOK
  <2>3. [r EXCEPT !.op = "deleteFolder"] = [job |-> j, op |-> "deleteFolder", call |-> r.call]
    BY <1>r, <1>j, <1>0 DEF RequestType
  <2>4. r.call.at = "none"
    BY <1>r, <1>j, <1>0, <2>1 DEF RequestOK
  <2>5. RequestOK([r EXCEPT !.op = "deleteFolder"])'
    BY <1>r, <1>j, <1>0, <1>1, <2>2, <2>3, <2>4 DEF RequestOK
  <2>6. RequestsOK' /\ \A d \in Clients : d # c => request'[d] = request[d]
    BY <1>r, <1>j, <1>3, <2>1, <2>2, <2>5
  <2>7. \A k \in Jobs \ lost : k # j => JobOK(k)'
    BY <1>1, <2>1, <2>2, <2>4, <2>6, OtherJob, <1>r, <1>j DEF JobsOK
  <2>8. j \notin lost => JobOK(j)'
    <3>1. /\ \A ats : Working(j, ats)' = Working(j, ats)
          /\ Asking(j, {"open", "write"}) => Asking(j, {"open", "write"})'
          /\ Writers(j) # {} => Writers(j)' # {}
      BY <1>r, <1>j, <1>1, <2>4, <2>6 DEF Working, Asking, Writers
    <3>2. \A x : Settled(j, x)' = Settled(j, x) /\ Settled(j, "none")
      BY <1>r, <1>j, <1>1 DEF Settled
    <3> QED BY <1>r, <1>j, <1>0, <2>1, <2>2, <3>1, <3>2 DEF JobsOK, JobOK
  <2> QED BY <1>r, <1>j, <1>0, <1>1, <1>2, <2>6, <2>7, <2>8 DEF JobsOK
<1>10. CASE DeleteFolder(c)
  <2>1. /\ Request(c, NoRequest) /\ r.op = "deleteFolder" /\ db' = db
        /\ meta' = [meta EXCEPT ![j] = IF Writers(j) = {} THEN "none" ELSE meta[j]]
    BY <1>r, <1>j, <1>10 DEF DeleteFolder
  <2>2. r.call.at = "none" /\ db[j] = "none"
    BY <1>r, <1>j, <1>0, <2>1 DEF RequestOK
  <2>3. /\ meta'[j] = (IF Writers(j) = {} THEN "none" ELSE meta[j])
        /\ \A k \in Jobs : k # j => meta'[k] = meta[k]
    BY <1>r, <1>j, <1>0, <2>1 DEF TypeOK
  <2>4. RequestsOK' /\ \A d \in Clients : d # c => request'[d] = request[d]
    BY <1>r, <1>j, <1>3, <1>4, <2>1
  <2>5. \A k \in Jobs \ lost : k # j \/ Writers(j) # {} => JobOK(k)'
    BY <1>1, <2>1, <2>2, <2>3, <2>4, OtherJob, <1>r, <1>j DEF JobsOK
  <2>6. Writers(j) = {} => JobOK(j)'
    BY <1>r, <1>j, <2>1, <2>2, <2>3 DEF JobOK, Settled
  <2> QED BY <1>r, <1>j, <1>0, <1>1, <1>2, <2>4, <2>5, <2>6 DEF JobsOK
<1> QED BY <1>7, <1>8, <1>9, <1>10 DEF RequestStep

\* A restart loses what was worked on; everything else was settled.
LEMMA RestartKeepsJobs ==
  ASSUME Typed, JobInv, Restart
  PROVE  JobInv'
<1> USE DEF JobInv
<1>1. /\ \A j \in Jobs, s \in Slots : threads'[j][s] = NoThread
      /\ \A c \in Clients : request'[c] = NoRequest
      /\ UNCHANGED <<meta, db, scheduled>> /\ lost' = lost \cup Busy
  BY DEF Restart
<1>2. ThreadsOK' /\ RequestsOK'
  BY <1>1 DEF ThreadsOK, ThreadOK, NoThread, NoCall, RequestsOK, RequestOK, NoRequest
<1>3. ASSUME NEW j \in Jobs \ lost' PROVE JobOK(j)'
  <2>1. j \notin lost /\ j \notin Running
        /\ \A c \in Clients : request[c] # NoRequest => request[c].job # j
    BY <1>1, <1>3 DEF Busy
  <2>2. \A s \in Slots : threads[j][s].rest = <<>> /\ threads[j][s].call.at = "none"
    BY <2>1 DEF Running, Threads, ThreadsOK, ThreadOK
  <2>3. \A c \in Clients : request[c].job = j => request[c].call.at = "none"
    BY <2>1 DEF NoRequest, NoCall
  <2>4. Writers(j) = {}
    BY <2>2, <2>3 DEF Writers
  <2>5. /\ ~Working(j, {"load", "open", "write"}) /\ ~Asking(j, {"open", "write"})
        /\ ~Working(j, {"load", "open", "write", "row"}) /\ ~Asking(j, {"open", "write", "row"})
    BY <2>2, <2>3 DEF Working, Asking
  <2>6. JobOK(j)
    BY <2>1 DEF JobsOK
  <2> QED BY <1>1, <2>4, <2>5, <2>6 DEF JobOK, Settled
<1> QED BY <1>2, <1>3 DEF JobsOK

LEMMA InitJobs == Init => JobInv
<1> SUFFICES ASSUME Init PROVE JobInv
  OBVIOUS
<1>1. ThreadsOK /\ RequestsOK
  BY DEF Init, ThreadsOK, ThreadOK, NoThread, NoCall, RequestsOK, RequestOK, NoRequest
<1>2. JobsOK
  BY DEF Init, JobsOK, JobOK, Settled
<1> QED BY <1>1, <1>2 DEF JobInv

\* Every step leaves the jobs settled, or somebody to settle them.
LEMMA StepJobs == Typed /\ JobInv /\ [Next]_vars => JobInv'
<1> SUFFICES ASSUME Typed, JobInv, [Next]_vars PROVE JobInv'
  OBVIOUS
<1> USE DEF JobInv
<1>a. ASSUME UNCHANGED <<meta, db, threads, lost>>,
             \A k \in Jobs : scheduled'[k] = scheduled[k]
                             \/ (scheduled'[k] = "due" /\ scheduled[k] = "later"),
             \A c \in Clients : \/ request'[c] = request[c]
                                \/ RequestOK(request[c])' /\ request[c].call.at = "none"
      PROVE  JobInv'
  <2>1. ThreadsOK'
    BY <1>a DEF ThreadsOK
  <2>2. RequestsOK'
    <3> SUFFICES ASSUME NEW c \in Clients PROVE RequestOK(request[c])'
      BY DEF RequestsOK
    <3>1. CASE request'[c] = request[c]
      BY <1>a, <3>1 DEF RequestsOK, RequestOK, Typed, AboutAJob
    <3>2. CASE request'[c] # request[c]
      BY <1>a, <3>2
    <3> QED BY <3>1, <3>2
  <2>3. \A k \in Jobs \ lost : JobOK(k)'
    BY <1>a, OtherJob DEF JobsOK
  <2> QED BY <1>a, <2>1, <2>2, <2>3 DEF JobsOK
<1>1. ASSUME NEW j \in Jobs, NEW schedule \in {"none", "later", "due"},
             CreateAndStart(j, schedule)
      PROVE  JobInv'
  BY <1>1, MadeJob
<1>2. ASSUME NEW j \in Jobs, Schedule(j) PROVE JobInv'
  <2>1. /\ UNCHANGED <<threads, request, lost>>
        /\ scheduled'[j] = "later" /\ meta'[j] = "queued" /\ db'[j] = "queued"
        /\ scheduled[j] = "unused"
        /\ \A k \in Jobs : k # j => /\ meta'[k] = meta[k] /\ db'[k] = db[k]
                                    /\ scheduled'[k] = scheduled[k]
    BY <1>2 DEF Schedule, Typed, TypeOK
  <2>2. ThreadsOK'
    BY <2>1 DEF ThreadsOK
  <2>3. RequestsOK'
    <3> SUFFICES ASSUME NEW c \in Clients PROVE RequestOK(request[c])'
      BY DEF RequestsOK
    <3>1. RequestOK(request[c]) /\ (request[c].op # "idle" => request[c].job \in Jobs \ {j})
      BY <2>1 DEF RequestsOK, RequestOK, Typed, AboutAJob
    <3> QED BY <2>1, <3>1 DEF RequestOK
  <2>4. JobOK(j)'
    BY <2>1 DEF JobOK, Settled
  <2>5. \A k \in Jobs \ lost : k # j => JobOK(k)'
    BY <2>1, OtherJob DEF JobsOK
  <2> QED BY <2>1, <2>2, <2>3, <2>4, <2>5 DEF JobsOK
<1>3. ASSUME NEW j \in Jobs, Due(j) PROVE JobInv'
  <2>1. \A k \in Jobs : scheduled'[k] = scheduled[k]
                        \/ (scheduled'[k] = "due" /\ scheduled[k] = "later")
    BY <1>3 DEF Due, Typed, TypeOK
  <2> QED BY <1>3, <1>a, <2>1 DEF Due
<1>4. ASSUME NEW j \in Jobs, StartReady(j) PROVE JobInv'
  <2>0. ScheduledPaths \in SUBSET AnyPath /\ UNCHANGED <<meta, db, scheduled, request, lost>>
    BY <1>4 DEF StartReady, AnyPath
  <2>1. CASE Start(j, ScheduledPaths)
    <3>1. /\ ThreadsOK' /\ \A ats : Working(j, ats)'
          /\ \A k \in Jobs : k # j => threads'[k] = threads[k]
          /\ Writers(j) # {} => Writers(j)' # {}
      BY <2>0, <2>1, StartsOK
    <3>2. RequestsOK'
      BY <2>0 DEF RequestsOK, RequestOK
    <3>3. j \notin lost => JobOK(j)'
      BY <2>0, <3>1 DEF JobsOK, JobOK
    <3>4. \A k \in Jobs \ lost : k # j => JobOK(k)'
      BY <2>0, <3>1, OtherJob DEF JobsOK
    <3> QED BY <2>0, <3>1, <3>2, <3>3, <3>4 DEF JobsOK
  <2>2. CASE UNCHANGED <<threads, flag, active, doubled>>
    BY <1>a, <2>0, <2>2
  <2> QED BY <1>4, <2>1, <2>2 DEF StartReady
<1>5. ASSUME NEW j \in Jobs, NEW s \in Slots,
             Advance(j, s) \/ Fail(j, s) \/ Report(j, s) \/ Update(j, s)
      PROVE  JobInv'
  BY <1>5, RunnerKeepsJobs
<1>6. ASSUME NEW j \in Jobs, NEW s \in Slots, Finish(j, s) PROVE JobInv'
  <2>1. /\ UNCHANGED <<meta, db, scheduled, request, lost>> /\ TypeOK
        /\ threads[j][s].rest = <<>> /\ threads[j][s].call.at = "none"
        /\ Thread(j, s, NoThread)
    BY <1>6 DEF Finish, Between, Typed
  <2>2. /\ threads'[j][s] = NoThread
        /\ \A v \in Slots : v # s => threads'[j][v] = threads[j][v]
        /\ \A k \in Jobs : k # j => threads'[k] = threads[k]
    BY <2>1, NewThread
  <2>3. ThreadsOK' /\ RequestsOK'
    BY <2>1, <2>2 DEF ThreadsOK, ThreadOK, NoThread, NoCall, RequestsOK, RequestOK
  <2>4. j \notin lost => JobOK(j)'
    <3>1. JobOK(j) => JobOK(j)'
      BY <2>1, <2>2, OthersWork DEF JobOK, Settled
    <3> QED BY <3>1 DEF JobsOK
  <2>5. \A k \in Jobs \ lost : k # j => JobOK(k)'
    BY <2>1, <2>2, OtherJob DEF JobsOK
  <2> QED BY <2>1, <2>3, <2>4, <2>5 DEF JobsOK
<1>7. ASSUME NEW c \in Clients, NEW j \in Jobs, NEW op \in {"cancel", "delete"}, Ask(c, op, j)
      PROVE  JobInv'
  <2>1. /\ UNCHANGED <<meta, db, threads, lost, scheduled>> /\ scheduled[j] # "unused"
        /\ request[c] = NoRequest
        /\ request' = [request EXCEPT ![c] = Begin(op, j)]
    BY <1>7 DEF Ask, Request
  <2>2. request'[c] = Begin(op, j) /\ \A d \in Clients : d # c => request'[d] = request[d]
    BY <2>1 DEF Typed, TypeOK
  <2>3. RequestOK(request[c])' /\ request[c].call.at = "none"
    BY <2>1, <2>2 DEF RequestOK, Begin, NoRequest, NoCall
  <2> QED BY <1>a, <2>1, <2>2, <2>3
<1>8. ASSUME NEW c \in Clients, RequestStep(c) PROVE JobInv'
  BY <1>8, RequestKeepsJobs
<1>9. CASE Look \/ UNCHANGED vars
  BY <1>9, <1>a DEF Look, vars
<1>10. CASE Restart
  BY <1>10, RestartKeepsJobs
<1>11. \A j, new \in Jobs : Retry(j, new) =>
          \E schedule \in {"none", "later", "due"} : CreateAndStart(new, schedule)
  BY RetryStarts
<1>12. \A j : Create(j) => CreateAndStart(j, "none")
  BY DEF Create
<1>13. \A j \in Timed : j \in Jobs
  BY AvidaeAssumption
<1> HIDE DEF JobInv
<1> QED BY <1>1, <1>2, <1>3, <1>4, <1>5, <1>6, <1>7, <1>8, <1>9, <1>10, <1>11, <1>12, <1>13
        DEF Next, ThreadStep, Scheduler

\* The variables have their types (every step of update_job included).
THEOREM TypeCorrect == Spec => []TypeOK
<1>1. FlagInv => TypeOK
  BY DEF FlagInv, Typed
<1> QED BY InitFlags, StepFlags, <1>1, PTL DEF Spec

\* _run_job and start_job: a flag is there as long as a thread of its job
\* runs, unless a second thread's end took it, and never without a thread; so
\* a cancellation reaches what runs and nothing that ended.
THEOREM FlagsAreThere == Spec => []FlagsFollowThreads
<1>1. FlagInv => FlagsFollowThreads
  BY DEF FlagInv
<1> QED BY InitFlags, StepFlags, <1>1, PTL DEF Spec

\* IdleMeansSettled for any number of jobs, threads and requests and any runner that ends
\* its paths with a final status, the fallback after an exception included: however
\* failures, cancellations, deletions and a second thread (the scheduler's, also of a
\* retried job) come between its steps, a job nobody works on any more has ended in the file and
\* in the row, unless a restart took its thread or the file is torn.
THEOREM JobsSettle == Spec => []IdleMeansSettled
<1> DEFINE SettledInv == FlagInv /\ JobInv
<1>1. Init => SettledInv
  BY InitFlags, InitJobs
<1>2. SettledInv /\ [Next]_vars => SettledInv'
  BY StepFlags, StepJobs DEF FlagInv
<1>3. SettledInv => IdleMeansSettled
  <2> SUFFICES ASSUME JobInv, NEW j \in Jobs \ (Busy \cup lost), meta[j] # "torn"
               PROVE  Settled(j, meta[j]) /\ Settled(j, db[j])
    BY DEF IdleMeansSettled
  <2>1. \A s \in Slots : threads[j][s].rest = <<>> /\ threads[j][s].call.at = "none"
    BY DEF Busy, Running, Threads, JobInv, ThreadsOK, ThreadOK
  <2>2. \A c \in Clients : request[c].job = j => request[c].call.at = "none"
    BY DEF Busy, NoRequest, NoCall
  <2>3. /\ ~Working(j, {"load", "open", "write"}) /\ ~Asking(j, {"open", "write"})
        /\ ~Working(j, {"load", "open", "write", "row"}) /\ ~Asking(j, {"open", "write", "row"})
    BY <2>1, <2>2 DEF Working, Asking
  <2> QED BY <2>3 DEF JobInv, JobsOK, JobOK
<1> HIDE DEF SettledInv
<1> QED BY <1>1, <1>2, <1>3, PTL DEF Spec
=============================================================================
