----------------------------- MODULE UpdateProofs -----------------------------
(***************************************************************************)
(* The two ways an installation is updated, for every value of their        *)
(* constants.                                                               *)
(*                                                                          *)
(* The handoff at a start: the attempts at a version are bounded, because   *)
(* every record of it, the one on disk, the one being written and the one a *)
(* waiting worker holds, has counted them, and because no record of another *)
(* version replaces it before it is installed.  The start counter agrees    *)
(* with the starts that crashed.                                            *)
(*                                                                          *)
(* The external updater: before the backup nothing has changed; after it a  *)
(* file set aside is as it was found and a new one is noted, so that the    *)
(* rollback can put back what was there; a run that reports success has     *)
(* gone through the whole list.                                             *)
(***************************************************************************)
EXTENDS UpdateHandoff, ExternalUpdater, FiniteSetTheorems, Functions,
        WellFoundedInduction, TLAPS

-----------------------------------------------------------------------------
(* The handoff.                                                             *)

\* The counters are numbers.
TriesTyped == tries \in [Versions -> Nat] /\ streak \in Nat

\* A browser that runs is of the version on disk: the installer waits for it.
RunsInstalled == app.phase # "off" => app.version = installed

\* The start counter and the history agree: what the next start will count, what
\* this start counted, and what is left of it once the start is stable.
Streaks ==
    /\ app.phase = "off" => Failures = streak
    /\ app.phase \in {"booting", "handing", "leaving", "running"} =>
          health = [phase |-> "booting", failed |-> streak] /\ app.failed = streak
    /\ app.phase = "stable" => health.phase = "stable" /\ streak = 0
    /\ streak <= faults /\ health.failed <= faults /\ app.failed <= faults

\* The worker has read the record and waits for its browser to exit.
Waiting(w) == worker[w].step = "waiting"

\* A record has counted every attempt at its version since a retry.
Counted(r) == r.version # 0 => tries[r.version] <= r.attempts

\* No attempt has been made at the version, or it is installed already.
FreshOrDone(v) == v = 0 \/ tries[v] = 0 \/ v <= installed

\* The cached installer is the newest version that anything speaks of.
CacheIsNewest ==
    /\ \A v \in Versions : v > cached => tries[v] = 0
    /\ pending.version <= cached
    /\ staging # None => staging.version = cached /\ cached # 0
    /\ app.ready # 0 => app.ready = cached
    /\ \A w \in Workers : Waiting(w) => worker[w].record.version <= cached

\* The record on disk, the one being written and the one a worker holds have all
\* counted the attempts.
CountsAgree ==
    /\ Counted(pending) /\ Counted(staging)
    /\ \A w \in Workers : Waiting(w) =>
          /\ Counted(worker[w].record)
          /\ worker[w].record.version # 0
          /\ worker[w].record.attempts < MaxAttempts

\* A record of another version than the cached one hides no attempt at that one:
\* this is what lets a later download of it start from nothing.
OtherCounts ==
    /\ pending.version = cached \/ FreshOrDone(cached)
    /\ \A w \in Workers : Waiting(w) =>
          worker[w].record.version = cached \/ FreshOrDone(cached)

\* While the browser writes a record, no worker that outlived its browser is about
\* to write one.
StagingAlone == staging # None => Up /\ Settled

\* The workers' lock.
OneLock == \A u, w \in Workers :
    worker[u].step \in {"waiting", "install"}
        /\ worker[w].step \in {"waiting", "install"} => u = w

\* A worker installs something.
InstallsAVersion == \A w \in Workers :
    worker[w].step = "install" => worker[w].record.version # 0

\* What AttemptsAreBounded says of the attempts.
Bounded == \A v \in Versions : tries[v] <= MaxAttempts

\* The inductive invariant of the handoff.
HandoffInv ==
    /\ TypeOK /\ Bounded /\ TriesTyped /\ RunsInstalled /\ Streaks /\ CacheIsNewest
    /\ CountsAgree /\ OtherCounts /\ StagingAlone /\ OneLock /\ InstallsAVersion

\* A finite set of numbers has a greatest one.
LEMMA GreatestOf == ASSUME NEW S \in SUBSET Nat, IsFiniteSet(S), S # {}
  PROVE \E b \in S : \A c \in S : c <= b
<1> DEFINE above(b) == {c \in S : c > b}
           sizes    == {Cardinality(above(b)) : b \in S}
           smaller  == OpToRel(<, Nat)
<1>1. \A b \in S : IsFiniteSet(above(b)) /\ Cardinality(above(b)) \in Nat
  BY FS_Subset, FS_CardinalityType
<1>2. sizes \in SUBSET Nat /\ sizes # {}
  BY <1>1
<1>3. IsWellFoundedOn(smaller, Nat)
  BY NatLessThanWellFounded
<1>4. PICK n \in sizes : \A m \in sizes : ~(<<m, n>> \in smaller)
  <2> HIDE DEF smaller, sizes
  <2> QED BY <1>2, <1>3, WFMin
<1>5. PICK b \in S : n = Cardinality(above(b))
  BY <1>4
<1>6. ASSUME NEW c \in S, c > b PROVE FALSE
  <2>1. above(c) \subseteq above(b) /\ c \in above(b) /\ c \notin above(c)
    <3>1. \A d \in S : d > c => d > b
      <4>1. b \in Nat /\ c \in Nat /\ S \subseteq Nat
        OBVIOUS
      <4> QED BY <1>6, <4>1
    <3>2. ~(c > c)
      <4>1. c \in Nat
        OBVIOUS
      <4> QED BY <4>1
    <3> QED BY <1>6, <3>1, <3>2
  <2>2. Cardinality(above(c)) <= Cardinality(above(b))
        /\ (Cardinality(above(c)) = Cardinality(above(b)) => above(c) = above(b))
    BY <1>1, <2>1, FS_Subset
  <2>3. Cardinality(above(c)) < n
    BY <1>1, <1>5, <2>1, <2>2
  <2>4. <<Cardinality(above(c)), n>> \in smaller
    BY <1>1, <1>5, <2>3 DEF OpToRel
  <2> QED BY <1>4, <2>4
<1> QED BY <1>6

\* A new process gets a number.
LEMMA NextBootTyped == ASSUME TypeOK PROVE NextBoot \in Nat
<1> DEFINE parents == {worker[w].parent : w \in Workers}
<1>1. IsFiniteSet(parents)
  <2> DEFINE parent == [w \in Workers |-> worker[w].parent]
  <2>1. parent \in Surjection(Workers, parents)
    BY DEF Surjection
  <2>2. IsFiniteSet(Workers)
    BY HandoffAssumption
  <2> HIDE DEF parent, parents
  <2> QED BY <2>1, <2>2, FS_Surjection
<1>2. CASE \E w \in Workers : worker[w].step # "none"
  <2>1. parents \in SUBSET Nat /\ parents # {}
    BY <1>2 DEF TypeOK
  <2>2. \E b \in parents : \A c \in parents : c <= b
    BY <1>1, <2>1, GreatestOf
  <2>3. \E b \in parents : \A w \in Workers : worker[w].parent <= b
    BY <2>2
  <2>4. (CHOOSE b \in parents : \A w \in Workers : worker[w].parent <= b) \in Nat
    BY <2>1, <2>3
  <2> QED BY <1>2, <2>4 DEF NextBoot
<1>3. CASE ~ \E w \in Workers : worker[w].step # "none"
  BY <1>3 DEF NextBoot
<1> QED BY <1>2, <1>3

\* A start keeps the types and counts as failed the starts that were.
LEMMA BootTyped == ASSUME HandoffInv, NEW skip \in BOOLEAN, Boot(skip), app.phase = "off" PROVE
  /\ app' \in [phase : Phases, boot : Nat, version : 0 .. Latest, skip : BOOLEAN,
              failed : 0 .. MaxFaults, ready : 0 .. Latest, helper : SUBSET Workers]
  /\ health' \in [phase : {"booting", "stable", "clean-exit"}, failed : 0 .. MaxFaults]
  /\ faults' = faults /\ streak' = streak => Streaks'
<1> USE HandoffAssumption
<1>1. NextBoot \in Nat
  BY NextBootTyped DEF HandoffInv
<1>2. Failures = streak /\ streak \in 0 .. MaxFaults
  BY DEF HandoffInv, TypeOK, TriesTyped, Streaks
<1>3. app' = [Off EXCEPT !.phase = "booting", !.boot = NextBoot, !.version = installed,
                       !.skip = skip, !.failed = streak]
      /\ health' = [phase |-> "booting", failed |-> streak]
  BY <1>2 DEF Boot
<1>4. app' = [phase |-> "booting", boot |-> NextBoot, version |-> installed, skip |-> skip,
              failed |-> streak, ready |-> 0, helper |-> {}]
  BY <1>3 DEF Off
<1>5. installed \in 0 .. Latest
  BY DEF HandoffInv, TypeOK, Versions
<1>6. faults' = faults /\ streak' = streak => Streaks'
  BY <1>2, <1>3, <1>4 DEF HandoffInv, Streaks
<1> QED BY <1>1, <1>2, <1>3, <1>4, <1>5, <1>6 DEF Phases

\* One lemma for each action.
LEMMA UserStartsStep ==
  ASSUME HandoffInv, UserStarts
  PROVE  HandoffInv'
<1> USE HandoffAssumption
<1>1. Bounded' /\ TriesTyped' /\ RunsInstalled' /\ CountsAgree' /\ OtherCounts'
      /\ StagingAlone' /\ OneLock' /\ InstallsAVersion'
  BY DEF UserStarts, onDisk, past, Boot, HandoffInv, Bounded, TriesTyped, RunsInstalled,
     CountsAgree, Counted, Waiting, OtherCounts, FreshOrDone, StagingAlone, Up, Settled, OneLock,
     InstallsAVersion
<1>2. TypeOK'
  <2>1. Boot(FALSE) /\ app.phase = "off"
    BY DEF UserStarts
  <2>2. app' \in [phase : Phases, boot : Nat, version : 0 .. Latest, skip : BOOLEAN,
                 failed : 0 .. MaxFaults, ready : 0 .. Latest, helper : SUBSET Workers]
        /\ health' \in [phase : {"booting", "stable", "clean-exit"}, failed : 0 .. MaxFaults]
    BY <2>1, BootTyped
  <2> QED BY <2>2 DEF UserStarts, onDisk, past, HandoffInv, TypeOK
<1>3. Streaks'
  BY BootTyped DEF UserStarts, past
<1>4. CacheIsNewest'
  BY DEF UserStarts, onDisk, past, Boot, HandoffInv, TypeOK, Records, Versions, CacheIsNewest,
     Waiting, None, Off
<1> QED BY <1>1, <1>2, <1>3, <1>4 DEF HandoffInv

LEMMA LoadStep ==
  ASSUME HandoffInv, Load
  PROVE  HandoffInv'
<1> USE HandoffAssumption
<1>1. Bounded' /\ TriesTyped' /\ RunsInstalled' /\ Streaks' /\ StagingAlone' /\ OneLock'
      /\ InstallsAVersion'
  BY DEF Load, past, Obsolete, Decision, HandoffInv, Bounded, TriesTyped, RunsInstalled, Streaks,
     Failures, StagingAlone, Up, Settled, OneLock, InstallsAVersion
<1>2. TypeOK'
  BY DEF Load, past, Obsolete, Decision, HandoffInv, TypeOK, Records, Versions, Phases,
     WorkerSteps, None, Streaks, Failures
<1>3. CacheIsNewest'
  BY DEF Load, past, Obsolete, Decision, HandoffInv, TypeOK, Records, Versions, CacheIsNewest,
     Waiting, None
<1>4. CountsAgree'
  BY DEF Load, past, Obsolete, Decision, HandoffInv, TypeOK, Records, Versions, CountsAgree,
     Counted, Waiting, None
<1>5. OtherCounts'
  BY DEF Load, past, Obsolete, Decision, HandoffInv, TypeOK, Records, Versions, OtherCounts,
     FreshOrDone, Waiting, None, RunsInstalled, CacheIsNewest
<1> QED BY <1>1, <1>2, <1>3, <1>4, <1>5 DEF HandoffInv

LEMMA AcknowledgedStep ==
  ASSUME HandoffInv, Acknowledged
  PROVE  HandoffInv'
<1> USE HandoffAssumption
<1>1. Bounded' /\ TriesTyped' /\ RunsInstalled' /\ Streaks' /\ CacheIsNewest'
      /\ CountsAgree' /\ OtherCounts' /\ StagingAlone' /\ OneLock' /\ InstallsAVersion'
  BY DEF Acknowledged, onDisk, past, HandoffInv, Bounded, TriesTyped, RunsInstalled, Streaks,
     Failures, CacheIsNewest, Waiting, CountsAgree, Counted, OtherCounts, FreshOrDone,
     StagingAlone, Up, Settled, OneLock, InstallsAVersion
<1>2. TypeOK'
  BY DEF Acknowledged, onDisk, past, HandoffInv, TypeOK, Records, Versions, Phases, WorkerSteps,
     Streaks, Failures
<1> QED BY <1>1, <1>2 DEF HandoffInv

LEMMA HandshakeFailsStep ==
  ASSUME HandoffInv, HandshakeFails
  PROVE  HandoffInv'
<1> USE HandoffAssumption
<1>1. Bounded' /\ TriesTyped' /\ RunsInstalled' /\ Streaks' /\ CacheIsNewest'
      /\ CountsAgree' /\ OtherCounts' /\ StagingAlone' /\ OneLock' /\ InstallsAVersion'
  BY DEF HandshakeFails, onDisk, past, HandoffInv, Bounded, TriesTyped, RunsInstalled, Streaks,
     Failures, CacheIsNewest, Waiting, CountsAgree, Counted, OtherCounts, FreshOrDone,
     StagingAlone, Up, Settled, OneLock, InstallsAVersion
<1>2. TypeOK'
  BY DEF HandshakeFails, onDisk, past, HandoffInv, TypeOK, Records, Versions, Phases, WorkerSteps,
     Streaks, Failures
<1> QED BY <1>1, <1>2 DEF HandoffInv

LEMMA LeaveStep ==
  ASSUME HandoffInv, Leave
  PROVE  HandoffInv'
<1> USE HandoffAssumption
<1>1. Bounded' /\ TriesTyped' /\ CountsAgree' /\ OtherCounts' /\ StagingAlone' /\ OneLock'
      /\ InstallsAVersion'
  BY DEF Leave, onDisk, Stopped, HandoffInv, Bounded, TriesTyped, CountsAgree, Counted, Waiting,
     OtherCounts, FreshOrDone, StagingAlone, Up, Settled, OneLock, InstallsAVersion
<1>2. TypeOK'
  BY DEF Leave, onDisk, Stopped, HandoffInv, TypeOK, Records, Versions, Phases, WorkerSteps, Off,
     Streaks, Failures
<1>3. RunsInstalled'
  BY DEF Leave, onDisk, Stopped, HandoffInv, TypeOK, Records, Versions, RunsInstalled, Off
<1>4. Streaks'
  BY DEF Leave, onDisk, Stopped, HandoffInv, TypeOK, Records, Versions, Streaks, Failures, Off,
     Phases, WorkerSteps
<1>5. CacheIsNewest'
  BY DEF Leave, onDisk, Stopped, HandoffInv, TypeOK, Records, Versions, CacheIsNewest, Waiting,
     None, Off
<1> QED BY <1>1, <1>2, <1>3, <1>4, <1>5 DEF HandoffInv

LEMMA MarkStableStep ==
  ASSUME HandoffInv, MarkStable
  PROVE  HandoffInv'
<1> USE HandoffAssumption
<1>1. Bounded' /\ TriesTyped' /\ RunsInstalled' /\ CacheIsNewest' /\ CountsAgree'
      /\ OtherCounts' /\ OneLock' /\ InstallsAVersion'
  BY DEF MarkStable, onDisk, HandoffInv, Bounded, TriesTyped, RunsInstalled, CacheIsNewest,
     Waiting, CountsAgree, Counted, OtherCounts, FreshOrDone, OneLock, InstallsAVersion
<1>2. TypeOK'
  BY DEF MarkStable, onDisk, HandoffInv, TypeOK, Records, Versions, Phases, WorkerSteps, Streaks,
     Failures
<1>3. Streaks'
  BY DEF MarkStable, onDisk, HandoffInv, TypeOK, Records, Versions, Streaks, Failures, Phases,
     WorkerSteps
<1>4. StagingAlone'
  BY DEF MarkStable, onDisk, HandoffInv, TypeOK, Records, Versions, StagingAlone, Up, Settled,
     ParentGone, None
<1> QED BY <1>1, <1>2, <1>3, <1>4 DEF HandoffInv

LEMMA StagingDoneStep ==
  ASSUME HandoffInv, StagingDone
  PROVE  HandoffInv'
<1> USE HandoffAssumption
<1>1. Bounded' /\ TriesTyped' /\ RunsInstalled' /\ Streaks' /\ StagingAlone' /\ OneLock'
      /\ InstallsAVersion'
  BY DEF StagingDone, past, Up, HandoffInv, Bounded, TriesTyped, RunsInstalled, Streaks, Failures,
     StagingAlone, Settled, OneLock, InstallsAVersion
<1>2. TypeOK'
  BY DEF StagingDone, past, Up, HandoffInv, TypeOK, Records, Versions, Phases, WorkerSteps, None,
     CacheIsNewest, Waiting, RunsInstalled, StagingAlone, Settled, ParentGone, OneLock,
     CountsAgree, Counted, OtherCounts, FreshOrDone, Streaks, Failures
<1>3. CacheIsNewest'
  BY DEF StagingDone, past, Up, HandoffInv, TypeOK, Records, Versions, CacheIsNewest, Waiting,
     None, RunsInstalled, StagingAlone, Settled, ParentGone, OneLock, CountsAgree, Counted,
     OtherCounts, FreshOrDone
<1>4. CountsAgree'
  BY DEF StagingDone, past, Up, HandoffInv, TypeOK, Records, Versions, CountsAgree, Counted,
     Waiting, None, CacheIsNewest, RunsInstalled, StagingAlone, Settled, ParentGone, OneLock,
     OtherCounts, FreshOrDone
<1>5. OtherCounts'
  BY DEF StagingDone, past, Up, HandoffInv, TypeOK, Records, Versions, OtherCounts, FreshOrDone,
     Waiting, None, CacheIsNewest, RunsInstalled, StagingAlone, Settled, ParentGone, OneLock,
     CountsAgree, Counted
<1> QED BY <1>1, <1>2, <1>3, <1>4, <1>5 DEF HandoffInv

LEMMA CloseStep ==
  ASSUME HandoffInv, Close
  PROVE  HandoffInv'
<1> USE HandoffAssumption
<1>1. Bounded' /\ TriesTyped' /\ OtherCounts' /\ StagingAlone' /\ InstallsAVersion'
  BY DEF Close, onDisk, Stopped, Up, HandoffInv, Bounded, TriesTyped, OtherCounts, FreshOrDone,
     Waiting, StagingAlone, Settled, InstallsAVersion
<1>2. TypeOK'
  BY DEF Close, onDisk, Stopped, Up, HandoffInv, TypeOK, Records, Versions, Phases, WorkerSteps,
     Off, None, Streaks, Failures
<1>3. RunsInstalled'
  BY DEF Close, onDisk, Stopped, Up, HandoffInv, TypeOK, Records, Versions, RunsInstalled, Off
<1>4. Streaks'
  BY DEF Close, onDisk, Stopped, Up, HandoffInv, TypeOK, Records, Versions, Streaks, Failures,
     Off, Phases, WorkerSteps
<1>5. CacheIsNewest'
  BY DEF Close, onDisk, Stopped, Up, HandoffInv, TypeOK, Records, Versions, CacheIsNewest,
     Waiting, None, Off
<1>6. CountsAgree'
  BY DEF Close, onDisk, Stopped, Up, HandoffInv, TypeOK, Records, Versions, CountsAgree, Counted,
     Waiting, None
<1>7. OneLock'
  BY DEF Close, onDisk, Stopped, Up, HandoffInv, TypeOK, Records, Versions, OneLock
<1> QED BY <1>1, <1>2, <1>3, <1>4, <1>5, <1>6, <1>7 DEF HandoffInv

LEMMA ApplyUpdateNowStep ==
  ASSUME HandoffInv, ApplyUpdateNow
  PROVE  HandoffInv'
<1> USE HandoffAssumption
<1>1. StagingAlone' /\ OneLock' /\ InstallsAVersion'
  BY DEF ApplyUpdateNow, Stopped, Up, Staged, HandoffInv, StagingAlone, Settled, OneLock,
     InstallsAVersion
<1>2. TypeOK'
  BY DEF ApplyUpdateNow, Stopped, Up, Staged, HandoffInv, TypeOK, Records, Versions, Phases,
     WorkerSteps, Off, None, CacheIsNewest, Waiting, RunsInstalled, StagingAlone, Settled,
     ParentGone, OneLock, CountsAgree, Counted, OtherCounts, FreshOrDone, Streaks, Failures
<1>3. Bounded'
  BY DEF ApplyUpdateNow, Stopped, Up, Staged, HandoffInv, Bounded
<1>4. TriesTyped'
  BY DEF ApplyUpdateNow, Stopped, Up, Staged, HandoffInv, TriesTyped
<1>5. RunsInstalled'
  BY DEF ApplyUpdateNow, Stopped, Up, Staged, HandoffInv, TypeOK, Records, Versions,
     RunsInstalled, Off
<1>6. Streaks'
  BY DEF ApplyUpdateNow, Stopped, Up, Staged, HandoffInv, TypeOK, Records, Versions, Streaks,
     Failures, Off, Phases, WorkerSteps
<1>7. CacheIsNewest'
  BY DEF ApplyUpdateNow, Stopped, Up, Staged, HandoffInv, TypeOK, Records, Versions,
     CacheIsNewest, Waiting, None, Off, RunsInstalled, StagingAlone, Settled, ParentGone, OneLock,
     CountsAgree, Counted, OtherCounts, FreshOrDone
<1>8. CountsAgree'
  <2>1. app.ready \in Versions /\ app.ready = cached /\ staging' = None
    BY DEF ApplyUpdateNow, HandoffInv, TypeOK, Versions, CacheIsNewest
  <2>2. \A v \in Versions : tries'[v] \in Nat /\ tries'[v] <= tries[v]
    BY <2>1 DEF ApplyUpdateNow, HandoffInv, TriesTyped
  <2>3. Counted(pending)' /\ Counted(staging)'
    BY <2>1 DEF ApplyUpdateNow, Staged, HandoffInv, TriesTyped, Counted, None
  <2>4. \A w \in Workers : Waiting(w) =>
           worker[w].record.version \in Versions /\ worker[w].record.attempts \in Nat
    BY DEF HandoffInv, TypeOK, Records, Versions, CountsAgree
  <2>5. worker' = worker
    BY DEF ApplyUpdateNow
  <2>6. ASSUME NEW w \in Workers, Waiting(w)
        PROVE  Counted(worker[w].record)' /\ worker[w].record.version # 0
               /\ worker[w].record.attempts < MaxAttempts
    <3>1. tries[worker[w].record.version] <= worker[w].record.attempts
      BY <2>6, <2>4 DEF HandoffInv, CountsAgree, Counted, Versions
    <3>2. tries[worker[w].record.version] \in Nat
      BY <2>6, <2>4 DEF HandoffInv, TriesTyped
    <3>3. tries'[worker[w].record.version] <= worker[w].record.attempts
      BY <2>6, <2>2, <2>4, <3>1, <3>2
    <3>4. worker[w].record.version # 0 /\ worker[w].record.attempts < MaxAttempts
      BY <2>6 DEF HandoffInv, CountsAgree
    <3> QED BY <2>5, <3>3, <3>4 DEF Counted
  <2> QED BY <2>3, <2>5, <2>6 DEF CountsAgree, Waiting
<1>9. OtherCounts'
  BY DEF ApplyUpdateNow, Stopped, Up, Staged, HandoffInv, TypeOK, Records, Versions, OtherCounts,
     FreshOrDone, Waiting, None, CacheIsNewest, Off, RunsInstalled, StagingAlone, Settled,
     ParentGone, OneLock, CountsAgree, Counted
<1> QED BY <1>1, <1>2, <1>3, <1>4, <1>5, <1>6, <1>7, <1>8, <1>9 DEF HandoffInv

LEMMA CrashStep ==
  ASSUME HandoffInv, Crash
  PROVE  HandoffInv'
<1> USE HandoffAssumption
<1>1. Bounded' /\ TriesTyped' /\ OtherCounts' /\ StagingAlone' /\ OneLock' /\ InstallsAVersion'
  BY DEF Crash, onDisk, Fault, HandoffInv, Bounded, TriesTyped, OtherCounts, FreshOrDone, Waiting,
     StagingAlone, Up, Settled, OneLock, InstallsAVersion
<1>2. TypeOK'
  BY DEF Crash, onDisk, Fault, HandoffInv, TypeOK, Records, Versions, Phases, WorkerSteps, Off,
     None, Streaks, Failures
<1>3. RunsInstalled'
  BY DEF Crash, onDisk, Fault, HandoffInv, TypeOK, Records, Versions, RunsInstalled, Off
<1>4. Streaks'
  BY DEF Crash, onDisk, Fault, HandoffInv, TypeOK, Records, Versions, Streaks, Failures, Off,
     Phases, WorkerSteps
<1>5. CacheIsNewest'
  BY DEF Crash, onDisk, Fault, HandoffInv, TypeOK, Records, Versions, CacheIsNewest, Waiting,
     None, Off
<1>6. CountsAgree'
  BY DEF Crash, onDisk, Fault, HandoffInv, TypeOK, Records, Versions, CountsAgree, Counted,
     Waiting, None
<1> QED BY <1>1, <1>2, <1>3, <1>4, <1>5, <1>6 DEF HandoffInv

LEMMA DownloadedStep == ASSUME HandoffInv, NEW v \in Versions, NEW a \in BOOLEAN, Downloaded(v,
a) PROVE HandoffInv'
<1> USE HandoffAssumption
<1>1. Bounded' /\ TriesTyped' /\ RunsInstalled' /\ Streaks' /\ OneLock' /\ InstallsAVersion'
  BY DEF Downloaded, past, Up, Staged, HandoffInv, Bounded, TriesTyped, RunsInstalled, Streaks,
     Failures, OneLock, InstallsAVersion
<1>2. TypeOK'
  BY DEF Downloaded, past, Up, Staged, Settled, HandoffInv, TypeOK, Records, Versions, Phases,
     WorkerSteps, None, CacheIsNewest, Waiting, RunsInstalled, StagingAlone, ParentGone, OneLock,
     CountsAgree, Counted, OtherCounts, FreshOrDone, Streaks, Failures
<1>3. CacheIsNewest'
  BY DEF Downloaded, past, Up, Staged, Settled, HandoffInv, TypeOK, Records, Versions,
     CacheIsNewest, Waiting, None, RunsInstalled, StagingAlone, ParentGone, OneLock, CountsAgree,
     Counted, OtherCounts, FreshOrDone
<1>4. CountsAgree'
  <2>1. staging' = Staged(v, a, FALSE) /\ pending' = pending /\ worker' = worker
        /\ tries' = tries
    BY DEF Downloaded, past
  <2>2. pending.version = v \/ tries[v] = 0
    BY DEF Downloaded, Up, HandoffInv, TypeOK, Versions, RunsInstalled, CacheIsNewest, OtherCounts,
           FreshOrDone
  <2>3. tries[v] \in Nat /\ v # 0
    BY DEF HandoffInv, TriesTyped, Versions
  <2>4. Counted(staging)'
    BY <2>1, <2>2, <2>3 DEF Staged, Counted, HandoffInv, CountsAgree
  <2> QED BY <2>1, <2>4 DEF CountsAgree, Counted, Waiting, HandoffInv
<1>5. OtherCounts'
  <2>1. v = cached \/ tries[v] = 0
    BY DEF Downloaded, HandoffInv, TypeOK, CacheIsNewest, Versions
  <2> QED BY <2>1 DEF Downloaded, past, HandoffInv, OtherCounts, FreshOrDone, Waiting
<1>6. StagingAlone'
  BY DEF Downloaded, past, Up, Staged, Settled, HandoffInv, TypeOK, Records, Versions,
     StagingAlone, ParentGone, None, CacheIsNewest, Waiting, RunsInstalled, OneLock, CountsAgree,
     Counted, OtherCounts, FreshOrDone
<1> QED BY <1>1, <1>2, <1>3, <1>4, <1>5, <1>6 DEF HandoffInv

LEMMA HandOverStep ==
  ASSUME HandoffInv, NEW w \in Workers, HandOver(w)
  PROVE  HandoffInv'
<1> USE HandoffAssumption
<1>1. Bounded' /\ TriesTyped' /\ RunsInstalled' /\ Streaks' /\ CacheIsNewest'
      /\ CountsAgree' /\ OtherCounts' /\ StagingAlone' /\ OneLock' /\ InstallsAVersion'
  BY DEF HandOver, onDisk, past, Obsolete, Decision, HandoffInv, Bounded, TriesTyped,
     RunsInstalled, Streaks, Failures, CacheIsNewest, Waiting, CountsAgree, Counted, OtherCounts,
     FreshOrDone, StagingAlone, Up, Settled, OneLock, InstallsAVersion
<1>2. TypeOK'
  <2>1. app' \in [phase : Phases, boot : Nat, version : 0 .. Latest, skip : BOOLEAN,
                 failed : 0 .. MaxFaults, ready : 0 .. Latest, helper : SUBSET Workers]
    BY DEF HandOver, HandoffInv, TypeOK, Phases
  <2>9. worker' \in [Workers -> [step : WorkerSteps, parent : Nat, record : Records]]
    BY DEF HandOver, HandoffInv, TypeOK, WorkerSteps, None, Records
  <2> QED BY <2>1, <2>9 DEF HandOver, onDisk, past, HandoffInv, TypeOK
<1> QED BY <1>1, <1>2 DEF HandoffInv

LEMMA AcceptStep ==
  ASSUME HandoffInv, NEW w \in Workers, Accept(w)
  PROVE  HandoffInv'
<1> USE HandoffAssumption
<1>1. Bounded' /\ TriesTyped' /\ RunsInstalled' /\ Streaks' /\ StagingAlone'
  BY DEF Accept, onDisk, past, HandoffInv, Bounded, Up, TriesTyped, RunsInstalled, Streaks,
     Failures, StagingAlone, Settled
<1>2. TypeOK'
  <2>9. worker' \in [Workers -> [step : WorkerSteps, parent : Nat, record : Records]]
    BY DEF Accept, onDisk, HandoffInv, TypeOK, WorkerSteps
  <2> QED BY <2>9 DEF Accept, onDisk, past, HandoffInv, TypeOK
<1>3. CacheIsNewest'
  BY DEF Accept, onDisk, past, LockFree, HandoffInv, TypeOK, Records, Versions, CacheIsNewest,
     Waiting, None, RunsInstalled, StagingAlone, Up, Settled, ParentGone, OneLock, CountsAgree,
     Counted, OtherCounts, FreshOrDone
<1>4. CountsAgree'
  BY DEF Accept, onDisk, past, LockFree, HandoffInv, TypeOK, Records, Versions, CountsAgree,
     Counted, Waiting, None, CacheIsNewest, RunsInstalled, StagingAlone, Up, Settled, ParentGone,
     OneLock, OtherCounts, FreshOrDone
<1>5. OtherCounts'
  BY DEF Accept, onDisk, past, LockFree, HandoffInv, TypeOK, Records, Versions, OtherCounts,
     FreshOrDone, Waiting, None, CacheIsNewest, RunsInstalled, StagingAlone, Up, Settled,
     ParentGone, OneLock, CountsAgree, Counted
<1>6. OneLock'
  BY DEF Accept, onDisk, past, LockFree, HandoffInv, TypeOK, Records, Versions, OneLock
<1>7. InstallsAVersion'
  BY DEF Accept, onDisk, past, LockFree, HandoffInv, TypeOK, Records, Versions, InstallsAVersion,
     CountsAgree, Waiting
<1> QED BY <1>1, <1>2, <1>3, <1>4, <1>5, <1>6, <1>7 DEF HandoffInv

LEMMA RefuseStep ==
  ASSUME HandoffInv, NEW w \in Workers, Refuse(w)
  PROVE  HandoffInv'
<1> USE HandoffAssumption
<1>1. Bounded' /\ TriesTyped' /\ RunsInstalled' /\ Streaks' /\ StagingAlone'
  BY DEF Refuse, onDisk, past, HandoffInv, Bounded, TriesTyped, RunsInstalled, Streaks, Failures,
     StagingAlone, Up, Settled
<1>2. TypeOK'
  BY DEF Refuse, onDisk, past, HandoffInv, TypeOK, Records, Versions, Phases, WorkerSteps,
     NoWorker, None, Streaks, Failures
<1>3. CacheIsNewest'
  BY DEF Refuse, onDisk, past, HandoffInv, TypeOK, Records, Versions, CacheIsNewest, Waiting,
     None, NoWorker
<1>4. CountsAgree'
  BY DEF Refuse, onDisk, past, HandoffInv, TypeOK, Records, Versions, CountsAgree, Counted,
     Waiting, None, NoWorker
<1>5. OtherCounts'
  BY DEF Refuse, onDisk, past, HandoffInv, TypeOK, Records, Versions, OtherCounts, FreshOrDone,
     Waiting, NoWorker, None, RunsInstalled, CacheIsNewest
<1>6. OneLock'
  BY DEF Refuse, onDisk, past, HandoffInv, TypeOK, Records, Versions, OneLock, NoWorker
<1>7. InstallsAVersion'
  BY DEF Refuse, onDisk, past, HandoffInv, TypeOK, Records, Versions, InstallsAVersion, NoWorker,
     CountsAgree, Waiting
<1> QED BY <1>1, <1>2, <1>3, <1>4, <1>5, <1>6, <1>7 DEF HandoffInv

LEMMA RecordAttemptStep ==
  ASSUME HandoffInv, NEW w \in Workers, RecordAttempt(w)
  PROVE  HandoffInv'
<1> USE HandoffAssumption
<1>1. RunsInstalled' /\ Streaks' /\ StagingAlone'
  BY DEF RecordAttempt, HandoffInv, RunsInstalled, Streaks, Failures, StagingAlone, Up, Settled
<1>2. TypeOK'
  BY DEF RecordAttempt, HandoffInv, TypeOK, Records, Versions, Phases, WorkerSteps, None,
     CacheIsNewest, Waiting, RunsInstalled, StagingAlone, Up, Settled, ParentGone, OneLock,
     CountsAgree, Counted, OtherCounts, FreshOrDone, Streaks, Failures
<1>3. Bounded'
  BY DEF RecordAttempt, HandoffInv, TypeOK, Records, Versions, Bounded, CacheIsNewest, Waiting,
     None, RunsInstalled, StagingAlone, Up, Settled, ParentGone, OneLock, CountsAgree, Counted,
     OtherCounts, FreshOrDone
<1>4. TriesTyped'
  <2>1. worker[w].record.version \in Versions
    BY DEF RecordAttempt, HandoffInv, TypeOK, Records, Versions, CountsAgree, Waiting
  <2> QED BY <2>1 DEF RecordAttempt, HandoffInv, TypeOK, TriesTyped, Records
<1>5. CacheIsNewest'
  BY DEF RecordAttempt, HandoffInv, TypeOK, Records, Versions, CacheIsNewest, Waiting, None,
     RunsInstalled, StagingAlone, Up, Settled, ParentGone, OneLock, CountsAgree, Counted,
     OtherCounts, FreshOrDone
<1>6. CountsAgree'
  BY DEF RecordAttempt, HandoffInv, TypeOK, Records, Versions, CountsAgree, Counted, Waiting,
     None, CacheIsNewest, RunsInstalled, StagingAlone, Up, Settled, ParentGone, OneLock,
     OtherCounts, FreshOrDone
<1>7. OtherCounts'
  BY DEF RecordAttempt, HandoffInv, TypeOK, Records, Versions, OtherCounts, FreshOrDone, Waiting,
     None, CacheIsNewest, RunsInstalled, StagingAlone, Up, Settled, ParentGone, OneLock,
     CountsAgree, Counted
<1>8. OneLock'
  BY DEF RecordAttempt, HandoffInv, TypeOK, Records, Versions, OneLock
<1>9. InstallsAVersion'
  BY DEF RecordAttempt, HandoffInv, TypeOK, Records, Versions, InstallsAVersion, CountsAgree,
     Waiting
<1> QED BY <1>1, <1>2, <1>3, <1>4, <1>5, <1>6, <1>7, <1>8, <1>9 DEF HandoffInv

LEMMA InstallStep ==
  ASSUME HandoffInv, NEW w \in Workers, Install(w)
  PROVE  HandoffInv'
<1> USE HandoffAssumption
<1>1. Bounded' /\ TriesTyped' /\ RunsInstalled' /\ CacheIsNewest' /\ CountsAgree'
      /\ OneLock' /\ InstallsAVersion'
  BY DEF Install, past, Fault, HandoffInv, Bounded, Up, TriesTyped, RunsInstalled, CacheIsNewest,
     Waiting, CountsAgree, Counted, OneLock, InstallsAVersion
<1>2. TypeOK'
  <2>1. installed' \in Versions /\ faults' \in 0 .. MaxFaults
    <3>1. worker[w].record.version \in 0 .. Latest
      BY DEF HandoffInv, TypeOK, Records
    <3> QED BY <3>1 DEF InstallsAVersion, Install, Fault, HandoffInv, TypeOK, Versions
  <2>9. worker' \in [Workers -> [step : WorkerSteps, parent : Nat, record : Records]]
    BY DEF Install, HandoffInv, TypeOK, WorkerSteps
  <2> QED BY <2>1, <2>9 DEF Install, past, Fault, HandoffInv, TypeOK, Versions
<1>3. Streaks'
  BY DEF Install, past, Fault, HandoffInv, TypeOK, Records, Versions, Streaks, Failures, Phases,
     WorkerSteps
<1>4. OtherCounts'
  BY DEF Install, past, Fault, HandoffInv, TypeOK, Records, Versions, OtherCounts, FreshOrDone,
     Waiting, None, CacheIsNewest, RunsInstalled, StagingAlone, Up, Settled, ParentGone, OneLock,
     CountsAgree, Counted
<1>5. StagingAlone'
  BY DEF Install, past, Fault, HandoffInv, TypeOK, Records, Versions, StagingAlone, Up, Settled,
     ParentGone, None, CacheIsNewest, Waiting, RunsInstalled, OneLock, CountsAgree, Counted,
     OtherCounts, FreshOrDone
<1> QED BY <1>1, <1>2, <1>3, <1>4, <1>5 DEF HandoffInv

LEMMA RelaunchStep ==
  ASSUME HandoffInv, NEW w \in Workers, Relaunch(w)
  PROVE  HandoffInv'
<1> USE HandoffAssumption
<1>1. Bounded' /\ TriesTyped'
  BY DEF Relaunch, onDisk, past, Boot, HandoffInv, Bounded, TriesTyped
<1>2. TypeOK'
  <2>9. worker' \in [Workers -> [step : WorkerSteps, parent : Nat, record : Records]]
    BY DEF Relaunch, HandoffInv, TypeOK, WorkerSteps, NoWorker, None, Records
  <2> QED BY BootTyped, <2>9 DEF Relaunch, onDisk, past, HandoffInv, TypeOK
<1>3. RunsInstalled'
  BY DEF Relaunch, onDisk, past, Boot, HandoffInv, TypeOK, Records, Versions, RunsInstalled, Off
<1>4. Streaks'
  <2>1. CASE app.phase = "off"
    BY <2>1, BootTyped DEF Relaunch, past
  <2>2. CASE app.phase # "off"
    BY <2>2 DEF Relaunch, past, HandoffInv, Streaks, Failures
  <2> QED BY <2>1, <2>2
<1>5. CacheIsNewest'
  BY DEF Relaunch, onDisk, past, Boot, HandoffInv, TypeOK, Records, Versions, CacheIsNewest,
     Waiting, None, NoWorker, Off
<1>6. CountsAgree'
  BY DEF Relaunch, onDisk, past, Boot, HandoffInv, TypeOK, Records, Versions, CountsAgree,
     Counted, Waiting, None, NoWorker
<1>7. OtherCounts'
  BY DEF Relaunch, onDisk, past, Boot, HandoffInv, TypeOK, Records, Versions, OtherCounts,
     FreshOrDone, Waiting, NoWorker, None, RunsInstalled, CacheIsNewest
<1>8. StagingAlone'
  BY DEF Relaunch, onDisk, past, Boot, HandoffInv, TypeOK, Records, Versions, StagingAlone, Up,
     Settled, ParentGone, None, NoWorker, Off
<1>9. OneLock'
  BY DEF Relaunch, onDisk, past, Boot, HandoffInv, TypeOK, Records, Versions, OneLock, NoWorker
<1>10. InstallsAVersion'
  BY DEF Relaunch, onDisk, past, Boot, HandoffInv, TypeOK, Records, Versions, InstallsAVersion,
     NoWorker, CountsAgree, Waiting
<1> QED BY <1>1, <1>2, <1>3, <1>4, <1>5, <1>6, <1>7, <1>8, <1>9, <1>10 DEF HandoffInv

LEMMA GiveUpStep ==
  ASSUME HandoffInv, NEW w \in Workers, GiveUp(w)
  PROVE  HandoffInv'
<1> USE HandoffAssumption
<1>1. Bounded' /\ TriesTyped' /\ RunsInstalled' /\ Streaks' /\ OneLock'
  BY DEF GiveUp, onDisk, past, HandoffInv, Bounded, TriesTyped, RunsInstalled, Streaks, Failures,
     OneLock
<1>2. TypeOK'
  BY DEF GiveUp, onDisk, past, HandoffInv, TypeOK, Records, Versions, Phases, WorkerSteps,
     NoWorker, None, Streaks, Failures
<1>3. CacheIsNewest'
  BY DEF GiveUp, onDisk, past, HandoffInv, TypeOK, Records, Versions, CacheIsNewest, Waiting,
     None, NoWorker
<1>4. CountsAgree'
  BY DEF GiveUp, onDisk, past, HandoffInv, TypeOK, Records, Versions, CountsAgree, Counted,
     Waiting, None, NoWorker
<1>5. OtherCounts'
  BY DEF GiveUp, onDisk, past, HandoffInv, TypeOK, Records, Versions, OtherCounts, FreshOrDone,
     Waiting, NoWorker, None, RunsInstalled, CacheIsNewest
<1>6. StagingAlone'
  BY DEF GiveUp, onDisk, past, HandoffInv, TypeOK, Records, Versions, StagingAlone, Up, Settled,
     ParentGone, None, NoWorker
<1>7. InstallsAVersion'
  BY DEF GiveUp, onDisk, past, HandoffInv, TypeOK, Records, Versions, InstallsAVersion, NoWorker,
     CountsAgree, Waiting
<1> QED BY <1>1, <1>2, <1>3, <1>4, <1>5, <1>6, <1>7 DEF HandoffInv

LEMMA KilledStep ==
  ASSUME HandoffInv, NEW w \in Workers, Killed(w)
  PROVE  HandoffInv'
<1> USE HandoffAssumption
<1>1. Bounded' /\ TriesTyped' /\ RunsInstalled'
  BY DEF Killed, onDisk, Fault, HandoffInv, Bounded, TriesTyped, RunsInstalled
<1>2. TypeOK'
  BY DEF Killed, onDisk, Fault, HandoffInv, TypeOK, Records, Versions, Phases, WorkerSteps,
     NoWorker, None, Streaks, Failures
<1>3. Streaks'
  BY DEF Killed, onDisk, Fault, HandoffInv, TypeOK, Records, Versions, Streaks, Failures, Phases,
     WorkerSteps
<1>4. CacheIsNewest'
  BY DEF Killed, onDisk, Fault, HandoffInv, TypeOK, Records, Versions, CacheIsNewest, Waiting,
     None, NoWorker
<1>5. CountsAgree'
  BY DEF Killed, onDisk, Fault, HandoffInv, TypeOK, Records, Versions, CountsAgree, Counted,
     Waiting, None, NoWorker
<1>6. OtherCounts'
  BY DEF Killed, onDisk, Fault, HandoffInv, TypeOK, Records, Versions, OtherCounts, FreshOrDone,
     Waiting, NoWorker, None, RunsInstalled, CacheIsNewest
<1>7. StagingAlone'
  BY DEF Killed, onDisk, Fault, HandoffInv, TypeOK, Records, Versions, StagingAlone, Up, Settled,
     ParentGone, None, NoWorker
<1>8. OneLock'
  BY DEF Killed, onDisk, Fault, HandoffInv, TypeOK, Records, Versions, OneLock, NoWorker
<1>9. InstallsAVersion'
  BY DEF Killed, onDisk, Fault, HandoffInv, TypeOK, Records, Versions, InstallsAVersion, NoWorker,
     CountsAgree, Waiting
<1> QED BY <1>1, <1>2, <1>3, <1>4, <1>5, <1>6, <1>7, <1>8, <1>9 DEF HandoffInv

\* The invariant holds at first,
LEMMA HandoffInitOK ==
  ASSUME Init
  PROVE  HandoffInv
<1> USE HandoffAssumption
<1>1. TypeOK
  BY DEF Init, Versions, TypeOK, Phases, WorkerSteps, Versions, Records, Off, NoWorker, None,
     Records
<1>2. Bounded
  BY DEF Init, Bounded
<1>3. TriesTyped
  BY DEF Init, TriesTyped
<1>4. RunsInstalled
  BY DEF Init, Versions, RunsInstalled, Off
<1>5. Streaks
  BY DEF Init, Versions, Streaks, Failures, Off
<1>6. CacheIsNewest
  BY DEF Init, Versions, CacheIsNewest, Waiting, Versions, None, NoWorker, Off
<1>7. CountsAgree
  BY DEF Init, Versions, CountsAgree, Counted, Waiting, None, NoWorker
<1>8. OtherCounts
  BY DEF Init, OtherCounts, FreshOrDone, Waiting
<1>9. StagingAlone
  BY DEF Init, StagingAlone, Up, Settled
<1>10. OneLock
  BY DEF Init, Versions, OneLock, NoWorker
<1>11. InstallsAVersion
  BY DEF Init, Versions, InstallsAVersion, NoWorker, CountsAgree, Waiting
<1> QED BY <1>1, <1>2, <1>3, <1>4, <1>5, <1>6, <1>7, <1>8, <1>9, <1>10, <1>11 DEF HandoffInv

\* and every step keeps it.
LEMMA HandoffStepOK ==
  ASSUME HandoffInv, [Next]_vars
  PROVE  HandoffInv'
<1>1. CASE UserStarts
  BY <1>1, UserStartsStep
<1>2. CASE Load
  BY <1>2, LoadStep
<1>3. CASE Acknowledged
  BY <1>3, AcknowledgedStep
<1>4. CASE HandshakeFails
  BY <1>4, HandshakeFailsStep
<1>5. CASE Leave
  BY <1>5, LeaveStep
<1>6. CASE MarkStable
  BY <1>6, MarkStableStep
<1>7. CASE StagingDone
  BY <1>7, StagingDoneStep
<1>8. CASE Close
  BY <1>8, CloseStep
<1>9. CASE ApplyUpdateNow
  BY <1>9, ApplyUpdateNowStep
<1>10. CASE Crash
  BY <1>10, CrashStep
<1>11. ASSUME NEW v \in Versions, NEW a \in BOOLEAN, Downloaded(v, a) PROVE HandoffInv'
  BY <1>11, DownloadedStep
<1>12. ASSUME NEW w \in Workers, HandOver(w) \/ Work(w) \/ GiveUp(w) \/ Killed(w) PROVE HandoffInv'
  BY <1>12, HandOverStep, AcceptStep, RefuseStep, RecordAttemptStep, InstallStep, RelaunchStep,
     GiveUpStep, KilledStep DEF Work
<1>13. CASE UNCHANGED vars
  BY <1>13 DEF HandoffInv, vars, TypeOK, Bounded, TriesTyped, RunsInstalled, Streaks,
     CacheIsNewest, CountsAgree, OtherCounts, StagingAlone, OneLock, InstallsAVersion, Failures,
     Counted, FreshOrDone, Waiting, Settled, ParentGone, Up
<1> QED BY <1>1, <1>2, <1>3, <1>4, <1>5, <1>6, <1>7, <1>8, <1>9, <1>10, <1>11, <1>12, <1>13 DEF Next

\* Whatever the number of workers and versions, no version is tried more often
\* than allowed between two retries of the user (AttemptsAreBounded).
THEOREM AttemptsStayBounded == Spec => []AttemptsAreBounded
<1>1. HandoffInv => AttemptsAreBounded
  BY DEF HandoffInv, AttemptsAreBounded, Bounded
<1> QED BY HandoffInitOK, HandoffStepOK, <1>1, PTL DEF Spec

\* A start is safe exactly when enough starts in a row have crashed before they
\* were stable, however updates are handed over (SafeAfterCrashesOnly).
THEOREM SafeModeIsEarned == Spec => []SafeAfterCrashesOnly
<1>1. HandoffInv => SafeAfterCrashesOnly
  BY DEF HandoffInv, SafeAfterCrashesOnly, Streaks
<1> QED BY HandoffInitOK, HandoffStepOK, <1>1, PTL DEF Spec

-----------------------------------------------------------------------------
(* The external updater.                                                    *)

\* What a run that is under way does with the items and files of its lists.
LEMMA ListsTyped ==
  /\ Len(Payload) \in Nat /\ Len(Items) \in Nat
  /\ \A n \in Nat \ {0} : n <= Len(Payload) => Payload[n] \in Elements(Payload)
  /\ \A n \in Nat \ {0} : n <= Len(Items) => Items[n] \in Data
  /\ Elements(Payload) \subseteq Files /\ "version.json" \in Files
<1>1. Payload \in Seq(STRING) /\ Items \in Seq(STRING)
  BY UpdaterAssumption
<1>2. Len(Payload) \in Nat /\ Len(Items) \in Nat
  BY <1>1
<1>3. \A n \in Nat \ {0} : n <= Len(Payload) => Payload[n] \in Elements(Payload)
  BY <1>2 DEF Elements
<1>4. \A n \in Nat \ {0} : n <= Len(Items) => Items[n] \in Data
  BY <1>2 DEF Elements, Data
<1> QED BY <1>2, <1>3, <1>4 DEF Files

\* A file is being copied, or an item, only inside its list.
InList ==
    /\ run.step = "aside" => run.next <= Len(Payload)
    /\ run.step = "replaced" => run.next <= Len(Items)
    /\ run.undone => run.step = "idle"

\* A dry run changes nothing.
DryOK ==
    run.dry => /\ run.step \in {"idle", "close", "locks", "copy"}
               /\ install = before /\ stuck = {}

\* The files of the list up to here are the bundle's.
CopiedOK ==
    /\ run.step \in {"copy", "aside"} /\ ~run.dry =>
         \A n \in 1 .. run.next - 1 : install[Payload[n]] = "new"
    /\ run.step = "stamp" => \A f \in Elements(Payload) : install[f] = "new"

\* Every runtime file has the bundle's bytes.
Stamped == \A f \in Elements(Payload) :
    install[f] \in {"new"} \cup (IF f = "version.json" THEN {"stamp"} ELSE {})

\* What is reported is there.
ReportOK ==
    run.step = "verify" \/ run.result \in {"AlreadyCurrent", "Updated", "Repaired"} => Stamped

\* The steps after the backup, which may change the installation.
Changing == {"copy", "aside", "stamp", "undo", "verify"}

\* A file set aside is as it was found, a new one was not there, another one is
\* untouched; and before a file is set aside it is untouched.
AsideOK ==
    ~run.dry => \A f \in Files \ {"version.json"} :
      /\ run.step \in Changing =>
           /\ saved[f] # "none" => saved[f] = before[f]
           /\ f \in run.fresh => /\ before[f] = "none" /\ saved[f] = "none"
                                 /\ install[f] \in {"none", "new"}
           /\ saved[f] = "none" /\ f \notin run.fresh => install[f] = before[f]
      /\ run.step \in {"copy", "aside"} /\ (saved[f] # "none" \/ f \in run.fresh) =>
           install[f] = "new" \/ (run.step = "aside" /\ f = File)
      /\ run.step = "aside" /\ f = File => saved[f] # "none" \/ f \in run.fresh
      /\ run.step \in {"close", "locks", "migrate", "replaced", "backup"} =>
           saved[f] = "none" /\ f \notin run.fresh /\ install[f] = before[f]
      /\ run.undone => IF f \in stuck THEN before[f] = "none" /\ install[f] = "new"
                       ELSE install[f] = before[f]

\* Once the backup is made it has the critical items as they are.
BackupOK ==
    run.step \in Changing /\ ~run.dry => \A i \in Critical : backup[i] = data[i]

\* The item being replaced was not the user's, and is kept if there was one.
ReplaceOK ==
    run.step = "replaced" => data[Item] = "none" \/ (data[Item] = "blank" /\ Item \in kept)

\* The inductive invariant of the updater.
Rest == InList /\ DryOK /\ CopiedOK /\ ReportOK /\ AsideOK /\ BackupOK /\ ReplaceOK

UpdaterInv == UpdaterTypeOK /\ Rest

\* A run that goes on, field by field.
Ran(step, next, fresh, result, undone) ==
    [step |-> step, force |-> run.force, dry |-> run.dry, kind |-> run.kind,
     next |-> next, fresh |-> fresh, result |-> result, undone |-> undone]

\* Such a run is of its type.
LEMMA RanTyped ==
  ASSUME run \in Runs, NEW step \in Steps, NEW next \in Nat \ {0}, NEW fresh \in SUBSET Files,
         NEW result \in Results, NEW undone \in BOOLEAN
  PROVE  Ran(step, next, fresh, result, undone) \in Runs
BY DEF Ran, Runs

\* One field changed.
LEMMA RanField ==
  ASSUME NEW s, NEW n, NEW f, NEW r, NEW u, NEW x
  PROVE  /\ [Ran(s, n, f, r, u) EXCEPT !.step = x] = Ran(x, n, f, r, u)
         /\ [Ran(s, n, f, r, u) EXCEPT !.next = x] = Ran(s, x, f, r, u)
         /\ [Ran(s, n, f, r, u) EXCEPT !.fresh = x] = Ran(s, n, x, r, u)
         /\ [Ran(s, n, f, r, u) EXCEPT !.result = x] = Ran(s, n, f, x, u)
         /\ [Ran(s, n, f, r, u) EXCEPT !.undone = x] = Ran(s, n, f, r, x)
         /\ Ran(s, n, f, r, u).next = n
BY DEF Ran

\* The forms in which the actions change the run.
LEMMA RunMoves ==
  ASSUME run \in Runs
  PROVE  /\ run.step \in Steps /\ run.next \in Nat \ {0} /\ run.fresh \in SUBSET Files
         /\ run.result \in Results /\ run.undone \in BOOLEAN /\ run.dry \in BOOLEAN
         /\ \A step : [run EXCEPT !.step = step, !.next = 1]
              = Ran(step, 1, run.fresh, run.result, run.undone)
         /\ \A step, result : [run EXCEPT !.step = step, !.result = result]
              = Ran(step, run.next, run.fresh, result, run.undone)
         /\ [run EXCEPT !.next = @ + 1]
              = Ran(run.step, run.next + 1, run.fresh, run.result, run.undone)
         /\ \A step : [run EXCEPT !.step = step]
              = Ran(step, run.next, run.fresh, run.result, run.undone)
         /\ \A step : [run EXCEPT !.step = step, !.next = @ + 1]
              = Ran(step, run.next + 1, run.fresh, run.result, run.undone)
         /\ \A step, next, fresh : [run EXCEPT !.step = step, !.next = next, !.fresh = fresh]
              = Ran(step, next, fresh, run.result, run.undone)
         /\ \A step, fresh : [run EXCEPT !.step = step, !.fresh = fresh]
              = Ran(step, run.next, fresh, run.result, run.undone)
         /\ \A step, result, undone :
              [run EXCEPT !.step = step, !.result = result, !.undone = undone]
              = Ran(step, run.next, run.fresh, result, undone)
<1>1. /\ run.step \in Steps /\ run.next \in Nat \ {0} /\ run.fresh \in SUBSET Files
      /\ run.result \in Results /\ run.undone \in BOOLEAN /\ run.dry \in BOOLEAN
  BY DEF Runs
<1>2. run = Ran(run.step, run.next, run.fresh, run.result, run.undone)
  BY DEF Runs, Ran
<1>3. \A step : [run EXCEPT !.step = step, !.next = 1]
              = Ran(step, 1, run.fresh, run.result, run.undone)
  <2> TAKE step
  <2>1. [run EXCEPT !.step = step]
         = Ran(step, run.next, run.fresh, run.result, run.undone)
    BY <1>2, RanField
  <2>2. [Ran(step, run.next, run.fresh, run.result, run.undone) EXCEPT !.next = 1]
         = Ran(step, 1, run.fresh, run.result, run.undone)
    BY RanField
  <2>3. [run EXCEPT !.step = step, !.next = 1]
         = [[run EXCEPT !.step = step] EXCEPT !.next = 1]
    OBVIOUS
  <2> QED BY ONLY <2>1, <2>2, <2>3
<1>4. \A step, result : [run EXCEPT !.step = step, !.result = result]
              = Ran(step, run.next, run.fresh, result, run.undone)
  <2> TAKE step, result
  <2>1. [run EXCEPT !.step = step]
         = Ran(step, run.next, run.fresh, run.result, run.undone)
    BY <1>2, RanField
  <2>2. [Ran(step, run.next, run.fresh, run.result, run.undone) EXCEPT !.result = result]
         = Ran(step, run.next, run.fresh, result, run.undone)
    BY RanField
  <2>3. [run EXCEPT !.step = step, !.result = result]
         = [[run EXCEPT !.step = step] EXCEPT !.result = result]
    OBVIOUS
  <2> QED BY ONLY <2>1, <2>2, <2>3
<1>5. [run EXCEPT !.next = @ + 1]
              = Ran(run.step, run.next + 1, run.fresh, run.result, run.undone)
  BY <1>2, RanField
<1>6. \A step : [run EXCEPT !.step = step]
              = Ran(step, run.next, run.fresh, run.result, run.undone)
  BY <1>2, RanField
<1>7. \A step : [run EXCEPT !.step = step, !.next = @ + 1]
              = Ran(step, run.next + 1, run.fresh, run.result, run.undone)
  <2> TAKE step
  <2>1. [run EXCEPT !.step = step]
         = Ran(step, run.next, run.fresh, run.result, run.undone)
    BY <1>2, RanField
  <2>2. [Ran(step, run.next, run.fresh, run.result, run.undone) EXCEPT !.next = run.next + 1]
         = Ran(step, run.next + 1, run.fresh, run.result, run.undone)
    BY RanField
  <2>3. [run EXCEPT !.step = step, !.next = @ + 1]
         = [[run EXCEPT !.step = step] EXCEPT !.next = run.next + 1]
    OBVIOUS
  <2> QED BY ONLY <2>1, <2>2, <2>3
<1>8. \A step, next, fresh : [run EXCEPT !.step = step, !.next = next, !.fresh = fresh]
              = Ran(step, next, fresh, run.result, run.undone)
  <2> TAKE step, next, fresh
  <2>1. [run EXCEPT !.step = step]
         = Ran(step, run.next, run.fresh, run.result, run.undone)
    BY <1>2, RanField
  <2>2. [Ran(step, run.next, run.fresh, run.result, run.undone) EXCEPT !.next = next]
         = Ran(step, next, run.fresh, run.result, run.undone)
    BY RanField
  <2>3. [Ran(step, next, run.fresh, run.result, run.undone) EXCEPT !.fresh = fresh]
         = Ran(step, next, fresh, run.result, run.undone)
    BY ONLY DEF Ran
  <2>4. [run EXCEPT !.step = step, !.next = next, !.fresh = fresh]
         = [[[run EXCEPT !.step = step] EXCEPT !.next = next] EXCEPT !.fresh = fresh]
    OBVIOUS
  <2> QED BY ONLY <2>1, <2>2, <2>3, <2>4
<1>9. \A step, fresh : [run EXCEPT !.step = step, !.fresh = fresh]
              = Ran(step, run.next, fresh, run.result, run.undone)
  <2> TAKE step, fresh
  <2>1. [run EXCEPT !.step = step]
         = Ran(step, run.next, run.fresh, run.result, run.undone)
    BY <1>2, RanField
  <2>2. [Ran(step, run.next, run.fresh, run.result, run.undone) EXCEPT !.fresh = fresh]
         = Ran(step, run.next, fresh, run.result, run.undone)
    BY ONLY DEF Ran
  <2>3. [run EXCEPT !.step = step, !.fresh = fresh]
         = [[run EXCEPT !.step = step] EXCEPT !.fresh = fresh]
    OBVIOUS
  <2> QED BY ONLY <2>1, <2>2, <2>3
<1>10. \A step, result, undone :
              [run EXCEPT !.step = step, !.result = result, !.undone = undone]
              = Ran(step, run.next, run.fresh, result, undone)
  <2> TAKE step, result, undone
  <2>1. [run EXCEPT !.step = step]
         = Ran(step, run.next, run.fresh, run.result, run.undone)
    BY <1>2, RanField
  <2>2. [Ran(step, run.next, run.fresh, run.result, run.undone) EXCEPT !.result = result]
         = Ran(step, run.next, run.fresh, result, run.undone)
    BY RanField
  <2>3. [Ran(step, run.next, run.fresh, result, run.undone) EXCEPT !.undone = undone]
         = Ran(step, run.next, run.fresh, result, undone)
    BY ONLY DEF Ran
  <2>4. [run EXCEPT !.step = step, !.result = result, !.undone = undone]
         = [[[run EXCEPT !.step = step] EXCEPT !.result = result] EXCEPT !.undone = undone]
    OBVIOUS
  <2> QED BY ONLY <2>1, <2>2, <2>3, <2>4
<1> QED BY <1>1, <1>3, <1>4, <1>5, <1>6, <1>7, <1>8, <1>9, <1>10

\* A run that ends without a report of success, having changed no file if it is
\* a dry one, leaves nothing more to hold.
LEMMA Ends ==
  ASSUME UpdaterInv, NEW result \in {"failed", "DryRun"}, before' = before,
         run' = Ran("idle", run.next, run.fresh, result, run.undone),
         run.dry => install' = install, stuck' = stuck, run.step # "idle"
  PROVE  Rest' /\ run' \in Runs
<1> USE UpdaterAssumption
<1>1. run \in Runs /\ run.next \in Nat \ {0} /\ run.fresh \in SUBSET Files
      /\ run.undone \in BOOLEAN
  BY RunMoves DEF UpdaterInv, UpdaterTypeOK
<1>2. run'.step = "idle" /\ run'.result = result /\ run'.undone = run.undone /\ run'.dry = run.dry
  BY DEF Ran
<1>3. run' \in Runs
  BY <1>1, RanTyped DEF Steps, Results
<1> QED
  BY <1>2, <1>3 DEF UpdaterInv, Rest, InList, DryOK, CopiedOK, ReportOK, AsideOK, Changing,
     BackupOK, ReplaceOK

\* One lemma for each action: the cases of the run's next step, and for each what
\* is left of the invariant to show.
LEMMA CloseVastKeeps ==
  ASSUME UpdaterInv, CloseVast
  PROVE  UpdaterInv'
<1> USE UpdaterAssumption, ListsTyped
<1>1. /\ UpdaterTypeOK /\ run \in Runs /\ run.step \in Steps /\ run.next \in Nat \ {0}
      /\ run.fresh \in SUBSET Files /\ run.result \in Results /\ run.undone \in BOOLEAN
      /\ run.dry \in BOOLEAN
  BY RunMoves DEF UpdaterInv, UpdaterTypeOK
<1>2. run.step = "close" /\ UNCHANGED <<install, saved, before, stuck, data, kept, backup>>
  BY <1>1 DEF CloseVast, outside, runtime, userData
<1>3. \/ run' = Ran("idle", run.next, run.fresh, "failed", run.undone)
      \/ run' = Ran("locks", 1, run.fresh, run.result, run.undone)
  BY <1>1, RunMoves DEF CloseVast, Goto, Stop
<1>4. ASSUME run' = Ran("idle", run.next, run.fresh, "failed", run.undone)
     PROVE  Rest' /\ run' \in Runs
  BY <1>2, <1>4, Ends
<1>5. ASSUME run' = Ran("locks", 1, run.fresh, run.result, run.undone)
     PROVE  Rest' /\ run' \in Runs
  <2>1. /\ run'.step = "locks" /\ run'.next = 1 /\ run'.fresh = run.fresh
        /\ run'.result = run.result /\ run'.undone = run.undone /\ run'.dry = run.dry
    BY <1>5 DEF Ran
  <2>2. run' \in Runs
    BY <1>1, <1>2, <1>5 DEF Ran, Runs, Steps, Results
  <2>3. InList' /\ DryOK' /\ CopiedOK' /\ ReportOK' /\ AsideOK' /\ BackupOK' /\ ReplaceOK'
    BY <1>1, <1>2, <1>5, <2>1 DEF UpdaterInv, UpdaterTypeOK, Rest, InList, DryOK, CopiedOK,
       ReportOK, Stamped, AsideOK, Changing, File, BackupOK, ReplaceOK, Item
  <2> QED BY <2>2, <2>3 DEF Rest
<1>6. Rest' /\ run' \in Runs
  BY <1>3, <1>4, <1>5
<1>7. /\ install' \in [Files -> Bytes] /\ saved' \in [Files -> Bytes]
      /\ before' \in [Files -> Bytes]
  BY <1>1, <1>2 DEF UpdaterTypeOK, Bytes, CloseVast, outside, runtime, userData
<1>8. data' \in [Data -> Contents] /\ backup' \in [Data -> Contents] /\ kept' \in SUBSET Data
  BY <1>1, <1>2 DEF UpdaterInv, UpdaterTypeOK, Contents, CloseVast, outside, runtime, userData,
     Rest, InList, Item
<1>9. /\ bundle' \in {"none", "good", "damaged", "ready"} /\ legacy' \in [Data -> Contents]
      /\ registry' \in {"none", "old", "new"} /\ browser' \in BOOLEAN
      /\ runs' \in 0 .. MaxRuns /\ failures' \in 0 .. MaxFailures
      /\ stuck' \in SUBSET Files
  BY <1>1 DEF UpdaterTypeOK, CloseVast, outside, runtime, userData
<1>10. run'.result # "none" => run'.step = "idle"
  BY <1>1, <1>2, <1>3 DEF UpdaterTypeOK, Ran
<1> QED BY <1>6, <1>7, <1>8, <1>9, <1>10 DEF UpdaterInv, UpdaterTypeOK

LEMMA TestLocksKeeps ==
  ASSUME UpdaterInv, TestLocks
  PROVE  UpdaterInv'
<1> USE UpdaterAssumption, ListsTyped
<1>1. /\ UpdaterTypeOK /\ run \in Runs /\ run.step \in Steps /\ run.next \in Nat \ {0}
      /\ run.fresh \in SUBSET Files /\ run.result \in Results /\ run.undone \in BOOLEAN
      /\ run.dry \in BOOLEAN
  BY RunMoves DEF UpdaterInv, UpdaterTypeOK
<1>2. run.step = "locks" /\ UNCHANGED <<install, saved, before, stuck, data, kept, backup>>
  BY <1>1 DEF TestLocks, outside, runtime, userData
<1>3. \/ run' = Ran("idle", run.next, run.fresh, "failed", run.undone)
      \/ /\ run' = Ran("copy", 1, run.fresh, run.result, run.undone)
         /\ run.dry
      \/ /\ run' = Ran("migrate", 1, run.fresh, run.result, run.undone)
         /\ ~run.dry
  BY <1>1, RunMoves DEF TestLocks, Goto, Stop
<1>4. ASSUME run' = Ran("idle", run.next, run.fresh, "failed", run.undone)
     PROVE  Rest' /\ run' \in Runs
  BY <1>2, <1>4, Ends
<1>5. ASSUME run' = Ran("copy", 1, run.fresh, run.result, run.undone)
      /\ run.dry
     PROVE  Rest' /\ run' \in Runs
  <2>1. /\ run'.step = "copy" /\ run'.next = 1 /\ run'.fresh = run.fresh
        /\ run'.result = run.result /\ run'.undone = run.undone /\ run'.dry = run.dry
    BY <1>5 DEF Ran
  <2>2. run' \in Runs
    BY <1>1, <1>2, <1>5 DEF Ran, Runs, Steps, Results
  <2>3. InList' /\ DryOK' /\ CopiedOK' /\ ReportOK' /\ AsideOK' /\ BackupOK' /\ ReplaceOK'
    BY <1>1, <1>2, <1>5, <2>1 DEF UpdaterInv, UpdaterTypeOK, Rest, InList, DryOK, CopiedOK,
       ReportOK, Stamped, AsideOK, Changing, File, BackupOK, ReplaceOK, Item
  <2> QED BY <2>2, <2>3 DEF Rest
<1>6. ASSUME run' = Ran("migrate", 1, run.fresh, run.result, run.undone)
      /\ ~run.dry
     PROVE  Rest' /\ run' \in Runs
  <2>1. /\ run'.step = "migrate" /\ run'.next = 1 /\ run'.fresh = run.fresh
        /\ run'.result = run.result /\ run'.undone = run.undone /\ run'.dry = run.dry
    BY <1>6 DEF Ran
  <2>2. run' \in Runs
    BY <1>1, <1>2, <1>6 DEF Ran, Runs, Steps, Results
  <2>3. InList' /\ DryOK' /\ CopiedOK' /\ ReportOK' /\ AsideOK' /\ BackupOK' /\ ReplaceOK'
    BY <1>1, <1>2, <1>6, <2>1 DEF UpdaterInv, UpdaterTypeOK, Rest, InList, DryOK, CopiedOK,
       ReportOK, Stamped, AsideOK, Changing, File, BackupOK, ReplaceOK, Item
  <2> QED BY <2>2, <2>3 DEF Rest
<1>7. Rest' /\ run' \in Runs
  BY <1>3, <1>4, <1>5, <1>6
<1>8. /\ install' \in [Files -> Bytes] /\ saved' \in [Files -> Bytes]
      /\ before' \in [Files -> Bytes]
  BY <1>1, <1>2 DEF UpdaterTypeOK, Bytes, TestLocks, outside, runtime, userData
<1>9. data' \in [Data -> Contents] /\ backup' \in [Data -> Contents] /\ kept' \in SUBSET Data
  BY <1>1, <1>2 DEF UpdaterInv, UpdaterTypeOK, Contents, TestLocks, outside, runtime, userData,
     Rest, InList, Item
<1>10. /\ bundle' \in {"none", "good", "damaged", "ready"} /\ legacy' \in [Data -> Contents]
      /\ registry' \in {"none", "old", "new"} /\ browser' \in BOOLEAN
      /\ runs' \in 0 .. MaxRuns /\ failures' \in 0 .. MaxFailures
      /\ stuck' \in SUBSET Files
  BY <1>1 DEF UpdaterTypeOK, TestLocks, outside, runtime, userData
<1>11. run'.result # "none" => run'.step = "idle"
  BY <1>1, <1>2, <1>3 DEF UpdaterTypeOK, Ran
<1> QED BY <1>7, <1>8, <1>9, <1>10, <1>11 DEF UpdaterInv, UpdaterTypeOK

LEMMA MigrateItemKeeps ==
  ASSUME UpdaterInv, MigrateItem
  PROVE  UpdaterInv'
<1> USE UpdaterAssumption, ListsTyped
<1>1. /\ UpdaterTypeOK /\ run \in Runs /\ run.step \in Steps /\ run.next \in Nat \ {0}
      /\ run.fresh \in SUBSET Files /\ run.result \in Results /\ run.undone \in BOOLEAN
      /\ run.dry \in BOOLEAN
  BY RunMoves DEF UpdaterInv, UpdaterTypeOK
<1>2. /\ run.step = "migrate" /\ run.next <= Len(Items)
      /\ UNCHANGED <<install, saved, before, stuck, backup>>
  BY <1>1 DEF MigrateItem, outside, runtime
<1>3. \/ /\ run' = Ran(run.step, run.next + 1, run.fresh, run.result, run.undone)
         /\ UNCHANGED <<data, kept>>
      \/ /\ run' = Ran("replaced", run.next, run.fresh, run.result, run.undone)
         /\ data[Item] \in {"none", "blank"}
         /\ kept' = (IF data[Item] = "none" THEN kept ELSE kept \cup {Item})
         /\ data' = [data EXCEPT ![Item] = IF Item \in Folders THEN "none" ELSE @]
  BY <1>1, RunMoves DEF MigrateItem, Continue, HasContent, UpdaterTypeOK, Contents, outside, runtime
<1>4. ASSUME run' = Ran(run.step, run.next + 1, run.fresh, run.result, run.undone)
      /\ UNCHANGED <<data, kept>>
     PROVE  Rest' /\ run' \in Runs
  <2>1. /\ run'.step = run.step /\ run'.next = run.next + 1 /\ run'.fresh = run.fresh
        /\ run'.result = run.result /\ run'.undone = run.undone /\ run'.dry = run.dry
    BY <1>4 DEF Ran
  <2>2. run' \in Runs
    BY <1>1, <1>2, <1>4 DEF Ran, Runs, Steps, Results
  <2>3. InList' /\ DryOK' /\ CopiedOK' /\ ReportOK' /\ AsideOK' /\ BackupOK' /\ ReplaceOK'
    BY <1>1, <1>2, <1>4, <2>1 DEF UpdaterInv, UpdaterTypeOK, Rest, InList, DryOK, CopiedOK,
       ReportOK, Stamped, AsideOK, Changing, File, BackupOK, ReplaceOK, Item
  <2> QED BY <2>2, <2>3 DEF Rest
<1>5. ASSUME run' = Ran("replaced", run.next, run.fresh, run.result, run.undone)
      /\ data[Item] \in {"none", "blank"}
      /\ kept' = (IF data[Item] = "none" THEN kept ELSE kept \cup {Item})
      /\ data' = [data EXCEPT ![Item] = IF Item \in Folders THEN "none" ELSE @]
     PROVE  Rest' /\ run' \in Runs
  <2>1. /\ run'.step = "replaced" /\ run'.next = run.next /\ run'.fresh = run.fresh
        /\ run'.result = run.result /\ run'.undone = run.undone /\ run'.dry = run.dry
    BY <1>5 DEF Ran
  <2>2. run' \in Runs
    BY <1>1, <1>2, <1>5 DEF Ran, Runs, Steps, Results
  <2>3. InList' /\ DryOK' /\ CopiedOK' /\ ReportOK' /\ AsideOK' /\ BackupOK' /\ ReplaceOK'
    BY <1>1, <1>2, <1>5, <2>1 DEF UpdaterInv, UpdaterTypeOK, Rest, InList, DryOK, CopiedOK,
       ReportOK, Stamped, AsideOK, Changing, File, BackupOK, ReplaceOK, Item
  <2> QED BY <2>2, <2>3 DEF Rest
<1>6. Rest' /\ run' \in Runs
  BY <1>3, <1>4, <1>5
<1>7. /\ install' \in [Files -> Bytes] /\ saved' \in [Files -> Bytes]
      /\ before' \in [Files -> Bytes]
  BY <1>1, <1>2 DEF UpdaterTypeOK, Bytes, MigrateItem, outside, runtime
<1>8. data' \in [Data -> Contents] /\ backup' \in [Data -> Contents] /\ kept' \in SUBSET Data
  <2>1. Item \in Data
    BY <1>1, <1>2 DEF Item
  <2>2. \A left \in Contents : [data EXCEPT ![Item] = left] \in [Data -> Contents]
    BY <1>1 DEF UpdaterTypeOK
  <2>3. data[Item] \in Contents /\ "none" \in Contents
    BY <1>1, <2>1 DEF UpdaterTypeOK, Contents
  <2> QED BY <1>1, <1>2, <1>3, <2>1, <2>2, <2>3 DEF UpdaterTypeOK
<1>9. /\ bundle' \in {"none", "good", "damaged", "ready"} /\ legacy' \in [Data -> Contents]
      /\ registry' \in {"none", "old", "new"} /\ browser' \in BOOLEAN
      /\ runs' \in 0 .. MaxRuns /\ failures' \in 0 .. MaxFailures
      /\ stuck' \in SUBSET Files
  BY <1>1 DEF UpdaterTypeOK, MigrateItem, outside, runtime
<1>10. run'.result # "none" => run'.step = "idle"
  BY <1>1, <1>2, <1>3 DEF UpdaterTypeOK, Ran
<1> QED BY <1>6, <1>7, <1>8, <1>9, <1>10 DEF UpdaterInv, UpdaterTypeOK

LEMMA CopyItemKeeps ==
  ASSUME UpdaterInv, CopyItem
  PROVE  UpdaterInv'
<1> USE UpdaterAssumption, ListsTyped
<1>1. /\ UpdaterTypeOK /\ run \in Runs /\ run.step \in Steps /\ run.next \in Nat \ {0}
      /\ run.fresh \in SUBSET Files /\ run.result \in Results /\ run.undone \in BOOLEAN
      /\ run.dry \in BOOLEAN
  BY RunMoves DEF UpdaterInv, UpdaterTypeOK
<1>2. run.step = "replaced" /\ data' = [data EXCEPT ![Item] = legacy[Item]]
      /\ UNCHANGED <<install, saved, before, stuck, kept, backup>>
  BY <1>1 DEF CopyItem, outside, runtime
<1>3. run' = Ran("migrate", run.next + 1, run.fresh, run.result, run.undone)
  BY <1>1, RunMoves DEF CopyItem
<1>4. ASSUME run' = Ran("migrate", run.next + 1, run.fresh, run.result, run.undone)
     PROVE  Rest' /\ run' \in Runs
  <2>1. /\ run'.step = "migrate" /\ run'.next = run.next + 1 /\ run'.fresh = run.fresh
        /\ run'.result = run.result /\ run'.undone = run.undone /\ run'.dry = run.dry
    BY <1>4 DEF Ran
  <2>2. run' \in Runs
    BY <1>1, <1>2, <1>4 DEF Ran, Runs, Steps, Results
  <2>3. InList' /\ DryOK' /\ CopiedOK' /\ ReportOK' /\ AsideOK' /\ BackupOK' /\ ReplaceOK'
    BY <1>1, <1>2, <1>4, <2>1 DEF UpdaterInv, UpdaterTypeOK, Rest, InList, DryOK, CopiedOK,
       ReportOK, Stamped, AsideOK, Changing, File, BackupOK, ReplaceOK, Item
  <2> QED BY <2>2, <2>3 DEF Rest
<1>5. Rest' /\ run' \in Runs
  BY <1>3, <1>4
<1>6. /\ install' \in [Files -> Bytes] /\ saved' \in [Files -> Bytes]
      /\ before' \in [Files -> Bytes]
  BY <1>1, <1>2 DEF UpdaterTypeOK, Bytes, CopyItem, outside, runtime
<1>7. data' \in [Data -> Contents] /\ backup' \in [Data -> Contents] /\ kept' \in SUBSET Data
  BY <1>1, <1>2 DEF UpdaterInv, UpdaterTypeOK, Contents, CopyItem, outside, runtime, Rest, InList,
     Item
<1>8. /\ bundle' \in {"none", "good", "damaged", "ready"} /\ legacy' \in [Data -> Contents]
      /\ registry' \in {"none", "old", "new"} /\ browser' \in BOOLEAN
      /\ runs' \in 0 .. MaxRuns /\ failures' \in 0 .. MaxFailures
      /\ stuck' \in SUBSET Files
  BY <1>1 DEF UpdaterTypeOK, CopyItem, outside, runtime
<1>9. run'.result # "none" => run'.step = "idle"
  BY <1>1, <1>2, <1>3 DEF UpdaterTypeOK, Ran
<1> QED BY <1>5, <1>6, <1>7, <1>8, <1>9 DEF UpdaterInv, UpdaterTypeOK

LEMMA CopyItemFailsKeeps ==
  ASSUME UpdaterInv, CopyItemFails
  PROVE  UpdaterInv'
<1> USE UpdaterAssumption, ListsTyped
<1>1. /\ UpdaterTypeOK /\ run \in Runs /\ run.step \in Steps /\ run.next \in Nat \ {0}
      /\ run.fresh \in SUBSET Files /\ run.result \in Results /\ run.undone \in BOOLEAN
      /\ run.dry \in BOOLEAN
  BY RunMoves DEF UpdaterInv, UpdaterTypeOK
<1>2. run.step = "replaced" /\ UNCHANGED <<install, saved, before, stuck, kept, backup>>
  BY <1>1 DEF CopyItemFails, outside, runtime
<1>3. run' = Ran("idle", run.next, run.fresh, "failed", run.undone)
  BY <1>1, RunMoves DEF CopyItemFails, Stop
<1>4. ASSUME run' = Ran("idle", run.next, run.fresh, "failed", run.undone)
     PROVE  Rest' /\ run' \in Runs
  BY <1>2, <1>4, Ends
<1>5. Rest' /\ run' \in Runs
  BY <1>3, <1>4
<1>6. /\ install' \in [Files -> Bytes] /\ saved' \in [Files -> Bytes]
      /\ before' \in [Files -> Bytes]
  BY <1>1, <1>2 DEF UpdaterTypeOK, Bytes, CopyItemFails, outside, runtime
<1>7. data' \in [Data -> Contents] /\ backup' \in [Data -> Contents] /\ kept' \in SUBSET Data
  BY <1>1, <1>2 DEF UpdaterInv, UpdaterTypeOK, Contents, CopyItemFails, outside, runtime, Rest,
     InList, Item
<1>8. /\ bundle' \in {"none", "good", "damaged", "ready"} /\ legacy' \in [Data -> Contents]
      /\ registry' \in {"none", "old", "new"} /\ browser' \in BOOLEAN
      /\ runs' \in 0 .. MaxRuns /\ failures' \in 0 .. MaxFailures
      /\ stuck' \in SUBSET Files
  BY <1>1 DEF UpdaterTypeOK, CopyItemFails, outside, runtime, Failure
<1>9. run'.result # "none" => run'.step = "idle"
  BY <1>1, <1>2, <1>3 DEF UpdaterTypeOK, Ran
<1> QED BY <1>5, <1>6, <1>7, <1>8, <1>9 DEF UpdaterInv, UpdaterTypeOK

LEMMA MigratedKeeps ==
  ASSUME UpdaterInv, Migrated
  PROVE  UpdaterInv'
<1> USE UpdaterAssumption, ListsTyped
<1>1. /\ UpdaterTypeOK /\ run \in Runs /\ run.step \in Steps /\ run.next \in Nat \ {0}
      /\ run.fresh \in SUBSET Files /\ run.result \in Results /\ run.undone \in BOOLEAN
      /\ run.dry \in BOOLEAN
  BY RunMoves DEF UpdaterInv, UpdaterTypeOK
<1>2. run.step = "migrate" /\ UNCHANGED <<install, saved, before, stuck, data, kept, backup>>
  BY <1>1 DEF Migrated, outside, runtime, userData
<1>3. run' = Ran("backup", 1, run.fresh, run.result, run.undone)
  BY <1>1, RunMoves DEF Migrated, Goto
<1>4. ASSUME run' = Ran("backup", 1, run.fresh, run.result, run.undone)
     PROVE  Rest' /\ run' \in Runs
  <2>1. /\ run'.step = "backup" /\ run'.next = 1 /\ run'.fresh = run.fresh
        /\ run'.result = run.result /\ run'.undone = run.undone /\ run'.dry = run.dry
    BY <1>4 DEF Ran
  <2>2. run' \in Runs
    BY <1>1, <1>2, <1>4 DEF Ran, Runs, Steps, Results
  <2>3. InList' /\ DryOK' /\ CopiedOK' /\ ReportOK' /\ AsideOK' /\ BackupOK' /\ ReplaceOK'
    BY <1>1, <1>2, <1>4, <2>1 DEF UpdaterInv, UpdaterTypeOK, Rest, InList, DryOK, CopiedOK,
       ReportOK, Stamped, AsideOK, Changing, File, BackupOK, ReplaceOK, Item
  <2> QED BY <2>2, <2>3 DEF Rest
<1>5. Rest' /\ run' \in Runs
  BY <1>3, <1>4
<1>6. /\ install' \in [Files -> Bytes] /\ saved' \in [Files -> Bytes]
      /\ before' \in [Files -> Bytes]
  BY <1>1, <1>2 DEF UpdaterTypeOK, Bytes, Migrated, outside, runtime, userData
<1>7. data' \in [Data -> Contents] /\ backup' \in [Data -> Contents] /\ kept' \in SUBSET Data
  BY <1>1, <1>2 DEF UpdaterInv, UpdaterTypeOK, Contents, Migrated, outside, runtime, userData,
     Rest, InList, Item
<1>8. /\ bundle' \in {"none", "good", "damaged", "ready"} /\ legacy' \in [Data -> Contents]
      /\ registry' \in {"none", "old", "new"} /\ browser' \in BOOLEAN
      /\ runs' \in 0 .. MaxRuns /\ failures' \in 0 .. MaxFailures
      /\ stuck' \in SUBSET Files
  BY <1>1 DEF UpdaterTypeOK, Migrated, outside, runtime, userData
<1>9. run'.result # "none" => run'.step = "idle"
  BY <1>1, <1>2, <1>3 DEF UpdaterTypeOK, Ran
<1> QED BY <1>5, <1>6, <1>7, <1>8, <1>9 DEF UpdaterInv, UpdaterTypeOK

LEMMA BackupUserDataKeeps ==
  ASSUME UpdaterInv, NEW unreadable \in SUBSET Data, BackupUserData(unreadable)
  PROVE  UpdaterInv'
<1> USE UpdaterAssumption, ListsTyped
<1>1. /\ UpdaterTypeOK /\ run \in Runs /\ run.step \in Steps /\ run.next \in Nat \ {0}
      /\ run.fresh \in SUBSET Files /\ run.result \in Results /\ run.undone \in BOOLEAN
      /\ run.dry \in BOOLEAN
  BY RunMoves DEF UpdaterInv, UpdaterTypeOK
<1>2. run.step = "backup" /\ UNCHANGED <<install, saved, before, stuck, data, kept>>
  BY <1>1 DEF BackupUserData, outside, runtime
<1>3. \/ run' = Ran("idle", run.next, run.fresh, "failed", run.undone)
      \/ /\ run' = Ran("copy", 1, run.fresh, run.result, run.undone)
         /\ (\A i \in Critical : backup'[i] = data[i])
  BY <1>1, RunMoves DEF BackupUserData, Goto, Stop, UpdaterTypeOK
<1>4. ASSUME run' = Ran("idle", run.next, run.fresh, "failed", run.undone)
     PROVE  Rest' /\ run' \in Runs
  BY <1>2, <1>4, Ends
<1>5. ASSUME run' = Ran("copy", 1, run.fresh, run.result, run.undone)
      /\ (\A i \in Critical : backup'[i] = data[i])
     PROVE  Rest' /\ run' \in Runs
  <2>1. /\ run'.step = "copy" /\ run'.next = 1 /\ run'.fresh = run.fresh
        /\ run'.result = run.result /\ run'.undone = run.undone /\ run'.dry = run.dry
    BY <1>5 DEF Ran
  <2>2. run' \in Runs
    BY <1>1, <1>2, <1>5 DEF Ran, Runs, Steps, Results
  <2>3. InList' /\ DryOK' /\ CopiedOK' /\ ReportOK' /\ AsideOK' /\ BackupOK' /\ ReplaceOK'
    BY <1>1, <1>2, <1>5, <2>1 DEF UpdaterInv, UpdaterTypeOK, Rest, InList, DryOK, CopiedOK,
       ReportOK, Stamped, AsideOK, Changing, File, BackupOK, ReplaceOK, Item
  <2> QED BY <2>2, <2>3 DEF Rest
<1>6. Rest' /\ run' \in Runs
  BY <1>3, <1>4, <1>5
<1>7. /\ install' \in [Files -> Bytes] /\ saved' \in [Files -> Bytes]
      /\ before' \in [Files -> Bytes]
  BY <1>1, <1>2 DEF UpdaterTypeOK, Bytes, BackupUserData, outside, runtime
<1>8. data' \in [Data -> Contents] /\ backup' \in [Data -> Contents] /\ kept' \in SUBSET Data
  BY <1>1, <1>2 DEF UpdaterInv, UpdaterTypeOK, Contents, BackupUserData, outside, runtime, Rest,
     InList, Item
<1>9. /\ bundle' \in {"none", "good", "damaged", "ready"} /\ legacy' \in [Data -> Contents]
      /\ registry' \in {"none", "old", "new"} /\ browser' \in BOOLEAN
      /\ runs' \in 0 .. MaxRuns /\ failures' \in 0 .. MaxFailures
      /\ stuck' \in SUBSET Files
  BY <1>1 DEF UpdaterTypeOK, BackupUserData, outside, runtime, Failure
<1>10. run'.result # "none" => run'.step = "idle"
  BY <1>1, <1>2, <1>3 DEF UpdaterTypeOK, Ran
<1> QED BY <1>6, <1>7, <1>8, <1>9, <1>10 DEF UpdaterInv, UpdaterTypeOK

LEMMA SetAsideKeeps ==
  ASSUME UpdaterInv, SetAside
  PROVE  UpdaterInv'
<1> USE UpdaterAssumption, ListsTyped
<1>1. /\ UpdaterTypeOK /\ run \in Runs /\ run.step \in Steps /\ run.next \in Nat \ {0}
      /\ run.fresh \in SUBSET Files /\ run.result \in Results /\ run.undone \in BOOLEAN
      /\ run.dry \in BOOLEAN
  BY RunMoves DEF UpdaterInv, UpdaterTypeOK
<1>2. /\ run.step = "copy" /\ run.next <= Len(Payload)
      /\ UNCHANGED <<install, before, stuck, data, kept, backup>>
  BY <1>1 DEF SetAside, outside, userData
<1>3. \/ /\ run' = Ran(run.step, run.next + 1, run.fresh, run.result, run.undone)
         /\ install[File] = "new" /\ saved' = saved
      \/ /\ run' = Ran("copy", run.next + 1, run.fresh, run.result, run.undone)
         /\ run.dry /\ saved' = saved
      \/ /\ run' = Ran("copy", run.next + 1, run.fresh \cup {File}, run.result, run.undone)
         /\ run.dry /\ saved' = saved
      \/ /\ run' = Ran("aside", run.next, run.fresh, run.result, run.undone)
         /\ ~run.dry /\ install[File] \notin {"new", "none"}
         /\ saved' = [saved EXCEPT ![File] = install[File]]
      \/ /\ run' = Ran("aside", run.next, run.fresh \cup {File}, run.result, run.undone)
         /\ ~run.dry /\ install[File] = "none"
         /\ saved' = [saved EXCEPT ![File] = install[File]]
  <2>1. CASE install[File] = "new"
    BY <1>1, <2>1, RunMoves DEF SetAside, Continue
  <2>2. CASE install[File] # "new"
    <3> DEFINE step  == IF run.dry THEN "copy" ELSE "aside"
               next  == IF run.dry THEN run.next + 1 ELSE run.next
               fresh == IF install[File] = "none" THEN run.fresh \cup {File} ELSE run.fresh
    <3>1. run' = [run EXCEPT !.step = step, !.next = next, !.fresh = fresh]
      BY <2>2 DEF SetAside
    <3>2. run' = Ran(step, next, fresh, run.result, run.undone)
      <4> HIDE DEF step, next, fresh
      <4> QED BY <1>1, <3>1, RunMoves
    <3>3. saved' = IF run.dry THEN saved ELSE [saved EXCEPT ![File] = install[File]]
      BY <2>2 DEF SetAside
    <3> QED BY <1>1, <2>2, <3>2, <3>3
  <2> QED BY <2>1, <2>2
<1>4. ASSUME run' = Ran(run.step, run.next + 1, run.fresh, run.result, run.undone)
      /\ install[File] = "new" /\ saved' = saved
     PROVE  Rest' /\ run' \in Runs
  <2>1. /\ run'.step = run.step /\ run'.next = run.next + 1 /\ run'.fresh = run.fresh
        /\ run'.result = run.result /\ run'.undone = run.undone /\ run'.dry = run.dry
    BY <1>4 DEF Ran
  <2>2. run' \in Runs
    BY <1>1, <1>2, <1>4 DEF Ran, Runs, Steps, Results, File, Files
  <2>3. InList' /\ DryOK' /\ ReportOK' /\ AsideOK' /\ BackupOK' /\ ReplaceOK'
    BY <1>1, <1>2, <1>4, <2>1 DEF UpdaterInv, UpdaterTypeOK, Rest, InList, DryOK, ReportOK,
       Stamped, AsideOK, Changing, File, BackupOK, ReplaceOK, Item
  <2>4. CopiedOK'
    <3>1. \A n \in 1 .. run.next : n = run.next \/ n \in 1 .. run.next - 1
      BY <1>1
    <3>2. run.next + 1 - 1 = run.next
      BY <1>1
    <3> QED BY <1>1, <1>2, <1>4, <2>1, <3>1, <3>2 DEF UpdaterInv, Rest, CopiedOK, File
  <2> QED BY <2>2, <2>3, <2>4 DEF Rest
<1>5. ASSUME run' = Ran("copy", run.next + 1, run.fresh, run.result, run.undone)
      /\ run.dry /\ saved' = saved
     PROVE  Rest' /\ run' \in Runs
  <2>1. /\ run'.step = "copy" /\ run'.next = run.next + 1 /\ run'.fresh = run.fresh
        /\ run'.result = run.result /\ run'.undone = run.undone /\ run'.dry = run.dry
    BY <1>5 DEF Ran
  <2>2. run' \in Runs
    BY <1>1, <1>2, <1>5 DEF Ran, Runs, Steps, Results, File, Files
  <2>3. InList' /\ DryOK' /\ CopiedOK' /\ ReportOK' /\ AsideOK' /\ BackupOK' /\ ReplaceOK'
    BY <1>1, <1>2, <1>5, <2>1 DEF UpdaterInv, UpdaterTypeOK, Rest, InList, DryOK, CopiedOK,
       ReportOK, Stamped, AsideOK, Changing, File, BackupOK, ReplaceOK, Item
  <2> QED BY <2>2, <2>3 DEF Rest
<1>6. ASSUME run' = Ran("copy", run.next + 1, run.fresh \cup {File}, run.result, run.undone)
      /\ run.dry /\ saved' = saved
     PROVE  Rest' /\ run' \in Runs
  <2>1. /\ run'.step = "copy" /\ run'.next = run.next + 1 /\ run'.fresh = run.fresh \cup {File}
        /\ run'.result = run.result /\ run'.undone = run.undone /\ run'.dry = run.dry
    BY <1>6 DEF Ran
  <2>2. run' \in Runs
    BY <1>1, <1>2, <1>6 DEF Ran, Runs, Steps, Results, File, Files
  <2>3. InList' /\ DryOK' /\ CopiedOK' /\ ReportOK' /\ AsideOK' /\ BackupOK' /\ ReplaceOK'
    BY <1>1, <1>2, <1>6, <2>1 DEF UpdaterInv, UpdaterTypeOK, Rest, InList, DryOK, CopiedOK,
       ReportOK, Stamped, AsideOK, Changing, File, BackupOK, ReplaceOK, Item
  <2> QED BY <2>2, <2>3 DEF Rest
<1>7. ASSUME run' = Ran("aside", run.next, run.fresh, run.result, run.undone)
      /\ ~run.dry /\ install[File] \notin {"new", "none"}
      /\ saved' = [saved EXCEPT ![File] = install[File]]
     PROVE  Rest' /\ run' \in Runs
  <2>1. /\ run'.step = "aside" /\ run'.next = run.next /\ run'.fresh = run.fresh
        /\ run'.result = run.result /\ run'.undone = run.undone /\ run'.dry = run.dry
    BY <1>7 DEF Ran
  <2>2. run' \in Runs
    BY <1>1, <1>2, <1>7 DEF Ran, Runs, Steps, Results, File, Files
  <2>3. InList' /\ DryOK' /\ CopiedOK' /\ ReportOK' /\ AsideOK' /\ BackupOK' /\ ReplaceOK'
    BY <1>1, <1>2, <1>7, <2>1 DEF UpdaterInv, UpdaterTypeOK, Rest, InList, DryOK, CopiedOK,
       ReportOK, Stamped, AsideOK, Changing, File, BackupOK, ReplaceOK, Item
  <2> QED BY <2>2, <2>3 DEF Rest
<1>8. ASSUME run' = Ran("aside", run.next, run.fresh \cup {File}, run.result, run.undone)
      /\ ~run.dry /\ install[File] = "none"
      /\ saved' = [saved EXCEPT ![File] = install[File]]
     PROVE  Rest' /\ run' \in Runs
  <2>1. /\ run'.step = "aside" /\ run'.next = run.next /\ run'.fresh = run.fresh \cup {File}
        /\ run'.result = run.result /\ run'.undone = run.undone /\ run'.dry = run.dry
    BY <1>8 DEF Ran
  <2>2. run' \in Runs
    BY <1>1, <1>2, <1>8 DEF Ran, Runs, Steps, Results, File, Files
  <2>3. InList' /\ DryOK' /\ CopiedOK' /\ ReportOK' /\ BackupOK' /\ ReplaceOK'
    BY <1>1, <1>2, <1>8, <2>1 DEF UpdaterInv, UpdaterTypeOK, Rest, InList, DryOK, CopiedOK,
       ReportOK, Stamped, BackupOK, Changing, ReplaceOK, Item
  <2>4. AsideOK'
    <3>1. /\ File \in Files /\ File' = File /\ ~run.undone
          /\ \A f \in Files : saved'[f] = IF f = File THEN "none" ELSE saved[f]
      BY <1>1, <1>2, <1>8, <2>1 DEF UpdaterInv, Rest, InList, UpdaterTypeOK, File
    <3> SUFFICES ASSUME NEW f \in Files \ {"version.json"} PROVE
           /\ saved'[f] # "none" => saved'[f] = before[f]
           /\ f \in run.fresh \cup {File} => /\ before[f] = "none" /\ saved'[f] = "none"
                                            /\ install[f] \in {"none", "new"}
           /\ saved'[f] = "none" /\ f \notin run.fresh \cup {File} => install[f] = before[f]
           /\ saved'[f] # "none" \/ f \in run.fresh => install[f] = "new" \/ f = File
      BY <1>2, <2>1, <3>1 DEF AsideOK, Changing
    <3> QED BY <1>2, <1>8, <3>1 DEF UpdaterInv, Rest, AsideOK, Changing
  <2> QED BY <2>2, <2>3, <2>4 DEF Rest
<1>9. Rest' /\ run' \in Runs
  BY <1>3, <1>4, <1>5, <1>6, <1>7, <1>8
<1>10. /\ install' \in [Files -> Bytes] /\ saved' \in [Files -> Bytes]
      /\ before' \in [Files -> Bytes]
  BY <1>1, <1>2 DEF UpdaterTypeOK, Bytes, SetAside, outside, userData
<1>11. data' \in [Data -> Contents] /\ backup' \in [Data -> Contents] /\ kept' \in SUBSET Data
  BY <1>1, <1>2 DEF UpdaterInv, UpdaterTypeOK, Contents, SetAside, outside, userData, Rest,
     InList, Item
<1>12. /\ bundle' \in {"none", "good", "damaged", "ready"} /\ legacy' \in [Data -> Contents]
      /\ registry' \in {"none", "old", "new"} /\ browser' \in BOOLEAN
      /\ runs' \in 0 .. MaxRuns /\ failures' \in 0 .. MaxFailures
      /\ stuck' \in SUBSET Files
  BY <1>1 DEF UpdaterTypeOK, SetAside, outside, userData
<1>13. run'.result # "none" => run'.step = "idle"
  BY <1>1, <1>2, <1>3 DEF UpdaterTypeOK, Ran
<1> QED BY <1>9, <1>10, <1>11, <1>12, <1>13 DEF UpdaterInv, UpdaterTypeOK

LEMMA SetAsideFailsKeeps ==
  ASSUME UpdaterInv, SetAsideFails
  PROVE  UpdaterInv'
<1> USE UpdaterAssumption, ListsTyped
<1>1. /\ UpdaterTypeOK /\ run \in Runs /\ run.step \in Steps /\ run.next \in Nat \ {0}
      /\ run.fresh \in SUBSET Files /\ run.result \in Results /\ run.undone \in BOOLEAN
      /\ run.dry \in BOOLEAN
  BY RunMoves DEF UpdaterInv, UpdaterTypeOK
<1>2. /\ run.step = "copy" /\ ~run.dry
      /\ UNCHANGED <<install, saved, before, stuck, data, kept, backup>>
  BY <1>1 DEF SetAsideFails, outside, runtime, userData
<1>3. run' = Ran("undo", 1, run.fresh, run.result, run.undone)
  BY <1>1, RunMoves DEF SetAsideFails, Goto
<1>4. ASSUME run' = Ran("undo", 1, run.fresh, run.result, run.undone)
     PROVE  Rest' /\ run' \in Runs
  <2>1. /\ run'.step = "undo" /\ run'.next = 1 /\ run'.fresh = run.fresh
        /\ run'.result = run.result /\ run'.undone = run.undone /\ run'.dry = run.dry
    BY <1>4 DEF Ran
  <2>2. run' \in Runs
    BY <1>1, <1>2, <1>4 DEF Ran, Runs, Steps, Results
  <2>3. InList' /\ DryOK' /\ CopiedOK' /\ ReportOK' /\ AsideOK' /\ BackupOK' /\ ReplaceOK'
    BY <1>1, <1>2, <1>4, <2>1 DEF UpdaterInv, UpdaterTypeOK, Rest, InList, DryOK, CopiedOK,
       ReportOK, Stamped, AsideOK, Changing, File, BackupOK, ReplaceOK, Item
  <2> QED BY <2>2, <2>3 DEF Rest
<1>5. Rest' /\ run' \in Runs
  BY <1>3, <1>4
<1>6. /\ install' \in [Files -> Bytes] /\ saved' \in [Files -> Bytes]
      /\ before' \in [Files -> Bytes]
  BY <1>1, <1>2 DEF UpdaterTypeOK, Bytes, SetAsideFails, outside, runtime, userData
<1>7. data' \in [Data -> Contents] /\ backup' \in [Data -> Contents] /\ kept' \in SUBSET Data
  BY <1>1, <1>2 DEF UpdaterInv, UpdaterTypeOK, Contents, SetAsideFails, outside, runtime,
     userData, Rest, InList, Item
<1>8. /\ bundle' \in {"none", "good", "damaged", "ready"} /\ legacy' \in [Data -> Contents]
      /\ registry' \in {"none", "old", "new"} /\ browser' \in BOOLEAN
      /\ runs' \in 0 .. MaxRuns /\ failures' \in 0 .. MaxFailures
      /\ stuck' \in SUBSET Files
  BY <1>1 DEF UpdaterTypeOK, SetAsideFails, outside, runtime, userData, Failure
<1>9. run'.result # "none" => run'.step = "idle"
  BY <1>1, <1>2, <1>3 DEF UpdaterTypeOK, Ran
<1> QED BY <1>5, <1>6, <1>7, <1>8, <1>9 DEF UpdaterInv, UpdaterTypeOK

LEMMA CopyFileKeeps ==
  ASSUME UpdaterInv, CopyFile
  PROVE  UpdaterInv'
<1> USE UpdaterAssumption, ListsTyped
<1>1. /\ UpdaterTypeOK /\ run \in Runs /\ run.step \in Steps /\ run.next \in Nat \ {0}
      /\ run.fresh \in SUBSET Files /\ run.result \in Results /\ run.undone \in BOOLEAN
      /\ run.dry \in BOOLEAN
  BY RunMoves DEF UpdaterInv, UpdaterTypeOK
<1>2. run.step = "aside" /\ install' = [install EXCEPT ![File] = "new"] /\ UNCHANGED <<saved,
      before, stuck, data, kept, backup>>
  BY <1>1 DEF CopyFile, outside, userData
<1>3. run' = Ran("copy", run.next + 1, run.fresh, run.result, run.undone)
  BY <1>1, RunMoves DEF CopyFile
<1>4. ASSUME run' = Ran("copy", run.next + 1, run.fresh, run.result, run.undone)
     PROVE  Rest' /\ run' \in Runs
  <2>1. /\ run'.step = "copy" /\ run'.next = run.next + 1 /\ run'.fresh = run.fresh
        /\ run'.result = run.result /\ run'.undone = run.undone /\ run'.dry = run.dry
    BY <1>4 DEF Ran
  <2>2. run' \in Runs
    BY <1>1, <1>2, <1>4 DEF Ran, Runs, Steps, Results
  <2>3. InList' /\ DryOK' /\ ReportOK' /\ BackupOK' /\ ReplaceOK'
    BY <1>1, <1>2, <1>4, <2>1 DEF UpdaterInv, UpdaterTypeOK, Rest, InList, DryOK, ReportOK,
       Stamped, BackupOK, Changing, ReplaceOK, Item
  <2>4. CopiedOK'
    <3>1. \A n \in 1 .. run.next : n = run.next \/ n \in 1 .. run.next - 1
      BY <1>1
    <3>2. run'.next - 1 = run.next /\ run'.step = "copy" /\ run'.dry = run.dry
      BY <1>1, <2>1
    <3>3. \A n \in 1 .. run.next : n <= Len(Payload)
      BY <1>1, <1>2 DEF UpdaterInv, Rest, InList
    <3>4. \A n \in 1 .. run.next : Payload[n] \in Files
      BY <1>1, <3>3
    <3>5. \A f \in Files : install'[f] = "new" \/ (f # File /\ install'[f] = install[f])
      BY <1>1, <1>2 DEF UpdaterTypeOK
    <3>6. ~run.dry => \A n \in 1 .. run.next - 1 : install[Payload[n]] = "new"
      BY <1>2 DEF UpdaterInv, Rest, CopiedOK
    <3>7. ~run.dry => \A n \in 1 .. run.next : install'[Payload[n]] = "new"
      BY <3>1, <3>4, <3>5, <3>6 DEF File
    <3> QED BY <3>2, <3>7 DEF CopiedOK
  <2>5. AsideOK'
    <3>1. \A f \in Files : install'[f] = IF f = File THEN "new" ELSE install[f]
      BY <1>1, <1>2 DEF UpdaterTypeOK
    <3>2. ~run.dry
      BY <1>2 DEF UpdaterInv, Rest, DryOK
    <3> SUFFICES ASSUME NEW f \in Files \ {"version.json"} PROVE
           /\ saved[f] # "none" => saved[f] = before[f]
           /\ f \in run.fresh => /\ before[f] = "none" /\ saved[f] = "none"
                                 /\ install'[f] \in {"none", "new"}
           /\ saved[f] = "none" /\ f \notin run.fresh => install'[f] = before[f]
           /\ saved[f] # "none" \/ f \in run.fresh => install'[f] = "new"
      BY <1>1, <1>2, <2>1, <3>2 DEF AsideOK, Changing, UpdaterInv, Rest, InList
    <3> QED BY <1>1, <1>2, <3>1, <3>2 DEF UpdaterInv, Rest, AsideOK, Changing
  <2> QED BY <2>2, <2>3, <2>4, <2>5 DEF Rest
<1>5. Rest' /\ run' \in Runs
  BY <1>3, <1>4
<1>6. /\ install' \in [Files -> Bytes] /\ saved' \in [Files -> Bytes]
      /\ before' \in [Files -> Bytes]
  BY <1>1, <1>2 DEF UpdaterTypeOK, Bytes
<1>7. data' \in [Data -> Contents] /\ backup' \in [Data -> Contents] /\ kept' \in SUBSET Data
  BY <1>1, <1>2 DEF UpdaterInv, UpdaterTypeOK, Contents, CopyFile, outside, userData, Rest,
     InList, Item
<1>8. /\ bundle' \in {"none", "good", "damaged", "ready"} /\ legacy' \in [Data -> Contents]
      /\ registry' \in {"none", "old", "new"} /\ browser' \in BOOLEAN
      /\ runs' \in 0 .. MaxRuns /\ failures' \in 0 .. MaxFailures
      /\ stuck' \in SUBSET Files
  BY <1>1 DEF UpdaterTypeOK, CopyFile, outside, userData
<1>9. run'.result # "none" => run'.step = "idle"
  BY <1>1, <1>2, <1>3 DEF UpdaterTypeOK, Ran
<1> QED BY <1>5, <1>6, <1>7, <1>8, <1>9 DEF UpdaterInv, UpdaterTypeOK

LEMMA CopyFileFailsKeeps ==
  ASSUME UpdaterInv, CopyFileFails
  PROVE  UpdaterInv'
<1> USE UpdaterAssumption, ListsTyped
<1>1. /\ UpdaterTypeOK /\ run \in Runs /\ run.step \in Steps /\ run.next \in Nat \ {0}
      /\ run.fresh \in SUBSET Files /\ run.result \in Results /\ run.undone \in BOOLEAN
      /\ run.dry \in BOOLEAN
  BY RunMoves DEF UpdaterInv, UpdaterTypeOK
<1>2. run.step = "aside" /\ install' \in {install,
      [install EXCEPT ![File] = "none"]} /\ UNCHANGED <<saved, before, stuck, data, kept, backup>>
  BY <1>1 DEF CopyFileFails, outside, userData
<1>3. run' = Ran("undo", 1, run.fresh, run.result, run.undone)
  BY <1>1, RunMoves DEF CopyFileFails, Goto
<1>4. ASSUME run' = Ran("undo", 1, run.fresh, run.result, run.undone)
     PROVE  Rest' /\ run' \in Runs
  <2>1. /\ run'.step = "undo" /\ run'.next = 1 /\ run'.fresh = run.fresh
        /\ run'.result = run.result /\ run'.undone = run.undone /\ run'.dry = run.dry
    BY <1>4 DEF Ran
  <2>2. run' \in Runs
    BY <1>1, <1>2, <1>4 DEF Ran, Runs, Steps, Results
  <2>3. InList' /\ DryOK' /\ CopiedOK' /\ ReportOK' /\ BackupOK' /\ ReplaceOK'
    BY <1>1, <1>2, <1>4, <2>1 DEF UpdaterInv, UpdaterTypeOK, Rest, InList, DryOK, CopiedOK,
       ReportOK, Stamped, BackupOK, Changing, ReplaceOK, Item
  <2>4. AsideOK'
    <3>1. \A f \in Files : install'[f] = install[f] \/ (f = File /\ install'[f] = "none")
      BY <1>1, <1>2 DEF UpdaterTypeOK
    <3>2. ~run.dry
      BY <1>2 DEF UpdaterInv, Rest, DryOK
    <3> SUFFICES ASSUME NEW f \in Files \ {"version.json"} PROVE
           /\ saved[f] # "none" => saved[f] = before[f]
           /\ f \in run.fresh => /\ before[f] = "none" /\ saved[f] = "none"
                                 /\ install'[f] \in {"none", "new"}
           /\ saved[f] = "none" /\ f \notin run.fresh => install'[f] = before[f]
      BY <1>1, <1>2, <2>1, <3>2 DEF AsideOK, Changing, UpdaterInv, Rest, InList
    <3> QED BY <1>1, <1>2, <3>1, <3>2 DEF UpdaterInv, Rest, AsideOK, Changing
  <2> QED BY <2>2, <2>3, <2>4 DEF Rest
<1>5. Rest' /\ run' \in Runs
  BY <1>3, <1>4
<1>6. /\ install' \in [Files -> Bytes] /\ saved' \in [Files -> Bytes]
      /\ before' \in [Files -> Bytes]
  BY <1>1, <1>2 DEF UpdaterTypeOK, Bytes, CopyFileFails, outside, userData
<1>7. data' \in [Data -> Contents] /\ backup' \in [Data -> Contents] /\ kept' \in SUBSET Data
  BY <1>1, <1>2 DEF UpdaterInv, UpdaterTypeOK, Contents, CopyFileFails, outside, userData, Rest,
     InList, Item
<1>8. /\ bundle' \in {"none", "good", "damaged", "ready"} /\ legacy' \in [Data -> Contents]
      /\ registry' \in {"none", "old", "new"} /\ browser' \in BOOLEAN
      /\ runs' \in 0 .. MaxRuns /\ failures' \in 0 .. MaxFailures
      /\ stuck' \in SUBSET Files
  BY <1>1 DEF UpdaterTypeOK, CopyFileFails, outside, userData, Failure
<1>9. run'.result # "none" => run'.step = "idle"
  BY <1>1, <1>2, <1>3 DEF UpdaterTypeOK, Ran
<1> QED BY <1>5, <1>6, <1>7, <1>8, <1>9 DEF UpdaterInv, UpdaterTypeOK

LEMMA SaveVersionKeeps ==
  ASSUME UpdaterInv, SaveVersion
  PROVE  UpdaterInv'
<1> USE UpdaterAssumption, ListsTyped
<1>1. /\ UpdaterTypeOK /\ run \in Runs /\ run.step \in Steps /\ run.next \in Nat \ {0}
      /\ run.fresh \in SUBSET Files /\ run.result \in Results /\ run.undone \in BOOLEAN
      /\ run.dry \in BOOLEAN
  BY RunMoves DEF UpdaterInv, UpdaterTypeOK
<1>2. /\ run.step = "copy" /\ run.next > Len(Payload)
      /\ UNCHANGED <<install, before, stuck, data, kept, backup>>
  BY <1>1 DEF SaveVersion, outside, userData
<1>3. \/ /\ run' = Ran("idle", run.next, run.fresh, "DryRun", run.undone)
         /\ run.dry /\ saved' = saved
      \/ /\ run' = Ran("stamp", run.next, run.fresh \cup {"version.json"}, run.result, run.undone)
         /\ ~run.dry /\ saved' = saved
      \/ /\ run' = Ran("stamp", run.next, run.fresh, run.result, run.undone)
         /\ ~run.dry /\ saved' = [saved EXCEPT !["version.json"] = install["version.json"]]
  <2>1. CASE run.dry
    BY <1>1, <2>1, RunMoves DEF SaveVersion, Stop
  <2>2. CASE ~run.dry
    <3> DEFINE fresh == IF install["version.json"] = "none" THEN run.fresh \cup {"version.json"}
                        ELSE run.fresh
    <3>1. run' = [run EXCEPT !.step = "stamp", !.fresh = fresh]
      BY <2>2 DEF SaveVersion
    <3>2. run' = Ran("stamp", run.next, fresh, run.result, run.undone)
      <4> HIDE DEF fresh
      <4> QED BY <1>1, <3>1, RunMoves
    <3>3. saved' = IF install["version.json"] = "none" THEN saved
                   ELSE [saved EXCEPT !["version.json"] = install["version.json"]]
      BY <2>2 DEF SaveVersion
    <3> QED BY <2>2, <3>2, <3>3
  <2> QED BY <2>1, <2>2
<1>4. ASSUME run' = Ran("idle", run.next, run.fresh, "DryRun", run.undone)
      /\ run.dry /\ saved' = saved
     PROVE  Rest' /\ run' \in Runs
  BY <1>2, <1>4, Ends
<1>5. ASSUME run' = Ran("stamp", run.next, run.fresh \cup {"version.json"}, run.result, run.undone)
      /\ ~run.dry /\ saved' = saved
     PROVE  Rest' /\ run' \in Runs
  <2>1. /\ run'.step = "stamp" /\ run'.next = run.next
        /\ run'.fresh = run.fresh \cup {"version.json"}
        /\ run'.result = run.result /\ run'.undone = run.undone /\ run'.dry = run.dry
    BY <1>5 DEF Ran
  <2>2. run' \in Runs
    BY <1>1, <1>2, <1>5 DEF Ran, Runs, Steps, Results, File, Files
  <2>3. InList' /\ DryOK' /\ ReportOK' /\ BackupOK' /\ ReplaceOK'
    BY <1>1, <1>2, <1>5, <2>1 DEF UpdaterInv, UpdaterTypeOK, Rest, InList, DryOK, ReportOK,
       Stamped, Changing, BackupOK, ReplaceOK, Item
  <2>4. CopiedOK'
    <3>1. \A f \in Elements(Payload) : \E n \in 1 .. run.next - 1 : f = Payload[n]
      BY <1>1, <1>2 DEF Elements
    <3> QED BY <1>2, <1>5, <2>1, <3>1 DEF UpdaterInv, Rest, CopiedOK
  <2>5. AsideOK'
    <3> SUFFICES ASSUME NEW f \in Files \ {"version.json"} PROVE
           /\ saved[f] # "none" => saved[f] = before[f]
           /\ f \in run.fresh => /\ before[f] = "none" /\ saved[f] = "none"
                                 /\ install[f] \in {"none", "new"}
           /\ saved[f] = "none" /\ f \notin run.fresh => install[f] = before[f]
      BY <1>2, <1>5, <2>1 DEF AsideOK, Changing, UpdaterInv, Rest, InList
    <3> QED BY <1>2, <1>5 DEF UpdaterInv, Rest, AsideOK, Changing
  <2> QED BY <2>2, <2>3, <2>4, <2>5 DEF Rest
<1>6. ASSUME run' = Ran("stamp", run.next, run.fresh, run.result, run.undone)
      /\ ~run.dry /\ saved' = [saved EXCEPT !["version.json"] = install["version.json"]]
     PROVE  Rest' /\ run' \in Runs
  <2>1. /\ run'.step = "stamp" /\ run'.next = run.next /\ run'.fresh = run.fresh
        /\ run'.result = run.result /\ run'.undone = run.undone /\ run'.dry = run.dry
    BY <1>6 DEF Ran
  <2>2. run' \in Runs
    BY <1>1, <1>2, <1>6 DEF Ran, Runs, Steps, Results, File, Files
  <2>3. InList' /\ DryOK' /\ ReportOK' /\ AsideOK' /\ BackupOK' /\ ReplaceOK'
    BY <1>1, <1>2, <1>6, <2>1 DEF UpdaterInv, UpdaterTypeOK, Rest, InList, DryOK, ReportOK,
       Stamped, AsideOK, Changing, File, BackupOK, ReplaceOK, Item
  <2>4. CopiedOK'
    <3>1. \A f \in Elements(Payload) : \E n \in 1 .. run.next - 1 : f = Payload[n]
      BY <1>1, <1>2 DEF Elements
    <3> QED BY <1>2, <1>6, <2>1, <3>1 DEF UpdaterInv, Rest, CopiedOK
  <2> QED BY <2>2, <2>3, <2>4 DEF Rest
<1>7. Rest' /\ run' \in Runs
  BY <1>3, <1>4, <1>5, <1>6
<1>8. /\ install' \in [Files -> Bytes] /\ saved' \in [Files -> Bytes]
      /\ before' \in [Files -> Bytes]
  <2>1. install["version.json"] \in Bytes
    BY <1>1 DEF UpdaterTypeOK
  <2>2. saved' \in [Files -> Bytes]
    BY <1>1, <2>1 DEF UpdaterTypeOK, SaveVersion
  <2> QED BY <1>1, <1>2, <2>2 DEF UpdaterTypeOK
<1>9. data' \in [Data -> Contents] /\ backup' \in [Data -> Contents] /\ kept' \in SUBSET Data
  BY <1>1, <1>2 DEF UpdaterInv, UpdaterTypeOK, Contents, SaveVersion, outside, userData, Rest,
     InList, Item
<1>10. /\ bundle' \in {"none", "good", "damaged", "ready"} /\ legacy' \in [Data -> Contents]
      /\ registry' \in {"none", "old", "new"} /\ browser' \in BOOLEAN
      /\ runs' \in 0 .. MaxRuns /\ failures' \in 0 .. MaxFailures
      /\ stuck' \in SUBSET Files
  BY <1>1 DEF UpdaterTypeOK, SaveVersion, outside, userData
<1>11. run'.result # "none" => run'.step = "idle"
  BY <1>1, <1>2, <1>3 DEF UpdaterTypeOK, Ran
<1> QED BY <1>7, <1>8, <1>9, <1>10, <1>11 DEF UpdaterInv, UpdaterTypeOK

LEMMA WriteInstalledVersionFileKeeps ==
  ASSUME UpdaterInv, WriteInstalledVersionFile
  PROVE  UpdaterInv'
<1> USE UpdaterAssumption, ListsTyped
<1>1. /\ UpdaterTypeOK /\ run \in Runs /\ run.step \in Steps /\ run.next \in Nat \ {0}
      /\ run.fresh \in SUBSET Files /\ run.result \in Results /\ run.undone \in BOOLEAN
      /\ run.dry \in BOOLEAN
  BY RunMoves DEF UpdaterInv, UpdaterTypeOK
<1>2. run.step = "stamp" /\ install' = [install EXCEPT !["version.json"] = "stamp"]
      /\ UNCHANGED <<saved, before, stuck, data, kept, backup>>
  BY <1>1 DEF WriteInstalledVersionFile, outside, userData
<1>3. run' = Ran("verify", 1, run.fresh, run.result, run.undone)
  BY <1>1, RunMoves DEF WriteInstalledVersionFile, Goto
<1>4. ASSUME run' = Ran("verify", 1, run.fresh, run.result, run.undone)
     PROVE  Rest' /\ run' \in Runs
  <2>1. /\ run'.step = "verify" /\ run'.next = 1 /\ run'.fresh = run.fresh
        /\ run'.result = run.result /\ run'.undone = run.undone /\ run'.dry = run.dry
    BY <1>4 DEF Ran
  <2>2. run' \in Runs
    BY <1>1, <1>2, <1>4 DEF Ran, Runs, Steps, Results
  <2>3. InList' /\ DryOK' /\ CopiedOK' /\ AsideOK' /\ BackupOK' /\ ReplaceOK'
    BY <1>1, <1>2, <1>4, <2>1 DEF UpdaterInv, UpdaterTypeOK, Rest, InList, DryOK, CopiedOK,
       AsideOK, Changing, File, BackupOK, ReplaceOK, Item
  <2>4. ReportOK'
    <3>1. \A f \in Elements(Payload) : install[f] = "new"
      BY <1>2 DEF UpdaterInv, Rest, CopiedOK
    <3>2. \A f \in Files : install'[f] = IF f = "version.json" THEN "stamp" ELSE install[f]
      BY <1>1, <1>2 DEF UpdaterTypeOK
    <3>3. Stamped'
      BY <3>1, <3>2 DEF Stamped
    <3> QED BY <3>3 DEF ReportOK
  <2> QED BY <2>2, <2>3, <2>4 DEF Rest
<1>5. Rest' /\ run' \in Runs
  BY <1>3, <1>4
<1>6. /\ install' \in [Files -> Bytes] /\ saved' \in [Files -> Bytes]
      /\ before' \in [Files -> Bytes]
  BY <1>1, <1>2 DEF UpdaterTypeOK, Bytes, WriteInstalledVersionFile, outside, userData
<1>7. data' \in [Data -> Contents] /\ backup' \in [Data -> Contents] /\ kept' \in SUBSET Data
  BY <1>1, <1>2 DEF UpdaterInv, UpdaterTypeOK, Contents, WriteInstalledVersionFile, outside,
     userData, Rest, InList, Item
<1>8. /\ bundle' \in {"none", "good", "damaged", "ready"} /\ legacy' \in [Data -> Contents]
      /\ registry' \in {"none", "old", "new"} /\ browser' \in BOOLEAN
      /\ runs' \in 0 .. MaxRuns /\ failures' \in 0 .. MaxFailures
      /\ stuck' \in SUBSET Files
  BY <1>1 DEF UpdaterTypeOK, WriteInstalledVersionFile, outside, userData
<1>9. run'.result # "none" => run'.step = "idle"
  BY <1>1, <1>2, <1>3 DEF UpdaterTypeOK, Ran
<1> QED BY <1>5, <1>6, <1>7, <1>8, <1>9 DEF UpdaterInv, UpdaterTypeOK

LEMMA WriteVersionFailsKeeps ==
  ASSUME UpdaterInv, WriteVersionFails
  PROVE  UpdaterInv'
<1> USE UpdaterAssumption, ListsTyped
<1>1. /\ UpdaterTypeOK /\ run \in Runs /\ run.step \in Steps /\ run.next \in Nat \ {0}
      /\ run.fresh \in SUBSET Files /\ run.result \in Results /\ run.undone \in BOOLEAN
      /\ run.dry \in BOOLEAN
  BY RunMoves DEF UpdaterInv, UpdaterTypeOK
<1>2. run.step = "stamp"
      /\ (\E left \in Bytes : install' = [install EXCEPT !["version.json"] = left])
    /\ UNCHANGED <<saved, before, stuck, data, kept, backup>>
  <2>1. {install["version.json"], "none", "torn"} \subseteq Bytes
    BY <1>1 DEF UpdaterTypeOK, Bytes
  <2>2. \E left \in Bytes : install' = [install EXCEPT !["version.json"] = left]
    BY <2>1 DEF WriteVersionFails
  <2> QED BY <2>2 DEF WriteVersionFails, outside, runtime, userData
<1>3. run' = Ran("undo", 1, run.fresh, run.result, run.undone)
  BY <1>1, RunMoves DEF WriteVersionFails, Goto
<1>4. ASSUME run' = Ran("undo", 1, run.fresh, run.result, run.undone)
     PROVE  Rest' /\ run' \in Runs
  <2>1. /\ run'.step = "undo" /\ run'.next = 1 /\ run'.fresh = run.fresh
        /\ run'.result = run.result /\ run'.undone = run.undone /\ run'.dry = run.dry
    BY <1>4 DEF Ran
  <2>2. run' \in Runs
    BY <1>1, <1>2, <1>4 DEF Ran, Runs, Steps, Results
  <2>3. InList' /\ DryOK' /\ CopiedOK' /\ ReportOK' /\ AsideOK' /\ BackupOK' /\ ReplaceOK'
    BY <1>1, <1>2, <1>4, <2>1 DEF UpdaterInv, UpdaterTypeOK, Rest, InList, DryOK, CopiedOK,
       ReportOK, Stamped, AsideOK, Changing, File, BackupOK, ReplaceOK, Item
  <2> QED BY <2>2, <2>3 DEF Rest
<1>5. Rest' /\ run' \in Runs
  BY <1>3, <1>4
<1>6. /\ install' \in [Files -> Bytes] /\ saved' \in [Files -> Bytes]
      /\ before' \in [Files -> Bytes]
  BY <1>1, <1>2 DEF UpdaterTypeOK, Bytes, WriteVersionFails, outside, userData
<1>7. data' \in [Data -> Contents] /\ backup' \in [Data -> Contents] /\ kept' \in SUBSET Data
  BY <1>1, <1>2 DEF UpdaterInv, UpdaterTypeOK, Contents, WriteVersionFails, outside, userData,
     Rest, InList, Item
<1>8. /\ bundle' \in {"none", "good", "damaged", "ready"} /\ legacy' \in [Data -> Contents]
      /\ registry' \in {"none", "old", "new"} /\ browser' \in BOOLEAN
      /\ runs' \in 0 .. MaxRuns /\ failures' \in 0 .. MaxFailures
      /\ stuck' \in SUBSET Files
  BY <1>1 DEF UpdaterTypeOK, WriteVersionFails, outside, userData, Failure
<1>9. run'.result # "none" => run'.step = "idle"
  BY <1>1, <1>2, <1>3 DEF UpdaterTypeOK, Ran
<1> QED BY <1>5, <1>6, <1>7, <1>8, <1>9 DEF UpdaterInv, UpdaterTypeOK

LEMMA RestoreRuntimeBackupKeeps ==
  ASSUME UpdaterInv, RestoreRuntimeBackup
  PROVE  UpdaterInv'
<1> USE UpdaterAssumption, ListsTyped
<1>1. /\ UpdaterTypeOK /\ run \in Runs /\ run.step \in Steps /\ run.next \in Nat \ {0}
      /\ run.fresh \in SUBSET Files /\ run.result \in Results /\ run.undone \in BOOLEAN
      /\ run.dry \in BOOLEAN
  BY RunMoves DEF UpdaterInv, UpdaterTypeOK
<1>2. /\ run.step = "undo" /\ install' = Restored(stuck')
      /\ stuck' \in SUBSET {f \in run.fresh : install[f] # "none"}
      /\ UNCHANGED <<saved, before, data, kept, backup>>
  BY <1>1 DEF RestoreRuntimeBackup, outside, userData
<1>3. run' = Ran("idle", run.next, run.fresh, "failed", TRUE)
  <2>1. run' = [run EXCEPT !.step = "idle", !.result = "failed", !.undone = TRUE]
    BY DEF RestoreRuntimeBackup
  <2> QED BY <1>1, <2>1 DEF Ran, Runs
<1>4. ASSUME run' = Ran("idle", run.next, run.fresh, "failed", TRUE)
     PROVE  Rest' /\ run' \in Runs
  <2>1. /\ run'.step = "idle" /\ run'.next = run.next /\ run'.fresh = run.fresh
        /\ run'.result = "failed" /\ run'.undone = TRUE /\ run'.dry = run.dry
    BY <1>4 DEF Ran
  <2>2. run' \in Runs
    BY <1>1, <1>2, <1>4 DEF Ran, Runs, Steps, Results
  <2>3. InList' /\ DryOK' /\ CopiedOK' /\ ReportOK' /\ BackupOK' /\ ReplaceOK'
    BY <1>1, <1>2, <1>4, <2>1 DEF UpdaterInv, UpdaterTypeOK, Rest, InList, DryOK, CopiedOK,
       ReportOK, Stamped, BackupOK, Changing, ReplaceOK, Item, Restored
  <2>4. AsideOK'
    BY <1>1, <1>2, <1>4, <2>1 DEF UpdaterInv, Rest, UpdaterTypeOK, AsideOK, Changing, File,
       InList, Restored
  <2> QED BY <2>2, <2>3, <2>4 DEF Rest
<1>5. Rest' /\ run' \in Runs
  BY <1>3, <1>4
<1>6. /\ install' \in [Files -> Bytes] /\ saved' \in [Files -> Bytes]
      /\ before' \in [Files -> Bytes]
  BY <1>1, <1>2 DEF UpdaterTypeOK, Bytes, RestoreRuntimeBackup, outside, userData, Restored
<1>7. data' \in [Data -> Contents] /\ backup' \in [Data -> Contents] /\ kept' \in SUBSET Data
  BY <1>1, <1>2 DEF UpdaterInv, UpdaterTypeOK, Contents, RestoreRuntimeBackup, userData,
     Rest, InList, Item
<1>8. /\ bundle' \in {"none", "good", "damaged", "ready"} /\ legacy' \in [Data -> Contents]
      /\ registry' \in {"none", "old", "new"} /\ browser' \in BOOLEAN
      /\ runs' \in 0 .. MaxRuns /\ failures' \in 0 .. MaxFailures
      /\ stuck' \in SUBSET Files
  BY <1>1, <1>2 DEF UpdaterTypeOK, RestoreRuntimeBackup, Failure, userData
<1>9. run'.result # "none" => run'.step = "idle"
  BY <1>1, <1>2, <1>3 DEF UpdaterTypeOK, Ran
<1> QED BY <1>5, <1>6, <1>7, <1>8, <1>9 DEF UpdaterInv, UpdaterTypeOK

LEMMA RestoreFailsKeeps ==
  ASSUME UpdaterInv, RestoreFails
  PROVE  UpdaterInv'
<1> USE UpdaterAssumption, ListsTyped
<1>1. /\ UpdaterTypeOK /\ run \in Runs /\ run.step \in Steps /\ run.next \in Nat \ {0}
      /\ run.fresh \in SUBSET Files /\ run.result \in Results /\ run.undone \in BOOLEAN
      /\ run.dry \in BOOLEAN
  BY RunMoves DEF UpdaterInv, UpdaterTypeOK
<1>2. run.step = "undo" /\ UNCHANGED <<saved, before, stuck, data, kept, backup>>
  BY <1>1 DEF RestoreFails, outside, userData
<1>3. run' = Ran("idle", run.next, run.fresh, "failed", run.undone)
  BY <1>1, RunMoves DEF RestoreFails, Stop
<1>4. ASSUME run' = Ran("idle", run.next, run.fresh, "failed", run.undone)
     PROVE  Rest' /\ run' \in Runs
  BY <1>2, <1>4, Ends DEF UpdaterInv, Rest, DryOK
<1>5. Rest' /\ run' \in Runs
  BY <1>3, <1>4
<1>6. /\ install' \in [Files -> Bytes] /\ saved' \in [Files -> Bytes]
      /\ before' \in [Files -> Bytes]
  BY <1>1, <1>2 DEF UpdaterTypeOK, Bytes, RestoreFails, outside, userData, Restored
<1>7. data' \in [Data -> Contents] /\ backup' \in [Data -> Contents] /\ kept' \in SUBSET Data
  BY <1>1, <1>2 DEF UpdaterInv, UpdaterTypeOK, Contents, RestoreFails, outside, userData, Rest,
     InList, Item
<1>8. /\ bundle' \in {"none", "good", "damaged", "ready"} /\ legacy' \in [Data -> Contents]
      /\ registry' \in {"none", "old", "new"} /\ browser' \in BOOLEAN
      /\ runs' \in 0 .. MaxRuns /\ failures' \in 0 .. MaxFailures
      /\ stuck' \in SUBSET Files
  BY <1>1 DEF UpdaterTypeOK, RestoreFails, outside, userData, Failure
<1>9. run'.result # "none" => run'.step = "idle"
  BY <1>1, <1>2, <1>3 DEF UpdaterTypeOK, Ran
<1> QED BY <1>5, <1>6, <1>7, <1>8, <1>9 DEF UpdaterInv, UpdaterTypeOK

LEMMA VerifyVersionKeeps ==
  ASSUME UpdaterInv, VerifyVersion
  PROVE  UpdaterInv'
<1> USE UpdaterAssumption, ListsTyped
<1>1. /\ UpdaterTypeOK /\ run \in Runs /\ run.step \in Steps /\ run.next \in Nat \ {0}
      /\ run.fresh \in SUBSET Files /\ run.result \in Results /\ run.undone \in BOOLEAN
      /\ run.dry \in BOOLEAN
  BY RunMoves DEF UpdaterInv, UpdaterTypeOK
<1>2. run.step = "verify" /\ UNCHANGED <<install, saved, before, stuck, data, kept, backup>>
  BY <1>1 DEF VerifyVersion, outside, runtime, userData
<1>3. \/ /\ run' = Ran("idle", run.next, run.fresh, run.kind, run.undone)
         /\ run.kind \in Results
      \/ run' = Ran("idle", run.next, run.fresh, "failed", run.undone)
  BY <1>1, RunMoves DEF VerifyVersion, Stop, Runs, Results
<1>4. ASSUME run' = Ran("idle", run.next, run.fresh, run.kind, run.undone)
      /\ run.kind \in Results
     PROVE  Rest' /\ run' \in Runs
  <2>1. /\ run'.step = "idle" /\ run'.next = run.next /\ run'.fresh = run.fresh
        /\ run'.result = run.kind /\ run'.undone = run.undone /\ run'.dry = run.dry
    BY <1>4 DEF Ran
  <2>2. run' \in Runs
    BY <1>1, <1>2, <1>4 DEF Ran, Runs, Steps, Results
  <2>3. InList' /\ DryOK' /\ CopiedOK' /\ ReportOK' /\ AsideOK' /\ BackupOK' /\ ReplaceOK'
    BY <1>1, <1>2, <1>4, <2>1 DEF UpdaterInv, UpdaterTypeOK, Rest, InList, DryOK, CopiedOK,
       ReportOK, Stamped, AsideOK, Changing, File, BackupOK, ReplaceOK, Item
  <2> QED BY <2>2, <2>3 DEF Rest
<1>5. ASSUME run' = Ran("idle", run.next, run.fresh, "failed", run.undone)
     PROVE  Rest' /\ run' \in Runs
  BY <1>2, <1>5, Ends
<1>6. Rest' /\ run' \in Runs
  BY <1>3, <1>4, <1>5
<1>7. /\ install' \in [Files -> Bytes] /\ saved' \in [Files -> Bytes]
      /\ before' \in [Files -> Bytes]
  BY <1>1, <1>2 DEF UpdaterTypeOK, Bytes, VerifyVersion, outside, runtime, userData
<1>8. data' \in [Data -> Contents] /\ backup' \in [Data -> Contents] /\ kept' \in SUBSET Data
  BY <1>1, <1>2 DEF UpdaterInv, UpdaterTypeOK, Contents, VerifyVersion, outside, runtime,
     userData, Rest, InList, Item
<1>9. /\ bundle' \in {"none", "good", "damaged", "ready"} /\ legacy' \in [Data -> Contents]
      /\ registry' \in {"none", "old", "new"} /\ browser' \in BOOLEAN
      /\ runs' \in 0 .. MaxRuns /\ failures' \in 0 .. MaxFailures
      /\ stuck' \in SUBSET Files
  BY <1>1 DEF UpdaterTypeOK, VerifyVersion, outside, runtime, userData
<1>10. run'.result # "none" => run'.step = "idle"
  BY <1>1, <1>2, <1>3 DEF UpdaterTypeOK, Ran
<1> QED BY <1>6, <1>7, <1>8, <1>9, <1>10 DEF UpdaterInv, UpdaterTypeOK

\* What the invariant says of the runtime and the user's data is untouched by a
\* step that changes neither.
LEMMA StillHolds ==
  ASSUME UpdaterInv, UpdaterTypeOK',
         UNCHANGED <<install, saved, before, stuck, data, kept, backup, run>>
  PROVE  UpdaterInv'
BY DEF UpdaterInv, Rest, InList, DryOK, CopiedOK, ReportOK, Stamped, AsideOK, Changing, File,
   BackupOK,
       ReplaceOK, Item

LEMMA DownloadKeeps ==
  ASSUME UpdaterInv, Download
  PROVE  UpdaterInv'
<1>1. UNCHANGED <<install, saved, before, stuck, data, kept, backup, run>>
  BY DEF Download, outside, runtime, userData
<1>2. UpdaterTypeOK'
  BY UpdaterAssumption, <1>1 DEF UpdaterInv, UpdaterTypeOK, Download, outside, runtime, userData
<1> QED BY <1>1, <1>2, StillHolds

LEMMA VerifyKeeps ==
  ASSUME UpdaterInv, Verify
  PROVE  UpdaterInv'
<1>1. UNCHANGED <<install, saved, before, stuck, data, kept, backup, run>>
  BY DEF Verify, outside, runtime, userData
<1>2. UpdaterTypeOK'
  BY UpdaterAssumption, <1>1 DEF UpdaterInv, UpdaterTypeOK, Verify, outside, runtime, userData
<1> QED BY <1>1, <1>2, StillHolds

LEMMA OpenBrowserKeeps ==
  ASSUME UpdaterInv, OpenBrowser
  PROVE  UpdaterInv'
<1>1. UNCHANGED <<install, saved, before, stuck, data, kept, backup, run>>
  BY DEF OpenBrowser, outside, runtime, userData
<1>2. UpdaterTypeOK'
  BY UpdaterAssumption, <1>1 DEF UpdaterInv, UpdaterTypeOK, OpenBrowser, outside, runtime,
     userData, Failure
<1> QED BY <1>1, <1>2, StillHolds

LEMMA CloseBrowserKeeps ==
  ASSUME UpdaterInv, CloseBrowser
  PROVE  UpdaterInv'
<1>1. UNCHANGED <<install, saved, before, stuck, data, kept, backup, run>>
  BY DEF CloseBrowser, outside, runtime, userData
<1>2. UpdaterTypeOK'
  BY UpdaterAssumption, <1>1 DEF UpdaterInv, UpdaterTypeOK, CloseBrowser, outside, runtime, userData
<1> QED BY <1>1, <1>2, StillHolds

LEMMA PowerCutKeeps ==
  ASSUME UpdaterInv, PowerCut
  PROVE  UpdaterInv'
<1> USE UpdaterAssumption, ListsTyped
<1>1. run' = NoRun
  BY DEF PowerCut, NoRun
<1>2. run' \in Runs /\ run'.step = "idle" /\ run'.result = "none" /\ ~run'.undone /\ ~run'.dry
  BY <1>1 DEF NoRun, Runs, Steps, Results
<1>3. UpdaterTypeOK /\ run \in Runs /\ run.next \in Nat \ {0}
  BY RunMoves DEF UpdaterInv, UpdaterTypeOK
<1>4. install' \in [Files -> Bytes]
  BY <1>3 DEF PowerCut, UpdaterTypeOK, Bytes
<1>5. data' \in [Data -> Contents]
  BY <1>3 DEF PowerCut, UpdaterTypeOK, Contents
<1>6. UpdaterTypeOK'
  <2>1. /\ saved' = saved /\ before' = before /\ registry' = registry /\ browser' = FALSE
        /\ kept' = kept /\ backup' = backup /\ UNCHANGED <<bundle, legacy, stuck, runs>>
    BY DEF PowerCut, outside
  <2>2. failures' \in 0 .. MaxFailures
    BY <1>3 DEF PowerCut, UpdaterTypeOK, Failure
  <2> QED BY <1>2, <1>3, <1>4, <1>5, <2>1, <2>2 DEF UpdaterTypeOK
<1>7. InList' /\ DryOK' /\ CopiedOK' /\ ReportOK' /\ AsideOK' /\ BackupOK' /\ ReplaceOK'
  BY <1>2 DEF InList, DryOK, CopiedOK, ReportOK, AsideOK, Changing, BackupOK, ReplaceOK
<1> QED BY <1>6, <1>7 DEF UpdaterInv, Rest

LEMMA BeginKeeps ==
  ASSUME UpdaterInv, NEW force \in BOOLEAN, NEW dry \in BOOLEAN, Begin(force, dry)
  PROVE  UpdaterInv'
<1> USE UpdaterAssumption, ListsTyped
<1> DEFINE current == InstalledVersion = "new" /\ RuntimeMatchesPayload
           result  == CASE current -> "AlreadyCurrent"
                        [] InstalledVersion = "newer" -> "failed"
                        [] OTHER -> "none"
           kind    == IF InstalledVersion = "new" THEN "Repaired" ELSE "Updated"
           step    == IF result = "none" THEN "close" ELSE "idle"
<1>1. UpdaterTypeOK
  BY DEF UpdaterInv
<1>2. run' = [NoRun EXCEPT !.force = force, !.dry = dry, !.result = result, !.kind = kind,
                           !.step = step]
  BY DEF Begin
<1>3. run' = [step |-> step, force |-> force, dry |-> dry, kind |-> kind, next |-> 1,
              fresh |-> {}, result |-> result, undone |-> FALSE]
  <2> HIDE DEF step, kind, result
  <2> QED BY <1>2 DEF NoRun
<1>4. /\ result \in {"AlreadyCurrent", "failed", "none"} /\ kind \in {"Updated", "Repaired"}
      /\ step \in {"close", "idle"} /\ (result # "none" => step = "idle")
      /\ result = "AlreadyCurrent" => RuntimeMatchesPayload
  OBVIOUS
<1> HIDE DEF step, kind, result
<1>5. run' \in Runs /\ (run'.result # "none" => run'.step = "idle")
  BY <1>3, <1>4 DEF Runs, Steps, Results
<1>6. UpdaterTypeOK'
  <2>1. NoFiles \in [Files -> Bytes] /\ NoData \in [Data -> Contents]
    BY DEF NoFiles, NoData, Bytes, Contents
  <2>2. /\ saved' = NoFiles /\ backup' = NoData /\ before' = install /\ runs' \in 0 .. MaxRuns
        /\ stuck' = {} /\ registry' \in {"none", "old", "new"}
    BY <1>1 DEF Begin, UpdaterTypeOK
  <2> QED BY <1>1, <1>5, <2>1, <2>2 DEF Begin, UpdaterTypeOK
<1>7. saved' = NoFiles /\ before' = install /\ install' = install /\ stuck' = {}
  BY DEF Begin
<1>8. InList' /\ DryOK' /\ CopiedOK' /\ BackupOK' /\ ReplaceOK'
  BY <1>3, <1>4, <1>7 DEF InList, DryOK, CopiedOK, BackupOK, Changing, ReplaceOK
<1>9. ReportOK'
  <2>1. run'.result = result /\ run'.step = step
    BY <1>3
  <2> QED BY <2>1, <1>4, <1>7 DEF ReportOK, Stamped, RuntimeMatchesPayload
<1>10. AsideOK'
  BY <1>3, <1>4, <1>7 DEF AsideOK, Changing, NoFiles
<1> QED BY <1>6, <1>8, <1>9, <1>10 DEF UpdaterInv, Rest

\* The invariant holds at first,
LEMMA UpdaterInitOK == UpdaterInit => UpdaterInv
<1> SUFFICES ASSUME UpdaterInit PROVE UpdaterInv
  OBVIOUS
<1> USE UpdaterAssumption, ListsTyped
<1>1. run = NoRun /\ NoRun \in Runs /\ run.step = "idle" /\ run.result = "none" /\ ~run.undone
      /\ ~run.dry
  BY DEF UpdaterInit, NoRun, Runs, Steps, Results
<1>2. install \in [Files -> Bytes]
  BY DEF UpdaterInit, Bytes
<1>3. NoFiles \in [Files -> Bytes] /\ NoData \in [Data -> Contents]
  BY DEF NoFiles, NoData, Bytes, Contents
<1>4. UpdaterTypeOK
  BY <1>1, <1>2, <1>3 DEF UpdaterInit, UpdaterTypeOK, Contents
<1>5. InList /\ DryOK /\ CopiedOK /\ ReportOK /\ AsideOK /\ BackupOK /\ ReplaceOK
  BY <1>1 DEF InList, DryOK, CopiedOK, ReportOK, AsideOK, Changing, BackupOK, ReplaceOK
<1> QED BY <1>4, <1>5 DEF UpdaterInv, Rest

\* and every step keeps it.
LEMMA UpdaterStepOK ==
  ASSUME UpdaterInv, [UpdaterNext]_updaterVars
  PROVE  UpdaterInv'
<1>1. CASE Script
  BY <1>1, CloseVastKeeps, TestLocksKeeps, MigrateItemKeeps, CopyItemKeeps, MigratedKeeps,
     BackupUserDataKeeps, SetAsideKeeps, CopyFileKeeps, CopyFileFailsKeeps, SaveVersionKeeps,
     WriteInstalledVersionFileKeeps, RestoreRuntimeBackupKeeps, VerifyVersionKeeps DEF Script
<1>2. CASE \E force, dry \in BOOLEAN : Begin(force, dry)
  BY <1>2, BeginKeeps
<1>3. CASE UNCHANGED updaterVars
  <2>1. UpdaterTypeOK'
    BY <1>3 DEF UpdaterInv, UpdaterTypeOK, updaterVars
  <2> QED BY <1>3, <2>1, StillHolds DEF updaterVars
<1> QED BY <1>1, <1>2, <1>3, DownloadKeeps, VerifyKeeps, CopyItemFailsKeeps, SetAsideFailsKeeps,
           WriteVersionFailsKeeps, RestoreFailsKeeps, OpenBrowserKeeps, CloseBrowserKeeps,
           PowerCutKeeps DEF UpdaterNext

\* For every list of files and items and however often runs are cut short: a run
\* that reports success has left the bundle's files (ReportedIsInstalled).
THEOREM ReportsAreTrue == UpdaterSpec => []ReportedIsInstalled
<1>1. UpdaterInv => ReportedIsInstalled
  BY DEF UpdaterInv, Rest, ReportedIsInstalled, ReportOK, Stamped
<1> QED BY UpdaterInitOK, UpdaterStepOK, <1>1, PTL DEF UpdaterSpec

\* A rollback that finished and a dry run leave every file but version.json as the
\* run found it, also the missing ones; only a new file that could not be removed
\* stays, whole (LeftAsFound).
THEOREM RollbackIsWhole == UpdaterSpec => []LeftAsFound
<1>1. UpdaterInv => LeftAsFound
  BY DEF UpdaterInv, Rest, LeftAsFound, DryOK, AsideOK
<1> QED BY UpdaterInitOK, UpdaterStepOK, <1>1, PTL DEF UpdaterSpec

\* What a step may do with the runtime and the user's data.
SafeStep ==
    /\ install' # install => \A i \in Critical : backup[i] = data[i]
    /\ \A i \in Data : data'[i] # data[i] =>
          data[i] # "mine" /\ (data[i] = "blank" => i \in kept')

\* No step does anything else with them.
LEMMA StepIsSafe ==
  ASSUME UpdaterInv, [UpdaterNext]_updaterVars
  PROVE  SafeStep
<1> USE UpdaterAssumption, ListsTyped
<1>1. UpdaterTypeOK /\ run \in Runs /\ run.next \in Nat \ {0} /\ data \in [Data -> Contents]
  BY RunMoves DEF UpdaterInv, UpdaterTypeOK
<1>2. install' # install =>
         run.step \in {"aside", "stamp", "undo"}
  BY DEF UpdaterNext, Script, updaterVars, Download, Verify, Begin, CloseVast, TestLocks,
     MigrateItem, CopyItem, CopyItemFails, Migrated, BackupUserData, SetAside, SetAsideFails,
     CopyFile, CopyFileFails, SaveVersion, WriteInstalledVersionFile, WriteVersionFails,
     RestoreRuntimeBackup, RestoreFails, VerifyVersion, OpenBrowser, CloseBrowser, PowerCut,
     outside, runtime
<1>3. install' # install => \A i \in Critical : backup[i] = data[i]
  BY <1>2 DEF UpdaterInv, Rest, DryOK, BackupOK, Changing
<1>4. data' # data => MigrateItem \/ CopyItem \/ CopyItemFails \/ (PowerCut
      /\ run.step = "replaced")
  BY DEF UpdaterNext, Script, updaterVars, Download, Verify, Begin, CloseVast, TestLocks, Migrated,
     BackupUserData, SetAside, SetAsideFails,
     CopyFile, CopyFileFails, SaveVersion, WriteInstalledVersionFile, WriteVersionFails,
     RestoreRuntimeBackup, RestoreFails, VerifyVersion, OpenBrowser, CloseBrowser, PowerCut,
     outside, userData
<1>5. CASE MigrateItem
  BY <1>1, <1>3, <1>5 DEF SafeStep, MigrateItem, HasContent, Contents, userData
<1>6. CASE run.step = "replaced" /\ kept' = kept /\ \A i \in Data : i # Item => data'[i] = data[i]
  BY <1>1, <1>3, <1>6 DEF SafeStep, UpdaterInv, Rest, ReplaceOK
<1>7. CASE CopyItem \/ CopyItemFails \/ (PowerCut /\ run.step = "replaced")
  <2>1. run.step = "replaced" /\ kept' = kept
    BY <1>7 DEF CopyItem, CopyItemFails, PowerCut
  <2>2. \A i \in Data : i # Item => data'[i] = data[i]
    BY <1>1, <1>7 DEF CopyItem, CopyItemFails, PowerCut
  <2> QED BY <1>6, <2>1, <2>2
<1>8. CASE data' = data
  BY <1>3, <1>8 DEF SafeStep
<1> QED BY <1>4, <1>5, <1>7, <1>8

\* No runtime file changes before the critical items are in the backup, and no item
\* with the user's content is ever replaced (UserDataIsSafe).
THEOREM UserDataStaysSafe == UpdaterSpec => UserDataIsSafe
<1>1. UpdaterInv /\ [UpdaterNext]_updaterVars =>
         /\ [install' # install => \A i \in Critical : backup[i] = data[i]]_updaterVars
         /\ [\A i \in Data : data'[i] # data[i] =>
                data[i] # "mine" /\ (data[i] = "blank" => i \in kept')]_updaterVars
  BY StepIsSafe DEF SafeStep
<1> QED
  BY UpdaterInitOK, UpdaterStepOK, <1>1, PTL DEF UpdaterSpec, UserDataIsSafe, BackedUpFirst,
     NoUserDataLost

=============================================================================
