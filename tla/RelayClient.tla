---- MODULE RelayClient ----
(* The Vast Relay client of the main process: VastRelayService, its RelayMessageState  *)
(* and its RelayStateStore.  A timer drives check-ins, a check-in replaces the queue   *)
(* of presentations, the windows show the first one and may dismiss it, and the        *)
(* dismissals survive in vast-relay-state.json.  A network answer, a media download    *)
(* and a write of the state file are each awaited, so they interleave.                 *)
EXTENDS Naturals, Sequences, FiniteSets, SequencesExt

CONSTANTS
    Presentations,    \* presentation ids the backend may sign
    Place,            \* Place[p]: the position of p in the deterministic order, 0 first
    WithMedia,        \* presentations that carry an image
    RelayEnabled,     \* config.enabled
    MaxRetries,       \* RELAY_MAX_RETRIES
    MaxDismissals,    \* MAX_DISMISSALS
    MaxCacheEntries,  \* MAX_CACHE_ENTRIES
    None,
    MaxStarts, MaxQueued, MaxFaults  \* bounds: launches, waiting store calls, faults

Shown == [id : Presentations, media : BOOLEAN]

ASSUME RelayAssumption ==
    /\ Place \in [Presentations -> Nat]
    /\ \A p, q \in Presentations : Place[p] = Place[q] => p = q
    /\ WithMedia \subseteq Presentations
    /\ RelayEnabled \in BOOLEAN
    /\ MaxRetries \in Nat /\ MaxDismissals \in Nat \ {0} /\ MaxCacheEntries \in Nat
    /\ None \notin Presentations /\ None \notin Nat /\ None \notin Shown
    /\ \A ps \in SUBSET Presentations : ps # None
    /\ MaxStarts \in Nat /\ MaxQueued \in Nat /\ MaxFaults \in Nat

VARIABLES
    file,           \* the dismissals in vast-relay-state.json, newest first
    operations,     \* RelayStateStore.queue: calls of the store, the first one running
    localState,     \* VastRelayService.localState: the dismissals it knows, or None
    pending,        \* RelayMessageState.queue, as the set its sort puts in order
    shown,          \* VastRelayService.currentPresentation
    downloads,      \* media downloads under way
    mediaCache,     \* RelayMediaCache.entries, oldest first
    timer,          \* the retryIndex of the scheduled attempt, or None
    attempt,        \* the attempt in flight
    started, stopped,
    promised,       \* history: dismissals the windows were told are done
    atLaunch,       \* history: dismissals the file has listed since before this launch
    starts, faults  \* bounds

disk == <<file, operations>>
memory == <<localState, pending, shown, downloads, mediaCache>>
schedule == <<timer, attempt, started, stopped>>
history == <<promised, atLaunch>>
vars == <<file, operations, localState, pending, shown, downloads, mediaCache,
          timer, attempt, started, stopped, promised, atLaunch, starts, faults>>

NoAttempt == [phase |-> "idle", retry |-> 0, dismissed |-> {}]

Attempts == [phase : {"idle", "asking", "showing"}, retry : 0..MaxRetries,
             dismissed : SUBSET Presentations]

Operations == [kind : {"launch", "dismiss"}, id : Presentations \cup {None},
               read : BOOLEAN, base : Seq(Presentations), lost : BOOLEAN]

Downloads == [id : Presentations, latest : BOOLEAN, for : {"attempt", "dismiss"}]

Init ==
    /\ file = <<>> /\ operations = <<>>
    /\ localState = None /\ pending = {} /\ shown = None
    /\ downloads = {} /\ mediaCache = <<>>
    /\ timer = None /\ attempt = NoAttempt
    /\ started = FALSE /\ stopped = FALSE
    /\ promised = {} /\ atLaunch = {}
    /\ starts = 0 /\ faults = 0

Fault == faults < MaxFaults /\ faults' = faults + 1

-----------------------------------------------------------------------------
\* RelayMessageState: the sort is total, so the queue is the set and its first member.

First(ps) == CHOOSE p \in ps : \A q \in ps : Place[p] <= Place[q]

Position(seq, p) == CHOOSE i \in DOMAIN seq : seq[i] = p

Without(seq, p) == IF p \in ToSet(seq) THEN RemoveAt(seq, Position(seq, p)) ELSE seq

Newest(seq, n) == SubSeq(seq, 1, IF Len(seq) <= n THEN Len(seq) ELSE n)

\* pruneDismissals: one entry for an id, the newest first, no more than the cap.
Pruned(seq, p) == Newest(<<p>> \o Without(seq, p), MaxDismissals)

Cached(seq, p) ==
    LET all == Append(Without(seq, p), p)
    IN  SubSeq(all, IF Len(all) > MaxCacheEntries THEN 2 ELSE 1, Len(all))

-----------------------------------------------------------------------------
\* publishCurrent: a generation tells the latest publication from the earlier ones, so
\* a download carries whether its generation is still the latest.

Superseded == {[d EXCEPT !.latest = FALSE] : d \in downloads}

NeedsMedia(ps) ==
    ps # {} /\ First(ps) \in WithMedia /\ First(ps) \notin ToSet(mediaCache)

PublishCurrent(ps, for) ==
    /\ pending' = ps
    /\ shown' = IF ps = {} THEN None
                ELSE [id |-> First(ps), media |-> First(ps) \in ToSet(mediaCache)]
    /\ downloads' = Superseded \cup
          (IF NeedsMedia(ps) THEN {[id |-> First(ps), latest |-> TRUE, for |-> for]} ELSE {})
    /\ mediaCache' = IF ps # {} /\ First(ps) \in ToSet(mediaCache)
                     THEN Cached(mediaCache, First(ps)) ELSE mediaCache

-----------------------------------------------------------------------------
\* The timer.  Every schedule() is refused once the service was stopped.

\* Mutation of Schedule: the service is not asked whether it was stopped.
ScheduleAlways(retry) == timer' = retry

Schedule(retry) == timer' = IF stopped THEN None ELSE retry

SchedulePeriodic == Schedule(0)

\* The attempt ends: the next one is scheduled, and another may be in flight.
Finish(retry) == attempt' = NoAttempt /\ Schedule(retry)

-----------------------------------------------------------------------------
\* The life of the service.

\* Nothing is awaited before the store's call is queued.
Start ==
    /\ ~started /\ starts < MaxStarts
    /\ started' = TRUE
    /\ operations' = Append(operations,
          [kind |-> "launch", id |-> None, read |-> FALSE, base |-> <<>>, lost |-> FALSE])
    /\ starts' = starts + 1
    /\ UNCHANGED <<file, memory, timer, attempt, stopped, history, faults>>

Stop ==
    /\ ~stopped
    /\ stopped' = TRUE /\ timer' = None
    /\ UNCHANGED <<disk, memory, attempt, started, history, starts, faults>>

\* The process ends, in order or by a crash, and the next launch may begin.
Exit ==
    /\ started
    /\ operations' = <<>>
    /\ localState' = None /\ pending' = {} /\ shown' = None
    /\ downloads' = {} /\ mediaCache' = <<>>
    /\ timer' = None /\ attempt' = NoAttempt
    /\ started' = FALSE /\ stopped' = FALSE
    /\ atLaunch' = {}
    /\ UNCHANGED <<file, promised, starts, faults>>

-----------------------------------------------------------------------------
\* RelayStateStore: each call reads the file, then replaces it, and the next call
\* waits for it.

\* Mutation of Runs: the calls of the store do not wait for one another.
RunsAtOnce(i) == i \in DOMAIN operations

Runs(i) == i = 1 /\ operations # <<>>

\* dismiss: only for the presentation the windows were shown.
Dismiss(p) ==
    /\ shown # None /\ shown.id = p
    /\ Len(operations) < MaxQueued
    /\ operations' = Append(operations,
          [kind |-> "dismiss", id |-> p, read |-> FALSE, base |-> <<>>, lost |-> FALSE])
    /\ UNCHANGED <<file, memory, schedule, history, starts, faults>>

\* A file that cannot be read or parsed counts as a fresh one.
ReadState(i) ==
    /\ Runs(i) /\ ~operations[i].read
    /\ \/ /\ operations' = [operations EXCEPT ![i] = [@ EXCEPT !.read = TRUE, !.base = file]]
          /\ UNCHANGED faults
       \/ /\ operations' = [operations EXCEPT ![i] = [@ EXCEPT !.read = TRUE, !.lost = TRUE]]
          /\ Fault
    /\ UNCHANGED <<file, memory, schedule, history, starts>>

Ready(i, kind) == Runs(i) /\ operations[i].kind = kind /\ operations[i].read

NextFile(i) ==
    IF operations[i].kind = "launch" THEN Newest(operations[i].base, MaxDismissals)
    ELSE Pruned(operations[i].base, operations[i].id)

StillPromised(i) == IF operations[i].lost THEN {} ELSE promised

WriteLaunch(i) ==
    /\ Ready(i, "launch")
    /\ file' = NextFile(i)
    /\ operations' = RemoveAt(operations, i)
    /\ localState' = ToSet(NextFile(i))
    /\ atLaunch' = ToSet(NextFile(i))
    /\ IF RelayEnabled THEN Schedule(0) ELSE UNCHANGED timer
    /\ promised' = StillPromised(i)
    /\ UNCHANGED <<pending, shown, downloads, mediaCache, attempt, started, stopped,
                   starts, faults>>

KnownAfter(i) == ToSet(NextFile(i))

\* The dismissal is kept, and the queue moves on if it still leads with that id.
WriteDismissal(i) ==
    /\ Ready(i, "dismiss")
    /\ file' = NextFile(i)
    /\ operations' = RemoveAt(operations, i)
    /\ localState' = KnownAfter(i)
    /\ atLaunch' = atLaunch \cap ToSet(NextFile(i))
    /\ IF pending # {} /\ First(pending) = operations[i].id
       THEN /\ PublishCurrent(pending \ {operations[i].id}, "dismiss")
            /\ promised' = StillPromised(i) \cup {operations[i].id}
       ELSE /\ promised' = StillPromised(i)
            /\ UNCHANGED <<pending, shown, downloads, mediaCache>>
    /\ UNCHANGED <<schedule, starts, faults>>

\* The file cannot be replaced: the call is refused and nothing changes.
WriteFails(i) ==
    /\ Runs(i) /\ operations[i].read
    /\ Fault
    /\ operations' = RemoveAt(operations, i)
    /\ UNCHANGED <<file, memory, schedule, history, starts>>

-----------------------------------------------------------------------------
\* The check-in.

TimerFires ==
    /\ timer # None
    /\ timer' = None
    /\ attempt' = IF stopped \/ attempt.phase # "idle" \/ localState = None THEN attempt
                  ELSE [phase |-> "asking", retry |-> timer, dismissed |-> localState]
    /\ UNCHANGED <<disk, memory, started, stopped, history, starts, faults>>

\* Mutation of Wanted: an answer is taken whole.
WantsAll(ps) == ps

\* The dismissals are those the service knew when the attempt began.
Wanted(ps) == ps \ attempt.dismissed

\* A signed, current answer arrives.  A stopped service has aborted its request.
Reply(ps) ==
    /\ attempt.phase = "asking" /\ ~stopped
    /\ PublishCurrent(Wanted(ps), "attempt")
    /\ IF NeedsMedia(Wanted(ps))
       THEN attempt' = [attempt EXCEPT !.phase = "showing"] /\ UNCHANGED timer
       ELSE attempt' = NoAttempt /\ SchedulePeriodic
    /\ UNCHANGED <<disk, localState, started, stopped, history, starts, faults>>

NextRetry == IF attempt.retry < MaxRetries THEN attempt.retry + 1 ELSE 0

\* No answer, a limit of the rate, a server error or the 7.5 second timeout.
TemporaryFailure ==
    /\ attempt.phase = "asking"
    /\ Finish(NextRetry)
    /\ UNCHANGED <<disk, memory, started, stopped, history, starts, faults>>

\* An answer that no retry can repair waits for the next periodic check-in.
LastingFailure ==
    /\ attempt.phase = "asking" /\ ~stopped
    /\ Finish(0)
    /\ UNCHANGED <<disk, memory, started, stopped, history, starts, faults>>

\* Mutation of MediaApplies: a download is applied to whatever it was made for.
MediaAppliesAlways(d) == TRUE

MediaApplies(d) == d.latest /\ pending # {} /\ First(pending) = d.id

\* Mutation of AfterMedia: the check-in never learns that the download ended.
AfterMediaForgotten(d) == UNCHANGED <<timer, attempt>>

\* The check-in that waits for the download goes on to its end.
AfterMedia(d) ==
    IF d.for = "attempt" THEN Finish(0) ELSE UNCHANGED <<timer, attempt>>

MediaArrives(d) ==
    /\ downloads' = downloads \ {d}
    /\ IF MediaApplies(d)
       THEN shown' = [id |-> d.id, media |-> TRUE] /\ mediaCache' = Cached(mediaCache, d.id)
       ELSE UNCHANGED <<shown, mediaCache>>
    /\ AfterMedia(d)
    /\ UNCHANGED <<disk, localState, pending, started, stopped, history, starts, faults>>

\* The text stays shown when its image is refused or times out.
MediaFails(d) ==
    /\ downloads' = downloads \ {d}
    /\ AfterMedia(d)
    /\ UNCHANGED <<disk, localState, pending, shown, mediaCache, started, stopped,
                   history, starts, faults>>

-----------------------------------------------------------------------------
Next ==
    \/ Start \/ Stop \/ Exit
    \/ \E p \in Presentations : Dismiss(p)
    \/ \E i \in DOMAIN operations :
          ReadState(i) \/ WriteLaunch(i) \/ WriteDismissal(i) \/ WriteFails(i)
    \/ TimerFires \/ TemporaryFailure \/ LastingFailure
    \/ \E ps \in SUBSET Presentations : Reply(ps)
    \/ \E d \in downloads : MediaArrives(d) \/ MediaFails(d)

Spec == Init /\ [][Next]_vars

\* The request and the downloads are ended by their timeouts, the timer by the clock.
Fairness ==
    /\ WF_vars(TimerFires)
    /\ WF_vars(TemporaryFailure)
    /\ WF_vars(\E d \in downloads : MediaFails(d))

FairSpec == Spec /\ Fairness

-----------------------------------------------------------------------------
\* Each variable has its type.
TypeOK ==
    /\ file \in Seq(Presentations)
    /\ operations \in Seq(Operations)
    /\ localState \in (SUBSET Presentations) \cup {None}
    /\ pending \subseteq Presentations
    /\ shown \in Shown \cup {None}
    /\ downloads \subseteq Downloads
    /\ mediaCache \in Seq(Presentations)
    /\ timer \in 0..MaxRetries \cup {None}
    /\ attempt \in Attempts
    /\ started \in BOOLEAN /\ stopped \in BOOLEAN
    /\ promised \subseteq Presentations /\ atLaunch \subseteq Presentations
    /\ starts \in Nat /\ faults \in Nat

\* The card on screen is the first of the queue, whatever downloads end in what order:
\* an image that comes late never brings back a card that was dismissed or replaced
\* (the generation check of publishCurrent).
ShowsTheFirst ==
    IF pending = {} THEN shown = None
    ELSE shown # None /\ shown.id = First(pending)

\* A dismissal the window was told is done is in the file, through further dismissals,
\* failed writes, crashes and launches, unless newer ones fill the file or the file
\* became unreadable (the serialized read-modify-write of RelayStateStore).
DismissalsKept == promised \subseteq ToSet(file) \/ Len(file) = MaxDismissals

\* What was dismissed before this launch is not shown during it while the file lists it
\* (localState, kept up to date by every dismissal, filters every check-in).
HiddenSinceLaunch == shown # None => shown.id \notin atLaunch

\* A dismissal lasts, in the file and, from the next launch on, on the screen.
DismissalsLast == DismissalsKept /\ HiddenSinceLaunch

\* Once stopped, no timer is armed, whichever of its awaits the service was in; so no
\* later check-in can begin (schedule refuses after stop).
StoppedIsQuiet == stopped => timer = None

\* A service that is running always has either its next attempt scheduled or one in
\* flight, and never both: every way an attempt can end schedules the next one.
AttemptComes ==
    /\ attempt.phase = "idle" \/ timer = None
    /\ RelayEnabled /\ localState # None /\ ~stopped
          => timer # None \/ attempt.phase # "idle"

\* Both: the timer is armed exactly when it must be.
TimerFits == StoppedIsQuiet /\ AttemptComes

\* A running service makes check-ins for ever, whatever fails in between.
ChecksInAgain ==
    (RelayEnabled /\ localState # None /\ ~stopped)
        ~> (attempt.phase = "asking" \/ localState = None \/ stopped)
====
