----------------------------- MODULE RelayProofs -----------------------------
(***************************************************************************)
(* The two sides of the relay, for every value of their constants.          *)
(*                                                                          *)
(* The client: its types, and that it shows the first card, is quiet once   *)
(* stopped, always has a next attempt, hides what earlier launches          *)
(* dismissed and keeps dismissals, for every set of presentations and bound.*)
(*                                                                          *)
(* The admin Worker, for any number of administrators, records and assets.  *)
(* The first argument is about revisions: a page and a request that are in  *)
(* the same life of a record never run ahead of it, and at the same         *)
(* revision they are about the same contents.  The second is about images:  *)
(* of an image no deletion was begun for, the object belongs to the row, or *)
(* else to the only upload that has put it.                                 *)
(***************************************************************************)
EXTENDS RelayClient, RelayWorker, SequenceTheorems, WellFoundedInduction, TLAPS

-----------------------------------------------------------------------------
\* Facts about the operators the model is built from.

\* The first card of a queue that is not empty is in it and no other comes before it.
LEMMA FirstIsIn ==
    ASSUME NEW ps \in SUBSET Presentations, ps # {}
    PROVE  First(ps) \in ps
<1> DEFINE places == {Place[p] : p \in ps}
           before == OpToRel(<, Nat)
<1>1. places \subseteq Nat /\ places # {}
  BY RelayAssumption
<1>2. IsWellFoundedOn(before, Nat)
  BY NatLessThanWellFounded
<1>3. PICK n \in places : \A k \in places : ~(<<k, n>> \in before)
  <2> HIDE DEF places, before
  <2> QED BY <1>1, <1>2, WFMin
<1>4. PICK p \in ps : Place[p] = n
  BY <1>3
<1>5. \A q \in ps : Place[p] <= Place[q]
  <2> SUFFICES ASSUME NEW q \in ps PROVE Place[p] <= Place[q]
    OBVIOUS
  <2>1. Place[q] \in Nat /\ Place[p] \in Nat /\ Place[q] \in places
    BY RelayAssumption
  <2>2. ~(<<Place[q], Place[p]>> \in before)
    BY <1>3, <1>4, <2>1
  <2>3. ~(Place[q] < Place[p])
    BY <2>1, <2>2 DEF OpToRel
  <2> QED BY ONLY <2>1, <2>3
<1> QED BY <1>4, <1>5 DEF First

\* Taking an entry out of a sequence leaves a sequence of the others' members.
LEMMA RemoveAtType ==
    ASSUME NEW S, NEW s \in Seq(S), NEW i \in DOMAIN s
    PROVE  /\ RemoveAt(s, i) \in Seq(S)
           /\ Len(RemoveAt(s, i)) = Len(s) - 1
           /\ \A j \in 1..(Len(s) - 1) : RemoveAt(s, i)[j] = IF j < i THEN s[j] ELSE s[j + 1]
<1> DEFINE a == SubSeq(s, 1, i - 1)
           b == SubSeq(s, i + 1, Len(s))
<1>1. i \in 1..Len(s) /\ Len(s) \in Nat /\ i \in Nat
  OBVIOUS
<1>2. \A j \in 1..(i - 1) : s[j] \in S
  BY <1>1
<1>3. \A j \in (i + 1)..Len(s) : s[j] \in S
  BY <1>1
<1>4. a \in Seq(S) /\ Len(a) = i - 1 /\ \A j \in 1..(i - 1) : a[j] = s[j]
  BY <1>1, <1>2, SubSeqProperties
<1>5. b \in Seq(S) /\ Len(b) = Len(s) - i /\ \A j \in 1..(Len(s) - i) : b[j] = s[j + i]
  <2>1. /\ b \in Seq(S)
        /\ Len(b) = IF i + 1 <= Len(s) THEN Len(s) - (i + 1) + 1 ELSE 0
        /\ \A j \in 1..(Len(s) - (i + 1) + 1) : b[j] = s[i + 1 + j - 1]
    BY <1>1, <1>3, SubSeqProperties
  <2> QED BY <1>1, <2>1
<1>6. /\ a \o b \in Seq(S) /\ Len(a \o b) = Len(a) + Len(b)
      /\ \A j \in 1..(Len(a) + Len(b)) : (a \o b)[j] = IF j <= Len(a) THEN a[j] ELSE b[j - Len(a)]
  BY <1>4, <1>5, ConcatProperties
<1>7. RemoveAt(s, i) = a \o b
  BY DEF RemoveAt
<1>8. \A j \in 1..(Len(s) - 1) : (a \o b)[j] = IF j < i THEN s[j] ELSE s[j + 1]
  <2> SUFFICES ASSUME NEW j \in 1..(Len(s) - 1)
               PROVE  (a \o b)[j] = IF j < i THEN s[j] ELSE s[j + 1]
    OBVIOUS
  <2>1. CASE j < i
    BY <1>1, <1>4, <1>5, <1>6, <2>1
  <2>2. CASE ~(j < i)
    <3>1. j - (i - 1) \in 1..(Len(s) - i) /\ (j - (i - 1)) + i = j + 1
      BY <1>1, <2>2
    <3>2. (a \o b)[j] = b[j - (i - 1)]
      <4>1. Len(a) = i - 1 /\ j \in 1..(Len(a) + Len(b)) /\ ~(j <= Len(a))
        BY <1>1, <1>4, <1>5, <2>2
      <4> HIDE DEF a, b
      <4> QED BY <1>6, <4>1
    <3>3. b[j - (i - 1)] = s[(j - (i - 1)) + i]
      <4> HIDE DEF a, b
      <4> QED BY <1>5, <3>1
    <3> QED BY <2>2, <3>1, <3>2, <3>3
  <2> QED BY <2>1, <2>2
<1> HIDE DEF a, b
<1>9. Len(a \o b) = Len(s) - 1
  <2>1. Len(a \o b) = (i - 1) + (Len(s) - i)
    BY <1>4, <1>5, <1>6
  <2> QED BY <1>1, <2>1
<1> QED BY <1>6, <1>7, <1>8, <1>9

\* A part of a sequence is a sequence of the same members.
LEMMA PartType ==
    ASSUME NEW S, NEW s \in Seq(S), NEW m \in Nat \ {0}, NEW n \in Nat, n <= Len(s)
    PROVE  SubSeq(s, m, n) \in Seq(S)
<1>1. \A i \in m..n : s[i] \in S
  OBVIOUS
<1> QED BY <1>1, SubSeqProperties

\* What a sequence of presentations holds are presentations.
LEMMA ToSetType ==
    ASSUME NEW s \in Seq(Presentations)
    PROVE  ToSet(s) \subseteq Presentations
BY DEF ToSet

\* The newest entries of the file are a sequence of presentations.
LEMMA NewestType ==
    ASSUME NEW s \in Seq(Presentations)
    PROVE  Newest(s, MaxDismissals) \in Seq(Presentations)
<1>1. Len(s) \in Nat /\ 1 \in Nat \ {0} /\ MaxDismissals \in Nat
  BY RelayAssumption
<1>2. CASE Len(s) <= MaxDismissals
  BY <1>1, <1>2, PartType DEF Newest
<1>3. CASE ~(Len(s) <= MaxDismissals)
  BY <1>1, <1>3, PartType DEF Newest
<1> QED BY <1>2, <1>3

\* The operators of the file and of the media cache keep sequences of presentations.
LEMMA SequenceTypes ==
    ASSUME NEW s \in Seq(Presentations), NEW p \in Presentations
    PROVE  /\ Without(s, p) \in Seq(Presentations)
           /\ Pruned(s, p) \in Seq(Presentations)
           /\ Cached(s, p) \in Seq(Presentations)
<1>1. Without(s, p) \in Seq(Presentations)
  <2>1. CASE p \in ToSet(s)
    <3>1. Position(s, p) \in DOMAIN s
      BY <2>1 DEF ToSet, Position
    <3> QED BY <2>1, <3>1, RemoveAtType DEF Without
  <2>2. CASE p \notin ToSet(s)
    BY <2>2 DEF Without
  <2> QED BY <2>1, <2>2
<1>2. Pruned(s, p) \in Seq(Presentations)
  <2>1. <<p>> \o Without(s, p) \in Seq(Presentations)
    BY <1>1, ConcatProperties
  <2> QED BY <2>1, NewestType DEF Pruned
<1>3. Cached(s, p) \in Seq(Presentations)
  <2> DEFINE all == Append(Without(s, p), p)
  <2>1. all \in Seq(Presentations)
    BY <1>1
  <2>2. \A m \in {1, 2} : SubSeq(all, m, Len(all)) \in Seq(Presentations)
    <3> HIDE DEF all
    <3>1. Len(all) \in Nat /\ Len(all) <= Len(all)
      BY <2>1
    <3> QED BY <2>1, <3>1, PartType
  <2> QED BY <2>2 DEF Cached
<1> QED BY <1>1, <1>2, <1>3

\* A call that leaves the store's queue leaves calls in it.
LEMMA RemainingOperations ==
    ASSUME operations \in Seq(Operations), NEW i \in DOMAIN operations
    PROVE  /\ RemoveAt(operations, i) \in Seq(Operations)
           /\ Len(RemoveAt(operations, i)) = Len(operations) - 1
           /\ \A j \in 1..(Len(operations) - 1) :
                 RemoveAt(operations, i)[j] = IF j < i THEN operations[j] ELSE operations[j + 1]
BY RemoveAtType

\* Once the first call is answered each waiting call moves up by one.
LEMMA LaterOperations ==
    ASSUME operations \in Seq(Operations), 1 \in DOMAIN operations
    PROVE  \A j \in DOMAIN RemoveAt(operations, 1) :
              /\ j + 1 \in DOMAIN operations /\ j + 1 # 1
              /\ RemoveAt(operations, 1)[j] = operations[j + 1]
<1>1. /\ RemoveAt(operations, 1) \in Seq(Operations)
      /\ Len(RemoveAt(operations, 1)) = Len(operations) - 1
      /\ \A j \in 1..(Len(operations) - 1) :
            RemoveAt(operations, 1)[j] = IF j < 1 THEN operations[j] ELSE operations[j + 1]
  BY RemainingOperations
<1>2. DOMAIN RemoveAt(operations, 1) = 1..(Len(operations) - 1)
  BY <1>1
<1> QED BY <1>1, <1>2

\* A publication gives the card on screen its type, and shows the first of the queue.
LEMMA PublishType ==
    ASSUME TypeOK, NEW ps \in SUBSET Presentations, NEW for \in {"attempt", "dismiss"},
           PublishCurrent(ps, for)
    PROVE  /\ pending' \subseteq Presentations
           /\ shown' \in Shown \cup {None}
           /\ downloads' \subseteq Downloads
           /\ mediaCache' \in Seq(Presentations)
           /\ ShowsTheFirst'
<1>1. pending' = ps
  BY DEF PublishCurrent
<1>2. ps # {} => First(ps) \in Presentations
  BY FirstIsIn
<1>3. shown' \in Shown \cup {None} /\ ShowsTheFirst'
  <2>1. CASE ps = {}
    BY <1>1, <2>1 DEF PublishCurrent, ShowsTheFirst
  <2>2. CASE ps # {}
    <3>1. shown' = [id |-> First(ps), media |-> First(ps) \in ToSet(mediaCache)]
      BY <2>2 DEF PublishCurrent
    <3>2. (First(ps) \in ToSet(mediaCache)) \in BOOLEAN
      OBVIOUS
    <3>3. shown' \in Shown /\ shown'.id = First(ps)
      BY <1>2, <2>2, <3>1, <3>2 DEF Shown
    <3>4. shown' # None
      BY <2>2, <3>1, <3>3, RelayAssumption
    <3> QED BY <1>1, <2>2, <3>3, <3>4 DEF ShowsTheFirst
  <2> QED BY <2>1, <2>2
<1>4. downloads' \subseteq Downloads
  <2>1. Superseded \subseteq Downloads
    BY DEF Superseded, TypeOK, Downloads
  <2>2. NeedsMedia(ps) => [id |-> First(ps), latest |-> TRUE, for |-> for] \in Downloads
    BY <1>2 DEF NeedsMedia, Downloads
  <2> QED BY <2>1, <2>2 DEF PublishCurrent
<1>5. mediaCache' \in Seq(Presentations)
  BY <1>2, SequenceTypes DEF PublishCurrent, TypeOK
<1> QED BY <1>1, <1>3, <1>4, <1>5

-----------------------------------------------------------------------------
\* The inductive invariant.

\* Only the first call may be the launch's, and then the service knows nothing yet.
OperationsInv ==
    \A j \in DOMAIN operations :
        /\ operations[j].kind = "launch" => j = 1 /\ localState = None
        /\ operations[j].kind = "dismiss" =>
              operations[j].id \in Presentations /\ localState # None

\* Before the launch is recorded nothing was scheduled, asked or shown.
LaunchInv ==
    /\ localState = None => /\ timer = None /\ attempt = NoAttempt
                            /\ pending = {} /\ downloads = {} /\ atLaunch = {}
    /\ ~started => operations = <<>> /\ localState = None

\* What was dismissed before the launch is known, filtered and not queued.
HiddenInv ==
    /\ localState # None => atLaunch \subseteq localState
    /\ attempt.phase = "asking" => atLaunch \subseteq attempt.dismissed
    /\ pending \cap atLaunch = {}

ServiceInv == ShowsTheFirst /\ StoppedIsQuiet /\ AttemptComes

RelayInv == TypeOK /\ OperationsInv /\ LaunchInv /\ HiddenInv /\ ServiceInv

\* No attempt is one of the attempts.
LEMMA NoAttemptType == NoAttempt \in Attempts
BY RelayAssumption DEF NoAttempt, Attempts

\* The invariant holds at the first start.
LEMMA InitRelayInv == Init => RelayInv
<1> SUFFICES ASSUME Init PROVE RelayInv
  OBVIOUS
<1>1. TypeOK
  <2>1. file \in Seq(Presentations) /\ operations \in Seq(Operations)
        /\ mediaCache \in Seq(Presentations)
    BY EmptySeq DEF Init
  <2>2. attempt \in Attempts
    BY NoAttemptType DEF Init
  <2>3. /\ localState = None /\ shown = None /\ timer = None /\ pending = {} /\ downloads = {}
        /\ started = FALSE /\ stopped = FALSE /\ promised = {} /\ atLaunch = {}
        /\ starts = 0 /\ faults = 0
    BY DEF Init
  <2> QED BY <2>1, <2>2, <2>3 DEF TypeOK
<1>2. OperationsInv
  BY DEF Init, OperationsInv
<1>3. LaunchInv /\ HiddenInv
  BY DEF Init, LaunchInv, HiddenInv, NoAttempt
<1>4. ServiceInv
  BY DEF Init, ServiceInv, ShowsTheFirst, StoppedIsQuiet, AttemptComes, NoAttempt
<1> QED BY <1>1, <1>2, <1>3, <1>4 DEF RelayInv

\* Scheduling keeps the timer's type and arms nothing once the service was stopped.
LEMMA ScheduleType ==
    ASSUME TypeOK, NEW retry \in 0..MaxRetries, Schedule(retry)
    PROVE  /\ timer' \in 0..MaxRetries \cup {None}
           /\ stopped => timer' = None
           /\ ~stopped => timer' = retry /\ timer' # None
BY RelayAssumption DEF Schedule

\* Starting, stopping and ending the process.
LEMMA StepsOfTheService ==
    ASSUME RelayInv, Start \/ Stop \/ Exit
    PROVE  RelayInv'
<1> USE DEF RelayInv
<1>1. CASE Start
  <2> DEFINE op == [kind |-> "launch", id |-> None, read |-> FALSE, base |-> <<>>, lost |-> FALSE]
  <2>1. op \in Operations
    BY DEF Operations
  <2>2. operations = <<>> /\ localState = None
    BY <1>1 DEF Start, LaunchInv
  <2>3. operations' = <<op>>
    BY <1>1, <2>2 DEF Start
  <2>4. TypeOK'
    BY <1>1, <2>1, <2>3 DEF Start, TypeOK, memory, history
  <2>5. OperationsInv'
    BY <1>1, <2>2, <2>3 DEF Start, OperationsInv, memory
  <2>6. LaunchInv' /\ HiddenInv' /\ ServiceInv'
    BY <1>1 DEF Start, LaunchInv, HiddenInv, ServiceInv, ShowsTheFirst, StoppedIsQuiet,
               AttemptComes, memory, history
  <2> QED BY <2>4, <2>5, <2>6
<1>2. CASE Stop
  <2>1. TypeOK'
    BY <1>2 DEF Stop, TypeOK, disk, memory, history
  <2>2. OperationsInv' /\ LaunchInv' /\ HiddenInv'
    BY <1>2 DEF Stop, OperationsInv, LaunchInv, HiddenInv, disk, memory, history
  <2>3. ServiceInv'
    BY <1>2 DEF Stop, ServiceInv, ShowsTheFirst, StoppedIsQuiet, AttemptComes, memory
  <2> QED BY <2>1, <2>2, <2>3
<1>3. CASE Exit
  <2>1. TypeOK'
    <3>1. operations' \in Seq(Operations) /\ mediaCache' \in Seq(Presentations)
      BY <1>3, EmptySeq DEF Exit
    <3>2. attempt' \in Attempts
      BY <1>3, NoAttemptType DEF Exit
    <3>3. /\ localState' = None /\ shown' = None /\ timer' = None /\ pending' = {}
          /\ downloads' = {} /\ started' = FALSE /\ stopped' = FALSE /\ atLaunch' = {}
          /\ UNCHANGED <<file, promised, starts, faults>>
      BY <1>3 DEF Exit
    <3> QED BY <3>1, <3>2, <3>3 DEF TypeOK
  <2>2. OperationsInv' /\ LaunchInv' /\ HiddenInv'
    BY <1>3 DEF Exit, OperationsInv, LaunchInv, HiddenInv, NoAttempt
  <2>3. ServiceInv'
    BY <1>3 DEF Exit, ServiceInv, ShowsTheFirst, StoppedIsQuiet, AttemptComes, NoAttempt
  <2> QED BY <2>1, <2>2, <2>3
<1> QED BY <1>1, <1>2, <1>3

\* A click on the card and the reading of the file.
LEMMA StepsOfTheCalls ==
    ASSUME RelayInv,
           \/ \E p \in Presentations : Dismiss(p)
           \/ \E i \in DOMAIN operations : ReadState(i) \/ WriteFails(i)
    PROVE  RelayInv'
<1> USE DEF RelayInv
<1>1. ASSUME NEW p \in Presentations, Dismiss(p) PROVE RelayInv'
  <2> DEFINE op == [kind |-> "dismiss", id |-> p, read |-> FALSE, base |-> <<>>, lost |-> FALSE]
  <2>1. op \in Operations
    BY EmptySeq DEF Operations
  <2>2. operations' = Append(operations, op)
    BY <1>1 DEF Dismiss
  <2>3. localState # None /\ started
    BY <1>1 DEF Dismiss, ServiceInv, ShowsTheFirst, LaunchInv
  <2>4. TypeOK'
    <3> HIDE DEF op
    <3>1. operations' \in Seq(Operations)
      BY <2>1, <2>2 DEF TypeOK
    <3> QED BY <1>1, <3>1 DEF Dismiss, TypeOK, memory, schedule, history
  <2>5. OperationsInv'
    <3> SUFFICES ASSUME NEW j \in DOMAIN operations'
                 PROVE  /\ operations'[j].kind = "launch" => j = 1 /\ localState' = None
                        /\ operations'[j].kind = "dismiss" =>
                              operations'[j].id \in Presentations /\ localState' # None
      BY DEF OperationsInv
    <3>1. operations \in Seq(Operations)
      BY DEF TypeOK
    <3>2. op.kind = "dismiss" /\ op.id = p
      OBVIOUS
    <3> HIDE DEF op
    <3>3. (j \in DOMAIN operations /\ operations'[j] = operations[j]) \/ operations'[j] = op
      BY <2>1, <2>2, <3>1
    <3>4. localState' = localState
      BY <1>1 DEF Dismiss, memory
    <3> QED BY <2>3, <3>2, <3>3, <3>4 DEF OperationsInv
  <2>6. LaunchInv' /\ HiddenInv' /\ ServiceInv'
    BY <1>1, <2>3 DEF Dismiss, LaunchInv, HiddenInv, ServiceInv, ShowsTheFirst,
               StoppedIsQuiet, AttemptComes, memory, schedule, history
  <2> QED BY <2>4, <2>5, <2>6
<1>2. ASSUME NEW i \in DOMAIN operations, ReadState(i) PROVE RelayInv'
  <2>1. operations \in Seq(Operations) /\ operations[i] \in Operations
    BY DEF TypeOK
  <2>2. PICK op \in Operations : /\ operations' = [operations EXCEPT ![i] = op]
                                 /\ op.kind = operations[i].kind /\ op.id = operations[i].id
    <3> DEFINE whole == [operations[i] EXCEPT !.read = TRUE, !.base = file]
               none == [operations[i] EXCEPT !.read = TRUE, !.lost = TRUE]
    <3>1. whole \in Operations /\ whole.kind = operations[i].kind /\ whole.id = operations[i].id
      BY <2>1 DEF Operations, TypeOK
    <3>2. none \in Operations /\ none.kind = operations[i].kind /\ none.id = operations[i].id
      BY <2>1 DEF Operations
    <3>3. \/ operations' = [operations EXCEPT ![i] = whole]
          \/ operations' = [operations EXCEPT ![i] = none]
      BY <1>2 DEF ReadState
    <3> HIDE DEF whole, none
    <3> QED BY <3>1, <3>2, <3>3
  <2>3. operations' \in Seq(Operations) /\ faults' \in Nat
    <3>1. operations' \in Seq(Operations)
      BY <2>1, <2>2
    <3>2. faults \in Nat /\ (faults' = faults \/ faults' = faults + 1)
      BY <1>2 DEF ReadState, Fault, TypeOK
    <3> QED BY <3>1, <3>2
  <2>4. TypeOK'
    BY <1>2, <2>3 DEF ReadState, TypeOK, memory, schedule, history
  <2>5. OperationsInv'
    BY <1>2, <2>1, <2>2 DEF ReadState, OperationsInv, memory
  <2>6. LaunchInv' /\ HiddenInv' /\ ServiceInv'
    <3>1. started
      BY <1>2 DEF LaunchInv
    <3> QED BY <1>2, <3>1 DEF ReadState, LaunchInv, HiddenInv, ServiceInv, ShowsTheFirst,
               StoppedIsQuiet, AttemptComes, memory, schedule, history
  <2> QED BY <2>4, <2>5, <2>6
<1>3. ASSUME NEW i \in DOMAIN operations, WriteFails(i) PROVE RelayInv'
  <2>1. operations \in Seq(Operations) /\ i = 1 /\ operations' = RemoveAt(operations, i)
    BY <1>3 DEF TypeOK, WriteFails, Runs
  <2>2. TypeOK'
    <3>1. operations' \in Seq(Operations)
      BY <2>1, RemainingOperations
    <3>2. faults' \in Nat
      BY <1>3 DEF WriteFails, Fault, TypeOK
    <3> QED BY <1>3, <3>1, <3>2 DEF WriteFails, TypeOK, memory, schedule, history
  <2>3. OperationsInv'
    BY <1>3, <2>1, LaterOperations DEF WriteFails, OperationsInv, memory
  <2>4. LaunchInv' /\ HiddenInv' /\ ServiceInv'
    <3>1. started
      BY <1>3 DEF LaunchInv
    <3> QED BY <1>3, <3>1 DEF WriteFails, LaunchInv, HiddenInv, ServiceInv, ShowsTheFirst,
               StoppedIsQuiet, AttemptComes, memory, schedule, history
  <2> QED BY <2>2, <2>3, <2>4
<1> QED BY <1>1, <1>2, <1>3

\* What a call writes is a sequence of presentations.
LEMMA NextFileType ==
    ASSUME RelayInv, NEW i \in DOMAIN operations,
           operations[i].kind \in {"launch", "dismiss"}
    PROVE  NextFile(i) \in Seq(Presentations) /\ ToSet(NextFile(i)) \subseteq Presentations
<1>1. operations[i].base \in Seq(Presentations)
  <2>1. operations[i] \in Operations
    BY DEF RelayInv, TypeOK
  <2> QED BY <2>1 DEF Operations
<1>2. NextFile(i) \in Seq(Presentations)
  <2>1. CASE operations[i].kind = "launch"
    BY <1>1, <2>1, SequenceTypes, NewestType DEF NextFile
  <2>2. CASE operations[i].kind = "dismiss"
    <3>1. operations[i].id \in Presentations
      BY <2>2 DEF RelayInv, OperationsInv
    <3> QED BY <1>1, <2>2, <3>1, SequenceTypes DEF NextFile
  <2> QED BY <2>1, <2>2
<1> QED BY <1>2, ToSetType

\* Recording the launch.
LEMMA StepOfTheLaunch ==
    ASSUME RelayInv, NEW i \in DOMAIN operations, WriteLaunch(i)
    PROVE  RelayInv'
<1> USE DEF RelayInv
<1>1. operations \in Seq(Operations) /\ i = 1 /\ operations' = RemoveAt(operations, i)
  BY DEF TypeOK, WriteLaunch, Ready, Runs
<1>2. localState = None /\ started
  BY DEF WriteLaunch, Ready, OperationsInv, LaunchInv
<1>3. NextFile(i) \in Seq(Presentations) /\ ToSet(NextFile(i)) \subseteq Presentations
  BY NextFileType DEF WriteLaunch, Ready
<1>4. ToSet(NextFile(i)) # None
  BY <1>3, RelayAssumption
<1>5. 0 \in 0..MaxRetries
  BY RelayAssumption
<1>6. /\ timer' \in 0..MaxRetries \cup {None}
      /\ stopped => timer' = None
      /\ RelayEnabled /\ ~stopped => timer' # None
  <2>1. CASE RelayEnabled
    BY <1>5, <2>1, ScheduleType DEF WriteLaunch
  <2>2. CASE ~RelayEnabled
    BY <1>2, <2>2 DEF WriteLaunch, LaunchInv
  <2> QED BY <2>1, <2>2
<1>7. TypeOK'
  <2>1. operations' \in Seq(Operations)
    BY <1>1, RemainingOperations
  <2>2. promised' \subseteq Presentations
    BY DEF WriteLaunch, StillPromised, TypeOK
  <2> QED BY <1>3, <1>6, <2>1, <2>2 DEF WriteLaunch, TypeOK
<1>8. OperationsInv'
  BY <1>1, <1>2, LaterOperations DEF OperationsInv
<1>9. LaunchInv'
  BY <1>2, <1>4 DEF WriteLaunch, LaunchInv
<1>10. HiddenInv'
  BY <1>2 DEF WriteLaunch, HiddenInv, LaunchInv, NoAttempt
<1>11. ServiceInv'
  BY <1>2, <1>6 DEF WriteLaunch, ServiceInv, LaunchInv, NoAttempt, ShowsTheFirst,
                    StoppedIsQuiet, AttemptComes
<1> QED BY <1>7, <1>8, <1>9, <1>10, <1>11

\* Recording a dismissal.
LEMMA StepOfTheDismissal ==
    ASSUME RelayInv, NEW i \in DOMAIN operations, WriteDismissal(i)
    PROVE  RelayInv'
<1> USE DEF RelayInv
<1>1. operations \in Seq(Operations) /\ i = 1 /\ operations' = RemoveAt(operations, i)
  BY DEF TypeOK, WriteDismissal, Ready, Runs
<1>2. started /\ operations[i].id \in Presentations
  BY DEF WriteDismissal, Ready, OperationsInv, LaunchInv
<1>3. NextFile(i) \in Seq(Presentations) /\ ToSet(NextFile(i)) \subseteq Presentations
  BY NextFileType DEF WriteDismissal, Ready
<1>4. localState' = ToSet(NextFile(i)) /\ localState' # None
  BY <1>3, RelayAssumption DEF WriteDismissal, KnownAfter
<1>5. /\ pending' \subseteq pending
      /\ shown' \in Shown \cup {None} /\ downloads' \subseteq Downloads
      /\ mediaCache' \in Seq(Presentations) /\ ShowsTheFirst'
      /\ promised' \subseteq Presentations
  <2>1. CASE pending # {} /\ First(pending) = operations[i].id
    <3>1. PublishCurrent(pending \ {operations[i].id}, "dismiss")
      BY <2>1 DEF WriteDismissal
    <3>2. pending \ {operations[i].id} \in SUBSET Presentations
      BY DEF TypeOK
    <3>3. pending' = pending \ {operations[i].id}
      BY <3>1 DEF PublishCurrent
    <3>4. promised' \subseteq Presentations
      BY <1>2, <2>1 DEF WriteDismissal, StillPromised, TypeOK
    <3> QED BY <3>1, <3>2, <3>3, <3>4, PublishType
  <2>2. CASE ~(pending # {} /\ First(pending) = operations[i].id)
    BY <2>2 DEF WriteDismissal, StillPromised, TypeOK, ServiceInv, ShowsTheFirst
  <2> QED BY <2>1, <2>2
<1>6. UNCHANGED schedule /\ UNCHANGED <<starts, faults>>
  BY DEF WriteDismissal
<1>7. atLaunch' = atLaunch \cap ToSet(NextFile(i)) /\ file' = NextFile(i)
  BY DEF WriteDismissal
<1>8. TypeOK'
  <2>1. operations' \in Seq(Operations)
    BY <1>1, RemainingOperations
  <2>2. pending' \subseteq Presentations
    BY <1>5 DEF TypeOK
  <2> QED BY <1>3, <1>4, <1>5, <1>6, <1>7, <2>1, <2>2 DEF TypeOK, schedule
<1>9. OperationsInv'
  BY <1>1, <1>4, LaterOperations DEF OperationsInv
<1>10. LaunchInv'
  BY <1>2, <1>4, <1>6 DEF LaunchInv, schedule
<1>11. HiddenInv'
  BY <1>4, <1>5, <1>6, <1>7 DEF HiddenInv, schedule
<1>12. localState # None
  BY DEF WriteDismissal, Ready, OperationsInv
<1>13. ServiceInv'
  BY <1>5, <1>6, <1>12 DEF ServiceInv, StoppedIsQuiet, AttemptComes, schedule
<1> QED BY <1>8, <1>9, <1>10, <1>11, <1>13

\* A check-in that begins.
LEMMA StepOfTheTimer ==
    ASSUME RelayInv, TimerFires
    PROVE  RelayInv'
<1> USE DEF RelayInv
<1>1. attempt.phase = "idle" /\ ~stopped /\ localState # None /\ timer \in 0..MaxRetries
  BY DEF TimerFires, TypeOK, ServiceInv, StoppedIsQuiet, AttemptComes, LaunchInv
<1>2. attempt' = [phase |-> "asking", retry |-> timer, dismissed |-> localState]
  BY <1>1 DEF TimerFires
<1>3. attempt' \in Attempts
  BY <1>1, <1>2 DEF TypeOK, Attempts
<1>4. TypeOK'
  BY <1>3 DEF TimerFires, TypeOK, disk, memory, history
<1>5. OperationsInv' /\ LaunchInv'
  BY <1>1 DEF TimerFires, OperationsInv, LaunchInv, disk, memory, history
<1>6. HiddenInv'
  BY <1>1, <1>2 DEF TimerFires, HiddenInv, memory, history
<1>7. ServiceInv'
  BY <1>1, <1>2 DEF TimerFires, ServiceInv, ShowsTheFirst, StoppedIsQuiet, AttemptComes, memory
<1> QED BY <1>4, <1>5, <1>6, <1>7

\* The end of an attempt leaves the next one scheduled.
LEMMA FinishedAttempt ==
    ASSUME RelayInv, NEW retry \in 0..MaxRetries, Finish(retry)
    PROVE  /\ timer' \in 0..MaxRetries \cup {None} /\ attempt' \in Attempts
           /\ attempt'.phase = "idle" /\ attempt' = NoAttempt
           /\ stopped => timer' = None
           /\ ~stopped => timer' # None
BY ScheduleType, NoAttemptType DEF Finish, NoAttempt, RelayInv

\* A check-in that fails.
LEMMA StepsOfFailure ==
    ASSUME RelayInv, TemporaryFailure \/ LastingFailure
    PROVE  RelayInv'
<1> USE DEF RelayInv
<1>1. attempt.phase = "asking" /\ attempt \in Attempts
  BY DEF TemporaryFailure, LastingFailure, TypeOK
<1>2. localState # None
  BY <1>1 DEF LaunchInv, NoAttempt
<1>3. PICK retry \in 0..MaxRetries : Finish(retry)
  <2>1. 0 \in 0..MaxRetries /\ MaxRetries \in Nat
    BY RelayAssumption
  <2>2. NextRetry \in 0..MaxRetries
    <3>1. attempt.retry \in 0..MaxRetries
      BY <1>1 DEF Attempts
    <3> QED BY <2>1, <3>1 DEF NextRetry
  <2> QED BY <2>1, <2>2 DEF TemporaryFailure, LastingFailure
<1>4. /\ UNCHANGED disk /\ UNCHANGED memory /\ UNCHANGED <<started, stopped>>
      /\ UNCHANGED history /\ UNCHANGED <<starts, faults>>
  BY DEF TemporaryFailure, LastingFailure
<1>5. /\ timer' \in 0..MaxRetries \cup {None} /\ attempt' \in Attempts
      /\ attempt'.phase = "idle"
      /\ stopped => timer' = None
      /\ ~stopped => timer' # None
  BY <1>3, FinishedAttempt
<1>6. TypeOK'
  BY <1>4, <1>5 DEF TypeOK, disk, memory, history
<1>7. OperationsInv' /\ LaunchInv' /\ HiddenInv'
  BY <1>2, <1>4, <1>5 DEF OperationsInv, LaunchInv, HiddenInv, disk, memory, history
<1>8. ServiceInv'
  BY <1>4, <1>5 DEF ServiceInv, ShowsTheFirst, StoppedIsQuiet, AttemptComes, memory
<1> QED BY <1>6, <1>7, <1>8

\* A check-in that is answered.
LEMMA StepOfTheReply ==
    ASSUME RelayInv, NEW ps \in SUBSET Presentations, Reply(ps)
    PROVE  RelayInv'
<1> USE DEF RelayInv
<1> DEFINE wanted == Wanted(ps)
<1>1. attempt.phase = "asking" /\ attempt \in Attempts /\ ~stopped
  BY DEF Reply, TypeOK
<1>2. localState # None
  BY <1>1 DEF LaunchInv, NoAttempt
<1>3. wanted \in SUBSET Presentations /\ wanted \cap atLaunch = {}
  BY <1>1 DEF Wanted, HiddenInv
<1>4. /\ pending' \subseteq Presentations /\ shown' \in Shown \cup {None}
      /\ downloads' \subseteq Downloads /\ mediaCache' \in Seq(Presentations)
      /\ ShowsTheFirst'
  BY <1>3, PublishType DEF Reply
<1>5. pending' = wanted
  BY DEF Reply, PublishCurrent
<1>6. timer = None
  BY <1>1 DEF ServiceInv, AttemptComes
<1>7. /\ timer' \in 0..MaxRetries \cup {None} /\ attempt' \in Attempts
      /\ attempt'.phase \in {"idle", "showing"}
      /\ attempt'.phase = "showing" => timer' = None
      /\ attempt'.phase = "idle" => timer' # None
  <2>1. CASE NeedsMedia(wanted)
    <3>1. attempt' = [attempt EXCEPT !.phase = "showing"] /\ timer' = timer
      BY <2>1 DEF Reply
    <3> QED BY <1>1, <1>6, <3>1 DEF Attempts
  <2>2. CASE ~NeedsMedia(wanted)
    <3>1. attempt' = NoAttempt /\ Schedule(0)
      BY <2>2 DEF Reply, SchedulePeriodic
    <3>2. 0 \in 0..MaxRetries
      BY RelayAssumption
    <3>3. attempt'.phase = "idle"
      BY <3>1 DEF NoAttempt
    <3> QED BY <1>1, <3>1, <3>2, <3>3, ScheduleType, NoAttemptType
  <2> QED BY <2>1, <2>2
<1>8. /\ UNCHANGED disk /\ localState' = localState /\ UNCHANGED <<started, stopped>>
      /\ UNCHANGED history /\ UNCHANGED <<starts, faults>>
  BY DEF Reply
<1>9. TypeOK'
  BY <1>4, <1>7, <1>8 DEF TypeOK, disk, history
<1>10. OperationsInv' /\ LaunchInv'
  BY <1>2, <1>8 DEF OperationsInv, LaunchInv, disk
<1>11. HiddenInv'
  BY <1>3, <1>5, <1>7, <1>8 DEF HiddenInv, history
<1>12. ServiceInv'
  BY <1>1, <1>4, <1>7, <1>8 DEF ServiceInv, StoppedIsQuiet, AttemptComes
<1> QED BY <1>9, <1>10, <1>11, <1>12

\* A download that ends, with the image or without it.
LEMMA StepsOfTheMedia ==
    ASSUME RelayInv, NEW d \in downloads, MediaArrives(d) \/ MediaFails(d)
    PROVE  RelayInv'
<1> USE DEF RelayInv
<1>1. d \in Downloads /\ d.id \in Presentations /\ localState # None
  BY DEF TypeOK, Downloads, LaunchInv
<1>2. /\ UNCHANGED disk /\ UNCHANGED <<localState, pending, started, stopped>>
      /\ UNCHANGED history /\ UNCHANGED <<starts, faults>>
      /\ downloads' = downloads \ {d} /\ AfterMedia(d)
  BY DEF MediaArrives, MediaFails
<1>3. /\ shown' \in Shown \cup {None} /\ mediaCache' \in Seq(Presentations)
      /\ ShowsTheFirst'
  <2>1. CASE MediaArrives(d) /\ MediaApplies(d)
    <3>1. shown' = [id |-> d.id, media |-> TRUE] /\ mediaCache' = Cached(mediaCache, d.id)
      BY <2>1 DEF MediaArrives
    <3>2. shown' \in Shown /\ shown' # None /\ shown'.id = d.id
      <4>1. shown' \in Shown /\ shown'.id = d.id
        BY <1>1, <3>1 DEF Shown
      <4> QED BY <4>1, RelayAssumption
    <3>3. mediaCache' \in Seq(Presentations)
      BY <1>1, <3>1, SequenceTypes DEF TypeOK
    <3> QED BY <1>2, <2>1, <3>2, <3>3 DEF MediaApplies, ShowsTheFirst
  <2>2. CASE UNCHANGED <<shown, mediaCache>>
    BY <1>2, <2>2 DEF TypeOK, ServiceInv, ShowsTheFirst
  <2> QED BY <2>1, <2>2 DEF MediaArrives, MediaFails
<1>4. /\ timer' \in 0..MaxRetries \cup {None} /\ attempt' \in Attempts
      /\ attempt' = attempt \/ attempt'.phase = "idle"
      /\ StoppedIsQuiet' /\ AttemptComes'
  <2>1. CASE Finish(0)
    <3>1. 0 \in 0..MaxRetries
      BY RelayAssumption
    <3>2. /\ timer' \in 0..MaxRetries \cup {None} /\ attempt' \in Attempts
          /\ attempt'.phase = "idle" /\ attempt' = NoAttempt
          /\ stopped => timer' = None
          /\ ~stopped => timer' # None
      BY <2>1, <3>1, FinishedAttempt
    <3>3. StoppedIsQuiet' /\ AttemptComes'
      BY <1>2, <3>2 DEF StoppedIsQuiet, AttemptComes
    <3> QED BY <3>2, <3>3
  <2>2. CASE UNCHANGED <<timer, attempt>>
    BY <1>2, <2>2 DEF TypeOK, ServiceInv, StoppedIsQuiet, AttemptComes, NoAttempt
  <2> QED BY <1>2, <2>1, <2>2 DEF AfterMedia
<1>5. TypeOK'
  BY <1>2, <1>3, <1>4 DEF TypeOK, disk, history
<1>6. OperationsInv' /\ LaunchInv'
  BY <1>1, <1>2 DEF OperationsInv, LaunchInv, disk
<1>7. HiddenInv'
  BY <1>2, <1>4 DEF HiddenInv, history
<1> QED BY <1>3, <1>4, <1>5, <1>6, <1>7 DEF ServiceInv

\* Every step keeps the invariant.
LEMMA NextRelayInv == RelayInv /\ [Next]_vars => RelayInv'
<1> SUFFICES ASSUME RelayInv, [Next]_vars PROVE RelayInv'
  OBVIOUS
<1>1. CASE Start \/ Stop \/ Exit
  BY <1>1, StepsOfTheService
<1>2. CASE \/ \E p \in Presentations : Dismiss(p)
           \/ \E i \in DOMAIN operations : ReadState(i) \/ WriteFails(i)
  BY <1>2, StepsOfTheCalls
<1>3. CASE \E i \in DOMAIN operations : WriteLaunch(i)
  BY <1>3, StepOfTheLaunch
<1>4. CASE \E i \in DOMAIN operations : WriteDismissal(i)
  BY <1>4, StepOfTheDismissal
<1>5. CASE TimerFires
  BY <1>5, StepOfTheTimer
<1>6. CASE TemporaryFailure \/ LastingFailure
  BY <1>6, StepsOfFailure
<1>7. CASE \E ps \in SUBSET Presentations : Reply(ps)
  BY <1>7, StepOfTheReply
<1>8. CASE \E d \in downloads : MediaArrives(d) \/ MediaFails(d)
  BY <1>8, StepsOfTheMedia
<1>9. CASE UNCHANGED vars
  BY <1>9 DEF vars, RelayInv, TypeOK, OperationsInv, LaunchInv, HiddenInv, ServiceInv,
              ShowsTheFirst, StoppedIsQuiet, AttemptComes
<1> QED BY <1>1, <1>2, <1>3, <1>4, <1>5, <1>6, <1>7, <1>8, <1>9 DEF Next

\* The invariant holds in every state.
LEMMA RelayInvHolds == Spec => []RelayInv
BY InitRelayInv, NextRelayInv, PTL DEF Spec

-----------------------------------------------------------------------------
\* Dismissals stay: what the calls of the store do to the file.

\* Cutting a sequence to the cap keeps its first member, and all of it unless it is full.
LEMMA NewestKeeps ==
    ASSUME NEW s \in Seq(Presentations), s # <<>>
    PROVE  LET t == Newest(s, MaxDismissals)
           IN  /\ s[1] \in ToSet(t)
               /\ Len(s) <= MaxDismissals => ToSet(t) = ToSet(s) /\ Len(t) = Len(s)
               /\ MaxDismissals <= Len(s) => Len(t) = MaxDismissals
<1> DEFINE n == IF Len(s) <= MaxDismissals THEN Len(s) ELSE MaxDismissals
           t == Newest(s, MaxDismissals)
<1>1. Len(s) \in Nat /\ 1 <= Len(s) /\ MaxDismissals \in Nat /\ 1 <= MaxDismissals
  BY RelayAssumption
<1>2. n \in Nat /\ 1 <= n /\ n <= Len(s) /\ t = SubSeq(s, 1, n)
  BY <1>1 DEF Newest
<1>3. \A j \in 1..n : s[j] \in Presentations
  BY <1>2
<1>4. Len(t) = n /\ (\A j \in 1..n : t[j] = s[j]) /\ DOMAIN t = 1..n
  <2> HIDE DEF n
  <2>1. /\ SubSeq(s, 1, n) \in Seq(Presentations)
        /\ Len(SubSeq(s, 1, n)) = IF 1 <= n THEN n - 1 + 1 ELSE 0
        /\ \A j \in 1..(n - 1 + 1) : SubSeq(s, 1, n)[j] = s[1 + j - 1]
    BY <1>2, <1>3, SubSeqProperties
  <2> QED BY <1>2, <2>1
<1>5. s[1] \in ToSet(t)
  <2>1. 1 \in DOMAIN t /\ t[1] = s[1]
    BY <1>2, <1>4
  <2> QED BY <2>1 DEF ToSet
<1>6. ASSUME Len(s) <= MaxDismissals PROVE ToSet(t) = ToSet(s) /\ Len(t) = Len(s)
  <2>1. n = Len(s) /\ DOMAIN s = 1..n
    BY <1>6
  <2>2. ToSet(t) = {t[j] : j \in 1..n} /\ ToSet(s) = {s[j] : j \in 1..n}
    BY <1>4, <2>1 DEF ToSet
  <2> QED BY <1>4, <2>1, <2>2
<1>7. MaxDismissals <= Len(s) => n = MaxDismissals
  BY <1>1
<1> QED BY <1>4, <1>5, <1>6, <1>7

\* Taking p out once leaves every other member, and shortens the sequence by one at most.
LEMMA WithoutKeeps ==
    ASSUME NEW s \in Seq(Presentations), NEW p \in Presentations
    PROVE  /\ ToSet(s) \ {p} \subseteq ToSet(Without(s, p))
           /\ Len(s) <= Len(Without(s, p)) + 1
<1>1. CASE p \in ToSet(s)
  <2> DEFINE k == Position(s, p)
             t == RemoveAt(s, k)
  <2>1. k \in DOMAIN s /\ s[k] = p
    BY <1>1 DEF ToSet, Position
  <2>2. /\ t \in Seq(Presentations) /\ Len(t) = Len(s) - 1
        /\ \A j \in 1..(Len(s) - 1) : t[j] = IF j < k THEN s[j] ELSE s[j + 1]
    BY <2>1, RemoveAtType
  <2>3. ASSUME NEW x \in ToSet(s) \ {p} PROVE x \in ToSet(t)
    <3>1. PICK i \in DOMAIN s : s[i] = x
      BY DEF ToSet
    <3>2. i # k /\ i \in 1..Len(s) /\ k \in 1..Len(s) /\ Len(s) \in Nat
      BY <2>1, <3>1
    <3> HIDE DEF k, t
    <3>3. CASE i < k
      <4>1. i \in 1..(Len(s) - 1)
        BY <3>2, <3>3
      <4>2. i \in DOMAIN t /\ t[i] = x
        BY <2>2, <3>1, <3>3, <4>1
      <4> QED BY <4>2 DEF ToSet
    <3>4. CASE k < i
      <4>1. i - 1 \in 1..(Len(s) - 1) /\ ~(i - 1 < k) /\ (i - 1) + 1 = i
        BY <3>2, <3>4
      <4>2. i - 1 \in DOMAIN t /\ t[i - 1] = x
        BY <2>2, <3>1, <4>1
      <4> QED BY <4>2 DEF ToSet
    <3> QED BY <3>2, <3>3, <3>4
  <2>4. Without(s, p) = t
    BY <1>1 DEF Without
  <2> HIDE DEF t
  <2> QED BY <2>2, <2>3, <2>4
<1>2. CASE p \notin ToSet(s)
  BY <1>2 DEF Without
<1> QED BY <1>1, <1>2

\* A dismissal is in the file that records it, and what was there before stays there or
\* the file is full; a full file stays full.
LEMMA PrunedKeeps ==
    ASSUME NEW s \in Seq(Presentations), NEW p \in Presentations
    PROVE  /\ p \in ToSet(Pruned(s, p))
           /\ ToSet(s) \subseteq ToSet(Pruned(s, p)) \/ Len(Pruned(s, p)) = MaxDismissals
           /\ Len(s) = MaxDismissals => Len(Pruned(s, p)) = MaxDismissals
<1> DEFINE w == Without(s, p)
           all == <<p>> \o w
<1>1. w \in Seq(Presentations) /\ ToSet(s) \ {p} \subseteq ToSet(w) /\ Len(s) <= Len(w) + 1
  BY SequenceTypes, WithoutKeeps
<1> HIDE DEF w
<1>2. /\ all \in Seq(Presentations) /\ Len(all) = Len(w) + 1 /\ all # <<>> /\ all[1] = p
      /\ \A j \in 1..Len(w) : all[j + 1] = w[j]
  BY <1>1
<1>3. ToSet(w) \subseteq ToSet(all) /\ p \in ToSet(all)
  <2>1. ASSUME NEW j \in DOMAIN w PROVE w[j] \in ToSet(all)
    <3>1. j \in 1..Len(w) /\ j + 1 \in DOMAIN all
      BY <1>1, <1>2
    <3> QED BY <1>2, <3>1 DEF ToSet
  <2>2. 1 \in DOMAIN all
    BY <1>1, <1>2
  <2> QED BY <1>2, <2>1, <2>2 DEF ToSet
<1>4. Pruned(s, p) = Newest(all, MaxDismissals)
  BY DEF Pruned, w
<1> HIDE DEF all
<1>5. MaxDismissals \in Nat /\ Len(all) \in Nat /\ Len(s) \in Nat
  BY <1>2, RelayAssumption
<1>6. ToSet(s) \subseteq ToSet(all) /\ Len(s) <= Len(all)
  BY <1>1, <1>2, <1>3
<1> QED BY <1>2, <1>4, <1>5, <1>6, NewestKeeps

-----------------------------------------------------------------------------
\* The running call has read what the file holds, or nothing.
ReadsInv ==
    \A j \in DOMAIN operations :
        /\ operations[j].read => j = 1
        /\ operations[j].lost => operations[j].read
        /\ operations[j].base = IF operations[j].read /\ ~operations[j].lost THEN file ELSE <<>>

DismissedInv == RelayInv /\ ReadsInv /\ DismissalsKept

\* What the running call writes keeps what it read, or fills the file.
LEMMA NextFileKeeps ==
    ASSUME DismissedInv, NEW i \in DOMAIN operations, Runs(i), operations[i].read,
           operations[i].kind \in {"launch", "dismiss"}
    PROVE  /\ StillPromised(i) \subseteq ToSet(NextFile(i)) \/ Len(NextFile(i)) = MaxDismissals
           /\ operations[i].kind = "dismiss" =>
                 \/ StillPromised(i) \cup {operations[i].id} \subseteq ToSet(NextFile(i))
                 \/ Len(NextFile(i)) = MaxDismissals
<1> DEFINE base == operations[i].base
<1>1. file \in Seq(Presentations) /\ <<>> \in Seq(Presentations) /\ base \in {file, <<>>}
  BY EmptySeq DEF DismissedInv, ReadsInv, RelayInv, TypeOK
<1>2. StillPromised(i) \subseteq ToSet(base) \/ Len(base) = MaxDismissals
  BY DEF DismissedInv, ReadsInv, DismissalsKept, StillPromised
<1> HIDE DEF base
<1>3. base \in Seq(Presentations) /\ MaxDismissals \in Nat \ {0} /\ Len(base) \in Nat
  <2>1. base \in Seq(Presentations)
    BY <1>1
  <2> QED BY <2>1, RelayAssumption
<1>4. CASE operations[i].kind = "launch"
  <2>1. NextFile(i) = Newest(base, MaxDismissals)
    BY <1>4 DEF NextFile, base
  <2>2. CASE base = <<>>
    <3>1. StillPromised(i) = {}
      BY <1>2, <1>3, <2>2 DEF ToSet
    <3> QED BY <1>4, <3>1
  <2>3. CASE base # <<>>
    BY <1>2, <1>3, <1>4, <2>1, <2>3, NewestKeeps
  <2> QED BY <2>2, <2>3
<1>5. CASE operations[i].kind = "dismiss"
  <2>1. NextFile(i) = Pruned(base, operations[i].id) /\ operations[i].id \in Presentations
    BY <1>5 DEF NextFile, base, DismissedInv, RelayInv, OperationsInv
  <2> QED BY <1>2, <1>3, <2>1, PrunedKeeps
<1> QED BY <1>4, <1>5

\* The first call is answered: the calls behind it have read nothing.
LEMMA LaterReads ==
    ASSUME DismissedInv, NEW i \in DOMAIN operations, Runs(i),
           operations' = RemoveAt(operations, i)
    PROVE  ReadsInv'
<1>1. operations \in Seq(Operations) /\ i = 1
  BY DEF DismissedInv, RelayInv, TypeOK, Runs
<1>2. \A j \in DOMAIN operations' :
          j + 1 \in DOMAIN operations /\ j + 1 # 1 /\ operations'[j] = operations[j + 1]
  BY <1>1, LaterOperations
<1> QED BY <1>2 DEF ReadsInv, DismissedInv

\* Every step keeps what the windows were told.
LEMMA NextDismissedInv == DismissedInv /\ [Next]_vars => DismissedInv'
<1> SUFFICES ASSUME DismissedInv, [Next]_vars PROVE DismissedInv'
  OBVIOUS
<1>0. RelayInv' /\ RelayInv /\ operations \in Seq(Operations)
  BY NextRelayInv DEF DismissedInv, RelayInv, TypeOK
<1> SUFFICES ReadsInv' /\ DismissalsKept'
  BY <1>0 DEF DismissedInv
<1>1. CASE Start \/ \E p \in Presentations : Dismiss(p)
  <2>1. PICK kind \in {"launch", "dismiss"}, id \in Presentations \cup {None} :
           operations' = Append(operations,
               [kind |-> kind, id |-> id, read |-> FALSE, base |-> <<>>, lost |-> FALSE])
    BY <1>1 DEF Start, Dismiss
  <2> DEFINE op == [kind |-> kind, id |-> id, read |-> FALSE, base |-> <<>>, lost |-> FALSE]
  <2>2. op.read = FALSE /\ op.lost = FALSE /\ op.base = <<>> /\ operations' = Append(operations, op)
    BY <2>1
  <2> HIDE DEF op
  <2>3. file' = file /\ promised' = promised
    BY <1>1 DEF Start, Dismiss, history
  <2>4. \A j \in DOMAIN operations' :
            (j \in DOMAIN operations /\ operations'[j] = operations[j]) \/ operations'[j] = op
    BY <1>0, <2>2
  <2> QED BY <2>2, <2>3, <2>4 DEF ReadsInv, DismissalsKept, DismissedInv
<1>2. CASE Exit
  <2>1. DOMAIN operations' = {} /\ file' = file /\ promised' = promised
    BY <1>2 DEF Exit
  <2> QED BY <2>1 DEF ReadsInv, DismissalsKept, DismissedInv
<1>3. ASSUME NEW i \in DOMAIN operations, ReadState(i) PROVE ReadsInv' /\ DismissalsKept'
  <2>1. /\ i = 1 /\ operations[i] \in Operations /\ ~operations[i].read
        /\ file' = file /\ promised' = promised
    BY <1>0, <1>3 DEF ReadState, Runs, history
  <2> DEFINE whole == [operations[i] EXCEPT !.read = TRUE, !.base = file]
             none == [operations[i] EXCEPT !.read = TRUE, !.lost = TRUE]
  <2>2. \/ operations' = [operations EXCEPT ![i] = whole]
        \/ operations' = [operations EXCEPT ![i] = none]
    BY <1>3 DEF ReadState
  <2>3. /\ whole.read /\ whole.base = file /\ whole.lost = operations[i].lost
        /\ none.read /\ none.lost /\ none.base = operations[i].base
    BY <2>1 DEF Operations
  <2> HIDE DEF whole, none
  <2>4. operations[i].base = <<>> /\ operations[i].lost = FALSE
    BY <2>1 DEF ReadsInv, DismissedInv, Operations
  <2> QED BY <1>0, <2>1, <2>2, <2>3, <2>4 DEF ReadsInv, DismissalsKept, DismissedInv
<1>4. ASSUME NEW i \in DOMAIN operations, WriteFails(i) PROVE ReadsInv' /\ DismissalsKept'
  <2>1. file' = file /\ promised' = promised
    BY <1>4 DEF WriteFails, history
  <2> QED BY <1>4, <2>1, LaterReads DEF WriteFails, DismissalsKept, DismissedInv
<1>5. ASSUME NEW i \in DOMAIN operations, WriteLaunch(i) PROVE ReadsInv' /\ DismissalsKept'
  <2>1. ReadsInv'
    BY <1>5, LaterReads DEF WriteLaunch, Ready
  <2>2. file' = NextFile(i) /\ promised' = StillPromised(i)
    BY <1>5 DEF WriteLaunch
  <2>3. StillPromised(i) \subseteq ToSet(NextFile(i)) \/ Len(NextFile(i)) = MaxDismissals
    BY <1>5, NextFileKeeps DEF WriteLaunch, Ready
  <2> QED BY <2>1, <2>2, <2>3 DEF DismissalsKept
<1>6. ASSUME NEW i \in DOMAIN operations, WriteDismissal(i) PROVE ReadsInv' /\ DismissalsKept'
  <2>1. ReadsInv'
    BY <1>6, LaterReads DEF WriteDismissal, Ready
  <2>2. /\ file' = NextFile(i)
        /\ promised' \in {StillPromised(i), StillPromised(i) \cup {operations[i].id}}
    BY <1>6 DEF WriteDismissal
  <2>3. \/ StillPromised(i) \cup {operations[i].id} \subseteq ToSet(NextFile(i))
        \/ Len(NextFile(i)) = MaxDismissals
    BY <1>6, NextFileKeeps DEF WriteDismissal, Ready
  <2> QED BY <2>1, <2>2, <2>3 DEF DismissalsKept
<1>7. CASE UNCHANGED <<file, operations, promised>>
  BY <1>7 DEF ReadsInv, DismissalsKept, DismissedInv
<1>8. ASSUME \/ Stop \/ TimerFires \/ TemporaryFailure \/ LastingFailure
             \/ \E ps \in SUBSET Presentations : Reply(ps)
             \/ \E d \in downloads : MediaArrives(d) \/ MediaFails(d)
             \/ UNCHANGED vars
      PROVE  UNCHANGED <<file, operations, promised>>
  BY <1>8 DEF Stop, TimerFires, TemporaryFailure, LastingFailure, Reply, MediaArrives,
              MediaFails, disk, history, vars
<1> QED BY <1>1, <1>2, <1>3, <1>4, <1>5, <1>6, <1>7, <1>8 DEF Next

-----------------------------------------------------------------------------
\* Each variable of the Relay client keeps its type.
THEOREM RelayTypeCorrect == Spec => []TypeOK
<1>1. RelayInv => TypeOK
  BY DEF RelayInv
<1> QED BY <1>1, RelayInvHolds, PTL

\* The card on screen is the first of the queue: a late image never brings back a card
\* that was dismissed or replaced.
THEOREM FirstCardIsShown == Spec => []ShowsTheFirst
<1>1. RelayInv => ShowsTheFirst
  BY DEF RelayInv, ServiceInv
<1> QED BY <1>1, RelayInvHolds, PTL

\* A stopped client arms no timer, wherever stop() found it.
THEOREM StoppedClientIsQuiet == Spec => []StoppedIsQuiet
<1>1. RelayInv => StoppedIsQuiet
  BY DEF RelayInv, ServiceInv
<1> QED BY <1>1, RelayInvHolds, PTL

\* A running client always has exactly one of a scheduled attempt and one in flight.
THEOREM NextAttemptComes == Spec => []AttemptComes
<1>1. RelayInv => AttemptComes
  BY DEF RelayInv, ServiceInv
<1> QED BY <1>1, RelayInvHolds, PTL

\* The timer is armed exactly when it must be.
THEOREM TimerIsRight == Spec => []TimerFits
BY StoppedClientIsQuiet, NextAttemptComes, PTL DEF TimerFits

\* A presentation dismissed before this launch stays hidden during it.
THEOREM DismissedBeforeLaunchIsHidden == Spec => []HiddenSinceLaunch
<1>1. RelayInv => HiddenSinceLaunch
  <2> SUFFICES ASSUME RelayInv, shown # None PROVE shown.id \notin atLaunch
    BY DEF HiddenSinceLaunch
  <2>1. pending # {} /\ shown.id = First(pending)
    BY DEF RelayInv, ServiceInv, ShowsTheFirst
  <2>2. First(pending) \in pending
    BY <2>1, FirstIsIn DEF RelayInv, TypeOK
  <2> QED BY <2>1, <2>2 DEF RelayInv, HiddenInv
<1> QED BY <1>1, RelayInvHolds, PTL

\* A dismissal the windows were told is done stays in the file, through failed writes,
\* crashes and launches, until newer ones fill it: calls of the store do not overlap, so
\* each writes what it read, and what it read is the file.
THEOREM DismissalsStay == Spec => []DismissalsKept
<1>1. Init => DismissedInv
  <2>1. Init => ReadsInv /\ DismissalsKept
    BY DEF Init, ReadsInv, DismissalsKept
  <2> QED BY <2>1, InitRelayInv DEF DismissedInv
<1>2. DismissedInv => DismissalsKept
  BY DEF DismissedInv
<1> QED BY <1>1, <1>2, NextDismissedInv, PTL DEF Spec

\* A dismissal lasts, in the file and, from the next launch on, on the screen.
THEOREM DismissalsLastAlways == Spec => []DismissalsLast
BY DismissalsStay, DismissedBeforeLaunchIsHidden, PTL DEF DismissalsLast

-----------------------------------------------------------------------------
(* The admin Worker.                                                        *)

\* The variables have their types, and a request that is about a record or an
\* asset names one.
THEOREM TypeCorrect == WorkerSpec => []WorkerTypeOK
<1> USE RelayWorkerAssumption
<1>1. WorkerInit => WorkerTypeOK
  BY DEF WorkerInit, WorkerTypeOK, ReqType, SightType, Idle, Unseen, NoInput, Contents,
         RecordSteps, AssetSteps
<1>2. WorkerTypeOK /\ [WorkerNext]_workerVars => WorkerTypeOK'
  <2> SUFFICES ASSUME WorkerTypeOK, [WorkerNext]_workerVars PROVE WorkerTypeOK'
    OBVIOUS
  <2> USE DEF WorkerTypeOK, ReqType, SightType, Records, RecordSteps, AssetSteps
  <2> DEFINE Requests == /\ req \in [Admins -> ReqType]
                         /\ \A a \in Admins :
                              /\ req[a].step \in RecordSteps => req[a].rec \in Records
                              /\ req[a].step \in AssetSteps => req[a].asset \in Assets
  <2>0. Idle \in ReqType /\ Idle.step = "idle"
    BY DEF Idle, Unseen, NoInput, Contents
  <2>e. ASSUME NEW a \in Admins, Done(a) PROVE Requests'
    BY <2>0, <2>e DEF Done
  <2>f. ASSUME NEW a \in Admins, NEW step, Goto(a, step),
               \/ req[a].step \in RecordSteps /\ step \in RecordSteps
               \/ req[a].step \in AssetSteps /\ step \in AssetSteps
        PROVE  Requests'
    <3>1. req[a] \in ReqType /\ step \in RecordSteps \cup AssetSteps
      BY <2>f
    <3>2. [req[a] EXCEPT !.step = step] \in ReqType
      BY <3>1
    <3>3. req' = [req EXCEPT ![a] = [req[a] EXCEPT !.step = step]]
      BY <2>f DEF Goto
    <3>4. req' \in [Admins -> ReqType]
      BY <3>2, <3>3
    <3>5. /\ req'[a].step = step /\ req'[a].rec = req[a].rec /\ req'[a].asset = req[a].asset
          /\ \A b \in Admins \ {a} : req'[b] = req[b]
      BY <3>1, <3>3
    <3> QED BY <2>f, <3>4, <3>5
  <2> HIDE DEF Requests
  <2>a. \A input \in Contents : \A rev, edit, since \in Nat :
            Row(input, rev, edit, since) \in RowType
    BY DEF Row, RowType, Contents
  <2>b. \A r \in Records : rows[r] # Nothing => Sight(rows[r]) \in SightType
    BY DEF Sight, RowType
  <2>c. \A r \in Records \cup {Nothing} : Inputs(r) \subseteq Contents
    BY DEF Inputs, Contents
  <2>d. \A r \in Records : rows[r] # Nothing => rows[r].since \in Nat
    BY DEF RowType
  <2>1. ASSUME NEW a \in Admins, NEW r \in Records, Open(a, r) PROVE WorkerTypeOK'
    BY <2>0, <2>b, <2>1 DEF Open, Idle
  <2>2. ASSUME NEW a \in Admins, NEW r \in Records, NEW input \in Inputs(r), Create(a, r, input)
        PROVE WorkerTypeOK'
    BY <2>0, <2>c, <2>2 DEF Create, Idle
  <2>3. ASSUME NEW a \in Admins, NEW input \in Inputs(req[a].rec), Update(a, input)
        PROVE WorkerTypeOK'
    <3>1. CASE Done(a)
      BY <2>e, <2>3, <3>1 DEF Update, Requests
    <3>2. CASE ~Done(a)
      <4>1. req[a].rec \in Records /\ input \in Contents
        BY <2>c, <2>3 DEF Update
      <4>2. Sight(rows[req[a].rec]) \in SightType
        BY <2>3, <2>b, <3>2, <4>1 DEF Update, Current
      <4>3. /\ req' = [req EXCEPT ![a].step = "update", ![a].input = input,
                                  ![a].read = Sight(rows[req[a].rec])]
            /\ UNCHANGED <<rows, assetRows, objects, edits, torn, failures>>
        BY <2>3, <3>2 DEF Update
      <4>4. Requests'
        <5>1. /\ req'[a].step = "update" /\ req'[a].rec = req[a].rec
              /\ req'[a] \in ReqType
          <6>1. req[a] \in ReqType
            OBVIOUS
          <6>2. req'[a] = [step |-> "update", rec |-> req[a].rec, asset |-> req[a].asset,
                           seen |-> req[a].seen, read |-> Sight(rows[req[a].rec]),
                           input |-> input]
            BY <4>3, <6>1
          <6> QED BY <4>1, <4>2, <6>1, <6>2
        <5>2. \A b \in Admins \ {a} : req'[b] = req[b]
          BY <4>3
        <5>3. req' \in [Admins -> ReqType]
          BY <4>3, <5>1, <5>2
        <5> QED BY <4>1, <5>1, <5>2, <5>3 DEF Requests
      <4> QED BY <4>3, <4>4 DEF Requests
    <3> QED BY <3>1, <3>2
  <2>4. ASSUME NEW a \in Admins, Sign(a) PROVE WorkerTypeOK'
    BY <2>e, <2>f, <2>0, <2>4 DEF Sign, Requests
  <2>5. ASSUME NEW a \in Admins, CommitCreate(a) PROVE WorkerTypeOK'
    <3>1. Requests'
      BY <2>e, <2>5 DEF CommitCreate
    <3>2. req[a].rec \in Records /\ req[a].input \in Contents
      BY <2>5 DEF CommitCreate
    <3>3. Row(req[a].input, 1, edits + 1, edits + 1) \in RowType
      BY <2>a, <3>2
    <3> QED BY <2>5, <3>1, <3>2, <3>3 DEF CommitCreate, Requests
  <2>6. ASSUME NEW a \in Admins, CommitUpdate(a) PROVE WorkerTypeOK'
    <3>1. Requests'
      BY <2>e, <2>6 DEF CommitUpdate
    <3>2. /\ req[a].rec \in Records /\ req[a].input \in Contents
          /\ req[a].read.rev + 1 \in Nat
      BY <2>6 DEF CommitUpdate
    <3>3. SameRevision(a) => Row(req[a].input, req[a].read.rev + 1, edits + 1,
                                 rows[req[a].rec].since) \in RowType
      BY <2>a, <2>d, <3>2 DEF SameRevision
    <3> QED BY <2>6, <3>1, <3>2, <3>3 DEF CommitUpdate, Requests
  <2>7. ASSUME NEW a \in Admins, Delete(a) PROVE WorkerTypeOK'
    <3>1. CASE Done(a)
      BY <2>e, <2>7, <3>1 DEF Delete, Requests
    <3>2. CASE ~Done(a)
      <4>1. Sight(rows[req[a].rec]) \in SightType
        BY <2>7, <2>b, <3>2 DEF Delete, Current
      <4> QED BY <2>7, <3>2, <4>1 DEF Delete
    <3> QED BY <3>1, <3>2
  <2>8. ASSUME NEW a \in Admins, CommitDelete(a) PROVE WorkerTypeOK'
    BY <2>e, <2>0, <2>8 DEF CommitDelete, Requests
  <2>9. ASSUME NEW r \in Records, Expire(r) PROVE WorkerTypeOK'
    <3>1. [rows[r] EXCEPT !.over = TRUE] \in RowType
      <4>1. rows[r] \in RowType
        BY <2>9 DEF Expire
      <4> QED BY <4>1 DEF RowType
    <3> QED BY <2>9, <3>1 DEF Expire
  <2>10. ASSUME NEW a \in Admins, NEW x \in Assets, Upload(a, x) PROVE WorkerTypeOK'
    BY <2>0, <2>10 DEF Upload, StartAsset, Idle
  <2>11. ASSUME NEW a \in Admins, PutObject(a) PROVE WorkerTypeOK'
    BY <2>e, <2>f, <2>0, <2>11 DEF PutObject, Requests
  <2>12. ASSUME NEW a \in Admins, InsertAsset(a) PROVE WorkerTypeOK'
    BY <2>e, <2>f, <2>0, <2>12 DEF InsertAsset, Requests
  <2>13. ASSUME NEW a \in Admins, NEW committed \in BOOLEAN, InsertFails(a, committed)
        PROVE WorkerTypeOK'
    BY <2>e, <2>f, <2>0, <2>13 DEF InsertFails, Requests
  <2>14. ASSUME NEW a \in Admins, Cleanup(a) PROVE WorkerTypeOK'
    BY <2>e, <2>0, <2>14 DEF Cleanup, Requests
  <2>15. ASSUME NEW a \in Admins, NEW x \in Assets, DeleteAsset(a, x) PROVE WorkerTypeOK'
    BY <2>0, <2>15 DEF DeleteAsset, StartAsset, Idle
  <2>16. ASSUME NEW a \in Admins, CheckReference(a) PROVE WorkerTypeOK'
    BY <2>e, <2>f, <2>0, <2>16 DEF CheckReference, Unreferenced, Requests
  <2>17. ASSUME NEW a \in Admins, RemoveObject(a) PROVE WorkerTypeOK'
    BY <2>e, <2>f, <2>0, <2>17 DEF RemoveObject, Requests
  <2>18. ASSUME NEW a \in Admins, RemoveRow(a) PROVE WorkerTypeOK'
    BY <2>e, <2>0, <2>18 DEF RemoveRow, Requests
  <2>19. ASSUME NEW a \in Admins, Abort(a) PROVE WorkerTypeOK'
    BY <2>e, <2>0, <2>19 DEF Abort, Requests
  <2>20. CASE UNCHANGED workerVars
    BY <2>20 DEF workerVars
  <2> QED BY <2>1, <2>2, <2>3, <2>4, <2>5, <2>6, <2>7, <2>8, <2>9, <2>10, <2>11, <2>12, <2>13,
             <2>14, <2>15, <2>16, <2>17, <2>18, <2>19, <2>20 DEF WorkerNext
<1> QED BY <1>1, <1>2, PTL DEF WorkerSpec

-----------------------------------------------------------------------------
(* Revisions.                                                               *)

\* What is known of a sight s of record r: in the same life of the record it is
\* not ahead of it, and at the same revision it is of the same contents.
Behind(s, r) ==
    /\ s.since <= edits
    /\ rows[r] # Nothing /\ rows[r].since = s.since =>
          s.rev <= rows[r].rev /\ (s.rev = rows[r].rev => s.edit = rows[r].edit)

\* A broadcast that was seen as s when it could be deleted still can be.
StillDeletable(s, r) ==
    r \in Broadcasts /\ rows[r] # Nothing /\ rows[r].since = s.since
        /\ rows[r].rev = s.rev => ~Live(rows[r])

Sights ==
    /\ \A r \in Records : rows[r] # Nothing => rows[r].since \in 1 .. edits
    /\ \A a \in Admins, r \in Records :
          req[a].rec = r => Behind(req[a].seen, r) /\ Behind(req[a].read, r)
    /\ \A a \in Admins, r \in Records : req[a].rec = r =>
          /\ req[a].step \in {"update", "write", "delete"} =>
                req[a].read.rev = req[a].seen.rev
          /\ req[a].step = "delete" => StillDeletable(req[a].read, r)

\* What a step may do to a record: delete it, create it as the newest one, move
\* it to the next revision, or let its window end.
Forward(r) ==
    \/ rows'[r] = Nothing
    \/ rows[r] = Nothing /\ rows'[r].since = edits + 1 /\ edits' = edits + 1
    \/ /\ rows[r] # Nothing /\ rows'[r].since = rows[r].since
       /\ \/ rows'[r].rev = rows[r].rev + 1
          \/ /\ rows'[r].rev = rows[r].rev /\ rows'[r].edit = rows[r].edit
             /\ Live(rows'[r]) => Live(rows[r])

\* What a step may do to a request about a record: nothing to its sights, or
\* read the record, for an update or a deletion at the revision of the page.
Looks(a) ==
    \/ req'[a].rec = Nothing
    \/ /\ req'[a].rec = req[a].rec /\ req'[a].seen = req[a].seen
       /\ req'[a].read = req[a].read
       /\ req'[a].step \in {"update", "write", "delete"} =>
             req[a].step \in {"update", "write", "delete"}
       /\ req'[a].step = "delete" => req[a].step = "delete"
    \/ /\ UNCHANGED <<rows, edits>> /\ rows[req'[a].rec] # Nothing
       /\ req'[a].seen = Sight(rows[req'[a].rec]) /\ req'[a].read = Unseen
       /\ req'[a].step = "page"
    \/ /\ UNCHANGED <<rows, edits>> /\ req'[a].step = "create"
       /\ req'[a].seen = Unseen /\ req'[a].read = Unseen
    \/ /\ UNCHANGED <<rows, edits>> /\ rows[req[a].rec] # Nothing
       /\ req'[a].rec = req[a].rec /\ req'[a].seen = req[a].seen
       /\ rows[req[a].rec].rev = req[a].seen.rev
       /\ req'[a].read = Sight(rows[req[a].rec])
       /\ req'[a].step = "delete" => Deletable(req[a].rec, rows[req[a].rec])

LEMMA BehindStays ==
    ASSUME WorkerTypeOK, WorkerTypeOK', NEW r \in Records, Forward(r), edits <= edits',
           NEW s \in SightType, Behind(s, r)
    PROVE  Behind(s, r)'
<1>1. rows[r] # Nothing => rows[r] \in RowType
  BY DEF WorkerTypeOK
<1>2. rows'[r] # Nothing => rows'[r] \in RowType
  BY DEF WorkerTypeOK
<1> QED BY <1>1, <1>2 DEF WorkerTypeOK, Forward, Behind, RowType, SightType

LEMMA DeletableStays ==
    ASSUME WorkerTypeOK, WorkerTypeOK', NEW r \in Records, Forward(r), NEW s \in SightType,
           Behind(s, r), StillDeletable(s, r)
    PROVE  StillDeletable(s, r)'
<1>1. rows[r] # Nothing => rows[r] \in RowType
  BY DEF WorkerTypeOK
<1>2. rows'[r] # Nothing => rows'[r] \in RowType
  BY DEF WorkerTypeOK
<1> QED BY <1>1, <1>2 DEF WorkerTypeOK, Forward, Behind, StillDeletable, RowType, SightType

\* Every step moves the records forward and looks at them as above.
LEMMA StepsMoveForward ==
    ASSUME WorkerTypeOK, WorkerTypeOK', Sights, [WorkerNext]_workerVars
    PROVE  /\ edits <= edits' /\ \A r \in Records : Forward(r)
           /\ \A r \in Records : rows'[r] # Nothing => rows'[r].since \in 1 .. edits'
           /\ \A a \in Admins : Looks(a)
<1> USE RelayWorkerAssumption
<1> DEFINE Rows == /\ edits <= edits' /\ \A r \in Records : Forward(r)
                   /\ \A r \in Records : rows'[r] # Nothing => rows'[r].since \in 1 .. edits'
           Goal == Rows /\ \A a \in Admins : Looks(a)
<1>0. /\ Idle.step = "idle" /\ Idle.rec = Nothing /\ edits \in Nat
      /\ \A a \in Admins : req[a] \in ReqType /\ req'[a] \in ReqType
      /\ \A r \in Records : rows[r] # Nothing => rows[r] \in RowType
  BY DEF WorkerTypeOK, Idle
<1>a. ASSUME UNCHANGED <<rows, edits>> PROVE Rows
  BY <1>0, <1>a DEF Forward, Sights
<1>b. ASSUME UNCHANGED req PROVE \A a \in Admins : Looks(a)
  BY <1>0, <1>b DEF Looks
<1>c. ASSUME NEW a \in Admins, Done(a) PROVE \A b \in Admins : Looks(b)
  BY <1>0, <1>c DEF Looks, Done, WorkerTypeOK
<1>d. ASSUME NEW a \in Admins, NEW step, Goto(a, step), step \notin {"update", "delete"},
             step = "write" => req[a].step = "update"
      PROVE  \A b \in Admins : Looks(b)
  BY <1>0, <1>d DEF Looks, Goto, WorkerTypeOK
<1>e. ASSUME NEW a \in Admins, NEW x \in Assets, NEW step, StartAsset(a, x, step)
      PROVE  \A b \in Admins : Looks(b)
  BY <1>0, <1>e DEF Looks, StartAsset, Idle, WorkerTypeOK
<1>1. ASSUME NEW a \in Admins, NEW r \in Records, Open(a, r) PROVE Goal
  BY <1>0, <1>a, <1>1 DEF Open, Idle, Looks, WorkerTypeOK
<1>2. ASSUME NEW a \in Admins, NEW r \in Records, NEW input \in Inputs(r), Create(a, r, input)
       PROVE Goal
  BY <1>0, <1>a, <1>2 DEF Create, Idle, Looks, WorkerTypeOK
<1>3. ASSUME NEW a \in Admins, NEW input \in Inputs(req[a].rec), Update(a, input)
       PROVE Goal
  <2>1. CASE Done(a)
    BY <1>a, <1>c, <1>3, <2>1 DEF Update
  <2>2. CASE ~Done(a)
    <3>1. /\ UNCHANGED <<rows, edits>> /\ Current(a) /\ req[a].rec \in Records
          /\ \A b \in Admins \ {a} : req'[b] = req[b]
      BY <1>3, <2>2 DEF Update, WorkerTypeOK, RecordSteps
    <3>2. /\ req'[a].rec = req[a].rec /\ req'[a].seen = req[a].seen
          /\ req'[a].read = Sight(rows[req[a].rec]) /\ req'[a].step = "update"
      BY <1>0, <1>3, <2>2 DEF Update, WorkerTypeOK, ReqType
    <3>3. \A b \in Admins : Looks(b)
      BY <3>1, <3>2 DEF Looks, Current
    <3> QED BY <1>a, <3>1, <3>3
  <2> QED BY <2>1, <2>2
<1>4. ASSUME NEW a \in Admins, Sign(a) PROVE Goal
  BY <1>a, <1>c, <1>d, <1>4 DEF Sign
<1>5. ASSUME NEW a \in Admins, CommitCreate(a) PROVE Goal
  BY <1>0, <1>c, <1>5 DEF CommitCreate, Row, Forward, Sights, WorkerTypeOK
<1>6. ASSUME NEW a \in Admins, CommitUpdate(a) PROVE Goal
  BY <1>0, <1>c, <1>6 DEF CommitUpdate, SameRevision, Row, Forward, Sights, WorkerTypeOK, RowType
<1>7. ASSUME NEW a \in Admins, Delete(a) PROVE Goal
  <2>1. CASE Done(a)
    BY <1>a, <1>c, <1>7, <2>1 DEF Delete
  <2>2. CASE ~Done(a)
    <3>1. /\ UNCHANGED <<rows, edits>> /\ Current(a) /\ req[a].rec \in Records
          /\ \A b \in Admins \ {a} : req'[b] = req[b]
          /\ Deletable(req[a].rec, rows[req[a].rec])
      BY <1>7, <2>2 DEF Delete, WorkerTypeOK, RecordSteps
    <3>2. /\ req'[a].rec = req[a].rec /\ req'[a].seen = req[a].seen
          /\ req'[a].read = Sight(rows[req[a].rec]) /\ req'[a].step = "delete"
      BY <1>0, <1>7, <2>2 DEF Delete, WorkerTypeOK, ReqType
    <3>3. \A b \in Admins : Looks(b)
      BY <3>1, <3>2 DEF Looks, Current
    <3> QED BY <1>a, <3>1, <3>3
  <2> QED BY <2>1, <2>2
<1>8. ASSUME NEW a \in Admins, CommitDelete(a) PROVE Goal
  BY <1>0, <1>c, <1>8 DEF CommitDelete, Forward, Sights, WorkerTypeOK
<1>9. ASSUME NEW r \in Records, Expire(r) PROVE Goal
  BY <1>0, <1>b, <1>9 DEF Expire, Live, Forward, Sights, WorkerTypeOK, RowType
<1>10. ASSUME NEW a \in Admins, NEW x \in Assets, Upload(a, x) PROVE Goal
  BY <1>a, <1>e, <1>10 DEF Upload
<1>11. ASSUME NEW a \in Admins, PutObject(a) PROVE Goal
  BY <1>a, <1>c, <1>d, <1>11 DEF PutObject
<1>12. ASSUME NEW a \in Admins, InsertAsset(a) PROVE Goal
  BY <1>a, <1>c, <1>d, <1>12 DEF InsertAsset
<1>13. ASSUME NEW a \in Admins, NEW committed \in BOOLEAN, InsertFails(a, committed)
       PROVE Goal
  BY <1>a, <1>d, <1>13 DEF InsertFails
<1>14. ASSUME NEW a \in Admins, Cleanup(a) PROVE Goal
  BY <1>a, <1>c, <1>14 DEF Cleanup
<1>15. ASSUME NEW a \in Admins, NEW x \in Assets, DeleteAsset(a, x) PROVE Goal
  BY <1>a, <1>e, <1>15 DEF DeleteAsset
<1>16. ASSUME NEW a \in Admins, CheckReference(a) PROVE Goal
  BY <1>a, <1>c, <1>d, <1>16 DEF CheckReference
<1>17. ASSUME NEW a \in Admins, RemoveObject(a) PROVE Goal
  BY <1>a, <1>d, <1>17 DEF RemoveObject
<1>18. ASSUME NEW a \in Admins, RemoveRow(a) PROVE Goal
  BY <1>a, <1>c, <1>18 DEF RemoveRow
<1>19. ASSUME NEW a \in Admins, Abort(a) PROVE Goal
  BY <1>a, <1>c, <1>19 DEF Abort
<1>20. CASE UNCHANGED workerVars
  BY <1>a, <1>b, <1>20 DEF workerVars
<1> QED BY <1>1, <1>2, <1>3, <1>4, <1>5, <1>6, <1>7, <1>8, <1>9, <1>10,
       <1>11, <1>12, <1>13, <1>14, <1>15, <1>16, <1>17, <1>18, <1>19, <1>20 DEF WorkerNext

\* The argument about revisions is an invariant.
THEOREM SightsAreBehind == WorkerSpec => []Sights
<1> USE RelayWorkerAssumption
<1>1. WorkerInit => Sights
  BY DEF WorkerInit, Sights, Idle, Records
<1>2. WorkerTypeOK /\ WorkerTypeOK' /\ Sights /\ [WorkerNext]_workerVars => Sights'
  <2> SUFFICES ASSUME WorkerTypeOK, WorkerTypeOK', Sights, [WorkerNext]_workerVars PROVE Sights'
    OBVIOUS
  <2>1. /\ edits <= edits' /\ \A r \in Records : Forward(r)
        /\ \A r \in Records : rows'[r] # Nothing => rows'[r].since \in 1 .. edits'
        /\ \A a \in Admins : Looks(a)
    BY StepsMoveForward
  <2>2. ASSUME NEW a \in Admins, NEW r \in Records, req'[a].rec = r
        PROVE  /\ Behind(req[a].seen, r)' /\ Behind(req[a].read, r)'
               /\ req'[a].step \in {"update", "write", "delete"} =>
                     req'[a].read.rev = req'[a].seen.rev
               /\ req'[a].step = "delete" => StillDeletable(req[a].read, r)'
    <3>0. /\ Looks(a) /\ r # Nothing /\ req[a] \in ReqType /\ req'[a] \in ReqType
          /\ edits \in Nat /\ (rows[r] # Nothing => rows[r] \in RowType)
      BY <2>1 DEF WorkerTypeOK, Records
    <3>1. CASE /\ req'[a].rec = req[a].rec /\ req'[a].seen = req[a].seen
               /\ req'[a].read = req[a].read
               /\ req'[a].step \in {"update", "write", "delete"} =>
                     req[a].step \in {"update", "write", "delete"}
               /\ req'[a].step = "delete" => req[a].step = "delete"
      <4>1. req[a].seen \in SightType /\ req[a].read \in SightType
        BY <3>0 DEF ReqType
      <4>2. Behind(req[a].seen, r) /\ Behind(req[a].read, r)
        BY <2>2, <3>1 DEF Sights
      <4>3. \A s \in SightType : Behind(s, r) => Behind(s, r)'
        BY <2>1, BehindStays
      <4>4. req'[a].step = "delete" => StillDeletable(req[a].read, r)
        BY <2>2, <3>1 DEF Sights
      <4>5. \A s \in SightType :
               Behind(s, r) /\ StillDeletable(s, r) => StillDeletable(s, r)'
        BY <2>1, DeletableStays
      <4>6. req'[a].step \in {"update", "write", "delete"} =>
               req'[a].read.rev = req'[a].seen.rev
        BY <2>2, <3>1 DEF Sights
      <4> QED BY <3>1, <4>1, <4>2, <4>3, <4>4, <4>5, <4>6 DEF Behind, StillDeletable
    <3>2. CASE /\ UNCHANGED <<rows, edits>> /\ rows[req'[a].rec] # Nothing
               /\ req'[a].seen = Sight(rows[req'[a].rec]) /\ req'[a].read = Unseen
               /\ req'[a].step = "page"
      <4>1. /\ rows'[r] = rows[r] /\ edits' = edits /\ rows[r] \in RowType
            /\ rows[r].since \in 1 .. edits
        BY <2>2, <3>0, <3>2 DEF Sights
      <4>2. /\ req'[a].seen.since = rows[r].since /\ req'[a].seen.rev = rows[r].rev
            /\ req'[a].seen.edit = rows[r].edit /\ req'[a].read.since = 0
        BY <2>2, <3>2 DEF Sight, Unseen
      <4> QED BY <3>0, <3>2, <4>1, <4>2 DEF Behind, RowType
    <3>3. CASE /\ UNCHANGED <<rows, edits>> /\ req'[a].step = "create"
               /\ req'[a].seen = Unseen /\ req'[a].read = Unseen
      <4>1. /\ rows'[r] = rows[r] /\ edits' = edits
            /\ rows[r] # Nothing => rows[r].since \in 1 .. edits
        BY <3>3 DEF Sights
      <4>2. req'[a].seen.since = 0 /\ req'[a].read.since = 0
        BY <3>3 DEF Unseen
      <4> QED BY <3>0, <3>3, <4>1, <4>2 DEF Behind
    <3>4. CASE /\ UNCHANGED <<rows, edits>> /\ rows[req[a].rec] # Nothing
               /\ req'[a].rec = req[a].rec /\ req'[a].seen = req[a].seen
               /\ rows[req[a].rec].rev = req[a].seen.rev
               /\ req'[a].read = Sight(rows[req[a].rec])
               /\ req'[a].step = "delete" => Deletable(req[a].rec, rows[req[a].rec])
      <4>1. /\ rows'[r] = rows[r] /\ edits' = edits /\ rows[r] \in RowType
            /\ rows[r].since \in 1 .. edits /\ Behind(req[a].seen, r)
        BY <2>2, <3>0, <3>4 DEF Sights
      <4>2. /\ req'[a].read.since = rows[r].since /\ req'[a].read.rev = rows[r].rev
            /\ req'[a].read.edit = rows[r].edit
        BY <2>2, <3>4 DEF Sight
      <4>3. Behind(req[a].seen, r)' /\ Behind(req[a].read, r)'
        BY <3>0, <3>4, <4>1, <4>2 DEF Behind, RowType
      <4>4. req'[a].step = "delete" /\ r \in Broadcasts => ~Live(rows[r])
        BY <2>2, <3>4, RelayWorkerAssumption DEF Deletable
      <4> QED BY <2>2, <3>4, <4>1, <4>2, <4>3, <4>4 DEF StillDeletable
    <3> QED BY <2>2, <3>0, <3>1, <3>2, <3>3, <3>4 DEF Looks
  <2> QED BY <2>1, <2>2 DEF Sights
<1> QED BY <1>1, <1>2, TypeCorrect, PTL DEF WorkerSpec

\* Whoever changes a record with a request that was sent and answered does so by
\* committing an update or a deletion at the revision it read.
LEMMA OnlyCommitsReplace ==
    ASSUME WorkerTypeOK, [WorkerNext]_workerVars, NEW a \in Admins, NEW r \in Records,
           Replaces(a, r)
    PROVE  /\ SameRevision(a)
           /\ (CommitUpdate(a) /\ rows'[r] # Nothing) \/ CommitDelete(a)
<1> USE RelayWorkerAssumption
<1>0. /\ Idle.step = "idle" /\ req[a].step # "idle" /\ rows[r] # Nothing /\ rows'[r] # rows[r]
      /\ req[a] # req'[a] /\ req[a].rec = r /\ req[a].step \in {"write", "delete"}
  BY DEF Replaces, Idle
<1>1. \A b \in Admins : b # a => /\ ~Done(b)
                               /\ \A x, step : ~Goto(b, step) /\ ~StartAsset(b, x, step)
  BY <1>0 DEF Done, Goto, StartAsset, WorkerTypeOK
<1>2. CASE CommitUpdate(a)
  <2>1. SameRevision(a) /\ rows'[r] = Row(req[a].input, req[a].read.rev + 1, edits + 1,
        rows[r].since)
    BY <1>0, <1>2 DEF CommitUpdate, WorkerTypeOK
  <2>2. rows'[r] \in RowType
    BY <1>0, <2>1 DEF WorkerTypeOK, Row, RowType, ReqType, SightType, Contents
  <2> QED BY <1>2, <2>1, <2>2
<1>3. CASE CommitDelete(a)
  BY <1>0, <1>3 DEF CommitDelete
<1>4. CASE \E b \in Admins : CommitUpdate(b) \/ CommitDelete(b) \/ CommitCreate(b)
  BY <1>0, <1>1, <1>2, <1>3, <1>4 DEF CommitUpdate, CommitDelete, CommitCreate
<1>5. CASE \E q \in Records : Expire(q)
  BY <1>0, <1>5 DEF Expire
<1>6. CASE UNCHANGED rows
  BY <1>0, <1>6
<1> QED BY <1>4, <1>5, <1>6
        DEF WorkerNext, workerVars, Open, Create, Update, Sign, Delete, Upload, PutObject,
        InsertAsset,
            InsertFails, Cleanup, DeleteAsset, CheckReference, RemoveObject, RemoveRow, Abort

\* No edit is lost: an administrator replaces nothing but what the control panel
\* showed, in one life of a record, whatever the others do meanwhile.
THEOREM NoEditIsLost == WorkerSpec => EditsBuildOnWhatWasSeen
<1>1. WorkerTypeOK /\ Sights /\ [WorkerNext]_workerVars =>
        [\A a \in Admins, r \in Records :
            Replaces(a, r) /\ rows[r].since = req[a].seen.since
                => rows[r].edit = req[a].seen.edit]_workerVars
  <2> SUFFICES ASSUME WorkerTypeOK, Sights, [WorkerNext]_workerVars, NEW a \in Admins,
                      NEW r \in Records,
                      Replaces(a, r), rows[r].since = req[a].seen.since
               PROVE  rows[r].edit = req[a].seen.edit
    OBVIOUS
  <2>1. rows[r] # Nothing /\ rows[r].rev = req[a].read.rev
    BY OnlyCommitsReplace DEF SameRevision, Replaces
  <2>2. req[a].read.rev = req[a].seen.rev /\ Behind(req[a].seen, r)
    BY DEF Sights, Replaces, CommitUpdate
  <2> QED BY <2>1, <2>2 DEF Behind
<1> QED BY <1>1, TypeCorrect, SightsAreBehind, PTL DEF WorkerSpec, EditsBuildOnWhatWasSeen

\* A live broadcast is never deleted by a request that read it in the same life.
THEOREM LiveBroadcastsStay == WorkerSpec => OnlyInactiveIsDeleted
<1>1. WorkerTypeOK /\ Sights /\ [WorkerNext]_workerVars =>
        [\A a \in Admins, r \in Broadcasts :
            Replaces(a, r) /\ rows'[r] = Nothing /\ rows[r].since = req[a].read.since
                => ~Live(rows[r])]_workerVars
  <2> SUFFICES ASSUME WorkerTypeOK, Sights, [WorkerNext]_workerVars, NEW a \in Admins,
                      NEW r \in Broadcasts,
                      Replaces(a, r), rows'[r] = Nothing, rows[r].since = req[a].read.since
               PROVE  ~Live(rows[r])
    OBVIOUS
  <2>0. r \in Records
    BY DEF Records
  <2>1. CommitDelete(a) /\ rows[r] # Nothing /\ rows[r].rev = req[a].read.rev
    BY <2>0, OnlyCommitsReplace DEF SameRevision, Replaces
  <2> QED BY <2>0, <2>1 DEF Sights, Replaces, CommitDelete, StillDeletable
<1> QED BY <1>1, TypeCorrect, SightsAreBehind, PTL DEF WorkerSpec, OnlyInactiveIsDeleted

\* No request changes a record other than the one it was decided on.
THEOREM ChangesAreOfTheirRecord == WorkerSpec => ChangesAreOfWhatWasSeen
BY NoEditIsLost, LiveBroadcastsStay DEF ChangesAreOfWhatWasSeen

-----------------------------------------------------------------------------
(* Images.                                                                  *)

\* An upload has put the object of its asset and not yet given it its row, or is
\* about to remove it again.
Holds(a) == req[a].step \in {"insertAsset", "cleanup"}

\* Unless a deletion found the image unreferenced: a row has its object, an
\* object has one upload that holds it, and none once it has its row.
Images ==
    /\ ImagesAreKept
    /\ assetRows \subseteq objects \cup torn
    /\ \A a \in Admins : Holds(a) => req[a].asset \in objects \cup torn
    /\ \A a \in Admins : Holds(a) /\ req[a].asset \in assetRows => req[a].asset \in torn
    /\ \A a, b \in Admins :
          a # b /\ Holds(a) /\ Holds(b) /\ req[a].asset = req[b].asset => req[a].asset \in torn
    /\ \A a \in Admins : req[a].step = "unput" => req[a].asset \in torn

\* Every image of a record keeps its row, and its object unless a deletion found
\* it unreferenced, for every order of uploads, deletions and edits.
THEOREM ImagesKept == WorkerSpec => []ImagesAreKept
<1> USE RelayWorkerAssumption
<1>1. WorkerInit => Images
  BY DEF WorkerInit, Images, ImagesAreKept, Holds, Idle
<1>2. WorkerTypeOK /\ WorkerTypeOK' /\ Images /\ [WorkerNext]_workerVars => Images'
  <2> SUFFICES ASSUME WorkerTypeOK, WorkerTypeOK', Images, [WorkerNext]_workerVars PROVE Images'
    OBVIOUS
  <2>0. /\ Idle.step = "idle" /\ req \in [Admins -> ReqType]
        /\ \A r \in Records : rows[r] # Nothing => rows[r] \in RowType
    BY DEF WorkerTypeOK, Idle
  <2> DEFINE Holders == /\ \A a \in Admins : Holds(a) => req[a].asset \in objects \cup torn
                        /\ \A a \in Admins : Holds(a) /\ req[a].asset \in assetRows =>
                              req[a].asset \in torn
                        /\ \A a, b \in Admins :
                              a # b /\ Holds(a) /\ Holds(b) /\ req[a].asset = req[b].asset
                                => req[a].asset \in torn
                        /\ \A a \in Admins : req[a].step = "unput" => req[a].asset \in torn
  <2>a. ASSUME NEW a \in Admins, \A b \in Admins \ {a} : req'[b] = req[b],
               req'[a].step \notin {"insertAsset", "cleanup", "unput"},
               UNCHANGED <<objects, assetRows, torn>>
        PROVE  Holders'
    BY <2>a DEF Images, Holds
  <2>b. ASSUME UNCHANGED <<rows, objects, assetRows, torn>> PROVE ImagesAreKept'
    BY <2>b DEF Images, ImagesAreKept
  <2>c. ASSUME NEW a \in Admins, Done(a) PROVE /\ \A b \in Admins \ {a} : req'[b] = req[b]
                                              /\ req'[a].step = "idle"
    BY <2>0, <2>c DEF Done
  <2>d. ASSUME NEW a \in Admins, NEW step, Goto(a, step)
        PROVE  /\ \A b \in Admins \ {a} : req'[b] = req[b]
               /\ req'[a].step = step /\ req'[a].asset = req[a].asset
    BY <2>0, <2>d DEF Goto, ReqType
  <2>e. ASSUME NEW a \in Admins, NEW x, NEW step, StartAsset(a, x, step)
        PROVE  /\ \A b \in Admins \ {a} : req'[b] = req[b]
               /\ req'[a].step = step
    BY <2>0, <2>e DEF StartAsset, Idle
  <2>1. ASSUME NEW a \in Admins, NEW r \in Records, Open(a, r) PROVE Images'
    BY <2>0, <2>a, <2>b, <2>1 DEF Open, Idle, Images
  <2>2. ASSUME NEW a \in Admins, NEW r \in Records, NEW input \in Inputs(r), Create(a, r, input)
        PROVE Images'
    BY <2>0, <2>a, <2>b, <2>2 DEF Create, Idle, Images
  <2>3. ASSUME NEW a \in Admins, NEW input \in Inputs(req[a].rec), Update(a, input)
        PROVE Images'
    <3>1. CASE Done(a)
      BY <2>a, <2>b, <2>c, <2>3, <3>1 DEF Update, Images
    <3>2. CASE ~Done(a)
      <4>1. /\ \A b \in Admins \ {a} : req'[b] = req[b]
            /\ req'[a].step = "update" /\ UNCHANGED <<rows, objects, assetRows, torn>>
        BY <2>0, <2>3, <3>2 DEF Update, ReqType
      <4> QED BY <2>a, <2>b, <4>1 DEF Images
    <3> QED BY <3>1, <3>2
  <2>4. ASSUME NEW a \in Admins, Sign(a) PROVE Images'
    BY <2>a, <2>b, <2>c, <2>d, <2>4 DEF Sign, Images
  <2>5. ASSUME NEW a \in Admins, CommitCreate(a) PROVE Images'
    <3>1. Holders'
      BY <2>a, <2>c, <2>5 DEF CommitCreate
    <3>2. ImagesAreKept'
      BY <2>0, <2>5 DEF CommitCreate, Row, Refers, Images, ImagesAreKept, WorkerTypeOK
    <3> QED BY <3>1, <3>2, <2>5 DEF Images, CommitCreate
  <2>6. ASSUME NEW a \in Admins, CommitUpdate(a) PROVE Images'
    <3>1. Holders'
      BY <2>a, <2>c, <2>6 DEF CommitUpdate
    <3>2. ImagesAreKept'
      BY <2>0, <2>6 DEF CommitUpdate, Row, Refers, Images, ImagesAreKept, WorkerTypeOK
    <3> QED BY <3>1, <3>2, <2>6 DEF Images, CommitUpdate
  <2>7. ASSUME NEW a \in Admins, Delete(a) PROVE Images'
    <3>1. CASE Done(a)
      BY <2>a, <2>b, <2>c, <2>7, <3>1 DEF Delete, Images
    <3>2. CASE ~Done(a)
      <4>1. /\ \A b \in Admins \ {a} : req'[b] = req[b]
            /\ req'[a].step = "delete" /\ UNCHANGED <<rows, objects, assetRows, torn>>
        BY <2>0, <2>7, <3>2 DEF Delete, ReqType
      <4> QED BY <2>a, <2>b, <4>1 DEF Images
    <3> QED BY <3>1, <3>2
  <2>8. ASSUME NEW a \in Admins, CommitDelete(a) PROVE Images'
    <3>1. Holders'
      BY <2>a, <2>c, <2>8 DEF CommitDelete
    <3>2. ImagesAreKept'
      BY <2>0, <2>8 DEF CommitDelete, Images, ImagesAreKept, WorkerTypeOK
    <3> QED BY <3>1, <3>2, <2>8 DEF Images, CommitDelete
  <2>9. ASSUME NEW r \in Records, Expire(r) PROVE Images'
    <3>1. ImagesAreKept'
      BY <2>0, <2>9 DEF Expire, Images, ImagesAreKept, WorkerTypeOK, RowType
    <3> QED BY <3>1, <2>9 DEF Expire, Images, Holds
  <2>10. ASSUME NEW a \in Admins, NEW x \in Assets, Upload(a, x) PROVE Images'
    BY <2>a, <2>b, <2>e, <2>10 DEF Upload, Images
  <2>11. ASSUME NEW a \in Admins, PutObject(a) PROVE Images'
    <3>1. CASE req[a].asset \in objects
      BY <2>a, <2>b, <2>c, <2>11, <3>1 DEF PutObject, Images
    <3>2. CASE req[a].asset \notin objects
      <4>1. /\ req[a].asset \notin objects /\ objects' = objects \cup {req[a].asset}
            /\ Goto(a, "insertAsset") /\ UNCHANGED <<rows, assetRows, torn>>
        BY <2>11, <3>2 DEF PutObject
      <4>2. Holders'
        BY <2>d, <4>1 DEF Images, Holds
      <4>3. ImagesAreKept'
        BY <4>1 DEF Images, ImagesAreKept
      <4> QED BY <4>1, <4>2, <4>3 DEF Images
    <3> QED BY <3>1, <3>2
  <2>12. ASSUME NEW a \in Admins, InsertAsset(a) PROVE Images'
    <3>1. CASE req[a].asset \in assetRows
      <4>1. Holders'
        BY <2>d, <2>12, <3>1 DEF InsertAsset, Images, Holds
      <4> QED BY <2>b, <2>12, <3>1, <4>1 DEF InsertAsset, Images
    <3>2. CASE req[a].asset \notin assetRows
      <4>1. /\ Done(a) /\ UNCHANGED <<rows, objects, torn>>
            /\ assetRows' = assetRows \cup {req[a].asset} /\ Holds(a)
        BY <2>12, <3>2 DEF InsertAsset, Holds
      <4>2. Holders'
        BY <2>c, <4>1 DEF Images, Holds
      <4>3. ImagesAreKept'
        BY <4>1 DEF Images, ImagesAreKept
      <4> QED BY <4>1, <4>2, <4>3 DEF Images
    <3> QED BY <3>1, <3>2
  <2>13. ASSUME NEW a \in Admins, NEW committed \in BOOLEAN, InsertFails(a, committed)
        PROVE Images'
    <3>1. /\ Goto(a, "cleanup") /\ UNCHANGED <<rows, objects>> /\ Holds(a)
          /\ \/ UNCHANGED <<assetRows, torn>>
             \/ /\ assetRows' = assetRows \cup {req[a].asset}
                /\ torn' = torn \cup {req[a].asset}
      BY <2>13 DEF InsertFails, Holds
    <3>2. Holders'
      BY <2>d, <3>1 DEF Images, Holds
    <3>3. ImagesAreKept'
      BY <3>1 DEF Images, ImagesAreKept
    <3> QED BY <3>1, <3>2, <3>3 DEF Images
  <2>14. ASSUME NEW a \in Admins, Cleanup(a) PROVE Images'
    <3>1. /\ Done(a) /\ UNCHANGED <<rows, assetRows, torn>> /\ Holds(a)
          /\ objects' = objects \ {req[a].asset}
      BY <2>14 DEF Cleanup, Holds
    <3>2. Holders'
      BY <2>c, <3>1 DEF Images, Holds
    <3>3. ImagesAreKept'
      BY <3>1 DEF Images, ImagesAreKept
    <3> QED BY <3>1, <3>2, <3>3 DEF Images
  <2>15. ASSUME NEW a \in Admins, NEW x \in Assets, DeleteAsset(a, x) PROVE Images'
    BY <2>a, <2>b, <2>e, <2>15 DEF DeleteAsset, Images
  <2>16. ASSUME NEW a \in Admins, CheckReference(a) PROVE Images'
    <3>1. /\ UNCHANGED <<rows, assetRows, objects>> /\ torn \subseteq torn'
          /\ \/ Done(a)
             \/ Goto(a, "unput") /\ req[a].asset \in torn'
      BY <2>16 DEF CheckReference, Unreferenced
    <3>2. Holders'
      BY <2>c, <2>d, <3>1 DEF Images, Holds
    <3>3. ImagesAreKept'
      BY <3>1 DEF Images, ImagesAreKept
    <3> QED BY <3>1, <3>2, <3>3 DEF Images
  <2>17. ASSUME NEW a \in Admins, RemoveObject(a) PROVE Images'
    <3>1. /\ Goto(a, "unrow") /\ UNCHANGED <<rows, assetRows, torn>>
          /\ req[a].asset \in torn /\ objects' = objects \ {req[a].asset}
      BY <2>17 DEF RemoveObject, Images
    <3>2. Holders'
      BY <2>d, <3>1 DEF Images, Holds
    <3>3. ImagesAreKept'
      BY <3>1 DEF Images, ImagesAreKept
    <3> QED BY <3>1, <3>2, <3>3 DEF Images
  <2>18. ASSUME NEW a \in Admins, RemoveRow(a) PROVE Images'
    <3>1. /\ Done(a) /\ UNCHANGED <<rows, objects, torn>> /\ assetRows' \subseteq assetRows
          /\ Referenced(req[a].asset) => assetRows' = assetRows
          /\ assetRows \ {req[a].asset} \subseteq assetRows'
      BY <2>18 DEF RemoveRow
    <3>2. Holders'
      BY <2>c, <3>1 DEF Images, Holds
    <3>3. ImagesAreKept'
      BY <3>1 DEF Images, ImagesAreKept, Referenced
    <3> QED BY <3>1, <3>2, <3>3 DEF Images
  <2>19. ASSUME NEW a \in Admins, Abort(a) PROVE Images'
    BY <2>a, <2>b, <2>c, <2>19 DEF Abort, Images
  <2>20. CASE UNCHANGED workerVars
    BY <2>20 DEF workerVars, Images, ImagesAreKept, Holds
  <2> QED BY <2>1, <2>2, <2>3, <2>4, <2>5, <2>6, <2>7, <2>8, <2>9, <2>10,
         <2>11, <2>12, <2>13, <2>14, <2>15, <2>16, <2>17, <2>18, <2>19, <2>20 DEF WorkerNext
<1>3. Images => ImagesAreKept
  BY DEF Images
<1> QED BY <1>1, <1>2, <1>3, TypeCorrect, PTL DEF WorkerSpec

=============================================================================
