--------------------------- MODULE DownloadsProofs ---------------------------
(***************************************************************************)
(* What holds of the downloads for any number of them, of progress events,  *)
(* clears, imports of a profile, failed writes, reloads and restarts.       *)
(*                                                                          *)
(* The argument follows the queue.  Of each download, the last write that   *)
(* waits carries what the process says of it, once its transfer stopped;    *)
(* when none waits, the list has it.  And along stored, main and the        *)
(* waiting writes no entry ranks below an earlier one, because while a      *)
(* transfer runs they all have rank 0, and the scan's result comes last.    *)
(* That is so of every entry the file ever held (Copied), which is why a    *)
(* replaced list cannot put the waiting writes in the wrong order.          *)
(*                                                                          *)
(* For the window the channel plays the part of the queue: the last event   *)
(* of a download on its way says how it is; when none is on its way, the    *)
(* page says it, or the list that it waits for will (PageInv).              *)
(***************************************************************************)
EXTENDS Downloads, TLAPS

-----------------------------------------------------------------------------
(* Sequences of tasks.                                                      *)

\* Adding a task at the end.
LEMMA AppendTask ==
  ASSUME NEW q \in Seq(Tasks), NEW t \in Tasks
  PROVE  /\ Append(q, t) \in Seq(Tasks)
         /\ DOMAIN Append(q, t) = 1 .. Len(q) + 1
         /\ DOMAIN q = 1 .. Len(q) /\ Len(q) \in Nat
         /\ \A i \in 1 .. Len(q) : Append(q, t)[i] = q[i]
         /\ Append(q, t)[Len(q) + 1] = t
OBVIOUS

\* Taking the first one.
LEMMA TailTask ==
  ASSUME NEW q \in Seq(Tasks), q # <<>>
  PROVE  /\ Tail(q) \in Seq(Tasks) /\ Head(q) \in Tasks /\ Head(q) = q[1]
         /\ DOMAIN q = 1 .. Len(q) /\ Len(q) \in Nat \ {0}
         /\ DOMAIN Tail(q) = 1 .. Len(q) - 1
         /\ \A i \in 1 .. Len(q) - 1 : Tail(q)[i] = q[i + 1]
OBVIOUS

\* What a task of an entry is.
LEMMA UpsertTyped ==
  ASSUME NEW d, NEW t \in Upserts(d)
  PROVE  /\ t.op \in {"upsert", "done"} /\ t.op # "clear" /\ t.id = d
         /\ t.entry \in Records
BY DEF Upserts, Task

\* Tasks about downloads are theirs.
LEMMA TaskIsUpsert ==
  ASSUME NEW t \in Tasks, t.op # "clear"
  PROVE  t \in Upserts(t.id) /\ t.id \in Ids \ Private /\ t.entry \in Records
BY DEF Tasks, Upserts, Task

LEMMA NewTask ==
  ASSUME NEW d \in Ids \ Private, NEW op \in {"upsert", "done"}, NEW entry \in Records
  PROVE  Task(op, d, entry) \in Tasks /\ Task(op, d, entry) \in Upserts(d)
BY DEF Task, Tasks, Upserts

-----------------------------------------------------------------------------
(* Types.                                                                   *)

LEMMA PublishTyped ==
  ASSUME TypeOK, NEW d \in Ids, NEW entry \in Records,
         NEW op \in {"none", "upsert", "done"}, Publish(d, entry, op)
  PROVE  /\ runtime' \in [Ids -> Entries] /\ queue' \in Seq(Tasks)
         /\ channel' \in Seq(Messages)
<1>1. Event(d, entry) \in Messages
  BY DEF Event, Messages
<1>2. channel' \in Seq(Messages)
  BY <1>1 DEF Publish, TypeOK
<1>3. runtime' \in [Ids -> Entries]
  BY DEF Publish, TypeOK, Entries
<1>4. queue' \in Seq(Tasks)
  <2>1. CASE op = "none" \/ d \in Private
    BY <2>1 DEF Publish, TypeOK
  <2>2. CASE op # "none" /\ d \notin Private
    BY <2>2, NewTask, AppendTask DEF Publish, TypeOK
  <2> QED BY <2>1, <2>2
<1> QED BY <1>2, <1>3, <1>4

LEMMA WithoutTyped ==
  ASSUME NEW items \in [Ids -> Entries]
  PROVE  Without(items) \in [Ids -> Entries]
BY DEF Without, Entries

LEMMA EmptyTyped == Empty \in [Ids -> Entries]
BY DEF Empty, Entries

\* Only what is written has a timer.
Typed == TypeOK /\ \A d \in Ids : armed[d] => d \notin Private

LEMMA TypeInit == Init => Typed
<1> SUFFICES ASSUME Init PROVE Typed
  OBVIOUS
<1>1. copies \in [Ids -> SUBSET Entries]
  BY DEF Init, Entries
<1> QED BY <1>1, EmptyTyped DEF Init, Typed, TypeOK, Phases, Screens

\* What a write stores is an entry of each download.
LEMMA StoresTyped ==
  ASSUME TypeOK, NEW list \in [Ids -> Entries], Stores(list)
  PROVE  /\ stored' \in [Ids -> Entries] /\ copies' \in [Ids -> SUBSET Entries]
         /\ forgotten' \subseteq Ids
BY DEF Stores, Lost, TypeOK

LEMMA AfterSaveTyped == \A entry : AfterSave(entry) \in {"scanning", "over"}
BY DEF AfterSave

LEMMA CurrentTyped ==
  ASSUME TypeOK
  PROVE  List(CurrentList) \in Messages
<1>1. CurrentList \in [Ids -> Entries]
  BY DEF CurrentList, Abandoned, TypeOK, Entries, Records, Settled
<1> QED BY <1>1 DEF List, Messages

\* The queue after a reload: nobody waits for the clears in it.
Reloaded(q) == [i \in DOMAIN q |-> IF q[i].op = "clear" THEN Clear(FALSE) ELSE q[i]]

LEMMA ReloadedTyped ==
  ASSUME NEW q \in Seq(Tasks)
  PROVE  Reloaded(q) \in Seq(Tasks) /\ DOMAIN Reloaded(q) = DOMAIN q
<1>1. Clear(FALSE) \in Tasks
  BY DEF Clear, Tasks
<1>2. DOMAIN q = 1 .. Len(q) /\ Len(q) \in Nat
  OBVIOUS
<1>3. \A i \in 1 .. Len(q) : q[i] \in Tasks
  OBVIOUS
<1>4. Reloaded(q) \in [1 .. Len(q) -> Tasks]
  BY <1>1, <1>2, <1>3 DEF Reloaded
<1> QED BY <1>2, <1>4

LEMMA TypeStep == Typed /\ [Next]_vars => Typed'
<1> SUFFICES ASSUME Typed, [Next]_vars PROVE Typed'
  OBVIOUS
<1> USE DEF kept, page, past, counts, Typed
<1>a. {"progressing", "interrupted", "cancelled", "scanned"} \subseteq Records
  BY DEF Records, Settled, Finished
<1>b. Outcomes \subseteq Records
  BY DownloadsAssumption DEF Records, Settled, Finished
<1>1. ASSUME NEW d \in Ids, Start(d) PROVE Typed'
  BY <1>1, <1>a, PublishTyped DEF Start, TypeOK, Phases
<1>2. ASSUME NEW d \in Ids, Refuse(d) PROVE Typed'
  BY <1>2, <1>a, PublishTyped DEF Refuse, TypeOK, Phases
<1>3. ASSUME NEW d \in Ids, NEW entry \in {"progressing", "interrupted"}, Updated(d, entry)
      PROVE  Typed'
  <2>1. /\ runtime' \in [Ids -> Entries] /\ queue' \in Seq(Tasks)
        /\ channel' \in Seq(Messages)
    BY <1>3, <1>a, PublishTyped DEF Updated
  <2>2. (d \notin Private) \in BOOLEAN
    OBVIOUS
  <2>3. armed' \in [Ids -> BOOLEAN] /\ \A e \in Ids : armed'[e] => e \notin Private
    BY <1>3, <2>2 DEF Updated, TypeOK
  <2>4. updates' \in Nat
    BY <1>3 DEF Updated, TypeOK
  <2> QED BY <1>3, <2>1, <2>3, <2>4 DEF Updated, TypeOK
<1>4. ASSUME NEW d \in Ids, Checkpoint(d) PROVE Typed'
  <2>1. queue' \in Seq(Tasks)
    <3>1. CASE runtime[d] = "progressing"
      BY <1>4, <1>a, <3>1, NewTask, AppendTask DEF Checkpoint, TypeOK
    <3>2. CASE runtime[d] # "progressing"
      BY <1>4, <3>2 DEF Checkpoint, TypeOK
    <3> QED BY <3>1, <3>2
  <2> QED BY <1>4, <2>1 DEF Checkpoint, TypeOK
<1>5. ASSUME NEW d \in Ids, ScanEnds(d) PROVE Typed'
  BY <1>5, <1>a, PublishTyped DEF ScanEnds, TypeOK, Phases
<1>6. ASSUME NEW d \in Ids, NEW entry \in Outcomes, Done(d, entry) PROVE Typed'
  <2>1. /\ runtime' \in [Ids -> Entries] /\ queue' \in Seq(Tasks)
        /\ channel' \in Seq(Messages)
    BY <1>6, <1>b, PublishTyped DEF Done
  <2>2. phase' \in [Ids -> Phases]
    BY <1>6, AfterSaveTyped DEF Done, TypeOK, Phases
  <2> QED BY <1>6, <2>1, <2>2 DEF Done, TypeOK
<1>7. ASSUME NEW ok \in BOOLEAN, RunTask(ok) PROVE Typed'
  <2> DEFINE task == Head(queue)
  <2>1. task \in Tasks /\ queue' \in Seq(Tasks)
    BY <1>7, TailTask DEF RunTask, TypeOK
  <2>2. Listed(task) \in [Ids -> Entries]
    BY <2>1, WithoutTyped, TaskIsUpsert DEF Listed, TypeOK, Entries
  <2>3. /\ main' \in [Ids -> Entries] /\ stored' \in [Ids -> Entries]
        /\ copies' \in [Ids -> SUBSET Entries] /\ forgotten' \subseteq Ids
    BY <1>7, <2>2, StoresTyped DEF RunTask, Owned, TypeOK
  <2>4. phase' \in [Ids -> Phases]
    BY <1>7, <2>1, AfterSaveTyped DEF RunTask, Resumed, TypeOK, Phases
  <2>5. runtime' \in [Ids -> Entries]
    BY <1>7, WithoutTyped DEF RunTask, TypeOK
  <2>6. channel' \in Seq(Messages)
    <3>1. Cleared \in Messages
      BY DEF Cleared, Messages
    <3> QED BY <1>7, <3>1 DEF RunTask, TypeOK
  <2>7. dropped' \subseteq Ids /\ cleared' \subseteq Ids /\ faults' \in Nat
    BY <1>7 DEF RunTask, Over, Quiet, Fault, TypeOK
  <2>8. UNCHANGED <<armed, page, updates, clears, replaces>>
    BY <1>7 DEF RunTask
  <2> QED BY <2>1, <2>3, <2>4, <2>5, <2>6, <2>7, <2>8 DEF TypeOK
<1>8. ASSUME OtherWrite PROVE Typed'
  BY <1>8, StoresTyped DEF OtherWrite, TypeOK
<1>9. ASSUME AnswerLoad PROVE Typed'
  BY <1>9 DEF AnswerLoad, Screen, TypeOK, Screens
<1>10. ASSUME Hydrate PROVE Typed'
  BY <1>10, EmptyTyped DEF Hydrate, Screen, TypeOK, Screens
<1>11. ASSUME AnswerList PROVE Typed'
  BY <1>11, CurrentTyped DEF AnswerList, Screen, TypeOK, Screens
<1>12. ASSUME Deliver PROVE Typed'
  <2> DEFINE message == Head(channel)
  <2>1. message \in Messages /\ channel' \in Seq(Messages)
    BY <1>12 DEF Deliver, TypeOK
  <2>2. UNCHANGED <<phase, runtime, armed, queue, kept, startup, past, counts>>
    BY <1>12 DEF Deliver
  <2>3. CASE message.kind = "event"
    <3>1. message.id \in Ids /\ message.entry \in Entries
      BY <2>1, <2>3 DEF Messages, Entries
    <3> QED BY <1>12, <2>1, <2>2, <2>3, <3>1 DEF Deliver, TypeOK
  <2>4. CASE message.kind = "list"
    <3>1. message.items \in [Ids -> Entries]
      BY <2>1, <2>4 DEF Messages
    <3>2. Recovered(message.items) \in [Ids -> Entries]
      BY <3>1 DEF Recovered, TypeOK
    <3> QED BY <1>12, <2>1, <2>2, <2>4, <3>2 DEF Deliver, Screen, TypeOK, Screens
  <2>5. CASE message.kind = "cleared"
    BY <1>12, <2>1, <2>2, <2>5, WithoutTyped DEF Deliver, TypeOK
  <2> QED BY <1>12, <2>3, <2>4, <2>5 DEF Deliver
<1>13. ASSUME AskClear PROVE Typed'
  <2>1. Clear(TRUE) \in Tasks
    BY DEF Clear, Tasks
  <2>2. queue' \in Seq(Tasks)
    BY <1>13, <2>1, AppendTask DEF AskClear, TypeOK
  <2>3. clears' \in Nat
    BY <1>13 DEF AskClear, TypeOK
  <2> QED BY <1>13, <2>2, <2>3 DEF AskClear, TypeOK
<1>14. ASSUME Reload PROVE Typed'
  <2>1. Clear(FALSE) \in Tasks
    BY DEF Clear, Tasks
  <2>2. queue' \in Seq(Tasks)
    BY <1>14, ReloadedTyped DEF Reload, TypeOK, Reloaded
  <2>3. faults' \in Nat
    BY <1>14 DEF Reload, Fault, TypeOK
  <2> QED BY <1>14, <2>2, <2>3, EmptyTyped DEF Reload, NewPage, TypeOK, Screens
<1>15. ASSUME Restart PROVE Typed'
  <2>1. faults' \in Nat
    BY <1>15 DEF Restart, Fault, TypeOK
  <2>2. phase' \in [Ids -> Phases]
    BY <1>15 DEF Restart, TypeOK, Phases
  <2>3. armed' = [d \in Ids |-> FALSE] /\ armed' \in [Ids -> BOOLEAN]
    BY <1>15 DEF Restart
  <2>4. queue' = <<>> /\ queue' \in Seq(Tasks)
    BY <1>15 DEF Restart
  <2>5. channel' = <<>> /\ channel' \in Seq(Messages)
    BY <1>15 DEF Restart, NewPage
  <2> QED BY <1>15, <2>1, <2>2, <2>3, <2>4, <2>5, EmptyTyped
          DEF Restart, NewPage, TypeOK, Screens
<1>16. CASE UNCHANGED vars
  BY <1>16 DEF vars, TypeOK
<1>17. ASSUME NEW items \in Replacements, Replace(items) PROVE Typed'
  <2>1. items \in [Ids -> Entries]
    BY DEF Replacements
  <2>2. /\ stored' \in [Ids -> Entries] /\ copies' \in [Ids -> SUBSET Entries]
        /\ forgotten' \subseteq Ids
    BY <1>17, <2>1, StoresTyped DEF Replace
  <2>3. dropped' \subseteq Ids /\ cleared' \subseteq Ids /\ replaces' \in Nat
    BY <1>17 DEF Replace, TypeOK
  <2> QED BY <1>17, <2>1, <2>2, <2>3 DEF Replace, TypeOK
<1>18. ASSUME ReplaceFails PROVE Typed'
  BY <1>18 DEF ReplaceFails, Fault, TypeOK
<1> QED BY <1>1, <1>2, <1>3, <1>4, <1>5, <1>6, <1>7, <1>8, <1>9, <1>10, <1>11, <1>12,
           <1>13, <1>14, <1>15, <1>16, <1>17, <1>18 DEF Next

\* The variables have their types; no private download is in a task.
THEOREM TypeCorrect == Spec => []TypeOK
<1>1. Typed => TypeOK
  BY DEF Typed
<1> QED BY TypeInit, TypeStep, <1>1, PTL DEF Spec

-----------------------------------------------------------------------------
(* The tasks of one download.                                               *)

\* The tasks of d are where they were.
Same(d) ==
    /\ Pending(d, queue') = Pending(d, queue)
    /\ \A i \in Pending(d, queue) : queue'[i] = queue[i]

\* One more, after the others.
Added(d, op, entry) ==
    \E n \in Nat \ {0} :
      /\ Pending(d, queue') = Pending(d, queue) \cup {n}
      /\ \A i \in Pending(d, queue) : i < n /\ queue'[i] = queue[i]
      /\ queue'[n].op = op /\ queue'[n].entry = entry

\* The first task of the queue is gone.
Shifted(d) ==
    \A i \in Pending(d, queue') :
      i \in Nat \ {0} /\ i + 1 \in Pending(d, queue) /\ queue'[i] = queue[i + 1]

\* What is said of d stays; its timer may stop, its entry reach the file.
SameEntry(d) ==
    /\ phase'[d] = phase[d] /\ runtime'[d] = runtime[d] /\ (armed'[d] => armed[d])
    /\ main'[d] = main[d] /\ stored'[d] \in {stored[d], main[d]}
    /\ (d \in dropped') = (d \in dropped) /\ (d \in cleared') = (d \in cleared)

LEMMA PendingFacts ==
  ASSUME TypeOK, NEW d, NEW i \in Pending(d, queue)
  PROVE  /\ i \in Nat \ {0} /\ i \in 1 .. Len(queue) /\ Len(queue) \in Nat
         /\ queue[i] \in Upserts(d) /\ queue[i].entry \in Records
         /\ queue[i].op \in {"upsert", "done"} /\ queue[i].id = d
BY UpsertTyped DEF Pending, TypeOK

LEMMA SameQueue ==
  ASSUME queue' = queue, NEW d
  PROVE  Same(d)
BY DEF Same, Pending

LEMMA AppendedOther ==
  ASSUME TypeOK, NEW d, NEW t \in Tasks, t \notin Upserts(d), queue' = Append(queue, t)
  PROVE  Same(d)
BY AppendTask DEF Same, Pending, TypeOK

LEMMA AppendedOwn ==
  ASSUME TypeOK, NEW d \in Ids \ Private, NEW op \in {"upsert", "done"}, NEW entry \in Records,
         queue' = Append(queue, Task(op, d, entry))
  PROVE  Added(d, op, entry)
<1> DEFINE t == Task(op, d, entry)
           n == Len(queue) + 1
<1>1. t \in Tasks /\ t \in Upserts(d) /\ t.op = op /\ t.entry = entry
  BY NewTask DEF Task
<1>2. /\ DOMAIN queue = 1 .. Len(queue) /\ Len(queue) \in Nat
      /\ DOMAIN queue' = 1 .. n /\ queue'[n] = t
      /\ \A i \in 1 .. Len(queue) : queue'[i] = queue[i]
  BY <1>1, AppendTask DEF TypeOK
<1>3. n \in Nat \ {0} /\ Pending(d, queue') = Pending(d, queue) \cup {n}
  BY <1>1, <1>2 DEF Pending
<1>4. \A i \in Pending(d, queue) : i < n /\ queue'[i] = queue[i]
  BY <1>2 DEF Pending
<1> QED BY <1>1, <1>2, <1>3, <1>4 DEF Added

LEMMA TailShifts ==
  ASSUME TypeOK, queue # <<>>, queue' = Tail(queue), NEW d
  PROVE  Shifted(d)
<1>1. /\ DOMAIN queue = 1 .. Len(queue) /\ Len(queue) \in Nat \ {0}
      /\ DOMAIN queue' = 1 .. Len(queue) - 1
      /\ \A i \in 1 .. Len(queue) - 1 : queue'[i] = queue[i + 1]
  BY TailTask DEF TypeOK
<1> QED BY <1>1 DEF Shifted, Pending

\* Nothing is lost but the first.
LEMMA TailKeeps ==
  ASSUME TypeOK, queue # <<>>, queue' = Tail(queue), NEW d,
         NEW i \in Pending(d, queue), i # 1
  PROVE  i - 1 \in Pending(d, queue') /\ queue'[i - 1] = queue[i]
<1>1. /\ DOMAIN queue = 1 .. Len(queue) /\ Len(queue) \in Nat \ {0}
      /\ DOMAIN queue' = 1 .. Len(queue) - 1
      /\ \A k \in 1 .. Len(queue) - 1 : queue'[k] = queue[k + 1]
  BY TailTask DEF TypeOK
<1>2. i \in 1 .. Len(queue) /\ queue[i] \in Upserts(d)
  BY <1>1 DEF Pending
<1>3. i - 1 \in 1 .. Len(queue) - 1 /\ queue'[i - 1] = queue[i]
  BY <1>1, <1>2
<1> QED BY <1>1, <1>2, <1>3 DEF Pending

LEMMA ReloadKeeps ==
  ASSUME TypeOK, queue' = Reloaded(queue), NEW d
  PROVE  Same(d)
<1>1. DOMAIN queue' = DOMAIN queue
  BY ReloadedTyped DEF TypeOK
<1>2. Clear(FALSE) \notin Upserts(d)
  <2>1. Clear(FALSE).op = "clear"
    BY DEF Clear
  <2> QED BY <2>1, UpsertTyped
<1>3. ASSUME NEW i \in DOMAIN queue
      PROVE  /\ queue'[i] \in Upserts(d) <=> queue[i] \in Upserts(d)
             /\ queue[i] \in Upserts(d) => queue'[i] = queue[i]
  <2>1. CASE queue[i].op = "clear"
    <3>1. queue'[i] = Clear(FALSE)
      BY <2>1 DEF Reloaded
    <3>2. queue[i] \notin Upserts(d)
      BY <2>1, UpsertTyped
    <3> QED BY <3>1, <3>2, <1>2
  <2>2. CASE queue[i].op # "clear"
    BY <2>2 DEF Reloaded
  <2> QED BY <2>1, <2>2
<1> QED BY <1>1, <1>3 DEF Same, Pending

-----------------------------------------------------------------------------
(* The invariant, of each download.                                         *)

\* Only the handler of the end has a task that waits for its write, the last
\* of the download; and a scan that is announced is on its way.
Waits(d) ==
    /\ armed[d] => phase[d] = "active"
    /\ \A i \in Pending(d, queue) :
         queue[i].op = "done" =>
           phase[d] = "saving" /\ \A j \in Pending(d, queue) : j <= i
    /\ phase[d] = "saving" => \E i \in Pending(d, queue) : queue[i].op = "done"
    /\ runtime[d] = "scanning" => phase[d] \in {"saving", "scanning"}

\* How far the entries of a transfer may be.
Level(step) == IF step \in {"unused", "active"} THEN 0 ELSE IF step = "over" THEN 2 ELSE 1

\* No entry ranks below an earlier one.
Ranked(d) ==
    /\ Rank(stored[d]) <= Level(phase[d]) /\ Rank(main[d]) <= Level(phase[d])
    /\ main[d] = "none" \/ Rank(stored[d]) <= Rank(main[d])
    /\ \A i \in Pending(d, queue) :
         /\ Rank(queue[i].entry) <= Level(phase[d])
         /\ Rank(stored[d]) <= Rank(queue[i].entry)
         /\ Rank(main[d]) <= Rank(queue[i].entry)
         /\ \A j \in Pending(d, queue) : i < j => Rank(queue[i].entry) <= Rank(queue[j].entry)

\* What the process says of a transfer that stopped is in the last task, or in
\* the list.
Agrees(d) ==
    d \notin Private /\ runtime[d] \in Settled =>
      /\ \A i \in Pending(d, queue) :
           (\A j \in Pending(d, queue) : j <= i) => queue[i].entry = runtime[d]
      /\ Pending(d, queue) = {} /\ d \notin dropped => main[d] = runtime[d]

\* Nothing will write again what was cleared.
Gone(d) ==
    d \in cleared =>
      /\ phase[d] = "over" /\ Pending(d, queue) = {}
      /\ main[d] = "none" /\ stored[d] = "none"

Hidden(d) == d \in Private => main[d] = "none" /\ stored[d] = "none"

Good(d) == Waits(d) /\ Ranked(d) /\ Agrees(d) /\ Gone(d) /\ Hidden(d)

\* What the file ever held of d does not come after what still waits, and a
\* private download was never in it.
Copied(d) ==
    \A c \in copies[d] :
      /\ d \in Private => c = "none"
      /\ Rank(c) <= Level(phase[d])
      /\ \A i \in Pending(d, queue) : Rank(c) <= Rank(queue[i].entry)

IInv == Typed /\ \A d \in Ids : Good(d) /\ Copied(d)

LEMMA RankFacts ==
  /\ \A e : Rank(e) \in {0, 1, 2}
  /\ \A e : e \in {"none", "progressing", "interrupted"} => Rank(e) = 0
  /\ \A e \in Outcomes : Rank(e) <= 1
  /\ Rank("scanned") = 2 /\ Rank("cancelled") = 1
  /\ \A e \in Records : e \notin Finished => Rank(e) = 0
BY DownloadsAssumption DEF Rank, Finished, Records, Settled

LEMMA LevelFacts ==
  /\ \A p : Level(p) \in {0, 1, 2}
  /\ Level("unused") = 0 /\ Level("active") = 0
  /\ Level("saving") = 1 /\ Level("scanning") = 1 /\ Level("over") = 2
BY DEF Level

\* A private download has no task.
LEMMA PrivateHasNone ==
  ASSUME TypeOK, NEW d \in Private
  PROVE  Pending(d, queue) = {}
<1> SUFFICES ASSUME NEW i \in Pending(d, queue) PROVE FALSE
  OBVIOUS
<1>1. queue[i] \in Tasks
  BY PendingFacts DEF TypeOK
<1> QED BY <1>1, PendingFacts, TaskIsUpsert

\* A step that is not about d.
LEMMA GoodSame ==
  ASSUME NEW d \in Ids, Good(d), SameEntry(d), Same(d)
  PROVE  Good(d)'
<1> USE DEF Same, SameEntry
<1>1. Waits(d)'
  BY DEF Good, Waits
<1>2. Ranked(d)'
  <2>1. Rank(stored'[d]) <= Level(phase[d])
    BY DEF Good, Ranked
  <2>2. main'[d] = "none" \/ Rank(stored'[d]) <= Rank(main'[d])
    BY RankFacts DEF Good, Ranked
  <2>3. \A i \in Pending(d, queue') : Rank(stored'[d]) <= Rank(queue'[i].entry)
    BY DEF Good, Ranked
  <2> QED BY <2>1, <2>2, <2>3 DEF Good, Ranked
<1>3. Agrees(d)'
  BY DEF Good, Agrees
<1>4. Gone(d)'
  BY DEF Good, Gone
<1> QED BY <1>1, <1>2, <1>3, <1>4 DEF Good, Hidden

\* The next task is another download's.
LEMMA GoodShifted ==
  ASSUME TypeOK, NEW d \in Ids, Good(d), SameEntry(d),
         queue # <<>>, queue' = Tail(queue), 1 \notin Pending(d, queue)
  PROVE  Good(d)'
<1>1. Shifted(d)
  BY TailShifts
<1>2. \A i \in Pending(d, queue) : /\ i - 1 \in Pending(d, queue') /\ queue'[i - 1] = queue[i]
                                   /\ i \in Nat
  BY TailKeeps, PendingFacts
<1> USE DEF Shifted, SameEntry
<1>3. Waits(d)'
  <2>1. ASSUME NEW i \in Pending(d, queue'), queue'[i].op = "done"
        PROVE  phase'[d] = "saving" /\ \A j \in Pending(d, queue') : j <= i
    <3>1. i + 1 \in Pending(d, queue) /\ queue[i + 1].op = "done"
      BY <1>1, <2>1
    <3>2. phase[d] = "saving" /\ \A j \in Pending(d, queue) : j <= i + 1
      BY <3>1 DEF Good, Waits
    <3> QED BY <1>1, <3>2
  <2>2. phase'[d] = "saving" => \E i \in Pending(d, queue') : queue'[i].op = "done"
    <3>1. SUFFICES ASSUME phase[d] = "saving"
                   PROVE  \E i \in Pending(d, queue') : queue'[i].op = "done"
      OBVIOUS
    <3>2. PICK i \in Pending(d, queue) : queue[i].op = "done"
      BY <3>1 DEF Good, Waits
    <3> QED BY <1>2, <3>2
  <2> QED BY <2>1, <2>2 DEF Good, Waits
<1>4. Ranked(d)'
  <2>1. ASSUME NEW i \in Pending(d, queue')
        PROVE  /\ Rank(queue'[i].entry) <= Level(phase[d])
               /\ Rank(stored[d]) <= Rank(queue'[i].entry)
               /\ Rank(main[d]) <= Rank(queue'[i].entry)
    BY <1>1 DEF Good, Ranked
  <2>2. ASSUME NEW i \in Pending(d, queue'), NEW j \in Pending(d, queue'), i < j
        PROVE  Rank(queue'[i].entry) <= Rank(queue'[j].entry)
    <3>1. i \in Nat /\ i + 1 \in Pending(d, queue) /\ queue'[i] = queue[i + 1]
      BY <1>1
    <3>2. j \in Nat /\ j + 1 \in Pending(d, queue) /\ queue'[j] = queue[j + 1]
      BY <1>1
    <3>3. i + 1 < j + 1
      BY <2>2, <3>1, <3>2
    <3>4. \A k, l \in Pending(d, queue) : k < l => Rank(queue[k].entry) <= Rank(queue[l].entry)
      BY DEF Good, Ranked
    <3> QED BY <3>1, <3>2, <3>3, <3>4
  <2>3. Rank(stored'[d]) <= Level(phase[d])
    BY DEF Good, Ranked
  <2>4. main'[d] = "none" \/ Rank(stored'[d]) <= Rank(main'[d])
    BY RankFacts DEF Good, Ranked
  <2>5. \A i \in Pending(d, queue') : Rank(stored'[d]) <= Rank(queue'[i].entry)
    BY <2>1
  <2> QED BY <2>1, <2>2, <2>3, <2>4, <2>5 DEF Good, Ranked
<1>5. Agrees(d)'
  <2>1. ASSUME NEW i \in Pending(d, queue'), \A j \in Pending(d, queue') : j <= i
        PROVE  \A j \in Pending(d, queue) : j <= i + 1
    BY <1>1, <1>2, <2>1
  <2>2. Pending(d, queue') = {} => Pending(d, queue) = {}
    BY <1>2
  <2> QED BY <1>1, <2>1, <2>2 DEF Good, Agrees
<1>6. Gone(d)'
  BY <1>1 DEF Good, Gone
<1> QED BY <1>3, <1>4, <1>5, <1>6 DEF Good, Hidden

\* An entry of d is announced and its write added.
LEMMA GoodAdded ==
  ASSUME TypeOK, NEW d \in Ids \ Private, Good(d),
         NEW op \in {"upsert", "done"}, NEW entry \in Records, Added(d, op, entry),
         runtime'[d] = entry, main'[d] = main[d], stored'[d] = stored[d], cleared' = cleared,
         phase[d] \notin {"saving", "over"},
         Level(phase[d]) <= Rank(entry), Rank(entry) <= Level(phase'[d]),
         (phase'[d] = "saving") = (op = "done"),
         armed'[d] => phase'[d] = "active",
         entry = "scanning" => op = "done"
  PROVE  Good(d)'
<1>1. PICK n \in Nat \ {0} :
        /\ Pending(d, queue') = Pending(d, queue) \cup {n}
        /\ \A i \in Pending(d, queue) : i < n /\ queue'[i] = queue[i]
        /\ queue'[n].op = op /\ queue'[n].entry = entry
  BY DEF Added
<1>2. \A i \in Pending(d, queue) : queue[i].op # "done" /\ i \in Nat /\ i # n
  BY <1>1, PendingFacts DEF Good, Waits
<1>3. Waits(d)'
  BY <1>1, <1>2 DEF Good, Waits
<1>4. Ranked(d)'
  <2>1. /\ Level(phase[d]) \in Nat /\ Level(phase'[d]) \in Nat /\ Rank(entry) \in Nat
        /\ Rank(stored[d]) \in Nat /\ Rank(main[d]) \in Nat
        /\ \A i \in Pending(d, queue) : Rank(queue[i].entry) \in Nat
    BY LevelFacts, RankFacts
  <2>2. /\ Rank(stored'[d]) <= Level(phase'[d]) /\ Rank(main'[d]) <= Level(phase'[d])
        /\ main'[d] = "none" \/ Rank(stored'[d]) <= Rank(main'[d])
    BY <2>1 DEF Good, Ranked
  <2>3. ASSUME NEW i \in Pending(d, queue)
        PROVE  /\ Rank(queue'[i].entry) <= Level(phase'[d])
               /\ Rank(queue'[i].entry) <= Rank(entry)
               /\ Rank(stored'[d]) <= Rank(queue'[i].entry)
               /\ Rank(main'[d]) <= Rank(queue'[i].entry)
    BY <1>1, <2>1 DEF Good, Ranked
  <2>4. Rank(stored'[d]) <= Rank(entry) /\ Rank(main'[d]) <= Rank(entry)
    BY <2>1 DEF Good, Ranked
  <2>5. ASSUME NEW i \in Pending(d, queue'), NEW j \in Pending(d, queue'), i < j
        PROVE  Rank(queue'[i].entry) <= Rank(queue'[j].entry)
    <3>1. i \in Pending(d, queue)
      BY <1>1, <1>2, <2>5
    <3>2. CASE j = n
      BY <1>1, <2>3, <3>1, <3>2
    <3>3. CASE j \in Pending(d, queue)
      BY <1>1, <2>5, <3>1, <3>3 DEF Good, Ranked
    <3> QED BY <1>1, <3>2, <3>3
  <2> QED BY <1>1, <2>2, <2>3, <2>4, <2>5 DEF Ranked
<1>5. Agrees(d)'
  BY <1>1, <1>2 DEF Agrees
<1>6. Gone(d)'
  BY DEF Good, Gone
<1> QED BY <1>3, <1>4, <1>5, <1>6 DEF Good, Hidden

\* An entry of d is announced that is not written: it is private, or the
\* transfer goes on.
LEMMA GoodUnwritten ==
  ASSUME NEW d \in Ids, Good(d), Same(d),
         main'[d] = main[d], stored'[d] = stored[d], cleared' = cleared,
         d \in Private \/ runtime'[d] = "progressing",
         phase[d] \notin {"saving", "over"}, phase'[d] # "saving",
         Level(phase[d]) <= Level(phase'[d]),
         armed'[d] => phase'[d] = "active",
         runtime'[d] = "scanning" => phase'[d] = "scanning"
  PROVE  Good(d)'
<1> USE DEF Same
<1>1. Waits(d)'
  BY DEF Good, Waits
<1>2. Ranked(d)'
  <2>1. /\ Level(phase[d]) \in Nat /\ Level(phase'[d]) \in Nat
        /\ \A e : Rank(e) \in Nat
    BY LevelFacts, RankFacts
  <2> QED BY <2>1 DEF Good, Ranked
<1>3. Agrees(d)'
  <2>1. "progressing" \notin Settled
    BY DEF Settled, Finished
  <2> QED BY <2>1 DEF Agrees
<1>4. Gone(d)'
  BY DEF Good, Gone
<1> QED BY <1>1, <1>2, <1>3, <1>4 DEF Good, Hidden

\* The step of another download.
LEMMA PublishOther ==
  ASSUME TypeOK, NEW d \in Ids, NEW e \in Ids, d # e, NEW entry \in Records,
         NEW op \in {"none", "upsert", "done"}, Publish(e, entry, op)
  PROVE  Same(d) /\ runtime'[d] = runtime[d]
<1>1. runtime'[d] = runtime[d]
  BY DEF Publish, TypeOK
<1>2. CASE op = "none" \/ e \in Private
  BY <1>1, <1>2, SameQueue DEF Publish
<1>3. CASE op # "none" /\ e \notin Private
  <2>1. Task(op, e, entry) \in Tasks /\ Task(op, e, entry).id = e
    BY <1>3, NewTask DEF Task
  <2>2. Task(op, e, entry) \notin Upserts(d)
    BY <2>1, UpsertTyped
  <2> QED BY <1>1, <1>3, <2>1, <2>2, AppendedOther DEF Publish
<1> QED BY <1>2, <1>3

LEMMA PublishOwn ==
  ASSUME TypeOK, NEW d \in Ids, NEW entry \in Records,
         NEW op \in {"none", "upsert", "done"}, Publish(d, entry, op)
  PROVE  /\ runtime'[d] = entry
         /\ op = "none" \/ d \in Private => Same(d)
         /\ op # "none" /\ d \notin Private => Added(d, op, entry)
<1>1. runtime'[d] = entry
  BY DEF Publish, TypeOK
<1>2. op = "none" \/ d \in Private => Same(d)
  BY SameQueue DEF Publish
<1>3. op # "none" /\ d \notin Private => Added(d, op, entry)
  BY AppendedOwn DEF Publish
<1> QED BY <1>1, <1>2, <1>3

-----------------------------------------------------------------------------
(* The steps.                                                               *)

\* The transfer of d itself.
LEMMA GoodTransfer ==
  ASSUME Typed, NEW d \in Ids, Good(d),
         \/ Start(d) \/ Refuse(d) \/ Checkpoint(d) \/ ScanEnds(d)
         \/ \E entry \in {"progressing", "interrupted"} : Updated(d, entry)
         \/ \E entry \in Outcomes : Done(d, entry)
  PROVE  Good(d)'
<1> USE DEF kept, page, past, counts
<1>a. /\ {"progressing", "interrupted", "cancelled", "scanned"} \cup Outcomes \subseteq Records
      /\ "scanned" \notin Outcomes
  BY DownloadsAssumption DEF Records, Settled, Finished
<1>b. armed[d] => phase[d] = "active" /\ d \notin Private
  BY DEF Good, Waits, Typed
<1>c. TypeOK
  BY DEF Typed
<1>1. CASE Start(d)
  <2>1. /\ phase[d] = "unused" /\ phase'[d] = "active" /\ Publish(d, "progressing", "upsert")
        /\ main' = main /\ stored' = stored /\ cleared' = cleared
    BY <1>c, <1>1 DEF Start, TypeOK
  <2>2. CASE d \in Private
    BY <1>c, <1>a, <2>1, <2>2, PublishOwn, GoodUnwritten, LevelFacts
  <2>3. CASE d \notin Private
    BY <1>c, <1>a, <2>1, <2>3, PublishOwn, GoodAdded, LevelFacts, RankFacts
  <2> QED BY <2>2, <2>3
<1>2. CASE Refuse(d)
  <2>1. /\ phase[d] = "unused" /\ phase'[d] = "over" /\ Publish(d, "cancelled", "upsert")
        /\ main' = main /\ stored' = stored /\ cleared' = cleared /\ armed' = armed
    BY <1>c, <1>2 DEF Refuse, TypeOK
  <2>2. CASE d \in Private
    BY <1>c, <1>a, <1>b, <2>1, <2>2, PublishOwn, GoodUnwritten, LevelFacts
  <2>3. CASE d \notin Private
    BY <1>c, <1>a, <1>b, <2>1, <2>3, PublishOwn, GoodAdded, LevelFacts, RankFacts
  <2> QED BY <2>2, <2>3
<1>3. ASSUME Checkpoint(d) PROVE Good(d)'
  <2>1. /\ phase' = phase /\ phase[d] = "active" /\ ~armed'[d] /\ d \notin Private
        /\ runtime' = runtime /\ main' = main /\ stored' = stored
        /\ cleared' = cleared /\ dropped' = dropped
    BY <1>c, <1>3, <1>b DEF Checkpoint, TypeOK
  <2>2. CASE runtime[d] = "progressing"
    <3>1. queue' = Append(queue, Task("upsert", d, "progressing"))
      BY <1>3, <2>2 DEF Checkpoint
    <3>2. Added(d, "upsert", "progressing")
      BY <1>c, <1>a, <2>1, <3>1, AppendedOwn
    <3> QED BY <1>c, <1>a, <2>1, <2>2, <3>2, GoodAdded, LevelFacts, RankFacts
  <2>3. CASE runtime[d] # "progressing"
    <3>1. Same(d)
      BY <1>3, <2>3, SameQueue DEF Checkpoint
    <3> QED BY <2>1, <3>1, GoodSame DEF SameEntry
  <2> QED BY <2>2, <2>3
<1>4. CASE ScanEnds(d)
  <2>1. /\ phase[d] = "scanning" /\ phase'[d] = "over" /\ Publish(d, "scanned", "upsert")
        /\ main' = main /\ stored' = stored /\ cleared' = cleared /\ armed' = armed
    BY <1>c, <1>4 DEF ScanEnds, TypeOK
  <2>2. CASE d \in Private
    BY <1>c, <1>a, <1>b, <2>1, <2>2, PublishOwn, GoodUnwritten, LevelFacts
  <2>3. CASE d \notin Private
    BY <1>c, <1>a, <1>b, <2>1, <2>3, PublishOwn, GoodAdded, LevelFacts, RankFacts
  <2> QED BY <2>2, <2>3
<1>5. ASSUME NEW entry \in {"progressing", "interrupted"}, Updated(d, entry) PROVE Good(d)'
  <2> DEFINE op == IF entry = "interrupted" THEN "upsert" ELSE "none"
  <2>1. /\ phase[d] = "active" /\ phase' = phase /\ Publish(d, entry, op)
        /\ main' = main /\ stored' = stored /\ cleared' = cleared
        /\ entry \in Records /\ op \in {"none", "upsert", "done"}
    BY <1>5, <1>a DEF Updated
  <2>2. CASE op = "none" \/ d \in Private
    BY <1>c, <2>1, <2>2, PublishOwn, GoodUnwritten, LevelFacts
  <2>3. CASE op = "upsert" /\ d \notin Private
    <3>1. entry = "interrupted" /\ op # "done"
      BY <2>3
    <3> QED BY <1>c, <2>1, <2>3, <3>1, PublishOwn, GoodAdded, LevelFacts, RankFacts
  <2> QED BY <2>2, <2>3
<1>6. ASSUME NEW entry \in Outcomes, Done(d, entry) PROVE Good(d)'
  <2>1. /\ phase[d] = "active" /\ Publish(d, entry, "done") /\ ~armed'[d]
        /\ phase'[d] = IF d \in Private THEN AfterSave(entry) ELSE "saving"
        /\ main' = main /\ stored' = stored /\ cleared' = cleared /\ entry \in Records
    BY <1>c, <1>6, <1>a DEF Done, TypeOK
  <2>2. CASE d \in Private
    BY <1>c, <2>1, <2>2, PublishOwn, GoodUnwritten, LevelFacts DEF AfterSave
  <2>3. CASE d \notin Private
    BY <1>c, <2>1, <2>3, PublishOwn, GoodAdded, LevelFacts, RankFacts
  <2> QED BY <2>2, <2>3
<1> QED BY <1>1, <1>2, <1>3, <1>4, <1>5, <1>6

\* A task of d is written, or fails to be.
LEMMA GoodWritten ==
  ASSUME TypeOK, NEW d \in Ids, Good(d), NEW ok \in BOOLEAN, RunTask(ok),
         queue[1] \in Upserts(d), d \notin Private
  PROVE  Good(d)'
<1> DEFINE entry == queue[1].entry
           done  == queue[1].op = "done"
<1>1. /\ queue # <<>> /\ queue' = Tail(queue) /\ Head(queue) = queue[1]
      /\ 1 \in Pending(d, queue)
  BY TailTask DEF RunTask, TypeOK, Pending
<1>2. queue[1].id = d /\ queue[1].op # "clear" /\ entry \in Records
  BY UpsertTyped
<1>3. /\ main'[d] = entry /\ stored'[d] \in {entry, stored[d]}
      /\ runtime' = runtime /\ armed' = armed /\ cleared' = cleared /\ d \notin dropped'
      /\ phase'[d] = IF done THEN AfterSave(entry) ELSE phase[d]
  BY <1>1, <1>2 DEF RunTask, Owned, Listed, Resumed, TypeOK, Stores
<1>4. Shifted(d)
  BY <1>1, TailShifts
<1>5. \A i \in Pending(d, queue) :
        i # 1 => i - 1 \in Pending(d, queue') /\ queue'[i - 1] = queue[i]
  BY <1>1, TailKeeps
<1>6. \A i \in Pending(d, queue) : i \in Nat \ {0}
  BY PendingFacts
<1>7. done => Pending(d, queue') = {} /\ phase[d] = "saving"
  <2>1. done => phase[d] = "saving" /\ \A j \in Pending(d, queue) : j <= 1
    BY <1>1 DEF Good, Waits
  <2> QED BY <1>4, <2>1 DEF Shifted
<1>8. Pending(d, queue') = {} => \A j \in Pending(d, queue) : j <= 1
  BY <1>5, <1>6
<1>9. Pending(d, queue') = {} /\ runtime[d] \in Settled => entry = runtime[d]
  BY <1>1, <1>8 DEF Good, Agrees
<1>10. Level(phase[d]) <= Level(phase'[d]) \/ phase'[d] = phase[d]
  BY <1>3, <1>7, LevelFacts DEF AfterSave
<1>11. Waits(d)'
  <2>1. armed'[d] => phase'[d] = "active"
    BY <1>3, <1>7 DEF Good, Waits
  <2>2. ASSUME NEW i \in Pending(d, queue'), queue'[i].op = "done"
        PROVE  phase'[d] = "saving" /\ \A j \in Pending(d, queue') : j <= i
    <3>1. i \in Nat \ {0} /\ i + 1 \in Pending(d, queue) /\ queue[i + 1].op = "done" /\ ~done
      BY <1>4, <1>7, <2>2 DEF Shifted
    <3>2. phase[d] = "saving" /\ \A j \in Pending(d, queue) : j <= i + 1
      BY <3>1 DEF Good, Waits
    <3> QED BY <1>3, <1>4, <3>1, <3>2 DEF Shifted
  <2>3. phase'[d] = "saving" => \E i \in Pending(d, queue') : queue'[i].op = "done"
    <3>1. SUFFICES ASSUME phase'[d] = "saving"
                   PROVE  \E i \in Pending(d, queue') : queue'[i].op = "done"
      OBVIOUS
    <3>2. ~done /\ phase[d] = "saving"
      BY <1>3, <3>1 DEF AfterSave
    <3>3. PICK i \in Pending(d, queue) : queue[i].op = "done"
      BY <3>2 DEF Good, Waits
    <3> QED BY <1>5, <3>2, <3>3
  <2>4. runtime'[d] = "scanning" => phase'[d] \in {"saving", "scanning"}
    <3>1. CASE done
      <4>1. runtime[d] = "scanning" => entry = "scanning"
        BY <1>7, <1>9, <3>1 DEF Settled, Finished
      <4> QED BY <1>3, <3>1, <4>1 DEF AfterSave
    <3>2. CASE ~done
      BY <1>3, <3>2 DEF Good, Waits
    <3> QED BY <3>1, <3>2
  <2> QED BY <2>1, <2>2, <2>3, <2>4 DEF Waits
<1>12. Ranked(d)'
  <2>0. /\ Level(phase[d]) \in Nat /\ Level(phase'[d]) \in Nat
        /\ \A e : Rank(e) \in Nat
    BY LevelFacts, RankFacts
  <2>1. Level(phase[d]) <= Level(phase'[d])
    BY <1>10, <2>0
  <2>2. Rank(stored[d]) <= Rank(entry) /\ Rank(entry) <= Level(phase[d])
    BY <1>1 DEF Good, Ranked
  <2>3. ASSUME NEW i \in Pending(d, queue')
        PROVE  /\ Rank(queue'[i].entry) <= Level(phase[d])
               /\ Rank(stored[d]) <= Rank(queue'[i].entry)
               /\ Rank(entry) <= Rank(queue'[i].entry)
    <3>1. i \in Nat \ {0} /\ i + 1 \in Pending(d, queue) /\ queue'[i] = queue[i + 1]
      BY <1>4 DEF Shifted
    <3>2. 1 < i + 1
      BY <3>1
    <3> QED BY <1>1, <3>1, <3>2 DEF Good, Ranked
  <2>4. ASSUME NEW i \in Pending(d, queue'), NEW j \in Pending(d, queue'), i < j
        PROVE  Rank(queue'[i].entry) <= Rank(queue'[j].entry)
    <3>1. i \in Nat /\ i + 1 \in Pending(d, queue) /\ queue'[i] = queue[i + 1]
      BY <1>4 DEF Shifted
    <3>2. j \in Nat /\ j + 1 \in Pending(d, queue) /\ queue'[j] = queue[j + 1]
      BY <1>4 DEF Shifted
    <3>3. i + 1 < j + 1
      BY <2>4, <3>1, <3>2
    <3>4. \A k, l \in Pending(d, queue) : k < l => Rank(queue[k].entry) <= Rank(queue[l].entry)
      BY DEF Good, Ranked
    <3> QED BY <3>1, <3>2, <3>3, <3>4
  <2>5. /\ Rank(stored'[d]) <= Level(phase'[d]) /\ Rank(main'[d]) <= Level(phase'[d])
        /\ Rank(stored'[d]) <= Rank(main'[d])
    BY <1>3, <2>0, <2>1, <2>2
  <2>6. ASSUME NEW i \in Pending(d, queue')
        PROVE  /\ Rank(queue'[i].entry) <= Level(phase'[d])
               /\ Rank(stored'[d]) <= Rank(queue'[i].entry)
               /\ Rank(main'[d]) <= Rank(queue'[i].entry)
    BY <1>3, <2>0, <2>1, <2>3
  <2> QED BY <2>4, <2>5, <2>6 DEF Ranked
<1>13. Agrees(d)'
  <2>1. ASSUME runtime'[d] \in Settled, NEW i \in Pending(d, queue'),
               \A j \in Pending(d, queue') : j <= i
        PROVE  queue'[i].entry = runtime'[d]
    <3>1. i \in Nat \ {0} /\ i + 1 \in Pending(d, queue) /\ queue'[i] = queue[i + 1]
      BY <1>4 DEF Shifted
    <3>2. \A j \in Pending(d, queue) : j <= i + 1
      <4>1. ASSUME NEW j \in Pending(d, queue), j # 1 PROVE j <= i + 1
        <5>1. j - 1 \in Pending(d, queue') /\ j \in Nat \ {0}
          BY <1>5, <1>6, <4>1
        <5> QED BY <2>1, <3>1, <5>1
      <4> QED BY <3>1, <4>1
    <3> QED BY <1>3, <2>1, <3>1, <3>2 DEF Good, Agrees
  <2>2. runtime'[d] \in Settled /\ Pending(d, queue') = {} => main'[d] = runtime'[d]
    BY <1>3, <1>9
  <2> QED BY <2>1, <2>2 DEF Agrees
<1>14. Gone(d)'
  BY <1>1, <1>3 DEF Good, Gone
<1> QED BY <1>11, <1>12, <1>13, <1>14 DEF Good, Hidden

\* A clear, whose write succeeds or fails.
LEMMA GoodCleared ==
  ASSUME TypeOK, NEW d \in Ids, Good(d), NEW ok \in BOOLEAN, RunTask(ok),
         queue[1].op = "clear"
  PROVE  Good(d)'
<1>1. /\ queue # <<>> /\ queue' = Tail(queue) /\ Head(queue) = queue[1]
  BY TailTask DEF RunTask, TypeOK
<1>2. 1 \notin Pending(d, queue)
  BY UpsertTyped DEF Pending
<1>3. /\ main'[d] = IF main[d] \in Finished THEN "none" ELSE main[d]
      /\ stored'[d] = IF ok THEN main'[d] ELSE stored[d]
      /\ runtime'[d] = IF ok /\ runtime[d] \in Finished THEN "none" ELSE runtime[d]
      /\ phase' = phase /\ armed' = armed
      /\ (d \in dropped') = (d \in dropped \/ (~ok /\ main[d] \in Finished))
      /\ d \in cleared' => d \in cleared \/ (ok /\ d \in Over \cap Quiet)
  BY <1>1 DEF RunTask, Owned, Listed, Without, Resumed, Over, TypeOK, Stores
<1>4. Shifted(d)
  BY <1>1, TailShifts
<1>5. \A i \in Pending(d, queue) : /\ i - 1 \in Pending(d, queue') /\ queue'[i - 1] = queue[i]
                                   /\ i \in Nat
  BY <1>1, <1>2, TailKeeps, PendingFacts
<1>6. "none" \notin Settled /\ "none" \notin Finished
  BY DEF Settled, Finished
<1>7. Waits(d)'
  <2>1. runtime'[d] = "scanning" => phase'[d] \in {"saving", "scanning"}
    BY <1>3 DEF Good, Waits
  <2>2. ASSUME NEW i \in Pending(d, queue'), queue'[i].op = "done"
        PROVE  phase'[d] = "saving" /\ \A j \in Pending(d, queue') : j <= i
    <3>1. i \in Nat \ {0} /\ i + 1 \in Pending(d, queue) /\ queue[i + 1].op = "done"
      BY <1>4, <2>2 DEF Shifted
    <3>2. phase[d] = "saving" /\ \A j \in Pending(d, queue) : j <= i + 1
      BY <3>1 DEF Good, Waits
    <3> QED BY <1>3, <1>4, <3>1, <3>2 DEF Shifted
  <2>3. phase'[d] = "saving" => \E i \in Pending(d, queue') : queue'[i].op = "done"
    <3>1. SUFFICES ASSUME phase[d] = "saving"
                   PROVE  \E i \in Pending(d, queue') : queue'[i].op = "done"
      BY <1>3
    <3>2. PICK i \in Pending(d, queue) : queue[i].op = "done"
      BY <3>1 DEF Good, Waits
    <3> QED BY <1>5, <3>2
  <2> QED BY <1>3, <2>1, <2>2, <2>3 DEF Good, Waits
<1>8. Ranked(d)'
  <2>0. /\ Level(phase[d]) \in Nat /\ Rank("none") = 0
        /\ \A e : Rank(e) \in Nat
    BY LevelFacts, RankFacts
  <2>1. /\ Rank(main'[d]) <= Rank(main[d])
        /\ Rank(stored'[d]) <= Rank(stored[d]) \/ stored'[d] = main'[d]
        /\ main'[d] = "none" \/ Rank(stored'[d]) <= Rank(main'[d])
    BY <1>3, <2>0 DEF Good, Ranked
  <2>2. Rank(stored'[d]) <= Level(phase'[d]) /\ Rank(main'[d]) <= Level(phase'[d])
    BY <1>3, <2>0, <2>1 DEF Good, Ranked
  <2>3. ASSUME NEW i \in Pending(d, queue')
        PROVE  /\ Rank(queue'[i].entry) <= Level(phase'[d])
               /\ Rank(stored'[d]) <= Rank(queue'[i].entry)
               /\ Rank(main'[d]) <= Rank(queue'[i].entry)
    <3>1. i + 1 \in Pending(d, queue) /\ queue'[i] = queue[i + 1]
      BY <1>4 DEF Shifted
    <3>2. /\ Rank(queue'[i].entry) <= Level(phase[d])
          /\ Rank(stored[d]) <= Rank(queue'[i].entry)
          /\ Rank(main[d]) <= Rank(queue'[i].entry)
      BY <3>1 DEF Good, Ranked
    <3> QED BY <1>3, <2>0, <2>1, <3>2
  <2>4. ASSUME NEW i \in Pending(d, queue'), NEW j \in Pending(d, queue'), i < j
        PROVE  Rank(queue'[i].entry) <= Rank(queue'[j].entry)
    <3>1. i \in Nat /\ i + 1 \in Pending(d, queue) /\ queue'[i] = queue[i + 1]
      BY <1>4 DEF Shifted
    <3>2. j \in Nat /\ j + 1 \in Pending(d, queue) /\ queue'[j] = queue[j + 1]
      BY <1>4 DEF Shifted
    <3>3. i + 1 < j + 1
      BY <2>4, <3>1, <3>2
    <3>4. \A k, l \in Pending(d, queue) : k < l => Rank(queue[k].entry) <= Rank(queue[l].entry)
      BY DEF Good, Ranked
    <3> QED BY <3>1, <3>2, <3>3, <3>4
  <2> QED BY <2>1, <2>2, <2>3, <2>4 DEF Ranked
<1>9. Agrees(d)'
  <2>1. runtime'[d] \in Settled => runtime'[d] = runtime[d]
    BY <1>3, <1>6
  <2>2. ASSUME NEW i \in Pending(d, queue'), \A j \in Pending(d, queue') : j <= i
        PROVE  /\ i + 1 \in Pending(d, queue) /\ queue'[i] = queue[i + 1]
               /\ \A j \in Pending(d, queue) : j <= i + 1
    <3>1. i \in Nat \ {0} /\ i + 1 \in Pending(d, queue) /\ queue'[i] = queue[i + 1]
      BY <1>4 DEF Shifted
    <3>2. ASSUME NEW j \in Pending(d, queue) PROVE j <= i + 1
      <4>1. j \in Nat /\ j - 1 \in Pending(d, queue')
        BY <1>5
      <4>2. j - 1 <= i
        BY <2>2, <4>1
      <4> QED BY <3>1, <4>1, <4>2
    <3> QED BY <3>1, <3>2
  <2>3. Pending(d, queue') = {} => Pending(d, queue) = {}
    BY <1>5
  <2>4. ASSUME d \notin Private, runtime'[d] \in Settled, Pending(d, queue') = {},
               d \notin dropped'
        PROVE  main'[d] = runtime'[d]
    <3>1. main[d] = runtime[d]
      BY <1>3, <2>1, <2>3, <2>4 DEF Good, Agrees
    <3> QED BY <1>3, <1>6, <2>1, <2>4, <3>1
  <2> QED BY <2>1, <2>2, <2>4 DEF Good, Agrees
<1>10. Gone(d)'
  <2>1. CASE d \in cleared
    BY <1>3, <1>4, <1>6, <2>1 DEF Good, Gone, Shifted
  <2>2. CASE d \notin cleared
    BY <1>1, <1>3, <2>2 DEF Gone, Over, Quiet
  <2> QED BY <2>1, <2>2
<1>11. Hidden(d)'
  BY <1>3 DEF Good, Hidden
<1> QED BY <1>7, <1>8, <1>9, <1>10, <1>11 DEF Good

\* A task of another download.
LEMMA GoodOther ==
  ASSUME TypeOK, NEW d \in Ids, Good(d), NEW ok \in BOOLEAN, RunTask(ok),
         queue[1].op # "clear", queue[1].id # d
  PROVE  Good(d)'
<1>1. /\ queue # <<>> /\ queue' = Tail(queue) /\ Head(queue) = queue[1] /\ queue[1] \in Tasks
      /\ 1 \notin Pending(d, queue)
  BY TailTask, UpsertTyped DEF RunTask, TypeOK, Pending
<1>2. queue[1].id \in Ids
  BY <1>1, TaskIsUpsert
<1>3. /\ phase'[d] = phase[d] /\ runtime' = runtime /\ armed' = armed /\ cleared' = cleared
      /\ main'[d] = main[d] /\ (d \in dropped') = (d \in dropped)
      /\ stored'[d] = IF ok THEN main[d] ELSE stored[d]
  BY <1>1, <1>2 DEF RunTask, Owned, Listed, Resumed, TypeOK, Stores
<1> QED BY <1>1, <1>3, GoodShifted DEF SameEntry

LEMMA GoodInit == Init => IInv
<1> SUFFICES ASSUME Init PROVE IInv
  OBVIOUS
<1>1. Typed
  BY TypeInit
<1>2. ASSUME NEW d \in Ids PROVE Good(d) /\ Copied(d)
  <2>1. /\ phase[d] = "unused" /\ runtime[d] = "none" /\ ~armed[d] /\ queue = <<>>
        /\ main[d] = "none" /\ stored[d] = "none" /\ copies[d] = {"none"} /\ cleared = {}
    BY DEF Init, Empty
  <2>2. Pending(d, queue) = {}
    BY <2>1 DEF Pending
  <2>3. "none" \notin Settled
    BY DEF Settled, Finished
  <2> QED BY <2>1, <2>2, <2>3, RankFacts, LevelFacts
          DEF Good, Copied, Waits, Ranked, Agrees, Gone, Hidden
<1> QED BY <1>1, <1>2 DEF IInv

\* A step of the transfer of another download.
LEMMA GoodAside ==
  ASSUME Typed, NEW d \in Ids, Good(d), NEW e \in Ids, e # d,
         \/ Start(e) \/ Refuse(e) \/ Checkpoint(e) \/ ScanEnds(e)
         \/ \E entry \in {"progressing", "interrupted"} : Updated(e, entry)
         \/ \E entry \in Outcomes : Done(e, entry)
  PROVE  Good(d)'
<1> USE DEF kept, page, past, counts
<1>a. {"progressing", "interrupted", "cancelled", "scanned"} \cup Outcomes \subseteq Records
  BY DownloadsAssumption DEF Records, Settled, Finished
<1>b. TypeOK /\ (armed[e] => e \notin Private)
  BY DEF Typed
<1>1. /\ phase'[d] = phase[d] /\ armed'[d] = armed[d]
      /\ main' = main /\ stored' = stored /\ dropped' = dropped /\ cleared' = cleared
  BY <1>b DEF Start, Refuse, Checkpoint, ScanEnds, Updated, Done, TypeOK
<1>2. CASE Checkpoint(e)
  <2>1. runtime' = runtime
    BY <1>2 DEF Checkpoint
  <2>2. CASE runtime[e] = "progressing"
    <3>1. Task("upsert", e, "progressing") \in Tasks
      BY <1>2, <1>a, <1>b, NewTask DEF Checkpoint
    <3>2. Task("upsert", e, "progressing") \notin Upserts(d)
      BY UpsertTyped DEF Task
    <3>3. Same(d)
      BY <1>2, <1>b, <2>2, <3>1, <3>2, AppendedOther DEF Checkpoint
    <3> QED BY <1>1, <2>1, <3>3, GoodSame DEF SameEntry
  <2>3. CASE runtime[e] # "progressing"
    BY <1>1, <1>2, <2>1, <2>3, SameQueue, GoodSame DEF Checkpoint, SameEntry
  <2> QED BY <2>2, <2>3
<1>3. CASE ~Checkpoint(e)
  <2>1. PICK entry \in Records, op \in {"none", "upsert", "done"} : Publish(e, entry, op)
    BY <1>3, <1>a DEF Start, Refuse, ScanEnds, Updated, Done
  <2>2. Same(d) /\ runtime'[d] = runtime[d]
    BY <1>b, <2>1, PublishOther
  <2> QED BY <1>1, <2>2, GoodSame DEF SameEntry
<1> QED BY <1>2, <1>3

\* What is taken from a copy of the file ranks like what the file held.
LEMMA GoodReplaced ==
  ASSUME TypeOK, NEW d \in Ids, Good(d), Copied(d),
         NEW items \in Replacements, Replace(items)
  PROVE  Good(d)'
<1>1. /\ items \in [Ids -> Entries] /\ items[d] \in copies[d]
      /\ main'[d] = items[d] /\ stored'[d] = items[d]
      /\ phase' = phase /\ runtime' = runtime /\ armed' = armed /\ queue' = queue
  BY DEF Replace, Stores, Replacements
<1>2. /\ d \in dropped' <=> d \in dropped \/ items[d] # main[d]
      /\ d \in cleared' <=> d \in cleared /\ items[d] = "none"
  BY DEF Replace, TypeOK
<1>3. Waits(d)'
  BY <1>1 DEF Good, Waits
<1>4. Ranked(d)'
  <2>1. /\ Rank(items[d]) <= Level(phase[d])
        /\ \A i \in Pending(d, queue) : Rank(items[d]) <= Rank(queue[i].entry)
        /\ Rank(items[d]) \in Nat
    BY <1>1, RankFacts DEF Copied
  <2> QED BY <1>1, <2>1 DEF Good, Ranked
<1>5. Agrees(d)'
  BY <1>1, <1>2 DEF Good, Agrees
<1>6. Gone(d)'
  BY <1>1, <1>2 DEF Good, Gone
<1>7. Hidden(d)'
  BY <1>1 DEF Copied, Hidden
<1> QED BY <1>3, <1>4, <1>5, <1>6, <1>7 DEF Good

LEMMA GoodKept ==
  ASSUME IInv, [Next]_vars, NEW d \in Ids
  PROVE  Good(d)'
<1>b. Typed /\ TypeOK /\ Good(d) /\ Copied(d)
  BY DEF IInv, Typed
<1> USE DEF kept, page, past, counts
<1>1. ASSUME NEW e \in Ids,
             \/ Start(e) \/ Refuse(e) \/ Checkpoint(e) \/ ScanEnds(e)
             \/ \E entry \in {"progressing", "interrupted"} : Updated(e, entry)
             \/ \E entry \in Outcomes : Done(e, entry)
      PROVE  Good(d)'
  BY <1>1, <1>b, GoodTransfer, GoodAside
<1>2. ASSUME NEW ok \in BOOLEAN, RunTask(ok) PROVE Good(d)'
  <2>1. queue[1] \in Tasks
    BY <1>2, <1>b, TailTask DEF RunTask, TypeOK
  <2>2. CASE queue[1].op = "clear"
    BY <1>2, <1>b, <2>2, GoodCleared
  <2>3. CASE queue[1].op # "clear" /\ queue[1].id # d
    BY <1>2, <1>b, <2>3, GoodOther
  <2>4. CASE queue[1].op # "clear" /\ queue[1].id = d
    BY <1>2, <1>b, <2>1, <2>4, TaskIsUpsert, GoodWritten
  <2> QED BY <2>2, <2>3, <2>4
<1>3. CASE OtherWrite
  BY <1>3, <1>b, SameQueue, GoodSame DEF OtherWrite, SameEntry, Stores
<1>4. CASE AnswerLoad \/ Hydrate \/ AnswerList \/ Deliver \/ UNCHANGED vars
  <2>1. UNCHANGED <<phase, runtime, armed, queue, main, stored, dropped, cleared>>
    BY <1>4 DEF AnswerLoad, Hydrate, AnswerList, Deliver, vars
  <2> QED BY <1>b, <2>1, SameQueue, GoodSame DEF SameEntry
<1>5. CASE AskClear
  <2>1. Clear(TRUE) \in Tasks /\ Clear(TRUE).op = "clear"
    BY DEF Clear, Tasks
  <2>2. Clear(TRUE) \notin Upserts(d)
    BY <2>1, UpsertTyped
  <2>3. Same(d)
    BY <1>5, <1>b, <2>1, <2>2, AppendedOther DEF AskClear
  <2> QED BY <1>5, <1>b, <2>3, GoodSame DEF AskClear, SameEntry
<1>6. CASE Reload
  <2>1. Same(d)
    BY <1>6, <1>b, ReloadKeeps DEF Reload, Reloaded
  <2> QED BY <1>6, <1>b, <2>1, GoodSame DEF Reload, SameEntry
<1>7. CASE Restart
  <2>1. /\ phase'[d] \in {"unused", "over"} /\ (phase'[d] = "unused" => phase[d] = "unused")
        /\ runtime'[d] = "none" /\ ~armed'[d] /\ queue' = <<>>
        /\ main' = stored /\ stored' = stored /\ cleared' = cleared
    BY <1>7, <1>b DEF Restart, Empty, TypeOK
  <2>2. Pending(d, queue') = {}
    BY <2>1 DEF Pending
  <2>3. Rank(stored[d]) <= Level(phase'[d])
    <3>1. /\ Rank(stored[d]) \in {0, 1, 2} /\ Level("over") = 2
          /\ Rank(stored[d]) <= Level(phase[d])
      BY <1>b, RankFacts, LevelFacts DEF Good, Ranked
    <3> QED BY <2>1, <3>1
  <2>4. "none" \notin Settled
    BY DEF Settled, Finished
  <2>5. Waits(d)' /\ Agrees(d)'
    BY <2>1, <2>2, <2>4 DEF Waits, Agrees
  <2>6. Ranked(d)'
    BY <2>1, <2>2, <2>3, RankFacts DEF Ranked
  <2>7. Gone(d)' /\ Hidden(d)'
    BY <1>b, <2>1, <2>2 DEF Good, Gone, Hidden
  <2> QED BY <2>5, <2>6, <2>7 DEF Good
<1>8. CASE ReplaceFails
  <2>1. UNCHANGED <<phase, runtime, armed, queue, main, stored, dropped, cleared>>
    BY <1>8 DEF ReplaceFails
  <2> QED BY <1>b, <2>1, SameQueue, GoodSame DEF SameEntry
<1>9. CASE \E items \in Replacements : Replace(items)
  BY <1>9, <1>b, GoodReplaced
<1> QED BY <1>1, <1>2, <1>3, <1>4, <1>5, <1>6, <1>7, <1>8, <1>9 DEF Next

\* Of d nothing goes back: a task that waits is an old one, or is about what
\* the transfer has reached.
Later(d) ==
    /\ Level(phase[d]) <= Level(phase'[d])
    /\ \A i \in Pending(d, queue') :
         \/ \E j \in Pending(d, queue) : queue'[i] = queue[j]
         \/ Level(phase[d]) <= Rank(queue'[i].entry)

LEMMA LaterAppended ==
  ASSUME TypeOK, NEW d, Level(phase[d]) <= Level(phase'[d]),
         NEW t \in Tasks, queue' = Append(queue, t),
         t \in Upserts(d) => Level(phase[d]) <= Rank(t.entry)
  PROVE  Later(d)
<1>1. /\ DOMAIN queue' = 1 .. Len(queue) + 1 /\ DOMAIN queue = 1 .. Len(queue)
      /\ Len(queue) \in Nat /\ queue'[Len(queue) + 1] = t
      /\ \A i \in 1 .. Len(queue) : queue'[i] = queue[i]
  BY AppendTask DEF TypeOK
<1>2. ASSUME NEW i \in Pending(d, queue')
      PROVE  \/ \E j \in Pending(d, queue) : queue'[i] = queue[j]
             \/ Level(phase[d]) <= Rank(queue'[i].entry)
  <2>1. CASE i = Len(queue) + 1
    BY <1>1, <1>2, <2>1 DEF Pending
  <2>2. CASE i \in 1 .. Len(queue)
    <3>1. i \in Pending(d, queue) /\ queue'[i] = queue[i]
      BY <1>1, <1>2, <2>2 DEF Pending
    <3> QED BY <3>1
  <2> QED BY <1>1, <1>2, <2>1, <2>2 DEF Pending
<1> QED BY <1>2 DEF Later

LEMMA LaterSame ==
  ASSUME NEW d, Level(phase[d]) <= Level(phase'[d]), Same(d) \/ Shifted(d)
  PROVE  Later(d)
<1>1. CASE Same(d)
  BY <1>1 DEF Same, Later
<1>2. CASE Shifted(d)
  BY <1>2 DEF Shifted, Later
<1> QED BY <1>1, <1>2

\* What a transfer announces is not earlier than what it has reached.
LEMMA LaterPublished ==
  ASSUME TypeOK, NEW d \in Ids, NEW e \in Ids, NEW entry \in Records,
         NEW op \in {"none", "upsert", "done"}, Publish(e, entry, op),
         d = e => Level(phase[d]) <= Rank(entry),
         Level(phase[d]) <= Level(phase'[d])
  PROVE  Later(d)
<1>1. CASE op = "none" \/ e \in Private
  BY <1>1, SameQueue, LaterSame DEF Publish
<1>2. CASE op # "none" /\ e \notin Private
  <2>1. /\ Task(op, e, entry) \in Tasks /\ Task(op, e, entry).entry = entry
        /\ Task(op, e, entry).id = e
    BY <1>2, NewTask DEF Task
  <2>2. Task(op, e, entry) \in Upserts(d) => d = e
    BY <2>1, UpsertTyped
  <2> QED BY <1>2, <2>1, <2>2, LaterAppended DEF Publish
<1> QED BY <1>1, <1>2

LEMMA LaterTransfer ==
  ASSUME Typed, NEW d \in Ids, Good(d), NEW e \in Ids, Good(e),
         \/ Start(e) \/ Refuse(e) \/ Checkpoint(e) \/ ScanEnds(e)
         \/ \E entry \in {"progressing", "interrupted"} : Updated(e, entry)
         \/ \E entry \in Outcomes : Done(e, entry)
  PROVE  Later(d)
<1>a. {"progressing", "interrupted", "cancelled", "scanned"} \cup Outcomes \subseteq Records
  BY DownloadsAssumption DEF Records, Settled, Finished
<1>b. TypeOK /\ (armed[e] => phase[e] = "active" /\ e \notin Private)
  BY DEF Typed, Good, Waits
<1>c. /\ \A p : Level(p) \in Nat /\ Level(p) <= 2
      /\ \A entry : Rank(entry) \in Nat
  BY LevelFacts, RankFacts
<1>1. Level(phase[d]) <= Level(phase'[d])
  <2>1. CASE e # d
    <3>1. phase'[d] = phase[d]
      BY <1>b, <2>1 DEF Start, Refuse, Checkpoint, ScanEnds, Updated, Done, TypeOK
    <3> QED BY <1>c, <3>1
  <2>2. CASE e = d
    <3>1. CASE Level(phase[d]) = 0
      BY <1>c, <3>1
    <3>2. CASE Level(phase[d]) # 0
      <4>1. phase[d] \notin {"unused", "active"}
        BY <3>2, LevelFacts
      <4>2. phase'[d] = phase[d] \/ phase'[d] = "over"
        BY <1>b, <2>2, <4>1 DEF Start, Refuse, Checkpoint, ScanEnds, Updated, Done, TypeOK
      <4> QED BY <1>c, <4>2, LevelFacts
    <3> QED BY <3>1, <3>2
  <2> QED BY <2>1, <2>2
<1>2. CASE Checkpoint(e)
  <2>1. CASE runtime[e] = "progressing"
    <3> DEFINE t == Task("upsert", e, "progressing")
    <3>1. t \in Tasks /\ t.id = e /\ queue' = Append(queue, t) /\ phase[e] = "active"
      BY <1>2, <1>a, <1>b, <2>1, NewTask DEF Checkpoint, Task
    <3>2. t \in Upserts(d) => Level(phase[d]) <= Rank(t.entry)
      BY <1>c, <3>1, UpsertTyped, LevelFacts
    <3> HIDE DEF t
    <3> QED BY <1>1, <1>b, <3>1, <3>2, LaterAppended
  <2>2. CASE runtime[e] # "progressing"
    BY <1>1, <1>2, <2>2, SameQueue, LaterSame DEF Checkpoint
  <2> QED BY <2>1, <2>2
<1>3. CASE ScanEnds(e)
  <2>1. Publish(e, "scanned", "upsert") /\ Level(phase[e]) <= Rank("scanned")
    BY <1>3, <1>c, RankFacts DEF ScanEnds
  <2> QED BY <1>1, <1>a, <1>b, <2>1, LaterPublished
<1>4. CASE ~Checkpoint(e) /\ ~ScanEnds(e)
  <2>1. PICK entry \in Records, op \in {"none", "upsert", "done"} : Publish(e, entry, op)
    BY <1>4, <1>a DEF Start, Refuse, Updated, Done
  <2>2. Level(phase[e]) = 0
    BY <1>4, LevelFacts DEF Start, Refuse, Updated, Done
  <2> QED BY <1>1, <1>b, <1>c, <2>1, <2>2, LaterPublished
<1> QED BY <1>2, <1>3, <1>4

LEMMA LaterStep ==
  ASSUME IInv, [Next]_vars, NEW d \in Ids
  PROVE  Later(d)
<1> USE DEF kept, page, past, counts
<1>b. Typed /\ TypeOK /\ \A e \in Ids : Good(e)
  BY DEF IInv, Typed
<1>c. \A p : Level(p) \in Nat
  BY LevelFacts
<1>1. ASSUME NEW e \in Ids,
             \/ Start(e) \/ Refuse(e) \/ Checkpoint(e) \/ ScanEnds(e)
             \/ \E entry \in {"progressing", "interrupted"} : Updated(e, entry)
             \/ \E entry \in Outcomes : Done(e, entry)
      PROVE  Later(d)
  BY <1>1, <1>b, LaterTransfer
<1>2. ASSUME NEW ok \in BOOLEAN, RunTask(ok) PROVE Later(d)
  <2>1. Shifted(d) /\ queue # <<>> /\ Head(queue) = queue[1] /\ 1 \in DOMAIN queue
        /\ Head(queue) \in Tasks
    BY <1>2, <1>b, TailShifts, TailTask DEF RunTask, TypeOK
  <2>2. Level(phase[d]) <= Level(phase'[d])
    <3>1. CASE Head(queue).op = "done" /\ Head(queue).id = d
      <4>1. 1 \in Pending(d, queue)
        BY <2>1, <3>1, TaskIsUpsert DEF Pending
      <4>2. phase[d] = "saving"
        BY <1>b, <2>1, <3>1, <4>1 DEF Good, Waits
      <4>3. phase'[d] \in {"scanning", "over"}
        BY <1>2, <1>b, <3>1, AfterSaveTyped DEF RunTask, Resumed, TypeOK
      <4> QED BY <4>2, <4>3, LevelFacts
    <3>2. CASE ~(Head(queue).op = "done" /\ Head(queue).id = d)
      <4>1. phase'[d] = phase[d]
        BY <1>2, <1>b, <3>2 DEF RunTask, Resumed, TypeOK
      <4> QED BY <1>c, <4>1
    <3> QED BY <3>1, <3>2
  <2> QED BY <2>1, <2>2, LaterSame
<1>3. CASE UNCHANGED <<phase, queue>>
  BY <1>3, <1>c, SameQueue, LaterSame
<1>4. CASE AskClear
  <2>1. Clear(TRUE) \in Tasks /\ Clear(TRUE).op = "clear"
    BY DEF Clear, Tasks
  <2>2. Clear(TRUE) \notin Upserts(d)
    BY <2>1, UpsertTyped
  <2>3. queue' = Append(queue, Clear(TRUE)) /\ Level(phase[d]) <= Level(phase'[d])
    BY <1>4, <1>c DEF AskClear
  <2> QED BY <1>b, <2>1, <2>2, <2>3, LaterAppended
<1>5. CASE Reload
  <2>1. Same(d) /\ phase' = phase
    BY <1>5, <1>b, ReloadKeeps DEF Reload, Reloaded
  <2> QED BY <1>c, <2>1, LaterSame
<1>6. CASE Restart
  <2>1. phase'[d] = phase[d] \/ phase'[d] = "over"
    BY <1>6, <1>b DEF Restart, TypeOK
  <2>2. Pending(d, queue') = {}
    BY <1>6 DEF Restart, Pending
  <2> QED BY <1>c, <2>1, <2>2, LevelFacts DEF Later
<1>7. CASE OtherWrite \/ AnswerLoad \/ Hydrate \/ AnswerList \/ Deliver \/ ReplaceFails
  BY <1>3, <1>7 DEF OtherWrite, AnswerLoad, Hydrate, AnswerList, Deliver, ReplaceFails
<1>8. ASSUME NEW items, Replace(items) PROVE Later(d)
  BY <1>3, <1>8 DEF Replace
<1>9. CASE UNCHANGED vars
  BY <1>3, <1>9 DEF vars
<1> QED BY <1>1, <1>2, <1>4, <1>5, <1>6, <1>7, <1>8, <1>9 DEF Next

\* The copies grow by what is written.
LEMMA CopiesGrow ==
  ASSUME IInv, [Next]_vars, NEW d \in Ids
  PROVE  copies'[d] \subseteq copies[d] \cup {stored'[d]}
<1> USE DEF kept, page, past, counts
<1>1. ASSUME NEW list, Stores(list) PROVE copies'[d] \subseteq copies[d] \cup {stored'[d]}
  BY <1>1 DEF Stores
<1>2. CASE copies' = copies
  BY <1>2
<1>3. CASE \E e \in Ids : Start(e) \/ Refuse(e) \/ Checkpoint(e) \/ ScanEnds(e)
  BY <1>2, <1>3 DEF Start, Refuse, Checkpoint, ScanEnds
<1>4. CASE \E e \in Ids, entry \in {"progressing", "interrupted"} : Updated(e, entry)
  BY <1>2, <1>4 DEF Updated
<1>5. CASE \E e \in Ids, entry \in Outcomes : Done(e, entry)
  BY <1>2, <1>5 DEF Done
<1>6. ASSUME NEW ok \in BOOLEAN, RunTask(ok)
      PROVE  copies'[d] \subseteq copies[d] \cup {stored'[d]}
  BY <1>1, <1>6 DEF RunTask
<1>7. CASE OtherWrite
  BY <1>1, <1>7 DEF OtherWrite
<1>8. ASSUME NEW items, Replace(items)
      PROVE  copies'[d] \subseteq copies[d] \cup {stored'[d]}
  BY <1>1, <1>8 DEF Replace
<1>9. CASE ReplaceFails \/ AnswerLoad \/ Hydrate \/ AnswerList \/ Deliver \/ AskClear
  BY <1>2, <1>9 DEF ReplaceFails, AnswerLoad, Hydrate, AnswerList, Deliver, AskClear
<1>10. CASE Reload \/ Restart \/ UNCHANGED vars
  BY <1>2, <1>10 DEF Reload, Restart, vars
<1> QED BY <1>3, <1>4, <1>5, <1>6, <1>7, <1>8, <1>9, <1>10 DEF Next

LEMMA CopiedKept ==
  ASSUME IInv, [Next]_vars, NEW d \in Ids
  PROVE  Copied(d)'
<1>1. Copied(d) /\ Ranked(d)' /\ Hidden(d)' /\ Later(d)
  BY GoodKept, LaterStep DEF IInv, Good
<1>2. \A e, p : Rank(e) \in Nat /\ Level(p) \in Nat
  BY RankFacts, LevelFacts
<1> SUFFICES ASSUME NEW c \in copies'[d]
             PROVE  /\ d \in Private => c = "none"
                    /\ Rank(c) <= Level(phase'[d])
                    /\ \A i \in Pending(d, queue') : Rank(c) <= Rank(queue'[i].entry)
  BY DEF Copied
<1>3. CASE c = stored'[d]
  BY <1>1, <1>3 DEF Ranked, Hidden
<1>4. CASE c \in copies[d]
  <2>1. /\ d \in Private => c = "none"
        /\ Rank(c) <= Level(phase[d]) /\ Level(phase[d]) <= Level(phase'[d])
        /\ \A j \in Pending(d, queue) : Rank(c) <= Rank(queue[j].entry)
    BY <1>1, <1>4 DEF Copied, Later
  <2>2. Rank(c) <= Level(phase'[d])
    BY <1>2, <2>1
  <2>3. ASSUME NEW i \in Pending(d, queue')
        PROVE  Rank(c) <= Rank(queue'[i].entry)
    <3>1. CASE \E j \in Pending(d, queue) : queue'[i] = queue[j]
      BY <2>1, <3>1
    <3>2. CASE Level(phase[d]) <= Rank(queue'[i].entry)
      BY <1>2, <2>1, <3>2
    <3> QED BY <1>1, <2>3, <3>1, <3>2 DEF Later
  <2> QED BY <2>1, <2>2, <2>3
<1> QED BY <1>3, <1>4, CopiesGrow

LEMMA GoodStep == IInv /\ [Next]_vars => IInv'
<1> SUFFICES ASSUME IInv, [Next]_vars PROVE IInv'
  OBVIOUS
<1>1. Typed'
  BY TypeStep DEF IInv
<1>2. \A d \in Ids : Good(d)' /\ Copied(d)'
  BY GoodKept, CopiedKept
<1> QED BY <1>1, <1>2 DEF IInv


LEMMA Invariance == Spec => []IInv
BY GoodInit, GoodStep, PTL DEF Spec

-----------------------------------------------------------------------------
(* The theorems.                                                            *)

\* What the process says of a transfer that stopped is what the list says,
\* once nothing about it waits in the queue (unless an import put another entry
\* there since), and nothing private is stored (saveDurableDownloadRecord,
\* upsertDownload, replaceDataFromImport).
THEOREM ListsAgreeAlways == Spec => []ListsAgree
<1>1. IInv => ListsAgree
  <2> SUFFICES ASSUME IInv PROVE ListsAgree
    OBVIOUS
  <2>1. \A d \in Ids : Agrees(d) /\ Hidden(d)
    BY DEF IInv, Good
  <2>2. \A d \in Private : d \in Ids
    BY DownloadsAssumption
  <2>3. \A d \in Ids \ (Private \cup dropped) :
          runtime[d] \in Settled /\ Pending(d, queue) = {} => main[d] = runtime[d]
    BY <2>1 DEF Agrees
  <2>4. \A d \in Private : main[d] = "none" /\ stored[d] = "none"
    BY <2>1, <2>2 DEF Hidden
  <2> QED BY <2>3, <2>4 DEF ListsAgree
<1> QED BY <1>1, Invariance, PTL

\* A scan that is announced as pending is on its way (registerDownloadEvents).
THEOREM ScansGoOnAlways == Spec => []ScansGoOn
<1>1. IInv => ScansGoOn
  <2> SUFFICES ASSUME IInv, NEW d \in Ids, runtime[d] = "scanning"
               PROVE  phase[d] = "scanning" \/ (phase[d] = "saving" /\ Pending(d, queue) # {})
    BY DEF ScansGoOn
  <2> QED BY DEF IInv, Good, Waits
<1> QED BY <1>1, Invariance, PTL

\* The file never goes back: no order of progress, checkpoints, ends, scans,
\* clears, failed writes, failed replacements and restarts replaces an entry by
\* an earlier one or brings back one that was cleared; only an imported profile
\* or a restored backup does (replaceDataFromImport, restoreStorageBackup).
THEOREM StoreNeverGoesBackAlways == Spec => StoreNeverGoesBack
<1> DEFINE Forward(d) == /\ stored'[d] = "none" \/ Rank(stored'[d]) >= Rank(stored[d])
                         /\ d \in cleared => stored'[d] = "none"
<1>1. IInv /\ IInv' /\ [Next]_vars =>
        [replaces' = replaces + 1 \/ \A d \in Ids : Forward(d)]_vars
  <2> SUFFICES ASSUME IInv, IInv', Next, replaces' # replaces + 1, NEW d \in Ids
               PROVE  Forward(d)
    OBVIOUS
  <2> USE DEF kept, page, past, counts
  <2>b. ASSUME NEW items, Replace(items) PROVE FALSE
    BY <2>b DEF Replace
  <2>a. TypeOK /\ Good(d) /\ Good(d)' /\ \A e : Rank(e) \in Nat
    BY RankFacts DEF IInv, Typed
  <2>1. cleared \subseteq cleared'
    BY <2>b DEF Next, Start, Refuse, Checkpoint, ScanEnds, Updated, Done, RunTask, OtherWrite,
           ReplaceFails, AnswerLoad, Hydrate, AnswerList, Deliver, AskClear, Reload, Restart
  <2>2. d \in cleared => stored'[d] = "none"
    BY <2>a, <2>1 DEF Good, Gone
  <2>3. CASE stored'[d] = stored[d]
    BY <2>a, <2>2, <2>3
  <2>4. CASE stored'[d] = main[d]
    BY <2>a, <2>2, <2>4 DEF Good, Ranked
  <2>5. CASE stored'[d] \notin {stored[d], main[d]}
    <3>1. PICK ok \in BOOLEAN : RunTask(ok)
      BY <2>5, <2>b DEF Next, Start, Refuse, Checkpoint, ScanEnds, Updated, Done, OtherWrite,
                  ReplaceFails, AnswerLoad, Hydrate, AnswerList, Deliver, AskClear, Reload,
                  Restart, Stores
    <3>2. queue # <<>> /\ Head(queue) = queue[1] /\ queue[1] \in Tasks /\ 1 \in DOMAIN queue
      BY <2>a, <3>1, TailTask DEF RunTask, TypeOK
    <3>3. CASE queue[1].op = "clear"
      <4>1. stored'[d] = "none"
        BY <2>5, <3>1, <3>2, <3>3 DEF RunTask, Listed, Without, Stores
      <4> QED BY <2>2, <4>1
    <3>4. CASE queue[1].op # "clear"
      <4>1. queue[1].id = d /\ stored'[d] = queue[1].entry
        BY <2>a, <2>5, <3>1, <3>2, <3>4, TaskIsUpsert DEF RunTask, Listed, TypeOK, Stores
      <4>2. 1 \in Pending(d, queue)
        BY <3>2, <3>4, <4>1, TaskIsUpsert DEF Pending
      <4>3. Rank(stored[d]) <= Rank(queue[1].entry)
        BY <2>a, <4>2 DEF Good, Ranked
      <4> QED BY <2>a, <2>2, <4>1, <4>3
    <3> QED BY <3>3, <3>4
  <2> QED BY <2>3, <2>4, <2>5
<1> QED BY <1>1, Invariance, PTL DEF Spec, StoreNeverGoesBack

-----------------------------------------------------------------------------
(* What the window shows.                                                   *)

\* The events of d on their way to the window.
Said(d) == {i \in DOMAIN channel : channel[i].kind = "event" /\ channel[i].id = d}

\* What may be said of d.
IsTrue(d, entry) ==
    /\ runtime[d] # "none" => entry = runtime[d]
    /\ entry = "progressing" => phase[d] = "active" \/ d \in forgotten

\* What is called running runs.
Running(d) == runtime[d] = "progressing" => phase[d] = "active"

\* The last event says how it is.
LastWord(d) ==
    \A i \in Said(d) : (\A j \in Said(d) : j <= i) =>
      /\ runtime[d] # "none" => channel[i].entry = runtime[d]
      /\ channel[i].entry = "progressing" => phase[d] = "active"

\* A finished entry that the process knows was announced after every clear.
AfterClears(d) ==
    runtime[d] \in Finished =>
      \A j \in DOMAIN channel : channel[j].kind = "cleared" => \E i \in Said(d) : j < i

\* The page has heard of d since it subscribed.
Heard(d) == screen = "ready" \/ (screen \in {"recovering", "listed"} /\ d \in changed)

\* What it heard is true, unless there is more to come.
Shows(d) == Said(d) = {} /\ Heard(d) => IsTrue(d, shown[d])

\* If it has not heard of d, the list on its way makes it true.
Answered(d) ==
    Said(d) = {} /\ screen = "listed" /\ d \notin changed =>
      \A k \in DOMAIN channel : channel[k].kind = "list" =>
        IsTrue(d, Recovered(channel[k].items)[d])

\* What it read is in the file still, or left it since.
Read(d) ==
    /\ screen = "loaded" /\ startup[d] = "progressing" =>
         stored[d] # "none" \/ d \in forgotten
    /\ screen = "recovering" /\ d \notin changed /\ shown[d] = "progressing" =>
         stored[d] # "none" \/ d \in forgotten

\* A page that starts has not been sent a list and has heard of nothing.
Early ==
    /\ \A k \in DOMAIN channel : channel[k].kind = "list" => screen \in {"listed", "ready"}
    /\ screen \in {"loading", "loaded"} => changed = {}

Sound(d) ==
    /\ Running(d) /\ LastWord(d) /\ AfterClears(d)
    /\ Shows(d) /\ Answered(d) /\ Read(d)

PageInv == IInv /\ Early /\ \A d \in Ids : Sound(d)

LEMMA AppendMessage ==
  ASSUME NEW q \in Seq(Messages), NEW m \in Messages
  PROVE  /\ DOMAIN Append(q, m) = 1 .. Len(q) + 1
         /\ DOMAIN q = 1 .. Len(q) /\ Len(q) \in Nat
         /\ \A i \in 1 .. Len(q) : Append(q, m)[i] = q[i]
         /\ Append(q, m)[Len(q) + 1] = m
OBVIOUS

LEMMA TailMessage ==
  ASSUME NEW q \in Seq(Messages), q # <<>>
  PROVE  /\ Head(q) \in Messages /\ Head(q) = q[1]
         /\ DOMAIN q = 1 .. Len(q) /\ Len(q) \in Nat \ {0}
         /\ DOMAIN Tail(q) = 1 .. Len(q) - 1
         /\ \A i \in 1 .. Len(q) - 1 : Tail(q)[i] = q[i + 1]
OBVIOUS

LEMMA Kinds ==
  /\ \A d \in Ids, entry \in Records :
       /\ Event(d, entry) \in Messages /\ Event(d, entry).kind = "event"
       /\ Event(d, entry).id = d /\ Event(d, entry).entry = entry
  /\ Cleared \in Messages /\ Cleared.kind = "cleared"
  /\ \A items : List(items).kind = "list" /\ List(items).items = items
BY DEF Event, Cleared, List, Messages

\* The page stays as it is.
SamePage(d) ==
    /\ screen' = screen /\ startup' = startup /\ shown' = shown /\ changed' = changed
    /\ d \in forgotten => d \in forgotten'
    /\ screen \in {"loaded", "recovering"} /\ stored[d] # "none" =>
         stored'[d] # "none" \/ d \in forgotten'

\* Something is announced of d.
LEMMA Announced ==
  ASSUME TypeOK, NEW d \in Ids, NEW entry \in Records, Read(d), SamePage(d),
         channel' = Append(channel, Event(d, entry)), runtime'[d] = entry,
         entry = "progressing" => phase'[d] = "active"
  PROVE  Sound(d)'
<1> DEFINE n == Len(channel) + 1
<1>1. /\ DOMAIN channel' = 1 .. n /\ Len(channel) \in Nat
      /\ channel'[n].kind = "event" /\ channel'[n].id = d /\ channel'[n].entry = entry
      /\ \A i \in 1 .. Len(channel) : channel'[i] = channel[i]
  BY Kinds, AppendMessage DEF TypeOK
<1>2. n \in Said(d)' /\ \A i \in Said(d)' : i \in 1 .. n
  BY <1>1 DEF Said
<1>3. Running(d)'
  BY DEF Running
<1>4. LastWord(d)'
  <2> SUFFICES ASSUME NEW i \in Said(d)', \A j \in Said(d)' : j <= i
               PROVE  channel'[i].entry = entry
    BY DEF LastWord
  <2>1. i = n
    BY <1>1, <1>2
  <2> QED BY <2>1, <1>1
<1>5. AfterClears(d)'
  <2> SUFFICES ASSUME NEW j \in DOMAIN channel', channel'[j].kind = "cleared"
               PROVE  j < n
    BY <1>2 DEF AfterClears
  <2> QED BY <1>1
<1>6. Shows(d)' /\ Answered(d)'
  BY <1>2 DEF Shows, Answered
<1>7. Read(d)'
  BY DEF Read, SamePage
<1> QED BY <1>3, <1>4, <1>5, <1>6, <1>7 DEF Sound

\* A message that is neither a list nor about d.
Beside(d, m) == m.kind # "list" /\ ~(m.kind = "event" /\ m.id = d)

\* What is on its way about d stays.
SameMessages(d) ==
    /\ Said(d)' = Said(d) /\ \A i \in Said(d) : channel'[i] = channel[i]
    /\ \A k \in DOMAIN channel' : channel'[k].kind = "list" =>
         k \in DOMAIN channel /\ channel[k] = channel'[k]
    /\ \A k \in DOMAIN channel' : channel'[k].kind = "cleared" =>
         \/ k \in DOMAIN channel /\ channel[k] = channel'[k]
         \/ runtime'[d] \notin Finished

LEMMA MessageBeside ==
  ASSUME TypeOK, NEW d, NEW m \in Messages, Beside(d, m), channel' = Append(channel, m),
         m.kind = "cleared" => runtime'[d] \notin Finished
  PROVE  SameMessages(d)
<1>1. /\ DOMAIN channel' = 1 .. Len(channel) + 1 /\ DOMAIN channel = 1 .. Len(channel)
      /\ Len(channel) \in Nat /\ channel'[Len(channel) + 1] = m
      /\ \A i \in 1 .. Len(channel) : channel'[i] = channel[i]
  BY AppendMessage DEF TypeOK
<1>2. Said(d)' = Said(d)
  BY <1>1 DEF Said, Beside
<1>3. \A k \in DOMAIN channel' :
        k = Len(channel) + 1 \/ (k \in DOMAIN channel /\ channel[k] = channel'[k])
  BY <1>1
<1>4. \A i \in Said(d) : channel'[i] = channel[i]
  BY <1>1 DEF Said
<1> QED BY <1>1, <1>2, <1>3, <1>4 DEF SameMessages, Beside

LEMMA NoMessage ==
  ASSUME channel' = channel, NEW d
  PROVE  SameMessages(d)
BY DEF SameMessages, Said

\* Nothing is announced of d; a clear may take it from the map.
LEMMA NotAnnounced ==
  ASSUME NEW d, Sound(d), SamePage(d), SameMessages(d), runtime'[d] \in {runtime[d], "none"},
         phase[d] = "active" => phase'[d] = "active"
  PROVE  Sound(d)'
<1>1. Running(d)'
  BY DEF Running, Sound
<1>2. LastWord(d)'
  BY DEF LastWord, Sound, SameMessages
<1>3. AfterClears(d)'
  BY DEF AfterClears, Sound, SameMessages, Finished
<1>4. ASSUME NEW entry, IsTrue(d, entry) PROVE IsTrue(d, entry)'
  BY <1>4 DEF IsTrue, SamePage
<1>5. Shows(d)'
  BY DEF Shows, Heard, IsTrue, Sound, SameMessages, SamePage
<1>6. Answered(d)'
  <2> SUFFICES ASSUME Said(d)' = {}, screen' = "listed", d \notin changed',
                      NEW k \in DOMAIN channel', channel'[k].kind = "list"
               PROVE  IsTrue(d, Recovered(channel[k].items)[d])'
    BY DEF Answered
  <2>1. k \in DOMAIN channel /\ channel[k] = channel'[k]
    BY DEF SameMessages
  <2>2. IsTrue(d, Recovered(channel[k].items)[d])
    BY <2>1 DEF Answered, Sound, SameMessages, SamePage
  <2>3. Recovered(channel[k].items)[d]' = Recovered(channel[k].items)[d]
    BY <2>1 DEF Recovered, SamePage
  <2> QED BY <2>2, <2>3 DEF IsTrue, SamePage
<1>7. Read(d)'
  BY DEF Read, Sound, SamePage
<1> QED BY <1>1, <1>2, <1>3, <1>5, <1>6, <1>7 DEF Sound

\* An announcement of e.
LEMMA PageTransfer ==
  ASSUME PageInv, NEW d \in Ids, NEW e \in Ids, NEW entry \in Records, NEW op,
         Publish(e, entry, op), UNCHANGED <<page, kept, forgotten>>,
         \A c \in Ids \ {e} : phase'[c] = phase[c],
         entry = "progressing" => phase'[e] = "active"
  PROVE  Sound(d)'
<1>1. TypeOK /\ Sound(d)
  BY DEF PageInv, IInv, Typed
<1>2. SamePage(d)
  BY DEF SamePage, page, kept
<1>3. runtime' = [runtime EXCEPT ![e] = entry] /\ channel' = Append(channel, Event(e, entry))
  BY DEF Publish
<1>4. CASE d = e
  BY <1>1, <1>2, <1>3, <1>4, Announced DEF TypeOK, Sound
<1>5. CASE d # e
  <2>1. Event(e, entry) \in Messages /\ Beside(d, Event(e, entry))
        /\ Event(e, entry).kind # "cleared"
    BY <1>5, Kinds DEF Beside
  <2>2. SameMessages(d)
    BY <1>1, <1>3, <2>1, MessageBeside
  <2>3. runtime'[d] = runtime[d]
    BY <1>1, <1>3, <1>5 DEF TypeOK
  <2> QED BY <1>1, <1>2, <1>5, <2>2, <2>3, NotAnnounced
<1> QED BY <1>4, <1>5

\* The end of a transfer is awaited by a task only once it has ended.
LEMMA AwaitedEnded ==
  ASSUME IInv, NEW d \in Ids, queue # <<>>, Head(queue).op = "done", Head(queue).id = d
  PROVE  phase[d] = "saving"
<1>1. queue \in Seq(Tasks)
  BY DEF IInv, Typed, TypeOK
<1>2. 1 \in DOMAIN queue /\ queue[1] = Head(queue) /\ queue[1] \in Tasks
  BY <1>1, TailTask
<1>3. 1 \in Pending(d, queue)
  BY <1>2, TaskIsUpsert DEF Pending
<1> QED BY <1>2, <1>3 DEF IInv, Good, Waits

LEMMA PageTask ==
  ASSUME PageInv, NEW d \in Ids, NEW ok \in BOOLEAN, RunTask(ok)
  PROVE  Sound(d)'
<1> DEFINE task == Head(queue)
<1>1. TypeOK /\ IInv /\ Sound(d)
  BY DEF PageInv, IInv, Typed
<1>2. SamePage(d)
  <2>1. UNCHANGED <<screen, startup, shown, changed>>
    BY DEF RunTask, page
  <2>2. /\ d \in forgotten => d \in forgotten'
        /\ screen \in {"loaded", "recovering"} /\ stored[d] # "none" =>
             stored'[d] # "none" \/ d \in forgotten'
    BY DEF RunTask, Stores, Lost
  <2> QED BY <2>1, <2>2 DEF SamePage
<1>3. /\ runtime'[d] \in {runtime[d], "none"}
      /\ task.op = "clear" /\ ok => runtime'[d] \notin Finished
  BY <1>1 DEF RunTask, Without, TypeOK, Finished
<1>4. SameMessages(d)
  <2>1. CASE task.op = "clear" /\ ok /\ task.reply
    <3>1. channel' = Append(channel, Cleared) /\ Beside(d, Cleared) /\ Cleared \in Messages
      BY <2>1, Kinds DEF RunTask, Beside
    <3> QED BY <1>1, <1>3, <2>1, <3>1, MessageBeside
  <2>2. CASE ~(task.op = "clear" /\ ok /\ task.reply)
    BY <2>2, NoMessage DEF RunTask
  <2> QED BY <2>1, <2>2
<1>5. phase[d] = "active" => phase'[d] = "active"
  BY <1>1, AwaitedEnded DEF RunTask, Resumed, TypeOK
<1> QED BY <1>1, <1>2, <1>3, <1>4, <1>5, NotAnnounced

\* Steps that leave the channel, the map, the transfers and the page alone.
LEMMA PageAside ==
  ASSUME PageInv, NEW d \in Ids, UNCHANGED <<phase, runtime, channel, page>>,
         \/ UNCHANGED <<stored, forgotten>>
         \/ \E list : Stores(list)
  PROVE  Sound(d)'
<1>1. Sound(d)
  BY DEF PageInv
<1>2. SamePage(d)
  BY DEF SamePage, page, Stores, Lost
<1>3. SameMessages(d)
  BY NoMessage
<1> QED BY <1>1, <1>2, <1>3, NotAnnounced

LEMMA PageLoads ==
  ASSUME PageInv, NEW d \in Ids, AnswerLoad
  PROVE  Sound(d)'
<1>1. Sound(d)
  BY DEF PageInv
<1>2. /\ screen' = "loaded" /\ startup' = stored
      /\ UNCHANGED <<phase, runtime, channel, stored, forgotten>>
  BY DEF AnswerLoad, Screen, kept, past
<1>3. Said(d)' = Said(d)
  BY <1>2 DEF Said
<1>4. Running(d)' /\ LastWord(d)' /\ AfterClears(d)'
  BY <1>1, <1>2, <1>3 DEF Sound, Running, LastWord, AfterClears
<1>5. Shows(d)' /\ Answered(d)' /\ Read(d)'
  BY <1>2 DEF Shows, Heard, Answered, Read
<1> QED BY <1>4, <1>5 DEF Sound

LEMMA PageHydrates ==
  ASSUME PageInv, NEW d \in Ids, Hydrate
  PROVE  Sound(d)'
<1>1. Sound(d) /\ Early
  BY DEF PageInv
<1>2. /\ screen = "loaded" /\ screen' = "recovering" /\ shown' = startup
      /\ UNCHANGED <<phase, runtime, channel, stored, forgotten, changed>>
  BY DEF Hydrate, Screen, kept, past
<1>3. Said(d)' = Said(d)
  BY <1>2 DEF Said
<1>4. Running(d)' /\ LastWord(d)' /\ AfterClears(d)'
  BY <1>1, <1>2, <1>3 DEF Sound, Running, LastWord, AfterClears
<1>5. Shows(d)' /\ Answered(d)'
  BY <1>1, <1>2 DEF Early, Shows, Heard, Answered
<1>6. Read(d)'
  BY <1>1, <1>2 DEF Sound, Read
<1> QED BY <1>4, <1>5, <1>6 DEF Sound

LEMMA PageIsAnswered ==
  ASSUME PageInv, NEW d \in Ids, AnswerList
  PROVE  Sound(d)'
<1> DEFINE n == Len(channel) + 1
<1>1. Sound(d) /\ Early /\ TypeOK
  BY DEF PageInv, IInv, Typed
<1>2. /\ screen = "recovering" /\ screen' = "listed"
      /\ channel' = Append(channel, List(CurrentList))
      /\ UNCHANGED <<phase, runtime, stored, forgotten, shown, changed>>
  BY DEF AnswerList, Screen, kept, past
<1>3. /\ DOMAIN channel' = 1 .. n /\ DOMAIN channel = 1 .. Len(channel)
      /\ Len(channel) \in Nat /\ channel'[n] = List(CurrentList)
      /\ \A i \in 1 .. Len(channel) : channel'[i] = channel[i]
  BY <1>1, <1>2, CurrentTyped, AppendMessage DEF TypeOK
<1>4. \A i \in DOMAIN channel' : i = n \/ (i \in DOMAIN channel /\ channel'[i] = channel[i])
  BY <1>3
<1>5. channel'[n].kind = "list" /\ channel'[n].items = CurrentList
  BY <1>3, Kinds
<1>6. Said(d)' = Said(d) /\ \A i \in Said(d) : channel'[i] = channel[i]
  BY <1>3, <1>4, <1>5 DEF Said
<1>7. Running(d)' /\ LastWord(d)'
  BY <1>1, <1>2, <1>6 DEF Sound, Running, LastWord
<1>8. AfterClears(d)'
  BY <1>1, <1>2, <1>4, <1>5, <1>6 DEF Sound, AfterClears
<1>9. Shows(d)'
  BY <1>1, <1>2, <1>6 DEF Sound, Shows, Heard, IsTrue
<1>10. Answered(d)'
  <2> SUFFICES ASSUME d \notin changed,
                      NEW k \in DOMAIN channel', channel'[k].kind = "list"
               PROVE  IsTrue(d, Recovered(channel[k].items)[d])'
    BY <1>2 DEF Answered
  <2>1. channel'[k].items = CurrentList
    BY <1>1, <1>2, <1>4, <1>5 DEF Early
  <2>2. Recovered(CurrentList)[d] =
          IF CurrentList[d] = "none" THEN shown[d] ELSE CurrentList[d]
    BY DEF Recovered
  <2>3. CurrentList[d] = IF runtime[d] # "none" THEN runtime[d]
                         ELSE IF stored[d] = "progressing" THEN "interrupted" ELSE stored[d]
    BY DEF CurrentList, Abandoned
  <2>4. IsTrue(d, Recovered(CurrentList)[d])
    BY <1>1, <1>2, <2>2, <2>3 DEF Sound, Running, Read, IsTrue
  <2>5. Recovered(channel[k].items)[d]' = Recovered(CurrentList)[d]
    BY <1>2, <2>1 DEF Recovered
  <2> QED BY <1>2, <2>4, <2>5 DEF IsTrue
<1>11. Read(d)'
  BY <1>2 DEF Read
<1> QED BY <1>7, <1>8, <1>9, <1>10, <1>11 DEF Sound

\* The first message is gone.
LEMMA Delivered ==
  ASSUME TypeOK, channel # <<>>, channel' = Tail(channel), NEW d
  PROVE  /\ \A i \in DOMAIN channel' :
              i \in Nat \ {0} /\ i + 1 \in DOMAIN channel /\ channel'[i] = channel[i + 1]
         /\ \A i \in Said(d)' : i + 1 \in Said(d)
         /\ \A i \in Said(d) : i \in Nat \ {0} /\ (i = 1 \/ i - 1 \in Said(d)')
         /\ 1 \in DOMAIN channel /\ channel[1] = Head(channel) /\ Head(channel) \in Messages
<1>1. /\ DOMAIN channel = 1 .. Len(channel) /\ Len(channel) \in Nat \ {0}
      /\ DOMAIN channel' = 1 .. Len(channel) - 1
      /\ \A i \in 1 .. Len(channel) - 1 : channel'[i] = channel[i + 1]
      /\ Head(channel) = channel[1] /\ Head(channel) \in Messages
  BY TailMessage DEF TypeOK
<1>2. \A i \in DOMAIN channel' :
        i \in Nat \ {0} /\ i + 1 \in DOMAIN channel /\ channel'[i] = channel[i + 1]
  BY <1>1
<1>3. \A i \in Said(d)' : i + 1 \in Said(d)
  BY <1>2 DEF Said
<1>4. ASSUME NEW i \in Said(d), i # 1 PROVE i - 1 \in Said(d)'
  <2>1. /\ i \in DOMAIN channel /\ channel[i].kind = "event" /\ channel[i].id = d
        /\ i - 1 \in 1 .. Len(channel) - 1 /\ i - 1 + 1 = i
    BY <1>1, <1>4 DEF Said
  <2>2. i - 1 \in DOMAIN channel' /\ channel'[i - 1] = channel[i]
    BY <1>1, <2>1
  <2> QED BY <2>1, <2>2 DEF Said
<1>5. \A i \in Said(d) : i \in Nat \ {0}
  BY <1>1 DEF Said
<1> QED BY <1>1, <1>2, <1>3, <1>4, <1>5

\* What a delivery leaves of the messages.
LEMMA DeliveredKeeps ==
  ASSUME TypeOK, NEW d \in Ids, Sound(d), channel # <<>>, channel' = Tail(channel),
         UNCHANGED <<phase, runtime>>
  PROVE  Running(d)' /\ LastWord(d)' /\ AfterClears(d)'
<1>1. Running(d)'
  BY DEF Sound, Running
<1>2. LastWord(d)'
  <2> SUFFICES ASSUME NEW i \in Said(d)', \A j \in Said(d)' : j <= i
               PROVE  /\ runtime[d] # "none" => channel'[i].entry = runtime[d]
                      /\ channel'[i].entry = "progressing" => phase[d] = "active"
    BY DEF LastWord
  <2>1. i \in Nat \ {0} /\ i + 1 \in Said(d) /\ channel'[i] = channel[i + 1]
    BY Delivered DEF Said
  <2>2. \A j \in Said(d) : j <= i + 1
    <3> TAKE j \in Said(d)
    <3>1. j \in Nat \ {0} /\ (j = 1 \/ j - 1 \in Said(d)')
      BY Delivered
    <3>2. j = 1 \/ j - 1 <= i
      BY <3>1
    <3> QED BY <2>1, <3>1, <3>2
  <2> QED BY <2>1, <2>2 DEF Sound, LastWord
<1>3. AfterClears(d)'
  <2> SUFFICES ASSUME runtime[d] \in Finished,
                      NEW j \in DOMAIN channel', channel'[j].kind = "cleared"
               PROVE  \E i \in Said(d)' : j < i
    BY DEF AfterClears
  <2>1. j \in Nat \ {0} /\ j + 1 \in DOMAIN channel /\ channel[j + 1].kind = "cleared"
    BY Delivered
  <2>2. PICK i \in Said(d) : j + 1 < i
    BY <2>1 DEF Sound, AfterClears
  <2>3. i \in Nat /\ i - 1 \in Said(d)' /\ j < i - 1
    BY <2>1, <2>2, Delivered
  <2> QED BY <2>3
<1> QED BY <1>1, <1>2, <1>3

LEMMA PageHears ==
  ASSUME PageInv, NEW d \in Ids, Deliver
  PROVE  Sound(d)'
<1> DEFINE message == Head(channel)
<1>1. TypeOK /\ Sound(d) /\ Early
  BY DEF PageInv, IInv, Typed
<1>2. /\ channel # <<>> /\ channel' = Tail(channel)
      /\ UNCHANGED <<phase, runtime, stored, startup, forgotten>>
  BY DEF Deliver, kept, past
<1>3. Running(d)' /\ LastWord(d)' /\ AfterClears(d)'
  BY <1>1, <1>2, DeliveredKeeps
<1>4. /\ 1 \in DOMAIN channel /\ channel[1] = message /\ message \in Messages
      /\ \A i \in Said(d) : i \in Nat \ {0} /\ (i = 1 \/ i - 1 \in Said(d)')
      /\ \A i \in DOMAIN channel' : i + 1 \in DOMAIN channel /\ channel'[i] = channel[i + 1]
  BY <1>1, <1>2, Delivered
<1>5. Said(d)' = {} => \A i \in Said(d) : i = 1
  BY <1>4
<1>6. CASE message.kind = "event" /\ message.id = d
  <2>1. 1 \in Said(d)
    BY <1>4, <1>6 DEF Said
  <2>2. Said(d)' = {} => IsTrue(d, message.entry)
    BY <1>1, <1>4, <1>5, <2>1 DEF Sound, LastWord, IsTrue
  <2>3. /\ shown' = IF screen \in {"loading", "loaded"} THEN shown
                    ELSE [shown EXCEPT ![d] = message.entry]
        /\ changed' = IF screen \in {"recovering", "listed"} THEN changed \cup {d} ELSE changed
        /\ screen' = screen
    BY <1>6 DEF Deliver
  <2>4. Shows(d)'
    BY <1>1, <1>2, <2>2, <2>3 DEF Shows, Heard, IsTrue, TypeOK
  <2>5. Answered(d)' /\ Read(d)'
    BY <1>1, <1>2, <2>3 DEF Answered, Read, Sound
  <2> QED BY <1>3, <2>4, <2>5 DEF Sound
<1>7. CASE message.kind = "event" /\ message.id # d
  <2>1. /\ shown'[d] = shown[d] /\ (d \in changed' <=> d \in changed) /\ screen' = screen
    BY <1>1, <1>7 DEF Deliver, TypeOK
  <2>2. Said(d)' = {} => Said(d) = {}
    BY <1>4, <1>5, <1>7 DEF Said
  <2>3. Shows(d)' /\ Read(d)'
    BY <1>1, <1>2, <2>1, <2>2 DEF Sound, Shows, Heard, Read, IsTrue
  <2>4. Answered(d)'
    <3> SUFFICES ASSUME Said(d)' = {}, screen = "listed", d \notin changed,
                        NEW k \in DOMAIN channel', channel'[k].kind = "list"
                 PROVE  IsTrue(d, Recovered(channel[k].items)[d])'
      BY <2>1 DEF Answered
    <3>1. /\ k + 1 \in DOMAIN channel /\ channel[k + 1] = channel'[k]
          /\ IsTrue(d, Recovered(channel[k + 1].items)[d])
      BY <1>1, <1>4, <2>2 DEF Sound, Answered
    <3>2. Recovered(channel[k].items)[d]' = Recovered(channel[k + 1].items)[d]
      BY <2>1, <3>1 DEF Recovered
    <3> QED BY <1>2, <3>1, <3>2 DEF IsTrue
  <2> QED BY <1>3, <2>3, <2>4 DEF Sound
<1>8. CASE message.kind = "list"
  <2>1. /\ screen = "listed" /\ screen' = "ready" /\ changed' = {}
        /\ shown' = Recovered(message.items)
    BY <1>8 DEF Deliver, Screen
  <2>2. Said(d)' = {} => Said(d) = {}
    BY <1>4, <1>5, <1>8 DEF Said
  <2>3. Shows(d)'
    <3> SUFFICES ASSUME Said(d)' = {} PROVE IsTrue(d, Recovered(message.items)[d])
      BY <1>2, <2>1 DEF Shows, IsTrue
    <3>1. CASE d \in changed
      BY <1>1, <2>1, <2>2, <3>1 DEF Sound, Shows, Heard, Recovered
    <3>2. CASE d \notin changed
      BY <1>1, <1>4, <1>8, <2>1, <2>2, <3>2 DEF Sound, Answered
    <3> QED BY <3>1, <3>2
  <2>4. Answered(d)' /\ Read(d)'
    BY <2>1 DEF Answered, Read
  <2> QED BY <1>3, <2>3, <2>4 DEF Sound
<1>9. CASE message.kind = "cleared"
  <2>1. /\ screen' = screen /\ changed' = changed
        /\ shown'[d] = IF shown[d] \in Finished THEN "none" ELSE shown[d]
    BY <1>9 DEF Deliver, Without
  <2>2. Said(d)' = {} => Said(d) = {} /\ runtime[d] \notin Finished
    BY <1>1, <1>4, <1>5, <1>9 DEF Said, Sound, AfterClears
  <2>3. Shows(d)' /\ Read(d)'
    BY <1>1, <1>2, <2>1, <2>2 DEF Sound, Shows, Heard, Read, IsTrue, Finished
  <2>4. Answered(d)'
    <3> SUFFICES ASSUME Said(d)' = {}, screen = "listed", d \notin changed,
                        NEW k \in DOMAIN channel', channel'[k].kind = "list"
                 PROVE  IsTrue(d, Recovered(channel[k].items)[d])'
      BY <2>1 DEF Answered
    <3>1. /\ k + 1 \in DOMAIN channel /\ channel[k + 1] = channel'[k]
          /\ IsTrue(d, Recovered(channel[k + 1].items)[d])
      BY <1>1, <1>4, <2>2 DEF Sound, Answered
    <3>2. /\ Recovered(channel[k + 1].items)[d] =
               IF channel[k + 1].items[d] = "none" THEN shown[d] ELSE channel[k + 1].items[d]
          /\ Recovered(channel[k].items)[d]' =
               IF channel[k + 1].items[d] = "none" THEN shown'[d] ELSE channel[k + 1].items[d]
      BY <2>1, <3>1 DEF Recovered
    <3> QED BY <1>2, <2>1, <2>2, <3>1, <3>2 DEF IsTrue, Finished
  <2> QED BY <1>3, <2>3, <2>4 DEF Sound
<1> QED BY <1>4, <1>6, <1>7, <1>8, <1>9 DEF Deliver

\* A page that loads anew has everything to learn.
LEMMA PageAnew ==
  ASSUME NEW d \in Ids, NewPage, Running(d)'
  PROVE  Sound(d)'
<1>1. channel' = <<>> /\ screen' = "loading"
  BY DEF NewPage
<1>2. Said(d)' = {} /\ DOMAIN channel' = {}
  BY <1>1 DEF Said
<1> QED BY <1>1, <1>2
        DEF Sound, LastWord, AfterClears, Shows, Heard, Answered, Read

LEMMA PageTransfers ==
  ASSUME PageInv, NEW d \in Ids, NEW e \in Ids,
         \/ Start(e) \/ Refuse(e) \/ ScanEnds(e)
         \/ \E entry \in {"progressing", "interrupted"} : Updated(e, entry)
         \/ \E entry \in Outcomes : Done(e, entry)
  PROVE  Sound(d)'
<1>1. phase \in [Ids -> Phases]
  BY DEF PageInv, IInv, Typed, TypeOK
<1>2. {"progressing", "interrupted", "cancelled", "scanned"} \cup Outcomes \subseteq Records
  BY DownloadsAssumption DEF Records, Settled, Finished
<1>3. CASE Start(e)
  BY <1>1, <1>2, <1>3, PageTransfer DEF Start, past
<1>4. CASE Refuse(e)
  BY <1>1, <1>2, <1>4, PageTransfer DEF Refuse, past
<1>5. CASE ScanEnds(e)
  BY <1>1, <1>2, <1>5, PageTransfer DEF ScanEnds, past
<1>6. ASSUME NEW entry \in {"progressing", "interrupted"}, Updated(e, entry)
      PROVE  Sound(d)'
  BY <1>1, <1>2, <1>6, PageTransfer DEF Updated, past
<1>7. ASSUME NEW entry \in Outcomes, Done(e, entry) PROVE Sound(d)'
  <2>1. entry # "progressing"
    BY DownloadsAssumption
  <2> QED BY <1>1, <1>2, <1>7, <2>1, PageTransfer DEF Done, past
<1> QED BY <1>3, <1>4, <1>5, <1>6, <1>7

\* Only the answer to a page that subscribed is a list.
LEMMA EarlyStep ==
  ASSUME PageInv, [Next]_vars
  PROVE  Early'
<1> USE DEF kept, page, past, counts
<1>1. TypeOK /\ Early
  BY DEF PageInv, IInv, Typed
<1>2. ASSUME NEW m \in Messages, m.kind # "list", channel' = Append(channel, m),
             UNCHANGED <<screen, changed>>
      PROVE  Early'
  <2>1. \A k \in DOMAIN channel' :
          channel'[k] = m \/ (k \in DOMAIN channel /\ channel'[k] = channel[k])
    BY <1>1, <1>2, AppendMessage DEF TypeOK
  <2> QED BY <1>1, <1>2, <2>1 DEF Early
<1>3. ASSUME NEW e \in Ids, NEW entry \in Records, NEW op, Publish(e, entry, op), UNCHANGED page
      PROVE  Early'
  BY <1>2, <1>3, Kinds DEF Publish
<1>4. {"progressing", "interrupted", "cancelled", "scanned"} \cup Outcomes \subseteq Records
  BY DownloadsAssumption DEF Records, Settled, Finished
<1>5. ASSUME UNCHANGED <<channel, screen, changed>> PROVE Early'
  BY <1>1, <1>5 DEF Early
<1>6. ASSUME NEW e \in Ids, Start(e) \/ Refuse(e) \/ ScanEnds(e) PROVE Early'
  BY <1>3, <1>4, <1>6 DEF Start, Refuse, ScanEnds
<1>7. ASSUME NEW e \in Ids, NEW entry \in {"progressing", "interrupted"}, Updated(e, entry)
      PROVE  Early'
  BY <1>3, <1>4, <1>7 DEF Updated
<1>8. ASSUME NEW e \in Ids, NEW entry \in Outcomes, Done(e, entry) PROVE Early'
  BY <1>3, <1>4, <1>8 DEF Done
<1>9. ASSUME NEW ok \in BOOLEAN, RunTask(ok) PROVE Early'
  BY <1>2, <1>5, <1>9, Kinds DEF RunTask
<1>10. CASE OtherWrite \/ ReplaceFails \/ AskClear \/ UNCHANGED vars
  BY <1>5, <1>10 DEF OtherWrite, ReplaceFails, AskClear, vars
<1>17. ASSUME NEW items, Replace(items) PROVE Early'
  BY <1>5, <1>17 DEF Replace
<1>11. ASSUME NEW e \in Ids, Checkpoint(e) PROVE Early'
  BY <1>5, <1>11 DEF Checkpoint
<1>12. CASE AnswerLoad
  BY <1>1, <1>12 DEF AnswerLoad, Screen, Early
<1>13. CASE Hydrate
  BY <1>1, <1>13 DEF Hydrate, Screen, Early
<1>14. CASE AnswerList
  BY <1>14 DEF AnswerList, Screen, Early
<1>15. CASE Deliver
  <2>1. \A i \in DOMAIN channel' : i + 1 \in DOMAIN channel /\ channel'[i] = channel[i + 1]
    BY <1>1, <1>15, Delivered DEF Deliver
  <2>2. screen' = screen \/ screen' = "ready"
    BY <1>15 DEF Deliver, Screen
  <2>3. screen' \in {"loading", "loaded"} => changed' = {}
    BY <1>1, <1>15 DEF Deliver, Screen, Early
  <2> QED BY <1>1, <2>1, <2>2, <2>3 DEF Early
<1>16. CASE Reload \/ Restart
  <2>1. channel' = <<>> /\ changed' = {}
    BY <1>16 DEF Reload, Restart, NewPage
  <2> QED BY <2>1 DEF Early
<1> QED BY <1>6, <1>7, <1>8, <1>9, <1>10, <1>11, <1>12, <1>13, <1>14, <1>15, <1>16, <1>17
        DEF Next

LEMMA SoundStep ==
  ASSUME PageInv, [Next]_vars, NEW d \in Ids
  PROVE  Sound(d)'
<1> USE DEF kept, page, past, counts
<1>1. Running(d)
  BY DEF PageInv, Sound
<1>2. CASE \E e \in Ids, entry \in {"progressing", "interrupted"} : Updated(e, entry)
  BY <1>2, PageTransfers
<1>3. CASE \E e \in Ids, entry \in Outcomes : Done(e, entry)
  BY <1>3, PageTransfers
<1>4. CASE \E e \in Ids : Start(e) \/ Refuse(e) \/ ScanEnds(e)
  BY <1>4, PageTransfers
<1>5. CASE \E e \in Ids : Checkpoint(e)
  BY <1>5, PageAside DEF Checkpoint
<1>6. CASE \E ok \in BOOLEAN : RunTask(ok)
  BY <1>6, PageTask
<1>7. CASE OtherWrite \/ ReplaceFails \/ AskClear \/ UNCHANGED vars
  BY <1>7, PageAside DEF OtherWrite, ReplaceFails, AskClear, vars
<1>14. ASSUME NEW items, Replace(items) PROVE Sound(d)'
  BY <1>14, PageAside DEF Replace
<1>8. CASE AnswerLoad
  BY <1>8, PageLoads
<1>9. CASE Hydrate
  BY <1>9, PageHydrates
<1>10. CASE AnswerList
  BY <1>10, PageIsAnswered
<1>11. CASE Deliver
  BY <1>11, PageHears
<1>12. CASE Reload
  BY <1>1, <1>12, PageAnew DEF Reload, Running
<1>13. CASE Restart
  BY <1>13, PageAnew DEF Restart, Running, Empty
<1> QED BY <1>2, <1>3, <1>4, <1>5, <1>6, <1>7, <1>8, <1>9, <1>10, <1>11, <1>12, <1>13, <1>14
        DEF Next

LEMMA PageInit == Init => PageInv
<1> SUFFICES ASSUME Init PROVE PageInv
  OBVIOUS
<1>1. IInv
  BY GoodInit
<1>2. /\ channel = <<>> /\ screen = "loading" /\ changed = {}
      /\ \A d \in Ids : runtime[d] = "none"
  BY DEF Init, Empty
<1>3. Early
  BY <1>2 DEF Early
<1>4. ASSUME NEW d \in Ids PROVE Sound(d)
  <2>1. Said(d) = {} /\ DOMAIN channel = {}
    BY <1>2 DEF Said
  <2> QED BY <1>2, <2>1
          DEF Sound, Running, LastWord, AfterClears, Shows, Heard, Answered, Read
<1> QED BY <1>1, <1>3, <1>4 DEF PageInv

LEMMA PageStep == PageInv /\ [Next]_vars => PageInv'
BY GoodStep, EarlyStep, SoundStep DEF PageInv

\* A page that has caught up shows every download of this run as it is, and as
\* running only what runs, however events, clears, failed writes, reloads of
\* the page and restarts follow each other.
THEOREM QuietScreenIsTrueAlways == Spec => []QuietScreenIsTrue
<1>1. PageInv => QuietScreenIsTrue
  <2> SUFFICES ASSUME PageInv, screen = "ready", channel = <<>>, NEW d \in Ids
               PROVE  IsTrue(d, shown[d])
    BY DEF QuietScreenIsTrue, IsTrue
  <2>1. Said(d) = {}
    BY DEF Said
  <2> QED BY <2>1 DEF PageInv, Sound, Shows, Heard
<1> QED BY PageInit, PageStep, <1>1, PTL DEF Spec
=============================================================================
