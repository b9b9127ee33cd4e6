---------------------------- MODULE WindowProofs ----------------------------
(***************************************************************************)
(* A browser window, from its session to its end.                           *)
(*                                                                          *)
(* The close and the quit barrier (Shutdown): their types, that a window    *)
(* destroyed after a confirmed flush has its state in the store, that the   *)
(* closing flag is never left behind, and that the process exits only after *)
(* its windows and the whole cleanup, for every set of windows and every    *)
(* bound.                                                                   *)
(*                                                                          *)
(* The session (BrowserSession): its operations and its restart keep it     *)
(* consistent, keep a tab on every screen that has one, and lose nothing a  *)
(* restart should return, for every number of tabs, workspaces and groups.  *)
(***************************************************************************)
EXTENDS Shutdown, BrowserSession, SequenceTheorems, FiniteSetTheorems,
        WellFoundedInduction, TLAPS

-----------------------------------------------------------------------------
(* The inductive invariant.                                                 *)

\* What is on its way from one renderer: nothing older than what is stored
\* follows, and whatever answers the last request holds the state it had.
Ordered(w) ==
    /\ version[w] >= due[w] /\ version[w] >= stored[w]
    /\ pending[w] \in {None, request[w]}
    /\ \A id \in asked[w] : id >= 1 /\ id <= request[w]
    /\ \A i \in 1 .. Len(saving[w]) :
         /\ saving[w][i].id <= request[w]
         /\ stored[w] <= saving[w][i].version
         /\ saving[w][i].version <= version[w]
         /\ (saving[w][i].id = request[w] /\ saving[w][i].id # None)
              => saving[w][i].version >= due[w]
    /\ \A i, j \in 1 .. Len(saving[w]) :
         i <= j => saving[w][i].version <= saving[w][j].version
    /\ \A r \in replies[w] :
         /\ r.id >= 1 /\ r.id <= request[w]
         /\ (r.id = request[w] /\ r.ok) => stored[w] >= due[w]
    /\ end[w] = "flushed" => stored[w] >= due[w]
    /\ w \notin Hydrated => version[w] = 0

AllOrdered == \A w \in Windows : Ordered(w)

\* Every request was caused by one of the bounded events or by the end of the
\* cleanup.
Budget == closes + quits + retries + (IF cleanup = "done" THEN 1 ELSE 0)

Counted == \A w \in Windows : request[w] <= Budget

\* Only open windows are on their way out, and while the user is being asked
\* no answer of the renderer is awaited.
BusyIsOpen ==
    \A w \in Windows :
        /\ (pending[w] # None \/ w \in dialog) => end[w] = "open"
        /\ w \in dialog => pending[w] = None

Marked == cleanup = "done" => (health # "booting" \/ faults # 0)

IInv ==
    /\ TypeOK /\ AllOrdered /\ Counted
    /\ BusyIsOpen /\ ClosingIsBusy
    /\ Marked /\ ExitAfterCleanup

-----------------------------------------------------------------------------
(* Sequences.                                                               *)

\* The rest of a sequence is what follows its head.
LEMMA RestOfFlushes ==
    ASSUME NEW s \in Seq(Flushes), s # <<>>
    PROVE  /\ Tail(s) \in Seq(Flushes)
           /\ Len(s) \in Nat /\ Len(s) >= 1
           /\ Len(Tail(s)) = Len(s) - 1
           /\ Head(s) = s[1] /\ s[1] \in Flushes
           /\ \A i \in 1 .. Len(Tail(s)) : Tail(s)[i] = s[i + 1]
<1>1. Len(s) \in Nat /\ Len(s) # 0
  BY EmptySeq
<1>2. Len(s) >= 1 /\ 1 \in 1 .. Len(s)
  BY <1>1
<1>3. s[1] \in Flushes
  BY <1>2, ElementOfSeq
<1> QED BY <1>1, <1>2, <1>3, HeadTailProperties

\* A flush sent last is the last of the sequence.
LEMMA SentLast ==
    ASSUME NEW s \in Seq(Flushes), NEW f \in Flushes
    PROVE  /\ Append(s, f) \in Seq(Flushes)
           /\ Len(s) \in Nat /\ Len(Append(s, f)) = Len(s) + 1
           /\ \A i \in 1 .. Len(s) : Append(s, f)[i] = s[i]
           /\ Append(s, f)[Len(s) + 1] = f
BY AppendProperties

-----------------------------------------------------------------------------
(* The steps of the barrier.                                                *)

\* Closing windows and asking others keeps the types, as long as the numbers
\* of the requests stay in their range.
LEMMA BarrierTypes ==
    ASSUME TypeOK, NEW gone \in SUBSET Windows, NEW how \in Ends,
           NEW fresh \in SUBSET Windows, Barrier(gone, how, fresh),
           \A w \in fresh : request[w] + 1 \in RequestNumbers
    PROVE  /\ end' \in [Windows -> Ends]
           /\ closing' \in SUBSET Windows /\ dialog' \in SUBSET Windows
           /\ request' \in [Windows -> RequestNumbers]
           /\ pending' \in [Windows -> RequestNumbers]
           /\ asked' \in [Windows -> SUBSET RequestNumbers]
           /\ due' \in [Windows -> Versions]
<1>1. None \in RequestNumbers
  BY BoundsAssumption DEF None, RequestNumbers
<1>2. request' \in [Windows -> RequestNumbers]
  BY DEF TypeOK, Barrier
<1>3. \A w \in Windows : w \in fresh => request[w] + 1 \in RequestNumbers
  OBVIOUS
<1> DEFINE p(w) == CASE w \in fresh -> request[w] + 1
                     [] w \in gone  -> None
                     [] OTHER       -> pending[w]
           a(w) == CASE w \in fresh -> asked[w] \cup {request[w] + 1}
                     [] w \in gone  -> {}
                     [] OTHER       -> asked[w]
<1>4. \A w \in Windows : p(w) \in RequestNumbers
  BY <1>1, <1>3 DEF TypeOK
<1>5. \A w \in Windows : a(w) \in SUBSET RequestNumbers
  BY <1>3 DEF TypeOK
<1>6. pending' = [w \in Windows |-> p(w)] /\ asked' = [w \in Windows |-> a(w)]
  BY DEF Barrier
<1>7. pending' \in [Windows -> RequestNumbers] /\ asked' \in [Windows -> SUBSET RequestNumbers]
  <2> HIDE DEF p, a
  <2> QED BY <1>4, <1>5, <1>6
<1> QED BY <1>2, <1>7 DEF TypeOK, Barrier

\* After a close event only open windows are busy, and the closing flag of a
\* window is set exactly when it is.
LEMMA BarrierBusy ==
    ASSUME TypeOK, BusyIsOpen, ClosingIsBusy,
           NEW gone \in SUBSET Windows, NEW how \in Ends \ {"open"},
           NEW fresh \in SUBSET Open, fresh \cap gone = {},
           Barrier(gone, how, fresh)
    PROVE  BusyIsOpen' /\ ClosingIsBusy'
<1>1. \A w \in Windows : request[w] + 1 # None
  BY DEF TypeOK, RequestNumbers, None
<1>2. fresh \subseteq Windows
  BY DEF Open
<1>3. \A w \in Windows :
        /\ end'[w] = (IF w \in gone THEN how ELSE end[w])
        /\ w \in fresh => pending'[w] # None
        /\ w \in gone => pending'[w] = None
        /\ (w \notin fresh /\ w \notin gone) => pending'[w] = pending[w]
  BY <1>1, <1>2 DEF Barrier
<1>4. BusyIsOpen'
  BY <1>3 DEF BusyIsOpen, Barrier, Open
<1>5. ASSUME NEW w \in Windows
      PROVE  w \in closing' <=> (w \in Open' /\ (pending'[w] # None \/ w \in dialog'))
  BY <1>3 DEF ClosingIsBusy, BusyIsOpen, Barrier, Open
<1>6. closing' \subseteq Windows
  BY <1>2 DEF Barrier, TypeOK
<1> QED BY <1>4, <1>5, <1>6 DEF ClosingIsBusy, Open

\* A close event sends the pagehide flush of the windows it takes.
LEMMA CloseEventSends ==
    ASSUME TypeOK, NEW ws \in SUBSET Windows, CloseEvent(ws)
    PROVE  /\ Barrier(ws \cap closing, "default", ws \ closing)
           /\ saving' \in [Windows -> Seq(Flushes)]
           /\ \A w \in Windows :
                saving'[w] \in {saving[w],
                                Append(saving[w], [id |-> None, version |-> version[w]])}
<1> DEFINE sent(w) == Append(saving[w], [id |-> None, version |-> version[w]])
           s(w) == IF w \in (ws \cap closing) \cap Hydrated THEN sent(w) ELSE saving[w]
<1>1. None \in RequestNumbers
  BY BoundsAssumption DEF None, RequestNumbers
<1>2. \A w \in Windows : sent(w) \in Seq(Flushes)
  <2> SUFFICES ASSUME NEW w \in Windows PROVE sent(w) \in Seq(Flushes)
    OBVIOUS
  <2>1. saving[w] \in Seq(Flushes) /\ [id |-> None, version |-> version[w]] \in Flushes
    BY <1>1 DEF TypeOK, Flushes
  <2> QED BY <2>1, SentLast
<1>3. \A w \in Windows : s(w) \in Seq(Flushes) /\ s(w) \in {saving[w], sent(w)}
  <2> HIDE DEF sent
  <2> QED BY <1>2 DEF TypeOK
<1>4. saving' = [w \in Windows |-> s(w)]
  BY DEF CloseEvent
<1>5. saving' \in [Windows -> Seq(Flushes)] /\ \A w \in Windows :
         saving'[w] \in {saving[w], sent(w)}
  <2> HIDE DEF s, sent
  <2> QED BY <1>3, <1>4
<1> QED BY <1>5 DEF CloseEvent

-----------------------------------------------------------------------------
(* Every request is paid for.                                               *)

\* A flush request more is within a budget that has one more.
LEMMA OneMore ==
    ASSUME NEW q \in Nat, NEW b \in Nat, NEW qq, NEW bb,
           q <= b, qq = q \/ qq = q + 1, bb = b + 1
    PROVE  qq <= bb
OBVIOUS

\* The requests stay within the budget: each step that sends one spends one.
LEMMA CountedStep == IInv /\ [Next]_vars => Counted'
<1> SUFFICES ASSUME IInv, [Next]_vars, NEW v \in Windows
             PROVE  request'[v] <= Budget'
  BY DEF Counted
<1>1. request[v] \in Nat /\ request[v] <= Budget
  BY DEF IInv, Counted, TypeOK, RequestNumbers
<1>2. closes \in Nat /\ quits \in Nat /\ retries \in Nat /\ Budget \in Nat
  BY DEF IInv, TypeOK, Budget
<1>3. ASSUME NEW gone, NEW how, NEW fresh, Barrier(gone, how, fresh)
      PROVE  request'[v] = request[v] \/ request'[v] = request[v] + 1
  BY <1>3 DEF Barrier
<1>4. ASSUME NEW w \in Windows, UserCloses(w)
      PROVE  request'[v] <= Budget'
  <2>1. request'[v] = request[v] \/ request'[v] = request[v] + 1
    BY <1>3, <1>4 DEF UserCloses, CloseEvent
  <2>2. cleanup' = "done" <=> cleanup = "done"
    BY <1>4 DEF UserCloses, QuitAfterLast, StartCleanup, quitVars
  <2>3. closes' = closes + 1 /\ quits' = quits /\ retries' = retries
    BY <1>4 DEF UserCloses
  <2>4. Budget' = Budget + 1
    BY <1>2, <2>2, <2>3 DEF Budget
  <2> QED BY <1>1, <1>2, <2>1, <2>4, OneMore
<1>5. ASSUME NEW w \in Windows, RetrySave(w)
      PROVE  request'[v] <= Budget'
  <2>1. request'[v] = request[v] \/ request'[v] = request[v] + 1
    BY <1>3, <1>5 DEF RetrySave
  <2>2. retries' = retries + 1 /\ closes' = closes /\ quits' = quits /\ cleanup' = cleanup
    BY <1>5 DEF RetrySave, quitVars
  <2>3. Budget' = Budget + 1
    BY <1>2, <2>2 DEF Budget
  <2> QED BY <1>1, <1>2, <2>1, <2>3, OneMore
<1>6. CASE AppQuit
  <2>1. request'[v] = request[v] \/ request'[v] = request[v] + 1
    <3>1. CASE CloseAllWindows
      BY <1>3, <3>1 DEF CloseAllWindows, CloseEvent
    <3>2. CASE UNCHANGED barrierVars
      BY <3>2 DEF barrierVars
    <3> QED BY <1>6, <3>1, <3>2 DEF AppQuit
  <2>2. cleanup' = "done" <=> cleanup = "done"
    BY <1>6 DEF AppQuit, StartCleanup, QuitPasses
  <2>3. quits' = quits + 1 /\ closes' = closes /\ retries' = retries
    BY <1>6 DEF AppQuit
  <2>4. Budget' = Budget + 1
    BY <1>2, <2>2, <2>3 DEF Budget
  <2> QED BY <1>1, <1>2, <2>1, <2>4, OneMore
<1>7. CASE FinishCleanup
  <2>1. request'[v] = request[v] \/ request'[v] = request[v] + 1
    BY <1>3, <1>7 DEF FinishCleanup, QuitAgain, CloseAllWindows, CloseEvent
  <2>2. /\ cleanup' = "done" /\ cleanup # "done"
        /\ closes' = closes /\ quits' = quits /\ retries' = retries
    BY <1>7 DEF FinishCleanup
  <2>3. Budget' = Budget + 1
    BY <1>2, <2>2 DEF Budget
  <2> QED BY <1>1, <1>2, <2>1, <2>3, OneMore
<1>8. CASE CleanupStep \/ CleanupStepFails
  <2>1. /\ cleanup' # "done" /\ cleanup # "done" /\ request' = request
        /\ closes' = closes /\ quits' = quits /\ retries' = retries
    BY <1>8 DEF CleanupStep, CleanupStepFails, NextPhase, PhaseAfterFailure, barrierVars, counters
  <2> QED BY <1>1, <2>1 DEF Budget
<1>9. ASSUME NEW w \in Windows, CloseReady(w) \/ CloseWithoutSaving(w)
      PROVE  request'[v] <= Budget'
  <2>1. request'[v] = request[v]
    BY <1>9 DEF CloseReady, CloseWithoutSaving, Barrier, NotConfirmed, AskUser, barrierVars
  <2>2. cleanup' = "done" <=> cleanup = "done"
    BY <1>9 DEF CloseReady, CloseWithoutSaving, QuitAfterLast, StartCleanup, quitVars
  <2>3. closes' = closes /\ quits' = quits /\ retries' = retries
    BY <1>9 DEF CloseReady, CloseWithoutSaving, counters
  <2> QED BY <1>1, <2>1, <2>2, <2>3 DEF Budget
<1>10. ASSUME NEW w \in Windows,
              Edit(w) \/ Autosave(w) \/ BeginFlush(w) \/ SaveTaken(w) \/ SaveFails(w)
                \/ FlushTimeout(w) \/ CancelClose(w)
       PROVE  request'[v] <= Budget'
  BY <1>1, <1>10 DEF Budget, Edit, Autosave, BeginFlush, SaveTaken, SaveFails, Answered,
     FlushTimeout, CancelClose, NotConfirmed, AskUser, barrierVars, quitVars, counters
<1>11. CASE PageWrites \/ UNCHANGED vars
  BY <1>1, <1>11 DEF Budget, PageWrites, vars, barrierVars, quitVars, counters
<1> QED BY <1>4, <1>5, <1>6, <1>7, <1>8, <1>9, <1>10, <1>11 DEF Next

-----------------------------------------------------------------------------
(* The closing flag and the end of the process.                             *)

\* What leaves the flags of every window as they are keeps both facts.
LEMMA FlagsUnchanged ==
    ASSUME BusyIsOpen, ClosingIsBusy,
           end' = end, closing' = closing, pending' = pending, dialog' = dialog
    PROVE  BusyIsOpen' /\ ClosingIsBusy'
BY DEF BusyIsOpen, ClosingIsBusy, Open

\* No step leaves the closing flag of an open window without a reason, or takes
\* it from one that has.
LEMMA BusyStep == IInv /\ [Next]_vars => BusyIsOpen' /\ ClosingIsBusy'
<1> SUFFICES ASSUME IInv, [Next]_vars
             PROVE  BusyIsOpen' /\ ClosingIsBusy'
  OBVIOUS
<1>1. TypeOK /\ BusyIsOpen /\ ClosingIsBusy
  BY DEF IInv
<1>2. closing \subseteq Open /\ dialog \subseteq Open /\ Open \subseteq Windows
  BY <1>1 DEF ClosingIsBusy, BusyIsOpen, TypeOK, Open
<1>3. ASSUME NEW ws \in SUBSET Open, CloseEvent(ws)
      PROVE  BusyIsOpen' /\ ClosingIsBusy'
  <2>1. /\ ws \cap closing \in SUBSET Windows /\ ws \ closing \in SUBSET Open
        /\ (ws \ closing) \cap (ws \cap closing) = {}
        /\ "default" \in Ends \ {"open"}
    BY <1>2 DEF Ends
  <2>2. Barrier(ws \cap closing, "default", ws \ closing)
    BY <1>3 DEF CloseEvent
  <2> QED BY <1>1, <2>1, <2>2, BarrierBusy
<1>4. ASSUME NEW w \in Windows, NEW how \in Ends \ {"open"}, Barrier({w}, how, {})
      PROVE  BusyIsOpen' /\ ClosingIsBusy'
  <2>1. {w} \in SUBSET Windows /\ {} \in SUBSET Open /\ {} \cap {w} = {}
    OBVIOUS
  <2> QED BY <1>1, <1>4, <2>1, BarrierBusy
<1>5. ASSUME NEW w \in Windows, end[w] = "open", w \in closing, NotConfirmed(w)
      PROVE  BusyIsOpen' /\ ClosingIsBusy'
  <2>1. \A v \in Windows : pending'[v] = (IF v = w THEN None ELSE pending[v])
    BY <1>1, <1>5 DEF NotConfirmed, AskUser, TypeOK
  <2>2. end' = end /\ closing' = closing /\ dialog' = dialog \cup {w}
    BY <1>5 DEF NotConfirmed, AskUser
  <2> QED BY <1>1, <1>5, <2>1, <2>2 DEF BusyIsOpen, ClosingIsBusy, Open
<1>6. ASSUME NEW w \in Windows, UserCloses(w)
      PROVE  BusyIsOpen' /\ ClosingIsBusy'
  <2>1. {w} \in SUBSET Open /\ CloseEvent({w})
    BY <1>6 DEF UserCloses, Open
  <2> QED BY <1>3, <2>1
<1>7. ASSUME NEW w \in Windows, CloseReady(w)
      PROVE  BusyIsOpen' /\ ClosingIsBusy'
  <2>1. PICK r \in replies[w] :
          \/ Answers(w, r) /\ r.ok /\ Barrier({w}, "flushed", {})
          \/ Answers(w, r) /\ ~r.ok /\ NotConfirmed(w)
          \/ ~Answers(w, r) /\ UNCHANGED barrierVars
    BY <1>7 DEF CloseReady
  <2>2. r.id # None /\ end[w] = "open"
    <3>1. Ordered(w) /\ r \in Replies
      BY <2>1 DEF IInv, AllOrdered, TypeOK
    <3>2. r.id >= 1
      BY <3>1 DEF Ordered
    <3> QED BY <1>7, <3>2 DEF CloseReady, None
  <2>3. CASE Barrier({w}, "flushed", {})
    BY <1>4, <2>3 DEF Ends
  <2>4. CASE Answers(w, r) /\ NotConfirmed(w)
    <3>1. w \in closing
      BY <1>1, <2>2, <2>4 DEF ClosingIsBusy, Answers, Open
    <3> QED BY <1>5, <2>2, <2>4, <3>1
  <2>5. CASE UNCHANGED barrierVars
    BY <1>1, <2>5, FlagsUnchanged DEF barrierVars
  <2> QED BY <2>1, <2>3, <2>4, <2>5
<1>8. ASSUME NEW w \in Windows, FlushTimeout(w)
      PROVE  BusyIsOpen' /\ ClosingIsBusy'
  <2>1. pending[w] # None /\ NotConfirmed(w)
    BY <1>8 DEF FlushTimeout
  <2>2. end[w] = "open" /\ w \in closing
    BY <1>1, <2>1 DEF BusyIsOpen, ClosingIsBusy, Open
  <2> QED BY <1>5, <2>1, <2>2
<1>9. ASSUME NEW w \in Windows, RetrySave(w)
      PROVE  BusyIsOpen' /\ ClosingIsBusy'
  <2>1. Barrier({}, "open", {w}) /\ w \in Open
    BY <1>2, <1>9 DEF RetrySave
  <2>2. Barrier({}, "flushed", {w})
    BY <2>1 DEF Barrier
  <2>3. {} \in SUBSET Windows /\ {w} \in SUBSET Open /\ {w} \cap {} = {} /\ "flushed" \in Ends \ {"open"}
    BY <2>1 DEF Ends
  <2> QED BY <1>1, <2>2, <2>3, BarrierBusy
<1>10. ASSUME NEW w \in Windows, CloseWithoutSaving(w)
      PROVE  BusyIsOpen' /\ ClosingIsBusy'
  BY <1>4, <1>10 DEF CloseWithoutSaving, Ends
<1>11. ASSUME NEW w \in Windows, CancelClose(w)
      PROVE  BusyIsOpen' /\ ClosingIsBusy'
  <2>1. /\ w \in dialog /\ dialog' = dialog \ {w} /\ closing' = closing \ {w}
        /\ end' = end /\ pending' = pending
    BY <1>11 DEF CancelClose, FlagReset
  <2>2. pending[w] = None
    BY <1>1, <2>1 DEF BusyIsOpen
  <2> QED BY <1>1, <2>1, <2>2 DEF BusyIsOpen, ClosingIsBusy, Open
<1>12. CASE AppQuit
  <2>1. CloseEvent(Open) \/ UNCHANGED barrierVars
    BY <1>12 DEF AppQuit, CloseAllWindows
  <2> QED BY <1>1, <1>3, <2>1, FlagsUnchanged DEF barrierVars
<1>13. CASE FinishCleanup
  BY <1>3, <1>13 DEF FinishCleanup, QuitAgain, CloseAllWindows
<1>14. ASSUME NEW w \in Windows,
              Edit(w) \/ Autosave(w) \/ BeginFlush(w) \/ SaveTaken(w) \/ SaveFails(w)
       PROVE  BusyIsOpen' /\ ClosingIsBusy'
  BY <1>1, <1>14, FlagsUnchanged
     DEF Edit, Autosave, BeginFlush, SaveTaken, SaveFails, Answered, barrierVars
<1>15. CASE PageWrites \/ CleanupStep \/ CleanupStepFails \/ UNCHANGED vars
  BY <1>1, <1>15, FlagsUnchanged
     DEF PageWrites, CleanupStep, CleanupStepFails, vars, barrierVars
<1> QED BY <1>6, <1>7, <1>8, <1>9, <1>10, <1>11, <1>12, <1>13, <1>14, <1>15 DEF Next

\* The process ends with the last window or with a quit that no window
\* prevents; in both cases no window is left and the cleanup is complete.
LEMMA LastWindowGone ==
    ASSUME NEW gone, NEW how \in Ends \ {"open"}, NEW fresh,
           Barrier(gone, how, fresh), QuitAfterLast(gone), running
    PROVE  /\ ~running' => (Open' = {} /\ cleanup = "done")
           /\ cleanup' = "done" <=> cleanup = "done"
<1>1. Open' = {w \in Open : w \notin gone}
  BY DEF Open, Barrier, Ends
<1> QED BY <1>1 DEF QuitAfterLast, QuitPasses, StartCleanup, quitVars

\* A quit that passes ends the process only when it leaves no window.
LEMMA NoWindowPrevents ==
    ASSUME CloseAllWindows
    PROVE  ~running' => Open' = {}
<1>1. Barrier(Open \cap closing, "default", Open \ closing)
  BY DEF CloseAllWindows, CloseEvent
<1>2. Open' = {w \in Open : w \notin closing}
  BY <1>1 DEF Open, Barrier
<1> QED BY <1>2 DEF CloseAllWindows

\* No step ends the process before the windows and the cleanup are done.
LEMMA ExitStep == IInv /\ [Next]_vars => Marked' /\ ExitAfterCleanup'
<1> SUFFICES ASSUME IInv, [Next]_vars
             PROVE  Marked' /\ ExitAfterCleanup'
  OBVIOUS
<1>1. Marked /\ ExitAfterCleanup /\ faults \in Nat
  BY DEF IInv, TypeOK
<1>2. ASSUME running, cleanup' = "done" <=> cleanup = "done",
             ~running' => (Open' = {} /\ cleanup = "done"),
             health' = health, faults' = faults \/ faults' = faults + 1
      PROVE  Marked' /\ ExitAfterCleanup'
  BY <1>1, <1>2 DEF Marked, ExitAfterCleanup
<1>3. ASSUME NEW w \in Windows, UserCloses(w)
      PROVE  Marked' /\ ExitAfterCleanup'
  <2>1. Barrier({w} \cap closing, "default", {w} \ closing) /\ QuitAfterLast({w} \cap closing)
    BY <1>3 DEF UserCloses, CloseEvent
  <2>2. running /\ health' = health /\ faults' = faults
    BY <1>3 DEF UserCloses
  <2>3. "default" \in Ends \ {"open"}
    BY DEF Ends
  <2> QED BY <1>2, <2>1, <2>2, <2>3, LastWindowGone
<1>4. ASSUME NEW w \in Windows, CloseReady(w)
      PROVE  Marked' /\ ExitAfterCleanup'
  <2>1. running /\ health' = health /\ faults' = faults
    BY <1>4 DEF CloseReady, counters
  <2>2. \/ Barrier({w}, "flushed", {}) /\ QuitAfterLast({w})
        \/ UNCHANGED quitVars
    BY <1>4 DEF CloseReady
  <2>3. "flushed" \in Ends \ {"open"}
    BY DEF Ends
  <2>4. CASE Barrier({w}, "flushed", {}) /\ QuitAfterLast({w})
    BY <1>2, <2>1, <2>3, <2>4, LastWindowGone
  <2>5. CASE UNCHANGED quitVars
    BY <1>2, <2>1, <2>5 DEF quitVars
  <2> QED BY <2>2, <2>4, <2>5
<1>5. ASSUME NEW w \in Windows, CloseWithoutSaving(w)
      PROVE  Marked' /\ ExitAfterCleanup'
  <2>1. running /\ health' = health /\ faults' = faults
    BY <1>5 DEF CloseWithoutSaving, counters
  <2>2. Barrier({w}, "abandoned", {}) /\ QuitAfterLast({w})
    BY <1>5 DEF CloseWithoutSaving
  <2>3. "abandoned" \in Ends \ {"open"}
    BY DEF Ends
  <2> QED BY <1>2, <2>1, <2>2, <2>3, LastWindowGone
<1>6. CASE AppQuit
  <2>1. running /\ health' = health /\ faults' = faults
    BY <1>6 DEF AppQuit
  <2>2. \/ CloseAllWindows /\ cleanup = "done" /\ cleanup' = cleanup
        \/ running' = running /\ cleanup # "done" /\ cleanup' # "done"
    BY <1>6 DEF AppQuit, QuitPasses, StartCleanup
  <2> QED BY <1>2, <2>1, <2>2, NoWindowPrevents
<1>7. CASE FinishCleanup
  <2>1. CloseAllWindows /\ cleanup' = "done"
    BY <1>7 DEF FinishCleanup, QuitAgain
  <2>2. health' = "clean-exit" \/ (faults' = faults + 1 /\ health' = health)
    BY <1>7 DEF FinishCleanup
  <2>3. health' # "booting" \/ faults' # 0
    BY <1>1, <2>2
  <2>4. ~running' => Open' = {}
    BY <2>1, NoWindowPrevents
  <2> QED BY <2>1, <2>3, <2>4 DEF Marked, ExitAfterCleanup
<1>8. CASE CleanupStep \/ CleanupStepFails
  <2>1. running /\ running' = running /\ health' = health
    BY <1>8 DEF CleanupStep, CleanupStepFails
  <2>2. cleanup' # "done" /\ cleanup # "done"
    BY <1>8 DEF CleanupStep, CleanupStepFails, NextPhase, PhaseAfterFailure
  <2> QED BY <2>1, <2>2 DEF Marked, ExitAfterCleanup
<1>9. ASSUME NEW w \in Windows,
             Edit(w) \/ Autosave(w) \/ BeginFlush(w) \/ SaveTaken(w) \/ SaveFails(w)
               \/ FlushTimeout(w) \/ RetrySave(w) \/ CancelClose(w)
      PROVE  Marked' /\ ExitAfterCleanup'
  <2>1. /\ running /\ running' = running /\ cleanup' = cleanup /\ health' = health
        /\ faults' = faults \/ faults' = faults + 1
    BY <1>9 DEF Edit, Autosave, BeginFlush, SaveTaken, SaveFails, Answered, FlushTimeout,
       RetrySave, CancelClose, quitVars, counters
  <2> QED BY <1>2, <2>1
<1>10. CASE PageWrites
  <2>1. /\ running /\ running' = running /\ cleanup' = cleanup /\ health' = health
        /\ faults' = faults
    BY <1>10 DEF PageWrites, quitVars, counters
  <2> QED BY <1>2, <2>1
<1>11. CASE UNCHANGED vars
  BY <1>1, <1>11 DEF Marked, ExitAfterCleanup, Open, vars, barrierVars, quitVars, counters
<1> QED BY <1>3, <1>4, <1>5, <1>6, <1>7, <1>8, <1>9, <1>10, <1>11 DEF Next

-----------------------------------------------------------------------------
(* The order of flushes and answers.                                        *)

\* What happens to the other windows does not touch one renderer's order.
LEMMA OrderedUnchanged ==
    ASSUME NEW v \in Windows, Ordered(v),
           end'[v] = end[v], request'[v] = request[v],
           pending'[v] \in {pending[v], None}, asked'[v] \subseteq asked[v],
           due'[v] = due[v], saving'[v] = saving[v],
           replies'[v] \subseteq replies[v],
           version'[v] = version[v], stored'[v] = stored[v]
    PROVE  Ordered(v)'
BY DEF Ordered

\* What a sequence of flushes of window v must look like.
InOrder(s, v) ==
    /\ \A i \in 1 .. Len(s) :
         /\ s[i].id <= request[v]
         /\ stored[v] <= s[i].version
         /\ s[i].version <= version[v]
         /\ (s[i].id = request[v] /\ s[i].id # None) => s[i].version >= due[v]
    /\ \A i, j \in 1 .. Len(s) : i <= j => s[i].version <= s[j].version

\* A flush sent now holds the latest state.
LEMMA SentInOrder ==
    ASSUME TypeOK, NEW v \in Windows, Ordered(v),
           NEW id \in RequestNumbers, id <= request[v]
    PROVE  InOrder(Append(saving[v], [id |-> id, version |-> version[v]]), v)
<1> DEFINE s == saving[v]
           f == [id |-> id, version |-> version[v]]
           q == Append(s, f)
           n == Len(s) + 1
<1>1. s \in Seq(Flushes) /\ f \in Flushes
  BY DEF TypeOK, Flushes
<1>2. /\ Len(s) \in Nat /\ Len(q) = n
      /\ \A i \in 1 .. Len(s) : q[i] = s[i]
      /\ q[n] = f
  <2> HIDE DEF s, f
  <2> QED BY <1>1, SentLast
<1> HIDE DEF q
<1>3. version[v] \in Nat /\ due[v] \in Nat /\ stored[v] \in Nat /\ version[v] >= due[v] /\ version[v] >= stored[v]
  BY DEF Ordered, TypeOK, Versions
<1>4. \A i \in 1 .. n : i \in 1 .. Len(s) \/ i = n
  BY <1>2
<1>5. ASSUME NEW i \in 1 .. n
      PROVE  /\ q[i].id <= request[v]
             /\ stored[v] <= q[i].version
             /\ q[i].version <= version[v]
             /\ (q[i].id = request[v] /\ q[i].id # None) => q[i].version >= due[v]
  <2>1. CASE i \in 1 .. Len(s)
    <3>1. q[i] = saving[v][i]
      BY <1>2, <2>1
    <3> QED BY <2>1, <3>1 DEF Ordered
  <2>2. CASE i = n
    <3>1. q[i] = f
      BY <1>2, <2>2
    <3>2. q[i].id = id /\ q[i].version = version[v]
      BY <3>1
    <3> QED BY <1>3, <3>2
  <2> QED BY <1>4, <2>1, <2>2
<1>6. ASSUME NEW i \in 1 .. n, NEW j \in 1 .. n, i <= j
      PROVE  q[i].version <= q[j].version
  <2>1. CASE j = n
    <3>1. q[j] = f
      BY <1>2, <2>1
    <3>2. q[j].version = version[v]
      BY <3>1
    <3> QED BY <1>5, <3>2
  <2>2. CASE j # n
    <3>1. j \in 1 .. Len(s) /\ i \in 1 .. Len(s)
      BY <1>2, <1>6, <2>2
    <3>2. q[i] = saving[v][i] /\ q[j] = saving[v][j]
      BY <1>2, <3>1
    <3> QED BY <1>6, <3>1, <3>2 DEF Ordered
  <2> QED BY <2>1, <2>2
<1>7. InOrder(q, v)
  <2> HIDE DEF n, s, f
  <2> QED BY <1>2, <1>5, <1>6 DEF InOrder
<1> QED BY <1>7 DEF q

\* A renderer that sends its state stays in order.
LEMMA OrderedSend ==
    ASSUME TypeOK, NEW v \in Windows, Ordered(v),
           NEW id \in RequestNumbers, id <= request[v],
           saving'[v] = Append(saving[v], [id |-> id, version |-> version[v]]),
           end'[v] = end[v], request'[v] = request[v],
           pending'[v] \in {pending[v], None}, asked'[v] \subseteq asked[v],
           due'[v] = due[v], replies'[v] = replies[v],
           version'[v] = version[v], stored'[v] = stored[v]
    PROVE  Ordered(v)'
<1>1. InOrder(saving'[v], v)
  BY SentInOrder
<1> QED BY <1>1 DEF Ordered, InOrder

\* The answer to the first flush on its way: what follows is not older.
LEMMA OrderedAnswered ==
    ASSUME TypeOK, NEW v \in Windows, Ordered(v), NEW taken \in BOOLEAN,
           Answered(v, taken),
           stored'[v] = IF taken THEN Head(saving[v]).version ELSE stored[v]
    PROVE  Ordered(v)'
<1> DEFINE s == saving[v]
           h == Head(saving[v])
           n == Len(Tail(saving[v]))
<1>1. s \in Seq(Flushes) /\ s # <<>>
  BY DEF TypeOK, Answered
<1>2. /\ saving'[v] = Tail(s) /\ n \in Nat
      /\ Len(s) \in Nat /\ Len(s) >= 1 /\ n = Len(s) - 1
      /\ h = s[1] /\ h \in Flushes
      /\ \A i \in 1 .. n : saving'[v][i] = s[i + 1]
  <2>1. saving'[v] = Tail(s)
    BY DEF Answered, TypeOK
  <2>2. /\ Len(s) \in Nat /\ Len(s) >= 1 /\ n = Len(s) - 1
        /\ h = s[1] /\ s[1] \in Flushes
        /\ \A i \in 1 .. n : Tail(s)[i] = s[i + 1]
    BY <1>1, RestOfFlushes
  <2> HIDE DEF s, h, n
  <2> QED BY <2>1, <2>2
<1>3. /\ end'[v] = end[v] /\ request'[v] = request[v] /\ pending'[v] = pending[v]
      /\ asked'[v] = asked[v] /\ due'[v] = due[v] /\ version'[v] = version[v]
  BY DEF Answered, barrierVars
<1>4. replies'[v] \subseteq
        replies[v] \cup (IF h.id = None THEN {} ELSE {[id |-> h.id, ok |-> taken]})
  <2>1. replies' = replies \/ (h.id # None /\ Reply(v, h.id, taken))
    BY DEF Answered
  <2> QED BY <2>1 DEF Reply, TypeOK
<1>5. /\ version[v] \in Nat /\ due[v] \in Nat /\ stored[v] \in Nat /\ request[v] \in Nat
      /\ h.id \in Nat /\ h.version \in Nat
  BY <1>2 DEF TypeOK, Versions, RequestNumbers, Flushes
<1>6. 1 \in 1 .. Len(saving[v])
  BY <1>2
<1>7. /\ h.id <= request[v] /\ stored[v] <= h.version /\ h.version <= version[v]
      /\ (h.id = request[v] /\ h.id # None) => h.version >= due[v]
  <2>1. h = saving[v][1]
    BY <1>2
  <2> HIDE DEF h
  <2> QED BY <1>6, <2>1 DEF Ordered
<1>8. stored[v] <= stored'[v] /\ stored'[v] <= version[v] /\ stored'[v] \in Nat
  BY <1>5, <1>7
<1>9. \A i \in 1 .. n : i + 1 \in 1 .. Len(saving[v]) /\ 1 <= i + 1
  BY <1>2
<1>10. \A i \in 1 .. n :
         /\ saving'[v][i].id <= request[v]
         /\ stored'[v] <= saving'[v][i].version
         /\ saving'[v][i].version <= version[v]
         /\ (saving'[v][i].id = request[v] /\ saving'[v][i].id # None)
              => saving'[v][i].version >= due[v]
  <2> SUFFICES ASSUME NEW i \in 1 .. n
               PROVE  /\ saving'[v][i].id <= request[v]
                      /\ stored'[v] <= saving'[v][i].version
                      /\ saving'[v][i].version <= version[v]
                      /\ (saving'[v][i].id = request[v] /\ saving'[v][i].id # None)
                           => saving'[v][i].version >= due[v]
    OBVIOUS
  <2>1. saving'[v][i] = saving[v][i + 1] /\ i + 1 \in 1 .. Len(saving[v])
    BY <1>2, <1>9
  <2>2. h.version <= saving[v][i + 1].version /\ stored[v] <= saving[v][i + 1].version
    <3>1. saving[v][1].version <= saving[v][i + 1].version
      BY <1>6, <1>9, <2>1 DEF Ordered
    <3> QED BY <1>2, <2>1, <3>1 DEF Ordered
  <2>3. stored'[v] <= saving[v][i + 1].version
    BY <2>2
  <2> HIDE DEF n, h, s
  <2> QED BY <2>1, <2>3 DEF Ordered
<1>11. \A i, j \in 1 .. n : i <= j => saving'[v][i].version <= saving'[v][j].version
  <2> SUFFICES ASSUME NEW i \in 1 .. n, NEW j \in 1 .. n, i <= j
               PROVE  saving'[v][i].version <= saving'[v][j].version
    OBVIOUS
  <2>1. saving'[v][i] = saving[v][i + 1] /\ saving'[v][j] = saving[v][j + 1]
    BY <1>2
  <2>2. i + 1 \in 1 .. Len(saving[v]) /\ j + 1 \in 1 .. Len(saving[v]) /\ i + 1 <= j + 1
    BY <1>9
  <2> HIDE DEF n, h, s
  <2> QED BY <2>1, <2>2 DEF Ordered
<1>12. \A r \in replies'[v] :
         /\ r.id >= 1 /\ r.id <= request[v]
         /\ (r.id = request[v] /\ r.ok) => stored'[v] >= due[v]
  <2> SUFFICES ASSUME NEW r \in replies'[v]
               PROVE  /\ r.id >= 1 /\ r.id <= request[v]
                      /\ (r.id = request[v] /\ r.ok) => stored'[v] >= due[v]
    OBVIOUS
  <2>1. CASE r \in replies[v]
    BY <1>5, <1>8, <2>1 DEF Ordered
  <2>2. CASE r \notin replies[v]
    <3>1. h.id # None /\ r.id = h.id /\ r.ok = taken
      <4> HIDE DEF h
      <4> QED BY <1>4, <2>2
    <3>2. h.id >= 1
      BY <1>5, <3>1 DEF None
    <3>3. r.ok => stored'[v] = h.version
      BY <3>1
    <3> HIDE DEF h
    <3> QED BY <1>7, <3>1, <3>2, <3>3
  <2> QED BY <2>1, <2>2
<1>13. end[v] = "flushed" => stored'[v] >= due[v]
  BY <1>5, <1>8 DEF Ordered
<1>14. Len(saving'[v]) = n
  BY <1>2
<1>15. version[v] >= stored'[v]
  BY <1>5, <1>8
<1> HIDE DEF s, h, n
<1> QED BY <1>3, <1>10, <1>11, <1>12, <1>13, <1>14, <1>15 DEF Ordered

\* A window that is asked to close owes what it has now; the answers and
\* flushes on their way are those of earlier requests.
LEMMA OrderedAsked ==
    ASSUME TypeOK, NEW v \in Windows, Ordered(v), end[v] = "open",
           end'[v] = end[v], request'[v] = request[v] + 1,
           pending'[v] = request[v] + 1,
           asked'[v] = asked[v] \cup {request[v] + 1},
           due'[v] = version[v], saving'[v] = saving[v],
           replies'[v] = replies[v],
           version'[v] = version[v], stored'[v] = stored[v]
    PROVE  Ordered(v)'
<1>1. request[v] \in Nat /\ version[v] \in Nat /\ stored[v] \in Nat
  BY DEF TypeOK, RequestNumbers, Versions
<1>2. \A i \in 1 .. Len(saving[v]) : saving[v][i].id \in Nat /\ saving[v][i].id <= request[v]
  <2> SUFFICES ASSUME NEW i \in 1 .. Len(saving[v])
               PROVE  saving[v][i].id \in Nat /\ saving[v][i].id <= request[v]
    OBVIOUS
  <2>1. saving[v] \in Seq(Flushes)
    BY DEF TypeOK
  <2>2. saving[v][i] \in Flushes
    BY <2>1, ElementOfSeq
  <2> QED BY <2>2 DEF Flushes, RequestNumbers, Ordered
<1>3. \A i \in 1 .. Len(saving[v]) : saving[v][i].id <= request[v] + 1 /\ saving[v][i].id # request[v] + 1
  BY <1>1, <1>2
<1>4. \A r \in replies[v] : r.id >= 1 /\ r.id <= request[v] + 1 /\ r.id # request[v] + 1
  <2> SUFFICES ASSUME NEW r \in replies[v]
               PROVE  r.id >= 1 /\ r.id <= request[v] + 1 /\ r.id # request[v] + 1
    OBVIOUS
  <2>1. r.id \in Nat /\ r.id >= 1 /\ r.id <= request[v]
    BY DEF TypeOK, Replies, RequestNumbers, Ordered
  <2> QED BY <1>1, <2>1
<1>5. \A id \in asked'[v] : id >= 1 /\ id <= request[v] + 1
  <2> SUFFICES ASSUME NEW id \in asked'[v] PROVE id >= 1 /\ id <= request[v] + 1
    OBVIOUS
  <2>1. CASE id \in asked[v]
    <3>1. id \in Nat /\ id >= 1 /\ id <= request[v]
      BY <2>1 DEF TypeOK, RequestNumbers, Ordered
    <3> QED BY <1>1, <3>1
  <2>2. CASE id = request[v] + 1
    BY <1>1, <2>2
  <2> QED BY <2>1, <2>2
<1> QED BY <1>1, <1>3, <1>4, <1>5 DEF Ordered

\* A window that goes owes nothing new; one that goes as flushed was
\* confirmed.
LEMMA OrderedGone ==
    ASSUME TypeOK, NEW v \in Windows, Ordered(v),
           end'[v] = "flushed" => stored[v] >= due[v],
           request'[v] = request[v], pending'[v] = None, asked'[v] = {},
           due'[v] = due[v], replies'[v] \subseteq replies[v],
           version'[v] = version[v], stored'[v] = stored[v],
           saving'[v] \in {saving[v],
                           Append(saving[v], [id |-> None, version |-> version[v]])}
    PROVE  Ordered(v)'
<1>1. CASE saving'[v] = saving[v]
  BY <1>1 DEF Ordered
<1>2. CASE saving'[v] # saving[v]
  <2>1. None \in RequestNumbers /\ None <= request[v]
    BY BoundsAssumption DEF TypeOK, None, RequestNumbers
  <2>2. InOrder(saving'[v], v)
    BY <1>2, <2>1, SentInOrder
  <2> QED BY <2>2 DEF Ordered, InOrder
<1> QED BY <1>1, <1>2

\* Which windows a step of the barrier touches, and how.
LEMMA OrderedBarrier ==
    ASSUME TypeOK, AllOrdered, NEW gone \in SUBSET Windows, NEW how \in Ends,
           NEW fresh \in SUBSET Open, gone \cap fresh = {},
           Barrier(gone, how, fresh),
           how = "flushed" => \A w \in gone : stored[w] >= due[w],
           version' = version, stored' = stored,
           \A w \in Windows : replies'[w] \subseteq replies[w],
           \A w \in fresh : replies'[w] = replies[w],
           \A w \in Windows \ gone : saving'[w] = saving[w],
           \A w \in gone :
             saving'[w] \in {saving[w],
                             Append(saving[w], [id |-> None, version |-> version[w]])}
    PROVE  AllOrdered'
<1> SUFFICES ASSUME NEW v \in Windows PROVE Ordered(v)'
  BY DEF AllOrdered
<1>1. Ordered(v)
  BY DEF AllOrdered
<1>2. CASE v \in gone
  <2>1. /\ end'[v] = how /\ request'[v] = request[v] /\ pending'[v] = None
        /\ asked'[v] = {} /\ due'[v] = due[v]
    <3>1. v \notin fresh
      BY <1>2
    <3> QED BY <1>2, <3>1 DEF Barrier
  <2>2. end'[v] = "flushed" => stored[v] >= due[v]
    BY <1>2, <2>1
  <2>3. /\ version'[v] = version[v] /\ stored'[v] = stored[v]
        /\ replies'[v] \subseteq replies[v]
        /\ saving'[v] \in {saving[v],
                           Append(saving[v], [id |-> None, version |-> version[v]])}
    BY <1>2
  <2> QED BY <1>1, <2>1, <2>2, <2>3, OrderedGone
<1>3. CASE v \in fresh
  <2>1. /\ end'[v] = end[v] /\ request'[v] = request[v] + 1
        /\ pending'[v] = request[v] + 1 /\ due'[v] = version[v]
        /\ asked'[v] = asked[v] \cup {request[v] + 1}
    <3>1. v \notin gone
      BY <1>3
    <3> QED BY <1>3, <3>1 DEF Barrier
  <2>2. end[v] = "open"
    BY <1>3 DEF Open
  <2>3. /\ version'[v] = version[v] /\ stored'[v] = stored[v]
        /\ replies'[v] = replies[v] /\ saving'[v] = saving[v]
    BY <1>3
  <2> QED BY <1>1, <2>1, <2>2, <2>3, OrderedAsked
<1>4. CASE v \notin gone /\ v \notin fresh
  <2>1. /\ end'[v] = end[v] /\ request'[v] = request[v] /\ pending'[v] = pending[v]
        /\ asked'[v] = asked[v] /\ due'[v] = due[v]
    BY <1>4 DEF Barrier
  <2>2. /\ version'[v] = version[v] /\ stored'[v] = stored[v]
        /\ replies'[v] \subseteq replies[v] /\ saving'[v] = saving[v]
    BY <1>4
  <2> QED BY <1>1, <2>1, <2>2, OrderedUnchanged
<1> QED BY <1>2, <1>3, <1>4

\* A close event of open windows keeps every renderer in order.
LEMMA OrderedCloseEvent ==
    ASSUME IInv, NEW ws \in SUBSET Open, CloseEvent(ws),
           version' = version, stored' = stored, replies' = replies
    PROVE  AllOrdered'
<1> DEFINE gone == ws \cap closing
           fresh == ws \ closing
<1>1. ws \in SUBSET Windows
  BY DEF Open
<1>2. gone \in SUBSET Windows /\ fresh \in SUBSET Open /\ gone \cap fresh = {} /\ "default" \in Ends
  BY <1>1 DEF Ends
<1>3. /\ Barrier(gone, "default", fresh)
      /\ \A w \in Windows :
           saving'[w] \in {saving[w],
                           Append(saving[w], [id |-> None, version |-> version[w]])}
  BY <1>1, CloseEventSends DEF IInv
<1>4. \A w \in Windows \ gone : saving'[w] = saving[w]
  BY DEF CloseEvent
<1>5. TypeOK /\ AllOrdered
  BY DEF IInv
<1>6. /\ "default" # "flushed"
      /\ \A w \in Windows : replies'[w] \subseteq replies[w]
      /\ \A w \in fresh : replies'[w] = replies[w]
      /\ \A w \in gone :
           saving'[w] \in {saving[w],
                           Append(saving[w], [id |-> None, version |-> version[w]])}
  BY <1>2, <1>3
<1> HIDE DEF gone, fresh
<1> QED BY <1>2, <1>3, <1>4, <1>5, <1>6, OrderedBarrier

\* Every step keeps every renderer in order.
LEMMA OrderedStep == IInv /\ [Next]_vars => AllOrdered'
<1> SUFFICES ASSUME IInv, [Next]_vars PROVE AllOrdered'
  OBVIOUS
<1>1. TypeOK /\ AllOrdered /\ BusyIsOpen /\ Open \subseteq Windows
  BY DEF IInv, Open
<1>2. ASSUME end' = end, request' = request, asked' = asked, due' = due,
             rendererVars' = rendererVars,
             \A v \in Windows : pending'[v] \in {pending[v], None}
      PROVE  AllOrdered'
  BY <1>1, <1>2, OrderedUnchanged DEF AllOrdered, rendererVars
<1>3. ASSUME NEW w \in Windows, UserCloses(w) PROVE AllOrdered'
  <2>1. {w} \in SUBSET Open /\ CloseEvent({w})
    BY <1>3 DEF UserCloses, Open
  <2> QED BY <1>3, <2>1, OrderedCloseEvent DEF UserCloses
<1>4. CASE AppQuit
  <2>1. CASE CloseEvent(Open)
    BY <1>4, <2>1, OrderedCloseEvent DEF AppQuit
  <2>2. CASE UNCHANGED <<barrierVars, saving>>
    BY <1>2, <1>4, <2>2 DEF AppQuit, barrierVars, rendererVars
  <2> QED BY <1>4, <2>1, <2>2 DEF AppQuit, CloseAllWindows
<1>5. CASE FinishCleanup
  BY <1>5, OrderedCloseEvent DEF FinishCleanup, QuitAgain, CloseAllWindows
<1>6. ASSUME NEW w \in Windows, Edit(w) PROVE AllOrdered'
  <2> SUFFICES ASSUME NEW v \in Windows PROVE Ordered(v)'
    BY DEF AllOrdered
  <2>1. Ordered(v)
    BY <1>1 DEF AllOrdered
  <2>2. /\ end' = end /\ request' = request /\ pending' = pending /\ asked' = asked
        /\ due' = due /\ saving' = saving /\ replies' = replies /\ stored' = stored
        /\ version' = [version EXCEPT ![w] = @ + 1] /\ w \in Hydrated
    BY <1>6 DEF Edit, barrierVars
  <2>3. CASE v # w
    <3>1. version'[v] = version[v]
      BY <1>1, <2>2, <2>3 DEF TypeOK
    <3> QED BY <2>1, <2>2, <3>1, OrderedUnchanged
  <2>4. CASE v = w
    <3>1. /\ version'[v] = version[v] + 1 /\ version[v] \in Nat /\ due[v] \in Nat /\ stored[v] \in Nat
          /\ version[v] >= due[v] /\ version[v] >= stored[v]
      BY <1>1, <2>1, <2>2, <2>4 DEF TypeOK, Versions, Ordered
    <3>2. version'[v] >= due[v] /\ version'[v] >= stored[v]
      BY <3>1
    <3>3. \A i \in 1 .. Len(saving[v]) : saving[v][i].version <= version'[v]
      <4> SUFFICES ASSUME NEW i \in 1 .. Len(saving[v])
                   PROVE  saving[v][i].version <= version'[v]
        OBVIOUS
      <4>1. saving[v] \in Seq(Flushes)
        BY <1>1 DEF TypeOK
      <4>2. saving[v][i] \in Flushes
        BY <4>1, ElementOfSeq
      <4>3. saving[v][i].version \in Nat /\ saving[v][i].version <= version[v]
        BY <2>1, <4>2 DEF Flushes, Versions, Ordered
      <4> QED BY <3>1, <4>3
    <3> QED BY <2>1, <2>2, <2>4, <3>2, <3>3 DEF Ordered
  <2> QED BY <2>3, <2>4
<1>7. ASSUME NEW w \in Windows, Autosave(w) PROVE AllOrdered'
  <2> SUFFICES ASSUME NEW v \in Windows PROVE Ordered(v)'
    BY DEF AllOrdered
  <2>1. Ordered(v)
    BY <1>1 DEF AllOrdered
  <2>2. /\ end' = end /\ request' = request /\ pending' = pending /\ asked' = asked
        /\ due' = due /\ replies' = replies /\ stored' = stored /\ version' = version
    BY <1>7 DEF Autosave, barrierVars
  <2>3. saving'[v] = IF v = w THEN Append(saving[v], [id |-> None, version |-> version[v]])
                     ELSE saving[v]
    BY <1>1, <1>7 DEF Autosave, Send, TypeOK
  <2>4. None \in RequestNumbers /\ None <= request[v]
    <3>1. request[v] \in RequestNumbers
      BY <1>1 DEF TypeOK
    <3> QED BY <3>1, BoundsAssumption DEF None, RequestNumbers
  <2>5. CASE v = w
    BY <1>1, <2>1, <2>2, <2>3, <2>4, <2>5, OrderedSend
  <2>6. CASE v # w
    BY <2>1, <2>2, <2>3, <2>6, OrderedUnchanged
  <2> QED BY <2>5, <2>6
<1>8. ASSUME NEW w \in Windows, BeginFlush(w) PROVE AllOrdered'
  <2> SUFFICES ASSUME NEW v \in Windows PROVE Ordered(v)'
    BY DEF AllOrdered
  <2>1. Ordered(v)
    BY <1>1 DEF AllOrdered
  <2>2. PICK id \in asked[w] :
          /\ asked' = [asked EXCEPT ![w] = @ \ {id}]
          /\ \/ w \in Hydrated /\ Send(w, id) /\ replies' = replies
             \/ w \notin Hydrated /\ Reply(w, id, TRUE) /\ saving' = saving
    BY <1>8 DEF BeginFlush
  <2>3. /\ end' = end /\ request' = request /\ pending' = pending /\ due' = due
        /\ stored' = stored /\ version' = version
    BY <1>8 DEF BeginFlush
  <2>4. asked'[v] \subseteq asked[v]
    BY <1>1, <2>2 DEF TypeOK
  <2>5. CASE v # w
    <3>1. saving'[v] = saving[v] /\ replies'[v] = replies[v]
      BY <1>1, <2>2, <2>5 DEF Send, Reply, TypeOK
    <3> QED BY <2>1, <2>3, <2>4, <3>1, OrderedUnchanged
  <2>6. CASE v = w /\ w \in Hydrated
    <3>1. /\ saving'[v] = Append(saving[v], [id |-> id, version |-> version[v]])
          /\ replies' = replies
      BY <1>1, <2>2, <2>6 DEF Send, TypeOK
    <3>2. id \in RequestNumbers /\ id <= request[v]
      BY <1>1, <2>1, <2>2, <2>6 DEF TypeOK, Ordered
    <3> QED BY <1>1, <2>1, <2>3, <2>4, <3>1, <3>2, OrderedSend
  <2>7. CASE v = w /\ w \notin Hydrated
    <3>1. saving' = saving /\ replies'[v] = replies[v] \cup {[id |-> id, ok |-> TRUE]}
      BY <1>1, <2>2, <2>7 DEF Reply, TypeOK
    <3>2. id >= 1 /\ id <= request[v]
      BY <2>1, <2>2, <2>7 DEF Ordered
    <3>3. stored[v] >= due[v]
      <4>1. /\ version[v] = 0 /\ due[v] \in Nat /\ stored[v] \in Nat /\ version[v] >= due[v]
        BY <1>1, <2>1, <2>7 DEF Ordered, TypeOK, Versions
      <4> QED BY <4>1
    <3>4. \A r \in replies'[v] : r \in replies[v] \/ r.id = id
      BY <3>1
    <3>5. \A r \in replies'[v] : /\ r.id >= 1 /\ r.id <= request[v]
                                 /\ (r.id = request[v] /\ r.ok) => stored[v] >= due[v]
      BY <2>1, <3>2, <3>3, <3>4 DEF Ordered
    <3> QED BY <2>1, <2>3, <2>4, <3>1, <3>5 DEF Ordered
  <2> QED BY <2>5, <2>6, <2>7
<1>9. ASSUME NEW w \in Windows, NEW taken \in BOOLEAN, Answered(w, taken),
             stored' = IF taken THEN [stored EXCEPT ![w] = Head(saving[w]).version] ELSE stored
      PROVE  AllOrdered'
  <2> SUFFICES ASSUME NEW v \in Windows PROVE Ordered(v)'
    BY DEF AllOrdered
  <2>1. Ordered(v)
    BY <1>1 DEF AllOrdered
  <2>2. CASE v = w
    <3>1. stored'[v] = IF taken THEN Head(saving[v]).version ELSE stored[v]
      BY <1>1, <1>9, <2>2 DEF TypeOK
    <3> QED BY <1>1, <1>9, <2>1, <2>2, <3>1, OrderedAnswered
  <2>3. CASE v # w
    <3>1. /\ end' = end /\ request' = request /\ pending' = pending /\ due' = due
          /\ asked' = asked /\ version' = version
      BY <1>9 DEF Answered, barrierVars
    <3>2. stored'[v] = stored[v] /\ saving'[v] = saving[v] /\ replies'[v] = replies[v]
      BY <1>1, <1>9, <2>3 DEF Answered, Reply, TypeOK
    <3> QED BY <2>1, <3>1, <3>2, OrderedUnchanged
  <2> QED BY <2>2, <2>3
<1>10. ASSUME NEW w \in Windows, SaveTaken(w) \/ SaveFails(w) PROVE AllOrdered'
  <2>1. CASE SaveTaken(w)
    <3>1. Answered(w, TRUE) /\ stored' = [stored EXCEPT ![w] = Head(saving[w]).version]
      BY <2>1 DEF SaveTaken
    <3> QED BY <1>9, <3>1
  <2>2. CASE SaveFails(w)
    <3>1. Answered(w, FALSE) /\ stored' = stored
      BY <2>2 DEF SaveFails
    <3> QED BY <1>9, <3>1
  <2> QED BY <1>10, <2>1, <2>2
<1>11. ASSUME NEW w \in Windows, NEW gone \in {{}, {w}}, NEW how \in Ends,
              NEW fresh \in SUBSET Open, gone \cap fresh = {}, Barrier(gone, how, fresh),
              how = "flushed" => \A g \in gone : stored[g] >= due[g],
              saving' = saving, version' = version, stored' = stored,
              \A v \in Windows : replies'[v] \subseteq replies[v],
              \A v \in fresh : replies'[v] = replies[v]
       PROVE  AllOrdered'
  <2>1. /\ gone \in SUBSET Windows
        /\ \A v \in Windows \ gone : saving'[v] = saving[v]
        /\ \A v \in gone :
             saving'[v] \in {saving[v],
                             Append(saving[v], [id |-> None, version |-> version[v]])}
    BY <1>11
  <2> QED BY <1>1, <1>11, <2>1, OrderedBarrier
<1>12. ASSUME NEW w \in Windows, CloseReady(w) PROVE AllOrdered'
  <2>1. PICK r \in replies[w] :
          /\ replies' = [replies EXCEPT ![w] = @ \ {r}]
          /\ \/ Answers(w, r) /\ r.ok /\ Barrier({w}, "flushed", {})
             \/ NotConfirmed(w)
             \/ UNCHANGED barrierVars
    BY <1>12 DEF CloseReady
  <2>2. saving' = saving /\ version' = version /\ stored' = stored
    BY <1>12 DEF CloseReady
  <2>3. \A v \in Windows : replies'[v] \subseteq replies[v]
    BY <1>1, <2>1 DEF TypeOK
  <2>4. CASE Answers(w, r) /\ r.ok /\ Barrier({w}, "flushed", {})
    <3>1. Ordered(w) /\ r \in Replies
      BY <1>1, <2>1 DEF AllOrdered, TypeOK
    <3>2. r.id >= 1 /\ pending[w] = r.id
      BY <2>4, <3>1 DEF Answers, Ordered
    <3>3. r.id = request[w]
      BY <3>1, <3>2 DEF Ordered, None, Replies, RequestNumbers
    <3>4. stored[w] >= due[w]
      BY <2>4, <3>1, <3>3 DEF Ordered
    <3>5. /\ {w} \in {{}, {w}} /\ "flushed" \in Ends /\ {} \in SUBSET Open
          /\ {w} \cap {} = {} /\ \A g \in {w} : stored[g] >= due[g]
          /\ \A v \in {} : replies'[v] = replies[v]
      BY <3>4 DEF Ends
    <3> QED BY <1>11, <2>2, <2>3, <2>4, <3>5
  <2>5. CASE NotConfirmed(w) \/ UNCHANGED barrierVars
    <3> SUFFICES ASSUME NEW v \in Windows PROVE Ordered(v)'
      BY DEF AllOrdered
    <3>1. Ordered(v)
      BY <1>1 DEF AllOrdered
    <3>2. /\ end' = end /\ request' = request /\ asked' = asked /\ due' = due
          /\ pending'[v] \in {pending[v], None}
      BY <1>1, <2>5 DEF NotConfirmed, AskUser, barrierVars, TypeOK
    <3> QED BY <2>2, <2>3, <3>1, <3>2, OrderedUnchanged
  <2> QED BY <2>1, <2>4, <2>5
<1>13. ASSUME NEW w \in Windows, FlushTimeout(w) PROVE AllOrdered'
  <2>1. /\ end' = end /\ request' = request /\ asked' = asked /\ due' = due
        /\ rendererVars' = rendererVars
        /\ pending' = [pending EXCEPT ![w] = None]
    BY <1>13 DEF FlushTimeout, NotConfirmed, AskUser
  <2>2. \A v \in Windows : pending'[v] \in {pending[v], None}
    BY <1>1, <2>1 DEF TypeOK
  <2> QED BY <1>2, <2>1, <2>2
<1>14. ASSUME NEW w \in Windows, RetrySave(w) PROVE AllOrdered'
  <2>1. /\ Barrier({}, "open", {w}) /\ w \in Open
        /\ saving' = saving /\ version' = version /\ stored' = stored /\ replies' = replies
    BY <1>1, <1>14 DEF RetrySave, BusyIsOpen, Open, rendererVars
  <2>2. /\ {} \in {{}, {w}} /\ "open" \in Ends /\ {w} \in SUBSET Open /\ {} \cap {w} = {}
        /\ "open" # "flushed"
        /\ \A v \in Windows : replies'[v] \subseteq replies[v]
        /\ \A v \in {w} : replies'[v] = replies[v]
    BY <2>1 DEF Ends
  <2> QED BY <1>11, <2>1, <2>2
<1>15. ASSUME NEW w \in Windows, CloseWithoutSaving(w) PROVE AllOrdered'
  <2>1. /\ Barrier({w}, "abandoned", {})
        /\ saving' = saving /\ version' = version /\ stored' = stored /\ replies' = replies
    BY <1>15 DEF CloseWithoutSaving, rendererVars
  <2>2. /\ {w} \in {{}, {w}} /\ "abandoned" \in Ends /\ {} \in SUBSET Open /\ {w} \cap {} = {}
        /\ "abandoned" # "flushed"
        /\ \A v \in Windows : replies'[v] \subseteq replies[v]
        /\ \A v \in {} : replies'[v] = replies[v]
    BY <2>1 DEF Ends
  <2> QED BY <1>11, <2>1, <2>2
<1>16. ASSUME NEW w \in Windows, CancelClose(w) PROVE AllOrdered'
  BY <1>2, <1>16 DEF CancelClose
<1>17. CASE PageWrites \/ CleanupStep \/ CleanupStepFails \/ UNCHANGED vars
  BY <1>2, <1>17 DEF PageWrites, CleanupStep, CleanupStepFails, vars, barrierVars, rendererVars
<1> QED BY <1>3, <1>4, <1>5, <1>6, <1>7, <1>8, <1>10, <1>12, <1>13, <1>14, <1>15, <1>16, <1>17
       DEF Next

-----------------------------------------------------------------------------
(* Types.                                                                   *)

\* A sum of bounded numbers is bounded by the sum of the bounds.
LEMMA SumBound ==
    ASSUME NEW a \in Nat, NEW b \in Nat, NEW c \in Nat, NEW d \in {0, 1},
           NEW A \in Nat, NEW B \in Nat, NEW C \in Nat,
           a <= A, b <= B, c <= C
    PROVE  a + b + c + d <= A + B + C + 1 /\ a + b + c + d \in Nat
OBVIOUS

\* A request that the budget pays for has a number in the range.
LEMMA RequestInRange ==
    ASSUME TypeOK, Counted', NEW w \in Windows, request'[w] \in Nat,
           closes' \in 0 .. MaxCloses, quits' \in 0 .. MaxQuits,
           retries' \in 0 .. MaxRetries
    PROVE  request'[w] \in RequestNumbers
<1>1. {MaxCloses, MaxQuits, MaxRetries} \subseteq Nat
  BY BoundsAssumption
<1>2. request'[w] <= Budget'
  BY DEF Counted
<1>3. /\ closes' \in Nat /\ quits' \in Nat /\ retries' \in Nat
      /\ closes' <= MaxCloses /\ quits' <= MaxQuits /\ retries' <= MaxRetries
      /\ MaxCloses \in Nat /\ MaxQuits \in Nat /\ MaxRetries \in Nat
  BY <1>1
<1>4. Budget' <= MaxCloses + MaxQuits + MaxRetries + 1 /\ Budget' \in Nat
  <2>1. (IF cleanup' = "done" THEN 1 ELSE 0) \in {0, 1}
    OBVIOUS
  <2> QED BY <1>3, <2>1, SumBound DEF Budget
<1> QED BY <1>3, <1>2, <1>4 DEF RequestNumbers

\* What the type invariant says of the close barrier and of the rest.
BarrierTypeOK ==
    /\ end \in [Windows -> Ends]
    /\ closing \in SUBSET Windows /\ dialog \in SUBSET Windows
    /\ request \in [Windows -> RequestNumbers]
    /\ pending \in [Windows -> RequestNumbers]
    /\ asked \in [Windows -> SUBSET RequestNumbers]
    /\ due \in [Windows -> Versions]

RendererTypeOK ==
    /\ saving \in [Windows -> Seq(Flushes)]
    /\ replies \in [Windows -> SUBSET Replies]
    /\ version \in [Windows -> Versions]
    /\ stored \in [Windows -> Versions]

QuitTypeOK ==
    /\ cleanup \in Phases
    /\ health \in {"booting", "clean-exit"}
    /\ siteData \in {"none", "some"}
    /\ cancelled \in BOOLEAN /\ running \in BOOLEAN

CounterTypeOK ==
    /\ closes \in 0 .. MaxCloses /\ quits \in 0 .. MaxQuits
    /\ retries \in 0 .. MaxRetries /\ faults \in 0 .. MaxFaults

\* The type invariant in four parts.
LEMMA TypeParts ==
    TypeOK <=> (BarrierTypeOK /\ RendererTypeOK /\ QuitTypeOK /\ CounterTypeOK)
BY DEF TypeOK, BarrierTypeOK, RendererTypeOK, QuitTypeOK, CounterTypeOK

\* The bounded counters stay within their bounds.
LEMMA CounterStep == TypeOK /\ [Next]_vars => CounterTypeOK'
<1> SUFFICES ASSUME TypeOK, [Next]_vars PROVE CounterTypeOK'
  OBVIOUS
<1>1. CounterTypeOK /\ {MaxCloses, MaxQuits, MaxRetries, MaxFaults} \subseteq Nat
  BY TypeParts, BoundsAssumption
<1>2. /\ closes' = closes \/ (closes < MaxCloses /\ closes' = closes + 1)
      /\ quits' = quits \/ (quits < MaxQuits /\ quits' = quits + 1)
      /\ retries' = retries \/ (retries < MaxRetries /\ retries' = retries + 1)
      /\ faults' = faults \/ (faults < MaxFaults /\ faults' = faults + 1)
  BY DEF Next, UserCloses, Edit, Autosave, BeginFlush, SaveTaken, SaveFails, Answered,
     CloseReady, FlushTimeout, RetrySave, CloseWithoutSaving, CancelClose, PageWrites,
     AppQuit, CleanupStep, CleanupStepFails, FinishCleanup, vars, counters
<1> QED BY <1>1, <1>2 DEF CounterTypeOK

\* The state of the quit barrier.
LEMMA QuitStep == TypeOK /\ [Next]_vars => QuitTypeOK'
<1> SUFFICES ASSUME TypeOK, [Next]_vars PROVE QuitTypeOK'
  OBVIOUS
<1>1. QuitTypeOK
  BY TypeParts
<1>2. /\ health' \in {health, "clean-exit"}
      /\ siteData' \in {siteData, "none", "some"}
      /\ cancelled' \in {cancelled, cancelled \/ QuitPasses}
  BY DEF Next, UserCloses, Edit, Autosave, BeginFlush, SaveTaken, SaveFails, Answered,
     CloseReady, FlushTimeout, RetrySave, CloseWithoutSaving, CancelClose, PageWrites,
     AppQuit, CleanupStep, CleanupStepFails, FinishCleanup, vars
<1>3. running' \in BOOLEAN
  BY <1>1 DEF QuitTypeOK, Next, UserCloses, Edit, Autosave, BeginFlush, SaveTaken, SaveFails,
     Answered, CloseReady, FlushTimeout, RetrySave, CloseWithoutSaving, CancelClose, PageWrites,
     AppQuit, CleanupStep, CleanupStepFails, FinishCleanup, CloseAllWindows, QuitAgain,
     QuitAfterLast, vars, quitVars
<1>4. cleanup' \in Phases
  <2>1. CASE CleanupStep
    BY <2>1 DEF CleanupStep, NextPhase, Phases
  <2>2. CASE CleanupStepFails
    BY <2>2 DEF CleanupStepFails, PhaseAfterFailure, Phases
  <2>3. CASE cleanup' \in {cleanup, "avidae", "done"}
    BY <1>1, <2>3 DEF QuitTypeOK, Phases
  <2>4. CleanupStep \/ CleanupStepFails \/ cleanup' \in {cleanup, "avidae", "done"}
    BY DEF Next, UserCloses, Edit, Autosave, BeginFlush, SaveTaken, SaveFails, Answered,
       CloseReady, FlushTimeout, RetrySave, CloseWithoutSaving, CancelClose, PageWrites,
       AppQuit, FinishCleanup, StartCleanup, QuitAfterLast, vars, quitVars
  <2> QED BY <2>1, <2>2, <2>3, <2>4
<1> QED BY <1>1, <1>2, <1>3, <1>4 DEF QuitTypeOK, QuitPasses

\* The state of the close barrier.
LEMMA BarrierStep == IInv /\ [Next]_vars => BarrierTypeOK'
<1> SUFFICES ASSUME IInv, [Next]_vars PROVE BarrierTypeOK'
  OBVIOUS
<1>1. TypeOK /\ BarrierTypeOK /\ BusyIsOpen /\ Counted' /\ CounterTypeOK'
  BY CountedStep, CounterStep, TypeParts DEF IInv
<1>2. None \in RequestNumbers
  BY BoundsAssumption DEF None, RequestNumbers
<1>3. ASSUME NEW gone \in SUBSET Windows, NEW how \in Ends,
             NEW fresh \in SUBSET Windows, Barrier(gone, how, fresh)
      PROVE  BarrierTypeOK'
  <2>1. ASSUME NEW w \in fresh PROVE request[w] + 1 \in RequestNumbers
    <3>1. request'[w] = request[w] + 1 /\ request[w] \in Nat
      BY <1>1, <1>3 DEF Barrier, TypeOK, RequestNumbers
    <3>2. request'[w] \in RequestNumbers
      BY <1>1, <3>1, RequestInRange DEF CounterTypeOK
    <3> QED BY <3>1, <3>2
  <2> QED BY <1>1, <1>3, <2>1, BarrierTypes DEF BarrierTypeOK
<1>4. ASSUME NEW ws \in SUBSET Windows, CloseEvent(ws) PROVE BarrierTypeOK'
  <2>1. /\ Barrier(ws \cap closing, "default", ws \ closing) /\ "default" \in Ends
        /\ ws \cap closing \in SUBSET Windows /\ ws \ closing \in SUBSET Windows
    BY <1>4 DEF CloseEvent, Ends
  <2> QED BY <1>3, <2>1
<1>5. ASSUME NEW w \in Windows, NotConfirmed(w) PROVE BarrierTypeOK'
  BY <1>1, <1>2, <1>5 DEF NotConfirmed, AskUser, BarrierTypeOK
<1>6. CASE UNCHANGED barrierVars
  BY <1>1, <1>6 DEF BarrierTypeOK, barrierVars
<1>7. ASSUME NEW w \in Windows, UserCloses(w) PROVE BarrierTypeOK'
  BY <1>4, <1>7 DEF UserCloses
<1>8. ASSUME NEW w \in Windows, CloseReady(w) PROVE BarrierTypeOK'
  <2>1. Barrier({w}, "flushed", {}) \/ NotConfirmed(w) \/ UNCHANGED barrierVars
    BY <1>8 DEF CloseReady
  <2>2. {w} \in SUBSET Windows /\ {} \in SUBSET Windows /\ "flushed" \in Ends
    BY DEF Ends
  <2> QED BY <1>3, <1>5, <1>6, <2>1, <2>2
<1>9. ASSUME NEW w \in Windows, RetrySave(w) PROVE BarrierTypeOK'
  <2>1. Barrier({}, "open", {w}) /\ {w} \in SUBSET Windows /\ {} \in SUBSET Windows /\ "open" \in Ends
    BY <1>9 DEF RetrySave, Ends
  <2> QED BY <1>3, <2>1
<1>10. ASSUME NEW w \in Windows, CloseWithoutSaving(w) PROVE BarrierTypeOK'
  <2>1. /\ Barrier({w}, "abandoned", {}) /\ {w} \in SUBSET Windows /\ {} \in SUBSET Windows
        /\ "abandoned" \in Ends
    BY <1>10 DEF CloseWithoutSaving, Ends
  <2> QED BY <1>3, <2>1
<1>11. CASE AppQuit \/ FinishCleanup
  <2>1. Open \in SUBSET Windows
    BY DEF Open
  <2>2. CloseEvent(Open) \/ UNCHANGED barrierVars
    BY <1>11 DEF AppQuit, FinishCleanup, QuitAgain, CloseAllWindows
  <2> QED BY <1>4, <1>6, <2>1, <2>2
<1>12. ASSUME NEW w \in Windows, BeginFlush(w) PROVE BarrierTypeOK'
  BY <1>1, <1>12 DEF BeginFlush, BarrierTypeOK
<1>13. ASSUME NEW w \in Windows, FlushTimeout(w) PROVE BarrierTypeOK'
  BY <1>5, <1>13 DEF FlushTimeout
<1>14. ASSUME NEW w \in Windows, CancelClose(w) PROVE BarrierTypeOK'
  BY <1>1, <1>14 DEF CancelClose, FlagReset, BarrierTypeOK
<1>15. ASSUME NEW w \in Windows, Edit(w) \/ Autosave(w) \/ SaveTaken(w) \/ SaveFails(w)
       PROVE  BarrierTypeOK'
  BY <1>6, <1>15 DEF Edit, Autosave, SaveTaken, SaveFails, Answered
<1>16. CASE PageWrites \/ CleanupStep \/ CleanupStepFails \/ UNCHANGED vars
  BY <1>6, <1>16 DEF PageWrites, CleanupStep, CleanupStepFails, vars
<1> QED BY <1>7, <1>8, <1>9, <1>10, <1>11, <1>12, <1>13, <1>14, <1>15, <1>16 DEF Next

\* The state of the renderers and what is on its way.
LEMMA RendererStep == TypeOK /\ [Next]_vars => RendererTypeOK'
<1> SUFFICES ASSUME TypeOK, [Next]_vars PROVE RendererTypeOK'
  OBVIOUS
<1>1. RendererTypeOK /\ MaxEdits \in Nat /\ None \in RequestNumbers
  BY TypeParts, BoundsAssumption DEF None, RequestNumbers
<1>2. CASE UNCHANGED rendererVars
  BY <1>1, <1>2 DEF RendererTypeOK, rendererVars
<1>3. ASSUME NEW ws \in SUBSET Windows, CloseEvent(ws),
             replies' = replies, version' = version, stored' = stored
      PROVE  RendererTypeOK'
  BY <1>1, <1>3, CloseEventSends DEF RendererTypeOK
<1>4. ASSUME NEW w \in Windows, NEW id \in RequestNumbers, Send(w, id)
      PROVE  saving' \in [Windows -> Seq(Flushes)]
  <2> DEFINE q == Append(saving[w], [id |-> id, version |-> version[w]])
  <2>1. saving[w] \in Seq(Flushes) /\ [id |-> id, version |-> version[w]] \in Flushes
    BY <1>1 DEF RendererTypeOK, Flushes
  <2>2. q \in Seq(Flushes)
    BY <2>1, SentLast
  <2>3. saving' = [saving EXCEPT ![w] = q]
    BY <1>4 DEF Send
  <2> HIDE DEF q
  <2> QED BY <1>1, <2>2, <2>3 DEF RendererTypeOK
<1>5. ASSUME NEW w \in Windows, NEW id \in RequestNumbers, NEW ok \in BOOLEAN, Reply(w, id, ok)
      PROVE  replies' \in [Windows -> SUBSET Replies]
  BY <1>1, <1>5 DEF Reply, RendererTypeOK, Replies
<1>6. ASSUME NEW w \in Windows, NEW taken \in BOOLEAN, Answered(w, taken)
      PROVE  /\ saving' \in [Windows -> Seq(Flushes)]
             /\ replies' \in [Windows -> SUBSET Replies]
             /\ version' \in [Windows -> Versions]
             /\ Head(saving[w]).version \in Versions
  <2>1. saving[w] \in Seq(Flushes) /\ saving[w] # <<>>
    BY <1>1, <1>6 DEF Answered, RendererTypeOK
  <2>2. Tail(saving[w]) \in Seq(Flushes) /\ Head(saving[w]) \in Flushes
    <3>1. Head(saving[w]) = saving[w][1] /\ saving[w][1] \in Flushes
      BY <2>1, RestOfFlushes
    <3>2. Tail(saving[w]) \in Seq(Flushes)
      BY <2>1, RestOfFlushes
    <3> QED BY <3>1, <3>2
  <2>3. saving' \in [Windows -> Seq(Flushes)]
    BY <1>1, <1>6, <2>2 DEF Answered, RendererTypeOK
  <2>4. Head(saving[w]).id \in RequestNumbers /\ Head(saving[w]).version \in Versions
    BY <2>2 DEF Flushes
  <2>5. replies' \in [Windows -> SUBSET Replies]
    <3>1. replies' = replies \/ Reply(w, Head(saving[w]).id, taken)
      BY <1>6 DEF Answered
    <3> QED BY <1>1, <1>5, <2>4, <3>1 DEF RendererTypeOK
  <2>6. version' \in [Windows -> Versions]
    BY <1>1, <1>6 DEF Answered, RendererTypeOK
  <2> QED BY <2>3, <2>4, <2>5, <2>6
<1>7. ASSUME NEW w \in Windows, UserCloses(w) PROVE RendererTypeOK'
  <2>1. {w} \in SUBSET Windows
    OBVIOUS
  <2> QED BY <1>3, <1>7, <2>1 DEF UserCloses
<1>8. CASE AppQuit \/ FinishCleanup
  <2>1. Open \in SUBSET Windows
    BY DEF Open
  <2>2. replies' = replies /\ version' = version /\ stored' = stored
    BY <1>8 DEF AppQuit, FinishCleanup
  <2>3. CloseEvent(Open) \/ saving' = saving
    BY <1>8 DEF AppQuit, FinishCleanup, QuitAgain, CloseAllWindows
  <2> QED BY <1>2, <1>3, <2>1, <2>2, <2>3 DEF rendererVars
<1>9. ASSUME NEW w \in Windows, Edit(w) PROVE RendererTypeOK'
  <2>1. version[w] + 1 \in Versions
    BY <1>1, <1>9 DEF Edit, RendererTypeOK, Versions
  <2> QED BY <1>1, <1>9, <2>1 DEF Edit, RendererTypeOK
<1>10. ASSUME NEW w \in Windows, Autosave(w) PROVE RendererTypeOK'
  BY <1>1, <1>4, <1>10 DEF Autosave, RendererTypeOK
<1>11. ASSUME NEW w \in Windows, BeginFlush(w) PROVE RendererTypeOK'
  <2>1. PICK id \in asked[w] :
          \/ Send(w, id) /\ replies' = replies
          \/ Reply(w, id, TRUE) /\ saving' = saving
    BY <1>11 DEF BeginFlush
  <2>2. id \in RequestNumbers
    BY <2>1 DEF TypeOK
  <2>3. version' = version /\ stored' = stored
    BY <1>11 DEF BeginFlush
  <2> QED BY <1>1, <1>4, <1>5, <2>1, <2>2, <2>3 DEF RendererTypeOK
<1>12. ASSUME NEW w \in Windows, SaveTaken(w) PROVE RendererTypeOK'
  <2>1. Answered(w, TRUE) /\ stored' = [stored EXCEPT ![w] = Head(saving[w]).version]
    BY <1>12 DEF SaveTaken
  <2>2. stored' \in [Windows -> Versions]
    BY <1>1, <1>6, <2>1 DEF RendererTypeOK
  <2> QED BY <1>6, <2>1, <2>2 DEF RendererTypeOK
<1>13. ASSUME NEW w \in Windows, SaveFails(w) PROVE RendererTypeOK'
  <2>1. Answered(w, FALSE) /\ stored' = stored
    BY <1>13 DEF SaveFails
  <2> QED BY <1>1, <1>6, <2>1 DEF RendererTypeOK
<1>14. ASSUME NEW w \in Windows, CloseReady(w) PROVE RendererTypeOK'
  BY <1>1, <1>14 DEF CloseReady, RendererTypeOK
<1>15. ASSUME NEW w \in Windows,
              FlushTimeout(w) \/ RetrySave(w) \/ CloseWithoutSaving(w) \/ CancelClose(w)
       PROVE  RendererTypeOK'
  BY <1>2, <1>15 DEF FlushTimeout, RetrySave, CloseWithoutSaving, CancelClose, rendererVars
<1>16. CASE PageWrites \/ CleanupStep \/ CleanupStepFails \/ UNCHANGED vars
  BY <1>2, <1>16 DEF PageWrites, CleanupStep, CleanupStepFails, vars
<1> QED BY <1>7, <1>8, <1>9, <1>10, <1>11, <1>12, <1>13, <1>14, <1>15, <1>16 DEF Next

-----------------------------------------------------------------------------
(* The theorems.                                                            *)

\* The invariant holds at the start.
LEMMA InitialInvariant == Init => IInv
<1> SUFFICES ASSUME Init PROVE IInv
  OBVIOUS
<1>1. \A w \in Windows : saving[w] = <<>>
  BY DEF Init
<1>2. <<>> \in Seq(Flushes) /\ Len(<<>>) = 0
  BY EmptySeq
<1>3. {MaxEdits, MaxCloses, MaxQuits, MaxRetries, MaxFaults} \subseteq Nat /\ Windows # {}
  BY BoundsAssumption
<1>4. TypeOK
  <2>1. saving \in [Windows -> Seq(Flushes)]
    BY <1>2 DEF Init
  <2>2. 0 \in RequestNumbers /\ 0 \in Versions /\ 0 \in 0 .. MaxCloses /\ 0 \in 0 .. MaxQuits
        /\ 0 \in 0 .. MaxRetries /\ 0 \in 0 .. MaxFaults
    BY <1>3 DEF RequestNumbers, Versions
  <2>3. BarrierTypeOK
    BY <2>2 DEF Init, BarrierTypeOK, Ends, None
  <2>4. RendererTypeOK
    BY <2>1, <2>2 DEF Init, RendererTypeOK
  <2>5. QuitTypeOK
    BY DEF Init, QuitTypeOK, Phases
  <2>6. CounterTypeOK
    BY <2>2 DEF Init, CounterTypeOK
  <2> QED BY <2>3, <2>4, <2>5, <2>6, TypeParts
<1>5. AllOrdered
  <2> SUFFICES ASSUME NEW w \in Windows PROVE Ordered(w)
    BY DEF AllOrdered
  <2>1. Len(saving[w]) = 0
    BY <1>1, <1>2
  <2>2. \A i \in 1 .. Len(saving[w]) : FALSE
    BY <2>1
  <2> QED BY <2>2 DEF Init, Ordered, None
<1>6. Counted
  BY DEF Init, Counted, Budget
<1>7. BusyIsOpen /\ Marked /\ ExitAfterCleanup
  BY DEF Init, BusyIsOpen, Marked, ExitAfterCleanup, None
<1>8. ClosingIsBusy
  <2>1. \A w \in Open : pending[w] = None /\ w \notin dialog
    BY DEF Init, Open
  <2>2. closing = {}
    BY DEF Init
  <2> QED BY <2>1, <2>2 DEF ClosingIsBusy
<1> QED BY <1>4, <1>5, <1>6, <1>7, <1>8 DEF IInv

\* Every step preserves the invariant.
LEMMA InvariantStep == IInv /\ [Next]_vars => IInv'
<1> SUFFICES ASSUME IInv, [Next]_vars PROVE IInv'
  OBVIOUS
<1>1. TypeOK
  BY DEF IInv
<1>2. BarrierTypeOK' /\ RendererTypeOK' /\ QuitTypeOK' /\ CounterTypeOK'
  BY <1>1, BarrierStep, RendererStep, QuitStep, CounterStep
<1>3. TypeOK'
  BY <1>2, TypeParts
     DEF TypeOK, BarrierTypeOK, RendererTypeOK, QuitTypeOK, CounterTypeOK
<1> QED BY <1>3, OrderedStep, CountedStep, BusyStep, ExitStep DEF IInv

\* The invariant holds throughout, for every set of windows and every bound.
THEOREM ShutdownInvariant == Spec => []IInv
BY InitialInvariant, InvariantStep, PTL DEF Spec

\* Type correctness of the two barriers: the requests never outgrow the events
\* that cause them.
THEOREM ShutdownTypeCorrect == Spec => []TypeOK
<1>1. IInv => TypeOK
  BY DEF IInv
<1> QED BY <1>1, ShutdownInvariant, PTL

\* WindowCloseCoordinator destroys a window after a confirmed flush only when
\* the store has the state of its last request.
THEOREM ConfirmedWindowIsStored == Spec => []FlushedStateKept
<1>1. IInv => FlushedStateKept
  BY DEF IInv, AllOrdered, Ordered, FlushedStateKept
<1> QED BY <1>1, ShutdownInvariant, PTL

\* The closing flag is set exactly while a flush is awaited or the user is
\* being asked.
THEOREM ClosingFlagIsReset == Spec => []ClosingIsBusy
<1>1. IInv => ClosingIsBusy
  BY DEF IInv
<1> QED BY <1>1, ShutdownInvariant, PTL

\* The process exits only without windows, after the whole cleanup and with
\* the clean-exit marker unless its write failed.
THEOREM ExitIsOrderly == Spec => []ExitAfterCleanup
<1>1. IInv => ExitAfterCleanup
  BY DEF IInv
<1> QED BY <1>1, ShutdownInvariant, PTL

\* Neither barrier is passed early.
THEOREM BarriersAreKept == Spec => []BarriersHold
BY ClosingFlagIsReset, ExitIsOrderly, PTL DEF BarriersHold

-----------------------------------------------------------------------------
(* The session: numbers and lists.                                          *)

\* A set of numbers that is not empty has a least one.
LEMMA LeastOf ==
  ASSUME NEW S \in SUBSET Nat, S # {}
  PROVE  Least(S) \in S /\ \A y \in S : Least(S) <= y
<1> DEFINE smaller == OpToRel(<, Nat)
<1>1. IsWellFoundedOn(smaller, Nat)
  BY NatLessThanWellFounded
<1>2. PICK x \in S : \A y \in S : ~(<<y, x>> \in smaller)
  <2> HIDE DEF smaller
  <2> QED BY <1>1, WFMin
<1>3. \A y \in S : x <= y
  <2> TAKE y \in S
  <2>1. x \in Nat /\ y \in Nat
    OBVIOUS
  <2>2. ~(y < x)
    BY <1>2, <2>1 DEF OpToRel
  <2> QED BY <2>1, <2>2
<1> QED BY <1>3 DEF Least

\* The entries of a list are some of its entries.
LEMMA OfList ==
  ASSUME NEW C, NEW list \in Seq(C), NEW W
  PROVE  Of(list, W) \in Seq(C) /\ Len(Of(list, W)) <= Len(list)
<1> DEFINE Step(g, n) == IF n = 0 THEN <<>>
                         ELSE IF list[n].space \in W THEN Append(g[n - 1], list[n]) ELSE g[n - 1]
           Goes(g, m) == g = [n \in 0 .. m |-> Step(g, n)]
           length == Len(list)
           bad    == {m \in Nat : ~ \E g : Goes(g, m)}
<1>0. length \in Nat /\ \A n \in 1 .. length : list[n] \in C
  OBVIOUS
<1>1. 0 \notin bad
  <2> DEFINE g == [n \in 0 .. 0 |-> <<>>]
  <2>1. Goes(g, 0)
    OBVIOUS
  <2> QED BY <2>1
<1>2. ASSUME NEW m \in Nat, m \notin bad PROVE m + 1 \notin bad
  <2>1. PICK g : Goes(g, m)
    BY <1>2
  <2> DEFINE next == IF list[m + 1].space \in W THEN Append(g[m], list[m + 1]) ELSE g[m]
             h == [n \in 0 .. m + 1 |-> IF n = m + 1 THEN next ELSE g[n]]
  <2>2. ASSUME NEW n \in 0 .. m + 1 PROVE h[n] = Step(h, n)
    <3>1. CASE n = m + 1
      BY <3>1
    <3>2. CASE n # m + 1
      <4>1. n \in 0 .. m /\ h[n] = g[n]
        BY <3>2
      <4>2. g[n] = Step(g, n)
        BY <2>1, <4>1
      <4>3. n # 0 => n - 1 \in 0 .. m + 1 /\ h[n - 1] = g[n - 1]
        BY <4>1
      <4> QED BY <4>1, <4>2, <4>3
    <3> QED BY <3>1, <3>2
  <2>3. Goes(h, m + 1)
    BY <2>2
  <2> QED BY <2>3
<1>3. bad = {}
  <2> SUFFICES ASSUME bad # {} PROVE FALSE
    OBVIOUS
  <2> DEFINE m == Least(bad)
  <2>1. bad \in SUBSET Nat
    OBVIOUS
  <2>2. m \in bad /\ \A y \in bad : m <= y
    <3> HIDE DEF bad
    <3> QED BY <2>1, LeastOf
  <2>3. m \in Nat /\ m # 0
    BY <1>1, <2>2
  <2>4. m - 1 \in Nat /\ (m - 1) + 1 = m /\ m - 1 \notin bad
    <3> HIDE DEF bad, m
    <3> QED BY <2>2, <2>3
  <2> HIDE DEF m, bad
  <2> QED BY <1>2, <2>2, <2>4
<1>4. PICK k : Goes(k, length)
  BY <1>0, <1>3
<1> DEFINE f == CHOOSE g : Goes(g, length)
<1>5. Goes(f, length)
  <2> HIDE DEF Step
  <2> QED BY <1>4
<1> DEFINE wrong == {n \in 0 .. length : ~(f[n] \in Seq(C) /\ Len(f[n]) <= n)}
<1>6. wrong = {}
  <2> HIDE DEF f
  <2> SUFFICES ASSUME wrong # {} PROVE FALSE
    OBVIOUS
  <2> DEFINE m == Least(wrong)
  <2>1. wrong \in SUBSET Nat
    BY <1>0
  <2>2. m \in wrong /\ \A y \in wrong : m <= y
    <3> HIDE DEF wrong
    <3> QED BY <2>1, LeastOf
  <2>3. m \in 0 .. length
    BY <2>2
  <2>4. f[m] = Step(f, m)
    <3> HIDE DEF m
    <3> QED BY <1>5, <2>3
  <2>5. m # 0
    <3>1. ASSUME m = 0 PROVE f[m] \in Seq(C) /\ Len(f[m]) <= m
      <4>1. f[m] = <<>>
        BY <2>4, <3>1
      <4> QED BY <3>1, <4>1
    <3>2. ~(f[m] \in Seq(C) /\ Len(f[m]) <= m)
      BY <2>2
    <3> HIDE DEF m
    <3> QED BY <3>1, <3>2
  <2>6. m - 1 \in 0 .. length /\ m - 1 \notin wrong
    <3> HIDE DEF m, wrong
    <3> QED BY <1>0, <2>2, <2>3, <2>5
  <2>7. f[m - 1] \in Seq(C) /\ Len(f[m - 1]) <= m - 1 /\ list[m] \in C
    BY <1>0, <2>3, <2>5, <2>6
  <2>8. f[m] = Append(f[m - 1], list[m]) \/ f[m] = f[m - 1]
    BY <2>4, <2>5
  <2>9. f[m] \in Seq(C) /\ Len(f[m]) <= m
    <3> HIDE DEF m, wrong, length
    <3>1. \A q \in Seq(C), e \in C : Append(q, e) \in Seq(C) /\ Len(Append(q, e)) = Len(q) + 1
      OBVIOUS
    <3>2. Len(f[m - 1]) \in Nat /\ m \in Nat
      BY <1>0, <2>3, <2>7
    <3>3. CASE f[m] = Append(f[m - 1], list[m])
      <4>1. f[m] \in Seq(C) /\ Len(f[m]) = Len(f[m - 1]) + 1
        BY <2>7, <3>1, <3>3
      <4> QED BY <2>7, <3>2, <4>1
    <3>4. CASE f[m] = f[m - 1]
      BY <2>7, <3>2, <3>4
    <3> QED BY <2>8, <3>3, <3>4
  <2> QED BY <2>2, <2>9
<1>7. Of(list, W) = f[length]
  BY DEF Of
<1> HIDE DEF f
<1> QED BY <1>0, <1>6, <1>7

-----------------------------------------------------------------------------
(* The session.                                                             *)

Names == {"spaces", "current", "tabs", "groups", "split", "closed", "snapshots",
          "nextTab", "nextSpace", "nextGroup"}

\* A snapshot that can be restored: its pages can be counted.
Shots == {c \in Snapshots : IsFiniteSet(c.pages)}

SpacesOK(s) ==
    /\ DOMAIN s.spaces # {} /\ s.nextSpace \in 1 .. MaxSpaces + 1
    /\ \A w \in DOMAIN s.spaces :
          /\ w \in SpaceIds
          /\ s.spaces[w] \in Spaces /\ s.spaces[w].active < s.nextTab

TabsOK(s) ==
    /\ s.nextTab \in 1 .. MaxTabs + 1
    /\ \A t \in DOMAIN s.tabs : t \in TabIds /\ t < s.nextTab /\ s.tabs[t] \in Tabs

GroupsOK(s) ==
    /\ s.nextGroup \in 1 .. MaxGroups + 1
    /\ \A g \in DOMAIN s.groups : g \in GroupIds /\ g < s.nextGroup /\ s.groups[g] \in SpaceIds

ListsOK(s) ==
    /\ s.closed \in Seq(Closed) /\ Len(s.closed) <= ClosedLimit
    /\ s.snapshots \in Seq(Shots) /\ Len(s.snapshots) <= SnapshotLimit

\* The state s is of its type, and whatever has an id got it before.
Formed(s) ==
    /\ DOMAIN s = Names /\ s.current \in SpaceIds /\ s.split \in Splits
    /\ SpacesOK(s) /\ TabsOK(s) /\ GroupsOK(s) /\ ListsOK(s)

\* GroupsAreLocal, ActiveTabsAreLocal and SplitPairValid of s.
LocalGroups(s) ==
    \A t \in DOMAIN s.tabs :
        s.tabs[t].group # Nil => s.tabs[t].group \in GroupsOf(s, s.tabs[t].space)

LocalActives(s) ==
    \A w \in DOMAIN s.spaces :
        s.spaces[w].active \in DOMAIN s.tabs => s.tabs[s.spaces[w].active].space = w

PairOK(s) ==
    s.split.on => /\ IsPair(s, s.current, s.split.primary, s.split.secondary)
                  /\ ActiveTab(s, s.current) \in Panes(s.split)

\* All but the split view, which a restart puts right last.
Bare(s)  == Formed(s) /\ LocalGroups(s) /\ LocalActives(s)
Whole(s) == Bare(s) /\ PairOK(s)

\* No workspace of s that shows a tab is blank in r.
Shown(s, r) ==
    \A w \in DOMAIN s.spaces \cap DOMAIN r.spaces :
        ActiveTab(s, w) # Nil => ActiveTab(r, w) # Nil

\* What a workspace names as its active tab is shown if it is there.
LEMMA Actives ==
  ASSUME NEW s, TabsOK(s), NEW w
  PROVE  /\ ActiveTab(s, w) # Nil <=> w \in DOMAIN s.spaces
                                      /\ s.spaces[w].active \in DOMAIN s.tabs
         /\ ActiveTab(s, w) # Nil => ActiveTab(s, w) = s.spaces[w].active
BY DEF ActiveTab, TabsOK, TabIds, Nil

\* Without a split view there is no pair to keep.
LEMMA NoPair ==
  ASSUME NEW s, s.split = NoSplit
  PROVE  PairOK(s) /\ NoSplit \in Splits
BY DEF PairOK, NoSplit, Splits

-----------------------------------------------------------------------------
(* Opening a tab.                                                           *)

\* A new tab's group, when it has one, is of its workspace.
LEMMA GroupOfNewTab ==
  ASSUME NEW s, Bare(s), NEW w
  PROVE  DefaultGroup(s, w) # Nil => DefaultGroup(s, w) \in GroupsOf(s, w)
<1>1. CASE ActiveTab(s, w) \in TabsOf(s, w) /\ s.tabs[ActiveTab(s, w)].group # Nil
  BY <1>1 DEF DefaultGroup, Bare, LocalGroups, TabsOf
<1>2. CASE ~(ActiveTab(s, w) \in TabsOf(s, w) /\ s.tabs[ActiveTab(s, w)].group # Nil)
  <2>1. GroupsOf(s, w) \in SUBSET Nat
    BY DEF GroupsOf, Bare, Formed, GroupsOK, GroupIds
  <2>2. GroupsOf(s, w) # {} => Least(GroupsOf(s, w)) \in GroupsOf(s, w)
    BY <2>1, LeastOf
  <2> QED BY <1>2, <2>2 DEF DefaultGroup
<1> QED BY <1>1, <1>2

\* What opening a tab changes, part by part.
LEMMA WithTabFields ==
  ASSUME NEW s, DOMAIN s = Names, NEW w, NEW identity, NEW group, NEW page, NEW activate
  PROVE  LET r == WithTab(s, w, identity, group, page, activate)
         IN  /\ DOMAIN r = Names
             /\ r.current = s.current /\ r.groups = s.groups /\ r.nextGroup = s.nextGroup
             /\ r.nextSpace = s.nextSpace /\ r.closed = s.closed /\ r.snapshots = s.snapshots
             /\ r.nextTab = s.nextTab + 1
             /\ r.tabs = Put(s.tabs, s.nextTab,
                             [space |-> w, identity |-> identity, page |-> page,
                              group |-> IF group # Nil THEN group ELSE DefaultGroup(s, w)])
             /\ r.split = IF activate THEN SplitAfter(s, s.nextTab, w) ELSE s.split
             /\ r.spaces = IF activate THEN WithActive(s, w, s.nextTab) ELSE s.spaces
BY DEF WithTab, Names

\* What WithActive makes of the workspaces.
LEMMA WithActiveIs ==
  ASSUME NEW s, SpacesOK(s), NEW w, NEW t
  PROVE  /\ DOMAIN WithActive(s, w, t) = DOMAIN s.spaces
         /\ \A v \in DOMAIN s.spaces :
              WithActive(s, w, t)[v] =
                IF v = w THEN [private |-> s.spaces[v].private, active |-> t]
                ELSE s.spaces[v]
BY DEF WithActive, SpacesOK, Spaces

\* What opening a tab in workspace w makes of s.
Opened(s, r, w, activate) ==
    /\ Whole(r) /\ Shown(s, r) /\ r.current = s.current
    /\ DOMAIN r.spaces = DOMAIN s.spaces /\ DOMAIN r.tabs = DOMAIN s.tabs \cup {s.nextTab}
    /\ \A t \in DOMAIN s.tabs : r.tabs[t] = s.tabs[t]
    /\ activate /\ w \in DOMAIN s.spaces => ActiveTab(r, w) = s.nextTab
    /\ \A v \in DOMAIN s.spaces \ {w} : r.spaces[v] = s.spaces[v]

\* A new tab is filed in its workspace; if it is activated, the workspace shows it and
\* the split view, if it stays, has it as a pane.
LEMMA WithTabKeeps ==
  ASSUME NEW s, Whole(s), s.nextTab \in TabIds, NEW w \in SpaceIds,
         NEW identity \in SpaceIds \cup {Nil}, NEW group \in GroupIds \cup {Nil},
         group # Nil => group \in GroupsOf(s, w), NEW page \in Pages, NEW activate \in BOOLEAN
  PROVE  Opened(s, WithTab(s, w, identity, group, page, activate), w, activate)
<1> DEFINE r   == WithTab(s, w, identity, group, page, activate)
           id  == s.nextTab
           tab == [space |-> w, identity |-> identity, page |-> page,
                   group |-> IF group # Nil THEN group ELSE DefaultGroup(s, w)]
<1>s. /\ SpacesOK(s) /\ TabsOK(s) /\ GroupsOK(s) /\ ListsOK(s) /\ DOMAIN s = Names
      /\ LocalGroups(s) /\ LocalActives(s) /\ PairOK(s) /\ s.current \in SpaceIds
      /\ s.split \in Splits
  BY DEF Whole, Bare, Formed
<1>f. /\ DOMAIN r = Names
      /\ r.current = s.current /\ r.groups = s.groups /\ r.nextGroup = s.nextGroup
      /\ r.nextSpace = s.nextSpace /\ r.closed = s.closed /\ r.snapshots = s.snapshots
      /\ r.nextTab = id + 1 /\ r.tabs = Put(s.tabs, id, tab)
      /\ r.split = IF activate THEN SplitAfter(s, id, w) ELSE s.split
      /\ r.spaces = IF activate THEN WithActive(s, w, id) ELSE s.spaces
  BY <1>s, WithTabFields
<1>g. tab \in Tabs /\ tab.space = w /\ (tab.group # Nil => tab.group \in GroupsOf(s, w))
  <2>1. DefaultGroup(s, w) # Nil => DefaultGroup(s, w) \in GroupsOf(s, w)
    BY GroupOfNewTab DEF Whole
  <2>2. GroupsOf(s, w) \subseteq GroupIds
    BY <1>s DEF GroupsOf, GroupsOK
  <2> QED BY <2>1, <2>2 DEF Tabs
<1>a. id \notin DOMAIN s.tabs /\ id \in Nat /\ MaxTabs \in Nat
  BY <1>s, SessionAssumption DEF TabsOK, TabIds
<1> HIDE DEF r, tab
<1>t. /\ DOMAIN r.tabs = DOMAIN s.tabs \cup {id} /\ r.tabs[id] = tab
      /\ \A t \in DOMAIN s.tabs : r.tabs[t] = s.tabs[t]
  BY <1>f, <1>a DEF Put
<1>w. /\ DOMAIN r.spaces = DOMAIN s.spaces
      /\ \A v \in DOMAIN s.spaces :
           r.spaces[v] = IF activate /\ v = w
                         THEN [private |-> s.spaces[v].private, active |-> id] ELSE s.spaces[v]
  BY <1>f, <1>s, WithActiveIs
<1>1. TabsOK(r)
  BY <1>s, <1>f, <1>a, <1>g, <1>t DEF TabsOK, TabIds
<1>2. SpacesOK(r)
  <2>1. ASSUME NEW v \in DOMAIN s.spaces
        PROVE  r.spaces[v] \in Spaces /\ r.spaces[v].active < r.nextTab
    <3>1. /\ s.spaces[v].private \in BOOLEAN /\ s.spaces[v].active \in TabIds \cup {Nil}
          /\ s.spaces[v].active \in Nat /\ s.spaces[v].active < id /\ s.spaces[v] \in Spaces
      BY <1>s, <1>a DEF SpacesOK, Spaces, TabIds, Nil
    <3>2. CASE activate /\ v = w
      <4>1. r.spaces[v] = [private |-> s.spaces[v].private, active |-> id]
        BY <3>2, <1>w
      <4> QED BY <4>1, <3>1, <1>f, <1>a DEF Spaces
    <3>3. CASE ~(activate /\ v = w)
      <4>1. r.spaces[v] = s.spaces[v]
        BY <3>3, <1>w
      <4> QED BY <4>1, <3>1, <1>f, <1>a
    <3> QED BY <3>2, <3>3
  <2> QED BY <1>s, <1>f, <1>w, <2>1 DEF SpacesOK
<1>3. GroupsOK(r) /\ ListsOK(r)
  BY <1>s, <1>f DEF GroupsOK, ListsOK
<1>4. \A v : TabsOf(r, v) = TabsOf(s, v) \cup (IF v = w THEN {id} ELSE {})
  BY <1>t, <1>g DEF TabsOf
<1>5. LocalGroups(r)
  <2>1. \A v : GroupsOf(r, v) = GroupsOf(s, v)
    BY <1>f DEF GroupsOf
  <2> QED BY <1>s, <1>t, <1>g, <2>1 DEF LocalGroups
<1>6. LocalActives(r)
  <2>1. ASSUME NEW v \in DOMAIN s.spaces, r.spaces[v].active \in DOMAIN r.tabs
        PROVE  r.tabs[r.spaces[v].active].space = v
    <3>1. CASE activate /\ v = w
      <4>1. r.spaces[v] = [private |-> s.spaces[v].private, active |-> id]
        BY <3>1, <1>w
      <4>2. r.spaces[v].active = id
        BY <4>1
      <4> QED BY <4>2, <3>1, <1>t, <1>g
    <3>2. CASE ~(activate /\ v = w)
      <4>0. s.spaces[v].active \in Nat /\ s.spaces[v].active < id
        BY <1>s, <1>a DEF SpacesOK, Spaces, TabIds, Nil
      <4>1. r.spaces[v] = s.spaces[v]
        BY <3>2, <1>w
      <4>2. s.spaces[v].active # id
        BY <4>0, <1>a
      <4> QED BY <4>1, <4>2, <2>1, <1>t, <1>s DEF LocalActives
    <3> QED BY <3>1, <3>2
  <2> QED BY <2>1, <1>w DEF LocalActives
<1>7. /\ Shown(s, r)
      /\ activate /\ w \in DOMAIN s.spaces => ActiveTab(r, w) = id
  <2>1. ASSUME NEW v \in DOMAIN s.spaces, activate, v = w PROVE ActiveTab(r, v) = id /\ id # Nil
    <3>1. r.spaces[v] = [private |-> s.spaces[v].private, active |-> id]
      BY <2>1, <1>w
    <3>2. r.spaces[v].active = id /\ v \in DOMAIN r.spaces
      BY <3>1, <1>w
    <3> QED BY <3>2, <1>t DEF ActiveTab, TabIds, Nil
  <2>2. ASSUME NEW v \in DOMAIN s.spaces, ~(activate /\ v = w), ActiveTab(s, v) # Nil
        PROVE  ActiveTab(r, v) # Nil
    <3>1. r.spaces[v] = s.spaces[v]
      BY <2>2, <1>w
    <3> QED BY <3>1, <2>2, <1>t, <1>1, <1>s, <1>w, Actives
  <2> QED BY <2>1, <2>2 DEF Shown
<1>8. PairOK(r) /\ r.split \in Splits
  <2>1. CASE ~activate
    <3>1. r.split = s.split /\ r.spaces = s.spaces /\ r.current = s.current
      BY <2>1, <1>f
    <3>2. s.split.on => ActiveTab(r, s.current) = ActiveTab(s, s.current)
      <4>1. s.split.on => ActiveTab(s, s.current) # Nil
        BY <1>s DEF PairOK, IsPair, TabsOf, TabsOK, TabIds, Panes, Nil
      <4> QED BY <4>1, <3>1, <1>t DEF ActiveTab
    <3> QED BY <1>s, <3>1, <3>2, <1>4 DEF PairOK, IsPair
  <2>2. CASE activate /\ ~s.split.on
    BY <2>2, <1>f, <1>s DEF SplitAfter, PairOK
  <2>3. CASE activate /\ s.split.on /\ ~(Panes(s.split) \subseteq TabsOf(s, w))
    <3>1. r.split = NoSplit
      BY <2>3, <1>f DEF SplitAfter
    <3> QED BY <3>1, NoPair
  <2>4. CASE activate /\ s.split.on /\ Panes(s.split) \subseteq TabsOf(s, w)
    <3>1. /\ s.split.primary \in TabsOf(s, w) /\ s.split.secondary \in TabsOf(s, w)
          /\ s.split.primary # s.split.secondary /\ w = s.current
          /\ ActiveTab(s, w) \in Panes(s.split)
      BY <2>4, <1>s DEF PairOK, IsPair, Panes, TabsOf
    <3>2. id \notin Panes(s.split) /\ w \in DOMAIN s.spaces
      <4>1. ActiveTab(s, w) # Nil
        BY <3>1, <1>s DEF TabsOf, TabsOK, TabIds, Panes, Nil
      <4> QED BY <3>1, <1>a, <4>1 DEF TabsOf, Panes, ActiveTab
    <3>3. \/ r.split = [on |-> TRUE, primary |-> s.split.primary, secondary |-> id]
          \/ r.split = [on |-> TRUE, primary |-> id, secondary |-> s.split.secondary]
      BY <2>4, <3>2, <1>f, <1>s DEF SplitAfter, Splits
    <3>4. id \in TabIds /\ r.split \in Splits
      <4>1. s.split.primary \in TabIds \cup {Nil} /\ s.split.secondary \in TabIds \cup {Nil}
        BY <1>s DEF Splits
      <4>2. id \in TabIds
        OBVIOUS
      <4>3. \A p, q \in TabIds \cup {Nil} : [on |-> TRUE, primary |-> p, secondary |-> q] \in Splits
        BY DEF Splits
      <4> QED BY <4>1, <4>2, <4>3, <3>3
    <3>5. ActiveTab(r, w) = id
      BY <1>7, <2>4, <3>2
    <3>6. Panes(r.split) = {id, s.split.primary} \/ Panes(r.split) = {id, s.split.secondary}
      BY <3>3 DEF Panes
    <3>7. IsPair(r, w, r.split.primary, r.split.secondary)
      BY <3>1, <3>2, <3>3, <1>4 DEF IsPair, Panes
    <3> QED BY <3>1, <3>4, <3>5, <3>6, <3>7, <1>f DEF PairOK
  <2> QED BY <2>1, <2>2, <2>3, <2>4
<1>9. Whole(r)
  BY <1>s, <1>f, <1>1, <1>2, <1>3, <1>5, <1>6, <1>8 DEF Whole, Bare, Formed
<1>10. \A v \in DOMAIN s.spaces \ {w} : r.spaces[v] = s.spaces[v]
  BY <1>w
<1> QED BY <1>7, <1>9, <1>10, <1>f, <1>t, <1>w DEF Opened, r

\* So it is for a tab without group or identity that is activated.
LEMMA PlainTabKeeps ==
  ASSUME NEW s, Whole(s), s.nextTab \in TabIds, NEW w \in SpaceIds, NEW page \in Pages
  PROVE  Opened(s, PlainTab(s, w, page), w, TRUE)
<1>1. /\ Nil \in SpaceIds \cup {Nil} /\ Nil \in GroupIds \cup {Nil} /\ TRUE \in BOOLEAN
      /\ (Nil # Nil => Nil \in GroupsOf(s, w))
  OBVIOUS
<1>2. Opened(s, WithTab(s, w, Nil, Nil, page, TRUE), w, TRUE)
  BY <1>1, WithTabKeeps
<1> QED BY <1>2 DEF PlainTab

-----------------------------------------------------------------------------
(* The other operations.                                                    *)

\* The tabs, workspaces and groups of r are those of s.
Places(s, r) ==
    /\ DOMAIN r = Names
    /\ r.spaces = s.spaces /\ r.tabs = s.tabs /\ r.groups = s.groups
    /\ r.nextTab = s.nextTab /\ r.nextSpace = s.nextSpace /\ r.nextGroup = s.nextGroup

\* A step that leaves tabs, workspaces and groups alone leaves what refers to them.
LEMMA PlacesKeep ==
  ASSUME NEW s, NEW r, Bare(s), Places(s, r), ListsOK(r), r.current \in SpaceIds,
         r.split \in Splits
  PROVE  /\ Bare(r) /\ Shown(s, r)
         /\ \A w : TabsOf(r, w) = TabsOf(s, w) /\ ActiveTab(r, w) = ActiveTab(s, w)
<1>1. SpacesOK(r) /\ TabsOK(r) /\ GroupsOK(r)
  BY DEF Bare, Formed, Places, SpacesOK, TabsOK, GroupsOK
<1>2. \A w : TabsOf(r, w) = TabsOf(s, w) /\ ActiveTab(r, w) = ActiveTab(s, w)
             /\ GroupsOf(r, w) = GroupsOf(s, w)
  BY DEF Places, TabsOf, ActiveTab, GroupsOf
<1>3. LocalGroups(r) /\ LocalActives(r)
  BY <1>2 DEF Bare, LocalGroups, LocalActives, Places
<1> QED BY <1>1, <1>2, <1>3 DEF Bare, Formed, Places, Shown

\* With the same view it is whole again, and so it is without a split view.
LEMMA ListsMayChange ==
  ASSUME NEW s, NEW r, Whole(s), Places(s, r), ListsOK(r), r.current = s.current,
         r.split = s.split
  PROVE  Whole(r) /\ Shown(s, r)
<1>1. r.current \in SpaceIds /\ r.split \in Splits
  BY DEF Whole, Bare, Formed
<1>2. Bare(r) /\ Shown(s, r)
      /\ \A w : TabsOf(r, w) = TabsOf(s, w) /\ ActiveTab(r, w) = ActiveTab(s, w)
  BY <1>1, PlacesKeep DEF Whole
<1>3. PairOK(r)
  BY <1>2 DEF Whole, PairOK, IsPair
<1> QED BY <1>2, <1>3 DEF Whole

\* Without a split view it does not matter which workspace is on screen.
LEMMA SplitMayEnd ==
  ASSUME NEW s, NEW r, Bare(s), Places(s, r), ListsOK(r), r.current \in SpaceIds,
         r.split = NoSplit
  PROVE  Whole(r) /\ Shown(s, r) /\ \A w : ActiveTab(r, w) = ActiveTab(s, w)
BY PlacesKeep, NoPair DEF Whole

\* The lists keep their limits.
LEMMA RememberKeeps ==
  ASSUME NEW C, NEW list \in Seq(C), NEW entry \in C, NEW limit \in Nat \ {0}, Len(list) <= limit
  PROVE  Remember(list, entry, limit) \in Seq(C) /\ Len(Remember(list, entry, limit)) <= limit
<1> DEFINE all == <<entry>> \o list
           n   == IF Len(list) + 1 <= limit THEN Len(list) + 1 ELSE limit
<1>1. all \in Seq(C) /\ Len(all) = Len(list) + 1 /\ Len(list) \in Nat
  OBVIOUS
<1>2. n \in Nat /\ n <= Len(all) /\ n <= limit
  BY <1>1
<1>3. Remember(list, entry, limit) = SubSeq(all, 1, n)
  BY DEF Remember
<1> HIDE DEF all, n
<1>4. \A m \in 1 .. n : all[m] \in C
  BY <1>1, <1>2
<1>5. SubSeq(all, 1, n) = [m \in 1 .. n |-> all[m]]
  BY <1>1, <1>2
<1> QED BY <1>2, <1>3, <1>4, <1>5

\* The pages of some tabs can be counted.
LEMMA PagesOf ==
  ASSUME NEW s, TabsOK(s), NEW w
  PROVE  LET pages == {s.tabs[t].page : t \in TabsOf(s, w)}
         IN  pages \in SUBSET Pages /\ IsFiniteSet(pages)
<1> DEFINE pages == {s.tabs[t].page : t \in TabsOf(s, w)}
           f     == [t \in TabsOf(s, w) |-> s.tabs[t].page]
<1>1. TabsOf(s, w) \in SUBSET TabIds
  BY DEF TabsOf, TabsOK
<1>2. IsFiniteSet(TabIds)
  BY SessionAssumption, FS_Interval DEF TabIds
<1>3. IsFiniteSet(TabsOf(s, w))
  BY <1>1, <1>2, FS_Subset
<1>4. f \in Surjection(TabsOf(s, w), pages)
  BY DEF Surjection
<1>5. IsFiniteSet(pages)
  BY <1>3, <1>4, FS_Surjection
<1> QED BY <1>5 DEF TabsOf, TabsOK, Tabs

\* A capture is of what is there, and the timeline keeps its limit.
LEMMA CapturedKeeps ==
  ASSUME NEW s, TabsOK(s), SpacesOK(s), ListsOK(s), NEW w, NEW list \in Captures(s, w)
  PROVE  list \in Seq(Shots) /\ Len(list) <= SnapshotLimit
<1> DEFINE pages == {s.tabs[t].page : t \in TabsOf(s, w)}
           shot  == [space |-> IF w \in DOMAIN s.spaces THEN w ELSE Nil, pages |-> pages]
<1>1. pages \in SUBSET Pages /\ IsFiniteSet(pages)
  BY PagesOf
<1>2. \/ list = s.snapshots
      \/ list = Remember(s.snapshots, shot, SnapshotLimit) /\ pages # {}
  BY DEF Captures
<1>3. pages # {} => shot \in Shots
  <2>1. shot.space \in SpaceIds \cup {Nil} /\ shot.pages = pages
    BY DEF SpacesOK
  <2> HIDE DEF pages
  <2> QED BY <1>1, <2>1 DEF Shots, Snapshots
<1> HIDE DEF shot
<1> QED BY <1>2, <1>3, RememberKeeps, SessionAssumption DEF ListsOK

-----------------------------------------------------------------------------
(* Activating and closing.                                                  *)

\* An activated tab is shown, and takes the place of the pane with the focus.
LEMMA ActivatedKeeps ==
  ASSUME NEW s, Whole(s), NEW t \in DOMAIN s.tabs
  PROVE  Whole(Activated(s, t)) /\ Shown(s, Activated(s, t))
<1> DEFINE r == Activated(s, t)
           w == s.tabs[t].space
<1>s. /\ SpacesOK(s) /\ TabsOK(s) /\ GroupsOK(s) /\ ListsOK(s) /\ DOMAIN s = Names
      /\ LocalGroups(s) /\ LocalActives(s) /\ PairOK(s) /\ s.current \in SpaceIds
      /\ s.split \in Splits
  BY DEF Whole, Bare, Formed
<1>f. /\ DOMAIN r = Names /\ r.current = w /\ r.split = SplitAfter(s, t, w)
      /\ r.spaces = WithActive(s, w, t) /\ r.tabs = s.tabs /\ r.groups = s.groups
      /\ r.nextTab = s.nextTab /\ r.nextSpace = s.nextSpace /\ r.nextGroup = s.nextGroup
      /\ r.closed = s.closed /\ r.snapshots = s.snapshots
  BY <1>s DEF Activated, Names
<1>a. w \in SpaceIds /\ t \in TabIds /\ t < s.nextTab /\ t # Nil /\ MaxTabs \in Nat
  BY <1>s, SessionAssumption DEF TabsOK, Tabs, TabIds, Nil
<1> HIDE DEF r
<1>w. /\ DOMAIN r.spaces = DOMAIN s.spaces
      /\ \A v \in DOMAIN s.spaces :
           r.spaces[v] = IF v = w THEN [private |-> s.spaces[v].private, active |-> t]
                         ELSE s.spaces[v]
  BY <1>f, <1>s, WithActiveIs
<1>1. /\ w \in DOMAIN s.spaces => r.spaces[w] = [private |-> s.spaces[w].private, active |-> t]
      /\ \A v \in DOMAIN s.spaces \ {w} : r.spaces[v] = s.spaces[v]
  BY <1>w
<1>2. TabsOK(r) /\ GroupsOK(r) /\ ListsOK(r)
  BY <1>s, <1>f DEF TabsOK, GroupsOK, ListsOK
<1>3. SpacesOK(r)
  <2>1. ASSUME w \in DOMAIN s.spaces PROVE r.spaces[w] \in Spaces /\ r.spaces[w].active < r.nextTab
    <3>1. s.spaces[w].private \in BOOLEAN
      BY <2>1, <1>s DEF SpacesOK, Spaces
    <3> QED BY <2>1, <1>1, <1>a, <1>f, <3>1 DEF Spaces
  <2> QED BY <2>1, <1>1, <1>s, <1>f, <1>w DEF SpacesOK
<1>4. LocalGroups(r)
  BY <1>s, <1>f DEF LocalGroups, GroupsOf
<1>5. LocalActives(r)
  <2>1. w \in DOMAIN s.spaces => r.spaces[w].active = t
    BY <1>1
  <2> QED BY <2>1, <1>1, <1>s, <1>f, <1>w DEF LocalActives
<1>6. w \in DOMAIN s.spaces => ActiveTab(r, w) = t
  <2>1. w \in DOMAIN s.spaces => r.spaces[w].active = t
    BY <1>1
  <2> QED BY <2>1, <1>w, <1>f DEF ActiveTab
<1>7. Shown(s, r)
  <2>1. ASSUME NEW v \in DOMAIN s.spaces \ {w}, ActiveTab(s, v) # Nil PROVE ActiveTab(r, v) # Nil
    BY <2>1, <1>1, <1>f, <1>w DEF ActiveTab
  <2> QED BY <2>1, <1>6, <1>a DEF Shown
<1>8. PairOK(r) /\ r.split \in Splits
  <2>1. CASE ~s.split.on
    BY <2>1, <1>f, <1>s DEF SplitAfter, PairOK
  <2>2. CASE s.split.on /\ ~(Panes(s.split) \subseteq TabsOf(s, w))
    <3>1. r.split = NoSplit
      BY <2>2, <1>f DEF SplitAfter
    <3> QED BY <3>1, NoPair
  <2>3. CASE s.split.on /\ Panes(s.split) \subseteq TabsOf(s, w)
    <3>1. /\ s.split.primary \in TabsOf(s, w) /\ s.split.secondary \in TabsOf(s, w)
          /\ s.split.primary # s.split.secondary /\ w = s.current
          /\ ActiveTab(s, w) \in Panes(s.split)
      BY <2>3, <1>s DEF PairOK, IsPair, Panes, TabsOf
    <3>2. w \in DOMAIN s.spaces
      <4>1. ActiveTab(s, w) # Nil
        BY <3>1, <1>s DEF TabsOf, TabsOK, TabIds, Panes, Nil
      <4> QED BY <4>1 DEF ActiveTab
    <3>3. \/ r.split = s.split /\ t \in Panes(s.split)
          \/ /\ t \notin Panes(s.split)
             /\ \/ r.split = [on |-> TRUE, primary |-> s.split.primary, secondary |-> t]
                \/ r.split = [on |-> TRUE, primary |-> t, secondary |-> s.split.secondary]
      BY <2>3, <1>f, <1>s DEF SplitAfter, Splits
    <3>4. r.split \in Splits
      <4>1. s.split.primary \in TabIds \cup {Nil} /\ s.split.secondary \in TabIds \cup {Nil}
        BY <1>s DEF Splits
      <4>2. \A p, q \in TabIds \cup {Nil} : [on |-> TRUE, primary |-> p, secondary |-> q] \in Splits
        BY DEF Splits
      <4> QED BY <4>1, <4>2, <1>a, <1>s, <3>3
    <3>5. t \in Panes(r.split) /\ IsPair(r, w, r.split.primary, r.split.secondary)
      <4>1. t \in TabsOf(s, w) /\ TabsOf(r, w) = TabsOf(s, w)
        BY <1>f DEF TabsOf
      <4> QED BY <4>1, <3>1, <3>3 DEF IsPair, Panes
    <3> QED BY <3>2, <3>4, <3>5, <1>6, <1>f DEF PairOK
  <2> QED BY <2>1, <2>2, <2>3
<1> QED BY <1>s, <1>f, <1>a, <1>2, <1>3, <1>4, <1>5, <1>7, <1>8 DEF Whole, Bare, Formed, r

\* What can follow a tab is another one of its workspace.
LEMMA FollowersAre ==
  ASSUME NEW s, Whole(s), NEW t \in DOMAIN s.tabs
  PROVE  Followers(s, t) \subseteq TabsOf(s, s.tabs[t].space) \ {t}
BY DEF Followers, Whole, PairOK, IsPair, TabsOf, Panes

\* A closed tab leaves no pane behind, and what follows it is of its workspace.
LEMMA WithoutTabKeeps ==
  ASSUME NEW s, Whole(s), NEW t \in DOMAIN s.tabs,
         NEW next \in {Nil} \cup (TabsOf(s, s.tabs[t].space) \ {t}), NEW record \in BOOLEAN
  PROVE  LET r == WithoutTab(s, t, next, record)
             w == s.tabs[t].space
         IN  /\ Whole(r) /\ DOMAIN r.spaces = DOMAIN s.spaces /\ r.nextTab = s.nextTab
             /\ \A v \in DOMAIN s.spaces \ {w} : ActiveTab(s, v) # Nil => ActiveTab(r, v) # Nil
             /\ next # Nil => Shown(s, r)
<1> DEFINE r    == WithoutTab(s, t, next, record)
           w    == s.tabs[t].space
           gone == w \in DOMAIN s.spaces /\ s.spaces[w].active = t
<1>s. /\ SpacesOK(s) /\ TabsOK(s) /\ GroupsOK(s) /\ ListsOK(s) /\ DOMAIN s = Names
      /\ LocalGroups(s) /\ LocalActives(s) /\ PairOK(s) /\ s.current \in SpaceIds
      /\ s.split \in Splits
  BY DEF Whole, Bare, Formed
<1>f. /\ DOMAIN r = Names /\ r.current = s.current /\ r.groups = s.groups
      /\ r.split = (IF s.split.on /\ t \in Panes(s.split) THEN NoSplit ELSE s.split)
      /\ r.spaces = (IF gone THEN WithActive(s, w, next) ELSE s.spaces)
      /\ r.tabs = Restrict(s.tabs, DOMAIN s.tabs \ {t})
      /\ r.nextTab = s.nextTab /\ r.nextSpace = s.nextSpace /\ r.nextGroup = s.nextGroup
      /\ r.snapshots = s.snapshots
      /\ r.closed = (IF PrivateIdentity(s, s.tabs[t]) \/ ~record THEN s.closed
                     ELSE Remember(s.closed, [space |-> w, page |-> s.tabs[t].page], ClosedLimit))
  BY <1>s DEF WithoutTab, Names
<1>a. /\ s.tabs[t] \in Tabs /\ w \in SpaceIds /\ next \in TabIds \cup {Nil} /\ next < s.nextTab
      /\ s.nextTab \in Nat /\ next # t /\ t \in TabIds
  BY <1>s, SessionAssumption DEF TabsOK, Tabs, TabIds, Nil, TabsOf
<1> HIDE DEF r
<1>t. /\ DOMAIN r.tabs = DOMAIN s.tabs \ {t}
      /\ \A u \in DOMAIN s.tabs \ {t} : r.tabs[u] = s.tabs[u]
  BY <1>f DEF Restrict
<1>w. /\ DOMAIN r.spaces = DOMAIN s.spaces
      /\ \A v \in DOMAIN s.spaces :
           r.spaces[v] = IF gone /\ v = w THEN [private |-> s.spaces[v].private, active |-> next]
                         ELSE s.spaces[v]
  BY <1>f, <1>s, WithActiveIs
<1>v. \A v \in DOMAIN s.spaces :
        \/ gone /\ v = w /\ r.spaces[v] = [private |-> s.spaces[v].private, active |-> next]
                /\ r.spaces[v].active = next
        \/ ~(gone /\ v = w) /\ r.spaces[v] = s.spaces[v]
  <2> TAKE v \in DOMAIN s.spaces
  <2>1. CASE gone /\ v = w
    <3>1. r.spaces[v] = [private |-> s.spaces[v].private, active |-> next]
      BY <2>1, <1>w
    <3>2. r.spaces[v].active = next
      BY <3>1
    <3> QED BY <2>1, <3>1, <3>2
  <2>2. CASE ~(gone /\ v = w)
    BY <2>2, <1>w
  <2> QED BY <2>1, <2>2
<1> HIDE DEF w
<1>1. TabsOK(r) /\ GroupsOK(r)
  BY <1>s, <1>f, <1>t DEF TabsOK, GroupsOK
<1>2. SpacesOK(r)
  <2>1. ASSUME NEW v \in DOMAIN s.spaces
        PROVE  r.spaces[v] \in Spaces /\ r.spaces[v].active < r.nextTab
    <3>1. s.spaces[v] \in Spaces /\ s.spaces[v].active < s.nextTab
          /\ s.spaces[v].private \in BOOLEAN
      BY <1>s DEF SpacesOK, Spaces
    <3>2. CASE gone /\ v = w
      <4>1. r.spaces[v] = [private |-> s.spaces[v].private, active |-> next]
            /\ r.spaces[v].active = next
        BY <3>2, <1>v
      <4>2. r.spaces[v] \in Spaces
        BY <4>1, <3>1, <1>a DEF Spaces
      <4> QED BY <4>1, <4>2, <1>a, <1>f
    <3>3. CASE ~(gone /\ v = w)
      <4>1. r.spaces[v] = s.spaces[v]
        BY <3>3, <1>v
      <4> QED BY <4>1, <3>1, <1>f
    <3> QED BY <3>2, <3>3
  <2> QED BY <2>1, <1>s, <1>f, <1>w DEF SpacesOK
<1>3. ListsOK(r)
  <2>1. [space |-> w, page |-> s.tabs[t].page] \in Closed
    BY <1>a DEF Closed, Tabs
  <2>2. LET list == Remember(s.closed, [space |-> w, page |-> s.tabs[t].page], ClosedLimit)
        IN  list \in Seq(Closed) /\ Len(list) <= ClosedLimit
    BY <1>s, <2>1, RememberKeeps, SessionAssumption DEF ListsOK
  <2> QED BY <1>s, <1>f, <2>2 DEF ListsOK
<1>4. LocalGroups(r)
  BY <1>s, <1>f, <1>t DEF LocalGroups, GroupsOf
<1>5. LocalActives(r)
  <2>1. ASSUME NEW v \in DOMAIN s.spaces, r.spaces[v].active \in DOMAIN r.tabs
        PROVE  r.tabs[r.spaces[v].active].space = v
    <3>1. CASE gone /\ v = w
      <4>1. r.spaces[v].active = next
        BY <3>1, <1>v
      <4>2. next \in TabsOf(s, w)
        BY <4>1, <2>1, <1>t, <1>s DEF TabsOK, TabIds, Nil, w
      <4> QED BY <3>1, <4>1, <4>2, <1>t, <1>a DEF TabsOf
    <3>2. CASE ~(gone /\ v = w)
      BY <3>2, <2>1, <1>v, <1>t, <1>s DEF LocalActives
    <3> QED BY <3>1, <3>2
  <2> QED BY <2>1, <1>w DEF LocalActives
<1>6. ASSUME NEW v \in DOMAIN s.spaces, ActiveTab(s, v) # Nil, v # w \/ next # Nil
      PROVE  ActiveTab(r, v) # Nil
  <2>1. s.spaces[v].active \in DOMAIN s.tabs
    BY <1>6, <1>s, Actives
  <2>2. CASE gone /\ v = w
    <3>1. r.spaces[v].active = next /\ next \in DOMAIN r.tabs
      BY <2>2, <1>v, <1>6, <1>t, <1>a DEF TabsOf
    <3> QED BY <3>1, <1>1, <1>w, Actives
  <2>3. CASE ~(gone /\ v = w)
    <3>1. s.spaces[v].active # t
      BY <2>1, <2>3, <1>s DEF LocalActives, w
    <3>2. r.spaces[v].active = s.spaces[v].active
      BY <2>3, <1>v
    <3>3. r.spaces[v].active \in DOMAIN r.tabs
      BY <2>1, <3>1, <3>2, <1>t
    <3> QED BY <3>3, <1>1, <1>w, Actives
  <2> QED BY <2>2, <2>3
<1>7. PairOK(r) /\ r.split \in Splits
  <2>1. CASE s.split.on /\ t \in Panes(s.split)
    <3>1. r.split = NoSplit
      BY <2>1, <1>f
    <3> QED BY <3>1, NoPair
  <2>2. CASE ~s.split.on
    BY <2>2, <1>f, <1>s DEF PairOK
  <2>3. CASE s.split.on /\ t \notin Panes(s.split)
    <3>1. r.split = s.split
      BY <2>3, <1>f
    <3>2. /\ s.split.primary \in TabsOf(s, s.current) /\ s.split.secondary \in TabsOf(s, s.current)
          /\ s.split.primary # s.split.secondary /\ ActiveTab(s, s.current) \in Panes(s.split)
          /\ s.split.primary # t /\ s.split.secondary # t
      BY <2>3, <1>s DEF PairOK, IsPair, Panes, TabsOf
    <3>3. IsPair(r, s.current, s.split.primary, s.split.secondary)
      BY <3>2, <1>t DEF IsPair, TabsOf
    <3>4. /\ ActiveTab(s, s.current) # Nil /\ ActiveTab(s, s.current) # t
          /\ s.current \in DOMAIN s.spaces
          /\ ActiveTab(s, s.current) = s.spaces[s.current].active
      BY <3>2, <2>3, <1>s DEF TabsOf, TabsOK, TabIds, Panes, Nil, ActiveTab
    <3>5. r.spaces[s.current] = s.spaces[s.current]
      BY <3>4, <1>v
    <3>6. ActiveTab(r, s.current) = ActiveTab(s, s.current)
      BY <3>4, <3>5, <1>t, <1>w DEF ActiveTab
    <3> QED BY <3>1, <3>2, <3>3, <3>6, <1>f, <1>s DEF PairOK
  <2> QED BY <2>1, <2>2, <2>3
<1>8. Whole(r)
  BY <1>s, <1>f, <1>1, <1>2, <1>3, <1>4, <1>5, <1>7 DEF Whole, Bare, Formed
<1> QED BY <1>6, <1>8, <1>f, <1>w DEF Shown, r, w

-----------------------------------------------------------------------------
(* Workspaces.                                                              *)

\* A deleted workspace takes its tabs, its groups and their split view with it.
LEMMA WithoutWorkspaceKeeps ==
  ASSUME NEW s, Whole(s), NEW w \in DOMAIN s.spaces, DOMAIN s.spaces # {w}
  PROVE  Whole(WithoutWorkspace(s, w)) /\ Shown(s, WithoutWorkspace(s, w))
<1> DEFINE r      == WithoutWorkspace(s, w)
           others == DOMAIN s.spaces \ {w}
<1>s. /\ SpacesOK(s) /\ TabsOK(s) /\ GroupsOK(s) /\ ListsOK(s) /\ DOMAIN s = Names
      /\ LocalGroups(s) /\ LocalActives(s) /\ PairOK(s) /\ s.current \in SpaceIds
      /\ s.split \in Splits
  BY DEF Whole, Bare, Formed
<1>f. /\ DOMAIN r = Names
      /\ r.spaces = Restrict(s.spaces, others)
      /\ r.current = (IF s.current = w THEN Least(others) ELSE s.current)
      /\ r.split = (IF s.current = w \/ (s.split.on /\ Panes(s.split) \cap TabsOf(s, w) # {})
                    THEN NoSplit ELSE s.split)
      /\ r.groups = Restrict(s.groups, DOMAIN s.groups \ GroupsOf(s, w))
      /\ r.tabs = Restrict(s.tabs, DOMAIN s.tabs \ TabsOf(s, w))
      /\ r.nextTab = s.nextTab /\ r.nextSpace = s.nextSpace /\ r.nextGroup = s.nextGroup
      /\ r.closed = s.closed /\ r.snapshots = s.snapshots
  BY <1>s DEF WithoutWorkspace, Names
<1> HIDE DEF r
<1>t. /\ DOMAIN r.spaces = others /\ \A v \in others : r.spaces[v] = s.spaces[v]
      /\ DOMAIN r.tabs = DOMAIN s.tabs \ TabsOf(s, w)
      /\ \A t \in DOMAIN r.tabs : r.tabs[t] = s.tabs[t] /\ s.tabs[t].space # w
      /\ DOMAIN r.groups = DOMAIN s.groups \ GroupsOf(s, w)
      /\ \A g \in DOMAIN r.groups : r.groups[g] = s.groups[g]
  BY <1>f DEF Restrict, TabsOf
<1>1. SpacesOK(r) /\ TabsOK(r) /\ GroupsOK(r) /\ ListsOK(r)
  BY <1>s, <1>f, <1>t DEF SpacesOK, TabsOK, GroupsOK, ListsOK
<1>2. r.current \in SpaceIds
  <2>1. others \in SUBSET Nat /\ others # {} /\ others \subseteq SpaceIds
    BY <1>s DEF SpacesOK, SpaceIds
  <2>2. Least(others) \in others
    <3> HIDE DEF others
    <3> QED BY <2>1, LeastOf
  <2> QED BY <2>1, <2>2, <1>s, <1>f
<1>3. LocalGroups(r)
  BY <1>s, <1>t DEF LocalGroups, GroupsOf
<1>4. LocalActives(r)
  BY <1>s, <1>t DEF LocalActives
<1>5. \A v \in others : ActiveTab(s, v) # Nil =>
        s.spaces[v].active \in DOMAIN r.tabs /\ ActiveTab(r, v) = ActiveTab(s, v)
  BY <1>s, <1>t, Actives DEF LocalActives, TabsOf, ActiveTab
<1>6. PairOK(r) /\ r.split \in Splits
  <2>1. CASE r.split = NoSplit
    BY <2>1, NoPair
  <2>2. CASE r.split # NoSplit /\ ~s.split.on
    BY <2>2, <1>f, <1>s DEF PairOK
  <2>3. CASE r.split # NoSplit /\ s.split.on
    <3>1. r.split = s.split /\ r.current = s.current /\ s.current # w
      BY <2>3, <1>f
    <3>2. /\ s.split.primary \in TabsOf(s, s.current) /\ s.split.secondary \in TabsOf(s, s.current)
          /\ s.split.primary # s.split.secondary /\ ActiveTab(s, s.current) \in Panes(s.split)
      BY <2>3, <1>s DEF PairOK, IsPair, Panes, TabsOf
    <3>3. IsPair(r, s.current, s.split.primary, s.split.secondary)
      BY <3>1, <3>2, <1>t DEF IsPair, TabsOf
    <3>4. ActiveTab(s, s.current) # Nil /\ s.current \in others
      BY <3>1, <3>2, <1>s DEF TabsOf, TabsOK, TabIds, Panes, Nil, ActiveTab
    <3> QED BY <3>1, <3>2, <3>3, <3>4, <1>5, <1>s DEF PairOK
  <2> QED BY <2>1, <2>2, <2>3
<1> QED BY <1>s, <1>f, <1>t, <1>1, <1>2, <1>3, <1>4, <1>5, <1>6 DEF Whole, Bare, Formed, Shown, r

\* A new workspace with its group, before its first tab.
LEMMA CreatedKeeps ==
  ASSUME NEW s, Whole(s), s.nextSpace \in SpaceIds, s.nextGroup \in GroupIds,
         NEW private \in BOOLEAN
  PROVE  LET w == s.nextSpace
             r == [s EXCEPT !.spaces    = Put(@, w, [private |-> private, active |-> Nil]),
                            !.current   = w,
                            !.split     = NoSplit,
                            !.groups    = Put(@, s.nextGroup, w),
                            !.nextSpace = w + 1,
                            !.nextGroup = s.nextGroup + 1]
         IN  /\ Whole(r) /\ r.nextTab = s.nextTab /\ DOMAIN r.spaces = DOMAIN s.spaces \cup {w}
             /\ \A v \in DOMAIN s.spaces \ {w} : ActiveTab(r, v) = ActiveTab(s, v)
<1> DEFINE w == s.nextSpace
           g == s.nextGroup
           r == [s EXCEPT !.spaces    = Put(@, w, [private |-> private, active |-> Nil]),
                          !.current   = w,
                          !.split     = NoSplit,
                          !.groups    = Put(@, g, w),
                          !.nextSpace = w + 1,
                          !.nextGroup = g + 1]
<1>s. /\ SpacesOK(s) /\ TabsOK(s) /\ GroupsOK(s) /\ ListsOK(s) /\ DOMAIN s = Names
      /\ LocalGroups(s) /\ LocalActives(s)
  BY DEF Whole, Bare, Formed
<1>f. /\ DOMAIN r = Names /\ r.current = w /\ r.split = NoSplit
      /\ r.spaces = Put(s.spaces, w, [private |-> private, active |-> Nil])
      /\ r.groups = Put(s.groups, g, w) /\ r.tabs = s.tabs
      /\ r.nextTab = s.nextTab /\ r.nextSpace = w + 1 /\ r.nextGroup = g + 1
      /\ r.closed = s.closed /\ r.snapshots = s.snapshots
  BY <1>s DEF Names
<1> HIDE DEF r
<1>a. /\ MaxTabs \in Nat /\ MaxSpaces \in Nat /\ MaxGroups \in Nat
      /\ w \in Nat /\ g \in Nat /\ s.nextTab \in Nat \ {0}
      /\ g \notin DOMAIN s.groups
  BY <1>s, SessionAssumption DEF SpacesOK, GroupsOK, TabsOK, SpaceIds, GroupIds
<1>w. /\ DOMAIN r.spaces = DOMAIN s.spaces \cup {w}
      /\ r.spaces[w] = [private |-> private, active |-> Nil] /\ r.spaces[w].active = Nil
      /\ \A v \in DOMAIN s.spaces \ {w} : r.spaces[v] = s.spaces[v]
      /\ DOMAIN r.groups = DOMAIN s.groups \cup {g} /\ r.groups[g] = w
      /\ \A h \in DOMAIN s.groups : r.groups[h] = s.groups[h]
  <2>1. r.spaces[w] = [private |-> private, active |-> Nil]
    BY <1>f DEF Put
  <2> QED BY <1>f, <1>a, <2>1 DEF Put
<1>1. TabsOK(r) /\ ListsOK(r)
  BY <1>s, <1>f DEF TabsOK, ListsOK
<1>2. SpacesOK(r)
  <2>1. r.spaces[w] \in Spaces /\ r.spaces[w].active < r.nextTab
    BY <1>w, <1>f, <1>a DEF Spaces, Nil
  <2>2. r.nextSpace \in 1 .. MaxSpaces + 1
    BY <1>f, <1>a DEF SpaceIds
  <2>3. \A v \in DOMAIN s.spaces \ {w} : r.spaces[v].active < r.nextTab
    BY <1>s, <1>f, <1>w DEF SpacesOK
  <2> QED BY <2>1, <2>2, <2>3, <1>s, <1>w DEF SpacesOK
<1>3. GroupsOK(r)
  <2>1. \A h \in DOMAIN s.groups : h < r.nextGroup
    BY <1>s, <1>f, <1>a DEF GroupsOK, GroupIds
  <2>2. g < r.nextGroup /\ r.nextGroup \in 1 .. MaxGroups + 1
    BY <1>f, <1>a DEF GroupIds
  <2> QED BY <2>1, <2>2, <1>s, <1>w DEF GroupsOK
<1>4. LocalGroups(r)
  BY <1>s, <1>f, <1>w DEF LocalGroups, GroupsOf
<1>5. LocalActives(r)
  BY <1>s, <1>f, <1>w DEF LocalActives, TabsOK, TabIds, Nil
<1>6. \A v \in DOMAIN s.spaces \ {w} : ActiveTab(r, v) = ActiveTab(s, v)
  BY <1>f, <1>w DEF ActiveTab
<1>7. PairOK(r) /\ r.split \in Splits
  BY <1>f, NoPair
<1> QED BY <1>s, <1>f, <1>a, <1>w, <1>1, <1>2, <1>3, <1>4, <1>5, <1>6, <1>7
        DEF Whole, Bare, Formed, r

\* A workspace becomes private or ordinary.
LEMMA IdentityKeeps ==
  ASSUME NEW s, Whole(s), NEW w \in DOMAIN s.spaces, NEW private \in BOOLEAN
  PROVE  LET r == [s EXCEPT !.spaces[w].private = private]
         IN  Whole(r) /\ Shown(s, r)
<1> DEFINE r == [s EXCEPT !.spaces[w].private = private]
<1>s. /\ SpacesOK(s) /\ TabsOK(s) /\ GroupsOK(s) /\ ListsOK(s) /\ DOMAIN s = Names
      /\ LocalGroups(s) /\ LocalActives(s) /\ PairOK(s) /\ s.current \in SpaceIds
      /\ s.split \in Splits
  BY DEF Whole, Bare, Formed
<1>f. /\ DOMAIN r = Names /\ r.current = s.current /\ r.split = s.split
      /\ r.spaces = [s.spaces EXCEPT ![w] = [s.spaces[w] EXCEPT !.private = private]]
      /\ r.groups = s.groups /\ r.tabs = s.tabs
      /\ r.nextTab = s.nextTab /\ r.nextSpace = s.nextSpace /\ r.nextGroup = s.nextGroup
      /\ r.closed = s.closed /\ r.snapshots = s.snapshots
  BY <1>s DEF Names
<1> HIDE DEF r
<1>w. /\ DOMAIN r.spaces = DOMAIN s.spaces
      /\ \A v \in DOMAIN s.spaces : r.spaces[v] \in Spaces /\ r.spaces[v].active = s.spaces[v].active
  <2>1. s.spaces[w] \in Spaces /\ \A v \in DOMAIN s.spaces : s.spaces[v] \in Spaces
    BY <1>s DEF SpacesOK
  <2>2. [s.spaces[w] EXCEPT !.private = private] \in Spaces
        /\ [s.spaces[w] EXCEPT !.private = private].active = s.spaces[w].active
    BY <2>1 DEF Spaces
  <2> HIDE DEF Spaces
  <2> QED BY <1>f, <2>1, <2>2
<1>1. TabsOK(r) /\ ListsOK(r) /\ GroupsOK(r) /\ SpacesOK(r)
  BY <1>s, <1>f, <1>w DEF TabsOK, ListsOK, GroupsOK, SpacesOK
<1>2. LocalGroups(r) /\ LocalActives(r)
  BY <1>s, <1>f, <1>w DEF LocalGroups, GroupsOf, LocalActives
<1>3. \A v : ActiveTab(r, v) = ActiveTab(s, v)
  BY <1>f, <1>w DEF ActiveTab
<1>4. PairOK(r) /\ Shown(s, r)
  BY <1>s, <1>f, <1>w, <1>3 DEF PairOK, IsPair, TabsOf, Shown
<1> QED BY <1>s, <1>f, <1>1, <1>2, <1>4 DEF Whole, Bare, Formed, r

\* A tab shows another page.
LEMMA NavigatedKeeps ==
  ASSUME NEW s, Whole(s), NEW t \in DOMAIN s.tabs, NEW page \in Pages
  PROVE  LET r == [s EXCEPT !.tabs[t].page = page]
         IN  Whole(r) /\ Shown(s, r)
<1> DEFINE r == [s EXCEPT !.tabs[t].page = page]
<1>s. /\ SpacesOK(s) /\ TabsOK(s) /\ GroupsOK(s) /\ ListsOK(s) /\ DOMAIN s = Names
      /\ LocalGroups(s) /\ LocalActives(s) /\ PairOK(s) /\ s.current \in SpaceIds
      /\ s.split \in Splits
  BY DEF Whole, Bare, Formed
<1>f. /\ DOMAIN r = Names /\ r.current = s.current /\ r.split = s.split
      /\ r.tabs = [s.tabs EXCEPT ![t] = [s.tabs[t] EXCEPT !.page = page]]
      /\ r.groups = s.groups /\ r.spaces = s.spaces
      /\ r.nextTab = s.nextTab /\ r.nextSpace = s.nextSpace /\ r.nextGroup = s.nextGroup
      /\ r.closed = s.closed /\ r.snapshots = s.snapshots
  BY <1>s DEF Names
<1> HIDE DEF r
<1>t. /\ DOMAIN r.tabs = DOMAIN s.tabs
      /\ \A u \in DOMAIN s.tabs : /\ r.tabs[u] \in Tabs /\ r.tabs[u].space = s.tabs[u].space
                                  /\ r.tabs[u].group = s.tabs[u].group
  <2>1. s.tabs[t] \in Tabs /\ \A u \in DOMAIN s.tabs : s.tabs[u] \in Tabs
    BY <1>s DEF TabsOK
  <2> DEFINE tab == [s.tabs[t] EXCEPT !.page = page]
  <2>2. tab \in Tabs /\ tab.space = s.tabs[t].space /\ tab.group = s.tabs[t].group
    BY <2>1 DEF Tabs
  <2>3. r.tabs = [s.tabs EXCEPT ![t] = tab]
    BY <1>f
  <2> HIDE DEF Tabs, tab
  <2> QED BY <2>3, <2>1, <2>2
<1>1. TabsOK(r) /\ ListsOK(r) /\ GroupsOK(r) /\ SpacesOK(r)
  BY <1>s, <1>f, <1>t DEF TabsOK, ListsOK, GroupsOK, SpacesOK
<1>2. LocalGroups(r) /\ LocalActives(r)
  BY <1>s, <1>f, <1>t DEF LocalGroups, GroupsOf, LocalActives
<1>3. \A v : ActiveTab(r, v) = ActiveTab(s, v) /\ TabsOf(r, v) = TabsOf(s, v)
  BY <1>f, <1>t DEF ActiveTab, TabsOf
<1>4. PairOK(r) /\ Shown(s, r)
  BY <1>s, <1>f, <1>3 DEF PairOK, IsPair, Shown
<1> QED BY <1>s, <1>f, <1>1, <1>2, <1>4 DEF Whole, Bare, Formed, r

-----------------------------------------------------------------------------
(* Restoring a snapshot.                                                    *)

\* As many tabs as a snapshot has pages can show them all.
LEMMA PagesArePlaced ==
  ASSUME NEW pages, IsFiniteSet(pages), NEW first \in Nat
  PROVE  LET ids == first .. first + Cardinality(pages) - 1
         IN  \E f \in [ids -> pages] : \A p \in pages : \E i \in ids : f[i] = p
<1> DEFINE n   == Cardinality(pages)
           ids == first .. first + n - 1
<1>1. n \in Nat /\ ExistsBijection(1 .. n, pages)
  BY FS_CardinalityType
<1>2. PICK b \in Bijection(1 .. n, pages) : TRUE
  BY <1>1 DEF ExistsBijection
<1>3. b \in [1 .. n -> pages] /\ \A p \in pages : \E k \in 1 .. n : b[k] = p
  BY <1>2 DEF Bijection, Surjection
<1> HIDE DEF n
<1> DEFINE f == [i \in ids |-> b[i - first + 1]]
<1>4. \A i \in ids : i - first + 1 \in 1 .. n
  BY <1>1
<1>5. \A k \in 1 .. n : first + k - 1 \in ids /\ (first + k - 1) - first + 1 = k
  BY <1>1
<1>6. f \in [ids -> pages]
  <2> HIDE DEF ids
  <2> QED BY <1>3, <1>4
<1>7. ASSUME NEW p \in pages PROVE \E i \in ids : f[i] = p
  <2>1. PICK k \in 1 .. n : b[k] = p
    BY <1>3
  <2>2. first + k - 1 \in ids /\ (first + k - 1) - first + 1 = k
    BY <1>5
  <2> HIDE DEF ids
  <2>3. f[first + k - 1] = p
    BY <2>1, <2>2
  <2> QED BY <2>2, <2>3
<1> HIDE DEF f
<1> QED BY <1>6, <1>7 DEF n

\* The tabs of a snapshot, in their groups, may take the place of a workspace's tabs.
LEMMA RestoredKeeps ==
  ASSUME NEW s, Whole(s), NEW w \in SpaceIds, NEW pages \in (SUBSET Pages) \ {{}},
         IsFiniteSet(pages), s.nextTab + Cardinality(pages) <= MaxTabs + 1,
         NEW new \in {{}, {s.nextGroup}}, new \subseteq GroupIds,
         NEW ids, ids = s.nextTab .. s.nextTab + Cardinality(pages) - 1,
         NEW placed \in [ids -> new \cup GroupsOf(s, w)], NEW chosen \in ids
  PROVE  LET r == WithRestored(s, w, pages, placed, chosen, new)
         IN  Whole(r) /\ Shown(s, r)
<1> DEFINE r    == WithRestored(s, w, pages, placed, chosen, new)
           n    == Cardinality(pages)
           kept == DOMAIN s.tabs \ TabsOf(s, w)
           page == CHOOSE f \in [ids -> pages] : \A p \in pages : \E i \in ids : f[i] = p
<1>s. /\ SpacesOK(s) /\ TabsOK(s) /\ GroupsOK(s) /\ ListsOK(s) /\ DOMAIN s = Names
      /\ LocalGroups(s) /\ LocalActives(s)
  BY DEF Whole, Bare, Formed
<1>c. n \in Nat /\ Cardinality(new) \in {0, 1} /\ (Cardinality(new) = 1 => new = {s.nextGroup})
      /\ (Cardinality(new) = 0 => new = {})
  <2>1. n \in Nat
    BY FS_CardinalityType
  <2>2. Cardinality({}) = 0 /\ Cardinality({s.nextGroup}) = 1
    BY FS_EmptySet, FS_Singleton
  <2>3. CASE new = {}
    BY <2>1, <2>2, <2>3
  <2>4. CASE new = {s.nextGroup}
    BY <2>1, <2>2, <2>4
  <2> QED BY <2>3, <2>4
<1>a. /\ MaxTabs \in Nat /\ MaxSpaces \in Nat /\ MaxGroups \in Nat
      /\ s.nextTab \in Nat \ {0} /\ s.nextSpace \in Nat /\ s.nextGroup \in Nat
  BY <1>s, SessionAssumption DEF SpacesOK, GroupsOK, TabsOK
<1>p. page \in [ids -> pages]
  <2>1. \E f \in [ids -> pages] : \A p \in pages : \E i \in ids : f[i] = p
    <3> DEFINE span == s.nextTab .. s.nextTab + Cardinality(pages) - 1
    <3>1. \E f \in [span -> pages] : \A p \in pages : \E i \in span : f[i] = p
      BY <1>a, PagesArePlaced
    <3>2. ids = span
      OBVIOUS
    <3> QED BY <3>1, <3>2
  <2> QED BY <2>1
<1>f. /\ DOMAIN r = Names /\ r.current = w /\ r.split = NoSplit
      /\ r.spaces = Put(s.spaces, w, [private |-> w \in Private(s), active |-> chosen])
      /\ r.nextSpace = (IF w = s.nextSpace THEN w + 1 ELSE s.nextSpace)
      /\ r.groups = [g \in DOMAIN s.groups \cup new |-> IF g \in new THEN w ELSE s.groups[g]]
      /\ r.nextGroup = s.nextGroup + Cardinality(new)
      /\ r.tabs = [t \in kept \cup ids |->
                     IF t \in ids
                     THEN [space |-> w, identity |-> Nil, group |-> placed[t], page |-> page[t]]
                     ELSE s.tabs[t]]
      /\ r.nextTab = s.nextTab + n
      /\ r.closed = s.closed /\ r.snapshots = s.snapshots
  BY <1>s DEF WithRestored, Names
<1> HIDE DEF r, page
<1>i. /\ ids \subseteq TabIds
      /\ \A i \in ids : i \notin DOMAIN s.tabs /\ i < r.nextTab /\ i \in Nat
      /\ s.nextTab <= r.nextTab /\ r.nextTab \in 1 .. MaxTabs + 1
  BY <1>s, <1>a, <1>c, <1>f DEF TabsOK, TabIds
<1>t. /\ DOMAIN r.tabs = kept \cup ids
      /\ \A i \in ids :
           r.tabs[i] = [space |-> w, identity |-> Nil, group |-> placed[i], page |-> page[i]]
      /\ \A t \in kept : r.tabs[t] = s.tabs[t] /\ s.tabs[t].space # w
  BY <1>f, <1>i DEF TabsOf
<1>g. /\ DOMAIN r.groups = DOMAIN s.groups \cup new
      /\ \A g \in new : r.groups[g] = w /\ g \notin DOMAIN s.groups
      /\ \A g \in DOMAIN s.groups : r.groups[g] = s.groups[g]
  <2>1. \A g \in new : g \notin DOMAIN s.groups
    BY <1>s, <1>a DEF GroupsOK
  <2> QED BY <2>1, <1>f
<1>w. /\ DOMAIN r.spaces = DOMAIN s.spaces \cup {w}
      /\ r.spaces[w] = [private |-> w \in Private(s), active |-> chosen]
      /\ \A v \in DOMAIN s.spaces \ {w} : r.spaces[v] = s.spaces[v]
  BY <1>f DEF Put
<1>n. \A i \in ids :
         placed[i] \in new \cup GroupsOf(s, w) /\ placed[i] \in GroupIds /\ page[i] \in Pages
  <2>1. GroupsOf(s, w) \subseteq GroupIds
    BY <1>s DEF GroupsOf, GroupsOK
  <2> QED BY <2>1, <1>p
<1>1. TabsOK(r)
  <2>1. ASSUME NEW i \in ids PROVE r.tabs[i] \in Tabs
    <3>1. [space |-> w, identity |-> Nil, group |-> placed[i], page |-> page[i]] \in Tabs
      BY <1>n DEF Tabs
    <3> QED BY <3>1, <1>t
  <2>2. ASSUME NEW t \in kept PROVE t \in TabIds /\ t < r.nextTab /\ r.tabs[t] \in Tabs
    <3>1. t \in TabIds /\ t < s.nextTab /\ s.tabs[t] \in Tabs
      BY <1>s DEF TabsOK
    <3> QED BY <3>1, <1>t, <1>i, <1>a DEF TabIds
  <2> QED BY <2>1, <2>2, <1>t, <1>i DEF TabsOK
<1>2. SpacesOK(r)
  <2>1. r.spaces[w] \in Spaces /\ r.spaces[w].active < r.nextTab
    <3>1. r.spaces[w].active = chosen
      BY <1>w
    <3>2. [private |-> w \in Private(s), active |-> chosen] \in Spaces
      BY <1>i DEF Spaces
    <3> QED BY <3>1, <3>2, <1>w, <1>i
  <2>2. ASSUME NEW v \in DOMAIN s.spaces PROVE s.spaces[v].active < r.nextTab
    <3>1. s.spaces[v].active \in Nat /\ s.spaces[v].active < s.nextTab
      BY <1>s, <1>a DEF SpacesOK, Spaces, TabIds, Nil
    <3> QED BY <3>1, <1>i, <1>a
  <2>3. r.nextSpace \in 1 .. MaxSpaces + 1
    BY <1>s, <1>f, <1>a DEF SpacesOK, SpaceIds
  <2> QED BY <2>1, <2>2, <2>3, <1>s, <1>w DEF SpacesOK
<1>3. GroupsOK(r) /\ ListsOK(r)
  <2>1. r.nextGroup \in 1 .. MaxGroups + 1 /\ s.nextGroup <= r.nextGroup
        /\ \A g \in new : g < r.nextGroup
    <3>0. s.nextGroup \in 1 .. MaxGroups + 1
      BY <1>s DEF GroupsOK
    <3>1. CASE new = {}
      <4>1. Cardinality(new) = 0
        BY <3>1, FS_EmptySet
      <4> QED BY <3>0, <3>1, <4>1, <1>f, <1>a
    <3>2. CASE new = {s.nextGroup}
      <4>1. Cardinality(new) = 1
        BY <3>2, FS_Singleton
      <4>2. s.nextGroup \in 1 .. MaxGroups
        BY <3>2 DEF GroupIds
      <4> QED BY <3>0, <3>2, <4>1, <4>2, <1>f, <1>a
    <3> QED BY <3>1, <3>2
  <2>2. \A g \in DOMAIN s.groups : g < r.nextGroup
    BY <2>1, <1>s, <1>a DEF GroupsOK, GroupIds
  <2> QED BY <2>1, <2>2, <1>s, <1>f, <1>g DEF GroupsOK, ListsOK
<1>4. LocalGroups(r)
  <2>1. \A v : GroupsOf(s, v) \subseteq GroupsOf(r, v)
    BY <1>g DEF GroupsOf
  <2>2. ASSUME NEW i \in ids PROVE r.tabs[i].group \in GroupsOf(r, r.tabs[i].space)
    <3>1. r.tabs[i].group = placed[i] /\ r.tabs[i].space = w
      <4>1. r.tabs[i] = [space |-> w, identity |-> Nil, group |-> placed[i], page |-> page[i]]
        BY <1>t
      <4> QED BY <4>1
    <3>2. new \subseteq GroupsOf(r, w)
      BY <1>g DEF GroupsOf
    <3> QED BY <3>1, <3>2, <2>1, <1>n
  <2> QED BY <2>1, <2>2, <1>s, <1>t DEF LocalGroups
<1>5. LocalActives(r)
  <2>1. r.spaces[w].active = chosen /\ r.tabs[chosen].space = w
    <3>1. r.tabs[chosen] = [space |-> w, identity |-> Nil, group |-> placed[chosen],
                            page |-> page[chosen]]
      BY <1>t
    <3> QED BY <3>1, <1>w
  <2>2. ASSUME NEW v \in DOMAIN s.spaces \ {w}, r.spaces[v].active \in DOMAIN r.tabs
        PROVE  r.tabs[r.spaces[v].active].space = v
    <3>1. s.spaces[v].active \in Nat /\ s.spaces[v].active < s.nextTab
      BY <1>s, <1>a DEF SpacesOK, Spaces, TabIds, Nil
    <3>2. s.spaces[v].active \notin ids
      BY <3>1, <1>a, <1>c
    <3> QED BY <3>2, <2>2, <1>w, <1>t, <1>s DEF LocalActives
  <2> QED BY <2>1, <2>2, <1>w DEF LocalActives
<1>6. Shown(s, r)
  <2>1. ActiveTab(r, w) # Nil
    <3>1. r.spaces[w].active = chosen
      BY <1>w
    <3> QED BY <3>1, <1>1, <1>t, <1>w, Actives
  <2>2. ASSUME NEW v \in DOMAIN s.spaces \ {w}, ActiveTab(s, v) # Nil PROVE ActiveTab(r, v) # Nil
    <3>1. s.spaces[v].active \in DOMAIN s.tabs
      BY <2>2, <1>s, Actives
    <3>2. s.spaces[v].active \in kept
      BY <3>1, <1>s DEF LocalActives, TabsOf
    <3> QED BY <3>2, <1>1, <1>t, <1>w, Actives
  <2> QED BY <2>1, <2>2 DEF Shown
<1>7. PairOK(r) /\ r.split \in Splits
  BY <1>f, NoPair
<1> QED BY <1>s, <1>f, <1>1, <1>2, <1>3, <1>4, <1>5, <1>6, <1>7 DEF Whole, Bare, Formed, r

-----------------------------------------------------------------------------
(* A restart.                                                               *)

\* What comes back from the file: s, without what refers to a private or a missing
\* workspace.
LEMMA MigratedIs ==
  ASSUME NEW s, Whole(s)
  PROVE  LET r    == Migrated(Persisted(s))
             here == DOMAIN s.spaces \ Private(s)
             back == {t \in DOMAIN s.tabs : /\ s.tabs[t].space \in here
                                            /\ s.tabs[t].identity \in DOMAIN s.spaces \cup {Nil}}
         IN  /\ Bare(r) /\ r.current \in DOMAIN s.spaces /\ r.spaces = s.spaces
             /\ r.nextTab = s.nextTab
             /\ s.current \in DOMAIN s.spaces => r.current = s.current
             /\ DOMAIN r.tabs = back /\ \A t \in back : r.tabs[t] = s.tabs[t]
             /\ r.split.on => r.split = s.split /\ r.current = s.current
             /\ s.split.on /\ Panes(s.split) \subseteq back => r.split = s.split
             /\ ~s.split.on => ~r.split.on
<1> DEFINE m    == Persisted(s)
           r    == Migrated(m)
           keep == (SpaceIds \cup {Nil}) \ Private(s)
           here == DOMAIN s.spaces \ Private(s)
           back == {t \in DOMAIN s.tabs : /\ s.tabs[t].space \in here
                                          /\ s.tabs[t].identity \in DOMAIN s.spaces \cup {Nil}}
           now  == IF s.current \in DOMAIN s.spaces THEN s.current ELSE Least(DOMAIN s.spaces)
           left == {t \in DOMAIN m.tabs :
                       /\ m.tabs[t].space \in DOMAIN m.spaces
                       /\ m.tabs[t].identity \in DOMAIN m.spaces \cup {Nil}
                       /\ m.tabs[t].group \in DOMAIN m.groups \cup {Nil}}
           kept == [m EXCEPT !.current = now, !.tabs = Restrict(m.tabs, left)]
<1>s. /\ SpacesOK(s) /\ TabsOK(s) /\ GroupsOK(s) /\ ListsOK(s) /\ DOMAIN s = Names
      /\ LocalGroups(s) /\ LocalActives(s) /\ PairOK(s) /\ s.current \in SpaceIds
      /\ s.split \in Splits
  BY DEF Whole, Bare, Formed
<1>m. /\ DOMAIN m = Names /\ m.spaces = s.spaces /\ m.current = s.current
      /\ m.groups = s.groups /\ m.split = s.split
      /\ m.nextTab = s.nextTab /\ m.nextSpace = s.nextSpace /\ m.nextGroup = s.nextGroup
      /\ m.tabs = Restrict(s.tabs, {t \in DOMAIN s.tabs : s.tabs[t].space \in keep})
      /\ m.closed = Of(s.closed, keep) /\ m.snapshots = Of(s.snapshots, keep)
  BY <1>s DEF Persisted, Names
<1> HIDE DEF m
<1>t. /\ DOMAIN m.tabs = {t \in DOMAIN s.tabs : s.tabs[t].space \in keep}
      /\ \A t \in DOMAIN m.tabs : m.tabs[t] = s.tabs[t]
  BY <1>m DEF Restrict
<1>k. /\ DOMAIN kept = Names /\ kept.tabs = Restrict(m.tabs, left)
  BY <1>m DEF Names
<1>f. /\ DOMAIN r = Names /\ r.spaces = s.spaces /\ r.current = now
      /\ r.tabs = Restrict(m.tabs, left)
      /\ r.groups = Restrict(s.groups, {g \in DOMAIN s.groups : s.groups[g] \in DOMAIN s.spaces})
      /\ r.nextTab = s.nextTab /\ r.nextSpace = s.nextSpace /\ r.nextGroup = s.nextGroup
      /\ r.snapshots = m.snapshots /\ r.closed = Of(m.closed, DOMAIN s.spaces)
      /\ r.split = IF s.split.on /\ IsPair(kept, now, s.split.primary, s.split.secondary)
                   THEN s.split ELSE NoSplit
  BY <1>m DEF Migrated, Names
<1>l. left = back
  <2>1. ASSUME NEW t \in left PROVE t \in back
    BY <2>1, <1>m, <1>t
  <2>2. ASSUME NEW t \in back PROVE t \in left
    <3>1. t \in DOMAIN m.tabs /\ m.tabs[t] = s.tabs[t]
      BY <2>2, <1>s, <1>t DEF SpacesOK
    <3>2. s.tabs[t].group \in DOMAIN s.groups \cup {Nil}
      BY <2>2, <1>s DEF LocalGroups, GroupsOf
    <3> QED BY <2>2, <3>1, <3>2, <1>m
  <2> QED BY <2>1, <2>2
<1> HIDE DEF r, kept, left, back
<1>b. /\ DOMAIN r.tabs = back /\ \A t \in back : r.tabs[t] = s.tabs[t] /\ t \in DOMAIN s.tabs
      /\ \A v : TabsOf(kept, v) = TabsOf(r, v)
  <2>1. back \subseteq DOMAIN m.tabs
    BY <1>l DEF left
  <2>2. back \subseteq DOMAIN s.tabs
    BY DEF back
  <2> QED BY <2>1, <2>2, <1>f, <1>k, <1>l, <1>t DEF Restrict, TabsOf
<1>g. /\ DOMAIN r.groups = {g \in DOMAIN s.groups : s.groups[g] \in DOMAIN s.spaces}
      /\ \A g \in DOMAIN r.groups : r.groups[g] = s.groups[g]
  BY <1>f DEF Restrict
<1>1. now \in DOMAIN s.spaces /\ now \in SpaceIds
  <2>1. DOMAIN s.spaces \in SUBSET Nat /\ DOMAIN s.spaces # {}
    BY <1>s DEF SpacesOK, SpaceIds
  <2>2. Least(DOMAIN s.spaces) \in DOMAIN s.spaces
    BY <2>1, LeastOf
  <2> QED BY <2>2, <1>s DEF SpacesOK
<1>2. SpacesOK(r) /\ TabsOK(r) /\ GroupsOK(r)
  BY <1>s, <1>f, <1>b, <1>g DEF SpacesOK, TabsOK, GroupsOK
<1>3. ListsOK(r)
  <2>1. /\ m.closed \in Seq(Closed) /\ Len(m.closed) <= Len(s.closed)
        /\ m.snapshots \in Seq(Shots) /\ Len(m.snapshots) <= Len(s.snapshots)
    BY <1>s, <1>m, OfList DEF ListsOK
  <2>2. r.closed \in Seq(Closed) /\ Len(r.closed) <= Len(m.closed)
    BY <2>1, <1>f, OfList
  <2>3. /\ Len(s.closed) <= ClosedLimit /\ Len(s.snapshots) <= SnapshotLimit
        /\ \A q \in Seq(Closed) : Len(q) \in Nat
        /\ \A q \in Seq(Shots) : Len(q) \in Nat
        /\ s.closed \in Seq(Closed) /\ s.snapshots \in Seq(Shots)
        /\ ClosedLimit \in Nat /\ SnapshotLimit \in Nat
    BY <1>s, SessionAssumption DEF ListsOK
  <2>4. /\ Len(s.closed) \in Nat /\ Len(m.closed) \in Nat /\ Len(r.closed) \in Nat
        /\ Len(s.snapshots) \in Nat /\ Len(m.snapshots) \in Nat
    BY <2>1, <2>2, <2>3
  <2>5. Len(r.closed) <= ClosedLimit /\ Len(m.snapshots) <= SnapshotLimit
    BY <2>1, <2>2, <2>3, <2>4
  <2> QED BY <2>1, <2>2, <2>5, <1>f DEF ListsOK
<1>4. LocalGroups(r)
  <2> SUFFICES ASSUME NEW t \in back, r.tabs[t].group # Nil
               PROVE  r.tabs[t].group \in GroupsOf(r, r.tabs[t].space)
    BY <1>b DEF LocalGroups
  <2>1. r.tabs[t] = s.tabs[t] /\ t \in DOMAIN s.tabs /\ s.tabs[t].space \in DOMAIN s.spaces
    BY <1>b DEF back
  <2>2. s.tabs[t].group \in GroupsOf(s, s.tabs[t].space)
    BY <2>1, <1>s DEF LocalGroups
  <2> QED BY <2>1, <2>2, <1>g DEF GroupsOf
<1>5. LocalActives(r)
  BY <1>s, <1>f, <1>b DEF LocalActives
<1>6. r.split \in Splits
  BY <1>f, <1>s, NoPair DEF NoSplit, Splits
<1>7. Bare(r)
  BY <1>1, <1>2, <1>3, <1>4, <1>5, <1>6, <1>f DEF Bare, Formed
<1>8. s.split.on => s.current \in DOMAIN s.spaces
  <2>1. s.split.on => ActiveTab(s, s.current) # Nil
    BY <1>s DEF PairOK, IsPair, TabsOf, TabsOK, TabIds, Panes, Nil
  <2> QED BY <2>1 DEF ActiveTab
<1>9. r.split.on => r.split = s.split /\ r.current = s.current
  <2>1. r.split.on => r.split = s.split /\ s.split.on
    BY <1>f DEF NoSplit
  <2> QED BY <2>1, <1>8, <1>f
<1>10. s.split.on /\ Panes(s.split) \subseteq back => r.split = s.split
  <2>1. ASSUME s.split.on, Panes(s.split) \subseteq back
        PROVE  IsPair(kept, now, s.split.primary, s.split.secondary)
    <3>1. now = s.current
      BY <2>1, <1>8
    <3>2. IsPair(s, s.current, s.split.primary, s.split.secondary)
      BY <2>1, <1>s DEF PairOK
    <3>3. TabsOf(s, s.current) \cap back \subseteq TabsOf(r, s.current)
      BY <1>b DEF TabsOf
    <3> QED BY <2>1, <3>1, <3>2, <3>3, <1>b DEF IsPair, Panes
  <2> QED BY <2>1, <1>f
<1>11. ~s.split.on => ~r.split.on
  BY <1>f DEF NoSplit
<1>12. r.current \in DOMAIN s.spaces /\ (s.current \in DOMAIN s.spaces => r.current = s.current)
  BY <1>1, <1>f
<1> HIDE DEF now
<1> QED BY <1>7, <1>9, <1>10, <1>11, <1>12, <1>f, <1>b DEF r, back, m

\* What hydrate makes of the session s of the tabs that returned: they are there, and
\* the view and the active tabs whose tabs are.
Returned(s, r) ==
    LET show(w) == s.spaces[w].active \in DOMAIN s.tabs
                   /\ (w = s.current /\ s.split.on => s.spaces[w].active \in Panes(s.split))
    IN  /\ r.current = s.current
        /\ DOMAIN s.tabs \subseteq DOMAIN r.tabs
        /\ DOMAIN r.tabs \subseteq DOMAIN s.tabs \cup {s.nextTab}
        /\ \A t \in DOMAIN s.tabs : r.tabs[t] = s.tabs[t]
        /\ show(s.current) /\ s.split.on
            /\ IsPair(s, s.current, s.split.primary, s.split.secondary) => r.split = s.split
        /\ \A w \in DOMAIN s.spaces : show(w) => ActiveTab(r, w) = s.spaces[w].active

\* The window that takes it: its split view is a pair again and something is shown.
LEMMA RehydratedIs ==
  ASSUME NEW s, Bare(s), s.current \in DOMAIN s.spaces, s.nextTab \in TabIds,
         NEW page \in Pages
  PROVE  Whole(Rehydrated(s, page)) /\ Returned(s, Rehydrated(s, page))
<1> DEFINE now   == s.current
           back  == DOMAIN s.tabs
           split == IF s.split.on /\ IsPair(s, now, s.split.primary, s.split.secondary)
                    THEN s.split ELSE NoSplit
           moved == split.on /\ s.spaces[now].active \notin Panes(split)
           held  == [s EXCEPT !.split = split,
                              !.spaces = IF moved THEN WithActive(s, now, split.primary) ELSE @]
           shown == IF ActiveTab(held, now) = Nil THEN PlainTab(held, now, page) ELSE held
           show(w) == s.spaces[w].active \in back
                      /\ (w = now /\ s.split.on => s.spaces[w].active \in Panes(s.split))
<1>s. /\ SpacesOK(s) /\ TabsOK(s) /\ GroupsOK(s) /\ ListsOK(s) /\ DOMAIN s = Names
      /\ LocalGroups(s) /\ LocalActives(s) /\ now \in SpaceIds /\ s.split \in Splits
  BY DEF Bare, Formed
<1>r. Rehydrated(s, page) = shown
  BY DEF Rehydrated
<1>h. /\ DOMAIN held = Names /\ held.tabs = s.tabs /\ held.split = split /\ held.current = now
      /\ held.spaces = (IF moved THEN WithActive(s, now, split.primary) ELSE s.spaces)
      /\ held.groups = s.groups /\ held.closed = s.closed /\ held.snapshots = s.snapshots
      /\ held.nextTab = s.nextTab /\ held.nextSpace = s.nextSpace /\ held.nextGroup = s.nextGroup
  BY <1>s DEF Names
<1>x. /\ split = NoSplit \/ split = s.split
      /\ split.on => /\ split = s.split /\ split.primary # split.secondary
                     /\ split.primary \in back /\ s.tabs[split.primary].space = now
                     /\ split.secondary \in back /\ s.tabs[split.secondary].space = now
  BY DEF IsPair, NoSplit, TabsOf
<1> HIDE DEF held, split
<1>w. /\ DOMAIN held.spaces = DOMAIN s.spaces
      /\ \A v \in DOMAIN s.spaces \ {now} : held.spaces[v] = s.spaces[v]
      /\ ~moved => held.spaces[now] = s.spaces[now]
      /\ moved => /\ held.spaces[now] = [private |-> s.spaces[now].private, active |-> split.primary]
                  /\ held.spaces[now].active = split.primary
  <2>1. CASE moved
    <3>1. held.spaces[now] = [private |-> s.spaces[now].private, active |-> split.primary]
      BY <2>1, <1>h, <1>s, WithActiveIs
    <3>2. held.spaces[now].active = split.primary
      BY <3>1
    <3>3. DOMAIN held.spaces = DOMAIN s.spaces
          /\ \A v \in DOMAIN s.spaces \ {now} : held.spaces[v] = s.spaces[v]
      <4>1. held.spaces = WithActive(s, now, split.primary)
        BY <2>1, <1>h
      <4> DEFINE spaces == WithActive(s, now, split.primary)
      <4>2. /\ DOMAIN spaces = DOMAIN s.spaces
            /\ \A v \in DOMAIN s.spaces :
                 spaces[v] = IF v = now
                             THEN [private |-> s.spaces[v].private, active |-> split.primary]
                             ELSE s.spaces[v]
        BY <1>s, WithActiveIs
      <4> HIDE DEF moved, spaces
      <4> QED BY <4>1, <4>2 DEF spaces
    <3> QED BY <2>1, <3>1, <3>2, <3>3
  <2>2. CASE ~moved
    BY <2>2, <1>h
  <2> QED BY <2>1, <2>2
<1>t. DOMAIN held.tabs = back /\ \A t \in back : held.tabs[t] = s.tabs[t] /\ t \in DOMAIN s.tabs
  BY <1>h
<1> HIDE DEF back, moved
<1>1. TabsOK(held) /\ GroupsOK(held) /\ ListsOK(held)
  BY <1>s, <1>h, <1>t DEF TabsOK, GroupsOK, ListsOK
<1>2. SpacesOK(held)
  <2>1. moved => held.spaces[now] \in Spaces /\ held.spaces[now].active < held.nextTab
    <3> SUFFICES ASSUME moved
                 PROVE  held.spaces[now] \in Spaces /\ held.spaces[now].active < held.nextTab
      OBVIOUS
    <3>1. split.primary \in TabIds /\ split.primary < s.nextTab
      BY <1>x, <1>t, <1>s DEF moved, TabsOK
    <3>2. s.spaces[now].private \in BOOLEAN
      BY <1>s DEF SpacesOK, Spaces
    <3>3. [private |-> s.spaces[now].private, active |-> split.primary] \in Spaces
      BY <3>1, <3>2 DEF Spaces
    <3> QED BY <3>1, <3>3, <1>w, <1>h
  <2> QED BY <2>1, <1>s, <1>h, <1>w DEF SpacesOK
<1>3. LocalGroups(held)
  BY <1>s, <1>h, <1>t DEF LocalGroups, GroupsOf
<1>4. LocalActives(held)
  <2>1. moved => held.tabs[held.spaces[now].active].space = now
    BY <1>w, <1>x, <1>t DEF moved
  <2>2. \A v \in DOMAIN s.spaces : held.spaces[v] = s.spaces[v] /\ s.spaces[v].active \in back
          => held.tabs[held.spaces[v].active].space = v
    BY <1>s, <1>t DEF LocalActives
  <2> QED BY <2>1, <2>2, <1>w, <1>t DEF LocalActives
<1>5. PairOK(held) /\ split \in Splits
  <2>1. split \in Splits
    <3>1. NoSplit \in Splits
      BY DEF NoSplit, Splits
    <3> QED BY <3>1, <1>x, <1>s
  <2>2. ASSUME split.on
        PROVE  /\ IsPair(held, now, split.primary, split.secondary)
               /\ ActiveTab(held, now) \in Panes(split)
    <3>1. IsPair(held, now, split.primary, split.secondary)
      BY <2>2, <1>x, <1>t DEF IsPair, TabsOf
    <3>2. held.spaces[now].active \in Panes(split)
      BY <2>2, <1>w DEF moved, Panes
    <3>3. Panes(split) \subseteq back
      BY <2>2, <1>x DEF Panes
    <3> QED BY <3>1, <3>2, <3>3, <1>t, <1>w DEF ActiveTab
  <2> QED BY <2>1, <2>2, <1>h DEF PairOK
<1>6. Whole(held)
  BY <1>s, <1>h, <1>1, <1>2, <1>3, <1>4, <1>5 DEF Whole, Bare, Formed
<1>7. \A w \in DOMAIN s.spaces : show(w) =>
        held.spaces[w] = s.spaces[w] /\ ActiveTab(held, w) = s.spaces[w].active
        /\ ActiveTab(held, w) # Nil
  <2> TAKE w \in DOMAIN s.spaces
  <2> HAVE show(w)
  <2>1. w = now => ~moved
    BY <1>x DEF moved
  <2>2. held.spaces[w] = s.spaces[w]
    BY <2>1, <1>w
  <2>3. s.spaces[w].active \in DOMAIN held.tabs
    BY <1>t
  <2> QED BY <2>2, <2>3, <1>1, <1>w, Actives
<1>8. /\ Whole(shown) /\ shown.current = now /\ DOMAIN shown = Names
      /\ back \subseteq DOMAIN shown.tabs /\ DOMAIN shown.tabs \subseteq back \cup {s.nextTab}
      /\ \A t \in back : shown.tabs[t] = s.tabs[t]
      /\ show(now) => shown.split = split
      /\ \A w \in DOMAIN s.spaces : show(w) => ActiveTab(shown, w) = s.spaces[w].active
  <2>1. CASE ActiveTab(held, now) # Nil
    BY <2>1, <1>6, <1>7, <1>h, <1>t
  <2>2. CASE ActiveTab(held, now) = Nil
    <3> DEFINE p == PlainTab(held, now, page)
    <3>1. shown = p
      BY <2>2
    <3>2. /\ Whole(p) /\ p.current = now
          /\ DOMAIN p.spaces = DOMAIN s.spaces /\ DOMAIN p.tabs = back \cup {s.nextTab}
          /\ \A t \in back : p.tabs[t] = held.tabs[t]
          /\ \A v \in DOMAIN s.spaces \ {now} : p.spaces[v] = held.spaces[v]
      <4>1. held.nextTab \in TabIds
        BY <1>h
      <4>2. /\ Whole(p) /\ p.current = held.current
            /\ DOMAIN p.spaces = DOMAIN held.spaces
            /\ DOMAIN p.tabs = DOMAIN held.tabs \cup {held.nextTab}
            /\ \A t \in DOMAIN held.tabs : p.tabs[t] = held.tabs[t]
            /\ \A v \in DOMAIN held.spaces \ {now} : p.spaces[v] = held.spaces[v]
        <5>1. Opened(held, p, now, TRUE)
          BY <1>6, <1>s, <4>1, PlainTabKeeps
        <5> HIDE DEF p
        <5> QED BY <5>1 DEF Opened
      <4> HIDE DEF p
      <4> QED BY <4>2, <1>h, <1>t, <1>w
    <3>3. ~show(now)
      BY <2>2, <1>7
    <3> HIDE DEF p
    <3>4. ASSUME NEW w \in DOMAIN s.spaces, show(w) PROVE ActiveTab(p, w) = s.spaces[w].active
      <4>1. w # now /\ p.spaces[w] = s.spaces[w]
        BY <3>2, <3>3, <3>4, <1>7
      <4> QED BY <4>1, <3>2, <3>4 DEF ActiveTab
    <3> HIDE DEF shown, show
    <3> QED BY <3>1, <3>2, <3>3, <3>4, <1>t DEF Whole, Bare, Formed
  <2> QED BY <2>1, <2>2
<1>9. show(now) /\ s.split.on /\ IsPair(s, now, s.split.primary, s.split.secondary)
        => shown.split = s.split
  BY <1>8 DEF split
<1> HIDE DEF shown
<1> QED BY <1>r, <1>8, <1>9 DEF Returned, back

\* q is the profile s with the tabs that return.
Holds(s, q, restore) ==
    LET back == {t \in DOMAIN s.tabs : restore /\ s.tabs[t].space \notin Private(s)}
    IN  /\ Bare(q) /\ q.current = s.current /\ q.spaces = s.spaces
        /\ q.nextTab = s.nextTab /\ q.split = s.split
        /\ DOMAIN q.tabs = back /\ \A t \in back : q.tabs[t] = s.tabs[t]

LEMMA ReturningIs ==
  ASSUME NEW s, Bare(s), NEW restore \in BOOLEAN
  PROVE  Holds(s, Returning(s, restore), restore)
<1> DEFINE q    == Returning(s, restore)
           back == {t \in DOMAIN s.tabs : restore /\ s.tabs[t].space \notin Private(s)}
           tabs == IF restore
                   THEN Restrict(s.tabs, {t \in DOMAIN s.tabs : s.tabs[t].space \notin Private(s)})
                   ELSE <<>>
<1>s. /\ SpacesOK(s) /\ TabsOK(s) /\ GroupsOK(s) /\ ListsOK(s) /\ DOMAIN s = Names
      /\ LocalGroups(s) /\ LocalActives(s) /\ s.current \in SpaceIds /\ s.split \in Splits
  BY DEF Bare, Formed
<1>b. /\ DOMAIN tabs = back /\ \A t \in back : tabs[t] = s.tabs[t]
  <2>1. CASE restore
    BY <2>1 DEF Restrict
  <2>2. CASE ~restore
    <3>1. tabs = <<>> /\ back = {}
      BY <2>2
    <3>2. DOMAIN <<>> = {}
      OBVIOUS
    <3> HIDE DEF tabs, back
    <3> QED BY <3>1, <3>2
  <2> QED BY <2>1, <2>2
<1>q. /\ DOMAIN q = Names /\ q.tabs = tabs /\ q.spaces = s.spaces /\ q.current = s.current
      /\ q.groups = s.groups /\ q.split = s.split /\ q.closed = s.closed
      /\ q.snapshots = s.snapshots
      /\ q.nextTab = s.nextTab /\ q.nextSpace = s.nextSpace /\ q.nextGroup = s.nextGroup
  BY <1>s DEF Returning, Names
<1>t. back \subseteq DOMAIN s.tabs
  OBVIOUS
<1> HIDE DEF tabs, q, back
<1>1. SpacesOK(q) /\ TabsOK(q) /\ GroupsOK(q) /\ ListsOK(q)
  BY <1>s, <1>b, <1>q, <1>t DEF SpacesOK, TabsOK, GroupsOK, ListsOK
<1>2. LocalGroups(q) /\ LocalActives(q)
  BY <1>s, <1>b, <1>q, <1>t DEF LocalGroups, GroupsOf, LocalActives
<1> QED BY <1>s, <1>b, <1>q, <1>1, <1>2 DEF Bare, Formed, Holds, q, back

\* Onboarding changes the pages of the tabs chosen, and nothing else.
LEMMA StartedIs ==
  ASSUME NEW s, Bare(s), NEW done \in BOOLEAN, NEW chosen
  PROVE  LET q    == OnboardingStart(s, done, chosen)
             page == IF done THEN NewTabPage ELSE OnboardingPage
         IN  /\ Bare(q) /\ q.current = s.current /\ q.spaces = s.spaces
             /\ q.nextTab = s.nextTab /\ q.split = s.split
             /\ DOMAIN q.tabs = DOMAIN s.tabs
             /\ \A t \in DOMAIN s.tabs :
                   q.tabs[t] = IF t \in chosen THEN [s.tabs[t] EXCEPT !.page = page]
                               ELSE s.tabs[t]
<1> DEFINE q    == OnboardingStart(s, done, chosen)
           page == IF done THEN NewTabPage ELSE OnboardingPage
<1>s. /\ SpacesOK(s) /\ TabsOK(s) /\ GroupsOK(s) /\ ListsOK(s) /\ DOMAIN s = Names
      /\ LocalGroups(s) /\ LocalActives(s) /\ s.current \in SpaceIds /\ s.split \in Splits
  BY DEF Bare, Formed
<1>q. /\ DOMAIN q = Names /\ q.spaces = s.spaces /\ q.current = s.current
      /\ q.groups = s.groups /\ q.split = s.split /\ q.closed = s.closed
      /\ q.snapshots = s.snapshots
      /\ q.nextTab = s.nextTab /\ q.nextSpace = s.nextSpace /\ q.nextGroup = s.nextGroup
      /\ DOMAIN q.tabs = DOMAIN s.tabs
      /\ \A t \in DOMAIN s.tabs :
            q.tabs[t] = IF t \in chosen THEN [s.tabs[t] EXCEPT !.page = page] ELSE s.tabs[t]
  BY <1>s DEF OnboardingStart, Names
<1>p. page \in Pages
  BY SessionAssumption
<1> HIDE DEF q, page
<1>t. \A t \in DOMAIN s.tabs : /\ q.tabs[t] \in Tabs /\ q.tabs[t].space = s.tabs[t].space
                               /\ q.tabs[t].group = s.tabs[t].group
  BY <1>s, <1>q, <1>p DEF TabsOK, Tabs
<1>1. SpacesOK(q) /\ TabsOK(q) /\ GroupsOK(q) /\ ListsOK(q)
  BY <1>s, <1>q, <1>t DEF SpacesOK, TabsOK, GroupsOK, ListsOK
<1>2. LocalGroups(q) /\ LocalActives(q)
  BY <1>s, <1>q, <1>t DEF LocalGroups, GroupsOf, LocalActives
<1> QED BY <1>s, <1>q, <1>1, <1>2 DEF Bare, Formed, q, page

-----------------------------------------------------------------------------
(* One step after another.                                                  *)

\* What a tab says of its workspace, group and page.
LEMMA TabsAre ==
  ASSUME NEW s, Whole(s), NEW t \in DOMAIN s.tabs
  PROVE  LET tab == s.tabs[t]
         IN  /\ tab.space \in SpaceIds /\ tab.identity \in SpaceIds \cup {Nil}
             /\ tab.group \in GroupIds \cup {Nil} /\ tab.page \in Pages
             /\ tab.group # Nil => tab.group \in GroupsOf(s, tab.space)
<1>1. s.tabs[t] \in Tabs /\ LocalGroups(s)
  BY DEF Whole, Bare, Formed, TabsOK
<1> QED BY <1>1 DEF Tabs, LocalGroups

\* Within the bound there is an id for another tab.
LEMMA RoomForOne ==
  ASSUME Whole(session), RoomForTabs(1)
  PROVE  session.nextTab \in TabIds
BY SessionAssumption DEF Whole, Bare, Formed, TabsOK, RoomForTabs, TabIds

\* A step s to m that leaves the workspaces, and a tab opened in m.
LEMMA OpenedAfter ==
  ASSUME NEW s, NEW m, NEW r, NEW w, Opened(m, r, w, TRUE), m.nextTab \in TabIds,
         \A v \in DOMAIN s.spaces \cap DOMAIN m.spaces :
            v # w => (ActiveTab(s, v) # Nil => ActiveTab(m, v) # Nil)
  PROVE  Whole(r) /\ Shown(s, r)
<1>1. Whole(r) /\ Shown(m, r) /\ DOMAIN r.spaces = DOMAIN m.spaces
      /\ (w \in DOMAIN m.spaces => ActiveTab(r, w) = m.nextTab)
  BY DEF Opened
<1>2. m.nextTab # Nil
  BY DEF TabIds, Nil
<1>3. ASSUME NEW v \in DOMAIN s.spaces \cap DOMAIN r.spaces, ActiveTab(s, v) # Nil
      PROVE  ActiveTab(r, v) # Nil
  <2>1. CASE v = w
    BY <2>1, <1>1, <1>2
  <2>2. CASE v # w
    BY <2>2, <1>1, <1>3 DEF Shown
  <2> QED BY <2>1, <2>2
<1> QED BY <1>1, <1>3 DEF Shown

\* createTab
LEMMA OpenTabStep ==
  ASSUME Whole(session), NEW page \in Pages, NEW activate \in BOOLEAN, OpenTab(page, activate)
  PROVE  Whole(session') /\ Shown(session, session')
<1>1. session.current \in SpaceIds /\ session.nextTab \in TabIds
  BY RoomForOne DEF Whole, Bare, Formed, OpenTab
<1>2. /\ Nil \in SpaceIds \cup {Nil} /\ Nil \in GroupIds \cup {Nil}
      /\ (Nil # Nil => Nil \in GroupsOf(session, session.current))
  OBVIOUS
<1>3. Opened(session, WithTab(session, session.current, Nil, Nil, page, activate),
             session.current, activate)
  BY <1>1, <1>2, WithTabKeeps
<1> QED BY <1>3 DEF Opened, OpenTab

\* A tab opened by a tab joins its group.
LEMMA OpenFromTabStep ==
  ASSUME Whole(session), NEW t \in DOMAIN session.tabs, NEW page \in Pages,
         NEW activate \in BOOLEAN, OpenFromTab(t, page, activate)
  PROVE  Whole(session') /\ Shown(session, session')
<1> DEFINE w == session.tabs[t].space
           g == session.tabs[t].group
<1>1. w \in SpaceIds /\ g \in GroupIds \cup {Nil} /\ (g # Nil => g \in GroupsOf(session, w))
  BY TabsAre
<1>2. session.nextTab \in TabIds /\ Nil \in SpaceIds \cup {Nil}
  BY RoomForOne DEF OpenFromTab
<1>3. session' = WithTab(session, w, Nil, g, page, activate)
  BY DEF OpenFromTab
<1> HIDE DEF w, g
<1>4. Opened(session, WithTab(session, w, Nil, g, page, activate), w, activate)
  BY <1>1, <1>2, WithTabKeeps
<1> QED BY <1>3, <1>4 DEF Opened

\* So does one that borrows an identity.
LEMMA OpenInIdentityStep ==
  ASSUME Whole(session), NEW t \in DOMAIN session.tabs, NEW identity \in DOMAIN session.spaces,
         NEW page \in Pages, OpenInIdentity(t, identity, page)
  PROVE  Whole(session') /\ Shown(session, session')
<1> DEFINE w == session.tabs[t].space
           g == session.tabs[t].group
<1>1. w \in SpaceIds /\ g \in GroupIds \cup {Nil} /\ (g # Nil => g \in GroupsOf(session, w))
  BY TabsAre
<1>2. session.nextTab \in TabIds /\ identity \in SpaceIds \cup {Nil} /\ TRUE \in BOOLEAN
  BY RoomForOne DEF OpenInIdentity, Whole, Bare, Formed, SpacesOK
<1>3. session' = WithTab(session, w, identity, g, page, TRUE)
  BY DEF OpenInIdentity
<1> HIDE DEF w, g
<1>4. Opened(session, WithTab(session, w, identity, g, page, TRUE), w, TRUE)
  BY <1>1, <1>2, WithTabKeeps
<1> QED BY <1>3, <1>4 DEF Opened

\* duplicateTab
LEMMA DuplicateTabStep ==
  ASSUME Whole(session), NEW t \in DOMAIN session.tabs, DuplicateTab(t)
  PROVE  Whole(session') /\ Shown(session, session')
<1> DEFINE w == session.tabs[t].space
           i == session.tabs[t].identity
           g == session.tabs[t].group
           page == session.tabs[t].page
<1>1. /\ w \in SpaceIds /\ g \in GroupIds \cup {Nil} /\ (g # Nil => g \in GroupsOf(session, w))
      /\ i \in SpaceIds \cup {Nil} /\ page \in Pages
  BY TabsAre
<1>2. session.nextTab \in TabIds /\ TRUE \in BOOLEAN
  BY RoomForOne DEF DuplicateTab
<1>3. session' = WithTab(session, w, i, g, page, TRUE)
  BY DEF DuplicateTab
<1> HIDE DEF w, g, i, page
<1>4. Opened(session, WithTab(session, w, i, g, page, TRUE), w, TRUE)
  BY <1>1, <1>2, WithTabKeeps
<1> QED BY <1>3, <1>4 DEF Opened

\* closeTab: something follows, if only a new tab.
LEMMA CloseTabStep ==
  ASSUME Whole(session), NEW t \in DOMAIN session.tabs, NEW record \in BOOLEAN,
         CloseTab(t, record)
  PROVE  Whole(session') /\ Shown(session, session')
<1> DEFINE w == session.tabs[t].space
<1>1. Followers(session, t) \subseteq TabsOf(session, w) \ {t}
  BY FollowersAre
<1>2. ASSUME NEW next \in Followers(session, t), session' = WithoutTab(session, t, next, record)
      PROVE  Whole(session') /\ Shown(session, session')
  <2>1. next \in {Nil} \cup (TabsOf(session, w) \ {t}) /\ next # Nil
    <3>1. next \in TabIds
      BY <1>1 DEF TabsOf, Whole, Bare, Formed, TabsOK
    <3> QED BY <1>1, <3>1 DEF TabIds, Nil
  <2> QED BY <1>2, <2>1, WithoutTabKeeps
<1>3. ASSUME RoomForTabs(1), session' = NewTab(WithoutTab(session, t, Nil, record), w)
      PROVE  Whole(session') /\ Shown(session, session')
  <2> DEFINE m == WithoutTab(session, t, Nil, record)
  <2>1. /\ Whole(m) /\ DOMAIN m.spaces = DOMAIN session.spaces /\ m.nextTab = session.nextTab
        /\ \A v \in DOMAIN session.spaces \ {w} :
              ActiveTab(session, v) # Nil => ActiveTab(m, v) # Nil
    BY WithoutTabKeeps
  <2>2. m.nextTab \in TabIds /\ w \in SpaceIds /\ NewTabPage \in Pages
    BY <1>3, <2>1, RoomForOne, TabsAre, SessionAssumption
  <2>3. session' = PlainTab(m, w, NewTabPage)
    BY <1>3 DEF NewTab
  <2> HIDE DEF m, w
  <2>4. Opened(m, session', w, TRUE)
    BY <2>1, <2>2, <2>3, PlainTabKeeps
  <2> QED BY <2>1, <2>2, <2>4, OpenedAfter
<1> QED BY <1>2, <1>3 DEF CloseTab

\* Some lists of the session may be replaced.
LEMMA WithClosed ==
  ASSUME NEW s, Whole(s), NEW list \in Seq(Closed), Len(list) <= ClosedLimit
  PROVE  LET r == [s EXCEPT !.closed = list]
         IN  /\ Places(s, r) /\ ListsOK(r) /\ Whole(r) /\ Shown(s, r)
             /\ r.nextTab = s.nextTab /\ r.spaces = s.spaces
<1> DEFINE r == [s EXCEPT !.closed = list]
<1>1. DOMAIN s = Names /\ ListsOK(s)
  BY DEF Whole, Bare, Formed
<1>2. /\ DOMAIN r = Names /\ r.closed = list /\ r.snapshots = s.snapshots
      /\ r.spaces = s.spaces /\ r.tabs = s.tabs /\ r.groups = s.groups
      /\ r.nextTab = s.nextTab /\ r.nextSpace = s.nextSpace /\ r.nextGroup = s.nextGroup
      /\ r.current = s.current /\ r.split = s.split
  BY <1>1 DEF Names
<1> HIDE DEF r
<1>3. Places(s, r) /\ ListsOK(r)
  BY <1>1, <1>2 DEF Places, ListsOK
<1>4. Whole(r) /\ Shown(s, r)
  BY <1>2, <1>3, ListsMayChange
<1> QED BY <1>2, <1>3, <1>4 DEF r

\* And so may the snapshots.
LEMMA WithSnapshots ==
  ASSUME NEW s, Whole(s), NEW list \in Seq(Shots), Len(list) <= SnapshotLimit
  PROVE  LET r == [s EXCEPT !.snapshots = list]
         IN  /\ Places(s, r) /\ Whole(r) /\ Shown(s, r)
             /\ r.nextTab = s.nextTab /\ r.spaces = s.spaces
<1> DEFINE r == [s EXCEPT !.snapshots = list]
<1>1. DOMAIN s = Names /\ ListsOK(s)
  BY DEF Whole, Bare, Formed
<1>2. /\ DOMAIN r = Names /\ r.closed = s.closed /\ r.snapshots = list
      /\ r.spaces = s.spaces /\ r.tabs = s.tabs /\ r.groups = s.groups
      /\ r.nextTab = s.nextTab /\ r.nextSpace = s.nextSpace /\ r.nextGroup = s.nextGroup
      /\ r.current = s.current /\ r.split = s.split
  BY <1>1 DEF Names
<1> HIDE DEF r
<1>3. Places(s, r) /\ ListsOK(r)
  BY <1>1, <1>2 DEF Places, ListsOK
<1>4. Whole(r) /\ Shown(s, r)
  BY <1>2, <1>3, ListsMayChange
<1> QED BY <1>2, <1>3, <1>4 DEF r

\* reopenClosedTab
LEMMA ReopenClosedTabStep ==
  ASSUME Whole(session), ReopenClosedTab
  PROVE  Whole(session') /\ Shown(session, session')
<1> DEFINE list == session.closed
           m    == [session EXCEPT !.closed = Tail(list)]
           w    == Head(list).space
           page == Head(list).page
<1>1. list \in Seq(Closed) /\ Len(list) <= ClosedLimit /\ list # <<>>
  BY DEF ReopenClosedTab, Whole, Bare, Formed, ListsOK
<1>2. Head(list) \in Closed /\ Tail(list) \in Seq(Closed) /\ Len(Tail(list)) <= ClosedLimit
  <2> HIDE DEF list
  <2>1. Len(list) \in Nat /\ Len(Tail(list)) = Len(list) - 1
    BY <1>1
  <2> QED BY <1>1, <2>1, SessionAssumption
<1>3. session' = PlainTab(m, w, page)
  BY DEF ReopenClosedTab
<1>4. w \in SpaceIds /\ page \in Pages
  <2> HIDE DEF list
  <2> QED BY <1>2 DEF Closed
<1>5. Whole(m) /\ Shown(session, m) /\ m.nextTab = session.nextTab /\ m.spaces = session.spaces
  <2> DEFINE tail == Tail(list)
  <2>1. tail \in Seq(Closed) /\ Len(tail) <= ClosedLimit
    BY <1>2
  <2> HIDE DEF tail
  <2>2. LET r == [session EXCEPT !.closed = tail]
        IN  Whole(r) /\ Shown(session, r) /\ r.nextTab = session.nextTab
            /\ r.spaces = session.spaces
    BY <2>1, WithClosed
  <2> QED BY <2>2 DEF tail
<1>6. m.nextTab \in TabIds
  BY <1>5, RoomForOne DEF ReopenClosedTab
<1> HIDE DEF m, w, page
<1>7. Opened(m, session', w, TRUE)
  BY <1>3, <1>4, <1>5, <1>6, PlainTabKeeps
<1>8. \A v \in DOMAIN session.spaces \cap DOMAIN m.spaces :
         v # w => (ActiveTab(session, v) # Nil => ActiveTab(m, v) # Nil)
  BY <1>5 DEF Shown
<1> QED BY <1>6, <1>7, <1>8, OpenedAfter
\* A split view may be set to two tabs of the workspace on screen, one of which shows.
LEMMA SplitMayBe ==
  ASSUME NEW s, Whole(s), NEW r, Places(s, r), r.closed = s.closed, r.snapshots = s.snapshots,
         r.current = s.current, NEW p, NEW q,
         \/ r.split = NoSplit
         \/ /\ r.split = [on |-> TRUE, primary |-> p, secondary |-> q]
            /\ IsPair(s, s.current, p, q) /\ ActiveTab(s, s.current) \in {p, q}
  PROVE  Whole(r) /\ Shown(s, r)
<1>1. ListsOK(r) /\ r.current \in SpaceIds
  BY DEF Whole, Bare, Formed, ListsOK
<1>2. CASE r.split = NoSplit
  BY <1>1, <1>2, SplitMayEnd DEF Whole
<1>3. CASE /\ r.split = [on |-> TRUE, primary |-> p, secondary |-> q]
           /\ IsPair(s, s.current, p, q) /\ ActiveTab(s, s.current) \in {p, q}
  <2>1. p \in TabIds /\ q \in TabIds
    BY <1>3 DEF IsPair, TabsOf, Whole, Bare, Formed, TabsOK
  <2>2. r.split \in Splits /\ r.split.primary = p /\ r.split.secondary = q
    BY <1>3, <2>1 DEF Splits
  <2>3. Bare(r) /\ Shown(s, r)
        /\ \A w : TabsOf(r, w) = TabsOf(s, w) /\ ActiveTab(r, w) = ActiveTab(s, w)
    BY <1>1, <2>2, PlacesKeep DEF Whole
  <2>4. PairOK(r)
    BY <1>3, <2>2, <2>3 DEF PairOK, IsPair, Panes
  <2> QED BY <2>3, <2>4 DEF Whole
<1> QED BY <1>2, <1>3

\* What a new split view leaves alone.
LEMMA WithSplit ==
  ASSUME NEW s, DOMAIN s = Names, NEW split
  PROVE  LET r == [s EXCEPT !.split = split]
         IN  /\ Places(s, r) /\ r.closed = s.closed /\ r.snapshots = s.snapshots
             /\ r.current = s.current /\ r.split = split
BY DEF Places, Names

\* swapSplitPanes
LEMMA SwapStep ==
  ASSUME Whole(session), SwapSplitPanes
  PROVE  Whole(session') /\ Shown(session, session')
<1> DEFINE p == session.split.primary
           q == session.split.secondary
           now == session.current
           valid == IsPair(session, now, p, q) /\ ActiveTab(session, now) \in Panes(session.split)
           split == IF valid THEN [session.split EXCEPT !.primary = q, !.secondary = p]
                    ELSE NoSplit
<1>1. session' = [session EXCEPT !.split = split] /\ session.split.on
  BY DEF SwapSplitPanes
<1>2. DOMAIN session = Names /\ session.split \in Splits
  BY DEF Whole, Bare, Formed
<1>3. valid => split = [on |-> TRUE, primary |-> q, secondary |-> p]
  BY <1>1, <1>2 DEF Splits
<1>4. valid => IsPair(session, now, q, p) /\ ActiveTab(session, now) \in {q, p}
  BY DEF IsPair, Panes
<1>5. ~valid => split = NoSplit
  OBVIOUS
<1> HIDE DEF split, valid
<1>6. /\ Places(session, session') /\ session'.closed = session.closed
      /\ session'.snapshots = session.snapshots
      /\ session'.current = session.current /\ session'.split = split
  BY <1>1, <1>2, WithSplit
<1>7. \/ session'.split = NoSplit
      \/ /\ session'.split = [on |-> TRUE, primary |-> q, secondary |-> p]
         /\ IsPair(session, now, q, p) /\ ActiveTab(session, now) \in {q, p}
  BY <1>3, <1>4, <1>5, <1>6
<1> QED BY <1>6, <1>7, SplitMayBe

\* setSplitView makes a pair, or ends the split view.
LEMMA SplitKeeps ==
  ASSUME NEW s, Whole(s), NEW p, NEW q, p = ActiveTab(s, s.current)
  PROVE  Whole(Split(s, p, q)) /\ Shown(s, Split(s, p, q))
<1> DEFINE r == Split(s, p, q)
           split == IF IsPair(s, s.current, p, q)
                    THEN [on |-> TRUE, primary |-> p, secondary |-> q] ELSE NoSplit
<1>1. r = [s EXCEPT !.split = split]
  BY DEF Split
<1>2. DOMAIN s = Names
  BY DEF Whole, Bare, Formed
<1>3. \/ split = NoSplit
      \/ /\ split = [on |-> TRUE, primary |-> p, secondary |-> q]
         /\ IsPair(s, s.current, p, q) /\ ActiveTab(s, s.current) \in {p, q}
  OBVIOUS
<1> HIDE DEF r, split
<1>4. /\ Places(s, r) /\ r.closed = s.closed /\ r.snapshots = s.snapshots
      /\ r.current = s.current /\ r.split = split
  BY <1>1, <1>2, WithSplit
<1>5. \/ r.split = NoSplit
      \/ /\ r.split = [on |-> TRUE, primary |-> p, secondary |-> q]
         /\ IsPair(s, s.current, p, q) /\ ActiveTab(s, s.current) \in {p, q}
  BY <1>3, <1>4
<1>6. Whole(r) /\ Shown(s, r)
  BY <1>4, <1>5, SplitMayBe
<1> QED BY <1>6 DEF r

\* toggleSplitView, with another tab or a new one.
LEMMA EnterSplitStep ==
  ASSUME Whole(session), EnterSplit
  PROVE  Whole(session') /\ Shown(session, session')
<1> DEFINE w      == session.current
           active == ActiveTab(session, w)
           others == TabsOf(session, w) \ {active}
<1>1. ASSUME NEW t \in others, session' = Split(session, active, t)
      PROVE  Whole(session') /\ Shown(session, session')
  BY <1>1, SplitKeeps
<1>2. ASSUME RoomForTabs(1),
             session' = Split(WithTab(session, w, Nil, Nil, NewTabPage, FALSE),
                              active, session.nextTab),
             active # Nil
      PROVE  Whole(session') /\ Shown(session, session')
  <2> DEFINE m == WithTab(session, w, Nil, Nil, NewTabPage, FALSE)
  <2>1. /\ session.nextTab \in TabIds /\ w \in SpaceIds /\ NewTabPage \in Pages
        /\ DOMAIN session = Names /\ FALSE \in BOOLEAN
    BY <1>2, RoomForOne, SessionAssumption DEF Whole, Bare, Formed
  <2>2. /\ Nil \in SpaceIds \cup {Nil} /\ Nil \in GroupIds \cup {Nil}
        /\ (Nil # Nil => Nil \in GroupsOf(session, w))
    OBVIOUS
  <2>3. Opened(session, m, w, FALSE)
    <3> HIDE DEF w
    <3> QED BY <2>1, <2>2, WithTabKeeps
  <2>4. m.spaces = session.spaces
    BY <2>1 DEF WithTab, Names
  <2> HIDE DEF m
  <2>5. Whole(m) /\ Shown(session, m) /\ m.current = w
        /\ DOMAIN m.tabs = DOMAIN session.tabs \cup {session.nextTab}
    BY <2>3 DEF Opened
  <2>6. active = ActiveTab(m, m.current)
    BY <1>2, <2>4, <2>5 DEF ActiveTab
  <2>7. Whole(session') /\ Shown(m, session')
    BY <1>2, <2>5, <2>6, SplitKeeps DEF m
  <2> QED BY <2>4, <2>5, <2>7 DEF Shown
<1> QED BY <1>1, <1>2 DEF EnterSplit

\* Leaving the split view.
LEMMA ExitSplitStep ==
  ASSUME Whole(session), ExitSplit
  PROVE  Whole(session') /\ Shown(session, session')
<1>1. DOMAIN session = Names /\ session' = [session EXCEPT !.split = NoSplit]
  BY DEF Whole, Bare, Formed, ExitSplit
<1>2. /\ Places(session, session') /\ session'.closed = session.closed
      /\ session'.snapshots = session.snapshots
      /\ session'.current = session.current /\ session'.split = NoSplit
  BY <1>1, WithSplit
<1> QED BY <1>2, SplitMayBe

\* setActiveWorkspace: the split view ends, and a blank workspace gets a tab.
LEMMA SetActiveWorkspaceStep ==
  ASSUME Whole(session), NEW w \in DOMAIN session.spaces, SetActiveWorkspace(w)
  PROVE  Whole(session') /\ Shown(session, session')
<1>0. PICK list \in Captures(session, session.current) :
         LET moved == [session EXCEPT !.current = w, !.split = NoSplit, !.snapshots = list]
         IN  session' = moved \/ (session' = NewTab(moved, w) /\ RoomForTabs(1))
  BY DEF SetActiveWorkspace
<1> DEFINE m == [session EXCEPT !.current = w, !.split = NoSplit, !.snapshots = list]
<1>1. DOMAIN session = Names /\ ListsOK(session) /\ w \in SpaceIds /\ Bare(session)
  BY DEF Whole, Bare, Formed, SpacesOK
<1>2. list \in Seq(Shots) /\ Len(list) <= SnapshotLimit
  BY CapturedKeeps DEF Whole, Bare, Formed
<1>3. session' = m \/ (session' = NewTab(m, w) /\ RoomForTabs(1))
  BY <1>0
<1>4. /\ DOMAIN m = Names /\ m.closed = session.closed /\ m.snapshots = list
      /\ m.spaces = session.spaces /\ m.tabs = session.tabs /\ m.groups = session.groups
      /\ m.nextTab = session.nextTab /\ m.nextSpace = session.nextSpace
      /\ m.nextGroup = session.nextGroup /\ m.current = w /\ m.split = NoSplit
  BY <1>1 DEF Names
<1> HIDE DEF m
<1>5. Places(session, m) /\ ListsOK(m)
  BY <1>1, <1>2, <1>4 DEF Places, ListsOK
<1>6. Whole(m) /\ Shown(session, m) /\ \A v : ActiveTab(m, v) = ActiveTab(session, v)
  BY <1>1, <1>4, <1>5, SplitMayEnd
<1>7. ASSUME session' = NewTab(m, w), RoomForTabs(1)
      PROVE  Whole(session') /\ Shown(session, session')
  <2>1. m.nextTab \in TabIds /\ NewTabPage \in Pages
    BY <1>4, <1>7, RoomForOne, SessionAssumption
  <2>2. session' = PlainTab(m, w, NewTabPage)
    BY <1>7 DEF NewTab
  <2>3. Opened(m, session', w, TRUE)
    BY <1>1, <1>6, <2>1, <2>2, PlainTabKeeps
  <2> QED BY <1>6, <2>1, <2>3, OpenedAfter
<1> QED BY <1>3, <1>6, <1>7

\* createWorkspace
LEMMA CreateWorkspaceStep ==
  ASSUME Whole(session), NEW private \in BOOLEAN, CreateWorkspace(private)
  PROVE  Whole(session') /\ Shown(session, session')
<1> DEFINE w == session.nextSpace
           m == [session EXCEPT !.spaces    = Put(@, w, [private |-> private, active |-> Nil]),
                                !.current   = w,
                                !.split     = NoSplit,
                                !.groups    = Put(@, session.nextGroup, w),
                                !.nextSpace = w + 1,
                                !.nextGroup = session.nextGroup + 1]
<1>1. w \in SpaceIds /\ session.nextGroup \in GroupIds /\ RoomForTabs(1)
      /\ session' = NewTab(m, w)
  BY DEF CreateWorkspace
<1>2. /\ Whole(m) /\ m.nextTab = session.nextTab
      /\ DOMAIN m.spaces = DOMAIN session.spaces \cup {w}
      /\ \A v \in DOMAIN session.spaces \ {w} : ActiveTab(m, v) = ActiveTab(session, v)
  BY <1>1, CreatedKeeps
<1> HIDE DEF m, w
<1>3. m.nextTab \in TabIds /\ NewTabPage \in Pages
  BY <1>1, <1>2, RoomForOne, SessionAssumption
<1>4. session' = PlainTab(m, w, NewTabPage)
  BY <1>1 DEF NewTab
<1>5. Opened(m, session', w, TRUE)
  BY <1>1, <1>2, <1>3, <1>4, PlainTabKeeps
<1>6. \A v \in DOMAIN session.spaces \cap DOMAIN m.spaces :
         v # w => (ActiveTab(session, v) # Nil => ActiveTab(m, v) # Nil)
  BY <1>2
<1> QED BY <1>3, <1>5, <1>6, OpenedAfter

\* addSessionSnapshot
LEMMA AddSnapshotStep ==
  ASSUME Whole(session), AddSessionSnapshot
  PROVE  Whole(session') /\ Shown(session, session')
<1>0. PICK list \in Captures(session, session.current) :
         session' = [session EXCEPT !.snapshots = list]
  BY DEF AddSessionSnapshot
<1>1. list \in Seq(Shots) /\ Len(list) <= SnapshotLimit
  BY CapturedKeeps DEF Whole, Bare, Formed
<1> QED BY <1>0, <1>1, WithSnapshots

\* restoreSessionSnapshot: the capture, then the tabs of the snapshot.
LEMMA RestoreSnapshotStep ==
  ASSUME Whole(session), NEW i \in DOMAIN session.snapshots, RestoreSessionSnapshot(i)
  PROVE  Whole(session') /\ Shown(session, session')
<1> DEFINE shot  == session.snapshots[i]
           pages == shot.pages
           w     == IF shot.space = Nil THEN session.current
                    ELSE IF shot.space \in DOMAIN session.spaces THEN shot.space
                    ELSE session.nextSpace
           ids   == session.nextTab .. session.nextTab + Cardinality(shot.pages) - 1
<1>2. shot \in Shots
  BY DEF Whole, Bare, Formed, ListsOK
<1>3. pages \in (SUBSET Pages) \ {{}} /\ IsFiniteSet(pages)
  <2> HIDE DEF shot
  <2> QED BY <1>2 DEF Shots, Snapshots
<1>4. PICK new \in {{}, {session.nextGroup}}, list \in Captures(session, session.current) :
         /\ new \subseteq GroupIds
         /\ \E placed \in [ids -> new \cup GroupsOf(session, w)], t \in ids :
               session' = WithRestored([session EXCEPT !.snapshots = list], w, pages,
                                       placed, t, new)
  BY DEF RestoreSessionSnapshot
<1>1. list \in Seq(Shots) /\ Len(list) <= SnapshotLimit
  BY CapturedKeeps DEF Whole, Bare, Formed
<1> DEFINE saved == [session EXCEPT !.snapshots = list]
<1>r. w \in SpaceIds /\ RoomForTabs(Cardinality(pages))
  BY DEF RestoreSessionSnapshot
<1>p. PICK placed \in [ids -> new \cup GroupsOf(session, w)], t \in ids :
         session' = WithRestored(saved, w, pages, placed, t, new)
  BY <1>4
<1>5. /\ Places(session, saved) /\ Whole(saved) /\ Shown(session, saved)
      /\ saved.nextTab = session.nextTab /\ saved.spaces = session.spaces
  BY <1>1, WithSnapshots
<1> HIDE DEF saved, w, shot
<1>6. GroupsOf(saved, w) = GroupsOf(session, w) /\ saved.nextGroup = session.nextGroup
  BY <1>5 DEF Places, GroupsOf
<1>7. saved.nextTab + Cardinality(pages) <= MaxTabs + 1
      /\ ids = saved.nextTab .. saved.nextTab + Cardinality(pages) - 1
  BY <1>r, <1>5 DEF RoomForTabs
<1> HIDE DEF pages, ids
<1>8. Whole(session') /\ Shown(saved, session')
  BY <1>3, <1>4, <1>r, <1>p, <1>5, <1>6, <1>7, RestoredKeeps
<1> QED BY <1>5, <1>8 DEF Shown

\* removeSessionSnapshot
LEMMA RemoveSnapshotStep ==
  ASSUME Whole(session), NEW i \in DOMAIN session.snapshots, RemoveSessionSnapshot(i)
  PROVE  Whole(session') /\ Shown(session, session')
<1> DEFINE old  == session.snapshots
           list == RemoveAt(old, i)
<1>1. old \in Seq(Shots) /\ Len(old) <= SnapshotLimit /\ Len(old) \in Nat /\ i \in 1 .. Len(old)
  BY DEF Whole, Bare, Formed, ListsOK
<1>2. session' = [session EXCEPT !.snapshots = list]
  BY DEF RemoveSessionSnapshot
<1>3. list = SubSeq(old, 1, i - 1) \o SubSeq(old, i + 1, Len(old))
  BY DEF RemoveAt
<1> HIDE DEF old, list
<1>4. /\ SubSeq(old, 1, i - 1) \in Seq(Shots) /\ Len(SubSeq(old, 1, i - 1)) = i - 1
      /\ SubSeq(old, i + 1, Len(old)) \in Seq(Shots)
      /\ Len(SubSeq(old, i + 1, Len(old))) = Len(old) - i
  BY <1>1
<1>5. list \in Seq(Shots) /\ Len(list) = (i - 1) + (Len(old) - i)
  BY <1>3, <1>4
<1>6. Len(list) <= SnapshotLimit
  BY <1>1, <1>5, SessionAssumption
<1> QED BY <1>2, <1>5, <1>6, WithSnapshots

\* hydrate makes a window of the tabs that return.
LEMMA HydrationsAre ==
  ASSUME NEW s, Bare(s), s.current \in DOMAIN s.spaces, s.nextTab \in TabIds,
         NEW done \in BOOLEAN, NEW chosen, NEW home \in Pages,
         NEW r \in Hydrations(s, done, chosen, home)
  PROVE  Whole(r) /\ Returned(OnboardingStart(s, done, chosen), r)
<1> DEFINE q     == OnboardingStart(s, done, chosen)
           page  == IF done \/ Showing(q.tabs, OnboardingPage) # {} THEN home
                    ELSE OnboardingPage
           shown == Rehydrated(q, page)
<1>1. Bare(q) /\ q.current \in DOMAIN q.spaces /\ q.nextTab \in TabIds
  BY StartedIs
<1>2. page \in Pages
  BY SessionAssumption
<1>3. PICK list : /\ r = [shown EXCEPT !.snapshots = list]
                  /\ list = shown.snapshots \/ list \in Captures(shown, shown.current)
  BY DEF Hydrations
<1> HIDE DEF q, page
<1>4. Whole(shown) /\ Returned(q, shown)
  BY <1>1, <1>2, RehydratedIs
<1> HIDE DEF shown
<1>5. list \in Seq(Shots) /\ Len(list) <= SnapshotLimit
  BY <1>3, <1>4, CapturedKeeps DEF Whole, Bare, Formed, ListsOK
<1>6. Whole(r) /\ Places(shown, r) /\ r.current = shown.current /\ r.split = shown.split
  <2>1. Whole(r) /\ Places(shown, r)
    BY <1>3, <1>4, <1>5, WithSnapshots
  <2>2. DOMAIN shown = Names
    BY <1>4 DEF Whole, Bare, Formed
  <2> QED BY <1>3, <2>1, <2>2 DEF Names
<1>7. Returned(q, r)
  BY <1>4, <1>6 DEF Returned, Places, ActiveTab
<1> QED BY <1>6, <1>7 DEF q

\* A restart makes whole what the file holds.
LEMMA RestartStep ==
  ASSUME Whole(session), onboarded \in BOOLEAN,
         NEW restore \in BOOLEAN, NEW home \in HomePages, Restart(restore, home)
  PROVE  Whole(session')
<1> DEFINE m == Migrated(Persisted(session))
           q == Returning(m, restore)
<1>1. PICK chosen : session' \in Hydrations(q, onboarded, chosen, home)
  BY DEF Restart
<1>2. Bare(m) /\ m.current \in DOMAIN session.spaces /\ m.spaces = session.spaces
      /\ m.nextTab = session.nextTab
  BY MigratedIs
<1> HIDE DEF m
<1>3. Bare(q) /\ q.current = m.current /\ q.spaces = m.spaces /\ q.nextTab = m.nextTab
  BY <1>2, ReturningIs DEF Holds
<1>4. session.nextTab \in TabIds /\ home \in Pages
  BY RoomForOne DEF Restart, HomePages
<1> HIDE DEF q
<1> QED BY <1>1, <1>2, <1>3, <1>4, HydrationsAre

-----------------------------------------------------------------------------
(* The specification.                                                       *)

\* The profile of a first run, and the session its first start makes of it.
LEMMA FreshIsBare == Bare(FreshProfile)
<1> DEFINE s   == FreshProfile
           tab == [space |-> 1, identity |-> Nil, group |-> Nil, page |-> NewTabPage]
           one == [private |-> FALSE, active |-> 1]
<1>c. /\ 1 \in SpaceIds /\ 1 \in TabIds /\ 2 \in 1 .. MaxTabs + 1 /\ 2 \in 1 .. MaxSpaces + 1
      /\ 1 \in 1 .. MaxGroups + 1 /\ NewTabPage \in Pages
      /\ ClosedLimit \in Nat /\ SnapshotLimit \in Nat
  BY SessionAssumption DEF SpaceIds, TabIds
<1>1. /\ DOMAIN s = Names /\ s.current = 1 /\ s.split = NoSplit
      /\ s.spaces = [w \in {1} |-> one] /\ s.tabs = [t \in {1} |-> tab]
      /\ s.groups = <<>> /\ s.closed = <<>> /\ s.snapshots = <<>>
      /\ s.nextTab = 2 /\ s.nextSpace = 2 /\ s.nextGroup = 1
  BY DEF FreshProfile, Names
<1>2. /\ DOMAIN s.spaces = {1} /\ s.spaces[1] = one
      /\ DOMAIN s.tabs = {1} /\ s.tabs[1] = tab
  BY <1>1
<1>3. one \in Spaces /\ one.active = 1 /\ tab \in Tabs /\ tab.group = Nil /\ tab.space = 1
  BY <1>c DEF Spaces, Tabs
<1> HIDE DEF tab, one, s
<1>4. SpacesOK(s) /\ TabsOK(s)
  BY <1>c, <1>1, <1>2, <1>3 DEF SpacesOK, TabsOK
<1>5. GroupsOK(s)
  BY <1>c, <1>1 DEF GroupsOK
<1>6. ListsOK(s)
  BY <1>c, <1>1 DEF ListsOK
<1>7. LocalGroups(s) /\ LocalActives(s)
  BY <1>2, <1>3 DEF LocalGroups, LocalActives
<1>8. s.split \in Splits
  BY <1>1, NoPair
<1>9. Bare(s)
  BY <1>c, <1>1, <1>4, <1>5, <1>6, <1>7, <1>8 DEF Bare, Formed
<1> QED BY <1>9 DEF s

LEMMA InitIsWhole ==
  ASSUME SessionInit
  PROVE  Whole(session) /\ onboarded \in BOOLEAN
<1>1. session \in Hydrations(FreshProfile, FALSE, {1}, NewTabPage)
  BY DEF SessionInit
<1>2. FreshProfile.nextTab = 2 /\ FreshProfile.current = 1 /\ DOMAIN FreshProfile.spaces = {1}
  BY DEF FreshProfile
<1>3. Hydrations(FreshProfile, FALSE, {1}, NewTabPage) # {} /\ NewTabPage \in Pages
  BY <1>1, SessionAssumption
<1>4. 2 \in TabIds
  BY SessionAssumption DEF TabIds
<1>5. Whole(session)
  BY <1>1, <1>2, <1>3, <1>4, FreshIsBare, HydrationsAre
<1> QED BY <1>5 DEF SessionInit

\* Every operation keeps the session whole, and all but a restart keep what is shown.
LEMMA SessionStep ==
  ASSUME Whole(session), onboarded \in BOOLEAN, [SessionNext]_sessionVars
  PROVE  /\ Whole(session') /\ onboarded' \in BOOLEAN
         /\ Shown(session, session') \/ \E restore \in BOOLEAN : Restarting(restore)
<1> DEFINE Goal == Whole(session')
                   /\ (Shown(session, session') \/ \E restore \in BOOLEAN : Restarting(restore))
<1>0. Addresses \subseteq Pages
  BY SessionAssumption
<1>1. ASSUME NEW page \in Addresses, NEW activate \in BOOLEAN, OpenTab(page, activate) PROVE Goal
  BY <1>0, <1>1, OpenTabStep
<1>2. ASSUME NEW t \in DOMAIN session.tabs, UseTab(t) PROVE Goal
  <2>1. CASE \E page \in Addresses, activate \in BOOLEAN : OpenFromTab(t, page, activate)
    BY <1>0, <2>1, OpenFromTabStep
  <2>2. CASE \E page \in Addresses, w \in DOMAIN session.spaces \cap Lenders :
               OpenInIdentity(t, w, page)
    BY <1>0, <2>2, OpenInIdentityStep
  <2>3. CASE DuplicateTab(t)
    BY <2>3, DuplicateTabStep
  <2>4. CASE \E page \in Addresses : NavigateTab(t, page)
    BY <1>0, <2>4, NavigatedKeeps DEF NavigateTab
  <2>5. CASE ActivateTab(t)
    BY <2>5, ActivatedKeeps DEF ActivateTab
  <2>6. CASE \E record \in BOOLEAN : CloseTab(t, record)
    BY <2>6, CloseTabStep
  <2> HIDE DEF Goal
  <2> QED BY <1>2, <2>1, <2>2, <2>3, <2>4, <2>5, <2>6 DEF UseTab
<1>3. ASSUME NEW w \in DOMAIN session.spaces, UseWorkspace(w) PROVE Goal
  <2>1. CASE SetActiveWorkspace(w)
    BY <2>1, SetActiveWorkspaceStep
  <2>2. CASE \E private \in BOOLEAN : UpdateWorkspaceIdentity(w, private)
    BY <2>2, IdentityKeeps DEF UpdateWorkspaceIdentity
  <2>3. CASE DeleteWorkspace(w)
    BY <2>3, WithoutWorkspaceKeeps DEF DeleteWorkspace
  <2> HIDE DEF Goal
  <2> QED BY <1>3, <2>1, <2>2, <2>3 DEF UseWorkspace
<1>4. ASSUME ReopenClosedTab PROVE Goal
  BY <1>4, ReopenClosedTabStep
<1>5. ASSUME SwapSplitPanes PROVE Goal
  BY <1>5, SwapStep
<1>6. ASSUME EnterSplit PROVE Goal
  BY <1>6, EnterSplitStep
<1>7. ASSUME ExitSplit PROVE Goal
  BY <1>7, ExitSplitStep
<1>8. ASSUME NEW private \in BOOLEAN, CreateWorkspace(private) PROVE Goal
  BY <1>8, CreateWorkspaceStep
<1>9. ASSUME AddSessionSnapshot PROVE Goal
  BY <1>9, AddSnapshotStep
<1>10. ASSUME NEW i \in DOMAIN session.snapshots, RestoreSessionSnapshot(i) PROVE Goal
  BY <1>10, RestoreSnapshotStep
<1>11. ASSUME NEW i \in DOMAIN session.snapshots, RemoveSessionSnapshot(i) PROVE Goal
  BY <1>11, RemoveSnapshotStep
<1>12. ASSUME NEW restore \in BOOLEAN, NEW home \in HomePages, Restart(restore, home)
       PROVE  Goal
  BY <1>12, RestartStep DEF Restarting
<1>13. ASSUME UNCHANGED sessionVars \/ CompleteOnboarding PROVE Goal
  BY <1>13 DEF Shown, CompleteOnboarding, sessionVars
<1>14. ASSUME Operation PROVE Goal
  <2> HIDE DEF Goal
  <2> QED BY <1>14, <1>1, <1>2, <1>3, <1>4, <1>5, <1>6, <1>7, <1>8, <1>9, <1>10, <1>11
          DEF Operation
<1>15. onboarded' \in BOOLEAN
  BY DEF SessionNext, CompleteOnboarding, Restart, sessionVars
<1>16. Goal
  <2> HIDE DEF Goal
  <2> QED BY <1>12, <1>13, <1>14 DEF SessionNext
<1> QED BY <1>15, <1>16

\* The invariant says what the run checks.
LEMMA WholeIsConsistent ==
  ASSUME Whole(session), onboarded \in BOOLEAN
  PROVE  SessionIsConsistent
<1>s. /\ SpacesOK(session) /\ TabsOK(session) /\ GroupsOK(session) /\ ListsOK(session)
      /\ DOMAIN session = Names /\ LocalGroups(session) /\ LocalActives(session)
      /\ PairOK(session) /\ session.current \in SpaceIds /\ session.split \in Splits
  BY DEF Whole, Bare, Formed
<1>1. session.snapshots \in Seq(Snapshots)
  <2>1. session.snapshots \in Seq(Shots) /\ Shots \subseteq Snapshots
    BY <1>s DEF ListsOK, Shots
  <2> QED BY <2>1
<1>2. SessionTypeOK
  BY <1>s, <1>1 DEF SessionTypeOK, SpacesOK, TabsOK, GroupsOK, ListsOK, Names
<1>3. SplitPairValid
  BY <1>s DEF SplitPairValid, PairOK
<1>4. GroupsAreLocal
  BY <1>s DEF GroupsAreLocal, LocalGroups
<1>5. ActiveTabsAreLocal
  BY <1>s DEF ActiveTabsAreLocal, LocalActives, ActiveTab, TabsOf
<1> QED BY <1>2, <1>3, <1>4, <1>5 DEF SessionIsConsistent

\* What RestartKeepsSession says of a restart that restores tabs.
Kept ==
    LET here == DOMAIN session.spaces \ Private(session)
        kept == {t \in DOMAIN session.tabs :
                    /\ session.tabs[t].space \in here
                    /\ session.tabs[t].identity \in DOMAIN session.spaces \cup {Nil}}
        onSetUp == kept \cap Showing(session.tabs, OnboardingPage)
        taken   == {t \in kept \ onSetUp :
                       session'.tabs[t].page # session.tabs[t].page}
        active  == session.spaces[session'.current].active
    IN  /\ kept = DOMAIN session'.tabs \cap DOMAIN session.tabs
        /\ \A t \in kept : InPlace(session'.tabs, session.tabs, t)
        /\ \A t \in onSetUp : session'.tabs[t].page =
                                 IF onboarded THEN NewTabPage ELSE OnboardingPage
        /\ \A t \in taken :
              /\ ~onboarded /\ onSetUp = {} /\ taken = {t}
              /\ session'.tabs[t].page = OnboardingPage
              /\ active \in kept => t = active
        /\ session.current \in DOMAIN session.spaces =>
              session'.current = session.current
        /\ session.split.on /\ Panes(session.split) \subseteq kept =>
              session'.split = session.split
        /\ \A w \in here : session.spaces[w].active \in kept =>
              ActiveTab(session', w) = session.spaces[w].active

\* A restart that restores tabs keeps what RestartKeepsSession says.
LEMMA RestartKeeps ==
  ASSUME Whole(session), onboarded \in BOOLEAN, NEW home \in HomePages, Restart(TRUE, home)
  PROVE  Kept
<1> DEFINE here == DOMAIN session.spaces \ Private(session)
           kept == {t \in DOMAIN session.tabs :
                       /\ session.tabs[t].space \in here
                       /\ session.tabs[t].identity \in DOMAIN session.spaces \cup {Nil}}
           onSetUp == kept \cap Showing(session.tabs, OnboardingPage)
           taken   == {t \in kept \ onSetUp :
                          session'.tabs[t].page # session.tabs[t].page}
           m    == Migrated(Persisted(session))
           q    == Returning(m, TRUE)
           page == IF onboarded THEN NewTabPage ELSE OnboardingPage
<1>r. PICK chosen \in OnboardingChoices(q, onboarded) :
         session' \in Hydrations(q, onboarded, chosen, home)
  BY DEF Restart
<1> DEFINE u == OnboardingStart(q, onboarded, chosen)
           show(w) == u.spaces[w].active \in DOMAIN u.tabs
                      /\ (w = u.current /\ u.split.on => u.spaces[w].active \in Panes(u.split))
<1>1. /\ Bare(m) /\ m.current \in DOMAIN session.spaces /\ m.spaces = session.spaces
      /\ m.nextTab = session.nextTab
      /\ session.current \in DOMAIN session.spaces => m.current = session.current
      /\ DOMAIN m.tabs = kept /\ \A t \in kept : m.tabs[t] = session.tabs[t]
      /\ m.split.on => m.split = session.split /\ m.current = session.current
      /\ session.split.on /\ Panes(session.split) \subseteq kept => m.split = session.split
      /\ ~session.split.on => ~m.split.on
  BY MigratedIs
<1> HIDE DEF m
<1>2. /\ Bare(q) /\ q.current = m.current /\ q.spaces = m.spaces
      /\ q.nextTab = m.nextTab /\ q.split = m.split
      /\ DOMAIN q.tabs = kept /\ \A t \in kept : q.tabs[t] = session.tabs[t]
  <2>1. Private(m) = Private(session)
    BY <1>1 DEF Private
  <2>2. \A t \in DOMAIN m.tabs : m.tabs[t].space \notin Private(m)
    BY <1>1, <2>1
  <2>3. Holds(m, q, TRUE)
    BY <1>1, ReturningIs
  <2> HIDE DEF kept, q
  <2> QED BY <1>1, <2>2, <2>3 DEF Holds
<1> HIDE DEF q
<1>3. /\ Bare(u) /\ u.current = q.current /\ u.spaces = q.spaces
      /\ u.nextTab = q.nextTab /\ u.split = q.split /\ DOMAIN u.tabs = DOMAIN q.tabs
      /\ \A t \in DOMAIN q.tabs :
            u.tabs[t] = IF t \in chosen THEN [q.tabs[t] EXCEPT !.page = page] ELSE q.tabs[t]
  BY <1>2, StartedIs
<1>4. session.nextTab \in TabIds /\ home \in Pages
  BY RoomForOne DEF Restart, HomePages
<1>5. Returned(u, session')
  BY <1>r, <1>1, <1>2, <1>4, HydrationsAre
<1> HIDE DEF u, kept
<1>6. /\ session'.current = m.current
      /\ kept \subseteq DOMAIN session'.tabs
      /\ DOMAIN session'.tabs \subseteq kept \cup {session.nextTab}
      /\ \A t \in kept : session'.tabs[t] = IF t \in chosen
                                           THEN [session.tabs[t] EXCEPT !.page = page]
                                           ELSE session.tabs[t]
  BY <1>1, <1>2, <1>3, <1>5 DEF Returned
<1>7. kept = DOMAIN session'.tabs \cap DOMAIN session.tabs
  <2>1. session.nextTab \notin DOMAIN session.tabs
    BY <1>4 DEF Whole, Bare, Formed, TabsOK, TabIds
  <2>2. kept \subseteq DOMAIN session.tabs
    BY DEF kept
  <2> QED BY <1>6, <2>1, <2>2
<1>8. \A t \in kept : /\ session.tabs[t] \in Tabs /\ t \in TabIds /\ t # Nil
                      /\ InPlace(session'.tabs, session.tabs, t)
                      /\ session'.tabs[t].page = IF t \in chosen THEN page
                                                 ELSE session.tabs[t].page
  <2> SUFFICES ASSUME NEW t \in kept
               PROVE  /\ session.tabs[t] \in Tabs /\ t \in TabIds /\ t # Nil
                      /\ InPlace(session'.tabs, session.tabs, t)
                      /\ session'.tabs[t].page = IF t \in chosen THEN page
                                                 ELSE session.tabs[t].page
    OBVIOUS
  <2>1. session.tabs[t] \in Tabs /\ t \in TabIds /\ t # Nil
    BY DEF kept, Whole, Bare, Formed, TabsOK, TabIds, Nil
  <2> HIDE DEF page
  <2> QED BY <1>6, <2>1 DEF InPlace, Tabs
<1>9. Showing(q.tabs, OnboardingPage) = onSetUp
  BY <1>2, <1>7 DEF Showing
<1>10. /\ onboarded => chosen = onSetUp
       /\ ~onboarded /\ onSetUp # {} => chosen = {}
       /\ ~onboarded /\ onSetUp = {} =>
             \/ chosen = {}
             \/ \E t \in kept : /\ chosen = {t}
                                /\ session.spaces[m.current].active \in kept =>
                                      t = session.spaces[m.current].active
  BY <1>1, <1>2, <1>9, <1>r DEF OnboardingChoices
<1>11. \A t \in onSetUp : session'.tabs[t].page = page
  BY <1>8, <1>10 DEF Showing
<1>12. ASSUME NEW t \in taken
       PROVE  /\ ~onboarded /\ onSetUp = {} /\ taken = {t}
              /\ session'.tabs[t].page = OnboardingPage
              /\ session.spaces[session'.current].active \in kept =>
                    t = session.spaces[session'.current].active
  <2>1. t \in chosen /\ t \notin onSetUp
    BY <1>8
  <2>2. ~onboarded /\ onSetUp = {} /\ chosen = {t}
    BY <1>10, <2>1
  <2>3. taken \subseteq chosen
    BY <1>8
  <2> QED BY <1>6, <1>8, <1>10, <2>2, <2>3
<1>13. session.current \in DOMAIN session.spaces => session'.current = session.current
  BY <1>1, <1>6
<1>p. session.split.on => /\ IsPair(session, session.current, session.split.primary,
                                    session.split.secondary)
                          /\ session.current \in DOMAIN session.spaces
                          /\ session.spaces[session.current].active \in Panes(session.split)
  <2>1. PairOK(session) /\ TabsOK(session)
    BY DEF Whole, Bare, Formed
  <2>2. session.split.on => Nil \notin Panes(session.split)
    BY <2>1 DEF PairOK, IsPair, Panes, TabsOf, TabsOK, TabIds, Nil
  <2> QED BY <2>1, <2>2, Actives DEF PairOK
<1>14. ASSUME NEW w \in here, session.spaces[w].active \in kept
       PROVE  ActiveTab(session', w) = session.spaces[w].active
  <2>1. show(w)
    BY <1>1, <1>2, <1>3, <1>14, <1>p
  <2> QED BY <1>1, <1>2, <1>3, <1>5, <1>14, <2>1 DEF Returned
<1>15. ASSUME session.split.on, Panes(session.split) \subseteq kept
       PROVE  session'.split = session.split
  <2>1. u.split = session.split /\ u.split.on /\ u.current = session.current
    BY <1>1, <1>2, <1>3, <1>15
  <2>2. \A t \in kept : u.tabs[t].space = session.tabs[t].space
    <3> HIDE DEF page
    <3>1. \A t \in kept : u.tabs[t] = IF t \in chosen
                                     THEN [session.tabs[t] EXCEPT !.page = page]
                                     ELSE session.tabs[t]
      BY <1>2, <1>3
    <3> QED BY <3>1, <1>8 DEF Tabs
  <2>3. IsPair(u, u.current, u.split.primary, u.split.secondary)
    BY <1>2, <1>3, <1>15, <1>p, <2>1, <2>2 DEF IsPair, TabsOf, Panes
  <2>4. show(u.current)
    BY <1>1, <1>2, <1>3, <1>15, <1>p, <2>1
  <2> QED BY <1>5, <2>1, <2>3, <2>4 DEF Returned
<1> HIDE DEF taken, onSetUp
<1> QED BY <1>7, <1>8, <1>11, <1>12, <1>13, <1>14, <1>15
        DEF Kept, kept, onSetUp, taken

\* SessionIsConsistent for every number of tabs, workspaces and groups: no operation of
\* browser-store.ts and no restart leaves a pane, a group or an active tab behind that is
\* gone or of another workspace, and the lists keep their limits.
THEOREM SessionStaysConsistent == SessionSpec => []SessionIsConsistent
<1> DEFINE Sound == Whole(session) /\ onboarded \in BOOLEAN
<1>1. SessionInit => Sound
  BY InitIsWhole
<1>2. Sound /\ [SessionNext]_sessionVars => Sound'
  BY SessionStep
<1>3. Sound => SessionIsConsistent
  BY WholeIsConsistent
<1> QED BY <1>1, <1>2, <1>3, PTL DEF SessionSpec

\* KeepsShowing: whatever closes, moves, is deleted or is restored, a workspace that showed
\* a tab shows one after it (closeTab's follower, the new tab after the last one).
THEOREM SomethingFollows == SessionSpec => KeepsShowing
<1> DEFINE Sound == Whole(session) /\ onboarded \in BOOLEAN
<1>1. SessionInit => Sound
  BY InitIsWhole
<1>2. Sound /\ [SessionNext]_sessionVars => Sound'
  BY SessionStep
<1>3. Sound /\ [SessionNext]_sessionVars =>
         [\/ \A w \in DOMAIN session.spaces \cap DOMAIN session'.spaces :
               ActiveTab(session, w) # Nil => ActiveTab(session', w) # Nil
          \/ \E restore \in BOOLEAN : Restarting(restore)]_session
  BY SessionStep DEF Shown
<1> QED BY <1>1, <1>2, <1>3, PTL DEF SessionSpec, KeepsShowing

\* RestartKeepsSession: what toPersistedData writes, migrateData cleans and hydrate reads
\* returns the ordinary workspaces' tabs where they were, the workspace on screen and its
\* split view; their pages too, but for the one tab that pending onboarding takes and those
\* left on a completed one.
THEOREM RestartsKeepTheSession == SessionSpec => RestartKeepsSession
<1> DEFINE Sound == Whole(session) /\ onboarded \in BOOLEAN
<1>1. SessionInit => Sound
  BY InitIsWhole
<1>2. Sound /\ [SessionNext]_sessionVars => Sound'
  BY SessionStep
<1>3. Sound /\ [SessionNext]_sessionVars => [Restarting(TRUE) => Kept]_session
  <2> SUFFICES ASSUME Sound, Restarting(TRUE) PROVE Kept
    OBVIOUS
  <2>1. PICK home \in HomePages : Restart(TRUE, home)
    BY DEF Restarting
  <2> QED BY <2>1, RestartKeeps
<1> QED BY <1>1, <1>2, <1>3, PTL DEF SessionSpec, RestartKeepsSession, Kept
=============================================================================
