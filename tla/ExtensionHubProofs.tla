------------------------- MODULE ExtensionHubProofs --------------------------
(***************************************************************************)
(* The extension hub for any number of actors, versions and uploads: types, *)
(* what reviews hold on to, and where the staged and published packages     *)
(* are.                                                                     *)
(***************************************************************************)
EXTENDS ExtensionHub, TLAPS

USE DEF Versions, Keys

\* How a request ends or goes on: the others stay where they are.
LEMMA DoneStep ==
    ASSUME TypeOK, NEW a \in Actors, Done(a)
    PROVE  req'[a] = Idle /\ \A b \in Actors \ {a} : req'[b] = req[b]
BY DEF Done, TypeOK

LEMMA GotoStep ==
    ASSUME TypeOK, NEW a \in Actors, NEW step, Goto(a, step)
    PROVE  /\ \A b \in Actors \ {a} : req'[b] = req[b]
           /\ req'[a].step = step
           /\ req'[a].v = req[a].v /\ req'[a].seen = req[a].seen
           /\ req'[a].old = req[a].old /\ req'[a].key = req[a].key
           /\ req'[a].action = req[a].action
           /\ req'[a] = [req[a] EXCEPT !.step = step]
BY DEF Goto, TypeOK, ReqType

-----------------------------------------------------------------------------
(* Types.                                                                   *)

\* The rows, without the requests.
RowsTyped ==
    /\ listing \in [status : ListingStatuses, current : Versions \cup {None}]
    /\ release \in [Versions -> ReleaseType \cup {None}]
    /\ submission \in [Versions -> SubmissionStatuses \cup {None}]
ReqTyped(r) ==
    /\ r \in ReqType
    /\ r.step # "idle" => r.v \in Versions
    /\ r.step \in {"submit", "claim", "clear", "replace"} \cup Claimed => r.old \in Keys
    /\ r.step \in {"save", "unstage"} => r.key \in Keys

LEMMA TypeParts ==
    ASSUME TypeOK PROVE RowsTyped /\ \A a \in Actors : ReqTyped(req[a])
BY DEF TypeOK, RowsTyped, ReqTyped

LEMMA TypedIdle == ReqTyped(Idle)
BY ExtensionHubAssumption DEF ReqTyped, Idle, ReqType, Claimed, UploadSteps

LEMMA TypedRows ==
    ASSUME TypeOK, NEW v \in Versions
    PROVE  /\ listing.current \in Versions \cup {None} /\ listing.status \in ListingStatuses
           /\ release[v] # None => release[v] \in ReleaseType
           /\ submission[v] \in SubmissionStatuses \cup {None}
BY DEF TypeOK

LEMMA NewStatus ==
    ASSUME NEW r \in ReleaseType, NEW status \in ReleaseStatuses
    PROVE  /\ [r EXCEPT !.status = status] \in ReleaseType
           /\ [r EXCEPT !.status = status].status = status
           /\ [r EXCEPT !.status = status].staging = r.staging
           /\ [r EXCEPT !.status = status].package = r.package
BY DEF ReleaseType

\* A release that takes another status and is otherwise as it was.
LEMMA StatusStep ==
    ASSUME TypeOK, NEW v \in Versions, release[v] # None, NEW status \in ReleaseStatuses,
           release' = [release EXCEPT ![v].status = status]
    PROVE  /\ release' \in [Versions -> ReleaseType \cup {None}]
           /\ release'[v] # None /\ release'[v].status = status
           /\ release'[v].staging = release[v].staging
           /\ release'[v].package = release[v].package
           /\ \A w \in Versions \ {v} : release'[w] = release[w]
<1>1. release[v] \in ReleaseType
  BY TypedRows
<1>2. release' = [release EXCEPT ![v] = [release[v] EXCEPT !.status = status]]
  OBVIOUS
<1>3. release \in [Versions -> ReleaseType \cup {None}]
  BY DEF TypeOK
<1>4. None \notin ReleaseType
  BY ExtensionHubAssumption
<1> QED BY <1>1, <1>2, <1>3, <1>4, NewStatus

LEMMA MoveStep ==
    ASSUME TypeOK, NEW v \in Versions, NEW from,
           NEW to \in {"pending", "reviewing"}, Move(v, from, to)
    PROVE  /\ RowsTyped' /\ UNCHANGED listing
           /\ \A w \in Versions \ {v} : release'[w] = release[w] /\ submission'[w] = submission[w]
           /\ submission'[v] = IF submission[v] \in from THEN to ELSE submission[v]
           /\ ~IsIn(v, from) => release'[v] = release[v]
           /\ IsIn(v, from) => IsIn(v, {to})' /\ release'[v].staging = release[v].staging
                               /\ release'[v].package = release[v].package
<1>0. submission \in [Versions -> SubmissionStatuses \cup {None}] /\ UNCHANGED listing
  BY DEF TypeOK, Move
<1>1. /\ submission' \in [Versions -> SubmissionStatuses \cup {None}]
      /\ submission'[v] = IF submission[v] \in from THEN to ELSE submission[v]
      /\ \A w \in Versions \ {v} : submission'[w] = submission[w]
  BY <1>0 DEF Move, SubmissionStatuses
<1>2. CASE IsIn(v, from)
  <2>1. release' = [release EXCEPT ![v].status = to] /\ release[v] # None
    BY <1>2 DEF Move, IsIn
  <2>2. to \in ReleaseStatuses
    BY DEF ReleaseStatuses
  <2>3. /\ release' \in [Versions -> ReleaseType \cup {None}]
        /\ release'[v] # None /\ release'[v].status = to
        /\ release'[v].staging = release[v].staging
        /\ release'[v].package = release[v].package
        /\ \A w \in Versions \ {v} : release'[w] = release[w]
    BY <2>1, <2>2, StatusStep
  <2> QED BY <1>0, <1>1, <1>2, <2>3, TypeParts DEF RowsTyped, IsIn
<1>3. CASE ~IsIn(v, from)
  BY <1>0, <1>1, <1>3, TypeParts DEF Move, RowsTyped
<1> QED BY <1>2, <1>3

ReqsTyped == req \in [Actors -> ReqType] /\ \A a \in Actors : ReqTyped(req[a])
RestTyped ==
    /\ staged \subseteq Keys /\ packages \subseteq Versions \X Keys
    /\ uploads \in 0 .. MaxUploads /\ faults \in Nat
    /\ submitted \in [Versions -> SUBSET Keys]
    /\ gone \subseteq Keys /\ torn \subseteq Versions \X Keys

LEMMA TypeIsItsParts == TypeOK <=> RowsTyped /\ ReqsTyped /\ RestTyped
BY DEF TypeOK, RowsTyped, ReqsTyped, RestTyped, ReqTyped

LEMMA StartTyped ==
    ASSUME TypeOK, NEW a \in Actors, NEW r, ReqTyped(r), req' = [req EXCEPT ![a] = r]
    PROVE  ReqsTyped' /\ req'[a] = r /\ \A b \in Actors \ {a} : req'[b] = req[b]
BY DEF TypeOK, ReqTyped, ReqsTyped

LEMMA DoneTyped ==
    ASSUME TypeOK, NEW a \in Actors, Done(a)
    PROVE  ReqsTyped'
BY StartTyped, TypedIdle DEF Done

Steps == {"idle", "submit", "claim", "clear", "yank"} \cup UploadSteps \cup Claimed

LEMMA GotoTyped ==
    ASSUME TypeOK, NEW a \in Actors, NEW step \in Steps, Goto(a, step), req[a].step # "idle",
           step \in {"submit", "claim", "clear", "replace"} \cup Claimed => req[a].old \in Keys,
           step \in {"save", "unstage"} => req[a].key \in Keys
    PROVE  ReqsTyped'
<1>1. ReqTyped(req[a])
  BY TypeParts
<1>2. ReqTyped([req[a] EXCEPT !.step = step])
  BY <1>1 DEF ReqTyped, ReqType, Steps
<1>3. req' = [req EXCEPT ![a] = [req[a] EXCEPT !.step = step]]
  BY DEF Goto
<1> QED BY <1>2, <1>3, StartTyped

\* What the other operators on rows do.
LEMMA SaveStep ==
    ASSUME TypeOK, NEW a \in Actors, NEW v, v = req[a].v,
           req[a].step = "save", Save(a)
    PROVE  /\ RowsTyped' /\ UNCHANGED listing
           /\ IsIn(v, {"draft"})' /\ release'[v].staging = req[a].key
           /\ \A w \in Versions \ {v} : release'[w] = release[w] /\ submission'[w] = submission[w]
           /\ submission'[v] = IF submission[v] = "pending" THEN "withdrawn" ELSE submission[v]
<1> DEFINE r == [status |-> "draft", staging |-> req[a].key, package |-> None]
<1>1. v \in Versions /\ req[a].key \in Keys
  BY TypeParts DEF ReqTyped
<1>2. r \in ReleaseType /\ r # None
  BY <1>1, ExtensionHubAssumption DEF ReleaseType, ReleaseStatuses
<1>3. /\ release \in [Versions -> ReleaseType \cup {None}]
      /\ submission \in [Versions -> SubmissionStatuses \cup {None}]
  BY DEF TypeOK
<1>4. /\ release' \in [Versions -> ReleaseType \cup {None}] /\ release'[v] = r
      /\ \A w \in Versions \ {v} : release'[w] = release[w]
  BY <1>1, <1>2, <1>3 DEF Save
<1>5. /\ submission' \in [Versions -> SubmissionStatuses \cup {None}]
      /\ submission'[v] = IF submission[v] = "pending" THEN "withdrawn" ELSE submission[v]
      /\ \A w \in Versions \ {v} : submission'[w] = submission[w]
  BY <1>1, <1>3 DEF Save, SubmissionStatuses
<1>6. UNCHANGED listing
  BY DEF Save
<1> QED BY <1>2, <1>4, <1>5, <1>6, TypeParts DEF RowsTyped, IsIn

LEMMA SubmitStep ==
    ASSUME TypeOK, NEW a \in Actors, NEW v, v = req[a].v,
           CommitSubmit(a), Unchanged(a)
    PROVE  /\ RowsTyped' /\ listing'.current = listing.current
           /\ IsIn(v, Editable) /\ release[v].staging = req[a].old
           /\ IsIn(v, {"pending"})' /\ release'[v].staging = req[a].old
           /\ \A w \in Versions \ {v} : /\ release'[w] = release[w]
                                         /\ submission'[w] = submission[w]
                                         /\ submitted'[w] = submitted[w]
           /\ submission'[v] = "pending"
           /\ submitted' \in [Versions -> SUBSET Keys]
           /\ submitted'[v] = submitted[v] \cup {req[a].old}
<1>1. v \in Versions /\ req[a].old \in Keys /\ req[a].old # None
  BY TypeParts, ExtensionHubAssumption DEF ReqTyped, CommitSubmit
<1>2. IsIn(v, Editable) /\ release[v].staging = req[a].old
  BY <1>1 DEF Unchanged
<1>3. /\ release' \in [Versions -> ReleaseType \cup {None}]
      /\ release'[v] # None /\ release'[v].status = "pending"
      /\ release'[v].staging = release[v].staging
      /\ \A w \in Versions \ {v} : release'[w] = release[w]
  <2>1. release' = [release EXCEPT ![v].status = "pending"] /\ "pending" \in ReleaseStatuses
    BY DEF CommitSubmit, ReleaseStatuses
  <2> QED BY <1>1, <1>2, <2>1, StatusStep DEF IsIn
<1>4. /\ submission' \in [Versions -> SubmissionStatuses \cup {None}]
      /\ submission'[v] = "pending"
      /\ \A w \in Versions \ {v} : submission'[w] = submission[w]
  BY <1>1 DEF CommitSubmit, SubmissionStatuses, TypeOK
<1>5. /\ listing' \in [status : ListingStatuses, current : Versions \cup {None}]
      /\ listing'.current = listing.current
  BY DEF CommitSubmit, ListingStatuses, TypeOK
<1>6. /\ submitted' \in [Versions -> SUBSET Keys]
      /\ submitted'[v] = submitted[v] \cup {req[a].old}
      /\ \A w \in Versions \ {v} : submitted'[w] = submitted[w]
  <2>1. submitted' = [submitted EXCEPT ![v] = submitted[v] \cup {req[a].old}]
    BY DEF CommitSubmit
  <2>2. submitted \in [Versions -> SUBSET Keys]
    BY DEF TypeOK
  <2>3. submitted[v] \cup {req[a].old} \in SUBSET Keys
    BY <1>1, <2>2
  <2> HIDE DEF Versions, Keys
  <2> QED BY <1>1, <2>1, <2>2, <2>3
<1> QED BY <1>2, <1>3, <1>4, <1>5, <1>6 DEF RowsTyped, IsIn

LEMMA PublishStep ==
    ASSUME TypeOK, NEW a \in Actors, NEW v, v = req[a].v,
           req[a].step = "publish", Publishable(a), SetPublished(a)
    PROVE  /\ RowsTyped' /\ listing'.current = v
           /\ IsIn(v, {"published"})' /\ release'[v].package = Package(a)
           /\ release'[v].staging = release[v].staging
           /\ \A w \in Versions \ {v} : release'[w] = release[w] /\ submission'[w] = submission[w]
           /\ submission'[v] = "approved"
<1> DEFINE r == [release[v] EXCEPT !.status = "published", !.package = Package(a)]
<1>1. v \in Versions /\ req[a].old \in Keys
  BY TypeParts DEF ReqTyped, Claimed
<1>2. release[v] \in ReleaseType
  BY <1>1, TypedRows DEF Publishable, BothAre, IsIn
<1>3. /\ r \in ReleaseType /\ r # None
      /\ r.status = "published" /\ r.staging = release[v].staging /\ r.package = Package(a)
  <2>1. Package(a) \in (Versions \X Keys) \cup {None} /\ "published" \in ReleaseStatuses
    BY <1>1 DEF Package, ReleaseStatuses
  <2>2. None \notin ReleaseType
    BY ExtensionHubAssumption
  <2> HIDE DEF Versions, Keys
  <2> QED BY <1>2, <2>1, <2>2 DEF ReleaseType
<1>4. release' = [release EXCEPT ![v] = r]
  BY DEF SetPublished
<1>5. /\ release' \in [Versions -> ReleaseType \cup {None}] /\ release'[v] = r
      /\ \A w \in Versions \ {v} : release'[w] = release[w]
  BY <1>1, <1>3, <1>4 DEF TypeOK
<1>6. /\ submission' \in [Versions -> SubmissionStatuses \cup {None}]
      /\ submission'[v] = "approved"
      /\ \A w \in Versions \ {v} : submission'[w] = submission[w]
  BY <1>1 DEF SetPublished, SubmissionStatuses, TypeOK
<1>7. /\ listing' \in [status : ListingStatuses, current : Versions \cup {None}]
      /\ listing'.current = v
  BY <1>1 DEF SetPublished, ListingStatuses
<1> QED BY <1>3, <1>5, <1>6, <1>7 DEF RowsTyped, IsIn

LEMMA DecideStep ==
    ASSUME TypeOK, NEW a \in Actors, NEW v, v = req[a].v,
           Decide(a), req[a].action \in SubmissionStatuses, release[v] # None
    PROVE  /\ RowsTyped' /\ listing'.current = listing.current
           /\ IsIn(v, {"changes", "rejected"})'
           /\ release'[v].staging = release[v].staging
           /\ \A w \in Versions \ {v} : release'[w] = release[w] /\ submission'[w] = submission[w]
           /\ submission'[v] = IF submission[v] = "reviewing" THEN "changes" ELSE submission[v]
<1> DEFINE s == IF req[a].action = "changes" THEN "changes" ELSE "rejected"
<1>1. v \in Versions /\ req[a].action = "changes" /\ s \in ReleaseStatuses
  BY TypeParts DEF ReqTyped, ReqType, Decisions, SubmissionStatuses, Decide, ReleaseStatuses
<1>2. release' = [release EXCEPT ![v].status = s] /\ release[v] # None
  BY <1>1 DEF Decide, IsIn
<1>3. /\ release' \in [Versions -> ReleaseType \cup {None}]
      /\ release'[v] # None /\ release'[v].status = s
      /\ release'[v].staging = release[v].staging
      /\ \A w \in Versions \ {v} : release'[w] = release[w]
  <2> HIDE DEF s
  <2> QED BY <1>1, <1>2, StatusStep
<1>4. /\ submission' \in [Versions -> SubmissionStatuses \cup {None}]
      /\ submission'[v] = IF submission[v] = "reviewing" THEN "changes" ELSE submission[v]
      /\ \A w \in Versions \ {v} : submission'[w] = submission[w]
  BY <1>1 DEF Decide, SubmissionStatuses, TypeOK
<1>5. /\ listing' \in [status : ListingStatuses, current : Versions \cup {None}]
      /\ listing'.current = listing.current
  BY DEF Decide, ListingStatuses, TypeOK
<1>6. s \in {"changes", "rejected"}
  OBVIOUS
<1> QED BY <1>1, <1>3, <1>4, <1>5, <1>6 DEF RowsTyped, IsIn

LEMMA YankStep ==
    ASSUME TypeOK, NEW a \in Actors, NEW v, v = req[a].v,
           CommitYank(a), release[req[a].v] # None
    PROVE  /\ RowsTyped' /\ UNCHANGED <<listing, submission>>
           /\ IsIn(v, {"yanked"})'
           /\ release'[v].staging = release[v].staging /\ release'[v].package = release[v].package
           /\ release' = [release EXCEPT ![v].status = "yanked"]
           /\ \A w \in Versions \ {v} : release'[w] = release[w]
<1>1. v \in Versions /\ "yanked" \in ReleaseStatuses
  BY TypeParts DEF ReqTyped, CommitYank, ReleaseStatuses
<1>2. release' = [release EXCEPT ![v].status = "yanked"] /\ UNCHANGED <<listing, submission>>
  BY DEF CommitYank
<1> QED BY <1>1, <1>2, StatusStep, TypeParts DEF RowsTyped, IsIn

HIDE DEF Versions, Keys

LEMMA TypeFromParts ==
    ASSUME RowsTyped', ReqsTyped', RestTyped' PROVE TypeOK'
BY DEF TypeOK, RowsTyped, ReqsTyped, RestTyped, ReqTyped

LEMMA KeyRange == \A n \in Nat : n < MaxUploads => n + 1 \in Keys /\ n + 1 \in 0 .. MaxUploads
BY ExtensionHubAssumption DEF Keys

RowsExist ==
    \A a \in Actors : req[a].step \in {"yank"} \cup Claimed => release[req[a].v] # None

\* The types are inductive as long as what a request decides on exists.
LEMMA TypeStep ==
    ASSUME TypeOK, RowsExist, [Next]_vars
    PROVE  TypeOK'
<1> USE DEF vars, rows, objects, counts, history
<1>t. RowsTyped /\ ReqsTyped /\ RestTyped
  BY TypeIsItsParts
<1>r. UNCHANGED rows => RowsTyped'
  BY <1>t DEF RowsTyped
<1>s. UNCHANGED <<objects, counts, history>> => RestTyped'
  BY <1>t DEF RestTyped
<1>f. ASSUME Fault PROVE faults' \in Nat /\ UNCHANGED uploads
  BY <1>t, <1>f DEF Fault, RestTyped
<1> USE DEF Steps, UploadSteps, Claimed
<1>1. ASSUME NEW a \in Actors, NEW v \in Versions, Upload(a, v) PROVE TypeOK'
  <2>1. ReqTyped([Idle EXCEPT !.step = "version", !.v = v, !.seen = listing.current])
    BY <1>t, TypedIdle DEF ReqTyped, ReqType, RowsTyped, Idle
  <2> QED BY <1>1, <1>r, <1>s, <2>1, StartTyped, TypeFromParts DEF Upload
<1>2. ASSUME NEW a \in Actors, CheckVersion(a) PROVE TypeOK'
  BY <1>2, <1>r, <1>s, DoneTyped, GotoTyped, TypeFromParts DEF CheckVersion
<1>3. ASSUME NEW a \in Actors, ReadRow(a) PROVE TypeOK'
  <2> DEFINE v == req[a].v
  <2>0. v \in Versions /\ ReqTyped(req[a])
    BY <1>3, TypeParts DEF ReadRow, ReqTyped
  <2>1. CASE Goto(a, "stage")
    BY <1>3, <1>r, <1>s, <2>1, GotoTyped, TypeFromParts DEF ReadRow
  <2>2. CASE Done(a)
    BY <1>3, <1>r, <1>s, <2>2, DoneTyped, TypeFromParts DEF ReadRow
  <2>3. CASE /\ IsIn(v, Editable)
             /\ req' = [req EXCEPT ![a].step = "stage", ![a].old = release[v].staging]
    <3>1. release[v].staging \in Keys
      BY <2>0, <2>3, TypedRows DEF IsIn, ReleaseType
    <3>2. ReqTyped([req[a] EXCEPT !.step = "stage", !.old = release[v].staging])
      BY <2>0, <3>1 DEF ReqTyped, ReqType
    <3>3. req' = [req EXCEPT ![a] = [req[a] EXCEPT !.step = "stage",
                                                   !.old = release[v].staging]]
      BY <2>3
    <3> QED BY <1>3, <1>r, <1>s, <3>2, <3>3, StartTyped, TypeFromParts DEF ReadRow
  <2> QED BY <1>3, <2>1, <2>2, <2>3 DEF ReadRow
<1>4. ASSUME NEW a \in Actors, Stage(a) PROVE TypeOK'
  <2>1. uploads + 1 \in Keys /\ uploads + 1 \in 0 .. MaxUploads
    BY <1>4, <1>t, KeyRange DEF Stage, RestTyped
  <2>2. ReqTyped([req[a] EXCEPT !.step = "save", !.key = uploads + 1])
    BY <1>4, <2>1, TypeParts DEF ReqTyped, ReqType, Stage
  <2>3. req' = [req EXCEPT ![a] = [req[a] EXCEPT !.step = "save", !.key = uploads + 1]]
    BY <1>4 DEF Stage
  <2>4. RestTyped'
    BY <1>4, <1>t, <2>1 DEF Stage, RestTyped
  <2> QED BY <1>4, <1>r, <2>2, <2>3, <2>4, StartTyped, TypeFromParts DEF Stage
<1>5. ASSUME NEW a \in Actors, SaveRelease(a) PROVE TypeOK'
  <2>0. ReqTyped(req[a]) /\ req[a].step = "save"
    BY <1>5, TypeParts DEF SaveRelease
  <2>1. CASE Unchanged(a)
    <3>1. RowsTyped'
      BY <1>5, <2>0, <2>1, SaveStep DEF SaveRelease
    <3>2. ReqsTyped'
      <4>1. CASE req[a].old = None
        BY <1>5, <2>1, <4>1, DoneTyped DEF SaveRelease
      <4>2. CASE req[a].old # None
        BY <1>5, <2>0, <2>1, <4>2, GotoTyped DEF SaveRelease, ReqTyped, ReqType
      <4> QED BY <4>1, <4>2
    <3> QED BY <1>5, <1>s, <3>1, <3>2, TypeFromParts DEF SaveRelease
  <2>2. CASE ~Unchanged(a)
    BY <1>5, <1>r, <1>s, <2>0, <2>2, GotoTyped, TypeFromParts DEF SaveRelease, ReqTyped
  <2> QED BY <2>1, <2>2
<1>6. ASSUME NEW a \in Actors, NEW committed \in BOOLEAN, SaveFails(a, committed)
      PROVE TypeOK'
  <2>0. ReqTyped(req[a]) /\ req[a].step = "save" /\ req[a].key \in Keys
    BY <1>6, TypeParts DEF SaveFails, ReqTyped
  <2>1. ReqsTyped'
    BY <1>6, <2>0, GotoTyped DEF SaveFails
  <2>2. RowsTyped' /\ RestTyped'
    <3>1. CASE committed
      <4>1. RowsTyped'
        BY <1>6, <2>0, <3>1, SaveStep DEF SaveFails
      <4> QED BY <1>6, <1>t, <1>f, <2>0, <3>1, <4>1 DEF SaveFails, RestTyped
    <3>2. CASE ~committed
      BY <1>6, <1>t, <1>r, <1>f, <3>2 DEF SaveFails, RestTyped
    <3> QED BY <3>1, <3>2
  <2> QED BY <2>1, <2>2, TypeFromParts
<1>7. ASSUME NEW a \in Actors, Unstage(a) PROVE TypeOK'
  BY <1>7, <1>t, <1>r, DoneTyped, TypeFromParts DEF Unstage, RestTyped
<1>8. ASSUME NEW a \in Actors, NEW v \in Versions, Submit(a, v) PROVE TypeOK'
  <2>1. release[v].staging \in Keys
    BY <1>8, TypedRows DEF Submit, IsIn, ReleaseType
  <2>2. ReqTyped([Idle EXCEPT !.step = "submit", !.v = v, !.seen = listing.current,
                              !.old = release[v].staging])
    BY <1>t, <2>1, TypedIdle DEF ReqTyped, ReqType, RowsTyped, Idle
  <2> QED BY <1>8, <1>r, <1>s, <2>2, StartTyped, TypeFromParts DEF Submit
<1>9. ASSUME NEW a \in Actors, CommitSubmit(a) PROVE TypeOK'
  <2>1. ReqsTyped'
    BY <1>9, DoneTyped DEF CommitSubmit
  <2>2. CASE Unchanged(a)
    <3>1. RowsTyped' /\ submitted' \in [Versions -> SUBSET Keys]
      BY <1>9, <2>2, SubmitStep
    <3> QED BY <1>9, <1>t, <2>1, <3>1, TypeFromParts DEF CommitSubmit, RestTyped
  <2>3. CASE ~Unchanged(a)
    BY <1>9, <1>r, <1>s, <2>1, <2>3, TypeFromParts DEF CommitSubmit
  <2> QED BY <2>2, <2>3
<1>10. ASSUME NEW a \in Actors, NEW v \in Versions, NEW action \in Decisions,
              Review(a, v, action)
       PROVE TypeOK'
  <2>1. release[v].staging \in Keys
    BY <1>10, TypedRows DEF Review, BothAre, IsIn, ReleaseType
  <2>2. ReqTyped([Idle EXCEPT !.step = "claim", !.v = v, !.action = action,
                              !.seen = listing.current, !.old = release[v].staging])
    BY <1>t, <2>1, TypedIdle DEF ReqTyped, ReqType, RowsTyped, Idle
  <2> QED BY <1>10, <1>r, <1>s, <2>2, StartTyped, TypeFromParts DEF Review
<1>11. ASSUME NEW a \in Actors, Claim(a) PROVE TypeOK'
  <2>0. ReqTyped(req[a]) /\ req[a].v \in Versions /\ req[a].old \in Keys
    BY <1>11, TypeParts DEF Claim, ReqTyped
  <2>1. CASE Claimable(req[a].v)
    <3>1. RowsTyped'
      BY <1>11, <2>0, <2>1, MoveStep DEF Claim
    <3>2. ReqsTyped'
      BY <1>11, <2>0, <2>1, GotoTyped DEF Claim
    <3> QED BY <1>11, <1>s, <3>1, <3>2, TypeFromParts DEF Claim
  <2>2. CASE ~Claimable(req[a].v)
    BY <1>11, <1>r, <1>s, <2>2, DoneTyped, TypeFromParts DEF Claim
  <2> QED BY <2>1, <2>2
<1>12. ASSUME NEW a \in Actors, Compare(a) PROVE TypeOK'
  BY <1>12, <1>r, <1>s, GotoTyped, TypeParts, TypeFromParts DEF Compare, ReqTyped
<1>13. ASSUME NEW a \in Actors, GetStaged(a) PROVE TypeOK'
  BY <1>13, <1>r, <1>s, GotoTyped, TypeParts, TypeFromParts DEF GetStaged, ReqTyped
<1>14. ASSUME NEW a \in Actors, PutPackage(a) PROVE TypeOK'
  <2>1. req[a].v \in Versions /\ req[a].old \in Keys /\ ReqsTyped'
    BY <1>14, GotoTyped, TypeParts DEF PutPackage, ReqTyped
  <2>2. RestTyped'
    BY <1>14, <1>t, <2>1 DEF PutPackage, RestTyped, Package
  <2> QED BY <1>14, <1>r, <2>1, <2>2, TypeFromParts DEF PutPackage
<1>15. ASSUME NEW a \in Actors, Publish(a) PROVE TypeOK'
  <2>0. req[a].old \in Keys
    BY <1>15, TypeParts DEF Publish, ReqTyped
  <2>1. ReqsTyped'
    BY <1>15, <2>0, GotoTyped DEF Publish
  <2>2. RowsTyped'
    BY <1>15, <1>r, PublishStep DEF Publish
  <2> QED BY <1>15, <1>s, <2>1, <2>2, TypeFromParts DEF Publish
<1>16. ASSUME NEW a \in Actors, NEW committed \in BOOLEAN, PublishFails(a, committed)
       PROVE TypeOK'
  <2>0. req[a].v \in Versions /\ req[a].old \in Keys
    BY <1>16, TypeParts DEF PublishFails, ReqTyped
  <2>1. ReqsTyped'
    BY <1>16, <2>0, GotoTyped DEF PublishFails
  <2>2. RowsTyped'
    BY <1>16, <1>r, PublishStep DEF PublishFails
  <2>3. RestTyped'
    BY <1>16, <1>t, <1>f, <2>0 DEF PublishFails, RestTyped, Package
  <2> QED BY <2>1, <2>2, <2>3, TypeFromParts
<1>17. ASSUME NEW a \in Actors, Unpublish(a) PROVE TypeOK'
  <2>1. ReqsTyped'
    BY <1>17, GotoTyped, TypeParts DEF Unpublish, ReqTyped
  <2> QED BY <1>17, <1>t, <1>r, <2>1, TypeFromParts DEF Unpublish, RestTyped
<1>18. ASSUME NEW a \in Actors, ClearStaged(a) PROVE TypeOK'
  BY <1>18, <1>t, <1>r, DoneTyped, TypeFromParts DEF ClearStaged, RestTyped
<1>19. ASSUME NEW a \in Actors, Decide(a) PROVE TypeOK'
  <2>0. req[a].v \in Versions /\ req[a].old \in Keys
    BY <1>19, TypeParts DEF Decide, ReqTyped
  <2>1. CASE req[a].action \in SubmissionStatuses
    <3>1. RowsTyped'
      BY <1>19, <2>0, <2>1, DecideStep DEF RowsExist, Decide
    <3> QED BY <1>19, <1>s, <2>1, <3>1, DoneTyped, TypeFromParts DEF Decide
  <2>2. CASE req[a].action \notin SubmissionStatuses
    BY <1>19, <1>r, <1>s, <2>0, <2>2, GotoTyped, TypeFromParts DEF Decide
  <2> QED BY <2>1, <2>2
<1>20. ASSUME NEW a \in Actors, CallFails(a) PROVE TypeOK'
  <2>1. ReqsTyped'
    BY <1>20, GotoTyped, TypeParts DEF CallFails, ReqTyped
  <2> QED BY <1>20, <1>t, <1>r, <1>f, <2>1, TypeFromParts DEF CallFails, RestTyped
<1>21. ASSUME NEW a \in Actors, Revert(a) PROVE TypeOK'
  <2>1. req[a].v \in Versions /\ ReqsTyped'
    BY <1>21, DoneTyped, TypeParts DEF Revert, ReqTyped
  <2>2. RowsTyped'
    BY <1>21, <2>1, MoveStep DEF Revert
  <2> QED BY <1>21, <1>s, <2>1, <2>2, TypeFromParts DEF Revert
<1>22. ASSUME NEW a \in Actors, NEW v \in Versions, Yank(a, v) PROVE TypeOK'
  <2>1. ReqTyped([Idle EXCEPT !.step = "yank", !.v = v])
    BY TypedIdle DEF ReqTyped, ReqType, Idle
  <2> QED BY <1>22, <1>r, <1>s, <2>1, StartTyped, TypeFromParts DEF Yank
<1>23. ASSUME NEW a \in Actors, CommitYank(a) PROVE TypeOK'
  <2>1. RowsTyped' /\ ReqsTyped'
    BY <1>23, DoneTyped, YankStep DEF CommitYank, RowsExist
  <2> QED BY <1>23, <1>s, <2>1, TypeFromParts DEF CommitYank
<1>24. CASE Suspend
  <2>1. ReqsTyped' /\ RestTyped'
    BY <1>24, <1>t DEF Suspend, ReqsTyped, ReqTyped, RestTyped
  <2>2. RowsTyped'
    BY <1>24, <1>t DEF Suspend, RowsTyped, ListingStatuses
  <2> QED BY <2>1, <2>2, TypeFromParts
<1>25. ASSUME NEW v \in Versions, ExpireClaim(v) PROVE TypeOK'
  <2>1. ReqsTyped' /\ RestTyped'
    BY <1>25, <1>t DEF ExpireClaim, ReqsTyped, ReqTyped, RestTyped
  <2>2. RowsTyped'
    BY <1>25, MoveStep DEF ExpireClaim, GiveBack
  <2> QED BY <2>1, <2>2, TypeFromParts
<1>26. ASSUME NEW k \in Keys, ExpireStaged(k) PROVE TypeOK'
  <2>1. ReqsTyped' /\ RestTyped'
    BY <1>26, <1>t, <1>f DEF ExpireStaged, ReqsTyped, ReqTyped, RestTyped
  <2> QED BY <1>26, <1>r, <2>1, TypeFromParts DEF ExpireStaged
<1>27. ASSUME NEW a \in Actors, Abort(a) PROVE TypeOK'
  <2>1. ReqsTyped' /\ RestTyped'
    BY <1>27, <1>t, <1>f, DoneTyped DEF Abort, RestTyped
  <2> QED BY <1>27, <1>r, <2>1, TypeFromParts DEF Abort
<1>28. CASE UNCHANGED vars
  BY <1>28, <1>t, TypeFromParts DEF RowsTyped, ReqsTyped, ReqTyped, RestTyped
<1> QED BY <1>1, <1>2, <1>3, <1>4, <1>5, <1>6, <1>7, <1>8, <1>9, <1>10, <1>11, <1>12, <1>13,
           <1>14, <1>15, <1>16, <1>17, <1>18, <1>19, <1>20, <1>21, <1>22, <1>23, <1>24,
           <1>25, <1>26, <1>27, <1>28 DEF Next, Continue

-----------------------------------------------------------------------------
(* Reviews.                                                                 *)

\* What a request relies on between its awaits.  A review that was claimed holds
\* its release until it gives it back or publishes it, knows that its version is
\* newer than the one it will replace, and has read a package that was submitted.
Held(r) ==
    /\ r.step \in Claimed \ {"unpublish", "revert"} => BothAre(r.v, "reviewing")
    /\ r.step \in {"unpublish", "revert"} =>
          \/ BothAre(r.v, "reviewing")
          \/ IsIn(r.v, {"published", "yanked"}) /\ <<r.v, r.old>> \in torn
    /\ r.step = "yank" => IsIn(r.v, {"published", "yanked"}) /\ listing.current # r.v
    /\ r.step \in {"get", "put", "publish"} => r.seen = None \/ r.v > r.seen
    /\ r.step \in {"claim"} \cup Claimed => r.old \in submitted[r.v]

\* Only one request holds a release.
Exclusive ==
    \A a, b \in Actors :
        a # b /\ req[a].step \in Claimed /\ req[b].step \in Claimed => req[a].v # req[b].v

\* Release and submission of a version agree, and what waits or is published was
\* submitted.
RowOK(v) ==
    /\ IsIn(v, {"pending"}) <=> submission[v] = "pending"
    /\ IsIn(v, {"reviewing"}) <=> submission[v] = "reviewing"
    /\ IsIn(v, {"published", "yanked"}) <=> submission[v] = "approved"
    /\ IsIn(v, {"pending", "reviewing"}) => release[v].staging \in submitted[v]
    /\ IsIn(v, {"published", "yanked"}) =>
          release[v].package \in {<<v, k>> : k \in submitted[v]}

CurrentOK == listing.current # None => IsIn(listing.current, {"published"})

ReviewInv ==
    /\ TypeOK
    /\ \A v \in Versions : RowOK(v)
    /\ CurrentOK
    /\ \A a \in Actors : Held(req[a])
    /\ Exclusive

LEMMA ReviewParts ==
    ASSUME ReviewInv
    PROVE  TypeOK /\ RowsExist /\ (\A a \in Actors : ReqTyped(req[a]) /\ Held(req[a]))
BY TypeParts DEF ReviewInv, RowsExist, Held, BothAre, IsIn, Claimed

\* A step on the rows of one version.
Frame(v) ==
    /\ \A w \in Versions \ {v} : release'[w] = release[w] /\ submission'[w] = submission[w]
    /\ \A w \in Versions : submitted[w] \subseteq submitted'[w]
    /\ torn \subseteq torn'

LEMMA RowsKept ==
    ASSUME ReviewInv, NEW v \in Versions, Frame(v), RowOK(v)',
           \/ listing'.current = listing.current /\ listing.current # v
           \/ listing'.current = v /\ IsIn(v, {"published"})'
    PROVE  (\A w \in Versions : RowOK(w))' /\ CurrentOK'
<1>1. ASSUME NEW w \in Versions \ {v} PROVE RowOK(w)'
  BY <1>1 DEF ReviewInv, Frame, RowOK, IsIn
<1>2. CurrentOK'
  <2>1. listing.current # None => listing.current \in Versions
    BY TypedRows, ReviewParts DEF ReviewInv, TypeOK
  <2> QED BY <2>1 DEF CurrentOK, ReviewInv, Frame, IsIn
<1> QED BY <1>1, <1>2

LEMMA HeldKept ==
    ASSUME ReviewInv, NEW v \in Versions, Frame(v),
           listing'.current \in {listing.current, v},
           NEW b \in Actors, req'[b] = req[b],
           req[b].v = v => req[b].step \notin {"yank"} \cup Claimed
    PROVE  Held(req[b])'
<1>1. Held(req[b]) /\ ReqTyped(req[b])
  BY ReviewParts
<1>2. req[b].step \in {"claim", "yank"} \cup Claimed => req[b].v \in Versions
  BY <1>1 DEF ReqTyped, Claimed
<1> QED BY <1>1, <1>2 DEF Held, BothAre, IsIn, Frame, Claimed

LEMMA QuietKept ==
    ASSUME ReviewInv, UNCHANGED <<release, submission, submitted>>, torn \subseteq torn',
           listing'.current = listing.current
    PROVE  /\ (\A v \in Versions : RowOK(v))' /\ CurrentOK'
           /\ \A b \in Actors : req'[b] = req[b] => Held(req[b])'
BY DEF ReviewInv, RowOK, CurrentOK, Held, BothAre, IsIn

\* A release that is held is neither new nor waiting, and its holder alone acts on it.
LEMMA HolderAlone ==
    ASSUME ReviewInv, NEW b \in Actors, req[b].step \in {"yank"} \cup Claimed
    PROVE  IsIn(req[b].v, {"reviewing", "published", "yanked"}) /\ req[b].v \in Versions
BY ReviewParts DEF Held, BothAre, IsIn, Claimed, ReqTyped

\* The request of one actor takes its next step.
LEMMA ReviewFromParts ==
    ASSUME ReviewInv, TypeOK', (\A v \in Versions : RowOK(v))', CurrentOK',
           NEW a \in Actors, Held(req[a])',
           \A b \in Actors \ {a} : req'[b] = req[b] /\ Held(req[b])',
           req'[a].step \in Claimed =>
              \/ req[a].step \in Claimed /\ req'[a].v = req[a].v
              \/ IsIn(req'[a].v, {"pending"})
    PROVE  ReviewInv'
<1>1. (\A b \in Actors : Held(req[b]))'
  OBVIOUS
<1>2. \A b \in Actors : req[b].step \in Claimed => ~IsIn(req[b].v, {"pending"})
  BY HolderAlone DEF IsIn
<1>3. Exclusive'
  BY <1>2 DEF Exclusive, ReviewInv
<1> QED BY <1>1, <1>3 DEF ReviewInv

\* A step of a request that leaves the rows alone.
LEMMA QuietStep ==
    ASSUME ReviewInv, TypeOK', UNCHANGED <<release, submission, submitted>>, torn \subseteq torn',
           listing'.current = listing.current,
           NEW a \in Actors, Held(req[a])', \A b \in Actors \ {a} : req'[b] = req[b],
           req'[a].step \in Claimed => req[a].step \in Claimed /\ req'[a].v = req[a].v
    PROVE  ReviewInv'
BY QuietKept, ReviewFromParts

\* What goes on is held as before.
LEMMA HeldOn ==
    ASSUME ReviewInv, NEW a \in Actors, NEW step, Goto(a, step),
           UNCHANGED <<release, submission, submitted>>, torn \subseteq torn',
           listing'.current = listing.current,
           step \notin {"idle", "claim", "yank"},
           step \in Claimed => req[a].step \in Claimed,
           step \in Claimed \ {"unpublish", "revert"} =>
              req[a].step \notin {"unpublish", "revert"},
           step \in {"get", "put", "publish"} =>
              \/ req[a].step \in {"get", "put", "publish"}
              \/ req[a].seen = None \/ req[a].v > req[a].seen
    PROVE  Held(req[a])'
<1>1. Held(req[a])
  BY ReviewParts
<1>2. /\ req'[a].step = step /\ req'[a].v = req[a].v /\ req'[a].seen = req[a].seen
      /\ req'[a].old = req[a].old
  BY GotoStep, ReviewParts
<1> QED BY <1>1, <1>2 DEF Held, BothAre, IsIn, Claimed

LEMMA HeldIdle == ASSUME NEW a \in Actors, req'[a] = Idle PROVE Held(req[a])'
BY DEF Held, Idle, Claimed

LEMMA QuietDone ==
    ASSUME ReviewInv, TypeOK', UNCHANGED <<release, submission, submitted>>, torn \subseteq torn',
           listing'.current = listing.current, NEW a \in Actors, Done(a)
    PROVE  ReviewInv'
BY DoneStep, HeldIdle, QuietStep, ReviewParts DEF Idle, Claimed

LEMMA QuietGoto ==
    ASSUME ReviewInv, TypeOK', UNCHANGED <<release, submission, submitted>>, torn \subseteq torn',
           listing'.current = listing.current, NEW a \in Actors, NEW step, Goto(a, step),
           step \notin {"idle", "claim", "yank"},
           step \in Claimed => req[a].step \in Claimed,
           step \in Claimed \ {"unpublish", "revert"} =>
              req[a].step \notin {"unpublish", "revert"},
           step \in {"get", "put", "publish"} =>
              \/ req[a].step \in {"get", "put", "publish"}
              \/ req[a].seen = None \/ req[a].v > req[a].seen
    PROVE  ReviewInv'
<1>1. Held(req[a])'
  BY HeldOn
<1>2. /\ req'[a].step = step /\ req'[a].v = req[a].v
      /\ \A b \in Actors \ {a} : req'[b] = req[b]
  BY GotoStep, ReviewParts
<1> QED BY <1>1, <1>2, QuietStep

\* A step on the rows of a version that no other request holds.
LEMMA LoudStep ==
    ASSUME ReviewInv, TypeOK', NEW v \in Versions, Frame(v), RowOK(v)',
           \/ listing'.current = listing.current /\ listing.current # v
           \/ listing'.current = v /\ IsIn(v, {"published"})',
           NEW a \in Actors, Held(req[a])', \A b \in Actors \ {a} : req'[b] = req[b],
           \A b \in Actors \ {a} : req[b].v = v => req[b].step \notin {"yank"} \cup Claimed,
           req'[a].step \in Claimed =>
              \/ req[a].step \in Claimed /\ req'[a].v = req[a].v
              \/ IsIn(req'[a].v, {"pending"})
    PROVE  ReviewInv'
<1>1. (\A w \in Versions : RowOK(w))' /\ CurrentOK'
  BY RowsKept
<1>2. \A b \in Actors \ {a} : Held(req[b])'
  BY HeldKept
<1> QED BY <1>1, <1>2, ReviewFromParts

\* A version that is not held by others.
LEMMA NotHeld ==
    ASSUME ReviewInv, NEW v, ~IsIn(v, {"reviewing", "published", "yanked"}), NEW b \in Actors
    PROVE  req[b].v = v => req[b].step \notin {"yank"} \cup Claimed
BY HolderAlone

LEMMA HeldByOne ==
    ASSUME ReviewInv, NEW a \in Actors, req[a].step \in Claimed, IsIn(req[a].v, {"reviewing"}),
           NEW b \in Actors \ {a}
    PROVE  req[b].v = req[a].v => req[b].step \notin {"yank"} \cup Claimed
BY ReviewParts DEF ReviewInv, Exclusive, Held, IsIn

LEMMA NotCurrent ==
    ASSUME ReviewInv, NEW v \in Versions, ~IsIn(v, {"published"})
    PROVE  listing.current # v
BY ExtensionHubAssumption DEF ReviewInv, CurrentOK

\* The batch of an upload.
LEMMA SaveKeeps ==
    ASSUME ReviewInv, TypeOK', NEW a \in Actors, req[a].step = "save", Unchanged(a), Save(a),
           UNCHANGED <<submitted, torn>>, NEW step \in {"unstage", "replace"},
           Done(a) \/ Goto(a, step)
    PROVE  ReviewInv'
<1>0. PICK v \in Versions : v = req[a].v
  BY ReviewParts DEF ReqTyped
<1>1. /\ UNCHANGED listing
      /\ release'[v] # None /\ release'[v].status = "draft"
      /\ \A w \in Versions \ {v} : release'[w] = release[w] /\ submission'[w] = submission[w]
      /\ submission'[v] = IF submission[v] = "pending" THEN "withdrawn" ELSE submission[v]
  BY <1>0, SaveStep, ReviewParts DEF IsIn
<1>2. ~IsIn(v, {"pending"}) /\ ~IsIn(v, {"reviewing", "published", "yanked"})
      /\ ~IsIn(v, {"reviewing"}) /\ ~IsIn(v, {"published", "yanked"}) /\ ~IsIn(v, {"published"})
  BY <1>0 DEF Unchanged, IsIn, Editable
<1>3. Frame(v)
  BY <1>1 DEF Frame
<1>4. RowOK(v)'
  BY <1>1, <1>2 DEF RowOK, IsIn, ReviewInv
<1>5. /\ \A b \in Actors \ {a} : req'[b] = req[b]
      /\ req'[a] = Idle \/ req'[a].step = step
  BY DoneStep, GotoStep, ReviewParts
<1>6. Held(req[a])' /\ req'[a].step \notin Claimed
  BY <1>5 DEF Held, Idle, Claimed
<1> QED BY <1>1, <1>2, <1>3, <1>4, <1>5, <1>6, LoudStep, NotHeld, NotCurrent

\* The batch that publishes.
LEMMA PublishKeeps ==
    ASSUME ReviewInv, TypeOK', NEW a \in Actors, req[a].step = "publish", Publishable(a),
           SetPublished(a), UNCHANGED submitted, torn \subseteq torn',
           NEW step \in {"clear", "unpublish"}, Goto(a, step), step = "unpublish" => Package(a) \in torn'
    PROVE  ReviewInv'
<1>0. PICK v \in Versions : v = req[a].v
  BY ReviewParts DEF ReqTyped
<1>1. /\ listing'.current = v
      /\ IsIn(v, {"published"})' /\ release'[v].package = Package(a)
      /\ \A w \in Versions \ {v} : release'[w] = release[w] /\ submission'[w] = submission[w]
      /\ submission'[v] = "approved"
  BY <1>0, PublishStep, ReviewParts
<1>2. IsIn(v, {"reviewing"}) /\ req[a].old \in submitted[v]
  BY <1>0, ReviewParts DEF Publishable, BothAre, Held, Claimed
<1>3. Frame(v)
  BY <1>1 DEF Frame
<1>4. RowOK(v)'
  BY <1>0, <1>1, <1>2 DEF RowOK, IsIn, Package
<1>5. /\ \A b \in Actors \ {a} : req'[b] = req[b]
      /\ req'[a].step = step /\ req'[a].v = v /\ req'[a].old = req[a].old
  BY <1>0, GotoStep, ReviewParts
<1>6. Held(req[a])'
  BY <1>0, <1>1, <1>2, <1>5 DEF Held, BothAre, IsIn, Claimed, Package
<1>7. \A b \in Actors \ {a} : req[b].v = v => req[b].step \notin {"yank"} \cup Claimed
  BY <1>0, <1>2, HeldByOne DEF Claimed
<1> QED BY <1>0, <1>1, <1>3, <1>4, <1>5, <1>6, <1>7, LoudStep DEF Claimed

\* A step that ends a request on a version no other request holds.
LEMMA LoudDone ==
    ASSUME ReviewInv, TypeOK', NEW v \in Versions, Frame(v), RowOK(v)',
           listing'.current = listing.current, listing.current # v,
           NEW a \in Actors, Done(a),
           \A b \in Actors \ {a} : req[b].v = v => req[b].step \notin {"yank"} \cup Claimed
    PROVE  ReviewInv'
<1>1. req'[a] = Idle /\ \A b \in Actors \ {a} : req'[b] = req[b]
  BY DoneStep, ReviewParts
<1>2. Held(req[a])' /\ req'[a].step \notin Claimed
  BY <1>1, HeldIdle DEF Idle, Claimed
<1> QED BY <1>1, <1>2, LoudStep

LEMMA SubmitKeeps ==
    ASSUME ReviewInv, TypeOK', NEW a \in Actors, CommitSubmit(a), Unchanged(a)
    PROVE  ReviewInv'
<1>0. PICK v \in Versions : v = req[a].v
  BY ReviewParts DEF ReqTyped, CommitSubmit
<1>1. /\ listing'.current = listing.current /\ IsIn(v, Editable)
      /\ IsIn(v, {"pending"})' /\ release'[v].staging = req[a].old
      /\ \A w \in Versions \ {v} : release'[w] = release[w] /\ submission'[w] = submission[w]
                                   /\ submitted'[w] = submitted[w]
      /\ submission'[v] = "pending"
      /\ submitted'[v] = submitted[v] \cup {req[a].old}
  BY <1>0, SubmitStep, ReviewParts
<1>2. ~IsIn(v, {"reviewing", "published", "yanked"}) /\ ~IsIn(v, {"published"})
  BY <1>1 DEF IsIn, Editable
<1>3. Frame(v)
  BY <1>1 DEF Frame, CommitSubmit
<1>4. RowOK(v)'
  BY <1>1 DEF RowOK, IsIn
<1>5. Done(a)
  BY DEF CommitSubmit
<1> QED BY <1>1, <1>2, <1>3, <1>4, <1>5, LoudDone, NotHeld, NotCurrent

LEMMA ClaimKeeps ==
    ASSUME ReviewInv, TypeOK', NEW a \in Actors, Claim(a), Claimable(req[a].v)
    PROVE  ReviewInv'
<1>0. PICK v \in Versions : v = req[a].v
  BY ReviewParts DEF ReqTyped, Claim
<1>1. IsIn(v, {"pending"}) /\ submission[v] = "pending" /\ req[a].old \in submitted[v]
  BY <1>0, ReviewParts DEF Claimable, BothAre, Held, Claim
<1>2. /\ UNCHANGED listing
      /\ \A w \in Versions \ {v} : release'[w] = release[w] /\ submission'[w] = submission[w]
      /\ submission'[v] = "reviewing" /\ IsIn(v, {"reviewing"})'
      /\ release'[v].staging = release[v].staging
  BY <1>0, <1>1, MoveStep, ReviewParts DEF Claim
<1>3. Frame(v) /\ UNCHANGED submitted
  BY <1>2 DEF Frame, Claim, history
<1>4. RowOK(v)'
  BY <1>1, <1>2, <1>3 DEF RowOK, IsIn, ReviewInv
<1>5. PICK step \in {"compare", "decide"} : Goto(a, step)
  BY DEF Claim
<1>6. /\ \A b \in Actors \ {a} : req'[b] = req[b]
      /\ req'[a].step = step /\ req'[a].v = v /\ req'[a].old = req[a].old
  BY <1>0, <1>5, GotoStep, ReviewParts
<1>7. Held(req[a])'
  BY <1>1, <1>2, <1>3, <1>6 DEF Held, BothAre, IsIn, Claimed
<1>8. ~IsIn(v, {"reviewing", "published", "yanked"}) /\ ~IsIn(v, {"published"})
  BY <1>1 DEF IsIn
<1> QED BY <1>1, <1>2, <1>3, <1>4, <1>6, <1>7, <1>8, LoudStep, NotHeld, NotCurrent

LEMMA DecideKeeps ==
    ASSUME ReviewInv, TypeOK', NEW a \in Actors, Decide(a), req[a].action \in SubmissionStatuses
    PROVE  ReviewInv'
<1>0. PICK v \in Versions : v = req[a].v
  BY ReviewParts DEF ReqTyped, Decide
<1>1. IsIn(v, {"reviewing"}) /\ submission[v] = "reviewing"
  BY <1>0, ReviewParts DEF Held, Decide, BothAre, Claimed
<1>2. /\ listing'.current = listing.current /\ IsIn(v, {"changes", "rejected"})'
      /\ \A w \in Versions \ {v} : release'[w] = release[w] /\ submission'[w] = submission[w]
      /\ submission'[v] = "changes"
  BY <1>0, <1>1, DecideStep, ReviewParts DEF IsIn
<1>3. Frame(v) /\ Done(a)
  BY <1>2 DEF Frame, Decide, history
<1>4. RowOK(v)'
  BY <1>2 DEF RowOK, IsIn
<1>5. \A b \in Actors \ {a} : req[b].v = v => req[b].step \notin {"yank"} \cup Claimed
  BY <1>0, <1>1, HeldByOne DEF Claimed, Decide
<1>6. listing.current # v
  BY <1>1, NotCurrent DEF IsIn
<1> QED BY <1>2, <1>3, <1>4, <1>5, <1>6, LoudDone

\* A review gives its release back, unless it was published.
LEMMA RevertKeeps ==
    ASSUME ReviewInv, TypeOK', NEW a \in Actors, Revert(a)
    PROVE  ReviewInv'
<1>0. PICK v \in Versions : v = req[a].v
  BY ReviewParts DEF ReqTyped, Revert
<1>1. Move(v, {"reviewing"}, "pending") /\ Done(a) /\ UNCHANGED <<submitted, torn>>
  BY <1>0 DEF Revert, history
<1>2. /\ UNCHANGED listing
      /\ \A w \in Versions \ {v} : release'[w] = release[w] /\ submission'[w] = submission[w]
      /\ submission'[v] = IF submission[v] = "reviewing" THEN "pending" ELSE submission[v]
      /\ ~IsIn(v, {"reviewing"}) => release'[v] = release[v]
      /\ IsIn(v, {"reviewing"}) => IsIn(v, {"pending"})' /\ release'[v].staging = release[v].staging
  BY <1>1, MoveStep, ReviewParts
<1>3. CASE IsIn(v, {"reviewing"})
  <2>1. submission[v] = "reviewing" /\ release[v].staging \in submitted[v] /\ Frame(v)
    BY <1>1, <1>2, <1>3 DEF ReviewInv, RowOK, IsIn, Frame
  <2>2. RowOK(v)'
    BY <1>1, <1>2, <1>3, <2>1 DEF RowOK, IsIn
  <2>3. \A b \in Actors \ {a} : req[b].v = v => req[b].step \notin {"yank"} \cup Claimed
    BY <1>0, <1>3, HeldByOne DEF Claimed, Revert
  <2>4. listing.current # v
    BY <1>3, NotCurrent DEF IsIn
  <2> QED BY <1>1, <1>2, <2>1, <2>2, <2>3, <2>4, LoudDone
<1>4. CASE ~IsIn(v, {"reviewing"})
  <2>1. submission[v] # "reviewing"
    BY <1>4 DEF ReviewInv, RowOK
  <2>2. UNCHANGED <<release, submission>>
    BY <1>1, <1>2, <1>4, <2>1, ReviewParts DEF TypeOK, Move
  <2> QED BY <1>1, <1>2, <2>2, QuietDone
<1> QED BY <1>3, <1>4

LEMMA YankKeeps ==
    ASSUME ReviewInv, TypeOK', NEW a \in Actors, CommitYank(a)
    PROVE  ReviewInv'
<1>0. PICK v \in Versions : v = req[a].v
  BY ReviewParts DEF ReqTyped, CommitYank
<1>1. IsIn(v, {"published", "yanked"}) /\ listing.current # v
  BY <1>0, ReviewParts DEF Held, CommitYank
<1>2. /\ UNCHANGED <<listing, submission, submitted, torn>> /\ IsIn(v, {"yanked"})'
      /\ release'[v].package = release[v].package /\ Done(a)
      /\ \A w \in Versions \ {v} : release'[w] = release[w]
  BY <1>0, <1>1, YankStep, ReviewParts DEF IsIn, CommitYank, history
<1>3. RowOK(v)'
  BY <1>1, <1>2 DEF RowOK, IsIn, ReviewInv
<1>4. Frame(v)
  BY <1>2 DEF Frame
<1>5. (\A w \in Versions : RowOK(w))' /\ CurrentOK'
  BY <1>1, <1>2, <1>3, <1>4, RowsKept
<1>6. req'[a] = Idle /\ \A b \in Actors \ {a} : req'[b] = req[b]
  BY <1>2, DoneStep, ReviewParts
<1>7. ASSUME NEW b \in Actors \ {a} PROVE Held(req[b])'
  <2>1. CASE req[b].v = v /\ req[b].step \in {"yank"} \cup Claimed
    <3>1. Held(req[b]) /\ req'[b] = req[b]
      BY <1>6, ReviewParts
    <3>2. req[b].step \in {"yank", "unpublish", "revert"}
      BY <1>1, <2>1, <3>1 DEF Held, BothAre, IsIn, Claimed
    <3> QED BY <1>1, <1>2, <2>1, <3>1, <3>2 DEF Held, BothAre, IsIn, Claimed
  <2>2. CASE ~(req[b].v = v /\ req[b].step \in {"yank"} \cup Claimed)
    BY <1>2, <1>4, <1>6, <2>2, HeldKept
  <2> QED BY <2>1, <2>2
<1> QED BY <1>5, <1>6, <1>7, HeldIdle, ReviewFromParts DEF Idle, Claimed

LEMMA ExpireKeeps ==
    ASSUME ReviewInv, TypeOK', NEW v \in Versions, ExpireClaim(v)
    PROVE  ReviewInv'
<1>1. /\ Move(v, {"reviewing"}, "pending") /\ UNCHANGED <<req, submitted, torn>>
      /\ submission[v] = "reviewing" /\ IsIn(v, {"reviewing"})
      /\ \A b \in Actors : ~(req[b].v = v /\ req[b].step \in Claimed)
  BY DEF ExpireClaim, GiveBack, history, ReviewInv, RowOK
<1>2. /\ UNCHANGED listing
      /\ \A w \in Versions \ {v} : release'[w] = release[w] /\ submission'[w] = submission[w]
      /\ submission'[v] = "pending" /\ IsIn(v, {"pending"})'
      /\ release'[v].staging = release[v].staging
  BY <1>1, MoveStep, ReviewParts
<1>3. RowOK(v)' /\ Frame(v) /\ listing.current # v
  BY <1>1, <1>2, NotCurrent DEF RowOK, IsIn, ReviewInv, Frame
<1>4. (\A w \in Versions : RowOK(w))' /\ CurrentOK'
  BY <1>2, <1>3, RowsKept
<1>5. ASSUME NEW b \in Actors PROVE Held(req[b])'
  <2>1. req[b].v = v => req[b].step # "yank"
    BY <1>1, ReviewParts DEF Held, IsIn
  <2> QED BY <1>1, <1>2, <1>3, <2>1, HeldKept
<1> QED BY <1>1, <1>4, <1>5 DEF ReviewInv, Exclusive

LEMMA ReviewStep == ReviewInv /\ [Next]_vars => ReviewInv'
<1> SUFFICES ASSUME ReviewInv, [Next]_vars PROVE ReviewInv'
  OBVIOUS
<1>t. TypeOK'
  BY TypeStep, ReviewParts
<1> USE DEF rows, history
<1>a. ASSUME NEW a \in Actors, NEW v, NEW r,
             req' = [req EXCEPT ![a] = r],
             UNCHANGED <<release, submission, submitted>>, torn \subseteq torn',
             listing'.current = listing.current,
             r.step \notin Claimed, Held(r)
      PROVE  ReviewInv'
  <2>1. req'[a] = r /\ \A b \in Actors \ {a} : req'[b] = req[b]
    BY <1>a, ReviewParts DEF TypeOK
  <2>2. Held(req[a])'
    BY <1>a, <2>1 DEF Held, BothAre, IsIn
  <2> QED BY <1>a, <1>t, <2>1, <2>2, QuietStep
<1>1. ASSUME NEW a \in Actors, NEW v \in Versions, Upload(a, v) PROVE ReviewInv'
  <2> DEFINE r == [Idle EXCEPT !.step = "version", !.v = v, !.seen = listing.current]
  <2>1. r.step \notin Claimed /\ Held(r)
    BY DEF Idle, Held, Claimed
  <2> QED BY <1>1, <1>a, <2>1 DEF Upload
<1>2. ASSUME NEW a \in Actors, CheckVersion(a) PROVE ReviewInv'
  BY <1>2, <1>t, QuietDone, QuietGoto DEF CheckVersion, Claimed
<1>3. ASSUME NEW a \in Actors, ReadRow(a) PROVE ReviewInv'
  <2>1. CASE Goto(a, "stage")
    BY <1>3, <1>t, <2>1, QuietGoto DEF ReadRow, Claimed
  <2>2. CASE Done(a)
    BY <1>3, <1>t, <2>2, QuietDone DEF ReadRow
  <2>3. CASE req' = [req EXCEPT ![a].step = "stage", ![a].old = release[req[a].v].staging]
    <3> DEFINE r == [req[a] EXCEPT !.step = "stage", !.old = release[req[a].v].staging]
    <3>1. r.step \notin Claimed /\ Held(r)
      BY ReviewParts DEF ReqTyped, ReqType, Held, Claimed
    <3>2. req' = [req EXCEPT ![a] = r]
      BY <2>3
    <3> QED BY <1>3, <1>a, <3>1, <3>2 DEF ReadRow
  <2> QED BY <1>3, <2>1, <2>2, <2>3 DEF ReadRow
<1>4. ASSUME NEW a \in Actors, Stage(a) PROVE ReviewInv'
  <2> DEFINE r == [req[a] EXCEPT !.step = "save", !.key = uploads + 1]
  <2>1. r.step \notin Claimed /\ Held(r)
    BY ReviewParts DEF ReqTyped, ReqType, Held, Claimed
  <2>2. req' = [req EXCEPT ![a] = r]
    BY <1>4 DEF Stage
  <2> QED BY <1>4, <1>a, <2>1, <2>2 DEF Stage
<1>5. ASSUME NEW a \in Actors, SaveRelease(a) PROVE ReviewInv'
  BY <1>5, <1>t, SaveKeeps, QuietGoto DEF SaveRelease, Claimed
<1>6. ASSUME NEW a \in Actors, NEW committed \in BOOLEAN, SaveFails(a, committed)
      PROVE ReviewInv'
  BY <1>6, <1>t, SaveKeeps, QuietGoto DEF SaveFails, Claimed
<1>7. ASSUME NEW a \in Actors, Unstage(a) PROVE ReviewInv'
  BY <1>7, <1>t, QuietDone DEF Unstage
<1>8. ASSUME NEW a \in Actors, NEW v \in Versions, Submit(a, v) PROVE ReviewInv'
  <2> DEFINE r == [Idle EXCEPT !.step = "submit", !.v = v, !.seen = listing.current,
                               !.old = release[v].staging]
  <2>1. r.step \notin Claimed /\ Held(r)
    BY DEF Idle, Held, Claimed
  <2> QED BY <1>8, <1>a, <2>1 DEF Submit
<1>9. ASSUME NEW a \in Actors, CommitSubmit(a) PROVE ReviewInv'
  BY <1>9, <1>t, SubmitKeeps, QuietDone DEF CommitSubmit
<1>10. ASSUME NEW a \in Actors, NEW v \in Versions, NEW action \in Decisions,
              Review(a, v, action)
       PROVE ReviewInv'
  <2> DEFINE r == [Idle EXCEPT !.step = "claim", !.v = v, !.action = action,
                               !.seen = listing.current, !.old = release[v].staging]
  <2>1. release[v].staging \in submitted[v]
    BY <1>10 DEF Review, BothAre, ReviewInv, RowOK, IsIn
  <2>2. r.step \notin Claimed /\ Held(r)
    BY <2>1 DEF Idle, Held, Claimed
  <2> QED BY <1>10, <1>a, <2>2 DEF Review
<1>11. ASSUME NEW a \in Actors, Claim(a) PROVE ReviewInv'
  BY <1>11, <1>t, ClaimKeeps, QuietDone DEF Claim
<1>12. ASSUME NEW a \in Actors, Compare(a) PROVE ReviewInv'
  BY <1>12, <1>t, QuietGoto DEF Compare, Newer, Claimed
<1>13. ASSUME NEW a \in Actors, GetStaged(a) PROVE ReviewInv'
  BY <1>13, <1>t, QuietGoto DEF GetStaged, Claimed
<1>14. ASSUME NEW a \in Actors, PutPackage(a) PROVE ReviewInv'
  BY <1>14, <1>t, QuietGoto DEF PutPackage, Claimed
<1>15. ASSUME NEW a \in Actors, Publish(a) PROVE ReviewInv'
  BY <1>15, <1>t, PublishKeeps, QuietGoto DEF Publish, Claimed
<1>16. ASSUME NEW a \in Actors, NEW committed \in BOOLEAN, PublishFails(a, committed)
       PROVE ReviewInv'
  BY <1>16, <1>t, PublishKeeps, QuietGoto DEF PublishFails, Claimed
<1>17. ASSUME NEW a \in Actors, Unpublish(a) PROVE ReviewInv'
  BY <1>17, <1>t, QuietGoto DEF Unpublish, Claimed
<1>18. ASSUME NEW a \in Actors, ClearStaged(a) PROVE ReviewInv'
  BY <1>18, <1>t, QuietDone DEF ClearStaged
<1>19. ASSUME NEW a \in Actors, Decide(a) PROVE ReviewInv'
  BY <1>19, <1>t, DecideKeeps, QuietGoto DEF Decide, Claimed
<1>20. ASSUME NEW a \in Actors, CallFails(a) PROVE ReviewInv'
  BY <1>20, <1>t, QuietGoto DEF CallFails, Claimed
<1>21. ASSUME NEW a \in Actors, Revert(a) PROVE ReviewInv'
  BY <1>21, <1>t, RevertKeeps
<1>22. ASSUME NEW a \in Actors, NEW v \in Versions, Yank(a, v) PROVE ReviewInv'
  <2> DEFINE r == [Idle EXCEPT !.step = "yank", !.v = v]
  <2>1. r.step \notin Claimed /\ Held(r)
    BY <1>22 DEF Yank, Yankable, IsIn, Idle, Held, Claimed
  <2> QED BY <1>22, <1>a, <2>1 DEF Yank
<1>23. ASSUME NEW a \in Actors, CommitYank(a) PROVE ReviewInv'
  BY <1>23, <1>t, YankKeeps
<1>24. CASE Suspend
  <2>1. listing'.current = listing.current /\ UNCHANGED <<release, submission, submitted, torn, req>>
    BY <1>24, ReviewParts DEF Suspend, TypeOK
  <2> QED BY <1>t, <2>1, QuietKept DEF ReviewInv, Exclusive
<1>25. ASSUME NEW v \in Versions, ExpireClaim(v) PROVE ReviewInv'
  BY <1>25, <1>t, ExpireKeeps
<1>26. ASSUME NEW k \in Keys, ExpireStaged(k) PROVE ReviewInv'
  BY <1>26, <1>t, QuietKept DEF ExpireStaged, ReviewInv, Exclusive
<1>27. ASSUME NEW a \in Actors, Abort(a) PROVE ReviewInv'
  BY <1>27, <1>t, QuietDone DEF Abort
<1>28. CASE UNCHANGED vars
  BY <1>28, <1>t, QuietKept DEF vars, ReviewInv, Exclusive
<1> QED BY <1>1, <1>2, <1>3, <1>4, <1>5, <1>6, <1>7, <1>8, <1>9, <1>10, <1>11, <1>12, <1>13,
           <1>14, <1>15, <1>16, <1>17, <1>18, <1>19, <1>20, <1>21, <1>22, <1>23, <1>24,
           <1>25, <1>26, <1>27, <1>28 DEF Next, Continue

LEMMA ReviewAlways == Spec => []ReviewInv
<1>1. Init => ReviewInv
  <2> SUFFICES ASSUME Init PROVE ReviewInv
    OBVIOUS
  <2>1. TypeOK
    <3>1. /\ listing \in [status : ListingStatuses, current : Versions \cup {None}]
          /\ release \in [Versions -> ReleaseType \cup {None}]
          /\ submission \in [Versions -> SubmissionStatuses \cup {None}]
      BY DEF Init, ListingStatuses
    <3>2. /\ uploads \in 0 .. MaxUploads /\ faults \in Nat
          /\ submitted \in [Versions -> SUBSET Keys]
      BY ExtensionHubAssumption DEF Init
    <3>3. req \in [Actors -> ReqType] /\ \A a \in Actors : ReqTyped(req[a])
      BY TypedIdle DEF Init, ReqTyped
    <3> QED BY <3>1, <3>2, <3>3 DEF TypeOK, ReqTyped, Init
  <2>2. \A v \in Versions : RowOK(v)
    BY ExtensionHubAssumption DEF Init, RowOK, IsIn, SubmissionStatuses
  <2> QED BY <2>1, <2>2 DEF Init, ReviewInv, CurrentOK, Held, Exclusive, Idle, Claimed
<1> QED BY <1>1, ReviewStep, PTL DEF Spec

\* TypeOK holds in every state of the hub (extensions-hub/src/index.ts): what a row or
\* an upload is, and what each step of a request has read.
THEOREM TypeCorrect == Spec => []TypeOK
<1>1. ReviewInv => TypeOK
  BY DEF ReviewInv
<1> QED BY <1>1, ReviewAlways, PTL

\* Release and submission agree, whoever uploads, submits, claims and decides at once
\* (submitRelease, reviewDecision, approveRelease, cleanupExpiredState).
THEOREM StatusesAgreeAlways == Spec => []StatusesAgree
<1>1. ReviewInv => StatusesAgree
  BY DEF ReviewInv, RowOK, StatusesAgree
<1> QED BY <1>1, ReviewAlways, PTL

\* What is published was submitted by its publisher, as these bytes (uploadRelease,
\* submitRelease, approveRelease).
THEOREM OnlySubmittedAlways == Spec => []OnlySubmittedIsPublished
<1>1. ReviewInv => OnlySubmittedIsPublished
  BY DEF ReviewInv, RowOK, OnlySubmittedIsPublished
<1> QED BY <1>1, ReviewAlways, PTL

\* What a step does to published releases.
Kept(v) ==
    /\ IsIn(v, {"published"}) =>
          release'[v] \in {release[v], [release[v] EXCEPT !.status = "yanked"]}
    /\ IsIn(v, {"published", "yanked"}) =>
          IsIn(v, {"published", "yanked"})' /\ release'[v].package = release[v].package
Rise ==
    /\ listing'.current # listing.current =>
          listing.current = None \/ listing'.current > listing.current
    /\ \A v \in Versions : Kept(v)

LEMMA RiseStep == ReviewInv /\ [Next]_vars => Rise
<1> SUFFICES ASSUME ReviewInv, [Next]_vars PROVE Rise
  OBVIOUS
<1> USE DEF rows, Rise, Kept
<1>t. TypeOK /\ \A a \in Actors : ReqTyped(req[a]) /\ Held(req[a])
  BY ReviewParts
<1>q. listing'.current = listing.current /\ UNCHANGED release => Rise
  BY DEF IsIn
<1>o. ASSUME NEW v \in Versions, ~IsIn(v, {"published", "yanked"}),
             listing'.current = listing.current,
             \A w \in Versions \ {v} : release'[w] = release[w]
      PROVE  Rise
  BY <1>o DEF IsIn
<1>m. ASSUME NEW v \in Versions, NEW from \in {{"pending"}, {"reviewing"}},
             NEW to \in {"pending", "reviewing"}, Move(v, from, to)
      PROVE  Rise
  <2>1. CASE IsIn(v, from)
    BY <1>m, <1>t, <1>o, <2>1, MoveStep DEF IsIn
  <2>2. CASE ~IsIn(v, from)
    BY <1>m, <1>q, <2>2 DEF Move
  <2> QED BY <2>1, <2>2
<1>s. ASSUME NEW a \in Actors, req[a].step = "save", Unchanged(a), Save(a) PROVE Rise
  <2>1. PICK v \in Versions : v = req[a].v
    BY <1>s, <1>t DEF ReqTyped
  <2>2. ~IsIn(v, {"published", "yanked"})
    BY <1>s, <2>1 DEF Unchanged, IsIn, Editable
  <2> QED BY <1>s, <1>t, <1>o, <2>1, <2>2, SaveStep
<1>p. ASSUME NEW a \in Actors, req[a].step = "publish", Publishable(a), SetPublished(a)
      PROVE  Rise
  <2>1. PICK v \in Versions : v = req[a].v
    BY <1>p, <1>t DEF ReqTyped
  <2>2. /\ listing'.current = v /\ \A w \in Versions \ {v} : release'[w] = release[w]
    BY <1>p, <1>t, <2>1, PublishStep
  <2>3. listing.current = None \/ v > listing.current
    BY <1>p, <1>t, <2>1 DEF Publishable, Held
  <2>4. ~IsIn(v, {"published", "yanked"})
    BY <1>p, <2>1 DEF Publishable, BothAre, IsIn
  <2> QED BY <2>2, <2>3, <2>4 DEF IsIn
<1>1. ASSUME NEW a \in Actors, CommitSubmit(a) PROVE Rise
  <2>1. PICK v \in Versions : v = req[a].v
    BY <1>1, <1>t DEF ReqTyped, CommitSubmit
  <2>2. CASE Unchanged(a)
    <3>1. IsIn(v, Editable) /\ listing'.current = listing.current
          /\ \A w \in Versions \ {v} : release'[w] = release[w]
      BY <1>1, <1>t, <2>1, <2>2, SubmitStep
    <3> QED BY <1>o, <3>1 DEF IsIn, Editable
  <2> QED BY <1>1, <1>q, <2>2 DEF CommitSubmit
<1>2. ASSUME NEW a \in Actors, Decide(a) PROVE Rise
  <2>1. PICK v \in Versions : v = req[a].v
    BY <1>2, <1>t DEF ReqTyped, Decide
  <2>2. CASE req[a].action \in SubmissionStatuses
    <3>1. IsIn(v, {"reviewing"})
      BY <1>2, <1>t, <2>1 DEF Held, Decide, BothAre, Claimed
    <3>2. listing'.current = listing.current
          /\ \A w \in Versions \ {v} : release'[w] = release[w]
      BY <1>2, <1>t, <2>1, <2>2, <3>1, DecideStep DEF IsIn
    <3> QED BY <1>o, <3>1, <3>2 DEF IsIn
  <2> QED BY <1>2, <1>q, <2>2 DEF Decide
<1>3. ASSUME NEW a \in Actors, CommitYank(a) PROVE Rise
  <2>1. PICK v \in Versions : v = req[a].v
    BY <1>3, <1>t DEF ReqTyped, CommitYank
  <2>2. release[v] # None
    BY <1>3, <1>t, <2>1 DEF Held, IsIn, CommitYank
  <2>3. /\ UNCHANGED listing /\ IsIn(v, {"yanked"})'
        /\ release'[v].package = release[v].package
        /\ release' = [release EXCEPT ![v].status = "yanked"]
        /\ \A w \in Versions \ {v} : release'[w] = release[w]
    BY <1>3, <1>t, <2>1, <2>2, YankStep
  <2>4. release'[v] = [release[v] EXCEPT !.status = "yanked"]
    BY <1>t, <2>3 DEF TypeOK
  <2> QED BY <2>3, <2>4 DEF IsIn
<1>4. ASSUME NEW a \in Actors, Continue(a) PROVE Rise
  <2>1. ASSUME Claim(a) PROVE Rise
    BY <1>m, <1>q, <1>t, <2>1 DEF Claim, ReqTyped
  <2>2. ASSUME Revert(a) PROVE Rise
    BY <1>m, <1>t, <2>2 DEF Revert, ReqTyped
  <2>3. ASSUME SaveRelease(a) PROVE Rise
    BY <1>s, <1>q, <2>3 DEF SaveRelease
  <2>4. ASSUME Publish(a) PROVE Rise
    BY <1>p, <1>q, <2>4 DEF Publish
  <2> QED BY <1>4, <1>q, <1>1, <1>2, <1>3, <2>1, <2>2, <2>3, <2>4
          DEF Continue, CheckVersion, ReadRow, Stage, Unstage, Compare, GetStaged, PutPackage,
              Unpublish, ClearStaged
<1>5. ASSUME NEW a \in Actors, NEW committed \in BOOLEAN,
             SaveFails(a, committed) \/ PublishFails(a, committed)
      PROVE  Rise
  BY <1>5, <1>s, <1>p, <1>q DEF SaveFails, PublishFails
<1>6. ASSUME NEW v \in Versions, ExpireClaim(v) PROVE Rise
  BY <1>6, <1>m DEF ExpireClaim, GiveBack
<1>7. ASSUME NEW a \in Actors, NEW v \in Versions,
             \/ Upload(a, v) \/ Submit(a, v) \/ Yank(a, v)
             \/ \E action \in Decisions : Review(a, v, action)
      PROVE  Rise
  BY <1>7, <1>q DEF Upload, Submit, Review, Yank
<1>8. CASE Suspend
  BY <1>8, <1>q, <1>t DEF Suspend, TypeOK
<1>9. CASE \/ \E a \in Actors : CallFails(a) \/ Abort(a)
           \/ \E k \in Keys : ExpireStaged(k)
  BY <1>9, <1>q DEF CallFails, Abort, ExpireStaged
<1>10. CASE UNCHANGED vars
  BY <1>10, <1>q DEF vars
<1> QED BY <1>4, <1>5, <1>6, <1>7, <1>8, <1>9, <1>10 DEF Next

\* The current release only gives way to a newer one, and a published one is only
\* withdrawn, however many approvals are under way (approveRelease, yankRelease).
THEOREM VersionsOnlyRiseAlways == Spec => VersionsOnlyRise
<1>1. ReviewInv /\ [Next]_vars =>
        /\ listing'.current # listing.current =>
             listing.current = None \/ listing'.current > listing.current
        /\ \A v \in Versions : IsIn(v, {"published"}) =>
             release'[v] \in {release[v], [release[v] EXCEPT !.status = "yanked"]}
  BY RiseStep DEF Rise, Kept
<1> QED BY <1>1, ReviewAlways, PTL DEF Spec, VersionsOnlyRise

-----------------------------------------------------------------------------
(* Objects.                                                                 *)

NoRow(k) == \A v \in Versions : release[v] = None \/ release[v].staging # k

\* What a request knows of the keys it uses: one it has not saved is in no row, one
\* it gave up or replaced is in none that still needs it, and one it reviews is in no
\* row but its own.
KeysOK(r) ==
    /\ r.old \in Keys => r.old <= uploads
    /\ r.step \in {"save", "unstage"} => r.key <= uploads
    /\ r.step = "save" => r.key \in staged /\ NoRow(r.key) /\ r.old # r.key
    /\ r.step = "unstage" => NoRow(r.key) \/ r.key \in gone
    /\ r.step = "replace" => NoRow(r.old)
    /\ r.step \in {"claim", "clear"} \cup Claimed =>
          \A v \in Versions \ {r.v} : release[v] = None \/ release[v].staging # r.old
    /\ r.step = "clear" => IsIn(r.v, {"published", "yanked"})
    /\ r.step = "publish" => <<r.v, r.old>> \in packages

\* The key that r saves is its own.
Apart(r, q) ==
    r.step = "save" => /\ q.old # r.key
                       /\ q.step \in {"save", "unstage"} => q.key # r.key

RowKeys(v) ==
    release[v] # None =>
        /\ release[v].staging <= uploads
        /\ \A w \in Versions \ {v} : release[w] = None \/ release[w].staging # release[v].staging
        /\ IF IsIn(v, {"published", "yanked"}) THEN release[v].package \in packages \cup torn
           ELSE release[v].staging \in staged \cup gone

KeyInv ==
    /\ \A v \in Versions : RowKeys(v)
    /\ \A a \in Actors : KeysOK(req[a])
    /\ \A a, b \in Actors : a # b => Apart(req[a], req[b])

\* A step that changes no row's staging key.
Stayed ==
    \A w \in Versions : release'[w] # None =>
        /\ release[w] # None /\ release'[w].staging = release[w].staging
        /\ IsIn(w, {"published", "yanked"})' =>
              IsIn(w, {"published", "yanked"}) \/ release'[w].package \in packages'

Grow == uploads <= uploads' /\ gone \subseteq gone' /\ torn \subseteq torn'

\* Nothing that is deleted is needed by a row, or by the request q.
NotNeeded ==
    /\ \A k \in staged \ staged' : k \notin gone' =>
          \A w \in Versions : release[w] = None \/ release[w].staging # k
                              \/ IsIn(w, {"published", "yanked"})
    /\ \A p \in packages \ packages' : p \notin torn' =>
          \A w \in Versions : IsIn(w, {"published", "yanked"}) => release[w].package # p
NotUsed(q) ==
    /\ q.step = "save" => q.key \notin staged \ staged'
    /\ q.step = "publish" => <<q.v, q.old>> \notin packages \ packages'

LEMMA RowKeysStay ==
    ASSUME ReviewInv, KeyInv, Rise, Stayed, Grow, NotNeeded, TypeOK', NEW v \in Versions
    PROVE  RowKeys(v)'
<1> SUFFICES ASSUME release'[v] # None PROVE RowKeys(v)'
  BY DEF RowKeys
<1>1. RowKeys(v) /\ release[v] # None /\ release'[v].staging = release[v].staging
  BY DEF KeyInv, Stayed
<1>2. release[v].staging \in Nat /\ uploads \in Nat /\ uploads' \in Nat /\ uploads <= uploads'
  BY <1>1, ReviewParts, TypedRows DEF TypeOK, ReleaseType, Keys, Grow
<1>3. release'[v].staging <= uploads'
  BY <1>1, <1>2 DEF RowKeys
<1>4. \A w \in Versions \ {v} : release'[w] = None \/ release'[w].staging # release'[v].staging
  BY <1>1 DEF RowKeys, Stayed
<1>5. CASE IsIn(v, {"published", "yanked"})
  <2>1. release[v].package \in packages \cup torn
    BY <1>1, <1>5 DEF RowKeys
  <2>2. IsIn(v, {"published", "yanked"})' /\ release'[v].package = release[v].package
    BY <1>5 DEF Rise, Kept
  <2>3. release[v].package \in packages' \cup torn'
    BY <1>5, <2>1 DEF NotNeeded, Grow
  <2> QED BY <1>3, <1>4, <2>2, <2>3 DEF RowKeys
<1>6. CASE ~IsIn(v, {"published", "yanked"})
  <2>1. release[v].staging \in staged' \cup gone'
    BY <1>1, <1>6 DEF RowKeys, NotNeeded, Grow
  <2>2. IsIn(v, {"published", "yanked"})' => release'[v].package \in packages'
    BY <1>6 DEF Stayed
  <2> QED BY <1>1, <1>3, <1>4, <2>1, <2>2 DEF RowKeys
<1> QED BY <1>5, <1>6

LEMMA KeysStay ==
    ASSUME ReviewInv, KeyInv, Rise, Stayed, Grow, TypeOK',
           NEW b \in Actors, NotUsed(req[b]), req'[b] = req[b]
    PROVE  KeysOK(req[b])'
<1>1. KeysOK(req[b]) /\ ReqTyped(req[b])
  BY ReviewParts DEF KeyInv
<1>2. /\ req[b].old \in Keys => req[b].old <= uploads'
      /\ req[b].step \in {"save", "unstage"} => req[b].key <= uploads'
  BY <1>1, ReviewParts DEF KeysOK, ReqTyped, TypeOK, Keys, Grow
<1>3. \A k : NoRow(k) => NoRow(k)'
  BY DEF NoRow, Stayed
<1>4. /\ req[b].step = "save" => req[b].key \in staged' /\ NoRow(req[b].key)' /\ req[b].old # req[b].key
      /\ req[b].step = "unstage" => NoRow(req[b].key)' \/ req[b].key \in gone'
      /\ req[b].step = "replace" => NoRow(req[b].old)'
  BY <1>1, <1>3 DEF KeysOK, NotUsed, Grow
<1>5. req[b].step \in {"claim", "clear"} \cup Claimed =>
        \A v \in Versions \ {req[b].v} : release'[v] = None \/ release'[v].staging # req[b].old
  BY <1>1 DEF KeysOK, Stayed
<1>6. req[b].step = "clear" => IsIn(req[b].v, {"published", "yanked"})'
  BY <1>1 DEF KeysOK, Rise, Kept, ReqTyped
<1>7. req[b].step = "publish" => <<req[b].v, req[b].old>> \in packages'
  BY <1>1 DEF KeysOK, NotUsed
<1> QED BY <1>2, <1>4, <1>5, <1>6, <1>7 DEF KeysOK

\* A step of a request, or of none, that changes no row's staging key.
LEMMA KeysFromParts ==
    ASSUME ReviewInv, KeyInv, Rise, Stayed, Grow, NotNeeded, TypeOK',
           NEW a, a \in Actors => KeysOK(req[a])',
           \A b \in Actors \ {a} :
              /\ req'[b] = req[b] /\ NotUsed(req[b])
              /\ a \in Actors => Apart(req'[a], req[b]) /\ Apart(req[b], req'[a])
    PROVE  KeyInv'
<1>1. (\A v \in Versions : RowKeys(v))'
  BY RowKeysStay
<1>2. (\A b \in Actors : KeysOK(req[b]))'
  BY KeysStay
<1>3. (\A b, c \in Actors : b # c => Apart(req[b], req[c]))'
  <2>1. \A b, c \in Actors : b # c => Apart(req'[b], req'[c])
    BY DEF KeyInv
  <2> QED BY <2>1 DEF Apart
<1> QED BY <1>1, <1>2, <1>3 DEF KeyInv

LEMMA QuietNeeds ==
    ASSUME UNCHANGED <<staged, packages>>
    PROVE  NotNeeded /\ \A q : NotUsed(q)
BY DEF NotNeeded, NotUsed

LEMMA QuietRows == ASSUME UNCHANGED release PROVE Stayed
BY DEF Stayed, IsIn

LEMMA DoneKeys ==
    ASSUME ReviewInv, KeyInv, Rise, Stayed, Grow, NotNeeded, TypeOK', NEW a \in Actors, Done(a),
           \A b \in Actors \ {a} : NotUsed(req[b])
    PROVE  KeyInv'
<1>1. req'[a] = Idle /\ \A b \in Actors \ {a} : req'[b] = req[b]
  BY DoneStep, ReviewParts
<1>2. KeysOK(req[a])'
  BY <1>1, ExtensionHubAssumption DEF KeysOK, Idle, Claimed
<1>3. \A b \in Actors \ {a} : Apart(req'[a], req[b]) /\ Apart(req[b], req'[a])
  BY <1>1, ReviewParts, ExtensionHubAssumption DEF Apart, Idle, ReqTyped
<1> QED BY <1>1, <1>2, <1>3, KeysFromParts

\* What a request knows of its keys as it goes on.
LEMMA GotoKeys ==
    ASSUME ReviewInv, KeyInv, Rise, Stayed, Grow, NotNeeded, TypeOK', NEW a \in Actors, NEW step,
           Goto(a, step), \A b \in Actors \ {a} : NotUsed(req[b]),
           step \notin {"save", "replace", "claim"},
           step = "unstage" => req[a].step = "save",
           step \in {"clear"} \cup Claimed => req[a].step \in {"claim"} \cup Claimed,
           step = "clear" => IsIn(req[a].v, {"published", "yanked"})',
           step = "publish" => Package(a) \in packages'
    PROVE  KeyInv'
<1>0. PICK v : v = req[a].v
  OBVIOUS
<1>1. /\ \A b \in Actors \ {a} : req'[b] = req[b]
      /\ req'[a].step = step /\ req'[a].v = v /\ req'[a].old = req[a].old
      /\ req'[a].key = req[a].key
  BY <1>0, GotoStep, ReviewParts
<1>2. KeysOK(req[a]) /\ ReqTyped(req[a])
  BY ReviewParts DEF KeyInv
<1>3. /\ req[a].old \in Keys => req[a].old <= uploads'
      /\ step = "unstage" => req[a].key <= uploads'
  BY <1>2, ReviewParts DEF KeysOK, ReqTyped, TypeOK, Keys, Grow
<1>4. step = "unstage" => NoRow(req[a].key)'
  BY <1>1, <1>2 DEF KeysOK, NoRow, Stayed
<1>5. step \in {"clear"} \cup Claimed =>
        \A w \in Versions \ {v} : release'[w] = None \/ release'[w].staging # req[a].old
  BY <1>0, <1>2 DEF KeysOK, Stayed
<1>6. step = "clear" => IsIn(v, {"published", "yanked"})'
  <2>1. CASE step = "clear"
    BY <1>1, <2>1 DEF IsIn
  <2> QED BY <2>1
<1>7. step = "publish" => <<v, req[a].old>> \in packages'
  BY <1>0 DEF Package
<1>8. KeysOK(req[a])'
  BY <1>1, <1>3, <1>4, <1>5, <1>6, <1>7 DEF KeysOK, NoRow, IsIn
<1>9. \A b \in Actors \ {a} : Apart(req'[a], req[b]) /\ Apart(req[b], req'[a])
  BY <1>1 DEF Apart, KeyInv
<1> QED BY <1>1, <1>8, <1>9, KeysFromParts

\* A request begins, or reads the key of a row.
LEMMA StartKeys ==
    ASSUME ReviewInv, KeyInv, TypeOK', UNCHANGED <<release, staged, packages, uploads, gone, torn>>,
           Rise, NEW a \in Actors, NEW v \in Versions, NEW r \in ReqType,
           req' = [req EXCEPT ![a] = r],
           r.step \in {"version", "stage", "submit", "claim", "yank"}, r.v = v,
           r.old # None => release[v] # None /\ r.old = release[v].staging
    PROVE  KeyInv'
<1>1. req'[a] = r /\ \A b \in Actors \ {a} : req'[b] = req[b]
  BY ReviewParts DEF TypeOK
<1>2. RowKeys(v) /\ None \notin Keys
  BY ExtensionHubAssumption DEF KeyInv
<1>3. r.old \in Keys => r.old <= uploads
  BY <1>2 DEF RowKeys
<1>4. r.step = "claim" => \A w \in Versions \ {v} : release[w] = None \/ release[w].staging # r.old
  <2>1. CASE r.old = None
    <3>1. \A w \in Versions : release[w] # None => release[w].staging \in Keys
      BY TypedRows, ReviewParts DEF ReleaseType
    <3> QED BY <1>2, <2>1, <3>1
  <2>2. CASE r.old # None
    BY <1>2, <2>2 DEF RowKeys
  <2> QED BY <2>1, <2>2
<1>5. KeysOK(req[a])'
  BY <1>1, <1>3, <1>4 DEF KeysOK, NoRow, IsIn, Claimed
<1>6. \A b \in Actors \ {a} : req[b].step = "save" => r.old # req[b].key
  <2>1. \A b \in Actors : KeysOK(req[b]) /\ ReqTyped(req[b])
    BY ReviewParts DEF KeyInv
  <2> QED BY <1>2, <2>1 DEF KeysOK, NoRow, ReqTyped
<1>7. \A b \in Actors \ {a} : Apart(req'[a], req[b]) /\ Apart(req[b], req'[a])
  BY <1>1, <1>6 DEF Apart
<1>8. Grow
  BY ReviewParts DEF Grow, TypeOK
<1> QED BY <1>1, <1>5, <1>7, <1>8, QuietNeeds, QuietRows, KeysFromParts

\* The batch of an upload.
LEMMA SaveKeys ==
    ASSUME ReviewInv, KeyInv, TypeOK', Rise, NEW a \in Actors, req[a].step = "save",
           Unchanged(a), Save(a), UNCHANGED <<staged, packages, uploads, torn>>,
           gone \subseteq gone',
           \/ req[a].old = None /\ Done(a)
           \/ req[a].old # None /\ Goto(a, "replace")
           \/ Goto(a, "unstage") /\ req[a].key \in gone'
    PROVE  KeyInv'
<1>0. PICK v \in Versions, k \in Keys : v = req[a].v /\ k = req[a].key
  BY ReviewParts DEF ReqTyped
<1>1. /\ release'[v] # None /\ release'[v].status = "draft" /\ release'[v].staging = k
      /\ \A w \in Versions \ {v} : release'[w] = release[w]
  BY <1>0, SaveStep, ReviewParts DEF IsIn
<1>2. KeysOK(req[a]) /\ k <= uploads /\ k \in staged /\ NoRow(k) /\ req[a].old # k
  BY <1>0 DEF KeyInv, KeysOK
<1>3. (\A w \in Versions : RowKeys(w))'
  <2>1. RowKeys(v)'
    BY <1>1, <1>2 DEF RowKeys, NoRow, IsIn
  <2>2. ASSUME NEW w \in Versions \ {v} PROVE RowKeys(w)'
    BY <1>1, <1>2 DEF RowKeys, NoRow, IsIn, KeyInv
  <2> QED BY <2>1, <2>2
<1>4. \A b \in Actors \ {a} : req'[b] = req[b]
  BY DoneStep, GotoStep, ReviewParts
<1>5. \A x : NoRow(x) /\ x # k => NoRow(x)'
  BY <1>1 DEF NoRow
<1>6. ASSUME NEW b \in Actors \ {a} PROVE KeysOK(req[b])'
  <2>1. KeysOK(req[b]) /\ ReqTyped(req[b]) /\ Apart(req[a], req[b]) /\ req'[b] = req[b]
    BY <1>4, ReviewParts DEF KeyInv
  <2>2. req[b].old # k /\ (req[b].step \in {"save", "unstage"} => req[b].key # k)
    BY <1>0, <2>1 DEF Apart
  <2>3. /\ req[b].step = "save" => NoRow(req[b].key)'
        /\ req[b].step = "unstage" => NoRow(req[b].key)' \/ req[b].key \in gone'
        /\ req[b].step = "replace" => NoRow(req[b].old)'
    BY <1>5, <2>1, <2>2 DEF KeysOK
  <2>4. req[b].step \in {"claim", "clear"} \cup Claimed =>
          \A w \in Versions \ {req[b].v} : release'[w] = None \/ release'[w].staging # req[b].old
    BY <1>1, <2>1, <2>2 DEF KeysOK
  <2>5. req[b].step = "clear" => IsIn(req[b].v, {"published", "yanked"})'
    BY <2>1 DEF KeysOK, Rise, Kept, ReqTyped
  <2> QED BY <2>1, <2>3, <2>4, <2>5 DEF KeysOK
<1>7. \/ req'[a] = Idle
      \/ /\ req'[a].step \in {"replace", "unstage"} /\ req'[a].old = req[a].old /\ req'[a].key = k
         /\ req'[a].step = "replace" => req[a].old # None
         /\ req'[a].step = "unstage" => k \in gone'
  <2>1. CASE req[a].old = None /\ Done(a)
    BY <2>1, DoneStep, ReviewParts
  <2>2. CASE req[a].old # None /\ Goto(a, "replace")
    BY <1>0, <2>2, GotoStep, ReviewParts
  <2>3. CASE Goto(a, "unstage") /\ req[a].key \in gone'
    BY <1>0, <2>3, GotoStep, ReviewParts
  <2> QED BY <2>1, <2>2, <2>3
<1>8. \A x : x = req[a].old /\ x # None => NoRow(x)'
  <2> SUFFICES ASSUME req[a].old # None
               PROVE  \A w \in Versions : release'[w] = None \/ release'[w].staging # req[a].old
    BY DEF NoRow
  <2>1. RowKeys(v) /\ release[v] # None /\ release[v].staging = req[a].old
    BY <1>0 DEF KeyInv, Unchanged, IsIn
  <2> QED BY <1>1, <1>2, <2>1 DEF RowKeys
<1>9. KeysOK(req[a])'
  <2>1. CASE req'[a] = Idle
    BY <2>1, ExtensionHubAssumption DEF KeysOK, Idle, Claimed
  <2>2. CASE req'[a].step = "replace"
    BY <1>2, <1>7, <1>8, <2>2 DEF KeysOK, Claimed, NoRow, Idle
  <2>3. CASE req'[a].step = "unstage"
    BY <1>2, <1>7, <2>3 DEF KeysOK, Claimed, NoRow, Idle
  <2> QED BY <1>7, <2>1, <2>2, <2>3
<1>10. \A b \in Actors \ {a} : Apart(req'[a], req'[b]) /\ Apart(req'[b], req'[a])
  <2>1. ASSUME NEW b \in Actors \ {a} PROVE Apart(req'[a], req'[b]) /\ Apart(req'[b], req'[a])
    <3>1. Apart(req[b], req[a]) /\ req'[b] = req[b] /\ ReqTyped(req[b])
      BY <1>4, ReviewParts DEF KeyInv
    <3> QED BY <1>0, <1>7, <3>1, ExtensionHubAssumption DEF Apart, Idle, ReqTyped
  <2> QED BY <2>1
<1>11. (\A b, c \in Actors : b # c => Apart(req[b], req[c]))'
  <2>1. \A b, c \in Actors : b # c => Apart(req'[b], req'[c])
    BY <1>4, <1>10 DEF KeyInv
  <2> QED BY <2>1 DEF Apart
<1> QED BY <1>3, <1>6, <1>9, <1>11 DEF KeyInv

\* A new key is higher than all others.
LEMMA StageKeys ==
    ASSUME ReviewInv, KeyInv, TypeOK', Rise, NEW a \in Actors, Stage(a)
    PROVE  KeyInv'
<1> DEFINE k == uploads + 1
<1>1. /\ uploads' = k /\ staged' = staged \cup {k} /\ uploads \in Nat
      /\ UNCHANGED <<release, packages, gone, torn>>
  BY ReviewParts DEF Stage, rows, history, TypeOK
<1>2. req' = [req EXCEPT ![a] = [req[a] EXCEPT !.step = "save", !.key = k]]
  BY DEF Stage
<1>3. /\ req'[a].step = "save" /\ req'[a].key = k /\ req'[a].old = req[a].old
      /\ \A b \in Actors \ {a} : req'[b] = req[b]
  BY <1>2, ReviewParts DEF TypeOK, ReqType
<1>4. \A b \in Actors : /\ KeysOK(req[b]) /\ ReqTyped(req[b])
                        /\ req[b].old \in Keys \cup {None}
  BY ReviewParts DEF KeyInv, ReqTyped, ReqType
<1>5. Keys \subseteq Nat
  BY ExtensionHubAssumption DEF Keys
<1>b. \A b \in Actors :
         /\ req[b].old \in Keys => req[b].old <= uploads
         /\ req[b].step \in {"save", "unstage"} => req[b].key <= uploads /\ req[b].key \in Keys
  BY <1>4 DEF KeysOK, ReqTyped
<1>6. k # None
  BY <1>1, KeyRange, ExtensionHubAssumption DEF Stage
<1>7. \A b \in Actors : req[b].old # k
  BY <1>1, <1>4, <1>5, <1>6, <1>b
<1>8. \A b \in Actors : req[b].step \in {"save", "unstage"} => req[b].key # k
  BY <1>1, <1>5, <1>b
<1>9. NoRow(k)
  <2>1. \A w \in Versions : release[w] # None => release[w].staging \in Keys /\ release[w].staging <= uploads
    BY TypedRows, ReviewParts DEF ReleaseType, KeyInv, RowKeys
  <2> QED BY <1>1, <1>5, <2>1 DEF NoRow
<1>10. KeysOK(req[a])'
  <2>1. \A x : x = k => NoRow(x)'
    BY <1>1, <1>9 DEF NoRow
  <2>2. req[a].old \in Keys => req[a].old <= uploads'
    <3>1. \A x \in Nat : x <= uploads => x <= uploads'
      BY <1>1
    <3> QED BY <1>5, <1>b, <3>1
  <2> HIDE DEF k
  <2>3. k <= uploads' /\ k \in staged'
    BY <1>1 DEF k
  <2> QED BY <1>3, <1>7, <2>1, <2>2, <2>3 DEF KeysOK, Claimed, NoRow
<1>11. \A b \in Actors \ {a} : Apart(req'[a], req[b]) /\ Apart(req[b], req'[a])
  BY <1>3, <1>7, <1>8 DEF Apart, KeyInv
<1>12. Grow /\ Stayed /\ NotNeeded /\ \A q : NotUsed(q)
  BY <1>1, QuietRows DEF Grow, NotNeeded, NotUsed
<1> QED BY <1>3, <1>10, <1>11, <1>12, KeysFromParts

\* What status changes do to keys and packages: nothing.
LEMMA StatusStays ==
    ASSUME ReviewInv, NEW v \in Versions, release[v] # None,
           \A w \in Versions \ {v} : release'[w] = release[w],
           release'[v] = None \/ release'[v].staging = release[v].staging,
           IsIn(v, {"published", "yanked"})' =>
              IsIn(v, {"published", "yanked"}) \/ release'[v].package \in packages'
    PROVE  Stayed
BY DEF Stayed, IsIn

LEMMA PublishStays ==
    ASSUME ReviewInv, KeyInv, NEW a \in Actors, req[a].step = "publish", Publishable(a),
           SetPublished(a), UNCHANGED packages
    PROVE  Stayed /\ IsIn(req[a].v, {"reviewing"})
           /\ \A v : v = req[a].v => IsIn(v, {"published"})'
<1>0. PICK v \in Versions : v = req[a].v
  BY ReviewParts DEF ReqTyped
<1>1. /\ IsIn(v, {"published"})' /\ release'[v].package = Package(a)
      /\ release'[v].staging = release[v].staging
      /\ \A w \in Versions \ {v} : release'[w] = release[w]
  BY <1>0, PublishStep, ReviewParts
<1>2. Package(a) \in packages /\ IsIn(v, {"reviewing"})
  BY <1>0 DEF KeyInv, KeysOK, Package, Publishable, BothAre
<1>3. Stayed
  BY <1>1, <1>2, StatusStays DEF IsIn
<1> QED BY <1>0, <1>1, <1>2, <1>3

LEMMA MoveStays ==
    ASSUME ReviewInv, NEW v \in Versions, NEW from,
           NEW to \in {"pending", "reviewing"}, Move(v, from, to)
    PROVE  Stayed
<1>1. CASE IsIn(v, from)
  <2>1. /\ IsIn(v, {to})' /\ release'[v].staging = release[v].staging /\ release[v] # None
        /\ \A w \in Versions \ {v} : release'[w] = release[w]
    BY <1>1, MoveStep, ReviewParts DEF IsIn
  <2> QED BY <2>1, StatusStays DEF IsIn
<1>2. CASE ~IsIn(v, from)
  BY <1>2, QuietRows DEF Move
<1> QED BY <1>1, <1>2

LEMMA KeyStep == ReviewInv /\ KeyInv /\ [Next]_vars => KeyInv'
<1> SUFFICES ASSUME ReviewInv, KeyInv, [Next]_vars PROVE KeyInv'
  OBVIOUS
<1>t. TypeOK' /\ Rise /\ TypeOK
  BY ReviewStep, RiseStep, ReviewParts DEF ReviewInv
<1> USE DEF rows, objects, counts, history
<1>g. UNCHANGED uploads /\ gone \subseteq gone' /\ torn \subseteq torn' => Grow
  BY <1>t DEF Grow, TypeOK
<1>d. ASSUME NEW a \in Actors, Done(a), Stayed, UNCHANGED <<objects, counts>>,
             UNCHANGED <<gone, torn>>
      PROVE  KeyInv'
  BY <1>d, <1>t, <1>g, QuietNeeds, DoneKeys
<1>n. ASSUME NEW a \in Actors, NEW step, Goto(a, step), Stayed, UNCHANGED <<staged, uploads>>,
             gone \subseteq gone', torn \subseteq torn', UNCHANGED packages,
             step \notin {"save", "replace", "claim"},
             step = "unstage" => req[a].step = "save",
             step \in {"clear"} \cup Claimed => req[a].step \in {"claim"} \cup Claimed,
             step = "clear" => IsIn(req[a].v, {"published", "yanked"})', step # "publish"
      PROVE  KeyInv'
  BY <1>n, <1>t, <1>g, QuietNeeds, GotoKeys
<1>a. ASSUME NEW a \in Actors, NEW v \in Versions, NEW r,
             req' = [req EXCEPT ![a] = r],
             UNCHANGED <<release, staged, packages, uploads, gone, torn>>,
             r.step \in {"version", "stage", "submit", "claim", "yank"}, r.v = v,
             r.old # None => release[v] # None /\ r.old = release[v].staging
      PROVE  KeyInv'
  <2>1. req'[a] = r /\ r \in ReqType
    BY <1>a, <1>t DEF TypeOK
  <2> QED BY <1>a, <1>t, <2>1, StartKeys
<1>1. ASSUME NEW a \in Actors, NEW v \in Versions, Upload(a, v) PROVE KeyInv'
  <2> DEFINE r == [Idle EXCEPT !.step = "version", !.v = v, !.seen = listing.current]
  <2>1. r.step = "version" /\ r.v = v /\ r.old = None
    BY DEF Idle
  <2> QED BY <1>1, <1>a, <2>1 DEF Upload
<1>2. ASSUME NEW a \in Actors, CheckVersion(a) PROVE KeyInv'
  BY <1>2, <1>d, <1>n, QuietRows DEF CheckVersion, Claimed
<1>3. ASSUME NEW a \in Actors, ReadRow(a) PROVE KeyInv'
  <2>1. CASE Goto(a, "stage")
    BY <1>3, <1>n, <2>1, QuietRows DEF ReadRow, Claimed
  <2>2. CASE Done(a)
    BY <1>3, <1>d, <2>2, QuietRows DEF ReadRow
  <2>3. CASE /\ IsIn(req[a].v, Editable)
             /\ req' = [req EXCEPT ![a].step = "stage", ![a].old = release[req[a].v].staging]
    <3> DEFINE r == [req[a] EXCEPT !.step = "stage", !.old = release[req[a].v].staging]
    <3>1. r.step = "stage" /\ r.v = req[a].v /\ r.old = release[req[a].v].staging
          /\ req[a].v \in Versions
      BY <1>3, ReviewParts DEF ReadRow, ReqTyped, ReqType
    <3>2. req' = [req EXCEPT ![a] = r]
      BY <2>3
    <3> HIDE DEF r
    <3>3. /\ UNCHANGED <<release, staged, packages, uploads, gone, torn>>
          /\ release[req[a].v] # None
      BY <1>3, <2>3 DEF ReadRow, IsIn
    <3> QED BY <1>a, <3>1, <3>2, <3>3
  <2> QED BY <1>3, <2>1, <2>2, <2>3 DEF ReadRow
<1>4. ASSUME NEW a \in Actors, Stage(a) PROVE KeyInv'
  BY <1>4, <1>t, StageKeys
<1>5. ASSUME NEW a \in Actors, SaveRelease(a) PROVE KeyInv'
  <2>1. CASE Unchanged(a)
    BY <1>5, <1>t, <2>1, SaveKeys DEF SaveRelease
  <2>2. CASE ~Unchanged(a)
    BY <1>5, <1>n, <2>2, QuietRows DEF SaveRelease, Claimed
  <2> QED BY <2>1, <2>2
<1>6. ASSUME NEW a \in Actors, NEW committed \in BOOLEAN, SaveFails(a, committed)
      PROVE KeyInv'
  <2>1. CASE committed
    BY <1>6, <1>t, <2>1, SaveKeys DEF SaveFails, Fault
  <2>2. CASE ~committed
    BY <1>6, <1>n, <2>2, QuietRows DEF SaveFails, Fault, Claimed
  <2> QED BY <2>1, <2>2
<1>7. ASSUME NEW a \in Actors, Unstage(a) PROVE KeyInv'
  <2>1. KeysOK(req[a]) /\ UNCHANGED <<release, packages, uploads, gone, torn>> /\ Done(a)
    BY <1>7 DEF KeyInv, Unstage
  <2>2. PICK k : staged' = staged \ {k} /\ k = (IF req[a].step = "unstage" THEN req[a].key ELSE req[a].old)
    BY <1>7 DEF Unstage
  <2>3. NotNeeded
    BY <1>7, <2>1, <2>2 DEF NotNeeded, KeysOK, NoRow, Unstage
  <2>4. \A b \in Actors \ {a} : NotUsed(req[b])
    BY <1>7, <2>1, <2>2 DEF NotUsed, KeyInv, Apart, Unstage
  <2> QED BY <1>g, <1>t, <2>1, <2>3, <2>4, QuietRows, DoneKeys
<1>8. ASSUME NEW a \in Actors, NEW v \in Versions, Submit(a, v) PROVE KeyInv'
  <2> DEFINE r == [Idle EXCEPT !.step = "submit", !.v = v, !.seen = listing.current,
                               !.old = release[v].staging]
  <2>1. r.step = "submit" /\ r.v = v /\ r.old = release[v].staging
    BY DEF Idle
  <2> QED BY <1>8, <1>a, <2>1 DEF Submit, IsIn
<1>9. ASSUME NEW a \in Actors, CommitSubmit(a) PROVE KeyInv'
  <2>1. Stayed
    <3>1. CASE Unchanged(a)
      <4>1. PICK v \in Versions : v = req[a].v
        BY <1>9, ReviewParts DEF ReqTyped, CommitSubmit
      <4>2. /\ IsIn(v, Editable) /\ release[v].staging = req[a].old
            /\ IsIn(v, {"pending"})' /\ release'[v].staging = req[a].old
            /\ \A w \in Versions \ {v} : release'[w] = release[w]
        BY <1>9, <1>t, <3>1, <4>1, SubmitStep
      <4> QED BY <4>2, StatusStays DEF IsIn
    <3>2. CASE ~Unchanged(a)
      BY <1>9, <3>2, QuietRows DEF CommitSubmit
    <3> QED BY <3>1, <3>2
  <2> QED BY <1>9, <1>d, <2>1 DEF CommitSubmit
<1>10. ASSUME NEW a \in Actors, NEW v \in Versions, NEW action \in Decisions,
              Review(a, v, action)
       PROVE KeyInv'
  <2> DEFINE r == [Idle EXCEPT !.step = "claim", !.v = v, !.action = action,
                               !.seen = listing.current, !.old = release[v].staging]
  <2>1. r.step = "claim" /\ r.v = v /\ r.old = release[v].staging
    BY DEF Idle
  <2> QED BY <1>10, <1>a, <2>1 DEF Review, BothAre, IsIn
<1>11. ASSUME NEW a \in Actors, Claim(a) PROVE KeyInv'
  <2>1. req[a].v \in Versions
    BY <1>11, ReviewParts DEF Claim, ReqTyped
  <2>2. Stayed
    BY <1>11, <2>1, MoveStays, QuietRows DEF Claim
  <2> QED BY <1>11, <1>d, <1>n, <2>2 DEF Claim, Claimed
<1>12. ASSUME NEW a \in Actors, Compare(a) PROVE KeyInv'
  BY <1>12, <1>n, QuietRows DEF Compare, Claimed
<1>13. ASSUME NEW a \in Actors, GetStaged(a) PROVE KeyInv'
  BY <1>13, <1>n, QuietRows DEF GetStaged, Claimed
<1>14. ASSUME NEW a \in Actors, PutPackage(a) PROVE KeyInv'
  <2>1. /\ packages' = packages \cup {Package(a)} /\ Goto(a, "publish")
        /\ UNCHANGED <<release, staged, uploads, gone, torn>>
    BY <1>14 DEF PutPackage
  <2>2. NotNeeded /\ \A q : NotUsed(q)
    BY <2>1 DEF NotNeeded, NotUsed
  <2>3. Stayed /\ Grow /\ Package(a) \in packages'
    BY <1>g, <2>1, QuietRows
  <2> QED BY <1>14, <1>t, <2>1, <2>2, <2>3, GotoKeys DEF PutPackage, Claimed
<1>15. ASSUME NEW a \in Actors, Publish(a) PROVE KeyInv'
  <2>1. CASE Publishable(a)
    <3>1. /\ Stayed /\ Goto(a, "clear") /\ UNCHANGED <<staged, packages, uploads, gone, torn>>
          /\ \A v : v = req[a].v => IsIn(v, {"published"})'
      BY <1>15, <2>1, PublishStays DEF Publish
    <3>2. req'[a].v = req[a].v
      BY <1>t, <3>1, GotoStep
    <3>3. IsIn(req[a].v, {"published", "yanked"})'
      BY <3>1, <3>2 DEF IsIn
    <3> QED BY <1>15, <1>n, <3>1, <3>3 DEF Publish, Claimed
  <2>2. CASE ~Publishable(a)
    BY <1>15, <1>n, <2>2, QuietRows DEF Publish, Claimed
  <2> QED BY <2>1, <2>2
<1>16. ASSUME NEW a \in Actors, NEW committed \in BOOLEAN, PublishFails(a, committed)
       PROVE KeyInv'
  <2>1. Stayed
    BY <1>16, PublishStays, QuietRows DEF PublishFails
  <2> QED BY <1>16, <1>n, <2>1 DEF PublishFails, Fault, Claimed
<1>17. ASSUME NEW a \in Actors, Unpublish(a) PROVE KeyInv'
  <2>0. /\ packages' = packages \ {Package(a)} /\ Goto(a, "revert")
        /\ UNCHANGED <<release, staged, uploads, gone, torn>> /\ req[a].step = "unpublish"
    BY <1>17 DEF Unpublish
  <2>1. NotNeeded
    <3>1. SUFFICES ASSUME NEW w \in Versions, IsIn(w, {"published", "yanked"}),
                          release[w].package = Package(a)
                   PROVE  Package(a) \in torn
      BY <2>0 DEF NotNeeded
    <3>2. w = req[a].v
      BY <3>1 DEF ReviewInv, RowOK, Package
    <3>3. ~BothAre(req[a].v, "reviewing")
      BY <3>1, <3>2 DEF BothAre, IsIn
    <3> QED BY <2>0, <3>3, ReviewParts DEF Held, Package
  <2>2. \A b \in Actors \ {a} : NotUsed(req[b])
    BY <2>0 DEF NotUsed, ReviewInv, Exclusive, Package, Claimed
  <2> QED BY <1>g, <1>t, <2>0, <2>1, <2>2, QuietRows, GotoKeys DEF Claimed
<1>18. ASSUME NEW a \in Actors, ClearStaged(a) PROVE KeyInv'
  <2>1. KeysOK(req[a]) /\ UNCHANGED <<release, packages, uploads, gone, torn>> /\ Done(a)
        /\ staged' = staged \ {req[a].old} /\ req[a].step = "clear"
    BY <1>18 DEF KeyInv, ClearStaged
  <2>2. NotNeeded
    BY <2>1 DEF NotNeeded, KeysOK
  <2>3. \A b \in Actors \ {a} : NotUsed(req[b])
    BY <2>1 DEF NotUsed, KeyInv, Apart
  <2> QED BY <1>g, <1>t, <2>1, <2>2, <2>3, QuietRows, DoneKeys
<1>19. ASSUME NEW a \in Actors, Decide(a) PROVE KeyInv'
  <2>1. CASE req[a].action \in SubmissionStatuses
    <3>1. PICK v \in Versions : v = req[a].v
      BY <1>19, ReviewParts DEF ReqTyped, Decide
    <3>2. release[v] # None
      BY <1>19, <3>1, ReviewParts DEF RowsExist, Decide, Claimed
    <3>3. /\ IsIn(v, {"changes", "rejected"})' /\ release'[v].staging = release[v].staging
          /\ \A w \in Versions \ {v} : release'[w] = release[w]
      BY <1>19, <1>t, <2>1, <3>1, <3>2, DecideStep
    <3>4. Stayed
      BY <3>2, <3>3, StatusStays DEF IsIn
    <3> QED BY <1>19, <1>d, <2>1, <3>4 DEF Decide
  <2>2. CASE req[a].action \notin SubmissionStatuses
    BY <1>19, <1>n, <2>2, QuietRows DEF Decide, Claimed
  <2> QED BY <2>1, <2>2
<1>20. ASSUME NEW a \in Actors, CallFails(a) PROVE KeyInv'
  BY <1>20, <1>n, QuietRows DEF CallFails, Fault, Claimed
<1>21. ASSUME NEW a \in Actors, Revert(a) PROVE KeyInv'
  <2>1. Stayed
    BY <1>21, MoveStays, ReviewParts DEF Revert, ReqTyped
  <2> QED BY <1>21, <1>d, <2>1 DEF Revert
<1>22. ASSUME NEW a \in Actors, NEW v \in Versions, Yank(a, v) PROVE KeyInv'
  <2> DEFINE r == [Idle EXCEPT !.step = "yank", !.v = v]
  <2>1. r.step = "yank" /\ r.v = v /\ r.old = None
    BY DEF Idle
  <2> QED BY <1>22, <1>a, <2>1 DEF Yank
<1>23. ASSUME NEW a \in Actors, CommitYank(a) PROVE KeyInv'
  <2>1. PICK v \in Versions : v = req[a].v
    BY <1>23, ReviewParts DEF ReqTyped, CommitYank
  <2>2. IsIn(v, {"published", "yanked"})
    BY <1>23, <2>1, ReviewParts DEF Held, CommitYank
  <2>3. /\ release'[v].staging = release[v].staging
        /\ \A w \in Versions \ {v} : release'[w] = release[w]
    BY <1>23, <1>t, <2>1, <2>2, YankStep DEF IsIn
  <2>4. Stayed
    BY <2>2, <2>3, StatusStays DEF IsIn
  <2> QED BY <1>23, <1>d, <2>4 DEF CommitYank
<1>e. ASSUME Stayed, UNCHANGED req, UNCHANGED <<staged, packages, uploads, gone, torn>>
      PROVE  KeyInv'
  <2>1. (\A v \in Versions : RowKeys(v))' /\ \A b \in Actors : KeysOK(req[b])'
    BY <1>e, <1>t, <1>g, QuietNeeds, RowKeysStay, KeysStay
  <2> QED BY <1>e, <2>1 DEF KeyInv, Apart
<1>24. CASE Suspend
  BY <1>24, <1>e, QuietRows DEF Suspend
<1>25. ASSUME NEW v \in Versions, ExpireClaim(v) PROVE KeyInv'
  BY <1>25, <1>e, MoveStays DEF ExpireClaim, GiveBack
<1>26. ASSUME NEW k \in Keys, ExpireStaged(k) PROVE KeyInv'
  <2>1. /\ staged' = staged \ {k} /\ gone' = gone \cup {k}
        /\ UNCHANGED <<release, packages, req, uploads, torn>>
        /\ \A a \in Actors : req[a].step = "save" => req[a].key # k
    BY <1>26 DEF ExpireStaged, Fault
  <2>2. NotNeeded /\ \A a \in Actors : NotUsed(req[a])
    BY <2>1 DEF NotNeeded, NotUsed
  <2>3. (\A v \in Versions : RowKeys(v))' /\ \A b \in Actors : KeysOK(req[b])'
    BY <1>t, <1>g, <2>1, <2>2, QuietRows, RowKeysStay, KeysStay
  <2> QED BY <2>1, <2>3 DEF KeyInv, Apart
<1>27. ASSUME NEW a \in Actors, Abort(a) PROVE KeyInv'
  BY <1>27, <1>d, <1>t, <1>g, QuietNeeds, QuietRows, DoneKeys DEF Abort, Fault
<1>28. CASE UNCHANGED vars
  BY <1>28, <1>e, QuietRows DEF vars
<1> QED BY <1>1, <1>2, <1>3, <1>4, <1>5, <1>6, <1>7, <1>8, <1>9, <1>10, <1>11, <1>12, <1>13,
           <1>14, <1>15, <1>16, <1>17, <1>18, <1>19, <1>20, <1>21, <1>22, <1>23, <1>24,
           <1>25, <1>26, <1>27, <1>28 DEF Next, Continue

\* Published releases have their package and the others what was staged for them, but
\* for what expired and what a lost answer gave up (uploadRelease, approveRelease).
THEOREM ObjectsAreThereAlways == Spec => []ObjectsAreThere
<1>1. Init => KeyInv
  BY ExtensionHubAssumption DEF Init, KeyInv, RowKeys, KeysOK, Apart, Idle, Claimed
<1>2. Spec => []KeyInv
  BY <1>1, KeyStep, ReviewAlways, PTL DEF Spec
<1>3. ReviewInv /\ KeyInv => ObjectsAreThere
  BY DEF KeyInv, RowKeys, IsIn, ReviewInv, CurrentOK, ObjectsAreThere
<1> QED BY <1>2, <1>3, ReviewAlways, PTL
=============================================================================
