---------------------------- MODULE ExtensionHub -----------------------------
(***************************************************************************)
(* The extension hub's Worker (extensions-hub/src/index.ts): the releases   *)
(* of one extension from their upload over submission and review to their   *)
(* publication, in a D1 database and an R2 bucket.                          *)
(*                                                                          *)
(* Publishers and reviewers work at once, each with one request at a time.  *)
(* A request is a sequence of awaited calls that others interleave with;    *)
(* only one D1 batch is atomic.  A request may end at any step: the Worker  *)
(* is evicted, or a call fails outside a try.                               *)
(*                                                                          *)
(* A version stands for its release (UNIQUE(extension_id, version)), and a  *)
(* staging key for the bytes uploaded under it, so the package made of a    *)
(* release is its version with that key.                                    *)
(***************************************************************************)
EXTENDS Naturals, FiniteSets

CONSTANTS
    Actors,      \* publishers and reviewers
    MaxVersion,  \* bound: versions
    MaxOpen,     \* releases that are not published, at most (10)
    None,
    MaxUploads,  \* bound: staged packages
    MaxFaults    \* bound: failed calls, requests cut off, staged packages that expire

Versions == 1 .. MaxVersion
Keys     == 1 .. MaxUploads

\* The CHECK constraints of the schema.
ListingStatuses    == {"draft", "pending", "published", "suspended"}
ReleaseStatuses    == {"draft", "pending", "reviewing", "published", "rejected",
                       "changes", "yanked"}
SubmissionStatuses == {"pending", "reviewing", "approved", "rejected", "changes",
                       "withdrawn"}
ReleaseType == [status : ReleaseStatuses, staging : Keys,
                package : (Versions \X Keys) \cup {None}]

ASSUME ExtensionHubAssumption ==
    /\ MaxVersion \in Nat /\ MaxOpen \in Nat /\ MaxUploads \in Nat /\ MaxFaults \in Nat
    /\ None \notin Versions /\ None \notin Keys /\ None \notin ReleaseType
    /\ None \notin SubmissionStatuses

VARIABLES
    listing,     \* the row of the extension: its status and its current release
    release,     \* D1 releases: the row of each version, or None
    submission,  \* D1 submissions: the status for each version, or None
    staged,      \* R2: the keys under staging/
    packages,    \* R2: the objects under packages/
    req,         \* the request of each actor
    uploads,     \* the number of staging keys made
    faults,
    submitted,   \* history: the packages a publisher submitted as each version
    gone,        \* history: keys that expired or were given up
    torn         \* history: packages given up

rows    == <<listing, release, submission>>
objects == <<staged, packages>>
counts  == <<uploads, faults>>
history == <<submitted, gone, torn>>
vars    == <<rows, objects, req, counts, history>>

\* The statuses in which a release may be uploaded again and submitted.
Editable == {"draft", "changes", "rejected"}

Idle == [step |-> "idle", v |-> None, seen |-> None, old |-> None,
         key |-> None, action |-> "none"]

\* createExtension.
Init ==
    /\ listing = [status |-> "draft", current |-> None]
    /\ release = [v \in Versions |-> None]
    /\ submission = [v \in Versions |-> None]
    /\ staged = {} /\ packages = {}
    /\ req = [a \in Actors |-> Idle]
    /\ uploads = 0 /\ faults = 0
    /\ submitted = [v \in Versions |-> {}] /\ gone = {} /\ torn = {}

Done(a) == req' = [req EXCEPT ![a] = Idle]
Goto(a, step) == req' = [req EXCEPT ![a].step = step]
IsIn(v, statuses) == release[v] # None /\ release[v].status \in statuses
Fault == faults < MaxFaults /\ faults' = faults + 1 /\ UNCHANGED uploads

-----------------------------------------------------------------------------
(* Uploading a release.                                                     *)

\* ownedExtension reads the current release.
Upload(a, v) ==
    /\ req[a].step = "idle" /\ uploads < MaxUploads
    /\ req' = [req EXCEPT ![a] = [Idle EXCEPT !.step = "version", !.v = v,
                                              !.seen = listing.current]]
    /\ UNCHANGED <<rows, objects, counts, history>>

\* A new release has a higher version than the published one.
CheckVersion(a) ==
    /\ req[a].step = "version"
    /\ IF listing.current = None \/ req[a].v > listing.current
       THEN Goto(a, "row") ELSE Done(a)
    /\ UNCHANGED <<rows, objects, counts, history>>

OpenReleases ==
    {v \in Versions : IsIn(v, {"draft", "pending", "reviewing", "changes", "rejected"})}

\* The row of this version, if it has one; a row always has a staging key.
ReadRow(a) ==
    LET v == req[a].v IN
    /\ req[a].step = "row"
    /\ CASE release[v] = None /\ Cardinality(OpenReleases) < MaxOpen -> Goto(a, "stage")
         [] IsIn(v, Editable) ->
              req' = [req EXCEPT ![a].step = "stage", ![a].old = release[v].staging]
         [] OTHER -> Done(a)
    /\ UNCHANGED <<rows, objects, counts, history>>

Stage(a) ==
    /\ req[a].step = "stage" /\ uploads < MaxUploads
    /\ uploads' = uploads + 1 /\ staged' = staged \cup {uploads + 1}
    /\ req' = [req EXCEPT ![a].step = "save", ![a].key = uploads + 1]
    /\ UNCHANGED <<rows, packages, faults, history>>

\* Whatever package is staged now.
AnyStaging(a) ==
    /\ listing.current = req[a].seen
    /\ IF req[a].old = None THEN release[req[a].v] = None ELSE IsIn(req[a].v, Editable)

\* The batch changes a row only when release and listing are as they were read.
Unchanged(a) ==
    /\ listing.current = req[a].seen
    /\ IF req[a].old = None THEN release[req[a].v] = None
       ELSE /\ IsIn(req[a].v, Editable)
            /\ release[req[a].v].staging = req[a].old

Save(a) ==
    LET v == req[a].v IN
    /\ release' = [release EXCEPT ![v] = [status |-> "draft", staging |-> req[a].key,
                                          package |-> None]]
    /\ submission' = [submission EXCEPT ![v] = IF @ = "pending" THEN "withdrawn" ELSE @]
    /\ UNCHANGED listing

SaveRelease(a) ==
    /\ req[a].step = "save"
    /\ IF Unchanged(a)
       THEN /\ Save(a)
            /\ IF req[a].old = None THEN Done(a) ELSE Goto(a, "replace")
       ELSE Goto(a, "unstage") /\ UNCHANGED rows
    /\ UNCHANGED <<objects, counts, history>>

\* The batch fails; it may have been committed all the same.
SaveFails(a, committed) ==
    /\ req[a].step = "save" /\ Fault
    /\ IF committed THEN /\ Unchanged(a) /\ Save(a)
                         /\ gone' = gone \cup {req[a].key}
       ELSE UNCHANGED <<rows, gone>>
    /\ Goto(a, "unstage")
    /\ UNCHANGED <<objects, submitted, torn>>

\* The upload that was not saved, or the one that was replaced, is deleted.
Unstage(a) ==
    /\ req[a].step \in {"unstage", "replace"}
    /\ staged' = staged \ {IF req[a].step = "unstage" THEN req[a].key ELSE req[a].old}
    /\ Done(a)
    /\ UNCHANGED <<rows, packages, counts, history>>

-----------------------------------------------------------------------------
(* Submitting it.                                                           *)

\* The declarations of the listing are complete and the warranty is accepted.
Submit(a, v) ==
    /\ req[a].step = "idle" /\ IsIn(v, Editable)
    /\ req' = [req EXCEPT ![a] = [Idle EXCEPT !.step = "submit", !.v = v,
                                              !.seen = listing.current,
                                              !.old = release[v].staging]]
    /\ UNCHANGED <<rows, objects, counts, history>>

\* The batch: the release, its submission, and the listing without a release.
CommitSubmit(a) ==
    LET v == req[a].v IN
    /\ req[a].step = "submit"
    /\ IF Unchanged(a)
       THEN /\ release' = [release EXCEPT ![v].status = "pending"]
            /\ submission' = [submission EXCEPT ![v] = "pending"]
            /\ listing' = [listing EXCEPT !.status = IF listing.current = None
                                                     THEN "pending" ELSE @]
            /\ submitted' = [submitted EXCEPT ![v] = @ \cup {req[a].old}]
       ELSE UNCHANGED <<rows, submitted>>
    /\ Done(a)
    /\ UNCHANGED <<objects, counts, gone, torn>>

-----------------------------------------------------------------------------
(* Reviewing it.                                                            *)

BothAre(v, status) == IsIn(v, {status}) /\ submission[v] = status

\* reviewDecision reads the rows of a submission that waits.
Review(a, v, action) ==
    /\ req[a].step = "idle" /\ BothAre(v, "pending")
    /\ req' = [req EXCEPT ![a] = [Idle EXCEPT !.step = "claim", !.v = v, !.action = action,
                                              !.seen = listing.current,
                                              !.old = release[v].staging]]
    /\ UNCHANGED <<rows, objects, counts, history>>

\* Release and submission take the status `to`, each if its status is in `from`.
Move(v, from, to) ==
    /\ release' = IF IsIn(v, from) THEN [release EXCEPT ![v].status = to] ELSE release
    /\ submission' = [submission EXCEPT ![v] = IF @ \in from THEN to ELSE @]
    /\ UNCHANGED listing

\* Without a look at the status.
Unclaimed(v) == release[v] # None
Claimable(v) == BothAre(v, "pending")

Claim(a) ==
    LET v == req[a].v IN
    /\ req[a].step = "claim"
    /\ IF Claimable(v)
       THEN /\ Move(v, {"pending"}, "reviewing")
            /\ Goto(a, IF req[a].action = "approve" THEN "compare" ELSE "decide")
       ELSE Done(a) /\ UNCHANGED rows
    /\ UNCHANGED <<objects, counts, history>>

\* Whatever the version.
NotOlder(v, seen) == v \in Versions
\* The release that was current when the request began is an older one.
Newer(v, seen) == seen = None \/ (IsIn(seen, {"published"}) /\ v > seen)

Compare(a) ==
    /\ req[a].step = "compare"
    /\ Goto(a, IF Newer(req[a].v, req[a].seen) THEN "get" ELSE "revert")
    /\ UNCHANGED <<rows, objects, counts, history>>

\* The staged package is read, validated and signed.
GetStaged(a) ==
    /\ req[a].step = "get"
    /\ Goto(a, IF req[a].old \in staged THEN "put" ELSE "revert")
    /\ UNCHANGED <<rows, objects, counts, history>>

Package(a) == <<req[a].v, req[a].old>>

PutPackage(a) ==
    /\ req[a].step = "put"
    /\ packages' = packages \cup {Package(a)}
    /\ Goto(a, "publish")
    /\ UNCHANGED <<rows, staged, counts, history>>

\* The first statement of the batch, on which the others depend.
Publishable(a) == listing.current = req[a].seen /\ BothAre(req[a].v, "reviewing")

SetPublished(a) ==
    LET v == req[a].v IN
    /\ listing' = [status |-> "published", current |-> v]
    /\ release' = [release EXCEPT ![v].status = "published", ![v].package = Package(a)]
    /\ submission' = [submission EXCEPT ![v] = "approved"]

Publish(a) ==
    /\ req[a].step = "publish"
    /\ IF Publishable(a) THEN SetPublished(a) /\ Goto(a, "clear")
       ELSE UNCHANGED rows /\ Goto(a, "unpublish")
    /\ UNCHANGED <<objects, counts, history>>

\* The batch fails; it may have been committed all the same.
PublishFails(a, committed) ==
    /\ req[a].step = "publish" /\ Fault
    /\ IF committed THEN /\ Publishable(a) /\ SetPublished(a)
                         /\ torn' = torn \cup {Package(a)}
       ELSE UNCHANGED <<rows, torn>>
    /\ Goto(a, "unpublish")
    /\ UNCHANGED <<objects, submitted, gone>>

Unpublish(a) ==
    /\ req[a].step = "unpublish"
    /\ packages' = packages \ {Package(a)}
    /\ Goto(a, "revert")
    /\ UNCHANGED <<rows, staged, counts, history>>

ClearStaged(a) ==
    /\ req[a].step = "clear"
    /\ staged' = staged \ {req[a].old}
    /\ Done(a)
    /\ UNCHANGED <<rows, packages, counts, history>>

\* The other decisions.  The schema knows no submission of status "reject", so
\* that the batch fails.
Decide(a) ==
    LET v == req[a].v IN
    /\ req[a].step = "decide"
    /\ IF req[a].action \in SubmissionStatuses
       THEN /\ release' = [release EXCEPT ![v].status =
                              IF req[a].action = "changes" THEN "changes" ELSE "rejected"]
            /\ submission' = [submission EXCEPT ![v] = IF @ = "reviewing" THEN req[a].action
                                                       ELSE @]
            /\ listing' = [listing EXCEPT !.status = IF listing.current = None
                                                     THEN "draft" ELSE @]
            /\ Done(a)
       ELSE UNCHANGED rows /\ Goto(a, "revert")
    /\ UNCHANGED <<objects, counts, history>>

\* A call of the decision fails, or the signing service does.
CallFails(a) ==
    /\ req[a].step \in {"compare", "get", "put", "decide"} /\ Fault
    /\ Goto(a, "revert")
    /\ UNCHANGED <<rows, objects, history>>

\* The catch of reviewDecision.
Revert(a) ==
    /\ req[a].step = "revert"
    /\ Move(req[a].v, {"reviewing"}, "pending")
    /\ Done(a)
    /\ UNCHANGED <<objects, counts, history>>

-----------------------------------------------------------------------------
(* Withdrawing a release, suspending the listing, cleaning up.              *)

\* Without a look at the current release.
AnyPublished(v) == IsIn(v, {"published"})
\* A published release that is not the current one.
Yankable(v) == IsIn(v, {"published"}) /\ listing.current # v

Yank(a, v) ==
    /\ req[a].step = "idle" /\ Yankable(v)
    /\ req' = [req EXCEPT ![a] = [Idle EXCEPT !.step = "yank", !.v = v]]
    /\ UNCHANGED <<rows, objects, counts, history>>

CommitYank(a) ==
    /\ req[a].step = "yank"
    /\ release' = [release EXCEPT ![req[a].v].status = "yanked"]
    /\ Done(a)
    /\ UNCHANGED <<listing, submission, objects, counts, history>>

Suspend ==
    /\ listing.status = "published"
    /\ listing' = [listing EXCEPT !.status = "suspended"]
    /\ UNCHANGED <<release, submission, objects, req, counts, history>>

Claimed == {"compare", "get", "put", "publish", "unpublish", "decide", "revert"}

\* The first of the two statements alone.
GiveBackSubmission(v) ==
    /\ submission' = [submission EXCEPT ![v] = IF @ = "reviewing" THEN "pending" ELSE @]
    /\ UNCHANGED <<listing, release>>
GiveBack(v) == Move(v, {"reviewing"}, "pending")

\* cleanupExpiredState, daily: a claim older than an hour is given back.  No request
\* lives that long.
ExpireClaim(v) ==
    /\ submission[v] = "reviewing"
    /\ \A a \in Actors : ~(req[a].v = v /\ req[a].step \in Claimed)
    /\ GiveBack(v)
    /\ UNCHANGED <<objects, req, counts, history>>

\* A staged package is kept for 14 days, which no upload lasts.
ExpireStaged(k) ==
    /\ k \in staged /\ \A a \in Actors : req[a].step = "save" => req[a].key # k
    /\ Fault
    /\ staged' = staged \ {k} /\ gone' = gone \cup {k}
    /\ UNCHANGED <<rows, packages, req, submitted, torn>>

Abort(a) ==
    /\ req[a].step # "idle" /\ Fault
    /\ Done(a)
    /\ UNCHANGED <<rows, objects, history>>

\* A request goes on.
Continue(a) ==
    \/ CheckVersion(a) \/ ReadRow(a) \/ Stage(a) \/ SaveRelease(a) \/ Unstage(a)
    \/ CommitSubmit(a)
    \/ Claim(a) \/ Compare(a) \/ GetStaged(a) \/ PutPackage(a) \/ Publish(a)
    \/ Unpublish(a) \/ ClearStaged(a) \/ Decide(a) \/ Revert(a)
    \/ CommitYank(a)

Decisions == {"approve", "reject", "changes"}

Next ==
    \/ \E a \in Actors : Continue(a)
    \/ \E a \in Actors, v \in Versions : Upload(a, v)
    \/ \E a \in Actors, committed \in BOOLEAN : SaveFails(a, committed)
    \/ \E a \in Actors, v \in Versions : Submit(a, v)
    \/ \E a \in Actors, v \in Versions, action \in Decisions : Review(a, v, action)
    \/ \E a \in Actors, committed \in BOOLEAN : PublishFails(a, committed)
    \/ \E a \in Actors : CallFails(a)
    \/ \E a \in Actors, v \in Versions : Yank(a, v)
    \/ Suspend
    \/ \E v \in Versions : ExpireClaim(v)
    \/ \E k \in Keys : ExpireStaged(k)
    \/ \E a \in Actors : Abort(a)

\* The runtime runs a request on, and the scheduled handler every day.
Fairness ==
    /\ \A a \in Actors : WF_vars(Continue(a))
    /\ \A v \in Versions : WF_vars(ExpireClaim(v))

Spec == Init /\ [][Next]_vars
FairSpec == Spec /\ Fairness

-----------------------------------------------------------------------------
(* Properties.                                                              *)

UploadSteps == {"version", "row", "stage", "save", "unstage", "replace"}
ReqType == [step : {"idle", "submit", "claim", "clear", "yank"} \cup UploadSteps \cup Claimed,
            v : Versions \cup {None}, seen : Versions \cup {None},
            old : Keys \cup {None}, key : Keys \cup {None},
            action : Decisions \cup {"none"}]

TypeOK ==
    /\ listing \in [status : ListingStatuses, current : Versions \cup {None}]
    /\ release \in [Versions -> ReleaseType \cup {None}]
    /\ submission \in [Versions -> SubmissionStatuses \cup {None}]
    /\ staged \subseteq Keys /\ packages \subseteq Versions \X Keys
    /\ req \in [Actors -> ReqType]
    /\ \A a \in Actors :
          /\ req[a].step # "idle" => req[a].v \in Versions
          /\ req[a].step \in {"submit", "claim", "clear", "replace"} \cup Claimed =>
                req[a].old \in Keys
          /\ req[a].step \in {"save", "unstage"} => req[a].key \in Keys
    /\ uploads \in 0 .. MaxUploads /\ faults \in Nat
    /\ submitted \in [Versions -> SUBSET Keys]
    /\ gone \subseteq Keys /\ torn \subseteq Versions \X Keys

\* Whatever the order of uploads, reviews, withdrawals and clean ups: a release
\* that is published has its package, and the listing's current release is one
\* of these; a release that is not published yet has the package that was staged
\* for it.  The exceptions are what expired, and what a request deleted because
\* the answer to its committed batch was lost (uploadRelease, approveRelease).
ObjectsAreThere ==
    /\ \A v \in Versions : release[v] # None =>
          IF release[v].status \in {"published", "yanked"}
          THEN release[v].package \in packages \cup torn
          ELSE release[v].staging \in staged \cup gone
    /\ listing.current # None => IsIn(listing.current, {"published"})

\* Release and submission tell the same story, so that none is stuck where no
\* operation takes it up: both wait, both are under review, or both were decided
\* (submitRelease, reviewDecision, cleanupExpiredState).
StatusesAgree ==
    \A v \in Versions :
        /\ \A s \in {"pending", "reviewing"} : IsIn(v, {s}) <=> submission[v] = s
        /\ IsIn(v, {"published", "yanked"}) <=> submission[v] = "approved"

\* What is published for good: the current release is only replaced by a newer one,
\* and a published release keeps its package and is withdrawn at most, however
\* many approvals are under way (approveRelease, yankRelease).
VersionsOnlyRise ==
    [][/\ listing'.current # listing.current =>
            listing.current = None \/ listing'.current > listing.current
       /\ \A v \in Versions : IsIn(v, {"published"}) =>
            release'[v] \in {release[v], [release[v] EXCEPT !.status = "yanked"]}]_vars

\* Nothing is published that its publisher did not submit: an upload that comes
\* between reading a release, submitting and reviewing it changes nothing
\* (uploadRelease, submitRelease, approveRelease).
OnlySubmittedIsPublished ==
    \A v \in Versions : IsIn(v, {"published", "yanked"}) =>
        release[v].package \in {<<v, k>> : k \in submitted[v]}

\* A review ends: what a request leaves under review when it dies is given back.
ReviewsEnd == \A v \in Versions : IsIn(v, {"reviewing"}) ~> ~IsIn(v, {"reviewing"})

\* tests/hub.test.ts:372 says that one "cannot re-upload a release after submission or
\* replace its reviewed staging object": what is published is the row's package.
PublishedAsStaged ==
    \A v \in Versions : IsIn(v, {"published", "yanked"}) =>
        release[v].package = <<v, release[v].staging>>

\* extensions-hub/README.md:68 says that suspended listings "stop being publicly served".
SuspensionStays ==
    [][listing.status = "suspended" => listing'.status = "suspended"]_vars

\* README.md:11 and the schema know rejected releases: a decision to reject that
\* meets no fault makes one.
RejectionsAreRecorded ==
    [][\A a \in Actors :
          req[a].step = "decide" /\ req[a].action = "reject" /\ req'[a] # req[a] =>
              faults' # faults \/ release'[req[a].v].status = "rejected"]_vars
=============================================================================
