----------------------------- MODULE RelayWorker -----------------------------
(***************************************************************************)
(* The relay's admin Worker (relay/src/admin): broadcasts, releases and     *)
(* image assets in a D1 database, image bytes in an R2 bucket.              *)
(*                                                                          *)
(* Several administrators work at once.  A Worker request is a sequence of  *)
(* awaited calls to D1 and R2 that other requests interleave with; only one *)
(* D1 batch is atomic.  An edit carries the revision of the record that the *)
(* control panel shows (If-Match).  A request may end at any step: the      *)
(* Worker is evicted, or a call fails and the request answers an error.     *)
(*                                                                          *)
(* A record is a broadcast or a release.  Of its contents the module keeps  *)
(* what the code decides on: whether it is enabled (a draft is not), the    *)
(* image, and whether the window of activity is over.  The audit rows that  *)
(* every batch adds are left out: nothing here reads them.                  *)
(***************************************************************************)
EXTENDS Naturals, FiniteSets

CONSTANTS
    Admins,      \* administrators, each with one request at a time
    Broadcasts,  \* broadcast ids
    Releases,    \* release versions
    Assets,      \* asset ids
    Nothing,     \* no record, no asset
    MaxEdits,    \* bound: creations and updates
    MaxFailures  \* bound: failed D1 batches of an upload

\* edit names the change that wrote the row, since the one that created it.
RowType == [enabled : BOOLEAN, asset : Assets \cup {Nothing},
            rev : Nat, edit : Nat, since : Nat, over : BOOLEAN]

ASSUME RelayWorkerAssumption ==
    /\ Broadcasts \cap Releases = {}
    /\ Nothing \notin Broadcasts \cup Releases \cup Assets /\ Nothing \notin RowType
    /\ MaxEdits \in Nat /\ MaxFailures \in Nat

VARIABLES
    rows,       \* D1 broadcasts and releases: the record, or Nothing
    assetRows,  \* D1 assets
    objects,    \* R2: the assets whose object exists
    req,        \* the control panel page and the request of each administrator
    edits,      \* history: the number of changes, which names the contents
    torn,       \* history: the assets given up while nothing referred to them
    failures

workerVars == <<rows, assetRows, objects, req, edits, torn, failures>>

Records == Broadcasts \cup Releases

Contents == [enabled : BOOLEAN, asset : Assets \cup {Nothing}]
\* validateBroadcastInput and validateReleaseInput: a release has no image.
Inputs(r) == IF r \in Broadcasts THEN Contents
             ELSE [enabled : BOOLEAN, asset : {Nothing}]

Row(input, rev, edit, since) ==
    [enabled |-> input.enabled, asset |-> input.asset,
     rev |-> rev, edit |-> edit, since |-> since, over |-> FALSE]

\* What a page or a request keeps of a row.
Sight(row) == [rev |-> row.rev, edit |-> row.edit, since |-> row.since]

RecordSteps == {"page", "create", "update", "insert", "write", "delete"}
AssetSteps  == {"put", "insertAsset", "cleanup", "reference", "unput", "unrow"}
NoInput == [enabled |-> FALSE, asset |-> Nothing]
Unseen  == [rev |-> 0, edit |-> 0, since |-> 0]
Idle    == [step |-> "idle", rec |-> Nothing, asset |-> Nothing, seen |-> Unseen,
            read |-> Unseen, input |-> NoInput]

WorkerInit ==
    /\ rows = [r \in Records |-> Nothing]
    /\ assetRows = {} /\ objects = {}
    /\ req = [a \in Admins |-> Idle]
    /\ edits = 0 /\ torn = {} /\ failures = 0

\* The request of a is answered.
Done(a) == req' = [req EXCEPT ![a] = Idle]
Goto(a, step) == req' = [req EXCEPT ![a].step = step]

-----------------------------------------------------------------------------
(* Broadcasts and releases.                                                 *)

\* broadcastState: neither draft, disabled nor expired.
Live(row) == row.enabled /\ ~row.over

\* The control panel lists the records and opens one.
Open(a, r) ==
    /\ req[a].step = "idle" /\ rows[r] # Nothing
    /\ req' = [req EXCEPT ![a] = [Idle EXCEPT !.step = "page", !.rec = r,
                                              !.seen = Sight(rows[r])]]
    /\ UNCHANGED <<rows, assetRows, objects, edits, torn, failures>>

\* createBroadcast, createRelease: the input is valid, the id may be given.
Create(a, r, input) ==
    /\ req[a].step = "idle"
    /\ req' = [req EXCEPT ![a] = [Idle EXCEPT !.step = "create", !.rec = r,
                                              !.input = input]]
    /\ UNCHANGED <<rows, assetRows, objects, edits, torn, failures>>

\* assertCurrentRevision.
Current(a) == rows[req[a].rec] # Nothing /\ rows[req[a].rec].rev = req[a].seen.rev

\* updateBroadcast, updateRelease: 404 without the record, 409 when it is not
\* at the revision of If-Match.
Update(a, input) ==
    /\ req[a].step = "page"
    /\ IF Current(a)
       THEN req' = [req EXCEPT ![a].step = "update", ![a].input = input,
                               ![a].read = Sight(rows[req[a].rec])]
       ELSE Done(a)
    /\ UNCHANGED <<rows, assetRows, objects, edits, torn, failures>>

\* assetForInput and the signature over its digest.
Sign(a) ==
    /\ req[a].step \in {"create", "update"}
    /\ IF req[a].input.asset \in assetRows \cup {Nothing}
       THEN Goto(a, IF req[a].step = "create" THEN "insert" ELSE "write")
       ELSE Done(a)
    /\ UNCHANGED <<rows, assetRows, objects, edits, torn, failures>>

\* asset_id REFERENCES assets: a batch that breaks it is rolled back.
Refers(input) == input.asset \in assetRows \cup {Nothing}

\* The INSERT and its audit row; an existing id is a 409.
CommitCreate(a) ==
    LET r == req[a].rec IN
    /\ req[a].step = "insert" /\ edits < MaxEdits
    /\ IF rows[r] = Nothing /\ Refers(req[a].input)
       THEN /\ rows' = [rows EXCEPT ![r] = Row(req[a].input, 1, edits + 1, edits + 1)]
            /\ edits' = edits + 1
       ELSE UNCHANGED <<rows, edits>>
    /\ Done(a)
    /\ UNCHANGED <<assetRows, objects, torn, failures>>

\* A WHERE clause that asks for the id alone.
AnyRevision(a) == rows[req[a].rec] # Nothing

\* WHERE id = ? AND revision = ?: the row is still at the revision that the
\* request read.
SameRevision(a) ==
    rows[req[a].rec] # Nothing /\ rows[req[a].rec].rev = req[a].read.rev

\* The UPDATE, of no row when the record was changed or deleted meanwhile: 409.
CommitUpdate(a) ==
    LET r == req[a].rec IN
    /\ req[a].step = "write" /\ edits < MaxEdits
    /\ IF SameRevision(a) /\ Refers(req[a].input)
       THEN /\ rows' = [rows EXCEPT ![r] = Row(req[a].input, req[a].read.rev + 1,
                                              edits + 1, rows[r].since)]
            /\ edits' = edits + 1
       ELSE UNCHANGED <<rows, edits>>
    /\ Done(a)
    /\ UNCHANGED <<assetRows, objects, torn, failures>>

\* deleteBroadcast refuses a live or scheduled broadcast; deleteRelease does not
\* look at the state.
Deletable(r, row) == r \in Releases \/ ~Live(row)

Delete(a) ==
    /\ req[a].step = "page"
    /\ IF Current(a) /\ Deletable(req[a].rec, rows[req[a].rec])
       THEN req' = [req EXCEPT ![a].step = "delete", ![a].read = Sight(rows[req[a].rec])]
       ELSE Done(a)
    /\ UNCHANGED <<rows, assetRows, objects, edits, torn, failures>>

CommitDelete(a) ==
    LET r == req[a].rec IN
    /\ req[a].step = "delete"
    /\ rows' = IF SameRevision(a) THEN [rows EXCEPT ![r] = Nothing] ELSE rows
    /\ Done(a)
    /\ UNCHANGED <<assetRows, objects, edits, torn, failures>>

\* Time passes the end of a broadcast's window.
Expire(r) ==
    /\ r \in Broadcasts /\ rows[r] # Nothing /\ ~rows[r].over
    /\ rows' = [rows EXCEPT ![r].over = TRUE]
    /\ UNCHANGED <<assetRows, objects, req, edits, torn, failures>>

-----------------------------------------------------------------------------
(* Assets.                                                                  *)

Referenced(x) == \E r \in Records : rows[r] # Nothing /\ rows[r].asset = x

StartAsset(a, x, step) ==
    req' = [req EXCEPT ![a] = [Idle EXCEPT !.step = step, !.asset = x]]

\* uploadAsset: 409 when the row exists; the body is read and hashed.
Upload(a, x) ==
    /\ req[a].step = "idle" /\ x \notin assetRows
    /\ StartAsset(a, x, "put")
    /\ UNCHANGED <<rows, assetRows, objects, edits, torn, failures>>

\* put with onlyIf: 409 when the object exists.
PutObject(a) ==
    LET x == req[a].asset IN
    /\ req[a].step = "put"
    /\ IF x \in objects THEN Done(a) /\ UNCHANGED objects
       ELSE Goto(a, "insertAsset") /\ objects' = objects \cup {x}
    /\ UNCHANGED <<rows, assetRows, edits, torn, failures>>

InsertAsset(a) ==
    LET x == req[a].asset IN
    /\ req[a].step = "insertAsset"
    /\ IF x \in assetRows THEN Goto(a, "cleanup") /\ UNCHANGED assetRows
       ELSE Done(a) /\ assetRows' = assetRows \cup {x}
    /\ UNCHANGED <<rows, objects, edits, torn, failures>>

\* The batch fails; it may have been committed all the same, and then the
\* object is given up before a broadcast can refer to it.
InsertFails(a, committed) ==
    LET x == req[a].asset IN
    /\ req[a].step = "insertAsset" /\ failures < MaxFailures /\ x \notin assetRows
    /\ failures' = failures + 1
    /\ IF committed THEN /\ assetRows' = assetRows \cup {x}
                         /\ torn' = torn \cup {x}
       ELSE UNCHANGED <<assetRows, torn>>
    /\ Goto(a, "cleanup")
    /\ UNCHANGED <<rows, objects, edits>>

Cleanup(a) ==
    /\ req[a].step = "cleanup"
    /\ objects' = objects \ {req[a].asset}
    /\ Done(a)
    /\ UNCHANGED <<rows, assetRows, edits, torn, failures>>

\* deleteAsset: 404 without the row.
DeleteAsset(a, x) ==
    /\ req[a].step = "idle" /\ x \in assetRows
    /\ StartAsset(a, x, "reference")
    /\ UNCHANGED <<rows, assetRows, objects, edits, torn, failures>>

\* Without the check.
NotRefused(x) == x \in Assets
\* SELECT id FROM broadcasts WHERE asset_id = ?
Unreferenced(x) == ~Referenced(x)

CheckReference(a) ==
    LET x == req[a].asset IN
    /\ req[a].step = "reference"
    /\ IF Unreferenced(x) THEN Goto(a, "unput") ELSE Done(a)
    /\ torn' = IF Referenced(x) THEN torn ELSE torn \cup {x}
    /\ UNCHANGED <<rows, assetRows, objects, edits, failures>>

RemoveObject(a) ==
    /\ req[a].step = "unput"
    /\ objects' = objects \ {req[a].asset}
    /\ Goto(a, "unrow")
    /\ UNCHANGED <<rows, assetRows, edits, torn, failures>>

\* ON DELETE RESTRICT: a reference made meanwhile fails the batch.
RemoveRow(a) ==
    LET x == req[a].asset IN
    /\ req[a].step = "unrow"
    /\ IF Referenced(x) THEN UNCHANGED assetRows
       ELSE assetRows' = assetRows \ {x}
    /\ Done(a)
    /\ UNCHANGED <<rows, objects, edits, torn, failures>>

-----------------------------------------------------------------------------
\* The page is closed, the Worker is evicted, or a call fails outside a try.
Abort(a) ==
    /\ req[a].step # "idle"
    /\ Done(a)
    /\ UNCHANGED <<rows, assetRows, objects, edits, torn, failures>>

WorkerNext ==
    \/ \E a \in Admins, r \in Records : Open(a, r)
    \/ \E a \in Admins, r \in Records : \E input \in Inputs(r) : Create(a, r, input)
    \/ \E a \in Admins : \E input \in Inputs(req[a].rec) : Update(a, input)
    \/ \E a \in Admins : Sign(a)
    \/ \E a \in Admins : CommitCreate(a)
    \/ \E a \in Admins : CommitUpdate(a)
    \/ \E a \in Admins : Delete(a)
    \/ \E a \in Admins : CommitDelete(a)
    \/ \E r \in Records : Expire(r)
    \/ \E a \in Admins, x \in Assets : Upload(a, x)
    \/ \E a \in Admins : PutObject(a)
    \/ \E a \in Admins : InsertAsset(a)
    \/ \E a \in Admins, committed \in BOOLEAN : InsertFails(a, committed)
    \/ \E a \in Admins : Cleanup(a)
    \/ \E a \in Admins, x \in Assets : DeleteAsset(a, x)
    \/ \E a \in Admins : CheckReference(a)
    \/ \E a \in Admins : RemoveObject(a)
    \/ \E a \in Admins : RemoveRow(a)
    \/ \E a \in Admins : Abort(a)

WorkerSpec == WorkerInit /\ [][WorkerNext]_workerVars

-----------------------------------------------------------------------------
(* Properties.                                                              *)

SightType == [rev : Nat, edit : Nat, since : Nat]
ReqType == [step : {"idle"} \cup RecordSteps \cup AssetSteps,
            rec : Records \cup {Nothing}, asset : Assets \cup {Nothing},
            seen : SightType, read : SightType, input : Contents]

WorkerTypeOK ==
    /\ rows \in [Records -> RowType \cup {Nothing}]
    /\ assetRows \subseteq Assets /\ objects \subseteq Assets /\ torn \subseteq Assets
    /\ req \in [Admins -> ReqType]
    /\ \A a \in Admins : /\ req[a].step \in RecordSteps => req[a].rec \in Records
                         /\ req[a].step \in AssetSteps => req[a].asset \in Assets
    /\ edits \in Nat /\ failures \in Nat

\* The image of every broadcast has its row, so that the public Worker knows
\* its type and digest, and its object unless a deletion found the image
\* unreferenced, or an upload gave it up, and a broadcast took it up afterwards:
\* no other order of uploads, clean ups, deletions and edits leaves a broadcast
\* without its image (assets.ts, the foreign key of broadcasts).
ImagesAreKept ==
    \A r \in Records : rows[r] # Nothing /\ rows[r].asset # Nothing =>
        /\ rows[r].asset \in assetRows
        /\ rows[r].asset \in objects \cup torn

\* The record r is written over or deleted by the request of a.
Replaces(a, r) ==
    /\ req[a].rec = r /\ req[a].step \in {"write", "delete"} /\ req'[a] = Idle
    /\ rows[r] # Nothing /\ rows'[r] # rows[r]

\* An administrator replaces or deletes nothing but what the control panel
\* showed, or the same time-expired: an edit another administrator made
\* meanwhile is never lost.  A record that was deleted and created again
\* under the same name counts revisions from 1 again and is not covered
\* (broadcasts.ts and releases.ts: If-Match and WHERE revision = ?).
EditsBuildOnWhatWasSeen ==
    [][\A a \in Admins, r \in Records :
        Replaces(a, r) /\ rows[r].since = req[a].seen.since
            => rows[r].edit = req[a].seen.edit]_workerVars

\* A broadcast that is being delivered is not deleted: whoever deletes it read
\* it when it was a draft, disabled or over, and it still is.  The exception is
\* the one above (deleteBroadcast).
OnlyInactiveIsDeleted ==
    [][\A a \in Admins, r \in Broadcasts :
        Replaces(a, r) /\ rows'[r] = Nothing /\ rows[r].since = req[a].read.since
            => ~Live(rows[r])]_workerVars

\* No request changes a record other than the one it was decided on.
ChangesAreOfWhatWasSeen == EditsBuildOnWhatWasSeen /\ OnlyInactiveIsDeleted

\* docs/VAST_RELAY.md says that referenced assets cannot be deleted.
ReferencedAssetsKept == \A x \in Assets : Referenced(x) => x \in objects
=============================================================================
