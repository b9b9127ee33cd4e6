----------------------------- MODULE ProfileUpdates -----------------------------
(***************************************************************************)
(* The profile and the mutations of it, as functions of the profile they   *)
(* are applied to: the pure part of src/main/storage.ts.                   *)
(*                                                                         *)
(* A profile keeps what the properties tell apart: the renderer's content  *)
(* is one revision, the data merged by imports is a set of operation ids,  *)
(* and the import state and the download list are kept as they are.        *)
(***************************************************************************)
EXTENDS Integers, FiniteSets

CONSTANTS
    Ops,           \* browser-import operation ids
    Exts,          \* extensions an import may have selected
    Downloads,     \* download ids
    Revs,          \* revisions of the renderer-owned collections
    DefaultRev,    \* the revision of DEFAULT_DATA
    Damaged,       \* contents of the active file that do not parse or validate
    Absent,        \* there is no active file
    Nothing        \* null and undefined

DownloadStates == {"none", "active", "done"}
DownloadList == [Downloads -> DownloadStates]
ReceiptStates == {"none", "failed", "final"}

Profile ==
    [schema : {"old", "current"}, rev : Revs, imports : SUBSET Ops,
     gen : Nat, op : Ops \union {Nothing}, pending : SUBSET Exts,
     receipts : [Exts -> ReceiptStates], dl : DownloadList]

NoDownloads == [d \in Downloads |-> "none"]
NoReceipts == [e \in Exts |-> "none"]
DefaultData ==
    [schema |-> "current", rev |-> DefaultRev, imports |-> {}, gen |-> 0,
     op |-> Nothing, pending |-> {}, receipts |-> NoReceipts, dl |-> NoDownloads]

FileContents == Profile \union Damaged \union {Absent}

ImportState(p) == <<p.gen, p.op, p.pending, p.receipts>>
ImportGeneration(p) == IF p = Nothing THEN 0 ELSE p.gen
Migrated(p) == [p EXCEPT !.schema = "current"]

\* What loadData makes of a file it does not reject.
Loaded(f) == IF f = Absent THEN DefaultData ELSE Migrated(f)

\* The mutations: a whole renderer store, a profile derived from an earlier snapshot,
\* the download list, a browser import and its extension results, a replacement.
Replacing == {"pre-import", "pre-restore"}
Saving == {"renderer", "snapshot", "first save", "recovery"}
NoTask == [kind |-> "none"]
Tasks ==
    {NoTask, [kind |-> "clear"]}
        \union [kind : Saving \union Replacing, data : Profile]
        \union [kind : {"upsert"}, id : Downloads, state : DownloadStates]
        \union [kind : {"commit"}, op : Ops, selected : SUBSET Exts]
        \union [kind : {"extension"}, op : Ops, ext : Exts, status : {"failed", "final"}]

ASSUME Distinct ==
    /\ DefaultRev \in Revs
    /\ Absent \notin Profile \union Damaged
    /\ Nothing \notin Profile \union Damaged \union DownloadList \union Ops \union {Absent}
    /\ Damaged \intersect Profile = {}

-----------------------------------------------------------------------------
\* In the following, cur is the profile the task finds and owned the download list the
\* main process has taken over from it, or Nothing.

OwnedDownloads(cur, owned) == IF owned = Nothing THEN cur.dl ELSE owned

\* mainDownloads once the task has started.
DownloadsAfter(t, cur, owned) ==
    LET list == OwnedDownloads(cur, owned)
    IN CASE t.kind = "renderer" -> list
         [] t.kind = "upsert" -> [list EXCEPT ![t.id] = t.state]
         [] t.kind = "clear" ->
               [d \in Downloads |-> IF list[d] = "done" THEN "none" ELSE list[d]]
         [] t.kind \in Replacing -> t.data.dl
         [] OTHER -> owned

\* The profile the task hands to writeData.
Candidate(t, cur) ==
    CASE t.kind \in Saving -> t.data
      [] t.kind \in Replacing ->
            [t.data EXCEPT !.gen = cur.gen + 1, !.op = Nothing, !.pending = {},
                           !.receipts = NoReceipts]
      [] t.kind = "commit" ->
            [cur EXCEPT !.imports = @ \union {t.op}, !.gen = @ + 1, !.op = t.op,
                        !.pending = t.selected, !.receipts = NoReceipts]
      [] t.kind = "extension" ->
            [cur EXCEPT !.pending = IF t.status = "final" THEN @ \ {t.ext} ELSE @,
                        !.receipts = [@ EXCEPT ![t.ext] = t.status]]
      [] OTHER -> cur

\* writeData normalises the candidate and merges the main-owned download list.
Merged(p, owned) == [p EXCEPT !.schema = "current", !.dl = IF owned = Nothing THEN @ ELSE owned]

\* Mutation of Written: a whole profile keeps the list it was composed with.
WrittenAsComposed(t, cur, owned) ==
    Merged(Candidate(t, cur), IF t.kind \in Saving THEN Nothing ELSE DownloadsAfter(t, cur, owned))

Written(t, cur, owned) == Merged(Candidate(t, cur), DownloadsAfter(t, cur, owned))

\* A retry of what the receipts already show as done.
Answered(t, cur) ==
    \/ t.kind = "commit" /\ cur.op = t.op
    \/ t.kind = "extension" /\ cur.op = t.op /\ cur.receipts[t.ext] = "final"

\* Mutation of StaleImportState: saveRendererData checks nothing.
NoImportStateCheck(t, cur) == FALSE

GenerationAdvance(t) == IF t.kind \in Replacing \union {"commit"} THEN 1 ELSE 0
StaleGeneration(t, cur) ==
    Candidate(t, cur).gen # ImportGeneration(cur) + GenerationAdvance(t)
StaleImportState(t, cur) ==
    t.kind = "renderer" /\ ImportState(t.data) # ImportState(cur)
NotPending(t, cur) ==
    /\ t.kind = "extension"
    /\ cur.op = t.op => cur.receipts[t.ext] # "final" /\ t.ext \notin cur.pending

Refused(t, cur) ==
    \/ StaleImportState(t, cur)
    \/ NotPending(t, cur)
    \/ ~Answered(t, cur) /\ StaleGeneration(t, cur)

Accepted(t, cur) == ~Answered(t, cur) /\ ~Refused(t, cur)

=============================================================================
