------------------------------- MODULE AtomicStore -------------------------------
(***************************************************************************)
(* What the durable store promises its callers: a file that changes by one *)
(* requested mutation at a time, applied to the profile in the file at     *)
(* that moment, all or nothing, and at most once.  There is no cache, no   *)
(* queue and no temporary file here.  A refused or failed mutation leaves  *)
(* the file alone; only the download list it handed over may stay with the *)
(* main process and reach the file with a later mutation.                  *)
(***************************************************************************)
EXTENDS ProfileUpdates

CONSTANTS Clients, InitialFiles

VARIABLES
    file,    \* the active file
    owned,   \* the download list the main process has taken over
    asked    \* the mutations requested and not yet applied, refused or failed

vars == <<file, owned, asked>>

Init ==
    /\ file \in InitialFiles
    /\ owned = Nothing
    /\ asked = [c \in Clients |-> NoTask]

Ask(c) ==
    /\ asked[c] = NoTask /\ file \notin Damaged
    /\ asked'[c] \in Tasks
    /\ asked' = [asked EXCEPT ![c] = asked'[c]]
    /\ UNCHANGED <<file, owned>>

Apply(c) ==
    /\ asked[c] # NoTask /\ file \notin Damaged
    /\ Accepted(asked[c], Loaded(file))
    /\ file' = Written(asked[c], Loaded(file), owned)
    /\ owned' = DownloadsAfter(asked[c], Loaded(file), owned)
    /\ asked' = [asked EXCEPT ![c] = NoTask]

\* Refused, answered from a receipt, or failed before the file changed.  A replacement
\* that fails also gives the download list back.
Decline(c) ==
    /\ asked[c] # NoTask
    /\ owned' \in {owned} \union
          IF asked[c].kind \in Replacing THEN {}
          ELSE {DownloadsAfter(asked[c], Loaded(file), owned)}
    /\ asked' = [asked EXCEPT ![c] = NoTask]
    /\ UNCHANGED file

\* The first save of a start: defaults for a missing file, a migrated old profile.
FirstSave ==
    /\ file \notin Damaged
    /\ file' = Loaded(file)
    /\ UNCHANGED <<owned, asked>>

\* A backup, or the defaults.
Recover ==
    /\ file \in Damaged
    /\ file' \in Profile
    /\ UNCHANGED <<owned, asked>>

Forget ==
    /\ owned' = Nothing
    /\ asked' = [c \in Clients |-> NoTask]
    /\ UNCHANGED file

Damage ==
    /\ file \in Profile
    /\ file' \in Damaged
    /\ UNCHANGED <<owned, asked>>

Next ==
    \/ \E c \in Clients : Ask(c) \/ Apply(c) \/ Decline(c)
    \/ FirstSave \/ Recover \/ Forget \/ Damage

Spec == Init /\ [][Next]_vars

=============================================================================
