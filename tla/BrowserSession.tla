--------------------------- MODULE BrowserSession ---------------------------
(***************************************************************************)
(* The open session of a browser window: its workspaces, tabs, tab groups,  *)
(* split view, recently closed tabs and session snapshots, kept by the      *)
(* zustand store of src/renderer/store/browser-store.ts, and its way        *)
(* through a restart: toPersistedData, migrateData of src/main/storage.ts   *)
(* and hydrate.                                                             *)
(*                                                                          *)
(* Every operation of the store is a synchronous function of the state, so  *)
(* the state is one record and an operation an operator on it; a handler    *)
(* that calls several is their composition.                                 *)
(*                                                                          *)
(* The profile also knows whether its onboarding is completed: until then a  *)
(* start turns one of the tabs into the onboarding page.                     *)
(*                                                                          *)
(* Abstracted: a URL is a page, a name is left out.  The order of workspaces *)
(* and groups is that of their ids, in which they are created.  The order   *)
(* of tabs only decides which neighbour follows a closed tab and which tab  *)
(* joins a split: any tab of the workspace (moveTab then changes nothing).  *)
(* Lifecycle, mute and zoom do not decide any of the choices here; whether a *)
(* tab is pinned decides only if onboarding may take it: either may be so.   *)
(* Editing groups is left out: no mounted component offers it.              *)
(***************************************************************************)
EXTENDS Naturals, Sequences, FiniteSets, SequencesExt

CONSTANTS
    Pages,          \* what a tab can show
    NewTabPage,     \* what a tab shows that is opened without a URL
    OnboardingPage, \* vast://onboarding
    Addresses,      \* bound: what the user and the pages navigate to
    Lenders,        \* bound: workspaces whose identity tabs are opened in
    MaxTabs,        \* bound: tabs ever created
    MaxSpaces,      \* bound: workspaces ever created
    MaxGroups,      \* bound: tab groups ever created
    ClosedLimit,    \* how many recently closed tabs are kept (30)
    SnapshotLimit   \* how many session snapshots are kept (80)

ASSUME SessionAssumption ==
    /\ NewTabPage \in Pages /\ OnboardingPage \in Pages \ {NewTabPage}
    /\ Addresses \subseteq Pages
    /\ MaxTabs \in Nat \ {0, 1} /\ MaxSpaces \in Nat \ {0} /\ MaxGroups \in Nat
    /\ ClosedLimit \in Nat \ {0} /\ SnapshotLimit \in Nat \ {0}

VARIABLES
    session,
    onboarded   \* onboarding.completed, kept with the session

Nil      == 0
TabIds   == 1 .. MaxTabs
SpaceIds == 1 .. MaxSpaces
GroupIds == 1 .. MaxGroups

Spaces    == [private : BOOLEAN, active : TabIds \cup {Nil}]
Tabs      == [space : SpaceIds, identity : SpaceIds \cup {Nil},
              group : GroupIds \cup {Nil}, page : Pages]
Splits    == [on : BOOLEAN, primary : TabIds \cup {Nil},
              secondary : TabIds \cup {Nil}]
Closed    == [space : SpaceIds, page : Pages]
Snapshots == [space : SpaceIds \cup {Nil}, pages : (SUBSET Pages) \ {{}}]

NoSplit == [on |-> FALSE, primary |-> Nil, secondary |-> Nil]

SessionTypeOK ==
    /\ DOMAIN session = {"spaces", "current", "tabs", "groups", "split",
                         "closed", "snapshots",
                         "nextTab", "nextSpace", "nextGroup"}
    /\ DOMAIN session.spaces \subseteq SpaceIds
    /\ \A w \in DOMAIN session.spaces : session.spaces[w] \in Spaces
    /\ session.current \in SpaceIds
    /\ DOMAIN session.tabs \subseteq TabIds
    /\ \A t \in DOMAIN session.tabs : session.tabs[t] \in Tabs
    /\ DOMAIN session.groups \subseteq GroupIds
    /\ \A g \in DOMAIN session.groups : session.groups[g] \in SpaceIds
    /\ session.split \in Splits
    /\ session.closed \in Seq(Closed) /\ Len(session.closed) <= ClosedLimit
    /\ session.snapshots \in Seq(Snapshots)
    /\ Len(session.snapshots) <= SnapshotLimit
    /\ session.nextTab \in 1 .. MaxTabs + 1
    /\ session.nextSpace \in 1 .. MaxSpaces + 1
    /\ session.nextGroup \in 1 .. MaxGroups + 1
    /\ onboarded \in BOOLEAN

-----------------------------------------------------------------------------
(* Reading the state.                                                       *)

Put(f, x, y) == [z \in DOMAIN f \cup {x} |-> IF z = x THEN y ELSE f[z]]

Least(S) == CHOOSE x \in S : \A y \in S : x <= y

TabsOf(s, w)   == {t \in DOMAIN s.tabs : s.tabs[t].space = w}
GroupsOf(s, w) == {g \in DOMAIN s.groups : s.groups[g] = w}
Private(s)     == {w \in DOMAIN s.spaces : s.spaces[w].private}

\* The tab a workspace's activeTabId names, or Nil.
ActiveTab(s, w) ==
    IF w \in DOMAIN s.spaces /\ s.spaces[w].active \in DOMAIN s.tabs
    THEN s.spaces[w].active
    ELSE Nil

\* Two tabs that can share the screen of workspace w.
IsPair(s, w, primary, secondary) ==
    /\ {primary, secondary} \subseteq TabsOf(s, w)
    /\ primary # secondary

Panes(split) == {split.primary, split.secondary}

-----------------------------------------------------------------------------
(* The operations of the store.                                             *)

WithActive(s, w, t) ==
    IF w \in DOMAIN s.spaces THEN [s.spaces EXCEPT ![w].active = t]
                             ELSE s.spaces

\* Mutant: the panes are not checked against the workspace of the tab.
SplitAfterUnchecked(s, t, w) ==
    IF ~s.split.on \/ t \in Panes(s.split) THEN s.split
    ELSE IF ActiveTab(s, w) = s.split.secondary
         THEN [s.split EXCEPT !.secondary = t]
         ELSE [s.split EXCEPT !.primary = t]

\* The split view once t of workspace w is activated: it takes the place of
\* the pane that had the focus.
SplitAfter(s, t, w) ==
    IF ~s.split.on THEN s.split
    ELSE IF ~(Panes(s.split) \subseteq TabsOf(s, w)) THEN NoSplit
    ELSE IF t \in Panes(s.split) THEN s.split
    ELSE IF ActiveTab(s, w) = s.split.secondary
         THEN [s.split EXCEPT !.secondary = t]
         ELSE [s.split EXCEPT !.primary = t]

\* The group of a tab opened in workspace w without one.
DefaultGroup(s, w) ==
    LET active == ActiveTab(s, w)
    IN  IF active \in TabsOf(s, w) /\ s.tabs[active].group # Nil
        THEN s.tabs[active].group
        ELSE IF GroupsOf(s, w) # {} THEN Least(GroupsOf(s, w)) ELSE Nil

WithTab(s, w, identity, group, page, activate) ==
    LET id  == s.nextTab
        tab == [space |-> w, identity |-> identity, page |-> page,
                group |-> IF group # Nil THEN group ELSE DefaultGroup(s, w)]
    IN  [s EXCEPT !.tabs    = Put(s.tabs, id, tab),
                  !.nextTab = id + 1,
                  !.split   = IF activate THEN SplitAfter(s, id, w) ELSE @,
                  !.spaces  = IF activate THEN WithActive(s, w, id) ELSE @]

PlainTab(s, w, page) == WithTab(s, w, Nil, Nil, page, TRUE)

NewTab(s, w) == PlainTab(s, w, NewTabPage)

Activated(s, t) ==
    LET w == s.tabs[t].space
    IN  [s EXCEPT !.current = w,
                  !.split   = SplitAfter(s, t, w),
                  !.spaces  = WithActive(s, w, t)]

\* Mutant: either pane is taken for the one that survives.
FollowersEitherPane(s, t) ==
    IF s.split.on /\ t \in Panes(s.split) THEN Panes(s.split)
    ELSE TabsOf(s, s.tabs[t].space) \ {t}

\* The tab that follows t when t closes: the other pane of its split, or a
\* neighbour in its workspace.
Followers(s, t) ==
    IF s.split.on /\ t \in Panes(s.split) THEN Panes(s.split) \ {t}
    ELSE TabsOf(s, s.tabs[t].space) \ {t}

PrivateIdentity(s, tab) ==
    \/ tab.identity \in Private(s)
    \/ tab.identity \notin DOMAIN s.spaces /\ tab.space \in Private(s)

Remember(list, entry, limit) == SubSeq(<<entry>> \o list, 1,
    IF Len(list) + 1 <= limit THEN Len(list) + 1 ELSE limit)

WithoutTab(s, t, next, record) ==
    LET tab == s.tabs[t]
    IN  [s EXCEPT
           !.tabs   = Restrict(s.tabs, DOMAIN s.tabs \ {t}),
           !.split  = IF s.split.on /\ t \in Panes(s.split) THEN NoSplit ELSE @,
           !.spaces = IF tab.space \in DOMAIN s.spaces
                         /\ s.spaces[tab.space].active = t
                      THEN WithActive(s, tab.space, next) ELSE @,
           !.closed = IF PrivateIdentity(s, tab) \/ ~record THEN @
                      ELSE Remember(@, [space |-> tab.space, page |-> tab.page],
                                    ClosedLimit)]

\* What the timeline may be once a snapshot of workspace w was taken for it:
\* one that looks like the latest is dropped if that was taken for the same
\* reason less than three minutes ago.
Captures(s, w) ==
    LET pages == {s.tabs[t].page : t \in TabsOf(s, w)}
        shot  == [space |-> IF w \in DOMAIN s.spaces THEN w ELSE Nil,
                  pages |-> pages]
    IN  IF w \in Private(s) \/ pages = {} THEN {s.snapshots}
        ELSE {Remember(s.snapshots, shot, SnapshotLimit)} \cup
             (IF s.snapshots # <<>> /\ Head(s.snapshots) = shot
              THEN {s.snapshots} ELSE {})

\* Workspace w, which may be gone: its tabs are replaced by one tab for each
\* page of a snapshot, and chosen is the one that shows.
WithRestored(s, w, pages, placed, chosen, newGroups) ==
    LET ids  == s.nextTab .. s.nextTab + Cardinality(pages) - 1
        kept == DOMAIN s.tabs \ TabsOf(s, w)
        page == CHOOSE f \in [ids -> pages] : \A p \in pages : \E i \in ids : f[i] = p
    IN  [s EXCEPT
           !.current   = w,
           !.spaces    = Put(s.spaces, w,
                             [private |-> w \in Private(s), active |-> chosen]),
           !.nextSpace = IF w = s.nextSpace THEN w + 1 ELSE @,
           !.groups    = [g \in DOMAIN s.groups \cup newGroups |->
                             IF g \in newGroups THEN w ELSE s.groups[g]],
           !.nextGroup = @ + Cardinality(newGroups),
           !.tabs      = [t \in kept \cup ids |->
                             IF t \in ids
                             THEN [space |-> w, identity |-> Nil,
                                   group |-> placed[t], page |-> page[t]]
                             ELSE s.tabs[t]],
           !.nextTab   = @ + Cardinality(pages),
           !.split     = NoSplit]

-----------------------------------------------------------------------------
(* A restart.                                                               *)

\* The entries of a list whose workspace is in W.
Of(list, W) ==
    LET of[n \in 0 .. Len(list)] ==
            IF n = 0 THEN <<>>
            ELSE IF list[n].space \in W THEN Append(of[n - 1], list[n]) ELSE of[n - 1]
    IN  of[Len(list)]

\* What toPersistedData hands to the main process.
Persisted(s) ==
    LET kept == (SpaceIds \cup {Nil}) \ Private(s)
    IN  [s EXCEPT
           !.tabs      = Restrict(s.tabs, {t \in DOMAIN s.tabs : s.tabs[t].space \in kept}),
           !.closed    = Of(@, kept),
           !.snapshots = Of(@, kept)]

\* Mutant: a tab must have a group to be kept.
MigratedGrouped(s) ==
    LET here == {t \in DOMAIN s.tabs :
                    /\ s.tabs[t].space \in DOMAIN s.spaces
                    /\ s.tabs[t].identity \in DOMAIN s.spaces \cup {Nil}
                    /\ s.tabs[t].group \in DOMAIN s.groups}
    IN  [s EXCEPT
           !.current = IF @ \in DOMAIN s.spaces THEN @ ELSE Least(DOMAIN s.spaces),
           !.tabs    = Restrict(@, here)]

\* What migrateData makes of it: what refers to nothing is dropped.
Migrated(s) ==
    LET here    == {t \in DOMAIN s.tabs :
                       /\ s.tabs[t].space \in DOMAIN s.spaces
                       /\ s.tabs[t].identity \in DOMAIN s.spaces \cup {Nil}
                       /\ s.tabs[t].group \in DOMAIN s.groups \cup {Nil}}
        current == IF s.current \in DOMAIN s.spaces THEN s.current
                   ELSE Least(DOMAIN s.spaces)
        kept    == [s EXCEPT !.current = current, !.tabs = Restrict(s.tabs, here)]
    IN  [kept EXCEPT
           !.groups = Restrict(@, {g \in DOMAIN s.groups : s.groups[g] \in DOMAIN s.spaces}),
           !.closed = Of(@, DOMAIN s.spaces),
           !.split  = IF s.split.on /\ IsPair(kept, current, s.split.primary,
                                                             s.split.secondary)
                      THEN @ ELSE NoSplit]

Showing(tabs, page) == {t \in DOMAIN tabs : tabs[t].page = page}

\* The tabs whose page applyOnboardingStart changes, as sets: those left on a
\* completed onboarding; if it is pending and no tab shows it, the one that the
\* workspace on screen names, or the first when that is not there, unless the
\* tab is pinned.
OnboardingChoices(s, done) ==
    LET tabs   == DOMAIN s.tabs
        active == s.spaces[s.current].active
        found  == Showing(s.tabs, OnboardingPage)
    IN  IF done THEN {found}
        ELSE IF found # {} THEN {{}}
        ELSE {{}} \cup {{t} : t \in IF active \in tabs THEN {active} ELSE tabs}

OnboardingStart(s, done, chosen) ==
    LET page == IF done THEN NewTabPage ELSE OnboardingPage
    IN  [s EXCEPT !.tabs = [t \in DOMAIN @ |->
                               IF t \in chosen THEN [@[t] EXCEPT !.page = page] ELSE @[t]]]

\* The first half of hydrate, the tabs that return; restore is whether the
\* settings, and a start that is not a safe one, let them.
Returning(s, restore) ==
    [s EXCEPT !.tabs = IF restore
                       THEN Restrict(@, {t \in DOMAIN @ : @[t].space \notin Private(s)})
                       ELSE <<>>]

\* The second half: the split view if both panes returned, and a tab with the
\* page to start with if nothing shows.
Rehydrated(s, page) ==
    LET split == IF s.split.on /\ IsPair(s, s.current, s.split.primary,
                                                      s.split.secondary)
                 THEN s.split ELSE NoSplit
        held  == [s EXCEPT !.split = split,
                    !.spaces = IF split.on
                                  /\ s.spaces[s.current].active \notin Panes(split)
                               THEN WithActive(s, s.current, split.primary)
                               ELSE @]
    IN  IF ActiveTab(held, s.current) = Nil
        THEN PlainTab(held, s.current, page) ELSE held

\* What hydrate makes of a profile whose tabs are those that return, and a
\* snapshot of it; home is the home page or a new tab, by the settings.
Hydrations(s, done, chosen, home) ==
    LET started == OnboardingStart(s, done, chosen)
        page    == IF done \/ Showing(started.tabs, OnboardingPage) # {} THEN home
                   ELSE OnboardingPage
        shown   == Rehydrated(started, page)
    IN  {[shown EXCEPT !.snapshots = list] :
            list \in IF DOMAIN s.tabs # {} THEN Captures(shown, shown.current)
                     ELSE {shown.snapshots}}

-----------------------------------------------------------------------------
(* The handlers.                                                            *)

\* DEFAULT_DATA: one workspace with a new tab.
FreshProfile ==
    [spaces    |-> [w \in {1} |-> [private |-> FALSE, active |-> 1]],
     current   |-> 1,
     tabs      |-> [t \in {1} |-> [space |-> 1, identity |-> Nil,
                                  group |-> Nil, page |-> NewTabPage]],
     groups    |-> <<>>,
     split     |-> NoSplit,
     closed    |-> <<>>,
     snapshots |-> <<>>,
     nextTab   |-> 2, nextSpace |-> 2, nextGroup |-> 1]

\* The first start shows its onboarding.
SessionInit ==
    /\ onboarded = FALSE
    /\ session \in Hydrations(FreshProfile, FALSE, {1}, NewTabPage)

RoomForTabs(n) == session.nextTab + n <= MaxTabs + 1

\* A tab from the address bar, a shortcut, the palette or an automation.
OpenTab(page, activate) ==
    /\ RoomForTabs(1)
    /\ session' = WithTab(session, session.current, Nil, Nil, page, activate)

\* A tab opened by the page of tab t or from its menu (handleBrowserTabOpen-
\* Request, "Open link in new tab"), in the background or activated.
OpenFromTab(t, page, activate) ==
    LET tab == session.tabs[t]
    IN  /\ RoomForTabs(1)
        /\ session' = WithTab(session, tab.space, Nil, tab.group, page, activate)

\* "Open in <workspace> identity".
OpenInIdentity(t, w, page) ==
    LET tab == session.tabs[t]
    IN  /\ RoomForTabs(1)
        /\ session' = WithTab(session, tab.space, w, tab.group, page, TRUE)

DuplicateTab(t) ==
    LET tab == session.tabs[t]
    IN  /\ RoomForTabs(1)
        /\ session' = WithTab(session, tab.space, tab.identity, tab.group,
                              tab.page, TRUE)

NavigateTab(t, page) ==
    session' = [session EXCEPT !.tabs[t].page = page]

ActivateTab(t) ==
    session' = Activated(session, t)

CloseTab(t, record) ==
    LET w == session.tabs[t].space
    IN  \/ \E next \in Followers(session, t) :
              session' = WithoutTab(session, t, next, record)
        \/ /\ Followers(session, t) = {}
           /\ RoomForTabs(1)
           /\ session' = NewTab(WithoutTab(session, t, Nil, record), w)

ReopenClosedTab ==
    /\ session.closed # <<>>
    /\ RoomForTabs(1)
    /\ LET closed == Head(session.closed)
       IN  session' = PlainTab([session EXCEPT !.closed = Tail(@)],
                               closed.space, closed.page)

SwapSplitPanes ==
    LET split == session.split
        valid == /\ IsPair(session, session.current, split.primary, split.secondary)
                 /\ ActiveTab(session, session.current) \in Panes(split)
    IN  /\ split.on
        /\ session' = [session EXCEPT !.split =
                          IF valid THEN [split EXCEPT !.primary = split.secondary,
                                                      !.secondary = split.primary]
                          ELSE NoSplit]

\* setSplitView(true, secondary, primary), for a primary that is active.
Split(s, primary, secondary) ==
    [s EXCEPT !.split =
        IF IsPair(s, s.current, primary, secondary)
        THEN [on |-> TRUE, primary |-> primary, secondary |-> secondary]
        ELSE NoSplit]

\* The split view joins the active tab and another tab of the workspace, or
\* a new one when there is no other.
EnterSplit ==
    LET w      == session.current
        active == ActiveTab(session, w)
        others == TabsOf(session, w) \ {active}
    IN  /\ ~session.split.on
        /\ active # Nil
        /\ \/ \E t \in others : session' = Split(session, active, t)
           \/ /\ others = {}
              /\ RoomForTabs(1)
              /\ session' = Split(WithTab(session, w, Nil, Nil, NewTabPage, FALSE),
                                  active, session.nextTab)

ExitSplit ==
    /\ session.split.on
    /\ session' = [session EXCEPT !.split = NoSplit]

SetActiveWorkspace(w) ==
    \E list \in Captures(session, session.current) :
        LET moved == [session EXCEPT !.current   = w,
                                     !.split     = NoSplit,
                                     !.snapshots = list]
        IN  /\ session.current # w
            /\ \/ /\ ActiveTab(session, w) # Nil
                  /\ session' = moved
               \/ /\ ActiveTab(session, w) = Nil
                  /\ RoomForTabs(1)
                  /\ session' = NewTab(moved, w)

\* A new workspace starts with the group Today and one tab in it.
CreateWorkspace(private) ==
    LET w == session.nextSpace
        g == session.nextGroup
    IN  /\ w \in SpaceIds /\ g \in GroupIds /\ RoomForTabs(1)
        /\ session' = NewTab([session EXCEPT
                          !.spaces    = Put(@, w, [private |-> private,
                                                   active  |-> Nil]),
                          !.current   = w,
                          !.split     = NoSplit,
                          !.groups    = Put(@, g, w),
                          !.nextSpace = w + 1,
                          !.nextGroup = g + 1], w)

\* Choosing the ephemeral session mode makes the workspace private, another
\* mode makes it an ordinary one.
UpdateWorkspaceIdentity(w, private) ==
    /\ session.spaces[w].private # private
    /\ session' = [session EXCEPT !.spaces[w].private = private]

\* Its tabs and groups go with a workspace.
WithoutWorkspace(s, w) ==
    LET others == DOMAIN s.spaces \ {w}
        leaves == s.split.on /\ Panes(s.split) \cap TabsOf(s, w) # {}
    IN  [s EXCEPT
           !.spaces  = Restrict(@, others),
           !.current = IF @ = w THEN Least(others) ELSE @,
           !.split   = IF s.current = w \/ leaves THEN NoSplit ELSE @,
           !.groups  = Restrict(@, DOMAIN @ \ GroupsOf(s, w)),
           !.tabs    = Restrict(@, DOMAIN @ \ TabsOf(s, w))]

DeleteWorkspace(w) ==
    /\ DOMAIN session.spaces # {w}
    /\ session' = WithoutWorkspace(session, w)

\* "Save snapshot now", the palette, an automation or the new tab page.
AddSessionSnapshot ==
    \E list \in Captures(session, session.current) :
        /\ list # session.snapshots
        /\ session' = [session EXCEPT !.snapshots = list]

\* The tabs of a workspace give way to those of a snapshot: of the workspace
\* the snapshot names, of a new one when that is gone, or of the current one
\* when it names none.  What the current workspace shows is captured first.
RestoreSessionSnapshot(i) ==
    LET shot == session.snapshots[i]
        w    == IF shot.space = Nil THEN session.current
                ELSE IF shot.space \in DOMAIN session.spaces THEN shot.space
                ELSE session.nextSpace
        ids  == session.nextTab .. session.nextTab + Cardinality(shot.pages) - 1
    IN  /\ w \in SpaceIds
        /\ RoomForTabs(Cardinality(shot.pages))
        /\ \E new \in {{}, {session.nextGroup}}, list \in Captures(session, session.current) :
              /\ new \subseteq GroupIds
              /\ new \cup GroupsOf(session, w) # {}
              /\ \E placed \in [ids -> new \cup GroupsOf(session, w)], t \in ids :
                    session' = WithRestored([session EXCEPT !.snapshots = list], w,
                                            shot.pages, placed, t, new)

RemoveSessionSnapshot(i) ==
    session' = [session EXCEPT !.snapshots = RemoveAt(@, i)]

\* The end of the onboarding page.  Leaving that page for a new tab is a step
\* of its own, after a save that may fail.
CompleteOnboarding ==
    /\ ~onboarded
    /\ Showing(session.tabs, OnboardingPage) # {}
    /\ onboarded' = TRUE
    /\ UNCHANGED session

\* The program quits, having stored its last state, and starts again.
Restart(restore, home) ==
    LET back == Returning(Migrated(Persisted(session)), restore)
    IN  /\ RoomForTabs(1)
        /\ \E chosen \in OnboardingChoices(back, onboarded) :
              session' \in Hydrations(back, onboarded, chosen, home)
        /\ UNCHANGED onboarded

UseTab(t) ==
    \/ \E page \in Addresses, activate \in BOOLEAN : OpenFromTab(t, page, activate)
    \/ \E page \in Addresses, w \in DOMAIN session.spaces \cap Lenders :
          OpenInIdentity(t, w, page)
    \/ DuplicateTab(t)
    \/ \E page \in Addresses : NavigateTab(t, page)
    \/ ActivateTab(t)
    \/ \E record \in BOOLEAN : CloseTab(t, record)

UseWorkspace(w) ==
    \/ SetActiveWorkspace(w)
    \/ \E private \in BOOLEAN : UpdateWorkspaceIdentity(w, private)
    \/ DeleteWorkspace(w)

Operation ==
    \/ \E page \in Addresses, activate \in BOOLEAN : OpenTab(page, activate)
    \/ \E t \in DOMAIN session.tabs : UseTab(t)
    \/ \E w \in DOMAIN session.spaces : UseWorkspace(w)
    \/ ReopenClosedTab
    \/ SwapSplitPanes
    \/ EnterSplit
    \/ ExitSplit
    \/ \E private \in BOOLEAN : CreateWorkspace(private)
    \/ AddSessionSnapshot
    \/ \E i \in DOMAIN session.snapshots :
          \/ RestoreSessionSnapshot(i)
          \/ RemoveSessionSnapshot(i)

HomePages == Pages \ {OnboardingPage}

SessionNext ==
    \/ Operation /\ UNCHANGED onboarded
    \/ CompleteOnboarding
    \/ \E restore \in BOOLEAN, home \in HomePages : Restart(restore, home)

sessionVars == <<session, onboarded>>

SessionSpec == SessionInit /\ [][SessionNext]_sessionVars

-----------------------------------------------------------------------------
(* What must hold.                                                          *)

\* While the view is split, the panes are two tabs of the workspace on
\* screen, and the tab with the focus is one of them: no activation, closing,
\* switch, deletion, restore or restart leaves a pane behind
\* (tests/renderer/split-view-regressions.test.ts).
SplitPairValid ==
    session.split.on =>
        /\ IsPair(session, session.current, session.split.primary,
                                            session.split.secondary)
        /\ ActiveTab(session, session.current) \in Panes(session.split)

\* A tab is never filed under a group that is gone or belongs to another
\* workspace: migrateData would drop it on the next start.
GroupsAreLocal ==
    \A t \in DOMAIN session.tabs :
        LET tab == session.tabs[t]
        IN  tab.group # Nil => tab.group \in GroupsOf(session, tab.space)

\* The tab a workspace shows is one of its own, so that closing, splitting
\* and deleting, which go by the tab's workspace, reach the tab on screen.
ActiveTabsAreLocal ==
    \A w \in DOMAIN session.spaces :
        ActiveTab(session, w) # Nil => ActiveTab(session, w) \in TabsOf(session, w)

\* After every operation: the types, the limits of the lists, and the three
\* ways in which tabs, groups, workspaces and the split view refer to each
\* other.
SessionIsConsistent ==
    /\ SessionTypeOK
    /\ SplitPairValid
    /\ GroupsAreLocal
    /\ ActiveTabsAreLocal

Restarting(restore) ==
    \E home \in HomePages : Restart(restore, home)

\* A workspace that shows a tab never turns blank while the program runs:
\* whatever is closed, moved, deleted or restored, something follows.
KeepsShowing ==
    [][\/ \A w \in DOMAIN session.spaces \cap DOMAIN session'.spaces :
             ActiveTab(session, w) # Nil => ActiveTab(session', w) # Nil
       \/ \E restore \in BOOLEAN : Restarting(restore)]_session

\* Tab t of tabs is as it was, but for the page it shows.
InPlace(tabs, old, t) ==
    t \in DOMAIN tabs /\ tabs[t] = [old[t] EXCEPT !.page = tabs[t].page]

\* What a restart that restores tabs owes its user: the tabs of ordinary
\* workspaces come back, in their workspace, group and identity, those of
\* private ones do not; the same workspace is on screen, and its split view is
\* there if it was.  They show what they showed, with one exception: while
\* onboarding is pending and no tab shows it, one tab is given to it, the
\* active one of the workspace on screen if that came back
\* (tests/renderer/onboarding-store.test.ts).  A tab on the onboarding page
\* resumes it, or shows a new tab once it is completed.
RestartKeepsSession ==
    [][Restarting(TRUE) =>
        LET here == DOMAIN session.spaces \ Private(session)
            kept == {t \in DOMAIN session.tabs :
                        /\ session.tabs[t].space \in here
                        /\ session.tabs[t].identity \in
                              DOMAIN session.spaces \cup {Nil}}
            onSetUp == kept \cap Showing(session.tabs, OnboardingPage)
            taken   == {t \in kept \ onSetUp :
                           session'.tabs[t].page # session.tabs[t].page}
            active  == session.spaces[session'.current].active
        IN  /\ kept = DOMAIN session'.tabs \cap DOMAIN session.tabs
            /\ \A t \in kept : InPlace(session'.tabs, session.tabs, t)
            /\ \A t \in onSetUp : session'.tabs[t].page =
                                     IF onboarded THEN NewTabPage ELSE OnboardingPage
            /\ \A t \in taken :
                  /\ ~onboarded /\ onSetUp = {} /\ taken = {t}
                  /\ session'.tabs[t].page = OnboardingPage
                  /\ active \in kept => t = active
            /\ session.current \in DOMAIN session.spaces =>
                  session'.current = session.current
            /\ session.split.on /\ Panes(session.split) \subseteq kept =>
                  session'.split = session.split
            /\ \A w \in here : session.spaces[w].active \in kept =>
                  ActiveTab(session', w) = session.spaces[w].active]_session

\* Before the tabs of an ordinary workspace give way to a snapshot, they are
\* captured: every page that leaves the screen is in some snapshot.
RestoreIsCaptured ==
    [][\A i \in DOMAIN session.snapshots :
         RestoreSessionSnapshot(i) =>
            \A t \in DOMAIN session.tabs \ DOMAIN session'.tabs :
                \/ session.tabs[t].space \in Private(session)
                \/ \E k \in DOMAIN session'.snapshots :
                      session.tabs[t].page \in session'.snapshots[k].pages]_session
=============================================================================
