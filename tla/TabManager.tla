----------------------------- MODULE TabManager -----------------------------
(***************************************************************************)
(* The workspaces of jmux (model/tab_manager.rs): their order in the       *)
(* sidebar, the selected one, the recently closed ones, the groups and the *)
(* focus history, changed by the socket's workspace.*, group.* and         *)
(* surface.move handlers, by the sidebar and by the goal scheduler.        *)
(*                                                                         *)
(* A method runs under the tab_manager lock, so it is one step.  What is   *)
(* in two steps is what the code does in two: a confirmation dialog and    *)
(* the sidebar's rows hold an index taken at an earlier refresh, and       *)
(* workspace.action reads an index or an id under one lock and acts under  *)
(* another.  Such a request is kept in asked until it is carried out.      *)
(*                                                                         *)
(* A workspace is here the set of its panels; its layout is the subject of *)
(* WorkspaceLayout.  Whether a workspace is pinned is only asked by the    *)
(* closing of several at once, so the pinned ones are any set there.       *)
(***************************************************************************)
EXTENDS Naturals, FiniteSets, FiniteSetsExt, TLC, Lists

CONSTANTS
    Workspaces,   \* identities of workspaces; a Uuid is taken again only when nothing names it
    Panels,       \* identities of panels, likewise
    Groups,       \* identities of groups
    None,         \* no workspace, no group, nothing asked
    ClosedCap,    \* CLOSED_STACK_CAP
    HistoryCap    \* FOCUS_HISTORY_CAP

ASSUME NoneIsNothing == None \notin Workspaces \cup Groups
ASSUME CapsArePositive == ClosedCap \in Nat \ {0} /\ HistoryCap \in Nat \ {0}

VARIABLES
    tm,           \* list, selected (0: none), tabs and group of each workspace, closed
    groups,       \* the groups there are
    focus,        \* focus_history and focus_pos (the position counts from 1)
    asked         \* a dialog on screen or a request between its two critical sections

vars == <<tm, groups, focus, asked>>

Placements == {"end", "after", "top"}

-----------------------------------------------------------------------------
(* TabManager: what its methods return.                                     *)

Open(t) == ToSet(t.list)
At(t, w) == CHOOSE i \in DOMAIN t.list : t.list[i] = w
SelectedId(t) == IF t.selected = 0 THEN None ELSE t.list[t.selected]

Placed(t, placement) ==
    CASE placement = "end"   -> Len(t.list) + 1
      [] placement = "after" -> t.selected + 1
      [] placement = "top"   -> 1

Inserted(t, i, w, panels, g) ==
    [t EXCEPT !.list = InsertAt(@, i, w), !.tabs[w] = panels, !.group[w] = g]

\* add_workspace_with_placement: the new workspace is selected.
Add(t, w, panels, g, placement) ==
    LET i == Placed(t, placement)
    IN  [Inserted(t, i, w, panels, g) EXCEPT !.selected = i]

\* Mutant: the selection stays on the slot.
AddKeepingSlot(t, w, panels, g, placement) ==
    Inserted(t, IF t.selected = 0 /\ placement = "after" THEN Len(t.list) + 1
                ELSE Placed(t, placement), w, panels, g)

AddKeeping(t, w, panels, g, placement) ==
    LET i == IF t.selected = 0 /\ placement = "after" THEN Len(t.list) + 1
             ELSE Placed(t, placement)
    IN  [Inserted(t, i, w, panels, g) EXCEPT !.selected =
            IF @ # 0 /\ i <= @ THEN @ + 1 ELSE @]

Entry(t, w) == [id |-> w, tabs |-> t.tabs[w], group |-> t.group[w]]

\* Mutant: the list of closed workspaces is not capped.
RememberedAll(closed, entry) == Append(closed, entry)

\* Mutant: the wrong end of the list is dropped.
RememberedOldest(closed, entry) ==
    LET all == Append(closed, entry)
    IN  IF Len(all) > ClosedCap THEN Front(all) ELSE all

Remembered(closed, entry) ==
    LET all == Append(closed, entry)
    IN  IF Len(all) > ClosedCap THEN Tail(all) ELSE all

\* What the workspaces of gone held is dropped.
Dropped(t, gone) ==
    [t EXCEPT !.tabs  = [w \in Workspaces |-> IF w \in gone THEN {} ELSE @[w]],
              !.group = [w \in Workspaces |-> IF w \in gone THEN None ELSE @[w]]]

\* The workspaces of gone leave the list; nothing is said of the selection.
Without(t, gone) == [Dropped(t, gone) EXCEPT !.list = Retain(@, Open(t) \ gone)]

\* remove(i): an emptied workspace is not remembered.
RemoveAtIndex(t, i) ==
    IF i \notin DOMAIN t.list THEN t
    ELSE LET w == t.list[i]
             n == Len(t.list) - 1
         IN  [Dropped(t, {w}) EXCEPT
                 !.list     = RemoveAt(@, i),
                 !.closed   = IF t.tabs[w] = {} THEN @ ELSE Remembered(@, Entry(t, w)),
                 !.selected = IF n = 0 THEN 0 ELSE IF @ > n THEN n
                              ELSE IF @ > i THEN @ - 1 ELSE @]

\* Mutant: the emptied workspace stays.
PrunedNever(t, w) == t

\* An emptied workspace is removed.
Pruned(t, w) == IF t.tabs[w] = {} THEN RemoveAtIndex(t, At(t, w)) ELSE t

Detached(t, p, w) == Pruned([t EXCEPT !.tabs[w] = @ \ {p}], w)

Attached(t, p, w) == [t EXCEPT !.tabs[w] = @ \cup {p}]

\* Mutant: the selection is moved only with the moved workspace.
MovedAlone(t, from, to) ==
    IF from \notin DOMAIN t.list \/ to \notin DOMAIN t.list THEN t
    ELSE [t EXCEPT !.list = InsertAt(RemoveAt(@, from), to, t.list[from]),
                   !.selected = IF @ = from THEN to ELSE @]

Moved(t, from, to) ==
    IF from \notin DOMAIN t.list \/ to \notin DOMAIN t.list THEN t
    ELSE [t EXCEPT !.list = InsertAt(RemoveAt(@, from), to, t.list[from]),
                   !.selected = CASE @ = from -> to
                                  [] from < @ /\ @ <= to -> @ - 1
                                  [] to <= @ /\ @ < from -> @ + 1
                                  [] OTHER -> @]

\* reorder_workspaces: the named ones first, in that order, one move each.
Reordered(t, names) ==
    LET order == names \o Retain(t.list, Open(t) \ ToSet(names))
    IN  FoldLeftDomain(LAMBDA u, i : Moved(u, At(u, order[i]), i), t, order)

\* close_others, close_above, close_below: what goes is not remembered as closed.
CloseOthers(t, keep, pinned) ==
    LET left == Without(t, Open(t) \ (pinned \cup {keep}))
    IN  [left EXCEPT !.selected = IF left.list = <<>> THEN 0
                                  ELSE IF keep \in Open(left) THEN At(left, keep) ELSE 1]

CloseAbove(t, w, pinned) ==
    IF w \notin Open(t) THEN t
    ELSE LET left == Without(t, ToSet(SubSeq(t.list, 1, At(t, w) - 1)) \ pinned)
         IN  [left EXCEPT !.selected = At(left, w)]

CloseBelow(t, w, pinned) ==
    IF w \notin Open(t) THEN t
    ELSE LET left == Without(t, ToSet(SubSeq(t.list, At(t, w) + 1, Len(t.list))) \ pinned)
         IN  [left EXCEPT !.selected = IF @ > Len(left.list) THEN Len(left.list) ELSE @]

\* assign_to_group: beside the last other member there is.
Assigned(t, w, g) ==
    LET to    == [t EXCEPT !.group[w] = g]
        here  == At(t, w)
        other == {i \in DOMAIN t.list : i # here /\ t.group[t.list[i]] = g}
    IN  IF g = None \/ other = {} THEN to
        ELSE Moved(to, here, IF Max(other) > here THEN Max(other) ELSE Max(other) + 1)

BlockBefore(t, g, target) ==
    LET members == {w \in Open(t) : t.group[w] = g}
        block == Retain(t.list, members)
        rest  == Retain(t.list, Open(t) \ members)
        i     == IF target \in ToSet(rest) THEN CHOOSE j \in DOMAIN rest : rest[j] = target
                 ELSE Len(rest) + 1
    IN  SubSeq(rest, 1, i - 1) \o block \o SubSeq(rest, i, Len(rest))

\* move_group_before: the selection is found again by its id.
GroupMoved(t, g, target) ==
    LET moved == [t EXCEPT !.list = BlockBefore(t, g, target)]
    IN  [moved EXCEPT !.selected = IF @ = 0 THEN 0 ELSE At(moved, SelectedId(t))]

-----------------------------------------------------------------------------
(* What a Uuid must not collide with.                                       *)

Names == Open(tm) \cup {tm.closed[i].id : i \in DOMAIN tm.closed} \cup ToSet(focus.history)
             \cup (IF asked = None THEN {} ELSE {asked.id})
Kept(t) == (UNION Range(t.tabs)) \cup UNION {t.closed[i].tabs : i \in DOMAIN t.closed}

NewPanel(p) == p \in Panels \ Kept(tm)
NewWorkspace(w) == w \in Workspaces \ Names

Manager(t) == tm' = t /\ UNCHANGED <<groups, focus, asked>>

-----------------------------------------------------------------------------
(* Operations that choose what is selected.                                 *)

\* select, select_by_id, next, previous, last, select_latest_unread.
Select(i) == Manager([tm EXCEPT !.selected = i])

CreateWorkspace(w, p, placement) ==
    NewWorkspace(w) /\ NewPanel(p) /\ Manager(Add(tm, w, {p}, None, placement))

\* pane.break, and the sidebar's "Move Focused Pane" to a new workspace.
BreakPane(p, from, w, placement) ==
    /\ p \in tm.tabs[from] /\ Cardinality(tm.tabs[from]) > 1
    /\ NewWorkspace(w)
    /\ Manager(Add(Detached(tm, p, from), w, {p}, None, placement))

\* reopen_last_closed takes the last entry, reopen_closed any.
Reopen(i) ==
    LET e    == tm.closed[i]
        left == [tm EXCEPT !.closed = RemoveAt(@, i)]
    IN  Manager(IF e.id \in Open(tm) THEN left ELSE Add(left, e.id, e.tabs, e.group, "end"))

\* focus_back and focus_forward: the first live entry on the way, or the end of it.
Back ==
    LET live == {i \in 1 .. focus.pos - 1 : focus.history[i] \in Open(tm)}
    IN  /\ focus.pos > 1
        /\ focus' = [focus EXCEPT !.pos = IF live = {} THEN 1 ELSE Max(live)]
        /\ tm' = IF live = {} THEN tm
                 ELSE [tm EXCEPT !.selected = At(tm, focus.history[Max(live)])]
        /\ UNCHANGED <<groups, asked>>

Forward ==
    LET n    == Len(focus.history)
        live == {i \in focus.pos + 1 .. n : focus.history[i] \in Open(tm)}
    IN  /\ focus.pos < n
        /\ focus' = [focus EXCEPT !.pos = IF live = {} THEN n ELSE Min(live)]
        /\ tm' = IF live = {} THEN tm
                 ELSE [tm EXCEPT !.selected = At(tm, focus.history[Min(live)])]
        /\ UNCHANGED <<groups, asked>>

\* The window of the quake console is never left without a workspace.
Respawn(w, p) == tm.list = <<>> /\ CreateWorkspace(w, p, "end")

\* The second critical section of close_others and close_above, whoever is still there.
CloseMany(pinned) ==
    /\ asked # None /\ asked.kind \in {"others", "above", "below"}
    /\ asked' = None
    /\ tm' = CASE asked.kind = "others" -> CloseOthers(tm, asked.id, pinned)
               [] asked.kind = "above"  -> CloseAbove(tm, asked.id, pinned)
               [] asked.kind = "below"  -> CloseBelow(tm, asked.id, pinned)
    /\ UNCHANGED <<groups, focus>>

-----------------------------------------------------------------------------
(* Operations after which the user should see the workspace he saw before.  *)

\* workspace.create with preserve_selection.
CreateUnselected(w, p, placement) ==
    LET added == Add(tm, w, {p}, None, placement)
    IN  /\ NewWorkspace(w) /\ NewPanel(p)
        /\ Manager(IF tm.selected = 0 THEN added
                   ELSE [added EXCEPT !.selected = At(added, SelectedId(tm))])

\* The goal scheduler adds a node's workspace, in the group its graph was given,
\* which may be gone.
CreateForNode(w, p, g, placement) ==
    NewWorkspace(w) /\ NewPanel(p) /\ Manager(AddKeeping(tm, w, {p}, g, placement))

NewTab(p, w) == NewPanel(p) /\ Manager(Attached(tm, p, w))

CloseWorkspace(i) == Manager(RemoveAtIndex(tm, i))

\* close_panel: "closing the last tab closes the workspace".
CloseTab(p, w) == p \in tm.tabs[w] /\ Manager(Detached(tm, p, w))

\* move_panel_to_workspace, by pane.move_to_workspace and the sidebar.
MovePanel(p, from, to) ==
    /\ p \in tm.tabs[from] /\ to # from /\ to \in Open(tm)
    /\ Manager(Attached(Detached(tm, p, from), p, to))

\* surface.move: the target is looked for after the panel has been detached.
SurfaceMove(p, from, to) ==
    LET left == Detached(tm, p, from)
    IN  /\ p \in tm.tabs[from] /\ to # from
        /\ Manager(IF to \in Open(left) THEN Attached(left, p, to) ELSE left)

MoveWorkspace(from, to) == Manager(Moved(tm, from, to))

ReorderWorkspaces(names) == Manager(Reordered(tm, names))

ClearClosed == Manager([tm EXCEPT !.closed = <<>>])

CreateGroup(g) == groups' = groups \cup {g} /\ UNCHANGED <<tm, focus, asked>>

\* Only workspaces in the list are ungrouped.
RemoveGroup(g) ==
    /\ g \in groups
    /\ groups' = groups \ {g}
    /\ tm' = [tm EXCEPT !.group = [w \in Workspaces |-> IF @[w] = g THEN None ELSE @[w]]]
    /\ UNCHANGED <<focus, asked>>

Assign(w, g) == Manager(Assigned(tm, w, g))

MoveGroup(g, target) ==
    /\ \E w \in Open(tm) : tm.group[w] = g
    /\ Manager(GroupMoved(tm, g, target))

\* The sidebar's refresh: record_focus_if_changed.
Refresh ==
    LET kept == Append(SubSeq(focus.history, 1, focus.pos), SelectedId(tm))
        all  == IF Len(kept) > HistoryCap THEN Tail(kept) ELSE kept
    IN  /\ tm.selected # 0
        /\ SelectedId(tm) # IF focus.pos = 0 THEN None ELSE focus.history[focus.pos]
        /\ focus' = [history |-> all, pos |-> Len(all)]
        /\ UNCHANGED <<tm, groups, asked>>

\* A dialog opens on a row, or workspace.action reads under its first lock.
AskClose(i) ==
    /\ asked = None
    /\ asked' = [kind |-> "close", id |-> tm.list[i], from |-> i, to |-> i]
    /\ UNCHANGED <<tm, groups, focus>>

\* move_up, move_down, move_top.
AskMove(i, to) ==
    /\ asked = None
    /\ to \in {1, IF i = 1 THEN 1 ELSE i - 1, IF i = Len(tm.list) THEN i ELSE i + 1}
    /\ asked' = [kind |-> "move", id |-> tm.list[i], from |-> i, to |-> to]
    /\ UNCHANGED <<tm, groups, focus>>

AskMany(w, kind) ==
    /\ asked = None
    /\ asked' = [kind |-> kind, id |-> w, from |-> 1, to |-> 1]
    /\ UNCHANGED <<tm, groups, focus>>

Cancel == asked # None /\ asked.kind = "close" /\ asked' = None /\ UNCHANGED <<tm, groups, focus>>

ConfirmClose ==
    /\ asked # None /\ asked.kind = "close"
    /\ asked' = None /\ tm' = RemoveAtIndex(tm, asked.from)
    /\ UNCHANGED <<groups, focus>>

FinishMove ==
    /\ asked # None /\ asked.kind = "move"
    /\ asked' = None /\ tm' = Moved(tm, asked.from, asked.to)
    /\ UNCHANGED <<groups, focus>>

-----------------------------------------------------------------------------

Init ==
    /\ \E w \in Workspaces, p \in Panels :
          tm = [list |-> <<w>>, selected |-> 1, closed |-> <<>>,
                tabs |-> [v \in Workspaces |-> IF v = w THEN {p} ELSE {}],
                group |-> [v \in Workspaces |-> None]]
    /\ groups = {}
    /\ focus = [history |-> <<>>, pos |-> 0]
    /\ asked = None

Chooses ==
    \/ \E i \in DOMAIN tm.list : Select(i)
    \/ \E w \in Workspaces, p \in Panels :
          \/ \E placement \in Placements : CreateWorkspace(w, p, placement)
          \/ Respawn(w, p)
    \/ \E from \in Open(tm), p \in Panels, w \in Workspaces, placement \in Placements :
          BreakPane(p, from, w, placement)
    \/ \E i \in DOMAIN tm.closed : Reopen(i)
    \/ Back \/ Forward
    \/ \E pinned \in SUBSET Open(tm) : CloseMany(pinned)

Leaves ==
    \/ \E w \in Workspaces, p \in Panels, placement \in Placements :
          \/ CreateUnselected(w, p, placement)
          \/ \E g \in Groups \cup {None} : CreateForNode(w, p, g, placement)
    \/ \E i, to \in DOMAIN tm.list : CloseWorkspace(i) \/ MoveWorkspace(i, to) \/ AskMove(i, to)
    \/ \E i \in DOMAIN tm.list : AskClose(i)
    \/ \E w \in Open(tm), p \in Panels : NewTab(p, w) \/ CloseTab(p, w)
    \/ \E from \in Open(tm), p \in Panels, to \in Workspaces :
          MovePanel(p, from, to) \/ SurfaceMove(p, from, to)
    \/ \E v, w \in Open(tm) : ReorderWorkspaces(IF v = w THEN <<v>> ELSE <<v, w>>)
    \/ \E w \in Open(tm), kind \in {"others", "above", "below"} : AskMany(w, kind)
    \/ \E g \in Groups : CreateGroup(g) \/ RemoveGroup(g)
    \/ \E w \in Open(tm), g \in groups \cup {None} : Assign(w, g)
    \/ \E g \in groups, target \in Open(tm) \cup {None} : MoveGroup(g, target)
    \/ ClearClosed \/ Refresh \/ Cancel \/ ConfirmClose \/ FinishMove

Next == Chooses \/ Leaves

Spec == Init /\ [][Next]_vars

-----------------------------------------------------------------------------

\* The selection is an index of the list, the position one of the history, and both
\* lists stay within their caps (TabManager::remove, record_focus_if_changed).
TypeOK ==
    /\ tm.list \in Seq(Workspaces)
    /\ tm.selected \in 0 .. Len(tm.list)
    /\ tm.tabs \in [Workspaces -> SUBSET Panels]
    /\ \A w \in Workspaces \ Open(tm) : tm.tabs[w] = {} /\ tm.group[w] = None
    /\ tm.group \in [Workspaces -> Groups \cup {None}]
    /\ Len(tm.closed) <= ClosedCap
    /\ \A i \in DOMAIN tm.closed :
          tm.closed[i] \in [id : Workspaces, tabs : SUBSET Panels, group : Groups \cup {None}]
    /\ groups \subseteq Groups
    /\ focus.history \in Seq(Workspaces) /\ Len(focus.history) <= HistoryCap
    /\ focus.pos \in 0 .. Len(focus.history) /\ (focus.pos = 0) = (focus.history = <<>>)
    /\ asked = None \/ asked.id \in Workspaces

\* Whatever is moved, broken out, closed and reopened: a workspace is listed once and is
\* not also in the closed list, a panel is in one workspace, and no workspace is empty.
NothingTwiceNorEmpty ==
    LET closed == {tm.closed[i].id : i \in DOMAIN tm.closed}
    IN  /\ IsInjective(tm.list)
        /\ Cardinality(closed) = Len(tm.closed) /\ closed \cap Open(tm) = {}
        /\ \A w \in Open(tm) : tm.tabs[w] # {}
        /\ \A v, w \in Open(tm) : v # w => tm.tabs[v] \cap tm.tabs[w] = {}
        /\ \A i \in DOMAIN tm.closed :
              /\ tm.closed[i].tabs \cap UNION Range(tm.tabs) = {}
              /\ \A j \in DOMAIN tm.closed :
                    i # j => tm.closed[i].tabs \cap tm.closed[j].tabs = {}

\* "the selection follows the workspace, not the slot" (add_workspace_keep_selection):
\* an operation that is not a choice of workspace leaves the user where he is, as long as
\* the workspace he is in stays open.
SelectionFollows ==
    [][SelectedId(tm) \in Open(tm') /\ SelectedId(tm') # SelectedId(tm) => ~Leaves]_vars

\* A panel of an open workspace is lost only by closing it or by a bulk close, or by
\* surface.move to a workspace that is not there: every other operation leaves it in an
\* open workspace or in the closed list.
OpenPanelsAreKept ==
    [][\/ UNION Range(tm.tabs) \subseteq Kept(tm')
       \/ \E w \in Open(tm), p \in Panels : CloseTab(p, w)
       \/ \E from \in Open(tm), p \in Panels, to \in Workspaces :
             SurfaceMove(p, from, to) /\ to \notin Open(tm)
       \/ asked # None /\ asked.kind \in {"others", "above", "below"}]_vars

-----------------------------------------------------------------------------
(* What the code says of itself and does not do.                            *)

\* surface.move answers "Target workspace not found" and the panel is where it was.
RefusedMoveMovesNothing ==
    [][\A from \in Open(tm), p \in Panels, to \in Workspaces \ Open(tm) :
          SurfaceMove(p, from, to) => p \in UNION Range(tm'.tabs)]_vars

\* "Close '{title}'?" closes the workspace of that title and no other.
ConfirmedIsClosed ==
    [][ConfirmClose => Open(tm) \ Open(tm') \subseteq {asked.id}]_vars

\* "Member workspaces are kept contiguous".
GroupsAreContiguous ==
    \A i, j, k \in DOMAIN tm.list :
        i < j /\ j < k /\ tm.group[tm.list[i]] # None
            /\ tm.group[tm.list[i]] = tm.group[tm.list[k]]
        => tm.group[tm.list[j]] = tm.group[tm.list[i]]
=============================================================================
