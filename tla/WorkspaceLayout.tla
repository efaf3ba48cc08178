-------------------------- MODULE WorkspaceLayout --------------------------
(***************************************************************************)
(* One workspace of jmux: its panels, the panes they are tabs of, and the  *)
(* focus (model/workspace.rs, model/panel.rs), changed by the socket's     *)
(* pane.*, surface.* and tab.* handlers and by the window's buttons, drags *)
(* and shortcuts.  Every change is made under the tab_manager lock, so it  *)
(* is one step; what is not under the lock is the page the window built    *)
(* from an earlier state, whose "New Terminal" button still names the tab  *)
(* it was built for.                                                       *)
(*                                                                         *)
(* The layout tree is the sequence of its panes in tree order.  What is    *)
(* left out is the shape above the panes: orientation and divider, which   *)
(* only say where a pane is drawn and which panes face each other.  A pane *)
(* is empty only when the workspace is, or when a split found it so.  The  *)
(* split then made it the first child of a node, and it collapses when a   *)
(* panel leaves the second.  Having no tabs, it may stand anywhere in the  *)
(* sequence: it stands after the panes of that second child, so that these *)
(* are the panes before it, and those split off beside the node after it.  *)
(***************************************************************************)
EXTENDS Naturals, FiniteSets, FiniteSetsExt, TLC, Lists

CONSTANTS
    Panels,       \* identities of panels; a Uuid is taken again only when nothing names it
    None,         \* no panel
    ClosedCap     \* CLOSED_PANELS_CAP

ASSUME NoneIsNoPanel == None \notin Panels
ASSUME PanelsAreFinite == IsFiniteSet(Panels)   \* a Uuid has 128 bits
ASSUME CapIsNatural == ClosedCap \in Nat

VARIABLES
    ws,           \* the Workspace: panels, layout, focused, previous, zoomed, closed
    open,         \* it is in the TabManager
    page          \* the tabs the "New Terminal" buttons of the built page name

vars == <<ws, open, page>>

\* Only the notes button asks for the kind: the others are all "terminal".
Kinds == {"terminal", "notes"}
Maybe == Panels \cup {None}

-----------------------------------------------------------------------------
(* LayoutNode: a sequence of panes, each with its tabs and the tab it shows. *)

PaneOf(q) == [tabs |-> <<q>>, sel |-> q]
EmptyPane == [tabs |-> <<>>, sel |-> None]

Placed(l) == UNION {ToSet(l[i].tabs) : i \in DOMAIN l}
Holding(l, p) == CHOOSE i \in DOMAIN l : p \in ToSet(l[i].tabs)
Position(tabs, p) == CHOOSE i \in DOMAIN tabs : tabs[i] = p

\* The first panel in tree order: all_panel_ids().into_iter().next().
First(l) ==
    IF Placed(l) = {} THEN None
    ELSE Head(l[Min({i \in DOMAIN l : l[i].tabs # <<>>})].tabs)

\* Mutant: the closed tab stays the one shown.
WithoutTabOnly(pane, p) == [pane EXCEPT !.tabs = RemoveAt(@, Position(@, p))]

WithoutTab(pane, p) ==
    LET rest == RemoveAt(pane.tabs, Position(pane.tabs, p))
    IN  [tabs |-> rest,
         sel  |-> IF pane.sel # p THEN pane.sel
                  ELSE IF rest = <<>> THEN None ELSE Head(rest)]

\* A panel left pane h: what is empty on its way to the root goes, pane h and
\* the empty pane whose sibling's panes it was among.
Collapse(l, h) ==
    LET rest == Retain(SubSeq(l, h, Len(l)), {pane \in ToSet(l) : pane.tabs # <<>>})
        left == SubSeq(l, 1, h - 1) \o rest
    IN  IF left = <<>> THEN <<EmptyPane>> ELSE left

Taken(l, p) ==
    LET h == Holding(l, p)
    IN  IF p \in Placed(l) THEN Collapse([l EXCEPT ![h] = WithoutTab(@, p)], h) ELSE l

\* Mutant: the pane taken out by mem::replace is not put back.
SplitInPlace(l, f, q) ==
    IF f \in Placed(l) THEN [l EXCEPT ![Holding(l, f)] = PaneOf(q)] ELSE Append(l, PaneOf(q))

\* The new pane goes after the pane of f, or beside the root; a root that is
\* an empty pane becomes the first child of the split.
SplitAt(l, f, q) ==
    LET at == IF f \in Placed(l) THEN Holding(l, f) + 1
              ELSE IF Placed(l) = {} THEN 1 ELSE Len(l) + 1
    IN  InsertAt(l, at, PaneOf(q))

SplitBeside(l, t, q, before) ==
    IF t \notin Placed(l) THEN l
    ELSE InsertAt(l, IF before THEN Holding(l, t) ELSE Holding(l, t) + 1, PaneOf(q))

AddTab(l, t, q) ==
    IF t \notin Placed(l) THEN l
    ELSE [l EXCEPT ![Holding(l, t)] =
             [tabs |-> InsertAt(@.tabs, Position(@.tabs, t) + 1, q), sel |-> q]]

Show(l, p) == [l EXCEPT ![Holding(l, p)].sel = p]

Swapped(l, a, b) ==
    LET Other(p) == CASE p = a -> b [] p = b -> a [] OTHER -> p
    IN  [i \in DOMAIN l |-> [tabs |-> [j \in DOMAIN l[i].tabs |-> Other(l[i].tabs[j])],
                             sel  |-> Other(l[i].sel)]]

Reordered(l, p, index) ==
    LET i    == Holding(l, p)
        rest == RemoveAt(l[i].tabs, Position(l[i].tabs, p))
        at   == IF index < Len(rest) THEN index ELSE Len(rest)
    IN  [l EXCEPT ![i].tabs = InsertAt(rest, at + 1, p)]

-----------------------------------------------------------------------------
(* Workspace: what its methods return.                                      *)

HasPanel(w) == DOMAIN w.panels

With(panels, q, kind) ==
    [p \in DOMAIN panels \cup {q} |-> IF p = q THEN kind ELSE panels[p]]

NewWorkspace(p) ==
    [panels |-> [q \in {p} |-> "terminal"], layout |-> <<PaneOf(p)>>, focused |-> p, previous |-> None,
     zoomed |-> None, closed |-> <<>>]

FocusMoved(w, q) == [w EXCEPT !.previous = w.focused, !.focused = q]

Insert(w, q, kind) ==
    FocusMoved([w EXCEPT !.panels = With(@, q, kind), !.layout = SplitAt(@, w.focused, q)], q)

\* A tab added beside t; when t is in no pane the layout stays as it is.
InsertTab(w, t, q, kind) ==
    FocusMoved([w EXCEPT !.panels = With(@, q, kind), !.layout = AddTab(@, t, q)], q)

\* Mutant: the panel leaves the map, not the layout.
ForgetInMap(w, p) == [w EXCEPT !.panels = [q \in HasPanel(w) \ {p} |-> w.panels[q]]]

Forget(w, p) == [w EXCEPT !.panels = [q \in HasPanel(w) \ {p} |-> w.panels[q]],
                          !.layout = Taken(@, p)]

\* Mutant: no right neighbour for the leftmost tab.
NeighborLeft(l, p) ==
    IF p \notin Placed(l) THEN None
    ELSE LET tabs == l[Holding(l, p)].tabs
             at   == Position(tabs, p)
         IN  IF at > 1 THEN tabs[at - 1] ELSE None

\* The tab left of p in its pane, or right of it.
Neighbor(l, p) ==
    IF p \notin Placed(l) THEN None
    ELSE LET tabs == l[Holding(l, p)].tabs
             at   == Position(tabs, p)
         IN  IF at > 1 THEN tabs[at - 1] ELSE IF Len(tabs) > 1 THEN tabs[2] ELSE None

\* Mutant: the closed list is not capped.
RememberedAll(closed, kind) == Append(closed, kind)

Remembered(closed, kind) ==
    LET all == Append(closed, kind)
    IN  IF Len(all) > ClosedCap THEN Tail(all) ELSE all

RemovePanel(w, p) ==
    IF p \notin HasPanel(w) THEN w
    ELSE LET next == Neighbor(w.layout, p)
             left == Forget(w, p)
         IN  [left EXCEPT !.closed = Remembered(@, w.panels[p]),
                          !.focused = IF @ # p THEN @
                                      ELSE IF next \in HasPanel(left) THEN next
                                      ELSE First(left.layout)]

\* Mutant: the focus stays with the panel that left.
DetachFocused(w, p) == [Forget(w, p) EXCEPT !.previous = IF @ = p THEN None ELSE @]

DetachPanel(w, p) ==
    LET left == Forget(w, p)
    IN  [left EXCEPT !.focused  = IF @ = p THEN First(left.layout) ELSE @,
                     !.previous = IF @ = p THEN None ELSE @,
                     !.zoomed   = IF @ = p THEN None ELSE @]

FocusPanel(w, p) ==
    IF p \notin HasPanel(w) \cap Placed(w.layout) THEN w
    ELSE [w EXCEPT !.layout = Show(@, p), !.focused = p,
                   !.previous = IF w.focused # p THEN w.focused ELSE @]

ReopenLastClosedPanel(w, q) ==
    LET kind   == w.closed[Len(w.closed)]
        target == IF w.focused # None THEN w.focused ELSE First(w.layout)
        back   == [w EXCEPT !.closed = Front(@)]
    IN  IF target # None THEN InsertTab(back, target, q, kind)
        ELSE FocusMoved([back EXCEPT !.panels = With(@, q, kind), !.layout = <<PaneOf(q)>>], q)

-----------------------------------------------------------------------------
(* Steps.  An action is one handler holding the lock.                       *)

\* A new panel's Uuid is one that nothing names.
Fresh(q) == q \notin HasPanel(ws) \cup {ws.previous, ws.zoomed} \cup page

Set(w) == open /\ ws' = w /\ UNCHANGED <<open, page>>

\* The last tab closes the workspace (TabManager::close_panel).
SetOrClose(w) == open /\ ws' = w /\ open' = (HasPanel(w) # {}) /\ UNCHANGED page

PaneNew == \E q \in Panels : Fresh(q) /\ Set(Insert(ws, q, "terminal"))

\* split_off gives the focus back to the panel that had it.
PaneSplitOff ==
    \E q \in Panels :
        /\ Fresh(q)
        /\ Set(FocusPanel(Insert(ws, q, "terminal"), ws.focused))

\* Focusing the panel that has the focus reveals its tab again.
PaneFocus == \E p \in HasPanel(ws) : Set(FocusPanel(ws, p))

PaneLast == ws.previous \in HasPanel(ws) /\ Set(FocusPanel(ws, ws.previous))

\* The panel of another pane that faces the focused one: the first of a pane
\* after it in tree order, the last of a pane before it.
PaneFocusDirection ==
    /\ ws.focused \in Placed(ws.layout)
    /\ \E i \in DOMAIN ws.layout :
        LET here == Holding(ws.layout, ws.focused)
            tabs == ws.layout[i].tabs
        IN  /\ i # here /\ tabs # <<>>
            /\ Set(FocusPanel(ws, IF i > here THEN Head(tabs) ELSE Last(tabs)))

PaneSwap ==
    \E a, b \in HasPanel(ws) :
        /\ {a, b} \cap Placed(ws.layout) # {}
        /\ Set([ws EXCEPT !.layout = Swapped(@, a, b)])

CloseTab(p) == p \in HasPanel(ws) /\ SetOrClose(RemovePanel(ws, p))

\* tab.action close_left, close_right, close_others: the tabs go without being remembered.
TabClose(p, which) ==
    /\ p \in Placed(ws.layout) \cap HasPanel(ws)
    /\ LET tabs == ws.layout[Holding(ws.layout, p)].tabs
           at   == Position(tabs, p)
           gone == CASE which = "left"   -> SubSeq(tabs, 1, at - 1)
                     [] which = "right"  -> SubSeq(tabs, at + 1, Len(tabs))
                     [] which = "others" -> RemoveAt(tabs, at)
           left == FoldLeft(Forget, ws, gone)
       IN  /\ gone # <<>>
           /\ Set([left EXCEPT !.focused = IF @ \in ToSet(gone) THEN p ELSE @])

TabDuplicate == \E p \in HasPanel(ws), q \in Panels : Fresh(q) /\ Set(InsertTab(ws, p, q, "terminal"))

\* The button of the built page: its tab may be gone from the layout by now.
NewTerminalButton == \E t \in page, q \in Panels : Fresh(q) /\ Set(InsertTab(ws, t, q, "terminal"))

\* Without a pane to add to, surface.create makes the new panel the whole layout.
SurfaceCreate ==
    \E q \in Panels :
        /\ Fresh(q)
        /\ LET added == InsertTab(ws, ws.focused, q, "terminal")
           IN  Set(IF ws.focused \in Placed(ws.layout) THEN added
                   ELSE [added EXCEPT !.layout = <<PaneOf(q)>>])

SurfaceReorder ==
    \E p \in Placed(ws.layout), index \in 0..Cardinality(Panels) : Set([ws EXCEPT !.layout = Reordered(@, p, index)])

\* A focused panel goes beside the first other one.
SurfaceDragToSplit ==
    \E p \in HasPanel(ws), before \in BOOLEAN :
        LET target == IF ws.focused # p THEN ws.focused ELSE First(Taken(ws.layout, p))
        IN  /\ Cardinality(HasPanel(ws)) >= 2 /\ target # None
            /\ Set(FocusMoved([ws EXCEPT !.layout = SplitBeside(Taken(@, p), target, p, before)], p))

\* A tab dropped on a tab of another pane, or on the side of a pane.
MovePanelToPane ==
    \E p, t \in HasPanel(ws) :
        LET moved == AddTab(Taken(ws.layout, p), t, p) IN
        /\ p # t
        /\ t \in Placed(ws.layout) => p \notin ToSet(ws.layout[Holding(ws.layout, t)].tabs)
        /\ Set(IF p \in Placed(moved) THEN FocusMoved([ws EXCEPT !.layout = moved], p)
               ELSE [ws EXCEPT !.layout = moved])

SplitPanelIntoPane ==
    \E p, t \in HasPanel(ws), before \in BOOLEAN :
        LET moved == SplitBeside(Taken(ws.layout, p), t, p, before) IN
        /\ p # t
        /\ Set(IF p \in Placed(moved) THEN FocusMoved([ws EXCEPT !.layout = moved], p)
               ELSE [ws EXCEPT !.layout = moved])

\* pane.break and the moves to another workspace: the panel leaves this one.
PanelLeaves == \E p \in HasPanel(ws) : SetOrClose(DetachPanel(ws, p))

\* insert_panel: a panel comes from another workspace.
PanelArrives == \E q \in Panels, k \in Kinds : Fresh(q) /\ Set(Insert(ws, q, k))

ReopenClosedTab == ws.closed # <<>> /\ \E q \in Panels : Fresh(q) /\ Set(ReopenLastClosedPanel(ws, q))

ToggleZoom ==
    \E p \in HasPanel(ws) : Set([ws EXCEPT !.zoomed = IF @ = p THEN None ELSE p])

\* The notes button: the notes go, in the map's order, without the workspace
\* going with the last of them; or a notes panel comes.
ToggleNotes ==
    LET notes == {p \in HasPanel(ws) : ws.panels[p] = "notes"} IN
    IF notes = {} THEN \E q \in Panels : Fresh(q) /\ Set(Insert(ws, q, "notes"))
    ELSE \E order \in SetToSeqs(notes) : Set(FoldLeft(RemovePanel, ws, order))

\* file.open: a tab beside the focused one, or the first; with no panel to
\* stand beside, the file is in no pane.  Several paths are opened one by one.
OpenFile ==
    \E q \in Panels :
        LET target == IF ws.focused # None THEN ws.focused ELSE First(ws.layout)
        IN  Fresh(q) /\ Set(InsertTab(ws, target, q, "terminal"))

\* notes.open and markdown.open: a tab likewise, or a split of the focused
\* pane; where no pane has the focus, they do not split but add a tab.
OpenBeside ==
    \E q \in Panels, split \in BOOLEAN, k \in Kinds :
        /\ Fresh(q)
        /\ IF split /\ ws.focused \in Placed(ws.layout)
           THEN Set(Insert(ws, q, k))
           ELSE LET target == IF ws.focused # None THEN ws.focused ELSE First(ws.layout)
                IN  Set(InsertTab(ws, target, q, k))

\* rebuild_content: a button for the tab each pane shows; the zoomed page has none.
RebuildContent ==
    /\ open
    /\ page' = IF ws.zoomed # None THEN {}
                ELSE {ws.layout[i].sel : i \in DOMAIN ws.layout} \ {None}
    /\ UNCHANGED <<ws, open>>

\* The window never stays without a workspace (enforce_workspace_invariant).
WorkspaceNew ==
    /\ ~open
    /\ \E p \in Panels : ws' = NewWorkspace(p) /\ page' = {p}
    /\ open' = TRUE

-----------------------------------------------------------------------------
Init ==
    /\ \E p \in Panels : ws = NewWorkspace(p) /\ page = {p}
    /\ open = TRUE

PaneStep ==
    \/ PaneNew \/ PaneSplitOff \/ PaneFocus \/ PaneLast \/ PaneFocusDirection \/ PaneSwap
    \/ \E p \in Panels : CloseTab(p)
    \/ \E p \in Panels, which \in {"left", "right", "others"} : TabClose(p, which)

SurfaceStep ==
    \/ TabDuplicate \/ NewTerminalButton \/ SurfaceCreate \/ SurfaceReorder
    \/ SurfaceDragToSplit \/ MovePanelToPane \/ SplitPanelIntoPane
    \/ PanelLeaves \/ PanelArrives \/ ReopenClosedTab

WindowStep ==
    ToggleZoom \/ ToggleNotes \/ OpenFile \/ OpenBeside \/ RebuildContent \/ WorkspaceNew

Next == PaneStep \/ SurfaceStep \/ WindowStep

Spec == Init /\ [][Next]_vars

-----------------------------------------------------------------------------
(* Properties.                                                              *)

\* Each variable has its type: the closed list keeps at most ClosedCap panels.
TypeOK ==
    /\ ws.panels \in UNION {[S -> Kinds] : S \in SUBSET Panels}
    /\ ws.layout \in Seq([tabs : Seq(Panels), sel : Maybe])
    /\ {ws.focused, ws.previous, ws.zoomed} \subseteq Maybe
    /\ ws.closed \in Seq(Kinds) /\ Len(ws.closed) <= ClosedCap
    /\ open \in BOOLEAN /\ page \subseteq Panels

\* Whatever is split, dragged, swapped, closed or reopened, no panel is a tab
\* twice, and no tab outlives its panel: the layout tree and the panel map,
\* which every handler changes separately, do not disagree that way.
NoTabTwiceNorDead ==
    /\ Placed(ws.layout) \subseteq HasPanel(ws)
    /\ \A i, j \in DOMAIN ws.layout :
        \A m \in DOMAIN ws.layout[i].tabs, n \in DOMAIN ws.layout[j].tabs :
            ws.layout[i].tabs[m] = ws.layout[j].tabs[n] => i = j /\ m = n

\* A pane shows one of its tabs.  Only one pane may have none: closing,
\* dragging and moving tabs leaves no empty panes on the screen behind them
\* (remove_panel collapses the split), but the one an empty workspace had.
PanesShowATab ==
    /\ \A i \in DOMAIN ws.layout :
        IF ws.layout[i].tabs = <<>> THEN ws.layout[i].sel = None
        ELSE ws.layout[i].sel \in ToSet(ws.layout[i].tabs)
    /\ \A i, j \in DOMAIN ws.layout :
        ws.layout[i].tabs = <<>> /\ ws.layout[j].tabs = <<>> => i = j

\* Keys and shortcuts go to the focused panel: it is a panel of the workspace,
\* and there is one as long as a pane has a tab (remove_panel, detach_panel).
FocusIsLive ==
    IF ws.focused = None THEN Placed(ws.layout) = {} ELSE ws.focused \in HasPanel(ws)

\* A tab, or those beside one, are being closed.
Closing ==
    \E p \in Panels : CloseTab(p) \/ \E which \in {"left", "right", "others"} : TabClose(p, which)

\* "This keeps focus on an adjacent tab instead of jumping to the first pane":
\* closing a tab moves the focus only when it had it, and then within the pane
\* as long as the pane has another tab (remove_panel, tab.action).
FocusStaysInPane ==
    [][LET before == Placed(ws.layout)
           after  == Placed(ws'.layout)
           tabs   == ToSet(ws.layout[Holding(ws.layout, ws.focused)].tabs)
       IN  after # before /\ after \subseteq before /\ ws.focused \in before
           => \/ IF ws.focused \in after THEN ws'.focused = ws.focused
                 ELSE tabs \cap after # {} => ws'.focused \in tabs
              \/ ~Closing]_vars

\* A panel on the screen stays there until it is closed or leaves: no drag,
\* swap, split or new tab drops a running terminal from the panes.  The
\* exception is a focus that is in no pane itself (a tab opened from a stale
\* button): surface.create and drag_to_split then have no pane to work on.
StaysOnScreen ==
    [][\/ Placed(ws.layout) \ Placed(ws'.layout) \subseteq HasPanel(ws) \ HasPanel(ws')
       \/ ~(HasPanel(ws) \subseteq Placed(ws.layout))]_vars

(* What the code does not keep; the runs that show it are beside the others. *)

\* "Zoomed panel ID (when set, only this panel renders full-size)".
ZoomIsLive == open => ws.zoomed \in HasPanel(ws) \cup {None}

\* "closing the last tab closes the workspace".
ClosedWithItsLastTab == open => HasPanel(ws) # {}

\* A terminal that runs is a tab of some pane.
EveryPanelIsPlaced == HasPanel(ws) = Placed(ws.layout)

\* "Focus a specific panel and reveal its tab": the focused tab is the one shown.
FocusIsShown ==
    ws.focused \in Placed(ws.layout) =>
        ws.layout[Holding(ws.layout, ws.focused)].sel = ws.focused
=============================================================================
