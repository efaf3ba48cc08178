----------------------- MODULE WorkspaceLayoutProofs -----------------------
(***************************************************************************)
(* Theorems about WorkspaceLayout: no panel is a tab twice or outlives its *)
(* map entry, every pane shows one of its tabs, the focus is on a panel of *)
(* the workspace and stays in its pane, and no panel falls off the screen. *)
(*                                                                         *)
(* A pane is spoken of by the set of its tabs; the order of the tabs only  *)
(* matters to the neighbour that takes the focus.                          *)
(***************************************************************************)
EXTENDS WorkspaceLayout, ListsProofs

Panes == [tabs : Seq(Panels), sel : Maybe]

Tabs(pane) == ToSet(pane.tabs)

\* A pane by itself: its tabs once each, one of them shown.
PaneOK(pane) ==
  /\ pane \in Panes
  /\ IsInjective(pane.tabs)
  /\ IF pane.tabs = <<>> THEN pane.sel = None ELSE pane.sel \in Tabs(pane)

\* The panes together, where a removal may just have left any of them empty.
Loose(l) ==
  /\ l \in Seq(Panes)
  /\ \A i \in 1 .. Len(l) : PaneOK(l[i])
  /\ \A i, j \in 1 .. Len(l) : i # j => Tabs(l[i]) \cap Tabs(l[j]) = {}

LayoutOK(l) ==
  Loose(l) /\ \A i, j \in 1 .. Len(l) : Tabs(l[i]) = {} /\ Tabs(l[j]) = {} => i = j

-----------------------------------------------------------------------------
(* A pane.                                                                  *)

LEMMA NoTabs ==
  ASSUME NEW pane, PaneOK(pane)
  PROVE  /\ pane.tabs \in Seq(Panels) /\ Tabs(pane) \subseteq Panels
         /\ pane.tabs = <<>> <=> Tabs(pane) = {}
         /\ Tabs(pane) # {} => Head(pane.tabs) \in Tabs(pane) /\ pane.sel \in Tabs(pane)
         /\ \A k \in 1 .. Len(pane.tabs) : pane.tabs[k] \in Tabs(pane)
<1>1. pane.tabs \in Seq(Panels) /\ Len(pane.tabs) \in Nat /\ DOMAIN pane.tabs = 1 .. Len(pane.tabs)
  BY DEF PaneOK, Panes
<1>2. Tabs(pane) = {pane.tabs[k] : k \in 1 .. Len(pane.tabs)}
  BY <1>1 DEF Tabs, ToSet
<1>3. ASSUME pane.tabs # <<>> PROVE Head(pane.tabs) \in Tabs(pane)
  <2>1. Len(pane.tabs) # 0 /\ Head(pane.tabs) = pane.tabs[1] /\ 1 \in 1 .. Len(pane.tabs)
    BY <1>1, <1>3
  <2> QED BY <1>2, <2>1
<1>4. pane.tabs = <<>> => Tabs(pane) = {}
  BY <1>2
<1>5. \A k \in 1 .. Len(pane.tabs) : pane.tabs[k] \in Panels
  BY <1>1
<1>6. Tabs(pane) # {} => pane.tabs # <<>> /\ pane.sel \in Tabs(pane)
  BY <1>4 DEF PaneOK
<1>7. pane.tabs # <<>> => Tabs(pane) # {}
  BY <1>3
<1> QED BY <1>1, <1>2, <1>3, <1>4, <1>5, <1>6, <1>7

\* Position finds the tab.
LEMMA PositionIs ==
  ASSUME NEW tabs \in Seq(Panels), NEW p \in ToSet(tabs)
  PROVE  Position(tabs, p) \in 1 .. Len(tabs) /\ tabs[Position(tabs, p)] = p
<1>1. \E i \in DOMAIN tabs : tabs[i] = p
  BY DEF ToSet
<1>2. DOMAIN tabs = 1 .. Len(tabs)
  OBVIOUS
<1> QED BY <1>1, <1>2 DEF Position

LEMMA PaneOfIs ==
  ASSUME NEW q \in Panels
  PROVE  PaneOK(PaneOf(q)) /\ Tabs(PaneOf(q)) = {q}
<1>1. /\ PaneOf(q) = [tabs |-> <<q>>, sel |-> q]
      /\ <<q>> \in Seq(Panels) /\ <<q>> # <<>> /\ ToSet(<<q>>) = {q} /\ IsInjective(<<q>>)
  BY DEF PaneOf, ToSet, IsInjective
<1> QED BY <1>1 DEF PaneOK, Panes, Maybe, Tabs

LEMMA EmptyPaneIs == PaneOK(EmptyPane) /\ Tabs(EmptyPane) = {}
<1>1. /\ EmptyPane = [tabs |-> <<>>, sel |-> None]
      /\ <<>> \in Seq(Panels) /\ ToSet(<<>>) = {} /\ IsInjective(<<>>)
  BY DEF EmptyPane, ToSet, IsInjective
<1> QED BY <1>1 DEF PaneOK, Panes, Maybe, Tabs

\* Removing a tab: another one is shown if it was the one shown.
LEMMA WithoutTabIs ==
  ASSUME NEW pane, PaneOK(pane), NEW p \in Tabs(pane)
  PROVE  PaneOK(WithoutTab(pane, p)) /\ Tabs(WithoutTab(pane, p)) = Tabs(pane) \ {p}
<1> DEFINE at   == Position(pane.tabs, p)
           rest == RemoveAt(pane.tabs, at)
           sel  == IF pane.sel # p THEN pane.sel ELSE IF rest = <<>> THEN None ELSE Head(rest)
           left == [tabs |-> rest, sel |-> sel]
<1>1. pane.tabs \in Seq(Panels) /\ p \in ToSet(pane.tabs) /\ IsInjective(pane.tabs)
      /\ pane.sel \in ToSet(pane.tabs)
  BY NoTabs DEF Tabs, PaneOK
<1>2. at \in 1 .. Len(pane.tabs) /\ pane.tabs[at] = p
  BY <1>1, PositionIs
<1> HIDE DEF at
<1>3. rest \in Seq(Panels)
  BY <1>1, <1>2, RemoveAtIs
<1>4. IsInjective(rest) /\ ToSet(rest) = ToSet(pane.tabs) \ {p}
  BY <1>1, <1>2, RemoveInjective
<1>5. WithoutTab(pane, p) = left
  BY DEF WithoutTab, at
<1> HIDE DEF rest
<1>6. rest # <<>> => Head(rest) \in ToSet(rest)
  <2> HAVE rest # <<>>
  <2>1. Head(rest) = rest[1] /\ 1 \in DOMAIN rest
    BY <1>3
  <2> QED BY <2>1 DEF ToSet
<1>7. rest = <<>> => ToSet(rest) = {}
  BY DEF ToSet
<1>8. IF rest = <<>> THEN sel = None ELSE sel \in ToSet(rest)
  BY <1>1, <1>4, <1>6, <1>7
<1>9. ToSet(rest) \subseteq Panels
  BY <1>3 DEF ToSet
<1> HIDE DEF sel
<1>10. left \in Panes /\ left.tabs = rest /\ left.sel = sel
  BY <1>3, <1>8, <1>9 DEF Panes, Maybe
<1> HIDE DEF left
<1> QED BY <1>4, <1>5, <1>8, <1>10 DEF PaneOK, Tabs

\* A tab beside another.
LEMMA TabBesideIs ==
  ASSUME NEW pane, PaneOK(pane), NEW t \in Tabs(pane), NEW q \in Panels \ Tabs(pane)
  PROVE  LET beside == [tabs |-> InsertAt(pane.tabs, Position(pane.tabs, t) + 1, q), sel |-> q]
         IN  PaneOK(beside) /\ Tabs(beside) = Tabs(pane) \cup {q}
<1> DEFINE at   == Position(pane.tabs, t)
           tabs == InsertAt(pane.tabs, at + 1, q)
           beside == [tabs |-> tabs, sel |-> q]
<1>1. /\ pane.tabs \in Seq(Panels) /\ t \in ToSet(pane.tabs) /\ IsInjective(pane.tabs)
      /\ q \notin ToSet(pane.tabs) /\ Len(pane.tabs) \in Nat
  BY NoTabs DEF Tabs, PaneOK
<1>2. at \in 1 .. Len(pane.tabs)
  BY <1>1, PositionIs
<1>3. at + 1 \in 1 .. (Len(pane.tabs) + 1)
  BY <1>1, <1>2
<1> HIDE DEF at
<1>4. tabs \in Seq(Panels) /\ ToSet(tabs) = ToSet(pane.tabs) \cup {q}
  BY <1>1, <1>3, InsertAtIs
<1>5. IsInjective(tabs)
  BY <1>1, <1>3, InsertInjective
<1>6. tabs # <<>>
  <2>1. ToSet(<<>>) = {}
    BY DEF ToSet
  <2> HIDE DEF tabs
  <2> QED BY <1>4, <2>1
<1> HIDE DEF tabs
<1>7. PaneOK(beside) /\ Tabs(beside) = Tabs(pane) \cup {q}
  BY <1>4, <1>5, <1>6 DEF PaneOK, Panes, Maybe, Tabs
<1> QED BY <1>7 DEF tabs, at

\* A tab put elsewhere in its pane.
LEMMA TabMovedIs ==
  ASSUME NEW pane, PaneOK(pane), NEW p \in Tabs(pane), NEW index \in Nat
  PROVE  LET rest == RemoveAt(pane.tabs, Position(pane.tabs, p))
             at   == IF index < Len(rest) THEN index ELSE Len(rest)
             back == [pane EXCEPT !.tabs = InsertAt(rest, at + 1, p)]
         IN  PaneOK(back) /\ Tabs(back) = Tabs(pane)
<1> DEFINE here == Position(pane.tabs, p)
           rest == RemoveAt(pane.tabs, here)
           at   == IF index < Len(rest) THEN index ELSE Len(rest)
           tabs == InsertAt(rest, at + 1, p)
           back == [pane EXCEPT !.tabs = tabs]
<1>1. /\ pane.tabs \in Seq(Panels) /\ p \in ToSet(pane.tabs) /\ IsInjective(pane.tabs)
      /\ pane.sel \in ToSet(pane.tabs) /\ p \in Panels
      /\ pane = [tabs |-> pane.tabs, sel |-> pane.sel] /\ pane.sel \in Maybe
  BY NoTabs DEF Tabs, PaneOK, Panes
<1>2. here \in 1 .. Len(pane.tabs) /\ pane.tabs[here] = p
  BY <1>1, PositionIs
<1> HIDE DEF here
<1>3. rest \in Seq(Panels)
  BY <1>1, <1>2, RemoveAtIs
<1>4. IsInjective(rest) /\ ToSet(rest) = ToSet(pane.tabs) \ {p}
  BY <1>1, <1>2, RemoveInjective
<1> HIDE DEF rest
<1>5. at + 1 \in 1 .. (Len(rest) + 1)
  BY <1>3
<1> HIDE DEF at
<1>6. tabs \in Seq(Panels) /\ ToSet(tabs) = ToSet(rest) \cup {p}
  BY <1>1, <1>3, <1>5, InsertAtIs
<1>7. IsInjective(tabs)
  BY <1>1, <1>3, <1>4, <1>5, InsertInjective
<1>8. tabs # <<>>
  <2>1. ToSet(<<>>) = {}
    BY DEF ToSet
  <2> HIDE DEF tabs
  <2> QED BY <1>6, <2>1
<1> HIDE DEF tabs
<1>9. back = [tabs |-> tabs, sel |-> pane.sel]
  BY <1>1
<1>10. PaneOK(back) /\ Tabs(back) = Tabs(pane)
  BY <1>1, <1>4, <1>6, <1>7, <1>8, <1>9 DEF PaneOK, Panes, Tabs
<1> QED BY <1>10 DEF tabs, at, rest, here

-----------------------------------------------------------------------------
(* Panes together.                                                          *)

LEMMA LooseList ==
  ASSUME NEW l, Loose(l)
  PROVE  /\ l \in Seq(Panes) /\ Len(l) \in Nat /\ DOMAIN l = 1 .. Len(l)
         /\ \A i \in 1 .. Len(l) : PaneOK(l[i]) /\ Tabs(l[i]) \subseteq Placed(l)
         /\ \A p : p \in Placed(l) <=> \E i \in 1 .. Len(l) : p \in Tabs(l[i])
         /\ Placed(l) \subseteq Panels
<1>1. /\ l \in Seq(Panes) /\ Len(l) \in Nat /\ DOMAIN l = 1 .. Len(l)
      /\ \A i \in 1 .. Len(l) : PaneOK(l[i])
  BY DEF Loose
<1>2. Placed(l) = UNION {Tabs(l[i]) : i \in 1 .. Len(l)}
  BY <1>1 DEF Placed, Tabs
<1>3. \A i \in 1 .. Len(l) : Tabs(l[i]) \subseteq Panels
  BY <1>1, NoTabs
<1> QED BY <1>1, <1>2, <1>3

\* Holding finds the one pane that has the panel.
LEMMA HoldingIs ==
  ASSUME NEW l, Loose(l), NEW p \in Placed(l)
  PROVE  /\ Holding(l, p) \in 1 .. Len(l) /\ p \in Tabs(l[Holding(l, p)])
         /\ \A i \in 1 .. Len(l) : p \in Tabs(l[i]) => i = Holding(l, p)
<1>1. \E i \in DOMAIN l : p \in ToSet(l[i].tabs)
  BY LooseList DEF Tabs
<1>2. Holding(l, p) \in DOMAIN l /\ p \in ToSet(l[Holding(l, p)].tabs)
  BY <1>1 DEF Holding
<1>3. Holding(l, p) \in 1 .. Len(l) /\ p \in Tabs(l[Holding(l, p)])
  BY <1>2, LooseList DEF Tabs
<1>4. \A i \in 1 .. Len(l) : p \in Tabs(l[i]) => i = Holding(l, p)
  BY <1>3 DEF Loose
<1> QED BY <1>3, <1>4

Replaced(l, h, pane) == [l EXCEPT ![h] = pane]

\* Another pane in the place of one.
LEMMA PaneReplaced ==
  ASSUME NEW l, Loose(l), NEW h \in 1 .. Len(l), NEW pane, PaneOK(pane),
         \A i \in 1 .. Len(l) : i # h => Tabs(l[i]) \cap Tabs(pane) = {}
  PROVE  LET m == Replaced(l, h, pane)
         IN  /\ Loose(m) /\ Len(m) = Len(l)
             /\ \A i \in 1 .. Len(l) : m[i] = IF i = h THEN pane ELSE l[i]
             /\ Placed(m) = (Placed(l) \ Tabs(l[h])) \cup Tabs(pane)
             /\ LayoutOK(l) /\ Tabs(pane) # {} => LayoutOK(m)
<1> DEFINE m == Replaced(l, h, pane)
<1>1. l \in Seq(Panes) /\ pane \in Panes /\ Len(l) \in Nat
  BY DEF Loose, PaneOK
<1>2. /\ m \in Seq(Panes) /\ Len(m) = Len(l)
      /\ \A i \in 1 .. Len(l) : m[i] = IF i = h THEN pane ELSE l[i]
  BY <1>1 DEF Replaced
<1> HIDE DEF m
<1>3. Loose(m)
  <2>1. \A i \in 1 .. Len(m) : PaneOK(m[i])
    BY <1>2 DEF Loose
  <2>2. \A i, j \in 1 .. Len(m) : i # j => Tabs(m[i]) \cap Tabs(m[j]) = {}
    BY <1>2 DEF Loose
  <2> QED BY <1>2, <2>1, <2>2 DEF Loose
<1>4. ASSUME NEW p PROVE p \in Placed(m) <=> p \in (Placed(l) \ Tabs(l[h])) \cup Tabs(pane)
  <2>1. p \in Placed(m) <=> \E i \in 1 .. Len(l) : p \in Tabs(m[i])
    BY <1>2, <1>3, LooseList
  <2>2. p \in Placed(l) <=> \E i \in 1 .. Len(l) : p \in Tabs(l[i])
    BY LooseList
  <2>3. \A i \in 1 .. Len(l) : i # h => Tabs(l[i]) \cap Tabs(l[h]) = {}
    BY DEF Loose
  <2> QED BY <1>2, <2>1, <2>2, <2>3
<1>5. LayoutOK(l) /\ Tabs(pane) # {} => LayoutOK(m)
  BY <1>2, <1>3 DEF LayoutOK
<1> QED BY <1>2, <1>3, <1>4, <1>5 DEF m

\* A new pane between two.
LEMMA PaneInserted ==
  ASSUME NEW l, LayoutOK(l), NEW h \in 1 .. (Len(l) + 1), NEW q \in Panels \ Placed(l)
  PROVE  LET m == InsertAt(l, h, PaneOf(q))
         IN  LayoutOK(m) /\ Placed(m) = Placed(l) \cup {q}
<1> DEFINE n    == Len(l)
           pane == PaneOf(q)
           m    == InsertAt(l, h, pane)
<1>1. /\ Loose(l) /\ l \in Seq(Panes) /\ n \in Nat /\ PaneOK(pane) /\ pane \in Panes
      /\ Tabs(pane) = {q}
      /\ \A i \in 1 .. n : PaneOK(l[i]) /\ q \notin Tabs(l[i])
  BY PaneOfIs, LooseList DEF LayoutOK, PaneOK
<1> HIDE DEF pane
<1>2. /\ m \in Seq(Panes) /\ Len(m) = n + 1
      /\ \A j \in 1 .. (n + 1) : m[j] = IF j < h THEN l[j] ELSE IF j = h THEN pane ELSE l[j - 1]
  BY <1>1, InsertAtIs
<1> HIDE DEF m
<1> DEFINE src(j) == IF j < h THEN j ELSE j - 1
<1>3. h \in 1 .. (n + 1)
  OBVIOUS
<1> HIDE DEF n
<1>4. \A j \in (1 .. (n + 1)) \ {h} : src(j) \in 1 .. n /\ m[j] = l[src(j)]
  BY <1>1, <1>2, <1>3
<1>5. \A j, k \in (1 .. (n + 1)) \ {h} : j # k => src(j) # src(k)
  BY <1>1, <1>3
<1>6. \A i \in 1 .. n : \E j \in (1 .. (n + 1)) \ {h} : src(j) = i
  <2> TAKE i \in 1 .. n
  <2>1. CASE i < h
    BY <1>1, <1>3, <2>1
  <2>2. CASE ~(i < h)
    <3>1. i + 1 \in (1 .. (n + 1)) \ {h} /\ src(i + 1) = i
      BY <1>1, <1>3, <2>2
    <3> QED BY <3>1
  <2> QED BY <2>1, <2>2
<1>7. m[h] = pane
  BY <1>1, <1>2, <1>3
<1> HIDE DEF src
<1>9. Loose(m)
  <2>1. \A j \in 1 .. (n + 1) : PaneOK(m[j])
    BY <1>1, <1>4, <1>7
  <2>2. ASSUME NEW i \in 1 .. (n + 1), NEW j \in 1 .. (n + 1), i # j
        PROVE  Tabs(m[i]) \cap Tabs(m[j]) = {}
    <3>1. CASE i = h
      BY <1>1, <1>4, <1>7, <2>2, <3>1
    <3>2. CASE j = h
      BY <1>1, <1>4, <1>7, <2>2, <3>2
    <3>3. CASE i # h /\ j # h
      <4>1. src(i) \in 1 .. n /\ src(j) \in 1 .. n /\ src(i) # src(j)
        BY <1>4, <1>5, <2>2, <3>3
      <4>2. Tabs(l[src(i)]) \cap Tabs(l[src(j)]) = {}
        BY <1>1, <4>1 DEF Loose, n
      <4> QED BY <1>4, <3>3, <4>2
    <3> QED BY <3>1, <3>2, <3>3
  <2> QED BY <1>2, <2>1, <2>2 DEF Loose
<1>10. ASSUME NEW p PROVE p \in Placed(m) <=> p \in Placed(l) \cup {q}
  <2>1. p \in Placed(m) <=> \E j \in 1 .. (n + 1) : p \in Tabs(m[j])
    BY <1>2, <1>9, LooseList
  <2>2. p \in Placed(l) <=> \E i \in 1 .. n : p \in Tabs(l[i])
    BY <1>1, LooseList DEF n
  <2> QED BY <1>1, <1>3, <1>4, <1>6, <1>7, <2>1, <2>2
<1>11. ASSUME NEW i \in 1 .. (n + 1), NEW j \in 1 .. (n + 1), Tabs(m[i]) = {}, Tabs(m[j]) = {}
       PROVE  i = j
  <2>1. i # h /\ j # h
    BY <1>1, <1>7, <1>11
  <2>2. src(i) \in 1 .. n /\ src(j) \in 1 .. n /\ Tabs(l[src(i)]) = {} /\ Tabs(l[src(j)]) = {}
    BY <1>4, <1>11, <2>1
  <2>3. src(i) = src(j)
    BY <2>2 DEF LayoutOK, n
  <2> QED BY <1>5, <2>1, <2>3
<1> QED BY <1>2, <1>9, <1>10, <1>11 DEF LayoutOK, m, n, pane

\* The empty panes on the way from pane h go.
LEMMA CollapseIs ==
  ASSUME NEW l, Loose(l), NEW h \in 1 .. Len(l),
         \A i, j \in (1 .. Len(l)) \ {h} : Tabs(l[i]) = {} /\ Tabs(l[j]) = {} => i = j
  PROVE  LayoutOK(Collapse(l, h)) /\ Placed(Collapse(l, h)) = Placed(l)
<1> DEFINE K    == {pane \in ToSet(l) : pane.tabs # <<>>}
           n    == Len(l)
           t    == SubSeq(l, h, n)
           a    == SubSeq(l, 1, h - 1)
           rest == Retain(t, K)
           left == a \o rest
<1>1. l \in Seq(Panes) /\ n \in Nat /\ \A i \in 1 .. n : PaneOK(l[i]) /\ l[i] \in ToSet(l)
  BY LooseList DEF ToSet
<1>2. h \in 1 .. n
  OBVIOUS
<1>3. /\ t \in Seq(Panes) /\ Len(t) = n - h + 1
      /\ \A j \in 1 .. (n - h + 1) : t[j] = l[h + j - 1]
  <2>1. h \in 1 .. (Len(l) + 1) /\ n \in (h - 1) .. Len(l)
    BY <1>1, <1>2
  <2> QED BY <1>1, <2>1, SliceIs
<1>4. a \in Seq(Panes) /\ Len(a) = h - 1 /\ \A j \in 1 .. (h - 1) : a[j] = l[j]
  <2>1. 1 \in 1 .. (Len(l) + 1) /\ h - 1 \in (1 - 1) .. Len(l)
    BY <1>1, <1>2
  <2>2. /\ a \in Seq(Panes) /\ Len(a) = (h - 1) - 1 + 1
        /\ \A j \in 1 .. ((h - 1) - 1 + 1) : a[j] = l[1 + j - 1]
    BY <1>1, <2>1, SliceIs
  <2> QED BY <1>2, <2>2
<1> HIDE DEF t, a
<1>5. rest \in Seq(Panes) /\ IsRetained(t, K, Len(t), rest)
  BY <1>3, RetainIs
<1> HIDE DEF rest
<1>6. \A i \in 1 .. n : l[i] \in K <=> Tabs(l[i]) # {}
  BY <1>1, NoTabs
<1> HIDE DEF K, n
<1>7. PICK g \in [1 .. Len(rest) -> 1 .. (n - h + 1)] :
        /\ \A i \in 1 .. Len(rest) : rest[i] = t[g[i]] /\ t[g[i]] \in K
        /\ \A i, j \in 1 .. Len(rest) : i < j => g[i] < g[j]
        /\ \A m \in 1 .. (n - h + 1) : t[m] \in K => \E i \in 1 .. Len(rest) : g[i] = m
  <2>1. IsRetained(t, K, n - h + 1, rest)
    BY <1>3, <1>5
  <2> QED BY <2>1 DEF IsRetained
<1> DEFINE r == Len(rest)
           c == h - 1 + r
           src(i) == IF i < h THEN i ELSE h + g[i - h + 1] - 1
<1>8. /\ r \in Nat /\ left \in Seq(Panes) /\ Len(left) = c
      /\ \A i \in 1 .. c : left[i] = IF i < h THEN a[i] ELSE rest[i - h + 1]
  <2>1. r \in Nat
    BY <1>5
  <2>2. left \in Seq(Panes) /\ Len(left) = (h - 1) + r
    BY <1>4, <1>5
  <2>3. \A i \in 1 .. (h - 1 + r) : left[i] = IF i < h THEN a[i] ELSE rest[i - h + 1]
    BY <1>1, <1>2, <1>4, <1>5, <2>1
  <2> QED BY <2>1, <2>2, <2>3
<1> HIDE DEF left
<1>9. ASSUME NEW i \in 1 .. c
      PROVE  /\ src(i) \in 1 .. n /\ left[i] = l[src(i)]
             /\ ~(i < h) => src(i) >= h /\ Tabs(left[i]) # {}
  <2>1. CASE i < h
    BY <1>1, <1>2, <1>4, <1>8, <2>1
  <2>2. CASE ~(i < h)
    <3> DEFINE k == i - h + 1
    <3>1. k \in 1 .. r /\ left[i] = rest[k] /\ src(i) = h + g[k] - 1
      BY <1>2, <1>8, <2>2
    <3>2. g[k] \in 1 .. (n - h + 1) /\ rest[k] = t[g[k]] /\ t[g[k]] \in K
      BY <1>7, <3>1
    <3>3. t[g[k]] = l[h + g[k] - 1]
      BY <1>3, <3>2 DEF n
    <3> HIDE DEF k
    <3>4. src(i) \in 1 .. n /\ src(i) >= h
      <4> DEFINE e == g[k]
      <4>1. src(i) = h + e - 1 /\ e \in 1 .. (n - h + 1)
        BY <3>1, <3>2
      <4>2. n \in Nat /\ h \in 1 .. n
        BY <1>1, <1>2
      <4> HIDE DEF e, src
      <4> QED BY <4>1, <4>2
    <3>5. left[i] = l[src(i)] /\ l[src(i)] \in K
      BY <3>1, <3>2, <3>3
    <3> QED BY <1>6, <3>4, <3>5
  <2> QED BY <2>1, <2>2
<1>10. ASSUME NEW i \in 1 .. c, NEW j \in 1 .. c, i # j
       PROVE  src(i) # src(j)
  <2>1. CASE i < h \/ j < h
    <3>1. i \in Nat /\ j \in Nat /\ h \in Nat
      BY <1>2, <1>8
    <3>2. (i < h => src(i) = i) /\ (j < h => src(j) = j)
      OBVIOUS
    <3> HIDE DEF src
    <3>3. (~(i < h) => src(i) >= h) /\ (~(j < h) => src(j) >= h)
      BY <1>9
    <3> QED BY <1>10, <2>1, <3>1, <3>2, <3>3
  <2>2. CASE ~(i < h) /\ ~(j < h)
    <3> DEFINE k == i - h + 1
               m == j - h + 1
    <3>1. k \in 1 .. r /\ m \in 1 .. r /\ k # m
      BY <1>2, <1>8, <1>10, <2>2
    <3>2. src(i) = h + g[k] - 1 /\ src(j) = h + g[m] - 1
      BY <2>2
    <3> HIDE DEF k, m, src
    <3>3. g[k] \in Nat /\ g[m] \in Nat
      BY <1>1, <1>2, <1>7, <3>1
    <3>4. g[k] # g[m]
      <4>1. k < m \/ m < k
        BY <1>8, <3>1
      <4>2. (k < m => g[k] < g[m]) /\ (m < k => g[m] < g[k])
        BY <1>7, <3>1
      <4> QED BY <3>3, <4>1, <4>2
    <3> DEFINE e == g[k]
               f == g[m]
    <3>5. src(i) = h + e - 1 /\ src(j) = h + f - 1 /\ e \in Nat /\ f \in Nat /\ e # f
      BY <3>2, <3>3, <3>4
    <3>6. h \in Nat
      BY <1>2
    <3> HIDE DEF e, f
    <3> QED BY <3>5, <3>6
  <2> QED BY <2>1, <2>2
<1>11. ASSUME NEW m \in 1 .. n, Tabs(l[m]) # {}
       PROVE  \E i \in 1 .. c : src(i) = m
  <2>1. CASE m < h
    <3>1. m \in 1 .. c /\ src(m) = m
      BY <1>1, <1>2, <1>8, <2>1
    <3> QED BY <3>1
  <2>2. CASE ~(m < h)
    <3> DEFINE k == m - h + 1
    <3>1. k \in 1 .. (n - h + 1) /\ h + k - 1 = m
      BY <1>1, <1>2, <2>2
    <3>2. t[k] = l[m]
      BY <1>3, <3>1 DEF n
    <3>3. t[k] \in K
      BY <1>6, <1>11, <3>2
    <3> HIDE DEF k
    <3>4. PICK i \in 1 .. r : g[i] = k
      BY <1>7, <3>1, <3>3
    <3> DEFINE x == i + (h - 1)
    <3>5. x \in 1 .. c /\ ~(x < h) /\ x - h + 1 = i
      BY <1>2, <1>8, <3>4
    <3>6. src(x) = h + g[i] - 1
      BY <3>5
    <3> QED BY <3>1, <3>4, <3>5, <3>6
  <2> QED BY <2>1, <2>2
<1> HIDE DEF src
<1>12. LayoutOK(left)
  <2>1. \A i \in 1 .. c : PaneOK(left[i])
    BY <1>1, <1>9
  <2>2. ASSUME NEW i \in 1 .. c, NEW j \in 1 .. c, i # j
        PROVE  Tabs(left[i]) \cap Tabs(left[j]) = {}
    <3>1. src(i) \in 1 .. n /\ src(j) \in 1 .. n /\ src(i) # src(j)
      BY <1>9, <1>10, <2>2
    <3>2. Tabs(l[src(i)]) \cap Tabs(l[src(j)]) = {}
      BY <3>1 DEF Loose, n
    <3> QED BY <1>9, <3>2
  <2>3. ASSUME NEW i \in 1 .. c, NEW j \in 1 .. c, Tabs(left[i]) = {}, Tabs(left[j]) = {}
        PROVE  i = j
    <3>1. i < h /\ j < h
      <4>1. /\ ~(i < h) => Tabs(left[i]) # {}
            /\ ~(j < h) => Tabs(left[j]) # {}
        BY <1>9
      <4> QED BY <2>3, <4>1
    <3>2. left[i] = l[i] /\ left[j] = l[j] /\ i \in (1 .. n) \ {h} /\ j \in (1 .. n) \ {h}
      BY <1>1, <1>2, <1>4, <1>8, <3>1
    <3> QED BY <2>3, <3>2 DEF n
  <2> HIDE DEF c, r
  <2>4. Loose(left)
    BY <1>8, <2>1, <2>2 DEF Loose
  <2> QED BY <1>8, <2>3, <2>4 DEF LayoutOK
<1>13. ASSUME NEW p PROVE p \in Placed(left) <=> p \in Placed(l)
  <2>1. p \in Placed(left) <=> \E i \in 1 .. c : p \in Tabs(left[i])
    BY <1>8, <1>12, LooseList DEF LayoutOK
  <2>2. p \in Placed(l) <=> \E i \in 1 .. n : p \in Tabs(l[i])
    BY LooseList DEF n
  <2>3. ASSUME NEW m \in 1 .. n, p \in Tabs(l[m]) PROVE \E i \in 1 .. c : p \in Tabs(left[i])
    <3>1. PICK i \in 1 .. c : src(i) = m
      BY <1>11, <2>3
    <3> QED BY <1>9, <2>3, <3>1
  <2> QED BY <1>9, <2>1, <2>2, <2>3
<1>14. Collapse(l, h) = IF left = <<>> THEN <<EmptyPane>> ELSE left
  BY DEF Collapse, left, rest, a, t, K, n
<1>15. CASE left = <<>>
  <2>1. Placed(l) = {}
    <3>1. Placed(left) = {}
      BY <1>12, <1>15, LooseList DEF LayoutOK
    <3> QED BY <1>13, <3>1
  <2> DEFINE e == <<EmptyPane>>
  <2>2. e \in Seq(Panes) /\ Len(e) = 1 /\ e[1] = EmptyPane
    BY EmptyPaneIs DEF PaneOK
  <2>3. Collapse(l, h) = e
    BY <1>14, <1>15
  <2> HIDE DEF e
  <2>4. LayoutOK(e)
    BY <2>2, EmptyPaneIs DEF LayoutOK, Loose
  <2>5. Placed(e) = {}
    BY <2>2, <2>4, EmptyPaneIs, LooseList DEF LayoutOK
  <2> QED BY <2>1, <2>3, <2>4, <2>5
<1>16. CASE left # <<>>
  BY <1>12, <1>13, <1>14, <1>16
<1> QED BY <1>15, <1>16

\* remove_panel: the panel leaves the panes and no pane is left empty behind it.
LEMMA TakenIs ==
  ASSUME NEW l, LayoutOK(l), NEW p
  PROVE  LayoutOK(Taken(l, p)) /\ Placed(Taken(l, p)) = Placed(l) \ {p}
<1>1. CASE p \notin Placed(l)
  BY <1>1 DEF Taken
<1>2. CASE p \in Placed(l)
  <2> DEFINE h    == Holding(l, p)
             pane == WithoutTab(l[h], p)
             m    == Replaced(l, h, pane)
  <2>1. Loose(l) /\ h \in 1 .. Len(l) /\ p \in Tabs(l[h]) /\ PaneOK(l[h])
    BY <1>2, HoldingIs, LooseList DEF LayoutOK
  <2>2. Taken(l, p) = Collapse(m, h)
    BY <1>2 DEF Taken, Replaced
  <2>3. \A i \in 1 .. Len(l) : i # h => Tabs(l[i]) \cap Tabs(l[h]) = {}
    BY <2>1 DEF Loose
  <2>4. \A i \in 1 .. Len(l) : i # h => p \notin Tabs(l[i])
    BY <2>1, <2>3
  <2> HIDE DEF h
  <2>5. PaneOK(pane) /\ Tabs(pane) = Tabs(l[h]) \ {p}
    BY <2>1, WithoutTabIs
  <2> HIDE DEF pane
  <2>6. /\ Loose(m) /\ Placed(m) = (Placed(l) \ Tabs(l[h])) \cup Tabs(pane)
        /\ Len(m) = Len(l) /\ \A i \in 1 .. Len(l) : m[i] = IF i = h THEN pane ELSE l[i]
    <3>1. \A i \in 1 .. Len(l) : i # h => Tabs(l[i]) \cap Tabs(pane) = {}
      BY <2>3, <2>5
    <3> QED BY <2>1, <2>5, <3>1, PaneReplaced
  <2> HIDE DEF m
  <2>7. Tabs(l[h]) \subseteq Placed(l)
    BY <2>1, LooseList
  <2>8. Placed(m) = Placed(l) \ {p}
    BY <2>1, <2>5, <2>6, <2>7
  <2>9. \A i, j \in (1 .. Len(m)) \ {h} : Tabs(m[i]) = {} /\ Tabs(m[j]) = {} => i = j
    BY <2>6 DEF LayoutOK
  <2>10. h \in 1 .. Len(m)
    BY <2>1, <2>6
  <2> QED BY <2>2, <2>6, <2>8, <2>9, <2>10, CollapseIs
<1> QED BY <1>1, <1>2

\* split: the new pane, wherever the focus is.
LEMMA SplitAtIs ==
  ASSUME NEW l, LayoutOK(l), NEW f, NEW q \in Panels \ Placed(l)
  PROVE  LayoutOK(SplitAt(l, f, q)) /\ Placed(SplitAt(l, f, q)) = Placed(l) \cup {q}
<1> DEFINE h == IF f \in Placed(l) THEN Holding(l, f) + 1
                ELSE IF Placed(l) = {} THEN 1 ELSE Len(l) + 1
<1>1. Loose(l) /\ l \in Seq(Panes) /\ Len(l) \in Nat
  BY LooseList DEF LayoutOK
<1>2. f \in Placed(l) => Holding(l, f) \in 1 .. Len(l)
  BY <1>1, HoldingIs
<1>3. h \in 1 .. (Len(l) + 1)
  BY <1>1, <1>2
<1>4. SplitAt(l, f, q) = InsertAt(l, h, PaneOf(q))
  BY DEF SplitAt
<1> HIDE DEF h
<1> QED BY <1>3, <1>4, PaneInserted

\* split_pane_with_panel: before or after the pane of t.
LEMMA SplitBesideIs ==
  ASSUME NEW l, LayoutOK(l), NEW t, NEW q \in Panels \ Placed(l), NEW before \in BOOLEAN
  PROVE  LET m == SplitBeside(l, t, q, before)
         IN  /\ LayoutOK(m)
             /\ Placed(m) = IF t \in Placed(l) THEN Placed(l) \cup {q} ELSE Placed(l)
<1> DEFINE m == SplitBeside(l, t, q, before)
           h == IF before THEN Holding(l, t) ELSE Holding(l, t) + 1
<1>1. Loose(l) /\ l \in Seq(Panes) /\ Len(l) \in Nat
  BY LooseList DEF LayoutOK
<1>2. CASE t \in Placed(l)
  <2>1. Holding(l, t) \in 1 .. Len(l) /\ t \in Tabs(l[Holding(l, t)])
    BY <1>1, <1>2, HoldingIs
  <2>2. h \in 1 .. (Len(l) + 1)
    BY <1>1, <2>1
  <2>3. m = InsertAt(l, h, PaneOf(q))
    BY <1>2 DEF SplitBeside
  <2> HIDE DEF h, m
  <2>4. LayoutOK(m) /\ Placed(m) = Placed(l) \cup {q}
    BY <2>2, <2>3, PaneInserted
  <2> QED BY <1>2, <2>4 DEF m
<1>3. CASE t \notin Placed(l)
  BY <1>3 DEF SplitBeside
<1> QED BY <1>2, <1>3

\* add_panel_to_pane.
LEMMA AddTabIs ==
  ASSUME NEW l, LayoutOK(l), NEW t, NEW q \in Panels \ Placed(l)
  PROVE  LET m == AddTab(l, t, q)
         IN  /\ LayoutOK(m)
             /\ Placed(m) = IF t \in Placed(l) THEN Placed(l) \cup {q} ELSE Placed(l)
<1>1. CASE t \notin Placed(l)
  BY <1>1 DEF AddTab
<1>2. CASE t \in Placed(l)
  <2> DEFINE h    == Holding(l, t)
             pane == [tabs |-> InsertAt(l[h].tabs, Position(l[h].tabs, t) + 1, q), sel |-> q]
             m    == Replaced(l, h, pane)
  <2>1. Loose(l) /\ h \in 1 .. Len(l) /\ t \in Tabs(l[h]) /\ PaneOK(l[h])
    BY <1>2, HoldingIs, LooseList DEF LayoutOK
  <2>2. AddTab(l, t, q) = m
    <3>1. h \in DOMAIN l
      BY <2>1, LooseList
    <3> QED BY <1>2, <3>1 DEF AddTab, Replaced
  <2>3. \A i \in 1 .. Len(l) : q \notin Tabs(l[i])
    BY <2>1, LooseList
  <2> HIDE DEF h
  <2>4. PaneOK(pane) /\ Tabs(pane) = Tabs(l[h]) \cup {q}
    BY <2>1, <2>3, TabBesideIs
  <2> HIDE DEF pane
  <2>5. \A i \in 1 .. Len(l) : i # h => Tabs(l[i]) \cap Tabs(pane) = {}
    BY <2>1, <2>3, <2>4 DEF Loose
  <2>6. /\ Loose(m) /\ Placed(m) = (Placed(l) \ Tabs(l[h])) \cup Tabs(pane)
        /\ LayoutOK(l) /\ Tabs(pane) # {} => LayoutOK(m)
    BY <2>1, <2>4, <2>5, PaneReplaced
  <2> HIDE DEF m
  <2>7. Tabs(l[h]) \subseteq Placed(l)
    BY <2>1, LooseList
  <2> QED BY <1>2, <2>2, <2>4, <2>6, <2>7
<1> QED BY <1>1, <1>2

\* select_panel.
LEMMA ShowIs ==
  ASSUME NEW l, LayoutOK(l), NEW p \in Placed(l)
  PROVE  LayoutOK(Show(l, p)) /\ Placed(Show(l, p)) = Placed(l)
<1> DEFINE h    == Holding(l, p)
           pane == [tabs |-> l[h].tabs, sel |-> p]
           m    == Replaced(l, h, pane)
<1>1. Loose(l) /\ h \in 1 .. Len(l) /\ p \in Tabs(l[h]) /\ PaneOK(l[h]) /\ l[h] \in Panes
      /\ l \in Seq(Panes)
  BY HoldingIs, LooseList DEF LayoutOK, PaneOK
<1>2. Show(l, p) = m
  <2>1. l[h] = [tabs |-> l[h].tabs, sel |-> l[h].sel]
    BY <1>1 DEF Panes
  <2>2. [l[h] EXCEPT !.sel = p] = pane
    BY <2>1
  <2>3. Show(l, p) = [l EXCEPT ![h] = [l[h] EXCEPT !.sel = p]]
    BY DEF Show
  <2> HIDE DEF h
  <2> QED BY <2>2, <2>3 DEF Replaced
<1> HIDE DEF h
<1>3. PaneOK(pane) /\ Tabs(pane) = Tabs(l[h])
  <2>1. p \in Panels /\ l[h].tabs \in Seq(Panels) /\ l[h].tabs # <<>>
    BY <1>1, NoTabs
  <2> QED BY <1>1, <2>1 DEF PaneOK, Panes, Maybe, Tabs
<1> HIDE DEF pane
<1>4. \A i \in 1 .. Len(l) : i # h => Tabs(l[i]) \cap Tabs(pane) = {}
  BY <1>1, <1>3 DEF Loose
<1>5. /\ Loose(m) /\ Placed(m) = (Placed(l) \ Tabs(l[h])) \cup Tabs(pane)
      /\ LayoutOK(l) /\ Tabs(pane) # {} => LayoutOK(m)
  BY <1>1, <1>3, <1>4, PaneReplaced
<1> HIDE DEF m
<1>6. Tabs(l[h]) \subseteq Placed(l) /\ Tabs(l[h]) # {}
  BY <1>1, LooseList
<1> QED BY <1>2, <1>3, <1>5, <1>6

\* reorder_panel_in_pane.
LEMMA ReorderedIs ==
  ASSUME NEW l, LayoutOK(l), NEW p \in Placed(l), NEW index \in Nat
  PROVE  LayoutOK(Reordered(l, p, index)) /\ Placed(Reordered(l, p, index)) = Placed(l)
<1> DEFINE h    == Holding(l, p)
           rest == RemoveAt(l[h].tabs, Position(l[h].tabs, p))
           at   == IF index < Len(rest) THEN index ELSE Len(rest)
           pane == [l[h] EXCEPT !.tabs = InsertAt(rest, at + 1, p)]
           m    == Replaced(l, h, pane)
<1>1. Loose(l) /\ h \in 1 .. Len(l) /\ p \in Tabs(l[h]) /\ PaneOK(l[h])
  BY HoldingIs, LooseList DEF LayoutOK
<1>2. Reordered(l, p, index) = m
  BY DEF Reordered, Replaced
<1> HIDE DEF h
<1>3. PaneOK(pane) /\ Tabs(pane) = Tabs(l[h])
  BY <1>1, TabMovedIs
<1> HIDE DEF pane
<1>4. \A i \in 1 .. Len(l) : i # h => Tabs(l[i]) \cap Tabs(pane) = {}
  BY <1>1, <1>3 DEF Loose
<1>5. /\ Loose(m) /\ Placed(m) = (Placed(l) \ Tabs(l[h])) \cup Tabs(pane)
      /\ LayoutOK(l) /\ Tabs(pane) # {} => LayoutOK(m)
  BY <1>1, <1>3, <1>4, PaneReplaced
<1> HIDE DEF m
<1>6. Tabs(l[h]) \subseteq Placed(l) /\ Tabs(l[h]) # {}
  BY <1>1, LooseList
<1> QED BY <1>2, <1>3, <1>5, <1>6

\* swap_panels: a is put where b is, and b where a is; one of them may be in no pane.
LEMMA SwappedIs ==
  ASSUME NEW l, LayoutOK(l), NEW a \in Panels, NEW b \in Panels
  PROVE  /\ LayoutOK(Swapped(l, a, b))
         /\ Placed(Swapped(l, a, b)) \subseteq Placed(l) \cup {a, b}
         /\ {a, b} \subseteq Placed(l) => Placed(l) \subseteq Placed(Swapped(l, a, b))
<1> DEFINE Other(p) == CASE p = a -> b [] p = b -> a [] OTHER -> p
           n        == Len(l)
           m        == Swapped(l, a, b)
<1>1. /\ Loose(l) /\ l \in Seq(Panes) /\ n \in Nat /\ DOMAIN l = 1 .. n
      /\ \A i \in 1 .. n : PaneOK(l[i])
  BY LooseList DEF LayoutOK
<1>2. \A p, q : Other(p) = Other(q) => p = q
  OBVIOUS
<1>3. \A p : Other(Other(p)) = p
  OBVIOUS
<1>4. \A p \in Panels : Other(p) \in Panels
  OBVIOUS
<1>5. Other(None) = None
  BY NoneIsNoPanel
<1>6. m = [i \in 1 .. n |-> [tabs |-> [j \in DOMAIN l[i].tabs |-> Other(l[i].tabs[j])],
                             sel  |-> Other(l[i].sel)]]
  BY <1>1 DEF Swapped
<1> HIDE DEF m
<1>7. ASSUME NEW i \in 1 .. n
      PROVE  PaneOK(m[i]) /\ Tabs(m[i]) = {Other(p) : p \in Tabs(l[i])}
  <2> DEFINE tabs == l[i].tabs
             k    == Len(tabs)
             new  == [j \in DOMAIN tabs |-> Other(tabs[j])]
             sel  == Other(l[i].sel)
  <2>1. /\ tabs \in Seq(Panels) /\ k \in Nat /\ DOMAIN tabs = 1 .. k /\ IsInjective(tabs)
        /\ l[i].sel \in Maybe
        /\ IF tabs = <<>> THEN l[i].sel = None ELSE l[i].sel \in ToSet(tabs)
    BY <1>1 DEF PaneOK, Panes, Tabs
  <2>2. m[i] = [tabs |-> new, sel |-> sel]
    BY <1>6
  <2> HIDE DEF tabs, Other
  <2>3. new \in Seq(Panels) /\ Len(new) = k /\ DOMAIN new = 1 .. k
    <3>1. \A j \in 1 .. k : Other(tabs[j]) \in Panels
      BY <1>4, <2>1
    <3> HIDE DEF k
    <3>2. new = [j \in 1 .. k |-> Other(tabs[j])]
      BY <2>1
    <3> QED BY <2>1, <3>1, <3>2
  <2>4. \A j \in 1 .. k : new[j] = Other(tabs[j])
    BY <2>1
  <2>5. IsInjective(new)
    <3> HIDE DEF new, k
    <3> QED BY <1>2, <2>1, <2>3, <2>4 DEF IsInjective
  <2>6. ToSet(new) = {Other(p) : p \in ToSet(tabs)}
    <3> HIDE DEF new, k
    <3> QED BY <2>1, <2>3, <2>4 DEF ToSet
  <2>7. new = <<>> <=> tabs = <<>>
    <3> HIDE DEF new
    <3> QED BY <2>1, <2>3
  <2>8. IF new = <<>> THEN sel = None ELSE sel \in ToSet(new)
    <3> HIDE DEF new
    <3> QED BY <1>5, <2>1, <2>6, <2>7
  <2>9. sel \in Maybe
    BY <1>4, <1>5, <2>1 DEF Maybe
  <2> HIDE DEF new, sel
  <2> QED BY <2>2, <2>3, <2>5, <2>6, <2>8, <2>9 DEF PaneOK, Panes, Tabs, tabs
<1>8. m \in Seq(Panes) /\ Len(m) = n
  <2>1. \A i \in 1 .. n : m[i] \in Panes
    BY <1>7 DEF PaneOK
  <2> HIDE DEF n, Other
  <2>2. DOMAIN m = 1 .. n /\ m = [i \in 1 .. n |-> m[i]]
    BY <1>6
  <2> QED BY <1>1, <2>1, <2>2
<1> HIDE DEF n, Other
<1>9. Loose(m)
  <2>1. \A i, j \in 1 .. n : i # j => Tabs(l[i]) \cap Tabs(l[j]) = {}
    BY <1>1 DEF Loose, n
  <2>2. \A i, j \in 1 .. n : i # j => Tabs(m[i]) \cap Tabs(m[j]) = {}
    BY <1>2, <1>7, <2>1
  <2> QED BY <1>7, <1>8, <2>2 DEF Loose
<1>10. LayoutOK(m)
  <2>1. \A i \in 1 .. n : Tabs(m[i]) = {} => Tabs(l[i]) = {}
    BY <1>7
  <2> QED BY <1>8, <1>9, <2>1 DEF LayoutOK, n
<1>11. \A p : p \in Placed(m) <=> \E i \in 1 .. n : p \in Tabs(m[i])
  BY <1>8, <1>9, LooseList
<1>12. \A p : p \in Placed(l) <=> \E i \in 1 .. n : p \in Tabs(l[i])
  BY <1>1, LooseList DEF n
<1>13. \A p : p \in Placed(l) => Other(p) \in Placed(m)
  BY <1>7, <1>11, <1>12
<1>14. \A p : p \in Placed(m) => Other(p) \in Placed(l)
  BY <1>3, <1>7, <1>11, <1>12
<1>15. Placed(m) \subseteq Placed(l) \cup {a, b}
  BY <1>3, <1>14 DEF Other
<1>16. ASSUME {a, b} \subseteq Placed(l) PROVE Placed(l) \subseteq Placed(m)
  <2> SUFFICES ASSUME NEW p \in Placed(l) PROVE p \in Placed(m)
    OBVIOUS
  <2>1. Other(p) \in Placed(l)
    BY <1>16 DEF Other
  <2>2. Other(Other(p)) \in Placed(m)
    BY <1>13, <2>1
  <2> QED BY <1>3, <2>2
<1> QED BY <1>10, <1>15, <1>16 DEF m

\* The first panel in tree order is one.
LEMMA FirstIs ==
  ASSUME NEW l, LayoutOK(l)
  PROVE  IF Placed(l) = {} THEN First(l) = None ELSE First(l) \in Placed(l)
<1>1. CASE Placed(l) = {}
  BY <1>1 DEF First
<1>2. CASE Placed(l) # {}
  <2> DEFINE S == {i \in DOMAIN l : l[i].tabs # <<>>}
             k == Min(S)
  <2>1. /\ Loose(l) /\ Len(l) \in Nat /\ DOMAIN l = 1 .. Len(l)
        /\ \A i \in 1 .. Len(l) : PaneOK(l[i]) /\ Tabs(l[i]) \subseteq Placed(l)
    BY LooseList DEF LayoutOK
  <2>2. S \in SUBSET Nat
    BY <2>1
  <2>3. S # {}
    <3>1. PICK i \in 1 .. Len(l) : Tabs(l[i]) # {}
      BY <1>2, <2>1, LooseList
    <3>2. i \in S
      BY <2>1, <3>1, NoTabs
    <3> QED BY <3>2
  <2>4. k \in S
    BY <2>2, <2>3, MinOf
  <2>5. k \in 1 .. Len(l) /\ Head(l[k].tabs) \in Tabs(l[k])
    BY <2>1, <2>4, NoTabs
  <2> HIDE DEF k
  <2>6. First(l) = Head(l[k].tabs)
    BY <1>2 DEF First, k
  <2> QED BY <1>2, <2>1, <2>5, <2>6
<1> QED BY <1>1, <1>2

\* The neighbour of a tab is another tab of its pane, and there is one if there is another tab.
LEMMA NeighborIs ==
  ASSUME NEW l, LayoutOK(l), NEW p \in Placed(l)
  PROVE  LET tabs == Tabs(l[Holding(l, p)])
         IN  IF tabs = {p} THEN Neighbor(l, p) = None ELSE Neighbor(l, p) \in tabs \ {p}
<1> DEFINE pane == l[Holding(l, p)]
           tabs == pane.tabs
           at   == Position(tabs, p)
           k    == Len(tabs)
<1>1. PaneOK(pane) /\ p \in Tabs(pane)
  BY HoldingIs, LooseList DEF LayoutOK
<1>2. Neighbor(l, p) = IF at > 1 THEN tabs[at - 1] ELSE IF k > 1 THEN tabs[2] ELSE None
  BY DEF Neighbor
<1> HIDE DEF pane
<1>3. /\ tabs \in Seq(Panels) /\ k \in Nat /\ p \in ToSet(tabs)
      /\ \A i \in 1 .. k : tabs[i] \in Tabs(pane)
      /\ \A i, j \in 1 .. k : tabs[i] = tabs[j] => i = j
      /\ Tabs(pane) = {tabs[i] : i \in 1 .. k}
  BY <1>1, NoTabs DEF PaneOK, Tabs, IsInjective, ToSet
<1>4. at \in 1 .. k /\ tabs[at] = p
  BY <1>3, PositionIs
<1> HIDE DEF at, k, tabs
<1>5. CASE at > 1
  <2>1. at - 1 \in 1 .. k /\ at - 1 # at
    BY <1>3, <1>4, <1>5
  <2> QED BY <1>2, <1>3, <1>4, <1>5, <2>1 DEF pane
<1>6. CASE ~(at > 1) /\ k > 1
  <2>1. 2 \in 1 .. k /\ at # 2
    BY <1>3, <1>4, <1>6
  <2> QED BY <1>2, <1>3, <1>4, <1>6, <2>1 DEF pane
<1>7. CASE ~(at > 1) /\ ~(k > 1)
  <2>1. \A i \in 1 .. k : i = at
    BY <1>3, <1>4, <1>7
  <2>2. Tabs(pane) = {p}
    BY <1>3, <1>4, <2>1
  <2> QED BY <1>2, <1>7, <2>2 DEF pane
<1> QED BY <1>5, <1>6, <1>7

-----------------------------------------------------------------------------
(* A workspace.                                                             *)

PanelMaps == UNION {[S -> Kinds] : S \in SUBSET Panels}

Workspaces ==
  [panels : PanelMaps, layout : Seq(Panes), focused : Maybe, previous : Maybe,
   zoomed : Maybe, closed : Seq(Kinds)]

\* The panes, the map and the closed list.
Body(w) ==
  /\ w \in Workspaces
  /\ Len(w.closed) <= ClosedCap
  /\ LayoutOK(w.layout)
  /\ Placed(w.layout) \subseteq HasPanel(w)

Live(w) ==
  IF w.focused = None THEN Placed(w.layout) = {} ELSE w.focused \in HasPanel(w)

Sound(w) == Body(w) /\ Live(w)

\* A panel that is no longer in the panes has left the map.
Stays(w, u) == Placed(w.layout) \ Placed(u.layout) \subseteq HasPanel(w) \ HasPanel(u)

LEMMA MapIs ==
  ASSUME NEW f \in PanelMaps
  PROVE  /\ DOMAIN f \subseteq Panels /\ f = [q \in DOMAIN f |-> f[q]]
         /\ \A q \in DOMAIN f : f[q] \in Kinds
<1>1. PICK S \in SUBSET Panels : f \in [S -> Kinds]
  BY DEF PanelMaps
<1> QED BY <1>1

LEMMA MapOf ==
  ASSUME NEW f, NEW S \in SUBSET Panels, f \in [S -> Kinds]
  PROVE  f \in PanelMaps /\ DOMAIN f = S
BY DEF PanelMaps

LEMMA WithIs ==
  ASSUME NEW f \in PanelMaps, NEW q \in Panels, NEW kind \in Kinds
  PROVE  With(f, q, kind) \in PanelMaps /\ DOMAIN With(f, q, kind) = DOMAIN f \cup {q}
<1> DEFINE S == DOMAIN f \cup {q}
           g == With(f, q, kind)
<1>1. S \in SUBSET Panels
  BY MapIs
<1>2. g \in [S -> Kinds]
  BY MapIs DEF With
<1> HIDE DEF g, S
<1>3. g \in PanelMaps /\ DOMAIN g = S
  BY <1>1, <1>2, MapOf
<1> QED BY <1>3 DEF g, S

LEMMA LessIs ==
  ASSUME NEW f \in PanelMaps, NEW p
  PROVE  LET g == [q \in DOMAIN f \ {p} |-> f[q]]
         IN  g \in PanelMaps /\ DOMAIN g = DOMAIN f \ {p}
<1> DEFINE S == DOMAIN f \ {p}
           g == [q \in S |-> f[q]]
<1>1. S \in SUBSET Panels /\ g \in [S -> Kinds]
  BY MapIs
<1> HIDE DEF g, S
<1>2. g \in PanelMaps /\ DOMAIN g = S
  BY <1>1, MapOf
<1> QED BY <1>2 DEF g, S

LEMMA BodyIs ==
  ASSUME NEW w, Body(w)
  PROVE  /\ w.panels \in PanelMaps /\ w.layout \in Seq(Panes)
         /\ w.focused \in Maybe /\ w.previous \in Maybe /\ w.zoomed \in Maybe
         /\ w.closed \in Seq(Kinds) /\ Len(w.closed) <= ClosedCap
         /\ LayoutOK(w.layout) /\ Placed(w.layout) \subseteq HasPanel(w)
         /\ HasPanel(w) = DOMAIN w.panels /\ HasPanel(w) \subseteq Panels
<1>1. w.panels \in PanelMaps
  BY DEF Body, Workspaces
<1>2. HasPanel(w) = DOMAIN w.panels /\ HasPanel(w) \subseteq Panels
  BY <1>1, MapIs DEF HasPanel
<1> QED BY <1>1, <1>2 DEF Body, Workspaces

\* A workspace put together from what its methods computed.
LEMMA BodyOf ==
  ASSUME NEW f \in PanelMaps, NEW l, LayoutOK(l), Placed(l) \subseteq DOMAIN f,
         NEW fo \in Maybe, NEW pr \in Maybe, NEW zo \in Maybe,
         NEW c \in Seq(Kinds), Len(c) <= ClosedCap
  PROVE  LET u == [panels |-> f, layout |-> l, focused |-> fo, previous |-> pr,
                   zoomed |-> zo, closed |-> c]
         IN  /\ Body(u) /\ HasPanel(u) = DOMAIN f
             /\ u.panels = f /\ u.layout = l /\ u.focused = fo /\ u.previous = pr
             /\ u.zoomed = zo /\ u.closed = c
<1> DEFINE u == [panels |-> f, layout |-> l, focused |-> fo, previous |-> pr,
                 zoomed |-> zo, closed |-> c]
<1>1. l \in Seq(Panes)
  BY DEF LayoutOK, Loose
<1>2. /\ u.panels = f /\ u.layout = l /\ u.focused = fo /\ u.previous = pr
      /\ u.zoomed = zo /\ u.closed = c
      /\ u \in Workspaces
  BY <1>1 DEF Workspaces
<1> HIDE DEF u
<1>3. HasPanel(u) = DOMAIN f
  BY <1>2 DEF HasPanel
<1>4. Body(u)
  BY <1>2, <1>3 DEF Body
<1> QED BY <1>2, <1>3, <1>4 DEF u

LEMMA RecordIs ==
  ASSUME NEW w \in Workspaces
  PROVE  w = [panels |-> w.panels, layout |-> w.layout, focused |-> w.focused,
              previous |-> w.previous, zoomed |-> w.zoomed, closed |-> w.closed]
BY DEF Workspaces

\* A workspace of its six fields.
Made(f, l, fo, pr, zo, c) ==
  [panels |-> f, layout |-> l, focused |-> fo, previous |-> pr, zoomed |-> zo, closed |-> c]

\* What the methods write.
PanelsAndLayout(w, f, l) == [w EXCEPT !.panels = f, !.layout = l]
LayoutAndFocus(w, l, fo, pr) == [w EXCEPT !.layout = l, !.focused = fo, !.previous = pr]
ClosedAndFocus(w, c, fo) == [w EXCEPT !.closed = c, !.focused = fo]
FocusAndZoom(w, fo, pr, zo) == [w EXCEPT !.focused = fo, !.previous = pr, !.zoomed = zo]

LEMMA PanelsAndLayoutIs ==
  ASSUME NEW w \in Workspaces, NEW f, NEW l
  PROVE  PanelsAndLayout(w, f, l) =
           Made(f, l, w.focused, w.previous, w.zoomed, w.closed)
<1> DEFINE a1 == w.panels
           a2 == w.layout
           a3 == w.focused
           a4 == w.previous
           a5 == w.zoomed
           a6 == w.closed
<1>1. w = Made(a1, a2, a3, a4, a5, a6)
  BY RecordIs DEF Made
<1> HIDE DEF a1, a2, a3, a4, a5, a6
<1> DEFINE v == [w EXCEPT !.panels = f]
<1>2. PanelsAndLayout(w, f, l) = [v EXCEPT !.layout = l]
  BY DEF PanelsAndLayout
<1>3. v = Made(f, a2, a3, a4, a5, a6)
  BY <1>1 DEF Made
<1> HIDE DEF v
<1>4. [v EXCEPT !.layout = l] = Made(f, l, a3, a4, a5, a6)
  BY <1>3 DEF Made
<1> QED BY <1>2, <1>4 DEF a1, a2, a3, a4, a5, a6

LEMMA LayoutAndFocusIs ==
  ASSUME NEW w \in Workspaces, NEW l, NEW fo, NEW pr
  PROVE  LayoutAndFocus(w, l, fo, pr) =
           Made(w.panels, l, fo, pr, w.zoomed, w.closed)
<1> DEFINE a1 == w.panels
           a2 == w.layout
           a3 == w.focused
           a4 == w.previous
           a5 == w.zoomed
           a6 == w.closed
<1>1. w = Made(a1, a2, a3, a4, a5, a6)
  BY RecordIs DEF Made
<1> HIDE DEF a1, a2, a3, a4, a5, a6
<1> DEFINE v == [w EXCEPT !.layout = l]
           u == [v EXCEPT !.focused = fo]
<1>2. LayoutAndFocus(w, l, fo, pr) = [u EXCEPT !.previous = pr]
  BY DEF LayoutAndFocus
<1>3. v = Made(a1, l, a3, a4, a5, a6)
  BY <1>1 DEF Made
<1> HIDE DEF v
<1>4. u = Made(a1, l, fo, a4, a5, a6)
  BY <1>3 DEF Made
<1> HIDE DEF u
<1>5. [u EXCEPT !.previous = pr] = Made(a1, l, fo, pr, a5, a6)
  BY <1>4 DEF Made
<1> QED BY <1>2, <1>5 DEF a1, a2, a3, a4, a5, a6

LEMMA ClosedAndFocusIs ==
  ASSUME NEW w \in Workspaces, NEW c, NEW fo
  PROVE  ClosedAndFocus(w, c, fo) =
           Made(w.panels, w.layout, fo, w.previous, w.zoomed, c)
<1> DEFINE a1 == w.panels
           a2 == w.layout
           a3 == w.focused
           a4 == w.previous
           a5 == w.zoomed
           a6 == w.closed
<1>1. w = Made(a1, a2, a3, a4, a5, a6)
  BY RecordIs DEF Made
<1> HIDE DEF a1, a2, a3, a4, a5, a6
<1> DEFINE v == [w EXCEPT !.closed = c]
<1>2. ClosedAndFocus(w, c, fo) = [v EXCEPT !.focused = fo]
  BY DEF ClosedAndFocus
<1>3. v = Made(a1, a2, a3, a4, a5, c)
  BY <1>1 DEF Made
<1> HIDE DEF v
<1>4. [v EXCEPT !.focused = fo] = Made(a1, a2, fo, a4, a5, c)
  BY <1>3 DEF Made
<1> QED BY <1>2, <1>4 DEF a1, a2, a3, a4, a5, a6

LEMMA FocusAndZoomIs ==
  ASSUME NEW w \in Workspaces, NEW fo, NEW pr, NEW zo
  PROVE  FocusAndZoom(w, fo, pr, zo) =
           Made(w.panels, w.layout, fo, pr, zo, w.closed)
<1> DEFINE a1 == w.panels
           a2 == w.layout
           a3 == w.focused
           a4 == w.previous
           a5 == w.zoomed
           a6 == w.closed
<1>1. w = Made(a1, a2, a3, a4, a5, a6)
  BY RecordIs DEF Made
<1> HIDE DEF a1, a2, a3, a4, a5, a6
<1> DEFINE v == [w EXCEPT !.focused = fo]
           u == [v EXCEPT !.previous = pr]
<1>2. FocusAndZoom(w, fo, pr, zo) = [u EXCEPT !.zoomed = zo]
  BY DEF FocusAndZoom
<1>3. v = Made(a1, a2, fo, a4, a5, a6)
  BY <1>1 DEF Made
<1> HIDE DEF v
<1>4. u = Made(a1, a2, fo, pr, a5, a6)
  BY <1>3 DEF Made
<1> HIDE DEF u
<1>5. [u EXCEPT !.zoomed = zo] = Made(a1, a2, fo, pr, zo, a6)
  BY <1>4 DEF Made
<1> QED BY <1>2, <1>5 DEF a1, a2, a3, a4, a5, a6

LEMMA FocusMovedIs ==
  ASSUME NEW f, NEW l, NEW fo, NEW pr, NEW zo, NEW c, NEW v, v = Made(f, l, fo, pr, zo, c), NEW q
  PROVE  FocusMoved(v, q) = Made(f, l, q, fo, zo, c)
<1> DEFINE u == [v EXCEPT !.previous = fo]
<1>1. FocusMoved(v, q) = [u EXCEPT !.focused = q]
  BY DEF FocusMoved, Made
<1>2. u = Made(f, l, fo, fo, zo, c)
  BY DEF Made
<1> HIDE DEF u
<1>3. [u EXCEPT !.focused = q] = Made(f, l, q, fo, zo, c)
  BY <1>2 DEF Made
<1> QED BY <1>1, <1>3

\* Another layout of the same panels.
LEMMA LayoutSet ==
  ASSUME NEW w, Sound(w), NEW l, LayoutOK(l), Placed(l) \subseteq HasPanel(w),
         NEW fo, NEW pr \in Maybe,
         IF fo = None THEN Placed(l) = {} ELSE fo \in HasPanel(w)
  PROVE  LET u == LayoutAndFocus(w, l, fo, pr)
         IN  /\ Sound(u) /\ HasPanel(u) = HasPanel(w)
             /\ u.panels = w.panels /\ u.layout = l /\ u.focused = fo
             /\ u.closed = w.closed
<1> DEFINE u == [panels |-> w.panels, layout |-> l, focused |-> fo, previous |-> pr,
                 zoomed |-> w.zoomed, closed |-> w.closed]
<1>1. Body(w) /\ fo \in Maybe
  BY BodyIs DEF Sound, Maybe
<1>2. LayoutAndFocus(w, l, fo, pr) = u
  <2>1. w \in Workspaces
    BY <1>1 DEF Body
  <2>2. LayoutAndFocus(w, l, fo, pr) = u
    BY <2>1, LayoutAndFocusIs DEF Made
  <2> QED BY <2>2
<1>3. /\ w.panels \in PanelMaps /\ Placed(l) \subseteq DOMAIN w.panels /\ w.zoomed \in Maybe
      /\ w.closed \in Seq(Kinds) /\ Len(w.closed) <= ClosedCap
  BY <1>1, BodyIs
<1>4. /\ Body(u) /\ HasPanel(u) = DOMAIN w.panels
      /\ u.panels = w.panels /\ u.layout = l /\ u.focused = fo /\ u.previous = pr
      /\ u.zoomed = w.zoomed /\ u.closed = w.closed
  BY <1>1, <1>3, BodyOf
<1> HIDE DEF u
<1>5. HasPanel(u) = HasPanel(w)
  BY <1>1, <1>4, BodyIs
<1>6. Live(u)
  BY <1>4, <1>5 DEF Live
<1> QED BY <1>2, <1>4, <1>5, <1>6 DEF Sound

\* A panel more in the map, and in the layout l unless it found no pane.
LEMMA PanelAdded ==
  ASSUME NEW w, Body(w), NEW q \in Panels \ HasPanel(w), NEW kind \in Kinds,
         NEW l, LayoutOK(l), Placed(l) \subseteq Placed(w.layout) \cup {q},
         NEW c \in Seq(Kinds), Len(c) <= ClosedCap,
         NEW u,
         u = [panels |-> With(w.panels, q, kind), layout |-> l, focused |-> q,
              previous |-> w.focused, zoomed |-> w.zoomed, closed |-> c]
  PROVE  Sound(u) /\ HasPanel(u) = HasPanel(w) \cup {q} /\ u.layout = l /\ u.focused = q
<1> DEFINE f == With(w.panels, q, kind)
<1>1. /\ w.panels \in PanelMaps /\ w.zoomed \in Maybe /\ w.focused \in Maybe /\ q \in Maybe
      /\ Placed(w.layout) \subseteq HasPanel(w) /\ HasPanel(w) = DOMAIN w.panels
  BY BodyIs DEF Maybe
<1>2. f \in PanelMaps /\ DOMAIN f = DOMAIN w.panels \cup {q}
  BY <1>1, WithIs
<1> HIDE DEF f
<1>3. Placed(l) \subseteq DOMAIN f
  BY <1>1, <1>2
<1>4. Body(u) /\ HasPanel(u) = DOMAIN f /\ u.layout = l /\ u.focused = q
  <2> DEFINE fo == q
             pr == w.focused
             zo == w.zoomed
  <2>1. u = [panels |-> f, layout |-> l, focused |-> fo, previous |-> pr,
             zoomed |-> zo, closed |-> c]
    BY DEF f
  <2>2. fo \in Maybe /\ pr \in Maybe /\ zo \in Maybe
    BY <1>1
  <2> HIDE DEF fo, pr, zo
  <2>3. Body(u) /\ HasPanel(u) = DOMAIN f /\ u.layout = l /\ u.focused = fo
    BY <1>2, <1>3, <2>1, <2>2, BodyOf
  <2> QED BY <2>3 DEF fo
<1>5. Live(u)
  BY <1>1, <1>2, <1>4, NoneIsNoPanel DEF Live
<1> QED BY <1>1, <1>2, <1>4, <1>5 DEF Sound

\* Insert: the panel is split off the focused pane.
LEMMA InsertIs ==
  ASSUME NEW w, Body(w), NEW q \in Panels \ HasPanel(w), NEW kind \in Kinds
  PROVE  LET u == Insert(w, q, kind)
         IN  /\ Sound(u) /\ HasPanel(u) = HasPanel(w) \cup {q} /\ u.focused = q
             /\ Placed(u.layout) = Placed(w.layout) \cup {q}
<1> DEFINE l == SplitAt(w.layout, w.focused, q)
           c == w.closed
           u == Insert(w, q, kind)
<1>1. /\ w \in Workspaces /\ LayoutOK(w.layout) /\ q \in Panels \ Placed(w.layout)
      /\ c \in Seq(Kinds) /\ Len(c) <= ClosedCap
  BY BodyIs DEF Body
<1>2. LayoutOK(l) /\ Placed(l) = Placed(w.layout) \cup {q}
  BY <1>1, SplitAtIs
<1>3. u = [panels |-> With(w.panels, q, kind), layout |-> l, focused |-> q,
           previous |-> w.focused, zoomed |-> w.zoomed, closed |-> c]
  <2> DEFINE f == With(w.panels, q, kind)
             v == PanelsAndLayout(w, f, l)
  <2>1. u = FocusMoved(v, q)
    BY DEF Insert, PanelsAndLayout
  <2> HIDE DEF l, f, u
  <2>2. v = Made(f, l, w.focused, w.previous, w.zoomed, c)
    BY <1>1, PanelsAndLayoutIs DEF c
  <2> HIDE DEF v
  <2>3. u = Made(f, l, q, w.focused, w.zoomed, c)
    BY <2>1, <2>2, FocusMovedIs
  <2> QED BY <2>3 DEF Made, f
<1> HIDE DEF u, l, c
<1>4. Sound(u) /\ HasPanel(u) = HasPanel(w) \cup {q} /\ u.layout = l /\ u.focused = q
  BY <1>1, <1>2, <1>3, PanelAdded
<1> QED BY <1>2, <1>4 DEF u

\* InsertTab: the panel is a tab beside t, or in no pane when t is in none.
LEMMA InsertTabIs ==
  ASSUME NEW w, Body(w), NEW t, NEW q \in Panels \ HasPanel(w), NEW kind \in Kinds
  PROVE  LET u == InsertTab(w, t, q, kind)
         IN  /\ Sound(u) /\ HasPanel(u) = HasPanel(w) \cup {q} /\ u.focused = q
             /\ Placed(w.layout) \subseteq Placed(u.layout)
             /\ u.previous = w.focused /\ u.zoomed = w.zoomed /\ u.closed = w.closed
             /\ u.panels = With(w.panels, q, kind)
             /\ u \in Workspaces
<1> DEFINE l == AddTab(w.layout, t, q)
           c == w.closed
           u == InsertTab(w, t, q, kind)
<1>1. /\ w \in Workspaces /\ LayoutOK(w.layout) /\ q \in Panels \ Placed(w.layout)
      /\ c \in Seq(Kinds) /\ Len(c) <= ClosedCap
  BY BodyIs DEF Body
<1>2. /\ LayoutOK(l)
      /\ Placed(l) = IF t \in Placed(w.layout) THEN Placed(w.layout) \cup {q} ELSE Placed(w.layout)
  BY <1>1, AddTabIs
<1>3. /\ Placed(l) \subseteq Placed(w.layout) \cup {q}
      /\ Placed(w.layout) \subseteq Placed(l)
  BY <1>2
<1>4. u = [panels |-> With(w.panels, q, kind), layout |-> l, focused |-> q,
           previous |-> w.focused, zoomed |-> w.zoomed, closed |-> c]
  <2> DEFINE f == With(w.panels, q, kind)
             v == PanelsAndLayout(w, f, l)
  <2>1. u = FocusMoved(v, q)
    BY DEF InsertTab, PanelsAndLayout
  <2> HIDE DEF l, f, u
  <2>2. v = Made(f, l, w.focused, w.previous, w.zoomed, c)
    BY <1>1, PanelsAndLayoutIs DEF c
  <2> HIDE DEF v
  <2>3. u = Made(f, l, q, w.focused, w.zoomed, c)
    BY <2>1, <2>2, FocusMovedIs
  <2> QED BY <2>3 DEF Made, f
<1> HIDE DEF l
<1>5. u.panels = With(w.panels, q, kind) /\ u.previous = w.focused /\ u.zoomed = w.zoomed /\ u.closed = c
  BY <1>4
<1> HIDE DEF u, c
<1>6. Sound(u) /\ HasPanel(u) = HasPanel(w) \cup {q} /\ u.layout = l /\ u.focused = q
  BY <1>1, <1>2, <1>3, <1>4, PanelAdded
<1> QED BY <1>3, <1>5, <1>6 DEF u, c, Sound, Body

\* The panel leaves the map and the panes.
LEMMA ForgetIs ==
  ASSUME NEW w, Body(w), NEW p
  PROVE  LET u == Forget(w, p)
         IN  /\ Body(u) /\ HasPanel(u) = HasPanel(w) \ {p}
             /\ Placed(u.layout) = Placed(w.layout) \ {p}
             /\ u.focused = w.focused /\ u.previous = w.previous /\ u.zoomed = w.zoomed
             /\ u.closed = w.closed
<1> DEFINE l == Taken(w.layout, p)
           f == [q \in DOMAIN w.panels \ {p} |-> w.panels[q]]
           u == Forget(w, p)
           v == [panels |-> f, layout |-> l, focused |-> w.focused, previous |-> w.previous,
                 zoomed |-> w.zoomed, closed |-> w.closed]
<1>1. /\ w \in Workspaces /\ LayoutOK(w.layout) /\ Placed(w.layout) \subseteq DOMAIN w.panels
      /\ w.panels \in PanelMaps /\ HasPanel(w) = DOMAIN w.panels
      /\ w.focused \in Maybe /\ w.previous \in Maybe /\ w.zoomed \in Maybe
      /\ w.closed \in Seq(Kinds) /\ Len(w.closed) <= ClosedCap
  BY BodyIs DEF Body
<1>2. LayoutOK(l) /\ Placed(l) = Placed(w.layout) \ {p}
  BY <1>1, TakenIs
<1>3. f \in PanelMaps /\ DOMAIN f = DOMAIN w.panels \ {p}
  BY <1>1, LessIs
<1>4. u = v
  <2>1. u = PanelsAndLayout(w, f, l)
    BY DEF Forget, HasPanel, PanelsAndLayout
  <2> HIDE DEF u, f, l
  <2> QED BY <1>1, <2>1, PanelsAndLayoutIs DEF Made
<1> HIDE DEF l, f, u
<1>5. Placed(l) \subseteq DOMAIN f
  BY <1>1, <1>2, <1>3
<1>6. /\ Body(v) /\ HasPanel(v) = DOMAIN f
      /\ v.panels = f /\ v.layout = l /\ v.focused = w.focused /\ v.previous = w.previous
      /\ v.zoomed = w.zoomed /\ v.closed = w.closed
  BY <1>1, <1>2, <1>3, <1>5, BodyOf
<1> HIDE DEF v
<1> QED BY <1>1, <1>2, <1>3, <1>4, <1>6 DEF u

\* The closed list stays within its cap.
LEMMA RememberedIs ==
  ASSUME NEW c \in Seq(Kinds), Len(c) <= ClosedCap, NEW kind \in Kinds
  PROVE  Remembered(c, kind) \in Seq(Kinds) /\ Len(Remembered(c, kind)) <= ClosedCap
<1> DEFINE all == Append(c, kind)
<1>1. all \in Seq(Kinds) /\ Len(all) = Len(c) + 1 /\ Len(c) \in Nat /\ ClosedCap \in Nat
  BY CapIsNatural
<1>2. Remembered(c, kind) = IF Len(all) > ClosedCap THEN Tail(all) ELSE all
  BY DEF Remembered
<1> HIDE DEF all
<1>3. Tail(all) \in Seq(Kinds) /\ Len(Tail(all)) = Len(c)
  <2>1. all # <<>>
    BY <1>1
  <2> QED BY <1>1, <2>1
<1> QED BY <1>1, <1>2, <1>3

LEMMA MadeIs ==
  ASSUME NEW f \in PanelMaps, NEW l, LayoutOK(l), Placed(l) \subseteq DOMAIN f,
         NEW fo \in Maybe, NEW pr \in Maybe, NEW zo \in Maybe,
         NEW c \in Seq(Kinds), Len(c) <= ClosedCap,
         NEW u, u = Made(f, l, fo, pr, zo, c)
  PROVE  /\ Body(u) /\ HasPanel(u) = DOMAIN f
         /\ u.panels = f /\ u.layout = l /\ u.focused = fo /\ u.previous = pr
         /\ u.zoomed = zo /\ u.closed = c
<1>1. u = [panels |-> f, layout |-> l, focused |-> fo, previous |-> pr,
           zoomed |-> zo, closed |-> c]
  BY DEF Made
<1> QED BY <1>1, BodyOf

\* Closing: the focus the panel had goes to its neighbour.
LEMMA RemovePanelIs ==
  ASSUME NEW w, Sound(w), NEW p
  PROVE  LET u == RemovePanel(w, p)
             tabs == Tabs(w.layout[Holding(w.layout, p)])
         IN  /\ Sound(u) /\ HasPanel(u) = HasPanel(w) \ {p}
             /\ Placed(u.layout) = Placed(w.layout) \ {p}
             /\ w.focused # p => u.focused = w.focused
             /\ w.focused = p /\ p \in Placed(w.layout) /\ tabs # {p} => u.focused \in tabs \ {p}
<1>1. /\ Body(w) /\ Live(w) /\ LayoutOK(w.layout) /\ w.panels \in PanelMaps
      /\ Placed(w.layout) \subseteq HasPanel(w) /\ HasPanel(w) = DOMAIN w.panels
      /\ HasPanel(w) \subseteq Panels
      /\ w.closed \in Seq(Kinds) /\ Len(w.closed) <= ClosedCap /\ w.focused \in Maybe
  BY BodyIs DEF Sound
<1>2. CASE p \notin HasPanel(w)
  <2>1. RemovePanel(w, p) = w
    BY <1>2 DEF RemovePanel
  <2>2. p \notin Placed(w.layout)
    BY <1>1, <1>2
  <2> QED BY <1>2, <2>1, <2>2
<1>3. CASE p \in HasPanel(w)
  <2> DEFINE next == Neighbor(w.layout, p)
             left == Forget(w, p)
             c    == Remembered(w.closed, w.panels[p])
             fo   == IF w.focused # p THEN w.focused
                     ELSE IF next \in HasPanel(left) THEN next ELSE First(left.layout)
             u    == RemovePanel(w, p)
             tabs == Tabs(w.layout[Holding(w.layout, p)])
  <2>1. /\ Body(left) /\ HasPanel(left) = HasPanel(w) \ {p}
        /\ Placed(left.layout) = Placed(w.layout) \ {p}
        /\ left.focused = w.focused /\ left.closed = w.closed
    BY <1>1, ForgetIs
  <2>2. u = ClosedAndFocus(left, Remembered(left.closed, w.panels[p]),
              IF left.focused # p THEN left.focused
              ELSE IF next \in HasPanel(left) THEN next ELSE First(left.layout))
    BY <1>3 DEF RemovePanel, ClosedAndFocus
  <2>3. u = ClosedAndFocus(left, c, fo)
    BY <2>1, <2>2
  <2>4. c \in Seq(Kinds) /\ Len(c) <= ClosedCap
    <3>1. w.panels[p] \in Kinds
      BY <1>1, <1>3, MapIs
    <3> QED BY <1>1, <3>1, RememberedIs
  <2>5. p \in Placed(w.layout) =>
          IF tabs = {p} THEN next = None ELSE next \in tabs \ {p}
    BY <1>1, NeighborIs
  <2>6. p \in Placed(w.layout) => tabs \subseteq HasPanel(w)
    BY <1>1, HoldingIs, LooseList DEF LayoutOK
  <2>7. IF Placed(left.layout) = {} THEN First(left.layout) = None
        ELSE First(left.layout) \in Placed(left.layout)
    BY <2>1, BodyIs, FirstIs
  <2>8. /\ left \in Workspaces /\ left.panels \in PanelMaps /\ LayoutOK(left.layout)
        /\ Placed(left.layout) \subseteq DOMAIN left.panels /\ HasPanel(left) = DOMAIN left.panels
        /\ left.previous \in Maybe /\ left.zoomed \in Maybe
    BY <2>1, BodyIs DEF Body
  <2> HIDE DEF next, left, c, u, tabs
  <2>9. IF fo = None THEN Placed(left.layout) = {} ELSE fo \in HasPanel(left)
    BY <1>1, <2>1, <2>7, <2>8, NoneIsNoPanel DEF Live
  <2>10. fo \in Maybe
    BY <1>1, <2>1, <2>9 DEF Maybe
  <2>11. w.focused # p => fo = w.focused
    OBVIOUS
  <2>12. w.focused = p /\ p \in Placed(w.layout) /\ tabs # {p} => fo \in tabs \ {p}
    BY <2>1, <2>5, <2>6
  <2> HIDE DEF fo
  <2>13. u = Made(left.panels, left.layout, fo, left.previous, left.zoomed, c)
    BY <2>3, <2>8, ClosedAndFocusIs
  <2> DEFINE f == left.panels
             l == left.layout
             pr == left.previous
             zo == left.zoomed
  <2>14. /\ u = Made(f, l, fo, pr, zo, c) /\ f \in PanelMaps /\ LayoutOK(l)
         /\ Placed(l) \subseteq DOMAIN f /\ pr \in Maybe /\ zo \in Maybe
    BY <2>8, <2>13
  <2> HIDE DEF f, l, pr, zo
  <2>15. Body(u) /\ HasPanel(u) = DOMAIN f /\ u.layout = l /\ u.focused = fo
    BY <2>4, <2>10, <2>14, MadeIs
  <2>16. HasPanel(u) = HasPanel(left) /\ u.layout = left.layout
    BY <2>8, <2>15 DEF f, l
  <2>17. Live(u)
    BY <2>9, <2>15, <2>16 DEF Live
  <2> QED BY <2>1, <2>11, <2>12, <2>15, <2>16, <2>17 DEF u, tabs, Sound
<1> QED BY <1>2, <1>3

\* Moving out: the focus the panel had goes to the first panel.
LEMMA DetachPanelIs ==
  ASSUME NEW w, Sound(w), NEW p
  PROVE  LET u == DetachPanel(w, p)
         IN  /\ Sound(u) /\ HasPanel(u) = HasPanel(w) \ {p}
             /\ Placed(u.layout) = Placed(w.layout) \ {p}
<1> DEFINE left == Forget(w, p)
           f    == left.panels
           l    == left.layout
           fo   == IF left.focused = p THEN First(left.layout) ELSE left.focused
           pr   == IF left.previous = p THEN None ELSE left.previous
           zo   == IF left.zoomed = p THEN None ELSE left.zoomed
           c    == left.closed
           u    == DetachPanel(w, p)
<1>1. Body(w) /\ Live(w)
  BY DEF Sound
<1>2. /\ Body(left) /\ HasPanel(left) = HasPanel(w) \ {p}
      /\ Placed(left.layout) = Placed(w.layout) \ {p} /\ left.focused = w.focused
  BY <1>1, ForgetIs
<1>3. u = FocusAndZoom(left, fo, pr, zo)
  BY DEF DetachPanel, FocusAndZoom
<1> HIDE DEF left, u
<1>4. /\ left \in Workspaces /\ f \in PanelMaps /\ LayoutOK(l) /\ Placed(l) \subseteq DOMAIN f
      /\ HasPanel(left) = DOMAIN f /\ left.focused \in Maybe
      /\ left.previous \in Maybe /\ left.zoomed \in Maybe
      /\ c \in Seq(Kinds) /\ Len(c) <= ClosedCap /\ HasPanel(left) \subseteq Panels
  BY <1>2, BodyIs DEF Body
<1>5. IF Placed(l) = {} THEN First(l) = None ELSE First(l) \in Placed(l)
  BY <1>4, FirstIs
<1>6. IF fo = None THEN Placed(l) = {} ELSE fo \in HasPanel(left)
  BY <1>1, <1>2, <1>4, <1>5, NoneIsNoPanel DEF Live
<1>7. fo \in Maybe /\ pr \in Maybe /\ zo \in Maybe
  BY <1>4, <1>6 DEF Maybe
<1>8. u = Made(f, l, fo, pr, zo, c)
  BY <1>3, <1>4, FocusAndZoomIs
<1> HIDE DEF f, l, fo, pr, zo, c
<1>9. Body(u) /\ HasPanel(u) = DOMAIN f /\ u.layout = l /\ u.focused = fo
  <2>1. /\ f \in PanelMaps /\ LayoutOK(l) /\ Placed(l) \subseteq DOMAIN f
        /\ c \in Seq(Kinds) /\ Len(c) <= ClosedCap
    BY <1>4
  <2>2. /\ Body(u) /\ HasPanel(u) = DOMAIN f
        /\ u.panels = f /\ u.layout = l /\ u.focused = fo /\ u.previous = pr
        /\ u.zoomed = zo /\ u.closed = c
    BY <1>7, <1>8, <2>1, MadeIs
  <2> QED BY <2>2
<1>10. Live(u)
  BY <1>4, <1>6, <1>9 DEF Live
<1>11. Placed(u.layout) = Placed(w.layout) \ {p}
  BY <1>2, <1>9 DEF l
<1> QED BY <1>2, <1>4, <1>9, <1>10, <1>11 DEF u, Sound

\* The panel's pane shows it, and nothing comes or goes.
LEMMA FocusPanelIs ==
  ASSUME NEW w, Sound(w), NEW p
  PROVE  LET u == FocusPanel(w, p)
         IN  Sound(u) /\ HasPanel(u) = HasPanel(w) /\ Placed(u.layout) = Placed(w.layout)
<1> DEFINE u  == FocusPanel(w, p)
           l  == Show(w.layout, p)
           pr == IF w.focused # p THEN w.focused ELSE w.previous
<1>1. CASE p \notin HasPanel(w) \cap Placed(w.layout)
  BY <1>1 DEF FocusPanel
<1>2. CASE p \in HasPanel(w) \cap Placed(w.layout)
  <2>1. /\ LayoutOK(w.layout) /\ Placed(w.layout) \subseteq HasPanel(w)
        /\ HasPanel(w) \subseteq Panels /\ w.focused \in Maybe /\ w.previous \in Maybe
    BY BodyIs DEF Sound
  <2>2. u = LayoutAndFocus(w, l, p, pr)
    BY <1>2 DEF FocusPanel, LayoutAndFocus
  <2>3. LayoutOK(l) /\ Placed(l) = Placed(w.layout)
    BY <1>2, <2>1, ShowIs
  <2> HIDE DEF u, l
  <2>4. pr \in Maybe
    BY <2>1
  <2>5. Placed(l) \subseteq HasPanel(w)
    BY <2>1, <2>3
  <2>6. IF p = None THEN Placed(l) = {} ELSE p \in HasPanel(w)
    BY <1>2, <2>1, NoneIsNoPanel
  <2> HIDE DEF pr
  <2>7. Sound(u) /\ HasPanel(u) = HasPanel(w) /\ u.layout = l
    BY <2>2, <2>3, <2>4, <2>5, <2>6, LayoutSet
  <2> QED BY <2>3, <2>7 DEF u
<1> QED BY <1>1, <1>2

\* A single pane.
LEMMA WholeIs ==
  ASSUME NEW q \in Panels
  PROVE  LayoutOK(<<PaneOf(q)>>) /\ Placed(<<PaneOf(q)>>) = {q}
<1> DEFINE l == <<PaneOf(q)>>
<1>1. PaneOK(PaneOf(q)) /\ Tabs(PaneOf(q)) = {q}
  BY PaneOfIs
<1>2. PaneOf(q) \in Panes
  BY <1>1 DEF PaneOK
<1>3. l \in Seq(Panes) /\ Len(l) = 1 /\ l[1] = PaneOf(q)
  BY <1>2
<1> HIDE DEF l
<1>4. \A i \in 1 .. Len(l) : i = 1
  BY <1>3
<1>5. Loose(l)
  BY <1>1, <1>3, <1>4 DEF Loose
<1>6. LayoutOK(l)
  BY <1>4, <1>5 DEF LayoutOK
<1>7. \A p : p \in Placed(l) <=> \E i \in 1 .. Len(l) : p \in Tabs(l[i])
  BY <1>5, LooseList
<1>8. Placed(l) = {q}
  BY <1>1, <1>3, <1>4, <1>7
<1> QED BY <1>6, <1>8 DEF l

\* A closed tab comes back beside the focus, or as the whole layout.
LEMMA ReopenIs ==
  ASSUME NEW w, Sound(w), w.closed # <<>>, NEW q \in Panels \ HasPanel(w)
  PROVE  LET u == ReopenLastClosedPanel(w, q)
         IN  /\ Sound(u) /\ HasPanel(u) = HasPanel(w) \cup {q}
             /\ Placed(w.layout) \subseteq Placed(u.layout)
<1> DEFINE kind   == w.closed[Len(w.closed)]
           target == IF w.focused # None THEN w.focused ELSE First(w.layout)
           f      == w.panels
           l      == w.layout
           fo     == w.focused
           pr     == w.previous
           zo     == w.zoomed
           c      == Front(w.closed)
           back   == [w EXCEPT !.closed = Front(@)]
           u      == ReopenLastClosedPanel(w, q)
<1>1. /\ w \in Workspaces /\ f \in PanelMaps /\ LayoutOK(l) /\ Placed(l) \subseteq DOMAIN f
      /\ fo \in Maybe /\ pr \in Maybe /\ zo \in Maybe /\ HasPanel(w) = DOMAIN f
      /\ w.closed \in Seq(Kinds) /\ Len(w.closed) <= ClosedCap
      /\ IF fo = None THEN Placed(l) = {} ELSE fo \in HasPanel(w)
  BY BodyIs DEF Sound, Body, Live
<1>2. kind \in Kinds /\ c \in Seq(Kinds) /\ Len(c) <= ClosedCap
  <2> DEFINE n == Len(w.closed)
  <2>1. n \in 1 .. n /\ n \in Nat /\ n - 1 \in (1 - 1) .. n /\ 1 \in 1 .. (n + 1)
    BY <1>1
  <2>2. c = SubSeq(w.closed, 1, n - 1)
    BY DEF Front
  <2> HIDE DEF c
  <2>3. c \in Seq(Kinds) /\ Len(c) = n - 1
    <3>1. /\ SubSeq(w.closed, 1, n - 1) \in Seq(Kinds)
          /\ Len(SubSeq(w.closed, 1, n - 1)) = (n - 1) - 1 + 1
      BY <1>1, <2>1, SliceIs
    <3> QED BY <2>1, <2>2, <3>1
  <2>4. kind \in Kinds
    BY <1>1, <2>1
  <2> QED BY <1>1, <2>1, <2>3, <2>4, CapIsNatural
<1>3. back = Made(f, l, fo, pr, zo, c)
  <2>1. w = Made(f, l, fo, pr, zo, w.closed)
    BY <1>1, RecordIs DEF Made
  <2> DEFINE d == w.closed
  <2>2. w = Made(f, l, fo, pr, zo, d) /\ back = [w EXCEPT !.closed = c]
    BY <2>1
  <2> HIDE DEF f, l, fo, pr, zo, c, d, back
  <2> QED BY <2>2 DEF Made
<1>4. u = IF target # None THEN InsertTab(back, target, q, kind)
          ELSE FocusMoved(PanelsAndLayout(back, With(back.panels, q, kind), <<PaneOf(q)>>), q)
  BY DEF ReopenLastClosedPanel, PanelsAndLayout
<1>5. IF Placed(l) = {} THEN First(l) = None ELSE First(l) \in Placed(l)
  BY <1>1, FirstIs
<1>6. target = None => Placed(l) = {}
  BY <1>1, <1>5, NoneIsNoPanel, LooseList DEF LayoutOK
<1> HIDE DEF kind, target, f, l, fo, pr, zo, c, back, u
<1>7. /\ Body(back) /\ HasPanel(back) = DOMAIN f /\ back.panels = f /\ back.layout = l
      /\ back.focused = fo /\ back.previous = pr /\ back.zoomed = zo /\ back.closed = c
  BY <1>1, <1>2, <1>3, MadeIs
<1>8. q \in Panels \ HasPanel(back) /\ HasPanel(back) = HasPanel(w)
  BY <1>1, <1>7
<1>9. CASE target # None
  <2>1. u = InsertTab(back, target, q, kind)
    BY <1>4, <1>9
  <2>2. LET v == InsertTab(back, target, q, kind)
        IN  /\ Sound(v) /\ HasPanel(v) = HasPanel(back) \cup {q} /\ v.focused = q
            /\ Placed(back.layout) \subseteq Placed(v.layout)
            /\ v.previous = back.focused /\ v.zoomed = back.zoomed /\ v.closed = back.closed
            /\ v.panels = With(back.panels, q, kind)
            /\ v \in Workspaces
    BY <1>2, <1>7, <1>8, InsertTabIs
  <2> QED BY <1>7, <1>8, <2>1, <2>2 DEF u, l
<1>10. CASE target = None
  <2> DEFINE m == <<PaneOf(q)>>
             g == With(f, q, kind)
             v == PanelsAndLayout(back, g, m)
  <2>1. LayoutOK(m) /\ Placed(m) = {q}
    BY <1>8, WholeIs
  <2> HIDE DEF m
  <2>2. u = FocusMoved(v, q)
    BY <1>4, <1>7, <1>10 DEF m
  <2>3. v = Made(g, m, fo, pr, zo, c)
    <3>1. back \in Workspaces
      BY <1>7 DEF Body
    <3> HIDE DEF g
    <3> QED BY <1>7, <3>1, PanelsAndLayoutIs
  <2> HIDE DEF v
  <2>4. u = Made(g, m, q, fo, zo, c)
    BY <2>2, <2>3, FocusMovedIs
  <2>5. u = [panels |-> With(back.panels, q, kind), layout |-> m, focused |-> q,
             previous |-> back.focused, zoomed |-> back.zoomed, closed |-> c]
    BY <1>7, <2>4 DEF Made
  <2>6. Placed(m) \subseteq Placed(back.layout) \cup {q}
    BY <2>1
  <2>7. Sound(u) /\ HasPanel(u) = HasPanel(back) \cup {q} /\ u.layout = m /\ u.focused = q
    BY <1>2, <1>7, <1>8, <2>1, <2>5, <2>6, PanelAdded
  <2>8. Placed(l) = {}
    BY <1>6, <1>10
  <2> QED BY <1>8, <2>7, <2>8 DEF u, l
<1> QED BY <1>9, <1>10

\* Panels forgotten one after the other.
LEMMA AllForgotten ==
  ASSUME NEW w, Body(w), NEW gone \in Seq(Panels)
  PROVE  LET u == FoldLeft(Forget, w, gone)
         IN  /\ Body(u) /\ HasPanel(u) = HasPanel(w) \ ToSet(gone)
             /\ Placed(u.layout) = Placed(w.layout) \ ToSet(gone)
             /\ u.focused = w.focused
<1> DEFINE N      == Len(gone)
           A      == {u \in Workspaces : Body(u)}
           Out(n) == {gone[j] : j \in 1 .. n}
           Without(u, n) == /\ Body(u) /\ HasPanel(u) = HasPanel(w) \ Out(n)
                        /\ Placed(u.layout) = Placed(w.layout) \ Out(n)
                        /\ u.focused = w.focused
           G      == [x \in A \X Panels |-> Forget(x[1], x[2])]
           Is(it) == it = [s \in SUBSET (1 .. N) |->
                             IF s = {} THEN w
                             ELSE Forget(it[s \ {Max(s)}], gone[Max(s)])]
           f      == CHOOSE it : Is(it)
<1>1. /\ N \in Nat /\ DOMAIN gone = 1 .. N /\ gone \in [1 .. N -> Panels]
      /\ ToSet(gone) = Out(N)
  BY DEF ToSet
<1>2. ASSUME NEW u, Body(u) PROVE u \in A
  BY <1>2 DEF Body
<1>3. ASSUME NEW u \in A, NEW p PROVE Forget(u, p) \in A
  <2>1. Body(u)
    OBVIOUS
  <2>2. Body(Forget(u, p))
    BY <2>1, ForgetIs
  <2> QED BY <1>2, <2>2
<1>4. FoldLeft(Forget, w, gone) = f[1 .. N]
  <2> HIDE DEF N
  <2> QED BY <1>1 DEF FoldLeft, MapThenFoldSet
<1>5. w \in A
  BY <1>2
<1> HIDE DEF N, A
<1>6. \E it : Is(it)
  <2>1. G \in [A \X Panels -> A]
    <3>1. \A x \in A \X Panels : Forget(x[1], x[2]) \in A
      BY <1>3
    <3> QED BY <3>1
  <2> HIDE DEF G
  <2>2. PICK it : IsFold(it, N, A, w, gone, G)
    BY <1>1, <1>5, <2>1, FoldExists
  <2>3. ASSUME NEW s \in SUBSET (1 .. N), s # {}
        PROVE  G[<<it[s \ {Max(s)}], gone[Max(s)]>>] = Forget(it[s \ {Max(s)}], gone[Max(s)])
    <3>1. Max(s) \in s
      <4>1. s \in SUBSET (0 .. N)
        OBVIOUS
      <4> QED BY <1>1, <2>3, <4>1, MaxOf
    <3>2. gone[Max(s)] \in Panels /\ it[s \ {Max(s)}] \in A
      BY <1>1, <2>2, <3>1 DEF IsFold
    <3> QED BY <3>2 DEF G
  <2>4. Is(it)
    BY <2>2, <2>3 DEF IsFold
  <2> HIDE DEF Is
  <2> QED BY <2>4
<1>7. Is(f)
  <2> HIDE DEF Is
  <2> QED BY <1>6
<1>8. Without(f[1 .. 0], 0)
  <2> HIDE DEF f
  <2>1. 1 .. 0 = {} /\ 1 .. 0 \in SUBSET (1 .. N) /\ Out(0) = {}
    OBVIOUS
  <2>2. f[1 .. 0] = w
    BY <1>7, <2>1
  <2> QED BY <2>1, <2>2
<1>9. ASSUME NEW n \in Nat, n + 1 <= N, Without(f[1 .. n], n) PROVE Without(f[1 .. (n + 1)], n + 1)
  <2> DEFINE u == f[1 .. n]
             p == gone[n + 1]
  <2>1. 1 .. (n + 1) \in SUBSET (1 .. N) /\ 1 .. (n + 1) # {}
    <3>1. N \in Nat /\ n + 1 <= N /\ 1 \in 1 .. (n + 1)
      BY <1>1, <1>9
    <3>2. \A j \in 1 .. (n + 1) : j \in 1 .. N
      BY <3>1
    <3> QED BY <3>1, <3>2
  <2>2. Max(1 .. (n + 1)) = n + 1 /\ (1 .. (n + 1)) \ {n + 1} = 1 .. n
    BY InitialSegment
  <2>3. f[1 .. (n + 1)] = Forget(u, p)
    <3> HIDE DEF f
    <3> QED BY <1>7, <2>1, <2>2
  <2>4. Out(n + 1) = Out(n) \cup {p}
    BY <2>2
  <2>5. Without(u, n)
    BY <1>9
  <2> HIDE DEF f, u, p, Out
  <2>6. /\ Body(Forget(u, p)) /\ HasPanel(Forget(u, p)) = HasPanel(u) \ {p}
        /\ Placed(Forget(u, p).layout) = Placed(u.layout) \ {p}
        /\ Forget(u, p).focused = u.focused
    BY <2>5, ForgetIs
  <2>7. Without(Forget(u, p), n + 1)
    BY <2>4, <2>5, <2>6
  <2> QED BY <2>3, <2>7
<1> DEFINE M == {n \in Nat : n <= N => Without(f[1 .. n], n)}
<1> HIDE DEF f, Is, Out
<1>10. 0 \in M /\ \A n \in Nat : n \in M => n + 1 \in M
  <2> HIDE DEF Without
  <2> QED BY <1>1, <1>8, <1>9
<1>11. N \in M
  <2> HIDE DEF M
  <2> QED BY <1>1, <1>10, Induct
<1>12. Without(f[1 .. N], N)
  BY <1>1, <1>11
<1> QED BY <1>1, <1>4, <1>12

\* Panels closed one after the other.
LEMMA AllRemoved ==
  ASSUME NEW w, Sound(w), NEW gone \in Seq(Panels)
  PROVE  LET u == FoldLeft(RemovePanel, w, gone)
         IN  /\ Sound(u) /\ HasPanel(u) = HasPanel(w) \ ToSet(gone)
             /\ Placed(u.layout) = Placed(w.layout) \ ToSet(gone)
<1> DEFINE N      == Len(gone)
           A      == {u \in Workspaces : Sound(u)}
           Out(n) == {gone[j] : j \in 1 .. n}
           Without(u, n) == /\ Sound(u) /\ HasPanel(u) = HasPanel(w) \ Out(n)
                        /\ Placed(u.layout) = Placed(w.layout) \ Out(n)
           G      == [x \in A \X Panels |-> RemovePanel(x[1], x[2])]
           Is(it) == it = [s \in SUBSET (1 .. N) |->
                             IF s = {} THEN w
                             ELSE RemovePanel(it[s \ {Max(s)}], gone[Max(s)])]
           f      == CHOOSE it : Is(it)
<1>1. /\ N \in Nat /\ DOMAIN gone = 1 .. N /\ gone \in [1 .. N -> Panels]
      /\ ToSet(gone) = Out(N)
  BY DEF ToSet
<1>2. ASSUME NEW u, Sound(u) PROVE u \in A
  BY <1>2 DEF Sound, Body
<1>3. ASSUME NEW u \in A, NEW p PROVE RemovePanel(u, p) \in A
  <2>1. Sound(u)
    OBVIOUS
  <2>2. Sound(RemovePanel(u, p))
    BY <2>1, RemovePanelIs
  <2> QED BY <1>2, <2>2
<1>4. FoldLeft(RemovePanel, w, gone) = f[1 .. N]
  <2> HIDE DEF N
  <2> QED BY <1>1 DEF FoldLeft, MapThenFoldSet
<1>5. w \in A
  BY <1>2
<1> HIDE DEF N, A
<1>6. \E it : Is(it)
  <2>1. G \in [A \X Panels -> A]
    <3>1. \A x \in A \X Panels : RemovePanel(x[1], x[2]) \in A
      BY <1>3
    <3> QED BY <3>1
  <2> HIDE DEF G
  <2>2. PICK it : IsFold(it, N, A, w, gone, G)
    BY <1>1, <1>5, <2>1, FoldExists
  <2>3. ASSUME NEW s \in SUBSET (1 .. N), s # {}
        PROVE  G[<<it[s \ {Max(s)}], gone[Max(s)]>>] = RemovePanel(it[s \ {Max(s)}], gone[Max(s)])
    <3>1. Max(s) \in s
      <4>1. s \in SUBSET (0 .. N)
        OBVIOUS
      <4> QED BY <1>1, <2>3, <4>1, MaxOf
    <3>2. gone[Max(s)] \in Panels /\ it[s \ {Max(s)}] \in A
      BY <1>1, <2>2, <3>1 DEF IsFold
    <3> QED BY <3>2 DEF G
  <2>4. Is(it)
    BY <2>2, <2>3 DEF IsFold
  <2> HIDE DEF Is
  <2> QED BY <2>4
<1>7. Is(f)
  <2> HIDE DEF Is
  <2> QED BY <1>6
<1>8. Without(f[1 .. 0], 0)
  <2> HIDE DEF f
  <2>1. 1 .. 0 = {} /\ 1 .. 0 \in SUBSET (1 .. N) /\ Out(0) = {}
    OBVIOUS
  <2>2. f[1 .. 0] = w
    BY <1>7, <2>1
  <2> QED BY <2>1, <2>2
<1>9. ASSUME NEW n \in Nat, n + 1 <= N, Without(f[1 .. n], n) PROVE Without(f[1 .. (n + 1)], n + 1)
  <2> DEFINE u == f[1 .. n]
             p == gone[n + 1]
  <2>1. 1 .. (n + 1) \in SUBSET (1 .. N) /\ 1 .. (n + 1) # {}
    <3>1. N \in Nat /\ n + 1 <= N /\ 1 \in 1 .. (n + 1)
      BY <1>1, <1>9
    <3>2. \A j \in 1 .. (n + 1) : j \in 1 .. N
      BY <3>1
    <3> QED BY <3>1, <3>2
  <2>2. Max(1 .. (n + 1)) = n + 1 /\ (1 .. (n + 1)) \ {n + 1} = 1 .. n
    BY InitialSegment
  <2>3. f[1 .. (n + 1)] = RemovePanel(u, p)
    <3> HIDE DEF f
    <3> QED BY <1>7, <2>1, <2>2
  <2>4. Out(n + 1) = Out(n) \cup {p}
    BY <2>2
  <2>5. Without(u, n)
    BY <1>9
  <2> HIDE DEF f, u, p, Out
  <2>6. /\ Sound(RemovePanel(u, p)) /\ HasPanel(RemovePanel(u, p)) = HasPanel(u) \ {p}
        /\ Placed(RemovePanel(u, p).layout) = Placed(u.layout) \ {p}
    BY <2>5, RemovePanelIs
  <2>7. Without(RemovePanel(u, p), n + 1)
    BY <2>4, <2>5, <2>6
  <2> QED BY <2>3, <2>7
<1> DEFINE M == {n \in Nat : n <= N => Without(f[1 .. n], n)}
<1> HIDE DEF f, Is, Out
<1>10. 0 \in M /\ \A n \in Nat : n \in M => n + 1 \in M
  <2> HIDE DEF Without
  <2> QED BY <1>1, <1>8, <1>9
<1>11. N \in M
  <2> HIDE DEF M
  <2> QED BY <1>1, <1>10, Induct
<1>12. Without(f[1 .. N], N)
  BY <1>1, <1>11
<1> QED BY <1>1, <1>4, <1>12

-----------------------------------------------------------------------------
(* A workspace with one field written.                                      *)

LayoutTo(w, l) == [w EXCEPT !.layout = l]
FocusTo(w, fo) == [w EXCEPT !.focused = fo]
ZoomTo(w, zo)  == [w EXCEPT !.zoomed = zo]

LEMMA Fields ==
  ASSUME NEW w, Body(w)
  PROVE  \E f \in PanelMaps, l \in Seq(Panes), fo, pr, zo \in Maybe, c \in Seq(Kinds) :
           /\ w = Made(f, l, fo, pr, zo, c)
           /\ f = w.panels /\ l = w.layout /\ fo = w.focused /\ pr = w.previous
           /\ zo = w.zoomed /\ c = w.closed
           /\ LayoutOK(l) /\ Placed(l) \subseteq DOMAIN f /\ HasPanel(w) = DOMAIN f
           /\ fo \in Maybe /\ pr \in Maybe /\ Len(c) <= ClosedCap /\ DOMAIN f \subseteq Panels
<1>1. w = Made(w.panels, w.layout, w.focused, w.previous, w.zoomed, w.closed)
  BY RecordIs DEF Made, Body
<1>2. /\ w.panels \in PanelMaps /\ w.layout \in Seq(Panes) /\ w.closed \in Seq(Kinds)
      /\ w.focused \in Maybe /\ w.previous \in Maybe /\ w.zoomed \in Maybe
      /\ LayoutOK(w.layout) /\ Placed(w.layout) \subseteq DOMAIN w.panels
      /\ HasPanel(w) = DOMAIN w.panels /\ Len(w.closed) <= ClosedCap
      /\ DOMAIN w.panels \subseteq Panels
  BY BodyIs
<1> USE <1>2
<1> WITNESS w.panels \in PanelMaps, w.layout \in Seq(Panes), w.focused \in Maybe,
            w.previous \in Maybe, w.zoomed \in Maybe, w.closed \in Seq(Kinds)
<1> QED BY <1>1, <1>2

LEMMA LayoutToIs ==
  ASSUME NEW w, Sound(w), NEW l, LayoutOK(l), Placed(l) \subseteq HasPanel(w),
         w.focused = None => Placed(l) = {}
  PROVE  LET u == LayoutTo(w, l)
         IN  Sound(u) /\ HasPanel(u) = HasPanel(w) /\ u.layout = l /\ u.focused = w.focused
<1> DEFINE u == LayoutTo(w, l)
<1>1. PICK f \in PanelMaps, m \in Seq(Panes), fo, pr, zo \in Maybe, c \in Seq(Kinds) :
        /\ w = Made(f, m, fo, pr, zo, c)
        /\ f = w.panels /\ m = w.layout /\ fo = w.focused /\ pr = w.previous
        /\ zo = w.zoomed /\ c = w.closed
        /\ LayoutOK(m) /\ Placed(m) \subseteq DOMAIN f /\ HasPanel(w) = DOMAIN f
        /\ fo \in Maybe /\ pr \in Maybe /\ Len(c) <= ClosedCap /\ DOMAIN f \subseteq Panels
  BY Fields DEF Sound
<1>2. u = Made(f, l, fo, pr, zo, c)
  <2>1. w = Made(f, m, fo, pr, zo, c)
    BY <1>1
  <2> QED BY <2>1 DEF Made, LayoutTo
<1> HIDE DEF u
<1>3. Placed(l) \subseteq DOMAIN f
  BY <1>1
<1>4. Body(u) /\ HasPanel(u) = DOMAIN f /\ u.layout = l /\ u.focused = fo
  <2>1. fo \in Maybe /\ pr \in Maybe /\ Len(c) <= ClosedCap
    BY <1>1
  <2> QED BY <1>2, <1>3, <2>1, MadeIs
<1>5. Live(u)
  BY <1>1, <1>4 DEF Live, Sound
<1> QED BY <1>1, <1>4, <1>5 DEF Sound, u

LEMMA FocusToIs ==
  ASSUME NEW w, Body(w), NEW fo,
         IF fo = None THEN Placed(w.layout) = {} ELSE fo \in HasPanel(w)
  PROVE  LET u == FocusTo(w, fo)
         IN  Sound(u) /\ HasPanel(u) = HasPanel(w) /\ u.layout = w.layout /\ u.focused = fo
<1> DEFINE u == FocusTo(w, fo)
<1>1. PICK f \in PanelMaps, l \in Seq(Panes), fp, pr, zo \in Maybe, c \in Seq(Kinds) :
        /\ w = Made(f, l, fp, pr, zo, c)
        /\ f = w.panels /\ l = w.layout /\ fp = w.focused /\ pr = w.previous
        /\ zo = w.zoomed /\ c = w.closed
        /\ LayoutOK(l) /\ Placed(l) \subseteq DOMAIN f /\ HasPanel(w) = DOMAIN f
        /\ fp \in Maybe /\ pr \in Maybe /\ Len(c) <= ClosedCap /\ DOMAIN f \subseteq Panels
  BY Fields
<1>2. u = Made(f, l, fo, pr, zo, c)
  <2>1. w = Made(f, l, fp, pr, zo, c)
    BY <1>1
  <2> QED BY <2>1 DEF Made, FocusTo
<1> HIDE DEF u
<1>3. fo \in Maybe
  BY <1>1 DEF Maybe
<1>4. Body(u) /\ HasPanel(u) = DOMAIN f /\ u.layout = l /\ u.focused = fo
  <2>1. LayoutOK(l) /\ Placed(l) \subseteq DOMAIN f /\ pr \in Maybe /\ Len(c) <= ClosedCap
    BY <1>1
  <2> QED BY <1>2, <1>3, <2>1, MadeIs
<1>5. Live(u)
  BY <1>1, <1>4 DEF Live
<1> QED BY <1>1, <1>4, <1>5 DEF Sound, u

LEMMA ZoomToIs ==
  ASSUME NEW w, Sound(w), NEW zo \in Maybe
  PROVE  LET u == ZoomTo(w, zo)
         IN  Sound(u) /\ HasPanel(u) = HasPanel(w) /\ u.layout = w.layout
<1> DEFINE u == ZoomTo(w, zo)
<1>1. PICK f \in PanelMaps, l \in Seq(Panes), fo, pr, zp \in Maybe, c \in Seq(Kinds) :
        /\ w = Made(f, l, fo, pr, zp, c)
        /\ f = w.panels /\ l = w.layout /\ fo = w.focused /\ pr = w.previous
        /\ zp = w.zoomed /\ c = w.closed
        /\ LayoutOK(l) /\ Placed(l) \subseteq DOMAIN f /\ HasPanel(w) = DOMAIN f
        /\ fo \in Maybe /\ pr \in Maybe /\ Len(c) <= ClosedCap /\ DOMAIN f \subseteq Panels
  BY Fields DEF Sound
<1>2. u = Made(f, l, fo, pr, zo, c)
  <2>1. w = Made(f, l, fo, pr, zp, c)
    BY <1>1
  <2> QED BY <2>1 DEF Made, ZoomTo
<1> HIDE DEF u
<1>4. Body(u) /\ HasPanel(u) = DOMAIN f /\ u.layout = l /\ u.focused = fo
  <2>1. /\ LayoutOK(l) /\ Placed(l) \subseteq DOMAIN f /\ fo \in Maybe /\ pr \in Maybe
        /\ Len(c) <= ClosedCap
    BY <1>1
  <2> QED BY <1>2, <2>1, MadeIs
<1>5. Live(u)
  BY <1>1, <1>4 DEF Live, Sound
<1> QED BY <1>1, <1>4, <1>5 DEF Sound, u

\* Another layout, and the focus on p.
LEMMA MovedToIs ==
  ASSUME NEW w, Sound(w), NEW l, LayoutOK(l), Placed(l) \subseteq HasPanel(w), NEW p \in HasPanel(w)
  PROVE  LET u == FocusMoved(LayoutTo(w, l), p)
         IN  Sound(u) /\ HasPanel(u) = HasPanel(w) /\ u.layout = l
<1> DEFINE v == LayoutTo(w, l)
           u == FocusMoved(v, p)
<1>1. PICK f \in PanelMaps, m \in Seq(Panes), fo, pr, zo \in Maybe, c \in Seq(Kinds) :
        /\ w = Made(f, m, fo, pr, zo, c)
        /\ f = w.panels /\ m = w.layout /\ fo = w.focused /\ pr = w.previous
        /\ zo = w.zoomed /\ c = w.closed
        /\ LayoutOK(m) /\ Placed(m) \subseteq DOMAIN f /\ HasPanel(w) = DOMAIN f
        /\ fo \in Maybe /\ pr \in Maybe /\ Len(c) <= ClosedCap /\ DOMAIN f \subseteq Panels
  BY Fields DEF Sound
<1>2. v = Made(f, l, fo, pr, zo, c)
  <2>1. w = Made(f, m, fo, pr, zo, c)
    BY <1>1
  <2> QED BY <2>1 DEF Made, LayoutTo
<1> HIDE DEF v
<1>3. u = Made(f, l, p, fo, zo, c)
  BY <1>2, FocusMovedIs
<1> HIDE DEF u
<1>4. Body(u) /\ HasPanel(u) = DOMAIN f /\ u.layout = l /\ u.focused = p
  <2>1. Placed(l) \subseteq DOMAIN f /\ fo \in Maybe /\ Len(c) <= ClosedCap /\ p \in Maybe
    BY <1>1 DEF Maybe
  <2> QED BY <1>3, <2>1, MadeIs
<1>5. Live(u)
  BY <1>1, <1>4, NoneIsNoPanel DEF Live
<1> QED BY <1>1, <1>4, <1>5 DEF Sound, u, v

-----------------------------------------------------------------------------
(* The handlers.                                                            *)

\* Where every panel is on the screen, one that leaves the panes has left the map.
Kept(w, u) == HasPanel(w) \subseteq Placed(w.layout) => Stays(w, u)

Good(u) == Sound(u) /\ Kept(ws, u)

LEMMA FreshIs ==
  ASSUME NEW q \in Panels, Fresh(q)
  PROVE  q \in Panels \ HasPanel(ws)
BY DEF Fresh

LEMMA InsertGood ==
  ASSUME Sound(ws), NEW q \in Panels, Fresh(q), NEW kind \in Kinds
  PROVE  LET u == Insert(ws, q, kind)
         IN  Good(u) /\ Placed(ws.layout) \subseteq Placed(u.layout) /\ HasPanel(u) \subseteq Panels
<1> DEFINE u == Insert(ws, q, kind)
<1>1. /\ Sound(u) /\ HasPanel(u) = HasPanel(ws) \cup {q} /\ u.focused = q
      /\ Placed(u.layout) = Placed(ws.layout) \cup {q}
  BY FreshIs, InsertIs DEF Sound
<1> HIDE DEF u
<1>2. HasPanel(u) \subseteq Panels
  BY <1>1, BodyIs DEF Sound
<1> QED BY <1>1, <1>2 DEF u, Good, Kept, Stays

LEMMA InsertTabGood ==
  ASSUME Sound(ws), NEW t, NEW q \in Panels, Fresh(q), NEW kind \in Kinds
  PROVE  LET u == InsertTab(ws, t, q, kind)
         IN  Good(u) /\ HasPanel(u) = HasPanel(ws) \cup {q} /\ u.focused = q
<1> DEFINE u == InsertTab(ws, t, q, kind)
<1>1. /\ Sound(u) /\ HasPanel(u) = HasPanel(ws) \cup {q} /\ u.focused = q
      /\ Placed(ws.layout) \subseteq Placed(u.layout)
      /\ u.previous = ws.focused /\ u.zoomed = ws.zoomed /\ u.closed = ws.closed
      /\ u.panels = With(ws.panels, q, kind)
      /\ u \in Workspaces
  BY FreshIs, InsertTabIs DEF Sound
<1> HIDE DEF u
<1> QED BY <1>1 DEF u, Good, Kept, Stays

LEMMA KindsAre == "terminal" \in Kinds /\ "notes" \in Kinds
BY DEF Kinds

LEMMA PaneNewGood ==
  ASSUME Sound(ws), PaneNew
  PROVE  Good(ws')
<1>1. PICK q \in Panels : Fresh(q) /\ ws' = Insert(ws, q, "terminal")
  BY DEF PaneNew, Set
<1> QED BY <1>1, InsertGood, KindsAre

LEMMA PaneSplitOffGood ==
  ASSUME Sound(ws), PaneSplitOff
  PROVE  Good(ws')
<1>1. PICK q \in Panels : Fresh(q) /\ ws' = FocusPanel(Insert(ws, q, "terminal"), ws.focused)
  BY DEF PaneSplitOff, Set
<1> DEFINE v == Insert(ws, q, "terminal")
<1>2. Good(v) /\ Placed(ws.layout) \subseteq Placed(v.layout) /\ HasPanel(v) \subseteq Panels
  BY <1>1, InsertGood, KindsAre
<1>3. ws' = FocusPanel(v, ws.focused)
  BY <1>1
<1> HIDE DEF v
<1> DEFINE fo == ws.focused
           u  == FocusPanel(v, fo)
<1>4. Sound(u) /\ HasPanel(u) = HasPanel(v) /\ Placed(u.layout) = Placed(v.layout)
  <2> HIDE DEF fo
  <2> QED BY <1>2, FocusPanelIs DEF Good
<1>5. ws' = u
  BY <1>3
<1> HIDE DEF u
<1>6. Sound(ws') /\ HasPanel(ws') = HasPanel(v) /\ Placed(ws'.layout) = Placed(v.layout)
  BY <1>4, <1>5
<1> QED BY <1>2, <1>6 DEF Good, Kept, Stays

LEMMA FocusGood ==
  ASSUME Sound(ws), NEW p, ws' = FocusPanel(ws, p)
  PROVE  Good(ws')
<1> DEFINE u == FocusPanel(ws, p)
<1>1. Sound(u) /\ HasPanel(u) = HasPanel(ws) /\ Placed(u.layout) = Placed(ws.layout)
  BY FocusPanelIs
<1>2. Sound(ws') /\ HasPanel(ws') = HasPanel(ws) /\ Placed(ws'.layout) = Placed(ws.layout)
  BY <1>1
<1> QED BY <1>2 DEF Good, Kept, Stays

LEMMA PaneFocusGood ==
  ASSUME Sound(ws), PaneFocus \/ PaneLast \/ PaneFocusDirection
  PROVE  Good(ws')
<1>1. CASE PaneFocus
  <2>1. PICK p \in HasPanel(ws) : ws' = FocusPanel(ws, p)
    BY <1>1 DEF PaneFocus, Set
  <2> QED BY <2>1, FocusGood
<1>2. CASE PaneLast
  <2>1. ws' = FocusPanel(ws, ws.previous)
    BY <1>2 DEF PaneLast, Set
  <2> QED BY <2>1, FocusGood
<1>3. CASE PaneFocusDirection
  <2>1. \E p : ws' = FocusPanel(ws, p)
    BY <1>3 DEF PaneFocusDirection, Set
  <2> QED BY <2>1, FocusGood
<1> QED BY <1>1, <1>2, <1>3

\* Swapping needs one of the two in a pane: with none there is nothing to swap.
LEMMA PaneSwapGood ==
  ASSUME Sound(ws), PaneSwap
  PROVE  Good(ws')
<1>1. PICK a, b \in HasPanel(ws) :
        /\ {a, b} \cap Placed(ws.layout) # {}
        /\ ws' = LayoutTo(ws, Swapped(ws.layout, a, b))
  BY DEF PaneSwap, Set, LayoutTo
<1> DEFINE l == Swapped(ws.layout, a, b)
           u == LayoutTo(ws, l)
<1>2. /\ LayoutOK(ws.layout) /\ Placed(ws.layout) \subseteq HasPanel(ws)
      /\ HasPanel(ws) \subseteq Panels
      /\ ws.focused # None
  BY <1>1, BodyIs DEF Sound, Live
<1>3. /\ LayoutOK(l) /\ Placed(l) \subseteq Placed(ws.layout) \cup {a, b}
      /\ {a, b} \subseteq Placed(ws.layout) => Placed(ws.layout) \subseteq Placed(l)
  <2>1. a \in Panels /\ b \in Panels
    BY <1>2
  <2> QED BY <1>2, <2>1, SwappedIs
<1>4. ws' = u
  BY <1>1
<1> HIDE DEF l
<1>5. Placed(l) \subseteq HasPanel(ws)
  BY <1>1, <1>2, <1>3
<1>6. Sound(u) /\ HasPanel(u) = HasPanel(ws) /\ u.layout = l
  BY <1>2, <1>3, <1>5, LayoutToIs
<1> HIDE DEF u
<1>7. Sound(ws') /\ HasPanel(ws') = HasPanel(ws) /\ ws'.layout = l
  BY <1>4, <1>6
<1> QED BY <1>1, <1>3, <1>7 DEF Good, Kept, Stays

LEMMA CloseTabGood ==
  ASSUME Sound(ws), NEW p, CloseTab(p)
  PROVE  Good(ws')
<1> DEFINE u == RemovePanel(ws, p)
           tabs == Tabs(ws.layout[Holding(ws.layout, p)])
<1>1. ws' = u /\ p \in HasPanel(ws)
  BY DEF CloseTab, SetOrClose
<1>2. /\ Sound(u) /\ HasPanel(u) = HasPanel(ws) \ {p}
      /\ Placed(u.layout) = Placed(ws.layout) \ {p}
      /\ ws.focused # p => u.focused = ws.focused
      /\ ws.focused = p /\ p \in Placed(ws.layout) /\ tabs # {p} => u.focused \in tabs \ {p}
  BY RemovePanelIs
<1> HIDE DEF u
<1>3. Sound(ws') /\ HasPanel(ws') = HasPanel(ws) \ {p} /\ Placed(ws'.layout) = Placed(ws.layout) \ {p}
  BY <1>1, <1>2
<1> QED BY <1>1, <1>3 DEF Good, Kept, Stays

\* The tabs on one side of p, or all but p.
Gone(tabs, at, which) ==
  CASE which = "left"   -> SubSeq(tabs, 1, at - 1)
    [] which = "right"  -> SubSeq(tabs, at + 1, Len(tabs))
    [] which = "others" -> RemoveAt(tabs, at)

LEMMA GoneIs ==
  ASSUME NEW tabs \in Seq(Panels), IsInjective(tabs), NEW at \in 1 .. Len(tabs),
         NEW which \in {"left", "right", "others"}
  PROVE  LET gone == Gone(tabs, at, which)
         IN  gone \in Seq(Panels) /\ ToSet(gone) \subseteq ToSet(tabs) \ {tabs[at]}
<1> DEFINE k == Len(tabs)
<1>1. /\ k \in Nat /\ ToSet(tabs) = {tabs[j] : j \in 1 .. k}
      /\ \A i, j \in 1 .. k : tabs[i] = tabs[j] => i = j
  BY DEF ToSet, IsInjective
<1>2. CASE which = "left"
  <2>1. 1 \in 1 .. (k + 1) /\ at - 1 \in (1 - 1) .. k
    BY <1>1
  <2>2. SubSeq(tabs, 1, at - 1) \in Seq(Panels)
    BY <1>1, <2>1, SliceIs
  <2>3. ToSet(SubSeq(tabs, 1, at - 1)) = {tabs[j] : j \in 1 .. (at - 1)}
    BY <1>1, <2>1, SliceInjective
  <2>4. \A j \in 1 .. (at - 1) : j \in 1 .. k /\ j # at
    BY <1>1
  <2>5. Gone(tabs, at, which) = SubSeq(tabs, 1, at - 1)
    BY <1>2 DEF Gone
  <2> QED BY <1>1, <2>2, <2>3, <2>4, <2>5
<1>3. CASE which = "right"
  <2>1. at + 1 \in 1 .. (k + 1) /\ k \in ((at + 1) - 1) .. k
    BY <1>1
  <2>2. SubSeq(tabs, at + 1, k) \in Seq(Panels)
    BY <1>1, <2>1, SliceIs
  <2>3. ToSet(SubSeq(tabs, at + 1, k)) = {tabs[j] : j \in (at + 1) .. k}
    BY <1>1, <2>1, SliceInjective
  <2>4. \A j \in (at + 1) .. k : j \in 1 .. k /\ j # at
    BY <1>1
  <2>5. Gone(tabs, at, which) = SubSeq(tabs, at + 1, k)
    BY <1>3 DEF Gone
  <2> QED BY <1>1, <2>2, <2>3, <2>4, <2>5
<1>4. CASE which = "others"
  <2>1. RemoveAt(tabs, at) \in Seq(Panels)
    BY RemoveAtIs
  <2>2. ToSet(RemoveAt(tabs, at)) = ToSet(tabs) \ {tabs[at]}
    BY RemoveInjective
  <2>3. Gone(tabs, at, which) = RemoveAt(tabs, at)
    BY <1>4 DEF Gone
  <2> QED BY <2>1, <2>2, <2>3
<1> QED BY <1>2, <1>3, <1>4

\* The focus of a tab that goes is on p; p and the other panes stay.
LEMMA TabCloseIs ==
  ASSUME Sound(ws), NEW p, NEW which \in {"left", "right", "others"}, TabClose(p, which)
  PROVE  \E gone \in SUBSET (Tabs(ws.layout[Holding(ws.layout, p)]) \ {p}) :
           /\ p \in Placed(ws.layout) \cap HasPanel(ws)
           /\ Sound(ws') /\ HasPanel(ws') = HasPanel(ws) \ gone
           /\ Placed(ws'.layout) = Placed(ws.layout) \ gone
           /\ ws'.focused = IF ws.focused \in gone THEN p ELSE ws.focused
<1> DEFINE pane == ws.layout[Holding(ws.layout, p)]
           tabs == pane.tabs
           at   == Position(tabs, p)
           list == Gone(tabs, at, which)
           gone == ToSet(list)
           left == FoldLeft(Forget, ws, list)
           fo   == IF left.focused \in ToSet(list) THEN p ELSE left.focused
           u    == FocusTo(left, fo)
<1>1. p \in Placed(ws.layout) \cap HasPanel(ws) /\ ws' = u
  BY DEF TabClose, Set, FocusTo, Gone
<1>2. /\ Body(ws) /\ Live(ws) /\ LayoutOK(ws.layout) /\ HasPanel(ws) \subseteq Panels
      /\ Placed(ws.layout) \subseteq HasPanel(ws)
  BY BodyIs DEF Sound
<1>3. PaneOK(pane) /\ p \in Tabs(pane)
  BY <1>1, <1>2, HoldingIs, LooseList DEF LayoutOK
<1> HIDE DEF pane
<1>4. tabs \in Seq(Panels) /\ IsInjective(tabs) /\ p \in ToSet(tabs)
  BY <1>3 DEF PaneOK, Panes, Tabs
<1>5. at \in 1 .. Len(tabs) /\ tabs[at] = p
  BY <1>4, PositionIs
<1> HIDE DEF at
<1>6. list \in Seq(Panels) /\ gone \subseteq ToSet(tabs) \ {p}
  <2>1. list \in Seq(Panels) /\ ToSet(list) \subseteq ToSet(tabs) \ {tabs[at]}
    BY <1>4, <1>5, GoneIs
  <2> QED BY <1>5, <2>1
<1> HIDE DEF list, tabs
<1>7. /\ Body(left) /\ HasPanel(left) = HasPanel(ws) \ gone
      /\ Placed(left.layout) = Placed(ws.layout) \ gone
      /\ left.focused = ws.focused
  BY <1>2, <1>6, AllForgotten
<1> HIDE DEF left, gone
<1>8. fo = IF ws.focused \in gone THEN p ELSE ws.focused
  BY <1>7 DEF gone
<1> HIDE DEF fo
<1>9. IF fo = None THEN Placed(left.layout) = {} ELSE fo \in HasPanel(left)
  BY <1>1, <1>2, <1>6, <1>7, <1>8, NoneIsNoPanel DEF Live
<1>10. Sound(u) /\ HasPanel(u) = HasPanel(left) /\ u.layout = left.layout /\ u.focused = fo
  BY <1>7, <1>9, FocusToIs
<1> HIDE DEF u
<1>11. /\ Sound(ws') /\ HasPanel(ws') = HasPanel(ws) \ gone
       /\ Placed(ws'.layout) = Placed(ws.layout) \ gone
       /\ ws'.focused = IF ws.focused \in gone THEN p ELSE ws.focused
  BY <1>1, <1>7, <1>8, <1>10
<1>12. gone \in SUBSET (Tabs(pane) \ {p})
  BY <1>6 DEF tabs, Tabs
<1> QED BY <1>1, <1>11, <1>12 DEF pane

LEMMA TabCloseGood ==
  ASSUME Sound(ws), NEW p, NEW which \in {"left", "right", "others"}, TabClose(p, which)
  PROVE  Good(ws')
<1>1. PICK gone \in SUBSET (Tabs(ws.layout[Holding(ws.layout, p)]) \ {p}) :
           /\ p \in Placed(ws.layout) \cap HasPanel(ws)
           /\ Sound(ws') /\ HasPanel(ws') = HasPanel(ws) \ gone
           /\ Placed(ws'.layout) = Placed(ws.layout) \ gone
           /\ ws'.focused = IF ws.focused \in gone THEN p ELSE ws.focused
  BY SMTT(40), TabCloseIs
<1>2. Placed(ws.layout) \subseteq HasPanel(ws)
  BY BodyIs DEF Sound
<1> DEFINE P == Placed(ws.layout)
           H == HasPanel(ws)
<1>3. Placed(ws'.layout) = P \ gone /\ HasPanel(ws') = H \ gone /\ P \subseteq H
  BY <1>1, <1>2
<1>4. P \ (P \ gone) \subseteq H \ (H \ gone)
  <2> HIDE DEF P, H
  <2> QED BY <1>3
<1>5. Stays(ws, ws') = (P \ Placed(ws'.layout) \subseteq H \ HasPanel(ws'))
  BY Zenon DEF Stays
<1> HIDE DEF P, H
<1>6. Stays(ws, ws')
  BY <1>3, <1>4, <1>5, Zenon
<1> QED BY <1>1, <1>6, Zenon DEF Good, Kept

LEMMA NewTabGood ==
  ASSUME Sound(ws), TabDuplicate \/ NewTerminalButton
  PROVE  Good(ws')
<1>1. \E t : \E q \in Panels : Fresh(q) /\ ws' = InsertTab(ws, t, q, "terminal")
  BY DEF TabDuplicate, NewTerminalButton, Set
<1>2. PICK t : \E q \in Panels : Fresh(q) /\ ws' = InsertTab(ws, t, q, "terminal")
  BY <1>1
<1>3. PICK q \in Panels : Fresh(q) /\ ws' = InsertTab(ws, t, q, "terminal")
  BY <1>2
<1> DEFINE u == InsertTab(ws, t, q, "terminal")
<1>4. Good(u) /\ HasPanel(u) = HasPanel(ws) \cup {q} /\ u.focused = q
  BY <1>3, InsertTabGood, KindsAre
<1> QED BY <1>3, <1>4

\* Where the focus is in no pane, the new panel becomes the layout: every pane goes,
\* and with it the panels in it, unless there was none.
LEMMA SurfaceCreateGood ==
  ASSUME Sound(ws), SurfaceCreate
  PROVE  Good(ws')
<1>1. PICK q \in Panels :
        /\ Fresh(q)
        /\ ws' = IF ws.focused \in Placed(ws.layout) THEN InsertTab(ws, ws.focused, q, "terminal")
                 ELSE LayoutTo(InsertTab(ws, ws.focused, q, "terminal"), <<PaneOf(q)>>)
  BY DEF SurfaceCreate, Set, LayoutTo
<1> DEFINE fo == ws.focused
           v  == InsertTab(ws, fo, q, "terminal")
           l  == <<PaneOf(q)>>
           u  == LayoutTo(v, l)
<1>2. Good(v) /\ HasPanel(v) = HasPanel(ws) \cup {q} /\ v.focused = q
  <2> HIDE DEF fo
  <2> QED BY <1>1, InsertTabGood, KindsAre
<1>3. CASE ws.focused \in Placed(ws.layout)
  BY <1>1, <1>2, <1>3
<1>4. CASE ws.focused \notin Placed(ws.layout)
  <2>1. LayoutOK(l) /\ Placed(l) = {q}
    BY WholeIs
  <2>2. ws' = u
    BY <1>1, <1>4
  <2> HIDE DEF v, l
  <2>3. Sound(v) /\ Placed(l) \subseteq HasPanel(v) /\ v.focused # None
    BY <1>2, <2>1, NoneIsNoPanel DEF Good
  <2>4. Sound(u) /\ HasPanel(u) = HasPanel(v) /\ u.layout = l
    BY <2>1, <2>3, LayoutToIs
  <2> HIDE DEF u
  <2>5. Sound(ws') /\ HasPanel(ws') = HasPanel(ws) \cup {q} /\ ws'.layout = l
    BY <1>2, <2>2, <2>4
  <2>6. HasPanel(ws) \subseteq Placed(ws.layout) => Placed(ws.layout) = {}
    BY <1>4 DEF Sound, Live
  <2> QED BY <2>5, <2>6 DEF Good, Kept, Stays
<1> QED BY <1>3, <1>4

LEMMA SurfaceReorderGood ==
  ASSUME Sound(ws), SurfaceReorder
  PROVE  Good(ws')
<1>1. PICK p \in Placed(ws.layout), index \in 0 .. Cardinality(Panels) :
        ws' = LayoutTo(ws, Reordered(ws.layout, p, index))
  BY DEF SurfaceReorder, Set, LayoutTo
<1> DEFINE l == Reordered(ws.layout, p, index)
           u == LayoutTo(ws, l)
<1>2. index \in Nat
  <2>1. Cardinality(Panels) \in Nat
    BY PanelsAreFinite, FS_CardinalityType
  <2> QED BY <2>1
<1>3. /\ LayoutOK(ws.layout) /\ Placed(ws.layout) \subseteq HasPanel(ws)
      /\ ws.focused # None
  BY BodyIs DEF Sound, Live
<1>4. LayoutOK(l) /\ Placed(l) = Placed(ws.layout)
  BY <1>2, <1>3, ReorderedIs
<1>5. ws' = u
  BY <1>1
<1> HIDE DEF l
<1>6. Placed(l) \subseteq HasPanel(ws)
  BY <1>3, <1>4
<1>7. Sound(u) /\ HasPanel(u) = HasPanel(ws) /\ u.layout = l
  BY <1>3, <1>4, <1>6, LayoutToIs
<1> HIDE DEF u
<1>8. Sound(ws') /\ HasPanel(ws') = HasPanel(ws) /\ ws'.layout = l
  BY <1>5, <1>7
<1> QED BY <1>4, <1>8 DEF Good, Kept, Stays

\* A dragged tab is taken out and put back: it is lost when its target is in no pane.
LEMMA DragGood ==
  ASSUME Sound(ws), NEW p \in HasPanel(ws), NEW t, NEW l, LayoutOK(l),
         LET taken == Taken(ws.layout, p)
         IN  Placed(l) = IF t \in Placed(taken) THEN Placed(taken) \cup {p} ELSE Placed(taken),
         t # p, t \in HasPanel(ws) \/ t \in Placed(Taken(ws.layout, p)),
         \/ ws' = FocusMoved(LayoutTo(ws, l), p)
         \/ p \notin Placed(l) /\ ws' = LayoutTo(ws, l)
  PROVE  Good(ws')
<1> DEFINE taken == Taken(ws.layout, p)
<1>1. LayoutOK(ws.layout) /\ Placed(ws.layout) \subseteq HasPanel(ws)
  BY BodyIs DEF Sound
<1>2. Placed(taken) = Placed(ws.layout) \ {p}
  BY <1>1, TakenIs
<1>3. Placed(l) = IF t \in Placed(taken) THEN Placed(taken) \cup {p} ELSE Placed(taken)
  OBVIOUS
<1> HIDE DEF taken
<1>4. Placed(l) \subseteq HasPanel(ws)
  BY <1>1, <1>2, <1>3
<1>5. HasPanel(ws) \subseteq Placed(ws.layout) => Placed(ws.layout) \subseteq Placed(l)
  BY <1>2, <1>3 DEF taken
<1>6. Sound(ws') /\ HasPanel(ws') = HasPanel(ws) /\ ws'.layout = l
  <2>1. CASE ws' = FocusMoved(LayoutTo(ws, l), p)
    <3> DEFINE u == FocusMoved(LayoutTo(ws, l), p)
    <3>1. Sound(u) /\ HasPanel(u) = HasPanel(ws) /\ u.layout = l
      BY <1>4, MovedToIs
    <3> QED BY <2>1, <3>1
  <2>2. CASE p \notin Placed(l) /\ ws' = LayoutTo(ws, l)
    <3> DEFINE u == LayoutTo(ws, l)
    <3>1. ws.focused = None => Placed(l) = {}
      BY <1>2, <1>3, <2>2 DEF Sound, Live
    <3>2. Sound(u) /\ HasPanel(u) = HasPanel(ws) /\ u.layout = l /\ u.focused = ws.focused
      BY <1>4, <3>1, LayoutToIs
    <3> QED BY <2>2, <3>2
  <2> QED BY <2>1, <2>2
<1> QED BY <1>5, <1>6 DEF Good, Kept, Stays

LEMMA DragToSplitGood ==
  ASSUME Sound(ws), SurfaceDragToSplit
  PROVE  Good(ws')
<1>1. PICK p \in HasPanel(ws), before \in BOOLEAN :
        LET t == IF ws.focused # p THEN ws.focused ELSE First(Taken(ws.layout, p))
        IN  /\ t # None
            /\ ws' = FocusMoved(LayoutTo(ws, SplitBeside(Taken(ws.layout, p), t, p, before)), p)
  BY DEF SurfaceDragToSplit, Set, LayoutTo
<1> DEFINE taken == Taken(ws.layout, p)
           t == IF ws.focused # p THEN ws.focused ELSE First(taken)
           l == SplitBeside(taken, t, p, before)
<1>2. LayoutOK(ws.layout) /\ HasPanel(ws) \subseteq Panels
  BY BodyIs DEF Sound
<1>3. LayoutOK(taken) /\ Placed(taken) = Placed(ws.layout) \ {p}
  BY <1>2, TakenIs
<1>4. t # None /\ ws' = FocusMoved(LayoutTo(ws, l), p)
  BY <1>1
<1> HIDE DEF taken
<1>5. IF Placed(taken) = {} THEN First(taken) = None ELSE First(taken) \in Placed(taken)
  BY <1>3, FirstIs
<1>6. t # p /\ (t \in HasPanel(ws) \/ t \in Placed(taken))
  BY <1>3, <1>4, <1>5 DEF Sound, Live
<1> HIDE DEF t
<1>7. LayoutOK(l) /\ Placed(l) = IF t \in Placed(taken) THEN Placed(taken) \cup {p} ELSE Placed(taken)
  <2>1. p \in Panels \ Placed(taken)
    BY <1>2, <1>3
  <2> QED BY <1>3, <2>1, SplitBesideIs
<1> HIDE DEF l
<1> QED BY <1>4, <1>6, <1>7, DragGood DEF taken

LEMMA MovePanelGood ==
  ASSUME Sound(ws), MovePanelToPane
  PROVE  Good(ws')
<1>1. PICK p, t \in HasPanel(ws) :
        LET l == AddTab(Taken(ws.layout, p), t, p)
        IN  /\ p # t
            /\ ws' = IF p \in Placed(l) THEN FocusMoved(LayoutTo(ws, l), p) ELSE LayoutTo(ws, l)
  BY DEF MovePanelToPane, Set, LayoutTo
<1> DEFINE taken == Taken(ws.layout, p)
           l == AddTab(taken, t, p)
<1>2. LayoutOK(ws.layout) /\ HasPanel(ws) \subseteq Panels
  BY BodyIs DEF Sound
<1>3. LayoutOK(taken) /\ Placed(taken) = Placed(ws.layout) \ {p}
  BY <1>2, TakenIs
<1>4. /\ p # t
      /\ \/ ws' = FocusMoved(LayoutTo(ws, l), p)
         \/ p \notin Placed(l) /\ ws' = LayoutTo(ws, l)
  BY <1>1
<1> HIDE DEF taken
<1>5. LayoutOK(l) /\ Placed(l) = IF t \in Placed(taken) THEN Placed(taken) \cup {p} ELSE Placed(taken)
  <2>1. p \in Panels \ Placed(taken)
    BY <1>2, <1>3
  <2> QED BY <1>3, <2>1, AddTabIs
<1> HIDE DEF l
<1> QED BY <1>4, <1>5, DragGood DEF taken

LEMMA SplitIntoPaneGood ==
  ASSUME Sound(ws), SplitPanelIntoPane
  PROVE  Good(ws')
<1>1. PICK p, t \in HasPanel(ws), before \in BOOLEAN :
        LET l == SplitBeside(Taken(ws.layout, p), t, p, before)
        IN  /\ p # t
            /\ ws' = IF p \in Placed(l) THEN FocusMoved(LayoutTo(ws, l), p) ELSE LayoutTo(ws, l)
  BY DEF SplitPanelIntoPane, Set, LayoutTo
<1> DEFINE taken == Taken(ws.layout, p)
           l == SplitBeside(taken, t, p, before)
<1>2. LayoutOK(ws.layout) /\ HasPanel(ws) \subseteq Panels
  BY BodyIs DEF Sound
<1>3. LayoutOK(taken) /\ Placed(taken) = Placed(ws.layout) \ {p}
  BY <1>2, TakenIs
<1>4. /\ p # t
      /\ \/ ws' = FocusMoved(LayoutTo(ws, l), p)
         \/ p \notin Placed(l) /\ ws' = LayoutTo(ws, l)
  BY <1>1
<1> HIDE DEF taken
<1>5. LayoutOK(l) /\ Placed(l) = IF t \in Placed(taken) THEN Placed(taken) \cup {p} ELSE Placed(taken)
  <2>1. p \in Panels \ Placed(taken)
    BY <1>2, <1>3
  <2> QED BY <1>3, <2>1, SplitBesideIs
<1> HIDE DEF l
<1> QED BY <1>4, <1>5, DragGood DEF taken

LEMMA PanelLeavesGood ==
  ASSUME Sound(ws), PanelLeaves
  PROVE  Good(ws')
<1>1. PICK p \in HasPanel(ws) : ws' = DetachPanel(ws, p)
  BY DEF PanelLeaves, SetOrClose
<1> DEFINE u == DetachPanel(ws, p)
<1>2. Sound(u) /\ HasPanel(u) = HasPanel(ws) \ {p} /\ Placed(u.layout) = Placed(ws.layout) \ {p}
  BY DetachPanelIs
<1>3. ws' = u
  BY <1>1
<1> HIDE DEF u
<1>4. Sound(ws') /\ HasPanel(ws') = HasPanel(ws) \ {p} /\ Placed(ws'.layout) = Placed(ws.layout) \ {p}
  BY <1>2, <1>3
<1> QED BY <1>4 DEF Good, Kept, Stays

LEMMA PanelArrivesGood ==
  ASSUME Sound(ws), PanelArrives
  PROVE  Good(ws')
<1>1. PICK q \in Panels, k \in Kinds : Fresh(q) /\ ws' = Insert(ws, q, k)
  BY DEF PanelArrives, Set
<1> DEFINE u == Insert(ws, q, k)
<1>2. Good(u) /\ Placed(ws.layout) \subseteq Placed(u.layout) /\ HasPanel(u) \subseteq Panels
  BY <1>1, InsertGood
<1> QED BY <1>1, <1>2

LEMMA ReopenGood ==
  ASSUME Sound(ws), ReopenClosedTab
  PROVE  Good(ws')
<1>1. PICK q \in Panels : Fresh(q) /\ ws' = ReopenLastClosedPanel(ws, q)
  BY DEF ReopenClosedTab, Set
<1> DEFINE u == ReopenLastClosedPanel(ws, q)
<1>2. Sound(u) /\ HasPanel(u) = HasPanel(ws) \cup {q} /\ Placed(ws.layout) \subseteq Placed(u.layout)
  <2>1. ws.closed # <<>> /\ q \in Panels \ HasPanel(ws)
    BY <1>1, FreshIs DEF ReopenClosedTab
  <2> QED BY <2>1, ReopenIs
<1>3. ws' = u
  BY <1>1
<1> HIDE DEF u
<1> QED BY <1>2, <1>3 DEF Good, Kept, Stays

LEMMA ToggleZoomGood ==
  ASSUME Sound(ws), ToggleZoom
  PROVE  Good(ws')
<1>1. PICK p \in HasPanel(ws) : ws' = ZoomTo(ws, IF ws.zoomed = p THEN None ELSE p)
  BY DEF ToggleZoom, Set, ZoomTo
<1> DEFINE zo == IF ws.zoomed = p THEN None ELSE p
           u  == ZoomTo(ws, zo)
<1>2. zo \in Maybe
  BY BodyIs DEF Sound, Maybe
<1>3. ws' = u
  BY <1>1
<1> HIDE DEF zo
<1>4. Sound(u) /\ HasPanel(u) = HasPanel(ws) /\ u.layout = ws.layout
  BY <1>2, ZoomToIs
<1> HIDE DEF u
<1> QED BY <1>3, <1>4 DEF Good, Kept, Stays

LEMMA ToggleNotesGood ==
  ASSUME Sound(ws), ToggleNotes
  PROVE  Good(ws')
<1> DEFINE notes == {p \in HasPanel(ws) : ws.panels[p] = "notes"}
<1>1. CASE \E q \in Panels : Fresh(q) /\ Set(Insert(ws, q, "notes"))
  <2>1. PICK q \in Panels : Fresh(q) /\ ws' = Insert(ws, q, "notes")
    BY <1>1 DEF Set
  <2> DEFINE u == Insert(ws, q, "notes")
  <2>2. Good(u) /\ Placed(ws.layout) \subseteq Placed(u.layout) /\ HasPanel(u) \subseteq Panels
    BY <2>1, InsertGood, KindsAre
  <2> QED BY <2>1, <2>2
<1>2. CASE \E order \in SetToSeqs(notes) : Set(FoldLeft(RemovePanel, ws, order))
  <2>1. PICK order \in SetToSeqs(notes) : ws' = FoldLeft(RemovePanel, ws, order)
    BY <1>2 DEF Set
  <2>2. notes \subseteq HasPanel(ws) /\ HasPanel(ws) \subseteq Panels /\ IsFiniteSet(notes)
    <3>1. notes \subseteq HasPanel(ws) /\ HasPanel(ws) \subseteq Panels
      BY BodyIs DEF Sound
    <3> HIDE DEF notes
    <3>2. notes \subseteq Panels
      BY <3>1
    <3> QED BY <3>1, <3>2, PanelsAreFinite, FS_Subset
  <2> HIDE DEF notes
  <2>3. order \in Seq(Panels) /\ ToSet(order) \subseteq notes
    <3> DEFINE n == Cardinality(notes)
    <3>1. n \in Nat
      BY <2>2, FS_CardinalityType
    <3>2. order \in [1 .. n -> notes]
      BY DEF SetToSeqs
    <3> HIDE DEF n
    <3> QED BY <2>2, <3>1, <3>2 DEF ToSet
  <2> DEFINE u == FoldLeft(RemovePanel, ws, order)
  <2>4. /\ Sound(u) /\ HasPanel(u) = HasPanel(ws) \ ToSet(order)
        /\ Placed(u.layout) = Placed(ws.layout) \ ToSet(order)
    BY <2>3, AllRemoved
  <2>5. ws' = u
    BY <2>1
  <2> HIDE DEF u
  <2>6. /\ Sound(ws') /\ HasPanel(ws') = HasPanel(ws) \ ToSet(order)
        /\ Placed(ws'.layout) = Placed(ws.layout) \ ToSet(order)
    BY <2>4, <2>5
  <2> QED BY <2>2, <2>3, <2>6 DEF Good, Kept, Stays
<1>3. \/ \E q \in Panels : Fresh(q) /\ Set(Insert(ws, q, "notes"))
      \/ \E order \in SetToSeqs(notes) : Set(FoldLeft(RemovePanel, ws, order))
  BY DEF ToggleNotes
<1> QED BY <1>1, <1>2, <1>3

LEMMA OpenFileGood ==
  ASSUME Sound(ws), OpenFile \/ OpenBeside
  PROVE  Good(ws')
<1>1. \E q \in Panels, k \in Kinds :
        Fresh(q) /\ (ws' = Insert(ws, q, k) \/ \E t : ws' = InsertTab(ws, t, q, k))
  BY KindsAre DEF OpenFile, OpenBeside, Set
<1>2. PICK q \in Panels, k \in Kinds :
        Fresh(q) /\ (ws' = Insert(ws, q, k) \/ \E t : ws' = InsertTab(ws, t, q, k))
  BY <1>1
<1>3. CASE ws' = Insert(ws, q, k)
  <2> DEFINE u == Insert(ws, q, k)
  <2>1. Good(u) /\ Placed(ws.layout) \subseteq Placed(u.layout) /\ HasPanel(u) \subseteq Panels
    BY <1>2, InsertGood
  <2> QED BY <1>3, <2>1
<1>4. CASE \E t : ws' = InsertTab(ws, t, q, k)
  <2>1. PICK t : ws' = InsertTab(ws, t, q, k)
    BY <1>4
  <2> DEFINE u == InsertTab(ws, t, q, k)
  <2>2. Good(u) /\ HasPanel(u) = HasPanel(ws) \cup {q} /\ u.focused = q
    BY <1>2, InsertTabGood
  <2> QED BY <2>1, <2>2
<1> QED BY <1>2, <1>3, <1>4

\* A new workspace: one terminal in one pane.
LEMMA NewWorkspaceIs ==
  ASSUME NEW p \in Panels
  PROVE  LET u == NewWorkspace(p)
         IN  Sound(u) /\ HasPanel(u) = {p} /\ Placed(u.layout) = {p}
<1> DEFINE u == NewWorkspace(p)
           f == [q \in {p} |-> "terminal"]
           l == <<PaneOf(p)>>
           S == {p}
           c == <<>>
<1>1. f \in PanelMaps /\ DOMAIN f = S
  <2>1. S \in SUBSET Panels /\ f \in [S -> Kinds]
    BY KindsAre
  <2> HIDE DEF f, S
  <2> QED BY <2>1, MapOf
<1>2. LayoutOK(l) /\ Placed(l) = {p}
  BY WholeIs
<1>3. u = Made(f, l, p, None, None, c)
  BY DEF NewWorkspace, Made
<1>4. c \in Seq(Kinds) /\ Len(c) <= ClosedCap
  BY CapIsNatural
<1>5. p \in Maybe /\ None \in Maybe
  BY DEF Maybe
<1>6. Placed(l) \subseteq DOMAIN f
  BY <1>1, <1>2
<1> HIDE DEF u, f, l, c
<1>7. Body(u) /\ HasPanel(u) = DOMAIN f /\ u.layout = l /\ u.focused = p
  BY <1>1, <1>2, <1>3, <1>4, <1>5, <1>6, MadeIs
<1>8. HasPanel(u) = {p} /\ Placed(u.layout) = {p}
  BY <1>1, <1>2, <1>7
<1>9. Live(u)
  BY <1>7, <1>8, NoneIsNoPanel DEF Live
<1> QED BY <1>7, <1>8, <1>9 DEF Sound, u

LEMMA WorkspaceNewGood ==
  ASSUME Sound(ws), WorkspaceNew
  PROVE  Good(ws')
<1>1. PICK p \in Panels : ws' = NewWorkspace(p)
  BY DEF WorkspaceNew
<1> DEFINE u == NewWorkspace(p)
<1>2. Sound(u) /\ HasPanel(u) = {p} /\ Placed(u.layout) = {p}
  BY NewWorkspaceIs
<1>3. Placed(ws.layout) \subseteq HasPanel(ws)
  BY BodyIs DEF Sound
<1>4. ws' = u
  BY <1>1
<1> HIDE DEF u
<1> QED BY <1>2, <1>3, <1>4 DEF Good, Kept, Stays

-----------------------------------------------------------------------------
(* The inductive invariant.                                                 *)

IInv ==
  /\ Sound(ws)
  /\ open \in BOOLEAN
  /\ page \subseteq Panels

LEMMA InitIs ==
  ASSUME Init
  PROVE  IInv
<1>1. PICK p \in Panels : ws = NewWorkspace(p) /\ page = {p}
  BY DEF Init
<1> DEFINE u == NewWorkspace(p)
<1>2. Sound(u) /\ HasPanel(u) = {p} /\ Placed(u.layout) = {p}
  BY NewWorkspaceIs
<1>3. ws = u
  BY <1>1
<1> HIDE DEF u
<1> QED BY <1>1, <1>2, <1>3 DEF IInv, Init

\* Every handler leaves the workspace sound, and the panels where they can be seen.
LEMMA StepIsGood ==
  ASSUME IInv, Next, ~RebuildContent
  PROVE  Good(ws')
<1>1. Sound(ws)
  BY DEF IInv
<1>2. CASE PaneStep
  <2>1. CASE PaneNew
    BY <1>1, <2>1, PaneNewGood
  <2>2. CASE PaneSplitOff
    BY <1>1, <2>2, PaneSplitOffGood
  <2>3. CASE PaneFocus \/ PaneLast \/ PaneFocusDirection
    BY <1>1, <2>3, PaneFocusGood
  <2>4. CASE PaneSwap
    BY <1>1, <2>4, PaneSwapGood
  <2>5. CASE \E p \in Panels : CloseTab(p)
    BY <1>1, <2>5, CloseTabGood
  <2>6. CASE \E p \in Panels, which \in {"left", "right", "others"} : TabClose(p, which)
    <3>1. PICK p \in Panels, which \in {"left", "right", "others"} : TabClose(p, which)
      BY <2>6
    <3> QED BY <1>1, <3>1, TabCloseGood
  <2> QED BY <1>2, <2>1, <2>2, <2>3, <2>4, <2>5, <2>6 DEF PaneStep
<1>3. CASE SurfaceStep
  <2>1. CASE TabDuplicate \/ NewTerminalButton
    BY <1>1, <2>1, NewTabGood
  <2>2. CASE SurfaceCreate
    BY <1>1, <2>2, SurfaceCreateGood
  <2>3. CASE SurfaceReorder
    BY <1>1, <2>3, SurfaceReorderGood
  <2>4. CASE SurfaceDragToSplit
    BY <1>1, <2>4, DragToSplitGood
  <2>5. CASE MovePanelToPane
    BY <1>1, <2>5, MovePanelGood
  <2>6. CASE SplitPanelIntoPane
    BY <1>1, <2>6, SplitIntoPaneGood
  <2>7. CASE PanelLeaves
    BY <1>1, <2>7, PanelLeavesGood
  <2>8. CASE PanelArrives
    BY <1>1, <2>8, PanelArrivesGood
  <2>9. CASE ReopenClosedTab
    BY <1>1, <2>9, ReopenGood
  <2> QED BY <1>3, <2>1, <2>2, <2>3, <2>4, <2>5, <2>6, <2>7, <2>8, <2>9 DEF SurfaceStep
<1>4. CASE WindowStep
  <2>1. CASE ToggleZoom
    BY <1>1, <2>1, ToggleZoomGood
  <2>2. CASE ToggleNotes
    BY <1>1, <2>2, ToggleNotesGood
  <2>3. CASE OpenFile \/ OpenBeside
    BY <1>1, <2>3, OpenFileGood
  <2>4. CASE WorkspaceNew
    BY <1>1, <2>4, WorkspaceNewGood
  <2> QED BY <1>4, <2>1, <2>2, <2>3, <2>4 DEF WindowStep
<1> QED BY <1>2, <1>3, <1>4 DEF Next

\* What is not the workspace: the page's tabs and whether it is open.
LEMMA FrameIs ==
  ASSUME IInv, Next
  PROVE  open' \in BOOLEAN /\ page' \subseteq Panels
<1>1. CASE PaneStep
  <2>1. page' = page /\ (open' = open \/ open' = (HasPanel(ws') # {}))
    <3>1. CASE PaneNew \/ PaneSplitOff \/ PaneFocus \/ PaneLast
      BY <3>1 DEF PaneNew, PaneSplitOff, PaneFocus, PaneLast, Set
    <3>2. CASE PaneFocusDirection \/ PaneSwap
      BY <3>2 DEF PaneFocusDirection, PaneSwap, Set
    <3>3. CASE \E p \in Panels : CloseTab(p)
      BY <3>3 DEF CloseTab, SetOrClose
    <3>4. CASE \E p \in Panels, which \in {"left", "right", "others"} : TabClose(p, which)
      BY <3>4 DEF TabClose, Set
    <3> QED BY <1>1, <3>1, <3>2, <3>3, <3>4 DEF PaneStep
  <2> QED BY <2>1 DEF IInv
<1>2. CASE SurfaceStep
  <2>1. page' = page /\ (open' = open \/ open' = (HasPanel(ws') # {}))
    <3>1. CASE TabDuplicate \/ NewTerminalButton
      BY <3>1 DEF TabDuplicate, NewTerminalButton, Set
    <3>2. CASE SurfaceCreate \/ SurfaceReorder
      BY <3>2 DEF SurfaceCreate, SurfaceReorder, Set
    <3>3. CASE SurfaceDragToSplit \/ MovePanelToPane \/ SplitPanelIntoPane
      BY <3>3 DEF SurfaceDragToSplit, MovePanelToPane, SplitPanelIntoPane, Set
    <3>4. CASE PanelLeaves \/ PanelArrives \/ ReopenClosedTab
      BY <3>4 DEF PanelLeaves, PanelArrives, ReopenClosedTab, Set, SetOrClose
    <3> QED BY <1>2, <3>1, <3>2, <3>3, <3>4 DEF SurfaceStep
  <2> QED BY <2>1 DEF IInv
<1>3. CASE ToggleZoom \/ ToggleNotes \/ OpenFile \/ OpenBeside
  BY <1>3 DEF ToggleZoom, ToggleNotes, OpenFile, OpenBeside, Set, IInv
<1>4. CASE RebuildContent
  <2>1. /\ open' = open
        /\ page' = IF ws.zoomed # None THEN {}
                   ELSE {ws.layout[i].sel : i \in DOMAIN ws.layout} \ {None}
    BY <1>4 DEF RebuildContent
  <2>2. Loose(ws.layout)
    BY BodyIs DEF IInv, Sound, LayoutOK
  <2>3. \A i \in DOMAIN ws.layout : ws.layout[i].sel \in Maybe
    BY <2>2, LooseList DEF PaneOK, Panes
  <2> QED BY <2>1, <2>3 DEF IInv, Maybe
<1>5. CASE WorkspaceNew
  BY <1>5 DEF WorkspaceNew
<1> QED BY <1>1, <1>2, <1>3, <1>4, <1>5 DEF Next, WindowStep

LEMMA StepIs ==
  ASSUME IInv, [Next]_vars
  PROVE  IInv'
<1>1. CASE UNCHANGED vars
  <2>1. ws' = ws /\ open' = open /\ page' = page
    BY <1>1 DEF vars
  <2> QED BY <2>1 DEF IInv
<1>2. CASE Next /\ RebuildContent
  <2>1. ws' = ws
    BY <1>2 DEF RebuildContent
  <2> QED BY <1>2, <2>1, FrameIs DEF IInv
<1>3. CASE Next /\ ~RebuildContent
  <2>1. Good(ws')
    BY <1>3, StepIsGood
  <2> QED BY <1>3, <2>1, FrameIs DEF IInv, Good
<1> QED BY <1>1, <1>2, <1>3

\* In every reachable state the layout tree is one of distinct live tabs, each pane
\* with a tab to show, and the focus is on a panel of the map (model/workspace.rs).
THEOREM Inductive == Spec => []IInv
<1>1. Init => IInv
  BY InitIs
<1>2. IInv /\ [Next]_vars => IInv'
  BY StepIs
<1> QED BY <1>1, <1>2, PTL DEF Spec

-----------------------------------------------------------------------------
(* What the runs check, for every set of panels and every cap.              *)

LEMMA TypeFollows ==
  ASSUME IInv
  PROVE  TypeOK
<1>1. /\ ws.panels \in PanelMaps /\ ws.layout \in Seq(Panes)
      /\ ws.focused \in Maybe /\ ws.previous \in Maybe /\ ws.zoomed \in Maybe
      /\ ws.closed \in Seq(Kinds) /\ Len(ws.closed) <= ClosedCap
  BY BodyIs DEF IInv, Sound
<1>2. open \in BOOLEAN /\ page \subseteq Panels
  BY DEF IInv
<1>3. ws.panels \in UNION {[S -> Kinds] : S \in SUBSET Panels}
  BY <1>1 DEF PanelMaps
<1>4. ws.layout \in Seq([tabs : Seq(Panels), sel : Maybe])
  BY <1>1 DEF Panes
<1> QED BY <1>1, <1>2, <1>3, <1>4 DEF TypeOK

\* Each variable keeps its type, and the closed list its cap (remember_closed_panel).
THEOREM TypeCorrect == Spec => []TypeOK
BY Inductive, TypeFollows, PTL

LEMMA TabsFollow ==
  ASSUME IInv
  PROVE  NoTabTwiceNorDead
<1> DEFINE l == ws.layout
<1>1. LayoutOK(l) /\ Placed(l) \subseteq HasPanel(ws)
  BY BodyIs DEF IInv, Sound
<1>2. /\ DOMAIN l = 1 .. Len(l) /\ Len(l) \in Nat
      /\ \A i \in 1 .. Len(l) : PaneOK(l[i]) /\ Tabs(l[i]) \subseteq Placed(l)
  BY <1>1, LooseList DEF LayoutOK
<1>3. \A i, j \in 1 .. Len(l) : i # j => Tabs(l[i]) \cap Tabs(l[j]) = {}
  BY <1>1 DEF LayoutOK, Loose
<1> SUFFICES ASSUME NEW i \in DOMAIN l, NEW j \in DOMAIN l,
                    NEW m \in DOMAIN l[i].tabs, NEW n \in DOMAIN l[j].tabs,
                    l[i].tabs[m] = l[j].tabs[n]
             PROVE  i = j /\ m = n
  BY <1>1 DEF NoTabTwiceNorDead
<1>4. l[i].tabs[m] \in Tabs(l[i]) /\ l[j].tabs[n] \in Tabs(l[j])
  BY DEF Tabs, ToSet
<1>5. i = j
  BY <1>2, <1>3, <1>4
<1>6. IsInjective(l[i].tabs)
  BY <1>2 DEF PaneOK
<1> QED BY <1>5, <1>6 DEF IsInjective

\* No handler puts a panel into the tree twice or leaves a tab of a panel that is
\* gone: split, drag, swap, close and reopen keep the tree and the map together.
THEOREM TabsAreOnceAndLive == Spec => []NoTabTwiceNorDead
BY Inductive, TabsFollow, PTL

LEMMA ShownFollows ==
  ASSUME IInv
  PROVE  PanesShowATab
<1> DEFINE l == ws.layout
<1>1. LayoutOK(l)
  BY BodyIs DEF IInv, Sound
<1>2. /\ DOMAIN l = 1 .. Len(l)
      /\ \A i \in 1 .. Len(l) : PaneOK(l[i])
  BY <1>1, LooseList DEF LayoutOK
<1>3. \A i, j \in 1 .. Len(l) : Tabs(l[i]) = {} /\ Tabs(l[j]) = {} => i = j
  BY <1>1 DEF LayoutOK
<1>4. \A i \in 1 .. Len(l) : l[i].tabs = <<>> => Tabs(l[i]) = {}
  BY <1>2, NoTabs
<1>5. \A i \in 1 .. Len(l) : IF l[i].tabs = <<>> THEN l[i].sel = None
                             ELSE l[i].sel \in ToSet(l[i].tabs)
  BY <1>2 DEF PaneOK, Tabs
<1>6. \A i, j \in 1 .. Len(l) : l[i].tabs = <<>> /\ l[j].tabs = <<>> => i = j
  BY <1>3, <1>4
<1> QED BY <1>2, <1>5, <1>6 DEF PanesShowATab

\* A pane shows one of its own tabs whatever was closed or dragged out of it, and
\* no removal leaves an empty pane behind the first (LayoutNode::remove_panel).
THEOREM EveryPaneShowsATab == Spec => []PanesShowATab
BY Inductive, ShownFollows, PTL

LEMMA FocusFollows ==
  ASSUME IInv
  PROVE  FocusIsLive
BY DEF IInv, Sound, Live, FocusIsLive

\* The focus is on a panel of the workspace, and somewhere as long as a pane has a
\* tab: remove_panel and detach_panel find it a new place before the old one goes.
THEOREM TheFocusIsLive == Spec => []FocusIsLive
BY Inductive, FocusFollows, PTL

LEMMA StepKeepsOnScreen ==
  ASSUME IInv, Next
  PROVE  \/ Placed(ws.layout) \ Placed(ws'.layout) \subseteq HasPanel(ws) \ HasPanel(ws')
         \/ ~(HasPanel(ws) \subseteq Placed(ws.layout))
<1>1. CASE RebuildContent
  <2>1. ws' = ws
    BY <1>1 DEF RebuildContent
  <2> QED BY <2>1
<1>2. CASE ~RebuildContent
  BY <1>2, StepIsGood DEF Good, Kept, Stays
<1> QED BY <1>1, <1>2

\* As long as every panel is on the screen, only closing it or moving it out takes
\* one off: no drag, swap, split, new or reopened tab drops a running terminal.
THEOREM PanelsStayOnScreen == Spec => StaysOnScreen
<1>1. IInv /\ [Next]_vars
        => [\/ Placed(ws.layout) \ Placed(ws'.layout) \subseteq HasPanel(ws) \ HasPanel(ws')
            \/ ~(HasPanel(ws) \subseteq Placed(ws.layout))]_vars
  BY StepKeepsOnScreen
<1> QED BY <1>1, Inductive, PTL DEF Spec, StaysOnScreen

\* Where the focus goes when tabs are closed.
LEMMA ClosingKeepsFocus ==
  ASSUME IInv, NEW p,
         CloseTab(p) \/ \E which \in {"left", "right", "others"} : TabClose(p, which),
         ws.focused \in Placed(ws.layout), Placed(ws'.layout) # Placed(ws.layout)
  PROVE  IF ws.focused \in Placed(ws'.layout) THEN ws'.focused = ws.focused
         ELSE LET tabs == Tabs(ws.layout[Holding(ws.layout, ws.focused)])
              IN  tabs \cap Placed(ws'.layout) # {} => ws'.focused \in tabs
<1> DEFINE l     == ws.layout
           after == Placed(ws'.layout)
           fo    == ws.focused
<1>1. Sound(ws) /\ LayoutOK(l) /\ Loose(l)
  BY BodyIs DEF IInv, Sound, LayoutOK
<1>2. CASE CloseTab(p)
  <2> DEFINE u == RemovePanel(ws, p)
             tabs == Tabs(l[Holding(l, p)])
  <2>1. /\ Sound(u) /\ HasPanel(u) = HasPanel(ws) \ {p}
        /\ Placed(u.layout) = Placed(l) \ {p}
        /\ fo # p => u.focused = fo
        /\ fo = p /\ p \in Placed(l) /\ tabs # {p} => u.focused \in tabs \ {p}
    BY <1>1, RemovePanelIs
  <2>2. ws' = u
    BY <1>2 DEF CloseTab, SetOrClose
  <2> HIDE DEF u
  <2>3. after = Placed(l) \ {p} /\ (fo # p => ws'.focused = fo)
    BY <2>1, <2>2
  <2>4. fo = p /\ tabs # {p} => ws'.focused \in tabs
    BY <2>1, <2>2
  <2>5. CASE fo # p
    BY <2>3, <2>5
  <2>6. CASE fo = p
    <3>1. fo \notin after
      BY <2>3, <2>6
    <3>2. tabs \cap after # {} => tabs # {p}
      BY <2>3
    <3> QED BY <2>4, <2>6, <3>1, <3>2
  <2> QED BY <2>5, <2>6
<1>3. CASE \E which \in {"left", "right", "others"} : TabClose(p, which)
  <2>1. PICK which \in {"left", "right", "others"} : TabClose(p, which)
    BY <1>3
  <2>2. PICK gone \in SUBSET (Tabs(l[Holding(l, p)]) \ {p}) :
          /\ p \in Placed(l) \cap HasPanel(ws)
          /\ Sound(ws') /\ HasPanel(ws') = HasPanel(ws) \ gone
          /\ after = Placed(l) \ gone
          /\ ws'.focused = IF fo \in gone THEN p ELSE fo
    BY <1>1, <2>1, TabCloseIs
  <2>3. CASE fo \notin gone
    BY <2>2, <2>3
  <2>4. CASE fo \in gone
    <3>1. fo \notin after /\ ws'.focused = p
      BY <2>2, <2>4
    <3>2. Holding(l, p) \in 1 .. Len(l) /\ p \in Tabs(l[Holding(l, p)])
      BY <1>1, <2>2, HoldingIs
    <3>3. Holding(l, p) = Holding(l, fo)
      BY <1>1, <2>4, <3>2, HoldingIs
    <3> QED BY <3>1, <3>2, <3>3
  <2> QED BY <2>3, <2>4
<1> QED BY <1>2, <1>3

\* A closed tab that had the focus gives it to a tab of its own pane, and one that
\* had not leaves it where it is (remove_panel, tab.action).
THEOREM TheFocusStaysInItsPane == Spec => FocusStaysInPane
<1> DEFINE A == LET before == Placed(ws.layout)
                    after  == Placed(ws'.layout)
                    tabs   == ToSet(ws.layout[Holding(ws.layout, ws.focused)].tabs)
                IN  after # before /\ after \subseteq before /\ ws.focused \in before
                    => \/ IF ws.focused \in after THEN ws'.focused = ws.focused
                          ELSE tabs \cap after # {} => ws'.focused \in tabs
                       \/ ~Closing
<1>1. IInv /\ [Next]_vars => [A]_vars
  BY ClosingKeepsFocus DEF Tabs, Closing
<1> QED BY <1>1, Inductive, PTL DEF Spec, FocusStaysInPane
=============================================================================
