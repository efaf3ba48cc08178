-------------------------- MODULE TabManagerProofs --------------------------
(***************************************************************************)
(* Theorems about TabManager: the lists and their caps, no workspace or    *)
(* panel in two places, the selection that follows the workspace, and the  *)
(* panels no operation loses.                                              *)
(*                                                                         *)
(* An operation is a composition of a few methods, and some of them leave  *)
(* a manager with an emptied workspace for the next one to remove.  So the *)
(* lemmas about methods are stated for a Tidy manager, in which a          *)
(* workspace of the list may be empty; a step leads from one without empty *)
(* workspaces to another.                                                  *)
(***************************************************************************)
EXTENDS TabManager, ListsProofs

Entries == [id : Workspaces, tabs : SUBSET Panels, group : Groups \cup {None}]

Managers ==
  [list : Seq(Workspaces), selected : Nat, tabs : [Workspaces -> SUBSET Panels],
   group : [Workspaces -> Groups \cup {None}], closed : Seq(Entries)]

\* The sidebar: each workspace once, and a selection among them.
ListOK(t) == t.selected <= Len(t.list) /\ IsInjective(t.list)

\* The recently closed ones: each once, none empty, no panel in two of them.
ClosedOK(closed) ==
  /\ Len(closed) <= ClosedCap
  /\ \A i \in 1 .. Len(closed) : closed[i].tabs # {}
  /\ \A i, j \in 1 .. Len(closed) :
       i # j => closed[i].id # closed[j].id /\ closed[i].tabs \cap closed[j].tabs = {}

\* The panels: of one workspace, which is open or closed.
TabsOK(t) ==
  /\ \A w \in Workspaces \ Open(t) : t.tabs[w] = {} /\ t.group[w] = None
  /\ \A v, w \in Workspaces : v # w => t.tabs[v] \cap t.tabs[w] = {}
  /\ \A i \in 1 .. Len(t.closed) :
       /\ t.closed[i].id \notin Open(t)
       /\ \A w \in Workspaces : t.closed[i].tabs \cap t.tabs[w] = {}

Tidy(t) == t \in Managers /\ ListOK(t) /\ ClosedOK(t.closed) /\ TabsOK(t)

NoneEmpty(t) == \A w \in Open(t) : t.tabs[w] # {}

\* What a method does for the user and for the panels.
Follows(t, u) == SelectedId(t) \in Open(u) => SelectedId(u) = SelectedId(t)
Keeps(t, u) == \A w \in Workspaces : t.tabs[w] \subseteq Kept(u)

\* The panels that are kept: a manager's Uuids.
LEMMA InKept ==
  ASSUME NEW t, t \in Managers, NEW p
  PROVE  p \in Kept(t) <=> \/ \E w \in Workspaces : p \in t.tabs[w]
                          \/ \E i \in 1 .. Len(t.closed) : p \in t.closed[i].tabs
<1>1. DOMAIN t.tabs = Workspaces /\ DOMAIN t.closed = 1 .. Len(t.closed)
  BY DEF Managers
<1> DEFINE X == UNION Range(t.tabs)
           Y == UNION {t.closed[i].tabs : i \in DOMAIN t.closed}
<1>2. p \in X <=> \E w \in Workspaces : p \in t.tabs[w]
  BY <1>1 DEF Range
<1>3. p \in Y <=> \E i \in 1 .. Len(t.closed) : p \in t.closed[i].tabs
  BY <1>1
<1>4. Kept(t) = X \cup Y
  BY DEF Kept
<1> HIDE DEF X, Y
<1> QED BY <1>2, <1>3, <1>4

-----------------------------------------------------------------------------
(* The list.                                                                *)

LEMMA TidyList ==
  ASSUME NEW t, Tidy(t)
  PROVE  /\ t.list \in Seq(Workspaces) /\ Len(t.list) \in Nat /\ DOMAIN t.list = 1 .. Len(t.list)
         /\ t.selected \in 0 .. Len(t.list)
         /\ Open(t) \subseteq Workspaces
         /\ \A i \in 1 .. Len(t.list) : t.list[i] \in Open(t)
         /\ \A i, j \in 1 .. Len(t.list) : t.list[i] = t.list[j] => i = j
         /\ None \notin Open(t)
<1>1. t.list \in Seq(Workspaces) /\ t.selected \in Nat
  BY DEF Tidy, Managers
<1>2. Len(t.list) \in Nat /\ DOMAIN t.list = 1 .. Len(t.list)
      /\ \A i \in 1 .. Len(t.list) : t.list[i] \in Workspaces
  BY <1>1
<1>3. Open(t) = {t.list[i] : i \in 1 .. Len(t.list)}
  BY <1>2 DEF Open, ToSet
<1> QED BY <1>1, <1>2, <1>3, NoneIsNothing DEF Tidy, ListOK, IsInjective

\* At finds the only place a workspace has.
LEMMA AtFinds ==
  ASSUME NEW t, Tidy(t)
  PROVE  /\ \A w \in Open(t) : At(t, w) \in 1 .. Len(t.list) /\ t.list[At(t, w)] = w
         /\ \A i \in 1 .. Len(t.list) : At(t, t.list[i]) = i
<1>1. ASSUME NEW w \in Open(t) PROVE At(t, w) \in 1 .. Len(t.list) /\ t.list[At(t, w)] = w
  <2>1. \E i \in DOMAIN t.list : t.list[i] = w
    BY DEF Open, ToSet
  <2> QED BY <2>1, TidyList DEF At
<1>2. ASSUME NEW i \in 1 .. Len(t.list) PROVE At(t, t.list[i]) = i
  BY <1>1, TidyList
<1> QED BY <1>1, <1>2

\* At finds a workspace of any list that holds it.
LEMMA AtHolds ==
  ASSUME NEW t, t.list \in Seq(Workspaces), NEW w \in Open(t)
  PROVE  At(t, w) \in 1 .. Len(t.list) /\ t.list[At(t, w)] = w
<1>1. \E i \in DOMAIN t.list : t.list[i] = w
  BY DEF Open, ToSet
<1>2. DOMAIN t.list = 1 .. Len(t.list)
  OBVIOUS
<1> QED BY <1>1, <1>2 DEF At

\* The selection is None exactly when nothing is listed, or nothing selected.
LEMMA Selected ==
  ASSUME NEW t, Tidy(t)
  PROVE  /\ t.selected = 0 => SelectedId(t) = None
         /\ t.selected # 0 => t.selected \in 1 .. Len(t.list)
                              /\ SelectedId(t) = t.list[t.selected] /\ SelectedId(t) \in Open(t)
BY TidyList DEF SelectedId

\* Moving what follows along: when the workspace selected in t is at place n of u.
LEMMA FollowsAt ==
  ASSUME NEW t, Tidy(t), NEW u, Tidy(u),
         t.selected # 0 /\ SelectedId(t) \in Open(u) =>
           u.selected # 0 /\ u.list[u.selected] = t.list[t.selected]
  PROVE  Follows(t, u)
<1>1. CASE t.selected = 0
  BY <1>1, Selected, TidyList DEF Follows
<1>2. CASE t.selected # 0
  BY <1>2, Selected DEF Follows
<1> QED BY <1>1, <1>2

-----------------------------------------------------------------------------
(* Closing.                                                                 *)

\* The closed list takes the new entry and stays within its cap.
LEMMA RememberedIs ==
  ASSUME NEW closed \in Seq(Entries), ClosedOK(closed), NEW e \in Entries, e.tabs # {},
         \A i \in 1 .. Len(closed) : closed[i].id # e.id /\ closed[i].tabs \cap e.tabs = {}
  PROVE  /\ Remembered(closed, e) \in Seq(Entries) /\ ClosedOK(Remembered(closed, e))
         /\ \A i \in 1 .. Len(Remembered(closed, e)) :
              \/ Remembered(closed, e)[i] = e
              \/ \E j \in 1 .. Len(closed) : Remembered(closed, e)[i] = closed[j]
         /\ \E i \in 1 .. Len(Remembered(closed, e)) : Remembered(closed, e)[i] = e
<1> DEFINE n == Len(closed)
           a == Append(closed, e)
           d == IF n + 1 > ClosedCap THEN 1 ELSE 0
           r == Remembered(closed, e)
<1>1. n \in Nat /\ n <= ClosedCap /\ ClosedCap \in Nat \ {0} /\ d \in {0, 1}
  BY CapsArePositive DEF ClosedOK
<1>2. a \in Seq(Entries) /\ Len(a) = n + 1 /\ a[n + 1] = e /\ \A i \in 1 .. n : a[i] = closed[i]
  OBVIOUS
<1>3. /\ r \in Seq(Entries) /\ Len(r) = n + 1 - d
      /\ \A i \in 1 .. Len(r) : r[i] = a[i + d] /\ i + d \in 1 .. (n + 1)
  <2> HIDE DEF a
  <2>1. CASE n + 1 > ClosedCap
    <3>1. r = Tail(a) /\ d = 1
      BY <1>2, <2>1 DEF Remembered, a
    <3>2. Tail(a) \in Seq(Entries) /\ Len(Tail(a)) = n /\ \A i \in 1 .. n : Tail(a)[i] = a[i + 1]
      BY <1>1, <1>2
    <3> QED BY <1>1, <3>1, <3>2
  <2>2. CASE ~ (n + 1 > ClosedCap)
    <3>1. r = a /\ d = 0
      BY <1>2, <2>2 DEF Remembered, a
    <3> QED BY <1>1, <1>2, <3>1
  <2> QED BY <2>1, <2>2
<1>4. n + 1 - d <= ClosedCap /\ n + 1 - d \in 1 .. (n + 1)
  BY <1>1
<1> HIDE DEF a, r, d
<1>5. \A i \in 1 .. Len(r) : \/ r[i] = e /\ i + d = n + 1
                             \/ i + d \in 1 .. n /\ r[i] = closed[i + d]
  BY <1>1, <1>2, <1>3
<1>6. \A i \in 1 .. Len(r) : r[i].tabs # {}
  BY <1>5 DEF ClosedOK
<1>7. ASSUME NEW i \in 1 .. Len(r), NEW j \in 1 .. Len(r), i # j
      PROVE  r[i].id # r[j].id /\ r[i].tabs \cap r[j].tabs = {}
  <2>1. i + d # j + d /\ i \in Nat /\ j \in Nat
    BY <1>1, <1>3, <1>7
  <2> QED BY <1>5, <2>1 DEF ClosedOK
<1>8. ClosedOK(r)
  BY <1>3, <1>4, <1>6, <1>7 DEF ClosedOK
<1>9. r[n + 1 - d] = e /\ n + 1 - d \in 1 .. Len(r)
  BY <1>1, <1>2, <1>3, <1>4
<1> QED BY <1>3, <1>5, <1>8, <1>9 DEF r

\* The list without one place: the selection stays with its workspace.
LEMMA RemovedList ==
  ASSUME NEW t, Tidy(t), NEW i \in 1 .. Len(t.list), NEW u,
         u.list = RemoveAt(t.list, i),
         u.selected = LET n == Len(t.list) - 1
                      IN  IF n = 0 THEN 0 ELSE IF t.selected > n THEN n
                          ELSE IF t.selected > i THEN t.selected - 1 ELSE t.selected
  PROVE  /\ u.list \in Seq(Workspaces) /\ u.selected \in Nat /\ ListOK(u)
         /\ Open(u) = Open(t) \ {t.list[i]}
         /\ t.selected # 0 /\ t.selected # i =>
              u.selected # 0 /\ u.list[u.selected] = t.list[t.selected]
<1> DEFINE n == Len(t.list)
           r == RemoveAt(t.list, i)
<1>1. /\ n \in Nat /\ t.list \in Seq(Workspaces) /\ t.selected \in 0 .. n
      /\ \A j \in 1 .. n : t.list[j] \in Open(t)
      /\ \A j, k \in 1 .. n : t.list[j] = t.list[k] => j = k
  BY TidyList
<1>2. /\ r \in Seq(Workspaces) /\ Len(r) = n - 1
      /\ \A j \in 1 .. (n - 1) : r[j] = IF j < i THEN t.list[j] ELSE t.list[j + 1]
      /\ ToSet(r) = {t.list[j] : j \in (1 .. n) \ {i}}
  BY <1>1, RemoveAtIs
<1> HIDE DEF r
<1>3. u.selected \in 0 .. (n - 1)
  BY <1>1
<1>4. IsInjective(r)
  <2>1. IsInjective(t.list) /\ i \in 1 .. Len(t.list)
    BY DEF Tidy, ListOK
  <2> QED BY <1>1, <2>1, RemoveInjective DEF r
<1>5. ToSet(r) = Open(t) \ {t.list[i]}
  <2>1. Open(t) = {t.list[j] : j \in 1 .. n}
    BY TidyList DEF Open, ToSet
  <2> QED BY <1>1, <1>2, <2>1
<1>6. ASSUME t.selected # 0, t.selected # i
      PROVE  u.selected # 0 /\ u.list[u.selected] = t.list[t.selected]
  <2>1. u.selected = IF t.selected > i THEN t.selected - 1 ELSE t.selected
    BY <1>1, <1>6
  <2>2. u.selected \in 1 .. (n - 1)
    BY <1>1, <1>6, <2>1
  <2>3. r[u.selected] = t.list[t.selected]
    BY <1>1, <1>2, <1>6, <2>1, <2>2
  <2> QED BY <2>2, <2>3 DEF r
<1> QED BY <1>1, <1>2, <1>3, <1>4, <1>5, <1>6 DEF r, ListOK, Open

\* remove(i): one workspace less, remembered unless it had been emptied.
LEMMA RemoveAtIndexIs ==
  ASSUME NEW t, Tidy(t), NEW i \in 1 .. Len(t.list)
  PROVE  LET u == RemoveAtIndex(t, i)
             w == t.list[i]
         IN  /\ Tidy(u) /\ Follows(t, u) /\ Keeps(t, u)
             /\ Open(u) = Open(t) \ {w}
             /\ \A v \in Workspaces : u.tabs[v] = IF v = w THEN {} ELSE t.tabs[v]
             /\ t.tabs[w] = {} => u.closed = t.closed
<1> DEFINE u == RemoveAtIndex(t, i)
           w == t.list[i]
<1>1. t \in Managers /\ ListOK(t) /\ ClosedOK(t.closed) /\ TabsOK(t)
  BY DEF Tidy
<1>2. i \in DOMAIN t.list /\ w \in Open(t) /\ w \in Workspaces
  BY TidyList
<1>3. /\ u.list = RemoveAt(t.list, i)
      /\ u.selected = LET n == Len(t.list) - 1
                      IN  IF n = 0 THEN 0 ELSE IF t.selected > n THEN n
                          ELSE IF t.selected > i THEN t.selected - 1 ELSE t.selected
      /\ u.tabs = [v \in Workspaces |-> IF v \in {w} THEN {} ELSE t.tabs[v]]
      /\ u.group = [v \in Workspaces |-> IF v \in {w} THEN None ELSE t.group[v]]
      /\ u.closed = IF t.tabs[w] = {} THEN t.closed ELSE Remembered(t.closed, Entry(t, w))
      /\ u = [list |-> u.list, selected |-> u.selected, tabs |-> u.tabs, group |-> u.group,
              closed |-> u.closed]
  BY <1>1, <1>2 DEF RemoveAtIndex, Dropped, Managers
<1> HIDE DEF u
<1>4. /\ u.list \in Seq(Workspaces) /\ u.selected \in Nat /\ ListOK(u)
      /\ Open(u) = Open(t) \ {w}
      /\ t.selected # 0 /\ t.selected # i =>
           u.selected # 0 /\ u.list[u.selected] = t.list[t.selected]
  BY <1>3, RemovedList
<1>5. /\ u.tabs \in [Workspaces -> SUBSET Panels] /\ u.group \in [Workspaces -> Groups \cup {None}]
      /\ \A v \in Workspaces : u.tabs[v] = IF v = w THEN {} ELSE t.tabs[v]
      /\ \A v \in Workspaces : u.group[v] = IF v = w THEN None ELSE t.group[v]
  BY <1>1, <1>3 DEF Managers
<1>6. /\ u.closed \in Seq(Entries) /\ ClosedOK(u.closed)
      /\ \A k \in 1 .. Len(u.closed) :
           \/ u.closed[k].id = w /\ u.closed[k].tabs = t.tabs[w]
           \/ \E j \in 1 .. Len(t.closed) : u.closed[k] = t.closed[j]
      /\ t.tabs[w] # {} => \E k \in 1 .. Len(u.closed) : u.closed[k].tabs = t.tabs[w]
  <2>1. CASE t.tabs[w] = {}
    BY <1>1, <1>3, <2>1 DEF Managers
  <2>2. CASE t.tabs[w] # {}
    <3> DEFINE e == Entry(t, w)
    <3>1. e \in Entries /\ e.id = w /\ e.tabs = t.tabs[w]
      BY <1>1, <1>2 DEF Entry, Entries, Managers
    <3>2. \A j \in 1 .. Len(t.closed) : t.closed[j].id # e.id /\ t.closed[j].tabs \cap e.tabs = {}
      BY <1>1, <1>2, <3>1 DEF TabsOK
    <3>3. t.closed \in Seq(Entries) /\ ClosedOK(t.closed) /\ u.closed = Remembered(t.closed, e)
      BY <1>1, <1>3, <2>2 DEF Managers
    <3> DEFINE r == Remembered(t.closed, e)
    <3> HIDE DEF e
    <3>4. /\ r \in Seq(Entries) /\ ClosedOK(r)
          /\ \A k \in 1 .. Len(r) : r[k] = e \/ \E j \in 1 .. Len(t.closed) : r[k] = t.closed[j]
          /\ \E k \in 1 .. Len(r) : r[k] = e
      BY <2>2, <3>1, <3>2, <3>3, RememberedIs
    <3> HIDE DEF r
    <3> QED BY <3>1, <3>3, <3>4 DEF r
  <2> QED BY <2>1, <2>2
<1>7. TabsOK(u)
  <2>1. \A v \in Workspaces \ Open(u) : u.tabs[v] = {} /\ u.group[v] = None
    BY <1>1, <1>4, <1>5 DEF TabsOK
  <2>2. \A v, x \in Workspaces : v # x => u.tabs[v] \cap u.tabs[x] = {}
    BY <1>1, <1>5 DEF TabsOK
  <2>3. ASSUME NEW k \in 1 .. Len(u.closed)
        PROVE  u.closed[k].id \notin Open(u) /\ \A v \in Workspaces : u.closed[k].tabs \cap u.tabs[v] = {}
    <3>1. CASE u.closed[k].id = w /\ u.closed[k].tabs = t.tabs[w]
      BY <1>1, <1>2, <1>4, <1>5, <3>1 DEF TabsOK
    <3>2. CASE \E j \in 1 .. Len(t.closed) : u.closed[k] = t.closed[j]
      BY <1>1, <1>4, <1>5, <3>2 DEF TabsOK
    <3> QED BY <1>6, <3>1, <3>2
  <2> QED BY <2>1, <2>2, <2>3 DEF TabsOK
<1>8. Tidy(u)
  <2>1. u \in Managers
    BY <1>3, <1>4, <1>5, <1>6 DEF Managers
  <2> QED BY <1>4, <1>6, <1>7, <2>1 DEF Tidy
<1>9. Follows(t, u)
  <2>1. ASSUME t.selected # 0, SelectedId(t) \in Open(u) PROVE t.selected # i
    BY <1>4, <2>1, Selected
  <2> QED BY <1>4, <1>8, <2>1, FollowsAt
<1>10. Keeps(t, u)
  <2> SUFFICES ASSUME NEW v \in Workspaces, NEW p \in t.tabs[v] PROVE p \in Kept(u)
    BY DEF Keeps
  <2>1. u \in Managers
    BY <1>8 DEF Tidy
  <2>2. (\E x \in Workspaces : p \in u.tabs[x])
        \/ \E k \in 1 .. Len(u.closed) : p \in u.closed[k].tabs
    BY <1>5, <1>6
  <2> QED BY <2>1, <2>2, InKept
<1> QED BY <1>3, <1>4, <1>5, <1>8, <1>9, <1>10 DEF u

-----------------------------------------------------------------------------
(* Adding.                                                                  *)

\* A workspace that may be added, and what it brings.
Addable(t, w, panels, g) ==
  /\ w \in Workspaces \ Open(t)
  /\ panels \in SUBSET Panels /\ panels # {}
  /\ g \in Groups \cup {None}
  /\ \A v \in Workspaces : panels \cap t.tabs[v] = {}
  /\ \A i \in 1 .. Len(t.closed) : t.closed[i].id # w /\ t.closed[i].tabs \cap panels = {}

\* A list with one workspace more, the selection given.
LEMMA InsertedIs ==
  ASSUME NEW t, Tidy(t), NEW w, NEW panels, NEW g, Addable(t, w, panels, g),
         NEW i \in 1 .. (Len(t.list) + 1), NEW sel \in 0 .. (Len(t.list) + 1)
  PROVE  LET u == [Inserted(t, i, w, panels, g) EXCEPT !.selected = sel]
         IN  /\ Tidy(u) /\ Keeps(t, u)
             /\ Open(u) = Open(t) \cup {w}
             /\ u.selected = sel /\ u.closed = t.closed
             /\ Len(u.list) = Len(t.list) + 1
             /\ \A j \in 1 .. (Len(t.list) + 1) :
                  u.list[j] = IF j < i THEN t.list[j] ELSE IF j = i THEN w ELSE t.list[j - 1]
             /\ \A v \in Workspaces : u.tabs[v] = IF v = w THEN panels ELSE t.tabs[v]
<1> DEFINE u == [Inserted(t, i, w, panels, g) EXCEPT !.selected = sel]
           n == Len(t.list)
<1>1. t \in Managers /\ ListOK(t) /\ ClosedOK(t.closed) /\ TabsOK(t)
  BY DEF Tidy
<1>2. w \in Workspaces /\ w \notin Open(t) /\ panels \in SUBSET Panels /\ g \in Groups \cup {None}
  BY DEF Addable
<1>3. /\ u.list = InsertAt(t.list, i, w) /\ u.selected = sel /\ u.closed = t.closed
      /\ u.tabs = [t.tabs EXCEPT ![w] = panels] /\ u.group = [t.group EXCEPT ![w] = g]
      /\ u = [list |-> u.list, selected |-> u.selected, tabs |-> u.tabs, group |-> u.group,
              closed |-> u.closed]
  <2>1. Inserted(t, i, w, panels, g) =
          [list |-> InsertAt(t.list, i, w), selected |-> t.selected,
           tabs |-> [t.tabs EXCEPT ![w] = panels], group |-> [t.group EXCEPT ![w] = g],
           closed |-> t.closed]
    <3> DEFINE l == InsertAt(t.list, i, w)
    <3>1. Inserted(t, i, w, panels, g) = [t EXCEPT !.list = l, !.tabs[w] = panels, !.group[w] = g]
      BY DEF Inserted
    <3>2. t = [list |-> t.list, selected |-> t.selected, tabs |-> t.tabs, group |-> t.group,
               closed |-> t.closed]
      BY <1>1 DEF Managers
    <3> HIDE DEF l
    <3> QED BY <3>1, <3>2 DEF l
  <2> QED BY <2>1
<1> HIDE DEF u
<1>4. /\ n \in Nat /\ t.list \in Seq(Workspaces) /\ \A j \in 1 .. n : t.list[j] \in Open(t)
      /\ \A j, k \in 1 .. n : t.list[j] = t.list[k] => j = k
  BY TidyList
<1>5. /\ u.list \in Seq(Workspaces) /\ Len(u.list) = n + 1
      /\ \A j \in 1 .. (n + 1) :
           u.list[j] = IF j < i THEN t.list[j] ELSE IF j = i THEN w ELSE t.list[j - 1]
      /\ Open(u) = Open(t) \cup {w}
  <2> DEFINE r == InsertAt(t.list, i, w)
  <2>1. /\ r \in Seq(Workspaces) /\ Len(r) = Len(t.list) + 1
        /\ \A j \in 1 .. (Len(t.list) + 1) :
             r[j] = IF j < i THEN t.list[j] ELSE IF j = i THEN w ELSE t.list[j - 1]
        /\ ToSet(r) = ToSet(t.list) \cup {w}
    <3> DEFINE l == t.list
    <3>1. l \in Seq(Workspaces) /\ w \in Workspaces /\ i \in 1 .. (Len(l) + 1)
      BY <1>2, <1>4
    <3> HIDE DEF l
    <3>2. /\ InsertAt(l, i, w) \in Seq(Workspaces) /\ Len(InsertAt(l, i, w)) = Len(l) + 1
          /\ \A j \in 1 .. (Len(l) + 1) :
               InsertAt(l, i, w)[j] = IF j < i THEN l[j] ELSE IF j = i THEN w ELSE l[j - 1]
          /\ ToSet(InsertAt(l, i, w)) = ToSet(l) \cup {w}
      BY <3>1, InsertAtIs
    <3> QED BY <3>2 DEF l
  <2> HIDE DEF r
  <2> QED BY <1>3, <2>1 DEF r, Open
<1>6. IsInjective(u.list)
  <2>1. IsInjective(t.list) /\ w \notin ToSet(t.list)
    BY <1>2 DEF Tidy, ListOK, Open
  <2> QED BY <1>2, <1>3, <1>4, <2>1, InsertInjective
<1>7. u.selected \in Nat /\ ListOK(u)
  BY <1>3, <1>4, <1>5, <1>6 DEF ListOK
<1>8. /\ u.tabs \in [Workspaces -> SUBSET Panels] /\ u.group \in [Workspaces -> Groups \cup {None}]
      /\ \A v \in Workspaces : u.tabs[v] = IF v = w THEN panels ELSE t.tabs[v]
      /\ \A v \in Workspaces : u.group[v] = IF v = w THEN g ELSE t.group[v]
  BY <1>1, <1>2, <1>3 DEF Managers
<1>9. TabsOK(u)
  <2>1. \A v \in Workspaces \ Open(u) : u.tabs[v] = {} /\ u.group[v] = None
    BY <1>1, <1>5, <1>8 DEF TabsOK
  <2>2. \A v, x \in Workspaces : v # x => u.tabs[v] \cap u.tabs[x] = {}
    BY <1>1, <1>8 DEF TabsOK, Addable
  <2>3. \A k \in 1 .. Len(u.closed) :
          /\ u.closed[k].id \notin Open(u)
          /\ \A v \in Workspaces : u.closed[k].tabs \cap u.tabs[v] = {}
    BY <1>1, <1>3, <1>5, <1>8 DEF TabsOK, Addable
  <2> QED BY <2>1, <2>2, <2>3 DEF TabsOK
<1>10. Tidy(u)
  <2>1. u \in Managers
    BY <1>1, <1>3, <1>5, <1>7, <1>8 DEF Managers
  <2> QED BY <1>1, <1>3, <1>7, <1>9, <2>1 DEF Tidy
<1>11. Keeps(t, u)
  <2>1. t.tabs[w] = {}
    BY <1>1, <1>2 DEF TabsOK
  <2>2. \A v \in Workspaces : t.tabs[v] \subseteq u.tabs[v]
    BY <1>8, <2>1
  <2>3. u \in Managers
    BY <1>10 DEF Tidy
  <2> QED BY <2>2, <2>3, InKept DEF Keeps
<1> QED BY <1>3, <1>5, <1>8, <1>10, <1>11 DEF u

\* add_workspace_with_placement selects the new workspace.
LEMMA AddIs ==
  ASSUME NEW t, Tidy(t), NEW w, NEW panels, NEW g, Addable(t, w, panels, g),
         NEW placement \in Placements
  PROVE  LET u == Add(t, w, panels, g, placement)
         IN  /\ Tidy(u) /\ Keeps(t, u)
             /\ Open(u) = Open(t) \cup {w} /\ u.closed = t.closed
             /\ \A v \in Workspaces : u.tabs[v] = IF v = w THEN panels ELSE t.tabs[v]
<1> DEFINE i == Placed(t, placement)
<1>1. i \in 1 .. (Len(t.list) + 1) /\ i \in 0 .. (Len(t.list) + 1)
  BY TidyList DEF Placed, Placements
<1> HIDE DEF i
<1>2. Add(t, w, panels, g, placement) = [Inserted(t, i, w, panels, g) EXCEPT !.selected = i]
  BY DEF Add, i
<1> QED BY <1>1, <1>2, InsertedIs

\* add_workspace_keep_selection: the selection follows the workspace, not the slot.
LEMMA AddKeepingIs ==
  ASSUME NEW t, Tidy(t), NEW w, NEW panels, NEW g, Addable(t, w, panels, g),
         NEW placement \in Placements
  PROVE  LET u == AddKeeping(t, w, panels, g, placement)
         IN  /\ Tidy(u) /\ Keeps(t, u) /\ Follows(t, u)
             /\ Open(u) = Open(t) \cup {w} /\ u.closed = t.closed
             /\ \A v \in Workspaces : u.tabs[v] = IF v = w THEN panels ELSE t.tabs[v]
<1> DEFINE i == IF t.selected = 0 /\ placement = "after" THEN Len(t.list) + 1
                ELSE Placed(t, placement)
           sel == IF t.selected # 0 /\ i <= t.selected THEN t.selected + 1 ELSE t.selected
           u == [Inserted(t, i, w, panels, g) EXCEPT !.selected = sel]
<1>1. i \in 1 .. (Len(t.list) + 1) /\ sel \in 0 .. (Len(t.list) + 1)
  BY TidyList DEF Placed, Placements
<1>2. AddKeeping(t, w, panels, g, placement) = u
  <2>1. Inserted(t, i, w, panels, g).selected = t.selected
    BY DEF Inserted, Tidy, Managers
  <2> QED BY <2>1 DEF AddKeeping
<1>3. t.selected # 0 => sel # 0 /\ sel \in 1 .. (Len(t.list) + 1)
                        /\ (sel < i => sel = t.selected) /\ (sel >= i => sel = t.selected + 1 /\ sel # i)
  BY <1>1, TidyList
<1> HIDE DEF i, sel
<1>4. /\ Tidy(u) /\ Keeps(t, u)
      /\ Open(u) = Open(t) \cup {w}
      /\ u.selected = sel /\ u.closed = t.closed
      /\ Len(u.list) = Len(t.list) + 1
      /\ \A j \in 1 .. (Len(t.list) + 1) :
           u.list[j] = IF j < i THEN t.list[j] ELSE IF j = i THEN w ELSE t.list[j - 1]
      /\ \A v \in Workspaces : u.tabs[v] = IF v = w THEN panels ELSE t.tabs[v]
  BY <1>1, InsertedIs
<1> HIDE DEF u
<1>5. ASSUME t.selected # 0 PROVE u.selected # 0 /\ u.list[u.selected] = t.list[t.selected]
  <2>1. CASE sel < i
    BY <1>3, <1>4, <1>5, <2>1
  <2>2. CASE sel >= i
    <3>1. sel - 1 = t.selected /\ ~ (sel < i) /\ sel # i
      BY <1>1, <1>3, <1>5, <2>2, TidyList
    <3> QED BY <1>3, <1>4, <1>5, <3>1
  <2> QED BY <1>1, <1>3, <2>1, <2>2
<1>6. Follows(t, u)
  BY <1>4, <1>5, FollowsAt
<1> QED BY <1>2, <1>4, <1>6

-----------------------------------------------------------------------------
(* Panels that come and go.                                                 *)

\* A panel nowhere in t.
Homeless(t, p) ==
  /\ p \in Panels
  /\ \A v \in Workspaces : p \notin t.tabs[v]
  /\ \A i \in 1 .. Len(t.closed) : p \notin t.closed[i].tabs

\* The tabs of an open workspace may be any panels that are of no other.
LEMMA TabsSet ==
  ASSUME NEW t, Tidy(t), NEW w \in Open(t), NEW panels \in SUBSET Panels,
         \A v \in Workspaces \ {w} : panels \cap t.tabs[v] = {},
         \A i \in 1 .. Len(t.closed) : t.closed[i].tabs \cap panels = {}
  PROVE  LET u == [t EXCEPT !.tabs[w] = panels]
         IN  /\ Tidy(u) /\ Follows(t, u)
             /\ u.list = t.list /\ u.closed = t.closed /\ Open(u) = Open(t)
             /\ \A v \in Workspaces : u.tabs[v] = IF v = w THEN panels ELSE t.tabs[v]
<1> DEFINE u == [t EXCEPT !.tabs[w] = panels]
<1>1. t \in Managers /\ ListOK(t) /\ ClosedOK(t.closed) /\ TabsOK(t) /\ w \in Workspaces
  BY TidyList DEF Tidy
<1>2. /\ u.list = t.list /\ u.selected = t.selected /\ u.closed = t.closed
      /\ u.tabs = [t.tabs EXCEPT ![w] = panels] /\ u.group = t.group
      /\ u \in Managers
  BY <1>1 DEF Managers
<1> HIDE DEF u
<1>3. \A v \in Workspaces : u.tabs[v] = IF v = w THEN panels ELSE t.tabs[v]
  BY <1>1, <1>2 DEF Managers
<1>4. Open(u) = Open(t) /\ SelectedId(u) = SelectedId(t)
  BY <1>2 DEF Open, SelectedId
<1>5. TabsOK(u)
  <2>1. \A v \in Workspaces \ Open(u) : u.tabs[v] = {} /\ u.group[v] = None
    BY <1>1, <1>2, <1>3, <1>4 DEF TabsOK
  <2>2. \A v, x \in Workspaces : v # x => u.tabs[v] \cap u.tabs[x] = {}
    BY <1>1, <1>3 DEF TabsOK
  <2>3. \A k \in 1 .. Len(u.closed) :
          /\ u.closed[k].id \notin Open(u)
          /\ \A v \in Workspaces : u.closed[k].tabs \cap u.tabs[v] = {}
    BY <1>1, <1>2, <1>3, <1>4 DEF TabsOK
  <2> QED BY <2>1, <2>2, <2>3 DEF TabsOK
<1>6. Tidy(u)
  BY <1>1, <1>2, <1>5 DEF Tidy, ListOK
<1> QED BY <1>2, <1>3, <1>4, <1>6 DEF u, Follows

LEMMA AttachedIs ==
  ASSUME NEW t, Tidy(t), NEW w \in Open(t), NEW p, Homeless(t, p)
  PROVE  LET u == Attached(t, p, w)
         IN  /\ Tidy(u) /\ Follows(t, u) /\ Keeps(t, u) /\ p \in Kept(u)
             /\ u.closed = t.closed /\ Open(u) = Open(t)
             /\ NoneEmpty(t) => NoneEmpty(u)
<1> DEFINE panels == t.tabs[w] \cup {p}
           u == [t EXCEPT !.tabs[w] = panels]
<1>1. t \in Managers /\ TabsOK(t) /\ w \in Workspaces
  BY TidyList DEF Tidy
<1>2. u = Attached(t, p, w)
  BY DEF Attached
<1>3. /\ panels \in SUBSET Panels
      /\ \A v \in Workspaces \ {w} : panels \cap t.tabs[v] = {}
      /\ \A i \in 1 .. Len(t.closed) : t.closed[i].tabs \cap panels = {}
  BY <1>1 DEF Managers, Homeless, TabsOK
<1> HIDE DEF panels
<1>4. /\ Tidy(u) /\ Follows(t, u)
      /\ u.list = t.list /\ u.closed = t.closed /\ Open(u) = Open(t)
      /\ \A v \in Workspaces : u.tabs[v] = IF v = w THEN panels ELSE t.tabs[v]
  BY <1>3, TabsSet
<1> HIDE DEF u
<1>5. /\ \A v \in Workspaces : t.tabs[v] \subseteq u.tabs[v]
      /\ p \in u.tabs[w]
  BY <1>1, <1>4 DEF panels
<1>6. u \in Managers
  BY <1>4 DEF Tidy
<1>7. Keeps(t, u) /\ p \in Kept(u)
  BY <1>1, <1>5, <1>6, InKept DEF Keeps
<1>8. ASSUME NoneEmpty(t) PROVE NoneEmpty(u)
  BY <1>4, <1>5, <1>8, TidyList DEF NoneEmpty
<1> QED BY <1>2, <1>4, <1>7, <1>8

\* A panel leaves, and its workspace with it when it was the last.
LEMMA DetachedIs ==
  ASSUME NEW t, Tidy(t), NEW w \in Open(t), NEW p \in t.tabs[w]
  PROVE  LET u == Detached(t, p, w)
         IN  /\ Tidy(u) /\ Follows(t, u) /\ Homeless(u, p)
             /\ u.closed = t.closed
             /\ Open(u) = IF t.tabs[w] = {p} THEN Open(t) \ {w} ELSE Open(t)
             /\ \A v \in Workspaces : u.tabs[v] = IF v = w THEN t.tabs[w] \ {p} ELSE t.tabs[v]
             /\ NoneEmpty(t) => NoneEmpty(u)
<1> DEFINE panels == t.tabs[w] \ {p}
           s == [t EXCEPT !.tabs[w] = panels]
           u == Detached(t, p, w)
<1>1. t \in Managers /\ TabsOK(t) /\ w \in Workspaces /\ t.tabs[w] \in SUBSET Panels
  BY TidyList DEF Tidy, Managers
<1>2. /\ panels \in SUBSET Panels
      /\ \A v \in Workspaces \ {w} : panels \cap t.tabs[v] = {}
      /\ \A i \in 1 .. Len(t.closed) : t.closed[i].tabs \cap panels = {}
  BY <1>1 DEF TabsOK
<1>3. u = IF s.tabs[w] = {} THEN RemoveAtIndex(s, At(s, w)) ELSE s
  BY DEF Detached, Pruned
<1> HIDE DEF panels
<1>4. /\ Tidy(s) /\ Follows(t, s)
      /\ s.list = t.list /\ s.closed = t.closed /\ Open(s) = Open(t)
      /\ \A v \in Workspaces : s.tabs[v] = IF v = w THEN panels ELSE t.tabs[v]
  BY <1>2, TabsSet
<1>5. SelectedId(s) = SelectedId(t)
  BY <1>1 DEF SelectedId, Managers
<1> HIDE DEF s, u
<1>6. /\ Tidy(u) /\ Follows(t, u) /\ u.closed = t.closed
      /\ Open(u) = IF panels = {} THEN Open(t) \ {w} ELSE Open(t)
      /\ \A v \in Workspaces : u.tabs[v] = IF v = w THEN panels ELSE t.tabs[v]
  <2>1. CASE panels # {}
    BY <1>1, <1>3, <1>4, <2>1
  <2>2. CASE panels = {}
    <3> DEFINE i == At(s, w)
    <3>1. i \in 1 .. Len(s.list) /\ s.list[i] = w
      BY <1>4, AtFinds
    <3>2. u = RemoveAtIndex(s, i) /\ s.tabs[w] = {}
      BY <1>1, <1>3, <1>4, <2>2
    <3> HIDE DEF i
    <3>3. /\ Tidy(u) /\ Follows(s, u) /\ Open(u) = Open(s) \ {w}
          /\ \A v \in Workspaces : u.tabs[v] = IF v = w THEN {} ELSE s.tabs[v]
          /\ u.closed = s.closed
      BY <1>4, <3>1, <3>2, RemoveAtIndexIs
    <3>4. Follows(t, u)
      BY <1>5, <3>3 DEF Follows
    <3> QED BY <1>4, <2>2, <3>3, <3>4
  <2> QED BY <2>1, <2>2
<1>7. Homeless(u, p)
  <2>1. p \in Panels
    BY <1>1
  <2>2. \A v \in Workspaces : p \notin u.tabs[v]
    BY <1>1, <1>6 DEF panels, TabsOK
  <2>3. \A i \in 1 .. Len(u.closed) : p \notin u.closed[i].tabs
    BY <1>1, <1>6 DEF TabsOK
  <2> QED BY <2>1, <2>2, <2>3 DEF Homeless
<1>8. ASSUME NoneEmpty(t) PROVE NoneEmpty(u)
  BY <1>1, <1>6, <1>8, TidyList DEF NoneEmpty
<1>9. panels = {} <=> t.tabs[w] = {p}
  BY DEF panels
<1> QED BY <1>6, <1>7, <1>8, <1>9 DEF u, panels

-----------------------------------------------------------------------------
(* Moving.                                                                  *)

\* Where the element at place k goes when the one at from goes to place to.
NewPlace(k, from, to) ==
  CASE k = from -> to
    [] from < k /\ k <= to -> k - 1
    [] to <= k /\ k < from -> k + 1
    [] OTHER -> k

LEMMA MovedList ==
  ASSUME NEW S, NEW s \in Seq(S), IsInjective(s),
         NEW from \in 1 .. Len(s), NEW to \in 1 .. Len(s)
  PROVE  LET l == InsertAt(RemoveAt(s, from), to, s[from])
         IN  /\ l \in Seq(S) /\ Len(l) = Len(s) /\ ToSet(l) = ToSet(s) /\ IsInjective(l)
             /\ \A k \in 1 .. Len(s) : NewPlace(k, from, to) \in 1 .. Len(s)
                                      /\ l[NewPlace(k, from, to)] = s[k]
<1> DEFINE n == Len(s)
           w == s[from]
           r == RemoveAt(s, from)
           l == InsertAt(r, to, w)
<1>1. n \in Nat /\ from \in 1 .. n /\ to \in 1 .. n /\ w \in S /\ DOMAIN s = 1 .. n
  OBVIOUS
<1>2. /\ r \in Seq(S) /\ Len(r) = n - 1
      /\ \A j \in 1 .. (n - 1) : r[j] = IF j < from THEN s[j] ELSE s[j + 1]
  BY RemoveAtIs
<1>3. IsInjective(r) /\ ToSet(r) = ToSet(s) \ {w}
  BY RemoveInjective
<1>4. w \in ToSet(s)
  BY <1>1 DEF ToSet
<1>5. to \in 1 .. (Len(r) + 1)
  BY <1>1, <1>2
<1>6. s[from] = w
  OBVIOUS
<1> HIDE DEF r, w
<1>7. /\ l \in Seq(S) /\ Len(l) = Len(r) + 1
      /\ \A j \in 1 .. (Len(r) + 1) : l[j] = IF j < to THEN r[j] ELSE IF j = to THEN w ELSE r[j - 1]
      /\ ToSet(l) = ToSet(r) \cup {w}
  <2>1. r \in Seq(S) /\ w \in S /\ to \in 1 .. (Len(r) + 1)
    BY <1>1, <1>2, <1>5
  <2> QED BY <2>1, InsertAtIs
<1>8. IsInjective(l)
  BY <1>1, <1>2, <1>3, <1>5, InsertInjective
<1> HIDE DEF l
<1>9. /\ Len(l) = n /\ ToSet(l) = ToSet(s)
      /\ \A j \in 1 .. n : l[j] = IF j < to THEN r[j] ELSE IF j = to THEN w ELSE r[j - 1]
  BY <1>1, <1>2, <1>3, <1>4, <1>7
<1> HIDE DEF n
<1>10. ASSUME NEW k \in 1 .. n
       PROVE  NewPlace(k, from, to) \in 1 .. n /\ l[NewPlace(k, from, to)] = s[k]
  <2> DEFINE m == NewPlace(k, from, to)
  <2>1. k \in Int /\ from \in Int /\ to \in Int /\ n \in Int
    BY <1>1
  <2>2. CASE k = from
    <3>1. m = to
      BY <2>2 DEF NewPlace
    <3> QED BY <1>1, <1>6, <1>9, <2>2, <3>1
  <2>3. CASE from < k /\ k <= to
    <3>1. m = k - 1
      BY <2>1, <2>3 DEF NewPlace
    <3>2. k - 1 \in 1 .. (n - 1) /\ k - 1 \in 1 .. n /\ k - 1 < to /\ ~ (k - 1 < from) /\ (k - 1) + 1 = k
      BY <1>1, <2>1, <2>3
    <3> QED BY <1>2, <1>9, <3>1, <3>2
  <2>4. CASE to <= k /\ k < from
    <3>1. m = k + 1
      BY <2>1, <2>4 DEF NewPlace
    <3>2. k \in 1 .. (n - 1) /\ k + 1 \in 1 .. n /\ ~ (k + 1 < to) /\ k + 1 # to /\ (k + 1) - 1 = k
      BY <1>1, <2>1, <2>4
    <3> QED BY <1>2, <1>9, <2>4, <3>1, <3>2
  <2>5. CASE k < from /\ k < to
    <3>1. m = k
      BY <2>1, <2>5 DEF NewPlace
    <3>2. k \in 1 .. (n - 1)
      BY <1>1, <2>1, <2>5
    <3> QED BY <1>2, <1>9, <2>5, <3>1, <3>2
  <2>6. CASE k > from /\ k > to
    <3>1. m = k
      BY <2>1, <2>6 DEF NewPlace
    <3>2. k - 1 \in 1 .. (n - 1) /\ ~ (k - 1 < from) /\ ~ (k < to) /\ k # to /\ (k - 1) + 1 = k
      BY <1>1, <2>1, <2>6
    <3> QED BY <1>2, <1>9, <3>1, <3>2
  <2> QED BY <2>1, <2>2, <2>3, <2>4, <2>5, <2>6
<1> QED BY <1>7, <1>8, <1>9, <1>10 DEF l, r, w, n

\* move_workspace: only the list and the selection change, and together.
LEMMA MovedIs ==
  ASSUME NEW t, Tidy(t), NEW from, NEW to
  PROVE  LET u == Moved(t, from, to)
         IN  /\ Tidy(u) /\ Open(u) = Open(t) /\ Len(u.list) = Len(t.list)
             /\ u.tabs = t.tabs /\ u.group = t.group /\ u.closed = t.closed
             /\ SelectedId(u) = SelectedId(t)
<1> DEFINE u == Moved(t, from, to)
           l == InsertAt(RemoveAt(t.list, from), to, t.list[from])
           sel == NewPlace(t.selected, from, to)
<1>1. t \in Managers /\ ListOK(t) /\ ClosedOK(t.closed) /\ TabsOK(t)
  BY DEF Tidy
<1>2. /\ Len(t.list) \in Nat /\ t.list \in Seq(Workspaces) /\ DOMAIN t.list = 1 .. Len(t.list)
      /\ t.selected \in 0 .. Len(t.list) /\ IsInjective(t.list)
  BY <1>1, TidyList DEF ListOK
<1>3. CASE from \notin DOMAIN t.list \/ to \notin DOMAIN t.list
  BY <1>3 DEF Moved
<1>4. CASE from \in 1 .. Len(t.list) /\ to \in 1 .. Len(t.list)
  <2>1. /\ l \in Seq(Workspaces) /\ Len(l) = Len(t.list) /\ ToSet(l) = ToSet(t.list) /\ IsInjective(l)
        /\ \A k \in 1 .. Len(t.list) : NewPlace(k, from, to) \in 1 .. Len(t.list)
                                       /\ l[NewPlace(k, from, to)] = t.list[k]
    <3> DEFINE s == t.list
    <3>1. s \in Seq(Workspaces) /\ IsInjective(s) /\ from \in 1 .. Len(s) /\ to \in 1 .. Len(s)
      BY <1>2, <1>4
    <3> HIDE DEF s
    <3> QED BY <3>1, MovedList DEF s
  <2>2. u = [t EXCEPT !.list = l, !.selected = sel]
    <3>1. ~ (from \notin DOMAIN t.list \/ to \notin DOMAIN t.list)
      BY <1>2, <1>4
    <3>2. u = [t EXCEPT !.list = l,
                        !.selected = CASE t.selected = from -> to
                                       [] from < t.selected /\ t.selected <= to -> t.selected - 1
                                       [] to <= t.selected /\ t.selected < from -> t.selected + 1
                                       [] OTHER -> t.selected]
      <4> HIDE DEF l
      <4>1. u = [t EXCEPT !.list = l,
                          !.selected = CASE @ = from -> to
                                       [] from < @ /\ @ <= to -> @ - 1
                                       [] to <= @ /\ @ < from -> @ + 1
                                       [] OTHER -> @]
        BY <3>1 DEF Moved, l
      <4> QED BY <1>1, <4>1 DEF Managers
    <3> QED BY <3>2 DEF NewPlace
  <2>3. t.selected = 0 => sel = 0
    BY <1>4 DEF NewPlace
  <2> HIDE DEF l, sel, u
  <2>4. t.selected # 0 => sel \in 1 .. Len(t.list) /\ l[sel] = t.list[t.selected]
    BY <1>2, <2>1 DEF sel
  <2>5. /\ u.list = l /\ u.selected = sel /\ u.tabs = t.tabs /\ u.group = t.group
        /\ u.closed = t.closed /\ u \in Managers
    <3>1. l \in Seq(Workspaces) /\ sel \in Nat
      BY <1>2, <2>1, <2>3, <2>4
    <3> QED BY <1>1, <2>2, <3>1 DEF Managers
  <2>6. Open(u) = Open(t)
    BY <2>1, <2>5 DEF Open
  <2>7. Tidy(u)
    <3>1. ListOK(u)
      BY <1>2, <2>1, <2>3, <2>4, <2>5 DEF ListOK
    <3>2. TabsOK(u)
      BY <1>1, <2>5, <2>6 DEF TabsOK
    <3> QED BY <1>1, <2>5, <3>1, <3>2 DEF Tidy
  <2>8. SelectedId(u) = SelectedId(t)
    BY <1>2, <2>3, <2>4, <2>5 DEF SelectedId
  <2> QED BY <2>1, <2>5, <2>6, <2>7, <2>8 DEF u
<1> QED BY <1>2, <1>3, <1>4

\* reorder_workspaces: one move after the other.
LEMMA ReorderedIs ==
  ASSUME NEW t, Tidy(t), NEW names \in Seq(Workspaces)
  PROVE  LET u == Reordered(t, names)
         IN  /\ Tidy(u) /\ Open(u) = Open(t)
             /\ u.tabs = t.tabs /\ u.group = t.group /\ u.closed = t.closed
             /\ SelectedId(u) = SelectedId(t)
<1> DEFINE Same(u) == /\ Tidy(u) /\ Open(u) = Open(t)
                      /\ u.tabs = t.tabs /\ u.group = t.group /\ u.closed = t.closed
                      /\ SelectedId(u) = SelectedId(t)
           A       == {u \in Managers : Same(u)}
           order   == names \o Retain(t.list, Open(t) \ ToSet(names))
           N       == Len(order)
           places  == [i \in DOMAIN order |-> i]
           G       == [x \in A \X (1 .. N) |-> Moved(x[1], At(x[1], order[x[2]]), x[2])]
           Is(it)  == it = [s \in SUBSET (1 .. N) |->
                              IF s = {} THEN t
                              ELSE Moved(it[s \ {Max(s)}],
                                         At(it[s \ {Max(s)}], order[places[Max(s)]]),
                                         places[Max(s)])]
           f       == CHOOSE it : Is(it)
<1>1. t \in A
  BY DEF Tidy
<1>2. ASSUME NEW u \in A, NEW i, NEW j PROVE Moved(u, i, j) \in A
  <2>1. Same(u) /\ u \in Managers
    OBVIOUS
  <2>2. LET v == Moved(u, i, j)
        IN  /\ Tidy(v) /\ Open(v) = Open(u)
            /\ v.tabs = u.tabs /\ v.group = u.group /\ v.closed = u.closed
            /\ SelectedId(v) = SelectedId(u)
    BY <2>1, MovedIs
  <2>3. Same(Moved(u, i, j)) /\ Moved(u, i, j) \in Managers
    BY <2>1, <2>2 DEF Tidy
  <2> QED BY <2>3
<1>3. order \in Seq(Workspaces)
  <2>1. Retain(t.list, Open(t) \ ToSet(names)) \in Seq(Workspaces)
    BY TidyList, RetainFacts
  <2> QED BY <2>1
<1> HIDE DEF order
<1>4. N \in Nat /\ DOMAIN order = 1 .. N /\ places \in [1 .. N -> 1 .. N] /\ DOMAIN places = 1 .. N
      /\ \A i \in 1 .. N : places[i] = i
  BY <1>3
<1>5. Reordered(t, names) = f[1 .. N]
  <2>1. Reordered(t, names) =
          FoldLeftDomain(LAMBDA u, i : Moved(u, At(u, order[i]), i), t, order)
    BY DEF Reordered, order
  <2>2. FoldLeftDomain(LAMBDA u, i : Moved(u, At(u, order[i]), i), t, order) =
          FoldLeft(LAMBDA u, i : Moved(u, At(u, order[i]), i), t, places)
    BY DEF FoldLeftDomain
  <2>3. FoldLeft(LAMBDA u, i : Moved(u, At(u, order[i]), i), t, places) = f[1 .. N]
    <3> HIDE DEF places, N
    <3> QED BY <1>4 DEF FoldLeft, MapThenFoldSet
  <2> QED BY <2>1, <2>2, <2>3
<1> HIDE DEF places, N, A
<1>6. \E it : Is(it)
  <2>1. G \in [A \X (1 .. N) -> A]
    <3>1. \A x \in A \X (1 .. N) : Moved(x[1], At(x[1], order[x[2]]), x[2]) \in A
      BY <1>2
    <3> QED BY <3>1
  <2> HIDE DEF G
  <2>2. PICK it : IsFold(it, N, A, t, places, G)
    BY <1>1, <1>4, <2>1, FoldExists
  <2>3. ASSUME NEW s \in SUBSET (1 .. N), s # {}
        PROVE  G[<<it[s \ {Max(s)}], places[Max(s)]>>] =
                 Moved(it[s \ {Max(s)}], At(it[s \ {Max(s)}], order[places[Max(s)]]), places[Max(s)])
    <3>1. Max(s) \in s
      <4>1. s \in SUBSET (0 .. N)
        OBVIOUS
      <4> QED BY <1>4, <2>3, <4>1, MaxOf
    <3>2. places[Max(s)] \in 1 .. N /\ it[s \ {Max(s)}] \in A
      BY <1>4, <2>2, <3>1 DEF IsFold
    <3> QED BY <3>2 DEF G
  <2>4. Is(it)
    BY <2>2, <2>3 DEF IsFold
  <2> HIDE DEF Is
  <2> QED BY <2>4
<1>7. Is(f)
  <2> HIDE DEF Is
  <2> QED BY <1>6
<1>8. f[1 .. 0] \in A
  <2> HIDE DEF f
  <2>1. 1 .. 0 = {} /\ 1 .. 0 \in SUBSET (1 .. N)
    OBVIOUS
  <2> QED BY <1>1, <1>7, <2>1
<1>9. ASSUME NEW n \in Nat, n + 1 <= N, f[1 .. n] \in A PROVE f[1 .. (n + 1)] \in A
  <2> HIDE DEF f
  <2>1. 1 .. (n + 1) \in SUBSET (1 .. N) /\ 1 .. (n + 1) # {}
    BY <1>4, <1>9
  <2>2. Max(1 .. (n + 1)) = n + 1 /\ (1 .. (n + 1)) \ {n + 1} = 1 .. n
    BY InitialSegment
  <2>3. f[1 .. (n + 1)] = Moved(f[1 .. n], At(f[1 .. n], order[places[n + 1]]), places[n + 1])
    BY <1>7, <2>1, <2>2
  <2> QED BY <1>2, <1>9, <2>3
<1> HIDE DEF f, Is
<1> DEFINE T == {n \in Nat : n <= N => f[1 .. n] \in A}
<1>10. 0 \in T /\ \A n \in Nat : n \in T => n + 1 \in T
  BY <1>4, <1>8, <1>9
<1>11. N \in T
  <2> HIDE DEF T
  <2> QED BY <1>4, <1>10, Induct
<1>12. f[1 .. N] \in A
  BY <1>4, <1>11
<1> QED BY <1>5, <1>12 DEF A

-----------------------------------------------------------------------------
(* Groups.                                                                  *)

LEMMA GroupsSet ==
  ASSUME NEW t, Tidy(t), NEW gr \in [Workspaces -> Groups \cup {None}],
         \A w \in Workspaces \ Open(t) : gr[w] = None
  PROVE  LET u == [t EXCEPT !.group = gr]
         IN  /\ Tidy(u) /\ Open(u) = Open(t) /\ u.list = t.list
             /\ u.tabs = t.tabs /\ u.closed = t.closed /\ u.group = gr
             /\ SelectedId(u) = SelectedId(t)
<1> DEFINE u == [t EXCEPT !.group = gr]
<1>1. t \in Managers /\ ListOK(t) /\ ClosedOK(t.closed) /\ TabsOK(t)
  BY DEF Tidy
<1>2. /\ u.list = t.list /\ u.selected = t.selected /\ u.tabs = t.tabs /\ u.group = gr
      /\ u.closed = t.closed /\ u \in Managers
  BY <1>1 DEF Managers
<1> HIDE DEF u
<1>3. Open(u) = Open(t) /\ SelectedId(u) = SelectedId(t)
  BY <1>2 DEF Open, SelectedId
<1>4. TabsOK(u) /\ ListOK(u)
  BY <1>1, <1>2, <1>3 DEF TabsOK, ListOK
<1> QED BY <1>1, <1>2, <1>3, <1>4 DEF u, Tidy

\* assign_to_group: the group, then a move.
LEMMA AssignedIs ==
  ASSUME NEW t, Tidy(t), NEW w \in Open(t), NEW g \in Groups \cup {None}
  PROVE  LET u == Assigned(t, w, g)
         IN  /\ Tidy(u) /\ Open(u) = Open(t)
             /\ u.tabs = t.tabs /\ u.closed = t.closed
             /\ SelectedId(u) = SelectedId(t)
<1> DEFINE gr == [t.group EXCEPT ![w] = g]
           s  == [t EXCEPT !.group = gr]
<1>1. t \in Managers /\ TabsOK(t)
  BY DEF Tidy
<1>2. /\ gr \in [Workspaces -> Groups \cup {None}]
      /\ \A v \in Workspaces \ Open(t) : gr[v] = None
  BY <1>1 DEF Managers, TabsOK
<1>3. s = [t EXCEPT !.group[w] = g]
  BY <1>1 DEF Managers
<1> HIDE DEF gr
<1>4. /\ Tidy(s) /\ Open(s) = Open(t)
      /\ s.tabs = t.tabs /\ s.closed = t.closed /\ SelectedId(s) = SelectedId(t)
  BY <1>2, GroupsSet
<1>5. Assigned(t, w, g) = s \/ \E i, j : Assigned(t, w, g) = Moved(s, i, j)
  BY <1>3 DEF Assigned
<1> HIDE DEF s
<1> QED BY <1>4, <1>5, MovedIs

\* move_group_before: the list is put together anew.
LEMMA BlockBeforeIs ==
  ASSUME NEW t, Tidy(t), NEW g, NEW target
  PROVE  /\ BlockBefore(t, g, target) \in Seq(Workspaces)
         /\ ToSet(BlockBefore(t, g, target)) = Open(t)
         /\ IsInjective(BlockBefore(t, g, target))
<1> DEFINE members == {w \in Open(t) : t.group[w] = g}
           block   == Retain(t.list, members)
           rest    == Retain(t.list, Open(t) \ members)
           i       == IF target \in ToSet(rest) THEN CHOOSE j \in DOMAIN rest : rest[j] = target
                      ELSE Len(rest) + 1
<1>1. t.list \in Seq(Workspaces) /\ IsInjective(t.list) /\ ToSet(t.list) = Open(t)
  BY TidyList DEF Tidy, ListOK, Open
<1>2. members \subseteq Open(t)
  OBVIOUS
<1>3. BlockBefore(t, g, target) = SubSeq(rest, 1, i - 1) \o block \o SubSeq(rest, i, Len(rest))
  BY DEF BlockBefore
<1> HIDE DEF members
<1>4. block \in Seq(Workspaces) /\ ToSet(block) = members /\ IsInjective(block)
  <2>1. block \in Seq(Workspaces) /\ ToSet(block) = ToSet(t.list) \cap members /\ IsInjective(block)
    BY <1>1, RetainFacts
  <2> HIDE DEF block
  <2> QED BY <1>1, <1>2, <2>1
<1>5. rest \in Seq(Workspaces) /\ ToSet(rest) = Open(t) \ members /\ IsInjective(rest)
  <2> DEFINE others == Open(t) \ members
  <2>1. others \subseteq Open(t)
    OBVIOUS
  <2> HIDE DEF others
  <2>2. /\ Retain(t.list, others) \in Seq(Workspaces) /\ IsInjective(Retain(t.list, others))
        /\ ToSet(Retain(t.list, others)) = ToSet(t.list) \cap others
    BY <1>1, RetainFacts
  <2> QED BY <1>1, <2>1, <2>2 DEF others
<1> HIDE DEF block, rest
<1>6. i \in 1 .. (Len(rest) + 1)
  <2>1. DOMAIN rest = 1 .. Len(rest) /\ Len(rest) \in Nat
    BY <1>5
  <2>2. target \in ToSet(rest) => \E j \in DOMAIN rest : rest[j] = target
    BY DEF ToSet
  <2> QED BY <2>1, <2>2
<1> HIDE DEF i
<1>7. ToSet(rest) \cap ToSet(block) = {} /\ ToSet(rest) \cup ToSet(block) = Open(t)
  BY <1>2, <1>4, <1>5
<1> DEFINE r == SubSeq(rest, 1, i - 1) \o block \o SubSeq(rest, i, Len(rest))
<1>8. r \in Seq(Workspaces) /\ ToSet(r) = ToSet(rest) \cup ToSet(block) /\ IsInjective(r)
  BY <1>4, <1>5, <1>6, <1>7, BetweenIs
<1> HIDE DEF r
<1> QED BY <1>3, <1>7, <1>8 DEF r

LEMMA GroupMovedIs ==
  ASSUME NEW t, Tidy(t), NEW g, NEW target
  PROVE  LET u == GroupMoved(t, g, target)
         IN  /\ Tidy(u) /\ Open(u) = Open(t)
             /\ u.tabs = t.tabs /\ u.closed = t.closed
             /\ SelectedId(u) = SelectedId(t)
<1> DEFINE l == BlockBefore(t, g, target)
           m == [t EXCEPT !.list = l]
           sel == IF t.selected = 0 THEN 0 ELSE At(m, SelectedId(t))
           u == GroupMoved(t, g, target)
<1>1. t \in Managers /\ ListOK(t) /\ ClosedOK(t.closed) /\ TabsOK(t)
  BY DEF Tidy
<1>2. l \in Seq(Workspaces) /\ ToSet(l) = Open(t) /\ IsInjective(l)
  BY BlockBeforeIs
<1>3. u = [m EXCEPT !.selected = IF @ = 0 THEN 0 ELSE At(m, SelectedId(t))]
  BY DEF GroupMoved
<1> HIDE DEF l
<1>4. /\ m.list = l /\ m.selected = t.selected
      /\ u.list = l /\ u.selected = sel /\ u.tabs = t.tabs /\ u.group = t.group
      /\ u.closed = t.closed
      /\ u = [list |-> l, selected |-> sel, tabs |-> t.tabs, group |-> t.group, closed |-> t.closed]
  <2>1. /\ m.list = l /\ m.selected = t.selected
        /\ m = [list |-> l, selected |-> t.selected, tabs |-> t.tabs, group |-> t.group,
                closed |-> t.closed]
    BY <1>1 DEF Managers
  <2>2. u = [m EXCEPT !.selected = sel]
    <3> HIDE DEF m, u
    <3> QED BY <1>3, <2>1
  <2> HIDE DEF u, sel, m
  <2> QED BY <2>1, <2>2
<1>5. t.selected # 0 => SelectedId(t) \in Open(m)
  BY <1>2, <1>4, Selected DEF Open
<1> HIDE DEF m, u
<1>6. t.selected # 0 => sel \in 1 .. Len(l) /\ l[sel] = SelectedId(t)
  BY <1>2, <1>4, <1>5, AtHolds
<1>7. Len(l) \in Nat /\ sel \in Nat /\ sel <= Len(l) /\ (sel = 0 <=> t.selected = 0)
  BY <1>2, <1>6
<1> HIDE DEF sel
<1>8. Open(u) = Open(t)
  BY <1>2, <1>4 DEF Open
<1>9. Tidy(u)
  <2>1. u \in Managers
    BY <1>1, <1>2, <1>4, <1>7 DEF Managers
  <2>2. ListOK(u) /\ TabsOK(u)
    BY <1>1, <1>2, <1>4, <1>7, <1>8 DEF ListOK, TabsOK
  <2> QED BY <1>1, <1>4, <2>1, <2>2 DEF Tidy
<1>10. SelectedId(u) = SelectedId(t)
  BY <1>4, <1>6, <1>7 DEF SelectedId
<1> QED BY <1>4, <1>8, <1>9, <1>10 DEF u

-----------------------------------------------------------------------------
(* Closing several at once.                                                 *)

\* What is left without the workspaces of gone, whatever is then selected of it.
LEMMA WithoutIs ==
  ASSUME NEW t, Tidy(t), NEW gone
  PROVE  LET left == Without(t, gone)
         IN  /\ left.list \in Seq(Workspaces) /\ Len(left.list) \in Nat
             /\ left.selected = t.selected
             /\ Open(left) = Open(t) \ gone
             /\ \A sel \in 0 .. Len(left.list) :
                  /\ Tidy([left EXCEPT !.selected = sel])
                  /\ NoneEmpty(t) => NoneEmpty([left EXCEPT !.selected = sel])
<1> DEFINE left == Without(t, gone)
           l    == Retain(t.list, Open(t) \ gone)
           tabs == [w \in Workspaces |-> IF w \in gone THEN {} ELSE t.tabs[w]]
           gr   == [w \in Workspaces |-> IF w \in gone THEN None ELSE t.group[w]]
<1>1. t \in Managers /\ ListOK(t) /\ ClosedOK(t.closed) /\ TabsOK(t)
  BY DEF Tidy
<1>2. /\ l \in Seq(Workspaces) /\ ToSet(l) = Open(t) \ gone /\ IsInjective(l)
  <2>1. t.list \in Seq(Workspaces) /\ IsInjective(t.list) /\ ToSet(t.list) = Open(t)
    BY <1>1, TidyList DEF ListOK, Open
  <2> QED BY <2>1, RetainFacts
<1>3. left = [list |-> l, selected |-> t.selected, tabs |-> tabs, group |-> gr, closed |-> t.closed]
  <2>1. Dropped(t, gone) = [list |-> t.list, selected |-> t.selected, tabs |-> tabs,
                            group |-> gr, closed |-> t.closed]
    <3>1. t = [list |-> t.list, selected |-> t.selected, tabs |-> t.tabs, group |-> t.group,
               closed |-> t.closed]
      BY <1>1 DEF Managers
    <3>2. Dropped(t, gone) = [t EXCEPT !.tabs = tabs, !.group = gr]
      <4>1. Dropped(t, gone) =
              [t EXCEPT !.tabs  = [w \in Workspaces |-> IF w \in gone THEN {} ELSE @[w]],
                        !.group = [w \in Workspaces |-> IF w \in gone THEN None ELSE @[w]]]
        BY DEF Dropped
      <4> QED BY <3>1, <4>1
    <3> HIDE DEF tabs, gr
    <3> QED BY <3>1, <3>2
  <2>2. left = [Dropped(t, gone) EXCEPT !.list = Retain(@, Open(t) \ gone)]
    BY DEF Without
  <2> HIDE DEF tabs, gr, left
  <2> QED BY <2>1, <2>2
<1> HIDE DEF left, l
<1>4. Open(left) = Open(t) \ gone
  BY <1>2, <1>3 DEF Open
<1>5. Open(t) \subseteq Workspaces
  BY TidyList
<1>6. /\ tabs \in [Workspaces -> SUBSET Panels] /\ gr \in [Workspaces -> Groups \cup {None}]
      /\ \A w \in Workspaces : tabs[w] = IF w \in gone THEN {} ELSE t.tabs[w]
      /\ \A w \in Workspaces : gr[w] = IF w \in gone THEN None ELSE t.group[w]
  BY <1>1 DEF Managers
<1> HIDE DEF tabs, gr
<1>7. ASSUME NEW sel \in 0 .. Len(left.list)
      PROVE  LET u == [left EXCEPT !.selected = sel]
             IN  Tidy(u) /\ (NoneEmpty(t) => NoneEmpty(u))
  <2> DEFINE u == [left EXCEPT !.selected = sel]
  <2>1. /\ u.list = l /\ u.selected = sel /\ u.tabs = tabs /\ u.group = gr /\ u.closed = t.closed
        /\ u = [list |-> l, selected |-> sel, tabs |-> tabs, group |-> gr, closed |-> t.closed]
    BY <1>3
  <2> HIDE DEF u
  <2>2. sel \in Nat /\ sel <= Len(l)
    BY <1>2, <1>3
  <2>3. Open(u) = Open(t) \ gone
    BY <1>2, <2>1 DEF Open
  <2>4. u \in Managers
    BY <1>1, <1>2, <1>6, <2>1, <2>2 DEF Managers
  <2>5. ListOK(u)
    BY <1>2, <2>1, <2>2 DEF ListOK
  <2>6. TabsOK(u)
    <3>1. \A v \in Workspaces \ Open(u) : u.tabs[v] = {} /\ u.group[v] = None
      BY <1>1, <1>6, <2>1, <2>3 DEF TabsOK
    <3>2. \A v, x \in Workspaces : v # x => u.tabs[v] \cap u.tabs[x] = {}
      BY <1>1, <1>6, <2>1 DEF TabsOK
    <3>3. \A k \in 1 .. Len(u.closed) :
            /\ u.closed[k].id \notin Open(u)
            /\ \A v \in Workspaces : u.closed[k].tabs \cap u.tabs[v] = {}
      BY <1>1, <1>6, <2>1, <2>3 DEF TabsOK
    <3> QED BY <3>1, <3>2, <3>3 DEF TabsOK
  <2>7. Tidy(u)
    BY <1>1, <2>1, <2>4, <2>5, <2>6 DEF Tidy
  <2>8. ASSUME NoneEmpty(t) PROVE NoneEmpty(u)
    BY <1>5, <1>6, <2>1, <2>3, <2>8 DEF NoneEmpty
  <2> QED BY <2>7, <2>8 DEF u
<1> QED BY <1>2, <1>3, <1>4, <1>7 DEF left

LEMMA CloseOthersIs ==
  ASSUME NEW t, Tidy(t), NEW keep, NEW pinned
  PROVE  LET u == CloseOthers(t, keep, pinned)
         IN  Tidy(u) /\ (NoneEmpty(t) => NoneEmpty(u))
<1> DEFINE gone == Open(t) \ (pinned \cup {keep})
           left == Without(t, gone)
           sel  == IF left.list = <<>> THEN 0
                   ELSE IF keep \in Open(left) THEN At(left, keep) ELSE 1
<1>1. CloseOthers(t, keep, pinned) = [left EXCEPT !.selected = sel]
  BY DEF CloseOthers
<1> HIDE DEF gone
<1>2. left.list \in Seq(Workspaces) /\ Len(left.list) \in Nat
  BY WithoutIs
<1>3. sel \in 0 .. Len(left.list)
  <2> HIDE DEF left
  <2>1. left.list # <<>> => 1 \in 0 .. Len(left.list)
    BY <1>2
  <2>2. keep \in Open(left) => At(left, keep) \in 1 .. Len(left.list)
    BY <1>2, AtHolds
  <2> QED BY <1>2, <2>1, <2>2
<1> HIDE DEF sel
<1> QED BY <1>1, <1>3, WithoutIs

LEMMA CloseAboveIs ==
  ASSUME NEW t, Tidy(t), NEW w, NEW pinned
  PROVE  LET u == CloseAbove(t, w, pinned)
         IN  Tidy(u) /\ (NoneEmpty(t) => NoneEmpty(u))
<1> DEFINE gone == ToSet(SubSeq(t.list, 1, At(t, w) - 1)) \ pinned
           left == Without(t, gone)
<1>1. CASE w \notin Open(t)
  BY <1>1 DEF CloseAbove
<1>2. CASE w \in Open(t)
  <2>1. CloseAbove(t, w, pinned) = [left EXCEPT !.selected = At(left, w)]
    BY <1>2 DEF CloseAbove
  <2>2. w \notin gone
    <3> DEFINE i == At(t, w)
    <3>1. i \in 1 .. Len(t.list) /\ t.list[i] = w
      BY <1>2, AtFinds
    <3>2. t.list \in Seq(Workspaces) /\ Len(t.list) \in Nat
          /\ \A j, k \in 1 .. Len(t.list) : t.list[j] = t.list[k] => j = k
      BY TidyList
    <3> HIDE DEF i
    <3>3. ToSet(SubSeq(t.list, 1, i - 1)) = {t.list[j] : j \in 1 .. (i - 1)}
      <4>1. 1 \in 1 .. (Len(t.list) + 1) /\ i - 1 \in (1 - 1) .. Len(t.list)
        BY <3>1, <3>2
      <4> QED BY <3>2, <4>1, SliceInjective
    <3>4. \A j \in 1 .. (i - 1) : t.list[j] # w
      BY <3>1, <3>2
    <3> QED BY <3>3, <3>4 DEF i
  <2> HIDE DEF gone
  <2>3. left.list \in Seq(Workspaces) /\ Len(left.list) \in Nat /\ Open(left) = Open(t) \ gone
    BY WithoutIs
  <2>4. At(left, w) \in 0 .. Len(left.list)
    <3>1. w \in Open(left)
      BY <1>2, <2>2, <2>3
    <3> HIDE DEF left
    <3> QED BY <2>3, <3>1, AtHolds
  <2> QED BY <2>1, <2>4, WithoutIs
<1> QED BY <1>1, <1>2

LEMMA CloseBelowIs ==
  ASSUME NEW t, Tidy(t), NEW w, NEW pinned
  PROVE  LET u == CloseBelow(t, w, pinned)
         IN  Tidy(u) /\ (NoneEmpty(t) => NoneEmpty(u))
<1> DEFINE gone == ToSet(SubSeq(t.list, At(t, w) + 1, Len(t.list))) \ pinned
           left == Without(t, gone)
           sel  == IF t.selected > Len(left.list) THEN Len(left.list) ELSE t.selected
<1>1. CASE w \notin Open(t)
  BY <1>1 DEF CloseBelow
<1>2. CASE w \in Open(t)
  <2> HIDE DEF gone
  <2>1. left.list \in Seq(Workspaces) /\ Len(left.list) \in Nat /\ left.selected = t.selected
    BY WithoutIs
  <2>2. CloseBelow(t, w, pinned) = [left EXCEPT !.selected = sel]
    <3>1. CloseBelow(t, w, pinned) =
            [left EXCEPT !.selected = IF @ > Len(left.list) THEN Len(left.list) ELSE @]
      BY <1>2 DEF CloseBelow, gone
    <3> HIDE DEF left
    <3> QED BY <2>1, <3>1
  <2>3. sel \in 0 .. Len(left.list)
    BY <2>1, TidyList
  <2> HIDE DEF sel
  <2> QED BY <2>2, <2>3, WithoutIs
<1> QED BY <1>1, <1>2

-----------------------------------------------------------------------------
(* Selecting, reopening, forgetting.                                        *)

LEMMA Reselected ==
  ASSUME NEW t, Tidy(t), NEW sel \in 0 .. Len(t.list)
  PROVE  LET u == [t EXCEPT !.selected = sel]
         IN  /\ Tidy(u) /\ Keeps(t, u) /\ Open(u) = Open(t)
             /\ u.list = t.list /\ u.selected = sel
             /\ u.tabs = t.tabs /\ u.closed = t.closed
<1> DEFINE u == [t EXCEPT !.selected = sel]
<1>1. t \in Managers /\ ListOK(t) /\ ClosedOK(t.closed) /\ TabsOK(t)
  BY DEF Tidy
<1>2. sel \in Nat /\ sel <= Len(t.list)
  BY TidyList
<1>3. /\ u.list = t.list /\ u.selected = sel /\ u.tabs = t.tabs /\ u.group = t.group
      /\ u.closed = t.closed /\ u \in Managers
  BY <1>1, <1>2 DEF Managers
<1> HIDE DEF u
<1>4. Open(u) = Open(t)
  BY <1>3 DEF Open
<1>5. ListOK(u) /\ TabsOK(u)
  BY <1>1, <1>2, <1>3, <1>4 DEF ListOK, TabsOK
<1>6. Keeps(t, u)
  BY <1>3, InKept DEF Keeps
<1> QED BY <1>1, <1>3, <1>4, <1>5, <1>6 DEF u, Tidy

\* The closed list may lose entries.
LEMMA ClosedSet ==
  ASSUME NEW t, Tidy(t), NEW c \in Seq(Entries), ClosedOK(c),
         \A i \in 1 .. Len(c) : \E j \in 1 .. Len(t.closed) : c[i] = t.closed[j]
  PROVE  LET u == [t EXCEPT !.closed = c]
         IN  /\ Tidy(u) /\ Keeps(t, u) /\ Open(u) = Open(t)
             /\ u.list = t.list /\ u.tabs = t.tabs /\ u.closed = c
             /\ SelectedId(u) = SelectedId(t)
<1> DEFINE u == [t EXCEPT !.closed = c]
<1>1. t \in Managers /\ ListOK(t) /\ ClosedOK(t.closed) /\ TabsOK(t)
  BY DEF Tidy
<1>2. /\ u.list = t.list /\ u.selected = t.selected /\ u.tabs = t.tabs /\ u.group = t.group
      /\ u.closed = c /\ u \in Managers
  BY <1>1 DEF Managers
<1> HIDE DEF u
<1>3. Open(u) = Open(t) /\ SelectedId(u) = SelectedId(t)
  BY <1>2 DEF Open, SelectedId
<1>4. ListOK(u)
  BY <1>1, <1>2 DEF ListOK
<1>5. TabsOK(u)
  <2>1. \A v \in Workspaces \ Open(u) : u.tabs[v] = {} /\ u.group[v] = None
    BY <1>1, <1>2, <1>3 DEF TabsOK
  <2>2. \A v, x \in Workspaces : v # x => u.tabs[v] \cap u.tabs[x] = {}
    BY <1>1, <1>2 DEF TabsOK
  <2>3. ASSUME NEW k \in 1 .. Len(u.closed)
        PROVE  u.closed[k].id \notin Open(u) /\ \A v \in Workspaces : u.closed[k].tabs \cap u.tabs[v] = {}
    <3>1. PICK j \in 1 .. Len(t.closed) : u.closed[k] = t.closed[j]
      BY <1>2
    <3> QED BY <1>1, <1>2, <1>3, <3>1 DEF TabsOK
  <2> QED BY <2>1, <2>2, <2>3 DEF TabsOK
<1>6. Keeps(t, u)
  BY <1>2, InKept DEF Keeps
<1> QED BY <1>2, <1>3, <1>4, <1>5, <1>6 DEF u, Tidy

\* An entry taken from the closed list: nothing of it is left there.
LEMMA EntryTaken ==
  ASSUME NEW t, Tidy(t), NEW i \in 1 .. Len(t.closed)
  PROVE  LET c == RemoveAt(t.closed, i)
         IN  /\ c \in Seq(Entries) /\ ClosedOK(c)
             /\ \A k \in 1 .. Len(c) : \E j \in 1 .. Len(t.closed) : c[k] = t.closed[j]
             /\ \A k \in 1 .. Len(c) : /\ c[k].id # t.closed[i].id
                                       /\ c[k].tabs \cap t.closed[i].tabs = {}
<1> DEFINE s == t.closed
           n == Len(s)
           c == RemoveAt(s, i)
<1>1. s \in Seq(Entries) /\ ClosedOK(s) /\ n \in Nat /\ n <= ClosedCap /\ ClosedCap \in Nat
  BY CapsArePositive DEF Tidy, Managers, ClosedOK
<1> HIDE DEF s
<1>2. i \in 1 .. Len(s)
  BY DEF s
<1>3. /\ c \in Seq(Entries) /\ Len(c) = n - 1
      /\ \A j \in 1 .. (n - 1) : c[j] = IF j < i THEN s[j] ELSE s[j + 1]
  BY <1>1, <1>2, RemoveAtIs
<1> HIDE DEF c
<1> DEFINE src(j) == IF j < i THEN j ELSE j + 1
<1>4. \A j \in 1 .. (n - 1) : src(j) \in 1 .. n /\ src(j) # i /\ c[j] = s[src(j)]
  BY <1>1, <1>2, <1>3
<1>5. \A j, k \in 1 .. (n - 1) : j # k => src(j) # src(k)
  BY <1>1, <1>2
<1> HIDE DEF src
<1>6. /\ \A j \in 1 .. n : s[j].tabs # {}
      /\ \A j, k \in 1 .. n : j # k => s[j].id # s[k].id /\ s[j].tabs \cap s[k].tabs = {}
  BY <1>1 DEF ClosedOK
<1>7. n \in Nat /\ i \in 1 .. n /\ n - 1 <= ClosedCap
  BY <1>1, <1>2
<1> HIDE DEF n
<1>8. \A j \in 1 .. (n - 1) : c[j].tabs # {} /\ c[j].id # s[i].id /\ c[j].tabs \cap s[i].tabs = {}
  BY <1>4, <1>6, <1>7
<1>9. \A j, k \in 1 .. (n - 1) :
        j # k => c[j].id # c[k].id /\ c[j].tabs \cap c[k].tabs = {}
  BY <1>4, <1>5, <1>6
<1>10. ClosedOK(c)
  BY <1>3, <1>7, <1>8, <1>9 DEF ClosedOK
<1>11. \A k \in 1 .. Len(c) : \E j \in 1 .. n : c[k] = s[j]
  BY <1>3, <1>4
<1>12. \A k \in 1 .. Len(c) : c[k].id # s[i].id /\ c[k].tabs \cap s[i].tabs = {}
  BY <1>3, <1>8
<1> QED BY <1>3, <1>10, <1>11, <1>12 DEF c, n, s

-----------------------------------------------------------------------------
(* The invariant.                                                           *)

Requests == [kind : {"close", "move", "others", "above", "below"}, id : Workspaces,
             from : Nat, to : Nat]

FocusOK ==
  /\ focus \in [history : Seq(Workspaces), pos : Nat]
  /\ Len(focus.history) <= HistoryCap
  /\ focus.pos <= Len(focus.history) /\ (focus.pos = 0) = (focus.history = <<>>)

AskedOK == asked = None \/ asked \in Requests

Sound(t) == Tidy(t) /\ NoneEmpty(t)

IInv == Sound(tm) /\ groups \subseteq Groups /\ FocusOK /\ AskedOK

\* What a new Uuid gives.
LEMMA NewIsAddable ==
  ASSUME IInv, NEW w \in Workspaces, NewWorkspace(w), NEW p \in Panels, NewPanel(p),
         NEW g \in Groups \cup {None}
  PROVE  Addable(tm, w, {p}, g)
<1>1. Tidy(tm) /\ tm \in Managers
  BY DEF IInv, Sound, Tidy
<1>2. p \notin Kept(tm)
  BY DEF NewPanel
<1>3. /\ \A v \in Workspaces : p \notin tm.tabs[v]
      /\ \A i \in 1 .. Len(tm.closed) : p \notin tm.closed[i].tabs
  BY <1>1, <1>2, InKept
<1>4. DOMAIN tm.closed = 1 .. Len(tm.closed)
  BY <1>1 DEF Managers
<1>5. w \notin Open(tm) /\ \A i \in 1 .. Len(tm.closed) : tm.closed[i].id # w
  BY <1>4 DEF NewWorkspace, Names
<1> QED BY <1>3, <1>5 DEF Addable

LEMMA NewIsHomeless ==
  ASSUME IInv, NEW p \in Panels, NewPanel(p)
  PROVE  Homeless(tm, p)
<1>1. tm \in Managers /\ p \notin Kept(tm)
  BY DEF IInv, Sound, Tidy, NewPanel
<1> QED BY <1>1, InKept DEF Homeless

\* A workspace added with a panel: none is empty then.
LEMMA StillNoneEmpty ==
  ASSUME NEW t, Sound(t), NEW u, NEW w, NEW panels, panels # {},
         Open(u) = Open(t) \cup {w},
         \A v \in Workspaces : u.tabs[v] = IF v = w THEN panels ELSE t.tabs[v],
         w \in Workspaces
  PROVE  NoneEmpty(u)
BY TidyList DEF Sound, NoneEmpty

\* Nothing of the panels changes.
LEMMA SameTabs ==
  ASSUME NEW t, Sound(t), NEW u, Tidy(u), Open(u) = Open(t), u.tabs = t.tabs
  PROVE  Sound(u) /\ Keeps(t, u)
<1>1. u \in Managers /\ t \in Managers
  BY DEF Sound, Tidy
<1>2. Keeps(t, u)
  BY <1>1, InKept DEF Keeps
<1> QED BY <1>2 DEF Sound, NoneEmpty

\* Keeping panels by way of another manager.
LEMMA KeepsThrough ==
  ASSUME NEW t, Tidy(t), NEW u, Tidy(u), NEW v, Keeps(u, v),
         NEW w \in Workspaces, NEW p, p \in Kept(v),
         \A x \in Workspaces : t.tabs[x] \ {p} \subseteq u.tabs[x]
  PROVE  Keeps(t, v)
BY DEF Keeps

-----------------------------------------------------------------------------
(* The operations that choose.                                              *)

Bulk == asked # None /\ asked.kind \in {"others", "above", "below"}

\* What an operation that chooses does to the manager.
Chosen == Sound(tm') /\ (Keeps(tm, tm') \/ Bulk)

LEMMA SelectIs ==
  ASSUME IInv, NEW i \in DOMAIN tm.list, Select(i)
  PROVE  Chosen
<1>1. Sound(tm) /\ Tidy(tm)
  BY DEF IInv, Sound
<1>2. i \in 0 .. Len(tm.list)
  BY <1>1, TidyList
<1>3. tm' = [tm EXCEPT !.selected = i]
  BY DEF Select, Manager
<1>4. /\ Tidy(tm') /\ Keeps(tm, tm') /\ Open(tm') = Open(tm) /\ tm'.tabs = tm.tabs
  BY <1>1, <1>2, <1>3, Reselected
<1> QED BY <1>1, <1>4, SameTabs DEF Chosen

LEMMA CreateWorkspaceIs ==
  ASSUME IInv, NEW w \in Workspaces, NEW p \in Panels, NEW placement \in Placements,
         CreateWorkspace(w, p, placement)
  PROVE  Chosen
<1>1. Sound(tm) /\ Tidy(tm)
  BY DEF IInv, Sound
<1>2. Addable(tm, w, {p}, None)
  BY NewIsAddable DEF CreateWorkspace
<1>3. tm' = Add(tm, w, {p}, None, placement)
  BY DEF CreateWorkspace, Manager
<1>4. /\ Tidy(tm') /\ Keeps(tm, tm') /\ Open(tm') = Open(tm) \cup {w}
      /\ \A v \in Workspaces : tm'.tabs[v] = IF v = w THEN {p} ELSE tm.tabs[v]
  BY <1>1, <1>2, <1>3, AddIs
<1>5. NoneEmpty(tm')
  BY <1>1, <1>4, StillNoneEmpty
<1> QED BY <1>4, <1>5 DEF Chosen, Sound

LEMMA BreakPaneIs ==
  ASSUME IInv, NEW from \in Open(tm), NEW p \in Panels, NEW w \in Workspaces,
         NEW placement \in Placements, BreakPane(p, from, w, placement)
  PROVE  Chosen
<1> DEFINE left == Detached(tm, p, from)
<1>1. Sound(tm) /\ Tidy(tm) /\ from \in Workspaces
  BY TidyList DEF IInv, Sound
<1>2. p \in tm.tabs[from] /\ Cardinality(tm.tabs[from]) > 1 /\ NewWorkspace(w)
  BY DEF BreakPane
<1>3. tm' = Add(left, w, {p}, None, placement)
  BY DEF BreakPane, Manager
<1>4. tm.tabs[from] # {p}
  <2>1. Cardinality({p}) = 1
    BY FS_Singleton
  <2>2. SUFFICES ASSUME tm.tabs[from] = {p} PROVE FALSE
    OBVIOUS
  <2>3. Cardinality(tm.tabs[from]) = 1
    BY <2>1, <2>2
  <2> QED BY <1>2, <2>3
<1>5. /\ Tidy(left) /\ Homeless(left, p) /\ left.closed = tm.closed /\ Open(left) = Open(tm)
      /\ \A v \in Workspaces : left.tabs[v] = IF v = from THEN tm.tabs[from] \ {p} ELSE tm.tabs[v]
      /\ NoneEmpty(left)
  <2>1. Tidy(tm) /\ from \in Open(tm) /\ p \in tm.tabs[from]
    BY <1>1, <1>2
  <2>2. /\ Tidy(left) /\ Homeless(left, p) /\ left.closed = tm.closed
        /\ Open(left) = IF tm.tabs[from] = {p} THEN Open(tm) \ {from} ELSE Open(tm)
        /\ \A v \in Workspaces :
             left.tabs[v] = IF v = from THEN tm.tabs[from] \ {p} ELSE tm.tabs[v]
        /\ NoneEmpty(tm) => NoneEmpty(left)
    BY <2>1, DetachedIs
  <2> HIDE DEF left
  <2> QED BY <1>1, <1>4, <2>2 DEF Sound
<1> HIDE DEF left
<1>6. w \notin Open(tm) /\ \A i \in 1 .. Len(tm.closed) : tm.closed[i].id # w
  <2>1. DOMAIN tm.closed = 1 .. Len(tm.closed)
    BY <1>1 DEF Tidy, Managers
  <2> QED BY <1>2, <2>1 DEF NewWorkspace, Names
<1>7. Addable(left, w, {p}, None)
  BY <1>5, <1>6 DEF Addable, Homeless
<1>8. /\ Tidy(tm') /\ Keeps(left, tm') /\ Open(tm') = Open(left) \cup {w}
      /\ \A v \in Workspaces : tm'.tabs[v] = IF v = w THEN {p} ELSE left.tabs[v]
  <2> DEFINE one == {p}
             u   == Add(left, w, one, None, placement)
  <2>1. Tidy(left) /\ Addable(left, w, one, None)
    BY <1>5, <1>7
  <2>2. tm' = u
    BY <1>3
  <2> HIDE DEF one
  <2>3. /\ Tidy(u) /\ Keeps(left, u) /\ Open(u) = Open(left) \cup {w}
        /\ \A v \in Workspaces : u.tabs[v] = IF v = w THEN one ELSE left.tabs[v]
    BY <2>1, AddIs
  <2> HIDE DEF u
  <2> QED BY <2>2, <2>3 DEF one
<1>9. NoneEmpty(tm')
  BY <1>5, <1>8, StillNoneEmpty DEF Sound
<1>10. p \in Kept(tm')
  <2>1. tm' \in Managers /\ p \in tm'.tabs[w]
    BY <1>8 DEF Tidy
  <2> QED BY <2>1, InKept
<1>11. Keeps(tm, tm')
  <2>1. \A x \in Workspaces : tm.tabs[x] \ {p} \subseteq left.tabs[x]
    BY <1>5
  <2> QED BY <1>1, <1>5, <1>8, <1>10, <2>1, KeepsThrough
<1> QED BY <1>8, <1>9, <1>11 DEF Chosen, Sound

LEMMA ReopenIs ==
  ASSUME IInv, NEW i \in DOMAIN tm.closed, Reopen(i)
  PROVE  Chosen
<1> DEFINE e    == tm.closed[i]
           c    == RemoveAt(tm.closed, i)
           left == [tm EXCEPT !.closed = c]
<1>1. Sound(tm) /\ Tidy(tm)
  BY DEF IInv, Sound
<1>2. i \in 1 .. Len(tm.closed) /\ e \in Entries
  BY <1>1 DEF Tidy, Managers
<1>3. /\ c \in Seq(Entries) /\ ClosedOK(c)
      /\ \A k \in 1 .. Len(c) : \E j \in 1 .. Len(tm.closed) : c[k] = tm.closed[j]
      /\ \A k \in 1 .. Len(c) : c[k].id # e.id /\ c[k].tabs \cap e.tabs = {}
  BY <1>1, <1>2, EntryTaken
<1>4. e.id \notin Open(tm) /\ e.tabs # {} /\ \A w \in Workspaces : e.tabs \cap tm.tabs[w] = {}
  BY <1>1, <1>2 DEF Tidy, TabsOK, ClosedOK
<1>5. tm' = Add(left, e.id, e.tabs, e.group, "end")
  BY <1>4 DEF Reopen, Manager
<1> HIDE DEF c
<1>6. /\ Tidy(left) /\ Keeps(tm, left) /\ Open(left) = Open(tm)
      /\ left.tabs = tm.tabs /\ left.closed = c
  BY <1>1, <1>3, ClosedSet
<1> HIDE DEF left, e
<1>7. Addable(left, e.id, e.tabs, e.group)
  <2>1. e.id \in Workspaces /\ e.tabs \in SUBSET Panels /\ e.group \in Groups \cup {None}
    BY <1>2 DEF Entries
  <2> QED BY <2>1, <1>3, <1>4, <1>6 DEF Addable
<1>8. /\ Tidy(tm') /\ Keeps(left, tm') /\ Open(tm') = Open(left) \cup {e.id}
      /\ \A v \in Workspaces : tm'.tabs[v] = IF v = e.id THEN e.tabs ELSE left.tabs[v]
  BY <1>5, <1>6, <1>7, AddIs DEF Placements
<1>9. NoneEmpty(tm')
  <2>1. e.id \in Workspaces
    BY <1>2 DEF Entries
  <2>2. Sound(left)
    BY <1>1, <1>6, SameTabs
  <2> QED BY <1>4, <1>8, <2>1, <2>2, StillNoneEmpty
<1>10. Keeps(tm, tm')
  BY <1>6, <1>8 DEF Keeps
<1> QED BY <1>8, <1>9, <1>10 DEF Chosen, Sound

\* Selecting the workspace at a place of the history, which is still open.
LEMMA SelectedAgain ==
  ASSUME IInv, NEW w \in Open(tm), tm' = [tm EXCEPT !.selected = At(tm, w)]
  PROVE  Chosen
<1>1. Sound(tm) /\ Tidy(tm)
  BY DEF IInv, Sound
<1>2. At(tm, w) \in 0 .. Len(tm.list)
  BY <1>1, AtFinds
<1>3. /\ Tidy(tm') /\ Keeps(tm, tm') /\ Open(tm') = Open(tm) /\ tm'.tabs = tm.tabs
  BY <1>1, <1>2, Reselected
<1> QED BY <1>1, <1>3, SameTabs DEF Chosen

LEMMA Unmoved ==
  ASSUME IInv, tm' = tm
  PROVE  Chosen
<1>1. Keeps(tm, tm)
  <2>1. tm \in Managers
    BY DEF IInv, Sound, Tidy
  <2> QED BY <2>1, InKept DEF Keeps
<1> QED BY <1>1 DEF Chosen, IInv

LEMMA BackIs ==
  ASSUME IInv, Back
  PROVE  Chosen /\ FocusOK'
<1> DEFINE h    == focus.history
           live == {i \in 1 .. focus.pos - 1 : h[i] \in Open(tm)}
           pos  == IF live = {} THEN 1 ELSE Max(live)
<1>1. /\ h \in Seq(Workspaces) /\ Len(h) \in Nat /\ Len(h) <= HistoryCap
      /\ focus.pos \in Nat /\ focus.pos <= Len(h) /\ (focus.pos = 0) = (h = <<>>)
      /\ focus.pos > 1 /\ focus = [history |-> h, pos |-> focus.pos]
  BY DEF IInv, FocusOK, Back
<1>2. focus' = [focus EXCEPT !.pos = pos]
  BY DEF Back
<1>3. CASE live = {}
  <2>1. pos = 1 /\ tm' = tm
    BY <1>3 DEF Back
  <2>2. FocusOK'
    BY <1>1, <1>2, <2>1 DEF FocusOK
  <2> QED BY <2>1, <2>2, Unmoved
<1>4. CASE live # {}
  <2>1. live \in SUBSET (0 .. Len(h))
    BY <1>1
  <2>2. Max(live) \in live
    BY <1>1, <1>4, <2>1, MaxOf
  <2>3. h[Max(live)] \in Open(tm) /\ pos = Max(live) /\ pos \in 1 .. focus.pos - 1
    BY <1>4, <2>2
  <2>4. tm' = [tm EXCEPT !.selected = At(tm, h[Max(live)])]
    BY <1>4 DEF Back
  <2>5. Chosen
    BY <2>3, <2>4, SelectedAgain
  <2> HIDE DEF live, pos
  <2>6. FocusOK'
    BY <1>1, <1>2, <2>3 DEF FocusOK
  <2> QED BY <2>5, <2>6
<1> QED BY <1>3, <1>4

LEMMA ForwardIs ==
  ASSUME IInv, Forward
  PROVE  Chosen /\ FocusOK'
<1> DEFINE h    == focus.history
           n    == Len(h)
           live == {i \in focus.pos + 1 .. n : h[i] \in Open(tm)}
           pos  == IF live = {} THEN n ELSE Min(live)
<1>1. /\ h \in Seq(Workspaces) /\ n \in Nat /\ n <= HistoryCap
      /\ focus.pos \in Nat /\ focus.pos < n /\ (focus.pos = 0) = (h = <<>>)
      /\ focus = [history |-> h, pos |-> focus.pos] /\ (n = 0) = (h = <<>>)
  BY DEF IInv, FocusOK, Forward
<1>2. focus' = [focus EXCEPT !.pos = pos]
  BY DEF Forward
<1>3. CASE live = {}
  <2>1. pos = n /\ tm' = tm
    BY <1>3 DEF Forward
  <2>2. FocusOK'
    BY <1>1, <1>2, <2>1 DEF FocusOK
  <2> QED BY <2>1, <2>2, Unmoved
<1>4. CASE live # {}
  <2>1. live \in SUBSET Nat
    BY <1>1
  <2>2. Min(live) \in live
    BY <1>4, <2>1, MinOf
  <2>3. h[Min(live)] \in Open(tm) /\ pos = Min(live) /\ pos \in focus.pos + 1 .. n
    BY <1>4, <2>2
  <2>4. tm' = [tm EXCEPT !.selected = At(tm, h[Min(live)])]
    BY <1>4 DEF Forward
  <2>5. Chosen
    BY <2>3, <2>4, SelectedAgain
  <2> HIDE DEF live, pos
  <2>6. FocusOK'
    BY <1>1, <1>2, <2>3 DEF FocusOK
  <2> QED BY <2>5, <2>6
<1> QED BY <1>3, <1>4

LEMMA CloseManyIs ==
  ASSUME IInv, NEW pinned, CloseMany(pinned)
  PROVE  Chosen
<1>1. Tidy(tm) /\ NoneEmpty(tm) /\ Bulk
  BY DEF IInv, Sound, CloseMany, Bulk
<1>2. CASE asked.kind = "others"
  <2>1. tm' = CloseOthers(tm, asked.id, pinned)
    BY <1>2 DEF CloseMany
  <2> QED BY <1>1, <2>1, CloseOthersIs DEF Chosen, Sound
<1>3. CASE asked.kind = "above"
  <2>1. tm' = CloseAbove(tm, asked.id, pinned)
    BY <1>3 DEF CloseMany
  <2> QED BY <1>1, <2>1, CloseAboveIs DEF Chosen, Sound
<1>4. CASE asked.kind = "below"
  <2>1. tm' = CloseBelow(tm, asked.id, pinned)
    BY <1>4 DEF CloseMany
  <2> QED BY <1>1, <2>1, CloseBelowIs DEF Chosen, Sound
<1> QED BY <1>1, <1>2, <1>3, <1>4 DEF Bulk

-----------------------------------------------------------------------------
(* The operations that leave the user where he is.                          *)

\* What an operation that is not a choice does to the manager.
Stays == Sound(tm') /\ Follows(tm, tm') /\ Keeps(tm, tm')

\* The same workspace selected, the same workspaces open: the user is where he was.
LEMMA Rearranged ==
  ASSUME IInv, Tidy(tm'), Open(tm') = Open(tm), tm'.tabs = tm.tabs,
         SelectedId(tm') = SelectedId(tm)
  PROVE  Stays
<1>1. Sound(tm') /\ Keeps(tm, tm')
  BY SameTabs DEF IInv
<1> QED BY <1>1 DEF Stays, Follows

LEMMA UntouchedStays ==
  ASSUME IInv, tm' = tm
  PROVE  Stays
BY Rearranged DEF IInv, Sound

LEMMA CreateUnselectedIs ==
  ASSUME IInv, NEW w \in Workspaces, NEW p \in Panels, NEW placement \in Placements,
         CreateUnselected(w, p, placement)
  PROVE  Stays
<1> DEFINE added == Add(tm, w, {p}, None, placement)
<1>1. Sound(tm) /\ Tidy(tm)
  BY DEF IInv, Sound
<1>2. Addable(tm, w, {p}, None)
  BY NewIsAddable DEF CreateUnselected
<1>3. tm' = IF tm.selected = 0 THEN added ELSE [added EXCEPT !.selected = At(added, SelectedId(tm))]
  BY DEF CreateUnselected, Manager
<1>4. /\ Tidy(added) /\ Keeps(tm, added) /\ Open(added) = Open(tm) \cup {w}
      /\ \A v \in Workspaces : added.tabs[v] = IF v = w THEN {p} ELSE tm.tabs[v]
  <2> DEFINE one == {p}
  <2>1. Addable(tm, w, one, None) /\ added = Add(tm, w, one, None, placement)
    BY <1>2
  <2> HIDE DEF one, added
  <2>2. LET u == Add(tm, w, one, None, placement)
        IN  /\ Tidy(u) /\ Keeps(tm, u) /\ Open(u) = Open(tm) \cup {w}
            /\ \A v \in Workspaces : u.tabs[v] = IF v = w THEN one ELSE tm.tabs[v]
    BY <1>1, <2>1, AddIs
  <2> QED BY <2>1, <2>2 DEF one
<1> HIDE DEF added
<1>5. NoneEmpty(added)
  BY <1>1, <1>4, StillNoneEmpty
<1>6. CASE tm.selected = 0
  <2>1. Follows(tm, tm')
    BY <1>1, <1>6, Selected, FollowsAt, <1>3, <1>4
  <2> QED BY <1>3, <1>4, <1>5, <1>6, <2>1 DEF Stays, Sound
<1>7. CASE tm.selected # 0
  <2> DEFINE sel == At(added, SelectedId(tm))
  <2>1. SelectedId(tm) \in Open(added)
    BY <1>1, <1>4, <1>7, Selected
  <2>2. sel \in 1 .. Len(added.list) /\ added.list[sel] = SelectedId(tm)
    BY <1>4, <2>1, AtFinds
  <2>3. tm' = [added EXCEPT !.selected = sel]
    BY <1>3, <1>7
  <2> HIDE DEF sel
  <2>4. sel \in 0 .. Len(added.list) /\ sel # 0
    BY <2>2, <1>4, TidyList
  <2>5. /\ Tidy(tm') /\ Keeps(added, tm') /\ Open(tm') = Open(added)
        /\ tm'.list = added.list /\ tm'.selected = sel /\ tm'.tabs = added.tabs
    BY <1>4, <2>3, <2>4, Reselected
  <2>6. Keeps(tm, tm') /\ NoneEmpty(tm')
    <3>1. Sound(added)
      BY <1>4, <1>5 DEF Sound
    <3>2. Kept(tm') = Kept(added) \/ \A q : q \in Kept(tm') <=> q \in Kept(added)
      <4>1. tm'.closed = added.closed
        BY <1>4, <2>3, <2>4, Reselected
      <4> QED BY <2>5, <4>1 DEF Kept
    <3>3. NoneEmpty(tm')
      BY <1>5, <2>5 DEF NoneEmpty
    <3> QED BY <1>4, <3>2, <3>3 DEF Keeps
  <2>7. SelectedId(tm') = SelectedId(tm)
    BY <2>2, <2>4, <2>5 DEF SelectedId
  <2> QED BY <2>5, <2>6, <2>7 DEF Stays, Sound, Follows
<1> QED BY <1>6, <1>7

LEMMA CreateForNodeIs ==
  ASSUME IInv, NEW w \in Workspaces, NEW p \in Panels, NEW g \in Groups \cup {None},
         NEW placement \in Placements, CreateForNode(w, p, g, placement)
  PROVE  Stays
<1>1. Sound(tm) /\ Tidy(tm)
  BY DEF IInv, Sound
<1>2. Addable(tm, w, {p}, g)
  BY NewIsAddable DEF CreateForNode
<1>3. tm' = AddKeeping(tm, w, {p}, g, placement)
  BY DEF CreateForNode, Manager
<1>4. /\ Tidy(tm') /\ Keeps(tm, tm') /\ Follows(tm, tm') /\ Open(tm') = Open(tm) \cup {w}
      /\ \A v \in Workspaces : tm'.tabs[v] = IF v = w THEN {p} ELSE tm.tabs[v]
  BY <1>1, <1>2, <1>3, AddKeepingIs
<1>5. NoneEmpty(tm')
  BY <1>1, <1>4, StillNoneEmpty
<1> QED BY <1>4, <1>5 DEF Stays, Sound

LEMMA NewTabIs ==
  ASSUME IInv, NEW w \in Open(tm), NEW p \in Panels, NewTab(p, w)
  PROVE  Stays
<1>1. Sound(tm) /\ Tidy(tm) /\ NoneEmpty(tm)
  BY DEF IInv, Sound
<1>2. Homeless(tm, p)
  BY NewIsHomeless DEF NewTab
<1>3. tm' = Attached(tm, p, w)
  BY DEF NewTab, Manager
<1> QED BY <1>1, <1>2, <1>3, AttachedIs DEF Stays, Sound

\* remove(i), of an index that may no longer be one.
LEMMA RemovedStays ==
  ASSUME IInv, NEW i, tm' = RemoveAtIndex(tm, i)
  PROVE  Stays
<1>1. Sound(tm) /\ Tidy(tm) /\ NoneEmpty(tm) /\ DOMAIN tm.list = 1 .. Len(tm.list)
  BY TidyList DEF IInv, Sound
<1>2. CASE i \notin DOMAIN tm.list
  BY <1>2, UntouchedStays DEF RemoveAtIndex
<1>3. CASE i \in 1 .. Len(tm.list)
  <2>1. /\ Tidy(tm') /\ Follows(tm, tm') /\ Keeps(tm, tm')
        /\ Open(tm') = Open(tm) \ {tm.list[i]}
        /\ \A v \in Workspaces : tm'.tabs[v] = IF v = tm.list[i] THEN {} ELSE tm.tabs[v]
    BY <1>1, <1>3, RemoveAtIndexIs
  <2>2. NoneEmpty(tm')
    BY <1>1, <2>1, TidyList DEF NoneEmpty
  <2> QED BY <2>1, <2>2 DEF Stays, Sound
<1> QED BY <1>1, <1>2, <1>3

LEMMA CloseTabIs ==
  ASSUME IInv, NEW w \in Open(tm), NEW p \in Panels, CloseTab(p, w)
  PROVE  Sound(tm') /\ Follows(tm, tm')
<1>1. Tidy(tm) /\ NoneEmpty(tm) /\ p \in tm.tabs[w] /\ tm' = Detached(tm, p, w)
  BY DEF IInv, Sound, CloseTab, Manager
<1> QED BY <1>1, DetachedIs DEF Sound

\* A panel taken from one workspace and put into another.
LEMMA TakenAcross ==
  ASSUME IInv, NEW from \in Open(tm), NEW p \in tm.tabs[from], NEW to \in Open(tm), to # from,
         tm' = Attached(Detached(tm, p, from), p, to)
  PROVE  Stays
<1> DEFINE left == Detached(tm, p, from)
<1>1. Tidy(tm) /\ NoneEmpty(tm)
  BY DEF IInv, Sound
<1>2. /\ Tidy(left) /\ Follows(tm, left) /\ Homeless(left, p)
      /\ Open(left) = IF tm.tabs[from] = {p} THEN Open(tm) \ {from} ELSE Open(tm)
      /\ \A v \in Workspaces : left.tabs[v] = IF v = from THEN tm.tabs[from] \ {p} ELSE tm.tabs[v]
      /\ NoneEmpty(tm) => NoneEmpty(left)
  <2>1. Tidy(tm) /\ from \in Open(tm) /\ p \in tm.tabs[from] /\ left = Detached(tm, p, from)
    BY <1>1
  <2> HIDE DEF left
  <2>2. LET u == Detached(tm, p, from)
        IN  /\ Tidy(u) /\ Follows(tm, u) /\ Homeless(u, p)
            /\ u.closed = tm.closed
            /\ Open(u) = IF tm.tabs[from] = {p} THEN Open(tm) \ {from} ELSE Open(tm)
            /\ \A v \in Workspaces :
                 u.tabs[v] = IF v = from THEN tm.tabs[from] \ {p} ELSE tm.tabs[v]
            /\ NoneEmpty(tm) => NoneEmpty(u)
    BY <2>1, DetachedIs
  <2> QED BY <2>1, <2>2
<1>3. tm' = Attached(left, p, to)
  OBVIOUS
<1> HIDE DEF left
<1>4. to \in Open(left)
  BY <1>2
<1>5. /\ Tidy(tm') /\ Follows(left, tm') /\ Keeps(left, tm') /\ p \in Kept(tm')
      /\ Open(tm') = Open(left)
      /\ NoneEmpty(left) => NoneEmpty(tm')
  BY <1>2, <1>3, <1>4, AttachedIs
<1>6. Follows(tm, tm')
  BY <1>2, <1>5 DEF Follows
<1>7. Keeps(tm, tm')
  <2>1. \A x \in Workspaces : tm.tabs[x] \ {p} \subseteq left.tabs[x]
    BY <1>2
  <2>2. from \in Workspaces
    BY <1>1, TidyList
  <2> QED BY <1>1, <1>2, <1>5, <2>1, <2>2, KeepsThrough
<1> QED BY <1>1, <1>2, <1>5, <1>6, <1>7 DEF Stays, Sound

LEMMA MovePanelIs ==
  ASSUME IInv, NEW from \in Open(tm), NEW p \in Panels, NEW to \in Workspaces,
         MovePanel(p, from, to)
  PROVE  Stays
<1>1. /\ p \in tm.tabs[from] /\ to # from /\ to \in Open(tm)
      /\ tm' = Attached(Detached(tm, p, from), p, to)
  BY DEF MovePanel, Manager
<1> QED BY <1>1, TakenAcross

LEMMA SurfaceMoveIs ==
  ASSUME IInv, NEW from \in Open(tm), NEW p \in Panels, NEW to \in Workspaces,
         SurfaceMove(p, from, to)
  PROVE  /\ Sound(tm') /\ Follows(tm, tm')
         /\ to \in Open(tm) => Keeps(tm, tm')
<1> DEFINE left == Detached(tm, p, from)
<1>1. /\ p \in tm.tabs[from] /\ to # from
      /\ tm' = IF to \in Open(left) THEN Attached(left, p, to) ELSE left
  BY DEF SurfaceMove, Manager
<1>2. Tidy(tm) /\ NoneEmpty(tm)
  BY DEF IInv, Sound
<1>3. /\ Tidy(left) /\ Follows(tm, left)
      /\ Open(left) = IF tm.tabs[from] = {p} THEN Open(tm) \ {from} ELSE Open(tm)
      /\ NoneEmpty(left)
  BY <1>1, <1>2, DetachedIs
<1>4. CASE to \in Open(left)
  <2>1. to \in Open(tm) /\ tm' = Attached(left, p, to)
    BY <1>1, <1>3, <1>4
  <2> QED BY <1>1, <2>1, TakenAcross DEF Stays
<1>5. CASE to \notin Open(left)
  <2>1. to \notin Open(tm) /\ tm' = left
    BY <1>1, <1>3, <1>5
  <2> QED BY <1>3, <2>1 DEF Sound
<1> QED BY <1>4, <1>5

LEMMA MovedStays ==
  ASSUME IInv, NEW from, NEW to, tm' = Moved(tm, from, to)
  PROVE  Stays
<1>1. Tidy(tm)
  BY DEF IInv, Sound
<1>2. /\ Tidy(tm') /\ Open(tm') = Open(tm) /\ tm'.tabs = tm.tabs
      /\ SelectedId(tm') = SelectedId(tm)
  BY <1>1, MovedIs
<1> QED BY <1>2, Rearranged

LEMMA ReorderWorkspacesIs ==
  ASSUME IInv, NEW names \in Seq(Workspaces), ReorderWorkspaces(names)
  PROVE  Stays
<1>1. Tidy(tm) /\ tm' = Reordered(tm, names)
  BY DEF IInv, Sound, ReorderWorkspaces, Manager
<1>2. /\ Tidy(tm') /\ Open(tm') = Open(tm) /\ tm'.tabs = tm.tabs
      /\ SelectedId(tm') = SelectedId(tm)
  BY <1>1, ReorderedIs
<1> QED BY <1>2, Rearranged

LEMMA AssignIs ==
  ASSUME IInv, NEW w \in Open(tm), NEW g \in groups \cup {None}, Assign(w, g)
  PROVE  Stays
<1>1. Tidy(tm) /\ tm' = Assigned(tm, w, g) /\ g \in Groups \cup {None}
  BY DEF IInv, Sound, Assign, Manager
<1>2. /\ Tidy(tm') /\ Open(tm') = Open(tm) /\ tm'.tabs = tm.tabs
      /\ SelectedId(tm') = SelectedId(tm)
  BY <1>1, AssignedIs
<1> QED BY <1>2, Rearranged

LEMMA MoveGroupIs ==
  ASSUME IInv, NEW g, NEW target, MoveGroup(g, target)
  PROVE  Stays
<1>1. Tidy(tm) /\ tm' = GroupMoved(tm, g, target)
  BY DEF IInv, Sound, MoveGroup, Manager
<1>2. /\ Tidy(tm') /\ Open(tm') = Open(tm) /\ tm'.tabs = tm.tabs
      /\ SelectedId(tm') = SelectedId(tm)
  BY <1>1, GroupMovedIs
<1> QED BY <1>2, Rearranged

LEMMA RemoveGroupIs ==
  ASSUME IInv, NEW g, RemoveGroup(g)
  PROVE  Stays
<1> DEFINE gr == [w \in Workspaces |-> IF tm.group[w] = g THEN None ELSE tm.group[w]]
<1>1. Tidy(tm) /\ tm.group \in [Workspaces -> Groups \cup {None}]
      /\ \A w \in Workspaces \ Open(tm) : tm.group[w] = None
  BY DEF IInv, Sound, Tidy, Managers, TabsOK
<1>2. tm' = [tm EXCEPT !.group = gr]
  BY DEF RemoveGroup
<1>3. gr \in [Workspaces -> Groups \cup {None}] /\ \A w \in Workspaces \ Open(tm) : gr[w] = None
  BY <1>1
<1> HIDE DEF gr
<1>4. /\ Tidy(tm') /\ Open(tm') = Open(tm) /\ tm'.tabs = tm.tabs
      /\ SelectedId(tm') = SelectedId(tm)
  BY <1>1, <1>2, <1>3, GroupsSet
<1> QED BY <1>4, Rearranged

LEMMA ClearClosedIs ==
  ASSUME IInv, ClearClosed
  PROVE  Stays
<1> DEFINE c == <<>>
<1>1. Tidy(tm) /\ tm' = [tm EXCEPT !.closed = c]
  BY DEF IInv, Sound, ClearClosed, Manager
<1>2. c \in Seq(Entries) /\ Len(c) = 0
  OBVIOUS
<1> HIDE DEF c
<1>3. ClosedOK(c) /\ \A i \in 1 .. Len(c) : \E j \in 1 .. Len(tm.closed) : c[i] = tm.closed[j]
  BY <1>2, CapsArePositive DEF ClosedOK
<1>4. /\ Tidy(tm') /\ Open(tm') = Open(tm) /\ tm'.tabs = tm.tabs
      /\ SelectedId(tm') = SelectedId(tm)
  BY <1>1, <1>2, <1>3, ClosedSet
<1> QED BY <1>4, Rearranged

LEMMA RefreshIs ==
  ASSUME IInv, Refresh
  PROVE  FocusOK'
<1> DEFINE h    == focus.history
           pos  == focus.pos
           sub  == SubSeq(h, 1, pos)
           kept == Append(sub, SelectedId(tm))
           all  == IF Len(kept) > HistoryCap THEN Tail(kept) ELSE kept
<1>1. /\ h \in Seq(Workspaces) /\ Len(h) \in Nat /\ Len(h) <= HistoryCap
      /\ pos \in Nat /\ pos <= Len(h) /\ HistoryCap \in Nat \ {0}
  BY CapsArePositive DEF IInv, FocusOK
<1>2. SelectedId(tm) \in Workspaces
  BY Selected, TidyList DEF IInv, Sound, Refresh
<1>3. focus' = [history |-> all, pos |-> Len(all)]
  BY DEF Refresh
<1>4. sub \in Seq(Workspaces) /\ Len(sub) = pos
  BY <1>1
<1> HIDE DEF sub
<1>5. kept \in Seq(Workspaces) /\ Len(kept) = pos + 1
  BY <1>2, <1>4
<1> HIDE DEF kept
<1>6. CASE Len(kept) > HistoryCap
  <2>1. all = Tail(kept) /\ Tail(kept) \in Seq(Workspaces) /\ Len(Tail(kept)) = pos
    BY <1>1, <1>5, <1>6
  <2>2. pos <= HistoryCap /\ pos > 0
    BY <1>1, <1>5, <1>6
  <2> QED BY <1>1, <1>3, <2>1, <2>2 DEF FocusOK
<1>7. CASE ~(Len(kept) > HistoryCap)
  <2>1. all = kept /\ Len(kept) <= HistoryCap /\ Len(kept) \in Nat /\ Len(kept) # 0
    BY <1>1, <1>5, <1>7
  <2> HIDE DEF all
  <2> QED BY <1>3, <1>5, <2>1 DEF FocusOK
<1> QED BY <1>6, <1>7

-----------------------------------------------------------------------------
(* A step.                                                                  *)

LEMMA ManagerKeeps ==
  ASSUME IInv, Sound(tm'), UNCHANGED <<groups, focus, asked>>
  PROVE  IInv'
BY DEF IInv, FocusOK, AskedOK

LEMMA ChoosesStep ==
  ASSUME IInv, Chooses
  PROVE  IInv' /\ (Keeps(tm, tm') \/ Bulk)
<1>1. ASSUME NEW i \in DOMAIN tm.list, Select(i) PROVE IInv' /\ Chosen
  BY <1>1, SelectIs, ManagerKeeps DEF Select, Manager, Chosen
<1>2. ASSUME NEW w \in Workspaces, NEW p \in Panels, NEW placement \in Placements,
             CreateWorkspace(w, p, placement)
      PROVE  IInv' /\ Chosen
  BY <1>2, CreateWorkspaceIs, ManagerKeeps DEF CreateWorkspace, Manager, Chosen
<1>3. ASSUME NEW w \in Workspaces, NEW p \in Panels, Respawn(w, p) PROVE IInv' /\ Chosen
  BY <1>2, <1>3 DEF Respawn, Placements
<1>4. ASSUME NEW from \in Open(tm), NEW p \in Panels, NEW w \in Workspaces,
             NEW placement \in Placements, BreakPane(p, from, w, placement)
      PROVE  IInv' /\ Chosen
  BY <1>4, BreakPaneIs, ManagerKeeps DEF BreakPane, Manager, Chosen
<1>5. ASSUME NEW i \in DOMAIN tm.closed, Reopen(i) PROVE IInv' /\ Chosen
  BY <1>5, ReopenIs, ManagerKeeps DEF Reopen, Manager, Chosen
<1>6. CASE Back
  <2>1. Chosen /\ FocusOK' /\ UNCHANGED <<groups, asked>>
    BY <1>6, BackIs DEF Back
  <2> QED BY <2>1 DEF IInv, Chosen, AskedOK
<1>7. CASE Forward
  <2>1. Chosen /\ FocusOK' /\ UNCHANGED <<groups, asked>>
    BY <1>7, ForwardIs DEF Forward
  <2> QED BY <2>1 DEF IInv, Chosen, AskedOK
<1>8. ASSUME NEW pinned \in SUBSET Open(tm), CloseMany(pinned) PROVE IInv' /\ Chosen
  <2>1. Chosen /\ UNCHANGED <<groups, focus>> /\ asked' = None
    BY <1>8, CloseManyIs DEF CloseMany
  <2> QED BY <2>1 DEF IInv, Chosen, AskedOK, FocusOK
<1> QED BY <1>1, <1>2, <1>3, <1>4, <1>5, <1>6, <1>7, <1>8 DEF Chooses, Chosen

\* A request is asked for and answered; the rest is untouched.
LEMMA AskingIs ==
  ASSUME IInv, UNCHANGED <<tm, groups, focus>>, asked' = None \/ asked' \in Requests
  PROVE  IInv' /\ Stays
<1>1. Stays
  BY UntouchedStays
<1> QED BY <1>1 DEF IInv, Stays, FocusOK, AskedOK

LEMMA Asks ==
  ASSUME IInv,
         \/ \E i \in DOMAIN tm.list : AskClose(i)
         \/ \E i, to \in DOMAIN tm.list : AskMove(i, to)
         \/ \E w \in Open(tm), kind \in {"others", "above", "below"} : AskMany(w, kind)
         \/ Cancel
  PROVE  IInv' /\ Stays
<1>1. /\ DOMAIN tm.list = 1 .. Len(tm.list) /\ Len(tm.list) \in Nat
      /\ Open(tm) \subseteq Workspaces /\ \A i \in 1 .. Len(tm.list) : tm.list[i] \in Open(tm)
  BY TidyList DEF IInv, Sound
<1>2. ASSUME NEW i \in DOMAIN tm.list, AskClose(i) PROVE IInv' /\ Stays
  <2>1. asked' \in Requests
    BY <1>1, <1>2 DEF AskClose, Requests
  <2> QED BY <1>2, <2>1, AskingIs DEF AskClose
<1>3. ASSUME NEW i \in DOMAIN tm.list, NEW to \in DOMAIN tm.list, AskMove(i, to)
      PROVE  IInv' /\ Stays
  <2>1. asked' \in Requests
    BY <1>1, <1>3 DEF AskMove, Requests
  <2> QED BY <1>3, <2>1, AskingIs DEF AskMove
<1>4. ASSUME NEW w \in Open(tm), NEW kind \in {"others", "above", "below"}, AskMany(w, kind)
      PROVE  IInv' /\ Stays
  <2>1. asked' \in Requests
    BY <1>1, <1>4 DEF AskMany, Requests
  <2> QED BY <1>4, <2>1, AskingIs DEF AskMany
<1>5. CASE Cancel
  BY <1>5, AskingIs DEF Cancel
<1> QED BY <1>2, <1>3, <1>4, <1>5

\* What an operation that is not a choice loses.
Closes ==
  \/ \E w \in Open(tm), p \in Panels : CloseTab(p, w)
  \/ \E from \in Open(tm), p \in Panels, to \in Workspaces :
        SurfaceMove(p, from, to) /\ to \notin Open(tm)

\* What an operation that is not a choice does.
Left == IInv' /\ Follows(tm, tm') /\ (Keeps(tm, tm') \/ Closes)

LEMMA LeavesStep ==
  ASSUME IInv, Leaves
  PROVE  Left
<1>0. ASSUME Stays, UNCHANGED <<groups, focus, asked>> PROVE Left
  BY <1>0, ManagerKeeps DEF Stays, Left
<1>1. ASSUME NEW w \in Workspaces, NEW p \in Panels, NEW placement \in Placements,
             CreateUnselected(w, p, placement)
      PROVE  Left
  <2>1. UNCHANGED <<groups, focus, asked>>
    BY <1>1 DEF CreateUnselected, Manager
  <2> QED BY <1>0, <1>1, <2>1, CreateUnselectedIs
<1>2. ASSUME NEW w \in Workspaces, NEW p \in Panels, NEW g \in Groups \cup {None},
             NEW placement \in Placements, CreateForNode(w, p, g, placement)
      PROVE  Left
  <2>1. UNCHANGED <<groups, focus, asked>>
    BY <1>2 DEF CreateForNode, Manager
  <2> QED BY <1>0, <1>2, <2>1, CreateForNodeIs
<1>3. ASSUME NEW i \in DOMAIN tm.list, CloseWorkspace(i) PROVE Left
  BY <1>0, <1>3, RemovedStays DEF CloseWorkspace, Manager
<1>4. ASSUME NEW i \in DOMAIN tm.list, NEW to \in DOMAIN tm.list, MoveWorkspace(i, to)
      PROVE  Left
  BY <1>0, <1>4, MovedStays DEF MoveWorkspace, Manager
<1>5. ASSUME NEW w \in Open(tm), NEW p \in Panels, NewTab(p, w) PROVE Left
  BY <1>0, <1>5, NewTabIs DEF NewTab, Manager
<1>6. ASSUME NEW w \in Open(tm), NEW p \in Panels, CloseTab(p, w) PROVE Left
  <2>1. Sound(tm') /\ Follows(tm, tm') /\ Closes
    BY <1>6, CloseTabIs DEF Closes
  <2> QED BY <1>6, <2>1, ManagerKeeps DEF CloseTab, Manager, Left
<1>7. ASSUME NEW from \in Open(tm), NEW p \in Panels, NEW to \in Workspaces,
             MovePanel(p, from, to)
      PROVE  Left
  BY <1>0, <1>7, MovePanelIs DEF MovePanel, Manager
<1>8. ASSUME NEW from \in Open(tm), NEW p \in Panels, NEW to \in Workspaces,
             SurfaceMove(p, from, to)
      PROVE  Left
  <2>1. Sound(tm') /\ Follows(tm, tm') /\ (Keeps(tm, tm') \/ Closes)
    BY <1>8, SurfaceMoveIs DEF Closes
  <2> QED BY <1>8, <2>1, ManagerKeeps DEF SurfaceMove, Manager, Left
<1>9. ASSUME NEW v \in Open(tm), NEW w \in Open(tm),
             ReorderWorkspaces(IF v = w THEN <<v>> ELSE <<v, w>>)
      PROVE  Left
  <2> DEFINE names == IF v = w THEN <<v>> ELSE <<v, w>>
  <2>1. names \in Seq(Workspaces)
    BY TidyList DEF IInv, Sound
  <2>2. ReorderWorkspaces(names)
    BY <1>9
  <2> HIDE DEF names
  <2>3. Stays
    BY <2>1, <2>2, ReorderWorkspacesIs
  <2> QED BY <1>0, <2>2, <2>3 DEF ReorderWorkspaces, Manager
<1>10. ASSUME NEW g \in Groups, CreateGroup(g) PROVE Left
  <2>1. Stays
    BY <1>10, UntouchedStays DEF CreateGroup
  <2> QED BY <1>10, <2>1 DEF CreateGroup, IInv, Stays, FocusOK, AskedOK, Left
<1>11. ASSUME NEW g \in Groups, RemoveGroup(g) PROVE Left
  <2>1. Stays
    BY <1>11, RemoveGroupIs
  <2> QED BY <1>11, <2>1 DEF RemoveGroup, IInv, Stays, FocusOK, AskedOK, Left
<1>12. ASSUME NEW w \in Open(tm), NEW g \in groups \cup {None}, Assign(w, g) PROVE Left
  BY <1>0, <1>12, AssignIs DEF Assign, Manager
<1>13. ASSUME NEW g, NEW target, MoveGroup(g, target) PROVE Left
  BY <1>0, <1>13, MoveGroupIs DEF MoveGroup, Manager
<1>14. CASE ClearClosed
  BY <1>0, <1>14, ClearClosedIs DEF ClearClosed, Manager
<1>15. CASE Refresh
  <2>1. Stays /\ FocusOK'
    BY <1>15, RefreshIs, UntouchedStays DEF Refresh
  <2> QED BY <1>15, <2>1 DEF Refresh, IInv, Stays, AskedOK, Left
<1>16. CASE ConfirmClose
  <2>1. Stays
    BY <1>16, RemovedStays DEF ConfirmClose
  <2> QED BY <1>16, <2>1 DEF ConfirmClose, IInv, Stays, FocusOK, AskedOK, Left
<1>17. CASE FinishMove
  <2>1. Stays
    BY <1>17, MovedStays DEF FinishMove
  <2> QED BY <1>17, <2>1 DEF FinishMove, IInv, Stays, FocusOK, AskedOK, Left
<1>18. ASSUME NEW i \in DOMAIN tm.list, AskClose(i) PROVE Left
  BY <1>18, Asks DEF Stays, Left
<1>19. ASSUME NEW i \in DOMAIN tm.list, NEW to \in DOMAIN tm.list, AskMove(i, to) PROVE Left
  BY <1>19, Asks DEF Stays, Left
<1>20. ASSUME NEW w \in Open(tm), NEW kind \in {"others", "above", "below"}, AskMany(w, kind)
       PROVE  Left
  BY <1>20, Asks DEF Stays, Left
<1>21. CASE Cancel
  BY <1>21, Asks DEF Stays, Left
<1>22. CASE \E w \in Workspaces, p \in Panels, placement \in Placements :
               \/ CreateUnselected(w, p, placement)
               \/ \E g \in Groups \cup {None} : CreateForNode(w, p, g, placement)
  BY <1>22, <1>1, <1>2
<1>23. CASE \E i, to \in DOMAIN tm.list : CloseWorkspace(i) \/ MoveWorkspace(i, to) \/ AskMove(i, to)
  BY <1>23, <1>3, <1>4, <1>19
<1>24. CASE \/ \E i \in DOMAIN tm.list : AskClose(i)
            \/ \E w \in Open(tm), p \in Panels : NewTab(p, w) \/ CloseTab(p, w)
  BY <1>24, <1>5, <1>6, <1>18
<1>25. CASE \E from \in Open(tm), p \in Panels, to \in Workspaces :
               MovePanel(p, from, to) \/ SurfaceMove(p, from, to)
  BY <1>25, <1>7, <1>8
<1>26. CASE \E v, w \in Open(tm) : ReorderWorkspaces(IF v = w THEN <<v>> ELSE <<v, w>>)
  BY <1>26, <1>9
<1>27. CASE \/ \E w \in Open(tm), kind \in {"others", "above", "below"} : AskMany(w, kind)
            \/ \E w \in Open(tm), g \in groups \cup {None} : Assign(w, g)
  BY <1>27, <1>12, <1>20
<1>28. CASE \/ \E g \in Groups : CreateGroup(g) \/ RemoveGroup(g)
            \/ \E g \in groups, target \in Open(tm) \cup {None} : MoveGroup(g, target)
  BY <1>28, <1>10, <1>11, <1>13
<1>29. CASE ClearClosed \/ Refresh \/ Cancel \/ ConfirmClose \/ FinishMove
  BY <1>29, <1>14, <1>15, <1>16, <1>17, <1>21
<1> QED
  BY <1>22, <1>23, <1>24, <1>25, <1>26, <1>27, <1>28, <1>29 DEF Leaves

-----------------------------------------------------------------------------
(* The theorems.                                                            *)

LEMMA InitIsSound == Init => IInv
<1> SUFFICES ASSUME Init PROVE IInv
  OBVIOUS
<1>1. PICK w \in Workspaces, p \in Panels :
         tm = [list |-> <<w>>, selected |-> 1, closed |-> <<>>,
               tabs |-> [v \in Workspaces |-> IF v = w THEN {p} ELSE {}],
               group |-> [v \in Workspaces |-> None]]
  BY DEF Init
<1>2. /\ tm.list = <<w>> /\ tm.selected = 1 /\ tm.closed = <<>>
      /\ tm.tabs = [v \in Workspaces |-> IF v = w THEN {p} ELSE {}]
      /\ tm.group = [v \in Workspaces |-> None]
      /\ tm.list \in Seq(Workspaces) /\ tm.closed \in Seq(Entries)
  BY <1>1
<1>3. tm \in Managers
  BY <1>1, <1>2 DEF Managers
<1>4. Open(tm) = {w}
  BY <1>2 DEF Open, ToSet
<1>5. ListOK(tm) /\ ClosedOK(tm.closed)
  BY <1>2, CapsArePositive DEF ListOK, ClosedOK, IsInjective
<1>6. TabsOK(tm) /\ NoneEmpty(tm)
  BY <1>2, <1>4 DEF TabsOK, NoneEmpty
<1>7. groups \subseteq Groups /\ FocusOK /\ AskedOK
  BY CapsArePositive DEF Init, FocusOK, AskedOK
<1> QED BY <1>3, <1>5, <1>6, <1>7 DEF IInv, Sound, Tidy

LEMMA StepIsSound == IInv /\ [Next]_vars => IInv'
<1> SUFFICES ASSUME IInv, [Next]_vars PROVE IInv'
  OBVIOUS
<1>1. CASE UNCHANGED vars
  BY <1>1 DEF vars, IInv, FocusOK, AskedOK
<1> QED BY <1>1, ChoosesStep, LeavesStep DEF Next, Left

\* Whatever is created, moved, broken out, closed, reopened and regrouped, in whatever
\* order and with requests that answer an earlier list: the lists, their caps and who holds
\* which panel stay as tab_manager.rs relies on them.
THEOREM Inductive == Spec => []IInv
BY InitIsSound, StepIsSound, PTL DEF Spec

LEMMA SoundIsTyped == IInv => TypeOK
<1> SUFFICES ASSUME IInv PROVE TypeOK
  OBVIOUS
<1>1. tm \in Managers /\ ListOK(tm) /\ ClosedOK(tm.closed) /\ TabsOK(tm)
  BY DEF IInv, Sound, Tidy
<1>2. /\ tm.list \in Seq(Workspaces) /\ tm.selected \in 0 .. Len(tm.list)
      /\ tm.tabs \in [Workspaces -> SUBSET Panels]
      /\ tm.group \in [Workspaces -> Groups \cup {None}]
  BY <1>1 DEF Managers, ListOK
<1>3. \A w \in Workspaces \ Open(tm) : tm.tabs[w] = {} /\ tm.group[w] = None
  BY <1>1 DEF TabsOK
<1>4. /\ Len(tm.closed) <= ClosedCap
      /\ \A i \in DOMAIN tm.closed :
           tm.closed[i] \in [id : Workspaces, tabs : SUBSET Panels, group : Groups \cup {None}]
  <2>1. tm.closed \in Seq(Entries) /\ Len(tm.closed) <= ClosedCap
    BY <1>1 DEF Managers, ClosedOK
  <2>2. \A i \in DOMAIN tm.closed : tm.closed[i] \in Entries
    BY <2>1
  <2> QED BY <2>1, <2>2 DEF Entries
<1>5. /\ groups \subseteq Groups
      /\ focus.history \in Seq(Workspaces) /\ Len(focus.history) <= HistoryCap
      /\ focus.pos \in 0 .. Len(focus.history) /\ (focus.pos = 0) = (focus.history = <<>>)
      /\ asked = None \/ asked.id \in Workspaces
  BY DEF IInv, FocusOK, AskedOK, Requests
<1> QED BY <1>2, <1>3, <1>4, <1>5 DEF TypeOK

\* The selection is an index of the list, the focus position one of the history, and the
\* closed list and the history stay within their caps (TabManager::remove,
\* record_focus_if_changed).
THEOREM TypeCorrect == Spec => []TypeOK
BY Inductive, SoundIsTyped, PTL

\* As many closed entries as names among them.
LEMMA ClosedNames ==
  ASSUME NEW closed \in Seq(Entries), ClosedOK(closed)
  PROVE  Cardinality({closed[i].id : i \in DOMAIN closed}) = Len(closed)
<1> DEFINE n   == Len(closed)
           S   == {closed[i].id : i \in DOMAIN closed}
           f   == [i \in 1 .. n |-> closed[i].id]
<1>1. n \in Nat /\ DOMAIN closed = 1 .. n
  OBVIOUS
<1>2. \A i, j \in 1 .. n : closed[i].id = closed[j].id => i = j
  BY DEF ClosedOK
<1> HIDE DEF n
<1>3. f \in Bijection(1 .. n, S)
  <2>1. \A i \in 1 .. n : f[i] \in S
    BY <1>1
  <2>2. \A i, j \in 1 .. n : f[i] = f[j] => i = j
    BY <1>2
  <2>3. \A x \in S : \E i \in 1 .. n : f[i] = x
    BY <1>1
  <2> QED BY <2>1, <2>2, <2>3 DEF Bijection, Injection, Surjection, IsInjective
<1>4. IsFiniteSet(1 .. n) /\ Cardinality(1 .. n) = n
  BY <1>1, FS_Interval
<1>5. Cardinality(S) = n
  <2> DEFINE D == 1 .. n
  <2>1. IsFiniteSet(D) /\ ExistsBijection(D, S)
    BY <1>3, <1>4 DEF ExistsBijection
  <2>2. Cardinality(D) = n
    BY <1>4
  <2> HIDE DEF D, S
  <2>3. Cardinality(S) = Cardinality(D)
    BY <2>1, FS_Bijection
  <2> QED BY <2>2, <2>3
<1> QED BY <1>5 DEF n

LEMMA SoundIsOnce == IInv => NothingTwiceNorEmpty
<1> SUFFICES ASSUME IInv PROVE NothingTwiceNorEmpty
  OBVIOUS
<1> DEFINE closed == {tm.closed[i].id : i \in DOMAIN tm.closed}
<1>1. tm \in Managers /\ ListOK(tm) /\ ClosedOK(tm.closed) /\ TabsOK(tm) /\ NoneEmpty(tm)
      /\ Open(tm) \subseteq Workspaces
  BY TidyList DEF IInv, Sound, Tidy
<1>2. tm.closed \in Seq(Entries) /\ DOMAIN tm.closed = 1 .. Len(tm.closed)
      /\ DOMAIN tm.tabs = Workspaces
  BY <1>1 DEF Managers
<1>3. IsInjective(tm.list)
  BY <1>1 DEF ListOK
<1>4. Cardinality(closed) = Len(tm.closed)
  BY <1>1, <1>2, ClosedNames
<1>5. closed \cap Open(tm) = {}
  BY <1>1, <1>2 DEF TabsOK
<1>6. \A w \in Open(tm) : tm.tabs[w] # {}
  BY <1>1 DEF NoneEmpty
<1>7. \A v, w \in Open(tm) : v # w => tm.tabs[v] \cap tm.tabs[w] = {}
  BY <1>1 DEF TabsOK
<1>8. ASSUME NEW i \in DOMAIN tm.closed PROVE tm.closed[i].tabs \cap UNION Range(tm.tabs) = {}
  <2>1. \A w \in Workspaces : tm.closed[i].tabs \cap tm.tabs[w] = {}
    BY <1>1, <1>2 DEF TabsOK
  <2> QED BY <1>2, <2>1 DEF Range
<1>9. \A i, j \in DOMAIN tm.closed : i # j => tm.closed[i].tabs \cap tm.closed[j].tabs = {}
  BY <1>1, <1>2 DEF ClosedOK
<1> QED BY <1>3, <1>4, <1>5, <1>6, <1>7, <1>8, <1>9 DEF NothingTwiceNorEmpty

\* A workspace is listed once and is not also in the closed list, a panel is in one
\* workspace, and no workspace is empty, however it was moved, broken out, detached,
\* closed and reopened (remove_panel's pruning, reopen_closed).
THEOREM OnceAndInhabited == Spec => []NothingTwiceNorEmpty
BY Inductive, SoundIsOnce, PTL

\* Only an operation that chooses a workspace takes the user from the one he is in while it
\* stays open: the index is adjusted at every insertion, removal and move
\* (add_workspace_keep_selection, remove, move_tab, reorder_workspaces, move_group_before).
THEOREM TheUserStays == Spec => SelectionFollows
<1> DEFINE A == SelectedId(tm) \in Open(tm') /\ SelectedId(tm') # SelectedId(tm) => ~Leaves
<1>1. IInv /\ [Next]_vars => [A]_vars
  <2> SUFFICES ASSUME IInv, Leaves PROVE Follows(tm, tm')
    BY DEF Follows
  <2> QED BY LeavesStep DEF Left
<1> QED BY <1>1, Inductive, PTL DEF Spec, SelectionFollows

\* A panel of an open workspace leaves the open workspaces and the closed list only when it
\* is closed, in a bulk close, or by surface.move to a workspace that is not there.
THEOREM PanelsAreKept == Spec => OpenPanelsAreKept
<1> DEFINE A == \/ UNION Range(tm.tabs) \subseteq Kept(tm')
                \/ \E w \in Open(tm), p \in Panels : CloseTab(p, w)
                \/ \E from \in Open(tm), p \in Panels, to \in Workspaces :
                      SurfaceMove(p, from, to) /\ to \notin Open(tm)
                \/ asked # None /\ asked.kind \in {"others", "above", "below"}
<1>1. IInv /\ [Next]_vars => [A]_vars
  <2> SUFFICES ASSUME IInv, Next PROVE A
    OBVIOUS
  <2>1. Keeps(tm, tm') => UNION Range(tm.tabs) \subseteq Kept(tm')
    <3>1. DOMAIN tm.tabs = Workspaces
      BY DEF IInv, Sound, Tidy, Managers
    <3> QED BY <3>1 DEF Keeps, Range
  <2>2. Keeps(tm, tm') \/ Bulk \/ Closes
    BY ChoosesStep, LeavesStep DEF Next, Left
  <2> QED BY <2>1, <2>2 DEF Bulk, Closes
<1> QED BY <1>1, Inductive, PTL DEF Spec, OpenPanelsAreKept
=============================================================================
