------------------------ MODULE RemoteSessionProofs ------------------------
(***************************************************************************)
(* That the connection in the map is always watched, for any number of     *)
(* attempts and of waiting events.  Attempts are numbered when their event *)
(* is taken from the queue, so the type invariant has to count the events  *)
(* that wait together with the attempts already made.  EntryIsWatched is   *)
(* then inductive: nobody but thread k puts k into the map, it starts the  *)
(* monitor of k after, and a monitor that ends has emptied the map or      *)
(* found it empty.                                                         *)
(***************************************************************************)
EXTENDS RemoteSession, FiniteSetTheorems, FunctionTheorems, TLAPS

Event == {Connect, Disconnect} \cup StateEvents

Connects(es) == {i \in 1..Len(es) : es[i] = Connect}

Bounded == connects + Cardinality(Connects(events)) <= MaxConnects

IInv == TypeOK /\ Bounded /\ EntryIsWatched

\* The names of events differ.
LEMMA Events ==
    /\ Connect \in Event /\ Disconnect \in Event /\ StateEvents \subseteq Event
    /\ Connect # Disconnect /\ Connect \notin StateEvents
    /\ StateEvents \subseteq RemoteStates
  BY DEF Event, Connect, Disconnect, StateEvents, RemoteStates

\* The waiting connects are finitely many.
LEMMA ConnectsFinite ==
  ASSUME NEW es \in Seq(Event)
  PROVE  IsFiniteSet(Connects(es)) /\ Cardinality(Connects(es)) \in Nat
<1>1. Len(es) \in Nat
  OBVIOUS
<1>2. IsFiniteSet(1..Len(es))
  BY <1>1, FS_Interval
<1>3. Connects(es) \in SUBSET (1..Len(es))
  BY DEF Connects
<1> QED BY <1>2, <1>3, FS_Subset, FS_CardinalityType

\* An event other than Connect adds nothing to be counted.
LEMMA PostOther ==
  ASSUME NEW es \in Seq(Event), NEW e \in Event, e # Connect
  PROVE  /\ es \o <<e>> \in Seq(Event)
         /\ Connects(es \o <<e>>) = Connects(es)
<1>1. es \o <<e>> \in Seq(Event)
  OBVIOUS
<1>2. ASSUME NEW i PROVE i \in Connects(es \o <<e>>) <=> i \in Connects(es)
  BY DEF Connects
<1> QED BY <1>1, <1>2

\* A Connect adds one.
LEMMA PostConnect ==
  ASSUME NEW es \in Seq(Event)
  PROVE  /\ es \o <<Connect>> \in Seq(Event)
         /\ Cardinality(Connects(es \o <<Connect>>)) = Cardinality(Connects(es)) + 1
<1>1. es \o <<Connect>> \in Seq(Event)
  BY Events
<1>2. Connects(es \o <<Connect>>) = Connects(es) \cup {Len(es) + 1}
  <2>1. ASSUME NEW i
        PROVE  i \in Connects(es \o <<Connect>>) <=> i \in Connects(es) \cup {Len(es) + 1}
    BY DEF Connects
  <2> QED BY <2>1
<1>3. Len(es) + 1 \notin Connects(es)
  BY DEF Connects
<1> QED BY <1>1, <1>2, <1>3, ConnectsFinite, FS_AddElement

\* What is taken from the queue is counted no longer.
LEMMA TakeHead ==
  ASSUME NEW es \in Seq(Event), es # <<>>
  PROVE  /\ Tail(es) \in Seq(Event) /\ Head(es) \in Event
         /\ Cardinality(Connects(Tail(es))) <= Cardinality(Connects(es))
         /\ Head(es) = Connect =>
              Cardinality(Connects(Tail(es))) + 1 <= Cardinality(Connects(es))
<1> DEFINE rest == Connects(es) \ {1}
           f == [i \in Connects(Tail(es)) |-> i + 1]
<1>1. Tail(es) \in Seq(Event) /\ Head(es) \in Event
  OBVIOUS
<1>2. f \in Injection(Connects(Tail(es)), rest)
  <2>1. \A i \in Connects(Tail(es)) : i \in Nat /\ i + 1 \in rest
    BY DEF Connects
  <2>2. f \in [Connects(Tail(es)) -> rest]
    BY <2>1
  <2>3. \A i, j \in Connects(Tail(es)) : f[i] = f[j] => i = j
    BY <2>1
  <2> QED BY <2>2, <2>3, Fun_IsInj
<1>3. /\ IsFiniteSet(rest)
      /\ Cardinality(rest) = IF 1 \in Connects(es) THEN Cardinality(Connects(es)) - 1
                             ELSE Cardinality(Connects(es))
  BY ConnectsFinite, FS_RemoveElement
<1>4. Cardinality(Connects(Tail(es))) <= Cardinality(rest)
  BY <1>2, <1>3, FS_Injection
<1>5. Head(es) = Connect => 1 \in Connects(es)
  BY DEF Connects
<1>6. Cardinality(Connects(Tail(es))) \in Nat /\ Cardinality(Connects(es)) \in Nat
  BY <1>1, ConnectsFinite
<1> QED BY <1>1, <1>3, <1>4, <1>5, <1>6
-----------------------------------------------------------------------------
ThreadStates == {"none", "starting", "inserting", "watching", "reporting", "done"}
LinkStates == {"none", "up", "down"}
MonitorStates == {"none", "asleep", "looking", "probing", "lost", "telling", "gone"}

\* A controller nobody holds is stopped: the links keep their type.
LEMMA LinksTyped ==
  ASSUME link \in [Attempts -> LinkStates], NEW th, NEW mon, NEW ent, NEW ks
  PROVE  LinksHeld(th, mon, ent, ks) \in [Attempts -> LinkStates]
  BY DEF LinksHeld, LinkStates

\* CanConnect counts what Bounded counts.
LEMMA WaitingCounts == Waiting = Cardinality(Connects(events))
  BY DEF Waiting, Connects

\* The queue after something was posted that is not a Connect.
LEMMA PostKeeps ==
  ASSUME IInv, NEW e \in Event, e # Connect, Post(<<e>>), connects' = connects
  PROVE  events' \in Seq(Event) /\ Bounded'
<1>1. events \in Seq(Event)
  BY DEF IInv, TypeOK, Event
<1> QED BY <1>1, PostOther DEF Post, IInv, Bounded

\* The queue after the UI thread has taken an event, when no attempt comes of it.
LEMMA TakeKeeps ==
  ASSUME IInv, events # <<>>, events' = Tail(events), connects' = connects
  PROVE  events' \in Seq(Event) /\ Bounded' /\ Head(events) \in Event
<1>1. events \in Seq(Event) /\ connects \in Nat /\ MaxConnects \in Nat
  BY MaxConnectsAssumption DEF IInv, TypeOK, Event
<1>2. events' \in Seq(Event)
  BY <1>1, TakeHead
<1>3. /\ Cardinality(Connects(events)) \in Nat
      /\ Cardinality(Connects(events')) \in Nat
      /\ Cardinality(Connects(events')) <= Cardinality(Connects(events))
  BY <1>1, <1>2, ConnectsFinite, TakeHead
<1> QED BY <1>1, <1>2, <1>3, TakeHead DEF IInv, Bounded

\* Steps that leave the threads and the monitors alone, and put nothing in the map.
LEMMA OthersKeep ==
  ASSUME IInv,
         events' \in Seq(Event), Bounded', connects' = connects,
         workspace' \in BOOLEAN, refresh' \in BOOLEAN, shown' \in RemoteStates,
         entry' \in {entry, None}, link' \in [Attempts -> LinkStates],
         UNCHANGED <<thread, monitor>>
  PROVE  IInv'
<1>1. TypeOK'
  BY DEF IInv, TypeOK, Event, LinkStates
<1>2. EntryIsWatched'
  BY DEF IInv, EntryIsWatched
<1> QED BY <1>1, <1>2 DEF IInv

\* The user's buttons and the closing of the workspace.
LEMMA UserKeeps ==
  ASSUME IInv, PressReconnect \/ MenuReconnect \/ MenuDisconnect \/ CloseWorkspace
  PROVE  IInv'
<1>1. /\ events \in Seq(Event) /\ connects \in Nat /\ MaxConnects \in Nat
      /\ Cardinality(Connects(events)) \in Nat
      /\ workspace \in BOOLEAN /\ refresh \in BOOLEAN /\ shown \in RemoteStates
      /\ link \in [Attempts -> LinkStates]
  BY MaxConnectsAssumption, ConnectsFinite DEF IInv, TypeOK, Event, LinkStates
<1>2. CASE PressReconnect
  <2>1. events' \in Seq(Event) /\ Bounded'
    BY <1>1, <1>2, PostConnect, WaitingCounts DEF PressReconnect, Post, CanConnect, Bounded
  <2> QED BY <1>1, <1>2, <2>1, OthersKeep DEF PressReconnect
<1>3. CASE MenuReconnect
  <2> DEFINE es == events \o <<Disconnect>>
  <2>1. es \in Seq(Event) /\ Connects(es) = Connects(events)
    BY <1>1, Events, PostOther
  <2>2. events' = es \o <<Connect>>
    BY <1>1, <1>3, Events DEF MenuReconnect, Post
  <2>3. /\ events' \in Seq(Event)
        /\ Cardinality(Connects(events')) = Cardinality(Connects(es)) + 1
    BY <2>1, <2>2, PostConnect
  <2>4. connects + Cardinality(Connects(events)) < MaxConnects /\ connects' = connects
    BY <1>3, WaitingCounts DEF MenuReconnect, CanConnect
  <2>5. Bounded'
    BY <1>1, <2>1, <2>3, <2>4 DEF Bounded
  <2> QED BY <1>1, <1>3, <2>3, <2>5, OthersKeep DEF MenuReconnect
<1>4. CASE MenuDisconnect
  BY <1>1, <1>4, Events, PostKeeps, OthersKeep DEF MenuDisconnect
<1>5. CASE CloseWorkspace
  BY <1>1, <1>5, OthersKeep DEF CloseWorkspace, IInv, Bounded
<1> QED BY <1>2, <1>3, <1>4, <1>5

\* The UI thread. A RemoteConnect turns a waiting event into an attempt.
LEMMA UiKeeps ==
  ASSUME IInv, Ui
  PROVE  IInv'
<1>1. /\ events \in Seq(Event) /\ connects \in Nat /\ MaxConnects \in Nat
      /\ Cardinality(Connects(events)) \in Nat
      /\ workspace \in BOOLEAN /\ refresh \in BOOLEAN /\ shown \in RemoteStates
      /\ link \in [Attempts -> LinkStates]
  BY MaxConnectsAssumption, ConnectsFinite DEF IInv, TypeOK, Event, LinkStates
<1>2. CASE UiConnects /\ workspace
  <2>1. /\ events # <<>> /\ Head(events) = Connect /\ events' = Tail(events)
        /\ connects' = connects + 1 /\ shown' = "connecting" /\ refresh' = TRUE
        /\ thread' = [thread EXCEPT ![connects + 1] = "starting"]
        /\ UNCHANGED <<workspace, entry, link, monitor>>
    BY <1>2 DEF UiConnects, Next1
  <2>2. /\ events' \in Seq(Event) /\ Cardinality(Connects(events')) \in Nat
        /\ Cardinality(Connects(events')) + 1 <= Cardinality(Connects(events))
    BY <1>1, <2>1, TakeHead, ConnectsFinite
  <2>3. Bounded' /\ connects + 1 \in 1..MaxConnects
    BY <1>1, <2>1, <2>2 DEF IInv, Bounded
  <2>4. TypeOK'
    BY <1>1, <2>1, <2>2, <2>3 DEF IInv, TypeOK, Event, Attempts, RemoteStates, None
  <2>5. EntryIsWatched'
    BY <1>1, <2>1 DEF IInv, TypeOK, EntryIsWatched, Attempts, None
  <2> QED BY <2>3, <2>4, <2>5 DEF IInv
<1>3. CASE UiConnects /\ ~workspace
  BY <1>1, <1>3, TakeKeeps, OthersKeep DEF UiConnects
<1>4. CASE UiDisconnects
  <2>1. link' \in [Attempts -> LinkStates]
    BY <1>1, <1>4, LinksTyped DEF UiDisconnects
  <2>2. shown' \in RemoteStates
    BY <1>1, <1>4 DEF UiDisconnects, RemoteStates
  <2> QED BY <1>1, <1>4, <2>1, <2>2, TakeKeeps, OthersKeep DEF UiDisconnects
<1>5. CASE UiShows
  <2>1. shown' \in RemoteStates
    BY <1>1, <1>5, Events DEF UiShows
  <2> QED BY <1>1, <1>5, <2>1, TakeKeeps, OthersKeep DEF UiShows
<1>6. CASE Refresh
  <2>1. link' \in [Attempts -> LinkStates]
    BY <1>1, <1>6, LinksTyped DEF Refresh
  <2> QED BY <1>1, <1>6, <2>1, OthersKeep DEF Refresh, IInv, Bounded
<1> QED BY <1>2, <1>3, <1>4, <1>5, <1>6 DEF Ui
-----------------------------------------------------------------------------
\* The connection thread of attempt k: it enters its session, then starts the monitor.
LEMMA ThreadKeeps ==
  ASSUME IInv, NEW k \in Attempts, Thread(k)
  PROVE  IInv'
<1> USE DEF ThreadStates, LinkStates, MonitorStates
<1>1. /\ k \in 1..connects /\ k # None /\ connects \in Nat
      /\ link \in [Attempts -> LinkStates]
  BY MaxConnectsAssumption DEF IInv, TypeOK, Thread, Starts, StartFails, Stores, Watches,
     Reports, Attempts, None
<1>2. CASE Starts(k)
  BY <1>1, <1>2 DEF Starts, IInv, TypeOK, Bounded, EntryIsWatched
<1>3. CASE StartFails(k)
  <2>1. PICK e \in {"error", "connecting"} : Post(<<e>>)
    BY <1>3 DEF StartFails
  <2>2. e \in Event /\ e # Connect
    BY Events DEF StateEvents
  <2>3. events' \in Seq(Event) /\ Bounded'
    BY <1>3, <2>1, <2>2, PostKeeps DEF StartFails
  <2>4. TypeOK'
    BY <1>1, <1>3, <2>3 DEF StartFails, IInv, TypeOK, Event
  <2>5. EntryIsWatched'
    BY <1>1, <1>3 DEF StartFails, IInv, TypeOK, EntryIsWatched
  <2> QED BY <2>3, <2>4, <2>5 DEF IInv
<1>4. CASE Stores(k)
  <2>1. link' \in [Attempts -> LinkStates]
    BY <1>1, <1>4, LinksTyped DEF Stores
  <2>2. TypeOK'
    BY <1>1, <1>4, <2>1 DEF Stores, IInv, TypeOK
  <2>3. EntryIsWatched'
    BY <1>1, <1>4 DEF Stores, IInv, TypeOK, EntryIsWatched
  <2> QED BY <1>4, <2>2, <2>3 DEF Stores, IInv, Bounded
<1>5. CASE Watches(k)
  BY <1>1, <1>5 DEF Watches, IInv, TypeOK, Bounded, EntryIsWatched
<1>6. CASE Reports(k)
  <2>1. link' \in [Attempts -> LinkStates]
    BY <1>1, <1>6, LinksTyped DEF Reports
  <2>2. events' \in Seq(Event) /\ Bounded'
    BY <1>6, Events, PostKeeps DEF Reports, StateEvents
  <2>3. TypeOK'
    BY <1>1, <1>6, <2>1, <2>2 DEF Reports, IInv, TypeOK, Event
  <2>4. EntryIsWatched'
    BY <1>1, <1>6 DEF Reports, IInv, TypeOK, EntryIsWatched
  <2> QED BY <2>2, <2>3, <2>4 DEF IInv
<1> QED BY <1>2, <1>3, <1>4, <1>5, <1>6 DEF Thread

\* The health monitor of attempt k: it only ends when the map is empty, or has been since.
LEMMA MonitorKeeps ==
  ASSUME IInv, NEW k \in Attempts, Monitor(k)
  PROVE  IInv'
<1> USE DEF ThreadStates, LinkStates, MonitorStates, MonitorTo
<1>1. link \in [Attempts -> LinkStates]
  BY DEF IInv, TypeOK
<1>2. CASE Wakes(k)
  BY <1>2 DEF Wakes, IInv, TypeOK, Bounded, EntryIsWatched
<1>3. CASE LooksForEntry(k)
  <2>1. link' \in [Attempts -> LinkStates]
    BY <1>1, <1>3, LinksTyped DEF LooksForEntry
  <2>2. TypeOK'
    <3>1. monitor' \in [Attempts -> MonitorStates]
      BY <1>3 DEF LooksForEntry, IInv, TypeOK
    <3> QED BY <1>3, <2>1, <3>1 DEF LooksForEntry, IInv, TypeOK
  <2>3. EntryIsWatched'
    BY <1>3 DEF LooksForEntry, IInv, TypeOK, EntryIsWatched
  <2> QED BY <1>3, <2>2, <2>3 DEF LooksForEntry, IInv, Bounded
<1>4. CASE Probes(k)
  BY <1>4 DEF Probes, IInv, TypeOK, Bounded, EntryIsWatched
<1>5. CASE RemovesEntry(k)
  <2>1. link' \in [Attempts -> LinkStates]
    BY <1>1, <1>5, LinksTyped DEF RemovesEntry
  <2> QED BY <1>5, <2>1 DEF RemovesEntry, IInv, TypeOK, Bounded, EntryIsWatched
<1>6. CASE Tells(k)
  <2>1. link' \in [Attempts -> LinkStates]
    BY <1>1, <1>6, LinksTyped DEF Tells
  <2>2. events' \in Seq(Event) /\ Bounded'
    BY <1>6, Events, PostKeeps DEF Tells, StateEvents
  <2>3. TypeOK'
    BY <1>6, <2>1, <2>2 DEF Tells, IInv, TypeOK, Event
  <2>4. EntryIsWatched'
    BY <1>6 DEF Tells, IInv, TypeOK, EntryIsWatched
  <2> QED BY <2>2, <2>3, <2>4 DEF IInv
<1> QED BY <1>2, <1>3, <1>4, <1>5, <1>6 DEF Monitor

-----------------------------------------------------------------------------
\* Init and every step keep the invariant.
THEOREM Inductive == Spec => []IInv
<1>1. Init => IInv
  <2> SUFFICES ASSUME Init PROVE IInv
    OBVIOUS
  <2>1. events \in Seq(Event)
    BY Events DEF Init
  <2>2. Connects(<<Connect>>) = {1}
    BY DEF Connects
  <2>3. Cardinality(Connects(events)) = 1
    BY <2>2, FS_Singleton DEF Init
  <2>4. TypeOK
    <3>1. \A k \in Attempts : ~(k <= 0)
      BY DEF Attempts
    <3>2. thread = [k \in Attempts |-> "none"] /\ connects = 0
      BY DEF Init
    <3>3. \A k \in Attempts : thread[k] # "none" <=> k <= connects
      BY <3>1, <3>2
    <3>4. connects \in 0..MaxConnects
      BY <3>2, MaxConnectsAssumption
    <3> QED BY <2>1, <3>3, <3>4 DEF Init, TypeOK, Event, RemoteStates
  <2>5. Bounded
    BY <2>3, MaxConnectsAssumption DEF Init, Bounded
  <2> QED BY <2>4, <2>5 DEF Init, IInv, EntryIsWatched
<1>2. IInv /\ [Next]_vars => IInv'
  <2> SUFFICES ASSUME IInv, [Next]_vars PROVE IInv'
    OBVIOUS
  <2>1. ASSUME NEW k \in Attempts, LinkFails(k) PROVE IInv'
    BY <2>1, OthersKeep DEF LinkFails, IInv, TypeOK, Bounded, Event, LinkStates
  <2>2. CASE UNCHANGED vars
    BY <2>2 DEF vars, IInv, TypeOK, Bounded, EntryIsWatched
  <2> QED BY <2>1, <2>2, UserKeeps, UiKeeps, ThreadKeeps, MonitorKeeps DEF Next
<1> QED BY <1>1, <1>2, PTL DEF Spec

\* The state of the connection is well typed, for any number of attempts and events:
\* every attempt has one thread, started by its own event.
THEOREM TypeCorrect == Spec => []TypeOK
<1>1. IInv => TypeOK
  BY DEF IInv
<1> QED BY <1>1, Inductive, PTL

\* The connection in the map has a monitor that will find it dead (event_handler.rs),
\* however many attempts overlap and whichever of them is disconnected or lost.
THEOREM MapIsWatched == Spec => []EntryIsWatched
<1>1. IInv => EntryIsWatched
  BY DEF IInv
<1> QED BY <1>1, Inductive, PTL
=============================================================================
