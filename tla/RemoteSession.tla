---------------------------- MODULE RemoteSession ----------------------------
(***************************************************************************)
(* The connection of one remote (SSH) workspace, as the application drives *)
(* it.  The UI thread handles RemoteConnect, RemoteDisconnect and          *)
(* RemoteStateChanged events; every RemoteConnect starts a thread that     *)
(* brings a RemoteSessionController up and then a health monitor that looks*)
(* every ten seconds.  They meet in the map SharedState.remote_sessions.   *)
(* Entries of the map belong to one workspace each, so one is modelled.    *)
(***************************************************************************)
EXTENDS Naturals, Sequences, FiniteSets

CONSTANTS MaxConnects,  \* bound on the RemoteConnect events of a behaviour
          MaxEvents     \* bound on the UI events waiting

ASSUME MaxConnectsAssumption == MaxConnects \in Nat \ {0}
ASSUME MaxEventsAssumption == MaxEvents \in Nat

VARIABLES workspace,  \* the workspace exists
          shown,      \* its remote_state
          entry,      \* its controller in remote_sessions, or None
          events,     \* the UI events waiting
          connects,   \* attempts made so far
          thread,     \* the connection thread of each attempt
          link,       \* the SSH process of each attempt's controller
          monitor,    \* the health monitor of each attempt
          refresh     \* a UI refresh is due

vars == <<workspace, shown, entry, events, connects, thread, link, monitor, refresh>>

None == 0
Attempts == 1..MaxConnects
RemoteStates == {"never", "disconnected", "connecting", "connected", "error"}
Connect == "connect"
Disconnect == "disconnect"
StateEvents == {"connecting", "connected", "error"}

Post(es) == events' = events \o es
Waiting == Cardinality({i \in 1..Len(events) : events[i] = Connect})
CanConnect == connects + Waiting < MaxConnects

\* Who holds the controller of attempt k (an Arc): its thread until it ends,
\* the map, and its monitor.  The last one to let go drops it, which stops it.
Held(k, th, mon, ent) ==
    \/ th[k] \in {"starting", "inserting", "watching", "reporting"}
    \/ ent = k
    \/ mon[k] \in {"asleep", "looking", "probing", "lost", "telling"}

LinksHeld(th, mon, ent, ks) ==
    [k \in Attempts |->
        IF link[k] = "up" /\ (k \in ks \/ ~Held(k, th, mon, ent)) THEN "down" ELSE link[k]]

Init == /\ workspace = TRUE
        /\ shown = "never"
        /\ entry = None
        /\ events = <<Connect>>
        /\ connects = 0
        /\ thread = [k \in Attempts |-> "none"]
        /\ link = [k \in Attempts |-> "none"]
        /\ monitor = [k \in Attempts |-> "none"]
        /\ refresh = FALSE

-----------------------------------------------------------------------------
\* The user, and whoever closes the workspace.

\* The Reconnect button: shown unless connected or connecting.
PressReconnect ==
    /\ workspace /\ shown \notin {"connected", "connecting"}
    /\ Len(events) < MaxEvents /\ CanConnect
    /\ Post(<<Connect>>)
    /\ UNCHANGED <<workspace, shown, entry, connects, thread, link, monitor, refresh>>

\* The menu's Reconnect and Disconnect.
MenuReconnect ==
    /\ workspace /\ Len(events) + 1 < MaxEvents /\ CanConnect
    /\ Post(<<Disconnect, Connect>>)
    /\ UNCHANGED <<workspace, shown, entry, connects, thread, link, monitor, refresh>>

MenuDisconnect ==
    /\ workspace /\ Len(events) < MaxEvents
    /\ Post(<<Disconnect>>)
    /\ UNCHANGED <<workspace, shown, entry, connects, thread, link, monitor, refresh>>

CloseWorkspace ==
    /\ workspace
    /\ workspace' = FALSE
    /\ refresh' = TRUE
    /\ UNCHANGED <<shown, entry, events, connects, thread, link, monitor>>

-----------------------------------------------------------------------------
\* The UI thread.

Next1 == connects + 1

\* RemoteConnect: a workspace that is gone has no configuration to connect with.
UiConnects ==
    /\ events # <<>> /\ Head(events) = Connect
    /\ events' = Tail(events)
    /\ IF workspace
       THEN /\ shown' = "connecting" /\ refresh' = TRUE
            /\ connects' = Next1
            /\ thread' = [thread EXCEPT ![Next1] = "starting"]
       ELSE UNCHANGED <<shown, refresh, connects, thread>>
    /\ UNCHANGED <<workspace, entry, link, monitor>>

\* RemoteDisconnect: whatever the map holds is taken out and stopped.
UiDisconnects ==
    /\ events # <<>> /\ Head(events) = Disconnect
    /\ events' = Tail(events)
    /\ entry' = None
    /\ link' = LinksHeld(thread, monitor, None, {entry})
    /\ shown' = IF workspace THEN "disconnected" ELSE shown
    /\ refresh' = TRUE
    /\ UNCHANGED <<workspace, connects, thread, monitor>>

UiShows ==
    /\ events # <<>> /\ Head(events) \in StateEvents
    /\ events' = Tail(events)
    /\ shown' = IF workspace THEN Head(events) ELSE shown
    /\ refresh' = TRUE
    /\ UNCHANGED <<workspace, entry, connects, thread, link, monitor>>

\* (Mutant of Refresh: the sidebar is rebuilt, the map is not looked at.)
RefreshOnly ==
    /\ refresh
    /\ refresh' = FALSE
    /\ UNCHANGED <<workspace, shown, entry, events, connects, thread, link, monitor>>

\* refresh_ui: cleanup_stale_remote_sessions, throttled to one every 300 ms.
Refresh ==
    /\ refresh
    /\ refresh' = FALSE
    /\ IF workspace
       THEN UNCHANGED <<entry, link>>
       ELSE entry' = None /\ link' = LinksHeld(thread, monitor, None, {entry})
    /\ UNCHANGED <<workspace, shown, events, connects, thread, monitor>>

-----------------------------------------------------------------------------
\* The connection thread of attempt k.

\* start() succeeds: bootstrap, SSH, hello and the tunnel.
Starts(k) ==
    /\ thread[k] = "starting"
    /\ thread' = [thread EXCEPT ![k] = "inserting"]
    /\ link' = [link EXCEPT ![k] = "up"]
    /\ UNCHANGED <<workspace, shown, entry, events, connects, monitor, refresh>>

\* (Mutant of StartFails: the controller's first state is reported.)
StartFailsUnset(k) ==
    /\ thread[k] = "starting"
    /\ thread' = [thread EXCEPT ![k] = "done"]
    /\ Post(<<"disconnected">>)
    /\ UNCHANGED <<workspace, shown, entry, connects, link, monitor, refresh>>

\* start() fails and its state is reported: Error, or Connecting when the SSH
\* process could not be spawned (RemoteRpcClient::new sets no state).
StartFails(k) ==
    /\ thread[k] = "starting"
    /\ thread' = [thread EXCEPT ![k] = "done"]
    /\ \E s \in {"error", "connecting"} : Post(<<s>>)
    /\ UNCHANGED <<workspace, shown, entry, connects, link, monitor, refresh>>

\* The session is stored, over the one that may be there.
Stores(k) ==
    /\ thread[k] = "inserting"
    /\ thread' = [thread EXCEPT ![k] = "watching"]
    /\ entry' = k
    /\ link' = LinksHeld(thread', monitor, k, {})
    /\ UNCHANGED <<workspace, shown, events, connects, monitor, refresh>>

Watches(k) ==
    /\ thread[k] = "watching"
    /\ thread' = [thread EXCEPT ![k] = "reporting"]
    /\ monitor' = [monitor EXCEPT ![k] = "asleep"]
    /\ UNCHANGED <<workspace, shown, entry, events, connects, link, refresh>>

Reports(k) ==
    /\ thread[k] = "reporting"
    /\ thread' = [thread EXCEPT ![k] = "done"]
    /\ Post(<<"connected">>)
    /\ link' = LinksHeld(thread', monitor, entry, {})
    /\ UNCHANGED <<workspace, shown, entry, connects, monitor, refresh>>

\* The SSH process ends, or its output does.
LinkFails(k) ==
    /\ link[k] = "up"
    /\ link' = [link EXCEPT ![k] = "down"]
    /\ UNCHANGED <<workspace, shown, entry, events, connects, thread, monitor, refresh>>

-----------------------------------------------------------------------------
\* The health monitor of attempt k.

MonitorTo(k, at) == monitor' = [monitor EXCEPT ![k] = at]

\* It sleeps ten seconds first: by then the thread has sent its event.
Wakes(k) ==
    /\ monitor[k] = "asleep" /\ thread[k] = "done"
    /\ MonitorTo(k, "looking")
    /\ UNCHANGED <<workspace, shown, entry, events, connects, thread, link, refresh>>

\* remote_sessions.contains_key(&ws_id): has the user disconnected?
LooksForEntry(k) ==
    /\ monitor[k] = "looking"
    /\ MonitorTo(k, IF entry = None THEN "gone" ELSE "probing")
    /\ link' = LinksHeld(thread, monitor', entry, {})
    /\ UNCHANGED <<workspace, shown, entry, events, connects, thread, refresh>>

\* (Mutant of Probes: a dead connection ends the monitor.)
ProbesAndLeaves(k) ==
    /\ monitor[k] = "probing"
    /\ MonitorTo(k, IF link[k] = "up" THEN "asleep" ELSE "gone")
    /\ UNCHANGED <<workspace, shown, entry, events, connects, thread, link, refresh>>

Probes(k) ==
    /\ monitor[k] = "probing"
    /\ MonitorTo(k, IF link[k] = "up" THEN "asleep" ELSE "lost")
    /\ UNCHANGED <<workspace, shown, entry, events, connects, thread, link, refresh>>

\* Its own connection is lost: the entry of the workspace is removed.
RemovesEntry(k) ==
    /\ monitor[k] = "lost"
    /\ MonitorTo(k, "telling")
    /\ entry' = None
    /\ link' = LinksHeld(thread, monitor', None, {})
    /\ UNCHANGED <<workspace, shown, events, connects, thread, refresh>>

Tells(k) ==
    /\ monitor[k] = "telling"
    /\ MonitorTo(k, "gone")
    /\ Post(<<"error">>)
    /\ link' = LinksHeld(thread, monitor', entry, {})
    /\ UNCHANGED <<workspace, shown, entry, connects, thread, refresh>>

-----------------------------------------------------------------------------
Ui == UiConnects \/ UiDisconnects \/ UiShows \/ Refresh
Thread(k) == Starts(k) \/ StartFails(k) \/ Stores(k) \/ Watches(k) \/ Reports(k)
Monitor(k) == Wakes(k) \/ LooksForEntry(k) \/ Probes(k) \/ RemovesEntry(k) \/ Tells(k)

Next == \/ PressReconnect \/ MenuReconnect \/ MenuDisconnect \/ CloseWorkspace
        \/ Ui
        \/ \E k \in Attempts : Thread(k) \/ LinkFails(k) \/ Monitor(k)

Spec == Init /\ [][Next]_vars

\* The UI thread, the connection threads and the monitors run.
FairSpec == /\ Spec
            /\ WF_vars(UiConnects \/ UiDisconnects \/ UiShows) /\ WF_vars(Refresh)
            /\ \A k \in Attempts : WF_vars(Thread(k)) /\ WF_vars(Monitor(k))

-----------------------------------------------------------------------------
\* Attempts are numbered as they are made, and only those have a thread.
TypeOK ==
    /\ workspace \in BOOLEAN /\ refresh \in BOOLEAN
    /\ shown \in RemoteStates
    /\ entry \in {None} \cup 1..connects
    /\ events \in Seq({Connect, Disconnect} \cup StateEvents)
    /\ connects \in 0..MaxConnects
    /\ thread \in [Attempts -> {"none", "starting", "inserting", "watching", "reporting", "done"}]
    /\ link \in [Attempts -> {"none", "up", "down"}]
    /\ monitor \in [Attempts -> {"none", "asleep", "looking", "probing", "lost", "telling", "gone"}]
    /\ \A k \in Attempts : thread[k] # "none" <=> k <= connects

\* The connection in the map is watched: its monitor runs, or its thread is
\* about to start it.  (Monitors end by looking at an entry that may be
\* another's, and remove it.)
EntryIsWatched ==
    entry # None =>
      \/ thread[entry] = "watching"
      \/ monitor[entry] \in {"asleep", "looking", "probing", "lost"}

\* A closed workspace loses its connections, those being made included.
ClosedWorkspaceDisconnects ==
    \A k \in Attempts : (~workspace) ~> (link[k] # "up")

\* A connection that breaks does not stay in the map, and the user is told:
\* the workspace does not go on showing it as connected for ever.
DeadConnectionIsNoticed ==
    \A k \in Attempts :
      (entry = k /\ link[k] = "down") ~> 
        (entry # k /\ (shown # "connected" \/ ~workspace \/ entry # None))

\* event_handler.rs:677-690 "Health monitor: detect SSH dropout": the entry a
\* monitor removes is that of its own, lost, connection.
MonitorsRemoveTheirOwn ==
    [][\A k \in Attempts :
         monitor[k] = "lost" /\ monitor'[k] = "telling" => entry \in {None, k}]_vars

\* A start that fails is shown as an error: the workspace does not stay
\* "connecting", where the sidebar offers no way to try again.
ConnectingEnds == (shown = "connecting") ~> (shown # "connecting" \/ ~workspace)

\* A disconnected workspace stays so until it is connected again.
DisconnectHolds == [][shown = "disconnected" => entry' = None]_vars
=============================================================================
