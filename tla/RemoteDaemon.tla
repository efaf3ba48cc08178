---------------------------- MODULE RemoteDaemon ----------------------------
(***************************************************************************)
(* The remote daemon (jmuxd-remote serve --stdio): a loop that serves one  *)
(* request after the other, one goroutine per subscribed stream that pumps *)
(* the bytes of a connection into events, and the frame writer they share. *)
(* The session requests are those of PtySession.                           *)
(***************************************************************************)
EXTENDS PtySession

CONSTANTS MaxStreams,  \* maxConcurrentStreams
          MaxOpens,    \* bound on nextStreamID
          MaxData,     \* bound on the chunks a peer sends
          PipeSize     \* frames stdout holds before a writer waits

ASSUME MaxStreamsAssumption == MaxStreams \in Nat \ {0}
ASSUME MaxOpensAssumption == MaxOpens \in Nat
ASSUME MaxDataAssumption == MaxData \in Nat
ASSUME PipeAssumption == PipeSize \in Nat \ {0}

VARIABLES loop,          \* what runStdioServer is doing: [at, ids]
          nextStreamID,
          streams,       \* rpcServer.streams: id -> readerStarted
          conns,         \* the connection of each stream, and its peer
          pump,          \* streamPump of each stream: [at, event]
          stdout,        \* frames written and not yet read by the client
          told           \* what has been written about each stream

daemonVars == <<loop, nextStreamID, streams, conns, pump, stdout, told>>
registryVars == <<sessions, nextSessionID>>
allVars == <<daemonVars, registryVars>>

StreamIds == 1..MaxOpens
Opens == 1..(nextStreamID - 1)

\* A connection: whether the daemon has it open, what the peer sent and the
\* pump has read, and how the peer ended it.
Conn == [open : BOOLEAN, sent : 0..MaxData, read : 0..MaxData,
         end : {"no", "eof", "reset"}]
NewConn == [open |-> TRUE, sent |-> 0, read |-> 0, end |-> "no"]
NoConn == [NewConn EXCEPT !.open = FALSE]

Untold == [got |-> 0, fin |-> "none", late |-> FALSE]
Loop(at, ids) == loop' = [at |-> at, ids |-> ids]
Idle == loop.at = "idle"
Running == loop.at # "stopped"

DaemonInit ==
    /\ Init
    /\ loop = [at |-> "idle", ids |-> {}]
    /\ nextStreamID = 1
    /\ streams = [i \in {} |-> FALSE]
    /\ conns = [i \in StreamIds |-> NoConn]
    /\ pump = [i \in StreamIds |-> [at |-> "none", event |-> "none"]]
    /\ stdout = 0
    /\ told = [i \in StreamIds |-> Untold]

-----------------------------------------------------------------------------
\* The loop.  A handler ends by leaving its response to be written.

\* (Mutant of HasRoom: the comparison is off by one.)
HasRoomForOneMore == Cardinality(DOMAIN streams) <= MaxStreams

HasRoom == Cardinality(DOMAIN streams) < MaxStreams

\* proxy.open: the limit is checked under the lock, which is then released for
\* the lookup of the host, the deny list and the dial.
OpenChecks ==
    /\ Idle /\ nextStreamID <= MaxOpens
    /\ IF HasRoom THEN Loop("dialing", {}) ELSE Loop("answering", {})
    /\ UNCHANGED <<nextStreamID, streams, conns, pump, stdout, told, registryVars>>

\* Resolving, the deny list or the dial refuses.
DialFails ==
    /\ loop.at = "dialing"
    /\ Loop("answering", {})
    /\ UNCHANGED <<nextStreamID, streams, conns, pump, stdout, told, registryVars>>

\* (Mutant of Dialed: the counter is left where it is.)
DialedUncounted ==
    /\ loop.at = "dialing"
    /\ streams' = [i \in DOMAIN streams \cup {nextStreamID} |->
                      IF i = nextStreamID THEN FALSE ELSE streams[i]]
    /\ conns' = [conns EXCEPT ![nextStreamID] = NewConn]
    /\ Loop("answering", {})
    /\ UNCHANGED <<nextStreamID, pump, stdout, told, registryVars>>

Dialed ==
    /\ loop.at = "dialing"
    /\ nextStreamID' = nextStreamID + 1
    /\ streams' = [i \in DOMAIN streams \cup {nextStreamID} |->
                      IF i = nextStreamID THEN FALSE ELSE streams[i]]
    /\ conns' = [conns EXCEPT ![nextStreamID] = NewConn]
    /\ Loop("answering", {})
    /\ UNCHANGED <<pump, stdout, told, registryVars>>

Unlisted(ids) == [i \in DOMAIN streams \ ids |-> streams[i]]
Closed(ids) == [i \in StreamIds |->
                   IF i \in ids THEN [conns[i] EXCEPT !.open = FALSE] ELSE conns[i]]

\* proxy.close: the stream leaves the table under the lock, its connection is
\* closed after.  Closing an unknown stream succeeds.
CloseRequested(id) ==
    /\ Idle
    /\ IF id \in DOMAIN streams THEN Loop("closing", {id}) ELSE Loop("answering", {})
    /\ streams' = Unlisted({id})
    /\ UNCHANGED <<nextStreamID, conns, pump, stdout, told, registryVars>>

\* (Mutant of CloseConn: the connection is forgotten.)
CloseForgets ==
    /\ loop.at = "closing"
    /\ Loop("answering", {})
    /\ UNCHANGED <<nextStreamID, streams, conns, pump, stdout, told, registryVars>>

CloseConn ==
    /\ loop.at = "closing"
    /\ conns' = Closed(loop.ids)
    /\ Loop("answering", {})
    /\ UNCHANGED <<nextStreamID, streams, pump, stdout, told, registryVars>>

\* proxy.write: an unknown stream is refused; otherwise the loop is in Write
\* until the peer took the bytes, the write failed, or its deadline passed.
WriteRequested(id) ==
    /\ Idle
    /\ IF id \in DOMAIN streams THEN Loop("writing", {id}) ELSE Loop("answering", {})
    /\ UNCHANGED <<nextStreamID, streams, conns, pump, stdout, told, registryVars>>

\* (Mutant of WriteEnds: timeout_ms = 0 switches the deadline off.)
WriteUnbounded ==
    /\ loop.at = "writing"
    /\ \A id \in loop.ids : ~conns[id].open \/ conns[id].end = "reset"
    /\ Loop("answering", {})
    /\ UNCHANGED <<nextStreamID, streams, conns, pump, stdout, told, registryVars>>

WriteEnds ==
    /\ loop.at = "writing"
    /\ Loop("answering", {})
    /\ UNCHANGED <<nextStreamID, streams, conns, pump, stdout, told, registryVars>>

Starts(id) == id \in DOMAIN streams /\ ~streams[id]

\* proxy.stream.subscribe: the first one starts the pump, which may write its
\* first event before the loop writes the response.
SubscribeRequested(id) ==
    /\ Idle
    /\ IF Starts(id)
       THEN /\ streams' = [streams EXCEPT ![id] = TRUE]
            /\ pump' = [pump EXCEPT ![id] = [at |-> "reading", event |-> "none"]]
       ELSE UNCHANGED <<streams, pump>>
    /\ Loop("answering", {})
    /\ UNCHANGED <<nextStreamID, conns, stdout, told, registryVars>>

SessionRequested ==
    /\ Idle
    /\ SessionRequest
    /\ Loop("answering", {})
    /\ UNCHANGED <<nextStreamID, streams, conns, pump, stdout, told>>

\* writeResponse, under the frame writer's mutex.
Answer ==
    /\ loop.at = "answering" /\ stdout < PipeSize
    /\ stdout' = stdout + 1
    /\ Loop("idle", {})
    /\ UNCHANGED <<nextStreamID, streams, conns, pump, told, registryVars>>

\* Stdin ended, or a response could not be written: closeAll empties both
\* tables under the lock, closes the connections after it, and the process ends.
\* Left out is the deferred Flush before it, outside the frame mutex: a frame
\* that a pump is writing meanwhile may be garbled, so that "told" says what was
\* handed to the frame writer, and of a frame after this step no more than that.
StdinEnds ==
    /\ loop.at \in {"idle", "answering"}
    /\ Loop("stopping", DOMAIN streams)
    /\ streams' = Unlisted(DOMAIN streams)
    /\ CloseSessions
    /\ UNCHANGED <<nextStreamID, conns, pump, stdout, told>>

Exits ==
    /\ loop.at = "stopping"
    /\ conns' = Closed(loop.ids)
    /\ Loop("stopped", {})
    /\ UNCHANGED <<nextStreamID, streams, pump, stdout, told, registryVars>>

-----------------------------------------------------------------------------
\* streamPump

Unread(id) == conns[id].read < conns[id].sent

PumpReads(id) ==
    /\ Running /\ pump[id].at = "reading" /\ conns[id].open /\ Unread(id)
    /\ conns' = [conns EXCEPT ![id].read = @ + 1]
    /\ pump' = [pump EXCEPT ![id] = [at |-> "writing", event |-> "data"]]
    /\ UNCHANGED <<loop, nextStreamID, streams, stdout, told, registryVars>>

\* Read fails: the peer has ended the stream and everything was read; the peer
\* reset it, or nothing came for streamIdleTimeout; or the daemon closed it,
\* which is not reported.  (An error of another kind ends like a reset.)
ReadEnd(id) ==
    IF ~conns[id].open THEN {"none"}
    ELSE {e \in {"eof", "error"} :
             \/ e = "eof" /\ conns[id].end = "eof" /\ ~Unread(id)
             \/ e = "error" /\ conns[id].end = "reset"
             \/ e = "error" /\ conns[id].end = "no" /\ ~Unread(id)}

PumpEnds(id) ==
    /\ Running /\ pump[id].at = "reading"
    /\ \E e \in ReadEnd(id) :
         pump' = [pump EXCEPT ![id] =
                     [at |-> IF e = "none" THEN "dropping" ELSE "writing", event |-> e]]
    /\ UNCHANGED <<loop, nextStreamID, streams, conns, stdout, told, registryVars>>

\* (Mutant of AfterEvent: the pump ends and the stream stays in the table.)
AfterEventDone(e) == IF e = "data" THEN "reading" ELSE "done"

AfterEvent(e) == IF e = "data" THEN "reading" ELSE "dropping"

\* writeEvent, under the frame writer's mutex.  Its error is ignored, and a step
\* of its own is left out for it: writing to a closed pipe kills the process,
\* and after any other error the buffered writer refuses every later frame, so
\* that the client has a prefix of what is told and the next response ends the loop.
PumpWrites(id) ==
    LET e == pump[id].event
        late == ~conns[id].open
    IN  /\ Running /\ pump[id].at = "writing" /\ stdout < PipeSize
        /\ stdout' = stdout + 1
        /\ told' = [told EXCEPT ![id] =
                       IF e = "data"
                       THEN [got |-> @.got + 1, fin |-> @.fin, late |-> late]
                       ELSE [got |-> @.got, fin |-> e, late |-> late]]
        /\ pump' = [pump EXCEPT ![id] = [at |-> AfterEvent(e), event |-> "none"]]
        /\ UNCHANGED <<loop, nextStreamID, streams, conns, registryVars>>

\* dropStream: out of the table under the lock, closed after it.
PumpDrops(id) ==
    /\ Running /\ pump[id].at = "dropping"
    /\ pump' = [pump EXCEPT ![id].at = IF id \in DOMAIN streams THEN "closing" ELSE "done"]
    /\ streams' = Unlisted({id})
    /\ UNCHANGED <<loop, nextStreamID, conns, stdout, told, registryVars>>

PumpCloses(id) ==
    /\ Running /\ pump[id].at = "closing"
    /\ conns' = Closed({id})
    /\ pump' = [pump EXCEPT ![id].at = "done"]
    /\ UNCHANGED <<loop, nextStreamID, streams, stdout, told, registryVars>>

-----------------------------------------------------------------------------
\* The outside: the peers of the connections, and the client reading stdout.

PeerSends(id) ==
    /\ conns[id].open /\ conns[id].end = "no" /\ conns[id].sent < MaxData
    /\ conns' = [conns EXCEPT ![id].sent = @ + 1]
    /\ UNCHANGED <<loop, nextStreamID, streams, pump, stdout, told, registryVars>>

PeerEnds(id) ==
    /\ conns[id].open /\ conns[id].end = "no"
    /\ \E e \in {"eof", "reset"} : conns' = [conns EXCEPT ![id].end = e]
    /\ UNCHANGED <<loop, nextStreamID, streams, pump, stdout, told, registryVars>>

ClientReads ==
    /\ stdout > 0
    /\ stdout' = stdout - 1
    /\ UNCHANGED <<loop, nextStreamID, streams, conns, pump, told, registryVars>>

LoopStep == DialFails \/ Dialed \/ CloseConn \/ WriteEnds \/ Answer \/ Exits
Pump(id) == \/ PumpReads(id) \/ PumpEnds(id) \/ PumpWrites(id)
            \/ PumpDrops(id) \/ PumpCloses(id)

DaemonNext ==
    \/ LoopStep \/ OpenChecks \/ SessionRequested \/ StdinEnds \/ ClientReads
    \/ \E id \in StreamIds :
         \/ CloseRequested(id) \/ WriteRequested(id) \/ SubscribeRequested(id)
         \/ Pump(id) \/ PeerSends(id) \/ PeerEnds(id)

DaemonSpec == DaemonInit /\ [][DaemonNext]_allVars

\* The goroutines run; a dial and a write end by their deadlines, a read by
\* streamIdleTimeout; the client's reader thread keeps reading.
FairDaemonSpec == /\ DaemonSpec
                  /\ WF_allVars(LoopStep)
                  /\ WF_allVars(ClientReads)
                  /\ \A id \in StreamIds : SF_allVars(PumpWrites(id)) /\ WF_allVars(Pump(id))

-----------------------------------------------------------------------------
LoopTypes == {"idle", "dialing", "closing", "writing", "answering", "stopping", "stopped"}
PumpTypes == {"none", "reading", "writing", "dropping", "closing", "done"}

\* The two tables, the loop and the pumps are well formed: ids come from the
\* counter, and a pump that has a frame to write knows which.
DaemonTypeOK ==
    /\ TypeOK
    /\ loop \in [at : LoopTypes, ids : SUBSET StreamIds]
    /\ nextStreamID \in 1..(MaxOpens + 1)
    /\ DOMAIN streams \subseteq Opens
    /\ streams \in [DOMAIN streams -> BOOLEAN]
    /\ conns \in [StreamIds -> Conn]
    /\ pump \in [StreamIds -> [at : PumpTypes, event : {"none", "data", "eof", "error"}]]
    /\ \A id \in StreamIds : pump[id].at = "writing" <=> pump[id].event # "none"
    /\ stdout \in 0..PipeSize
    /\ told \in [StreamIds -> [got : 0..MaxData, fin : {"none", "eof", "error"}, late : BOOLEAN]]

\* No connection leaks: whoever takes a stream out of the table closes its
\* connection, so one that is open is in the table or about to be closed.
OpenConnsAreOwned ==
    \A id \in StreamIds :
      conns[id].open =>
        \/ id \in DOMAIN streams
        \/ loop.at \in {"closing", "stopping"} /\ id \in loop.ids
        \/ pump[id].at = "closing"

\* A stream has one pump: in the table and subscribed, it is being read.
SubscribedAreRead ==
    \A id \in DOMAIN streams :
      streams[id] <=> pump[id].at \in {"reading", "writing", "dropping"}

\* The promise to the client: the limit, and for each stream a prefix of what
\* the peer sent, one end, and at most one event after it was closed.
Life(id) == IF id >= nextStreamID THEN "unborn"
            ELSE IF id \in DOMAIN streams THEN "open"
            ELSE IF conns[id].open THEN "closing" ELSE "over"
Service == INSTANCE StreamService
             WITH Ids <- StreamIds, Limit <- MaxStreams,
                  life <- [id \in StreamIds |-> Life(id)],
                  sent <- [id \in StreamIds |-> conns[id].sent]
StreamsAsPromised == Service!Spec

\* The session registry of a daemon that also serves streams is PtySession.
RegistryAsPromised == Spec

\* A subscribed stream does not stay for ever: its peer ends it or the idle
\* timeout does, whatever the loop is busy with.
SubscribedStreamsEnd ==
    \A id \in StreamIds :
      (id \in DOMAIN streams /\ streams[id]) ~> (id \notin DOMAIN streams)

\* The loop comes back to read the next request: no handler waits for ever.
RequestsAreAnswered == (~Idle) ~> (loop.at \in {"idle", "stopped"})
=============================================================================
