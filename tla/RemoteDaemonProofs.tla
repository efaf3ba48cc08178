------------------------- MODULE RemoteDaemonProofs -------------------------
(***************************************************************************)
(* Proofs about the daemon, for any session ids, any (even infinitely      *)
(* many) terminals and any sizes, and any number of streams, of chunks and *)
(* of frames in the pipe.                                                  *)
(*                                                                         *)
(* First the session registry of PtySession: it keeps its type, the        *)
(* effective size is the tight minimum, and the last detach keeps it.      *)
(* What makes the properties inductive is WellSized: a session always is   *)
(* as recomputeSessionSize leaves it.                                      *)
(*                                                                         *)
(* Then that the daemon's streams are what StreamService promises, that no *)
(* connection leaks and that every subscribed stream is read; and that the *)
(* session registry behind the same loop is PtySession.  A stream is moved *)
(* by the loop, by its pump and by its peer.  The invariant says of each   *)
(* stream what the others rely on (Kept: who is allowed to close it; Told: *)
(* what has been read is told or about to be), and of the loop that the    *)
(* room it found before a dial is still there after, since only the loop   *)
(* takes places.                                                           *)
(***************************************************************************)
EXTENDS RemoteDaemon, FiniteSetTheorems, WellFoundedInduction, TLAPS

\* A session after recomputeSessionSize: the size in force is the remembered
\* one, and it is the tight minimum of the attached terminals.
Tight(s) ==
    DOMAIN s.att # {} =>
       /\ \A a \in DOMAIN s.att : /\ s.eff.cols <= s.att[a].cols
                                  /\ s.eff.rows <= s.att[a].rows
       /\ \E a \in DOMAIN s.att : s.eff.cols = s.att[a].cols
       /\ \E a \in DOMAIN s.att : s.eff.rows = s.att[a].rows

WellSized == \A id \in DOMAIN sessions : /\ sessions[id].eff = sessions[id].last
                                         /\ Tight(sessions[id])

IInv == TypeOK /\ WellSized

-----------------------------------------------------------------------------
(* Lemmas about the operators. *)

\* A non-empty set of sizes has a least element, and Least names it.
LEMMA LeastIsLeast ==
  ASSUME NEW S \in SUBSET Nat, S # {}
  PROVE  Least(S) \in S /\ \A y \in S : Least(S) <= y
<1> DEFINE R == {p \in Nat \X Nat : p[1] < p[2]}
<1>1. IsWellFoundedOn(R, Nat)
  BY NatLessThanWellFounded DEF OpToRel
<1>2. PICK x \in S : \A y \in S : <<y, x>> \notin R
  BY <1>1, WFMin
<1>3. ASSUME NEW y \in S
      PROVE  x <= y
  <2> DEFINE p == <<y, x>>
  <2>1. p \in Nat \X Nat /\ p[1] = y /\ p[2] = x
    OBVIOUS
  <2>2. p \notin R
    BY <1>2
  <2> HIDE DEF p
  <2> QED BY <2>1, <2>2
<1> QED BY <1>2, <1>3 DEF Least

\* The attachments of a session are sizes.
LEMMA AttachedSizes ==
  ASSUME NEW s \in Session
  PROVE  /\ DOMAIN s.att \subseteq Attachments
         /\ s.att \in [DOMAIN s.att -> Size]
<1>1. PICK A \in SUBSET Attachments : s.att \in [A -> Size]
  BY DEF Session
<1> QED BY <1>1

\* Replacing the attachments of a session leaves a session.
LEMMA Reattached ==
  ASSUME NEW s \in Session, NEW A \in SUBSET Attachments, NEW f \in [A -> Size]
  PROVE  [s EXCEPT !.att = f] \in Session /\ [s EXCEPT !.att = f].att = f
BY DEF Session

\* recomputeSessionSize: of any session it makes one that is WellSized, with
\* the same attachments; with none, the size in force is the remembered one.
LEMMA RecomputeIsTight ==
  ASSUME NEW s \in Session
  PROVE  /\ Recompute(s) \in Session
         /\ Recompute(s).att = s.att
         /\ Recompute(s).eff = Recompute(s).last
         /\ DOMAIN s.att = {} => Recompute(s).eff = s.last
         /\ Tight(Recompute(s))
<1>1. CASE DOMAIN s.att = {}
  <2>1. Recompute(s) = [s EXCEPT !.eff = s.last]
    BY <1>1 DEF Recompute
  <2>2. [s EXCEPT !.eff = s.last] \in Session
    BY DEF Session
  <2>3. /\ [s EXCEPT !.eff = s.last].att = s.att
        /\ [s EXCEPT !.eff = s.last].eff = s.last
        /\ [s EXCEPT !.eff = s.last].last = s.last
    BY DEF Session
  <2> QED BY <1>1, <2>1, <2>2, <2>3 DEF Tight
<1>2. CASE DOMAIN s.att # {}
  <2> DEFINE C == {s.att[a].cols : a \in DOMAIN s.att}
             R == {s.att[a].rows : a \in DOMAIN s.att}
             m == [cols |-> Least(C), rows |-> Least(R)]
             t == [s EXCEPT !.eff = m, !.last = m]
  <2>1. \A a \in DOMAIN s.att : s.att[a].cols \in Sizes /\ s.att[a].rows \in Sizes
    BY AttachedSizes DEF Size
  <2>2. C \in SUBSET Sizes /\ C # {} /\ R \in SUBSET Sizes /\ R # {}
    BY <1>2, <2>1
  <2>3. /\ Least(C) \in C /\ \A y \in C : Least(C) <= y
        /\ Least(R) \in R /\ \A y \in R : Least(R) <= y
    BY <2>2, LeastIsLeast, SizesAssumption
  <2>4. Recompute(s) = t
    BY <1>2 DEF Recompute
  <2>5. m \in [cols : Sizes \cup {0}, rows : Sizes \cup {0}]
    BY <2>2, <2>3
  <2> HIDE DEF m
  <2>6. t \in Session /\ t.att = s.att /\ t.eff = m /\ t.last = m
    BY <2>5 DEF Session
  <2>7. /\ \A a \in DOMAIN s.att : m.cols <= s.att[a].cols /\ m.rows <= s.att[a].rows
        /\ \E a \in DOMAIN s.att : m.cols = s.att[a].cols
        /\ \E a \in DOMAIN s.att : m.rows = s.att[a].rows
    BY <2>3 DEF m
  <2> HIDE DEF t
  <2> QED BY <1>2, <2>4, <2>6, <2>7 DEF Tight
<1> QED BY <1>1, <1>2

-----------------------------------------------------------------------------
(* The steps. *)

\* One session is replaced by a well-sized one.
LEMMA UpdateKeeps ==
  ASSUME IInv, NEW id \in DOMAIN sessions, NEW s \in Session,
         s.eff = s.last, Tight(s), Update(id, s), UNCHANGED nextSessionID
  PROVE  IInv'
<1>1. /\ DOMAIN sessions' = DOMAIN sessions
      /\ \A i \in DOMAIN sessions : sessions'[i] = IF i = id THEN s ELSE sessions[i]
      /\ sessions' = [i \in DOMAIN sessions |-> sessions'[i]]
  BY DEF Update, IInv, TypeOK
<1>2. TypeOK'
  BY <1>1 DEF IInv, TypeOK
<1>3. ASSUME NEW i \in DOMAIN sessions'
      PROVE  sessions'[i].eff = sessions'[i].last /\ Tight(sessions'[i])
  BY <1>1, <1>3, Zenon DEF IInv, WellSized
<1>4. WellSized'
  BY <1>3, Zenon DEF WellSized, Tight
<1> QED BY <1>2, <1>4 DEF IInv

\* What Attach and Detach make of a session is a session.
LEMMA AttachTyped ==
  ASSUME NEW s \in Session, NEW a \in Attachments, NEW size \in Size
  PROVE  Attach(s, a, size) \in Session /\ DOMAIN Attach(s, a, size).att # {}
<1> DEFINE f == [b \in DOMAIN s.att \cup {a} |-> IF b = a THEN size ELSE s.att[b]]
<1>1. DOMAIN s.att \cup {a} \in SUBSET Attachments
  BY AttachedSizes
<1>2. f \in [DOMAIN s.att \cup {a} -> Size] /\ DOMAIN f # {}
  BY AttachedSizes
<1>3. Attach(s, a, size) = [s EXCEPT !.att = f]
  BY DEF Attach
<1> HIDE DEF f
<1> QED BY <1>1, <1>2, <1>3, Reattached

LEMMA DetachTyped ==
  ASSUME NEW s \in Session, NEW a \in Attachments
  PROVE  Detach(s, a) \in Session /\ Detach(s, a).last = s.last
<1> DEFINE f == [b \in DOMAIN s.att \ {a} |-> s.att[b]]
<1>1. DOMAIN s.att \ {a} \in SUBSET Attachments
  BY AttachedSizes
<1>2. f \in [DOMAIN s.att \ {a} -> Size]
  BY AttachedSizes
<1>3. Detach(s, a) = [s EXCEPT !.att = f]
  BY DEF Detach
<1> HIDE DEF f
<1>4. [s EXCEPT !.att = f].last = s.last
  BY DEF Session
<1> QED BY <1>1, <1>2, <1>3, <1>4, Reattached

\* The three requests that update an open session.
LEMMA AttachUpdates ==
  ASSUME IInv, NEW id \in Ids, NEW a \in Attachments, NEW size \in Size,
         SessionAttach(id, a, size) \/ SessionResize(id, a, size)
  PROVE  /\ id \in DOMAIN sessions
         /\ UNCHANGED nextSessionID
         /\ \E s \in Session : /\ Update(id, s) /\ s.eff = s.last /\ Tight(s)
                               /\ DOMAIN s.att # {}
<1>1. /\ id \in DOMAIN sessions /\ UNCHANGED nextSessionID
      /\ Update(id, Recompute(Attach(sessions[id], a, size)))
  BY DEF SessionAttach, SessionResize
<1>2. sessions[id] \in Session
  BY <1>1 DEF IInv, TypeOK
<1>3. PICK t : t = Attach(sessions[id], a, size)
  OBVIOUS
<1>4. t \in Session /\ DOMAIN t.att # {}
  BY <1>2, <1>3, AttachTyped
<1> QED BY <1>1, <1>3, <1>4, RecomputeIsTight

LEMMA DetachUpdates ==
  ASSUME IInv, NEW id \in Ids, NEW a \in Attachments, SessionDetach(id, a)
  PROVE  /\ id \in DOMAIN sessions
         /\ UNCHANGED nextSessionID
         /\ \E s \in Session : /\ Update(id, s) /\ s.eff = s.last /\ Tight(s)
                               /\ DOMAIN s.att = {} => s.eff = sessions[id].last
<1>1. /\ id \in DOMAIN sessions /\ UNCHANGED nextSessionID
      /\ Update(id, Recompute(Detach(sessions[id], a)))
  BY DEF SessionDetach
<1>2. sessions[id] \in Session
  BY <1>1 DEF IInv, TypeOK
<1>3. PICK t : t = Detach(sessions[id], a)
  OBVIOUS
<1>4. t \in Session /\ t.last = sessions[id].last
  BY <1>2, <1>3, DetachTyped
<1> QED BY <1>1, <1>3, <1>4, RecomputeIsTight

\* session.open: at most an empty session is added.
LEMMA OpenKeeps ==
  ASSUME IInv, NEW id \in Ids, sessions' = Opened(id),
         nextSessionID' \in 1..(MaxAuto + 1)
  PROVE  IInv'
<1>1. CASE id \in DOMAIN sessions
  BY <1>1 DEF Opened, IInv, TypeOK, WellSized, Tight
<1>2. CASE id \notin DOMAIN sessions
  <2>1. /\ DOMAIN sessions' = DOMAIN sessions \cup {id}
        /\ \A i \in DOMAIN sessions' :
              sessions'[i] = IF i = id THEN EmptySession ELSE sessions[i]
        /\ sessions' = [i \in DOMAIN sessions' |-> sessions'[i]]
    BY <1>2 DEF Opened
  <2>2. /\ EmptySession \in Session
        /\ EmptySession.eff = EmptySession.last
        /\ DOMAIN EmptySession.att = {}
    <3>1. [a \in {} |-> 0] \in [{} -> Size] /\ {} \in SUBSET Attachments
      OBVIOUS
    <3> QED BY <3>1 DEF EmptySession, Session
  <2>3. TypeOK'
    BY <2>1, <2>2 DEF IInv, TypeOK
  <2>4. ASSUME NEW i \in DOMAIN sessions'
        PROVE  sessions'[i].eff = sessions'[i].last /\ Tight(sessions'[i])
    <3>1. CASE i = id
      BY <2>1, <2>2, <3>1 DEF Tight
    <3>2. CASE i # id
      <4>1. i \in DOMAIN sessions /\ sessions'[i] = sessions[i]
        BY <2>1, <3>2
      <4> QED BY <4>1 DEF IInv, WellSized
    <3> QED BY <3>1, <3>2
  <2> QED BY <2>3, <2>4, Zenon DEF IInv, WellSized, Tight
<1> QED BY <1>1, <1>2

\* session.close.
LEMMA CloseKeeps ==
  ASSUME IInv, NEW id \in Ids, SessionClose(id)
  PROVE  IInv'
<1>1. /\ DOMAIN sessions' = DOMAIN sessions \ {id}
      /\ \A i \in DOMAIN sessions' : i \in DOMAIN sessions /\ sessions'[i] = sessions[i]
      /\ sessions' = [i \in DOMAIN sessions' |-> sessions'[i]]
      /\ nextSessionID' = nextSessionID
  BY DEF SessionClose
<1>2. TypeOK'
  BY <1>1 DEF IInv, TypeOK
<1>3. ASSUME NEW i \in DOMAIN sessions'
      PROVE  sessions'[i].eff = sessions'[i].last /\ Tight(sessions'[i])
  BY <1>1 DEF IInv, WellSized
<1> QED BY <1>2, <1>3, Zenon DEF IInv, WellSized, Tight

-----------------------------------------------------------------------------
\* Init and every step keep the invariant.
THEOREM Inductive == Spec => []IInv
<1>1. Init => IInv
  <2> SUFFICES ASSUME Init PROVE IInv
    OBVIOUS
  <2>1. MaxAuto \in Nat /\ sessions \in [DOMAIN sessions -> Session] /\ DOMAIN sessions = {}
    BY MaxAutoAssumption DEF Init
  <2> QED BY <2>1 DEF Init, IInv, TypeOK, WellSized
<1>2. IInv /\ [Next]_vars => IInv'
  <2> SUFFICES ASSUME IInv, [Next]_vars PROVE IInv'
    OBVIOUS
  <2>1. CASE SessionOpenAuto
    <3>1. /\ sessions' = Opened(AutoId(nextSessionID))
          /\ nextSessionID \in 1..MaxAuto /\ nextSessionID' \in 1..(MaxAuto + 1)
      BY <2>1, MaxAutoAssumption DEF SessionOpenAuto, IInv, TypeOK
    <3> QED BY <3>1, AutoIdAssumption, OpenKeeps
  <2>2. ASSUME NEW id \in Ids, SessionOpen(id) PROVE IInv'
    BY <2>2, OpenKeeps DEF SessionOpen, IInv, TypeOK
  <2>3. ASSUME NEW id \in Ids, SessionClose(id) PROVE IInv'
    BY <2>3, CloseKeeps
  <2>4. ASSUME NEW id \in Ids, NEW a \in Attachments, SessionDetach(id, a)
        PROVE  IInv'
    BY <2>4, DetachUpdates, UpdateKeeps
  <2>5. ASSUME NEW id \in Ids, NEW a \in Attachments, NEW size \in Size,
               SessionAttach(id, a, size) \/ SessionResize(id, a, size)
        PROVE  IInv'
    BY <2>5, AttachUpdates, UpdateKeeps
  <2>6. CASE CloseSessions
    <3>1. /\ DOMAIN sessions' = {} /\ sessions' \in [{} -> Session]
          /\ nextSessionID' = nextSessionID
      BY <2>6 DEF CloseSessions
    <3>2. TypeOK'
      BY <3>1 DEF IInv, TypeOK
    <3> QED BY <3>1, <3>2 DEF IInv, WellSized, Tight
  <2>7. CASE UNCHANGED vars
    BY <2>7 DEF vars, IInv, TypeOK, WellSized, Tight
  <2> QED BY <2>1, <2>2, <2>3, <2>4, <2>5, <2>6, <2>7 DEF Next, SessionRequest
<1> QED BY <1>1, <1>2, PTL DEF Spec

\* The registry is well typed, for any ids, terminals and sizes.
THEOREM TypeCorrect == Spec => []TypeOK
<1>1. IInv => TypeOK
  BY DEF IInv
<1> QED BY <1>1, Inductive, PTL

\* recomputeSessionSize: the effective size is the largest one that fits every
\* attached terminal, after any sequence of requests.
THEOREM SizeIsTightMinimum == Spec => []EffectiveIsTightMinimum
<1>1. IInv => EffectiveIsTightMinimum
  BY DEF IInv, WellSized, Tight, EffectiveIsTightMinimum
<1> QED BY <1>1, Inductive, PTL

\* The last terminal to leave keeps the size.
THEOREM LastDetachKeepsSize == Spec => DetachedKeepsSize
<1> DEFINE P == \A id \in DOMAIN sessions \cap DOMAIN sessions' :
                   DOMAIN sessions'[id].att = {} => sessions'[id].eff = sessions[id].eff
<1>1. IInv /\ [Next]_vars => [P]_vars
  <2> SUFFICES ASSUME IInv, Next,
                      NEW i \in DOMAIN sessions, i \in DOMAIN sessions',
                      DOMAIN sessions'[i].att = {}
               PROVE  sessions'[i].eff = sessions[i].eff
    OBVIOUS
  <2> USE DEF IInv, TypeOK
  <2>1. CASE SessionOpenAuto
    BY <2>1 DEF SessionOpenAuto, Opened
  <2>2. ASSUME NEW id \in Ids, SessionOpen(id) \/ SessionClose(id)
        PROVE  sessions'[i].eff = sessions[i].eff
    BY <2>2 DEF SessionOpen, SessionClose, Opened
  <2>3. ASSUME NEW id \in Ids, NEW a \in Attachments, SessionDetach(id, a)
        PROVE  sessions'[i].eff = sessions[i].eff
    BY <2>3, DetachUpdates DEF Update, WellSized
  <2>4. ASSUME NEW id \in Ids, NEW a \in Attachments, NEW size \in Size,
               SessionAttach(id, a, size) \/ SessionResize(id, a, size)
        PROVE  sessions'[i].eff = sessions[i].eff
    BY <2>4, AttachUpdates DEF Update, WellSized
  <2>5. CASE CloseSessions
    BY <2>5 DEF CloseSessions
  <2> QED BY <2>1, <2>2, <2>3, <2>4, <2>5 DEF Next, SessionRequest
<1> HIDE DEF P
<1>2. Spec => [][P]_vars
  BY <1>1, Inductive, PTL DEF Spec
<1> QED BY <1>2 DEF P, DetachedKeepsSize

-----------------------------------------------------------------------------
(* The daemon's streams. *)

Ends == {"none", "eof", "error"}
PumpState == [at : PumpTypes, event : {"none", "data", "eof", "error"}]

\* DaemonTypeOK without the registry.
Typed ==
    /\ loop \in [at : LoopTypes, ids : SUBSET StreamIds]
    /\ nextStreamID \in 1..(MaxOpens + 1)
    /\ DOMAIN streams \subseteq Opens
    /\ streams \in [DOMAIN streams -> BOOLEAN]
    /\ conns \in [StreamIds -> Conn]
    /\ pump \in [StreamIds -> PumpState]
    /\ stdout \in 0..PipeSize
    /\ told \in [StreamIds -> [got : 0..MaxData, fin : Ends, late : BOOLEAN]]

\* The place a dial was promised, and the connections the loop is to close.
LoopOK ==
    /\ loop.at = "dialing" => HasRoom /\ nextStreamID <= MaxOpens
    /\ loop.at \in {"closing", "stopping"} => loop.ids \cap DOMAIN streams = {}

\* A stream in the table is open and has a pump when subscribed; one that is not
\* born has nothing.
Kept(id) ==
    /\ id >= nextStreamID => conns[id] = NoConn /\ pump[id].at = "none" /\ told[id] = Untold
    /\ id \in DOMAIN streams =>
         /\ conns[id].open
         /\ streams[id] <=> pump[id].at \in {"reading", "writing", "dropping"}
    /\ pump[id].at \in {"closing", "done"} => id \notin DOMAIN streams
    /\ pump[id].at = "writing" <=> pump[id].event # "none"

\* What was read was told or is being written; the end comes last; a stream that
\* was closed while its pump was writing tells nothing more.
Told(id) ==
    /\ conns[id].read = told[id].got + IF pump[id].event = "data" THEN 1 ELSE 0
    /\ conns[id].read <= conns[id].sent
    /\ pump[id].at \in {"none", "reading", "writing"} => told[id].fin = "none"
    /\ pump[id].event = "eof" \/ told[id].fin = "eof" =>
         conns[id].end = "eof" /\ conns[id].read = conns[id].sent
    /\ told[id].late => ~conns[id].open /\ pump[id].at \notin {"none", "writing"}

\* OpenConnsAreOwned, of one connection.
Owned(id) ==
    conns[id].open =>
      \/ id \in DOMAIN streams
      \/ loop.at \in {"closing", "stopping"} /\ id \in loop.ids
      \/ pump[id].at = "closing"

DInv ==
    /\ Typed /\ LoopOK
    /\ \A id \in StreamIds : Kept(id) /\ Told(id) /\ Owned(id)

\* The numbers of streams.
LEMMA Numbers ==
    /\ StreamIds \subseteq Nat /\ MaxOpens \in Nat /\ MaxData \in Nat
    /\ MaxStreams \in Nat /\ PipeSize \in Nat \ {0}
  BY MaxStreamsAssumption, MaxOpensAssumption, MaxDataAssumption, PipeAssumption DEF StreamIds

\* Ids that were given out are ids.
LEMMA OpensAreIds == Typed => Opens \subseteq StreamIds /\ DOMAIN streams \subseteq StreamIds
  BY Numbers DEF Typed, Opens, StreamIds

\* The table is finite, and taking streams out of it makes room.
LEMMA TableFinite ==
  ASSUME Typed
  PROVE  IsFiniteSet(DOMAIN streams) /\ Cardinality(DOMAIN streams) \in Nat
<1>1. IsFiniteSet(StreamIds)
  BY Numbers, FS_Interval DEF StreamIds
<1> QED BY <1>1, OpensAreIds, FS_Subset, FS_CardinalityType

\* The initial state.
LEMMA InitDInv == DaemonInit => DInv
<1> SUFFICES ASSUME DaemonInit PROVE DInv
  OBVIOUS
<1>1. Typed
  <2>1. NoConn \in Conn
    <3>1. NewConn \in Conn
      BY Numbers DEF Conn, NewConn
    <3> QED BY <3>1 DEF Conn, NoConn
  <2>2. Untold \in [got : 0..MaxData, fin : Ends, late : BOOLEAN]
    BY Numbers DEF Untold, Ends
  <2>3. loop \in [at : LoopTypes, ids : SUBSET StreamIds]
    BY DEF DaemonInit, LoopTypes
  <2>4. DOMAIN streams \subseteq Opens /\ streams \in [DOMAIN streams -> BOOLEAN]
    BY DEF DaemonInit
  <2>5. pump \in [StreamIds -> PumpState]
    BY DEF DaemonInit, PumpState, PumpTypes
  <2>6. nextStreamID \in 1..(MaxOpens + 1) /\ stdout \in 0..PipeSize
    BY Numbers DEF DaemonInit
  <2> QED BY <2>1, <2>2, <2>3, <2>4, <2>5, <2>6 DEF DaemonInit, Typed
<1>2. LoopOK
  BY DEF DaemonInit, LoopOK
<1>3. ASSUME NEW id \in StreamIds PROVE Kept(id) /\ Told(id) /\ Owned(id)
  BY Numbers, <1>3 DEF DaemonInit, Kept, Told, Owned, NoConn, NewConn, Untold, StreamIds
<1> QED BY <1>1, <1>2, <1>3 DEF DInv

-----------------------------------------------------------------------------
\* What a step does not touch of a stream.
Same(id) ==
    /\ UNCHANGED <<conns[id], pump[id], told[id]>>
    /\ id \in DOMAIN streams' <=> id \in DOMAIN streams
    /\ id \in DOMAIN streams => streams'[id] = streams[id]

\* A stream that is not touched stays as it should be.
LEMMA SameKeeps ==
  ASSUME DInv, NEW id \in StreamIds, Same(id), nextStreamID' = nextStreamID,
         loop' = loop \/ loop.at \notin {"closing", "stopping"}
  PROVE  Kept(id)' /\ Told(id)' /\ Owned(id)'
<1>1. Kept(id) /\ Told(id) /\ Owned(id)
  BY DEF DInv
<1>2. Kept(id)'
  BY <1>1 DEF Same, Kept
<1>3. Told(id)'
  BY <1>1 DEF Same, Told
<1>4. Owned(id)'
  BY <1>1 DEF Same, Owned
<1> QED BY <1>2, <1>3, <1>4

\* Steps of the loop that leave the streams alone.
LEMMA LoopMoves ==
  ASSUME DInv, loop' \in [at : LoopTypes, ids : SUBSET StreamIds],
         stdout' \in 0..PipeSize,
         loop'.at = "dialing" => HasRoom /\ nextStreamID <= MaxOpens,
         loop'.at \notin {"closing", "stopping"},
         loop.at \notin {"closing", "stopping"},
         UNCHANGED <<nextStreamID, streams, conns, pump, told>>
  PROVE  DInv'
<1>1. Typed'
  BY DEF DInv, Typed, Opens
<1>2. LoopOK'
  BY DEF LoopOK, HasRoom
<1>3. ASSUME NEW id \in StreamIds PROVE Kept(id)' /\ Told(id)' /\ Owned(id)'
  BY <1>3, SameKeeps DEF Same
<1> QED BY <1>1, <1>2, <1>3 DEF DInv

\* The simple handlers, the writing of responses and the end of a write.
LEMMA SimpleKeep ==
  ASSUME DInv,
         \/ OpenChecks \/ DialFails \/ WriteEnds \/ SessionRequested \/ Answer
         \/ \E id \in StreamIds : WriteRequested(id)
  PROVE  DInv'
<1>1. /\ UNCHANGED <<nextStreamID, streams, conns, pump, told>>
      /\ loop'.at = "dialing" => HasRoom /\ nextStreamID <= MaxOpens
      /\ loop'.at \notin {"closing", "stopping"} /\ loop.at \notin {"closing", "stopping"}
      /\ loop' \in [at : LoopTypes, ids : SUBSET StreamIds]
  BY DEF OpenChecks, DialFails, WriteEnds, SessionRequested, Answer, WriteRequested, Loop,
     Idle, LoopTypes
<1>2. stdout' \in 0..PipeSize
  <2>1. stdout \in 0..PipeSize
    BY DEF DInv, Typed
  <2>2. CASE Answer
    BY <2>1, <2>2, Numbers DEF Answer
  <2>3. CASE ~Answer
    BY <2>1, <2>3 DEF OpenChecks, DialFails, WriteEnds, SessionRequested, WriteRequested
  <2> QED BY <2>2, <2>3
<1> QED BY <1>1, <1>2, LoopMoves

\* ClientReads changes only the pipe.
LEMMA ClientReadsKeeps ==
  ASSUME DInv, ClientReads
  PROVE  DInv'
<1>1. Typed'
  BY Numbers DEF DInv, Typed, ClientReads, Opens
<1>2. LoopOK'
  BY DEF DInv, ClientReads, LoopOK, HasRoom
<1>3. ASSUME NEW id \in StreamIds PROVE Kept(id)' /\ Told(id)' /\ Owned(id)'
  BY <1>3, SameKeeps DEF Same, ClientReads
<1> QED BY <1>1, <1>2, <1>3 DEF DInv

\* proxy.open takes the number that was next, for a stream that had nothing.
LEMMA DialedKeeps ==
  ASSUME DInv, Dialed
  PROVE  DInv'
<1>1. nextStreamID \in StreamIds /\ nextStreamID \notin DOMAIN streams
  BY Numbers DEF DInv, Typed, LoopOK, Dialed, StreamIds, Opens
<1>2. Typed'
  <2>1. NewConn \in Conn
    BY Numbers DEF Conn, NewConn
  <2>2. conns' \in [StreamIds -> Conn]
    BY <2>1 DEF DInv, Typed, Dialed
  <2>3. nextStreamID' \in 1..(MaxOpens + 1) /\ nextStreamID' = nextStreamID + 1
    BY <1>1, Numbers DEF Dialed, StreamIds
  <2>4. DOMAIN streams' \subseteq Opens'
    BY <1>1, <2>3, Numbers DEF DInv, Typed, Dialed, Opens, StreamIds
  <2>5. streams' \in [DOMAIN streams' -> BOOLEAN]
    BY DEF DInv, Typed, Dialed
  <2>6. loop' \in [at : LoopTypes, ids : SUBSET StreamIds]
    BY DEF Dialed, Loop, LoopTypes
  <2> QED BY <2>2, <2>3, <2>4, <2>5, <2>6 DEF DInv, Typed, Dialed
<1>3. LoopOK'
  BY DEF Dialed, LoopOK, Loop
<1>4. ASSUME NEW id \in StreamIds PROVE Kept(id)' /\ Told(id)' /\ Owned(id)'
  <2>1. Kept(id) /\ Told(id) /\ Owned(id)
    BY DEF DInv
  <2>2. CASE id = nextStreamID
    <3>1. conns[id] = NoConn /\ pump[id].at = "none" /\ told[id] = Untold
      BY <2>1, <2>2, <1>1, Numbers DEF Kept, StreamIds
    <3>2. /\ conns'[id] = NewConn /\ pump' = pump /\ told' = told
          /\ id \in DOMAIN streams' /\ streams'[id] = FALSE /\ nextStreamID' = id + 1
      BY <2>2, <1>1 DEF Dialed, DInv, Typed
    <3>3. id \in Nat
      BY Numbers
    <3>4. Kept(id)' /\ Owned(id)'
      BY <2>1, <3>1, <3>2, <3>3 DEF Kept, Owned, NewConn
    <3>5. Told(id)'
      BY <2>1, <3>1, <3>2 DEF Told, Kept, NewConn, NoConn, Untold
    <3> QED BY <3>4, <3>5
  <2>3. CASE id # nextStreamID
    <3>1. Same(id) /\ loop.at = "dialing" /\ nextStreamID' = nextStreamID + 1
      BY <2>3, <1>1 DEF Dialed, Same, DInv, Typed
    <3>2. id >= nextStreamID' => id >= nextStreamID
      BY <3>1, <1>1, Numbers
    <3>3. Kept(id)'
      BY <2>1, <3>1, <3>2 DEF Kept, Same
    <3>4. Told(id)' /\ Owned(id)'
      BY <2>1, <3>1 DEF Told, Owned, Same
    <3> QED BY <3>3, <3>4
  <2> QED BY <2>2, <2>3
<1> QED BY <1>2, <1>3, <1>4 DEF DInv

-----------------------------------------------------------------------------
\* Closing the connections of some ids.
LEMMA ClosedConns ==
  ASSUME DInv, NEW S \in SUBSET StreamIds
  PROVE  /\ Closed(S) \in [StreamIds -> Conn]
         /\ \A id \in StreamIds :
              /\ id \in S => /\ ~Closed(S)[id].open
                            /\ Closed(S)[id].sent = conns[id].sent
                            /\ Closed(S)[id].read = conns[id].read
                            /\ Closed(S)[id].end = conns[id].end
              /\ id \notin S => Closed(S)[id] = conns[id]
  BY DEF Closed, DInv, Typed, Conn

\* A stream out of the table whose connection is closed stays as it should be.
LEMMA ClosedKeeps ==
  ASSUME DInv, NEW id \in StreamIds, id \notin DOMAIN streams, UNCHANGED <<nextStreamID, streams, told>>,
         conns' \in [StreamIds -> Conn], ~conns'[id].open,
         conns'[id].sent = conns[id].sent, conns'[id].read = conns[id].read,
         conns'[id].end = conns[id].end, conns[id].open \/ id < nextStreamID,
         \/ pump'[id] = pump[id]
         \/ pump'[id] = [pump[id] EXCEPT !.at = "done"] /\ pump[id].at = "closing"
  PROVE  Kept(id)' /\ Told(id)' /\ Owned(id)'
<1>1. Kept(id) /\ Told(id) /\ pump[id] \in PumpState
  BY DEF DInv, Typed
<1>2. id < nextStreamID /\ id \in Nat /\ nextStreamID \in Nat
  BY <1>1, Numbers DEF Kept, NoConn, NewConn, DInv, Typed
<1>3. /\ pump'[id].event = pump[id].event
      /\ pump'[id].at = pump[id].at \/ (pump'[id].at = "done" /\ pump[id].at = "closing")
  BY <1>1 DEF PumpState
<1>4. Kept(id)'
  BY <1>1, <1>2, <1>3 DEF Kept
<1>5. Told(id)'
  BY <1>1, <1>3 DEF Told
<1> QED BY <1>4, <1>5 DEF Owned

\* Exits and CloseConn close what the loop had taken out of the table.
LEMMA LoopCloses ==
  ASSUME DInv, CloseConn \/ Exits
  PROVE  DInv'
<1>1. /\ conns' = Closed(loop.ids) /\ UNCHANGED <<nextStreamID, streams, pump, stdout, told>>
      /\ loop.at \in {"closing", "stopping"} /\ loop'.at \in {"answering", "stopped"}
      /\ loop' \in [at : LoopTypes, ids : SUBSET StreamIds]
  BY DEF CloseConn, Exits, Loop, LoopTypes
<1>2. loop.ids \subseteq StreamIds /\ loop.ids \cap DOMAIN streams = {}
  BY <1>1 DEF DInv, Typed, LoopOK
<1>3. Typed'
  BY <1>1, <1>2, ClosedConns DEF DInv, Typed, Opens
<1>4. LoopOK'
  BY <1>1 DEF LoopOK
<1>5. ASSUME NEW id \in StreamIds PROVE Kept(id)' /\ Told(id)' /\ Owned(id)'
  <2>1. Kept(id) /\ Told(id) /\ Owned(id)
    BY DEF DInv
  <2>2. CASE id \in loop.ids /\ id < nextStreamID
    BY <1>1, <1>2, <1>3, <2>2, ClosedConns, ClosedKeeps DEF Typed
  <2>3. CASE id \in loop.ids /\ ~(id < nextStreamID)
    <3>1. conns[id] = NoConn /\ id >= nextStreamID
      BY <2>1, <2>3, Numbers DEF Kept, DInv, Typed
    <3>2. conns'[id] = conns[id]
      BY <3>1, <1>1, <2>3 DEF Closed, NoConn, NewConn
    <3>3. Kept(id)' /\ Told(id)' /\ ~conns'[id].open
      BY <3>1, <3>2, <1>1, <2>1 DEF Kept, Told, NoConn, NewConn
    <3> QED BY <3>3 DEF Owned
  <2>4. CASE id \notin loop.ids
    <3>1. Same(id)
      BY <1>1, <1>2, <2>4, ClosedConns DEF Same
    <3> QED BY <2>1, <3>1, <1>1, <2>4 DEF Same, Kept, Told, Owned
  <2> QED BY <2>2, <2>3, <2>4
<1> QED BY <1>3, <1>4, <1>5 DEF DInv

\* dropStream closes the connection it took out of the table.
LEMMA PumpClosesKeeps ==
  ASSUME DInv, NEW i \in StreamIds, PumpCloses(i)
  PROVE  DInv'
<1>1. /\ conns' = Closed({i}) /\ UNCHANGED <<loop, nextStreamID, streams, stdout, told>>
      /\ pump[i].at = "closing" /\ pump' = [pump EXCEPT ![i].at = "done"]
      /\ pump \in [StreamIds -> PumpState] /\ Kept(i)
  BY DEF PumpCloses, DInv, Typed
<1>2. pump' \in [StreamIds -> PumpState]
  BY <1>1 DEF PumpState, PumpTypes
<1>3. Typed'
  BY <1>1, <1>2, ClosedConns DEF DInv, Typed, Opens
<1>4. LoopOK'
  BY <1>1 DEF LoopOK, HasRoom, DInv
<1>5. ASSUME NEW id \in StreamIds PROVE Kept(id)' /\ Told(id)' /\ Owned(id)'
  <2>1. CASE id = i
    <3>1. i \notin DOMAIN streams /\ i < nextStreamID
      BY <1>1, Numbers DEF Kept, DInv, Typed
    <3>2. pump'[i] = [pump[i] EXCEPT !.at = "done"]
      BY <1>1
    <3>3. /\ conns' \in [StreamIds -> Conn] /\ ~conns'[i].open
          /\ conns'[i].sent = conns[i].sent /\ conns'[i].read = conns[i].read
          /\ conns'[i].end = conns[i].end
      BY <1>1, ClosedConns, {i} \in SUBSET StreamIds, i \in {i}
    <3>4. Kept(i)' /\ Told(i)' /\ Owned(i)'
      BY <3>1, <3>2, <3>3, <1>1, ClosedKeeps
    <3> QED BY <2>1, <3>4
  <2>2. CASE id # i
    <3>1. Same(id)
      BY <1>1, <2>2, ClosedConns DEF Same
    <3> QED BY <3>1, <1>1, SameKeeps
  <2> QED BY <2>1, <2>2
<1> QED BY <1>3, <1>4, <1>5 DEF DInv

-----------------------------------------------------------------------------
\* A step of one stream: the others need not be looked at.
LEMMA OneStream ==
  ASSUME DInv, NEW i \in StreamIds, Typed', LoopOK', nextStreamID' = nextStreamID,
         loop' = loop \/ loop.at \notin {"closing", "stopping"},
         Kept(i)' /\ Told(i)' /\ Owned(i)',
         \A id \in StreamIds \ {i} : Same(id)
  PROVE  DInv'
<1>1. ASSUME NEW id \in StreamIds PROVE Kept(id)' /\ Told(id)' /\ Owned(id)'
  <2>1. CASE id = i
    BY <2>1
  <2>2. CASE id # i
    BY <2>2, SameKeeps
  <2> QED BY <2>1, <2>2
<1> QED BY <1>1 DEF DInv

\* What is known of one stream.
LEMMA OfOne ==
  ASSUME DInv, NEW i \in StreamIds
  PROVE  /\ Kept(i) /\ Told(i) /\ Owned(i)
         /\ conns[i] \in Conn /\ pump[i] \in PumpState
         /\ told[i] \in [got : 0..MaxData, fin : Ends, late : BOOLEAN]
         /\ i \in Nat /\ nextStreamID \in Nat
         /\ conns[i].open \/ pump[i].at # "none" => i < nextStreamID
  BY Numbers DEF DInv, Typed, Kept, NoConn, NewConn

\* streamPump reads a chunk.
LEMMA PumpReadsKeeps ==
  ASSUME DInv, NEW i \in StreamIds, PumpReads(i)
  PROVE  DInv'
<1>1. /\ UNCHANGED <<loop, nextStreamID, streams, stdout, told>>
      /\ conns' = [conns EXCEPT ![i].read = @ + 1]
      /\ pump' = [pump EXCEPT ![i] = [at |-> "writing", event |-> "data"]]
      /\ pump[i].at = "reading" /\ conns[i].open /\ conns[i].read < conns[i].sent
  BY DEF PumpReads, Unread
<1>2. conns \in [StreamIds -> Conn] /\ pump \in [StreamIds -> PumpState]
  BY DEF DInv, Typed
<1>3. conns[i].read + 1 \in 0..MaxData /\ conns[i].read + 1 <= conns[i].sent
  BY <1>1, OfOne, Numbers DEF Conn
<1>4. /\ conns'[i] = [conns[i] EXCEPT !.read = conns[i].read + 1]
      /\ pump'[i] = [at |-> "writing", event |-> "data"]
  BY <1>1, <1>2
<1>5. conns' \in [StreamIds -> Conn]
  BY <1>1, <1>2, <1>3 DEF Conn
<1>6. pump' \in [StreamIds -> PumpState]
  BY <1>1, <1>2 DEF PumpState, PumpTypes
<1>7. Typed'
  BY <1>1, <1>5, <1>6 DEF DInv, Typed, Opens
<1>8. LoopOK'
  BY <1>1 DEF DInv, LoopOK, HasRoom
<1>9. /\ conns'[i].open = conns[i].open /\ conns'[i].sent = conns[i].sent
      /\ conns'[i].end = conns[i].end /\ conns'[i].read = conns[i].read + 1
  BY <1>4, OfOne DEF Conn
<1>10. Kept(i)' /\ Owned(i)'
  BY <1>1, <1>4, <1>9, OfOne DEF Kept, Owned
<1>11. Told(i)'
  <2>1. told[i].got \in Nat /\ conns[i].read \in Nat /\ conns[i].sent \in Nat
    BY OfOne, Numbers DEF Conn
  <2>2. Kept(i) /\ Told(i)
    BY OfOne
  <2>3. pump[i].event # "data"
    BY <2>2, <1>1 DEF Kept
  <2>4. conns[i].read = told[i].got /\ told[i].fin = "none"
    BY <2>1, <2>2, <2>3, <1>1 DEF Told
  <2>5. ~told[i].late
    BY <2>2, <1>1 DEF Told
  <2>6. told'[i] = told[i] /\ pump'[i].event = "data" /\ pump'[i].at = "writing"
    BY <1>1, <1>4
  <2>7. conns'[i].read = told'[i].got + 1 /\ conns'[i].read <= conns'[i].sent
    BY <2>1, <2>4, <2>6, <1>3, <1>9
  <2> QED BY <2>4, <2>5, <2>6, <2>7 DEF Told
<1>12. \A id \in StreamIds \ {i} : Same(id)
  BY <1>1, <1>2 DEF Same
<1> QED BY <1>1, <1>7, <1>8, <1>10, <1>11, <1>12, OneStream

\* streamPump meets the end, or finds the connection closed.
LEMMA PumpEndsKeeps ==
  ASSUME DInv, NEW i \in StreamIds, PumpEnds(i)
  PROVE  DInv'
<1>1. PICK e \in ReadEnd(i) :
         pump' = [pump EXCEPT ![i] =
                     [at |-> IF e = "none" THEN "dropping" ELSE "writing", event |-> e]]
  BY DEF PumpEnds
<1>2. /\ UNCHANGED <<loop, nextStreamID, streams, conns, stdout, told>>
      /\ pump[i].at = "reading"
  BY DEF PumpEnds
<1>3. /\ e \in {"none", "eof", "error"} /\ (e = "none" <=> ~conns[i].open)
      /\ e = "eof" => conns[i].end = "eof" /\ ~(conns[i].read < conns[i].sent)
  BY DEF ReadEnd, Unread
<1>4. pump'[i] = [at |-> IF e = "none" THEN "dropping" ELSE "writing", event |-> e]
  BY <1>1 DEF DInv, Typed
<1>5. pump' \in [StreamIds -> PumpState]
  BY <1>1, <1>3 DEF DInv, Typed, PumpState, PumpTypes
<1>6. Typed'
  BY <1>2, <1>5 DEF DInv, Typed, Opens
<1>7. LoopOK'
  BY <1>2 DEF DInv, LoopOK, HasRoom
<1>8. Kept(i)' /\ Owned(i)'
  BY <1>2, <1>3, <1>4, OfOne DEF Kept, Owned
<1>9. Told(i)'
  <2>1. conns[i].read \in Nat /\ conns[i].sent \in Nat
    BY OfOne, Numbers DEF Conn
  <2>2. Kept(i) /\ Told(i)
    BY OfOne
  <2>3. e = "eof" => conns[i].read = conns[i].sent
    <3>1. conns[i].read <= conns[i].sent
      BY <2>2 DEF Told
    <3> QED BY <1>3, <2>1, <3>1
  <2>4. pump[i].event = "none" /\ told[i].fin = "none" /\ (told[i].late => ~conns[i].open)
    BY <2>2, <1>2 DEF Kept, Told
  <2>5. conns[i].read = told[i].got + 0
    BY <2>2, <2>4 DEF Told
  <2>6. told'[i] = told[i] /\ conns'[i] = conns[i] /\ pump'[i].event = e
    BY <1>2, <1>4
  <2> QED BY <2>2, <2>3, <2>4, <2>5, <2>6, <1>3, <1>4 DEF Told
<1>10. \A id \in StreamIds \ {i} : Same(id)
  BY <1>1, <1>2 DEF Same, DInv, Typed
<1> QED BY <1>2, <1>6, <1>7, <1>8, <1>9, <1>10, OneStream

\* writeEvent: what the pump held is told.
LEMMA PumpWritesKeeps ==
  ASSUME DInv, NEW i \in StreamIds, PumpWrites(i)
  PROVE  DInv'
<1> DEFINE e == pump[i].event
           l == ~conns[i].open
<1>1. /\ UNCHANGED <<loop, nextStreamID, streams, conns>>
      /\ pump[i].at = "writing" /\ stdout < PipeSize /\ stdout' = stdout + 1
      /\ pump' = [pump EXCEPT ![i] = [at |-> AfterEvent(e), event |-> "none"]]
      /\ told' = [told EXCEPT ![i] =
                     IF e = "data"
                     THEN [got |-> @.got + 1, fin |-> @.fin, late |-> l]
                     ELSE [got |-> @.got, fin |-> e, late |-> l]]
  BY DEF PumpWrites
<1>2. Kept(i) /\ Told(i)
  BY OfOne
<1>3. /\ e \in {"data", "eof", "error"} /\ told[i].fin = "none"
      /\ conns[i].read <= conns[i].sent
      /\ conns[i].read = told[i].got + IF e = "data" THEN 1 ELSE 0
      /\ e = "eof" => conns[i].end = "eof" /\ conns[i].read = conns[i].sent
  BY <1>1, <1>2, OfOne DEF Kept, Told, PumpState
<1>4. /\ told[i].got \in 0..MaxData /\ conns[i].read \in 0..MaxData /\ MaxData \in Nat
      /\ conns[i].open \in BOOLEAN
  BY OfOne, Numbers DEF Conn
<1>5. /\ pump'[i].at = AfterEvent(e) /\ pump'[i].event = "none"
      /\ pump'[i].at \in {"reading", "dropping"} /\ (pump'[i].at = "reading" <=> e = "data")
  BY <1>1, <1>3 DEF DInv, Typed, AfterEvent
<1>6. told'[i] = IF e = "data"
                 THEN [got |-> told[i].got + 1, fin |-> "none", late |-> l]
                 ELSE [got |-> told[i].got, fin |-> e, late |-> l]
  BY <1>1, <1>3 DEF DInv, Typed
<1>7. Typed'
  <2>1. pump' \in [StreamIds -> PumpState]
    BY <1>1, <1>5 DEF DInv, Typed, PumpState, PumpTypes
  <2>2. told'[i] \in [got : 0..MaxData, fin : Ends, late : BOOLEAN]
    <3>1. CASE e = "data"
      <4>1. told[i].got + 1 \in 0..MaxData
        BY <1>3, <1>4, <3>1
      <4> HIDE DEF e
      <4> QED BY <4>1, <1>6, <3>1, <1>4 DEF Ends
    <3>2. CASE e # "data"
      <4> HIDE DEF e
      <4> QED BY <1>3, <1>4, <1>6, <3>2 DEF Ends
    <3> QED BY <3>1, <3>2
  <2>3. told' \in [StreamIds -> [got : 0..MaxData, fin : Ends, late : BOOLEAN]]
    <3>1. told \in [StreamIds -> [got : 0..MaxData, fin : Ends, late : BOOLEAN]]
      BY DEF DInv, Typed
    <3>2. told' = [told EXCEPT ![i] = told'[i]]
      BY <1>1, <3>1
    <3> QED BY <2>2, <3>1, <3>2
  <2>4. stdout' \in 0..PipeSize
    BY <1>1, Numbers DEF DInv, Typed
  <2> QED BY <1>1, <2>1, <2>3, <2>4 DEF DInv, Typed, Opens
<1>8. LoopOK'
  BY <1>1 DEF DInv, LoopOK, HasRoom
<1>9. Kept(i)' /\ Owned(i)'
  BY <1>1, <1>2, <1>5, OfOne DEF Kept, Owned
<1>10. Told(i)'
  <2>1. /\ told'[i].got = told[i].got + IF e = "data" THEN 1 ELSE 0
        /\ told'[i].fin = IF e = "data" THEN "none" ELSE e
        /\ told'[i].late => ~conns[i].open
    <3> HIDE DEF e
    <3>1. /\ told'[i].got = IF e = "data" THEN told[i].got + 1 ELSE told[i].got
          /\ told'[i].fin = IF e = "data" THEN "none" ELSE e
      BY <1>6
    <3>2. told'[i].late = l
      <4> HIDE DEF l
      <4> QED BY <1>6
    <3>3. told[i].got + 0 = told[i].got
      BY <1>4
    <3> QED BY <3>1, <3>2, <3>3
  <2>2. conns'[i].read = told'[i].got + 0
    BY <2>1, <1>1, <1>3, <1>4
  <2>3. conns'[i] = conns[i]
    BY <1>1
  <2> HIDE DEF e
  <2> QED BY <2>1, <2>2, <2>3, <1>3, <1>5 DEF Told
<1>11. \A id \in StreamIds \ {i} : Same(id)
  BY <1>1 DEF Same, DInv, Typed
<1> QED BY <1>1, <1>7, <1>8, <1>9, <1>10, <1>11, OneStream

\* Taking ids out of the table.
LEMMA UnlistedTable ==
  ASSUME DInv, NEW S, streams' = Unlisted(S), nextStreamID' = nextStreamID
  PROVE  /\ DOMAIN streams' = DOMAIN streams \ S
         /\ \A id \in DOMAIN streams' : streams'[id] = streams[id]
         /\ DOMAIN streams' \subseteq Opens' /\ streams' \in [DOMAIN streams' -> BOOLEAN]
         /\ HasRoom => HasRoom'
<1>1. /\ DOMAIN streams' = DOMAIN streams \ S
      /\ \A id \in DOMAIN streams' : streams'[id] = streams[id]
  BY DEF Unlisted
<1>2. DOMAIN streams' \subseteq Opens' /\ streams' \in [DOMAIN streams' -> BOOLEAN]
  BY <1>1 DEF DInv, Typed, Opens, Unlisted
<1>3. Cardinality(DOMAIN streams') <= Cardinality(DOMAIN streams)
  BY <1>1, TableFinite, FS_Subset DEF DInv
<1>4. Cardinality(DOMAIN streams') \in Nat
  BY <1>1, TableFinite, FS_Subset, FS_CardinalityType DEF DInv
<1>5. HasRoom => HasRoom'
  BY <1>3, <1>4, TableFinite, Numbers DEF HasRoom, DInv
<1> QED BY <1>1, <1>2, <1>5

\* dropStream takes the stream out of the table, if the client has not.
LEMMA PumpDropsKeeps ==
  ASSUME DInv, NEW i \in StreamIds, PumpDrops(i)
  PROVE  DInv'
<1>1. /\ UNCHANGED <<loop, nextStreamID, conns, stdout, told>>
      /\ streams' = Unlisted({i}) /\ pump[i].at = "dropping"
      /\ pump' = [pump EXCEPT ![i].at = IF i \in DOMAIN streams THEN "closing" ELSE "done"]
  BY DEF PumpDrops
<1>2. /\ DOMAIN streams' = DOMAIN streams \ {i} /\ (HasRoom => HasRoom')
      /\ \A id \in DOMAIN streams' : streams'[id] = streams[id]
  BY <1>1, UnlistedTable
<1>3. pump'[i] = [pump[i] EXCEPT !.at = IF i \in DOMAIN streams THEN "closing" ELSE "done"]
  BY <1>1 DEF DInv, Typed
<1>4. pump' \in [StreamIds -> PumpState]
  BY <1>1 DEF DInv, Typed, PumpState, PumpTypes
<1>5. Typed'
  BY <1>1, <1>4, UnlistedTable DEF DInv, Typed
<1>6. LoopOK'
  BY <1>1, <1>2 DEF DInv, LoopOK
<1>7. /\ pump'[i].event = pump[i].event
      /\ pump'[i].at = IF i \in DOMAIN streams THEN "closing" ELSE "done"
  BY <1>3, OfOne DEF PumpState
<1>8. Kept(i)' /\ Owned(i)'
  BY <1>1, <1>2, <1>7, OfOne DEF Kept, Owned
<1>9. Told(i)'
  BY <1>1, <1>7, OfOne DEF Told
<1>10. \A id \in StreamIds \ {i} : Same(id)
  <2>1. TAKE id \in StreamIds \ {i}
  <2>2. pump'[id] = pump[id]
    BY <1>1 DEF DInv, Typed
  <2> QED BY <1>1, <1>2, <2>2 DEF Same
<1> QED BY <1>1, <1>5, <1>6, <1>8, <1>9, <1>10, OneStream

\* The peer sends a chunk, or ends the stream.
LEMMA PeerKeeps ==
  ASSUME DInv, NEW i \in StreamIds, PeerSends(i) \/ PeerEnds(i)
  PROVE  DInv'
<1>1. /\ UNCHANGED <<loop, nextStreamID, streams, pump, stdout, told>>
      /\ conns[i].open /\ conns[i].end = "no"
      /\ conns' = [conns EXCEPT ![i] = conns'[i]]
      /\ conns'[i] \in Conn /\ conns'[i].open /\ conns'[i].read = conns[i].read
      /\ conns'[i].sent \in {conns[i].sent, conns[i].sent + 1}
  <2>1. CASE PeerSends(i)
    BY <2>1, OfOne, Numbers DEF PeerSends, Conn, DInv, Typed
  <2>2. CASE PeerEnds(i)
    BY <2>2, OfOne, Numbers DEF PeerEnds, Conn, DInv, Typed
  <2> QED BY <2>1, <2>2
<1>2. Typed'
  BY <1>1 DEF DInv, Typed, Opens
<1>3. LoopOK'
  BY <1>1 DEF DInv, LoopOK, HasRoom
<1>4. Kept(i)' /\ Owned(i)'
  BY <1>1, OfOne DEF Kept, Owned
<1>5. Told(i)'
  <2>1. conns[i].read <= conns[i].sent /\ conns[i].read \in Nat /\ conns[i].sent \in Nat
    BY OfOne, Numbers DEF Told, Conn
  <2>2. conns[i].read <= conns'[i].sent
    BY <2>1, <1>1
  <2> QED BY <2>2, <1>1, OfOne DEF Told
<1>6. \A id \in StreamIds \ {i} : Same(id)
  BY <1>1 DEF Same, DInv, Typed
<1> QED BY <1>1, <1>2, <1>3, <1>4, <1>5, <1>6, OneStream

\* proxy.close takes the stream out of the table and remembers to close it.
LEMMA CloseRequestedKeeps ==
  ASSUME DInv, NEW i \in StreamIds, CloseRequested(i)
  PROVE  DInv'
<1>1. /\ UNCHANGED <<nextStreamID, conns, pump, stdout, told>>
      /\ streams' = Unlisted({i}) /\ loop.at = "idle"
      /\ loop' = IF i \in DOMAIN streams THEN [at |-> "closing", ids |-> {i}]
                                         ELSE [at |-> "answering", ids |-> {}]
  BY DEF CloseRequested, Idle, Loop
<1>2. /\ DOMAIN streams' = DOMAIN streams \ {i}
      /\ \A id \in DOMAIN streams' : streams'[id] = streams[id]
  BY <1>1, UnlistedTable
<1>3. loop' \in [at : LoopTypes, ids : SUBSET StreamIds]
  BY <1>1 DEF LoopTypes
<1>4. Typed'
  BY <1>1, <1>3, UnlistedTable DEF DInv, Typed
<1>5. LoopOK'
  BY <1>1, <1>2 DEF LoopOK
<1>6. Kept(i)' /\ Told(i)' /\ Owned(i)'
  BY <1>1, <1>2, OfOne DEF Kept, Told, Owned
<1>7. \A id \in StreamIds \ {i} : Same(id)
  BY <1>1, <1>2 DEF Same
<1> QED BY <1>1, <1>4, <1>5, <1>6, <1>7, OneStream

\* proxy.stream.subscribe: the stream had no pump before, since one that ended
\* took it out of the table.
LEMMA SubscribeKeeps ==
  ASSUME DInv, NEW i \in StreamIds, SubscribeRequested(i)
  PROVE  DInv'
<1>1. /\ UNCHANGED <<nextStreamID, conns, stdout, told>>
      /\ loop.at = "idle" /\ loop' = [at |-> "answering", ids |-> {}]
  BY DEF SubscribeRequested, Idle, Loop
<1>2. LoopOK' /\ loop' \in [at : LoopTypes, ids : SUBSET StreamIds]
  BY <1>1 DEF LoopOK, LoopTypes
<1>3. CASE Starts(i)
  <2>1. /\ i \in DOMAIN streams /\ ~streams[i] /\ DOMAIN streams' = DOMAIN streams
        /\ streams' = [streams EXCEPT ![i] = TRUE]
        /\ pump' = [pump EXCEPT ![i] = [at |-> "reading", event |-> "none"]]
    BY <1>3 DEF SubscribeRequested, Starts
  <2>2. /\ streams'[i] = TRUE /\ pump'[i] = [at |-> "reading", event |-> "none"]
    BY <2>1 DEF DInv, Typed
  <2>3. streams' \in [DOMAIN streams' -> BOOLEAN] /\ pump' \in [StreamIds -> PumpState]
    BY <2>1 DEF DInv, Typed, PumpState, PumpTypes
  <2>4. Typed'
    BY <1>1, <1>2, <2>1, <2>3 DEF DInv, Typed, Opens
  <2>5. Kept(i) /\ Told(i)
    BY OfOne
  <2>6. pump[i].at = "none" /\ conns[i].open
    BY <2>1, <2>5, OfOne DEF Kept, PumpState, PumpTypes
  <2>7. Kept(i)' /\ Owned(i)'
    BY <1>1, <2>1, <2>2, <2>6, OfOne DEF Kept, Owned
  <2>8. Told(i)'
    <3>1. pump[i].event = "none" /\ told[i].fin = "none" /\ ~told[i].late
      BY <2>5, <2>6 DEF Kept, Told
    <3> QED BY <3>1, <2>5, <2>2, <1>1 DEF Told
  <2>9. \A id \in StreamIds \ {i} : Same(id)
    BY <1>1, <2>1 DEF Same, DInv, Typed
  <2> QED BY <1>1, <1>2, <2>4, <2>7, <2>8, <2>9, OneStream
<1>4. CASE ~Starts(i)
  <2>1. UNCHANGED <<streams, pump>>
    BY <1>4 DEF SubscribeRequested
  <2> QED BY <1>1, <1>2, <2>1, LoopMoves DEF DInv, Typed
<1> QED BY <1>3, <1>4

\* closeAll: the loop empties the table and remembers what to close.
LEMMA StdinEndsKeeps ==
  ASSUME DInv, StdinEnds
  PROVE  DInv'
<1>1. /\ UNCHANGED <<nextStreamID, conns, pump, stdout, told>>
      /\ streams' = Unlisted(DOMAIN streams) /\ loop.at \in {"idle", "answering"}
      /\ loop' = [at |-> "stopping", ids |-> DOMAIN streams]
  BY DEF StdinEnds, Loop
<1>2. DOMAIN streams' = {}
  BY <1>1, UnlistedTable
<1>3. loop' \in [at : LoopTypes, ids : SUBSET StreamIds]
  BY <1>1, OpensAreIds DEF LoopTypes, DInv
<1>4. Typed'
  BY <1>1, <1>3, UnlistedTable DEF DInv, Typed
<1>5. LoopOK'
  BY <1>1, <1>2 DEF LoopOK
<1>6. ASSUME NEW id \in StreamIds PROVE Kept(id)' /\ Told(id)' /\ Owned(id)'
  BY <1>1, <1>2, OfOne DEF Kept, Told, Owned
<1> QED BY <1>4, <1>5, <1>6 DEF DInv

\* Every step keeps the invariant.
LEMMA StepKeeps == DInv /\ [DaemonNext]_allVars => DInv'
<1> SUFFICES ASSUME DInv, [DaemonNext]_allVars PROVE DInv'
  OBVIOUS
<1>1. CASE OpenChecks \/ DialFails \/ WriteEnds \/ SessionRequested \/ Answer
  BY <1>1, SimpleKeep
<1>2. CASE Dialed
  BY <1>2, DialedKeeps
<1>3. CASE CloseConn \/ Exits
  BY <1>3, LoopCloses
<1>4. CASE StdinEnds
  BY <1>4, StdinEndsKeeps
<1>5. CASE ClientReads
  BY <1>5, ClientReadsKeeps
<1>6. ASSUME NEW id \in StreamIds, WriteRequested(id) PROVE DInv'
  BY <1>6, SimpleKeep
<1>7. ASSUME NEW id \in StreamIds, CloseRequested(id) \/ SubscribeRequested(id) PROVE DInv'
  BY <1>7, CloseRequestedKeeps, SubscribeKeeps
<1>8. ASSUME NEW id \in StreamIds, PeerSends(id) \/ PeerEnds(id) PROVE DInv'
  BY <1>8, PeerKeeps
<1>9. ASSUME NEW id \in StreamIds, Pump(id) PROVE DInv'
  BY <1>9, PumpReadsKeeps, PumpEndsKeeps, PumpWritesKeeps, PumpDropsKeeps, PumpClosesKeeps
     DEF Pump
<1>10. CASE UNCHANGED allVars
  <2>1. /\ UNCHANGED <<loop, nextStreamID, streams, conns, pump, stdout, told>>
    BY <1>10 DEF allVars, daemonVars
  <2>2. Typed' /\ LoopOK'
    BY <2>1 DEF DInv, Typed, LoopOK, HasRoom, Opens
  <2>3. ASSUME NEW id \in StreamIds PROVE Kept(id)' /\ Told(id)' /\ Owned(id)'
    BY <2>1, <2>3, SameKeeps DEF Same
  <2> QED BY <2>2, <2>3 DEF DInv
<1> QED BY <1>1, <1>2, <1>3, <1>4, <1>5, <1>6, <1>7, <1>8, <1>9, <1>10
        DEF DaemonNext, LoopStep

\* The invariant of the daemon's streams holds of every behaviour.
THEOREM DaemonInductive == DaemonSpec => []DInv
BY InitDInv, StepKeeps, PTL DEF DaemonSpec

\* The requests for sessions are served by the same loop and by nothing else.
THEOREM RegistryRefines == DaemonSpec => RegistryAsPromised
<1>1. DaemonInit => Init
  BY DEF DaemonInit
<1>2. [DaemonNext]_allVars => [Next]_vars
  BY DEF DaemonNext, LoopStep, OpenChecks, DialFails, Dialed, CloseRequested, CloseConn,
     WriteRequested, WriteEnds, SubscribeRequested, SessionRequested, Answer, StdinEnds, Exits,
     Pump, PumpReads, PumpEnds, PumpWrites, PumpDrops, PumpCloses, PeerSends, PeerEnds,
     ClientReads, Next, vars, allVars, registryVars
<1> QED BY <1>1, <1>2, PTL DEF DaemonSpec, RegistryAsPromised, Spec

\* The streams and the connections are well typed, for any limits.
THEOREM DaemonTypeCorrect == DaemonSpec => []DaemonTypeOK
<1>1. DInv => DaemonTypeOK \/ ~TypeOK
  BY DEF DInv, Typed, Kept, DaemonTypeOK, PumpState, Ends
<1> QED BY <1>1, DaemonInductive, TypeCorrect, RegistryRefines, PTL DEF RegistryAsPromised

\* runStdioServer and streamPump: whoever takes a stream out of the table closes
\* its connection, whatever the others do in between.
THEOREM NoConnLeaks == DaemonSpec => []OpenConnsAreOwned
<1>1. DInv => OpenConnsAreOwned
  BY DEF DInv, Owned, OpenConnsAreOwned
<1> QED BY <1>1, DaemonInductive, PTL

\* subscribe: a stream in the table has a pump when it is subscribed, and only then.
THEOREM SubscribedHavePumps == DaemonSpec => []SubscribedAreRead
<1>1. DInv => SubscribedAreRead
  BY OpensAreIds DEF DInv, Kept, SubscribedAreRead
<1> QED BY <1>1, DaemonInductive, PTL

-----------------------------------------------------------------------------
\* The streams, as StreamService sees them.
L == [id \in StreamIds |-> Life(id)]
Sent == [id \in StreamIds |-> conns[id].sent]

\* What a stream's life says of the table and of its connection.
LEMMA LifeOf ==
  ASSUME DInv, NEW id \in StreamIds
  PROVE  /\ L[id] = Life(id)
         /\ L[id] \in {"unborn", "open", "closing", "over"}
         /\ L[id] = "open" <=> id \in DOMAIN streams
         /\ L[id] = "closing" <=> id \notin DOMAIN streams /\ conns[id].open
         /\ L[id] = "unborn" <=> id >= nextStreamID
<1>1. /\ id \in DOMAIN streams => id < nextStreamID /\ conns[id].open
      /\ conns[id].open => id < nextStreamID
      /\ id \in Nat /\ nextStreamID \in Nat
  BY OfOne DEF Kept, DInv, Typed, Opens
<1>2. id < nextStreamID <=> ~(id >= nextStreamID)
  BY <1>1
<1> QED BY <1>1, <1>2 DEF L, Life

\* Steps that the client cannot see.
LEMMA Stutters ==
  ASSUME UNCHANGED <<nextStreamID, told>>, DOMAIN streams' = DOMAIN streams,
         \A id \in StreamIds :
           conns'[id].open = conns[id].open /\ conns'[id].sent = conns[id].sent
  PROVE  UNCHANGED <<L, Sent, told>>
<1>1. ASSUME NEW id \in StreamIds PROVE Life(id)' = Life(id)
  BY DEF Life
<1>2. L' = L
  BY <1>1 DEF L
<1>3. Sent' = Sent
  BY DEF Sent
<1> QED BY <1>2, <1>3

\* Streams that leave the table.
LEMMA Releases ==
  ASSUME DInv, DInv', NEW S \in SUBSET StreamIds, streams' = Unlisted(S),
         UNCHANGED <<nextStreamID, conns, told>>
  PROVE  (\E R \in SUBSET StreamIds : Service!Release(R)) \/ UNCHANGED <<L, Sent, told>>
<1>1. DOMAIN streams' = DOMAIN streams \ S
  BY UnlistedTable
<1>2. CASE S \cap DOMAIN streams = {}
  <2>1. DOMAIN streams' = DOMAIN streams
    BY <1>1, <1>2
  <2> QED BY <2>1, Stutters
<1>3. CASE S \cap DOMAIN streams # {}
  <2> DEFINE R == S \cap DOMAIN streams
  <2>1. R \in SUBSET StreamIds /\ R # {} /\ \A id \in R : L[id] = "open"
    BY <1>3, LifeOf
  <2>2. Sent' = Sent
    BY DEF Sent
  <2>3. ASSUME NEW id \in StreamIds
        PROVE  Life(id)' = IF id \in R THEN "closing" ELSE L[id]
    <3>1. CASE id \in R
      <4>1. conns[id].open /\ id < nextStreamID /\ id \in Nat /\ nextStreamID \in Nat
        BY <3>1, OfOne DEF Kept, DInv, Typed, Opens
      <4> QED BY <4>1, <3>1, <1>1 DEF Life
    <3>2. CASE id \notin R
      BY <3>2, <1>1 DEF Life, L
    <3> QED BY <3>1, <3>2
  <2>4. L' = [id \in StreamIds |-> IF id \in R THEN "closing" ELSE L[id]]
    BY <2>3 DEF L
  <2>5. Service!Release(R)
    BY <2>1, <2>2, <2>4 DEF Service!Release, L, Sent
  <2> QED BY <2>1, <2>5
<1> QED BY <1>2, <1>3

\* Connections that are closed.
LEMMA Closes ==
  ASSUME DInv, NEW S \in SUBSET StreamIds, S \cap DOMAIN streams = {}, conns' = Closed(S),
         UNCHANGED <<nextStreamID, streams, told>>
  PROVE  (\E R \in SUBSET StreamIds : Service!Close(R)) \/ UNCHANGED <<L, Sent, told>>
<1> DEFINE R == {id \in S : conns[id].open}
<1>1. CASE R = {}
  <2>1. ASSUME NEW id \in StreamIds
        PROVE  conns'[id].open = conns[id].open /\ conns'[id].sent = conns[id].sent
    BY <1>1, ClosedConns, OfOne DEF Conn
  <2> QED BY <2>1, Stutters
<1>2. CASE R # {}
  <2>1. R \in SUBSET StreamIds /\ \A id \in R : L[id] = "closing"
    BY LifeOf
  <2>2. Sent' = Sent
    BY ClosedConns DEF Sent
  <2>3. ASSUME NEW id \in StreamIds
        PROVE  Life(id)' = IF id \in R THEN "over" ELSE L[id]
    <3>1. CASE id \in R
      <4>1. id < nextStreamID /\ id \in Nat /\ nextStreamID \in Nat
        BY <3>1, OfOne
      <4>2. id \notin DOMAIN streams' /\ ~conns'[id].open
        BY <3>1, ClosedConns
      <4> QED BY <4>1, <4>2, <3>1 DEF Life
    <3>2. CASE id \notin R
      <4>1. conns'[id].open <=> conns[id].open
        BY <3>2, ClosedConns
      <4> QED BY <4>1, <3>2 DEF Life, L
    <3> QED BY <3>1, <3>2
  <2>4. L' = [id \in StreamIds |-> IF id \in R THEN "over" ELSE L[id]]
    BY <2>3 DEF L
  <2>5. Service!Close(R)
    BY <1>2, <2>1, <2>2, <2>4 DEF Service!Close, L, Sent
  <2> QED BY <2>1, <2>5
<1> QED BY <1>1, <1>2

\* proxy.open: the limit that was checked before the dial holds after it.
LEMMA Opening ==
  ASSUME DInv, DInv', Dialed
  PROVE  \E i \in StreamIds : Service!Open(i)
<1>1. /\ nextStreamID \in StreamIds /\ nextStreamID \in Nat /\ HasRoom
      /\ nextStreamID' = nextStreamID + 1
      /\ DOMAIN streams' = DOMAIN streams \cup {nextStreamID}
      /\ conns' = [conns EXCEPT ![nextStreamID] = NewConn] /\ told' = told
      /\ DOMAIN streams \subseteq StreamIds /\ conns \in [StreamIds -> Conn]
  BY Numbers, OpensAreIds DEF Dialed, DInv, LoopOK, Typed, StreamIds
<1>2. L[nextStreamID] = "unborn" /\ conns[nextStreamID] = NoConn
  BY <1>1, LifeOf, OfOne DEF Kept
<1>3. {j \in StreamIds : L[j] = "open"} = DOMAIN streams
  BY <1>1, LifeOf
<1>4. Cardinality({j \in StreamIds : L[j] = "open"}) < MaxStreams
  BY <1>1, <1>3 DEF HasRoom
<1>5. ASSUME NEW id \in StreamIds
      PROVE  Life(id)' = IF id = nextStreamID THEN "open" ELSE L[id]
  <2>1. id \in Nat
    BY Numbers
  <2>2. CASE id = nextStreamID
    BY <1>1, <2>1, <2>2 DEF Life
  <2>3. CASE id # nextStreamID
    <3>1. (id >= nextStreamID' <=> id >= nextStreamID) /\ conns'[id] = conns[id]
      BY <1>1, <2>1, <2>3
    <3> QED BY <3>1, <2>3, <1>1 DEF Life, L
  <2> QED BY <2>2, <2>3
<1>6. L' = [L EXCEPT ![nextStreamID] = "open"]
  BY <1>5 DEF L
<1>7. Sent' = Sent
  <2>1. ASSUME NEW id \in StreamIds PROVE conns'[id].sent = conns[id].sent
    BY <1>1, <1>2 DEF NewConn, NoConn
  <2> QED BY <2>1 DEF Sent
<1>8. Service!Open(nextStreamID)
  <2>1. [id \in StreamIds |-> Life(id)][nextStreamID] = "unborn"
    BY <1>2 DEF L
  <2>2. Service!Cardinality({j \in StreamIds : [id \in StreamIds |-> Life(id)][j] = "open"})
          < MaxStreams
    <3>1. Cardinality({j \in StreamIds : [id \in StreamIds |-> Life(id)][j] = "open"})
            < MaxStreams
      BY <1>4, Zenon DEF L
    <3> QED BY <3>1, Zenon DEF Service!Cardinality, Cardinality
  <2>3. [id \in StreamIds |-> Life(id)]' = [[id \in StreamIds |-> Life(id)] EXCEPT ![nextStreamID] = "open"]
    BY <1>6 DEF L
  <2>4. UNCHANGED <<[id \in StreamIds |-> conns[id].sent], told>>
    BY <1>1, <1>7 DEF Sent
  <2> QED BY <2>1, <2>2, <2>3, <2>4, Zenon DEF Service!Open
<1> QED BY <1>1, <1>8

\* A peer sends only on a stream it has not ended.
LEMMA Sends ==
  ASSUME DInv, NEW i \in StreamIds, PeerSends(i)
  PROVE  Service!Send(i)
<1>1. /\ UNCHANGED <<nextStreamID, streams, told>> /\ conns[i].end = "no"
      /\ conns' = [conns EXCEPT ![i].sent = @ + 1] /\ conns \in [StreamIds -> Conn]
  BY DEF PeerSends, DInv, Typed
<1>2. told[i].fin # "eof"
  BY <1>1, OfOne DEF Told
<1>3. ASSUME NEW id \in StreamIds PROVE conns'[id].open = conns[id].open
  BY <1>1 DEF Conn
<1>4. L' = L
  <2>1. ASSUME NEW id \in StreamIds PROVE Life(id)' = Life(id)
    BY <1>1, <1>3 DEF Life
  <2> QED BY <2>1 DEF L
<1>5. Sent' = [Sent EXCEPT ![i] = @ + 1]
  BY <1>1 DEF Sent, Conn
<1> QED BY <1>1, <1>2, <1>4, <1>5 DEF Service!Send, L, Sent

\* What a pump writes is the next chunk, or the end after the last one, and it is
\* the only event after the stream was closed.
LEMMA Tells ==
  ASSUME DInv, NEW i \in StreamIds, PumpWrites(i)
  PROVE  Service!Deliver(i) \/ \E e \in {"eof", "error"} : Service!Finish(i, e)
<1> DEFINE e == pump[i].event
           late == ~conns[i].open
<1>1. /\ UNCHANGED <<nextStreamID, streams, conns>> /\ pump[i].at = "writing"
      /\ told' = [told EXCEPT ![i] =
                     IF e = "data"
                     THEN [got |-> @.got + 1, fin |-> @.fin, late |-> late]
                     ELSE [got |-> @.got, fin |-> e, late |-> late]]
  BY DEF PumpWrites
<1>2. /\ e \in {"data", "eof", "error"} /\ told[i].fin = "none" /\ ~told[i].late
      /\ conns[i].read <= conns[i].sent
      /\ conns[i].read = told[i].got + IF e = "data" THEN 1 ELSE 0
      /\ e = "eof" => conns[i].read = conns[i].sent
  BY <1>1, OfOne DEF Kept, Told, PumpState
<1>3. /\ told[i].got \in Nat /\ conns[i].read \in Nat /\ conns[i].sent \in Nat
      /\ conns[i].open \in BOOLEAN
      /\ told \in [StreamIds -> [got : 0..MaxData, fin : Ends, late : BOOLEAN]]
  BY OfOne, Numbers DEF Conn, DInv, Typed
<1>4. L' = L /\ Sent' = Sent
  BY <1>1, Stutters DEF L, Sent, Life
<1>5. L[i] \in {"open", "closing", "over"} /\ (L[i] = "over" <=> late)
  BY <1>1, <1>3, LifeOf, OfOne DEF Kept
<1>6. Service!MayTell(i)
  BY <1>2, <1>5 DEF Service!MayTell, L
<1>7. late = (L[i] = "over")
  BY <1>5, Zenon
<1>8. Sent[i] = conns[i].sent
  BY DEF Sent
<1>9. CASE e = "data"
  <2>1. told[i].got < Sent[i]
    BY <1>2, <1>3, <1>8, <1>9
  <2>2. told' = [told EXCEPT ![i].got = @ + 1, ![i].late = L[i] = "over"]
    <3>1. told' = [told EXCEPT ![i] = [got |-> @.got + 1, fin |-> @.fin, late |-> late]]
      BY <1>1, <1>9
    <3> HIDE DEF late, e
    <3> QED BY <3>1, <1>3, <1>7
  <2>3. Service!Deliver(i)
    BY <1>4, <1>6, <2>1, <2>2 DEF Service!Deliver, L, Sent
  <2> QED BY <2>3
<1>10. CASE e # "data"
  <2>1. e \in {"eof", "error"}
    BY <1>2, <1>10
  <2>2. e = "eof" => told[i].got = Sent[i]
    BY <1>2, <1>3, <1>8, <1>10
  <2>3. told' = [told EXCEPT ![i].fin = e, ![i].late = L[i] = "over"]
    <3>1. told' = [told EXCEPT ![i] = [got |-> @.got, fin |-> e, late |-> late]]
      BY <1>1, <1>10
    <3> HIDE DEF late, e
    <3> QED BY <3>1, <1>3, <1>7
  <2>4. Service!Finish(i, e)
    BY <1>4, <1>6, <2>2, <2>3 DEF Service!Finish, L, Sent
  <2> QED BY <2>1, <2>4
<1> QED BY <1>9, <1>10

\* Every step is a step of the service, or one that its client cannot see.
LEMMA StepServes ==
  ASSUME DInv, DInv', [DaemonNext]_allVars
  PROVE  Service!Next \/ UNCHANGED <<L, Sent, told>>
<1>1. CASE Dialed
  BY <1>1, Opening DEF Service!Next
<1>2. ASSUME NEW i \in StreamIds, PeerSends(i)
      PROVE  Service!Next \/ UNCHANGED <<L, Sent, told>>
  BY <1>2, Sends DEF Service!Next
<1>3. ASSUME NEW i \in StreamIds, PumpWrites(i)
      PROVE  Service!Next \/ UNCHANGED <<L, Sent, told>>
  BY <1>3, Tells DEF Service!Next
<1>4. ASSUME NEW i \in StreamIds, CloseRequested(i) \/ PumpDrops(i)
      PROVE  Service!Next \/ UNCHANGED <<L, Sent, told>>
  <2>1. {i} \in SUBSET StreamIds /\ streams' = Unlisted({i})
        /\ UNCHANGED <<nextStreamID, conns, told>>
    BY <1>4 DEF CloseRequested, PumpDrops
  <2> QED BY <2>1, Releases DEF Service!Next
<1>5. CASE StdinEnds
  <2>1. DOMAIN streams \in SUBSET StreamIds /\ streams' = Unlisted(DOMAIN streams)
        /\ UNCHANGED <<nextStreamID, conns, told>>
    BY <1>5, OpensAreIds DEF StdinEnds, DInv
  <2> QED BY <2>1, Releases DEF Service!Next
<1>6. CASE CloseConn \/ Exits
  <2>1. loop.ids \in SUBSET StreamIds /\ loop.ids \cap DOMAIN streams = {}
        /\ conns' = Closed(loop.ids) /\ UNCHANGED <<nextStreamID, streams, told>>
    BY <1>6 DEF CloseConn, Exits, DInv, LoopOK, Typed
  <2> QED BY <2>1, Closes DEF Service!Next
<1>7. ASSUME NEW i \in StreamIds, PumpCloses(i)
      PROVE  Service!Next \/ UNCHANGED <<L, Sent, told>>
  <2>1. {i} \in SUBSET StreamIds /\ {i} \cap DOMAIN streams = {}
        /\ conns' = Closed({i}) /\ UNCHANGED <<nextStreamID, streams, told>>
    BY <1>7, OfOne DEF PumpCloses, Kept
  <2> QED BY <2>1, Closes DEF Service!Next
<1>8. ASSUME NEW i \in StreamIds, PumpReads(i) \/ PeerEnds(i)
      PROVE  UNCHANGED <<L, Sent, told>>
  <2>1. UNCHANGED <<nextStreamID, streams, told>>
    BY <1>8 DEF PumpReads, PeerEnds
  <2>2. ASSUME NEW id \in StreamIds
        PROVE  conns'[id].open = conns[id].open /\ conns'[id].sent = conns[id].sent
    <3>1. conns \in [StreamIds -> Conn]
      BY DEF DInv, Typed
    <3>2. CASE PumpReads(i)
      BY <3>1, <3>2 DEF PumpReads, Conn
    <3>3. CASE PeerEnds(i)
      <4>1. PICK e \in {"eof", "reset"} : conns' = [conns EXCEPT ![i].end = e]
        BY <3>3 DEF PeerEnds
      <4> QED BY <3>1, <4>1 DEF Conn
    <3> QED BY <1>8, <3>2, <3>3
  <2> QED BY <2>1, <2>2, Stutters
<1>9. ASSUME UNCHANGED <<nextStreamID, conns, told>>, DOMAIN streams' = DOMAIN streams
      PROVE  UNCHANGED <<L, Sent, told>>
  BY <1>9, Stutters
<1>10. CASE OpenChecks \/ DialFails \/ WriteEnds \/ SessionRequested \/ Answer \/ ClientReads
  BY <1>9, <1>10 DEF OpenChecks, DialFails, WriteEnds, SessionRequested, Answer, ClientReads
<1>11. ASSUME NEW i \in StreamIds, WriteRequested(i) \/ SubscribeRequested(i) \/ PumpEnds(i)
       PROVE  UNCHANGED <<L, Sent, told>>
  BY <1>9, <1>11 DEF WriteRequested, SubscribeRequested, PumpEnds
<1>12. CASE UNCHANGED allVars
  BY <1>9, <1>12 DEF allVars, daemonVars
<1> QED BY <1>1, <1>2, <1>3, <1>4, <1>5, <1>6, <1>7, <1>8, <1>10, <1>11, <1>12
        DEF DaemonNext, LoopStep, Pump

\* What the client is promised about proxied connections, for any limits: no more
\* than MaxStreams are open, and of each one it is told the chunks its peer sent,
\* in order, then at most one end, then nothing.
THEOREM DaemonServes == DaemonSpec => StreamsAsPromised
<1>1. DaemonInit => Service!Init
  <2> SUFFICES ASSUME DaemonInit PROVE Service!Init
    OBVIOUS
  <2>1. /\ nextStreamID = 1 /\ told = [i \in StreamIds |-> Untold]
        /\ conns = [i \in StreamIds |-> NoConn]
    BY DEF DaemonInit
  <2>2. [id \in StreamIds |-> Life(id)] = [i \in StreamIds |-> "unborn"]
    BY <2>1, Numbers DEF Life, StreamIds
  <2>3. [id \in StreamIds |-> conns[id].sent] = [i \in StreamIds |-> 0]
    BY <2>1 DEF NoConn, NewConn
  <2> QED BY <2>1, <2>2, <2>3 DEF Service!Init, Service!Untold, Untold
<1>2. DInv /\ DInv' /\ [DaemonNext]_allVars => [Service!Next]_(Service!vars)
  BY StepServes DEF Service!vars, L, Sent
<1> QED BY <1>1, <1>2, DaemonInductive, PTL DEF DaemonSpec, StreamsAsPromised, Service!Spec
=============================================================================
