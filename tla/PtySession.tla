----------------------------- MODULE PtySession -----------------------------
(***************************************************************************)
(* The session registry of the remote daemon (jmuxd-remote): terminals     *)
(* attach to a named session with a size, and the session's effective size *)
(* is the smallest one.  The daemon serves one request at a time under     *)
(* rpcServer.mu, so every handler is one action.                           *)
(***************************************************************************)
EXTENDS Integers, FiniteSets

CONSTANTS Ids,          \* session ids a client may name, and "sess-N"
          Attachments,  \* attachment ids
          Sizes,        \* columns / rows a client may send
          AutoId(_),    \* AutoId(n) is the id "sess-n"
          MaxAuto       \* bound on nextSessionID

ASSUME SizesAssumption == Sizes \subseteq Nat \ {0}
ASSUME MaxAutoAssumption == MaxAuto \in Nat
ASSUME AutoIdAssumption == \A n \in 1..MaxAuto : AutoId(n) \in Ids

VARIABLES sessions,       \* id -> session, for the open sessions
          nextSessionID   \* the next number handleSessionOpen gives out

vars == <<sessions, nextSessionID>>

Size == [cols : Sizes, rows : Sizes]

\* sessionState: the attachments, and the two sizes it remembers.
Session == [att : UNION {[A -> Size] : A \in SUBSET Attachments},
            eff : [cols : Sizes \cup {0}, rows : Sizes \cup {0}],
            last : [cols : Sizes \cup {0}, rows : Sizes \cup {0}]]

EmptySession == [att |-> [a \in {} |-> 0],
                 eff |-> [cols |-> 0, rows |-> 0],
                 last |-> [cols |-> 0, rows |-> 0]]

Least(S) == CHOOSE x \in S : \A y \in S : x <= y

\* recomputeSessionSize: columns and rows shrink independently; with nobody
\* attached the last known size stays in force.
\* (Mutant of Recompute: nobody attached means no size.)
RecomputeToZero(s) ==
    IF DOMAIN s.att = {}
    THEN [s EXCEPT !.eff = [cols |-> 0, rows |-> 0]]
    ELSE LET m == [cols |-> Least({s.att[a].cols : a \in DOMAIN s.att}),
                   rows |-> Least({s.att[a].rows : a \in DOMAIN s.att})]
         IN  [s EXCEPT !.eff = m, !.last = m]

Recompute(s) ==
    IF DOMAIN s.att = {}
    THEN [s EXCEPT !.eff = s.last]
    ELSE LET m == [cols |-> Least({s.att[a].cols : a \in DOMAIN s.att}),
                   rows |-> Least({s.att[a].rows : a \in DOMAIN s.att})]
         IN  [s EXCEPT !.eff = m, !.last = m]

\* (Mutant of Attach: a size that was not checked.)
AttachUnsized(s, a, size) ==
    [s EXCEPT !.att = [b \in DOMAIN s.att \cup {a} |->
                          IF b = a THEN [cols |-> 0, rows |-> 0] ELSE s.att[b]]]

Attach(s, a, size) ==
    [s EXCEPT !.att = [b \in DOMAIN s.att \cup {a} |->
                          IF b = a THEN size ELSE s.att[b]]]

Detach(s, a) ==
    [s EXCEPT !.att = [b \in DOMAIN s.att \ {a} |-> s.att[b]]]

Opened(id) ==
    IF id \in DOMAIN sessions
    THEN sessions
    ELSE [i \in DOMAIN sessions \cup {id} |->
             IF i = id THEN EmptySession ELSE sessions[i]]

Update(id, s) == sessions' = [sessions EXCEPT ![id] = s]

Init == /\ sessions = [i \in {} |-> EmptySession]
        /\ nextSessionID = 1

\* session.open with an explicit id: opening an open session changes nothing.
SessionOpen(id) == /\ sessions' = Opened(id)
                   /\ UNCHANGED nextSessionID

\* session.open without an id.
SessionOpenAuto == /\ nextSessionID <= MaxAuto
                   /\ sessions' = Opened(AutoId(nextSessionID))
                   /\ nextSessionID' = nextSessionID + 1

SessionClose(id) == /\ id \in DOMAIN sessions
                    /\ sessions' = [i \in DOMAIN sessions \ {id} |-> sessions[i]]
                    /\ UNCHANGED nextSessionID

SessionAttach(id, a, size) ==
    /\ id \in DOMAIN sessions
    /\ Update(id, Recompute(Attach(sessions[id], a, size)))
    /\ UNCHANGED nextSessionID

SessionResize(id, a, size) ==
    /\ id \in DOMAIN sessions
    /\ a \in DOMAIN sessions[id].att
    /\ Update(id, Recompute(Attach(sessions[id], a, size)))
    /\ UNCHANGED nextSessionID

\* (Mutant of SessionDetach: the size is left as it was.)
DetachOnly(id, a) ==
    /\ id \in DOMAIN sessions
    /\ a \in DOMAIN sessions[id].att
    /\ Update(id, Detach(sessions[id], a))
    /\ UNCHANGED nextSessionID

SessionDetach(id, a) ==
    /\ id \in DOMAIN sessions
    /\ a \in DOMAIN sessions[id].att
    /\ Update(id, Recompute(Detach(sessions[id], a)))
    /\ UNCHANGED nextSessionID

\* closeAll: stdin has ended.
CloseSessions == /\ sessions' = [i \in {} |-> EmptySession]
                 /\ UNCHANGED nextSessionID

SessionRequest ==
    \/ SessionOpenAuto
    \/ \E id \in Ids :
         \/ SessionOpen(id)
         \/ SessionClose(id)
         \/ \E a \in Attachments :
              \/ SessionDetach(id, a)
              \/ \E size \in Size : \/ SessionAttach(id, a, size)
                                    \/ SessionResize(id, a, size)

Next == SessionRequest \/ CloseSessions

Spec == Init /\ [][Next]_vars

-----------------------------------------------------------------------------
\* The registry holds well-formed sessions.
TypeOK == /\ DOMAIN sessions \subseteq Ids
          /\ sessions \in [DOMAIN sessions -> Session]
          /\ nextSessionID \in 1..(MaxAuto + 1)

\* The effective size fits every attached terminal and is as large as that
\* allows: each dimension is the size of some attached terminal.  (A resize of
\* the smallest terminal, or its detach, must let the session grow again.)
EffectiveIsTightMinimum ==
    \A id \in DOMAIN sessions :
      LET s == sessions[id]
      IN  DOMAIN s.att # {} =>
            /\ \A a \in DOMAIN s.att : /\ s.eff.cols <= s.att[a].cols
                                       /\ s.eff.rows <= s.att[a].rows
            /\ \E a \in DOMAIN s.att : s.eff.cols = s.att[a].cols
            /\ \E a \in DOMAIN s.att : s.eff.rows = s.att[a].rows

\* The last terminal to leave does not change the size: programs running in
\* the session keep the geometry until somebody attaches again.
DetachedKeepsSize ==
    [][\A id \in DOMAIN sessions \cap DOMAIN sessions' :
          DOMAIN sessions'[id].att = {} => sessions'[id].eff = sessions[id].eff]_vars
=============================================================================
