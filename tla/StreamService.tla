--------------------------- MODULE StreamService ---------------------------
(***************************************************************************)
(* What the remote daemon promises its client about proxied connections:   *)
(* a bounded number of them, and for each one the chunks its peer sent, in *)
(* order and without a gap, then at most one end, then silence.            *)
(***************************************************************************)
EXTENDS Naturals, FiniteSets

CONSTANTS Ids,    \* the connections there may ever be
          Limit   \* how many may be open at once

VARIABLES life,   \* "unborn", "open", "closing" or "over"
          sent,   \* chunks the peer has sent
          told    \* what the client was told: [got, fin, late]

vars == <<life, sent, told>>

Untold == [got |-> 0, fin |-> "none", late |-> FALSE]

Init == /\ life = [i \in Ids |-> "unborn"]
        /\ sent = [i \in Ids |-> 0]
        /\ told = [i \in Ids |-> Untold]

Open(i) == /\ life[i] = "unborn"
           /\ Cardinality({j \in Ids : life[j] = "open"}) < Limit
           /\ life' = [life EXCEPT ![i] = "open"]
           /\ UNCHANGED <<sent, told>>

Send(i) == /\ told[i].fin # "eof"
           /\ sent' = [sent EXCEPT ![i] = @ + 1]
           /\ UNCHANGED <<life, told>>

\* One event may be on its way when the connection is closed, never two.
\* (While it is being closed it is still read.)
MayTell(i) == /\ told[i].fin = "none"
              /\ \/ life[i] \in {"open", "closing"}
                 \/ life[i] = "over" /\ ~told[i].late

Deliver(i) == /\ MayTell(i)
              /\ told[i].got < sent[i]
              /\ told' = [told EXCEPT ![i].got = @ + 1, ![i].late = life[i] = "over"]
              /\ UNCHANGED <<life, sent>>

Finish(i, e) == /\ MayTell(i)
                /\ e = "eof" => told[i].got = sent[i]
                /\ told' = [told EXCEPT ![i].fin = e, ![i].late = life[i] = "over"]
                /\ UNCHANGED <<life, sent>>

\* The client, the end of the connection or of the daemon: a stream gives its
\* place up first and is closed after.
Release(S) == /\ S # {} /\ \A i \in S : life[i] = "open"
              /\ life' = [i \in Ids |-> IF i \in S THEN "closing" ELSE life[i]]
              /\ UNCHANGED <<sent, told>>

Close(S) == /\ S # {} /\ \A i \in S : life[i] = "closing"
            /\ life' = [i \in Ids |-> IF i \in S THEN "over" ELSE life[i]]
            /\ UNCHANGED <<sent, told>>

Next == \/ \E i \in Ids : \/ Open(i) \/ Send(i) \/ Deliver(i)
                          \/ \E e \in {"eof", "error"} : Finish(i, e)
        \/ \E S \in SUBSET Ids : Release(S) \/ Close(S)

Spec == Init /\ [][Next]_vars
=============================================================================
