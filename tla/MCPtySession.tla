---- MODULE MCPtySession ----
\* Two sessions, one of which is also the first automatic id, and two clients.
EXTENDS PtySession

CONSTANTS i1, i2, a1, a2

MCIds == {i1, i2}
MCAttachments == {a1, a2}
MCSizes == {1, 2}
MCAutoId(n) == IF n = 1 THEN i1 ELSE i2
====
