---- MODULE MCRemoteDaemon ----
\* Two opens under a limit of one; one session, which nobody attaches to (the
\* run of PtySession has the attachments).
EXTENDS RemoteDaemon

CONSTANTS i1

MCIds == {i1}
MCSizes == {1}
MCAutoId(n) == i1
====
