---- MODULE MCRemoteSession ----
\* Two or three connection attempts.
EXTENDS RemoteSession
====
