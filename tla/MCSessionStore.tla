--------------------------- MODULE MCSessionStore ---------------------------
\* The saved session, for model checking.
EXTENDS SessionStore
=============================================================================
