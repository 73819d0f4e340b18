--------------------------- MODULE MCSessionSave ---------------------------
EXTENDS SessionSave
=============================================================================
