----------------------- MODULE MCStatusSubscription -----------------------
EXTENDS StatusSubscription

Statuses == {"working", "done", "idle"}
SeenByUser == {<<"done", "idle">>}
=============================================================================
