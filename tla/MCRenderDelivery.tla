-------------------------- MODULE MCRenderDelivery --------------------------
EXTENDS RenderDelivery

CONSTANTS c1, c2, p1

MCStream == [c \in Clients |-> IF c = c2 THEN p1 ELSE None]
=============================================================================
