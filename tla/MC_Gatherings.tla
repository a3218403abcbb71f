--------------------------- MODULE MC_Gatherings ---------------------------
\* The host's page and a member's; three requests, one reminder run at a
\* time, a reminder one instant before the start.
EXTENDS Gatherings, TLC

CONSTANTS host, ani, desk, phone
Everyone == desk :> host @@ phone :> ani
=============================================================================
