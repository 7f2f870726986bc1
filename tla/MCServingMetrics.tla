--------------------------- MODULE MCServingMetrics ---------------------------
\* Three readings of a machine by one replica, or two by two.
EXTENDS ServingMetrics, TLC

CONSTANTS r1, r2

MCReplica == {r1, r2}
MCMaxReadings == {r1} :> 3 @@ {r1, r2} :> 2
===============================================================================
