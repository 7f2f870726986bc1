--------------------------- MODULE MCPredictionLog ---------------------------
(***************************************************************************)
(* The instance of PredictionLog for TLC: pod p1 serves with two threads,  *)
(* pod p2 with one.                                                        *)
(***************************************************************************)
EXTENDS PredictionLog, TLC

CONSTANTS p1, p2, t1, t2, t3

TwoPods == (t1 :> p1) @@ (t2 :> p1) @@ (t3 :> p2)
=============================================================================
