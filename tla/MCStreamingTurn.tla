--------------------------- MODULE MCStreamingTurn ---------------------------
(* Instances of StreamingTurn for TLC: two turns on one conversation, a long *)
(* and a short answer, so that both orders of the two are explored.          *)
EXTENDS StreamingTurn, TLC

CONSTANTS t1, t2

LongAndShort == t1 :> 2 @@ t2 :> 1
BothShort    == t1 :> 1 @@ t2 :> 1
=============================================================================
