--------------------------- MODULE MCFrameAnalysis ---------------------------
(* FrameAnalysis on small instances: a rule without delay and one with.      *)
EXTENDS FrameAnalysis

MCTrigger == [r \in Rules |-> IF r = "parking" THEN 1 ELSE 0]
MCCooldown == [r \in Rules |-> 2]
=============================================================================
