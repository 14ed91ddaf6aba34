--------------------------- MODULE MCEventDelivery ---------------------------
(***************************************************************************)
(* EventDelivery on a small instance: model values for the constants, and  *)
(* no symmetry, since the run checks liveness too.                         *)
(***************************************************************************)
EXTENDS EventDelivery
=============================================================================
