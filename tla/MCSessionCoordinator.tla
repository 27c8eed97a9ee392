------------------------- MODULE MCSessionCoordinator -------------------------
(* SessionCoordinator on the instance of MCSessionCoordinator.cfg: three     *)
(* calls, so that one can hold, one wait and one arrive or be cancelled, on  *)
(* two session ids; one entry object per call is as many as can be in use.   *)
EXTENDS SessionCoordinator
=============================================================================
