--------------------------- MODULE MCObjectStore ----------------------------
(* ObjectStore for TLC.  The runs check liveness, so the writers are not     *)
(* declared symmetric.                                                       *)
EXTENDS ObjectStore, TLC
=============================================================================
