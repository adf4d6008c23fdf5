--------------------------- MODULE MCEventStream ---------------------------
(* Instance of EventStream for TLC.  The streams are interchangeable, but     *)
(* symmetry is not sound for the liveness property.                           *)
EXTENDS EventStream, TLC
=============================================================================
