--------------------------- MODULE MCNoOrderWatch ---------------------------
(* Instances of NoOrderWatch for TLC. *)
EXTENDS NoOrderWatch
=============================================================================
