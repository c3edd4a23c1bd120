------------------------------ MODULE MCSessions ------------------------------
(* Instances of Sessions. *)
EXTENDS Sessions
=============================================================================
