--------------------------------- MODULE MCLate ---------------------------------
(***************************************************************************)
(* LateCalls with the specs of the other runs.                             *)
(***************************************************************************)
EXTENDS MCOperator, LateCalls
=================================================================================
