------------------------------ MODULE MCIna219 ------------------------------
(* Three reads of the voltage overlap in a pool of nine entries, the        *)
(* smallest in which each acquisition of each handler can be the one that   *)
(* fails.                                                                   *)
EXTENDS Ina219
=============================================================================
