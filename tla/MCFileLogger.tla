---------------------------- MODULE MCFileLogger ----------------------------
(* Main's file and another, two FAT structures, a file of up to three      *)
(* bytes: enough for a write that is cut short and a read that is.         *)
EXTENDS ObelicsMain
=============================================================================
