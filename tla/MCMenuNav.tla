----------------------------- MODULE MCMenuNav -----------------------------
(* The real menu tree on the real display, every event type in a queue of   *)
(* two, one new sample and no throttling.                                   *)
EXTENDS ObelicsMenu
MCGroups == {menu_update_gps}
=============================================================================
