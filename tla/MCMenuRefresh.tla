--------------------------- MODULE MCMenuRefresh ---------------------------
(* The throttle: one menu with the GPS screen and an item to leave it for,  *)
(* updates of two samples at any moment, and a clock that wraps several     *)
(* redraw intervals apart.                                                  *)
EXTENDS Menu

MCMenus == {"main_menu"}
MCItems == [m \in MCMenus |->
  << [draw_fn |-> "gps", action_fn |-> Null, submenu |-> Null, needs_confirmation |-> FALSE] >>]
MCParent == [m \in MCMenus |-> Null]
MCFields == {"valid", "lat"}
MCReads  == [d \in {"gps"} |-> << [row |-> 1, field |-> "valid", gate |-> TRUE],
                                  [row |-> 2, field |-> "lat", gate |-> FALSE] >>]
MCGroups == {MCFields}
=============================================================================
