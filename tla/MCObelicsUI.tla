---------------------------- MODULE MCObelicsUI ----------------------------
(* Two menus of nine items, two more than the window shows, so that both    *)
(* scroll: the commands of the ground station and one inert item among      *)
(* plain ones, a submenu of as many, updates of data no screen shows, and a *)
(* queue that holds the two double presses of a command.                    *)
EXTENDS ObelicsUI

MCMenus == {"top", "sub"}
It(a, s, c) == [draw_fn |-> Null, action_fn |-> a, submenu |-> s, needs_confirmation |-> c]
Plain == It("cmd_request_telemetry", Null, FALSE)
MCItems == [m \in MCMenus |->
  IF m = "top"
    THEN << Plain, It(Null, "sub", FALSE), Plain, Plain, It("cmd_arm_disarm", Null, TRUE),
            Plain, Plain, It(Null, Null, FALSE), It("cmd_reboot", Null, TRUE) >>
    ELSE [i \in 1..9 |-> IF i = 9 THEN It(Null, "top", FALSE) ELSE Plain]]
MCParent == [m \in MCMenus |-> IF m = "top" THEN Null ELSE "top"]
MCReads  == << >>
MCGroups == {{"udp"}}
=============================================================================
