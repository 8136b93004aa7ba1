---------------------------- MODULE ObelicsMenu ----------------------------
(* The menu tree of modules/menu/src/menu.c, the draw functions' reads of   *)
(* menu_data, and the fields each menu_update_* call writes.                *)
EXTENDS Menu

Item(d, a, s, c) ==
  [draw_fn |-> d, action_fn |-> a, submenu |-> s, needs_confirmation |-> c]

ObelicsMenus   == {"main_menu", "commands_menu"}
ObelicsScreens == {"comms", "gps", "status"}

main_items ==
  << Item("comms", Null, Null, FALSE), Item("gps", Null, Null, FALSE),
     Item("status", Null, Null, FALSE), Item(Null, Null, "commands_menu", FALSE) >>

commands_items ==
  << Item(Null, "cmd_arm_disarm", Null, TRUE), Item(Null, "cmd_request_telemetry", Null, FALSE),
     Item(Null, "cmd_set_lora_channel", Null, TRUE), Item(Null, "cmd_reboot", Null, TRUE) >>

ObelicsItems  == [m \in ObelicsMenus |-> IF m = "main_menu" THEN main_items ELSE commands_items]
ObelicsParent == [m \in ObelicsMenus |-> IF m = "main_menu" THEN Null ELSE "main_menu"]

(* The four rows of a screen after its title and a blank one. *)
Read(r, f) == [row |-> r, field |-> f, gate |-> FALSE]

draw_comms_screen ==
  << Read(2, "lora.tx_count"), Read(2, "lora.rx_count"), Read(3, "lora.last_rssi"),
     Read(3, "lora.last_snr"), Read(4, "udp.tx_count"), Read(4, "udp.rx_count") >>
draw_gps_screen ==
  << Read(2, "gps.satellites"), Read(2, "gps.fix_type"),
     [row |-> 3, field |-> "gps.valid", gate |-> TRUE],
     Read(3, "gps.latitude"), Read(4, "gps.longitude"), Read(5, "gps.altitude_mm") >>
draw_status_screen ==
  << Read(2, "asterics.flight_mode"), Read(3, "asterics.armed"), Read(4, "asterics.battery_mv") >>

ObelicsReads ==
  [d \in ObelicsScreens |-> CASE d = "comms" -> draw_comms_screen
                              [] d = "gps" -> draw_gps_screen
                              [] d = "status" -> draw_status_screen]

menu_update_lora_stats == {"lora.tx_count", "lora.rx_count", "lora.last_rssi", "lora.last_snr"}
menu_update_udp_stats  == {"udp.tx_count", "udp.rx_count"}
menu_update_gps        == {"gps.satellites", "gps.fix_type", "gps.valid",
                           "gps.latitude", "gps.longitude", "gps.altitude_mm"}
menu_update_asterics   == {"asterics.flight_mode", "asterics.armed", "asterics.battery_mv"}

ObelicsGroups == {menu_update_lora_stats, menu_update_udp_stats,
                  menu_update_gps, menu_update_asterics}
ObelicsFields == UNION ObelicsGroups

(* Both menus have four items, and the question five rows with its heading. *)
ASSUME ObelicsAssumption == TreeFits
=============================================================================
