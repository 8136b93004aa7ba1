---------------------------- MODULE ObelicsMain ----------------------------
(***************************************************************************)
(* main() of apps/obelics/src/main.c, one step per call that matters: the  *)
(* start-up that draws its progress with modules/display/src/display.c,    *)
(* tries the log file and starts everything else, and the loop that feeds  *)
(* the menu.  Handles other than log_file are for users of the library the *)
(* program may get; main has no other.  A device that is not ready makes   *)
(* main return, with what it has started still running.                    *)
(***************************************************************************)
EXTENDS FileLogger

CONSTANTS
  log_file,     \* main's struct file_logger_file
  StartLen,     \* strlen("Start\n")
  ReadBuffLen   \* sizeof(read_buff)

ASSUME MainAssumption ==
  /\ log_file \in Handles
  /\ StartLen \in Lengths \ {0} /\ ReadBuffLen \in Lengths \ {0}

VARIABLES
  at,           \* the call main comes to next, "returned" when it has ended
  lora_ready,   \* device_is_ready(lora_dev), settled at boot
  read_buff,    \* "stack" before anything is read into it
  framebuffer,  \* cfb's buffer: a text for every row, NoBuffer before its init
  running,      \* what interrupts or runs beside main
  menu_gps, menu_lora  \* what the menu has been told

screen == <<framebuffer, menu_gps, menu_lora>>
main_vars == <<at, lora_ready, read_buff, screen, running>>

Rows == 0..7
Blank == [r \in Rows |-> "blank"]
NoBuffer == [r \in {} |-> "blank"]

MainInit ==
  /\ Init
  /\ at = "i2c" /\ lora_ready \in BOOLEAN /\ read_buff = "stack"
  /\ framebuffer = NoBuffer /\ running = {}
  /\ menu_gps = "none" /\ menu_lora = "none"
-----------------------------------------------------------------------------
(* The text display.  Without a buffer every call of cfb is refused.       *)
Draw(rows) == framebuffer' = IF framebuffer = NoBuffer THEN NoBuffer ELSE rows

(* Not ready, no pixel format, no memory: no buffer.  Clearing or waking   *)
(* the panel may fail after that, but the buffer is there and blank.       *)
display_init == framebuffer' \in {NoBuffer, Blank}

display_string(text) == Draw([Blank EXCEPT ![0] = text])

display_update_row(row, text) ==
  IF row \in DOMAIN framebuffer THEN framebuffer' = [framebuffer EXCEPT ![row] = text]
                                ELSE UNCHANGED framebuffer

display_clear_text == Draw(Blank)
-----------------------------------------------------------------------------
Goto(from, to) == at = from /\ at' = to
OnlyMain == UNCHANGED <<vars, lora_ready, read_buff>>
Quiet == UNCHANGED <<menu_gps, menu_lora, running>>
OnlyFile == UNCHANGED <<lora_ready, read_buff, screen, running>>

(* The check of a device that gives up when it is not ready. *)
NotReady(step) ==
  /\ Goto(step, "returned")
  /\ OnlyMain /\ UNCHANGED <<screen, running>>

(* display_init may fail; the first texts are drawn all the same. *)
Display ==
  \/ Goto("i2c", "test") /\ display_init /\ OnlyMain /\ Quiet
  \/ Goto("test", "starting") /\ display_string("test") /\ OnlyMain /\ Quiet
  \/ Goto("starting", "storage") /\ display_update_row(0, "Starting") /\ OnlyMain /\ Quiet

(* init_storage opens the file only when the library is initialised.       *)
init_storage ==
  \/ /\ at = "storage" /\ file_logger_init
     /\ at' \in IF is_initialized' THEN {"open"} ELSE {"write"}
     /\ OnlyFile
  \/ Goto("open", "write") /\ file_logger_open(log_file) /\ OnlyFile

(* What follows calls the library whether the file is open or not. *)
WriteStart ==
  \/ /\ at = "write" /\ file_logger_write(log_file, StartLen)
     /\ at' \in IF ~open[log_file] THEN {"seek"}
                ELSE IF size' # size THEN {"flush"} ELSE {"flush", "seek"}
     /\ OnlyFile
  \/ Goto("flush", "seek") /\ file_logger_flush(log_file) /\ OnlyFile

ReadBack ==
  \/ Goto("seek", "read") /\ file_logger_seek(log_file, 0) /\ OnlyFile
  \/ /\ Goto("read", "close") /\ file_logger_read_str(log_file, ReadBuffLen)
     /\ read_buff' \in IF open[log_file] THEN {"stack", "text"} ELSE {"stack"}
     /\ UNCHANGED <<lora_ready, screen, running>>

FaultyClearLog ==                    \* the file is not closed before it is removed
  \/ Goto("close", "remove") /\ Fails /\ OnlyFile
  \/ Goto("remove", "reopen") /\ file_logger_remove /\ OnlyFile
  \/ Goto("reopen", "lora") /\ file_logger_open(log_file) /\ OnlyFile

(* No result is looked at. *)
ClearLog ==
  \/ Goto("close", "remove") /\ file_logger_close(log_file) /\ OnlyFile
  \/ Goto("remove", "reopen") /\ file_logger_remove /\ OnlyFile
  \/ Goto("reopen", "lora") /\ file_logger_open(log_file) /\ OnlyFile

(* Row 1 says LoRa ok whatever the device and its configuration said. *)
LoRa ==
  /\ Goto("lora", "strip") /\ display_update_row(1, "LoRa ok")
  /\ OnlyMain /\ Quiet

(* Something that runs on beside main is started, and a row says so.       *)
Start(from, to, service, row, text) ==
  /\ Goto(from, to)
  /\ running' = running \cup {service} /\ display_update_row(row, text)
  /\ OnlyMain /\ UNCHANGED <<menu_gps, menu_lora>>

(* The LED strip and the buzzer are checked, then the LEDs one by one: the *)
(* timers of the first run on when a later one is not ready.               *)
Devices ==
  \/ Goto("strip", "buzzer") /\ OnlyMain /\ UNCHANGED <<screen, running>>
  \/ Goto("buzzer", "leds") /\ running' = running \cup {"sound"} /\ OnlyMain /\ UNCHANGED screen
  \/ Goto("leds", "leds") /\ running' = running \cup {"led timer"} /\ OnlyMain /\ UNCHANGED screen
  \/ Start("leds", "button", "led timer", 2, "LED,Sound OK")
  \/ Start("button", "udp", "button", 3, "Buttons OK")

Udp ==
  \/ Goto("udp", "udp started") /\ display_update_row(4, "UDP init") /\ OnlyMain /\ Quiet
  \/ Start("udp started", "gps", "udp", 5, "UDP Ok")

(* gps_get_latest never fails; then row 5 changes and main sleeps. *)
FirstFix ==
  \/ Goto("gps", "complete") /\ display_update_row(6, "GPS: n sats") /\ OnlyMain /\ Quiet
  \/ Goto("complete", "clear") /\ display_update_row(5, "Init complete") /\ OnlyMain /\ Quiet

FaultyStartMenu ==                   \* the start-up texts are left to the menu's thread
  \/ Goto("clear", "menu_init") /\ UNCHANGED framebuffer /\ OnlyMain /\ Quiet
  \/ /\ Goto("menu_init", "menu_start") /\ UNCHANGED framebuffer /\ menu_gps' = "no fix"
     /\ running' = running \cup {"encoder"} /\ OnlyMain /\ UNCHANGED menu_lora
  \/ /\ Goto("menu_start", "send") /\ running' = running \cup {"menu"}
     /\ OnlyMain /\ UNCHANGED screen

(* menu_init starts the encoder before it looks at the display, and takes  *)
(* a buffer of its own, which there may be no memory for.                  *)
StartMenu ==
  \/ Goto("clear", "menu_init") /\ display_clear_text /\ OnlyMain /\ Quiet
  \/ /\ Goto("menu_init", "menu_start")
     /\ \/ framebuffer' \in {NoBuffer, Blank}
        \/ UNCHANGED framebuffer     \* the display is not ready
     /\ menu_gps' = "no fix"
     /\ running' = running \cup {"encoder"} /\ OnlyMain /\ UNCHANGED menu_lora
  \/ /\ Goto("menu_start", "send") /\ running' = running \cup {"menu"}
     /\ OnlyMain /\ UNCHANGED screen
-----------------------------------------------------------------------------
(* The loop sends only on a radio that is ready, and then gives the strip  *)
(* its other pattern.                                                      *)
Send ==
  /\ Goto("send", "recv")
  /\ OnlyMain /\ UNCHANGED <<screen, running>>

FaultyReceive ==                     \* row 7 is drawn, as it once was
  /\ Goto("recv", "fix") /\ display_update_row(7, "No LoRa RX data")
  /\ menu_lora' \in {menu_lora, "failed", "packet"}
  /\ OnlyMain /\ UNCHANGED <<menu_gps, running>>

(* It receives in any case, for two seconds at most: nothing, an error, or *)
(* a packet with its strength.  LOG_DBG being off, the count of what was   *)
(* sent stays 0.                                                           *)
Receive ==
  /\ Goto("recv", "fix")
  /\ menu_lora' \in {menu_lora, "failed", "packet"}
  /\ OnlyMain /\ UNCHANGED <<framebuffer, menu_gps, running>>

(* A position that is not valid leaves the menu with the one it had. *)
ShowFix ==
  /\ Goto("fix", "send") /\ menu_gps' \in {menu_gps, "fix"}
  /\ OnlyMain /\ UNCHANGED <<framebuffer, menu_lora, running>>
-----------------------------------------------------------------------------
Main ==
  \/ \E step \in {"i2c", "strip", "buzzer", "leds", "button"} : NotReady(step)
  \/ Display \/ init_storage \/ WriteStart \/ ReadBack \/ ClearLog
  \/ LoRa \/ Devices \/ Udp \/ FirstFix \/ StartMenu
  \/ Send \/ Receive \/ ShowFix

(* Any other user of the library, with handles of its own. *)
Others ==
  /\ \/ file_logger_init \/ file_logger_remove \/ file_logger_ask
     \/ \E h \in Handles \ {log_file} : Caller(h)
  /\ UNCHANGED main_vars

MainNext == Main \/ Others

MainSpec == MainInit /\ [][MainNext]_<<vars, main_vars>>
-----------------------------------------------------------------------------
(* Main uses its file the way the library expects of a caller, whatever    *)
(* fails on the way: it does not open it while it is open, which would     *)
(* clear the structure and lose the file it stands for (file_logger.c:74). *)
MainIsAClient == Spec

(* The framebuffer has no lock and the menu's thread draws in it without   *)
(* one: from menu_start on main draws nothing (the calls in the loop are   *)
(* commented out), and leaves none of its texts for the menu to draw over. *)
MenuOwnsScreen == "menu" \in running => framebuffer \in {NoBuffer, Blank}

(* Violated: read_buff is logged as text when nothing was read into it. *)
LoggedIsRead == at = "remove" => read_buff = "text"

(* Violated: the start-up screen says LoRa ok of a radio that is not. *)
LoRaOkIsTrue == 1 \in DOMAIN framebuffer /\ framebuffer[1] = "LoRa ok" => lora_ready

(* Violated: the log is not empty when a removal failed. *)
LogCleared == at = "lora" /\ open[log_file] => size = 0
=============================================================================
