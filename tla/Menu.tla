-------------------------------- MODULE Menu --------------------------------
(***************************************************************************)
(* The OLED menu of the ground station, modules/menu/src/menu.c.           *)
(*                                                                         *)
(* One thread, the lowest in priority, waits for either of two sources:    *)
(* the queue of encoder events and the semaphore given by the              *)
(* menu_update_* calls of the main loop.  It handles at most one event per *)
(* turn, then redraws if there was one, or if data changed and the last    *)
(* redraw is old enough.  Everything that preempts the thread is an action *)
(* of its own here: encoder events posted by the interrupt and the work    *)
(* queue, data updates made by main, and the clock.                        *)
(*                                                                         *)
(* A cell of the display is a set of the things printed in that row, so a  *)
(* blank row is {}.  What is printed is kept only as far as the properties *)
(* need it: which menu, which item, highlighted or not, which sample of    *)
(* which data field.                                                       *)
(***************************************************************************)
EXTENDS Integers, Sequences

CONSTANTS
  Null,               \* the NULL pointer
  Menus, MainMenu,    \* the struct menu objects, and main_menu
  Items,              \* Items[m]: the items of menu m, a sequence
  Parent,             \* Parent[m]: the menu that contains m, or Null
  Screens,            \* the draw functions
  Reads,              \* Reads[d]: what draw function d reads, in order
  Fields, Groups,     \* the fields of menu_data; the set each menu_update_* writes
  Samples, NoSample,  \* the values of a field; the one menu_init leaves
  QueueSize,          \* ENCODER_MSGQ_SIZE
  MENU_VISIBLE_ROWS, MENU_CURSOR_ROW,
  MIN_REDRAW_MS,      \* CONFIG_LIB_MENU_MIN_REDRAW_MS, in ticks
  ClockMod            \* k_uptime_get_32 counts modulo this

EventTypes == {"ROTATE_CW", "ROTATE_CCW", "DOUBLE_PRESS",
               "PRESS_ROTATE_CW", "PRESS_ROTATE_CCW"}

(* An item as menu.h declares it; item_count is Len(Items[m]). *)
ItemType == [draw_fn : Screens \cup {Null}, submenu : Menus \cup {Null},
             action_fn : STRING \cup {Null}, needs_confirmation : BOOLEAN]

ASSUME MenuAssumption ==
  /\ MainMenu \in Menus /\ Null \notin Menus \cup Screens \cup ItemType
  /\ Items \in [Menus -> Seq(ItemType)]
  /\ Parent \in [Menus -> Menus \cup {Null}]
  /\ \A m \in Menus : Len(Items[m]) > 0
ASSUME DisplayAssumption ==
  /\ MENU_VISIBLE_ROWS \in Nat \ {0} /\ MENU_CURSOR_ROW \in 0..(MENU_VISIBLE_ROWS - 1)
  /\ Reads \in [Screens -> Seq([row : 1..MENU_VISIBLE_ROWS, field : Fields, gate : BOOLEAN])]
ASSUME DataAssumption ==
  /\ Groups \subseteq SUBSET Fields /\ NoSample \in Samples
ASSUME TimingAssumption ==
  /\ QueueSize \in Nat \ {0}
  /\ ClockMod \in Nat /\ MIN_REDRAW_MS \in Nat /\ MIN_REDRAW_MS < ClockMod

VARIABLES
  current, selected, scroll_offset,           \* struct menu_state
  showing_confirmation, confirming_item, active_draw_fn,
  encoder_msgq, menu_data_sem, menu_data,     \* shared with the rest of the system
  clock, last_redraw,
  pc, events, now, drawn,                     \* the thread: place and locals
  framebuffer, panel,                         \* cfb's buffer; what the OLED shows
  ran,                                        \* history: action run by the last event
  prompt                                      \* history: see MenuUpdate

nav     == <<current, selected, scroll_offset>>
dialog  == <<showing_confirmation, confirming_item>>
shared  == <<encoder_msgq, menu_data_sem, menu_data, clock>>
thread  == <<pc, events, now, drawn>>
display == <<framebuffer, panel>>
vars == <<nav, dialog, active_draw_fn, shared, last_redraw, thread, display, ran, prompt>>

Rows  == 0..MENU_VISIBLE_ROWS
Blank == [r \in Rows |-> {}]

(* What the code prints: titles, confirmation lines, items, data. *)
Label(k, x)  == [kind |-> k, of |-> x, mark |-> FALSE]
ItemCell(i, inverted) == [kind |-> "item", of |-> i, mark |-> inverted]
DataCell(f, s) == [kind |-> "data", of |-> <<f, s>>, mark |-> FALSE]

ItemCount(m)    == Len(Items[m])
SelectedItem    == Items[current][selected + 1]
Elapsed(t)      == (clock - t) % ClockMod
-----------------------------------------------------------------------------
Init ==
  /\ current = MainMenu /\ selected = 0 /\ scroll_offset = 0
  /\ showing_confirmation = FALSE /\ confirming_item = Null
  /\ active_draw_fn = Null
  /\ encoder_msgq = << >>
  /\ menu_data_sem = 1                  \* menu_init has called menu_update_*
  /\ menu_data = [f \in Fields |-> NoSample]
  /\ clock \in MIN_REDRAW_MS..(ClockMod - 1)   \* main sleeps a second before menu_init
  /\ last_redraw = 0
  /\ pc = "poll" /\ events = [msgq |-> FALSE, sem |-> FALSE] /\ now = 0 /\ drawn = 0
  /\ framebuffer = Blank /\ panel = Blank
  /\ ran = Null /\ prompt = TRUE
-----------------------------------------------------------------------------
(* The operators named Faulty... are what a plausible mistake would make   *)
(* of the operator after them; nothing refers to them.                     *)
Faulty_update_scroll(n, sel) ==      \* the window runs past the last item
  IF n <= MENU_VISIBLE_ROWS \/ sel < MENU_CURSOR_ROW THEN 0 ELSE sel - MENU_CURSOR_ROW

(* Where the selected item of a menu of n items puts the window. *)
update_scroll(n, sel) ==
  IF n <= MENU_VISIBLE_ROWS \/ sel < MENU_CURSOR_ROW THEN 0
  ELSE IF sel > n - (MENU_VISIBLE_ROWS - MENU_CURSOR_ROW) THEN n - MENU_VISIBLE_ROWS
  ELSE sel - MENU_CURSOR_ROW

clear_display == framebuffer' = Blank /\ panel' = Blank

Select(i) ==
  /\ selected' = i
  /\ scroll_offset' = update_scroll(ItemCount(current), i)
  /\ UNCHANGED <<current, dialog, active_draw_fn, display>>
  /\ ran' = Null

Enter(m) == current' = m /\ selected' = 0 /\ scroll_offset' = 0

Ignore == UNCHANGED <<nav, dialog, active_draw_fn, display>> /\ ran' = Null

RotateCw ==
  \/ selected < ItemCount(current) - 1 /\ Select(selected + 1)
  \/ selected >= ItemCount(current) - 1 /\ Ignore

RotateCcw ==
  \/ selected > 0 /\ Select(selected - 1)
  \/ selected = 0 /\ Ignore

OpenScreen(item) ==
  /\ item.draw_fn # Null
  /\ active_draw_fn' = item.draw_fn
  /\ clear_display
  /\ UNCHANGED <<nav, dialog>> /\ ran' = Null

(* A submenu opened by a double press is drawn over what is there. *)
OpenSubmenu(item) ==
  /\ item.draw_fn = Null /\ item.submenu # Null
  /\ Enter(item.submenu)
  /\ UNCHANGED <<dialog, active_draw_fn>> /\ ran' = Null

AskConfirmation(item) ==
  /\ item.draw_fn = Null /\ item.submenu = Null /\ item.action_fn # Null
  /\ item.needs_confirmation
  /\ showing_confirmation' = TRUE /\ confirming_item' = item
  /\ UNCHANGED <<nav, active_draw_fn, display>> /\ ran' = Null

RunAction(item) ==
  /\ item.draw_fn = Null /\ item.submenu = Null /\ item.action_fn # Null
  /\ ~item.needs_confirmation
  /\ ran' = item
  /\ UNCHANGED <<nav, dialog, active_draw_fn, display>>

Inert(item) == item.draw_fn = Null /\ item.submenu = Null

DoublePress ==
  \/ OpenScreen(SelectedItem)
  \/ OpenSubmenu(SelectedItem) /\ UNCHANGED display
  \/ AskConfirmation(SelectedItem)
  \/ RunAction(SelectedItem)
  \/ Inert(SelectedItem) /\ SelectedItem.action_fn = Null /\ Ignore

PressRotateCw ==
  \/ OpenScreen(SelectedItem)
  \/ OpenSubmenu(SelectedItem) /\ clear_display
  \/ Inert(SelectedItem) /\ Ignore

FaultyPressRotateCcw ==              \* the screen that is left is not cleared
  \/ /\ active_draw_fn # Null
     /\ active_draw_fn' = Null
     /\ UNCHANGED <<nav, dialog, display>> /\ ran' = Null
  \/ /\ active_draw_fn = Null /\ Parent[current] # Null
     /\ Enter(Parent[current])
     /\ UNCHANGED <<dialog, active_draw_fn, display>> /\ ran' = Null
  \/ /\ active_draw_fn = Null /\ Parent[current] = Null
     /\ Ignore

PressRotateCcw ==
  \/ /\ active_draw_fn # Null
     /\ active_draw_fn' = Null
     /\ clear_display
     /\ UNCHANGED <<nav, dialog>> /\ ran' = Null
  \/ /\ active_draw_fn = Null /\ Parent[current] # Null
     /\ Enter(Parent[current])
     /\ UNCHANGED <<dialog, active_draw_fn, display>> /\ ran' = Null
  \/ /\ active_draw_fn = Null /\ Parent[current] = Null
     /\ Ignore

FaultyEndDialog ==                   \* the item asked about is kept
  showing_confirmation' = FALSE /\ UNCHANGED <<confirming_item, nav, active_draw_fn, display>>

EndDialog ==
  /\ showing_confirmation' = FALSE /\ confirming_item' = Null
  /\ UNCHANGED <<nav, active_draw_fn, display>>

FaultyConfirmationEvent(evt) ==      \* every event but the way back confirms
  \/ evt # "PRESS_ROTATE_CCW" /\ EndDialog /\ ran' = confirming_item
  \/ evt = "PRESS_ROTATE_CCW" /\ EndDialog /\ ran' = Null

(* The handler while the confirmation screen is up. *)
ConfirmationEvent(evt) ==
  \/ evt = "DOUBLE_PRESS" /\ EndDialog /\ ran' = confirming_item
  \/ evt = "PRESS_ROTATE_CCW" /\ EndDialog /\ ran' = Null
  \/ evt \notin {"DOUBLE_PRESS", "PRESS_ROTATE_CCW"} /\ Ignore

MenuEvent(evt) ==
  \/ evt = "ROTATE_CW" /\ RotateCw
  \/ evt = "ROTATE_CCW" /\ RotateCcw
  \/ evt = "DOUBLE_PRESS" /\ DoublePress
  \/ evt = "PRESS_ROTATE_CW" /\ PressRotateCw
  \/ evt = "PRESS_ROTATE_CCW" /\ PressRotateCcw

menu_handle_event(evt) ==
  \/ showing_confirmation /\ ConfirmationEvent(evt)
  \/ ~showing_confirmation /\ MenuEvent(evt)
-----------------------------------------------------------------------------
(* The thread.  k_poll returns with the sources that are ready. *)
Poll ==
  /\ pc = "poll" /\ (encoder_msgq # << >> \/ menu_data_sem = 1)
  /\ events' = [msgq |-> encoder_msgq # << >>, sem |-> menu_data_sem = 1]
  /\ pc' = "event"
  /\ UNCHANGED <<nav, dialog, active_draw_fn, shared, last_redraw, now, drawn, display, ran, prompt>>

HandleEvent ==
  /\ pc = "event" /\ events.msgq
  /\ menu_handle_event(Head(encoder_msgq))
  /\ encoder_msgq' = Tail(encoder_msgq)
  /\ pc' = "data"
  /\ UNCHANGED <<menu_data_sem, menu_data, clock, last_redraw, events, now, drawn, prompt>>

NoEvent ==
  /\ pc = "event" /\ ~events.msgq
  /\ pc' = "data"
  /\ UNCHANGED <<nav, dialog, active_draw_fn, shared, last_redraw, events, now, drawn, display, ran, prompt>>

FaultyDataRedraw  == events.sem /\ Elapsed(last_redraw) >= MIN_REDRAW_MS   \* not after an event
FaultyRedrawLater == events.msgq \/ (events.sem /\ Elapsed(last_redraw) > MIN_REDRAW_MS)

ShouldRedraw == events.msgq \/ (events.sem /\ Elapsed(last_redraw) >= MIN_REDRAW_MS)

FaultyTakeData ==                    \* the semaphore is not taken
  /\ pc = "data"
  /\ now' = clock
  /\ pc' = IF ShouldRedraw THEN "draw" ELSE "poll"
  /\ events' = [msgq |-> FALSE, sem |-> FALSE]
  /\ UNCHANGED <<nav, dialog, active_draw_fn, shared, last_redraw, drawn, display, ran, prompt>>

(* Takes the semaphore, reads the time and decides whether to redraw. *)
TakeData ==
  /\ pc = "data"
  /\ menu_data_sem' = IF events.sem THEN 0 ELSE menu_data_sem
  /\ now' = clock
  /\ pc' = IF ShouldRedraw THEN "draw" ELSE "poll"
  /\ events' = [msgq |-> FALSE, sem |-> FALSE]
  /\ UNCHANGED <<nav, dialog, active_draw_fn, encoder_msgq, menu_data, clock, last_redraw, drawn, display, ran, prompt>>

EndRedraw == pc' = "poll" /\ last_redraw' = now

(* The question: its heading, the item, a blank row and the two answers. *)
ConfirmationRows(item) ==
  [r \in Rows |-> CASE r = 1 -> {Label("confirm", item)}
                    [] r \in {0, 3, 4} -> {Label("confirm", r)}
                    [] OTHER -> {}]

draw_confirmation_screen ==
  /\ pc = "draw" /\ showing_confirmation
  /\ framebuffer' = ConfirmationRows(confirming_item)
  /\ panel' = framebuffer'
  /\ EndRedraw
  /\ UNCHANGED <<nav, dialog, active_draw_fn, shared, events, now, drawn, ran, prompt>>

(* The rows of the window of a menu, the others left as they are. *)
MenuRows(fb) ==
  [r \in Rows |->
     IF r = 0 THEN {Label("title", current)}
     ELSE IF scroll_offset + r <= ItemCount(current)
            THEN {ItemCell(scroll_offset + r - 1, scroll_offset + r - 1 = selected)}
            ELSE fb[r]]

draw_menu_screen ==
  /\ pc = "draw" /\ ~showing_confirmation /\ active_draw_fn = Null
  /\ framebuffer' = MenuRows(framebuffer)
  /\ panel' = framebuffer'
  /\ EndRedraw
  /\ UNCHANGED <<nav, dialog, active_draw_fn, shared, events, now, drawn, ran, prompt>>

(* A draw function reads menu_data one field at a time, and main may write *)
(* between two reads.  A gate is the test of gps.valid: nothing is read    *)
(* after a gate that fails.                                                *)
BeginScreen ==
  /\ pc = "draw" /\ ~showing_confirmation /\ active_draw_fn # Null
  /\ framebuffer' = [Blank EXCEPT ![0] = {Label("title", active_draw_fn)}]
  /\ panel' = Blank
  /\ pc' = "screen" /\ drawn' = 0
  /\ UNCHANGED <<nav, dialog, active_draw_fn, shared, last_redraw, events, now, ran, prompt>>

Gate(n) == n > 0 /\ Reads[active_draw_fn][n].gate
Shut(n) == Gate(n) /\ DataCell(Reads[active_draw_fn][n].field, NoSample)
                        \in framebuffer[Reads[active_draw_fn][n].row]
ScreenDone == drawn = Len(Reads[active_draw_fn]) \/ Shut(drawn)

ReadField ==
  /\ pc = "screen" /\ ~ScreenDone
  /\ LET rd == Reads[active_draw_fn][drawn + 1]
     IN framebuffer' = [framebuffer EXCEPT ![rd.row] =
                          @ \cup {DataCell(rd.field, menu_data[rd.field])}]
  /\ drawn' = drawn + 1
  /\ UNCHANGED <<nav, dialog, active_draw_fn, shared, last_redraw, pc, events, now, panel, ran, prompt>>

FinishScreen ==
  /\ pc = "screen" /\ ScreenDone
  /\ panel' = framebuffer
  /\ EndRedraw /\ drawn' = 0
  /\ UNCHANGED <<nav, dialog, active_draw_fn, shared, events, now, framebuffer, ran, prompt>>

menu_redraw == draw_confirmation_screen \/ draw_menu_screen \/ BeginScreen \/ ReadField \/ FinishScreen

MenuThread == Poll \/ HandleEvent \/ NoEvent \/ TakeData \/ menu_redraw
-----------------------------------------------------------------------------
(* A menu_update_* call: main outranks the thread, so the writes and the   *)
(* give are one step for it.  prompt records whether the last update came  *)
(* while the thread waited and no redraw was recent.                       *)
MenuUpdate(g, s) ==
  /\ menu_data' = [f \in Fields |-> IF f \in g THEN s ELSE menu_data[f]]
  /\ menu_data_sem' = 1
  /\ prompt' = (pc = "poll" /\ Elapsed(last_redraw) >= MIN_REDRAW_MS)
  /\ UNCHANGED <<nav, dialog, active_draw_fn, encoder_msgq, clock, last_redraw, thread, display, ran>>

FaultyPost(evt) ==                   \* a queue without a limit
  /\ encoder_msgq' = Append(encoder_msgq, evt)
  /\ UNCHANGED <<nav, dialog, active_draw_fn, menu_data_sem, menu_data, clock, last_redraw, thread, display, ran, prompt>>

(* k_msgq_put with K_NO_WAIT: an event that finds the queue full is lost. *)
Post(evt) ==
  /\ encoder_msgq' = IF Len(encoder_msgq) < QueueSize
                       THEN Append(encoder_msgq, evt) ELSE encoder_msgq
  /\ UNCHANGED <<nav, dialog, active_draw_fn, menu_data_sem, menu_data, clock, last_redraw, thread, display, ran, prompt>>

(* Bound: time stops one tick before the age of a redraw would wrap. *)
Tick ==
  /\ Elapsed(last_redraw) < ClockMod - 1
  /\ clock' = (clock + 1) % ClockMod
  /\ UNCHANGED <<nav, dialog, active_draw_fn, encoder_msgq, menu_data_sem, menu_data, last_redraw, thread, display, ran, prompt>>

Next ==
  \/ MenuThread
  \/ \E g \in Groups, s \in Samples \ {NoSample} : MenuUpdate(g, s)
  \/ \E evt \in EventTypes : Post(evt)
  \/ Tick

Spec == Init /\ [][Next]_vars
(* The scheduler runs the thread whenever the threads above it block, and  *)
(* all of them do.                                                         *)
FairSpec == Spec /\ WF_vars(MenuThread)
-----------------------------------------------------------------------------
AtRest == pc = "poll" /\ (menu_data_sem = 0 \/ panel # Blank)

(* Every variable keeps to the values its declaration in menu.c allows. *)
StateTypeOK ==
  /\ current \in Menus /\ selected \in Nat /\ scroll_offset \in Nat
  /\ showing_confirmation \in BOOLEAN /\ confirming_item \in ItemType \cup {Null}
  /\ active_draw_fn \in Screens \cup {Null}
  /\ ran \in ItemType \cup {Null}
QueueTypeOK ==
  /\ encoder_msgq \in Seq(EventTypes) /\ Len(encoder_msgq) <= QueueSize
DataTypeOK ==
  /\ menu_data_sem \in 0..1 /\ menu_data \in [Fields -> Samples]
ThreadTypeOK ==
  /\ pc \in {"poll", "event", "data", "draw", "screen"}
  /\ events \in [msgq : BOOLEAN, sem : BOOLEAN]
  /\ {clock, last_redraw, now} \subseteq 0..(ClockMod - 1)
  /\ drawn \in Nat /\ prompt \in BOOLEAN
DisplayTypeOK == DOMAIN framebuffer = Rows /\ DOMAIN panel = Rows
TypeOK == StateTypeOK /\ QueueTypeOK /\ DataTypeOK /\ ThreadTypeOK /\ DisplayTypeOK

(* The selected item exists and is inside the window of the screen, and    *)
(* the window has no empty row a longer menu could fill: what the boundary *)
(* arithmetic of update_scroll must get right at both ends of a menu.      *)
SelectedVisible ==
  LET n == ItemCount(current)
  IN /\ selected < n
     /\ scroll_offset <= selected /\ selected < scroll_offset + MENU_VISIBLE_ROWS
     /\ scroll_offset = 0 \/ scroll_offset + MENU_VISIBLE_ROWS <= n

(* What the thread will have on the OLED when it is idle, apart from the   *)
(* samples in the data rows: the question, the open screen, or the window  *)
(* of the menu with the selected item, and only it, highlighted.           *)
Kind(cell)   == {[kind |-> c.kind, of |-> IF c.kind = "data" THEN c.of[1] ELSE c.of,
                   mark |-> c.mark] : c \in cell}
FieldsIn(r)  == {Reads[active_draw_fn][i].field :
                   i \in {j \in DOMAIN Reads[active_draw_fn] : Reads[active_draw_fn][j].row = r}}
ShowsQuestion(item) == panel = ConfirmationRows(item)
ShowsScreen ==
  /\ panel[0] = {Label("title", active_draw_fn)}
  /\ \A r \in Rows \ {0} : Kind(panel[r]) \subseteq {Label("data", f) : f \in FieldsIn(r)}
ShowsMenu ==
  \A r \in Rows :
    panel[r] = IF r = 0 THEN {Label("title", current)}
               ELSE IF scroll_offset + r <= ItemCount(current)
                 THEN {ItemCell(scroll_offset + r - 1, scroll_offset + r - 1 = selected)}
                 ELSE {}

(* The shape of a tree that a menu drawn over what was there needs: from a *)
(* menu one comes to others that draw as many rows, and a menu that asks   *)
(* draws as many as the question.                                          *)
ItemsOf(m) == {Items[m][i] : i \in DOMAIN Items[m]}
Height(m)  == IF ItemCount(m) < MENU_VISIBLE_ROWS THEN ItemCount(m) ELSE MENU_VISIBLE_ROWS
TreeFits ==
  \A m \in Menus :
    /\ Parent[m] # Null => Height(Parent[m]) >= Height(m)
    /\ \A item \in ItemsOf(m) :
         /\ item.submenu # Null => Height(item.submenu) >= Height(m)
         /\ item.needs_confirmation => Height(m) >= 4

(* Whenever the thread waits for input, the OLED shows the state the next  *)
(* event will act on; no row of an earlier screen is left on it.  The code *)
(* relies on every path that skips clear_display overwriting enough rows.  *)
PanelFaithful ==
  AtRest => \/ showing_confirmation /\ ShowsQuestion(confirming_item)
            \/ ~showing_confirmation /\ active_draw_fn # Null /\ ShowsScreen
            \/ ~showing_confirmation /\ active_draw_fn = Null /\ ShowsMenu

(* A command that needs confirmation runs only by a double press handled   *)
(* while the OLED shows the question about that very command, however the  *)
(* events were queued.                                                     *)
ConfirmedOnPanel ==
  [][ran' # ran /\ ran' # Null /\ ran'.needs_confirmation
       => Head(encoder_msgq) = "DOUBLE_PRESS" /\ ShowsQuestion(ran')]_vars

(* The menu implements CommandGuard: no interleaving of events, redraws    *)
(* and updates runs a command twice for one answer, without its question,  *)
(* or while another question stands.                                       *)
NeedsConfirmation(item) == item.needs_confirmation
Guard == INSTANCE CommandGuard
           WITH Items <- UNION {ItemsOf(m) : m \in Menus}, NoItem <- Null,
                asking <- confirming_item
CommandsGuarded == Guard!Spec

(* An update that finds the thread idle and the last redraw old enough is  *)
(* on the OLED once its semaphore has been taken and the thread is idle    *)
(* again, in every field the screen shows, with no mix of old and new.     *)
PromptUpdateShown ==
  pc = "poll" /\ menu_data_sem = 0 /\ prompt =>
    \A r \in Rows : \A c \in panel[r] : c.kind = "data" => c.of[2] = menu_data[c.of[1]]

(* A queued event and a given semaphore are always consumed: the thread is *)
(* woken for each of its two sources even when the other keeps it busy.    *)
InputServed ==
  /\ encoder_msgq # << >> ~> pc = "data" /\ events.msgq
  /\ menu_data_sem = 1 ~> menu_data_sem = 0
=============================================================================
