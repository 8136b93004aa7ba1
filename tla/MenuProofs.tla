----------------------------- MODULE MenuProofs -----------------------------
(***************************************************************************)
(* Theorems about Menu for every menu tree, display height, queue size,    *)
(* redraw interval and clock width the assumptions of Menu allow, and      *)
(* about ObelicsUI, the menu behind the encoder driver.                    *)
(***************************************************************************)
EXTENDS ObelicsUI, FiniteSetTheorems, TLAPS

(* The confirmation is up exactly when there is an item to confirm, which  *)
(* is the one the hidden cursor is on and a command that asks for it.      *)
DialogConsistent ==
  /\ showing_confirmation <=> confirming_item # Null
  /\ showing_confirmation =>
       /\ confirming_item = SelectedItem
       /\ confirming_item.needs_confirmation

(* k_poll's verdict on the queue still stands when the thread acts on it,  *)
(* and a screen is drawn only while no question is up.                     *)
ThreadConsistent ==
  /\ pc = "event" /\ events.msgq => encoder_msgq # << >>
  /\ pc = "screen" => ~showing_confirmation /\ active_draw_fn # Null

(* A question that is not on the OLED is on its way there: the event that  *)
(* raised it obliges this turn of the thread to redraw.                    *)
QuestionShown ==
  showing_confirmation /\ ~ShowsQuestion(confirming_item)
    => (pc = "data" /\ events.msgq) \/ pc = "draw"

Inv == TypeOK /\ SelectedVisible /\ DialogConsistent /\ ThreadConsistent /\ QuestionShown

-----------------------------------------------------------------------------
(* The window update_scroll chooses holds the selected item and is full.   *)
LEMMA ScrollLemma ==
  ASSUME NEW n \in Nat \ {0}, NEW sel \in 0..(n - 1)
  PROVE  /\ update_scroll(n, sel) \in Nat
         /\ update_scroll(n, sel) <= sel
         /\ sel < update_scroll(n, sel) + MENU_VISIBLE_ROWS
         /\ \/ update_scroll(n, sel) = 0
            \/ update_scroll(n, sel) + MENU_VISIBLE_ROWS <= n
  BY DisplayAssumption DEF update_scroll

(* The selected item is one of the current menu's. *)
LEMMA SelectedItemType ==
  ASSUME TypeOK, SelectedVisible
  PROVE  /\ SelectedItem \in ItemType
         /\ SelectedItem \in UNION {ItemsOf(m) : m \in Menus}
         /\ ItemCount(current) \in Nat \ {0}
  <1>1. Items[current] \in Seq(ItemType)
    BY MenuAssumption DEF TypeOK, StateTypeOK
  <1>2. selected + 1 \in 1..Len(Items[current])
    BY <1>1 DEF TypeOK, StateTypeOK, SelectedVisible, ItemCount
  <1>3. SelectedItem \in ItemsOf(current)
    BY <1>1, <1>2 DEF SelectedItem, ItemsOf
  <1> QED
    BY <1>1, <1>2, <1>3, MenuAssumption DEF SelectedItem, ItemCount, TypeOK, StateTypeOK

LEMMA InitInv == Init => Inv
  <1> SUFFICES ASSUME Init PROVE Inv
    OBVIOUS
  <1>1. TypeOK
    <2>1. StateTypeOK
      BY MenuAssumption DEF Init, StateTypeOK
    <2>2. QueueTypeOK
      BY TimingAssumption DEF Init, QueueTypeOK
    <2>3. DataTypeOK
      BY DataAssumption DEF Init, DataTypeOK
    <2>4. ThreadTypeOK
      BY TimingAssumption DEF Init, ThreadTypeOK
    <2>5. DisplayTypeOK
      BY DEF Init, DisplayTypeOK, Blank
    <2> QED
      BY <2>1, <2>2, <2>3, <2>4, <2>5 DEF TypeOK
  <1>2. SelectedVisible
    <2>1. Items[MainMenu] \in Seq(ItemType) /\ Len(Items[MainMenu]) > 0
      BY MenuAssumption
    <2> QED
      BY <2>1, DisplayAssumption DEF Init, SelectedVisible, ItemCount
  <1>3. DialogConsistent /\ ThreadConsistent /\ QuestionShown
    BY DEF Init, DialogConsistent, ThreadConsistent, QuestionShown
  <1> QED
    BY <1>1, <1>2, <1>3 DEF Inv

-----------------------------------------------------------------------------
(* What the handler of one event leaves, whichever event it is.            *)
Handled == StateTypeOK' /\ DisplayTypeOK' /\ SelectedVisible' /\ DialogConsistent'

LEMMA IgnoreLemma ==
  ASSUME Inv, Ignore PROVE Handled
  <1> USE DEF Inv, Ignore, nav, dialog, display
  <1>1. StateTypeOK' /\ DisplayTypeOK'
    BY DEF TypeOK, StateTypeOK, DisplayTypeOK
  <1>2. SelectedVisible' /\ DialogConsistent'
    BY DEF SelectedVisible, DialogConsistent, SelectedItem, ItemCount
  <1> QED
    BY <1>1, <1>2 DEF Handled

LEMMA SelectLemma ==
  ASSUME Inv, ~showing_confirmation, NEW i \in 0..(ItemCount(current) - 1), Select(i)
  PROVE  Handled
  <1>1. ItemCount(current) \in Nat \ {0}
    BY SelectedItemType DEF Inv
  <1>2. i \in Nat
    BY <1>1
  <1>3. /\ scroll_offset' \in Nat /\ scroll_offset' <= i
        /\ i < scroll_offset' + MENU_VISIBLE_ROWS
        /\ scroll_offset' = 0 \/ scroll_offset' + MENU_VISIBLE_ROWS <= ItemCount(current)
    BY <1>1, ScrollLemma DEF Select
  <1>4. StateTypeOK' /\ DisplayTypeOK'
    BY <1>2, <1>3 DEF Inv, TypeOK, StateTypeOK, DisplayTypeOK, Select, dialog, display
  <1>5. SelectedVisible'
    BY <1>1, <1>3 DEF SelectedVisible, ItemCount, Select
  <1>6. DialogConsistent'
    BY DEF Inv, DialogConsistent, Select, dialog
  <1> QED
    BY <1>4, <1>5, <1>6 DEF Handled

LEMMA EnterLemma ==
  ASSUME Inv, ~showing_confirmation, NEW m \in Menus, Enter(m),
         UNCHANGED <<dialog, active_draw_fn>>, ran' = Null, DisplayTypeOK'
  PROVE  Handled
  <1>1. Items[m] \in Seq(ItemType) /\ Len(Items[m]) > 0
    BY MenuAssumption
  <1>2. StateTypeOK'
    BY DEF Inv, TypeOK, StateTypeOK, Enter, dialog
  <1>3. SelectedVisible'
    BY <1>1, DisplayAssumption DEF SelectedVisible, ItemCount, Enter
  <1>4. DialogConsistent'
    BY DEF Inv, DialogConsistent, dialog
  <1> QED
    BY <1>2, <1>3, <1>4 DEF Handled

LEMMA SameMenuLemma ==
  ASSUME Inv, UNCHANGED nav, DisplayTypeOK',
         active_draw_fn' \in Screens \cup {Null}, ran' \in ItemType \cup {Null},
         confirming_item' \in ItemType \cup {Null},
         \/ UNCHANGED dialog
         \/ ~showing_confirmation' /\ showing_confirmation' \in BOOLEAN /\ confirming_item' = Null
         \/ AskConfirmation(SelectedItem)
  PROVE  Handled
  <1>1. StateTypeOK'
    BY DEF Inv, TypeOK, StateTypeOK, nav, dialog, AskConfirmation
  <1>2. SelectedVisible'
    BY DEF Inv, SelectedVisible, ItemCount, nav
  <1>3. DialogConsistent'
    <2>1. CASE UNCHANGED dialog
      BY <2>1 DEF Inv, DialogConsistent, SelectedItem, nav, dialog
    <2>2. CASE ~showing_confirmation' /\ confirming_item' = Null
      BY <2>2 DEF DialogConsistent
    <2>3. CASE AskConfirmation(SelectedItem)
      <3>1. SelectedItem \in ItemType /\ SelectedItem' = SelectedItem
        BY SelectedItemType DEF Inv, nav, SelectedItem
      <3> QED
        BY <2>3, <3>1, MenuAssumption DEF DialogConsistent, AskConfirmation
    <2> QED
      BY <2>1, <2>2, <2>3
  <1> QED
    BY <1>1, <1>2, <1>3 DEF Handled

LEMMA BlankDisplay == clear_display => DisplayTypeOK'
  BY DEF clear_display, DisplayTypeOK, Blank, Rows

LEMMA ConfirmationLemma ==
  ASSUME Inv, showing_confirmation, NEW evt \in EventTypes, ConfirmationEvent(evt)
  PROVE  Handled
  <1>1. CASE EndDialog /\ ran' \in {confirming_item, Null}
    <2>1. UNCHANGED <<nav, active_draw_fn>> /\ DisplayTypeOK'
      BY <1>1 DEF EndDialog, display, Inv, TypeOK, DisplayTypeOK
    <2> QED
      BY <1>1, <2>1, SameMenuLemma DEF EndDialog, Inv, TypeOK, StateTypeOK
  <1>2. CASE Ignore
    BY <1>2, IgnoreLemma
  <1> QED
    BY <1>1, <1>2 DEF ConfirmationEvent

LEMMA ItemLemma ==
  ASSUME Inv, ~showing_confirmation
  PROVE  /\ OpenScreen(SelectedItem) => Handled
         /\ OpenSubmenu(SelectedItem) /\ DisplayTypeOK' => Handled
         /\ AskConfirmation(SelectedItem) => Handled
         /\ RunAction(SelectedItem) => Handled
  <1>0. SelectedItem \in ItemType
    BY SelectedItemType DEF Inv
  <1>1. ASSUME OpenScreen(SelectedItem) PROVE Handled
    <2>1. UNCHANGED <<nav, dialog>> /\ DisplayTypeOK' /\ ran' = Null
      BY <1>1, BlankDisplay DEF OpenScreen
    <2>2. active_draw_fn' \in Screens
      BY <1>0, <1>1 DEF OpenScreen, ItemType
    <2> QED
      BY <2>1, <2>2, SameMenuLemma DEF Inv, TypeOK, StateTypeOK, dialog
  <1>2. ASSUME OpenSubmenu(SelectedItem), DisplayTypeOK' PROVE Handled
    <2>1. SelectedItem.submenu \in Menus
      BY <1>0, <1>2 DEF OpenSubmenu, ItemType
    <2> QED
      BY <1>2, <2>1, EnterLemma DEF OpenSubmenu
  <1>3. ASSUME AskConfirmation(SelectedItem) PROVE Handled
    <2>1. UNCHANGED <<nav, active_draw_fn>> /\ DisplayTypeOK'
      BY <1>3 DEF AskConfirmation, display, Inv, TypeOK, DisplayTypeOK
    <2> QED
      BY <1>0, <1>3, <2>1, SameMenuLemma DEF AskConfirmation, Inv, TypeOK, StateTypeOK
  <1>4. ASSUME RunAction(SelectedItem) PROVE Handled
    <2>1. UNCHANGED <<nav, dialog, active_draw_fn>> /\ DisplayTypeOK' /\ ran' = SelectedItem
      BY <1>4 DEF RunAction, display, Inv, TypeOK, DisplayTypeOK
    <2> QED
      BY <1>0, <2>1, SameMenuLemma DEF Inv, TypeOK, StateTypeOK, dialog
  <1> QED
    BY <1>1, <1>2, <1>3, <1>4

LEMMA MenuEventLemma ==
  ASSUME Inv, ~showing_confirmation, NEW evt \in EventTypes, MenuEvent(evt)
  PROVE  Handled
  <1>0. selected \in 0..(ItemCount(current) - 1) /\ ItemCount(current) \in Nat \ {0}
    BY SelectedItemType DEF Inv, TypeOK, StateTypeOK, SelectedVisible
  <1>1. CASE RotateCw
    <2>1. CASE selected < ItemCount(current) - 1 /\ Select(selected + 1)
      <3>1. selected + 1 \in 0..(ItemCount(current) - 1)
        BY <1>0, <2>1
      <3> QED
        BY <2>1, <3>1, SelectLemma
    <2> QED
      BY <1>1, <2>1, IgnoreLemma DEF RotateCw
  <1>2. CASE RotateCcw
    <2>1. CASE selected > 0 /\ Select(selected - 1)
      <3>1. selected - 1 \in 0..(ItemCount(current) - 1)
        BY <1>0, <2>1
      <3> QED
        BY <2>1, <3>1, SelectLemma
    <2> QED
      BY <1>2, <2>1, IgnoreLemma DEF RotateCcw
  <1>3. CASE DoublePress
    <2>1. UNCHANGED display => DisplayTypeOK'
      BY DEF display, Inv, TypeOK, DisplayTypeOK
    <2> QED
      BY <1>3, <2>1, ItemLemma, IgnoreLemma DEF DoublePress
  <1>4. CASE PressRotateCw
    BY <1>4, ItemLemma, IgnoreLemma, BlankDisplay DEF PressRotateCw
  <1>5. CASE PressRotateCcw
    <2>1. CASE active_draw_fn # Null
      <3>1. UNCHANGED <<nav, dialog>> /\ DisplayTypeOK' /\ ran' = Null /\ active_draw_fn' = Null
        BY <1>5, <2>1, BlankDisplay DEF PressRotateCcw
      <3> QED
        BY <3>1, SameMenuLemma DEF Inv, TypeOK, StateTypeOK, dialog
    <2>2. CASE active_draw_fn = Null /\ Parent[current] # Null
      <3>1. Parent[current] \in Menus
        BY <2>2, MenuAssumption DEF Inv, TypeOK, StateTypeOK
      <3>2. Enter(Parent[current]) /\ UNCHANGED <<dialog, active_draw_fn, display>> /\ ran' = Null
        BY <1>5, <2>2 DEF PressRotateCcw
      <3>3. DisplayTypeOK'
        BY <3>2 DEF display, Inv, TypeOK, DisplayTypeOK
      <3> QED
        BY <3>1, <3>2, <3>3, EnterLemma
    <2> QED
      BY <1>5, <2>1, <2>2, IgnoreLemma DEF PressRotateCcw
  <1> QED
    BY <1>1, <1>2, <1>3, <1>4, <1>5 DEF MenuEvent

-----------------------------------------------------------------------------
(* A step that leaves the menu's state alone keeps what is said of it.     *)
LEMMA StateKept ==
  ASSUME Inv, UNCHANGED <<nav, dialog, active_draw_fn, ran>>
  PROVE  StateTypeOK' /\ SelectedVisible' /\ DialogConsistent'
  BY DEF Inv, TypeOK, StateTypeOK, SelectedVisible, DialogConsistent, SelectedItem, ItemCount, nav, dialog

LEMMA HandleEventInv ==
  ASSUME Inv, HandleEvent PROVE Inv'
  <1> DEFINE evt == Head(encoder_msgq)
  <1>1. encoder_msgq \in Seq(EventTypes) /\ encoder_msgq # << >> /\ pc = "event" /\ events.msgq
    BY DEF HandleEvent, Inv, TypeOK, QueueTypeOK, ThreadConsistent
  <1>2. evt \in EventTypes
    BY <1>1
  <1>3. Handled
    BY <1>2, ConfirmationLemma, MenuEventLemma DEF HandleEvent, menu_handle_event
  <1>4. QueueTypeOK'
    <2>1. encoder_msgq' \in Seq(EventTypes) /\ Len(encoder_msgq') = Len(encoder_msgq) - 1
      BY <1>1 DEF HandleEvent
    <2> QED
      BY <2>1, TimingAssumption DEF Inv, TypeOK, QueueTypeOK
  <1>5. DataTypeOK' /\ ThreadTypeOK'
    BY DEF HandleEvent, Inv, TypeOK, DataTypeOK, ThreadTypeOK
  <1>6. ThreadConsistent' /\ QuestionShown'
    BY <1>1 DEF HandleEvent, ThreadConsistent, QuestionShown
  <1> QED
    BY <1>3, <1>4, <1>5, <1>6 DEF Handled, Inv, TypeOK

LEMMA RedrawInv ==
  ASSUME Inv, menu_redraw PROVE Inv'
  <1>1. UNCHANGED <<nav, dialog, active_draw_fn, shared, ran>>
    BY DEF menu_redraw, draw_confirmation_screen, draw_menu_screen, BeginScreen, ReadField, FinishScreen
  <1>2. StateTypeOK' /\ SelectedVisible' /\ DialogConsistent'
    BY <1>1, StateKept
  <1>3. QueueTypeOK' /\ DataTypeOK'
    BY <1>1 DEF Inv, TypeOK, QueueTypeOK, DataTypeOK, shared
  <1>4. ThreadTypeOK'
    BY <1>1 DEF shared, menu_redraw, draw_confirmation_screen, draw_menu_screen, BeginScreen, ReadField,
                FinishScreen, EndRedraw, Inv, TypeOK, ThreadTypeOK
  <1>5. DisplayTypeOK'
    <2>1. DOMAIN Blank = Rows
      BY DEF Blank
    <2>2. CASE draw_confirmation_screen
      BY <2>2 DEF draw_confirmation_screen, ConfirmationRows, DisplayTypeOK, Rows
    <2>3. CASE draw_menu_screen
      BY <2>3 DEF draw_menu_screen, MenuRows, DisplayTypeOK, Rows
    <2>4. CASE BeginScreen
      BY <2>1, <2>4 DEF BeginScreen, DisplayTypeOK, Rows
    <2>5. CASE ReadField
      BY <2>5 DEF ReadField, Inv, TypeOK, DisplayTypeOK, Rows
    <2>6. CASE FinishScreen
      BY <2>6 DEF FinishScreen, Inv, TypeOK, DisplayTypeOK, Rows
    <2> QED
      BY <2>2, <2>3, <2>4, <2>5, <2>6 DEF menu_redraw
  <1>6. ThreadConsistent'
    BY <1>1 DEF dialog, shared, menu_redraw, draw_confirmation_screen, draw_menu_screen, BeginScreen,
                ReadField, FinishScreen, EndRedraw, Inv, ThreadConsistent
  <1>7. QuestionShown'
    <2>1. CASE draw_confirmation_screen
      <3>1. ShowsQuestion(confirming_item)'
        BY <1>1, <2>1 DEF draw_confirmation_screen, ShowsQuestion, ConfirmationRows, Rows, dialog
      <3> QED
        BY <3>1 DEF QuestionShown
    <2>2. CASE ~draw_confirmation_screen
      <3>1. ~showing_confirmation
        BY <2>2 DEF menu_redraw, draw_menu_screen, BeginScreen, ReadField, FinishScreen, Inv, ThreadConsistent
      <3> QED
        BY <1>1, <3>1 DEF QuestionShown, dialog
    <2> QED
      BY <2>1, <2>2
  <1> QED
    BY <1>2, <1>3, <1>4, <1>5, <1>6, <1>7 DEF Inv, TypeOK

(* The steps that touch neither the menu's state nor the display. *)
LEMMA QuietInv ==
  ASSUME Inv, Poll \/ NoEvent \/ TakeData PROVE Inv'
  <1>1. UNCHANGED <<nav, dialog, active_draw_fn, display, ran, encoder_msgq, menu_data>>
    BY DEF Poll, NoEvent, TakeData, shared
  <1>2. StateTypeOK' /\ SelectedVisible' /\ DialogConsistent'
    BY <1>1, StateKept
  <1>3. QueueTypeOK' /\ DisplayTypeOK'
    BY <1>1 DEF Inv, TypeOK, QueueTypeOK, DisplayTypeOK, display
  <1>4. DataTypeOK'
    BY <1>1 DEF Poll, NoEvent, TakeData, shared, Inv, TypeOK, DataTypeOK
  <1>5. UNCHANGED <<clock, last_redraw, drawn, prompt>> /\ now' \in {now, clock}
    BY DEF Poll, NoEvent, TakeData, shared
  <1>6. CASE Poll
    <2>1. events' \in [msgq : BOOLEAN, sem : BOOLEAN] /\ (events'.msgq => encoder_msgq # << >>)
      BY <1>6 DEF Poll
    <2>2. ThreadTypeOK'
      BY <1>5, <1>6, <2>1 DEF Poll, Inv, TypeOK, ThreadTypeOK
    <2>3. ThreadConsistent' /\ QuestionShown'
      BY <1>1, <1>6, <2>1 DEF Poll, Inv, ThreadConsistent, QuestionShown, ShowsQuestion, dialog, display
    <2> QED
      BY <1>2, <1>3, <1>4, <2>2, <2>3 DEF Inv, TypeOK
  <1>7. CASE NoEvent
    <2>1. ThreadTypeOK'
      BY <1>5, <1>7 DEF NoEvent, Inv, TypeOK, ThreadTypeOK
    <2>2. ThreadConsistent' /\ QuestionShown'
      BY <1>1, <1>7 DEF NoEvent, Inv, ThreadConsistent, QuestionShown, ShowsQuestion, dialog, display
    <2> QED
      BY <1>2, <1>3, <1>4, <2>1, <2>2 DEF Inv, TypeOK
  <1>8. CASE TakeData
    <2>1. ThreadTypeOK'
      BY <1>5, <1>8 DEF TakeData, Inv, TypeOK, ThreadTypeOK
    <2>2. events.msgq => pc' = "draw"
      BY <1>8 DEF TakeData, ShouldRedraw
    <2>3. pc = "data" /\ pc' \in {"draw", "poll"}
      BY <1>8 DEF TakeData
    <2>4. ThreadConsistent' /\ QuestionShown'
      BY <1>1, <2>2, <2>3 DEF Inv, ThreadConsistent, QuestionShown, ShowsQuestion, dialog, display
    <2> QED
      BY <1>2, <1>3, <1>4, <2>1, <2>4 DEF Inv, TypeOK
  <1> QED
    BY <1>6, <1>7, <1>8

(* The steps of the rest of the system. *)
LEMMA EnvironmentInv ==
  ASSUME Inv,
         \/ \E g \in Groups, s \in Samples \ {NoSample} : MenuUpdate(g, s)
         \/ \E evt \in EventTypes : Post(evt)
         \/ Tick
  PROVE  Inv'
  <1>1. UNCHANGED <<nav, dialog, active_draw_fn, display, ran, thread, last_redraw>>
    BY DEF MenuUpdate, Post, Tick
  <1>2. StateTypeOK' /\ SelectedVisible' /\ DialogConsistent'
    BY <1>1, StateKept
  <1>3. QueueTypeOK' /\ (encoder_msgq # << >> => encoder_msgq' # << >>)
    BY TimingAssumption DEF MenuUpdate, Post, Tick, Inv, TypeOK, QueueTypeOK
  <1>4. DataTypeOK' /\ DisplayTypeOK'
    BY <1>1 DEF MenuUpdate, Post, Tick, Inv, TypeOK, DataTypeOK, DisplayTypeOK, display
  <1>5. ThreadTypeOK'
    <2>1. (clock + 1) % ClockMod \in 0..(ClockMod - 1)
      BY TimingAssumption DEF Inv, TypeOK, ThreadTypeOK
    <2>2. clock' \in 0..(ClockMod - 1) /\ prompt' \in BOOLEAN
      BY <2>1 DEF MenuUpdate, Post, Tick, Inv, TypeOK, ThreadTypeOK
    <2> QED
      BY <1>1, <2>2 DEF Inv, TypeOK, ThreadTypeOK, thread
  <1>6. ThreadConsistent' /\ QuestionShown'
    BY <1>1, <1>3 DEF Inv, ThreadConsistent, QuestionShown, ShowsQuestion, dialog, display, thread
  <1> QED
    BY <1>2, <1>3, <1>4, <1>5, <1>6 DEF Inv, TypeOK

LEMMA NextInv == Inv /\ [Next]_vars => Inv'
  <1> SUFFICES ASSUME Inv, [Next]_vars PROVE Inv'
    OBVIOUS
  <1>1. CASE MenuThread
    BY <1>1, HandleEventInv, RedrawInv, QuietInv DEF MenuThread
  <1>2. CASE UNCHANGED vars
    BY <1>2 DEF vars, nav, dialog, shared, thread, display, Inv, TypeOK, StateTypeOK, QueueTypeOK,
                DataTypeOK, ThreadTypeOK, DisplayTypeOK, SelectedVisible, DialogConsistent,
                ThreadConsistent, QuestionShown, ShowsQuestion, SelectedItem, ItemCount
  <1> QED
    BY <1>1, <1>2, EnvironmentInv DEF Next

LEMMA Invariance == Spec => []Inv
  BY InitInv, NextInv, PTL DEF Spec

(* The state of menu.c keeps to its declared values in every behaviour of  *)
(* the thread, its callers and its interrupts.                             *)
THEOREM MenuTypeOK == Spec => []TypeOK
  <1>1. Inv => TypeOK
    BY DEF Inv
  <1> QED
    BY <1>1, Invariance, PTL

(* Whatever the length of the menus and the height of the display, the     *)
(* selected item exists and is in the window update_scroll chose, so the   *)
(* items[selected] of menu_handle_event stays inside the array.            *)
THEOREM WindowTheorem == Spec => []SelectedVisible
  <1>1. Inv => SelectedVisible
    BY DEF Inv
  <1> QED
    BY <1>1, Invariance, PTL

-----------------------------------------------------------------------------
(* What one event can do to the command history and the dialog.            *)
LEMMA EventRuns ==
  ASSUME Inv, NEW evt \in EventTypes, menu_handle_event(evt)
  PROVE  \/ ran' = Null
         \/ /\ evt = "DOUBLE_PRESS" /\ showing_confirmation /\ ran' = confirming_item
            /\ confirming_item' = Null
         \/ /\ ~showing_confirmation /\ confirming_item' = confirming_item
            /\ ran' = SelectedItem /\ ~SelectedItem.needs_confirmation
  <1>1. CASE showing_confirmation
    BY <1>1 DEF menu_handle_event, ConfirmationEvent, EndDialog, Ignore
  <1>2. CASE ~showing_confirmation
    <2>1. CASE ran' # Null
      <3>1. RunAction(SelectedItem)
        BY <1>2, <2>1 DEF menu_handle_event, MenuEvent, RotateCw, RotateCcw, DoublePress, PressRotateCw,
           PressRotateCcw, Select, Ignore, OpenScreen, OpenSubmenu, AskConfirmation
      <3> QED
        BY <1>2, <3>1 DEF RunAction, dialog
    <2> QED
      BY <2>1
  <1> QED
    BY <1>1, <1>2

(* A command that needs confirmation runs only while the OLED shows the    *)
(* question about that command, for every menu tree and every order of     *)
(* events, redraws and updates.                                            *)
THEOREM ConfirmationTheorem == Spec => ConfirmedOnPanel
  <1> DEFINE Confirmed == ran' # ran /\ ran' # Null /\ ran'.needs_confirmation
                            => Head(encoder_msgq) = "DOUBLE_PRESS" /\ ShowsQuestion(ran')
  <1>1. Inv /\ [Next]_vars => [Confirmed]_vars
    <2> SUFFICES ASSUME Inv, Next, ran' # ran, ran' # Null, ran'.needs_confirmation
                 PROVE  Head(encoder_msgq) = "DOUBLE_PRESS" /\ ShowsQuestion(ran')
      OBVIOUS
    <2>1. HandleEvent
      BY DEF Next, MenuThread, Poll, NoEvent, TakeData, menu_redraw, draw_confirmation_screen,
             draw_menu_screen, BeginScreen, ReadField, FinishScreen, MenuUpdate, Post, Tick
    <2>2. Head(encoder_msgq) \in EventTypes /\ pc = "event"
      BY <2>1 DEF HandleEvent, Inv, TypeOK, QueueTypeOK, ThreadConsistent
    <2>3. Head(encoder_msgq) = "DOUBLE_PRESS" /\ showing_confirmation /\ ran' = confirming_item
      BY <2>1, <2>2, EventRuns DEF HandleEvent
    <2> QED
      BY <2>2, <2>3 DEF Inv, QuestionShown
  <1> QED
    BY <1>1, Invariance, PTL DEF Spec, ConfirmedOnPanel

-----------------------------------------------------------------------------
(* Which event moves the menu in or out of a question. *)
LEMMA EventGuards ==
  ASSUME Inv, NEW evt \in EventTypes, menu_handle_event(evt)
  PROVE  Guard!Next
  <1>1. /\ SelectedItem \in UNION {ItemsOf(m) : m \in Menus}
        /\ showing_confirmation <=> confirming_item # Null
    BY SelectedItemType DEF Inv, DialogConsistent
  <1> USE DEF Guard!Next, Guard!Ask, Guard!Run, Guard!Confirm, Guard!Cancel, Guard!Other, NeedsConfirmation
  <1>2. CASE showing_confirmation
    BY <1>1, <1>2 DEF menu_handle_event, ConfirmationEvent, EndDialog, Ignore, dialog
  <1>3. CASE ~showing_confirmation
    <2>1. CASE AskConfirmation(SelectedItem)
      BY <1>1, <1>3, <2>1 DEF AskConfirmation
    <2>2. CASE RunAction(SelectedItem)
      BY <1>1, <1>3, <2>2 DEF RunAction, dialog
    <2>3. CASE ~AskConfirmation(SelectedItem) /\ ~RunAction(SelectedItem)
      <3>1. ran' = Null /\ UNCHANGED dialog
        BY <1>3, <2>3 DEF menu_handle_event, MenuEvent, RotateCw, RotateCcw, DoublePress, PressRotateCw,
           PressRotateCcw, Select, Ignore, OpenScreen, OpenSubmenu
      <3> QED
        BY <3>1 DEF dialog
    <2> QED
      BY <2>1, <2>2, <2>3
  <1> QED
    BY <1>2, <1>3

(* The menu implements CommandGuard: every question is answered once, and  *)
(* nothing else runs a command that needs one, for every menu tree, queue  *)
(* size and order of events.                                               *)
THEOREM GuardTheorem == Spec => CommandsGuarded
  <1>1. Init => Guard!Init
    BY DEF Init, Guard!Init
  <1>2. Inv /\ [Next]_vars => [Guard!Next]_<<confirming_item, ran>>
    <2> SUFFICES ASSUME Inv, [Next]_vars, ~UNCHANGED <<confirming_item, ran>>
                 PROVE  Guard!Next
      OBVIOUS
    <2>1. HandleEvent
      BY DEF Next, MenuThread, Poll, NoEvent, TakeData, menu_redraw, draw_confirmation_screen,
             draw_menu_screen, BeginScreen, ReadField, FinishScreen, MenuUpdate, Post, Tick, vars, dialog
    <2>2. Head(encoder_msgq) \in EventTypes
      BY <2>1 DEF HandleEvent, Inv, TypeOK, QueueTypeOK, ThreadConsistent
    <2> QED
      BY <2>1, <2>2, EventGuards DEF HandleEvent
  <1> QED
    BY <1>1, <1>2, Invariance, PTL DEF Spec, CommandsGuarded, Guard!Spec

-----------------------------------------------------------------------------
(* An update that came while the thread waited and no redraw was recent    *)
(* is either still ahead of the thread, which has been told of it and will *)
(* find the last redraw old enough, or all the data drawn since is that of *)
(* the update.  A redraw of the menu leaves rows as they are, so it must   *)
(* also be known that there is no data in them once the screen is left.    *)
Current(rows) == \A r \in Rows : \A c \in rows[r] : c.kind = "data" => c.of[2] = menu_data[c.of[1]]
NoData(rows)  == \A r \in Rows : \A c \in rows[r] : c.kind # "data"

UpdateAhead ==
  /\ pc \in {"poll", "event", "data"} /\ (pc # "poll" => events.sem)
  /\ Elapsed(last_redraw) >= MIN_REDRAW_MS
UpdateDrawn ==
  \/ pc = "draw"
  \/ pc = "screen" /\ Current(framebuffer)
  \/ pc \in {"poll", "event", "data"} /\ Current(panel)

PromptInv ==
  /\ active_draw_fn = Null => NoData(framebuffer)
  /\ prompt /\ menu_data_sem = 1 => UpdateAhead
  /\ prompt /\ menu_data_sem = 0 => UpdateDrawn

LEMMA BlankHasNoData == NoData(Blank)
  BY DEF NoData, Blank

(* An open screen is closed by clearing the display, and by nothing else.  *)
LEMMA EventPrompt ==
  ASSUME NEW evt, menu_handle_event(evt)
  PROVE  \/ framebuffer' = Blank /\ panel' = Blank
         \/ UNCHANGED <<active_draw_fn, framebuffer, panel>>
  <1> USE DEF display, clear_display
  <1>1. CASE ConfirmationEvent(evt)
    BY <1>1 DEF ConfirmationEvent, EndDialog, Ignore
  <1>2. CASE MenuEvent(evt)
    <2>1. CASE RotateCw \/ RotateCcw
      BY <2>1 DEF RotateCw, RotateCcw, Select, Ignore
    <2>2. CASE DoublePress
      BY <2>2 DEF DoublePress, OpenScreen, OpenSubmenu, AskConfirmation, RunAction, Ignore
    <2>3. CASE PressRotateCw
      BY <2>3 DEF PressRotateCw, OpenScreen, OpenSubmenu, Ignore
    <2>4. CASE PressRotateCcw
      BY <2>4 DEF PressRotateCcw, Ignore
    <2> QED
      BY <1>2, <2>1, <2>2, <2>3, <2>4 DEF MenuEvent
  <1> QED
    BY <1>1, <1>2 DEF menu_handle_event

LEMMA HandleEventPrompt ==
  ASSUME PromptInv, HandleEvent PROVE PromptInv'
  <1>1. \/ framebuffer' = Blank /\ panel' = Blank
        \/ UNCHANGED <<active_draw_fn, framebuffer, panel>>
    BY EventPrompt DEF HandleEvent
  <1>2. UNCHANGED <<menu_data, menu_data_sem, prompt, events, clock, last_redraw>> /\ pc = "event" /\ pc' = "data"
    BY DEF HandleEvent
  <1>3. (active_draw_fn = Null => NoData(framebuffer))'
    BY <1>1, BlankHasNoData DEF PromptInv, NoData
  <1>4. (prompt /\ menu_data_sem = 1 => UpdateAhead)'
    BY <1>2 DEF PromptInv, UpdateAhead, Elapsed
  <1>5. (prompt /\ menu_data_sem = 0 => UpdateDrawn)'
    <2>1. Current(panel) => Current(panel)'
      BY <1>1, <1>2 DEF Current, Blank
    <2> QED
      BY <1>2, <2>1 DEF PromptInv, UpdateDrawn
  <1> QED
    BY <1>3, <1>4, <1>5 DEF PromptInv

LEMMA QuietPrompt ==
  ASSUME TypeOK, PromptInv, Poll \/ NoEvent \/ TakeData PROVE PromptInv'
  <1>1. UNCHANGED <<active_draw_fn, framebuffer, panel, menu_data, prompt, clock, last_redraw>>
    BY DEF Poll, NoEvent, TakeData, shared, display
  <1>2. (active_draw_fn = Null => NoData(framebuffer))' /\ (Current(panel) => Current(panel)')
    BY <1>1 DEF PromptInv, NoData, Current
  <1>3. UNCHANGED Elapsed(last_redraw)
    BY <1>1 DEF Elapsed
  <1>4. CASE Poll
    <2>1. menu_data_sem' = menu_data_sem /\ pc = "poll" /\ pc' = "event" /\ events'.sem = (menu_data_sem = 1)
      BY <1>4 DEF Poll, shared
    <2> QED
      BY <1>1, <1>2, <1>3, <2>1 DEF PromptInv, UpdateAhead, UpdateDrawn
  <1>5. CASE NoEvent
    <2>1. UNCHANGED <<menu_data_sem, events>> /\ pc = "event" /\ pc' = "data"
      BY <1>5 DEF NoEvent, shared
    <2> QED
      BY <1>1, <1>2, <1>3, <2>1 DEF PromptInv, UpdateAhead, UpdateDrawn
  <1>6. CASE TakeData
    <2>1. pc = "data" /\ pc' \in {"poll", "draw"} /\ menu_data_sem \in 0..1
      BY <1>6 DEF TakeData, TypeOK, DataTypeOK
    <2>2. CASE prompt /\ menu_data_sem = 1
      <3>1. menu_data_sem' = 0 /\ pc' = "draw"
        BY <1>6, <2>1, <2>2 DEF TakeData, PromptInv, UpdateAhead, ShouldRedraw
      <3> QED
        BY <1>2, <3>1 DEF PromptInv, UpdateDrawn
    <2>3. CASE prompt /\ menu_data_sem = 0
      <3>1. menu_data_sem' = 0 /\ Current(panel)
        BY <1>6, <2>1, <2>3 DEF TakeData, PromptInv, UpdateDrawn
      <3> QED
        BY <1>2, <2>1, <3>1 DEF PromptInv, UpdateDrawn
    <2> QED
      BY <1>1, <1>2, <2>1, <2>2, <2>3 DEF PromptInv
  <1> QED
    BY <1>4, <1>5, <1>6

LEMMA RedrawPrompt ==
  ASSUME Inv, PromptInv, menu_redraw PROVE PromptInv'
  <1>1. UNCHANGED <<active_draw_fn, menu_data, menu_data_sem, prompt>> /\ pc \in {"draw", "screen"}
    BY DEF menu_redraw, draw_confirmation_screen, draw_menu_screen, BeginScreen, ReadField, FinishScreen, shared
  <1>2. prompt /\ menu_data_sem = 0 /\ pc = "screen" => Current(framebuffer)
    BY DEF PromptInv, UpdateDrawn
  <1>3. ~(prompt /\ menu_data_sem = 1)'
    BY <1>1 DEF PromptInv, UpdateAhead
  <1>4. CASE draw_confirmation_screen
    <2>1. \A r \in Rows : \A c \in ConfirmationRows(confirming_item)[r] : c.kind # "data"
      BY DEF ConfirmationRows, Label
    <2>2. NoData(framebuffer)' /\ Current(panel)' /\ pc' = "poll"
      BY <1>4, <2>1 DEF draw_confirmation_screen, EndRedraw, NoData, Current
    <2> QED
      BY <1>3, <2>2 DEF PromptInv, UpdateDrawn
  <1>5. CASE draw_menu_screen
    <2>1. NoData(framebuffer)
      BY <1>5 DEF draw_menu_screen, PromptInv
    <2>2. ASSUME NEW r \in Rows, NEW c \in MenuRows(framebuffer)[r] PROVE c.kind # "data"
      BY <2>1, <2>2 DEF MenuRows, NoData, Label, ItemCell
    <2>3. NoData(framebuffer)' /\ Current(panel)' /\ pc' = "poll"
      BY <1>5, <2>2 DEF draw_menu_screen, EndRedraw, NoData, Current
    <2> QED
      BY <1>3, <2>3 DEF PromptInv, UpdateDrawn
  <1>6. CASE BeginScreen
    <2>1. \A r \in Rows : \A c \in framebuffer'[r] : c.kind # "data"
      BY <1>6 DEF BeginScreen, Blank, Label
    <2>2. pc' = "screen" /\ NoData(framebuffer)' /\ Current(framebuffer)'
      BY <1>6, <2>1 DEF BeginScreen, NoData, Current
    <2> QED
      BY <1>3, <2>2 DEF PromptInv, UpdateDrawn
  <1>7. CASE ReadField
    <2>1. active_draw_fn # Null /\ pc' = "screen" /\ pc = "screen"
      BY <1>7 DEF ReadField, Inv, ThreadConsistent
    <2>2. Current(framebuffer) => Current(framebuffer)'
      <3> DEFINE rd == Reads[active_draw_fn][drawn + 1]
                 new == DataCell(rd.field, menu_data[rd.field])
      <3>1. framebuffer' = [framebuffer EXCEPT ![rd.row] = @ \cup {new}]
        BY <1>7 DEF ReadField
      <3>2. new.of[2] = menu_data[new.of[1]]
        BY DEF DataCell
      <3>3. DOMAIN framebuffer = Rows
        BY DEF Inv, TypeOK, DisplayTypeOK
      <3> HIDE DEF new, rd
      <3>4. \A r \in Rows : framebuffer'[r] \subseteq framebuffer[r] \cup {new}
        BY <3>1, <3>3
      <3> QED
        BY <1>1, <3>2, <3>4 DEF Current
    <2> QED
      BY <1>1, <1>2, <1>3, <2>1, <2>2 DEF PromptInv, UpdateDrawn
  <1>8. CASE FinishScreen
    <2>1. active_draw_fn # Null /\ pc = "screen"
      BY <1>8 DEF FinishScreen, Inv, ThreadConsistent
    <2>2. panel' = framebuffer /\ pc' = "poll"
      BY <1>8 DEF FinishScreen, EndRedraw
    <2>3. Current(framebuffer) => Current(panel)'
      BY <1>1, <2>2 DEF Current
    <2> QED
      BY <1>1, <1>2, <1>3, <2>1, <2>2, <2>3 DEF PromptInv, UpdateDrawn
  <1> QED
    BY <1>4, <1>5, <1>6, <1>7, <1>8 DEF menu_redraw

(* Until the age of a redraw would wrap, a tick makes it one tick older.   *)
LEMMA TickAges ==
  ASSUME NEW M \in Nat \ {0}, NEW c \in 0..(M - 1), NEW t \in 0..(M - 1), (c - t) % M < M - 1
  PROVE  (((c + 1) % M) - t) % M = ((c - t) % M) + 1
  <1>1. \A a \in 0..(M - 1) : a % M = a /\ (a - M) % M = a
    BY Z3
  <1>2. M % M = 0
    BY Z3
  <1>3. (c + 1) % M = IF c = M - 1 THEN 0 ELSE c + 1
    BY <1>1, <1>2
  <1>4. \A a \in 0..(M - 1) : (a - t) % M = IF a >= t THEN a - t ELSE a - t + M
    <2> TAKE a \in 0..(M - 1)
    <2>1. CASE a >= t
      BY <1>1, <2>1
    <2>2. CASE a < t
      <3>1. a - t + M \in 0..(M - 1) /\ a - t = (a - t + M) - M
        BY <2>2
      <3> QED
        BY <1>1, <2>2, <3>1
    <2> QED
      BY <2>1, <2>2
  <1> QED
    BY <1>3, <1>4

(* What goes on beside the thread does not make a redraw recent again.     *)
LEMMA RedrawAges ==
  ASSUME TypeOK,
         \/ \E g \in Groups, s \in Samples \ {NoSample} : MenuUpdate(g, s)
         \/ \E evt \in EventTypes : Post(evt)
         \/ Tick,
         Elapsed(last_redraw) >= MIN_REDRAW_MS
  PROVE  Elapsed(last_redraw)' >= MIN_REDRAW_MS
  <1>1. CASE \/ \E g \in Groups, s \in Samples \ {NoSample} : MenuUpdate(g, s)
             \/ \E evt \in EventTypes : Post(evt)
    BY <1>1 DEF MenuUpdate, Post, Elapsed
  <1>2. CASE Tick
    <2>1. ClockMod \in Nat \ {0} /\ MIN_REDRAW_MS \in Nat /\ {clock, last_redraw} \subseteq 0..(ClockMod - 1)
      BY TimingAssumption DEF TypeOK, ThreadTypeOK
    <2>2. (clock - last_redraw) % ClockMod < ClockMod - 1
          /\ clock' = (clock + 1) % ClockMod /\ last_redraw' = last_redraw
      BY <1>2 DEF Tick, Elapsed
    <2>3. Elapsed(last_redraw)' = Elapsed(last_redraw) + 1
      BY <2>1, <2>2, TickAges DEF Elapsed
    <2>4. Elapsed(last_redraw) \in Nat
      BY <2>1 DEF Elapsed
    <2> QED
      BY <2>1, <2>3, <2>4
  <1> QED
    BY <1>1, <1>2

LEMMA InitAge ==
  ASSUME Init PROVE Elapsed(last_redraw) >= MIN_REDRAW_MS
  <1>1. clock \in Nat /\ clock < ClockMod /\ MIN_REDRAW_MS <= clock /\ ClockMod \in Nat \ {0}
    BY TimingAssumption DEF Init
  <1>2. clock % ClockMod = clock
    BY <1>1, Z3
  <1> QED
    BY <1>1, <1>2 DEF Init, Elapsed

LEMMA EnvironmentPrompt ==
  ASSUME TypeOK, PromptInv,
         \/ \E g \in Groups, s \in Samples \ {NoSample} : MenuUpdate(g, s)
         \/ \E evt \in EventTypes : Post(evt)
         \/ Tick
  PROVE  PromptInv'
  <1>1. UNCHANGED <<active_draw_fn, framebuffer, panel, pc, events, last_redraw>>
    BY DEF MenuUpdate, Post, Tick, display, thread
  <1>2. (active_draw_fn = Null => NoData(framebuffer))'
    BY <1>1 DEF PromptInv, NoData
  <1>3. CASE \E g \in Groups, s \in Samples \ {NoSample} : MenuUpdate(g, s)
    <2>1. menu_data_sem' = 1
      BY <1>3 DEF MenuUpdate
    <2>2. prompt' => pc = "poll" /\ Elapsed(last_redraw) >= MIN_REDRAW_MS
      BY <1>3, Zenon DEF MenuUpdate
    <2>3. UNCHANGED Elapsed(last_redraw)
      BY <1>3 DEF MenuUpdate, Elapsed
    <2> QED
      BY <1>1, <1>2, <2>1, <2>2, <2>3 DEF PromptInv, UpdateAhead
  <1>4. CASE (\E evt \in EventTypes : Post(evt)) \/ Tick
    <2>1. UNCHANGED <<menu_data, menu_data_sem, prompt>>
      BY <1>4 DEF Post, Tick
    <2>2. Elapsed(last_redraw) >= MIN_REDRAW_MS => Elapsed(last_redraw)' >= MIN_REDRAW_MS
      BY RedrawAges
    <2>3. Current(panel) => Current(panel)'
      BY <1>1, <2>1 DEF Current
    <2>4. Current(framebuffer) => Current(framebuffer)'
      BY <1>1, <2>1 DEF Current
    <2> QED
      BY <1>1, <1>2, <2>1, <2>2, <2>3, <2>4 DEF PromptInv, UpdateAhead, UpdateDrawn
  <1> QED
    BY <1>3, <1>4

LEMMA PromptNext == Inv /\ PromptInv /\ [Next]_vars => PromptInv'
  <1> SUFFICES ASSUME Inv, PromptInv, [Next]_vars PROVE PromptInv'
    OBVIOUS
  <1>1. TypeOK
    BY DEF Inv
  <1>2. CASE MenuThread
    BY <1>1, <1>2, HandleEventPrompt, RedrawPrompt, QuietPrompt DEF MenuThread
  <1>3. CASE UNCHANGED vars
    BY <1>3 DEF vars, shared, thread, display, PromptInv, NoData, Current, UpdateAhead, UpdateDrawn, Elapsed
  <1> QED
    BY <1>1, <1>2, <1>3, EnvironmentPrompt DEF Next

(* An update that finds the thread idle and no redraw recent is on the     *)
(* OLED, whole, when its semaphore has been taken and the thread is idle   *)
(* again: for every redraw interval and clock width, every set of screens  *)
(* and whatever events and further updates come in between.                *)
THEOREM PromptTheorem == Spec => []PromptUpdateShown
  <1>1. Init => PromptInv
    <2> SUFFICES ASSUME Init PROVE PromptInv
      OBVIOUS
    <2>1. NoData(framebuffer)
      BY BlankHasNoData DEF Init, NoData
    <2>2. Elapsed(last_redraw) >= MIN_REDRAW_MS
      BY InitAge
    <2> QED
      BY <2>1, <2>2 DEF Init, PromptInv, UpdateAhead
  <1>2. PromptInv => PromptUpdateShown
    BY DEF PromptInv, UpdateDrawn, Current, PromptUpdateShown
  <1> QED
    BY <1>1, <1>2, PromptNext, Invariance, PTL DEF Spec

-----------------------------------------------------------------------------
(* Faithful is what PanelFaithful promises.  A redraw of the menu leaves   *)
(* the rows below its last item as they were, so they must be blank        *)
(* already; a screen has got only what it read; and until the first redraw *)
(* nothing is shown, but that redraw is on its way.                        *)
Faithful ==
  \/ showing_confirmation /\ ShowsQuestion(confirming_item)
  \/ ~showing_confirmation /\ active_draw_fn # Null /\ ShowsScreen
  \/ ~showing_confirmation /\ active_draw_fn = Null /\ ShowsMenu
Unshown ==
  /\ panel = Blank /\ menu_data_sem = 1 /\ (pc # "poll" => events.sem)
  /\ Elapsed(last_redraw) >= MIN_REDRAW_MS

BlankBelow(rows, n) == \A r \in Rows : r > n => rows[r] = {}
ScreenRows(rows) ==
  /\ rows[0] = {Label("title", active_draw_fn)}
  /\ \A r \in Rows \ {0} : Kind(rows[r]) \subseteq {Label("data", f) : f \in FieldsIn(r)}

PanelInv ==
  /\ active_draw_fn = Null => BlankBelow(framebuffer, Height(current))
  /\ pc = "screen" => ScreenRows(framebuffer) /\ drawn <= Len(Reads[active_draw_fn])
  /\ pc \in {"poll", "event"} \/ (pc = "data" /\ ~events.msgq) => Faithful \/ Unshown

LEMMA HeightType ==
  ASSUME NEW m \in Menus
  PROVE  Height(m) \in Nat /\ Height(m) <= MENU_VISIBLE_ROWS /\ Height(m) <= ItemCount(m)
  BY MenuAssumption, DisplayAssumption DEF Height, ItemCount

LEMMA LowerBlank ==
  ASSUME NEW rows, NEW m \in Nat, NEW n \in Nat, m <= n, BlankBelow(rows, m)
  PROVE  BlankBelow(rows, n)
  BY DisplayAssumption DEF BlankBelow, Rows

(* One event clears the display, or goes to a menu that is no lower.       *)
LEMMA EventRows ==
  ASSUME TreeFits, Inv, NEW evt, menu_handle_event(evt)
  PROVE  \/ framebuffer' = Blank
         \/ /\ UNCHANGED <<active_draw_fn, framebuffer>>
            /\ current' \in Menus /\ Height(current) <= Height(current')
  <1> USE DEF display, clear_display
  <1>1. current \in Menus /\ Height(current) \in Nat
    BY HeightType DEF Inv, TypeOK, StateTypeOK
  <1>2. UNCHANGED <<current, active_draw_fn, framebuffer>> =>
          UNCHANGED <<active_draw_fn, framebuffer>> /\ current' \in Menus /\ Height(current) <= Height(current')
    BY <1>1
  <1>3. CASE ConfirmationEvent(evt)
    BY <1>2, <1>3 DEF ConfirmationEvent, EndDialog, Ignore, nav
  <1>4. ASSUME NEW m \in Menus, Enter(m), Height(m) >= Height(current)
        PROVE  current' \in Menus /\ Height(current) <= Height(current')
    <2>1. current' = m
      BY <1>4 DEF Enter
    <2> QED
      BY <1>1, <1>4, <2>1, HeightType
  <1>5. ASSUME OpenSubmenu(SelectedItem)
        PROVE  current' \in Menus /\ Height(current) <= Height(current')
    <2> DEFINE item == SelectedItem
    <2>1. item \in ItemType /\ item \in ItemsOf(current)
      <3>1. Items[current] \in Seq(ItemType)
        BY <1>1, MenuAssumption
      <3>2. selected + 1 \in 1..Len(Items[current])
        BY <3>1 DEF Inv, TypeOK, StateTypeOK, SelectedVisible, ItemCount
      <3> QED
        BY <3>1, <3>2 DEF SelectedItem, ItemsOf
    <2>2. item.submenu # Null /\ Enter(item.submenu)
      BY <1>5 DEF OpenSubmenu
    <2>3. item.submenu \in Menus /\ Height(item.submenu) >= Height(current)
      BY <1>1, <2>1, <2>2 DEF TreeFits, ItemType
    <2> QED
      BY <1>4, <2>2, <2>3
  <1>6. CASE MenuEvent(evt)
    <2>1. CASE RotateCw \/ RotateCcw
      BY <1>2, <2>1 DEF RotateCw, RotateCcw, Select, Ignore, nav
    <2>2. CASE DoublePress
      <3>1. CASE OpenSubmenu(SelectedItem) /\ UNCHANGED display
        BY <1>5, <3>1 DEF OpenSubmenu
      <3> QED
        BY <1>2, <2>2, <3>1 DEF DoublePress, OpenScreen, AskConfirmation, RunAction, Ignore, nav
    <2>3. CASE PressRotateCw
      BY <1>2, <2>3 DEF PressRotateCw, OpenScreen, Ignore, nav
    <2>4. CASE PressRotateCcw
      <3>1. CASE Parent[current] # Null /\ Enter(Parent[current]) /\ UNCHANGED <<active_draw_fn, display>>
        <4>1. Parent[current] \in Menus /\ Height(Parent[current]) >= Height(current)
          BY <1>1, <3>1, MenuAssumption DEF TreeFits
        <4> QED
          BY <1>4, <3>1, <4>1
      <3> QED
        BY <1>2, <2>4, <3>1 DEF PressRotateCcw, Ignore, nav
    <2> QED
      BY <1>6, <2>1, <2>2, <2>3, <2>4 DEF MenuEvent
  <1> QED
    BY <1>3, <1>6 DEF menu_handle_event

LEMMA HandleEventPanel ==
  ASSUME TreeFits, Inv, PanelInv, HandleEvent PROVE PanelInv'
  <1>1. pc' = "data" /\ events'.msgq
    BY DEF HandleEvent
  <1>2. current \in Menus
    BY DEF Inv, TypeOK, StateTypeOK
  <1>3. (active_draw_fn = Null => BlankBelow(framebuffer, Height(current)))'
    <2>1. CASE framebuffer' = Blank
      BY <2>1 DEF BlankBelow, Blank
    <2>2. CASE /\ UNCHANGED <<active_draw_fn, framebuffer>>
               /\ current' \in Menus /\ Height(current) <= Height(current')
      <3>1. Height(current) \in Nat /\ Height(current') \in Nat
        BY <1>2, <2>2, HeightType
      <3>2. active_draw_fn = Null => BlankBelow(framebuffer, Height(current'))
        BY <2>2, <3>1, LowerBlank DEF PanelInv
      <3> QED
        BY <2>2, <3>2 DEF BlankBelow, Height, ItemCount
    <2> QED
      BY <2>1, <2>2, EventRows DEF HandleEvent
  <1> QED
    BY <1>1, <1>3 DEF PanelInv

(* A step that draws nothing leaves what is drawn as it was.               *)
LEMMA DrawnKept ==
  ASSUME UNCHANGED <<nav, dialog, active_draw_fn, display>>
  PROVE  /\ UNCHANGED <<Faithful, BlankBelow(framebuffer, Height(current)), ScreenRows(framebuffer)>>
         /\ UNCHANGED <<Reads[active_draw_fn], active_draw_fn, panel>>
  <1>1. UNCHANGED <<ShowsQuestion(confirming_item), ShowsScreen, ShowsMenu>>
    BY DEF ShowsQuestion, ShowsScreen, ShowsMenu, FieldsIn, ItemCount, nav, dialog, display
  <1>2. UNCHANGED <<BlankBelow(framebuffer, Height(current)), ScreenRows(framebuffer)>>
    BY DEF BlankBelow, Height, ItemCount, ScreenRows, FieldsIn, nav, display
  <1> QED
    BY <1>1, <1>2 DEF Faithful, nav, dialog, display

LEMMA QuietPanel ==
  ASSUME Inv, PanelInv, Poll \/ NoEvent \/ TakeData PROVE PanelInv'
  <1>1. UNCHANGED <<nav, dialog, active_draw_fn, display, clock, last_redraw>>
    BY DEF Poll, NoEvent, TakeData, shared
  <1>2. (active_draw_fn = Null => BlankBelow(framebuffer, Height(current)))' /\ (Faithful => Faithful')
    BY <1>1, DrawnKept DEF PanelInv
  <1>3. pc' # "screen"
    BY DEF Poll, NoEvent, TakeData
  <1>4. UNCHANGED Elapsed(last_redraw)
    BY <1>1 DEF Elapsed
  <1>5. CASE Poll
    <2>1. menu_data_sem' = menu_data_sem /\ pc = "poll" /\ events'.sem = (menu_data_sem = 1)
      BY <1>5 DEF Poll, shared
    <2>2. Unshown => Unshown'
      BY <1>1, <1>4, <2>1 DEF Unshown, display
    <2> QED
      BY <1>2, <1>3, <2>1, <2>2 DEF PanelInv
  <1>6. CASE NoEvent
    <2>1. UNCHANGED <<menu_data_sem, events>> /\ pc = "event"
      BY <1>6 DEF NoEvent, shared
    <2>2. Unshown => Unshown'
      BY <1>1, <1>4, <2>1 DEF Unshown, display
    <2> QED
      BY <1>2, <1>3, <2>1, <2>2 DEF PanelInv
  <1>7. CASE TakeData
    <2>1. pc = "data" /\ pc' \in {"poll", "draw"} /\ (pc' = "poll" => ~ShouldRedraw)
      BY <1>7 DEF TakeData
    <2>2. pc' = "poll" => ~events.msgq /\ ~Unshown
      BY <2>1 DEF ShouldRedraw, Unshown
    <2> QED
      BY <1>2, <1>3, <2>1, <2>2 DEF PanelInv
  <1> QED
    BY <1>5, <1>6, <1>7

(* Below its fourth row the question is blank. *)
LEMMA QuestionRows ==
  ASSUME NEW item, NEW n \in Nat, n >= 4
  PROVE  BlankBelow(ConfirmationRows(item), n)
  BY DisplayAssumption DEF BlankBelow, ConfirmationRows, Rows

(* The window of a menu over rows that are blank below its last item.      *)
LEMMA MenuDrawn ==
  ASSUME Inv, BlankBelow(framebuffer, Height(current)), NEW r \in Rows
  PROVE  /\ MenuRows(framebuffer)[r] = IF r = 0 THEN {Label("title", current)}
              ELSE IF scroll_offset + r <= ItemCount(current)
                THEN {ItemCell(scroll_offset + r - 1, scroll_offset + r - 1 = selected)}
                ELSE {}
         /\ r > Height(current) => MenuRows(framebuffer)[r] = {}
  <1> DEFINE n == ItemCount(current)
  <1>1. n \in Nat \ {0}
    BY SelectedItemType DEF Inv
  <1>2. scroll_offset \in Nat /\ (scroll_offset = 0 \/ scroll_offset + MENU_VISIBLE_ROWS <= n)
    BY DEF Inv, TypeOK, StateTypeOK, SelectedVisible
  <1>3. r \in Nat /\ r <= MENU_VISIBLE_ROWS /\ MENU_VISIBLE_ROWS \in Nat
    BY DisplayAssumption DEF Rows
  <1>4. r # 0 /\ scroll_offset + r > n => r > Height(current)
    BY <1>1, <1>2, <1>3 DEF Height
  <1>5. r > Height(current) => r # 0 /\ scroll_offset + r > n
    BY <1>1, <1>2, <1>3 DEF Height
  <1>6. r > Height(current) => framebuffer[r] = {}
    BY DEF BlankBelow
  <1>7. ~(scroll_offset + r <= n) => scroll_offset + r > n
    BY <1>1, <1>2, <1>3
  <1>8. CASE r = 0
    BY <1>3, <1>5, <1>8 DEF MenuRows
  <1>9. CASE r # 0 /\ scroll_offset + r <= n
    <2>1. ~(r > Height(current))
      BY <1>1, <1>2, <1>3, <1>5, <1>9
    <2> QED
      BY <1>9, <2>1 DEF MenuRows
  <1>10. CASE r # 0 /\ ~(scroll_offset + r <= n)
    BY <1>4, <1>6, <1>7, <1>10 DEF MenuRows
  <1> QED
    BY <1>8, <1>9, <1>10

LEMMA KindOfField ==
  ASSUME NEW f, NEW s
  PROVE  Kind({DataCell(f, s)}) = {Label("data", f)}
  <1> DEFINE c == DataCell(f, s)
  <1>1. c.kind = "data" /\ c.of[1] = f /\ c.mark = FALSE
    BY DEF DataCell
  <1> HIDE DEF c
  <1>2. Kind({c}) = {[kind |-> "data", of |-> f, mark |-> FALSE]}
    BY <1>1 DEF Kind
  <1> QED
    BY <1>2 DEF c, Label

(* A field printed into its row of the open screen. *)
LEMMA FieldDrawn ==
  ASSUME Inv, ScreenRows(framebuffer), drawn <= Len(Reads[active_draw_fn]), ReadField
  PROVE  ScreenRows(framebuffer)' /\ drawn' <= Len(Reads[active_draw_fn])
  <1> DEFINE rs == Reads[active_draw_fn]
             rd == rs[drawn + 1]
             new == DataCell(rd.field, menu_data[rd.field])
  <1>1. active_draw_fn \in Screens
    BY DEF ReadField, Inv, ThreadConsistent, TypeOK, StateTypeOK
  <1>2. rs \in Seq([row : 1..MENU_VISIBLE_ROWS, field : Fields, gate : BOOLEAN])
    BY <1>1, DisplayAssumption
  <1>3. drawn \in Nat /\ drawn # Len(rs)
    BY DEF ReadField, ScreenDone, Inv, TypeOK, ThreadTypeOK
  <1>4. drawn + 1 \in 1..Len(rs)
    <2>1. Len(rs) \in Nat
      BY <1>2
    <2>2. drawn <= Len(rs)
      OBVIOUS
    <2> HIDE DEF rs
    <2> QED
      BY <1>3, <2>1, <2>2
  <1>5. rd.row \in 1..MENU_VISIBLE_ROWS
    <2> DEFINE Entry == [row : 1..MENU_VISIBLE_ROWS, field : Fields, gate : BOOLEAN]
    <2>1. rs \in Seq(Entry)
      BY <1>2
    <2>2. rd \in Entry
      <3> HIDE DEF Entry, rs
      <3> QED
        BY <1>4, <2>1
    <2> QED
      BY <2>2
  <1>6. framebuffer' = [framebuffer EXCEPT ![rd.row] = @ \cup {new}]
        /\ UNCHANGED active_draw_fn /\ drawn' = drawn + 1
    BY DEF ReadField
  <1>7. DOMAIN framebuffer = Rows
    BY DEF Inv, TypeOK, DisplayTypeOK
  <1>8. rd.field \in FieldsIn(rd.row)
    BY <1>2, <1>4, SMTT(30) DEF FieldsIn
  <1>9. Kind({new}) = {Label("data", rd.field)}
    BY KindOfField
  <1>10. \A S, T : Kind(S \cup T) = Kind(S) \cup Kind(T)
    BY DEF Kind
  <1> HIDE DEF new, rd
  <1>11. framebuffer'[0] = framebuffer[0]
    BY <1>5, <1>6, <1>7
  <1>12. ASSUME NEW r \in Rows \ {0}
         PROVE  Kind(framebuffer'[r]) \subseteq {Label("data", f) : f \in FieldsIn(r)}
    <2>1. CASE r = rd.row
      <3>1. framebuffer'[r] = framebuffer[r] \cup {new}
        BY <1>6, <1>7, <2>1
      <3>2. Kind(framebuffer'[r]) = Kind(framebuffer[r]) \cup {Label("data", rd.field)}
        BY <1>9, <1>10, <3>1
      <3>3. Kind(framebuffer[r]) \subseteq {Label("data", f) : f \in FieldsIn(r)}
        BY DEF ScreenRows
      <3> QED
        BY <1>8, <2>1, <3>2, <3>3
    <2>2. CASE r # rd.row
      BY <1>6, <1>7, <2>2 DEF ScreenRows
    <2> QED
      BY <2>1, <2>2
  <1>13. UNCHANGED rs /\ \A r : FieldsIn(r)' = FieldsIn(r)
    BY <1>6 DEF FieldsIn
  <1>14. ScreenRows(framebuffer)'
    BY <1>6, <1>11, <1>12, <1>13 DEF ScreenRows
  <1> QED
    BY <1>2, <1>4, <1>6, <1>14

LEMMA RedrawPanel ==
  ASSUME TreeFits, Inv, PanelInv, menu_redraw PROVE PanelInv'
  <1>1. UNCHANGED <<nav, dialog, active_draw_fn>>
    BY DEF menu_redraw, draw_confirmation_screen, draw_menu_screen, BeginScreen, ReadField, FinishScreen
  <1>2. current \in Menus /\ current' = current /\ UNCHANGED Height(current)
    BY <1>1 DEF nav, Height, ItemCount, Inv, TypeOK, StateTypeOK
  <1>3. Height(current) \in Nat
    BY <1>2, HeightType
  <1>4. CASE draw_confirmation_screen
    <2>1. Height(current) >= 4
      <3>1. confirming_item = SelectedItem /\ confirming_item.needs_confirmation
        BY <1>4 DEF draw_confirmation_screen, Inv, DialogConsistent
      <3>2. Items[current] \in Seq(ItemType)
        BY <1>2, MenuAssumption
      <3>3. selected + 1 \in 1..Len(Items[current])
        BY <3>2 DEF Inv, TypeOK, StateTypeOK, SelectedVisible, ItemCount
      <3>4. SelectedItem \in ItemsOf(current)
        BY <3>2, <3>3 DEF SelectedItem, ItemsOf
      <3> QED
        BY <1>2, <3>1, <3>4 DEF TreeFits
    <2>2. BlankBelow(framebuffer, Height(current))'
      <3>1. BlankBelow(ConfirmationRows(confirming_item), Height(current))
        BY <1>3, <2>1, QuestionRows
      <3> QED
        BY <1>2, <1>4, <3>1 DEF draw_confirmation_screen, BlankBelow
    <2>3. Faithful' /\ pc' = "poll"
      BY <1>1, <1>4 DEF draw_confirmation_screen, EndRedraw, Faithful, ShowsQuestion, dialog,
         ConfirmationRows
    <2> QED
      BY <2>2, <2>3 DEF PanelInv
  <1>5. CASE draw_menu_screen
    <2>1. BlankBelow(framebuffer, Height(current))
      BY <1>5 DEF draw_menu_screen, PanelInv
    <2>2. framebuffer' = MenuRows(framebuffer) /\ panel' = MenuRows(framebuffer) /\ pc' = "poll"
      BY <1>5 DEF draw_menu_screen, EndRedraw
    <2>3. BlankBelow(framebuffer, Height(current))'
      BY <1>2, <2>1, <2>2, MenuDrawn DEF BlankBelow
    <2>4. ShowsMenu'
      BY <1>1, <2>1, <2>2, MenuDrawn DEF ShowsMenu, nav, ItemCount
    <2>5. Faithful'
      BY <1>1, <1>5, <2>4 DEF draw_menu_screen, Faithful, dialog
    <2> QED
      BY <2>2, <2>3, <2>5 DEF PanelInv
  <1>6. CASE BeginScreen
    <2>1. active_draw_fn # Null /\ active_draw_fn \in Screens /\ pc' = "screen" /\ drawn' = 0
      BY <1>6 DEF BeginScreen, Inv, TypeOK, StateTypeOK
    <2>2. framebuffer' = [r \in Rows |-> IF r = 0 THEN {Label("title", active_draw_fn)} ELSE {}]
      BY <1>6, DisplayAssumption DEF BeginScreen, Blank, Rows
    <2>3. Kind({}) = {}
      BY DEF Kind
    <2>4. ScreenRows(framebuffer)'
      BY <1>1, <2>2, <2>3, DisplayAssumption DEF ScreenRows, Rows
    <2>5. (drawn <= Len(Reads[active_draw_fn]))'
      BY <1>1, <2>1, DisplayAssumption
    <2> QED
      BY <1>1, <2>1, <2>4, <2>5 DEF PanelInv
  <1>7. CASE ReadField
    <2>1. active_draw_fn # Null /\ pc' = "screen" /\ pc = "screen"
      BY <1>7 DEF ReadField, Inv, ThreadConsistent
    <2>2. ScreenRows(framebuffer)' /\ drawn' <= Len(Reads[active_draw_fn])
      BY <1>7, <2>1, FieldDrawn DEF PanelInv
    <2> QED
      BY <1>1, <2>1, <2>2 DEF PanelInv
  <1>8. CASE FinishScreen
    <2>1. active_draw_fn # Null /\ pc = "screen" /\ ~showing_confirmation
      BY <1>8 DEF FinishScreen, Inv, ThreadConsistent
    <2>2. panel' = framebuffer /\ pc' = "poll"
      BY <1>8 DEF FinishScreen, EndRedraw
    <2>3. ShowsScreen'
      BY <1>1, <2>1, <2>2 DEF PanelInv, ScreenRows, ShowsScreen, FieldsIn
    <2> QED
      BY <1>1, <2>1, <2>2, <2>3 DEF PanelInv, Faithful, dialog
  <1> QED
    BY <1>4, <1>5, <1>6, <1>7, <1>8 DEF menu_redraw

LEMMA EnvironmentPanel ==
  ASSUME Inv, PanelInv,
         \/ \E g \in Groups, s \in Samples \ {NoSample} : MenuUpdate(g, s)
         \/ \E evt \in EventTypes : Post(evt)
         \/ Tick
  PROVE  PanelInv'
  <1>1. UNCHANGED <<nav, dialog, active_draw_fn, display, thread, last_redraw>>
    BY DEF MenuUpdate, Post, Tick
  <1>2. /\ (active_draw_fn = Null => BlankBelow(framebuffer, Height(current)))'
        /\ (pc = "screen" => ScreenRows(framebuffer) /\ drawn <= Len(Reads[active_draw_fn]))'
        /\ Faithful => Faithful'
    BY <1>1, DrawnKept DEF PanelInv, thread
  <1>3. Unshown => Unshown'
    <2>1. menu_data_sem = 1 => menu_data_sem' = 1
      BY DEF MenuUpdate, Post, Tick
    <2>2. Elapsed(last_redraw) >= MIN_REDRAW_MS => Elapsed(last_redraw)' >= MIN_REDRAW_MS
      BY RedrawAges DEF Inv
    <2> QED
      BY <1>1, <2>1, <2>2 DEF Unshown, display, thread
  <1> QED
    BY <1>1, <1>2, <1>3 DEF PanelInv, thread

(* Whenever the thread waits for input, the OLED shows the state the next  *)
(* event will act on and no row of an earlier screen: for every tree in    *)
(* which a submenu is drawn over all rows of its parent and the other way  *)
(* round, and a menu that asks over all rows of the question.  The tree of *)
(* the ground station is one, by ObelicsAssumption.                        *)
THEOREM PanelTheorem ==
  ASSUME TreeFits
  PROVE  Spec => []PanelFaithful
  <1>1. Init => PanelInv
    <2> SUFFICES ASSUME Init PROVE PanelInv
      OBVIOUS
    <2>1. BlankBelow(framebuffer, Height(current))
      BY DEF Init, BlankBelow, Blank
    <2>2. Unshown
      BY InitAge DEF Init, Unshown
    <2> QED
      BY <2>1, <2>2 DEF Init, PanelInv
  <1>2. Inv /\ PanelInv /\ [Next]_vars => PanelInv'
    <2> SUFFICES ASSUME Inv, PanelInv, [Next]_vars PROVE PanelInv'
      OBVIOUS
    <2>1. CASE MenuThread
      BY <2>1, HandleEventPanel, RedrawPanel, QuietPanel DEF MenuThread
    <2>2. CASE UNCHANGED vars
      <3>1. UNCHANGED <<nav, dialog, active_draw_fn, display, thread, last_redraw, clock, menu_data_sem>>
        BY <2>2 DEF vars, shared
      <3>2. Unshown => Unshown'
        BY <3>1 DEF Unshown, Elapsed, display, thread
      <3> QED
        BY <3>1, <3>2, DrawnKept DEF PanelInv, thread
    <2> QED
      BY <2>1, <2>2, EnvironmentPanel DEF Next
  <1>3. PanelInv => PanelFaithful
    BY DEF PanelInv, Unshown, Faithful, PanelFaithful, AtRest
  <1> QED
    BY <1>1, <1>2, <1>3, Invariance, PTL DEF Spec

-----------------------------------------------------------------------------
(* The menu behind the encoder driver behaves like the menu behind any     *)
(* source of events, so what is shown above holds of the whole path from   *)
(* the operator's hand to a command.                                       *)

(* What the driver does to the queue, a source of events may do. *)
LEMMA InputIsPost ==
  ASSUME InputStep
  PROVE  (\E evt \in EventTypes : Post(evt)) \/ UNCHANGED vars
  <1>1. UNCHANGED menuvars
    BY DEF InputStep
  <1>2. ASSUME NEW evt \in EventTypes, Encoder!Put(evt) PROVE Post(evt)
    BY <1>1, <1>2
    DEF Encoder!Put, Post, menuvars, nav, dialog, thread, display
  <1>3. CASE UNCHANGED encoder_msgq
    BY <1>1, <1>3 DEF menuvars, vars, shared
  <1>4. CASE Encoder!Rotate
    BY <1>2, <1>4 DEF Encoder!Rotate, Encoder!Rotations, EventTypes
  <1>5. CASE Encoder!Press
    BY <1>2, <1>3, <1>5 DEF Encoder!Press, EventTypes
  <1>6. CASE Encoder!Release
    BY <1>3, <1>6 DEF Encoder!Release
  <1> QED
    BY <1>4, <1>5, <1>6 DEF InputStep, Encoder!PairingNext

LEMMA UIStep == [UINext]_uivars => [Next]_vars
  <1> SUFFICES ASSUME [UINext]_uivars PROVE [Next]_vars
    OBVIOUS
  <1>1. CASE ThreadStep
    BY <1>1 DEF ThreadStep, Next
  <1>2. CASE InputStep
    BY <1>2, InputIsPost DEF Next
  <1>3. CASE OtherStep
    BY <1>3 DEF OtherStep, Next
  <1>4. CASE UNCHANGED uivars
    BY <1>4 DEF uivars
  <1> QED
    BY <1>1, <1>2, <1>3, <1>4 DEF UINext

(* The composition is a behaviour of the menu: the driver and the rest of  *)
(* the program are one of the environments the menu was specified in.      *)
THEOREM UIImplementsMenu == UISpec => Spec
  <1>1. UIInit => Init
    BY DEF UIInit
  <1> QED
    BY <1>1, UIStep, PTL DEF UISpec, Spec

(* Behind the encoder driver, for every menu tree and display, the cursor  *)
(* is on an item inside the window.                                        *)
THEOREM UIWindowTheorem == UISpec => []SelectedVisible
  BY UIImplementsMenu, WindowTheorem, PTL

(* Behind the encoder driver, commands that need confirmation run as       *)
(* CommandGuard promises.                                                  *)
THEOREM UIGuardTheorem == UISpec => CommandsGuarded
  BY UIImplementsMenu, GuardTheorem, PTL

-----------------------------------------------------------------------------
(* The presses a queue of events stands for, two for each double press.    *)
DoublePresses(q) == {i \in DOMAIN q : q[i] = "DOUBLE_PRESS"}
Doubles(q) == Cardinality(DoublePresses(q))

LEMMA DoublesType ==
  ASSUME NEW q \in Seq(EventTypes)
  PROVE  IsFiniteSet(DoublePresses(q)) /\ Doubles(q) \in Nat /\ Doubles(q) <= Len(q)
  <1>1. DoublePresses(q) \subseteq 1..Len(q) /\ Len(q) \in Nat
    BY DEF DoublePresses
  <1>2. ASSUME NEW n \in Nat PROVE IsFiniteSet(1..n) /\ Cardinality(1..n) = n
    BY FS_Interval
  <1> QED
    BY <1>1, <1>2, FS_Subset, FS_CardinalityType DEF Doubles

(* An event put into the queue adds one if it is a double press. *)
LEMMA DoublesAppend ==
  ASSUME NEW q \in Seq(EventTypes), NEW evt \in EventTypes
  PROVE  Doubles(Append(q, evt)) = Doubles(q) + (IF evt = "DOUBLE_PRESS" THEN 1 ELSE 0)
  <1>1. DoublePresses(Append(q, evt))
          = IF evt = "DOUBLE_PRESS" THEN DoublePresses(q) \cup {Len(q) + 1} ELSE DoublePresses(q)
    <2>1. /\ Len(q) \in Nat /\ DOMAIN q = 1..Len(q) /\ DOMAIN Append(q, evt) = 1..(Len(q) + 1)
          /\ \A i \in 1..Len(q) : Append(q, evt)[i] = q[i]
          /\ Append(q, evt)[Len(q) + 1] = evt
      OBVIOUS
    <2> QED
      BY <2>1 DEF DoublePresses
  <1>2. Len(q) + 1 \notin DoublePresses(q) /\ IsFiniteSet(DoublePresses(q)) /\ Doubles(q) \in Nat
    <2>1. Len(q) \in Nat /\ DoublePresses(q) \subseteq 1..Len(q)
      BY DEF DoublePresses
    <2> QED
      BY <2>1, DoublesType
  <1> QED
    <2>1. Cardinality(DoublePresses(q) \cup {Len(q) + 1}) = Cardinality(DoublePresses(q)) + 1
      BY <1>2, FS_AddElement
    <2> QED
      BY <1>1, <1>2, <2>1 DEF Doubles

(* Taking the first event takes one if it was a double press. *)
LEMMA DoublesTail ==
  ASSUME NEW q \in Seq(EventTypes), q # << >>
  PROVE  Doubles(Tail(q)) + (IF Head(q) = "DOUBLE_PRESS" THEN 1 ELSE 0) <= Doubles(q)
  <1> DEFINE rest == DoublePresses(q) \ {1}
             shift == [i \in rest |-> i - 1]
  <1>1. /\ DoublePresses(q) \subseteq 1..Len(q) /\ Len(q) \in Nat \ {0}
        /\ Tail(q) \in Seq(EventTypes) /\ Len(Tail(q)) = Len(q) - 1 /\ Head(q) = q[1]
        /\ \A i \in 1..(Len(q) - 1) : Tail(q)[i] = q[i + 1]
    BY DEF DoublePresses
  <1>2. DoublePresses(Tail(q)) = {i \in 1..(Len(q) - 1) : q[i + 1] = "DOUBLE_PRESS"}
    BY <1>1 DEF DoublePresses
  <1>3. shift \in Surjection(rest, DoublePresses(Tail(q)))
    <2>1. ASSUME NEW i \in rest PROVE i - 1 \in DoublePresses(Tail(q))
      BY <1>1, <1>2 DEF DoublePresses
    <2>2. ASSUME NEW j \in DoublePresses(Tail(q)) PROVE j + 1 \in rest /\ (j + 1) - 1 = j
      BY <1>1, <1>2 DEF DoublePresses
    <2> QED
      BY <2>1, <2>2 DEF Surjection
  <1>4. IsFiniteSet(rest) /\ Cardinality(rest) = Doubles(q) - (IF 1 \in DoublePresses(q) THEN 1 ELSE 0)
    BY DoublesType, FS_RemoveElement DEF Doubles
  <1>5. Doubles(Tail(q)) <= Cardinality(rest)
    BY <1>3, <1>4, FS_Surjection DEF Doubles
  <1>6. Doubles(q) \in Nat /\ Doubles(Tail(q)) \in Nat /\ (1 \in DoublePresses(q) <=> Head(q) = "DOUBLE_PRESS")
    <2>1. 1 \in DOMAIN q
      BY <1>1
    <2> QED
      BY <1>1, <2>1, DoublesType DEF DoublePresses
  <1> QED
    BY <1>4, <1>5, <1>6

(* What has been seen of a press is worth its presses: two for a double    *)
(* press in the queue, two for a question it raised, one for a first press *)
(* that waits for its second.                                              *)
Worth == 2 * Doubles(encoder_msgq) + (IF showing_confirmation THEN 2 ELSE 0) + (IF waiting THEN 1 ELSE 0)

PressesPaidFor ==
  /\ Inv /\ waiting \in BOOLEAN /\ credit \in Int
  /\ Worth <= credit

LEMMA WorthType ==
  ASSUME Inv, waiting \in BOOLEAN
  PROVE  /\ Doubles(encoder_msgq) \in Nat /\ Worth \in Nat /\ Worth <= 2 * QueueSize + 3
         /\ encoder_msgq \in Seq(EventTypes)
  <1>1. encoder_msgq \in Seq(EventTypes) /\ Len(encoder_msgq) <= QueueSize /\ showing_confirmation \in BOOLEAN
    BY DEF Inv, TypeOK, QueueTypeOK, StateTypeOK
  <1>2. /\ Doubles(encoder_msgq) \in Nat /\ Doubles(encoder_msgq) <= Len(encoder_msgq)
        /\ Len(encoder_msgq) \in Nat
    BY <1>1, DoublesType
  <1> QED
    BY <1>1, <1>2, TimingAssumption DEF Worth

(* An event that raises or answers a question was a double press, and one  *)
(* that sends a guarded command answers one.                               *)
LEMMA EventCosts ==
  ASSUME Inv, NEW evt \in EventTypes, menu_handle_event(evt)
  PROVE  /\ ~showing_confirmation /\ showing_confirmation' => evt = "DOUBLE_PRESS"
         /\ ran' # Null /\ ran'.needs_confirmation =>
              evt = "DOUBLE_PRESS" /\ showing_confirmation /\ ~showing_confirmation'
  <1>1. CASE showing_confirmation
    BY <1>1 DEF menu_handle_event, ConfirmationEvent, EndDialog, Ignore
  <1>2. CASE ~showing_confirmation
    <2>1. showing_confirmation' => evt = "DOUBLE_PRESS"
      BY <1>2 DEF menu_handle_event, MenuEvent, RotateCw, RotateCcw, DoublePress, PressRotateCw,
         PressRotateCcw, Select, Ignore, OpenScreen, OpenSubmenu, AskConfirmation, RunAction, dialog
    <2> QED
      BY <1>2, <2>1, EventRuns
  <1> QED
    BY <1>1, <1>2

LEMMA PaidThread ==
  ASSUME PressesPaidFor, ThreadStep PROVE Worth' <= credit' /\ credit' \in Int
  <1>0. waiting' = waiting /\ credit' \in Int
    BY DEF ThreadStep, PressesPaidFor
  <1>1. CASE HandleEvent
    <2> DEFINE evt == Head(encoder_msgq)
    <2>1. /\ encoder_msgq \in Seq(EventTypes) /\ encoder_msgq # << >> /\ evt \in EventTypes
          /\ menu_handle_event(evt) /\ encoder_msgq' = Tail(encoder_msgq)
      BY <1>1 DEF HandleEvent, PressesPaidFor, Inv, TypeOK, QueueTypeOK, ThreadConsistent
    <2>2. Doubles(encoder_msgq') + (IF evt = "DOUBLE_PRESS" THEN 1 ELSE 0) <= Doubles(encoder_msgq)
      BY <2>1, DoublesTail
    <2>3. Doubles(encoder_msgq) \in Nat /\ Doubles(encoder_msgq') \in Nat
      <3>1. encoder_msgq' \in Seq(EventTypes)
        BY <2>1
      <3> QED
        BY <2>1, <3>1, DoublesType
    <2>4. /\ ~showing_confirmation /\ showing_confirmation' => evt = "DOUBLE_PRESS"
          /\ RanConfirmed => evt = "DOUBLE_PRESS" /\ showing_confirmation /\ ~showing_confirmation'
      BY <2>1, EventCosts DEF RanConfirmed, PressesPaidFor
    <2>5. credit' = IF RanConfirmed THEN credit - 4 ELSE credit
      BY DEF ThreadStep
    <2>6. /\ Worth' = 2 * Doubles(encoder_msgq') + (IF showing_confirmation' THEN 2 ELSE 0)
                        + (IF waiting THEN 1 ELSE 0)
          /\ Worth <= credit /\ credit \in Int
      BY <1>0 DEF Worth, Doubles, DoublePresses, PressesPaidFor
    <2> HIDE DEF evt
    <2> QED
      BY <1>0, <2>2, <2>3, <2>4, <2>5, <2>6 DEF Worth
  <1>2. CASE ~HandleEvent
    <2>1. UNCHANGED <<encoder_msgq, showing_confirmation>> /\ ~RanConfirmed
      BY <1>2 DEF ThreadStep, MenuThread, Poll, NoEvent, TakeData, menu_redraw, draw_confirmation_screen,
         draw_menu_screen, BeginScreen, ReadField, FinishScreen, shared, dialog, RanConfirmed
    <2>2. Worth' = Worth /\ credit' = credit
      BY <1>0, <2>1 DEF Worth, Doubles, DoublePresses, ThreadStep
    <2> QED
      BY <1>0, <2>2 DEF PressesPaidFor
  <1> QED
    BY <1>1, <1>2

LEMMA PaidInput ==
  ASSUME PressesPaidFor, InputStep, Inv', MaxCredit >= 2 * QueueSize + 3
  PROVE  waiting' \in BOOLEAN /\ Worth' <= credit' /\ credit' \in Int
  <1>0. showing_confirmation' = showing_confirmation
    BY DEF InputStep, menuvars, dialog
  <1>1. /\ credit \in Int /\ Worth <= credit /\ MaxCredit \in Nat
        /\ credit' = IF PressSeen /\ credit < MaxCredit THEN credit + 1 ELSE credit
    BY CreditAssumption DEF InputStep, PressesPaidFor
  <1>2. /\ Worth \in Nat /\ Doubles(encoder_msgq) \in Nat
        /\ encoder_msgq \in Seq(EventTypes) /\ waiting \in BOOLEAN
    BY WorthType DEF PressesPaidFor
  <1>3. ASSUME NEW evt \in EventTypes, Encoder!Put(evt)
        PROVE  /\ Doubles(encoder_msgq)' \in Nat
               /\ Doubles(encoder_msgq)' <= Doubles(encoder_msgq) + (IF evt = "DOUBLE_PRESS" THEN 1 ELSE 0)
    <2>1. CASE encoder_msgq' = Append(encoder_msgq, evt)
      BY <1>2, <2>1, DoublesAppend DEF Doubles, DoublePresses
    <2>2. CASE encoder_msgq' = encoder_msgq
      BY <1>2, <2>2 DEF Doubles, DoublePresses
    <2> QED
      BY <1>3, <2>1, <2>2 DEF Encoder!Put
  <1>4. encoder_msgq' = encoder_msgq => Doubles(encoder_msgq)' = Doubles(encoder_msgq)
    BY DEF Doubles, DoublePresses
  <1>5. waiting' \in BOOLEAN
    BY <1>2 DEF InputStep, Encoder!PairingNext, Encoder!Rotate, Encoder!Press, Encoder!Release
  <1>6. Worth' \in Nat /\ Worth' <= 2 * QueueSize + 3
    <2>1. encoder_msgq' \in Seq(EventTypes) /\ Len(encoder_msgq') <= QueueSize
      BY DEF Inv, TypeOK, QueueTypeOK
    <2>2. /\ Doubles(encoder_msgq') \in Nat /\ Doubles(encoder_msgq') <= Len(encoder_msgq')
          /\ Len(encoder_msgq') \in Nat
      BY <2>1, DoublesType
    <2>3. Worth' = 2 * Doubles(encoder_msgq') + (IF showing_confirmation' THEN 2 ELSE 0)
                     + (IF waiting' THEN 1 ELSE 0)
      BY DEF Worth, Doubles, DoublePresses
    <2> QED
      BY <2>1, <2>2, <2>3, TimingAssumption
  <1>7. Worth' <= Worth + (IF PressSeen THEN 1 ELSE 0)
    <2>1. CASE Encoder!Rotate
      <3>1. PICK evt \in Encoder!Rotations : Encoder!Put(evt)
        BY <2>1 DEF Encoder!Rotate
      <3>2. evt \in EventTypes /\ evt # "DOUBLE_PRESS"
        BY DEF Encoder!Rotations, EventTypes
      <3> QED
        BY <1>0, <1>2, <1>3, <2>1, <3>1, <3>2, SMTT(30) DEF Encoder!Rotate, Worth
    <2>2. CASE Encoder!Release
      <3>1. waiting' = waiting \/ waiting' = FALSE
        BY <2>2 DEF Encoder!Release
      <3>2. Doubles(encoder_msgq)' = Doubles(encoder_msgq)
        BY <1>4, <2>2 DEF Encoder!Release
      <3>3. CASE waiting' = waiting
        BY <1>0, <1>2, <3>2, <3>3 DEF Worth
      <3>4. CASE waiting' = FALSE
        BY <1>0, <1>2, <3>2, <3>4 DEF Worth
      <3> QED
        BY <3>1, <3>3, <3>4
    <2>3. CASE Encoder!Press
      <3>1. PressSeen
        BY <2>3 DEF Encoder!Press, PressSeen
      <3>2. "DOUBLE_PRESS" \in EventTypes
        BY DEF EventTypes
      <3>3. CASE waiting /\ ~waiting' /\ Encoder!Put("DOUBLE_PRESS")
        BY <1>0, <1>2, <1>3, <3>1, <3>2, <3>3 DEF Worth
      <3>4. CASE UNCHANGED encoder_msgq
        BY <1>0, <1>2, <1>4, <1>5, <3>1, <3>4 DEF Worth
      <3> QED
        BY <2>3, <3>3, <3>4 DEF Encoder!Press
    <2> QED
      BY <2>1, <2>2, <2>3 DEF InputStep, Encoder!PairingNext
  <1> QED
    BY <1>1, <1>2, <1>5, <1>6, <1>7, TimingAssumption

(* Sending a guarded command takes four presses of its own, for every menu *)
(* tree and queue, when as many presses are remembered as the queue, a     *)
(* question and a first press can be worth.                                *)
THEOREM FourPressesTheorem ==
  ASSUME MaxCredit >= 2 * QueueSize + 3
  PROVE  UISpec => []FourPressesPerCommand
  <1>1. UIInit => PressesPaidFor
    <2> SUFFICES ASSUME UIInit PROVE PressesPaidFor
      OBVIOUS
    <2>1. Inv /\ encoder_msgq = << >> /\ ~showing_confirmation /\ waiting = FALSE /\ credit = 0
      BY InitInv DEF UIInit, Init, Encoder!PairingInit
    <2>2. Doubles(encoder_msgq) = 0
      <3>1. DoublePresses(encoder_msgq) = {}
        BY <2>1 DEF DoublePresses
      <3> QED
        BY <3>1, FS_EmptySet DEF Doubles
    <2>3. Worth = 0
      BY <2>1, <2>2 DEF Worth
    <2>4. waiting \in BOOLEAN
      BY <2>1
    <2>5. Worth <= credit /\ credit \in Int
      BY <2>1, <2>3
    <2> QED
      BY <2>1, <2>4, <2>5 DEF PressesPaidFor
  <1>2. PressesPaidFor /\ [UINext]_uivars => PressesPaidFor'
    <2> SUFFICES ASSUME PressesPaidFor, [UINext]_uivars PROVE PressesPaidFor'
      OBVIOUS
    <2>1. Inv'
      BY UIStep, NextInv DEF PressesPaidFor
    <2>2. CASE ThreadStep
      BY <2>1, <2>2, PaidThread DEF PressesPaidFor, ThreadStep
    <2>3. CASE InputStep
      BY <2>1, <2>3, PaidInput DEF PressesPaidFor
    <2>4. CASE OtherStep \/ UNCHANGED uivars
      <3>1. UNCHANGED <<encoder_msgq, showing_confirmation, waiting, credit>>
        BY <2>4 DEF OtherStep, Tick, MenuUpdate, uivars, vars, shared, dialog
      <3> QED
        BY <2>1, <3>1 DEF PressesPaidFor, Worth, Doubles, DoublePresses
    <2> QED
      BY <2>2, <2>3, <2>4 DEF UINext
  <1>3. PressesPaidFor => FourPressesPerCommand
    BY WorthType DEF PressesPaidFor, FourPressesPerCommand
  <1> QED
    BY <1>1, <1>2, <1>3, PTL DEF UISpec
=============================================================================
