------------------------------ MODULE ObelicsUI ------------------------------
(***************************************************************************)
(* The operator's path of the ground station from hand to command: the     *)
(* encoder driver puts into the queue the menu thread takes from.  The     *)
(* driver is taken as PressPairing, which EncoderInput implements.         *)
(***************************************************************************)
EXTENDS Menu

CONSTANT MaxCredit     \* bound: presses remembered
ASSUME CreditAssumption == MaxCredit \in Nat

VARIABLES down, waiting,   \* of the driver
          credit           \* history: presses the driver saw, less four for each
                           \* confirmed command, at most MaxCredit

Encoder == INSTANCE PressPairing WITH ENCODER_MSGQ_SIZE <- QueueSize
menuvars == <<nav, dialog, active_draw_fn, menu_data_sem, menu_data, clock, last_redraw,
              thread, display, ran, prompt>>
uivars == <<vars, down, waiting, credit>>

UIInit == Init /\ Encoder!PairingInit /\ credit = 0

RanConfirmed == /\ pc = "event" /\ events.msgq /\ pc' = "data"
                /\ ran' # Null /\ ran'.needs_confirmation
ThreadStep == /\ MenuThread
              /\ credit' = IF RanConfirmed THEN credit - 4 ELSE credit
              /\ UNCHANGED <<down, waiting>>

PressSeen == down' /\ ~down
InputStep == /\ Encoder!PairingNext
             /\ credit' = IF PressSeen /\ credit < MaxCredit THEN credit + 1 ELSE credit
             /\ UNCHANGED menuvars

OtherStep == /\ Tick \/ \E g \in Groups, s \in Samples \ {NoSample} : MenuUpdate(g, s)
             /\ UNCHANGED <<down, waiting, credit>>

UINext == ThreadStep \/ InputStep \/ OtherStep
UISpec == UIInit /\ [][UINext]_uivars
-----------------------------------------------------------------------------
(* Sending a command that needs confirmation costs the operator four       *)
(* presses of the switch, none of them counted for another such command:   *)
(* neither turning the knob, nor late or repeated presses, nor events left *)
(* in the queue or lost from it send one.                                  *)
FourPressesPerCommand == credit >= 0
=============================================================================
