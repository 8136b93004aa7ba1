---------------------------- MODULE CommandGuard ----------------------------
(***************************************************************************)
(* What the menu promises of the commands it sends to the rocket, without  *)
(* screens, queue or thread: a command that needs confirmation is asked    *)
(* about, the question stands until it is answered, and each question is   *)
(* answered once, by running that command or by dropping it.  A command    *)
(* that needs none runs only while no question stands.                     *)
(***************************************************************************)
CONSTANTS Items, NoItem, NeedsConfirmation(_)

VARIABLES asking,   \* the item the operator is asked about, or NoItem
          ran       \* the item the last event ran, or NoItem

Init == asking = NoItem /\ ran = NoItem

Ask(i) == /\ asking = NoItem /\ NeedsConfirmation(i)
          /\ asking' = i /\ ran' = NoItem

Run(i) == /\ asking = NoItem /\ ~NeedsConfirmation(i)
          /\ ran' = i /\ UNCHANGED asking

Confirm == /\ asking # NoItem
           /\ ran' = asking /\ asking' = NoItem

Cancel  == /\ asking # NoItem
           /\ ran' = NoItem /\ asking' = NoItem

(* An event that is about something else ends the mention of the last run. *)
Other   == ran' = NoItem /\ UNCHANGED asking

Next == (\E i \in Items : Ask(i) \/ Run(i)) \/ Confirm \/ Cancel \/ Other

Spec == Init /\ [][Next]_<<asking, ran>>
=============================================================================
