---------------------------- MODULE PressPairing ----------------------------
(***************************************************************************)
(* What the encoder driver promises its reader, without timers and clocks: *)
(* events come in the order they happen, a full queue loses the event, and *)
(* every DOUBLE_PRESS stands for two presses of the switch of its own.     *)
(***************************************************************************)
EXTENDS Naturals, Sequences

CONSTANT ENCODER_MSGQ_SIZE

VARIABLES encoder_msgq,
          down,       \* the switch as the driver last saw it
          waiting     \* a press waits for its second

Rotations == {"ROTATE_CW", "ROTATE_CCW", "PRESS_ROTATE_CW", "PRESS_ROTATE_CCW"}

PairingInit == down = TRUE /\ waiting = FALSE
Init == encoder_msgq = << >> /\ PairingInit

Put(ev) == encoder_msgq' = IF Len(encoder_msgq) < ENCODER_MSGQ_SIZE
                             THEN Append(encoder_msgq, ev) ELSE encoder_msgq

Rotate == /\ \E ev \in Rotations : Put(ev)
          /\ UNCHANGED <<down, waiting>>

Press == /\ ~down /\ down' = TRUE
         /\ \/ ~waiting /\ waiting' = TRUE /\ UNCHANGED encoder_msgq
            \/ waiting /\ waiting' = FALSE /\ Put("DOUBLE_PRESS")
            \/ waiting /\ UNCHANGED <<waiting, encoder_msgq>>       \* too late

Release == /\ down /\ down' = FALSE
           /\ waiting' \in {waiting, FALSE}
           /\ UNCHANGED encoder_msgq

Take == /\ encoder_msgq # << >>
        /\ encoder_msgq' = Tail(encoder_msgq)
        /\ UNCHANGED <<down, waiting>>

PairingNext == Rotate \/ Press \/ Release
Next == PairingNext \/ Take

Spec == Init /\ [][Next]_<<encoder_msgq, down, waiting>>
=============================================================================
