---------------------------- MODULE EncoderProofs ----------------------------
(***************************************************************************)
(* Theorems about EncoderInput for every width of the clock, every debounce*)
(* and pairing window, polling period and queue size its assumption allows.*)
(***************************************************************************)
EXTENDS EncoderInput, TLAPS

(* While the driver waits for a second press, its first press is the last  *)
(* one seen, unless a late press of the same hold came after it; and once  *)
(* it does not wait, at most one quick press has been seen.                *)
PressesTracked ==
  /\ waiting_double_press =>
       /\ fast > 0
       /\ \/ since_press = Least(Since(first_press_time), DOUBLE_PRESS_MS)
          \/ /\ Since(first_press_time) >= DOUBLE_PRESS_MS
             /\ fast = 1 /\ last_switch_state
  /\ ~waiting_double_press /\ since_press < DOUBLE_PRESS_MS => fast <= 1
  /\ fast <= 2

Inv == TypeOK /\ PressesTracked

-----------------------------------------------------------------------------
(* Differences of two readings of the clock, before and after a tick.      *)
LEMMA SinceRange ==
  ASSUME NEW c \in 0..(ClockMod - 1), NEW t \in 0..(ClockMod - 1)
  PROVE  (c - t) % ClockMod = IF c >= t THEN c - t ELSE c - t + ClockMod
  <1>1. ClockMod \in Nat \ {0}
    BY EncoderAssumption
  <1>2. CASE c >= t
    <2>1. c - t \in 0..(ClockMod - 1)
      BY <1>1, <1>2
    <2>2. \A a \in 0..(ClockMod - 1) : a % ClockMod = a
      BY <1>1, Z3
    <2> QED
      BY <2>1, <2>2, <1>2
  <1>3. CASE c < t
    <2>1. c - t \in Int /\ c - t < 0 /\ c - t >= 0 - ClockMod
      BY <1>1, <1>3
    <2>2. \A a \in Int : a < 0 /\ a >= 0 - ClockMod => a % ClockMod = a + ClockMod
      BY <1>1, Z3
    <2> QED
      BY <2>1, <2>2, <1>1, <1>3
  <1> QED
    BY <1>2, <1>3, <1>1

LEMMA TickedClock ==
  ASSUME NEW c \in 0..(ClockMod - 1)
  PROVE  (c + 1) % ClockMod = IF c = ClockMod - 1 THEN 0 ELSE c + 1
  <1>1. ClockMod \in Nat \ {0}
    BY EncoderAssumption
  <1>2. \A a \in 0..(ClockMod - 1) : a % ClockMod = a
    BY <1>1, Z3
  <1>3. ClockMod % ClockMod = 0
    BY <1>1, Z3
  <1> QED
    BY <1>1, <1>2, <1>3

(* A tick ages a first press by one, as long as its age does not wrap. *)
LEMMA TickAges ==
  ASSUME NEW c \in 0..(ClockMod - 1), NEW t \in 0..(ClockMod - 1),
         (c - t) % ClockMod < ClockMod - 1
  PROVE  (((c + 1) % ClockMod) - t) % ClockMod = ((c - t) % ClockMod) + 1
  <1>1. (c + 1) % ClockMod \in 0..(ClockMod - 1)
    BY TickedClock, EncoderAssumption
  <1> DEFINE d == (c + 1) % ClockMod
  <1>2. (d - t) % ClockMod = IF d >= t THEN d - t ELSE d - t + ClockMod
    BY <1>1, SinceRange
  <1>3. (c - t) % ClockMod = IF c >= t THEN c - t ELSE c - t + ClockMod
    BY SinceRange
  <1>4. d = IF c = ClockMod - 1 THEN 0 ELSE c + 1
    BY TickedClock
  <1> HIDE DEF d
  <1>5. (d - t) % ClockMod = ((c - t) % ClockMod) + 1
    BY <1>2, <1>3, <1>4, EncoderAssumption
  <1> QED
    BY <1>5 DEF d

LEMMA SinceNat ==
  ASSUME TypeOK
  PROVE  /\ Since(first_press_time) \in 0..(ClockMod - 1)
         /\ (clock - clock) % ClockMod = 0
  <1>1. {clock, first_press_time} \subseteq 0..(ClockMod - 1) /\ ClockMod \in Nat
    BY EncoderAssumption DEF TypeOK
  <1>2. Since(first_press_time) = IF clock >= first_press_time THEN clock - first_press_time
                                  ELSE clock - first_press_time + ClockMod
    BY <1>1, SinceRange DEF Since
  <1>3. (clock - clock) % ClockMod = IF clock >= clock THEN clock - clock
                                     ELSE clock - clock + ClockMod
    BY <1>1, SinceRange
  <1> QED
    BY <1>1, <1>2, <1>3
-----------------------------------------------------------------------------
LEMMA InitInv == Init => Inv
  <1> SUFFICES ASSUME Init PROVE Inv
    OBVIOUS
  <1> USE EncoderAssumption DEF Init, EncoderInit
  <1>1. encoder_msgq \in Seq(encoder_event) /\ Len(encoder_msgq) <= ENCODER_MSGQ_SIZE
    OBVIOUS
  <1>2. {clock, last_a_time, last_s_time, first_press_time} \subseteq 0..(ClockMod - 1)
    OBVIOUS
  <1>3. {sw, waiting_double_press, last_switch_state, work_pending} \subseteq BOOLEAN
    OBVIOUS
  <1>4. poll_left \in 0..POLL_MS /\ since_press \in 0..DOUBLE_PRESS_MS /\ fast \in Nat
    OBVIOUS
  <1>5. PressesTracked
    BY DEF PressesTracked
  <1> QED
    BY <1>1, <1>2, <1>3, <1>4, <1>5 DEF Inv, TypeOK

(* What Put makes of a queue. *)
LEMMA PutType ==
  ASSUME NEW q \in Seq(encoder_event), Len(q) <= ENCODER_MSGQ_SIZE, NEW ev \in encoder_event
  PROVE  Put(q, ev) \in Seq(encoder_event) /\ Len(Put(q, ev)) <= ENCODER_MSGQ_SIZE
  <1>1. CASE Len(q) < ENCODER_MSGQ_SIZE
    BY <1>1, EncoderAssumption DEF Put
  <1>2. CASE ~(Len(q) < ENCODER_MSGQ_SIZE)
    BY <1>2 DEF Put
  <1> QED
    BY <1>1, <1>2

LEMMA RotationType ==
  ASSUME NEW b \in BOOLEAN
  PROVE  RotationEvent(b) \in Pairing!Rotations /\ RotationEvent(b) \in encoder_event
  BY DEF RotationEvent, Pairing!Rotations, encoder_event

(* The branches of switch_poll_work_handler that a settled press takes. *)
SeenPress == /\ last_s_time' = clock /\ last_switch_state' = sw /\ sw /\ Settled
             /\ CountPress

LEMMA PressInv ==
  ASSUME Inv, SeenPress, FirstPress \/ SecondPress \/ LatePress,
         UNCHANGED <<clock, sw, last_a_time, poll_left>>, work_pending' = FALSE
  PROVE  Inv'
  <1> USE DEF Inv, TypeOK
  <1>1. ~last_switch_state /\ last_switch_state' = TRUE
    BY DEF SeenPress, Settled
  <1>2. Since(first_press_time) \in 0..(ClockMod - 1) /\ (clock - clock) % ClockMod = 0
    BY SinceNat
  <1>3. fast + 1 \in Nat /\ (since_press < DOUBLE_PRESS_MS => fast <= 2)
        /\ DOUBLE_PRESS_MS \in Nat /\ DOUBLE_PRESS_MS > 0 /\ since_press' = 0
    BY EncoderAssumption DEF PressesTracked, SeenPress, CountPress
  <1>4. fast' = IF waiting_double_press'
                  THEN IF since_press < DOUBLE_PRESS_MS THEN fast + 1 ELSE 1
                  ELSE 0
    BY DEF SeenPress, CountPress
  <1>0. last_s_time' \in 0..(ClockMod - 1) /\ last_switch_state' \in BOOLEAN
        /\ work_pending' \in BOOLEAN /\ fast' \in Nat /\ since_press' \in 0..DOUBLE_PRESS_MS
    <2>1. fast' \in Nat /\ since_press' \in 0..DOUBLE_PRESS_MS
      BY <1>3, <1>4
    <2>2. last_s_time' \in 0..(ClockMod - 1)
      BY DEF SeenPress
    <2>3. last_switch_state' \in BOOLEAN /\ work_pending' \in BOOLEAN
      BY <1>1
    <2> QED
      BY <2>1, <2>2, <2>3
  <1>5. CASE FirstPress
    <2>1. TypeOK'
      BY <1>0, <1>5 DEF FirstPress
    <2>2. Since(first_press_time)' = 0
      BY <1>2, <1>5 DEF Since, FirstPress
    <2>3. PressesTracked'
      BY <1>3, <1>4, <1>5, <2>2 DEF FirstPress, PressesTracked, Least
    <2> QED
      BY <2>1, <2>3
  <1>6. CASE SecondPress
    <2>1. encoder_msgq' \in Seq(encoder_event) /\ Len(encoder_msgq') <= ENCODER_MSGQ_SIZE
      BY <1>6, PutType DEF SecondPress, encoder_event
    <2>2. TypeOK'
      BY <1>0, <1>6, <2>1 DEF SecondPress
    <2> QED
      BY <1>4, <1>6, <2>2 DEF SecondPress, PressesTracked
  <1>7. CASE LatePress
    <2>1. since_press = DOUBLE_PRESS_MS
      BY <1>1, <1>2, <1>3, <1>7 DEF LatePress, PressesTracked, Least
    <2>2. fast' = 1
      BY <1>3, <1>4, <1>7, <2>1 DEF LatePress
    <2>3. TypeOK'
      BY <1>0, <1>7 DEF LatePress
    <2>4. Since(first_press_time)' = Since(first_press_time)
      BY <1>7 DEF Since, LatePress
    <2> QED
      BY <1>1, <1>7, <2>2, <2>3, <2>4 DEF LatePress, PressesTracked
  <1> QED
    BY <1>5, <1>6, <1>7

LEMMA ReleaseInv ==
  ASSUME Inv, Release, Settled, ~sw, last_s_time' = clock, last_switch_state' = sw,
         UNCHANGED <<clock, sw, last_a_time, poll_left>>, work_pending' = FALSE
  PROVE  Inv'
  <1> USE DEF Inv, TypeOK
  <1>1. Since(first_press_time)' = Since(first_press_time)
    BY DEF Since, Release
  <1>2. waiting_double_press' \in BOOLEAN
    BY DEF Release
  <1>3. TypeOK'
    BY <1>2 DEF Release
  <1>4. Since(first_press_time) \in 0..(ClockMod - 1) /\ DOUBLE_PRESS_MS \in Nat
    BY SinceNat, EncoderAssumption
  <1>5. PressesTracked'
    <2>1. CASE waiting_double_press /\ Since(first_press_time) < DOUBLE_PRESS_MS
      <3>1. waiting_double_press' = TRUE /\ UNCHANGED <<fast, since_press>>
        BY <2>1 DEF Release
      <3>2. since_press = Since(first_press_time)
        BY <1>4, <2>1 DEF PressesTracked, Least
      <3> QED
        BY <1>1, <1>4, <2>1, <3>1, <3>2 DEF PressesTracked, Least
    <2>2. CASE waiting_double_press /\ ~(Since(first_press_time) < DOUBLE_PRESS_MS)
      BY <1>1, <1>4, <2>2 DEF Release, PressesTracked, Least
    <2>3. CASE ~waiting_double_press
      BY <1>1, <2>3 DEF Release, PressesTracked
    <2> QED
      BY <2>1, <2>2, <2>3
  <1> QED
    BY <1>3, <1>5

LEMMA WorkInv ==
  ASSUME Inv, switch_poll_work_handler
  PROVE  Inv'
  <1>1. CASE Settled /\ sw
    <2>1. SeenPress /\ (FirstPress \/ SecondPress \/ LatePress)
          /\ UNCHANGED <<clock, sw, last_a_time, poll_left>> /\ work_pending' = FALSE
      BY <1>1 DEF switch_poll_work_handler, SeenPress
    <2> QED
      BY <2>1, PressInv
  <1>2. CASE Settled /\ ~sw
    BY <1>2, ReleaseInv DEF switch_poll_work_handler
  <1>3. CASE ~Settled
    BY <1>3 DEF switch_poll_work_handler, pairing, Inv, TypeOK, PressesTracked, Since
  <1> QED
    BY <1>1, <1>2, <1>3

LEMMA TimeInv ==
  ASSUME Inv, TimePasses, UNCHANGED encoder_msgq
  PROVE  Inv'
  <1> USE DEF Inv, TypeOK
  <1>1. ClockMod \in Nat \ {0} /\ DOUBLE_PRESS_MS \in Nat /\ POLL_MS \in Nat
    BY EncoderAssumption
  <1>2. clock' \in 0..(ClockMod - 1)
    BY <1>1, TickedClock DEF TimePasses
  <1>3. since_press' \in 0..DOUBLE_PRESS_MS /\ since_press <= since_press'
    BY <1>1 DEF TimePasses, Least
  <1>4. TypeOK'
    BY <1>1, <1>2, <1>3 DEF TimePasses, switch, pairing
  <1>5. PressesTracked'
    <2>1. CASE waiting_double_press
      <3>1. Since(first_press_time)' = Since(first_press_time) + 1
        BY <2>1, TickAges DEF TimePasses, switch, pairing, Since
      <3>2. Since(first_press_time) \in 0..(ClockMod - 1)
        BY SinceNat
      <3> QED
        BY <1>1, <2>1, <3>1, <3>2, SMTT(30) DEF TimePasses, switch, pairing, Least, PressesTracked
    <2>2. CASE ~waiting_double_press
      BY <1>1, <1>3, <2>2 DEF TimePasses, switch, pairing, PressesTracked
    <2> QED
      BY <2>1, <2>2
  <1> QED
    BY <1>4, <1>5

(* Every step keeps Inv. *)
LEMMA NextInv == Inv /\ [Next]_vars => Inv'
  <1> SUFFICES ASSUME Inv, [Next]_vars PROVE Inv'
    OBVIOUS
  <1> USE DEF Inv
  <1>1. ASSUME NEW b \in BOOLEAN, encoder_handler(b) PROVE Inv'
    <2>1. encoder_msgq' \in Seq(encoder_event) /\ Len(encoder_msgq') <= ENCODER_MSGQ_SIZE
      BY <1>1, RotationType, PutType DEF encoder_handler, TypeOK
    <2> QED
      BY <1>1, <2>1 DEF encoder_handler, switch, pairing, TypeOK, PressesTracked, Since
  <1>2. CASE switch_poll_timer_handler
    BY <1>2, EncoderAssumption
    DEF switch_poll_timer_handler, switch, pairing, TypeOK, PressesTracked, Since
  <1>3. CASE switch_poll_work_handler
    BY <1>3, WorkInv
  <1>4. CASE MoveSwitch
    BY <1>4 DEF MoveSwitch, switch, pairing, TypeOK, PressesTracked, Since
  <1>5. CASE TimePasses /\ UNCHANGED encoder_msgq
    BY <1>5, TimeInv
  <1>6. CASE Take
    <2>1. encoder_msgq' \in Seq(encoder_event) /\ Len(encoder_msgq') <= ENCODER_MSGQ_SIZE
      BY <1>6, EncoderAssumption DEF Take, TypeOK
    <2> QED
      BY <1>6, <2>1 DEF Take, encvars, switch, pairing, TypeOK, PressesTracked, Since
  <1>7. CASE UNCHANGED vars
    BY <1>7 DEF vars, encvars, switch, pairing, TypeOK, PressesTracked, Since
  <1> QED
    BY <1>1, <1>2, <1>3, <1>4, <1>5, <1>6, <1>7 DEF Next, EncoderNext

THEOREM EncoderInv == Spec => []Inv
  BY InitInv, NextInv, PTL DEF Spec

(* The variables of the driver keep to their declared values. *)
THEOREM EncoderTypeOK == Spec => []TypeOK
  <1>1. Inv => TypeOK
    BY DEF Inv
  <1> QED
    BY <1>1, EncoderInv, PTL

(* Three presses in quick succession always contain a DOUBLE_PRESS,        *)
(* whatever the windows are and however late the work item runs.           *)
THEOREM ThreePressesTheorem == Spec => []ThreePressesSuffice
  <1>1. Inv => ThreePressesSuffice
    BY DEF Inv, PressesTracked, ThreePressesSuffice
  <1> QED
    BY <1>1, EncoderInv, PTL
-----------------------------------------------------------------------------
(* A queue is not itself with something behind it. *)
LEMMA QueueGrows ==
  ASSUME NEW q \in Seq(encoder_event), NEW ev \in encoder_event
  PROVE  q # Append(q, ev) /\ (q # << >> => Tail(q) # Append(q, ev))
  <1>1. Len(Append(q, ev)) = Len(q) + 1
    OBVIOUS
  <1>2. q # << >> => Len(Tail(q)) = Len(q) - 1
    OBVIOUS
  <1> QED
    BY <1>1, <1>2

LEMMA RotationIsNoPress ==
  ASSUME NEW q \in Seq(encoder_event), NEW b \in BOOLEAN
  PROVE  Put(q, RotationEvent(b)) # Append(q, "DOUBLE_PRESS")
  <1>1. RotationEvent(b) \in encoder_event \ {"DOUBLE_PRESS"}
    BY DEF RotationEvent, encoder_event
  <1>2. "DOUBLE_PRESS" \in encoder_event
    BY DEF encoder_event
  <1>3. Append(q, RotationEvent(b))[Len(q) + 1] = RotationEvent(b)
    BY <1>1
  <1>4. Append(q, "DOUBLE_PRESS")[Len(q) + 1] = "DOUBLE_PRESS"
    BY <1>2
  <1> QED
    BY <1>1, <1>2, <1>3, <1>4, QueueGrows DEF Put

LEMMA PutIsGenuine ==
  ASSUME Inv, [Next]_vars, DoublePressPut
  PROVE  sw /\ since_press < DOUBLE_PRESS_MS /\ fast > 0
  <1>1. encoder_msgq \in Seq(encoder_event) /\ "DOUBLE_PRESS" \in encoder_event
    BY DEF Inv, TypeOK, encoder_event
  <1>2. encoder_msgq' # encoder_msgq
    BY <1>1, QueueGrows DEF DoublePressPut
  <1>3. ASSUME NEW b \in BOOLEAN, encoder_handler(b) PROVE FALSE
    BY <1>1, <1>3, RotationIsNoPress DEF encoder_handler, DoublePressPut
  <1>4. ~Take
    BY <1>1, QueueGrows DEF Take, DoublePressPut
  <1>5. switch_poll_work_handler
    BY <1>2, <1>3, <1>4
    DEF Next, EncoderNext, vars, switch_poll_timer_handler, MoveSwitch
  <1>6. sw /\ SecondPress
    BY <1>2, <1>5 DEF switch_poll_work_handler, FirstPress, LatePress, Release
  <1>7. Since(first_press_time) \in 0..(ClockMod - 1) /\ DOUBLE_PRESS_MS \in Nat
    BY SinceNat, EncoderAssumption DEF Inv
  <1>8. fast > 0 /\ since_press = Since(first_press_time)
    BY <1>6, <1>7 DEF SecondPress, Inv, PressesTracked, Least
  <1> QED
    BY <1>6, <1>8 DEF SecondPress

(* A DOUBLE_PRESS is put only by a press soon after another one that no    *)
(* earlier DOUBLE_PRESS used, across every wrap of the clock.              *)
THEOREM GenuineTheorem == Spec => DoublePressGenuine
  <1>1. Inv /\ [Next]_vars =>
          [DoublePressPut => sw /\ since_press < DOUBLE_PRESS_MS /\ fast > 0]_vars
    BY PutIsGenuine
  <1> QED
    BY <1>1, EncoderInv, PTL DEF Spec, DoublePressGenuine

LEMMA PairingInitImplied == Init => Pairing!Init
  BY DEF Init, EncoderInit, Pairing!Init, Pairing!PairingInit

(* Every step of the driver is one of PressPairing, or none. *)
LEMMA PairingStep ==
  ASSUME Inv, [Next]_vars
  PROVE  [Pairing!Next]_<<encoder_msgq, last_switch_state, waiting_double_press>>
  <1> USE DEF Pairing!Next, Pairing!PairingNext
  <1>1. ASSUME NEW b \in BOOLEAN, encoder_handler(b) PROVE Pairing!Rotate
    BY <1>1, RotationType
    DEF encoder_handler, Put, switch, pairing, Pairing!Rotate, Pairing!Put
  <1>2. CASE switch_poll_work_handler /\ Settled /\ sw
    <2>1. ~last_switch_state /\ last_switch_state' = TRUE
      BY <1>2 DEF switch_poll_work_handler, Settled, Inv, TypeOK
    <2>2. FirstPress \/ SecondPress \/ LatePress
      BY <1>2 DEF switch_poll_work_handler
    <2> QED
      BY <2>1, <2>2
      DEF FirstPress, SecondPress, LatePress, Put, Pairing!Press, Pairing!Put
  <1>3. CASE switch_poll_work_handler /\ Settled /\ ~sw
    <2>1. last_switch_state /\ last_switch_state' = FALSE
      BY <1>3 DEF switch_poll_work_handler, Settled, Inv, TypeOK
    <2>2. Release
      BY <1>3 DEF switch_poll_work_handler
    <2>3. waiting_double_press' \in {waiting_double_press, FALSE}
      BY <2>2 DEF Release, Inv, TypeOK
    <2> QED
      BY <2>1, <2>2, <2>3 DEF Release, Pairing!Release
  <1>4. CASE switch_poll_work_handler /\ ~Settled
    BY <1>4 DEF switch_poll_work_handler, pairing
  <1>5. CASE Take
    BY <1>5 DEF Take, encvars, switch, pairing, Pairing!Take
  <1>6. CASE switch_poll_timer_handler \/ MoveSwitch
    BY <1>6 DEF switch_poll_timer_handler, MoveSwitch, switch, pairing
  <1>7. CASE TimePasses /\ UNCHANGED encoder_msgq
    BY <1>7 DEF TimePasses, switch, pairing
  <1>8. CASE UNCHANGED vars
    BY <1>8 DEF vars, encvars, switch, pairing
  <1> QED
    BY <1>1, <1>2, <1>3, <1>4, <1>5, <1>6, <1>7, <1>8 DEF Next, EncoderNext

(* With its clocks and timers, for every choice of the windows, the driver *)
(* implements the pairing of presses without clocks.                       *)
THEOREM PairingTheorem == Spec => PressesPaired
  <1>1. Inv /\ [Next]_vars
          => [Pairing!Next]_<<encoder_msgq, last_switch_state, waiting_double_press>>
    BY PairingStep
  <1> QED
    BY <1>1, PairingInitImplied, EncoderInv, PTL DEF Spec, PressesPaired, Pairing!Spec
=============================================================================
