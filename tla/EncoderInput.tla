---------------------------- MODULE EncoderInput ----------------------------
(***************************************************************************)
(* The rotary encoder, drivers/input/src/encoder_input.c.                  *)
(*                                                                         *)
(* An interrupt on phase A turns a rotation into an event.  A timer polls  *)
(* the switch through a work item, debounces it and pairs two presses into *)
(* a DOUBLE_PRESS.  Both put into encoder_msgq without waiting.  The hand  *)
(* on the knob may turn it and press or release the switch at any moment.  *)
(***************************************************************************)
EXTENDS Integers, Sequences

CONSTANTS
  DEBOUNCE_ROTATE_MS, DEBOUNCE_SWITCH_MS, DOUBLE_PRESS_MS,  \* in ticks
  POLL_MS,                 \* the period of switch_poll_timer, in ticks
  ENCODER_MSGQ_SIZE,
  ClockMod                 \* k_uptime_get_32 counts modulo this

encoder_event == {"ROTATE_CW", "ROTATE_CCW", "DOUBLE_PRESS",
                  "PRESS_ROTATE_CW", "PRESS_ROTATE_CCW"}

ASSUME EncoderAssumption ==
  /\ {DEBOUNCE_ROTATE_MS, DEBOUNCE_SWITCH_MS, DOUBLE_PRESS_MS} \subseteq Nat
  /\ POLL_MS \in Nat \ {0} /\ ENCODER_MSGQ_SIZE \in Nat \ {0}
  /\ ClockMod \in Nat /\ DEBOUNCE_SWITCH_MS < DOUBLE_PRESS_MS /\ DOUBLE_PRESS_MS < ClockMod - 1

VARIABLES
  encoder_msgq, clock,
  sw,                      \* the switch is down
  last_a_time, last_s_time, waiting_double_press, first_press_time,
  last_switch_state,       \* TRUE for down
  poll_left,               \* until switch_poll_timer expires
  work_pending,            \* switch_poll_work is queued
  since_press,             \* history: real time since the last press seen, at most DOUBLE_PRESS_MS
  fast                     \* history: presses seen in a row, each soon after the one before,
                           \* since the last DOUBLE_PRESS

pairing  == <<waiting_double_press, first_press_time, fast>>
switch   == <<last_s_time, last_switch_state, pairing>>
encvars  == <<sw, last_a_time, switch, poll_left, work_pending, since_press>>
vars     == <<encoder_msgq, clock, encvars>>

Since(t) == (clock - t) % ClockMod
Least(a, b) == IF a < b THEN a ELSE b

(* The driver's statics at boot; the knob may already be held down. *)
EncoderInit ==
  /\ sw \in BOOLEAN
  /\ last_a_time = 0 /\ last_s_time = 0
  /\ waiting_double_press = FALSE /\ first_press_time = 0
  /\ last_switch_state = TRUE
  /\ poll_left = POLL_MS /\ work_pending = FALSE
  /\ since_press = DOUBLE_PRESS_MS /\ fast = 0

Init == EncoderInit /\ encoder_msgq = << >> /\ clock \in 0..(ClockMod - 1)
-----------------------------------------------------------------------------
(* The operators named Faulty... are what a plausible mistake would make   *)
(* of the operator after them; nothing refers to them.                     *)
FaultyPut(q, ev) == Append(q, ev)    \* a queue without a limit

Put(q, ev) == IF Len(q) < ENCODER_MSGQ_SIZE THEN Append(q, ev) ELSE q

(* The interrupt of a rising edge of phase A, phase B being b. *)
RotationEvent(b) == IF sw THEN (IF b THEN "PRESS_ROTATE_CCW" ELSE "PRESS_ROTATE_CW")
                          ELSE (IF b THEN "ROTATE_CCW" ELSE "ROTATE_CW")
encoder_handler(b) ==
  /\ Since(last_a_time) >= DEBOUNCE_ROTATE_MS
  /\ last_a_time' = clock
  /\ encoder_msgq' = Put(encoder_msgq, RotationEvent(b))
  /\ UNCHANGED <<clock, sw, switch, poll_left, work_pending, since_press>>

switch_poll_timer_handler ==
  /\ poll_left = 0
  /\ poll_left' = POLL_MS /\ work_pending' = TRUE
  /\ UNCHANGED <<encoder_msgq, clock, sw, last_a_time, switch, since_press>>

FirstPress ==
  /\ ~waiting_double_press
  /\ waiting_double_press' = TRUE /\ first_press_time' = clock
  /\ UNCHANGED encoder_msgq

FaultySecondPress ==                 \* however late
  /\ waiting_double_press
  /\ waiting_double_press' = FALSE
  /\ encoder_msgq' = Put(encoder_msgq, "DOUBLE_PRESS")
  /\ UNCHANGED first_press_time

FaultyPressUsedTwice ==              \* the next press makes another pair
  /\ waiting_double_press /\ Since(first_press_time) < DOUBLE_PRESS_MS
  /\ encoder_msgq' = Put(encoder_msgq, "DOUBLE_PRESS")
  /\ UNCHANGED <<waiting_double_press, first_press_time>>

SecondPress ==
  /\ waiting_double_press /\ Since(first_press_time) < DOUBLE_PRESS_MS
  /\ waiting_double_press' = FALSE
  /\ encoder_msgq' = Put(encoder_msgq, "DOUBLE_PRESS")
  /\ UNCHANGED first_press_time

(* A press too late for the one the driver still waits with: no event. *)
LatePress ==
  /\ waiting_double_press /\ Since(first_press_time) >= DOUBLE_PRESS_MS
  /\ UNCHANGED <<encoder_msgq, waiting_double_press, first_press_time>>

FaultyRelease ==                     \* a first press is waited with for ever
  UNCHANGED <<waiting_double_press, encoder_msgq, first_press_time, fast, since_press>>

Release ==
  /\ waiting_double_press' =
       (waiting_double_press /\ Since(first_press_time) < DOUBLE_PRESS_MS)
  /\ UNCHANGED <<encoder_msgq, first_press_time, fast, since_press>>

(* fast and since_press follow the presses the driver sees. *)
CountPress == LET n == IF since_press < DOUBLE_PRESS_MS THEN fast + 1 ELSE 1
              IN fast' = (IF waiting_double_press' THEN n ELSE 0) /\ since_press' = 0

Settled == sw # last_switch_state /\ Since(last_s_time) >= DEBOUNCE_SWITCH_MS

switch_poll_work_handler ==
  /\ work_pending /\ work_pending' = FALSE
  /\ IF Settled
       THEN /\ last_s_time' = clock /\ last_switch_state' = sw
            /\ \/ sw /\ (FirstPress \/ SecondPress \/ LatePress) /\ CountPress
               \/ ~sw /\ Release
       ELSE UNCHANGED <<encoder_msgq, last_s_time, last_switch_state, pairing, since_press>>
  /\ UNCHANGED <<clock, sw, last_a_time, poll_left>>
-----------------------------------------------------------------------------
MoveSwitch == sw' = ~sw /\ UNCHANGED <<encoder_msgq, clock, last_a_time, switch, poll_left, work_pending, since_press>>

(* Timers fire on time, so the clock does not pass an expiry.  Bound: time *)
(* stops before the age of a first press the driver still holds would wrap.*)
TimePasses ==
  /\ poll_left > 0
  /\ waiting_double_press => Since(first_press_time) < ClockMod - 1
  /\ clock' = (clock + 1) % ClockMod
  /\ poll_left' = poll_left - 1
  /\ since_press' = Least(since_press + 1, DOUBLE_PRESS_MS)
  /\ UNCHANGED <<sw, last_a_time, switch, work_pending>>

EncoderNext ==
  \/ \E b \in BOOLEAN : encoder_handler(b)
  \/ switch_poll_timer_handler
  \/ switch_poll_work_handler
  \/ MoveSwitch

(* The menu thread takes events at its own pace. *)
Take == encoder_msgq # << >> /\ encoder_msgq' = Tail(encoder_msgq) /\ UNCHANGED <<clock, encvars>>

Next == EncoderNext \/ (TimePasses /\ UNCHANGED encoder_msgq) \/ Take

Spec == Init /\ [][Next]_vars
-----------------------------------------------------------------------------
(* Every variable keeps to the values of its declaration. *)
TypeOK ==
  /\ encoder_msgq \in Seq(encoder_event) /\ Len(encoder_msgq) <= ENCODER_MSGQ_SIZE
  /\ {clock, last_a_time, last_s_time, first_press_time} \subseteq 0..(ClockMod - 1)
  /\ {sw, waiting_double_press, last_switch_state, work_pending} \subseteq BOOLEAN
  /\ poll_left \in 0..POLL_MS /\ since_press \in 0..DOUBLE_PRESS_MS /\ fast \in Nat

DoublePressPut == encoder_msgq' = Append(encoder_msgq, "DOUBLE_PRESS")

(* A DOUBLE_PRESS is put only by a press seen less than DOUBLE_PRESS_MS of *)
(* real time after another one that no earlier DOUBLE_PRESS used: a stale  *)
(* first press, a bounce, a button held at boot or a triple press cannot   *)
(* make one.                                                               *)
DoublePressGenuine ==
  [][DoublePressPut => sw /\ since_press < DOUBLE_PRESS_MS /\ fast > 0]_vars

(* With its clocks and timers the driver implements PressPairing: no delay *)
(* of the work item, bounce or lost event reorders events, or lets one     *)
(* press count for two DOUBLE_PRESS events.                                *)
Pairing == INSTANCE PressPairing WITH down <- last_switch_state, waiting <- waiting_double_press
PressesPaired == Pairing!Spec

(* The driver can swallow one press of a fast series, when it still holds  *)
(* the first press of an old one, but never two: three presses that follow *)
(* one another quickly contain a DOUBLE_PRESS.                             *)
ThreePressesSuffice == fast <= 2
=============================================================================
