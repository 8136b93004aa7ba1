-------------------------------- MODULE Sound --------------------------------
(***************************************************************************)
(* The buzzer, modules/sound/src/sound.c, with the one caller it has, the  *)
(* user button of apps/obelics/src/main.c.                                 *)
(*                                                                         *)
(* A delayable work item plays one note per run and schedules itself for   *)
(* the end of the note.  The button's interrupt submits another item to    *)
(* the same system work queue, whose handler starts the next demo sound.   *)
(* Handlers of a queue run one after the other and no thread preempts      *)
(* them, so each is one action; interrupts and the clock come in between.  *)
(***************************************************************************)
EXTENDS Integers, SequencesExt

CONSTANTS
  Null,
  Sounds,      \* the note tables: a set of sequences of [freq, dur]
  Demo         \* the sounds the button goes through, in order

ASSUME SoundAssumption ==
  /\ Sounds \subseteq Seq([freq : Nat, dur : Nat])
  /\ Demo \in Seq(Sounds) /\ Len(Demo) > 0
  /\ Null \notin Nat

VARIABLES
  notes, index, done_cb,    \* sound_state; notes carries its count
  pwm,                      \* the frequency the buzzer is driven at, 0 for none
  delay,                    \* of note_work: ticks left, Null when it is not delayed
  workq,                    \* the system work queue: "note", "button"
  demo,
  heard,                    \* history: notes started since the last play_sound
  finished                  \* history: calls of the callback since then

sound_state == <<notes, index, done_cb>>
vars == <<sound_state, pwm, delay, workq, demo, heard, finished>>

Empty == << >>
Init ==
  /\ notes = Empty /\ index = 0 /\ done_cb = FALSE
  /\ pwm = 0 /\ delay = Null /\ workq = << >> /\ demo = 0
  /\ heard = << >> /\ finished = 0
-----------------------------------------------------------------------------
(* k_work_cancel takes the item's node out of the queue. *)
Without(q, item) == RemoveFirst(q, item)

(* Submitting an item that is already queued does nothing. *)
Submit(q, item) == IF Contains(q, item) THEN q ELSE Append(q, item)

(* The queue and the timer after k_work_reschedule(&note_work, d): the     *)
(* delay that ran is forgotten; no delay means straight into the queue.    *)
Reschedule(q, d) ==
  /\ delay' = IF d = 0 THEN Null ELSE d
  /\ workq' = IF d = 0 THEN Submit(q, "note") ELSE q

(* The operators named Faulty... are what a plausible mistake would make   *)
(* of the operator after them; nothing refers to them.                     *)
FaultyFinishIndex ==                 \* the index is not reset
  /\ index >= Len(notes)
  /\ finished' = finished + (IF done_cb THEN 1 ELSE 0)
  /\ notes' = Empty /\ done_cb' = FALSE
  /\ pwm' = 0
  /\ workq' = Tail(workq)
  /\ UNCHANGED <<index, delay, heard>>

FaultyFinishPwm ==                   \* the buzzer is not turned off
  /\ index >= Len(notes)
  /\ finished' = finished + (IF done_cb THEN 1 ELSE 0)
  /\ notes' = Empty /\ index' = 0 /\ done_cb' = FALSE
  /\ workq' = Tail(workq)
  /\ UNCHANGED <<pwm, delay, heard>>

(* note_work_handler past the last note: the state is cleared and the      *)
(* callback of this sound called.                                          *)
FinishSound ==
  /\ index >= Len(notes)
  /\ finished' = finished + (IF done_cb THEN 1 ELSE 0)
  /\ notes' = Empty /\ index' = 0 /\ done_cb' = FALSE
  /\ pwm' = 0
  /\ workq' = Tail(workq)
  /\ UNCHANGED <<delay, heard>>

FaultyPlayNote ==                    \* the next run is not scheduled
  /\ index < Len(notes)
  /\ pwm' = notes[index + 1].freq
  /\ heard' = Append(heard, notes[index + 1])
  /\ workq' = Tail(workq) /\ delay' = Null
  /\ index' = index + 1
  /\ UNCHANGED <<notes, done_cb, finished>>

PlayNote ==
  /\ index < Len(notes)
  /\ LET n == notes[index + 1]
     IN /\ pwm' = n.freq
        /\ heard' = Append(heard, n)
        /\ Reschedule(Tail(workq), n.dur)
  /\ index' = index + 1
  /\ UNCHANGED <<notes, done_cb, finished>>

note_work_handler ==
  /\ workq # << >> /\ Head(workq) = "note"
  /\ FinishSound \/ PlayNote
  /\ UNCHANGED demo

FaultyNoReset(s) ==                  \* the new sound starts in the middle
  /\ pwm' = 0
  /\ notes' = s /\ done_cb' = TRUE
  /\ Reschedule(Without(Tail(workq), "note"), 0)
  /\ heard' = << >> /\ finished' = 0
  /\ UNCHANGED index

(* stop_sound and the assignments of play_sound after it. *)
play_sound(s) ==
  /\ pwm' = 0
  /\ notes' = s /\ index' = 0 /\ done_cb' = TRUE
  /\ Reschedule(Without(Tail(workq), "note"), 0)
  /\ heard' = << >> /\ finished' = 0

(* demo++ % 4: the counter has eight bits, and four divides its wrap. *)
button_work_handler ==
  /\ workq # << >> /\ Head(workq) = "button"
  /\ play_sound(Demo[demo + 1])
  /\ demo' = (demo + 1) % Len(Demo)

(* The interrupt of the user button. *)
button_handler ==
  /\ workq' = Submit(workq, "button")
  /\ UNCHANGED <<sound_state, pwm, delay, demo, heard, finished>>

(* The timeout of note_work, kept in ticks. *)
Tick ==
  /\ delay # Null
  /\ delay' = IF delay = 1 THEN Null ELSE delay - 1
  /\ workq' = IF delay = 1 THEN Submit(workq, "note") ELSE workq
  /\ UNCHANGED <<sound_state, pwm, demo, heard, finished>>

Next == note_work_handler \/ button_work_handler \/ button_handler \/ Tick
Spec == Init /\ [][Next]_vars
(* The work queue is the highest-priority thread, and time goes on. *)
FairSpec == Spec /\ WF_vars(note_work_handler) /\ WF_vars(button_work_handler) /\ WF_vars(Tick)
-----------------------------------------------------------------------------
Pending == delay # Null \/ \E i \in DOMAIN workq : workq[i] = "note"
Playing == done_cb

(* Every variable keeps to its type, the index to the notes of the sound.  *)
TypeOK ==
  /\ notes \in Sounds \cup {Empty} /\ index \in 0..Len(notes) /\ done_cb \in BOOLEAN
  /\ pwm \in Nat /\ delay \in Nat \cup {Null} /\ workq \in Seq({"note", "button"})
  /\ demo \in 0..(Len(Demo) - 1) /\ finished \in Nat

(* The buzzer is driven only while a run of note_work is due that will     *)
(* turn it off: no press of the button, at any moment of a note, leaves it *)
(* sounding for good.                                                      *)
NeverStuckOn == pwm # 0 => Pending

(* The notes started since a sound was asked for are its first ones, each  *)
(* once and in order, and the callback comes once, after the last of them. *)
PlayedInOrder ==
  /\ Playing => heard = SubSeq(notes, 1, index) /\ finished = 0
  /\ finished <= 1
  /\ ~Playing /\ heard # << >> => finished = 1 /\ heard \in Sounds

(* Unless the button is pressed over and over, every sound comes to its    *)
(* end: note_work always schedules its next run, whatever was cancelled.   *)
SoundEnds == []<>~Playing \/ []<>(\E i \in DOMAIN workq : workq[i] = "button")
=============================================================================
