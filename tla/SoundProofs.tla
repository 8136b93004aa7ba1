----------------------------- MODULE SoundProofs -----------------------------
(***************************************************************************)
(* Theorems about Sound for every set of note tables and every order of    *)
(* the demo sounds.                                                        *)
(***************************************************************************)
EXTENDS Sound, TLAPS

(* There is at most one run of note_work due, delayed or queued: the       *)
(* cancellation of play_sound finds it and a run that schedules the next   *)
(* finds none.                                                             *)
OneRunPending ==
  /\ \A i, j \in DOMAIN workq : workq[i] = workq[j] => i = j
  /\ delay # Null => \A i \in DOMAIN workq : workq[i] # "note"

(* A sound that is over has been forgotten, and a delay is not over. *)
StateConsistent ==
  /\ ~done_cb => notes = Empty /\ index = 0
  /\ delay # 0

Inv == TypeOK /\ OneRunPending /\ NeverStuckOn /\ PlayedInOrder /\ StateConsistent

LEMMA NotesType ==
  ASSUME NEW s \in Sounds \cup {Empty}
  PROVE  s \in Seq([freq : Nat, dur : Nat]) /\ Len(s) \in Nat
  <1> DEFINE Note == [freq : Nat, dur : Nat]
  <1>1. << >> \in Seq(Note)
    OBVIOUS
  <1>2. Sounds \subseteq Seq(Note)
    BY SoundAssumption
  <1> HIDE DEF Note
  <1>3. s \in Seq(Note)
    BY <1>1, <1>2 DEF Empty
  <1> QED
    BY <1>3 DEF Note

LEMMA ElementIn ==
  ASSUME NEW S, NEW s \in Seq(S), NEW i \in 1..Len(s)
  PROVE  s[i] \in S
  OBVIOUS

LEMMA InitInv == Init => Inv
  <1> SUFFICES ASSUME Init PROVE Inv
    OBVIOUS
  <1>1. TypeOK
    <2>1. /\ notes \in Sounds \cup {Empty} /\ index \in 0..Len(notes) /\ done_cb \in BOOLEAN
          /\ pwm \in Nat /\ delay \in Nat \cup {Null} /\ finished \in Nat
      <3>1. notes = << >> /\ Len(<< >>) = 0 /\ index = 0
        BY DEF Init, Empty
      <3>2. index \in 0..Len(notes)
        BY <3>1
      <3>3. done_cb \in BOOLEAN
        BY DEF Init
      <3> QED
        BY <3>1, <3>2, <3>3 DEF Init, Empty
    <2>2. workq \in Seq({"note", "button"}) /\ demo \in 0..(Len(Demo) - 1)
      BY SoundAssumption DEF Init
    <2> QED
      BY <2>1, <2>2 DEF TypeOK
  <1>2. OneRunPending /\ NeverStuckOn /\ PlayedInOrder /\ StateConsistent
    BY SoundAssumption DEF Init, OneRunPending, NeverStuckOn, PlayedInOrder, Playing, StateConsistent
  <1> QED
    BY <1>1, <1>2 DEF Inv

-----------------------------------------------------------------------------
(* The queue holds each item at most once, so it is one of five.           *)
LEMMA QueueIs ==
  ASSUME Inv, workq # << >>
  PROVE  /\ Head(workq) \in {"note", "button"} /\ Tail(workq) \in Seq({"note", "button"})
         /\ \A i, j \in DOMAIN Tail(workq) : Tail(workq)[i] = Tail(workq)[j] => i = j
         /\ \A i \in DOMAIN Tail(workq) : Tail(workq)[i] # Head(workq)
         /\ Head(workq) = "note" => delay = Null
  <1>1. /\ workq \in Seq({"note", "button"}) /\ Len(workq) \in Nat \ {0}
        /\ \A i, j \in 1..Len(workq) : workq[i] = workq[j] => i = j
        /\ \A i \in 1..Len(workq) : workq[i] = "note" => delay = Null
    BY DEF Inv, TypeOK, OneRunPending
  <1>2. /\ Head(workq) = workq[1] /\ Tail(workq) \in Seq({"note", "button"})
        /\ DOMAIN Tail(workq) = 1..(Len(workq) - 1)
        /\ \A i \in 1..(Len(workq) - 1) : Tail(workq)[i] = workq[i + 1]
    BY <1>1
  <1>3. \A i \in 1..(Len(workq) - 1) : i + 1 \in 1..Len(workq) /\ i + 1 # 1
    BY <1>1
  <1>4. \A i, j \in 1..(Len(workq) - 1) : Tail(workq)[i] = Tail(workq)[j] => i = j
    <2> SUFFICES ASSUME NEW i \in 1..(Len(workq) - 1), NEW j \in 1..(Len(workq) - 1),
                        Tail(workq)[i] = Tail(workq)[j]
                 PROVE  i = j
      OBVIOUS
    <2>1. i + 1 = j + 1
      BY <1>1, <1>2, <1>3
    <2> QED
      BY <2>1
  <1>5. \A i \in 1..(Len(workq) - 1) : Tail(workq)[i] # workq[1]
    BY <1>1, <1>2, <1>3
  <1>6. 1 \in 1..Len(workq)
    BY <1>1
  <1>7. workq[1] \in {"note", "button"} /\ (workq[1] = "note" => delay = Null)
    BY <1>1, <1>6
  <1> QED
    BY <1>2, <1>4, <1>5, <1>7

(* Cancelling the note behind the button leaves nothing in the queue. *)
LEMMA CancelLeavesNothing ==
  ASSUME Inv, workq # << >>, Head(workq) = "button"
  PROVE  Without(Tail(workq), "note") = << >>
  <1> DEFINE q == Tail(workq)
  <1>1. /\ q \in Seq({"note", "button"})
        /\ \A i, j \in DOMAIN q : q[i] = q[j] => i = j
        /\ \A i \in DOMAIN q : q[i] # "button"
    BY QueueIs
  <1> HIDE DEF q
  <1>2. Len(q) \in Nat /\ DOMAIN q = 1..Len(q) /\ \A i \in 1..Len(q) : q[i] = "note"
    BY <1>1
  <1>3. CASE Len(q) = 0
    <2>1. q = << >>
      BY <1>1, <1>3
    <2> QED
      BY <2>1 DEF Without, RemoveFirst, q
  <1>4. CASE Len(q) # 0
    <2>1. 1 \in 1..Len(q)
      BY <1>2, <1>4
    <2>2. Len(q) = 1 /\ q[1] = "note"
      <3>1. Len(q) >= 2 => 2 \in 1..Len(q)
        BY <1>2
      <3> QED
        BY <1>1, <1>2, <1>4, <2>1, <3>1
    <2>3. {i \in 1..Len(q) : q[i] = "note"} = {1}
      BY <2>2
    <2>4. Min({1}) = 1
      BY DEF Min
    <2>5. SelectInSeq(q, LAMBDA v : v = "note") = 1
      BY <2>3, <2>4 DEF SelectInSeq
    <2>6. RemoveAt(q, 1) = << >>
      BY <1>1, <2>2 DEF RemoveAt
    <2> QED
      BY <2>1, <2>2, <2>5, <2>6 DEF Without, RemoveFirst, q
  <1> QED
    BY <1>2, <1>3, <1>4

(* An item put behind others that it is not among. *)
Once(q) == \A i, j \in DOMAIN q : q[i] = q[j] => i = j
Lacks(q, item) == \A i \in DOMAIN q : q[i] # item

LEMMA AppendOnce ==
  ASSUME NEW q \in Seq({"note", "button"}), Once(q), NEW item \in {"note", "button"}, Lacks(q, item)
  PROVE  /\ Append(q, item) \in Seq({"note", "button"}) /\ Once(Append(q, item))
         /\ \E i \in DOMAIN Append(q, item) : Append(q, item)[i] = item
         /\ \A other : Lacks(q, other) /\ item # other => Lacks(Append(q, item), other)
         /\ \A other : ~Lacks(q, other) => ~Lacks(Append(q, item), other)
  <1> DEFINE a == Append(q, item)
  <1>1. /\ Len(q) \in Nat /\ DOMAIN q = 1..Len(q) /\ DOMAIN a = 1..(Len(q) + 1)
        /\ \A i \in 1..Len(q) : a[i] = q[i]
        /\ a[Len(q) + 1] = item /\ a \in Seq({"note", "button"})
    OBVIOUS
  <1> HIDE DEF a
  <1>2. \A i \in 1..(Len(q) + 1) : i \in 1..Len(q) \/ i = Len(q) + 1
    BY <1>1
  <1>3. Len(q) + 1 \in 1..(Len(q) + 1) /\ \A i \in 1..Len(q) : i \in 1..(Len(q) + 1)
    BY <1>1
  <1>4. Once(a)
    BY <1>1, <1>2 DEF Once, Lacks
  <1>5. \A other : Lacks(q, other) /\ item # other => Lacks(a, other)
    BY <1>1, <1>2 DEF Lacks
  <1>6. \A other : ~Lacks(q, other) => ~Lacks(a, other)
    BY <1>1, <1>3 DEF Lacks
  <1> QED
    BY <1>1, <1>3, <1>4, <1>5, <1>6 DEF a

LEMMA SubmitLemma ==
  ASSUME NEW q \in Seq({"note", "button"}), NEW item
  PROVE  /\ Lacks(q, item) => Submit(q, item) = Append(q, item)
         /\ ~Lacks(q, item) => Submit(q, item) = q
  <1>1. DOMAIN q = 1..Len(q)
    OBVIOUS
  <1> QED
    BY <1>1 DEF Submit, Contains, Lacks

(* note_work scheduled while it is neither delayed nor queued. *)
LEMMA RescheduleLemma ==
  ASSUME NEW q \in Seq({"note", "button"}), Once(q), Lacks(q, "note"), NEW d \in Nat, Reschedule(q, d)
  PROVE  /\ workq' \in Seq({"note", "button"}) /\ delay' \in Nat \cup {Null} /\ delay' # 0
         /\ OneRunPending' /\ Pending'
  <1>1. CASE d = 0
    <2>1. delay' = Null /\ workq' = Append(q, "note")
      BY <1>1, SubmitLemma DEF Reschedule
    <2>2. /\ workq' \in Seq({"note", "button"}) /\ Once(workq')
          /\ \E i \in DOMAIN workq' : workq'[i] = "note"
      BY <2>1, AppendOnce
    <2> QED
      BY <2>1, <2>2, SoundAssumption DEF Once, OneRunPending, Pending
  <1>2. CASE d # 0
    <2>1. delay' = d /\ workq' = q /\ delay' # Null
      BY <1>2, SoundAssumption DEF Reschedule
    <2> QED
      BY <1>2, <2>1 DEF Once, Lacks, OneRunPending, Pending
  <1> QED
    BY <1>1, <1>2

LEMMA FinishInv == ASSUME Inv, note_work_handler, FinishSound PROVE Inv'
  <1>1. /\ workq # << >> /\ Head(workq) = "note" /\ index >= Len(notes) /\ workq' = Tail(workq)
        /\ notes' = Empty /\ index' = 0 /\ done_cb' = FALSE /\ pwm' = 0
        /\ UNCHANGED <<delay, heard, demo>> /\ finished' = finished + (IF done_cb THEN 1 ELSE 0)
    BY DEF note_work_handler, FinishSound
  <1>2. workq' \in Seq({"note", "button"}) /\ Once(workq') /\ delay' = Null
    BY <1>1, QueueIs DEF Once
  <1>3. TypeOK'
    <2>1. finished' \in Nat
      BY <1>1 DEF Inv, TypeOK
    <2>2. index' \in 0..Len(notes')
      <3>1. Len(<< >>) = 0
        OBVIOUS
      <3> QED
        BY <1>1, <3>1 DEF Empty
    <2>3. done_cb' \in BOOLEAN
      BY <1>1
    <2> QED
      BY <1>1, <1>2, <2>1, <2>2, <2>3 DEF Inv, TypeOK
  <1>4. PlayedInOrder'
    <2>1. CASE done_cb
      <3>1. heard = SubSeq(notes, 1, index) /\ finished = 0
        BY <2>1 DEF Inv, PlayedInOrder, Playing
      <3>2. /\ notes \in Sounds \cup {Empty} /\ notes \in Seq([freq : Nat, dur : Nat])
            /\ Len(notes) \in Nat /\ index = Len(notes)
        BY <1>1, NotesType DEF Inv, TypeOK
      <3>3. heard = notes
        BY <3>1, <3>2
      <3>4. finished' = 1
        BY <1>1, <2>1, <3>1
      <3>5. heard' # << >> => heard' \in Sounds
        BY <1>1, <3>2, <3>3 DEF Empty
      <3>6. ~done_cb'
        BY <1>1
      <3> QED
        BY <3>4, <3>5, <3>6 DEF PlayedInOrder, Playing
    <2>2. CASE ~done_cb
      <3>1. finished' = finished
        BY <1>1, <2>2 DEF Inv, TypeOK
      <3> QED
        BY <1>1, <2>2, <3>1 DEF Inv, PlayedInOrder, Playing
    <2> QED
      BY <2>1, <2>2
  <1>5. OneRunPending' /\ NeverStuckOn' /\ StateConsistent'
    BY <1>1, <1>2 DEF Once, OneRunPending, NeverStuckOn, StateConsistent, Inv
  <1> QED
    BY <1>3, <1>4, <1>5 DEF Inv

LEMMA PlayInv == ASSUME Inv, note_work_handler, PlayNote PROVE Inv'
  <1> DEFINE n == notes[index + 1]
  <1>1. /\ workq # << >> /\ Head(workq) = "note" /\ index < Len(notes)
        /\ pwm' = n.freq /\ heard' = Append(heard, n) /\ Reschedule(Tail(workq), n.dur)
        /\ index' = index + 1 /\ UNCHANGED <<notes, done_cb, finished, demo>>
    BY DEF note_work_handler, PlayNote
  <1>2. /\ notes \in Sounds \cup {Empty} /\ notes \in Seq([freq : Nat, dur : Nat])
        /\ Len(notes) \in Nat /\ index \in Nat
    BY NotesType DEF Inv, TypeOK
  <1>3. n \in [freq : Nat, dur : Nat] /\ done_cb
    <2>1. index + 1 \in 1..Len(notes)
      BY <1>1, <1>2
    <2>2. n \in [freq : Nat, dur : Nat]
      BY <1>2, <2>1, ElementIn
    <2>3. ~done_cb => Len(notes) = 0
      <3>1. Len(<< >>) = 0
        OBVIOUS
      <3> QED
        BY <3>1 DEF Inv, StateConsistent, Empty
    <2> QED
      BY <1>1, <1>2, <2>2, <2>3
  <1>4. Tail(workq) \in Seq({"note", "button"}) /\ Once(Tail(workq)) /\ Lacks(Tail(workq), "note")
    BY <1>1, QueueIs DEF Once, Lacks
  <1>5. n.freq \in Nat /\ n.dur \in Nat
    BY <1>3
  <1> HIDE DEF n
  <1>6. /\ workq' \in Seq({"note", "button"}) /\ delay' \in Nat \cup {Null} /\ delay' # 0
        /\ OneRunPending' /\ Pending'
    BY <1>1, <1>4, <1>5, RescheduleLemma
  <1>7. TypeOK'
    <2>1. index' \in 0..Len(notes)
      BY <1>1, <1>2
    <2> QED
      BY <1>1, <1>5, <1>6, <2>1 DEF Inv, TypeOK
  <1>8. PlayedInOrder'
    <2>1. heard = SubSeq(notes, 1, index) /\ finished = 0
      BY <1>3 DEF Inv, PlayedInOrder, Playing
    <2>2. SubSeq(notes, 1, index + 1) = Append(SubSeq(notes, 1, index), n)
      BY <1>1, <1>2 DEF n
    <2>3. heard' = SubSeq(notes', 1, index') /\ finished' = 0
      BY <1>1, <2>1, <2>2
    <2>4. done_cb'
      BY <1>1, <1>3
    <2> QED
      BY <2>3, <2>4 DEF PlayedInOrder, Playing
  <1>9. NeverStuckOn' /\ StateConsistent'
    BY <1>1, <1>3, <1>6 DEF NeverStuckOn, StateConsistent
  <1> QED
    BY <1>6, <1>7, <1>8, <1>9 DEF Inv

LEMMA ButtonWorkInv == ASSUME Inv, button_work_handler PROVE Inv'
  <1> DEFINE s == Demo[demo + 1]
  <1>1. /\ workq # << >> /\ Head(workq) = "button" /\ pwm' = 0
        /\ notes' = s /\ index' = 0 /\ done_cb' = TRUE
        /\ Reschedule(Without(Tail(workq), "note"), 0)
        /\ heard' = << >> /\ finished' = 0 /\ demo' = (demo + 1) % Len(Demo)
    BY DEF button_work_handler, play_sound
  <1>2. s \in Sounds /\ demo' \in 0..(Len(Demo) - 1)
    BY <1>1, SoundAssumption DEF Inv, TypeOK
  <1> HIDE DEF s
  <1>3. Reschedule(<< >>, 0)
    BY <1>1, CancelLeavesNothing
  <1>4. << >> \in Seq({"note", "button"}) /\ Once(<< >>) /\ Lacks(<< >>, "note")
    BY DEF Once, Lacks
  <1>5. /\ workq' \in Seq({"note", "button"}) /\ delay' \in Nat \cup {Null} /\ delay' # 0
        /\ OneRunPending' /\ Pending'
    BY <1>3, <1>4, RescheduleLemma
  <1>6. s \in Seq([freq : Nat, dur : Nat]) /\ Len(s) \in Nat
    BY <1>2, NotesType
  <1>7. TypeOK'
    BY <1>1, <1>2, <1>5, <1>6 DEF TypeOK
  <1>8. PlayedInOrder'
    <2>1. SubSeq(s, 1, 0) = << >>
      BY <1>6
    <2> QED
      BY <1>1, <2>1 DEF PlayedInOrder, Playing
  <1> QED
    BY <1>1, <1>5, <1>7, <1>8 DEF Inv, NeverStuckOn, StateConsistent

LEMMA ButtonInv == ASSUME Inv, button_handler PROVE Inv'
  <1>1. /\ workq' = Submit(workq, "button")
        /\ UNCHANGED <<notes, index, done_cb, pwm, delay, demo, heard, finished>>
    BY DEF button_handler, sound_state
  <1>2. workq \in Seq({"note", "button"}) /\ Once(workq)
    BY DEF Inv, TypeOK, OneRunPending, Once
  <1>3. /\ workq' \in Seq({"note", "button"}) /\ Once(workq')
        /\ Lacks(workq, "note") => Lacks(workq', "note")
        /\ ~Lacks(workq, "note") => ~Lacks(workq', "note")
    <2>1. CASE Lacks(workq, "button")
      <3>1. workq' = Append(workq, "button")
        BY <1>1, <1>2, <2>1, SubmitLemma
      <3>2. "button" \in {"note", "button"} /\ "button" # "note"
        OBVIOUS
      <3> QED
        BY <1>2, <2>1, <3>1, <3>2, AppendOnce
    <2>2. CASE ~Lacks(workq, "button")
      BY <1>1, <1>2, <2>2, SubmitLemma
    <2> QED
      BY <2>1, <2>2
  <1> QED
    BY <1>1, <1>3 DEF Inv, TypeOK, OneRunPending, NeverStuckOn, PlayedInOrder, StateConsistent, Pending,
       Playing, Once, Lacks

LEMMA TickInv == ASSUME Inv, Tick PROVE Inv'
  <1>1. /\ delay # Null /\ delay \in Nat /\ delay # 0
        /\ UNCHANGED <<notes, index, done_cb, pwm, demo, heard, finished>>
    BY DEF Tick, sound_state, Inv, TypeOK, StateConsistent
  <1>2. workq \in Seq({"note", "button"}) /\ Once(workq) /\ Lacks(workq, "note")
    BY <1>1 DEF Inv, TypeOK, OneRunPending, Once, Lacks
  <1>3. /\ workq' \in Seq({"note", "button"}) /\ delay' \in Nat \cup {Null} /\ delay' # 0
        /\ OneRunPending' /\ Pending'
    <2>1. CASE delay = 1
      BY <1>1, <1>2, <2>1, RescheduleLemma DEF Tick, Reschedule
    <2>2. CASE delay # 1
      <3>1. delay' = delay - 1 /\ workq' = workq
        BY <2>2 DEF Tick
      <3>2. delay' \in Nat /\ delay' # 0 /\ delay' # Null
        BY <1>1, <2>2, <3>1, SoundAssumption
      <3> QED
        BY <1>2, <3>1, <3>2 DEF Inv, OneRunPending, Pending, Once, Lacks
    <2> QED
      BY <2>1, <2>2
  <1> QED
    BY <1>1, <1>3 DEF Inv, TypeOK, NeverStuckOn, PlayedInOrder, StateConsistent, Playing

LEMMA NextInv == Inv /\ [Next]_vars => Inv'
  <1> SUFFICES ASSUME Inv, [Next]_vars PROVE Inv'
    OBVIOUS
  <1>1. CASE UNCHANGED vars
    BY <1>1 DEF vars, sound_state, Inv, TypeOK, OneRunPending, NeverStuckOn, PlayedInOrder, StateConsistent,
       Pending, Playing
  <1>2. CASE note_work_handler
    BY <1>2, FinishInv, PlayInv DEF note_work_handler
  <1> QED
    BY <1>1, <1>2, ButtonWorkInv, ButtonInv, TickInv DEF Next

LEMMA Invariance == Spec => []Inv
  BY InitInv, NextInv, PTL DEF Spec

-----------------------------------------------------------------------------
(* The state of sound.c and its work item keeps to its type, so the note   *)
(* index + 1 of note_work_handler is one of the table's.                   *)
THEOREM SoundTypeOK == Spec => []TypeOK
  <1>1. Inv => TypeOK
    BY DEF Inv
  <1> QED
    BY <1>1, Invariance, PTL

(* Whenever the button is pressed, whatever the table, a sounding buzzer   *)
(* has a run of note_work due that will turn it off.                       *)
THEOREM NeverStuckTheorem == Spec => []NeverStuckOn
  <1>1. Inv => NeverStuckOn
    BY DEF Inv
  <1> QED
    BY <1>1, Invariance, PTL

(* Every sound is heard from its first note, in order, and reports its end *)
(* once, after the last.                                                   *)
THEOREM PlayedInOrderTheorem == Spec => []PlayedInOrder
  <1>1. Inv => PlayedInOrder
    BY DEF Inv
  <1> QED
    BY <1>1, Invariance, PTL
=============================================================================
