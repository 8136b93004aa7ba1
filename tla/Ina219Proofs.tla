---------------------------- MODULE Ina219Proofs ----------------------------
(***************************************************************************)
(* Theorems about Ina219 for any finite set of overlapping reads, any      *)
(* channels and a pool of any size.                                        *)
(***************************************************************************)
EXTENDS Ina219, FiniteSetTheorems, TLAPS

(* A chain ends in the callback that answers or submits the next one, so   *)
(* an operation that is not a callback leaves something of it to run.      *)
Ops == Callbacks \cup {"read_conf", "write_conf", "delay", "read_status", "voltage", "current", "power"}

Ends(ops) == ops \in Seq(Ops) /\ Len(ops) > 0 /\ ops[Len(ops)] \in Callbacks

AnsweredRight(r) ==
  /\ IF InFlight(r) THEN Ends(chain[r]) ELSE chain[r] = << >>
  /\ r \notin starved => answers[r] = IF request[r] \in {"new", "flight"} THEN 0 ELSE 1

Typed ==
  /\ request \in [Requests -> {"new", "flight", "ok", "err", "done"}]
  /\ result \in [Requests -> {"ok", "err"}]
  /\ DOMAIN chain = Requests /\ DOMAIN answers = Requests

AnswerInv == Typed /\ \A r \in Requests : AnsweredRight(r)

(* The read r takes a step and the others do not. *)
Alone(r) ==
  /\ Typed'
  /\ \A s \in Requests \ {r} :
       /\ chain'[s] = chain[s] /\ request'[s] = request[s] /\ answers'[s] = answers[s]
       /\ s \in starved' <=> s \in starved

LEMMA AloneInv ==
  ASSUME AnswerInv, NEW r \in Requests, Alone(r), AnsweredRight(r)'
  PROVE  AnswerInv'
  BY DEF Alone, AnswerInv, AnsweredRight, InFlight

(* What the three ways to end a handler do to a read that was not answered.*)
LEMMA SubmitInv ==
  ASSUME AnswerInv, NEW r \in Requests, NEW ops, Ends(ops), SubmitChain(r, ops, 0) \/ SubmitChain(r, ops, 1),
         request[r] \in {"new", "flight"},
         request' = [request EXCEPT ![r] = "flight"], UNCHANGED starved
  PROVE  AnswerInv'
  <1>1. chain' = [chain EXCEPT ![r] = ops] /\ result' = [result EXCEPT ![r] = "ok"] /\ UNCHANGED answers
    BY DEF SubmitChain
  <1>2. chain'[r] = ops /\ request'[r] = "flight" /\ answers'[r] = answers[r]
    BY <1>1 DEF AnswerInv, Typed
  <1>3. AnsweredRight(r)'
    BY <1>2 DEF AnswerInv, AnsweredRight, InFlight
  <1>4. Alone(r)
    BY <1>1 DEF Alone, AnswerInv, Typed
  <1> QED
    BY <1>3, <1>4, AloneInv

LEMMA FinishInv ==
  ASSUME AnswerInv, NEW r \in Requests, NEW how \in {"ok", "err"}, Finish(r, how, 0) \/ Finish(r, how, 1),
         request[r] \in {"new", "flight"}, UNCHANGED starved
  PROVE  AnswerInv'
  <1>1. /\ chain' = [chain EXCEPT ![r] = << >>] /\ UNCHANGED result
        /\ request' = [request EXCEPT ![r] = how] /\ answers' = [answers EXCEPT ![r] = answers[r] + 1]
    BY DEF Finish, Answer
  <1>2. chain'[r] = << >> /\ request'[r] = how /\ answers'[r] = answers[r] + 1
    BY <1>1 DEF AnswerInv, Typed
  <1>3. AnsweredRight(r)'
    BY <1>2 DEF AnswerInv, AnsweredRight, InFlight
  <1>4. Alone(r)
    BY <1>1 DEF Alone, AnswerInv, Typed
  <1> QED
    BY <1>3, <1>4, AloneInv

(* A read with something to run is in flight. *)
LEMMA RunsInFlight ==
  ASSUME AnswerInv, NEW r \in Requests, chain[r] # << >>
  PROVE  request[r] = "flight" /\ Ends(chain[r]) /\ request = [request EXCEPT ![r] = "flight"]
  BY DEF AnswerInv, AnsweredRight, InFlight, Typed

LEMMA ThreeParts ==
  ASSUME NEW S, NEW a \in Seq(S), NEW b \in Seq(S), NEW c \in Seq(S)
  PROVE  (a \o b) \o c \in Seq(S)
  <1>1. a \o b \in Seq(S)
    OBVIOUS
  <1> QED
    BY <1>1

LEMMA RegistersEnd == Ends(Append(Registers, "readings_cb"))
  <1> DEFINE Asked(c) == IF c \in Channels THEN <<c>> ELSE << >>
  <1>1. ASSUME NEW c \in Ops PROVE Asked(c) \in Seq(Ops)
    <2>1. <<c>> \in Seq(Ops) /\ << >> \in Seq(Ops)
      OBVIOUS
    <2> QED
      BY <2>1
  <1>2. Registers \in Seq(Ops)
    <2>1. "voltage" \in Ops /\ "current" \in Ops /\ "power" \in Ops
      BY DEF Ops
    <2>2. Asked("voltage") \in Seq(Ops) /\ Asked("current") \in Seq(Ops) /\ Asked("power") \in Seq(Ops)
      BY <1>1, <2>1
    <2>3. (Asked("voltage") \o Asked("current")) \o Asked("power") \in Seq(Ops)
      <3> HIDE DEF Asked
      <3> QED
        BY <2>2, ThreeParts
    <2> QED
      BY <2>3 DEF Registers
  <1>3. /\ Append(Registers, "readings_cb") \in Seq(Ops)
        /\ Len(Append(Registers, "readings_cb")) = Len(Registers) + 1
        /\ Append(Registers, "readings_cb")[Len(Registers) + 1] = "readings_cb"
        /\ Len(Registers) \in Nat
    BY <1>2 DEF Ops, Callbacks
  <1> QED
    BY <1>3 DEF Ends, Callbacks

(* What follows an operation that is not the callback. *)
LEMMA TailEnds ==
  ASSUME NEW ops, Ends(ops), Head(ops) \notin Callbacks
  PROVE  Ends(Tail(ops))
  <1>1. ops \in Seq(Ops) /\ Len(ops) \in Nat /\ Head(ops) = ops[1]
    BY DEF Ends
  <1>2. Len(ops) > 1
    BY <1>1 DEF Ends
  <1>3. /\ Tail(ops) \in Seq(Ops) /\ Len(Tail(ops)) = Len(ops) - 1
        /\ Tail(ops)[Len(ops) - 1] = ops[Len(ops)]
    BY <1>1, <1>2
  <1> QED
    BY <1>1, <1>2, <1>3 DEF Ends

LEMMA SubmitStep ==
  ASSUME AnswerInv, NEW r \in Requests, ina219_submit(r)
  PROVE  AnswerInv'
  <1> DEFINE ops == <<"read_conf", "trigger_measurement_cb">>
  <1>1. Ends(ops)
    BY DEF Ends, Ops, Callbacks
  <1>2. request[r] = "new" /\ UNCHANGED starved
    BY DEF ina219_submit
  <1>3. CASE SubmitChain(r, ops, 0) /\ request' = [request EXCEPT ![r] = "flight"]
    BY <1>1, <1>2, <1>3, SubmitInv
  <1>4. CASE Finish(r, "err", 0)
    BY <1>2, <1>4, FinishInv
  <1> QED
    BY <1>3, <1>4 DEF ina219_submit, NoMemory

(* The trigger handler: answered with the error, the chain to the status,  *)
(* no memory, or the entry that was not there.                             *)
LEMMA TriggerStep ==
  ASSUME AnswerInv, NEW r \in Requests, ina219_trigger_measurement_cb(r)
  PROVE  AnswerInv'
  <1> DEFINE ops == <<"write_conf", "delay", "read_status", "check_ready_cb">>
  <1>1. Ends(ops)
    BY DEF Ends, Ops, Callbacks
  <1>2. request[r] = "flight" /\ request = [request EXCEPT ![r] = "flight"]
    BY RunsInFlight DEF ina219_trigger_measurement_cb, Runs
  <1>3. CASE Finish(r, "err", 1) /\ UNCHANGED starved
    BY <1>2, <1>3, FinishInv
  <1>4. CASE SubmitChain(r, ops, 1) /\ UNCHANGED <<request, starved>>
    BY <1>1, <1>2, <1>4, SubmitInv
  <1>5. CASE Starved(r)
    <2>1. /\ starved' = starved \cup {r} /\ request' = [request EXCEPT ![r] = "err"]
          /\ chain' = [chain EXCEPT ![r] = << >>] /\ UNCHANGED result
          /\ answers' = [answers EXCEPT ![r] = answers[r] + 1] \/ answers' = [answers EXCEPT ![r] = answers[r] + 2]
      BY <1>5 DEF Starved
    <2>2. Alone(r) /\ AnsweredRight(r)'
      BY <2>1 DEF Alone, AnswerInv, Typed, AnsweredRight, InFlight
    <2> QED
      BY <2>2, AloneInv
  <1> QED
    BY <1>3, <1>4, <1>5 DEF ina219_trigger_measurement_cb, Failed, NoMemory

LEMMA ReadyStep ==
  ASSUME AnswerInv, NEW r \in Requests, ina219_check_ready_cb(r)
  PROVE  AnswerInv'
  <1> DEFINE ops == IF ready[r] THEN Append(Registers, "readings_cb") ELSE Retry
  <1>1. Ends(Retry)
    BY DEF Ends, Ops, Callbacks, Retry
  <1>2. Ends(ops)
    BY <1>1, RegistersEnd
  <1>3. request[r] = "flight" /\ request = [request EXCEPT ![r] = "flight"] /\ UNCHANGED starved
    BY RunsInFlight DEF ina219_check_ready_cb, Runs
  <1>4. CASE Finish(r, "err", 1)
    BY <1>3, <1>4, FinishInv
  <1> HIDE DEF ops
  <1>5. CASE SubmitChain(r, ops, 1) /\ UNCHANGED request
    BY <1>2, <1>3, <1>5, SubmitInv
  <1> QED
    BY <1>4, <1>5 DEF ina219_check_ready_cb, Failed, NoMemory, ops

LEMMA ReadingsStep ==
  ASSUME AnswerInv, NEW r \in Requests, ina219_readings_cb(r)
  PROVE  AnswerInv'
  <1>1. request[r] = "flight" /\ UNCHANGED starved /\ result[r] \in {"ok", "err"}
    BY RunsInFlight DEF ina219_readings_cb, Runs, AnswerInv, Typed
  <1> QED
    BY <1>1, FinishInv DEF ina219_readings_cb

(* A transfer or a delay leaves the rest of its chain, a failure the       *)
(* callback.                                                               *)
LEMMA TransferStep ==
  ASSUME AnswerInv, NEW r \in Requests, Transfer(r)
  PROVE  AnswerInv'
  <1>1. chain[r] # << >>
    BY DEF Transfer, ReadConf, Delay, WriteConf, ReadStatus, ReadRegister, TransferFails, Runs
  <1>2. request[r] = "flight" /\ Ends(chain[r])
    BY <1>1, RunsInFlight
  <1>3. ASSUME NEW ops, Ends(ops), chain' = [chain EXCEPT ![r] = ops],
               UNCHANGED <<request, answers, starved>>,
               \E o \in {"ok", "err"} : result' = [result EXCEPT ![r] = o]
        PROVE  AnswerInv'
    <2>1. Alone(r) /\ AnsweredRight(r)'
      BY <1>2, <1>3 DEF Alone, AnswerInv, Typed, AnsweredRight, InFlight
    <2> QED
      BY <2>1, AloneInv
  <1>4. CASE OpDone(r) /\ Head(chain[r]) \notin Callbacks
    <2>1. Ends(Tail(chain[r]))
      BY <1>2, <1>4, TailEnds
    <2>2. result' = [result EXCEPT ![r] = result[r]] /\ result[r] \in {"ok", "err"}
      BY <1>4 DEF OpDone, AnswerInv, Typed
    <2>3. chain' = [chain EXCEPT ![r] = Tail(chain[r])] /\ UNCHANGED <<request, answers, starved>>
      BY <1>4 DEF OpDone
    <2> QED
      BY <1>3, <2>1, <2>2, <2>3
  <1>5. CASE TransferFails(r)
    <2>1. Ends(<<Last(chain[r])>>)
      BY <1>2 DEF Ends, Last
    <2>2. /\ chain' = [chain EXCEPT ![r] = <<Last(chain[r])>>] /\ UNCHANGED <<request, answers, starved>>
          /\ result' = [result EXCEPT ![r] = "err"]
      BY <1>5 DEF TransferFails
    <2> QED
      BY <1>3, <2>1, <2>2
  <1>6. CASE ReadConf(r) \/ Delay(r) \/ WriteConf(r) \/ ReadStatus(r)
    BY <1>4, <1>6 DEF ReadConf, Delay, WriteConf, ReadStatus, Runs, Callbacks
  <1>7. CASE ReadRegister(r)
    BY <1>4, <1>7, Ina219Assumption DEF Ina219Assumption, ReadRegister, Runs, Callbacks
  <1> QED
    BY <1>5, <1>6, <1>7 DEF Transfer

LEMMA HandedOverStep ==
  ASSUME AnswerInv, NEW r \in Requests, on_sensor_data(r)
  PROVE  AnswerInv'
  <1>1. Alone(r) /\ AnsweredRight(r)'
    BY DEF on_sensor_data, Alone, AnswerInv, Typed, AnsweredRight, InFlight
  <1> QED
    BY <1>1, AloneInv

LEMMA AnswerNext ==
  ASSUME AnswerInv, [Next]_vars
  PROVE  AnswerInv'
  <1>1. CASE UNCHANGED vars \/ ConversionDone
    BY <1>1 DEF vars, driver, ConversionDone, AnswerInv, Typed, AnsweredRight, InFlight
  <1>2. CASE \E r \in Requests : ina219_submit(r) \/ Callback(r) \/ Transfer(r) \/ on_sensor_data(r)
    BY <1>2, SubmitStep, TriggerStep, ReadyStep, ReadingsStep, TransferStep, HandedOverStep DEF Callback
  <1> QED
    BY <1>1, <1>2 DEF Next, Step, k_sys_fatal_error_handler, AllDone

THEOREM AnswerTheorem == Spec => []AnswerInv
  <1>1. Init => AnswerInv
    BY DEF Init, AnswerInv, Typed, AnsweredRight, InFlight
  <1> QED
    BY <1>1, AnswerNext, PTL DEF Spec

(* However reads overlap, whichever entry of a pool of any size is missing *)
(* and whatever fails, a read is answered once and then has nothing left   *)
(* to run; the missing return of the trigger handler is the one exception. *)
THEOREM AnsweredOnceTheorem == Spec => []AnsweredOnce
  <1>1. AnswerInv => AnsweredOnce
    BY DEF AnswerInv, AnsweredRight, AnsweredOnce, InFlight, Ends
  <1> QED
    BY <1>1, AnswerTheorem, PTL
-----------------------------------------------------------------------------
(* What a read has behind it by the chain it is at: from the trigger on a  *)
(* conversion it started is under way or has ended, and the registers are  *)
(* read only when one has ended.                                           *)
Start2 == <<"read_conf", "trigger_measurement_cb">>
Start1 == <<"trigger_measurement_cb">>
Write  == <<"write_conf", "delay", "read_status", "check_ready_cb">>
Poll   == <<"read_status", "check_ready_cb">>
Check  == <<"check_ready_cb">>

Readings == {"voltage", "current", "power"}
Regs(ops) == /\ ops \in Seq(Ops) /\ Len(ops) > 0 /\ ops[Len(ops)] = "readings_cb"
             /\ \A i \in 1..(Len(ops) - 1) : ops[i] \in Readings
HasVoltage(ops) == \E i \in 1..Len(ops) : ops[i] = "voltage"

Triggered(r) == r \in running \cup register

Phase(r) ==
  \/ chain[r] = << >>
  \/ chain[r] \in {Start2, Start1, Write}
  \/ chain[r] \in {Retry, Poll} /\ Triggered(r)
  \/ chain[r] = Check /\ (result[r] = "ok" => Triggered(r))
  \/ /\ Regs(chain[r])
     /\ result[r] = "ok" => r \in register /\ (HasVoltage(chain[r]) \/ r \in fresh)

Behind(r) == /\ ready[r] => r \in register
             /\ request[r] = "ok" => r \in fresh
             /\ Phase(r)

SensorInv == cnvr => running = {}

FreshInv == AnswerInv /\ DOMAIN ready = Requests /\ SensorInv /\ \A r \in Requests : Behind(r)

(* The other reads only see the sensor go on.                              *)
Onward(r) ==
  /\ register \subseteq register' /\ running \cup register \subseteq running' \cup register'
  /\ fresh \subseteq fresh' /\ DOMAIN ready' = Requests
  /\ \A s \in Requests \ {r} :
       /\ chain'[s] = chain[s] /\ request'[s] = request[s]
       /\ result'[s] = result[s] /\ ready'[s] = ready[s]

LEMMA OnwardInv ==
  ASSUME FreshInv, AnswerInv', NEW r \in Requests, Onward(r), Behind(r)', SensorInv'
  PROVE  FreshInv'
  <1>1. ASSUME NEW s \in Requests \ {r} PROVE Behind(s)'
    BY <1>1 DEF FreshInv, Onward, Behind, Phase, Triggered
  <1> QED
    BY <1>1 DEF FreshInv, Onward

(* The registers begin with the voltage, when it is asked for. *)
LEMMA RegistersAre ==
  ASSUME "voltage" \in Channels
  PROVE  Regs(Append(Registers, "readings_cb")) /\ HasVoltage(Append(Registers, "readings_cb"))
  <1> DEFINE Asked(c) == IF c \in Channels THEN <<c>> ELSE << >>
  <1>1. ASSUME NEW c \in Readings PROVE Asked(c) \in Seq(Readings)
    <2>1. <<c>> \in Seq(Readings) /\ << >> \in Seq(Readings)
      OBVIOUS
    <2> QED
      BY <2>1
  <1>2. Asked("voltage") = <<"voltage">>
    OBVIOUS
  <1>3. /\ Asked("voltage") \in Seq(Readings) /\ Asked("current") \in Seq(Readings)
        /\ Asked("power") \in Seq(Readings)
    <2>1. "voltage" \in Readings /\ "current" \in Readings /\ "power" \in Readings
      BY DEF Readings
    <2> HIDE DEF Asked
    <2> QED
      BY <1>1, <2>1
  <1>4. /\ Registers \in Seq(Readings)
        /\ Len(Registers) > 0 /\ Registers[1] = "voltage"
    <2>1. Registers = (Asked("voltage") \o Asked("current")) \o Asked("power")
      BY DEF Registers
    <2>2. Asked("voltage")[1] = "voltage" /\ Len(Asked("voltage")) = 1
      BY <1>2
    <2> HIDE DEF Asked
    <2>3. LET ab == Asked("voltage") \o Asked("current")
          IN ab \in Seq(Readings) /\ Len(ab) > 0 /\ ab[1] = "voltage"
      BY <1>3, <2>2
    <2> QED
      BY <1>3, <2>1, <2>3
  <1>5. LET ops == Append(Registers, "readings_cb")
        IN /\ Len(ops) = Len(Registers) + 1 /\ ops[Len(ops)] = "readings_cb"
           /\ \A i \in 1..Len(Registers) : ops[i] = Registers[i] /\ ops[i] \in Readings
    BY <1>4
  <1>6. Append(Registers, "readings_cb") \in Seq(Ops) /\ Len(Registers) \in Nat
    BY <1>4, RegistersEnd DEF Ends
  <1> QED
    BY <1>4, <1>5, <1>6 DEF Regs, HasVoltage

(* Reading one register leaves the others, and the voltage if it was not it.*)
LEMMA RegsTail ==
  ASSUME NEW ops, Regs(ops), Head(ops) \in Readings
  PROVE  /\ Regs(Tail(ops))
         /\ HasVoltage(ops) /\ Head(ops) # "voltage" => HasVoltage(Tail(ops))
  <1>1. ops \in Seq(Ops) /\ Len(ops) \in Nat /\ Head(ops) = ops[1] /\ Len(ops) > 1
    BY DEF Regs, Readings
  <1>2. /\ Tail(ops) \in Seq(Ops) /\ Len(Tail(ops)) = Len(ops) - 1
        /\ \A i \in 1..(Len(ops) - 1) : Tail(ops)[i] = ops[i + 1]
    BY <1>1
  <1>3. Regs(Tail(ops))
    BY <1>1, <1>2 DEF Regs
  <1>4. ASSUME NEW i \in 1..Len(ops), ops[i] = "voltage", Head(ops) # "voltage"
        PROVE  HasVoltage(Tail(ops))
    <2>1. i - 1 \in 1..(Len(ops) - 1) /\ Tail(ops)[i - 1] = "voltage"
      BY <1>1, <1>2, <1>4
    <2> QED
      BY <1>2, <2>1 DEF HasVoltage
  <1> QED
    BY <1>3, <1>4 DEF HasVoltage

(* The callback a read is at tells where it is.                            *)
LEMMA PhaseAt ==
  ASSUME NEW r \in Requests, Behind(r), chain[r] # << >>
  PROVE  LET op == Head(chain[r]) IN
         /\ op = "check_ready_cb" => chain[r] = Check /\ (result[r] = "ok" => Triggered(r))
         /\ op = "readings_cb" => (result[r] = "ok" => r \in fresh)
         /\ op = "read_conf" => chain[r] = Start2
         /\ op = "write_conf" => chain[r] = Write
         /\ op = "delay" => chain[r] = Retry /\ Triggered(r)
         /\ op = "read_status" => chain[r] = Poll /\ Triggered(r)
         /\ op \in Readings => /\ Regs(chain[r])
                               /\ result[r] = "ok" => r \in register /\ (HasVoltage(chain[r]) \/ r \in fresh)
  <1>1. /\ Head(Start2) = "read_conf" /\ Head(Start1) = "trigger_measurement_cb"
        /\ Head(Write) = "write_conf" /\ Head(Retry) = "delay"
        /\ Head(Poll) = "read_status" /\ Head(Check) = "check_ready_cb"
    BY DEF Start2, Start1, Write, Retry, Poll, Check
  <1>2. ASSUME Regs(chain[r])
        PROVE  /\ Head(chain[r]) \in Readings \cup {"readings_cb"}
               /\ Head(chain[r]) = "readings_cb" => ~HasVoltage(chain[r])
    <2>1. chain[r] \in Seq(Ops) /\ Len(chain[r]) \in Nat \ {0} /\ Head(chain[r]) = chain[r][1]
      BY <1>2 DEF Regs
    <2> DEFINE n == Len(chain[r])
    <2>0. \A i \in 1..(n - 1) : chain[r][i] \in Readings
      BY <1>2 DEF Regs
    <2>2. n # 1 => chain[r][1] \in Readings
      <3>1. n \in Nat \ {0}
        BY <2>1
      <3> HIDE DEF n
      <3> QED
        BY <2>0, <3>1
    <2>3. chain[r][1] \in Readings \cup {"readings_cb"}
      BY <1>2, <2>1, <2>2 DEF Regs
    <2>4. chain[r][1] = "readings_cb" => ~HasVoltage(chain[r])
      BY <2>1, <2>2 DEF HasVoltage, Readings
    <2> QED
      BY <2>1, <2>3, <2>4
  <1> QED
    BY <1>1, <1>2 DEF Behind, Phase, Readings

LEMMA FreshSubmit ==
  ASSUME FreshInv, AnswerInv', NEW r \in Requests, NEW ops,
         SubmitChain(r, ops, 0) \/ SubmitChain(r, ops, 1),
         request' = [request EXCEPT ![r] = "flight"], UNCHANGED <<ready, sensor, fresh>>,
         \/ ops \in {Start2, Write} \/ (ops = Retry /\ Triggered(r))
         \/ Regs(ops) /\ HasVoltage(ops) /\ r \in register
  PROVE  FreshInv'
  <1>1. /\ chain' = [chain EXCEPT ![r] = ops] /\ result' = [result EXCEPT ![r] = "ok"]
        /\ UNCHANGED <<ready, running, register, cnvr, fresh>>
    BY DEF SubmitChain, sensor
  <1>2. /\ chain'[r] = ops /\ request'[r] = "flight"
        /\ \A s \in Requests \ {r} : /\ chain'[s] = chain[s] /\ request'[s] = request[s]
                                     /\ result'[s] = result[s]
    BY <1>1 DEF FreshInv, AnswerInv, Typed
  <1>3. Behind(r)'
    BY <1>1, <1>2 DEF FreshInv, Behind, Phase, Triggered
  <1>4. Onward(r) /\ SensorInv'
    BY <1>1, <1>2 DEF Onward, FreshInv, SensorInv
  <1> QED
    BY <1>3, <1>4, OnwardInv

LEMMA FreshFinish ==
  ASSUME FreshInv, AnswerInv', NEW r \in Requests, NEW how \in {"ok", "err"},
         Finish(r, how, 0) \/ Finish(r, how, 1), UNCHANGED <<ready, sensor, fresh>>,
         how = "ok" => r \in fresh
  PROVE  FreshInv'
  <1>1. /\ chain' = [chain EXCEPT ![r] = << >>] /\ UNCHANGED result
        /\ request' = [request EXCEPT ![r] = how]
        /\ UNCHANGED <<ready, running, register, cnvr, fresh>>
    BY DEF Finish, Answer, sensor
  <1>2. /\ chain'[r] = << >> /\ request'[r] = how
        /\ \A s \in Requests \ {r} : chain'[s] = chain[s] /\ request'[s] = request[s]
    BY <1>1 DEF FreshInv, AnswerInv, Typed
  <1>3. Behind(r)'
    BY <1>1, <1>2 DEF FreshInv, Behind, Phase
  <1>4. Onward(r) /\ SensorInv'
    BY <1>1, <1>2 DEF Onward, FreshInv, SensorInv
  <1> QED
    BY <1>3, <1>4, OnwardInv

LEMMA FreshSubmitStep ==
  ASSUME FreshInv, AnswerInv', NEW r \in Requests, ina219_submit(r)
  PROVE  FreshInv'
  <1>1. UNCHANGED <<ready, sensor, fresh>>
    BY DEF ina219_submit
  <1>2. CASE SubmitChain(r, Start2, 0) /\ request' = [request EXCEPT ![r] = "flight"]
    BY <1>1, <1>2, FreshSubmit
  <1>3. CASE Finish(r, "err", 0)
    BY <1>1, <1>3, FreshFinish
  <1> QED
    BY <1>2, <1>3 DEF ina219_submit, NoMemory, Start2

LEMMA FreshTriggerStep ==
  ASSUME FreshInv, AnswerInv', NEW r \in Requests, ina219_trigger_measurement_cb(r)
  PROVE  FreshInv'
  <1>1. UNCHANGED <<ready, sensor, fresh>> /\ request = [request EXCEPT ![r] = "flight"]
    BY RunsInFlight DEF ina219_trigger_measurement_cb, Runs, FreshInv
  <1>2. CASE Finish(r, "err", 1)
    BY <1>1, <1>2, FreshFinish
  <1>3. CASE SubmitChain(r, Write, 1) /\ UNCHANGED request
    BY <1>1, <1>3, FreshSubmit
  <1>4. CASE Starved(r)
    <2>1. /\ request' = [request EXCEPT ![r] = "err"] /\ chain' = [chain EXCEPT ![r] = << >>]
          /\ UNCHANGED <<result, ready, running, register, cnvr, fresh>>
      BY <1>1, <1>4 DEF Starved, sensor
    <2>2. /\ chain'[r] = << >> /\ request'[r] = "err"
          /\ \A s \in Requests \ {r} : chain'[s] = chain[s] /\ request'[s] = request[s]
      BY <2>1 DEF FreshInv, AnswerInv, Typed
    <2>3. Behind(r)' /\ Onward(r) /\ SensorInv'
      BY <2>1, <2>2 DEF FreshInv, Behind, Phase, Onward, SensorInv
    <2> QED
      BY <2>3, OnwardInv
  <1> QED
    BY <1>2, <1>3, <1>4 DEF ina219_trigger_measurement_cb, Failed, NoMemory, Write

LEMMA FreshReadyStep ==
  ASSUME FreshInv, AnswerInv', NEW r \in Requests, ina219_check_ready_cb(r), "voltage" \in Channels
  PROVE  FreshInv'
  <1>1. UNCHANGED <<ready, sensor, fresh>> /\ request = [request EXCEPT ![r] = "flight"]
    BY RunsInFlight DEF ina219_check_ready_cb, Runs, FreshInv
  <1>2. result[r] = "ok" => Triggered(r)
    BY PhaseAt DEF ina219_check_ready_cb, Runs, FreshInv
  <1>3. ready[r] => r \in register
    BY DEF FreshInv, Behind
  <1>4. CASE Finish(r, "err", 1)
    BY <1>1, <1>4, FreshFinish
  <1>5. CASE ready[r] /\ SubmitChain(r, Append(Registers, "readings_cb"), 1) /\ UNCHANGED request
    BY <1>1, <1>3, <1>5, RegistersAre, FreshSubmit
  <1>6. CASE ~ready[r] /\ result[r] = "ok" /\ SubmitChain(r, Retry, 1) /\ UNCHANGED request
    BY <1>1, <1>2, <1>6, FreshSubmit
  <1> QED
    BY <1>4, <1>5, <1>6 DEF ina219_check_ready_cb, Failed, NoMemory

LEMMA FreshReadingsStep ==
  ASSUME FreshInv, AnswerInv', NEW r \in Requests, ina219_readings_cb(r)
  PROVE  FreshInv'
  <1>1. UNCHANGED <<ready, sensor, fresh>> /\ result[r] \in {"ok", "err"}
    BY DEF ina219_readings_cb, FreshInv, AnswerInv, Typed
  <1>2. result[r] = "ok" => r \in fresh
    BY PhaseAt DEF ina219_readings_cb, Runs, FreshInv
  <1> QED
    BY <1>1, <1>2, FreshFinish DEF ina219_readings_cb

(* What an operation of the chain does, but for the sensor. *)
LEMMA DoneIs ==
  ASSUME FreshInv, NEW r \in Requests, OpDone(r)
  PROVE  /\ chain'[r] = Tail(chain[r]) /\ UNCHANGED <<request, result>>
         /\ \A s \in Requests \ {r} : chain'[s] = chain[s]
  BY DEF OpDone, FreshInv, AnswerInv, Typed

LEMMA FreshTransferStep ==
  ASSUME FreshInv, AnswerInv', NEW r \in Requests, Transfer(r)
  PROVE  FreshInv'
  <1>0. /\ Tail(Start2) = Start1 /\ Tail(Write) = Retry
        /\ Tail(Retry) = Poll /\ Tail(Poll) = Check
    BY DEF Start2, Start1, Write, Retry, Poll, Check
  <1> USE DEF FreshInv
  <1>1. CASE ReadConf(r)
    <2>1. chain'[r] = Start1 /\ UNCHANGED <<ready, running, register, cnvr, fresh>>
      BY <1>0, <1>1, DoneIs, PhaseAt, ZenonT(30) DEF ReadConf, Runs, sensor
    <2>2. Behind(r)' /\ Onward(r) /\ SensorInv'
      BY <1>1, <2>1, DoneIs DEF ReadConf, Behind, Phase, Onward, SensorInv
    <2> QED
      BY <2>2, OnwardInv
  <1>2. CASE Delay(r)
    <2>1. chain'[r] = Poll /\ Triggered(r) /\ UNCHANGED <<ready, running, register, cnvr, fresh>>
      BY <1>0, <1>2, DoneIs, PhaseAt DEF Delay, Runs, sensor
    <2>2. Behind(r)' /\ Onward(r) /\ SensorInv'
      BY <1>2, <2>1, DoneIs DEF Delay, Behind, Phase, Triggered, Onward, SensorInv
    <2> QED
      BY <2>2, OnwardInv
  <1>3. CASE WriteConf(r)
    <2>1. /\ chain'[r] = Retry /\ running' = running \cup {r} /\ ~cnvr'
          /\ UNCHANGED <<register, ready, fresh>>
      BY <1>0, <1>3, DoneIs, PhaseAt, ZenonT(30) DEF WriteConf, Runs
    <2>2. Behind(r)' /\ Onward(r) /\ SensorInv'
      BY <1>3, <2>1, DoneIs DEF WriteConf, Behind, Phase, Triggered, Onward, SensorInv
    <2> QED
      BY <2>2, OnwardInv
  <1>4. CASE ReadStatus(r)
    <2>1. /\ chain'[r] = Check /\ Triggered(r) /\ ready' = [ready EXCEPT ![r] = cnvr]
          /\ UNCHANGED <<running, register, cnvr, fresh>>
      BY <1>0, <1>4, DoneIs, PhaseAt DEF ReadStatus, Runs, sensor
    <2>2. /\ ready'[r] = cnvr /\ DOMAIN ready' = Requests
          /\ \A s \in Requests \ {r} : ready'[s] = ready[s]
      BY <2>1
    <2>3. ready'[r] => r \in register
      BY <2>1, <2>2 DEF SensorInv, Triggered
    <2>4. Behind(r)' /\ Onward(r) /\ SensorInv'
      BY <1>4, <2>1, <2>2, <2>3, DoneIs DEF ReadStatus, Behind, Phase, Triggered, Onward, SensorInv
    <2> QED
      BY <2>4, OnwardInv
  <1>5. CASE ReadRegister(r)
    <2>1. /\ chain[r] # << >> /\ Head(chain[r]) \in Readings
          /\ UNCHANGED <<ready, running, register, cnvr>>
      BY <1>5, Ina219Assumption DEF Ina219Assumption, ReadRegister, Runs, Readings, sensor
    <2>2. /\ Regs(chain[r])
          /\ result[r] = "ok" => r \in register /\ (HasVoltage(chain[r]) \/ r \in fresh)
      BY <2>1, PhaseAt
    <2>3. fresh' = IF Head(chain[r]) = "voltage" /\ r \in register THEN fresh \cup {r} ELSE fresh
      BY <1>5 DEF ReadRegister
    <2>4. /\ Regs(Tail(chain[r]))
          /\ result[r] = "ok" => HasVoltage(Tail(chain[r])) \/ r \in fresh'
      BY <2>1, <2>2, <2>3, RegsTail
    <2>5. Behind(r)' /\ Onward(r) /\ SensorInv'
      BY <1>5, <2>1, <2>2, <2>3, <2>4, DoneIs
         DEF ReadRegister, Behind, Phase, Triggered, Onward, SensorInv
    <2> QED
      BY <2>5, OnwardInv
  <1>6. CASE TransferFails(r)
    <2>1. /\ chain' = [chain EXCEPT ![r] = <<Last(chain[r])>>] /\ result' = [result EXCEPT ![r] = "err"]
          /\ UNCHANGED <<request, ready, running, register, cnvr, fresh>>
      BY <1>6 DEF TransferFails, sensor
    <2>2. /\ chain'[r] = <<Last(chain[r])>> /\ result'[r] = "err"
          /\ \A s \in Requests \ {r} : chain'[s] = chain[s] /\ result'[s] = result[s]
      BY <2>1 DEF AnswerInv, Typed
    <2>3. chain[r] # << >> /\ Ends(chain[r]) /\ request[r] = "flight"
      BY <1>6, RunsInFlight DEF TransferFails
    <2>4. Last(chain[r]) \in Callbacks
      BY <2>3 DEF Ends, Last
    <2>5. chain'[r] \in {Start1, Check} \/ Regs(chain'[r])
      <3>1. chain'[r] = <<"readings_cb">> => Regs(chain'[r])
        BY DEF Regs, Ops, Callbacks
      <3> QED
        BY <2>2, <2>4, <3>1 DEF Callbacks, Start1, Check
    <2>6. Behind(r)' /\ Onward(r) /\ SensorInv'
      BY <2>1, <2>2, <2>5 DEF Behind, Phase, Onward, SensorInv
    <2> QED
      BY <2>6, OnwardInv
  <1> QED
    BY <1>1, <1>2, <1>3, <1>4, <1>5, <1>6 DEF Transfer

LEMMA FreshHandedOverStep ==
  ASSUME FreshInv, AnswerInv', NEW r \in Requests, on_sensor_data(r)
  PROVE  FreshInv'
  <1>1. /\ request' = [request EXCEPT ![r] = "done"]
        /\ UNCHANGED <<chain, result, ready, running, register, cnvr, fresh>>
    BY DEF on_sensor_data, sensor
  <1>2. Behind(r)' /\ Onward(r) /\ SensorInv'
    BY <1>1 DEF FreshInv, AnswerInv, Typed, Behind, Phase, Triggered, Onward, SensorInv
  <1> QED
    BY <1>2, OnwardInv

LEMMA FreshNext ==
  ASSUME FreshInv, "voltage" \in Channels, [Next]_vars
  PROVE  FreshInv'
  <1>1. AnswerInv'
    BY AnswerNext DEF FreshInv
  <1>2. CASE UNCHANGED vars
    BY <1>1, <1>2 DEF vars, driver, sensor, FreshInv, Behind, Phase, Triggered, SensorInv
  <1>3. CASE ConversionDone
    <2>1. /\ register' = register \cup running /\ running' = {}
          /\ UNCHANGED <<chain, request, result, ready, fresh>>
      BY <1>3 DEF ConversionDone, driver
    <2>2. ASSUME NEW r \in Requests PROVE Behind(r)'
      BY <2>1 DEF FreshInv, Behind, Phase, Triggered
    <2> QED
      BY <1>1, <2>1, <2>2 DEF FreshInv, SensorInv
  <1>4. CASE \E r \in Requests : ina219_submit(r) \/ Callback(r) \/ Transfer(r) \/ on_sensor_data(r)
    BY <1>1, <1>4, FreshSubmitStep, FreshTriggerStep, FreshReadyStep, FreshReadingsStep,
       FreshTransferStep, FreshHandedOverStep DEF Callback
  <1> QED
    BY <1>2, <1>3, <1>4 DEF Next, Step, k_sys_fatal_error_handler, AllDone

(* A voltage that is handed over comes from a conversion that its read or  *)
(* a later one started, although all the reads in flight restart the one   *)
(* conversion and share its ready bit: for any number of reads, any pool,  *)
(* and any channels the voltage is one of.                                 *)
THEOREM OkIsFreshTheorem ==
  ASSUME "voltage" \in Channels
  PROVE  Spec => []OkIsFresh
  <1>1. Init => FreshInv
    BY DEF Init, FreshInv, AnswerInv, Typed, AnsweredRight, InFlight, Behind, Phase, SensorInv
  <1>2. FreshInv /\ [Next]_vars => FreshInv'
    BY FreshNext
  <1>3. FreshInv => OkIsFresh
    BY DEF FreshInv, Behind, OkIsFresh
  <1> QED
    BY <1>1, <1>2, <1>3, PTL DEF Spec
-----------------------------------------------------------------------------
(* The pool.  The entries of a chain are finitely many, and one operation  *)
(* has at most two.                                                        *)
LEMMA EntriesFinite ==
  ASSUME NEW ops, Len(ops) \in Nat
  PROVE  IsFiniteSet(Entries(ops)) /\ CostOf(ops) \in Nat
  <1>1. IsFiniteSet(0..(Len(ops) - 1)) /\ IsFiniteSet(1..2)
    <2>1. 0 \in Int /\ Len(ops) - 1 \in Int /\ 1 \in Int /\ 2 \in Int
      OBVIOUS
    <2>2. IsFiniteSet(0..(Len(ops) - 1))
      BY <2>1, FS_Interval
    <2>3. IsFiniteSet(1..2)
      BY <2>1, FS_Interval
    <2> QED
      BY <2>2, <2>3
  <1>2. IsFiniteSet((0..Len(ops) - 1) \X (1..2))
    BY <1>1, FS_Product
  <1>3. Entries(ops) \in SUBSET ((0..Len(ops) - 1) \X (1..2))
    BY DEF Entries
  <1>4. IsFiniteSet(Entries(ops))
    BY <1>2, <1>3, FS_Subset
  <1> QED
    BY <1>4, FS_CardinalityType DEF CostOf

LEMMA NothingHeld == Entries(<< >>) = {} /\ CostOf(<< >>) = 0
  <1>1. Len(<< >>) = 0
    OBVIOUS
  <1>2. Entries(<< >>) = {}
    BY <1>1 DEF Entries
  <1> QED
    BY <1>2, FS_EmptySet DEF CostOf

(* A chain of one callback has one entry. *)
LEMMA CallbackHeld ==
  ASSUME NEW op \in Callbacks
  PROVE  Entries(<<op>>) = {<<0, 1>>} /\ CostOf(<<op>>) = 1
  <1>1. Cost(op) = 1
    BY DEF Cost
  <1>2. Entries(<<op>>) = {<<0, 1>>}
    <2>1. Len(<<op>>) = 1 /\ <<op>>[1] = op
      OBVIOUS
    <2>2. ASSUME NEW e PROVE e \in Entries(<<op>>) <=> e = <<0, 1>>
      BY <1>1, <2>1 DEF Entries
    <2> QED
      BY <2>2
  <1> QED
    BY <1>2, FS_Singleton DEF CostOf

(* When the first operation is through its entries go back, and the others *)
(* keep their names.                                                       *)
LEMMA HeadReleased ==
  ASSUME NEW ops \in Seq(Ops), Len(ops) > 0
  PROVE  CostOf(ops) = CostOf(Tail(ops)) + Cost(Head(ops))
  <1> DEFINE n == Len(ops)
             rest == Tail(ops)
             mine == {n - 1} \X (1..Cost(ops[1]))
  <1>1. /\ n \in Nat \ {0} /\ Head(ops) = ops[1] /\ rest \in Seq(Ops)
        /\ Len(rest) = n - 1 /\ \A i \in 1..(n - 1) : rest[i] = ops[i + 1]
    OBVIOUS
  <1>2. Cost(ops[1]) \in {1, 2}
    BY DEF Cost
  <1>3. Entries(ops) = Entries(rest) \cup mine
    <2>1. ASSUME NEW i \in 0..(n - 2), NEW k \in {1, 2}
          PROVE  <<i, k>> \in Entries(ops) <=> <<i, k>> \in Entries(rest)
      <3>1. rest[(n - 1) - i] = ops[n - i]
        <4>1. (n - 1) - i \in 1..(n - 1) /\ ((n - 1) - i) + 1 = n - i
          BY <1>1
        <4> QED
          BY <1>1, <4>1
      <3>2. i \in 0..(n - 1)
        BY <1>1
      <3> HIDE DEF n, rest
      <3>3. <<i, k>> \in Entries(ops) <=> k <= Cost(ops[n - i])
        BY <3>2 DEF Entries, n
      <3>4. <<i, k>> \in Entries(rest) <=> k <= Cost(rest[(n - 1) - i])
        BY <1>1 DEF Entries
      <3> QED
        BY <3>1, <3>3, <3>4
    <2>2. ASSUME NEW k \in {1, 2}
          PROVE  <<n - 1, k>> \in Entries(ops) <=> <<n - 1, k>> \in mine
      <3>1. n - 1 \in 0..(n - 1) /\ n - (n - 1) = 1
        BY <1>1
      <3>2. <<n - 1, k>> \in Entries(ops) <=> k <= Cost(ops[n - (n - 1)])
        BY <3>1 DEF Entries
      <3>3. <<n - 1, k>> \in mine <=> k <= Cost(ops[1])
        BY <1>2
      <3> QED
        BY <3>1, <3>2, <3>3
    <2>3. Entries(ops) \subseteq (0..(n - 1)) \X {1, 2}
      BY DEF Entries
    <2>4. Entries(rest) \subseteq (0..(n - 2)) \X {1, 2}
      BY <1>1 DEF Entries
    <2>5. mine \subseteq {n - 1} \X {1, 2}
      BY <1>2
    <2> HIDE DEF n, rest, mine
    <2>6. \A i \in 0..(n - 1) : i \in 0..(n - 2) \/ i = n - 1
      BY <1>1
    <2>8. ASSUME NEW e \in Entries(ops) PROVE e \in Entries(rest) \cup mine
      <3>1. PICK i \in 0..(n - 1), k \in {1, 2} : e = <<i, k>>
        BY <2>3
      <3> QED
        BY <2>1, <2>2, <2>6, <2>8, <3>1
    <2>9. ASSUME NEW e \in Entries(rest) PROVE e \in Entries(ops)
      <3>1. PICK i \in 0..(n - 2), k \in {1, 2} : e = <<i, k>>
        BY <2>4
      <3> QED
        BY <2>1, <2>9, <3>1
    <2>10. ASSUME NEW e \in mine PROVE e \in Entries(ops)
      <3>1. PICK k \in {1, 2} : e = <<n - 1, k>>
        BY <2>5
      <3> QED
        BY <2>2, <2>10, <3>1
    <2> QED
      BY <2>8, <2>9, <2>10
  <1>4. Entries(rest) \cap mine = {}
    BY <1>1 DEF Entries
  <1>5. IsFiniteSet(Entries(rest)) /\ Cardinality(Entries(rest)) \in Nat
    BY <1>1, EntriesFinite DEF CostOf
  <1>6. IsFiniteSet(mine) /\ Cardinality(mine) = Cost(ops[1])
    <2>1. IsFiniteSet({n - 1}) /\ Cardinality({n - 1}) = 1
      BY FS_Singleton
    <2>2. IsFiniteSet(1..Cost(ops[1])) /\ Cardinality(1..Cost(ops[1])) = Cost(ops[1])
      BY <1>2, FS_Interval
    <2>3. IsFiniteSet(mine) /\ Cardinality(mine) = 1 * Cost(ops[1])
      BY <2>1, <2>2, FS_Product, ZenonT(30)
    <2> QED
      BY <1>2, <2>3
  <1> HIDE DEF n, rest, mine
  <1>7. Cardinality(Entries(rest) \cup mine)
          = Cardinality(Entries(rest)) + Cardinality(mine) - Cardinality(Entries(rest) \cap mine)
    BY <1>5, <1>6, FS_Union
  <1>8. Cardinality(Entries(rest) \cap mine) = 0
    BY <1>4, FS_EmptySet
  <1> QED
    BY <1>1, <1>2, <1>3, <1>5, <1>6, <1>7, <1>8 DEF CostOf, rest

LEMMA OneMoreHolder ==
  ASSUME NEW rest, IsFiniteSet(rest), NEW r, NEW ops, Len(ops) \in Nat,
         \A e \in Entries(ops) : <<r, e>> \notin rest
  PROVE  /\ IsFiniteSet(rest \cup ({r} \X Entries(ops)))
         /\ Cardinality(rest \cup ({r} \X Entries(ops))) = Cardinality(rest) + CostOf(ops)
  <1> DEFINE mine == {r} \X Entries(ops)
  <1>1. IsFiniteSet({r}) /\ Cardinality({r}) = 1
    BY FS_Singleton
  <1>2. IsFiniteSet(Entries(ops)) /\ Cardinality(Entries(ops)) = CostOf(ops) /\ CostOf(ops) \in Nat
    BY EntriesFinite DEF CostOf
  <1>3. IsFiniteSet(mine) /\ Cardinality(mine) = 1 * Cardinality(Entries(ops))
    BY <1>1, <1>2, FS_Product
  <1>4. rest \cap mine = {}
    OBVIOUS
  <1> HIDE DEF mine
  <1>5. Cardinality(rest \cap mine) = 0
    BY <1>4, FS_EmptySet
  <1>6. /\ IsFiniteSet(rest \cup mine)
        /\ Cardinality(rest \cup mine) = Cardinality(rest) + Cardinality(mine) - Cardinality(rest \cap mine)
    BY <1>3, FS_Union
  <1>7. Cardinality(rest) \in Nat
    BY FS_CardinalityType
  <1>8. Cardinality(rest \cup mine) = Cardinality(rest) + CostOf(ops)
    BY <1>2, <1>3, <1>5, <1>6, <1>7
  <1> QED
    BY <1>6, <1>8 DEF mine

(* The pool changes by what the chain of one read changes by. *)
LEMMA HeldChanges ==
  ASSUME IsFiniteSet(Held), DOMAIN chain = Requests, NEW r \in Requests, Len(chain[r]) \in Nat,
         NEW ops, Len(ops) \in Nat, chain' = [chain EXCEPT ![r] = ops]
  PROVE  /\ IsFiniteSet(Held')
         /\ Cardinality(Held') = Cardinality(Held) - CostOf(chain[r]) + CostOf(ops)
  <1> DEFINE rest == UNION {{s} \X Entries(chain[s]) : s \in Requests \ {r}}
  <1>1. Held = rest \cup ({r} \X Entries(chain[r]))
    BY DEF Held
  <1>2. Held' = rest \cup ({r} \X Entries(ops))
    <2>1. chain'[r] = ops /\ \A s \in Requests \ {r} : chain'[s] = chain[s]
      OBVIOUS
    <2>2. Held' = UNION {{s} \X Entries(chain'[s]) : s \in Requests}
      BY DEF Held
    <2> QED
      BY <2>1, <2>2
  <1>3. \A e : <<r, e>> \notin rest
    OBVIOUS
  <1>4. IsFiniteSet(rest) /\ Cardinality(rest) \in Nat
    <2>1. rest \in SUBSET Held
      BY <1>1
    <2> QED
      BY <2>1, FS_Subset, FS_CardinalityType
  <1>5. CostOf(chain[r]) \in Nat /\ CostOf(ops) \in Nat
    BY EntriesFinite
  <1> HIDE DEF rest
  <1>6. Cardinality(Held) = Cardinality(rest) + CostOf(chain[r])
    BY <1>1, <1>3, <1>4, OneMoreHolder
  <1>7. IsFiniteSet(Held') /\ Cardinality(Held') = Cardinality(rest) + CostOf(ops)
    <2>1. /\ IsFiniteSet(rest \cup ({r} \X Entries(ops)))
          /\ Cardinality(rest \cup ({r} \X Entries(ops))) = Cardinality(rest) + CostOf(ops)
      BY <1>3, <1>4, OneMoreHolder
    <2> QED
      BY <1>2, <2>1
  <1> QED
    BY <1>4, <1>5, <1>6, <1>7

(* The account is right because the callback is the last of its chain: an  *)
(* own entry is all that a handler gives back.                             *)
OnlyLast(ops) == \A i \in 1..(Len(ops) - 1) : ops[i] \notin Callbacks

PoolInv ==
  /\ AnswerInv
  /\ \A r \in Requests : OnlyLast(chain[r])
  /\ IsFiniteSet(Held) /\ free \in Nat /\ PoolAccounted

LEMMA PoolBalance ==
  ASSUME PoolInv, AnswerInv', NEW r \in Requests, NEW ops, Len(ops) \in Nat, OnlyLast(ops),
         chain' = [chain EXCEPT ![r] = ops],
         free' = free + CostOf(chain[r]) - CostOf(ops), CostOf(ops) <= free + CostOf(chain[r])
  PROVE  PoolInv'
  <1>1. DOMAIN chain = Requests /\ Len(chain[r]) \in Nat
    <2>1. chain[r] = << >> \/ chain[r] \in Seq(Ops)
      BY DEF PoolInv, AnswerInv, AnsweredRight, Ends
    <2>2. chain[r] = << >> => Len(chain[r]) = 0
      OBVIOUS
    <2> QED
      BY <2>1, <2>2 DEF PoolInv, AnswerInv, Typed
  <1>2. IsFiniteSet(Held') /\ Cardinality(Held') = Cardinality(Held) - CostOf(chain[r]) + CostOf(ops)
    BY <1>1, HeldChanges DEF PoolInv
  <1>3. Cardinality(Held) \in Nat /\ CostOf(chain[r]) \in Nat /\ CostOf(ops) \in Nat
    BY <1>1, EntriesFinite, FS_CardinalityType DEF PoolInv
  <1>4. free' \in Nat /\ free' + Cardinality(Held') = SQES
    BY <1>2, <1>3, Ina219Assumption DEF PoolInv, PoolAccounted, Ina219Assumption
  <1>5. \A s \in Requests : OnlyLast(chain'[s])
    BY <1>1 DEF PoolInv
  <1> QED
    BY <1>2, <1>4, <1>5 DEF PoolInv, PoolAccounted, OnlyLast

(* A read that runs its callback has nothing else of the pool. *)
LEMMA CallbackAlone ==
  ASSUME PoolInv, NEW r \in Requests, chain[r] # << >>, Head(chain[r]) \in Callbacks
  PROVE  CostOf(chain[r]) = 1
  <1>1. Ends(chain[r]) /\ OnlyLast(chain[r])
    BY RunsInFlight DEF PoolInv
  <1>2. /\ chain[r] \in Seq(Ops) /\ Len(chain[r]) \in Nat /\ Len(chain[r]) > 0
        /\ Head(chain[r]) = chain[r][1]
    BY <1>1 DEF Ends
  <1>3. Len(chain[r]) = 1
    <2>1. Len(chain[r]) > 1 => 1 \in 1..(Len(chain[r]) - 1)
      BY <1>2
    <2>2. chain[r][1] \in Callbacks
      BY <1>2
    <2>3. ~(Len(chain[r]) > 1)
      BY <1>1, <2>1, <2>2 DEF OnlyLast
    <2> DEFINE n == Len(chain[r])
    <2>4. n \in Nat /\ n > 0 /\ ~(n > 1)
      BY <1>2, <2>3
    <2> HIDE DEF n
    <2>5. n = 1
      BY <2>4
    <2> QED
      BY <2>5 DEF n
  <1>4. chain[r] = <<Head(chain[r])>>
    BY <1>2, <1>3
  <1> QED
    BY <1>4, CallbackHeld

LEMMA PoolSubmit ==
  ASSUME PoolInv, AnswerInv', NEW r \in Requests, NEW own \in {0, 1}, CostOf(chain[r]) = own,
         NEW ops, Len(ops) \in Nat, OnlyLast(ops), SubmitChain(r, ops, own)
  PROVE  PoolInv'
  <1>1. /\ chain' = [chain EXCEPT ![r] = ops] /\ free' = free + CostOf(chain[r]) - CostOf(ops)
        /\ free >= CostOf(ops)
    BY DEF SubmitChain
  <1>2. CostOf(ops) \in Nat /\ free \in Nat
    BY EntriesFinite DEF PoolInv
  <1>3. CostOf(ops) <= free + CostOf(chain[r])
    BY <1>1, <1>2
  <1> QED
    BY <1>1, <1>3, PoolBalance

LEMMA PoolFinish ==
  ASSUME PoolInv, AnswerInv', NEW r \in Requests, NEW own \in {0, 1}, CostOf(chain[r]) = own,
         chain' = [chain EXCEPT ![r] = << >>], free' = free + own
  PROVE  PoolInv'
  <1>1. Len(<< >>) = 0 /\ OnlyLast(<< >>) /\ CostOf(<< >>) = 0
    BY NothingHeld DEF OnlyLast
  <1>2. free' = free + CostOf(chain[r]) - CostOf(<< >>) /\ CostOf(<< >>) <= free + CostOf(chain[r])
    BY <1>1 DEF PoolInv
  <1> QED
    BY <1>1, <1>2, PoolBalance

LEMMA PoolSubmitStep ==
  ASSUME PoolInv, AnswerInv', NEW r \in Requests, ina219_submit(r)
  PROVE  PoolInv'
  <1>1. chain[r] = << >>
    BY DEF ina219_submit, PoolInv, AnswerInv, AnsweredRight, InFlight
  <1>2. CostOf(chain[r]) = 0
    BY <1>1, NothingHeld
  <1>3. CASE SubmitChain(r, Start2, 0)
    <2>1. Len(Start2) \in Nat /\ OnlyLast(Start2)
      BY DEF Start2, OnlyLast, Callbacks
    <2> QED
      BY <1>2, <1>3, <2>1, PoolSubmit
  <1>4. CASE Finish(r, "err", 0)
    BY <1>2, <1>4, PoolFinish DEF Finish
  <1> QED
    BY <1>3, <1>4 DEF ina219_submit, NoMemory, Start2

LEMMA PoolTriggerStep ==
  ASSUME PoolInv, AnswerInv', NEW r \in Requests, ina219_trigger_measurement_cb(r)
  PROVE  PoolInv'
  <1>1. CostOf(chain[r]) = 1
    BY CallbackAlone DEF ina219_trigger_measurement_cb, Runs, Callbacks
  <1>2. CASE SubmitChain(r, Write, 1)
    <2>1. Len(Write) \in Nat /\ OnlyLast(Write)
      BY DEF Write, OnlyLast, Callbacks
    <2> QED
      BY <1>1, <1>2, <2>1, PoolSubmit
  <1>3. CASE Finish(r, "err", 1) \/ Starved(r)
    BY <1>1, <1>3, PoolFinish DEF Finish, Starved
  <1> QED
    BY <1>2, <1>3 DEF ina219_trigger_measurement_cb, Failed, NoMemory, Write

(* The registers are read without a callback between them. *)
LEMMA RegistersOnlyLast == OnlyLast(Append(Registers, "readings_cb"))
  <1> DEFINE Asked(c) == IF c \in Channels THEN <<c>> ELSE << >>
  <1>1. ASSUME NEW c \in Readings PROVE Asked(c) \in Seq(Readings)
    <2>1. <<c>> \in Seq(Readings) /\ << >> \in Seq(Readings)
      OBVIOUS
    <2> QED
      BY <2>1
  <1>2. Registers \in Seq(Readings)
    <2>1. "voltage" \in Readings /\ "current" \in Readings /\ "power" \in Readings
      BY DEF Readings
    <2> HIDE DEF Asked
    <2>2. /\ Asked("voltage") \in Seq(Readings) /\ Asked("current") \in Seq(Readings)
          /\ Asked("power") \in Seq(Readings)
      BY <1>1, <2>1
    <2>3. (Asked("voltage") \o Asked("current")) \o Asked("power") \in Seq(Readings)
      BY <2>2, ThreeParts
    <2> QED
      BY <2>3 DEF Registers, Asked
  <1>3. LET ops == Append(Registers, "readings_cb")
        IN /\ Len(ops) = Len(Registers) + 1 /\ Len(Registers) \in Nat
           /\ \A i \in 1..Len(Registers) : ops[i] \in Readings
    BY <1>2
  <1> QED
    BY <1>3 DEF OnlyLast, Readings, Callbacks

LEMMA PoolReadyStep ==
  ASSUME PoolInv, AnswerInv', NEW r \in Requests, ina219_check_ready_cb(r)
  PROVE  PoolInv'
  <1>1. CostOf(chain[r]) = 1
    BY CallbackAlone DEF ina219_check_ready_cb, Runs, Callbacks
  <1>2. CASE SubmitChain(r, Retry, 1)
    <2>1. Len(Retry) \in Nat /\ OnlyLast(Retry)
      BY DEF Retry, OnlyLast, Callbacks
    <2> QED
      BY <1>1, <1>2, <2>1, PoolSubmit
  <1>3. CASE SubmitChain(r, Append(Registers, "readings_cb"), 1)
    <2>1. Len(Append(Registers, "readings_cb")) \in Nat
      BY RegistersEnd DEF Ends
    <2> QED
      BY <1>1, <1>3, <2>1, RegistersOnlyLast, PoolSubmit
  <1>4. CASE Finish(r, "err", 1)
    BY <1>1, <1>4, PoolFinish DEF Finish
  <1> QED
    BY <1>2, <1>3, <1>4 DEF ina219_check_ready_cb, Failed, NoMemory

LEMMA PoolReadingsStep ==
  ASSUME PoolInv, AnswerInv', NEW r \in Requests, ina219_readings_cb(r)
  PROVE  PoolInv'
  <1>1. CostOf(chain[r]) = 1
    BY CallbackAlone DEF ina219_readings_cb, Runs, Callbacks
  <1> QED
    BY <1>1, PoolFinish DEF ina219_readings_cb, Finish

(* A transfer or a delay gives back its own entries, a failure those of    *)
(* everything but the callback.                                            *)
LEMMA PoolTransferStep ==
  ASSUME PoolInv, AnswerInv', NEW r \in Requests, Transfer(r)
  PROVE  PoolInv'
  <1>1. chain[r] # << >>
    BY DEF Transfer, ReadConf, Delay, WriteConf, ReadStatus, ReadRegister, TransferFails, Runs
  <1>2. /\ Ends(chain[r]) /\ OnlyLast(chain[r])
        /\ chain[r] \in Seq(Ops) /\ Len(chain[r]) \in Nat /\ Len(chain[r]) > 0
    BY <1>1, RunsInFlight DEF PoolInv, Ends
  <1>3. /\ Tail(chain[r]) \in Seq(Ops) /\ Len(Tail(chain[r])) = Len(chain[r]) - 1
        /\ \A i \in 1..(Len(chain[r]) - 1) : Tail(chain[r])[i] = chain[r][i + 1]
    BY <1>2
  <1>4. Cost(Head(chain[r])) \in {1, 2}
    BY DEF Cost
  <1>5. CostOf(chain[r]) = CostOf(Tail(chain[r])) + Cost(Head(chain[r])) /\ CostOf(Tail(chain[r])) \in Nat
    BY <1>2, <1>3, HeadReleased, EntriesFinite
  <1>6. CASE OpDone(r)
    <2>1. Len(Tail(chain[r])) \in Nat /\ OnlyLast(Tail(chain[r]))
      BY <1>2, <1>3 DEF OnlyLast
    <2>2. chain' = [chain EXCEPT ![r] = Tail(chain[r])] /\ free' = free + Cost(Head(chain[r]))
      BY <1>6 DEF OpDone
    <2>3. /\ free' = free + CostOf(chain[r]) - CostOf(Tail(chain[r]))
          /\ CostOf(Tail(chain[r])) <= free + CostOf(chain[r])
      BY <1>4, <1>5, <2>2 DEF PoolInv
    <2> QED
      BY <2>1, <2>2, <2>3, PoolBalance
  <1>7. CASE TransferFails(r)
    <2> DEFINE last == <<Last(chain[r])>>
    <2>1. chain' = [chain EXCEPT ![r] = last] /\ free' = free + CostOf(chain[r]) - CostOf(last)
      BY <1>7 DEF TransferFails
    <2>2. Len(last) \in Nat /\ OnlyLast(last)
      BY DEF OnlyLast
    <2>3. CostOf(last) = 1
      BY <1>2, CallbackHeld DEF Ends, Last
    <2>4. CostOf(last) <= free + CostOf(chain[r])
      BY <1>4, <1>5, <2>3 DEF PoolInv
    <2> HIDE DEF last
    <2> QED
      BY <2>1, <2>2, <2>4, PoolBalance
  <1> QED
    BY <1>6, <1>7 DEF Transfer, ReadConf, Delay, WriteConf, ReadStatus, ReadRegister

LEMMA PoolNext ==
  ASSUME PoolInv, [Next]_vars
  PROVE  PoolInv'
  <1>1. AnswerInv'
    BY AnswerNext DEF PoolInv
  <1>2. CASE UNCHANGED <<chain, free>>
    BY <1>1, <1>2 DEF PoolInv, PoolAccounted, Held
  <1>3. CASE \E r \in Requests : ina219_submit(r) \/ Callback(r) \/ Transfer(r)
    BY <1>1, <1>3, PoolSubmitStep, PoolTriggerStep, PoolReadyStep, PoolReadingsStep, PoolTransferStep DEF Callback
  <1> QED
    BY <1>2, <1>3
       DEF Next, Step, ConversionDone, on_sensor_data, k_sys_fatal_error_handler, AllDone, vars, driver

LEMMA PoolAlways == Spec => []PoolInv
  <1>1. Init => PoolInv
    <2> SUFFICES ASSUME Init PROVE PoolInv
      OBVIOUS
    <2>1. AnswerInv
      BY DEF Init, AnswerInv, Typed, AnsweredRight, InFlight
    <2>2. \A r \in Requests : chain[r] = << >>
      BY DEF Init
    <2>3. Held = {}
      BY <2>2, NothingHeld DEF Held
    <2>4. IsFiniteSet(Held) /\ Cardinality(Held) = 0
      BY <2>3, FS_EmptySet
    <2>5. Len(<< >>) = 0
      OBVIOUS
    <2> QED
      BY <2>1, <2>2, <2>4, <2>5, Ina219Assumption DEF Init, PoolInv, PoolAccounted, OnlyLast, Ina219Assumption
  <1> QED
    BY <1>1, PoolNext, PTL DEF Spec

(* Whatever the size of the pool and however reads overlap in it, each of  *)
(* its entries is free or in the chain of one read: every early return and *)
(* every failed transfer gives back what it has, once, so that a driver    *)
(* whose reads have ended has its whole pool.                              *)
THEOREM PoolTheorem == Spec => []PoolAccounted
  <1>1. PoolInv => PoolAccounted
    BY DEF PoolInv
  <1> QED
    BY <1>1, PoolAlways, PTL

(* Every variable keeps to its type; that the free entries are never fewer *)
(* than none nor more than the pool has is the account above.              *)
THEOREM Ina219TypeOK == Spec => []TypeOK
  <1>1. Init => TypeOK
    <2>1. ASSUME Init PROVE free \in 0..SQES
      BY <2>1, Ina219Assumption DEF Init, Ina219Assumption
    <2>2. ASSUME Init
          PROVE  /\ request \in [Requests -> {"new", "flight", "ok", "err", "done"}]
                 /\ result \in [Requests -> {"ok", "err"}] /\ ready \in [Requests -> BOOLEAN]
      BY <2>2 DEF Init
    <2>3. ASSUME Init
          PROVE  running \cup register \cup fresh \cup starved = {} /\ answers \in [Requests -> Nat]
      BY <2>3 DEF Init
    <2>4. ASSUME Init PROVE ~cnvr /\ ~fatal
      BY <2>4 DEF Init
    <2> QED
      BY <2>1, <2>2, <2>3, <2>4 DEF Init, TypeOK
  <1>2. ASSUME TypeOK, PoolInv', [Next]_vars
        PROVE  TypeOK'
    <2>1. free' \in 0..SQES
      <3>1. Cardinality(Held') \in Nat
        BY <1>2, FS_CardinalityType DEF PoolInv
      <3>2. free' \in Nat /\ free' + Cardinality(Held') = SQES
        BY <1>2 DEF PoolInv, PoolAccounted
      <3> QED
        BY <3>1, <3>2, Ina219Assumption DEF Ina219Assumption
    <2>2. /\ request' \in [Requests -> {"new", "flight", "ok", "err", "done"}]
          /\ result' \in [Requests -> {"ok", "err"}]
      BY <1>2 DEF PoolInv, AnswerInv, Typed
    <2>3. /\ ready' \in [Requests -> BOOLEAN] /\ cnvr' \in BOOLEAN /\ fatal' \in BOOLEAN
          /\ running' \cup register' \cup fresh' \cup starved' \subseteq Requests
      <3>1. CASE UNCHANGED <<ready, sensor, fresh, starved, fatal>>
        BY <1>2, <3>1 DEF TypeOK, sensor
      <3>2. CASE ConversionDone
        BY <1>2, <3>2 DEF TypeOK, ConversionDone, driver
      <3>3. ASSUME NEW r \in Requests, Transfer(r)
            PROVE  /\ ready' \in [Requests -> BOOLEAN] /\ cnvr' \in BOOLEAN /\ fatal' \in BOOLEAN
                   /\ running' \cup register' \cup fresh' \cup starved' \subseteq Requests
        <4>1. CASE ReadStatus(r)
          <5>1. ready' = [ready EXCEPT ![r] = cnvr] /\ UNCHANGED <<running, register, cnvr, fresh, starved, fatal>>
            BY <4>1 DEF ReadStatus, OpDone, sensor
          <5>2. ready' \in [Requests -> BOOLEAN]
            BY <1>2, <5>1 DEF TypeOK
          <5> QED
            BY <1>2, <5>1, <5>2 DEF TypeOK
        <4>2. CASE WriteConf(r)
          BY <1>2, <4>2 DEF TypeOK, WriteConf, OpDone
        <4>3. CASE ReadRegister(r)
          BY <1>2, <4>3 DEF TypeOK, ReadRegister, OpDone, sensor
        <4>4. CASE ReadConf(r) \/ Delay(r) \/ TransferFails(r)
          BY <3>1, <4>4 DEF ReadConf, Delay, TransferFails, OpDone
        <4> QED
          BY <3>3, <4>1, <4>2, <4>3, <4>4 DEF Transfer
      <3>4. CASE \E r \in Requests : ina219_trigger_measurement_cb(r)
        BY <1>2, <3>4 DEF TypeOK, ina219_trigger_measurement_cb, Starved, sensor
      <3> QED
        BY <1>2, <3>1, <3>2, <3>3, <3>4
           DEF Next, Step, Callback, ina219_submit, ina219_check_ready_cb, ina219_readings_cb,
               on_sensor_data, k_sys_fatal_error_handler, AllDone, vars, driver
    <2>4. answers' \in [Requests -> Nat]
      <3>1. CASE UNCHANGED answers
        BY <1>2, <3>1 DEF TypeOK
      <3>2. ASSUME NEW r \in Requests, NEW how, Answer(r, how)
            PROVE  answers' \in [Requests -> Nat]
        BY <1>2, <3>2 DEF TypeOK, Answer
      <3>3. ASSUME NEW r \in Requests, Starved(r)
            PROVE  answers' \in [Requests -> Nat]
        BY <1>2, <3>3 DEF TypeOK, Starved
      <3> QED
        BY <1>2, <3>1, <3>2, <3>3
           DEF Next, Step, Callback, Transfer, ReadConf, Delay, WriteConf, ReadStatus, ReadRegister,
               TransferFails, OpDone, ina219_submit, ina219_trigger_measurement_cb,
               ina219_check_ready_cb, ina219_readings_cb, Failed, NoMemory, Finish, SubmitChain,
               ConversionDone, on_sensor_data, k_sys_fatal_error_handler, AllDone, vars, driver
    <2> QED
      BY <2>1, <2>2, <2>3, <2>4 DEF TypeOK
  <1> QED
    BY <1>1, <1>2, PoolAlways, PTL DEF Spec
=============================================================================
