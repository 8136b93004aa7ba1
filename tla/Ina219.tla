------------------------------- MODULE Ina219 -------------------------------
(***************************************************************************)
(* The asynchronous reads of the INA219 power monitor,                     *)
(* drivers/sensor/ina219-rtio/ina219.c, as apps/asterics issues them.      *)
(*                                                                         *)
(* A read is a chain of bus transfers and delays in the driver's own RTIO  *)
(* context, ended by a callback that builds the next chain: read the       *)
(* configuration, write it back to start a conversion, wait, read the      *)
(* status until the conversion is ready, read the registers.  All reads in *)
(* flight share the context's pool of submission entries and the one       *)
(* sensor.  Their transfers interleave; a callback is one step.            *)
(***************************************************************************)
EXTENDS Integers, SequencesExt

CONSTANTS
  Requests,    \* the reads the application issues
  Channels,    \* the channels it asks for
  SQES         \* RTIO_DEFINE(ina219_rtio_ctx, 16, 16)

ASSUME Ina219Assumption ==
  /\ Channels \subseteq {"voltage", "current", "power"}
  /\ IsFiniteSet(Requests) /\ SQES \in Nat

VARIABLES
  request,       \* Requests -> "new", "flight", "ok", "err" or "done"
  chain,         \* Requests -> the operations of its chain still to run
  result,        \* Requests -> the first error of its chain: "ok" or "err"
  free,          \* entries of the pool not in use
  ready,         \* Requests -> the status it last read says the conversion is ready
  running,       \* the sensor: Requests whose trigger the conversion under way follows
  register,      \* the sensor: Requests whose trigger the converted values follow
  cnvr,          \* the sensor: the conversion-ready bit of the status
  fresh,         \* history: Requests whose voltage is of a conversion they started or later
  answers,       \* history: Requests -> how often it was answered
  starved,       \* history: Requests whose trigger handler wrote to an entry it did not get
  fatal          \* the fatal error handler runs

sensor == <<running, register, cnvr>>
driver == <<request, chain, result, free, ready, answers>>
vars == <<driver, sensor, fresh, starved, fatal>>

Init ==
  /\ request = [r \in Requests |-> "new"] /\ answers = [r \in Requests |-> 0]
  /\ chain = [r \in Requests |-> << >>] /\ result = [r \in Requests |-> "ok"]
  /\ free = SQES /\ ready = [r \in Requests |-> FALSE]
  /\ running = {} /\ register = {} /\ cnvr = FALSE
  /\ fresh = {} /\ starved = {} /\ fatal = FALSE
-----------------------------------------------------------------------------
(* A register access is a write of its address and a transfer of its value.*)
Callbacks == {"trigger_measurement_cb", "check_ready_cb", "readings_cb"}
Cost(op) == IF op \in Callbacks \cup {"delay"} THEN 1 ELSE 2

(* The entries of a chain, named by the number of operations that follow:  *)
(* they keep their names while the chain before them runs.                 *)
Entries(ops) == {e \in (0..Len(ops) - 1) \X {1, 2} : e[2] <= Cost(ops[Len(ops) - e[1]])}
CostOf(ops)  == Cardinality(Entries(ops))

Answer(r, how) ==
  /\ request' = [request EXCEPT ![r] = how]
  /\ answers' = [answers EXCEPT ![r] = @ + 1]

(* A handler acquires the entries of a chain and submits it, or drops what *)
(* it has acquired and answers -ENOMEM; own: the entry of the callback     *)
(* that runs, released when it returns.                                    *)
(* The operators named Faulty... are what a plausible mistake would make   *)
(* of the operator after them; nothing refers to them.                     *)
FaultySubmitChain(r, ops, own) ==    \* what acquire returned is not looked at
  /\ chain' = [chain EXCEPT ![r] = ops]
  /\ free' = free + own - CostOf(ops)
  /\ result' = [result EXCEPT ![r] = "ok"]
  /\ UNCHANGED answers

SubmitChain(r, ops, own) ==
  /\ free >= CostOf(ops)
  /\ chain' = [chain EXCEPT ![r] = ops]
  /\ free' = free + own - CostOf(ops)
  /\ result' = [result EXCEPT ![r] = "ok"]
  /\ UNCHANGED answers

Finish(r, how, own) ==
  /\ Answer(r, how)
  /\ chain' = [chain EXCEPT ![r] = << >>]
  /\ free' = free + own
  /\ UNCHANGED result

FaultyNoDrop(r, ops, own) ==         \* what was acquired is not dropped
  /\ free < CostOf(ops)
  /\ Answer(r, "err")
  /\ chain' = [chain EXCEPT ![r] = << >>]
  /\ free' = own
  /\ UNCHANGED result

FaultyNoReturn(r, ops, own) ==       \* answers, goes on and submits the callback
  /\ free < CostOf(ops)
  /\ Answer(r, "err")
  /\ chain' = [chain EXCEPT ![r] = <<Last(ops)>>]
  /\ free' = free + own - 1
  /\ UNCHANGED result

NoMemory(r, ops, own) == free < CostOf(ops) /\ Finish(r, "err", own)

(* A channel, a buffer or a timestamp may be refused before anything is    *)
(* acquired.                                                               *)
ina219_submit(r) ==
  /\ request[r] = "new"
  /\ LET ops == <<"read_conf", "trigger_measurement_cb">>
     IN \/ SubmitChain(r, ops, 0) /\ request' = [request EXCEPT ![r] = "flight"]
        \/ NoMemory(r, ops, 0)
        \/ Finish(r, "err", 0)
  /\ UNCHANGED <<ready, sensor, fresh, starved, fatal>>
-----------------------------------------------------------------------------
Runs(r, op) == chain[r] # << >> /\ Head(chain[r]) = op
Failed(r)   == result[r] = "err" /\ Finish(r, "err", 1)

(* With two entries left the write is built and the delay is not.  The     *)
(* handler drops the write, answers, and does not return: it fills in the  *)
(* entry it did not get, through a null pointer.  Where that traps, the    *)
(* fatal error handler runs.  Where address zero is memory, it gets the    *)
(* entries it dropped for the status read, none for the callback, and      *)
(* answers once more.                                                      *)
Starved(r) ==
  /\ free = Cost("write_conf")
  /\ starved' = starved \cup {r}
  /\ request' = [request EXCEPT ![r] = "err"]
  /\ chain' = [chain EXCEPT ![r] = << >>] /\ free' = free + 1
  /\ \/ fatal' = TRUE /\ answers' = [answers EXCEPT ![r] = @ + 1]
     \/ UNCHANGED fatal /\ answers' = [answers EXCEPT ![r] = @ + 2]
  /\ UNCHANGED result

ina219_trigger_measurement_cb(r) ==
  /\ Runs(r, "trigger_measurement_cb")
  /\ LET ops == <<"write_conf", "delay", "read_status", "check_ready_cb">>
     IN \/ Failed(r) /\ UNCHANGED <<starved, fatal>>
        \/ result[r] = "ok" /\ SubmitChain(r, ops, 1) /\ UNCHANGED <<request, starved, fatal>>
        \/ /\ result[r] = "ok" /\ free # Cost("write_conf")
           /\ NoMemory(r, ops, 1) /\ UNCHANGED <<starved, fatal>>
        \/ result[r] = "ok" /\ Starved(r)
  /\ UNCHANGED <<ready, sensor, fresh>>

(* When the read of the retry gets no entries its answer is ignored; what  *)
(* is left of the chain, the callback, runs at once until nothing can be   *)
(* acquired and -ENOMEM is the answer: the same outcome in one step.       *)
Retry == <<"delay", "read_status", "check_ready_cb">>
Registers ==
  LET Asked(c) == IF c \in Channels THEN <<c>> ELSE << >>
  IN Asked("voltage") \o Asked("current") \o Asked("power")

FaultyNotPolled(r) ==                \* a status that is not ready ends it
  /\ Runs(r, "check_ready_cb")
  /\ \/ Failed(r)
     \/ result[r] = "ok" /\ ready[r] /\ SubmitChain(r, Append(Registers, "readings_cb"), 1)
          /\ UNCHANGED request
     \/ result[r] = "ok" /\ ~ready[r] /\ SubmitChain(r, << >>, 1) /\ UNCHANGED request
     \/ result[r] = "ok" /\ ready[r] /\ NoMemory(r, Append(Registers, "readings_cb"), 1)
  /\ UNCHANGED <<ready, sensor, fresh, starved, fatal>>

FaultyNotChecked(r) ==               \* reads without looking at the status
  /\ Runs(r, "check_ready_cb")
  /\ LET ops == Append(Registers, "readings_cb")
     IN \/ Failed(r)
        \/ result[r] = "ok" /\ SubmitChain(r, ops, 1) /\ UNCHANGED request
        \/ result[r] = "ok" /\ NoMemory(r, ops, 1)
  /\ UNCHANGED <<ready, sensor, fresh, starved, fatal>>

ina219_check_ready_cb(r) ==
  /\ Runs(r, "check_ready_cb")
  /\ LET ops == IF ready[r] THEN Append(Registers, "readings_cb") ELSE Retry
     IN \/ Failed(r)
        \/ result[r] = "ok" /\ ops # <<"readings_cb">> /\ SubmitChain(r, ops, 1) /\ UNCHANGED request
        \/ result[r] = "ok" /\ ops # <<"readings_cb">> /\ NoMemory(r, ops, 1)
        \/ result[r] = "ok" /\ ops = <<"readings_cb">> /\ Finish(r, "err", 1)   \* -ENODATA
  /\ UNCHANGED <<ready, sensor, fresh, starved, fatal>>

ina219_readings_cb(r) ==
  /\ Runs(r, "readings_cb")
  /\ Finish(r, result[r], 1)
  /\ UNCHANGED <<ready, sensor, fresh, starved, fatal>>

Callback(r) == ina219_trigger_measurement_cb(r) \/ ina219_check_ready_cb(r) \/ ina219_readings_cb(r)
-----------------------------------------------------------------------------
(* RTIO and the bus.  What follows a failed transfer is cancelled, except  *)
(* the callback.                                                           *)
OpDone(r) ==
  /\ free' = free + Cost(Head(chain[r]))
  /\ chain' = [chain EXCEPT ![r] = Tail(@)]
  /\ UNCHANGED <<request, result, answers, starved, fatal>>

ReadConf(r) == Runs(r, "read_conf") /\ OpDone(r) /\ UNCHANGED <<ready, sensor, fresh>>
Delay(r)    == Runs(r, "delay") /\ OpDone(r) /\ UNCHANGED <<ready, sensor, fresh>>

(* Writing the configuration starts a conversion over and clears the ready *)
(* bit.  (The two bytes go out the low one first, so what the sensor takes *)
(* is a reset rather than the mode; that starts one over as well.)         *)
WriteConf(r) ==
  /\ Runs(r, "write_conf") /\ OpDone(r)
  /\ running' = running \cup {r} /\ cnvr' = FALSE
  /\ UNCHANGED <<register, ready, fresh>>

ReadStatus(r) ==
  /\ Runs(r, "read_status") /\ OpDone(r)
  /\ ready' = [ready EXCEPT ![r] = cnvr]
  /\ UNCHANGED <<sensor, fresh>>

ReadRegister(r) ==
  /\ \E c \in Channels : Runs(r, c)
  /\ OpDone(r)
  /\ fresh' = IF Head(chain[r]) = "voltage" /\ r \in register THEN fresh \cup {r} ELSE fresh
  /\ UNCHANGED <<ready, sensor>>

TransferFails(r) ==
  /\ chain[r] # << >> /\ Cost(Head(chain[r])) = 2
  /\ result' = [result EXCEPT ![r] = "err"]
  /\ chain' = [chain EXCEPT ![r] = <<Last(@)>>]
  /\ free' = free + CostOf(chain[r]) - CostOf(<<Last(chain[r])>>)
  /\ UNCHANGED <<request, ready, sensor, fresh, answers, starved, fatal>>

Transfer(r) == ReadConf(r) \/ Delay(r) \/ WriteConf(r) \/ ReadStatus(r) \/ ReadRegister(r) \/ TransferFails(r)

ConversionDone ==
  /\ running # {}
  /\ register' = register \cup running /\ running' = {} /\ cnvr' = TRUE
  /\ UNCHANGED <<driver, fresh, starved, fatal>>

(* sensor_processing_thread decodes and prints an answer. *)
on_sensor_data(r) ==
  /\ request[r] \in {"ok", "err"}
  /\ request' = [request EXCEPT ![r] = "done"]
  /\ UNCHANGED <<chain, result, free, ready, answers, sensor, fresh, starved, fatal>>

k_sys_fatal_error_handler == fatal /\ UNCHANGED vars

Step == \/ \E r \in Requests : ina219_submit(r) \/ Callback(r) \/ Transfer(r) \/ on_sensor_data(r)
        \/ ConversionDone
AllDone == (\A r \in Requests : request[r] = "done") /\ UNCHANGED vars
Next == (~fatal /\ Step) \/ k_sys_fatal_error_handler \/ AllDone

Spec == Init /\ [][Next]_vars
(* Callbacks run when their chain is through, transfers and conversions    *)
(* end, and the processing thread outranks nothing that spins.             *)
FairSpec ==
  /\ Spec
  /\ \A r \in Requests : /\ WF_vars(~fatal /\ (Callback(r) \/ Transfer(r)))
                         /\ WF_vars(~fatal /\ on_sensor_data(r))
  /\ WF_vars(~fatal /\ ConversionDone)
-----------------------------------------------------------------------------
InFlight(r) == request[r] = "flight"

(* Every variable keeps to its type. *)
TypeOK ==
  /\ request \in [Requests -> {"new", "flight", "ok", "err", "done"}]
  /\ result \in [Requests -> {"ok", "err"}] /\ ready \in [Requests -> BOOLEAN]
  /\ free \in 0..SQES /\ cnvr \in BOOLEAN /\ fatal \in BOOLEAN
  /\ running \cup register \cup fresh \cup starved \subseteq Requests
  /\ answers \in [Requests -> Nat]

(* Each entry of the pool is free or in the chain of one read: no path     *)
(* through an exhausted pool, a failed transfer or a retry loses one or    *)
(* gives one back twice, so the driver recovers when the reads end.        *)
Held == UNION {{r} \X Entries(chain[r]) : r \in Requests}
PoolAccounted == free + Cardinality(Held) = SQES

(* Every read is answered at most once, but for the missing return of the  *)
(* trigger handler, and is answered exactly when nothing of its chain is   *)
(* left to run and write into its buffer.                                  *)
AnsweredOnce ==
  \A r \in Requests :
    /\ (chain[r] # << >>) = InFlight(r)
    /\ r \notin starved => answers[r] = IF request[r] \in {"new", "flight"} THEN 0 ELSE 1

(* The comment on RTIO_DEFINE in ms5611.c says what a read gets when the   *)
(* entries do not suffice: "Otherwise the device would return -ENOMEM".    *)
(* The trigger handler answers twice, or does worse.                       *)
AnsweredAtMostOnce == \A r \in Requests : answers[r] <= 1 /\ ~fatal

(* A voltage that is handed over comes from a conversion started by this   *)
(* read or after it, although other reads restart the conversion and share *)
(* the ready bit.                                                          *)
OkIsFresh == \A r \in Requests : request[r] = "ok" => r \in fresh

(* Every read is answered in the end, whatever fails and however reads     *)
(* overlap, when the sensor converts.                                      *)
AllAnswered == \A r \in Requests : InFlight(r) ~> (request[r] = "done" \/ fatal)
=============================================================================
