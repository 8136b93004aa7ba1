------------------------------- MODULE Ms5611 -------------------------------
(***************************************************************************)
(* The barometer of the flight computer, drivers/sensor/ms5611/ms5611.c:   *)
(* an asynchronous read is one chain that converts and reads the pressure  *)
(* (D1), then the temperature (D2), ends with a callback, and is decoded   *)
(* by the application's thread into the compensated values; a fetch does   *)
(* the same blocking.  One read or fetch is followed here; while a read is *)
(* in flight others may come and go, which share the pool of entries, the  *)
(* sensor and the one completion the driver's RTIO context keeps.          *)
(***************************************************************************)
EXTENDS Word64, SequencesExt

CONSTANTS
  coeffs,       \* the six coefficients of the sensor's PROM
  D1s, D2s,     \* raw values the converter may deliver
  PoolSize,     \* entries of the RTIO context
  Free,         \* bound: how many of them a submit may find free
  Left          \* bound: what other reads may leave in the converter

uint16_t == 0..(2^16 - 1)

ASSUME Ms5611Assumption ==
  /\ coeffs \in [1..6 -> uint16_t]
  /\ D1s \cup D2s \subseteq 0..(2^24 - 1) /\ Left \subseteq {0} \cup D1s \cup D2s
ASSUME FreeAssumption == PoolSize \in Nat /\ Free \subseteq 0..PoolSize

VARIABLES
  loaded,        \* how many coefficients ms5611_init has read
  free, alone,   \* entries free at the submit; no other read has been seen since
  chain,         \* the operations of the read or fetch still to run
  result,        \* the first error of the chain: "ok" or "err"
  request,       \* "boot", "idle", "flight", "ok", "err", or "fetch" for a blocking one
  cqe,           \* the completion nobody has consumed: "none", "ok" or "err"
  adc,           \* the sensor: the converted value not read yet; 0 for none
  rx_d1, rx_d2,  \* the buffer of the read; 0 until the transfer has filled it
  temp, press    \* what was handed to the caller, as the bytes of an int32_t

pool == <<free, alone>>
buffer == <<rx_d1, rx_d2>>
output == <<temp, press>>
vars == <<loaded, pool, chain, result, request, cqe, adc, buffer, output>>

Zero == Int32(OfNat(0))
NoOutput == temp' = Zero /\ press' = Zero
Init ==
  /\ loaded = 0 /\ free = PoolSize /\ alone = TRUE
  /\ chain = << >> /\ result = "ok" /\ request = "boot" /\ cqe = "none"
  /\ adc = 0 /\ rx_d1 = 0 /\ rx_d2 = 0
  /\ temp = Zero /\ press = Zero
-----------------------------------------------------------------------------
(* The compensation, with the shift its integers use.  What was not read   *)
(* from the PROM is 0.                                                     *)
Coeff(i) == OfNat(IF i <= loaded THEN coeffs[i] ELSE 0)
dt(d2) == Minus(OfNat(d2), Shl(Coeff(5), 8))

Temperature(d2, Shift(_, _)) == Plus(OfNat(2000), Shift(Times(dt(d2), Coeff(6)), 23))

Pressure(d1, d2, Shift(_, _)) ==
  LET off  == Plus(Shl(Coeff(2), 16), Shift(Times(Coeff(4), dt(d2)), 7))
      sens == Plus(Shl(Coeff(1), 15), Shift(Times(Coeff(3), dt(d2)), 8))
  IN Shift(Minus(Shift(Times(OfNat(d1), sens), 21), off), 15)

(* The operators named Faulty... are what a plausible mistake would make   *)
(* of the operator after them; nothing refers to them.                     *)
FaultyNoCast(d1, d2) ==              \* 64 bits handed over
  [temp |-> Temperature(d2, Shr), press |-> Pressure(d1, d2, Shr)]
FaultySwapped(d1, d2) ==             \* the channels taken for one another
  [temp |-> Int32(Temperature(d1, Shr)), press |-> Int32(Pressure(d2, d1, Shr))]

(* All of it is uint64_t.                                                  *)
ms5611_compensate_raw(d1, d2) ==
  [temp |-> Int32(Temperature(d2, Shr)), press |-> Int32(Pressure(d1, d2, Shr))]
-----------------------------------------------------------------------------
(* The device stays as it is when the reset or a read of the PROM fails,   *)
(* and reads are accepted all the same.                                    *)
ms5611_init ==
  /\ request = "boot"
  /\ \/ loaded < 6 /\ loaded' = loaded + 1 /\ UNCHANGED request
     \/ request' = "idle" /\ UNCHANGED loaded
  /\ UNCHANGED <<pool, chain, result, cqe, adc, buffer, output>>

Chain == <<"convert_d1", "delay", "read_d1", "convert_d2", "delay", "read_d2", "complete">>
Fetch == Front(Chain)

Entries(op) == IF op \in {"read_d1", "read_d2"} THEN 2 ELSE 1

FaultyAcquire(built, op) ==          \* a delay without an entry is not refused
  IF built.refused THEN built
  ELSE IF built.free >= Entries(op)
  THEN [free |-> built.free - Entries(op), taken |-> built.taken + Entries(op),
        chain |-> Append(built.chain, op), refused |-> FALSE]
  ELSE [free |-> built.free + built.taken, taken |-> 0, chain |-> << >>,
        refused |-> op \in {"read_d1", "read_d2", "complete"}]

(* Without an entry all that was built is dropped.  The request is refused *)
(* then, unless it was for a conversion: what those two calls return is    *)
(* not looked at.  (The flag set next goes through a pointer to an entry   *)
(* given back or, at the first, to nowhere: the program may stop there.)   *)
Acquire(built, op) ==
  IF built.refused THEN built
  ELSE IF built.free >= Entries(op)
  THEN [free |-> built.free - Entries(op), taken |-> built.taken + Entries(op),
        chain |-> Append(built.chain, op), refused |-> FALSE]
  ELSE [free |-> built.free + built.taken, taken |-> 0, chain |-> << >>,
        refused |-> op \notin {"convert_d1", "convert_d2"}]

Built(n) ==
  LET built[i \in 0..Len(Chain)] ==
        IF i = 0 THEN [free |-> n, taken |-> 0, chain |-> << >>, refused |-> FALSE]
                 ELSE Acquire(built[i - 1], Chain[i])
  IN built[Len(Chain)]

(* RTIO_DEFINE gives the context enough entries for one read.              *)
ASSUME PoolAssumption == Built(PoolSize).chain = Chain

(* A request may also be refused before the chain is built: a channel, a   *)
(* buffer or the timestamp.  Fewer free entries than all mean other reads. *)
ms5611_submit ==
  /\ request = "idle"
  /\ free' \in Free /\ alone' = (free' = PoolSize)
  /\ \/ ~Built(free').refused /\ request' = "flight" /\ chain' = Built(free').chain /\ result' = "ok"
     \/ request' = "err" /\ UNCHANGED <<chain, result>>
  /\ rx_d1' = 0 /\ rx_d2' = 0 /\ NoOutput
  /\ UNCHANGED <<loaded, cqe, adc>>

ms5611_sample_fetch ==
  /\ request = "idle" /\ request' = "fetch" /\ chain' = Fetch
  /\ free' = PoolSize /\ alone' = TRUE
  /\ rx_d1' = 0 /\ rx_d2' = 0 /\ NoOutput
  /\ UNCHANGED <<loaded, result, cqe, adc>>
-----------------------------------------------------------------------------
(* The context keeps one completion and drops what comes while it is full; *)
(* nobody consumes those of a chain.                                       *)
Posted(outcome) == IF cqe = "none" THEN outcome ELSE cqe

(* rtio_submit and consume_cqe of a fetch: the result of the call is that  *)
(* of the completion that is there.                                        *)
Returns(outcome) ==
  /\ cqe' = "none"
  /\ IF Posted(outcome) = "ok" THEN chain' = Tail(chain) /\ UNCHANGED request
                               ELSE chain' = << >> /\ request' = "idle"

Runs(op) ==
  /\ chain # << >> /\ Head(chain) = op
  /\ IF request = "fetch" THEN Returns("ok")
     ELSE chain' = Tail(chain) /\ cqe' = Posted("ok") /\ UNCHANGED request
  /\ UNCHANGED <<loaded, pool, result, output>>

ConvertD1 == Runs("convert_d1") /\ adc' \in D1s /\ UNCHANGED buffer
ConvertD2 == Runs("convert_d2") /\ adc' \in D2s /\ UNCHANGED buffer
ReadD1    == Runs("read_d1") /\ rx_d1' = adc /\ adc' = 0 /\ UNCHANGED rx_d2
ReadD2    == Runs("read_d2") /\ rx_d2' = adc /\ adc' = 0 /\ UNCHANGED rx_d1

(* An operation of the chain, or the k_sleep of a fetch.                   *)
Delay ==
  /\ chain # << >> /\ Head(chain) = "delay" /\ chain' = Tail(chain)
  /\ cqe' = IF request = "fetch" THEN cqe ELSE Posted("ok")
  /\ UNCHANGED <<loaded, pool, result, request, adc, buffer, output>>

(* What follows a failed transfer is cancelled, except the callback; a     *)
(* fetch returns.                                                          *)
TransferFails ==
  /\ chain # << >> /\ Head(chain) \notin {"delay", "complete"}
  /\ \/ request = "fetch" /\ Returns("err") /\ UNCHANGED result
     \/ /\ request = "flight" /\ cqe' = Posted("err")
        /\ chain' = <<"complete">> /\ result' = "err" /\ UNCHANGED request
  /\ UNCHANGED <<loaded, pool, adc, buffer, output>>

(* Others use the sensor between two steps of the read.                    *)
OtherReads ==
  /\ request = "flight" /\ alone' = FALSE /\ adc' \in Left
  /\ UNCHANGED <<loaded, free, chain, result, request, cqe, buffer, output>>

FaultyCompleteOk ==                  \* whatever the transfers returned
  /\ request = "flight" /\ chain = <<"complete">> /\ chain' = << >> /\ request' = "ok"
  /\ UNCHANGED <<loaded, pool, result, cqe, adc, buffer, output>>

ms5611_complete_result ==
  /\ request = "flight" /\ chain = <<"complete">> /\ chain' = << >> /\ request' = result
  /\ UNCHANGED <<loaded, pool, result, cqe, adc, buffer, output>>

HandsOver ==
  LET sample == ms5611_compensate_raw(rx_d1, rx_d2)
  IN temp' = sample.temp /\ press' = sample.press

(* The processing thread: a failed read is only reported.                  *)
ms5611_decoder_decode ==
  /\ request \in {"ok", "err"} /\ request' = "idle"
  /\ IF request = "ok" THEN HandsOver ELSE UNCHANGED output
  /\ UNCHANGED <<loaded, pool, chain, result, cqe, adc, buffer>>

FetchReturns ==
  /\ request = "fetch" /\ chain = << >> /\ request' = "idle" /\ HandsOver
  /\ UNCHANGED <<loaded, pool, chain, result, cqe, adc, buffer>>

Next ==
  \/ ms5611_init \/ ms5611_submit \/ ms5611_complete_result \/ ms5611_decoder_decode
  \/ ms5611_sample_fetch \/ FetchReturns
  \/ ConvertD1 \/ ConvertD2 \/ Delay \/ ReadD1 \/ ReadD2 \/ TransferFails \/ OtherReads

Spec == Init /\ [][Next]_vars
-----------------------------------------------------------------------------
(* Every variable keeps to its type. *)
TypeOK ==
  /\ loaded \in 0..6 /\ free \in Free \cup {PoolSize} /\ alone \in BOOLEAN
  /\ request \in {"boot", "idle", "flight", "ok", "err", "fetch"}
  /\ result \in {"ok", "err"} /\ cqe \in {"none", "ok", "err"}
  /\ {rx_d1, rx_d2, adc} \subseteq {0} \cup D1s \cup D2s
  /\ {temp, press} \subseteq [1..4 -> Byte]

(* Below 20 degrees dt is negative, which the unsigned arithmetic takes    *)
(* for a huge number.                                                      *)
Cold(d2) == Negative(dt(d2))
Decoded  == request' = "idle" /\ (request = "ok" \/ (request = "fetch" /\ chain = << >>))

(* A read that is answered ok and met no other has filled both raw values, *)
(* each with the conversion it is meant for, so a mix of channels is never *)
(* decoded.                                                                *)
BothConverted == request = "ok" /\ alone => rx_d1 \in D1s /\ rx_d2 \in D2s

(* The pool holds more entries than one read needs and fewer than two.  A  *)
(* read that finds it short is refused as a whole (ms5611.c:422), except   *)
(* with exactly four free: the chain is dropped where it asks for the      *)
(* second conversion, and what is built after that is submitted without it.*)
WholeOrRefused ==
  [][request = "idle" /\ request' = "flight" => chain' = Chain \/ free' = 4]_vars

(* The temperature is that of signed arithmetic at every temperature: the  *)
(* wrong bits the logical shift brings in are cut off by the cast.         *)
TemperatureRight ==
  [][Decoded => temp' = Int32(Temperature(rx_d2, Sar))]_vars

(* The pressure is that of signed arithmetic from 20 degrees up.           *)
PressureRightWhenWarm ==
  [][Decoded /\ ~Cold(rx_d2) => press' = Int32(Pressure(rx_d1, rx_d2, Sar))]_vars

(* README.md of the driver: "Pressure range: 10-1200 mbar (1000-120000     *)
(* Pa)".  The upper end, by the three highest bytes of the result, of a    *)
(* read that met no other, with all its coefficients.                      *)
PressureInRange ==
  [][Decoded /\ request = "ok" /\ alone /\ loaded = 6
     => press'[4] = 0 /\ press'[3] * 256 + press'[2] <= 120000 \div 256]_vars

(* Violated: nothing is decoded with coefficients that were never read. *)
CalibratedReads == [][Decoded => loaded = 6]_vars

(* Violated: a fetch after a read takes the completion the read has left   *)
(* for its own, and does not see that its first command failed.            *)
FetchedBoth == request = "fetch" /\ chain = << >> => rx_d1 \in D1s /\ rx_d2 \in D2s

(* Violated: two reads that overlap mix their conversions. *)
OverlapHarmless == request = "ok" => rx_d1 \in D1s /\ rx_d2 \in D2s
=============================================================================
