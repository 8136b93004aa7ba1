---------------------------- MODULE Ms5611Proofs ----------------------------
(***************************************************************************)
(* For any coefficients, raw values and pool that one read fits in: a read *)
(* that met no other is decoded from both of its conversions or not at     *)
(* all, a read is submitted whole or refused, and the unsigned arithmetic  *)
(* of the compensation gives what signed arithmetic would, the temperature *)
(* always, the pressure from 20 degrees up.                                *)
(***************************************************************************)
EXTENDS Ms5611, TLAPS

(* What is left of the chain after each of its operations. *)
Left1 == <<"delay", "read_d1", "convert_d2", "delay", "read_d2", "complete">>
Left2 == <<"read_d1", "convert_d2", "delay", "read_d2", "complete">>
Left3 == <<"convert_d2", "delay", "read_d2", "complete">>
Left4 == <<"delay", "read_d2", "complete">>
Left5 == <<"read_d2", "complete">>
Left6 == <<"complete">>

HasD1 == rx_d1 \in D1s
HasBoth == rx_d1 \in D1s /\ rx_d2 \in D2s

(* How far the read has come, and what it has got by then. *)
Progress ==
  \/ chain = Chain /\ result = "ok"
  \/ chain \in {Left1, Left2} /\ result = "ok" /\ adc \in D1s
  \/ chain = Left3 /\ result = "ok" /\ HasD1
  \/ chain \in {Left4, Left5} /\ result = "ok" /\ HasD1 /\ adc \in D2s
  \/ chain = Left6 /\ result = "ok" /\ HasBoth
  \/ chain = Left6 /\ result = "err"

ReadInv ==
  /\ request \notin {"flight", "fetch"} => chain = << >>
  /\ alone /\ request = "flight" => Progress
  /\ alone /\ request = "ok" => HasBoth

(* An operation leaves a read in flight, and a fetch a fetch or idle.      *)
LEMMA RunsStep ==
  ASSUME NEW op, Runs(op), ReadInv
  PROVE  /\ request \in {"flight", "fetch"} /\ Head(chain) = op /\ UNCHANGED <<result, alone>>
         /\ request = "flight" => request' = "flight" /\ chain' = Tail(chain)
         /\ request = "fetch" => request' = "fetch" \/ (request' = "idle" /\ chain' = << >>)
  BY DEF Runs, Returns, ReadInv, pool

(* The operation at the head of each chain, and what follows it.           *)
LEMMA Tails ==
  /\ Head(Chain) = "convert_d1" /\ Tail(Chain) = Left1
  /\ Head(Left1) = "delay" /\ Tail(Left1) = Left2
  /\ Head(Left2) = "read_d1" /\ Tail(Left2) = Left3
  /\ Head(Left3) = "convert_d2" /\ Tail(Left3) = Left4
  /\ Head(Left4) = "delay" /\ Tail(Left4) = Left5
  /\ Head(Left5) = "read_d2" /\ Tail(Left5) = Left6
  /\ Head(Left6) = "complete"
  <1>1. Head(Chain) = "convert_d1" /\ Tail(Chain) = Left1
    BY DEF Chain, Left1
  <1>2. Head(Left1) = "delay" /\ Tail(Left1) = Left2
    BY DEF Left1, Left2
  <1>3. Head(Left2) = "read_d1" /\ Tail(Left2) = Left3
    BY DEF Left2, Left3
  <1>4. Head(Left3) = "convert_d2" /\ Tail(Left3) = Left4
    BY DEF Left3, Left4
  <1>5. Head(Left4) = "delay" /\ Tail(Left4) = Left5
    BY DEF Left4, Left5
  <1>6. Head(Left5) = "read_d2" /\ Tail(Left5) = Left6
    BY DEF Left5, Left6
  <1>7. Head(Left6) = "complete"
    BY DEF Left6
  <1> QED
    BY <1>1, <1>2, <1>3, <1>4, <1>5, <1>6, <1>7

(* The operation that a read that met no other is at.                      *)
LEMMA ReadAt ==
  ASSUME ReadInv, alone, request = "flight", chain # << >>
  PROVE  LET op == Head(chain) IN
         /\ op = "convert_d1" => chain = Chain /\ result = "ok" /\ Tail(chain) = Left1
         /\ op = "delay" => \/ chain = Left1 /\ result = "ok" /\ adc \in D1s /\ Tail(chain) = Left2
                            \/ chain = Left4 /\ result = "ok" /\ HasD1 /\ adc \in D2s /\ Tail(chain) = Left5
         /\ op = "read_d1" => chain = Left2 /\ result = "ok" /\ adc \in D1s /\ Tail(chain) = Left3
         /\ op = "convert_d2" => chain = Left3 /\ result = "ok" /\ HasD1 /\ Tail(chain) = Left4
         /\ op = "read_d2" => chain = Left5 /\ result = "ok" /\ HasD1 /\ adc \in D2s /\ Tail(chain) = Left6
         /\ op = "complete" /\ result = "ok" => HasBoth
  BY Tails DEF ReadInv, Progress

LEMMA ConvertD1Step == ASSUME ReadInv, ConvertD1 PROVE ReadInv'
  <1>1. Runs("convert_d1") /\ chain # << >> /\ adc' \in D1s
    BY DEF ConvertD1, Runs
  <1> QED
    BY <1>1, RunsStep, ReadAt DEF ReadInv, Progress

LEMMA ConvertD2Step == ASSUME ReadInv, ConvertD2 PROVE ReadInv'
  <1>1. Runs("convert_d2") /\ chain # << >> /\ adc' \in D2s /\ (HasD1 => HasD1')
    BY DEF ConvertD2, Runs, buffer, HasD1
  <1> QED
    BY <1>1, RunsStep, ReadAt DEF ReadInv, Progress

LEMMA ReadD1Step == ASSUME ReadInv, ReadD1 PROVE ReadInv'
  <1>1. Runs("read_d1") /\ chain # << >> /\ rx_d1' = adc
    BY DEF ReadD1, Runs
  <1> QED
    BY <1>1, RunsStep, ReadAt DEF ReadInv, Progress, HasD1

LEMMA ReadD2Step == ASSUME ReadInv, ReadD2 PROVE ReadInv'
  <1>1. Runs("read_d2") /\ chain # << >> /\ rx_d2' = adc /\ rx_d1' = rx_d1
    BY DEF ReadD2, Runs
  <1> QED
    BY <1>1, RunsStep, ReadAt DEF ReadInv, Progress, HasD1, HasBoth

LEMMA DelayStep == ASSUME ReadInv, Delay PROVE ReadInv'
  <1>1. /\ chain # << >> /\ Head(chain) = "delay" /\ chain' = Tail(chain)
        /\ UNCHANGED <<request, result, alone, adc, rx_d1, rx_d2>>
    BY DEF Delay, pool, buffer
  <1>2. request \in {"flight", "fetch"}
    BY <1>1 DEF ReadInv
  <1> QED
    BY <1>1, <1>2, ReadAt DEF ReadInv, Progress, HasD1

LEMMA FailsStep == ASSUME ReadInv, TransferFails PROVE ReadInv'
  BY DEF TransferFails, Returns, ReadInv, Progress, Left6, pool, buffer

(* A read that takes the last entries has others beside it; one that finds *)
(* the whole pool has the whole chain.                                     *)
LEMMA SubmitStep == ASSUME ReadInv, ms5611_submit PROVE ReadInv'
  <1>1. request = "idle" /\ chain = << >> /\ alone' = (free' = PoolSize)
    BY DEF ms5611_submit, ReadInv
  <1>2. CASE request' = "flight" /\ chain' = Built(free').chain /\ result' = "ok"
    <2>1. alone' => chain' = Chain
      BY <1>1, <1>2, PoolAssumption
    <2> QED
      BY <1>2, <2>1 DEF ReadInv, Progress
  <1>3. CASE request' = "err" /\ UNCHANGED <<chain, result>>
    BY <1>1, <1>3 DEF ReadInv
  <1> QED
    BY <1>2, <1>3 DEF ms5611_submit

LEMMA CompleteStep == ASSUME ReadInv, ms5611_complete_result PROVE ReadInv'
  <1>1. /\ request = "flight" /\ chain = Left6 /\ chain' = << >> /\ request' = result
        /\ UNCHANGED <<alone, rx_d1, rx_d2>>
    BY DEF ms5611_complete_result, Left6, pool, buffer
  <1>2. alone => (result = "ok" => HasBoth) /\ result \in {"ok", "err"}
    BY <1>1 DEF ReadInv, Progress, Chain, Left1, Left2, Left3, Left4, Left5, Left6
  <1> QED
    BY <1>1, <1>2 DEF ReadInv, HasBoth

LEMMA ReadNext == ASSUME ReadInv, [Next]_vars PROVE ReadInv'
  <1>1. CASE ms5611_submit
    BY <1>1, SubmitStep
  <1>2. CASE ms5611_complete_result
    BY <1>2, CompleteStep
  <1>3. CASE ConvertD1 \/ ConvertD2 \/ ReadD1 \/ ReadD2
    BY <1>3, ConvertD1Step, ConvertD2Step, ReadD1Step, ReadD2Step
  <1>4. CASE Delay \/ TransferFails
    BY <1>4, DelayStep, FailsStep
  <1>5. CASE ms5611_init \/ ms5611_decoder_decode \/ FetchReturns
    BY <1>5 DEF ms5611_init, ms5611_decoder_decode, FetchReturns, ReadInv, pool
  <1>6. CASE ms5611_sample_fetch
    BY <1>6 DEF ms5611_sample_fetch, ReadInv
  <1>7. CASE OtherReads
    BY <1>7 DEF OtherReads, ReadInv
  <1>8. CASE UNCHANGED vars
    BY <1>8 DEF vars, pool, buffer, ReadInv, Progress, HasD1, HasBoth
  <1> QED
    BY <1>1, <1>2, <1>3, <1>4, <1>5, <1>6, <1>7, <1>8 DEF Next

(* A read of ms5611_submit that is answered ok and met no other has filled *)
(* both raw values from the conversions they are meant for, whatever       *)
(* transfers fail, for any coefficients, raw values and pool.              *)
THEOREM BothConvertedTheorem == Spec => []BothConverted
  <1>1. Init => ReadInv
    BY DEF Init, ReadInv
  <1>2. ReadInv => BothConverted
    BY DEF ReadInv, HasBoth, BothConverted
  <1> QED
    BY <1>1, <1>2, ReadNext, PTL DEF Spec
-----------------------------------------------------------------------------
(* A chain of which so much has been built, out of n free entries. *)
Stage(n, taken, ops) == [free |-> n - taken, taken |-> taken, chain |-> ops, refused |-> FALSE]

LEMMA StageIs ==
  ASSUME NEW n \in Nat, NEW t \in Nat, NEW ops
  PROVE  LET s == Stage(n, t, ops)
         IN s.free = n - t /\ s.taken = t /\ s.chain = ops /\ s.refused = FALSE
  BY Zenon DEF Stage

LEMMA Takes ==
  ASSUME NEW n \in Nat, NEW t \in Nat, NEW ops, NEW op, t + Entries(op) <= n
  PROVE  Acquire(Stage(n, t, ops), op) = Stage(n, t + Entries(op), Append(ops, op))
  <1>1. n - t >= Entries(op) /\ (n - t) - Entries(op) = n - (t + Entries(op))
    BY DEF Entries
  <1> QED
    BY <1>1, StageIs, Zenon DEF Acquire, Stage

LEMMA Refuses ==
  ASSUME NEW n \in Nat, NEW t \in Nat, NEW ops, NEW op, t <= n, n < t + Entries(op),
         op \notin {"convert_d1", "convert_d2"}
  PROVE  Acquire(Stage(n, t, ops), op).refused
  <1>1. ~(n - t >= Entries(op))
    BY DEF Entries
  <1> DEFINE built == Stage(n, t, ops)
  <1>2. ~built.refused /\ ~(built.free >= Entries(op))
    <2>1. built.free = n - t
      BY Zenon DEF Stage
    <2>2. built.refused = FALSE
      BY Zenon DEF Stage
    <2> HIDE DEF built
    <2> QED
      BY <1>1, <2>1, <2>2, Zenon
  <1> HIDE DEF built
  <1>3. Acquire(built, op) = [free |-> built.free + built.taken, taken |-> 0, chain |-> << >>,
                              refused |-> op \notin {"convert_d1", "convert_d2"}]
    BY <1>2, Zenon DEF Acquire
  <1>4. Acquire(built, op).refused = (op \notin {"convert_d1", "convert_d2"})
    BY <1>3, SMT
  <1> QED
    BY <1>4 DEF built

(* A conversion that gets no entry leaves a chain of nothing. *)
LEMMA Forgets ==
  ASSUME NEW n \in Nat, NEW ops, NEW op \in {"convert_d1", "convert_d2"}
  PROVE  Acquire(Stage(n, n, ops), op) = Stage(n, 0, << >>)
  <1>1. ~(n - n >= Entries(op)) /\ (n - n) + n = n - 0
    BY DEF Entries
  <1>2. (op \notin {"convert_d1", "convert_d2"}) = FALSE
    OBVIOUS
  <1> QED
    BY <1>1, <1>2, StageIs, Zenon DEF Acquire, Stage

LEMMA StaysRefused ==
  ASSUME NEW built, built.refused, NEW op
  PROVE  Acquire(built, op).refused
  BY Zenon DEF Acquire

(* What is built is a part of the chain. *)
Part(m, k) == [i \in 1..(k - m + 1) |-> Chain[m + i - 1]]

Calls == {"convert_d1", "convert_d2", "delay", "read_d1", "read_d2", "complete"}

LEMMA ChainIs ==
  /\ Chain \in Seq(Calls) /\ Len(Chain) = 7
  /\ Chain[1] = "convert_d1" /\ Chain[2] = "delay" /\ Chain[3] = "read_d1"
  /\ Chain[4] = "convert_d2" /\ Chain[5] = "delay" /\ Chain[6] = "read_d2" /\ Chain[7] = "complete"
  <1>1. Chain \in Seq(Calls) /\ Len(Chain) = 7
    BY DEF Chain, Calls
  <1> QED
    BY <1>1 DEF Chain

LEMMA IsAppend ==
  ASSUME NEW S, NEW s \in Seq(S), NEW t \in Seq(S), Len(t) = Len(s) + 1,
         \A i \in 1..Len(s) : t[i] = s[i], NEW e, e = t[Len(t)]
  PROVE  Append(s, e) = t
  OBVIOUS

LEMMA PartGrows ==
  ASSUME NEW m \in 1..7, NEW k \in 0..6, m <= k + 1
  PROVE  Append(Part(m, k), Chain[k + 1]) = Part(m, k + 1)
  <1> DEFINE a == Part(m, k)
             b == Part(m, k + 1)
  <1>1. \A i \in 1..7 : Chain[i] \in Calls
    BY ChainIs DEF Calls
  <1>2. /\ \A i \in 1..(k - m + 1) : m + i - 1 \in 1..7
        /\ \A i \in 1..(k - m + 2) : m + i - 1 \in 1..7
        /\ k - m + 1 \in Nat /\ k - m + 2 \in Nat /\ k + 1 - m + 1 = k - m + 2
    OBVIOUS
  <1>3. a \in Seq(Calls) /\ Len(a) = k - m + 1 /\ \A i \in 1..(k - m + 1) : a[i] = Chain[m + i - 1]
    BY <1>1, <1>2 DEF Part
  <1>4. b \in Seq(Calls) /\ Len(b) = k - m + 2 /\ \A i \in 1..(k - m + 2) : b[i] = Chain[m + i - 1]
    BY <1>1, <1>2 DEF Part
  <1> HIDE DEF a, b
  <1>5. b[k - m + 2] = Chain[k + 1]
    <2>1. k - m + 2 \in 1..(k - m + 2) /\ m + (k - m + 2) - 1 = k + 1
      OBVIOUS
    <2> QED
      BY <1>4, <2>1
  <1>6. Append(a, Chain[k + 1]) = b
    BY <1>2, <1>3, <1>4, <1>5, IsAppend
  <1> QED
    BY <1>6 DEF a, b

LEMMA PartIs == Part(1, 0) = << >> /\ Part(5, 4) = << >> /\ Part(1, 7) = Chain /\ Part(5, 7) = Left4
  <1>1. Part(1, 0) = << >> /\ Part(5, 4) = << >>
    BY ChainIs DEF Part
  <1>2. Part(1, 7) = Chain
    BY ChainIs DEF Part
  <1>3. Part(5, 7) = Left4
    <2>1. Left4 \in Seq(Calls) /\ Len(Left4) = 3
      BY DEF Left4, Calls
    <2>2. Left4[1] = "delay" /\ Left4[2] = "read_d2" /\ Left4[3] = "complete"
      BY DEF Left4
    <2>3. Part(5, 7) \in Seq(Calls) /\ Len(Part(5, 7)) = 3
      <3>1. \A i \in 1..3 : Chain[5 + i - 1] \in Calls
        BY ChainIs DEF Calls
      <3> QED
        BY <3>1 DEF Part
    <2>4. Part(5, 7)[1] = "delay" /\ Part(5, 7)[2] = "read_d2" /\ Part(5, 7)[3] = "complete"
      BY ChainIs DEF Part
    <2> QED
      BY <2>1, <2>2, <2>3, <2>4
  <1> QED
    BY <1>1, <1>2, <1>3

(* One call more, from a stage at which there are entries enough. *)
LEMMA NextPart ==
  ASSUME NEW n \in Nat, NEW t \in Nat, NEW m \in 1..7, NEW k \in 0..6, m <= k + 1,
         t + Entries(Chain[k + 1]) <= n
  PROVE  Acquire(Stage(n, t, Part(m, k)), Chain[k + 1])
           = Stage(n, t + Entries(Chain[k + 1]), Part(m, k + 1))
  <1>1. Entries(Chain[k + 1]) \in {1, 2}
    BY DEF Entries
  <1>2. Append(Part(m, k), Chain[k + 1]) = Part(m, k + 1)
    BY PartGrows
  <1>3. Acquire(Stage(n, t, Part(m, k)), Chain[k + 1])
          = Stage(n, t + Entries(Chain[k + 1]), Append(Part(m, k), Chain[k + 1]))
    BY Takes
  <1> QED
    BY <1>2, <1>3

(* The calls of ms5611_submit, one after the other. *)
LEMMA BuiltByStages ==
  ASSUME NEW n \in Nat,
         NEW s1, s1 = Acquire(Stage(n, 0, << >>), Chain[1]), NEW s2, s2 = Acquire(s1, Chain[2]),
         NEW s3, s3 = Acquire(s2, Chain[3]), NEW s4, s4 = Acquire(s3, Chain[4]),
         NEW s5, s5 = Acquire(s4, Chain[5]), NEW s6, s6 = Acquire(s5, Chain[6]),
         NEW s7, s7 = Acquire(s6, Chain[7])
  PROVE  Built(n) = s7
  <1> DEFINE s0 == Stage(n, 0, << >>)
             Once(f) == [i \in 0..7 |-> IF i = 0 THEN s0 ELSE Acquire(f[i - 1], Chain[i])]
             built == CHOOSE f : f = Once(f)
             stages == [i \in 0..7 |->
               IF i = 0 THEN s0 ELSE IF i = 1 THEN s1 ELSE IF i = 2 THEN s2 ELSE IF i = 3 THEN s3
               ELSE IF i = 4 THEN s4 ELSE IF i = 5 THEN s5 ELSE IF i = 6 THEN s6 ELSE s7]
  <1>1. s0 = [free |-> n, taken |-> 0, chain |-> << >>, refused |-> FALSE]
    <2>1. n - 0 = n
      OBVIOUS
    <2> QED
      BY <2>1, Zenon DEF Stage
  <1>2. Built(n) = built[7]
    BY <1>1, ChainIs, Zenon DEF Built
  <1> HIDE DEF s0
  <1>3. stages = Once(stages)
    <2>1. \A i \in 0..7 : i \in {0, 1, 2, 3, 4, 5, 6, 7}
      OBVIOUS
    <2>2. \A i \in 0..7 : stages[i] = IF i = 0 THEN s0 ELSE Acquire(stages[i - 1], Chain[i])
      BY <2>1 DEF s0
    <2> QED
      BY <2>2
  <1>4. built = Once(built)
    BY <1>3
  <1> HIDE DEF built
  <1>5. /\ built[0] = s0 /\ built[1] = Acquire(built[0], Chain[1]) /\ built[2] = Acquire(built[1], Chain[2])
        /\ built[3] = Acquire(built[2], Chain[3]) /\ built[4] = Acquire(built[3], Chain[4])
        /\ built[5] = Acquire(built[4], Chain[5]) /\ built[6] = Acquire(built[5], Chain[6])
        /\ built[7] = Acquire(built[6], Chain[7])
    BY <1>4
  <1> QED
    BY <1>2, <1>5 DEF s0

(* What ms5611_submit builds out of any number of free entries: the whole  *)
(* chain from nine up, nothing below, and with four the end of a chain.    *)
LEMMA BuiltIs ==
  ASSUME NEW n \in Nat
  PROVE  /\ n >= 9 => Built(n).chain = Chain /\ ~Built(n).refused
         /\ n < 9 /\ n # 4 => Built(n).refused
         /\ n = 4 => Built(n).chain = Left4 /\ ~Built(n).refused
  <1> DEFINE s0 == Stage(n, 0, << >>)
  <1>1. PICK s1, s2, s3, s4, s5, s6, s7 :
             /\ s1 = Acquire(s0, Chain[1]) /\ s2 = Acquire(s1, Chain[2]) /\ s3 = Acquire(s2, Chain[3])
             /\ s4 = Acquire(s3, Chain[4]) /\ s5 = Acquire(s4, Chain[5]) /\ s6 = Acquire(s5, Chain[6])
             /\ s7 = Acquire(s6, Chain[7])
    OBVIOUS
  <1>2. Built(n) = s7
    BY <1>1, BuiltByStages
  <1> HIDE DEF s0
  <1>3. \A built, op : built.refused => Acquire(built, op).refused
    BY StaysRefused
  <1>4. /\ s2.refused => s3.refused
        /\ s3.refused => s4.refused
        /\ s4.refused => s5.refused
        /\ s5.refused => s6.refused
        /\ s6.refused => s7.refused
    BY <1>1, <1>3, Zenon
  <1>6. s0 = Stage(n, 0, Part(1, 0))
    BY PartIs DEF s0
  <1>7. /\ Entries(Chain[1]) = 1 /\ Entries(Chain[2]) = 1 /\ Entries(Chain[3]) = 2
        /\ Entries(Chain[4]) = 1 /\ Entries(Chain[5]) = 1 /\ Entries(Chain[6]) = 2 /\ Entries(Chain[7]) = 1
    BY ChainIs DEF Entries
  <1>8. ASSUME NEW t \in Nat, NEW m \in 1..7, NEW k \in 0..6, m <= k + 1, NEW c \in {1, 2},
               c = Entries(Chain[k + 1]), t + c <= n
        PROVE  Acquire(Stage(n, t, Part(m, k)), Chain[k + 1]) = Stage(n, t + c, Part(m, k + 1))
    BY <1>8, NextPart
  <1>9. ASSUME NEW t \in Nat, NEW ops, NEW k \in 1..7, NEW c \in {1, 2}, c = Entries(Chain[k]),
               t <= n, n < t + c, k \notin {1, 4}
        PROVE  Acquire(Stage(n, t, ops), Chain[k]).refused
    <2>1. Chain[k] \notin {"convert_d1", "convert_d2"}
      BY <1>9, ChainIs
    <2> QED
      BY <1>9, <2>1, Refuses
  (* As far as the entries go. *)
  <1>11. n >= 1 => s1 = Stage(n, 1, Part(1, 1))
    BY <1>1, <1>6, <1>7, <1>8
  <1>12. n >= 2 => s2 = Stage(n, 2, Part(1, 2))
    BY <1>1, <1>7, <1>8, <1>11
  <1>13. n >= 4 => s3 = Stage(n, 4, Part(1, 3))
    BY <1>1, <1>7, <1>8, <1>12
  <1>14. n >= 5 => s4 = Stage(n, 5, Part(1, 4))
    BY <1>1, <1>7, <1>8, <1>13
  <1>15. n >= 6 => s5 = Stage(n, 6, Part(1, 5))
    BY <1>1, <1>7, <1>8, <1>14
  <1>16. n >= 8 => s6 = Stage(n, 8, Part(1, 6))
    BY <1>1, <1>7, <1>8, <1>15
  <1>17. n >= 9 => s7 = Stage(n, 9, Chain)
    BY <1>1, <1>7, <1>8, <1>16, PartIs
  (* Where they end, but for a conversion, it is refused. *)
  <1>20. n = 0 => s2.refused
    <2>1. n = 0 => s1 = s0
      BY <1>1, ChainIs, Forgets DEF s0
    <2>2. n = 0 => Acquire(Stage(n, 0, << >>), Chain[2]).refused
      BY <1>7, <1>9
    <2> QED
      BY <1>1, <2>1, <2>2 DEF s0
  <1>21. n = 1 => s2.refused
    BY <1>1, <1>7, <1>9, <1>11
  <1>22. n \in {2, 3} => s3.refused
    BY <1>1, <1>7, <1>9, <1>12
  <1>23. n = 5 => s5.refused
    BY <1>1, <1>7, <1>9, <1>14
  <1>24. n \in {6, 7} => s6.refused
    BY <1>1, <1>7, <1>9, <1>15
  <1>25. n = 8 => s7.refused
    BY <1>1, <1>7, <1>9, <1>16
  (* At the second conversion what there is is dropped, and it goes on. *)
  <1>30. n = 4 => s7 = Stage(n, 4, Left4)
    <2>1. n = 4 => s4 = Stage(n, 0, Part(5, 4))
      BY <1>1, <1>13, ChainIs, Forgets, PartIs
    <2>2. n = 4 => s5 = Stage(n, 1, Part(5, 5))
      BY <1>1, <1>7, <1>8, <2>1
    <2>3. n = 4 => s6 = Stage(n, 3, Part(5, 6))
      BY <1>1, <1>7, <1>8, <2>2
    <2> QED
      BY <1>1, <1>7, <1>8, <2>3, PartIs
  <1>31. n < 9 => n \in {0, 1, 2, 3, 4, 5, 6, 7, 8}
    OBVIOUS
  <1>32. \A t \in Nat : \A ops : Stage(n, t, ops).chain = ops /\ Stage(n, t, ops).refused = FALSE
    BY Zenon DEF Stage
  <1>33. n >= 9 => s7.chain = Chain /\ ~s7.refused
    BY <1>17, <1>32
  <1>34. n = 4 => s7.chain = Left4 /\ ~s7.refused
    BY <1>30, <1>32
  <1>35. n < 9 /\ n # 4 => s7.refused
    BY <1>4, <1>20, <1>21, <1>22, <1>23, <1>24, <1>25, <1>31
  <1> QED
    BY <1>2, <1>33, <1>34, <1>35

(* A read is submitted with its whole chain or refused, for any pool and   *)
(* whatever it finds free, but for exactly four entries.                   *)
THEOREM WholeTheorem == Spec => WholeOrRefused
  <1>1. ASSUME [Next]_vars, request = "idle", request' = "flight"
        PROVE  chain' = Chain \/ free' = 4
    <2>1. ms5611_submit
      BY <1>1 DEF Next, vars, ms5611_init, ms5611_complete_result, ms5611_decoder_decode,
                  ms5611_sample_fetch, FetchReturns, ConvertD1, ConvertD2, Delay, ReadD1, ReadD2,
                  TransferFails, OtherReads, Runs, Returns
    <2>2. free' \in Nat
      <3>1. free' \in Free
        BY <2>1, Zenon DEF ms5611_submit
      <3>2. Free \subseteq 0..PoolSize /\ PoolSize \in Nat
        BY FreeAssumption DEF FreeAssumption
      <3> QED
        BY <3>1, <3>2
    <2>3. ~Built(free').refused /\ chain' = Built(free').chain
      BY <1>1, <2>1, Zenon DEF ms5611_submit
    <2> QED
      <3>1. free' = 4 \/ free' >= 9 \/ (free' < 9 /\ free' # 4)
        BY <2>2
      <3> QED
        BY <2>2, <2>3, <3>1, BuiltIs
  <1> QED
    BY <1>1, PTL DEF Spec, WholeOrRefused

(* The assumption on the pool is that it has at least nine entries.        *)
THEOREM PoolAssumptionIs == \A n \in Nat : (Built(n).chain = Chain /\ ~Built(n).refused) <=> n >= 9
  <1>1. Left4 # Chain
    BY Tails
  <1> QED
    BY <1>1, BuiltIs
-----------------------------------------------------------------------------
(* The temperature.  A word is a function on the eight bytes; how far the  *)
(* lemmas look into it is by byte, whatever the bytes are.                 *)
IsWord(d) == d = [i \in Bytes |-> d[i]]
LEMMA EvaluatedIs ==
  ASSUME NEW f, IsWord(f)
  PROVE  Evaluated(f) = f
  <1> DEFINE S == {f[i] : i \in 1..8}
  <1>1. f \in Seq(S) /\ << >> \in Seq(S)
    BY DEF IsWord, Bytes
  <1>2. Len(<< >>) = 0
    OBVIOUS
  <1> HIDE DEF S
  <1>3. f \o << >> = f
    BY <1>1, <1>2
  <1> QED
    BY <1>3 DEF Evaluated

(* The bytes of a result, with the carry into each. *)
CarryOf(d, c) ==
  /\ c[1] = 0 /\ \A i \in Bytes : c[i + 1] = (d[i] + c[i]) \div 256
  /\ \A i \in Bytes : Carried(d)[i] = (d[i] + c[i]) % 256

LEMMA CarriedIs ==
  ASSUME NEW d, IsWord(d)
  PROVE  IsWord(Carried(d)) /\ \E c : CarryOf(d, c)
  <1> DEFINE Over(x, c) == (x + c) \div 256
             Digit(x, c) == (x + c) % 256
             v == Evaluated(d)
             Once(f) == [i \in 1..9 |-> IF i = 1 THEN 0 ELSE Over(v[i - 1], f[i - 1])]
             carry == CHOOSE f : f = Once(f)
             bytes == [i \in Bytes |-> Digit(v[i], carry[i])]
  <1>1. Carried(d) = Evaluated(bytes)
    BY Zenon DEF Carried
  <1>2. v = d
    BY EvaluatedIs
  <1> HIDE DEF v
  <1>3. IsWord(bytes)
    BY DEF IsWord
  <1>4. Carried(d) = bytes
    BY <1>1, <1>3, EvaluatedIs
  <1> HIDE DEF Over
  <1>5. \E c : c = Once(c)
    <2>2. PICK c2 : c2 = Over(v[1], 0)
      OBVIOUS
    <2>3. PICK c3 : c3 = Over(v[2], c2)
      OBVIOUS
    <2>4. PICK c4 : c4 = Over(v[3], c3)
      OBVIOUS
    <2>5. PICK c5 : c5 = Over(v[4], c4)
      OBVIOUS
    <2>6. PICK c6 : c6 = Over(v[5], c5)
      OBVIOUS
    <2>7. PICK c7 : c7 = Over(v[6], c6)
      OBVIOUS
    <2>8. PICK c8 : c8 = Over(v[7], c7)
      OBVIOUS
    <2>9. PICK c9 : c9 = Over(v[8], c8)
      OBVIOUS
    <2> DEFINE c == [i \in 1..9 |->
      IF i = 1 THEN 0 ELSE IF i = 2 THEN c2 ELSE IF i = 3 THEN c3 ELSE IF i = 4 THEN c4 ELSE IF i = 5 THEN c5
      ELSE IF i = 6 THEN c6 ELSE IF i = 7 THEN c7 ELSE IF i = 8 THEN c8 ELSE c9]
    <2>10. /\ c[1] = 0 /\ c[2] = c2 /\ c[3] = c3 /\ c[4] = c4 /\ c[5] = c5
           /\ c[6] = c6 /\ c[7] = c7 /\ c[8] = c8 /\ c[9] = c9
      OBVIOUS
    <2>11. c = [i \in 1..9 |-> c[i]]
      OBVIOUS
    <2>12. \A i \in 1..9 : i \in {1, 2, 3, 4, 5, 6, 7, 8, 9}
      OBVIOUS
    <2> HIDE DEF c
    <2>13. \A i \in 1..9 : c[i] = IF i = 1 THEN 0 ELSE Over(v[i - 1], c[i - 1])
      BY <2>2, <2>3, <2>4, <2>5, <2>6, <2>7, <2>8, <2>9, <2>10, <2>12
    <2> QED
      BY <2>11, <2>13
  <1>6. carry = Once(carry)
    BY <1>5
  <1> HIDE DEF carry
  <1>7. carry[1] = 0 /\ \A i \in 1..8 : carry[i + 1] = Over(d[i], carry[i])
    <2>1. \A i \in 1..8 : i + 1 \in 1..9 /\ i + 1 # 1 /\ (i + 1) - 1 = i
      OBVIOUS
    <2>2. \A i \in 1..9 : carry[i] = IF i = 1 THEN 0 ELSE Over(v[i - 1], carry[i - 1])
      BY <1>6
    <2> QED
      BY <1>2, <2>1, <2>2
  <1>8. \A i \in Bytes : bytes[i] = Digit(d[i], carry[i])
    BY <1>2
  <1> HIDE DEF bytes
  <1> QED
    BY <1>3, <1>4, <1>7, <1>8 DEF CarryOf, Over, Digit, Bytes

LEMMA CarrySteps ==
  ASSUME NEW d, NEW c, CarryOf(d, c)
  PROVE  /\ c[1] = 0
         /\ c[2] = (d[1] + c[1]) \div 256 /\ c[3] = (d[2] + c[2]) \div 256
         /\ c[4] = (d[3] + c[3]) \div 256 /\ c[5] = (d[4] + c[4]) \div 256
         /\ c[6] = (d[5] + c[5]) \div 256 /\ c[7] = (d[6] + c[6]) \div 256
         /\ c[8] = (d[7] + c[7]) \div 256
  <1>1. \A i \in Bytes : c[i + 1] = (d[i] + c[i]) \div 256
    BY DEF CarryOf
  <1>2. /\ c[1 + 1] = (d[1] + c[1]) \div 256 /\ c[2 + 1] = (d[2] + c[2]) \div 256
        /\ c[3 + 1] = (d[3] + c[3]) \div 256 /\ c[4 + 1] = (d[4] + c[4]) \div 256
        /\ c[5 + 1] = (d[5] + c[5]) \div 256 /\ c[6 + 1] = (d[6] + c[6]) \div 256
        /\ c[7 + 1] = (d[7] + c[7]) \div 256
    BY <1>1 DEF Bytes
  <1> QED
    BY <1>2 DEF CarryOf

(* The four low bytes depend on nothing but the four low digits: a carry   *)
(* goes up.                                                                *)
LEMMA CarriedLow ==
  ASSUME NEW d, IsWord(d), NEW e, IsWord(e), \A i \in 1..4 : d[i] = e[i]
  PROVE  \A i \in 1..4 : Carried(d)[i] = Carried(e)[i]
  <1>1. PICK c : CarryOf(d, c)
    BY CarriedIs
  <1>2. PICK b : CarryOf(e, b)
    BY CarriedIs
  <1>3. d[1] = e[1] /\ d[2] = e[2] /\ d[3] = e[3] /\ d[4] = e[4]
    OBVIOUS
  <1>4. c[1] = b[1]
    BY <1>1, <1>2, CarrySteps
  <1>5. c[2] = b[2]
    BY <1>1, <1>2, <1>3, <1>4, CarrySteps
  <1>6. c[3] = b[3]
    BY <1>1, <1>2, <1>3, <1>5, CarrySteps
  <1>61. c[4] = b[4]
    BY <1>1, <1>2, <1>3, <1>6, CarrySteps
  <1>7. \A i \in 1..4 : i \in {1, 2, 3, 4} /\ i \in Bytes
    BY DEF Bytes
  <1>8. \A i \in 1..4 : Carried(d)[i] = (d[i] + c[i]) % 256 /\ Carried(e)[i] = (e[i] + b[i]) % 256
    BY <1>1, <1>2, <1>7 DEF CarryOf
  <1>9. \A i \in 1..4 : c[i] = b[i]
    BY <1>4, <1>5, <1>6, <1>61, <1>7
  <1> QED
    BY <1>8, <1>9

(* The cast takes the four low bytes. *)
LEMMA Int32Low ==
  ASSUME NEW a, NEW b, \A i \in 1..4 : a[i] = b[i]
  PROVE  Int32(a) = Int32(b)
  BY DEF Int32

(* What a shift by so few bytes brings in from the left does not reach     *)
(* down to them.                                                           *)
LEMMA ShiftLow ==
  ASSUME NEW a, NEW f, NEW g, NEW k, NEW n \in 0..3, k \div 8 = n
  PROVE  \A i \in 1..4 : ShiftIn(a, k, f)[i] = ShiftIn(a, k, g)[i]
  <1> DEFINE byte(i, x) == IF i + n > 8 THEN x ELSE a[i + n]
             Bits(p, q) == ((p + 256 * q) \div 2^(k % 8)) % 256
             w(x) == [i \in Bytes |-> Bits(byte(i, x), byte(i + 1, x))]
  <1>1. \A x : IsWord(w(x))
    BY DEF IsWord
  <1>2. ASSUME NEW x PROVE ShiftIn(a, k, x) = w(x)
    <2>1. ShiftIn(a, k, x) = Evaluated(w(x))
      BY DEF ShiftIn
    <2>2. IsWord(w(x))
      BY <1>1
    <2> HIDE DEF w
    <2> QED
      BY <2>1, <2>2, EvaluatedIs
  <1> HIDE DEF Bits
  <1>4. \A i \in 1..5 : byte(i, f) = byte(i, g)
    OBVIOUS
  <1>5. \A i \in 1..4 : i + 1 \in 1..5 /\ i \in 1..5 /\ i \in Bytes
    BY DEF Bytes
  <1> HIDE DEF byte
  <1> QED
    BY <1>2, <1>4, <1>5

LEMMA ShrLow ==
  ASSUME NEW a, NEW k, NEW n \in 0..3, k \div 8 = n
  PROVE  \A i \in 1..4 : Shr(a, k)[i] = Sar(a, k)[i]
  <1>1. PICK fill : Sar(a, k) = ShiftIn(a, k, fill)
    BY DEF Sar
  <1>2. Shr(a, k) = ShiftIn(a, k, 0)
    BY DEF Shr
  <1> QED
    BY <1>1, <1>2, ShiftLow

LEMMA SameTemperature ==
  ASSUME NEW d2
  PROVE  Int32(Temperature(d2, Shr)) = Int32(Temperature(d2, Sar))
  <1> DEFINE p == Times(dt(d2), Coeff(6))
             base == OfNat(2000)
             digits(s) == [i \in Bytes |-> base[i] + s[i]]
  <1>3. /\ Temperature(d2, Shr) = Carried(digits(Shr(p, 23)))
        /\ Temperature(d2, Sar) = Carried(digits(Sar(p, 23)))
    BY DEF Temperature, Plus
  <1> HIDE DEF p, base
  <1>4. \A i \in 1..4 : Shr(p, 23)[i] = Sar(p, 23)[i]
    <2>1. 23 \div 8 = 2
      OBVIOUS
    <2> QED
      BY <2>1, ShrLow
  <1>5. \A s : IsWord(digits(s)) /\ \A i \in 1..4 : digits(s)[i] = base[i] + s[i]
    BY DEF IsWord, Bytes
  <1> HIDE DEF digits
  <1>6. \A i \in 1..4 : Carried(digits(Shr(p, 23)))[i] = Carried(digits(Sar(p, 23)))[i]
    BY <1>4, <1>5, CarriedLow
  <1> QED
    BY <1>3, <1>6, Int32Low

(* A read or a fetch is decoded in one of two places. *)
LEMMA DecodedIs ==
  ASSUME ReadInv, [Next]_vars, Decoded
  PROVE  HandsOver
  <1>1. (ms5611_decoder_decode /\ request = "ok") \/ FetchReturns
    BY DEF Decoded, ReadInv, Next, vars, ms5611_init, ms5611_submit, ms5611_complete_result,
           ms5611_decoder_decode, ms5611_sample_fetch, FetchReturns, ConvertD1, ConvertD2, Delay,
           ReadD1, ReadD2, TransferFails, OtherReads, Runs
  <1> QED
    BY <1>1 DEF ms5611_decoder_decode, FetchReturns

(* For any coefficients, also those that were never read, any raw values   *)
(* and whatever was read before: the temperature that is handed over is    *)
(* that of signed arithmetic, below 20 degrees as well, although all of it *)
(* is computed unsigned.                                                   *)
THEOREM TemperatureTheorem == Spec => TemperatureRight
  <1>1. Init => ReadInv
    BY DEF Init, ReadInv
  <1>2. ReadInv /\ [Next]_vars => ReadInv'
    BY ReadNext
  <1>3. ASSUME ReadInv, [Next]_vars, Decoded
        PROVE  temp' = Int32(Temperature(rx_d2, Sar))
    <2>1. temp' = Int32(Temperature(rx_d2, Shr))
      BY <1>3, DecodedIs DEF HandsOver, ms5611_compensate_raw
    <2> QED
      BY <2>1, SameTemperature
  <1> QED
    BY <1>1, <1>2, <1>3, PTL DEF Spec, TemperatureRight
-----------------------------------------------------------------------------
(* The pressure: what the operators on words return, and how large it is.  *)
(* A whole number in a range, and a byte. *)
Between(x, low, high) == x \in Int /\ low <= x /\ x <= high

LEMMA ByteIs == \A x : x \in Byte <=> Between(x, 0, 255)
  BY DEF Byte, Between

LEMMA LowByte == \A x \in Int : x % 256 \in Byte
  <1>1. \A x \in Int : Between(x % 256, 0, 255)
    BY DEF Between
  <1> QED
    BY <1>1, ByteIs


(* What the operators return is a word. *)
LEMMA CarriedType ==
  ASSUME NEW d \in [Bytes -> Int]
  PROVE  IsWord(d) /\ Carried(d) \in Word
  <1>1. IsWord(d)
    BY DEF IsWord
  <1>2. PICK c : CarryOf(d, c)
    BY <1>1, CarriedIs
  <1>3. /\ d[1] \in Int /\ d[2] \in Int /\ d[3] \in Int /\ d[4] \in Int
        /\ d[5] \in Int /\ d[6] \in Int /\ d[7] \in Int /\ d[8] \in Int
    BY DEF Bytes
  <1>4. /\ c[1] \in Int /\ c[2] \in Int /\ c[3] \in Int /\ c[4] \in Int
    BY <1>2, <1>3, CarrySteps
  <1>5. /\ c[5] \in Int /\ c[6] \in Int /\ c[7] \in Int /\ c[8] \in Int
    BY <1>2, <1>3, <1>4, CarrySteps
  <1>6. ASSUME NEW i \in Bytes PROVE Carried(d)[i] \in Byte
    <2>1. i \in {1, 2, 3, 4, 5, 6, 7, 8}
      BY DEF Bytes
    <2>2. d[i] \in Int /\ c[i] \in Int
      BY <1>4, <1>5, <2>1
    <2>3. Carried(d)[i] = (d[i] + c[i]) % 256
      BY <1>2 DEF CarryOf
    <2>4. d[i] + c[i] \in Int
      BY <2>2
    <2> QED
      BY <2>3, <2>4, LowByte
  <1>7. IsWord(Carried(d))
    BY <1>1, CarriedIs
  <1> QED
    BY <1>1, <1>6, <1>7 DEF IsWord, Word

Third(n)  == (n \div 65536) % 256
Fourth(n) == (n \div 16777216) % 256

LEMMA OfNatIs ==
  ASSUME NEW n \in Nat
  PROVE  /\ OfNat(n) \in Word
         /\ OfNat(n)[1] = n % 256 /\ OfNat(n)[2] = (n \div 256) % 256
         /\ OfNat(n)[3] = Third(n) /\ OfNat(n)[4] = Fourth(n)
         /\ OfNat(n)[5] = 0 /\ OfNat(n)[6] = 0 /\ OfNat(n)[7] = 0 /\ OfNat(n)[8] = 0
  <1> DEFINE f == [i \in Bytes |-> IF i > 4 THEN 0 ELSE (n \div 256^(i - 1)) % 256]
  <1>1. OfNat(n) = Evaluated(f)
    BY Zenon DEF OfNat
  <1>2. IsWord(f)
    BY DEF IsWord
  <1>3. OfNat(n) = f
    BY <1>1, <1>2, EvaluatedIs
  <1>4. 256^0 = 1 /\ 256^1 = 256 /\ 256^2 = 65536 /\ 256^3 = 16777216
    OBVIOUS
  <1>5. /\ f[1] = (n \div 256^0) % 256 /\ f[2] = (n \div 256^1) % 256
        /\ f[3] = (n \div 256^2) % 256 /\ f[4] = (n \div 256^3) % 256
        /\ f[5] = 0 /\ f[6] = 0 /\ f[7] = 0 /\ f[8] = 0
    <2>1. 1 - 1 = 0 /\ 2 - 1 = 1 /\ 3 - 1 = 2 /\ 4 - 1 = 3
      OBVIOUS
    <2> QED
      BY <2>1 DEF Bytes
  <1>6. n \div 1 = n
    OBVIOUS
  <1> HIDE DEF f
  <1>7. /\ f[1] = n % 256 /\ f[2] = (n \div 256) % 256
        /\ f[3] = (n \div 65536) % 256 /\ f[4] = (n \div 16777216) % 256
    BY <1>4, <1>5, <1>6
  <1>8. /\ f[1] \in Byte /\ f[2] \in Byte /\ f[3] \in Byte /\ f[4] \in Byte
        /\ f[5] \in Byte /\ f[6] \in Byte /\ f[7] \in Byte /\ f[8] \in Byte
    BY <1>5, <1>7, LowByte, ByteIs DEF Between
  <1>9. \A i \in Bytes : i \in {1, 2, 3, 4, 5, 6, 7, 8}
    BY DEF Bytes
  <1>10. \A i \in Bytes : f[i] \in Byte
    BY <1>8, <1>9
  <1> QED
    BY <1>2, <1>3, <1>5, <1>7, <1>10 DEF Word, IsWord, Third, Fourth

(* The digits of a product, of the products m of the bytes. *)
ProductDigits(d, m) ==
  /\ d[1] = m[1][1]
  /\ d[2] = m[1][2] + m[2][1]
  /\ d[3] = m[1][3] + m[2][2] + m[3][1]
  /\ d[4] = m[1][4] + m[2][3] + m[3][2] + m[4][1]
  /\ d[5] = m[1][5] + m[2][4] + m[3][3] + m[4][2] + m[5][1]
  /\ d[6] = m[1][6] + m[2][5] + m[3][4] + m[4][3] + m[5][2] + m[6][1]
  /\ d[7] = m[1][7] + m[2][6] + m[3][5] + m[4][4] + m[5][3] + m[6][2] + m[7][1]
  /\ d[8] = m[1][8] + m[2][7] + m[3][6] + m[4][5] + m[5][4] + m[6][3] + m[7][2] + m[8][1]

ByteProducts(a, b, m) ==
  \A i \in Bytes, j \in Bytes :
    /\ m[i][j] = a[i] * b[j] /\ Between(m[i][j], 0, 65025)
    /\ a[i] = 0 \/ b[j] = 0 => m[i][j] = 0

Product(a, b, d, m) ==
  d \in [Bytes -> Int] /\ Times(a, b) = Carried(d) /\ ProductDigits(d, m) /\ ByteProducts(a, b, m)

LEMMA ByteProduct ==
  ASSUME NEW x \in Byte, NEW y \in Byte
  PROVE  Between(x * y, 0, 65025) /\ (x = 0 \/ y = 0 => x * y = 0)
  <1>1. Between(x, 0, 255) /\ Between(y, 0, 255)
    BY ByteIs
  <1>2. x * y <= 255 * y /\ x * y >= 0 /\ x * y \in Int
    BY <1>1 DEF Between
  <1>3. x = 0 \/ y = 0 => x * y = 0
    BY <1>1 DEF Between
  <1> QED
    BY <1>1, <1>2, <1>3 DEF Between

LEMMA TimesIs ==
  ASSUME NEW a \in Word, NEW b \in Word
  PROVE  \E d, m : Product(a, b, d, m)
  <1> DEFINE prod(j, k) == a[j] * b[k]
             p(i, j) == IF j > i THEN 0 ELSE prod(j, i + 1 - j)
             d == [i \in Bytes |-> p(i, 1) + p(i, 2) + p(i, 3) + p(i, 4) + p(i, 5) + p(i, 6) + p(i, 7) + p(i, 8)]
             m == [j \in Bytes |-> [k \in Bytes |-> prod(j, k)]]
  <1>1. Times(a, b) = Carried(d)
    BY DEF Times
  <1>2. ByteProducts(a, b, m)
    <2>1. \A i \in Bytes : a[i] \in Byte /\ b[i] \in Byte
      BY DEF Word
    <2>2. \A i \in Bytes, j \in Bytes : m[i][j] = a[i] * b[j]
      OBVIOUS
    <2> HIDE DEF m
    <2> QED
      BY <2>1, <2>2, ByteProduct DEF ByteProducts
  <1>3. \A j \in Bytes, k \in Bytes : prod(j, k) = m[j][k] /\ m[j][k] \in Int
    BY <1>2 DEF ByteProducts, Between
  <1> HIDE DEF prod, m
  <1>4. ASSUME NEW i \in Bytes, NEW j \in Bytes PROVE p(i, j) \in Int
    <2>1. CASE j > i
      BY <2>1
    <2>2. CASE ~(j > i)
      <3>1. i + 1 - j \in Bytes
        BY <2>2 DEF Bytes
      <3> QED
        BY <1>3, <2>2, <3>1
    <2> QED
      BY <2>1, <2>2
  <1>5. /\ 1 \in Bytes /\ 2 \in Bytes /\ 3 \in Bytes /\ 4 \in Bytes
        /\ 5 \in Bytes /\ 6 \in Bytes /\ 7 \in Bytes /\ 8 \in Bytes
    BY DEF Bytes
  <1>6. d \in [Bytes -> Int]
    <2> HIDE DEF p
    <2>1. ASSUME NEW i \in Bytes
          PROVE  /\ p(i, 1) \in Int /\ p(i, 2) \in Int /\ p(i, 3) \in Int /\ p(i, 4) \in Int
                 /\ p(i, 5) \in Int /\ p(i, 6) \in Int /\ p(i, 7) \in Int /\ p(i, 8) \in Int
      BY <1>4, <1>5
    <2> QED
      BY <2>1
  <1>7. ASSUME NEW i \in Bytes, NEW j \in Bytes
        PROVE  (j > i => p(i, j) = 0) /\ (~(j > i) => p(i, j) = m[j][i + 1 - j])
    <2>1. CASE j > i
      BY <2>1
    <2>2. CASE ~(j > i)
      <3>1. i + 1 - j \in Bytes
        BY <2>2 DEF Bytes
      <3> QED
        BY <1>3, <2>2, <3>1
    <2> QED
      BY <2>1, <2>2
  <1>8. \A i \in Bytes : d[i] = p(i, 1) + p(i, 2) + p(i, 3) + p(i, 4) + p(i, 5) + p(i, 6) + p(i, 7) + p(i, 8)
    OBVIOUS
  <1> HIDE DEF p, d
  <1>81. d[1] = m[1][1] /\ d[2] = m[1][2] + m[2][1] /\ d[3] = m[1][3] + m[2][2] + m[3][1]
    BY <1>3, <1>5, <1>7, <1>8
  <1>82. d[4] = m[1][4] + m[2][3] + m[3][2] + m[4][1]
    BY <1>3, <1>5, <1>7, <1>8
  <1>83. d[5] = m[1][5] + m[2][4] + m[3][3] + m[4][2] + m[5][1]
    BY <1>3, <1>5, <1>7, <1>8
  <1>84. d[6] = m[1][6] + m[2][5] + m[3][4] + m[4][3] + m[5][2] + m[6][1]
    BY <1>3, <1>5, <1>7, <1>8
  <1>85. d[7] = m[1][7] + m[2][6] + m[3][5] + m[4][4] + m[5][3] + m[6][2] + m[7][1]
    BY <1>3, <1>5, <1>7, <1>8
  <1>86. d[8] = m[1][8] + m[2][7] + m[3][6] + m[4][5] + m[5][4] + m[6][3] + m[7][2] + m[8][1]
    BY <1>3, <1>5, <1>7, <1>8
  <1>10. ProductDigits(d, m)
    BY <1>81, <1>82, <1>83, <1>84, <1>85, <1>86 DEF ProductDigits
  <1> QED
    BY <1>1, <1>2, <1>6, <1>10 DEF Product

LEMMA TimesType ==
  ASSUME NEW a \in Word, NEW b \in Word
  PROVE  Times(a, b) \in Word
  BY TimesIs, CarriedType DEF Product

LEMMA SumType ==
  ASSUME NEW a \in Word, NEW b \in Word
  PROVE  /\ [i \in Bytes |-> a[i] + b[i]] \in [Bytes -> Int]
         /\ [i \in Bytes |-> a[i] - b[i]] \in [Bytes -> Int]
         /\ Plus(a, b) \in Word /\ Minus(a, b) \in Word
  <1>1. \A i \in Bytes : a[i] \in Int /\ b[i] \in Int
    BY ByteIs DEF Word, Between
  <1>2. /\ [i \in Bytes |-> a[i] + b[i]] \in [Bytes -> Int]
        /\ [i \in Bytes |-> a[i] - b[i]] \in [Bytes -> Int]
    BY <1>1
  <1> QED
    BY <1>2, CarriedType DEF Plus, Minus

(* A shift by bytes and bits, of the word with fill behind it. *)
Behind(a, n, fill, i) == IF i + n > 8 THEN fill ELSE a[i + n]

BytesAndBits(k, n, m) == n \in Nat /\ k \div 8 = n /\ m \in Nat \ {0} /\ 2^(k % 8) = m

LEMMA ShiftIs ==
  ASSUME NEW a \in Word, NEW fill \in Byte, NEW k, NEW n, NEW m, BytesAndBits(k, n, m)
  PROVE  /\ ShiftIn(a, k, fill) \in Word
         /\ \A i \in Bytes : ShiftIn(a, k, fill)[i]
              = ((Behind(a, n, fill, i) + 256 * Behind(a, n, fill, i + 1)) \div m) % 256
  <1> DEFINE f == [i \in Bytes |-> ((Behind(a, n, fill, i) + 256 * Behind(a, n, fill, i + 1)) \div m) % 256]
  <1>1. ShiftIn(a, k, fill) = Evaluated(f)
    <2> DEFINE g(x, y) == [i \in Bytes |-> ((Behind(a, x, fill, i) + 256 * Behind(a, x, fill, i + 1)) \div y) % 256]
    <2>1. ShiftIn(a, k, fill) = Evaluated(g(k \div 8, 2^(k % 8)))
      BY Zenon DEF ShiftIn, Behind
    <2>2. f = g(n, m)
      OBVIOUS
    <2>3. k \div 8 = n /\ 2^(k % 8) = m
      BY DEF BytesAndBits
    <2> HIDE DEF f, g
    <2> QED
      BY <2>1, <2>2, <2>3, Zenon
  <1>2. IsWord(f)
    BY DEF IsWord
  <1>0. n \in Nat /\ m \in Nat \ {0}
    BY DEF BytesAndBits
  <1>3. ShiftIn(a, k, fill) = f
    BY <1>1, <1>2, EvaluatedIs
  <1>4. \A i \in 1..9 : Behind(a, n, fill, i) \in Byte
    <2>1. \A i \in 1..9 : i + n > 8 \/ i + n \in Bytes
      BY <1>0 DEF Bytes
    <2>2. \A i \in Bytes : a[i] \in Byte
      BY DEF Word
    <2> QED
      BY <2>1, <2>2 DEF Behind
  <1>5. ASSUME NEW i \in Bytes PROVE f[i] \in Byte
    <2>1. Behind(a, n, fill, i) \in Int /\ Behind(a, n, fill, i + 1) \in Int
      <3>1. i \in 1..9 /\ i + 1 \in 1..9
        BY DEF Bytes
      <3> QED
        BY <1>4, <3>1, ByteIs DEF Between
    <2>3. (Behind(a, n, fill, i) + 256 * Behind(a, n, fill, i + 1)) \div m \in Int
      BY <1>0, <2>1
    <2> QED
      BY <2>3, LowByte
  <1>6. f \in Word
    BY <1>5 DEF Word
  <1> QED
    BY <1>3, <1>6

(* Digits in a range have carries in a range. *)
AllIn(d, low, high) == \A i \in Bytes : Between(d[i], low, high)

LEMMA CarryRange ==
  ASSUME NEW d, NEW c, CarryOf(d, c), NEW l \in Int, NEW h \in Int, AllIn(d, l, h),
         NEW k \in Int, k <= 0, 255 * k <= l, NEW n \in Nat, h <= 255 * n + 255
  PROVE  AllIn(c, k, n)
  <1>1. \A x, y : Between(x, l, h) /\ Between(y, k, n) => Between((x + y) \div 256, k, n)
    BY DEF Between
  <1>2. \A i \in Bytes : Between(c[i], k, n) => Between(c[i + 1], k, n)
    BY <1>1 DEF CarryOf, AllIn
  <1>3. Between(c[1], k, n)
    BY DEF CarryOf, Between
  <1>4. /\ 1 \in Bytes /\ 2 \in Bytes /\ 3 \in Bytes /\ 4 \in Bytes /\ 5 \in Bytes /\ 6 \in Bytes /\ 7 \in Bytes
        /\ 1 + 1 = 2 /\ 2 + 1 = 3 /\ 3 + 1 = 4 /\ 4 + 1 = 5 /\ 5 + 1 = 6 /\ 6 + 1 = 7 /\ 7 + 1 = 8
    BY DEF Bytes
  <1>5. /\ Between(c[2], k, n) /\ Between(c[3], k, n) /\ Between(c[4], k, n)
        /\ Between(c[5], k, n) /\ Between(c[6], k, n) /\ Between(c[7], k, n)
        /\ Between(c[8], k, n)
    BY <1>2, <1>3, <1>4
  <1>6. \A i \in Bytes : i \in {1, 2, 3, 4, 5, 6, 7, 8}
    BY DEF Bytes
  <1> QED
    BY <1>3, <1>5, <1>6 DEF AllIn

(* Where the digits are 0, a carry of less than a byte ends, and one of -1 *)
(* goes on to the top.                                                     *)
LEMMA CarryEnds ==
  ASSUME NEW d, NEW c, CarryOf(d, c), NEW i \in Bytes, d[i] = 0
  PROVE  /\ Between(c[i], 0, 255) => c[i + 1] = 0 /\ Carried(d)[i] = c[i]
         /\ Between(c[i], 0 - 1, 0 - 1) => c[i + 1] = c[i] /\ Carried(d)[i] = 255
  <1>1. c[i + 1] = (0 + c[i]) \div 256 /\ Carried(d)[i] = (0 + c[i]) % 256
    BY DEF CarryOf
  <1>2. \A y : Between(y, 0, 255) => (0 + y) \div 256 = 0 /\ (0 + y) % 256 = y
    BY DEF Between
  <1>3. \A y : Between(y, 0 - 1, 0 - 1) => (0 + y) \div 256 = y /\ (0 + y) % 256 = 255
    BY DEF Between
  <1> QED
    BY <1>1, <1>2, <1>3

(* A word of at most k bytes. *)
AtMost(k, a) == a \in Word /\ \A i \in Bytes : i > k => a[i] = 0

LEMMA WordBytes ==
  ASSUME NEW a \in Word
  PROVE  /\ Between(a[1], 0, 255) /\ Between(a[2], 0, 255) /\ Between(a[3], 0, 255) /\ Between(a[4], 0, 255)
         /\ Between(a[5], 0, 255) /\ Between(a[6], 0, 255) /\ Between(a[7], 0, 255) /\ Between(a[8], 0, 255)
  <1>1. \A i \in Bytes : Between(a[i], 0, 255)
    BY ByteIs DEF Word
  <1> QED
    BY <1>1 DEF Bytes

LEMMA AtMostIs ==
  ASSUME NEW a \in Word
  PROVE  /\ AtMost(2, a) <=> a[3] = 0 /\ AtMost(3, a)
         /\ AtMost(3, a) <=> a[4] = 0 /\ AtMost(4, a)
         /\ AtMost(4, a) <=> a[5] = 0 /\ AtMost(5, a)
         /\ AtMost(5, a) <=> a[6] = 0 /\ a[7] = 0 /\ a[8] = 0
  <1>1. \A i \in Bytes : i \in {1, 2, 3, 4, 5, 6, 7, 8}
    BY DEF Bytes
  <1>2. {1, 2, 3, 4, 5, 6, 7, 8} \subseteq Bytes
    BY DEF Bytes
  <1> HIDE DEF Bytes
  <1>3. AtMost(5, a) <=> a[6] = 0 /\ a[7] = 0 /\ a[8] = 0
    BY <1>1, <1>2 DEF AtMost
  <1>4. AtMost(4, a) <=> a[5] = 0 /\ AtMost(5, a)
    BY <1>1, <1>2 DEF AtMost
  <1>5. AtMost(3, a) <=> a[4] = 0 /\ AtMost(4, a)
    BY <1>1, <1>2 DEF AtMost
  <1>6. AtMost(2, a) <=> a[3] = 0 /\ AtMost(3, a)
    BY <1>1, <1>2 DEF AtMost
  <1> QED
    BY <1>3, <1>4, <1>5, <1>6

(* A coefficient has two bytes, a raw value three. *)
LEMMA OfNatAtMost ==
  /\ \A n : Between(n, 0, 65535) => AtMost(2, OfNat(n))
  /\ \A n : Between(n, 0, 16777215) => AtMost(3, OfNat(n))
  <1>1. ASSUME NEW n, Between(n, 0, 16777215) PROVE AtMost(3, OfNat(n))
    <2>1. n \in Nat /\ Fourth(n) = 0
      BY <1>1 DEF Between, Fourth
    <2> QED
      BY <2>1, OfNatIs, AtMostIs
  <1>2. ASSUME NEW n, Between(n, 0, 65535) PROVE AtMost(2, OfNat(n))
    <2>1. n \in Nat /\ Third(n) = 0 /\ Between(n, 0, 16777215)
      BY <1>2 DEF Between, Third
    <2> QED
      BY <1>1, <2>1, OfNatIs, AtMostIs
  <1> QED
    BY <1>1, <1>2

(* A coefficient shifted by 8 has three bytes, by 15 four. *)
LEMMA TimesOneByte ==
  ASSUME NEW a, AtMost(2, a), NEW b, AtMost(2, b), b[1] = 0, NEW q \in {1, 128}, b[2] = q
  PROVE  AtMost(4, Times(a, b)) /\ (q = 1 => AtMost(3, Times(a, b)))
  <1>1. a \in Word /\ a[3] = 0 /\ a[4] = 0 /\ a[5] = 0 /\ a[6] = 0 /\ a[7] = 0 /\ a[8] = 0
    BY AtMostIs DEF AtMost
  <1>2. b \in Word /\ b[3] = 0 /\ b[4] = 0 /\ b[5] = 0 /\ b[6] = 0 /\ b[7] = 0 /\ b[8] = 0
    BY AtMostIs DEF AtMost
  <1>3. PICK d, m : d \in [Bytes -> Int] /\ Times(a, b) = Carried(d) /\ ProductDigits(d, m) /\ ByteProducts(a, b, m)
    BY <1>1, <1>2, TimesIs DEF Product
  <1>4. {1, 2, 3, 4, 5, 6, 7, 8} \subseteq Bytes
    BY DEF Bytes
  <1>5. \A i \in Bytes : m[i][1] = 0 /\ m[i][3] = 0 /\ m[i][4] = 0 /\ m[i][5] = 0 /\ m[i][6] = 0
                         /\ m[i][7] = 0 /\ m[i][8] = 0
    BY <1>2, <1>3, <1>4 DEF ByteProducts
  <1>6. m[3][2] = 0 /\ m[4][2] = 0 /\ m[5][2] = 0 /\ m[6][2] = 0 /\ m[7][2] = 0
    BY <1>1, <1>3, <1>4 DEF ByteProducts
  <1>7. /\ Between(m[1][2], 0, 32640) /\ Between(m[2][2], 0, 32640)
        /\ q = 1 => Between(m[1][2], 0, 255) /\ Between(m[2][2], 0, 255)
    <2>1. m[1][2] = a[1] * q /\ m[2][2] = a[2] * q
      BY <1>3, <1>4 DEF ByteProducts
    <2>2. Between(a[1], 0, 255) /\ Between(a[2], 0, 255)
      BY <1>1, WordBytes
    <2>3. CASE q = 1
      BY <2>1, <2>2, <2>3 DEF Between
    <2>4. CASE q = 128
      BY <2>1, <2>2, <2>4 DEF Between
    <2> QED
      BY <2>3, <2>4
  <1>8. /\ d[1] = 0 /\ d[2] = m[1][2] /\ d[3] = m[2][2] /\ d[4] = 0
        /\ d[5] = 0 /\ d[6] = 0 /\ d[7] = 0 /\ d[8] = 0
    <2>1. m[1][2] \in Int /\ m[2][2] \in Int
      BY <1>7 DEF Between
    <2> QED
      BY <1>3, <1>4, <1>5, <1>6, <2>1 DEF ProductDigits
  <1>9. PICK c : CarryOf(d, c)
    BY <1>3, CarriedIs, CarriedType
  <1>10. Between(c[4], 0, 127) /\ (q = 1 => c[4] = 0)
    <2>1. c[1] = 0 /\ c[1 + 1] = (d[1] + c[1]) \div 256 /\ c[2 + 1] = (d[2] + c[2]) \div 256
          /\ c[3 + 1] = (d[3] + c[3]) \div 256
      BY <1>4, <1>9 DEF CarryOf
    <2>2. c[2] = 0
      BY <1>8, <2>1
    <2>3. Between(c[3], 0, 127) /\ (q = 1 => c[3] = 0)
      BY <1>7, <1>8, <2>1, <2>2 DEF Between
    <2>4. c[4] = (d[3] + c[3]) \div 256
      BY <2>1
    <2> QED
      BY <1>7, <1>8, <2>3, <2>4 DEF Between
  <1>11. Between(c[4], 0, 255) /\ Between(0, 0, 255)
    BY <1>10 DEF Between
  <1>12. c[4 + 1] = 0 /\ Carried(d)[4] = c[4]
    BY <1>4, <1>8, <1>9, <1>11, CarryEnds
  <1>13. c[5] = 0 /\ c[5 + 1] = 0 /\ Carried(d)[5] = c[5]
    BY <1>4, <1>8, <1>9, <1>11, <1>12, CarryEnds
  <1>14. c[6] = 0 /\ c[6 + 1] = 0 /\ Carried(d)[6] = c[6]
    BY <1>4, <1>8, <1>9, <1>11, <1>13, CarryEnds
  <1>15. c[7] = 0 /\ c[7 + 1] = 0 /\ Carried(d)[7] = c[7]
    BY <1>4, <1>8, <1>9, <1>11, <1>14, CarryEnds
  <1>16. c[8] = 0 /\ Carried(d)[8] = c[8]
    BY <1>4, <1>8, <1>9, <1>11, <1>15, CarryEnds
  <1> QED
    BY <1>3, <1>10, <1>12, <1>13, <1>14, <1>15, <1>16, AtMostIs, CarriedType

LEMMA ShlAtMost ==
  ASSUME NEW a, AtMost(2, a)
  PROVE  AtMost(3, Shl(a, 8)) /\ AtMost(4, Shl(a, 15))
  <1>1. Shl(a, 8) = Times(a, OfNat(256)) /\ Shl(a, 15) = Times(a, OfNat(32768))
    <2>1. 2^8 = 256 /\ 2^15 = 32768
      OBVIOUS
    <2> QED
      BY <2>1 DEF Shl
  <1>2. /\ AtMost(2, OfNat(256)) /\ OfNat(256)[1] = 0 /\ OfNat(256)[2] = 1
        /\ AtMost(2, OfNat(32768)) /\ OfNat(32768)[1] = 0 /\ OfNat(32768)[2] = 128
    <2>1. /\ 256 \in Nat /\ 256 % 256 = 0 /\ (256 \div 256) % 256 = 1
          /\ 32768 \in Nat /\ 32768 % 256 = 0 /\ (32768 \div 256) % 256 = 128
          /\ Between(256, 0, 65535) /\ Between(32768, 0, 65535)
      BY DEF Between
    <2> QED
      BY <2>1, OfNatIs, OfNatAtMost
  <1> QED
    BY <1>1, <1>2, TimesOneByte

(* From 20 degrees up the difference of temperatures has three bytes. *)
LEMMA WarmDifference ==
  ASSUME NEW x, AtMost(3, x), NEW y, AtMost(3, y), ~Negative(Minus(x, y))
  PROVE  AtMost(3, Minus(x, y))
  <1> DEFINE d == [i \in Bytes |-> x[i] - y[i]]
  <1>1. x \in Word /\ x[4] = 0 /\ x[5] = 0 /\ x[6] = 0 /\ x[7] = 0 /\ x[8] = 0
    BY AtMostIs DEF AtMost
  <1>2. y \in Word /\ y[4] = 0 /\ y[5] = 0 /\ y[6] = 0 /\ y[7] = 0 /\ y[8] = 0
    BY AtMostIs DEF AtMost
  <1>3. d \in [Bytes -> Int] /\ Minus(x, y) = Carried(d)
    BY <1>1, <1>2, SumType DEF Minus
  <1>4. {1, 2, 3, 4, 5, 6, 7, 8} \subseteq Bytes
    BY DEF Bytes
  <1>5. d[4] = 0 /\ d[5] = 0 /\ d[6] = 0 /\ d[7] = 0 /\ d[8] = 0
    BY <1>1, <1>2, <1>4
  <1>6. AllIn(d, 0 - 255, 255)
    <2>1. \A i \in Bytes : Between(x[i], 0, 255) /\ Between(y[i], 0, 255)
      BY <1>1, <1>2, ByteIs DEF Word
    <2>2. \A p, q : Between(p, 0, 255) /\ Between(q, 0, 255) => Between(p - q, 0 - 255, 255)
      BY DEF Between
    <2> QED
      BY <2>1, <2>2 DEF AllIn
  <1> HIDE DEF d
  <1>7. PICK c : CarryOf(d, c)
    BY <1>3, CarriedIs, CarriedType
  <1>8. AllIn(c, 0 - 1, 0)
    <2>1. 0 - 255 \in Int /\ 0 - 1 <= 0 /\ 255 * (0 - 1) <= 0 - 255 /\ 255 <= 255 * 0 + 255
      OBVIOUS
    <2> QED
      BY <1>6, <1>7, <2>1, CarryRange
  <1>9. Between(c[4], 0 - 1, 0)
    BY <1>4, <1>8 DEF AllIn
  <1>10. ~Between(c[4], 0 - 1, 0 - 1)
    <2> SUFFICES ASSUME Between(c[4], 0 - 1, 0 - 1) PROVE FALSE
      OBVIOUS
    <2>1. c[4 + 1] = c[4]
      BY <1>4, <1>5, <1>7, CarryEnds
    <2>2. c[5] = c[4] /\ c[5 + 1] = c[5]
      BY <1>4, <1>5, <1>7, <2>1, CarryEnds
    <2>3. c[6] = c[4] /\ c[6 + 1] = c[6]
      BY <1>4, <1>5, <1>7, <2>2, CarryEnds
    <2>4. c[7] = c[4] /\ c[7 + 1] = c[7]
      BY <1>4, <1>5, <1>7, <2>3, CarryEnds
    <2>5. c[8] = c[4] /\ Carried(d)[8] = 255
      BY <1>4, <1>5, <1>7, <2>4, CarryEnds
    <2> QED
      BY <1>3, <2>5 DEF Negative
  <1>11. c[4] = 0 /\ Between(0, 0, 255)
    BY <1>9, <1>10 DEF Between
  <1>12. c[4 + 1] = 0 /\ Carried(d)[4] = 0
    BY <1>4, <1>5, <1>7, <1>11, CarryEnds
  <1>13. c[5] = 0 /\ c[5 + 1] = 0 /\ Carried(d)[5] = 0
    BY <1>4, <1>5, <1>7, <1>11, <1>12, CarryEnds
  <1>14. c[6] = 0 /\ c[6 + 1] = 0 /\ Carried(d)[6] = 0
    BY <1>4, <1>5, <1>7, <1>11, <1>13, CarryEnds
  <1>15. c[7] = 0 /\ c[7 + 1] = 0 /\ Carried(d)[7] = 0
    BY <1>4, <1>5, <1>7, <1>11, <1>14, CarryEnds
  <1>16. c[8] = 0 /\ Carried(d)[8] = 0
    BY <1>4, <1>5, <1>7, <1>11, <1>15, CarryEnds
  <1> QED
    BY <1>3, <1>12, <1>13, <1>14, <1>15, <1>16, AtMostIs, CarriedType

(* Two bytes by three are five. *)
LEMMA ProductOf2And3 ==
  ASSUME NEW a, AtMost(2, a), NEW b, AtMost(3, b)
  PROVE  AtMost(5, Times(a, b))
  <1>1. a \in Word /\ a[3] = 0 /\ a[4] = 0 /\ a[5] = 0 /\ a[6] = 0 /\ a[7] = 0 /\ a[8] = 0
    BY AtMostIs DEF AtMost
  <1>2. b \in Word /\ b[4] = 0 /\ b[5] = 0 /\ b[6] = 0 /\ b[7] = 0 /\ b[8] = 0
    BY AtMostIs DEF AtMost
  <1>3. PICK d, m : d \in [Bytes -> Int] /\ Times(a, b) = Carried(d) /\ ProductDigits(d, m) /\ ByteProducts(a, b, m)
    BY <1>1, <1>2, TimesIs DEF Product
  <1>4. {1, 2, 3, 4, 5, 6, 7, 8} \subseteq Bytes
    BY DEF Bytes
  <1>5. \A i \in Bytes : /\ m[3][i] = 0 /\ m[4][i] = 0 /\ m[5][i] = 0 /\ m[6][i] = 0 /\ m[7][i] = 0 /\ m[8][i] = 0
                         /\ m[i][4] = 0 /\ m[i][5] = 0 /\ m[i][6] = 0 /\ m[i][7] = 0 /\ m[i][8] = 0
    BY <1>1, <1>2, <1>3, <1>4 DEF ByteProducts
  <1>6. \A i \in Bytes, j \in Bytes : Between(m[i][j], 0, 65025)
    BY <1>3 DEF ByteProducts
  <1>7. d[5] = 0 /\ d[6] = 0 /\ d[7] = 0 /\ d[8] = 0
    BY <1>3, <1>4, <1>5 DEF ProductDigits
  <1>8. /\ Between(d[1], 0, 130050) /\ Between(d[2], 0, 130050) /\ Between(d[3], 0, 130050)
        /\ Between(d[4], 0, 65025)
    <2>1. /\ d[1] = m[1][1] /\ d[2] = m[1][2] + m[2][1]
          /\ d[3] = m[1][3] + m[2][2] + 0 /\ d[4] = 0 + m[2][3] + 0 + 0
      BY <1>3, <1>4, <1>5 DEF ProductDigits
    <2>2. /\ Between(m[1][1], 0, 65025) /\ Between(m[1][2], 0, 65025) /\ Between(m[2][1], 0, 65025)
          /\ Between(m[1][3], 0, 65025) /\ Between(m[2][2], 0, 65025) /\ Between(m[2][3], 0, 65025)
      BY <1>4, <1>6
    <2> QED
      BY <2>1, <2>2 DEF Between
  <1>9. AllIn(d, 0, 130050)
    <2>1. \A i \in Bytes : i \in {1, 2, 3, 4, 5, 6, 7, 8}
      BY DEF Bytes
    <2>2. Between(0, 0, 130050) /\ Between(d[4], 0, 130050)
      BY <1>8 DEF Between
    <2> QED
      BY <1>7, <1>8, <2>1, <2>2 DEF AllIn
  <1>10. PICK c : CarryOf(d, c)
    BY <1>3, CarriedIs, CarriedType
  <1>11. AllIn(c, 0, 509)
    <2>1. 130050 \in Int /\ 255 * 0 <= 0 /\ 509 \in Nat /\ 130050 <= 255 * 509 + 255
      OBVIOUS
    <2> QED
      BY <1>9, <1>10, <2>1, CarryRange
  <1>12. Between(c[5], 0, 255)
    <2>1. c[4 + 1] = (d[4] + c[4]) \div 256 /\ Between(c[4], 0, 509)
      BY <1>4, <1>10, <1>11 DEF CarryOf, AllIn
    <2>2. c[5] = (d[4] + c[4]) \div 256
      BY <2>1
    <2> QED
      BY <1>8, <2>1, <2>2 DEF Between
  <1>13. c[5 + 1] = 0 /\ Between(0, 0, 255)
    BY <1>4, <1>7, <1>10, <1>12, CarryEnds DEF Between
  <1>14. c[6] = 0 /\ c[6 + 1] = 0 /\ Carried(d)[6] = 0
    BY <1>4, <1>7, <1>10, <1>13, CarryEnds
  <1>15. c[7] = 0 /\ c[7 + 1] = 0 /\ Carried(d)[7] = 0
    BY <1>4, <1>7, <1>10, <1>13, <1>14, CarryEnds
  <1>16. c[8] = 0 /\ Carried(d)[8] = 0
    BY <1>4, <1>7, <1>10, <1>13, <1>15, CarryEnds
  <1> QED
    BY <1>3, <1>14, <1>15, <1>16, AtMostIs, CarriedType

(* Both shifts are the same of a word whose highest bit is not set. *)
LEMMA ShrIsSar ==
  ASSUME NEW a, ~Negative(a), NEW k
  PROVE  Shr(a, k) = Sar(a, k)
  BY DEF Shr, Sar

LEMMA NotNegative ==
  ASSUME NEW a, AtMost(5, a)
  PROVE  ~Negative(a)
  BY AtMostIs DEF Negative, AtMost

LEMMA ShrByte ==
  ASSUME NEW a, AtMost(5, a)
  PROVE  AtMost(4, Shr(a, 8))
  <1>1. a \in Word /\ a[6] = 0 /\ a[7] = 0 /\ a[8] = 0
    BY AtMostIs DEF AtMost
  <1>2. BytesAndBits(8, 1, 1) /\ 0 \in Byte
    <2>1. 8 \div 8 = 1 /\ 8 % 8 = 0 /\ 2^0 = 1
      OBVIOUS
    <2> QED
      BY <2>1 DEF BytesAndBits, Byte
  <1> DEFINE s == ShiftIn(a, 8, 0)
  <1>3. /\ s \in Word
        /\ \A i \in Bytes : s[i] = ((Behind(a, 1, 0, i) + 256 * Behind(a, 1, 0, i + 1)) \div 1) % 256
    BY <1>1, <1>2, ShiftIs
  <1>4. Shr(a, 8) = s
    BY DEF Shr
  <1> HIDE DEF s
  <1>5. /\ Behind(a, 1, 0, 5) = 0 /\ Behind(a, 1, 0, 5 + 1) = 0 /\ Behind(a, 1, 0, 6) = 0
        /\ Behind(a, 1, 0, 6 + 1) = 0 /\ Behind(a, 1, 0, 7) = 0 /\ Behind(a, 1, 0, 7 + 1) = 0
        /\ Behind(a, 1, 0, 8) = 0 /\ Behind(a, 1, 0, 8 + 1) = 0
    BY <1>1 DEF Behind
  <1>6. 5 \in Bytes /\ 6 \in Bytes /\ 7 \in Bytes /\ 8 \in Bytes
    BY DEF Bytes
  <1>7. s[5] = 0 /\ s[6] = 0 /\ s[7] = 0 /\ s[8] = 0
    <2>1. ((0 + 256 * 0) \div 1) % 256 = 0
      OBVIOUS
    <2> QED
      BY <1>3, <1>5, <1>6, <2>1
  <1> QED
    BY <1>3, <1>4, <1>7, AtMostIs

LEMMA SumOf4 ==
  ASSUME NEW x, AtMost(4, x), NEW y, AtMost(4, y)
  PROVE  AtMost(5, Plus(x, y)) /\ Between(Plus(x, y)[5], 0, 1)
  <1> DEFINE d == [i \in Bytes |-> x[i] + y[i]]
  <1>1. x \in Word /\ x[5] = 0 /\ x[6] = 0 /\ x[7] = 0 /\ x[8] = 0
    BY AtMostIs DEF AtMost
  <1>2. y \in Word /\ y[5] = 0 /\ y[6] = 0 /\ y[7] = 0 /\ y[8] = 0
    BY AtMostIs DEF AtMost
  <1>3. d \in [Bytes -> Int] /\ Plus(x, y) = Carried(d)
    <2>1. d \in [Bytes -> Int]
      BY <1>1, <1>2, SumType
    <2>2. Plus(x, y) = Carried(d)
      BY DEF Plus
    <2> QED
      BY <2>1, <2>2
  <1>4. {1, 2, 3, 4, 5, 6, 7, 8} \subseteq Bytes
    BY DEF Bytes
  <1>5. d[5] = 0 /\ d[6] = 0 /\ d[7] = 0 /\ d[8] = 0
    BY <1>1, <1>2, <1>4
  <1>6. AllIn(d, 0, 510)
    <2>1. \A i \in Bytes : Between(x[i], 0, 255) /\ Between(y[i], 0, 255)
      BY <1>1, <1>2, ByteIs DEF Word
    <2>2. \A p, q : Between(p, 0, 255) /\ Between(q, 0, 255) => Between(p + q, 0, 510)
      BY DEF Between
    <2> QED
      BY <2>1, <2>2 DEF AllIn
  <1> HIDE DEF d
  <1>7. PICK c : CarryOf(d, c)
    BY <1>3, CarriedIs, CarriedType
  <1>8. AllIn(c, 0, 1)
    <2>1. 510 \in Int /\ 255 * 0 <= 0 /\ 1 \in Nat /\ 510 <= 255 * 1 + 255
      OBVIOUS
    <2> QED
      BY <1>6, <1>7, <2>1, CarryRange
  <1>9. Between(c[5], 0, 1) /\ Between(c[5], 0, 255) /\ Between(0, 0, 255)
    BY <1>4, <1>8 DEF AllIn, Between
  <1>10. c[5 + 1] = 0 /\ Carried(d)[5] = c[5]
    BY <1>4, <1>5, <1>7, <1>9, CarryEnds
  <1>11. c[6] = 0 /\ c[6 + 1] = 0 /\ Carried(d)[6] = 0
    BY <1>4, <1>5, <1>7, <1>9, <1>10, CarryEnds
  <1>12. c[7] = 0 /\ c[7 + 1] = 0 /\ Carried(d)[7] = 0
    BY <1>4, <1>5, <1>7, <1>9, <1>11, CarryEnds
  <1>13. c[8] = 0 /\ Carried(d)[8] = 0
    BY <1>4, <1>5, <1>7, <1>9, <1>12, CarryEnds
  <1> QED
    BY <1>3, <1>9, <1>10, <1>11, <1>12, <1>13, AtMostIs, CarriedType

(* A raw value of three bytes by a sensitivity of 33 bits is far from the  *)
(* highest bit.                                                            *)
LEMMA ProductOf3And5 ==
  ASSUME NEW a, AtMost(3, a), NEW b, AtMost(5, b), Between(b[5], 0, 1)
  PROVE  ~Negative(Times(a, b))
  <1>1. a \in Word /\ a[4] = 0 /\ a[5] = 0 /\ a[6] = 0 /\ a[7] = 0 /\ a[8] = 0
    BY AtMostIs DEF AtMost
  <1>2. b \in Word /\ b[6] = 0 /\ b[7] = 0 /\ b[8] = 0
    BY AtMostIs DEF AtMost
  <1>3. PICK d, m : d \in [Bytes -> Int] /\ Times(a, b) = Carried(d) /\ ProductDigits(d, m) /\ ByteProducts(a, b, m)
    BY <1>1, <1>2, TimesIs DEF Product
  <1>4. {1, 2, 3, 4, 5, 6, 7, 8} \subseteq Bytes
    BY DEF Bytes
  <1>5. \A i \in Bytes : /\ m[4][i] = 0 /\ m[5][i] = 0 /\ m[6][i] = 0 /\ m[7][i] = 0 /\ m[8][i] = 0
                         /\ m[i][6] = 0 /\ m[i][7] = 0 /\ m[i][8] = 0
    BY <1>1, <1>2, <1>3, <1>4 DEF ByteProducts
  <1>6. \A i \in Bytes, j \in Bytes : Between(m[i][j], 0, 65025)
    BY <1>3 DEF ByteProducts
  <1>7. Between(m[3][5], 0, 255)
    <2>1. m[3][5] = a[3] * b[5] /\ Between(a[3], 0, 255)
      BY <1>1, <1>3, <1>4, WordBytes DEF ByteProducts
    <2> QED
      BY <2>1 DEF Between
  <1>8. /\ Between(d[1], 0, 195075) /\ Between(d[2], 0, 195075) /\ Between(d[3], 0, 195075)
        /\ Between(d[4], 0, 195075)
    <2>1. /\ d[1] = m[1][1] /\ d[2] = m[1][2] + m[2][1] /\ d[3] = m[1][3] + m[2][2] + m[3][1]
          /\ d[4] = m[1][4] + m[2][3] + m[3][2] + 0
      BY <1>3, <1>4, <1>5 DEF ProductDigits
    <2>2. /\ Between(m[1][1], 0, 65025) /\ Between(m[1][2], 0, 65025) /\ Between(m[2][1], 0, 65025)
          /\ Between(m[1][3], 0, 65025) /\ Between(m[2][2], 0, 65025) /\ Between(m[3][1], 0, 65025)
          /\ Between(m[1][4], 0, 65025) /\ Between(m[2][3], 0, 65025) /\ Between(m[3][2], 0, 65025)
      BY <1>4, <1>6
    <2> QED
      BY <2>1, <2>2 DEF Between
  <1>9. /\ Between(d[5], 0, 195075) /\ Between(d[6], 0, 195075) /\ Between(d[7], 0, 255) /\ d[8] = 0
    <2>1. /\ d[5] = m[1][5] + m[2][4] + m[3][3] + 0 + 0
          /\ d[6] = 0 + m[2][5] + m[3][4] + 0 + 0 + 0 /\ d[7] = 0 + 0 + m[3][5] + 0 + 0 + 0 + 0
          /\ d[8] = 0 + 0 + 0 + 0 + 0 + 0 + 0 + 0
      BY <1>3, <1>4, <1>5 DEF ProductDigits
    <2>2. /\ Between(m[1][5], 0, 65025) /\ Between(m[2][4], 0, 65025) /\ Between(m[3][3], 0, 65025)
          /\ Between(m[2][5], 0, 65025) /\ Between(m[3][4], 0, 65025)
      BY <1>4, <1>6
    <2> QED
      BY <1>7, <2>1, <2>2 DEF Between
  <1>10. AllIn(d, 0, 195075)
    <2>1. \A i \in Bytes : i \in {1, 2, 3, 4, 5, 6, 7, 8}
      BY DEF Bytes
    <2>2. Between(d[7], 0, 195075) /\ Between(d[8], 0, 195075)
      BY <1>9 DEF Between
    <2> QED
      BY <1>8, <1>9, <2>1, <2>2 DEF AllIn
  <1>11. PICK c : CarryOf(d, c)
    BY <1>3, CarriedIs, CarriedType
  <1>12. AllIn(c, 0, 764)
    <2>1. 195075 \in Int /\ 255 * 0 <= 0 /\ 764 \in Nat /\ 195075 <= 255 * 764 + 255
      OBVIOUS
    <2> QED
      BY <1>10, <1>11, <2>1, CarryRange
  <1>13. Between(c[8], 0, 3)
    <2>1. c[7 + 1] = (d[7] + c[7]) \div 256 /\ Between(c[7], 0, 764)
      BY <1>4, <1>11, <1>12 DEF CarryOf, AllIn
    <2>2. c[8] = (d[7] + c[7]) \div 256
      BY <2>1
    <2> QED
      BY <1>9, <2>1, <2>2 DEF Between
  <1>14. Carried(d)[8] = c[8]
    <2>1. Between(c[8], 0, 255)
      BY <1>13 DEF Between
    <2> QED
      BY <1>4, <1>9, <1>11, <2>1, CarryEnds
  <1> QED
    BY <1>3, <1>13, <1>14 DEF Negative, Between

(* A coefficient that was not read is 0. *)
LEMMA CoeffAtMost ==
  ASSUME NEW i \in 1..6
  PROVE  AtMost(2, Coeff(i))
  <1>1. coeffs[i] \in uint16_t
    <2>1. coeffs \in [1..6 -> uint16_t]
      BY Ms5611Assumption, Zenon DEF Ms5611Assumption
    <2> QED
      BY <2>1
  <1>2. \A n \in uint16_t : Between(n, 0, 65535)
    <2> DEFINE top == 2^16 - 1
    <2>1. top \in Int /\ top <= 65535
      OBVIOUS
    <2>2. uint16_t = 0..top
      BY Zenon DEF uint16_t
    <2> HIDE DEF top
    <2> QED
      BY <2>1, <2>2 DEF Between
  <1>3. Between(0, 0, 65535)
    BY DEF Between
  <1> QED
    BY <1>1, <1>2, <1>3, OfNatAtMost DEF Coeff

(* The products and the sum of a warm conversion leave the highest bit     *)
(* alone, so that either shift is the same; and what the last one brings   *)
(* in, of a difference that may be negative, the cast cuts off.            *)
LEMMA SamePressure ==
  ASSUME NEW d1, Between(d1, 0, 16777215), NEW d2, Between(d2, 0, 16777215), ~Cold(d2)
  PROVE  Int32(Pressure(d1, d2, Shr)) = Int32(Pressure(d1, d2, Sar))
  <1> DEFINE t == dt(d2)
             offset == Times(Coeff(4), t)
             slope == Times(Coeff(3), t)
             sens == Plus(Shl(Coeff(1), 15), Shr(slope, 8))
             off == Plus(Shl(Coeff(2), 16), Shr(offset, 7))
             product == Times(OfNat(d1), sens)
             w == Minus(Shr(product, 21), off)
  <1>1. AtMost(3, t)
    <2>1. AtMost(3, OfNat(d2))
      BY OfNatAtMost
    <2>2. AtMost(3, Shl(Coeff(5), 8))
      BY CoeffAtMost, ShlAtMost
    <2> QED
      BY <2>1, <2>2, WarmDifference DEF Cold, dt
  <1> HIDE DEF t
  <1>2. AtMost(5, offset) /\ AtMost(5, slope)
    BY <1>1, CoeffAtMost, ProductOf2And3
  <1>3. Shr(offset, 7) = Sar(offset, 7) /\ Shr(slope, 8) = Sar(slope, 8)
    BY <1>2, NotNegative, ShrIsSar
  <1>4. AtMost(5, sens) /\ Between(sens[5], 0, 1)
    <2>1. AtMost(4, Shl(Coeff(1), 15))
      BY CoeffAtMost, ShlAtMost
    <2>2. AtMost(4, Shr(slope, 8))
      BY <1>2, ShrByte
    <2> QED
      BY <2>1, <2>2, SumOf4
  <1>5. Shr(product, 21) = Sar(product, 21)
    <2>1. ~Negative(product)
      BY <1>4, OfNatAtMost, ProductOf3And5
    <2> QED
      BY <2>1, ShrIsSar
  <1>6. Pressure(d1, d2, Shr) = Shr(w, 15)
    BY DEF Pressure, t
  <1>7. Pressure(d1, d2, Sar) = Sar(w, 15)
    <2>1. Pressure(d1, d2, Sar)
            = Sar(Minus(Sar(Times(OfNat(d1), Plus(Shl(Coeff(1), 15), Sar(slope, 8))), 21),
                        Plus(Shl(Coeff(2), 16), Sar(offset, 7))), 15)
      BY DEF Pressure, t
    <2> HIDE DEF slope, offset
    <2> QED
      BY <1>3, <1>5, <2>1
  <1> HIDE DEF w
  <1>8. \A i \in 1..4 : Shr(w, 15)[i] = Sar(w, 15)[i]
    <2>1. 15 \div 8 = 1
      OBVIOUS
    <2> QED
      BY <2>1, ShrLow
  <1> QED
    BY <1>6, <1>7, <1>8, Int32Low

(* A raw value has 24 bits. *)
Raw == {0} \cup D1s \cup D2s

LEMMA RawIs == \A x \in Raw : Between(x, 0, 16777215)
  <1> DEFINE top == 2^24 - 1
  <1>1. top \in Int /\ top <= 16777215
    OBVIOUS
  <1>2. D1s \cup D2s \subseteq 0..top
    BY Ms5611Assumption, Zenon DEF Ms5611Assumption
  <1> HIDE DEF top
  <1>3. \A x \in D1s \cup D2s : Between(x, 0, 16777215)
    BY <1>1, <1>2 DEF Between
  <1>4. Between(0, 0, 16777215)
    BY DEF Between
  <1> QED
    BY <1>3, <1>4 DEF Raw

-----------------------------------------------------------------------------
(* The type invariant. *)
OutputType == temp \in [1..4 -> Byte] /\ press \in [1..4 -> Byte]
BufferType == rx_d1 \in Raw /\ rx_d2 \in Raw /\ adc \in Raw
ReadType ==
  /\ loaded \in 0..6 /\ free \in Free \cup {PoolSize} /\ alone \in BOOLEAN
  /\ request \in {"boot", "idle", "flight", "ok", "err", "fetch"}
  /\ result \in {"ok", "err"} /\ cqe \in {"none", "ok", "err"}

LEMMA TypeIs == TypeOK <=> ReadType /\ BufferType /\ OutputType
  BY DEF TypeOK, ReadType, BufferType, OutputType, Raw

LEMMA Int32Type ==
  ASSUME NEW a \in Word
  PROVE  Int32(a) \in [1..4 -> Byte]
  <1>1. \A i \in 1..4 : a[i] \in Byte
    BY DEF Word, Bytes
  <1>2. Int32(a) = [i \in 1..4 |-> a[i]]
    <2>1. 4 - 1 + 1 = 4 /\ \A i \in 1..4 : 1 + i - 1 = i /\ i + 1 - 1 = i
      OBVIOUS
    <2> QED
      BY <2>1 DEF Int32
  <1> QED
    BY <1>1, <1>2

(* What is decoded is a pair of int32_t, whatever the raw values were.     *)
LEMMA CompensatedType ==
  ASSUME NEW d1 \in Nat, NEW d2 \in Nat
  PROVE  /\ Int32(Temperature(d2, Shr)) \in [1..4 -> Byte]
         /\ Int32(Pressure(d1, d2, Shr)) \in [1..4 -> Byte]
  <1>1. ASSUME NEW a \in Word
        PROVE  /\ Shr(a, 7) \in Word /\ Shr(a, 8) \in Word /\ Shr(a, 15) \in Word
               /\ Shr(a, 21) \in Word /\ Shr(a, 23) \in Word
    <2>1. /\ 7 \div 8 = 0 /\ 7 % 8 = 7 /\ 8 \div 8 = 1 /\ 8 % 8 = 0 /\ 15 \div 8 = 1 /\ 15 % 8 = 7
          /\ 21 \div 8 = 2 /\ 21 % 8 = 5 /\ 23 \div 8 = 2 /\ 23 % 8 = 7
      OBVIOUS
    <2>2. 2^7 = 128 /\ 2^0 = 1 /\ 2^5 = 32
      OBVIOUS
    <2>3. /\ BytesAndBits(7, 0, 128) /\ BytesAndBits(8, 1, 1) /\ BytesAndBits(15, 1, 128)
          /\ BytesAndBits(21, 2, 32) /\ BytesAndBits(23, 2, 128)
      BY <2>1, <2>2 DEF BytesAndBits
    <2>4. 0 \in Byte
      BY DEF Byte
    <2> QED
      BY <2>3, <2>4, ShiftIs DEF Shr
  <1>2. ASSUME NEW a \in Word PROVE Shl(a, 8) \in Word /\ Shl(a, 15) \in Word /\ Shl(a, 16) \in Word
    <2>1. 2^8 = 256 /\ 2^15 = 32768 /\ 2^16 = 65536
      OBVIOUS
    <2>2. Shl(a, 8) = Times(a, OfNat(256)) /\ Shl(a, 15) = Times(a, OfNat(32768))
          /\ Shl(a, 16) = Times(a, OfNat(65536))
      BY <2>1 DEF Shl
    <2>3. 256 \in Nat /\ 32768 \in Nat /\ 65536 \in Nat
      OBVIOUS
    <2>4. OfNat(256) \in Word /\ OfNat(32768) \in Word /\ OfNat(65536) \in Word
      BY <2>3, OfNatIs
    <2> QED
      BY <2>2, <2>4, TimesType
  <1>3. \A i \in 1..6 : Coeff(i) \in Word
    BY CoeffAtMost DEF AtMost
  <1>4. OfNat(d1) \in Word /\ OfNat(d2) \in Word /\ OfNat(2000) \in Word
    BY OfNatIs
  <1>5. \A a \in Word, b \in Word : Plus(a, b) \in Word /\ Minus(a, b) \in Word /\ Times(a, b) \in Word
    BY SumType, TimesType
  <1>6. dt(d2) \in Word
    BY <1>2, <1>3, <1>4, <1>5 DEF dt
  <1>7. Temperature(d2, Shr) \in Word
    <2>1. Shr(Times(dt(d2), Coeff(6)), 23) \in Word
      BY <1>1, <1>3, <1>5, <1>6
    <2> QED
      BY <1>4, <1>5, <2>1 DEF Temperature
  <1>8. Pressure(d1, d2, Shr) \in Word
    <2> DEFINE off == Plus(Shl(Coeff(2), 16), Shr(Times(Coeff(4), dt(d2)), 7))
               sens == Plus(Shl(Coeff(1), 15), Shr(Times(Coeff(3), dt(d2)), 8))
    <2>1. off \in Word
      BY <1>1, <1>2, <1>3, <1>5, <1>6
    <2>2. sens \in Word
      BY <1>1, <1>2, <1>3, <1>5, <1>6
    <2>3. Pressure(d1, d2, Shr) = Shr(Minus(Shr(Times(OfNat(d1), sens), 21), off), 15)
      BY DEF Pressure
    <2> HIDE DEF off, sens
    <2>4. Minus(Shr(Times(OfNat(d1), sens), 21), off) \in Word
      BY <1>1, <1>4, <1>5, <2>1, <2>2
    <2> QED
      BY <1>1, <2>3, <2>4
  <1> QED
    BY <1>7, <1>8, Int32Type

LEMMA HandsOverType ==
  ASSUME BufferType, HandsOver
  PROVE  OutputType'
  <1>1. rx_d1 \in Nat /\ rx_d2 \in Nat
    BY RawIs DEF BufferType, Between
  <1>2. temp' = Int32(Temperature(rx_d2, Shr)) /\ press' = Int32(Pressure(rx_d1, rx_d2, Shr))
    BY DEF HandsOver, ms5611_compensate_raw
  <1> QED
    BY <1>1, <1>2, CompensatedType DEF OutputType

LEMMA RunsType ==
  ASSUME ReadType, OutputType, NEW op, Runs(op)
  PROVE  ReadType' /\ OutputType'
  <1>1. UNCHANGED <<loaded, free, alone, result, temp, press>>
    BY DEF Runs, pool, output
  <1>2. Posted("ok") \in {"ok", "err"}
    BY DEF ReadType, Posted
  <1>3. request' \in {"boot", "idle", "flight", "ok", "err", "fetch"} /\ cqe' \in {"none", "ok", "err"}
    BY <1>2 DEF Runs, Returns, ReadType
  <1> QED
    BY <1>1, <1>3 DEF ReadType, OutputType

LEMMA TypeStep ==
  ASSUME ReadType, BufferType, OutputType, [Next]_vars
  PROVE  ReadType' /\ BufferType' /\ OutputType'
  <1>1. Zero \in [1..4 -> Byte]
    <2>1. 0 \in Nat
      OBVIOUS
    <2> QED
      BY <2>1, OfNatIs, Int32Type DEF Zero
  <1>2. 0 \in Raw /\ D1s \subseteq Raw /\ D2s \subseteq Raw /\ Left \subseteq Raw
    <2>1. Left \subseteq {0} \cup D1s \cup D2s
      BY Ms5611Assumption, Zenon DEF Ms5611Assumption
    <2> QED
      BY <2>1 DEF Raw
  <1>3. CASE ms5611_init
    BY <1>3 DEF ms5611_init, ReadType, BufferType, OutputType, pool, buffer, output
  <1>4. CASE ms5611_submit
    <2>1. ReadType'
      BY <1>4 DEF ms5611_submit, ReadType
    <2>2. BufferType' /\ OutputType'
      BY <1>1, <1>2, <1>4 DEF ms5611_submit, NoOutput, BufferType, OutputType
    <2> QED
      BY <2>1, <2>2
  <1>5. CASE ms5611_sample_fetch
    <2>1. ReadType'
      BY <1>5 DEF ms5611_sample_fetch, ReadType
    <2>2. BufferType' /\ OutputType'
      BY <1>1, <1>2, <1>5 DEF ms5611_sample_fetch, NoOutput, BufferType, OutputType
    <2> QED
      BY <2>1, <2>2
  <1>6. CASE ms5611_complete_result
    BY <1>6 DEF ms5611_complete_result, ReadType, BufferType, OutputType, pool, buffer, output
  <1>7. CASE ms5611_decoder_decode
    <2>1. ReadType' /\ BufferType'
      BY <1>7 DEF ms5611_decoder_decode, ReadType, BufferType, pool, buffer
    <2>2. HandsOver \/ UNCHANGED output
      BY <1>7 DEF ms5611_decoder_decode
    <2>3. OutputType'
      BY <2>2, HandsOverType DEF OutputType, output
    <2> QED
      BY <2>1, <2>3
  <1>8. CASE FetchReturns
    <2>1. ReadType' /\ BufferType'
      BY <1>8 DEF FetchReturns, ReadType, BufferType, pool, buffer
    <2> QED
      BY <1>8, <2>1, HandsOverType DEF FetchReturns
  <1>9. CASE ConvertD1 \/ ConvertD2
    <2>1. ReadType' /\ OutputType'
      BY <1>9, RunsType DEF ConvertD1, ConvertD2
    <2>2. BufferType'
      BY <1>2, <1>9 DEF ConvertD1, ConvertD2, BufferType, buffer
    <2> QED
      BY <2>1, <2>2
  <1>10. CASE ReadD1 \/ ReadD2
    <2>1. ReadType' /\ OutputType'
      BY <1>10, RunsType DEF ReadD1, ReadD2
    <2>2. BufferType'
      BY <1>2, <1>10 DEF ReadD1, ReadD2, BufferType
    <2> QED
      BY <2>1, <2>2
  <1>11. CASE Delay
    BY <1>11 DEF Delay, Posted, ReadType, BufferType, OutputType, pool, buffer, output
  <1>12. CASE TransferFails
    <2>1. cqe' \in {"none", "ok", "err"}
      BY <1>12 DEF TransferFails, Returns, Posted, ReadType
    <2>2. request' \in {"idle", "flight", "fetch"} /\ result' \in {"ok", "err"}
      BY <1>12 DEF TransferFails, Returns, ReadType
    <2> QED
      BY <1>12, <2>1, <2>2 DEF TransferFails, ReadType, BufferType, OutputType, pool, buffer, output
  <1>13. CASE OtherReads
    BY <1>2, <1>13 DEF OtherReads, ReadType, BufferType, OutputType, buffer, output
  <1>14. CASE UNCHANGED vars
    BY <1>14 DEF vars, ReadType, BufferType, OutputType, pool, buffer, output
  <1> QED
    BY <1>3, <1>4, <1>5, <1>6, <1>7, <1>8, <1>9, <1>10, <1>11, <1>12, <1>13, <1>14 DEF Next

(* Every variable keeps to its type, for any coefficients, raw values and  *)
(* pool: what is handed over is a pair of int32_t, and the buffer never    *)
(* holds what the converter has not delivered.                             *)
THEOREM Ms5611TypeOK == Spec => []TypeOK
  <1>1. Init => ReadType /\ BufferType /\ OutputType
    <2>1. Zero \in [1..4 -> Byte]
      <3>1. 0 \in Nat
        OBVIOUS
      <3> QED
        BY <3>1, OfNatIs, Int32Type DEF Zero
    <2> QED
      BY <2>1 DEF Init, ReadType, BufferType, OutputType, Raw
  <1> QED
    BY <1>1, TypeStep, TypeIs, PTL DEF Spec

(* From 20 degrees up the pressure that is handed over is that of signed   *)
(* arithmetic, for any coefficients and raw values and whatever was read   *)
(* before, although all of it is computed unsigned.                        *)
THEOREM PressureTheorem == Spec => PressureRightWhenWarm
  <1>1. Init => ReadInv
    BY DEF Init, ReadInv
  <1>2. ReadInv /\ [Next]_vars => ReadInv'
    BY ReadNext
  <1>3. ASSUME ReadInv, TypeOK, [Next]_vars, Decoded, ~Cold(rx_d2)
        PROVE  press' = Int32(Pressure(rx_d1, rx_d2, Sar))
    <2>1. press' = Int32(Pressure(rx_d1, rx_d2, Shr))
      BY <1>3, DecodedIs DEF HandsOver, ms5611_compensate_raw
    <2>2. Between(rx_d1, 0, 16777215) /\ Between(rx_d2, 0, 16777215)
      BY <1>3, TypeIs, RawIs DEF BufferType
    <2> QED
      BY <1>3, <2>1, <2>2, SamePressure
  <1> QED
    BY <1>1, <1>2, <1>3, Ms5611TypeOK, PTL DEF Spec, PressureRightWhenWarm
=============================================================================
