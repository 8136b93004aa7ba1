----------------------------- MODULE GnssProofs -----------------------------
(***************************************************************************)
(* Theorems about GnssM10 for a position of any number of words, a clock   *)
(* of any width, any age limit and any number of fixes and ticks; and that *)
(* the thread with its parser is the thread of GnssM10, so that they hold  *)
(* with the positions the parser finds, whatever it makes of the bytes.    *)
(* Then what the parser finds in a read, for any bytes and buffers of any  *)
(* size: the fixes of the frames whole in it, but for a frame in which     *)
(* another sync pair follows; and while all reads are in order, the same   *)
(* of all the bytes read, wherever one read ends and the next begins.      *)
(***************************************************************************)
EXTENDS GnssParser, TLAPS, WellFoundedInduction, SequenceTheorems

(* A store in progress: the fix being copied is the last one parsed, and   *)
(* what has been copied is in the slot that write_idx still names.         *)
StoreInProgress ==
  /\ pc \in {"copy", "wrap"} => pos.n = fixes /\ pos.valid /\ fixes > 0
  /\ pc = "copy" => \A w \in 1..copied : ring_buffer[write_idx][w] = pos
  /\ pc = "wrap" => write_idx # 0

(* published names the newest fix whose store is complete. *)
PublishedIs ==
  /\ pc = "copy" \/ (pc = "wrap" /\ write_idx = 2) => published.n + 1 = fixes
  /\ pc = "wrap" /\ write_idx = 1 => published = pos
  /\ pc \notin {"copy", "wrap"} => published.n = fixes

(* Away from slot 0 the thread leaves the newest fix whole in it; in slot 0*)
(* it writes over a fix that is at most one behind.                        *)
FirstSlot ==
  /\ write_idx # 0 => published.valid /\ \A w \in 1..Words : ring_buffer[0][w] = published
  /\ \A w \in 1..Words : ring_buffer[0][w].n + 1 >= published.n

Inv == TypeOK /\ StoreInProgress /\ PublishedIs /\ FirstSlot

LEMMA Const == Words \in Nat \ {0} /\ RING_BUFFER_SIZE = 2 /\ Slots = {0, 1}
               /\ MaxFixes \in Nat /\ MaxTime \in Nat
  BY GnssAssumption DEF Slots

LEMMA NoneType == NoFix \in Fix /\ None.ret = "none" /\ None.pos \in Position
  <1>1. NoFix \in Fix
    BY Const DEF NoFix, Fix
  <1>2. [w \in 1..Words |-> NoFix] \in Position
    BY <1>1 DEF Position
  <1> QED
    BY <1>1, <1>2 DEF None

LEMMA InitInv == Init => Inv
  <1> SUFFICES ASSUME Init PROVE Inv
    OBVIOUS
  <1> USE Const DEF Init
  <1>1. ring_buffer \in [Slots -> Position]
    BY NoneType DEF Position
  <1>2. TypeOK
    <2>1. result.ret = "none" /\ result.pos \in Position
      BY NoneType
    <2>2. pos \in Fix /\ published \in Fix
      BY NoneType
    <2>3. /\ write_idx \in 0..RING_BUFFER_SIZE /\ read_idx = 0
          /\ pc # "wrap" => write_idx \in Slots
      OBVIOUS
    <2>4. /\ configured \in BOOLEAN /\ config_ok \in BOOLEAN /\ config_retry_count \in 0..5
      <3>1. configured \in BOOLEAN
        BY Zenon
      <3>2. config_ok \in BOOLEAN
        BY Zenon
      <3>3. config_retry_count \in 0..5
        BY SMT
      <3> QED
        BY <3>1, <3>2, <3>3, Zenon
    <2>5. /\ pc \in {"init", "configure", "read", "parse", "copy", "wrap"}
          /\ source \in {"ubx", "nmea"} /\ copied \in 0..Words
          /\ uptime \in 0..MaxTime /\ fixes \in 0..MaxFixes
      OBVIOUS
    <2> HIDE DEF Init
    <2> QED
      BY <1>1, <2>1, <2>2, <2>3, <2>4, <2>5 DEF TypeOK
  <1>3. StoreInProgress /\ PublishedIs /\ FirstSlot
    BY DEF StoreInProgress, PublishedIs, FirstSlot, NoFix
  <1> QED
    BY <1>2, <1>3 DEF Inv

(* The ring after one word of a position has been copied. *)
LEMMA CopyInv ==
  ASSUME Inv, CopyWord
  PROVE  Inv'
  <1> USE Const
  <1>1. /\ write_idx \in {0, 1} /\ copied \in 0..Words /\ copied + 1 \in 1..Words
        /\ copied' = copied + 1 /\ pos \in Fix /\ ring_buffer \in [Slots -> Position]
    BY DEF Inv, TypeOK, CopyWord
  <1>2. /\ ring_buffer' \in [Slots -> Position]
        /\ ring_buffer'[write_idx][copied + 1] = pos
        /\ \A w \in 1..Words : w # copied + 1
              => ring_buffer'[write_idx][w] = ring_buffer[write_idx][w]
        /\ \A s \in Slots : s # write_idx => ring_buffer'[s] = ring_buffer[s]
    BY <1>1 DEF CopyWord, Position
  <1>3. UNCHANGED <<write_idx, pc, pos, fixes, published>>
    BY DEF CopyWord
  <1>4. TypeOK'
    BY <1>1, <1>2 DEF Inv, TypeOK, CopyWord, setup
  <1>5. StoreInProgress'
    BY <1>1, <1>2, <1>3 DEF Inv, StoreInProgress
  <1>6. PublishedIs'
    BY <1>3 DEF Inv, PublishedIs
  <1>7. pos.n + 1 >= published.n
    BY <1>1 DEF CopyWord, Inv, StoreInProgress, PublishedIs, TypeOK, Fix
  <1>8. FirstSlot'
    <2>1. CASE write_idx = 0
      <3>1. ASSUME NEW w \in 1..Words PROVE ring_buffer'[0][w].n + 1 >= published.n
        BY <1>2, <1>7, <2>1 DEF Inv, FirstSlot
      <3> QED
        BY <1>3, <2>1, <3>1 DEF FirstSlot
    <2>2. CASE write_idx # 0
      <3>1. ring_buffer'[0] = ring_buffer[0]
        BY <1>2, <2>2
      <3> QED
        BY <1>3, <3>1 DEF Inv, FirstSlot
    <2> QED
      BY <2>1, <2>2
  <1> QED
    BY <1>4, <1>5, <1>6, <1>8 DEF Inv

(* The index moves past the slot that was filled. *)
LEMMA IncrementInv ==
  ASSUME Inv, Increment
  PROVE  Inv'
  <1> USE Const
  <1>1. /\ write_idx \in {0, 1} /\ write_idx' = write_idx + 1 /\ pc = "copy" /\ pc' = "wrap"
        /\ copied = Words /\ UNCHANGED <<ring_buffer, pos, fixes>>
        /\ published' = IF write_idx = 0 THEN pos ELSE published
    BY DEF Inv, TypeOK, Increment, store
  <1>2. TypeOK'
    BY <1>1 DEF Inv, TypeOK, Increment, store, setup
  <1>3. StoreInProgress'
    BY <1>1 DEF Inv, StoreInProgress
  <1>4. PublishedIs'
    BY <1>1 DEF Inv, StoreInProgress, PublishedIs
  <1>5. FirstSlot'
    <2>1. CASE write_idx = 0
      BY <1>1, <2>1 DEF Inv, StoreInProgress, FirstSlot, TypeOK, Fix
    <2>2. CASE write_idx = 1
      BY <1>1, <2>2 DEF Inv, FirstSlot
    <2> QED
      BY <1>1, <2>1, <2>2
  <1> QED
    BY <1>2, <1>3, <1>4, <1>5 DEF Inv

LEMMA WrapInv ==
  ASSUME Inv, Wrap
  PROVE  Inv'
  <1> USE Const
  <1>1. /\ write_idx \in 0..2 /\ write_idx' = (IF write_idx = 2 THEN 0 ELSE write_idx)
        /\ pc = "wrap" /\ pc' \in {"configure", "parse"} /\ published' = pos
        /\ UNCHANGED <<ring_buffer, pos, fixes>> /\ pos \in Fix /\ pos.n = fixes /\ pos.valid
    BY DEF Inv, TypeOK, Wrap, store, StoreInProgress
  <1>2. TypeOK'
    BY <1>1 DEF Inv, TypeOK, Wrap, store, setup
  <1>3. StoreInProgress' /\ PublishedIs'
    BY <1>1 DEF StoreInProgress, PublishedIs
  <1>4. FirstSlot'
    <2>1. CASE write_idx = 2
      <3>1. published.n + 1 = pos.n /\ published \in Fix
        BY <1>1, <2>1 DEF Inv, PublishedIs, TypeOK
      <3> QED
        BY <1>1, <2>1, <3>1 DEF Inv, FirstSlot, Fix
    <2>2. CASE write_idx = 1
      BY <1>1, <2>2 DEF Inv, FirstSlot, PublishedIs
    <2>3. CASE write_idx = 0
      BY <1>1, <2>3 DEF Inv, StoreInProgress
    <2> QED
      BY <1>1, <2>1, <2>2, <2>3
  <1> QED
    BY <1>2, <1>3, <1>4 DEF Inv

(* The actions that change neither the ring nor an index. *)
LEMMA OtherInv ==
  ASSUME Inv, m10_init \/ Configure \/ ReadNothing \/ ReadBytes \/ ParseFix \/ ParseEnd \/ Tick
  PROVE  Inv'
  <1> USE Const DEF Inv, TypeOK, m10, setup, store
  <1>1. CASE m10_init
    <2>1. setup' = setup \/ (configured' \in BOOLEAN /\ config_ok' \in BOOLEAN
                             /\ config_retry_count' = config_retry_count)
      BY <1>1 DEF m10_init, m10_configure
    <2>2. TypeOK'
      BY <1>1, <2>1 DEF m10_init
    <2> QED
      BY <1>1, <2>2 DEF m10_init, StoreInProgress, PublishedIs, FirstSlot
  <1>2. CASE Configure
    <2>1. setup' = setup \/ (configured' \in BOOLEAN /\ config_ok' \in BOOLEAN
                             /\ config_retry_count' \in 0..5)
      <3>1. CASE ~configured /\ config_retry_count < 5
        <4>1. PICK ok \in BOOLEAN : config_ok' = ok /\ configured' = TRUE
                 /\ config_retry_count' = config_retry_count
          <5>1. PICK ok \in BOOLEAN :
                   /\ config_ok' = ok /\ configured' = (m10_configure(ok) = 0)
                   /\ config_retry_count' = config_retry_count + (IF configured' THEN 0 ELSE 1)
            BY <1>2, <3>1 DEF Configure
          <5>2. configured' = TRUE
            BY <5>1 DEF m10_configure
          <5>3. config_retry_count' = config_retry_count + 0
            BY <5>1, <5>2
          <5> QED
            BY <5>1, <5>2, <5>3
        <4> QED
          BY <4>1
      <3>2. CASE ~(~configured /\ config_retry_count < 5)
        BY <1>2, <3>2 DEF Configure
      <3> QED
        BY <3>1, <3>2
    <2>2. TypeOK'
      BY <1>2, <2>1 DEF Configure
    <2> QED
      BY <1>2, <2>2 DEF Configure, StoreInProgress, PublishedIs, FirstSlot
  <1>3. CASE ReadNothing \/ ReadBytes \/ ParseEnd
    BY <1>3 DEF ReadNothing, ReadBytes, ParseEnd, StoreInProgress, PublishedIs, FirstSlot
  <1>4. CASE ParseFix
    <2>1. pos' \in Fix
      BY <1>4 DEF ParseFix, Fix
    <2>2. TypeOK'
      BY <1>4, <2>1 DEF ParseFix
    <2>3. StoreInProgress'
      BY <1>4 DEF ParseFix, StoreInProgress
    <2>4. PublishedIs' /\ FirstSlot'
      BY <1>4 DEF ParseFix, PublishedIs, FirstSlot
    <2> QED
      BY <2>2, <2>3, <2>4
  <1>5. CASE Tick
    BY <1>5 DEF Tick, StoreInProgress, PublishedIs, FirstSlot
  <1> QED
    BY <1>1, <1>2, <1>3, <1>4, <1>5

(* What gps_get_latest_if_fresh may answer. *)
LEMMA FreshAnswer ==
  ASSUME gps_get_latest_if_fresh
  PROVE  \/ Return("fresh", "-ENODATA", None.pos)
         \/ Return("fresh", "-ETIMEDOUT", None.pos)
         \/ /\ write_idx # read_idx
            /\ Return("fresh", "0", ring_buffer[read_idx])
  BY DEF gps_get_latest_if_fresh

LEMMA ReturnInv ==
  ASSUME Inv, gps_get_latest \/ gps_get_latest_if_fresh
  PROVE  Inv'
  <1>1. None.pos \in Position /\ ring_buffer[read_idx] \in Position
    BY Const, NoneType DEF Inv, TypeOK
  <1>2. ASSUME NEW call, NEW ret \in {"0", "-ENODATA", "-ETIMEDOUT"}, NEW p \in Position,
               Return(call, ret, p)
        PROVE  Inv'
    <2>1. result'.ret = ret /\ result'.pos = p
      BY <1>2 DEF Return
    <2> QED
      BY <1>2, <2>1
      DEF Return, m10, setup, store, Inv, TypeOK, StoreInProgress, PublishedIs, FirstSlot
  <1>3. \/ Return("fresh", "-ENODATA", None.pos)
        \/ Return("fresh", "-ETIMEDOUT", None.pos)
        \/ Return("fresh", "0", ring_buffer[read_idx])
        \/ Return("latest", "0", ring_buffer[read_idx])
    BY FreshAnswer DEF gps_get_latest
  <1> QED
    BY <1>1, <1>2, <1>3

LEMMA NextInv == Inv /\ [Next]_vars => Inv'
  <1> SUFFICES ASSUME Inv, [Next]_vars PROVE Inv'
    OBVIOUS
  <1>1. CASE UNCHANGED vars
    BY <1>1 DEF vars, m10, setup, store, Inv, TypeOK, StoreInProgress, PublishedIs, FirstSlot
  <1> QED
    BY <1>1, OtherInv, ReturnInv, CopyInv, IncrementInv, WrapInv DEF Next, m10_acquire_thread

THEOREM GnssInv == Spec => []Inv
  BY InitInv, NextInv, PTL DEF Spec

(* The ring, its indices and the thread keep to their types; in particular *)
(* a position is never written outside the ring.                           *)
THEOREM GnssTypeOK == Spec => []TypeOK
  <1>1. Inv => TypeOK
    BY DEF Inv
  <1> QED
    BY <1>1, GnssInv, PTL
-----------------------------------------------------------------------------
(* Only the calls of the API change result. *)
LEMMA OnlyCallsReturn ==
  ASSUME [Next]_vars, result' # result
  PROVE  gps_get_latest \/ gps_get_latest_if_fresh
  BY DEF Next, vars, m10_init, m10_acquire_thread, Configure, ReadNothing, ReadBytes,
         ParseFix, ParseEnd, CopyWord, Increment, Wrap, Tick

LEMMA FreshStep ==
  ASSUME Inv, [Next]_vars, Returns("fresh")
  PROVE  \A w \in 1..Words : result'.pos[w] = published /\ published.valid
  <1>1. result'.call = "fresh" /\ result'.ret = "0" /\ result' # result
    BY DEF Returns
  <1>2. gps_get_latest_if_fresh
    BY <1>1, OnlyCallsReturn DEF gps_get_latest, Return
  <1>3. write_idx # read_idx /\ result'.pos = ring_buffer[read_idx]
    BY <1>1, <1>2, FreshAnswer DEF Return
  <1> QED
    BY <1>3 DEF Inv, TypeOK, FirstSlot

(* A position handed out as fresh is the newest fix, whole and valid, even *)
(* though the call does not stop the thread that writes the ring.          *)
THEOREM FreshTheorem == Spec => FreshIsNewest
  <1>1. Inv /\ [Next]_vars
          => [Returns("fresh") => \A w \in 1..Words : result'.pos[w] = published /\ published.valid]_vars
    BY FreshStep
  <1> QED
    BY <1>1, GnssInv, PTL DEF Spec, FreshIsNewest

LEMMA LatestStep ==
  ASSUME Inv, [Next]_vars, Returns("latest")
  PROVE  \A w \in 1..Words : result'.pos[w].n + 1 >= published.n
  <1>1. result'.call = "latest" /\ result' # result
    BY DEF Returns
  <1>2. gps_get_latest
    BY <1>1, OnlyCallsReturn, FreshAnswer DEF Return
  <1>3. result'.pos = ring_buffer[0]
    BY <1>2 DEF gps_get_latest, Return, Inv, TypeOK
  <1> QED
    BY <1>3 DEF Inv, FirstSlot

(* No word of a position gps_get_latest returns is older than the fix      *)
(* before the newest one.                                                  *)
THEOREM LatestTheorem == Spec => LatestAtMostOneBehind
  <1>1. Inv /\ [Next]_vars
          => [Returns("latest") => \A w \in 1..Words : result'.pos[w].n + 1 >= published.n]_vars
    BY LatestStep
  <1> QED
    BY <1>1, GnssInv, PTL DEF Spec, LatestAtMostOneBehind
-----------------------------------------------------------------------------
(* Every step with the parser is a step of GnssM10 or leaves the ring and  *)
(* the thread alone.                                                       *)
LEMMA ParserStep == [ParserNext]_allVars => [Next]_vars
<1> SUFFICES ASSUME [ParserNext]_allVars PROVE [Next]_vars
  OBVIOUS
<1>1. CASE Send
  BY <1>1 DEF Send
<1>2. CASE ReadAndParse
  BY <1>2 DEF ReadAndParse, Next, m10_acquire_thread
<1>3. CASE StoreFound
  BY <1>3 DEF StoreFound, Next, m10_acquire_thread
<1>4. CASE LoopEnd
  BY <1>4 DEF LoopEnd, Next, m10_acquire_thread
<1>5. CASE ReadFails
  BY <1>5 DEF ReadFails, Next, m10_acquire_thread
<1>6. CASE Elsewhere
  BY <1>6 DEF Elsewhere, Next, m10_acquire_thread
<1>7. CASE UNCHANGED allVars
  BY <1>7 DEF allVars
<1> QED
  BY <1>1, <1>2, <1>3, <1>4, <1>5, <1>6, <1>7 DEF ParserNext

(* The driver with its parser implements the driver that stores any fixes. *)
THEOREM ParserImplementsM10 == ParserSpec => Spec
<1>1. ParserInit => Init
  BY DEF ParserInit
<1> QED
  BY <1>1, ParserStep, PTL DEF ParserSpec, Spec

(* With the parser, too, a position that gps_get_latest_if_fresh returns   *)
(* is one position and the newest stored.                                  *)
THEOREM ParserFreshIsNewest == ParserSpec => FreshIsNewest
BY ParserImplementsM10, FreshTheorem, PTL

(* With the parser, too, what gps_get_latest returns is at most one fix    *)
(* behind the newest stored, in every word.                                *)
THEOREM ParserLatest == ParserSpec => LatestAtMostOneBehind
BY ParserImplementsM10, LatestTheorem, PTL
-----------------------------------------------------------------------------
(* Induction over the numbers, by the least one for which it would fail.   *)
LEMMA LeastNumber ==
  ASSUME NEW T \in SUBSET Nat, T # {}
  PROVE  \E x \in T : \A y \in T : x <= y
  <1> DEFINE R == OpToRel(<, Nat)
  <1>1. IsWellFoundedOn(R, Nat)
    BY NatLessThanWellFounded
  <1>2. \A x, y \in Nat : <<x, y>> \in R <=> x < y
    BY DEF OpToRel
  <1> HIDE DEF R
  <1>3. PICK x \in T : \A y \in T : ~(<<y, x>> \in R)
    BY <1>1, WFMin
  <1>4. \A y \in T : y \in Nat /\ x \in Nat /\ ~(y < x)
    BY <1>2, <1>3
  <1>5. \A y \in T : x <= y
    BY <1>4
  <1> QED
    BY <1>5

LEMMA Induction ==
  ASSUME NEW n \in Nat, NEW S, 0 \in S, \A i \in 0..(n - 1) : i \in S => i + 1 \in S
  PROVE  0..n \subseteq S
  <1> DEFINE T == {i \in 0..n : i \notin S}
  <1> SUFFICES ASSUME T # {} PROVE FALSE
    OBVIOUS
  <1>1. PICK x \in T : \A y \in T : x <= y
    <2>1. T \in SUBSET Nat
      OBVIOUS
    <2> HIDE DEF T
    <2> QED
      BY <2>1, LeastNumber
  <1>2. x # 0 /\ x \in 0..n
    OBVIOUS
  <1>3. x - 1 \in 0..(n - 1) /\ x - 1 \in 0..n /\ ~(x <= x - 1) /\ (x - 1) + 1 = x
    BY <1>2
  <1>4. x - 1 \in S
    BY <1>1, <1>3
  <1> QED
    BY <1>3, <1>4

(* The loop over the bytes is what its recursive definition says. *)
LEMMA LoopIs ==
  ASSUME NEW buf, NEW ret \in Nat
  PROVE  LET loop == ParseUbx(buf, ret)
         IN /\ loop[0] = State(buf, parse_len, awaiting_sync, << >>)
            /\ \A i \in 0..(ret - 1) : loop[i + 1] = ParseByte(loop[i], i, ret)
  <1> DEFINE start == State(buf, parse_len, awaiting_sync, << >>)
             Step(s, i) == ParseByte(s, i, ret)
             Once(f, n) == [i \in 0..n |-> IF i = 0 THEN start ELSE Step(f[i - 1], i - 1)]
             loop == CHOOSE f : f = Once(f, ret)
  <1>1. ParseUbx(buf, ret) = loop
    BY Zenon DEF ParseUbx
  <1> HIDE DEF start, Step
  <1> DEFINE S == {n \in Nat : \E f : f = Once(f, n)}
  <1>2. 0 \in S
    <2> DEFINE f == [i \in 0..0 |-> start]
    <2>1. f = Once(f, 0)
      OBVIOUS
    <2> QED
      BY <2>1
  <1>3. ASSUME NEW n \in Nat, n \in S PROVE n + 1 \in S
    <2>1. PICK f : f = Once(f, n)
      BY <1>3
    <2> DEFINE g == [i \in 0..(n + 1) |-> IF i <= n THEN f[i] ELSE Step(f[n], n)]
    <2>2. \A i \in 0..n : f[i] = IF i = 0 THEN start ELSE Step(f[i - 1], i - 1)
      BY <2>1
    <2>3. ASSUME NEW i \in 0..(n + 1)
          PROVE  g[i] = IF i = 0 THEN start ELSE Step(g[i - 1], i - 1)
      <3>1. CASE i = 0
        BY <2>2, <3>1
      <3>2. CASE i \in 1..n
        <4>1. i \in 0..n /\ i <= n /\ i - 1 \in 0..(n + 1) /\ i - 1 <= n /\ i # 0
          BY <3>2
        <4>2. g[i] = f[i] /\ g[i - 1] = f[i - 1]
          BY <4>1
        <4> QED
          BY <2>2, <4>1, <4>2
      <3>3. CASE i = n + 1
        <4>1. ~(i <= n) /\ i - 1 = n /\ n \in 0..(n + 1) /\ n <= n /\ i # 0
          BY <3>3
        <4>2. g[i] = Step(f[n], n) /\ g[n] = f[n]
          BY <4>1
        <4> QED
          BY <4>1, <4>2
      <3> QED
        BY <3>1, <3>2, <3>3
    <2>4. g = Once(g, n + 1)
      BY <2>3
    <2> HIDE DEF g
    <2>5. \E h : h = Once(h, n + 1)
      BY <2>4
    <2> QED
      BY <2>5
  <1>4. ret \in S
    <2>1. 0..ret \subseteq S
      <3> HIDE DEF S
      <3> QED
        BY <1>2, <1>3, Induction
    <2> QED
      BY <2>1
  <1>5. loop = Once(loop, ret)
    BY <1>4
  <1> HIDE DEF loop
  <1>6. loop[0] = start
    BY <1>5
  <1>7. ASSUME NEW i \in 0..(ret - 1) PROVE loop[i + 1] = Step(loop[i], i)
    <2>1. i + 1 \in 0..ret /\ i + 1 # 0 /\ (i + 1) - 1 = i
      OBVIOUS
    <2> QED
      BY <1>5, <2>1
  <1> QED
    BY <1>1, <1>6, <1>7 DEF start, Step

LEMMA ParserConstants ==
  /\ BufSize \in Nat /\ MaxPayload \in Nat /\ PvtLen \in Nat /\ PvtLen > 0
  /\ PvtLen + 5 <= BufSize /\ Header = 4
  BY ParserAssumption DEF Header
-----------------------------------------------------------------------------
(* A frame that starts at p is still open after i bytes: no other has      *)
(* started since, its length is not too much, and its end is to come.      *)
LenAt(b, p) == b[p + 3].as
OpenAt(b, p, i) ==
  /\ p \in 1..i /\ Pair(b, p) /\ \A q \in (p + 1)..i : ~Pair(b, q)
  /\ i >= p + 3 => LenAt(b, p) <= MaxPayload /\ i < p + Header + LenAt(b, p)

LEMMA LenIs ==
  ASSUME NEW b \in Seq(Byte), NEW p \in Nat, p >= 1, p + 3 <= Len(b)
  PROVE  LenAt(b, p) \in Nat
  <1>1. p + 3 \in 1..Len(b)
    OBVIOUS
  <1>2. b[p + 3] \in Byte
    BY <1>1
  <1> QED
    BY <1>2 DEF LenAt, Byte

(* There is at most one; what ends at the next byte was open before it;    *)
(* what is open after the next byte starts with it or was open before.     *)
LEMMA OpenOne ==
  ASSUME NEW b, NEW i \in Nat, NEW p, OpenAt(b, p, i), NEW q, OpenAt(b, q, i)
  PROVE  p = q
  BY DEF OpenAt

LEMMA EndsOpen ==
  ASSUME NEW b \in Seq(Byte), NEW i \in 0..(Len(b) - 1), NEW p \in 1..((i + 1) - Header), EndsAt(b, p, i + 1)
  PROVE  OpenAt(b, p, i)
  <1>1. p \in 1..i /\ p + 3 <= Len(b) /\ p \in Nat
    BY ParserConstants
  <1>2. LenAt(b, p) \in Nat
    BY <1>1, LenIs
  <1>3. /\ Pair(b, p) /\ LenAt(b, p) <= MaxPayload /\ i + 1 = p + Header + LenAt(b, p)
        /\ \A q \in (p + 1)..(i + 1) : ~Pair(b, q)
    BY DEF EndsAt, LenAt
  <1>4. \A q \in (p + 1)..i : ~Pair(b, q)
    BY <1>3
  <1> QED
    BY <1>1, <1>2, <1>3, <1>4, ParserConstants DEF OpenAt

LEMMA OpenBefore ==
  ASSUME NEW b \in Seq(Byte), NEW i \in 0..(Len(b) - 1), NEW p, OpenAt(b, p, i + 1), p # i + 1
  PROVE  OpenAt(b, p, i)
  <1>1. /\ p \in 1..(i + 1) /\ Pair(b, p) /\ \A q \in (p + 1)..(i + 1) : ~Pair(b, q)
        /\ i + 1 >= p + 3 => LenAt(b, p) <= MaxPayload /\ i + 1 < p + Header + LenAt(b, p)
    BY DEF OpenAt
  <1>2. p \in 1..i /\ \A q \in (p + 1)..i : ~Pair(b, q)
    BY <1>1
  <1>3. ASSUME i >= p + 3 PROVE LenAt(b, p) <= MaxPayload /\ i < p + Header + LenAt(b, p)
    <2>1. LenAt(b, p) \in Nat
      BY <1>2, <1>3, LenIs
    <2> QED
      BY <1>1, <1>3, <2>1, ParserConstants
  <1> QED
    BY <1>1, <1>2, <1>3 DEF OpenAt

LEMMA NothingEnds ==
  ASSUME NEW b, NEW i, \A p \in 1..(i - Header) : ~EndsAt(b, p, i) \/ ~HasFix(b, p)
  PROVE  FixAt(b, i) = << >>
  <1>1. FixStarts(b, i) = {}
    BY DEF FixStarts
  <1> QED
    BY <1>1 DEF FixAt

LEMMA OneFix ==
  ASSUME NEW b, NEW i \in Nat, NEW p \in FixStarts(b, i)
  PROVE  FixAt(b, i) = << SubSeq(b, p + Header, p + Header + PvtLen - 1) >>
  <1>1. ASSUME NEW q \in FixStarts(b, i) PROVE q = p
    <2>1. p \in 1..(i - 4) /\ q \in 1..(i - 4) /\ EndsAt(b, p, i) /\ EndsAt(b, q, i)
      BY <1>1, ParserConstants DEF FixStarts
    <2>2. CASE p < q
      BY <2>1, <2>2 DEF EndsAt
    <2>3. CASE q < p
      BY <2>1, <2>3 DEF EndsAt
    <2> QED
      BY <2>1, <2>2, <2>3
  <1>2. (CHOOSE q \in FixStarts(b, i) : TRUE) = p
    BY <1>1
  <1>3. FixStarts(b, i) # {}
    OBVIOUS
  <1> QED
    BY <1>2, <1>3 DEF FixAt

(* What a byte adds to the fixes: none where a frame starts, none where    *)
(* none is open, and that of the open one if it ends there.                *)
LEMMA FixOfPair ==
  ASSUME NEW b, NEW i \in Nat, Pair(b, i + 1)
  PROVE  FixAt(b, i + 1) = << >>
  <1>1. ASSUME NEW p \in 1..((i + 1) - Header), EndsAt(b, p, i + 1) PROVE FALSE
    <2>1. i + 1 \in (p + 1)..(i + 1)
      BY ParserConstants
    <2> QED
      BY <1>1, <2>1 DEF EndsAt
  <1>2. \A p \in 1..((i + 1) - Header) : ~EndsAt(b, p, i + 1) \/ ~HasFix(b, p)
    BY <1>1, Zenon
  <1> QED
    BY <1>2, NothingEnds, Zenon

LEMMA FixOfNone ==
  ASSUME NEW b \in Seq(Byte), NEW i \in 0..(Len(b) - 1), \A p \in 1..i : ~OpenAt(b, p, i)
  PROVE  FixAt(b, i + 1) = << >>
  <1>1. ASSUME NEW p \in 1..((i + 1) - Header), EndsAt(b, p, i + 1) PROVE FALSE
    <2>1. OpenAt(b, p, i)
      BY <1>1, EndsOpen
    <2> QED
      BY <2>1 DEF OpenAt
  <1>2. \A p \in 1..((i + 1) - Header) : ~EndsAt(b, p, i + 1) \/ ~HasFix(b, p)
    BY <1>1, Zenon
  <1> QED
    BY <1>2, NothingEnds, Zenon

LEMMA FixOfOpen ==
  ASSUME NEW b \in Seq(Byte), NEW i \in 0..(Len(b) - 1), NEW p, OpenAt(b, p, i), ~Pair(b, i + 1)
  PROVE  IF i >= p + 3 /\ i + 1 = p + Header + LenAt(b, p) /\ HasFix(b, p)
           THEN FixAt(b, i + 1) = << SubSeq(b, p + Header, p + Header + PvtLen - 1) >>
           ELSE FixAt(b, i + 1) = << >>
  <1>1. p \in 1..i /\ i \in Nat /\ Pair(b, p) /\ \A q \in (p + 1)..i : ~Pair(b, q)
    BY DEF OpenAt
  <1>2. CASE i >= p + 3 /\ i + 1 = p + Header + LenAt(b, p) /\ HasFix(b, p)
    <2>1. LenAt(b, p) <= MaxPayload /\ p \in 1..((i + 1) - Header)
      BY <1>1, <1>2, ParserConstants DEF OpenAt
    <2>2. \A q \in (p + 1)..(i + 1) : ~Pair(b, q)
      BY <1>1
    <2>3. EndsAt(b, p, i + 1)
      BY <1>1, <1>2, <2>1, <2>2 DEF EndsAt, LenAt
    <2>4. p \in FixStarts(b, i + 1)
      <3>1. p \in 1..((i + 1) - Header) /\ HasFix(b, p)
        BY <1>2, <2>1
      <3> QED
        BY <2>3, <3>1, Zenon DEF FixStarts
    <2> QED
      BY <1>1, <1>2, <2>4, OneFix
  <1>3. CASE ~(i >= p + 3 /\ i + 1 = p + Header + LenAt(b, p) /\ HasFix(b, p))
    <2>1. ASSUME NEW q \in 1..((i + 1) - Header), EndsAt(b, q, i + 1), HasFix(b, q) PROVE FALSE
      <3>1. OpenAt(b, q, i)
        BY <2>1, EndsOpen
      <3>2. q = p
        BY <1>1, <3>1, OpenOne
      <3>3. i >= p + 3
        BY <1>1, <3>2, ParserConstants
      <3>4. i + 1 = p + Header + LenAt(b, p)
        BY <2>1, <3>2 DEF EndsAt, LenAt
      <3> QED
        BY <1>3, <2>1, <3>2, <3>3, <3>4
    <2>2. \A q \in 1..((i + 1) - Header) : ~EndsAt(b, q, i + 1) \/ ~HasFix(b, q)
      BY <2>1, Zenon
    <2>3. FixAt(b, i + 1) = << >>
      BY <2>2, NothingEnds, Zenon
    <2> QED
      BY <1>3, <2>3
  <1> QED
    BY <1>2, <1>3

(* The fixes by each byte are what their recursive definition says. *)
LEMMA FixesIs ==
  ASSUME NEW b, Len(b) \in Nat
  PROVE  /\ FixesBy(b)[0] = << >>
         /\ \A i \in 1..Len(b) : FixesBy(b)[i] = FixesBy(b)[i - 1] \o FixAt(b, i)
  <1> DEFINE ret == Len(b)
             Step(w, i) == w \o FixAt(b, i)
             Once(f, n) == [i \in 0..n |-> IF i = 0 THEN << >> ELSE Step(f[i - 1], i)]
             loop == CHOOSE f : f = Once(f, ret)
  <1>1. FixesBy(b) = loop
    BY Zenon DEF FixesBy
  <1> HIDE DEF Step
  <1> DEFINE S == {n \in Nat : \E f : f = Once(f, n)}
  <1>2. 0 \in S
    <2> DEFINE f == [i \in 0..0 |-> << >>]
    <2>1. f = Once(f, 0)
      OBVIOUS
    <2> QED
      BY <2>1
  <1>3. ASSUME NEW n \in Nat, n \in S PROVE n + 1 \in S
    <2>1. PICK f : f = Once(f, n)
      BY <1>3
    <2> DEFINE g == [i \in 0..(n + 1) |-> IF i <= n THEN f[i] ELSE Step(f[n], n + 1)]
    <2>2. \A i \in 0..n : f[i] = IF i = 0 THEN << >> ELSE Step(f[i - 1], i)
      BY <2>1
    <2>3. ASSUME NEW i \in 0..(n + 1)
          PROVE  g[i] = IF i = 0 THEN << >> ELSE Step(g[i - 1], i)
      <3>1. CASE i = 0
        BY <2>2, <3>1
      <3>2. CASE i \in 1..n
        <4>1. i \in 0..n /\ i <= n /\ i - 1 \in 0..(n + 1) /\ i - 1 <= n /\ i # 0
          BY <3>2
        <4>2. g[i] = f[i] /\ g[i - 1] = f[i - 1]
          BY <4>1
        <4> QED
          BY <2>2, <4>1, <4>2
      <3>3. CASE i = n + 1
        <4>1. ~(i <= n) /\ i - 1 = n /\ n \in 0..(n + 1) /\ n <= n /\ i # 0
          BY <3>3
        <4>2. g[i] = Step(f[n], n + 1) /\ g[n] = f[n]
          BY <4>1
        <4> QED
          BY <3>3, <4>1, <4>2
      <3> QED
        BY <3>1, <3>2, <3>3
    <2>4. g = Once(g, n + 1)
      BY <2>3
    <2> HIDE DEF g
    <2>5. \E h : h = Once(h, n + 1)
      BY <2>4
    <2> QED
      BY <2>5
  <1>4. ret \in S
    <2>1. 0..ret \subseteq S
      <3> HIDE DEF S
      <3> QED
        BY <1>2, <1>3, Induction
    <2> QED
      BY <2>1
  <1>5. loop = Once(loop, ret)
    BY <1>4
  <1> HIDE DEF loop
  <1>6. loop[0] = << >>
    BY <1>5
  <1>7. \A i \in 1..ret : loop[i] = Step(loop[i - 1], i)
    <2>1. \A i \in 1..ret : i \in 0..ret /\ i # 0
      OBVIOUS
    <2> QED
      BY <1>5, <2>1
  <1> QED
    BY <1>1, <1>6, <1>7, Zenon DEF Step

(* The fixes found are a sequence of sequences of bytes. *)
LEMMA FixType ==
  ASSUME NEW b \in Seq(Byte), NEW i \in 1..Len(b)
  PROVE  FixAt(b, i) \in Seq(Seq(Byte))
  <1>1. CASE FixStarts(b, i) = {}
    BY <1>1 DEF FixAt
  <1>2. CASE FixStarts(b, i) # {}
    <2>1. PICK p : p \in FixStarts(b, i)
      BY <1>2
    <2>2. /\ p \in 1..(i - Header) /\ i = p + Header + LenAt(b, p) /\ LenAt(b, p) >= PvtLen
      BY <2>1 DEF FixStarts, EndsAt, HasFix, LenAt
    <2> DEFINE m == p + Header
               n == p + Header + PvtLen - 1
    <2>3. p + 3 <= Len(b) /\ p \in Nat /\ p >= 1
      BY <2>2, ParserConstants
    <2>4. LenAt(b, p) \in Nat
      BY <2>3, LenIs
    <2>5. m \in Int /\ n \in Int /\ m >= 1 /\ n <= Len(b)
      BY <2>2, <2>3, <2>4, ParserConstants
    <2>6. FixAt(b, i) = << SubSeq(b, m, n) >>
      BY <2>1, OneFix
    <2> HIDE DEF m, n
    <2>7. \A k \in m..n : b[k] \in Byte
      BY <2>5
    <2>8. SubSeq(b, m, n) \in Seq(Byte)
      BY <2>5, <2>7, SubSeqProperties
    <2> QED
      BY <2>6, <2>8
  <1> QED
    BY <1>1, <1>2

LEMMA FixesType ==
  ASSUME NEW b \in Seq(Byte)
  PROVE  \A i \in 0..Len(b) : FixesBy(b)[i] \in Seq(Seq(Byte))
  <1> DEFINE T == {i \in 0..Len(b) : FixesBy(b)[i] \in Seq(Seq(Byte))}
  <1>1. Len(b) \in Nat
    OBVIOUS
  <1>2. 0 \in T
    <2>1. FixesBy(b)[0] = << >> /\ 0 \in 0..Len(b)
      BY <1>1, FixesIs
    <2>2. << >> \in Seq(Seq(Byte))
      OBVIOUS
    <2> QED
      BY <2>1, <2>2
  <1>3. ASSUME NEW i \in 0..(Len(b) - 1), i \in T PROVE i + 1 \in T
    <2>1. i + 1 \in 1..Len(b) /\ (i + 1) - 1 = i
      BY <1>1
    <2>2. FixesBy(b)[i + 1] = FixesBy(b)[i] \o FixAt(b, i + 1)
      BY <1>1, <2>1, FixesIs
    <2>3. FixAt(b, i + 1) \in Seq(Seq(Byte))
      BY <2>1, FixType
    <2>4. FixesBy(b)[i] \in Seq(Seq(Byte))
      BY <1>3
    <2>5. FixesBy(b)[i + 1] \in Seq(Seq(Byte))
      <3> DEFINE X == Seq(Byte)
                 v == FixesBy(b)[i]
                 w == FixAt(b, i + 1)
      <3>1. v \in Seq(X) /\ w \in Seq(X)
        BY <2>3, <2>4
      <3> HIDE DEF X, v, w
      <3>2. v \o w \in Seq(X)
        BY <3>1
      <3> QED
        BY <2>2, <3>2 DEF X, v, w
    <2>6. i + 1 \in 0..Len(b)
      BY <2>1
    <2> QED
      BY <2>5, <2>6
  <1>4. 0..Len(b) \subseteq T
    <2> HIDE DEF T
    <2> QED
      BY <1>1, <1>2, <1>3, Induction
  <1> QED
    BY <1>4
-----------------------------------------------------------------------------
(* The parser after i of the bytes b read: the bytes to come are untouched *)
(* by the assembly; a frame that is open is the one being assembled, and   *)
(* none is when the parser waits for one.                                  *)
Unread(b, i, buf) == \A k \in i..(Len(b) - 1) : buf[k] = b[k + 1]
Assembled(b, i, buf, len) ==
  /\ len \in 1..i /\ OpenAt(b, i - len + 1, i)
  /\ \A k \in 0..(len - 1) : buf[k] = b[i - len + 1 + k]
NoneOpen(b, i) == \A p \in 1..i : ~OpenAt(b, p, i)
Parsed(b, i, s) ==
  /\ DOMAIN s.buf = 0..(BufSize - 1) /\ Unread(b, i, s.buf)
  /\ s.awaiting \in BOOLEAN
  /\ s.awaiting = TRUE => Assembled(b, i, s.buf, s.len) \/ (i = 0 /\ Pair(b, 1))
  /\ s.awaiting = FALSE => NoneOpen(b, i)

(* What the parser makes of a byte that starts a frame, of one outside any *)
(* frame, and of one of the frame being assembled.                         *)
LEMMA ByteSync ==
  ASSUME NEW s, NEW i, NEW ret, IsSync(s.buf, i, ret)
  PROVE  ParseByte(s, i, ret) = State([s.buf EXCEPT ![0] = s.buf[i]], 1, TRUE, s.found)
  <1>1. ~(0 >= BufSize) /\ 0 + 1 < Header /\ 0 + 1 = 1
    BY ParserConstants
  <1>2. IsSync(s.buf, i, ret) = TRUE
    OBVIOUS
  <1> QED
    BY <1>1, <1>2, Zenon DEF ParseByte

LEMMA ByteSkipped ==
  ASSUME NEW s, NEW i, NEW ret, ~IsSync(s.buf, i, ret), s.awaiting = FALSE
  PROVE  ParseByte(s, i, ret) = State(s.buf, s.len, FALSE, s.found)
  BY Zenon DEF ParseByte

Placed(s, i) == [s.buf EXCEPT ![s.len] = s.buf[i]]

LEMMA ByteTaken ==
  ASSUME NEW s, NEW i, NEW ret, ~IsSync(s.buf, i, ret), s.awaiting = TRUE,
         s.len \in Nat, s.len < BufSize
  PROVE  LET to == Placed(s, i)
             n  == to[3].as
             t  == ParseByte(s, i, ret)
         IN /\ s.len + 1 < Header => t = State(to, s.len + 1, TRUE, s.found)
            /\ ~(s.len + 1 < Header) /\ n > MaxPayload => t = State(to, 0, FALSE, s.found)
            /\ ~(s.len + 1 < Header) /\ ~(n > MaxPayload) /\ s.len + 1 < Header + n + 1
                 => t = State(to, s.len + 1, TRUE, s.found)
            /\ ~(s.len + 1 < Header) /\ ~(n > MaxPayload) /\ ~(s.len + 1 < Header + n + 1)
                 => t = State(to, 0, FALSE, s.found \o NavPvt(to, n))
  <1>1. ~(s.len >= BufSize)
    BY ParserConstants
  <1> QED
    BY <1>1, Zenon DEF ParseByte, Placed

LEMMA SyncSeen ==
  ASSUME NEW b \in Seq(Byte), NEW i \in 0..(Len(b) - 1), NEW buf, Unread(b, i, buf)
  PROVE  IsSync(buf, i, Len(b)) <=> Pair(b, i + 1)
  <1>1. buf[i] = b[i + 1]
    BY DEF Unread
  <1>2. i + 1 < Len(b) => buf[i + 1] = b[(i + 1) + 1]
    BY DEF Unread
  <1> QED
    BY <1>1, <1>2 DEF IsSync, Pair

LEMMA BufferPut ==
  ASSUME NEW buf, DOMAIN buf = 0..(BufSize - 1), NEW l \in 0..(BufSize - 1), NEW x
  PROVE  LET to == [buf EXCEPT ![l] = x]
         IN /\ DOMAIN to = 0..(BufSize - 1) /\ to[l] = x
            /\ \A k \in 0..(BufSize - 1) : k # l => to[k] = buf[k]
  OBVIOUS

LEMMA StepSync ==
  ASSUME NEW b \in Seq(Byte), Len(b) <= BufSize, NEW i \in 0..(Len(b) - 1), NEW s, Parsed(b, i, s),
         s.found \in Seq(Seq(Byte)), Pair(b, i + 1)
  PROVE  LET t == ParseByte(s, i, Len(b))
         IN Parsed(b, i + 1, t) /\ t.found = s.found \o FixAt(b, i + 1)
  <1> DEFINE buf == [s.buf EXCEPT ![0] = s.buf[i]]
             t == ParseByte(s, i, Len(b))
  <1>1. DOMAIN s.buf = 0..(BufSize - 1) /\ Unread(b, i, s.buf)
    BY DEF Parsed
  <1>2. t.buf = buf /\ t.len = 1 /\ t.awaiting = TRUE /\ t.found = s.found
    <2>1. t = State(buf, 1, TRUE, s.found)
      <3>1. IsSync(s.buf, i, Len(b))
        BY <1>1, SyncSeen
      <3> QED
        BY <3>1, ByteSync, Zenon
    <2> HIDE DEF t, buf
    <2> QED
      BY <2>1, Zenon DEF State
  <1>3. /\ DOMAIN buf = 0..(BufSize - 1) /\ buf[0] = s.buf[i]
        /\ \A k \in 0..(BufSize - 1) : k # 0 => buf[k] = s.buf[k]
    <2>1. 0 \in 0..(BufSize - 1)
      BY ParserConstants
    <2> QED
      BY <1>1, <2>1, BufferPut
  <1> HIDE DEF buf, t
  <1>4. Unread(b, i + 1, buf)
    <2>1. \A k \in (i + 1)..(Len(b) - 1) : k \in i..(Len(b) - 1) /\ k \in 0..(BufSize - 1) /\ k # 0
      BY ParserConstants
    <2> QED
      BY <1>1, <1>3, <2>1 DEF Unread
  <1>5. Assembled(b, i + 1, buf, 1)
    <2>1. (i + 1) - 1 + 1 = i + 1 /\ 1 \in 1..(i + 1) /\ 0..(1 - 1) = {0} /\ i + 1 + 0 = i + 1
          /\ i + 1 \in 1..(i + 1) /\ ((i + 1) + 1)..(i + 1) = {} /\ ~(i + 1 >= (i + 1) + 3)
      OBVIOUS
    <2>2. OpenAt(b, i + 1, i + 1)
      BY <2>1, Zenon DEF OpenAt
    <2>3. buf[0] = b[i + 1]
      BY <1>1, <1>3 DEF Unread
    <2> QED
      BY <2>1, <2>2, <2>3 DEF Assembled
  <1>6. Parsed(b, i + 1, t)
    <2>1. t.awaiting \in BOOLEAN /\ ~(t.awaiting = FALSE)
      BY <1>2, Zenon
    <2>2. DOMAIN t.buf = 0..(BufSize - 1) /\ Unread(b, i + 1, t.buf) /\ Assembled(b, i + 1, t.buf, t.len)
      BY <1>2, <1>3, <1>4, <1>5
    <2> QED
      BY <2>1, <2>2, Zenon DEF Parsed
  <1>7. t.found = s.found \o FixAt(b, i + 1)
    <2>1. FixAt(b, i + 1) = << >>
      BY FixOfPair
    <2>2. s.found \o << >> = s.found
      BY ConcatEmptySeq
    <2> QED
      BY <1>2, <2>1, <2>2
  <1> QED
    BY <1>6, <1>7, Zenon DEF t

LEMMA StepSkipped ==
  ASSUME NEW b \in Seq(Byte), NEW i \in 0..(Len(b) - 1), NEW s, Parsed(b, i, s),
         s.found \in Seq(Seq(Byte)), ~Pair(b, i + 1), s.awaiting = FALSE
  PROVE  LET t == ParseByte(s, i, Len(b))
         IN Parsed(b, i + 1, t) /\ t.found = s.found \o FixAt(b, i + 1)
  <1> DEFINE t == ParseByte(s, i, Len(b))
  <1>1. DOMAIN s.buf = 0..(BufSize - 1) /\ Unread(b, i, s.buf) /\ NoneOpen(b, i)
    BY Zenon DEF Parsed
  <1>2. t.buf = s.buf /\ t.len = s.len /\ t.awaiting = FALSE /\ t.found = s.found
    <2>1. t = State(s.buf, s.len, FALSE, s.found)
      <3>1. ~IsSync(s.buf, i, Len(b))
        BY <1>1, SyncSeen
      <3> QED
        BY <3>1, ByteSkipped, Zenon
    <2> HIDE DEF t
    <2> QED
      BY <2>1, Zenon DEF State
  <1> HIDE DEF t
  <1>3. Unread(b, i + 1, s.buf)
    <2>1. \A k \in (i + 1)..(Len(b) - 1) : k \in i..(Len(b) - 1)
      OBVIOUS
    <2> QED
      BY <1>1, <2>1 DEF Unread
  <1>4. NoneOpen(b, i + 1)
    <2>1. ASSUME NEW p \in 1..(i + 1), OpenAt(b, p, i + 1) PROVE FALSE
      <3>1. p # i + 1
        BY <2>1 DEF OpenAt
      <3>2. OpenAt(b, p, i) /\ p \in 1..i
        BY <2>1, <3>1, OpenBefore
      <3> QED
        BY <1>1, <3>2 DEF NoneOpen
    <2> QED
      BY <2>1, Zenon DEF NoneOpen
  <1>5. Parsed(b, i + 1, t)
    <2>1. t.awaiting \in BOOLEAN /\ ~(t.awaiting = TRUE)
      BY <1>2, Zenon
    <2>2. DOMAIN t.buf = 0..(BufSize - 1) /\ Unread(b, i + 1, t.buf)
      BY <1>1, <1>2, <1>3
    <2> QED
      BY <1>4, <2>1, <2>2, Zenon DEF Parsed
  <1>6. t.found = s.found \o FixAt(b, i + 1)
    <2>1. FixAt(b, i + 1) = << >>
      BY <1>1, FixOfNone, Zenon DEF NoneOpen
    <2>2. s.found \o << >> = s.found
      BY ConcatEmptySeq
    <2> QED
      BY <1>2, <2>1, <2>2
  <1> QED
    BY <1>5, <1>6, Zenon DEF t

(* The frame that is open stays so or, with its last byte, leaves none. *)
LEMMA OpenOn ==
  ASSUME NEW b \in Seq(Byte), NEW i \in 0..(Len(b) - 1), NEW p, OpenAt(b, p, i), ~Pair(b, i + 1)
  PROVE  IF i + 1 >= p + 3 => LenAt(b, p) <= MaxPayload /\ i + 1 < p + Header + LenAt(b, p)
           THEN OpenAt(b, p, i + 1) ELSE NoneOpen(b, i + 1)
  <1>1. p \in 1..i /\ Pair(b, p) /\ \A q \in (p + 1)..i : ~Pair(b, q)
    BY DEF OpenAt
  <1>2. CASE i + 1 >= p + 3 => LenAt(b, p) <= MaxPayload /\ i + 1 < p + Header + LenAt(b, p)
    <2>1. p \in 1..(i + 1) /\ \A q \in (p + 1)..(i + 1) : q \in (p + 1)..i \/ q = i + 1
      BY <1>1
    <2>2. OpenAt(b, p, i + 1)
      BY <1>1, <1>2, <2>1 DEF OpenAt
    <2> QED
      BY <1>2, <2>2
  <1>3. CASE ~(i + 1 >= p + 3 => LenAt(b, p) <= MaxPayload /\ i + 1 < p + Header + LenAt(b, p))
    <2>1. ASSUME NEW q \in 1..(i + 1), OpenAt(b, q, i + 1) PROVE FALSE
      <3>1. q # i + 1
        BY <2>1 DEF OpenAt
      <3>2. OpenAt(b, q, i) /\ i \in Nat
        BY <2>1, <3>1, OpenBefore
      <3>3. q = p
        BY <3>2, OpenOne, Zenon
      <3> QED
        BY <1>3, <2>1, <3>3, Zenon DEF OpenAt
    <2>2. NoneOpen(b, i + 1)
      BY <2>1, Zenon DEF NoneOpen
    <2> QED
      BY <1>3, <2>2
  <1> QED
    BY <1>2, <1>3

(* A byte of the frame being assembled, which starts at StartOf. *)
StartOf(s, i) == i - s.len + 1

Taking(b, i, s) ==
  /\ b \in Seq(Byte) /\ Len(b) <= BufSize /\ i \in 0..(Len(b) - 1)
  /\ Parsed(b, i, s) /\ ~Pair(b, i + 1) /\ s.awaiting = TRUE

LEMMA TakenByte ==
  ASSUME NEW b, NEW i, NEW s, Taking(b, i, s)
  PROVE  /\ s.len \in 1..i /\ s.len < BufSize
         /\ StartOf(s, i) \in 1..i /\ StartOf(s, i) + s.len = i + 1 /\ OpenAt(b, StartOf(s, i), i)
         /\ DOMAIN Placed(s, i) = 0..(BufSize - 1) /\ Unread(b, i + 1, Placed(s, i))
         /\ \A k \in 0..s.len : Placed(s, i)[k] = b[StartOf(s, i) + k]
  <1> DEFINE p  == StartOf(s, i)
             to == Placed(s, i)
  <1>0. /\ b \in Seq(Byte) /\ Len(b) <= BufSize /\ i \in 0..(Len(b) - 1)
        /\ Parsed(b, i, s) /\ ~Pair(b, i + 1) /\ s.awaiting = TRUE
    BY Zenon DEF Taking
  <1> USE <1>0
  <1>1. /\ Unread(b, i, s.buf) /\ DOMAIN s.buf = 0..(BufSize - 1)
        /\ Assembled(b, i, s.buf, s.len) \/ (i = 0 /\ Pair(b, 1))
    BY Zenon DEF Parsed
  <1>2. Assembled(b, i, s.buf, s.len)
    <2>1. i = 0 => i + 1 = 1
      OBVIOUS
    <2> QED
      BY <1>1, <2>1
  <1>3. s.len \in 1..i /\ OpenAt(b, p, i) /\ \A k \in 0..(s.len - 1) : s.buf[k] = b[p + k]
    BY <1>2 DEF Assembled, StartOf
  <1>4. s.len < BufSize /\ p \in 1..i /\ p + s.len = i + 1 /\ s.len \in 0..(BufSize - 1)
    BY <1>3, ParserConstants DEF StartOf
  <1>5. /\ DOMAIN to = 0..(BufSize - 1) /\ to[s.len] = s.buf[i]
        /\ \A k \in 0..(BufSize - 1) : k # s.len => to[k] = s.buf[k]
    BY <1>1, <1>4, BufferPut DEF Placed
  <1>6. Unread(b, i + 1, to)
    <2>1. ASSUME NEW k \in (i + 1)..(Len(b) - 1)
          PROVE  k \in i..(Len(b) - 1) /\ k \in 0..(BufSize - 1) /\ k # s.len
      BY <1>3, ParserConstants
    <2> QED
      BY <1>1, <1>5, <2>1 DEF Unread
  <1>7. ASSUME NEW k \in 0..s.len PROVE to[k] = b[p + k]
    <2>1. CASE k = s.len
      <3>1. s.buf[i] = b[i + 1]
        BY <1>1 DEF Unread
      <3> QED
        BY <1>4, <1>5, <2>1, <3>1
    <2>2. CASE k # s.len
      <3>1. k \in 0..(s.len - 1) /\ k \in 0..(BufSize - 1)
        BY <1>3, <1>4, <2>2, ParserConstants
      <3> QED
        BY <1>3, <1>5, <2>2, <3>1
    <2> QED
      BY <2>1, <2>2
  <1> QED
    BY <1>3, <1>4, <1>5, <1>6, <1>7

(* While the frame is not complete. *)
LEMMA StepGoesOn ==
  ASSUME NEW b, NEW i, NEW s, Taking(b, i, s), s.found \in Seq(Seq(Byte)),
         s.len + 1 < Header \/ (LenAt(b, StartOf(s, i)) <= MaxPayload
                                /\ s.len + 1 < Header + LenAt(b, StartOf(s, i)) + 1)
  PROVE  LET t == ParseByte(s, i, Len(b))
         IN Parsed(b, i + 1, t) /\ t.found = s.found \o FixAt(b, i + 1)
  <1> DEFINE p  == StartOf(s, i)
             to == Placed(s, i)
             n  == LenAt(b, p)
             t  == ParseByte(s, i, Len(b))
  <1>0. /\ b \in Seq(Byte) /\ Len(b) <= BufSize /\ i \in 0..(Len(b) - 1)
        /\ Parsed(b, i, s) /\ ~Pair(b, i + 1) /\ s.awaiting = TRUE
    BY Zenon DEF Taking
  <1> USE <1>0
  <1>1. /\ s.len \in 1..i /\ s.len < BufSize /\ p \in 1..i /\ p + s.len = i + 1 /\ OpenAt(b, p, i)
        /\ DOMAIN to = 0..(BufSize - 1) /\ Unread(b, i + 1, to)
    BY TakenByte
  <1>2. \A k \in 0..s.len : to[k] = b[p + k]
    BY TakenByte
  <1>3. ~IsSync(s.buf, i, Len(b))
    BY SyncSeen, Zenon DEF Parsed
  <1>4. s.len + 1 < Header \/ (n <= MaxPayload /\ s.len + 1 < Header + n + 1)
    OBVIOUS
  <1> HIDE DEF p, to
  <1>5. ~(s.len + 1 < Header) => to[3].as = n /\ n \in Nat
    <2> SUFFICES ASSUME ~(s.len + 1 < Header) PROVE to[3].as = n /\ n \in Nat
      OBVIOUS
    <2>1. 3 \in 0..s.len /\ p + 3 <= Len(b) /\ p \in Nat /\ p >= 1
      BY <1>1, ParserConstants, SMTT(30)
    <2> QED
      BY <1>2, <2>1, LenIs DEF LenAt
  <1> HIDE DEF n
  <1>6. t = State(to, s.len + 1, TRUE, s.found)
    <2>0. s.len \in Nat
      BY <1>1
    <2>1. CASE s.len + 1 < Header
      BY <1>1, <1>3, <2>0, <2>1, ByteTaken, Zenon DEF to
    <2>2. CASE ~(s.len + 1 < Header)
      <3>1. ~(to[3].as > MaxPayload) /\ s.len + 1 < Header + to[3].as + 1
        BY <1>4, <1>5, <2>2, ParserConstants
      <3> QED
        BY <1>1, <1>3, <2>0, <2>2, <3>1, ByteTaken, Zenon DEF to
    <2> QED
      BY <2>1, <2>2
  <1>7. i + 1 >= p + 3 => n <= MaxPayload /\ i + 1 < p + Header + n
    <2> DEFINE l == s.len
    <2>1. /\ l \in Nat /\ p \in Nat /\ i \in Nat /\ p + l = i + 1 /\ Header = 4
          /\ l + 1 < Header \/ (n <= MaxPayload /\ l + 1 < Header + n + 1)
      BY <1>1, <1>4, ParserConstants
    <2>2. ~(l + 1 < Header) => n \in Nat
      BY <1>5
    <2> HIDE <1>0 DEF l
    <2> QED
      BY <2>1, <2>2
  <1>8. Assembled(b, i + 1, to, s.len + 1)
    <2>1. OpenAt(b, p, i + 1)
      BY <1>1, <1>7, OpenOn, Zenon DEF n
    <2>2. (i + 1) - (s.len + 1) + 1 = p /\ s.len + 1 \in 1..(i + 1) /\ (s.len + 1) - 1 = s.len
      <3> DEFINE l == s.len
      <3>1. l \in 1..i /\ p \in 1..i /\ p + l = i + 1 /\ i \in Nat
        BY <1>1
      <3> HIDE DEF l
      <3>2. (i + 1) - (l + 1) + 1 = p /\ l + 1 \in 1..(i + 1) /\ (l + 1) - 1 = l
        BY <3>1
      <3> QED
        BY <3>2 DEF l
    <2> QED
      BY <1>2, <2>1, <2>2, Zenon DEF Assembled
  <1>9. FixAt(b, i + 1) = << >>
    <2>1. ~(i >= p + 3 /\ i + 1 = p + Header + n)
      BY <1>1, <1>7, ParserConstants
    <2> QED
      BY <1>1, <2>1, FixOfOpen, Zenon DEF n
  <1> HIDE DEF t
  <1>10. t.buf = to /\ t.len = s.len + 1 /\ t.awaiting = TRUE /\ t.found = s.found
    BY <1>6, Zenon DEF State
  <1>11. Parsed(b, i + 1, t)
    <2>1. t.awaiting \in BOOLEAN /\ ~(t.awaiting = FALSE)
      BY <1>10, Zenon
    <2>2. DOMAIN t.buf = 0..(BufSize - 1) /\ Unread(b, i + 1, t.buf) /\ Assembled(b, i + 1, t.buf, t.len)
      BY <1>1, <1>8, <1>10
    <2> QED
      BY <2>1, <2>2, Zenon DEF Parsed
  <1>12. t.found = s.found \o FixAt(b, i + 1)
    <2>1. s.found \o << >> = s.found
      BY ConcatEmptySeq
    <2> QED
      BY <1>9, <1>10, <2>1
  <1> QED
    BY <1>11, <1>12, Zenon DEF t

(* The byte that ends the frame, or shows that it is too long. *)
LEMMA StepEnds ==
  ASSUME NEW b, NEW i, NEW s, Taking(b, i, s), s.found \in Seq(Seq(Byte)),
         ~(s.len + 1 < Header),
         LenAt(b, StartOf(s, i)) > MaxPayload \/ ~(s.len + 1 < Header + LenAt(b, StartOf(s, i)) + 1)
  PROVE  LET t == ParseByte(s, i, Len(b))
         IN Parsed(b, i + 1, t) /\ t.found = s.found \o FixAt(b, i + 1)
  <1> DEFINE p  == StartOf(s, i)
             to == Placed(s, i)
             n  == LenAt(b, p)
             t  == ParseByte(s, i, Len(b))
             fix == NavPvt(to, to[3].as)
  <1>0. /\ b \in Seq(Byte) /\ Len(b) <= BufSize /\ i \in 0..(Len(b) - 1)
        /\ Parsed(b, i, s) /\ ~Pair(b, i + 1) /\ s.awaiting = TRUE
    BY Zenon DEF Taking
  <1> USE <1>0
  <1>1. /\ s.len \in 1..i /\ s.len < BufSize /\ p \in 1..i /\ p + s.len = i + 1 /\ OpenAt(b, p, i)
        /\ DOMAIN to = 0..(BufSize - 1) /\ Unread(b, i + 1, to)
    BY TakenByte
  <1>2. \A k \in 0..s.len : to[k] = b[p + k]
    BY TakenByte
  <1>3. ~IsSync(s.buf, i, Len(b))
    BY SyncSeen, Zenon DEF Parsed
  <1>4. n > MaxPayload \/ ~(s.len + 1 < Header + n + 1)
    OBVIOUS
  <1> HIDE DEF p, to
  <1>5. 3 \in 0..s.len /\ p + 3 <= Len(b) /\ p \in Nat /\ p >= 1 /\ s.len \in Nat /\ i \in Nat
        /\ i + 1 >= p + 3
    BY <1>1, ParserConstants
  <1>6. to[3].as = n /\ n \in Nat
    BY <1>2, <1>5, LenIs DEF LenAt
  <1>7. i >= p + 3 => n <= MaxPayload /\ i < p + Header + n
    BY <1>1 DEF OpenAt, n
  <1> HIDE DEF n
  <1>8. n > MaxPayload \/ (n <= MaxPayload /\ s.len = n + 4 /\ i + 1 = p + Header + n /\ i >= p + 3)
    BY <1>1, <1>4, <1>5, <1>6, <1>7, ParserConstants, SMTT(30)
  <1>9. t = State(to, 0, FALSE, IF n > MaxPayload THEN s.found ELSE s.found \o fix)
    <2>1. CASE n > MaxPayload
      <3>1. to[3].as > MaxPayload
        BY <1>6, <2>1
      <3>2. t = State(to, 0, FALSE, s.found)
        BY <1>1, <1>3, <1>5, <3>1, ByteTaken, Zenon DEF to
      <3> QED
        BY <2>1, <3>2, Zenon
    <2>2. CASE ~(n > MaxPayload)
      <3>1. ~(to[3].as > MaxPayload) /\ ~(s.len + 1 < Header + to[3].as + 1)
        BY <1>4, <1>6, <2>2
      <3>2. t = State(to, 0, FALSE, s.found \o fix)
        BY <1>1, <1>3, <1>5, <3>1, ByteTaken, Zenon DEF to
      <3> QED
        BY <2>2, <3>2, Zenon
    <2> QED
      BY <2>1, <2>2
  <1>10. NoneOpen(b, i + 1)
    <2>1. ~(i + 1 >= p + 3 => n <= MaxPayload /\ i + 1 < p + Header + n)
      BY <1>5, <1>6, <1>8, ParserConstants
    <2> QED
      BY <1>1, <2>1, OpenOn, Zenon DEF n
  <1>11. (IF n > MaxPayload THEN s.found ELSE s.found \o fix) = s.found \o FixAt(b, i + 1)
    <2>1. CASE n > MaxPayload
      <3>1. ~(i >= p + 3 /\ i + 1 = p + Header + n)
        BY <1>5, <1>6, <1>7, <2>1, ParserConstants
      <3>2. FixAt(b, i + 1) = << >>
        BY <1>1, <3>1, FixOfOpen, Zenon DEF n
      <3>3. s.found \o << >> = s.found
        BY ConcatEmptySeq
      <3> QED
        BY <2>1, <3>2, <3>3
    <2>2. CASE ~(n > MaxPayload)
      <3>1. n <= MaxPayload /\ s.len = n + 4 /\ i + 1 = p + Header + n /\ i >= p + 3
        BY <1>6, <1>8, <2>2, ParserConstants
      <3>2. 2 \in 0..s.len /\ 4 \in 0..s.len
        BY <1>6, <3>1
      <3>3. HasFix(b, p) <=> to[2].is = "nav_pvt" /\ to[3].as >= PvtLen /\ to[Header].is = "pvt"
        BY <1>2, <1>6, <3>2, ParserConstants DEF HasFix, LenAt, n
      <3>4. CASE HasFix(b, p)
        <4>1. FixAt(b, i + 1) = << SubSeq(b, p + Header, p + Header + PvtLen - 1) >>
          BY <1>1, <3>1, <3>4, FixOfOpen, Zenon DEF n
        <4>2. fix = << [k \in 1..PvtLen |-> to[Header + k - 1]] >>
          BY <3>3, <3>4, Zenon DEF NavPvt
        <4>3. n >= PvtLen
          BY <1>6, <3>3, <3>4
        <4>4. \A k \in 1..PvtLen : to[Header + k - 1] = b[(p + Header) + k - 1]
          <5>1. \A k \in 1..PvtLen : Header + k - 1 \in 0..s.len /\ p + (Header + k - 1) = (p + Header) + k - 1
            BY <1>5, <1>6, <3>1, <4>3, ParserConstants
          <5> QED
            BY <1>2, <5>1
        <4>5. SubSeq(b, p + Header, p + Header + PvtLen - 1) = [k \in 1..PvtLen |-> b[(p + Header) + k - 1]]
          <5> DEFINE m == p + Header
                     l == p + Header + PvtLen - 1
          <5>1. m \in Nat /\ l = m + PvtLen - 1 /\ l \in Nat /\ 1 <= m /\ l <= Len(b)
            BY <1>5, <1>6, <3>1, <4>3, ParserConstants
          <5> HIDE DEF m, l
          <5>2. SubSeq(b, m, l) = [k \in 1..(1 + l - m) |-> b[k + m - 1]]
            BY <5>1, SMT
          <5>3. 1 + l - m = PvtLen /\ \A k \in 1..PvtLen : k + m - 1 = m + k - 1
            BY <5>1, ParserConstants
          <5>4. SubSeq(b, m, l) = [k \in 1..PvtLen |-> b[m + k - 1]]
            BY <5>2, <5>3
          <5> QED
            BY <5>4 DEF m, l
        <4> QED
          BY <2>2, <4>1, <4>2, <4>4, <4>5
      <3>5. CASE ~HasFix(b, p)
        <4>1. FixAt(b, i + 1) = << >>
          BY <1>1, <3>5, FixOfOpen, Zenon
        <4>2. fix = << >>
          <5>1. ~(to[2].is = "nav_pvt" /\ to[3].as >= PvtLen /\ to[Header].is = "pvt")
            BY <3>3, <3>5
          <5> QED
            BY <5>1, Zenon DEF NavPvt
        <4> QED
          BY <2>2, <4>1, <4>2
      <3> QED
        BY <3>4, <3>5
    <2> QED
      BY <2>1, <2>2
  <1> HIDE DEF t, fix
  <1>12. t.buf = to /\ t.len = 0 /\ t.awaiting = FALSE /\ t.found = s.found \o FixAt(b, i + 1)
    BY <1>9, <1>11, Zenon DEF State
  <1>13. Parsed(b, i + 1, t)
    <2>1. t.awaiting \in BOOLEAN /\ ~(t.awaiting = TRUE)
      BY <1>12, Zenon
    <2>2. DOMAIN t.buf = 0..(BufSize - 1) /\ Unread(b, i + 1, t.buf)
      BY <1>1, <1>12
    <2> QED
      BY <1>10, <2>1, <2>2, Zenon DEF Parsed
  <1> QED
    BY <1>12, <1>13, Zenon DEF t

LEMMA StepTaken ==
  ASSUME NEW b, NEW i, NEW s, Taking(b, i, s), s.found \in Seq(Seq(Byte))
  PROVE  LET t == ParseByte(s, i, Len(b))
         IN Parsed(b, i + 1, t) /\ t.found = s.found \o FixAt(b, i + 1)
  <1> DEFINE n == LenAt(b, StartOf(s, i))
  <1>1. s.len + 1 >= Header => n \in Nat
    <2> SUFFICES ASSUME s.len + 1 >= Header PROVE n \in Nat
      OBVIOUS
    <2>1. b \in Seq(Byte) /\ i \in 0..(Len(b) - 1) /\ s.len \in 1..i /\ StartOf(s, i) \in 1..i
          /\ StartOf(s, i) + s.len = i + 1
      BY TakenByte, Zenon DEF Taking
    <2>2. StartOf(s, i) + 3 <= Len(b) /\ StartOf(s, i) \in Nat /\ StartOf(s, i) >= 1
      BY <2>1, ParserConstants
    <2> QED
      BY <2>1, <2>2, LenIs
  <1>2. s.len \in Nat
    <2>1. s.len \in 1..i /\ i \in 0..(Len(b) - 1) /\ b \in Seq(Byte)
      BY TakenByte, Zenon DEF Taking
    <2> QED
      BY <2>1
  <1> HIDE DEF n
  <1>3. CASE s.len + 1 < Header \/ (n <= MaxPayload /\ s.len + 1 < Header + n + 1)
    BY <1>3, StepGoesOn, Zenon DEF n
  <1>4. CASE ~(s.len + 1 < Header) /\ (n > MaxPayload \/ ~(s.len + 1 < Header + n + 1))
    BY <1>4, StepEnds, Zenon DEF n
  <1> DEFINE l == s.len
  <1>5. \/ l + 1 < Header \/ (n <= MaxPayload /\ l + 1 < Header + n + 1)
        \/ ~(l + 1 < Header) /\ (n > MaxPayload \/ ~(l + 1 < Header + n + 1))
    <2>1. l \in Nat /\ (l + 1 >= Header => n \in Nat)
      BY <1>1, <1>2
    <2> HIDE DEF l
    <2> QED
      BY <2>1, ParserConstants
  <1> QED
    BY <1>3, <1>4, <1>5, Zenon

(* The whole loop over a read that finds no frame half assembled, or       *)
(* starts with one.                                                        *)
LEMMA LoopParsed ==
  ASSUME NEW b \in Seq(Byte), Len(b) <= BufSize, NEW buf, DOMAIN buf = 0..(BufSize - 1),
         \A k \in 0..(Len(b) - 1) : buf[k] = b[k + 1],
         awaiting_sync \in BOOLEAN, awaiting_sync = FALSE \/ Pair(b, 1)
  PROVE  LET end == ParseUbx(buf, Len(b))[Len(b)]
         IN Parsed(b, Len(b), end) /\ end.found = WholeFixes(b)
  <1> DEFINE loop == ParseUbx(buf, Len(b))
             T == {i \in 0..Len(b) : Parsed(b, i, loop[i]) /\ loop[i].found = FixesBy(b)[i]}
  <1>0. Len(b) \in Nat
    OBVIOUS
  <1>1. /\ loop[0] = State(buf, parse_len, awaiting_sync, << >>)
        /\ \A i \in 0..(Len(b) - 1) : loop[i + 1] = ParseByte(loop[i], i, Len(b))
    BY <1>0, LoopIs
  <1>2. /\ FixesBy(b)[0] = << >> /\ \A i \in 1..Len(b) : FixesBy(b)[i] = FixesBy(b)[i - 1] \o FixAt(b, i)
    BY <1>0, FixesIs
  <1>3. 0 \in T
    <2> DEFINE s == loop[0]
    <2> HIDE DEF s
    <2>1. s.buf = buf /\ s.awaiting = awaiting_sync /\ s.found = << >>
      <3>1. s = State(buf, parse_len, awaiting_sync, << >>)
        BY <1>1 DEF s
      <3>2. s.buf = buf /\ s.found = << >>
        BY <3>1, Zenon DEF State
      <3>3. s.awaiting = awaiting_sync
        BY <3>1, SMT DEF State
      <3> QED
        BY <3>2, <3>3
    <2>2. Unread(b, 0, buf) /\ NoneOpen(b, 0)
      BY DEF Unread, NoneOpen
    <2>3. Parsed(b, 0, s)
      <3>1. DOMAIN s.buf = 0..(BufSize - 1) /\ Unread(b, 0, s.buf)
        BY <2>1, <2>2
      <3>2. s.awaiting \in BOOLEAN /\ (s.awaiting = TRUE => Pair(b, 1))
        BY <2>1, Zenon
      <3> QED
        BY <2>2, <3>1, <3>2, Zenon DEF Parsed
    <2>4. 0 \in 0..Len(b)
      OBVIOUS
    <2> QED
      BY <1>2, <2>1, <2>3, <2>4, Zenon DEF s
  <1>4. ASSUME NEW i \in 0..(Len(b) - 1), i \in T PROVE i + 1 \in T
    <2> DEFINE s == loop[i]
               t == ParseByte(s, i, Len(b))
    <2>1. Parsed(b, i, s) /\ s.found = FixesBy(b)[i]
      BY <1>4, Zenon
    <2>2. loop[i + 1] = t
      BY <1>1
    <2> HIDE DEF loop
    <2>3. s.found \in Seq(Seq(Byte))
      <3>1. i \in 0..Len(b)
        OBVIOUS
      <3> QED
        BY <2>1, <3>1, FixesType, Zenon
    <2>4. Parsed(b, i + 1, t) /\ t.found = s.found \o FixAt(b, i + 1)
      <3> HIDE DEF s
      <3>1. CASE Pair(b, i + 1)
        BY <2>1, <2>3, <3>1, StepSync, Zenon
      <3>2. CASE ~Pair(b, i + 1) /\ s.awaiting = TRUE
        <4>1. Taking(b, i, s)
          BY <2>1, <3>2, Zenon DEF Taking
        <4> QED
          BY <2>3, <4>1, StepTaken, Zenon
      <3>3. CASE ~Pair(b, i + 1) /\ s.awaiting = FALSE
        BY <2>1, <2>3, <3>3, StepSkipped, Zenon
      <3>4. s.awaiting = TRUE \/ s.awaiting = FALSE
        BY <2>1, Zenon DEF Parsed
      <3> QED
        BY <3>1, <3>2, <3>3, <3>4, Zenon
    <2> HIDE DEF t, s
    <2>5. i + 1 \in 1..Len(b) /\ (i + 1) - 1 = i /\ i + 1 \in 0..Len(b)
      OBVIOUS
    <2>6. FixesBy(b)[i + 1] = FixesBy(b)[i] \o FixAt(b, i + 1)
      BY <1>2, <2>5
    <2>7. t.found = FixesBy(b)[i + 1]
      BY <2>1, <2>4, <2>6, Zenon
    <2> QED
      BY <2>2, <2>4, <2>5, <2>7, Zenon
  <1>5. Len(b) \in T
    <2>1. 0..Len(b) \subseteq T
      <3> HIDE DEF T
      <3> QED
        BY <1>0, <1>3, <1>4, Induction
    <2> HIDE DEF T
    <2> QED
      BY <2>1
  <1> QED
    BY <1>5, Zenon DEF WholeFixes
-----------------------------------------------------------------------------
(* The bytes b of two reads, t and then r: r does not complete a pair that *)
(* t ends with, and no frame is open between them, unless r starts one.    *)
Joined(b, t, r) ==
  /\ b \in Seq(Byte) /\ t \in Seq(Byte) /\ r \in Seq(Byte)
  /\ Len(b) = Len(t) + Len(r)
  /\ \A i \in 1..Len(t) : b[i] = t[i]
  /\ \A i \in 1..Len(r) : b[Len(t) + i] = r[i]
  /\ Len(r) > 0 => r[1].is # "sync2"
  /\ NoneOpen(t, Len(t)) \/ Pair(r, 1)

LEMMA JoinedIs ==
  ASSUME NEW t \in Seq(Byte), NEW r \in Seq(Byte), Len(r) > 0 => r[1].is # "sync2",
         NoneOpen(t, Len(t)) \/ Pair(r, 1)
  PROVE  Joined(t \o r, t, r)
  <1> DEFINE X == Byte
             b == t \o r
  <1>1. b \in Seq(X) /\ Len(b) = Len(t) + Len(r)
        /\ \A i \in 1..(Len(t) + Len(r)) : b[i] = IF i <= Len(t) THEN t[i] ELSE r[i - Len(t)]
    <2> HIDE DEF X
    <2>1. t \in Seq(X) /\ r \in Seq(X)
      BY DEF X
    <2> QED
      BY <2>1, ConcatProperties
  <1> HIDE DEF b
  <1>2. \A i \in 1..Len(t) : i \in 1..(Len(t) + Len(r)) /\ i <= Len(t)
    OBVIOUS
  <1>3. \A i \in 1..Len(r) : Len(t) + i \in 1..(Len(t) + Len(r)) /\ ~(Len(t) + i <= Len(t))
                             /\ (Len(t) + i) - Len(t) = i
    OBVIOUS
  <1>4. \A i \in 1..Len(t) : b[i] = t[i]
    BY <1>1, <1>2, Zenon
  <1>5. \A i \in 1..Len(r) : b[Len(t) + i] = r[i]
    BY <1>1, <1>3
  <1>6. Joined(b, t, r)
    BY <1>1, <1>4, <1>5, Zenon DEF Joined
  <1> QED
    BY <1>6 DEF b

LEMMA JoinedLens ==
  ASSUME NEW b, NEW t, NEW r, Joined(b, t, r)
  PROVE  Len(b) \in Nat /\ Len(t) \in Nat /\ Len(r) \in Nat /\ Len(b) = Len(t) + Len(r)
  BY DEF Joined

LEMMA PairLeft ==
  ASSUME NEW b, NEW t, NEW r, Joined(b, t, r), NEW p \in 1..Len(t)
  PROVE  Pair(b, p) <=> Pair(t, p)
  <1>1. /\ Len(b) \in Nat /\ Len(t) \in Nat /\ Len(r) \in Nat /\ Len(b) = Len(t) + Len(r)
        /\ \A i \in 1..Len(t) : b[i] = t[i]
        /\ \A i \in 1..Len(r) : b[Len(t) + i] = r[i]
        /\ Len(r) > 0 => r[1].is # "sync2"
    BY JoinedLens, Zenon DEF Joined
  <1>2. CASE p < Len(t)
    <2>1. p + 1 \in 1..Len(t) /\ p < Len(b)
      BY <1>1, <1>2
    <2> QED
      BY <1>1, <1>2, <2>1 DEF Pair
  <1>3. CASE p = Len(t)
    <2>1. ~Pair(t, p)
      BY <1>1, <1>3 DEF Pair
    <2>2. ASSUME Pair(b, p) PROVE FALSE
      <3>1. 1 \in 1..Len(r) /\ Len(r) > 0
        BY <1>1, <1>3, <2>2 DEF Pair
      <3>2. b[p + 1] = r[1]
        BY <1>1, <1>3, <3>1
      <3> QED
        BY <1>1, <2>2, <3>1, <3>2 DEF Pair
    <2> QED
      BY <2>1, <2>2
  <1> QED
    BY <1>1, <1>2, <1>3

LEMMA PairRight ==
  ASSUME NEW b, NEW t, NEW r, Joined(b, t, r), NEW q \in 1..Len(r)
  PROVE  Pair(b, Len(t) + q) <=> Pair(r, q)
  <1>1. /\ Len(b) \in Nat /\ Len(t) \in Nat /\ Len(r) \in Nat /\ Len(b) = Len(t) + Len(r)
        /\ \A i \in 1..Len(r) : b[Len(t) + i] = r[i]
    BY JoinedLens, Zenon DEF Joined
  <1>2. Len(t) + q < Len(b) <=> q < Len(r)
    BY <1>1
  <1>3. q < Len(r) => b[(Len(t) + q) + 1] = r[q + 1]
    <2>1. q < Len(r) => q + 1 \in 1..Len(r) /\ (Len(t) + q) + 1 = Len(t) + (q + 1)
      BY <1>1
    <2> QED
      BY <1>1, <2>1
  <1> QED
    BY <1>1, <1>2, <1>3 DEF Pair

(* No frame reaches over the end of t. *)
LEMMA NoneOver ==
  ASSUME NEW b, NEW t, NEW r, Joined(b, t, r), NEW p \in 1..Len(t), NEW i \in 1..Len(r),
         Pair(b, p), \A q \in (p + 1)..(Len(t) + i) : ~Pair(b, q),
         Len(t) + i >= p + 3 => LenAt(b, p) <= MaxPayload /\ Len(t) + i <= p + Header + LenAt(b, p)
  PROVE  FALSE
  <1>1. /\ Len(b) \in Nat /\ Len(t) \in Nat /\ Len(r) \in Nat /\ Len(b) = Len(t) + Len(r)
        /\ b \in Seq(Byte)
        /\ \A k \in 1..Len(t) : b[k] = t[k]
        /\ NoneOpen(t, Len(t)) \/ Pair(r, 1)
    BY JoinedLens, Zenon DEF Joined
  <1>2. ~Pair(r, 1)
    <2>1. 1 \in 1..Len(r) /\ Len(t) + 1 \in (p + 1)..(Len(t) + i)
      BY <1>1
    <2>2. ~Pair(b, Len(t) + 1)
      BY <2>1
    <2> QED
      BY <2>1, <2>2, PairRight, Zenon
  <1>3. \A q \in (p + 1)..Len(t) : ~Pair(t, q)
    <2>1. \A q \in (p + 1)..Len(t) : q \in (p + 1)..(Len(t) + i) /\ q \in 1..Len(t)
      BY <1>1
    <2> QED
      BY <2>1, PairLeft, Zenon
  <1>4. Pair(t, p)
    BY PairLeft, Zenon
  <1>5. Len(t) >= p + 3 => LenAt(t, p) <= MaxPayload /\ Len(t) < p + Header + LenAt(t, p)
    <2> SUFFICES ASSUME Len(t) >= p + 3
                 PROVE  LenAt(t, p) <= MaxPayload /\ Len(t) < p + Header + LenAt(t, p)
      OBVIOUS
    <2>1. p + 3 \in 1..Len(t) /\ p \in Nat /\ p >= 1 /\ p + 3 <= Len(b) /\ Len(t) + i >= p + 3
      BY <1>1
    <2>2. LenAt(t, p) = LenAt(b, p) /\ LenAt(b, p) \in Nat
      BY <1>1, <2>1, LenIs DEF LenAt
    <2>3. LenAt(b, p) <= MaxPayload /\ Len(t) + i <= p + Header + LenAt(b, p)
      BY <2>1
    <2> QED
      BY <1>1, <2>2, <2>3, ParserConstants
  <1>6. OpenAt(t, p, Len(t))
    <2>1. p \in 1..Len(t)
      OBVIOUS
    <2> QED
      BY <1>3, <1>4, <1>5, <2>1, Zenon DEF OpenAt
  <1> QED
    BY <1>1, <1>2, <1>6, Zenon DEF NoneOpen

(* The fixes in b are those in t and then those in r. *)
LEMMA FixLeft ==
  ASSUME NEW b, NEW t, NEW r, Joined(b, t, r), NEW i \in 1..Len(t)
  PROVE  FixAt(b, i) = FixAt(t, i)
  <1>1. /\ Len(b) \in Nat /\ Len(t) \in Nat /\ Len(r) \in Nat /\ Len(b) = Len(t) + Len(r)
        /\ b \in Seq(Byte) /\ t \in Seq(Byte)
        /\ \A k \in 1..Len(t) : b[k] = t[k]
    BY JoinedLens, Zenon DEF Joined
  <1>2. ASSUME NEW p \in 1..(i - Header)
        PROVE  (EndsAt(b, p, i) <=> EndsAt(t, p, i)) /\ (HasFix(b, p) <=> HasFix(t, p))
    <2>1. p + 2 \in 1..Len(t) /\ p + 3 \in 1..Len(t) /\ p + 4 \in 1..Len(t) /\ p \in 1..Len(t)
      BY <1>1, ParserConstants
    <2>2. b[p + 2] = t[p + 2] /\ b[p + 3] = t[p + 3] /\ b[p + 4] = t[p + 4]
      BY <1>1, <2>1
    <2>3. \A q \in (p + 1)..i : q \in 1..Len(t)
      BY <1>1
    <2>4. \A q \in (p + 1)..i : Pair(b, q) <=> Pair(t, q)
      BY <2>3, PairLeft, Zenon
    <2>5. Pair(b, p) <=> Pair(t, p)
      BY <2>1, PairLeft, Zenon
    <2> QED
      BY <2>2, <2>4, <2>5, Zenon DEF EndsAt, HasFix
  <1>3. FixStarts(b, i) = FixStarts(t, i)
    BY <1>2, Zenon DEF FixStarts
  <1>4. CASE FixStarts(t, i) = {}
    BY <1>3, <1>4, Zenon DEF FixAt
  <1>5. CASE FixStarts(t, i) # {}
    <2>1. PICK p : p \in FixStarts(t, i)
      BY <1>5
    <2> DEFINE l == p + Header
               h == p + Header + PvtLen - 1
    <2>2. p \in 1..(i - Header) /\ i = p + Header + LenAt(t, p) /\ LenAt(t, p) >= PvtLen
      BY <2>1 DEF FixStarts, EndsAt, HasFix, LenAt
    <2>3. p + 3 <= Len(t) /\ p \in Nat /\ p >= 1
      BY <1>1, <2>2, ParserConstants
    <2>4. LenAt(t, p) \in Nat
      BY <1>1, <2>3, LenIs
    <2>5. l \in Nat /\ h \in Nat /\ 1 <= l /\ h <= Len(t)
      BY <1>1, <2>2, <2>3, <2>4, ParserConstants, SMTT(30)
    <2>6. FixAt(t, i) = << SubSeq(t, l, h) >> /\ FixAt(b, i) = << SubSeq(b, l, h) >>
      <3>1. i \in Nat /\ p \in FixStarts(b, i)
        BY <1>1, <1>3, <2>1
      <3> QED
        BY <2>1, <3>1, OneFix
    <2> HIDE DEF l, h
    <2>7. \A k \in l..h : b[k] = t[k]
      BY <1>1, <2>5
    <2>8. SubSeq(b, l, h) = SubSeq(t, l, h)
      <3>1. \A k \in 1..(1 + h - l) : k + l - 1 \in l..h
        BY <2>5
      <3>2. SubSeq(b, l, h) = [k \in 1..(1 + h - l) |-> b[k + l - 1]]
        BY <2>5, SMT
      <3>3. SubSeq(t, l, h) = [k \in 1..(1 + h - l) |-> t[k + l - 1]]
        BY <2>5, SMT
      <3> QED
        BY <2>7, <3>1, <3>2, <3>3
    <2> QED
      BY <2>6, <2>8
  <1> QED
    BY <1>4, <1>5

LEMMA FixRight ==
  ASSUME NEW b, NEW t, NEW r, Joined(b, t, r), NEW i \in 1..Len(r)
  PROVE  FixAt(b, Len(t) + i) = FixAt(r, i)
  <1> DEFINE n == Len(t)
  <1>1. /\ Len(b) \in Nat /\ n \in Nat /\ Len(r) \in Nat /\ Len(b) = n + Len(r)
        /\ b \in Seq(Byte) /\ r \in Seq(Byte)
        /\ \A k \in 1..Len(r) : b[n + k] = r[k]
    BY JoinedLens, Zenon DEF Joined
  <1> HIDE DEF n
  <1>2. ASSUME NEW p \in 1..(i - Header)
        PROVE  (EndsAt(b, n + p, n + i) <=> EndsAt(r, p, i)) /\ (HasFix(b, n + p) <=> HasFix(r, p))
    <2>1. p + 2 \in 1..Len(r) /\ p + 3 \in 1..Len(r) /\ p + 4 \in 1..Len(r) /\ p \in 1..Len(r)
      BY <1>1, ParserConstants
    <2>2. b[(n + p) + 2] = r[p + 2] /\ b[(n + p) + 3] = r[p + 3] /\ b[(n + p) + 4] = r[p + 4]
      <3>1. (n + p) + 2 = n + (p + 2) /\ (n + p) + 3 = n + (p + 3) /\ (n + p) + 4 = n + (p + 4)
        BY <1>1
      <3> QED
        BY <1>1, <2>1, <3>1
    <2>3. (\A q \in (n + p + 1)..(n + i) : ~Pair(b, q)) <=> (\A q \in (p + 1)..i : ~Pair(r, q))
      <3>1. ASSUME NEW q \in (p + 1)..i
            PROVE  n + q \in (n + p + 1)..(n + i) /\ (Pair(b, n + q) <=> Pair(r, q))
        <4>1. n + q \in (n + p + 1)..(n + i) /\ q \in 1..Len(r)
          BY <1>1
        <4> QED
          BY <4>1, PairRight, Zenon DEF n
      <3>2. \A q \in (n + p + 1)..(n + i) : q - n \in (p + 1)..i /\ n + (q - n) = q
        BY <1>1
      <3>3. (\A q \in (n + p + 1)..(n + i) : ~Pair(b, q)) => (\A q \in (p + 1)..i : ~Pair(r, q))
        BY <3>1, Zenon
      <3>4. (\A q \in (p + 1)..i : ~Pair(r, q)) => (\A q \in (n + p + 1)..(n + i) : ~Pair(b, q))
        <4> SUFFICES ASSUME \A q \in (p + 1)..i : ~Pair(r, q), NEW q \in (n + p + 1)..(n + i)
                     PROVE  ~Pair(b, q)
          OBVIOUS
        <4>1. q - n \in (p + 1)..i /\ n + (q - n) = q
          BY <3>2
        <4>2. ~Pair(r, q - n) /\ (Pair(b, n + (q - n)) <=> Pair(r, q - n))
          BY <3>1, <4>1
        <4> QED
          BY <4>1, <4>2
      <3> QED
        BY <3>3, <3>4
    <2>4. Pair(b, n + p) <=> Pair(r, p)
      BY <2>1, PairRight, Zenon DEF n
    <2>5. n + i = (n + p) + Header + b[(n + p) + 3].as <=> i = p + Header + r[p + 3].as
      <3> DEFINE x == r[p + 3].as
      <3>1. x \in Nat
        BY <1>1, <2>1, LenIs DEF LenAt
      <3>2. b[(n + p) + 3].as = x
        BY <2>2
      <3> HIDE DEF x
      <3>3. n + i = (n + p) + Header + x <=> i = p + Header + x
        BY <1>1, <3>1, ParserConstants
      <3> QED
        BY <3>2, <3>3 DEF x
    <2> QED
      BY <2>2, <2>3, <2>4, <2>5, Zenon DEF EndsAt, HasFix
  <1>3. ASSUME NEW p \in FixStarts(r, i) PROVE n + p \in FixStarts(b, n + i)
    <2>1. p \in 1..(i - Header) /\ EndsAt(r, p, i) /\ HasFix(r, p)
      BY <1>3 DEF FixStarts
    <2>2. n + p \in 1..((n + i) - Header) /\ EndsAt(b, n + p, n + i) /\ HasFix(b, n + p)
      BY <1>1, <1>2, <2>1, ParserConstants
    <2> QED
      BY <2>2, Zenon DEF FixStarts
  <1>4. ASSUME NEW p \in FixStarts(b, n + i) PROVE p - n \in FixStarts(r, i)
    <2>1. p \in 1..((n + i) - Header) /\ EndsAt(b, p, n + i) /\ HasFix(b, p)
      BY <1>4 DEF FixStarts
    <2>2. p \notin 1..n
      <3> SUFFICES ASSUME p \in 1..n PROVE FALSE
        OBVIOUS
      <3>1. Pair(b, p) /\ (\A q \in (p + 1)..(n + i) : ~Pair(b, q))
            /\ LenAt(b, p) <= MaxPayload /\ n + i = p + Header + LenAt(b, p)
        BY <2>1 DEF EndsAt, LenAt
      <3>2. n + i <= p + Header + LenAt(b, p)
        BY <1>1, <3>1
      <3> QED
        BY <3>1, <3>2, NoneOver, Zenon DEF n
    <2>3. p - n \in 1..(i - Header) /\ n + (p - n) = p
      BY <1>1, <2>1, <2>2, ParserConstants
    <2>4. EndsAt(r, p - n, i) /\ HasFix(r, p - n)
      BY <1>2, <2>1, <2>3
    <2> QED
      BY <2>3, <2>4, Zenon DEF FixStarts
  <1>5. CASE FixStarts(r, i) = {}
    <2>1. FixStarts(b, n + i) = {}
      BY <1>4, <1>5
    <2> QED
      BY <1>5, <2>1, Zenon DEF FixAt, n
  <1>6. CASE FixStarts(r, i) # {}
    <2>1. PICK p : p \in FixStarts(r, i)
      BY <1>6
    <2> DEFINE l == p + Header
               h == p + Header + PvtLen - 1
    <2>2. p \in 1..(i - Header) /\ i = p + Header + LenAt(r, p) /\ LenAt(r, p) >= PvtLen
      BY <2>1 DEF FixStarts, EndsAt, HasFix, LenAt
    <2>3. p + 3 <= Len(r) /\ p \in Nat /\ p >= 1
      BY <1>1, <2>2, ParserConstants
    <2>4. LenAt(r, p) \in Nat
      BY <1>1, <2>3, LenIs
    <2>5. l \in Nat /\ h \in Nat /\ 1 <= l /\ h <= Len(r)
          /\ (n + p) + Header = n + l /\ (n + p) + Header + PvtLen - 1 = n + h
      BY <1>1, <2>2, <2>3, <2>4, ParserConstants, SMTT(30)
    <2>6. FixAt(r, i) = << SubSeq(r, l, h) >> /\ FixAt(b, n + i) = << SubSeq(b, n + l, n + h) >>
      <3>1. i \in Nat /\ n + i \in Nat /\ n + p \in FixStarts(b, n + i)
        BY <1>1, <1>3, <2>1
      <3>2. FixAt(r, i) = << SubSeq(r, l, h) >>
        BY <2>1, <3>1, OneFix
      <3>3. FixAt(b, n + i) = << SubSeq(b, (n + p) + Header, (n + p) + Header + PvtLen - 1) >>
        BY <3>1, OneFix
      <3> QED
        BY <2>5, <3>2, <3>3
    <2> HIDE DEF l, h
    <2>7. SubSeq(b, n + l, n + h) = SubSeq(r, l, h)
      <3>1. \A k \in 1..(1 + h - l) : k + (n + l) - 1 = n + (k + l - 1) /\ k + l - 1 \in 1..Len(r)
        BY <1>1, <2>5
      <3>2. SubSeq(b, n + l, n + h) = [k \in 1..(1 + (n + h) - (n + l)) |-> b[k + (n + l) - 1]]
        BY <1>1, <2>5, SMTT(30)
      <3>3. SubSeq(r, l, h) = [k \in 1..(1 + h - l) |-> r[k + l - 1]]
        BY <2>5, SMTT(30)
      <3>4. 1 + (n + h) - (n + l) = 1 + h - l
        BY <1>1, <2>5
      <3>5. \A k \in 1..(1 + h - l) : b[k + (n + l) - 1] = r[k + l - 1]
        BY <1>1, <3>1
      <3> QED
        BY <3>2, <3>3, <3>4, <3>5
    <2> QED
      BY <2>6, <2>7 DEF n
  <1> QED
    BY <1>5, <1>6

LEMMA FixesLeft ==
  ASSUME NEW b, NEW t, NEW r, Joined(b, t, r)
  PROVE  FixesBy(b)[Len(t)] = WholeFixes(t)
  <1> DEFINE T == {i \in 0..Len(t) : FixesBy(b)[i] = FixesBy(t)[i]}
  <1>1. Len(b) \in Nat /\ Len(t) \in Nat /\ Len(r) \in Nat /\ Len(b) = Len(t) + Len(r)
    BY JoinedLens
  <1>2. /\ FixesBy(b)[0] = << >> /\ \A i \in 1..Len(b) : FixesBy(b)[i] = FixesBy(b)[i - 1] \o FixAt(b, i)
        /\ FixesBy(t)[0] = << >> /\ \A i \in 1..Len(t) : FixesBy(t)[i] = FixesBy(t)[i - 1] \o FixAt(t, i)
    BY <1>1, FixesIs
  <1>3. 0 \in T
    BY <1>1, <1>2
  <1>4. ASSUME NEW i \in 0..(Len(t) - 1), i \in T PROVE i + 1 \in T
    <2>1. i + 1 \in 1..Len(t) /\ i + 1 \in 1..Len(b) /\ (i + 1) - 1 = i /\ i + 1 \in 0..Len(t)
      BY <1>1
    <2>2. FixesBy(b)[i + 1] = FixesBy(b)[i] \o FixAt(b, i + 1)
          /\ FixesBy(t)[i + 1] = FixesBy(t)[i] \o FixAt(t, i + 1)
      BY <1>2, <2>1
    <2>3. FixAt(b, i + 1) = FixAt(t, i + 1)
      BY <2>1, FixLeft, Zenon
    <2>4. FixesBy(b)[i] = FixesBy(t)[i]
      BY <1>4, Zenon
    <2> QED
      BY <2>1, <2>2, <2>3, <2>4, Zenon
  <1>5. 0..Len(t) \subseteq T
    <2> HIDE DEF T
    <2> QED
      BY <1>1, <1>3, <1>4, Induction
  <1>6. Len(t) \in T
    <2> HIDE DEF T
    <2> QED
      BY <1>1, <1>5
  <1> QED
    BY <1>6, Zenon DEF WholeFixes

LEMMA WholeJoined ==
  ASSUME NEW b, NEW t, NEW r, Joined(b, t, r)
  PROVE  WholeFixes(b) = WholeFixes(t) \o WholeFixes(r)
  <1> DEFINE n == Len(t)
             w == WholeFixes(t)
             T == {i \in 0..Len(r) : FixesBy(b)[n + i] = w \o FixesBy(r)[i]}
  <1>1. Len(b) \in Nat /\ n \in Nat /\ Len(r) \in Nat /\ Len(b) = n + Len(r)
    BY JoinedLens
  <1>2. b \in Seq(Byte) /\ t \in Seq(Byte) /\ r \in Seq(Byte)
    BY DEF Joined
  <1>3. /\ \A i \in 1..Len(b) : FixesBy(b)[i] = FixesBy(b)[i - 1] \o FixAt(b, i)
        /\ FixesBy(r)[0] = << >> /\ \A i \in 1..Len(r) : FixesBy(r)[i] = FixesBy(r)[i - 1] \o FixAt(r, i)
    BY <1>1, FixesIs
  <1>4. w \in Seq(Seq(Byte))
    <2>1. n \in 0..Len(t)
      BY <1>1
    <2> QED
      BY <1>2, <2>1, FixesType, Zenon DEF WholeFixes
  <1>5. 0 \in T
    <2>1. n + 0 = n /\ 0 \in 0..Len(r)
      BY <1>1
    <2>2. w \o << >> = w
      BY <1>4, ConcatEmptySeq
    <2>3. FixesBy(b)[n] = w
      BY FixesLeft
    <2> QED
      BY <1>3, <2>1, <2>2, <2>3, Zenon
  <1>6. ASSUME NEW i \in 0..(Len(r) - 1), i \in T PROVE i + 1 \in T
    <2>1. /\ i + 1 \in 1..Len(r) /\ (i + 1) - 1 = i /\ i + 1 \in 0..Len(r) /\ i \in 0..Len(r)
          /\ n + (i + 1) \in 1..Len(b) /\ (n + (i + 1)) - 1 = n + i
      BY <1>1
    <2> DEFINE u == FixesBy(r)[i]
               f == FixAt(r, i + 1)
    <2>2. FixesBy(b)[n + (i + 1)] = FixesBy(b)[n + i] \o FixAt(b, n + (i + 1)) /\ FixesBy(r)[i + 1] = u \o f
      <3>1. FixesBy(b)[n + (i + 1)] = FixesBy(b)[(n + (i + 1)) - 1] \o FixAt(b, n + (i + 1))
        BY <1>3, <2>1, Zenon
      <3>2. FixesBy(r)[i + 1] = FixesBy(r)[(i + 1) - 1] \o FixAt(r, i + 1)
        BY <1>3, <2>1, Zenon
      <3> QED
        BY <2>1, <3>1, <3>2, Zenon
    <2>3. FixAt(b, n + (i + 1)) = f
      <3> DEFINE j == i + 1
      <3>1. j \in 1..Len(r)
        BY <2>1
      <3> HIDE DEF j
      <3>2. FixAt(b, Len(t) + j) = FixAt(r, j)
        BY <3>1, FixRight
      <3> QED
        BY <3>2 DEF j
    <2>4. FixesBy(b)[n + i] = w \o u
      BY <1>6, Zenon
    <2>5. u \in Seq(Seq(Byte)) /\ f \in Seq(Seq(Byte))
      BY <1>2, <2>1, FixType, FixesType, Zenon
    <2> HIDE DEF u, f, w, n
    <2>6. (w \o u) \o f = w \o (u \o f)
      <3> DEFINE X == Seq(Byte)
      <3>1. w \in Seq(X) /\ u \in Seq(X) /\ f \in Seq(X)
        BY <1>4, <2>5
      <3> HIDE DEF X
      <3> QED
        BY <3>1, ConcatAssociative, SMTT(30)
    <2> QED
      BY <2>1, <2>2, <2>3, <2>4, <2>6, Zenon
  <1>7. 0..Len(r) \subseteq T
    <2> HIDE DEF T
    <2> QED
      BY <1>1, <1>5, <1>6, Induction
  <1>8. Len(r) \in T
    <2> HIDE DEF T
    <2> QED
      BY <1>1, <1>7
  <1>9. WholeFixes(b) = FixesBy(b)[n + Len(r)]
    BY <1>1, Zenon DEF WholeFixes
  <1> QED
    BY <1>8, <1>9, Zenon DEF WholeFixes

LEMMA NoneOpenJoined ==
  ASSUME NEW b, NEW t, NEW r, Joined(b, t, r), Len(r) > 0, NoneOpen(r, Len(r))
  PROVE  NoneOpen(b, Len(b))
  <1> DEFINE n == Len(t)
             m == Len(r)
  <1>1. /\ Len(b) \in Nat /\ n \in Nat /\ m \in Nat /\ Len(b) = n + m /\ m \in 1..m
        /\ b \in Seq(Byte) /\ r \in Seq(Byte) /\ \A k \in 1..m : b[n + k] = r[k]
    BY JoinedLens DEF Joined
  <1> SUFFICES ASSUME NEW p \in 1..Len(b), OpenAt(b, p, Len(b)) PROVE FALSE
    BY Zenon DEF NoneOpen
  <1>2. /\ Pair(b, p) /\ \A q \in (p + 1)..(n + m) : ~Pair(b, q)
        /\ n + m >= p + 3 => LenAt(b, p) <= MaxPayload /\ n + m < p + Header + LenAt(b, p)
    BY <1>1 DEF OpenAt
  <1>3. CASE p \in 1..n
    <2>1. n + m >= p + 3 => LenAt(b, p) <= MaxPayload /\ n + m <= p + Header + LenAt(b, p)
      <3> SUFFICES ASSUME n + m >= p + 3 PROVE LenAt(b, p) <= MaxPayload /\ n + m <= p + Header + LenAt(b, p)
        OBVIOUS
      <3>1. LenAt(b, p) \in Nat
        BY <1>1, LenIs
      <3> QED
        BY <1>1, <1>2, <3>1, ParserConstants
    <2> HIDE DEF n, m
    <2> QED
      BY <1>1, <1>2, <1>3, <2>1, NoneOver, Zenon DEF n, m
  <1>4. CASE p \notin 1..n
    <2> DEFINE q == p - n
    <2>1. q \in 1..m /\ n + q = p
      BY <1>1, <1>4
    <2> HIDE DEF q, n, m
    <2>2. Pair(r, q)
      BY <1>2, <2>1, PairRight, Zenon DEF n, m
    <2>3. \A k \in (q + 1)..m : ~Pair(r, k)
      <3> SUFFICES ASSUME NEW k \in (q + 1)..m PROVE ~Pair(r, k)
        OBVIOUS
      <3>1. n + k \in (p + 1)..(n + m) /\ k \in 1..m
        BY <1>1, <2>1
      <3>2. ~Pair(b, n + k)
        BY <1>2, <3>1
      <3> QED
        BY <3>1, <3>2, PairRight, Zenon DEF n, m
    <2>4. m >= q + 3 => LenAt(r, q) <= MaxPayload /\ m < q + Header + LenAt(r, q)
      <3> SUFFICES ASSUME m >= q + 3 PROVE LenAt(r, q) <= MaxPayload /\ m < q + Header + LenAt(r, q)
        OBVIOUS
      <3>1. q + 3 \in 1..m /\ n + (q + 3) = p + 3 /\ q \in Nat /\ q >= 1 /\ n + m >= p + 3
        BY <1>1, <2>1
      <3>2. LenAt(b, p) = LenAt(r, q)
        BY <1>1, <3>1 DEF LenAt
      <3>3. LenAt(r, q) \in Nat
        BY <1>1, <3>1, LenIs DEF m
      <3> QED
        BY <1>1, <1>2, <2>1, <3>1, <3>2, <3>3, ParserConstants
    <2>5. OpenAt(r, q, m)
      BY <2>1, <2>2, <2>3, <2>4, Zenon DEF OpenAt
    <2> QED
      BY <2>1, <2>5, Zenon DEF NoneOpen, m
  <1> QED
    BY <1>3, <1>4

LEMMA WholeType ==
  ASSUME NEW b \in Seq(Byte)
  PROVE  WholeFixes(b) \in Seq(Seq(Byte))
  <1>1. Len(b) \in 0..Len(b)
    OBVIOUS
  <1> QED
    BY <1>1, FixesType, Zenon DEF WholeFixes

LEMMA NothingRead == WholeFixes(<< >>) = << >> /\ NoneOpen(<< >>, Len(<< >>))
  <1>1. Len(<< >>) = 0 /\ 0 \in Nat
    OBVIOUS
  <1>2. FixesBy(<< >>)[0] = << >>
    BY <1>1, FixesIs
  <1>3. 1..0 = {}
    OBVIOUS
  <1> QED
    BY <1>1, <1>2, <1>3, Zenon DEF WholeFixes, NoneOpen
-----------------------------------------------------------------------------
(* Whatever it reads, the parser is in a frame or outside any. *)
LEMMA ByteFlag ==
  ASSUME NEW s, s.awaiting \in BOOLEAN, NEW i, NEW ret
  PROVE  ParseByte(s, i, ret).awaiting \in BOOLEAN
  <1>1. CASE IsSync(s.buf, i, ret)
    <2> DEFINE t == ParseByte(s, i, ret)
    <2>1. t = State([s.buf EXCEPT ![0] = s.buf[i]], 1, TRUE, s.found)
      BY <1>1, ByteSync, Zenon
    <2> HIDE DEF t
    <2>2. t.awaiting = TRUE
      BY <2>1, Zenon DEF State
    <2>3. t.awaiting \in BOOLEAN
      BY <2>2, Zenon
    <2> QED
      BY <2>3 DEF t
  <1>2. CASE ~IsSync(s.buf, i, ret) /\ s.awaiting = FALSE
    <2> DEFINE t == ParseByte(s, i, ret)
    <2>1. t = State(s.buf, s.len, FALSE, s.found)
      BY <1>2, ByteSkipped, Zenon
    <2> HIDE DEF t
    <2>2. t.awaiting = FALSE
      BY <2>1, Zenon DEF State
    <2>3. t.awaiting \in BOOLEAN
      BY <2>2, Zenon
    <2> QED
      BY <2>3 DEF t
  <1>3. CASE ~IsSync(s.buf, i, ret) /\ s.awaiting = TRUE
    <2> DEFINE t == ParseByte(s, i, ret)
    <2>1. \E buf, len, fs : t = State(buf, len, TRUE, fs) \/ t = State(buf, len, FALSE, fs)
      <3>1. (IsSync(s.buf, i, ret) \/ s.awaiting) = TRUE
        BY <1>3, Zenon
      <3> QED
        BY <1>3, <3>1, Zenon DEF ParseByte
    <2> HIDE DEF t
    <2>2. ASSUME NEW buf, NEW len, NEW fs, t = State(buf, len, TRUE, fs) PROVE t.awaiting = TRUE
      BY <2>2, Zenon DEF State
    <2>3. ASSUME NEW buf, NEW len, NEW fs, t = State(buf, len, FALSE, fs) PROVE t.awaiting = FALSE
      BY <2>3, Zenon DEF State
    <2>4. t.awaiting \in BOOLEAN
      BY <2>1, <2>2, <2>3, Zenon
    <2> QED
      BY <2>4 DEF t
  <1> QED
    BY <1>1, <1>2, <1>3, Zenon

LEMMA LoopFlag ==
  ASSUME NEW buf, NEW ret \in Nat, awaiting_sync \in BOOLEAN
  PROVE  ParseUbx(buf, ret)[ret].awaiting \in BOOLEAN
  <1> DEFINE loop == ParseUbx(buf, ret)
             T == {i \in 0..ret : loop[i].awaiting \in BOOLEAN}
  <1>1. loop[0] = State(buf, parse_len, awaiting_sync, << >>)
        /\ \A i \in 0..(ret - 1) : loop[i + 1] = ParseByte(loop[i], i, ret)
    BY LoopIs
  <1> HIDE DEF loop
  <1>2. 0 \in T
    <2> DEFINE s == loop[0]
    <2>1. s = State(buf, parse_len, awaiting_sync, << >>)
      BY <1>1
    <2> HIDE DEF s
    <2>2. s.awaiting = awaiting_sync
      BY <2>1, SMT DEF State
    <2>3. s.awaiting \in BOOLEAN
      BY <2>2, Zenon
    <2> QED
      BY <2>3 DEF s
  <1>3. ASSUME NEW i \in 0..(ret - 1), i \in T PROVE i + 1 \in T
    <2>1. loop[i].awaiting \in BOOLEAN /\ loop[i + 1] = ParseByte(loop[i], i, ret) /\ i + 1 \in 0..ret
      BY <1>1, <1>3
    <2>2. ParseByte(loop[i], i, ret).awaiting \in BOOLEAN
      BY <2>1, ByteFlag
    <2> QED
      BY <2>1, <2>2
  <1>4. 0..ret \subseteq T
    <2> HIDE DEF T
    <2> QED
      BY <1>2, <1>3, Induction
  <1> QED
    BY <1>4 DEF loop


Fixes == Seq(Seq(Byte))

BytesInv ==
  pending \in Seq(Byte) /\ taken \in Seq(Byte) /\ sends \in Nat /\ awaiting_sync \in BOOLEAN

FoundInv ==
  /\ source \in {"ubx", "nmea"}
  /\ pc \in {"init", "configure", "read"} \/ (source = "nmea" /\ pc \in {"copy", "wrap"})
       => found = << >>
  /\ source = "nmea" => found = << >> \/ \E x : found = << x >>

(* While all reads have been in order, what is queued starts a message, so *)
(* that it cannot complete a pair, and a parser that waits for a frame has *)
(* none open in what it has read.                                          *)
OrderInv ==
  ~disturbed => /\ Len(pending) > 0 => pending[1].is # "sync2"
                /\ handed \in Fixes /\ (source = "ubx" => found \in Fixes)
                /\ awaiting_sync = FALSE => NoneOpen(taken, Len(taken))

StoredInv == BytesInv /\ FoundInv /\ OrderInv /\ WholeFixesStored

FromFrames == IF source = "ubx" THEN found ELSE << >>
LEMMA StoredIs == WholeFixesStored <=> (~disturbed => handed \o FromFrames = WholeFixes(taken))
  BY Zenon DEF WholeFixesStored, FromFrames

LEMMA NoFixes == << >> \in Fixes /\ \A f \in Fixes : f \o << >> = f
  <1> DEFINE X == Seq(Byte)
  <1>1. \A f \in Seq(X) : f \o << >> = f
    <2> HIDE DEF X
    <2> QED
      BY ConcatEmptySeq
  <1>2. << >> \in Seq(X)
    OBVIOUS
  <1> QED
    BY <1>1, <1>2 DEF Fixes

LEMMA InitStored == ParserInit => StoredInv
  <1> SUFFICES ASSUME ParserInit PROVE StoredInv
    OBVIOUS
  <1>1. /\ pending = << >> /\ taken = << >> /\ sends = 0 /\ awaiting_sync = FALSE /\ found = << >>
        /\ handed = << >> /\ pc = "init" /\ source \in {"ubx", "nmea"}
    BY DEF ParserInit, Init
  <1>2. BytesInv
    <2>1. << >> \in Seq(Byte) /\ 0 \in Nat
      OBVIOUS
    <2>2. awaiting_sync \in BOOLEAN
      BY <1>1, Zenon
    <2> QED
      BY <1>1, <2>1, <2>2, Zenon DEF BytesInv
  <1>3. FoundInv
    BY <1>1 DEF FoundInv
  <1>4. OrderInv
    <2>1. ~(Len(pending) > 0)
      <3>1. ~(Len(<< >>) > 0)
        OBVIOUS
      <3> QED
        BY <1>1, <3>1, Zenon
    <2> QED
      BY <1>1, <2>1, NothingRead, NoFixes, Zenon DEF OrderInv
  <1>5. WholeFixesStored
    <2>1. handed \o FromFrames = << >>
      <3>1. FromFrames = << >>
        BY <1>1 DEF FromFrames
      <3> QED
        BY <1>1, <3>1, NoFixes, Zenon
    <2> QED
      BY <1>1, <2>1, NothingRead, StoredIs, Zenon
  <1> QED
    BY <1>2, <1>3, <1>4, <1>5 DEF StoredInv
-----------------------------------------------------------------------------
(* What the module sends are bytes, and none starts with the second byte   *)
(* of a sync pair.                                                         *)
Starts(m) == m \in Seq(Byte) /\ Len(m) > 0 /\ m[1].is # "sync2"

LEMMA FrameStarts ==
  ASSUME NEW id \in Roles, NEW n \in Nat, NEW body \in Bodies
  PROVE  Starts(Frame(id, n, body))
  <1> DEFINE long == MaxPayload + 1
             h1 == [is |-> "sync1", of |-> n, as |-> long]
             h2 == [is |-> "sync2", of |-> n, as |-> long]
             h3 == [is |-> id, of |-> n, as |-> 1]
             h4 == [is |-> "len", of |-> n, as |-> Len(body) - 1]
             h  == << h1, h2, h3, h4 >>
             r  == [k \in 1..Len(body) |-> [is |-> body[k].is, of |-> n, as |-> body[k].as]]
  <1>1. body \in Seq([is : Roles, as : Nat]) /\ Len(body) > 0
    BY ParserAssumption
  <1>2. long \in Nat /\ Len(body) - 1 \in Nat /\ Len(body) \in Nat
    BY <1>1, ParserConstants
  <1>3. h1 \in Byte /\ h2 \in Byte /\ h3 \in Byte /\ h4 \in Byte /\ h1.is = "sync1"
    <2> HIDE DEF long
    <2> QED
      BY <1>2 DEF Byte, Roles
  <1>4. \A k \in 1..Len(body) : [is |-> body[k].is, of |-> n, as |-> body[k].as] \in Byte
    <2> SUFFICES ASSUME NEW k \in 1..Len(body)
                 PROVE  [is |-> body[k].is, of |-> n, as |-> body[k].as] \in Byte
      OBVIOUS
    <2>1. body[k] \in [is : Roles, as : Nat]
      <3> DEFINE X == [is : Roles, as : Nat]
      <3>1. body \in Seq(X)
        BY <1>1
      <3> HIDE DEF X
      <3>2. body[k] \in X
        BY <3>1
      <3> QED
        BY <3>2 DEF X
    <2>2. body[k].is \in Roles /\ body[k].as \in Nat
      BY <2>1
    <2> QED
      BY <2>2 DEF Byte
  <1>5. r \in Seq(Byte)
    BY <1>2, <1>4
  <1>6. Frame(id, n, body) = h \o r
    BY Zenon DEF Frame
  <1> HIDE DEF h1, h2, h3, h4, r
  <1>7. h \in Seq(Byte) /\ Len(h) = 4 /\ h[1] = h1
    <2>1. h \in Seq(Byte)
      BY <1>3
    <2>2. Len(h) = 4 /\ h[1] = h1
      OBVIOUS
    <2> QED
      BY <2>1, <2>2
  <1> HIDE DEF h
  <1>8. h \o r \in Seq(Byte) /\ Len(h \o r) > 0 /\ (h \o r)[1] = h[1]
    <2> DEFINE X == Byte
    <2>1. h \in Seq(X) /\ r \in Seq(X)
      BY <1>5, <1>7
    <2> HIDE DEF X
    <2>2. h \o r \in Seq(X) /\ Len(h \o r) = Len(h) + Len(r) /\ Len(r) \in Nat
          /\ \A i \in 1..(Len(h) + Len(r)) : (h \o r)[i] = IF i <= Len(h) THEN h[i] ELSE r[i - Len(h)]
      BY <2>1, ConcatProperties
    <2>3. 1 \in 1..(Len(h) + Len(r)) /\ 1 <= Len(h) /\ Len(h) + Len(r) > 0
      BY <1>7, <2>2
    <2> QED
      BY <2>2, <2>3 DEF X
  <1> QED
    BY <1>3, <1>6, <1>7, <1>8 DEF Starts

LEMMA SentenceStarts ==
  ASSUME NEW n \in Nat
  PROVE  Starts(Sentence(n))
  <1> DEFINE long == MaxPayload + 1
             role == << "$", "gga", "data", "data", "newline" >>
             m == [k \in 1..5 |-> [is |-> role[k], of |-> n, as |-> long]]
  <1>1. m = Sentence(n)
    BY Zenon DEF Sentence
  <1>2. long \in Nat
    BY ParserConstants
  <1>3. \A k \in 1..5 : role[k] \in Roles
    <2>1. role[1] = "$" /\ role[2] = "gga" /\ role[3] = "data" /\ role[4] = "data" /\ role[5] = "newline"
      OBVIOUS
    <2>2. \A k \in 1..5 : k = 1 \/ k = 2 \/ k = 3 \/ k = 4 \/ k = 5
      OBVIOUS
    <2> HIDE DEF role
    <2> QED
      BY <2>1, <2>2 DEF Roles
  <1>4. role[1] = "$"
    OBVIOUS
  <1> HIDE DEF role, long
  <1>5. \A k \in 1..5 : [is |-> role[k], of |-> n, as |-> long] \in Byte
    BY <1>2, <1>3 DEF Byte
  <1>6. m \in Seq(Byte) /\ Len(m) = 5 /\ m[1].is = "$"
    <2>1. m \in Seq(Byte) /\ Len(m) = 5
      BY <1>5
    <2>2. m[1].is = role[1]
      OBVIOUS
    <2> QED
      BY <1>4, <2>1, <2>2
  <1> HIDE DEF m
  <1>7. Len(m) > 0 /\ m[1].is # "sync2"
    BY <1>6
  <1> QED
    BY <1>1, <1>6, <1>7, Zenon DEF Starts
-----------------------------------------------------------------------------
LEMMA QueueGrows ==
  ASSUME NEW q \in Seq(Byte), NEW m, Starts(m)
  PROVE  /\ q \o m \in Seq(Byte) /\ Len(q \o m) > 0
         /\ IF Len(q) > 0 THEN (q \o m)[1] = q[1] ELSE (q \o m)[1] = m[1]
  <1> DEFINE X == Byte
  <1>1. m \in Seq(X) /\ q \in Seq(X) /\ Len(m) > 0
    BY DEF Starts
  <1> HIDE DEF X
  <1>2. q \o m \in Seq(X) /\ Len(q \o m) = Len(q) + Len(m) /\ Len(q) \in Nat /\ Len(m) \in Nat
        /\ \A i \in 1..(Len(q) + Len(m)) : (q \o m)[i] = IF i <= Len(q) THEN q[i] ELSE m[i - Len(q)]
    BY <1>1, ConcatProperties
  <1>3. 1 \in 1..(Len(q) + Len(m)) /\ Len(q) + Len(m) > 0 /\ (Len(q) > 0 => 1 <= Len(q))
        /\ (~(Len(q) > 0) => ~(1 <= Len(q)) /\ 1 - Len(q) = 1)
    BY <1>1, <1>2
  <1> QED
    BY <1>2, <1>3 DEF X

LEMMA SendStored ==
  ASSUME StoredInv, Send
  PROVE  StoredInv'
  <1>1. PICK m : /\ m \in {Message(body, sends + 1) : body \in Bodies} \cup {Sentence(sends + 1)}
                 /\ pending' = pending \o m
    BY DEF Send
  <1>2. /\ sends' = sends + 1 /\ awaiting_sync' = awaiting_sync /\ found' = found /\ handed' = handed
        /\ taken' = taken /\ disturbed' = disturbed /\ pc' = pc /\ source' = source
    BY DEF Send, vars, m10, setup, store, parser, history
  <1>3. BytesInv /\ FoundInv /\ OrderInv /\ WholeFixesStored /\ pending \in Seq(Byte) /\ sends + 1 \in Nat
    BY DEF StoredInv, BytesInv
  <1>4. Starts(m)
    <2>1. ASSUME NEW body \in Bodies PROVE Starts(Message(body, sends + 1))
      <3>1. (IF Len(body) = PvtLen + 1 THEN "nav_pvt" ELSE "other") \in Roles
        BY DEF Roles
      <3> QED
        BY <1>3, <3>1, FrameStarts, Zenon DEF Message
    <2>2. Starts(Sentence(sends + 1))
      BY <1>3, SentenceStarts
    <2> QED
      BY <1>1, <2>1, <2>2, Zenon
  <1>5. /\ pending' \in Seq(Byte) /\ Len(pending') > 0
        /\ IF Len(pending) > 0 THEN pending'[1] = pending[1] ELSE pending'[1] = m[1]
    BY <1>1, <1>3, <1>4, QueueGrows, Zenon
  <1>6. BytesInv'
    BY <1>2, <1>3, <1>5, Zenon DEF BytesInv
  <1>7. FoundInv'
    BY <1>2, <1>3 DEF FoundInv
  <1>8. OrderInv'
    <2>1. ~disturbed' => pending'[1].is # "sync2"
      BY <1>2, <1>3, <1>4, <1>5 DEF OrderInv, Starts
    <2> QED
      BY <1>2, <1>3, <2>1, Zenon DEF OrderInv
  <1>9. WholeFixesStored'
    BY <1>2, <1>3, Zenon DEF WholeFixesStored
  <1> QED
    BY <1>6, <1>7, <1>8, <1>9 DEF StoredInv
-----------------------------------------------------------------------------
LEMMA Taken ==
  ASSUME BytesInv, NEW n \in Nat, n <= Len(pending)
  PROVE  /\ SubSeq(pending, 1, n) \in Seq(Byte) /\ Len(SubSeq(pending, 1, n)) = n
         /\ \A k \in 1..n : SubSeq(pending, 1, n)[k] = pending[k]
         /\ SubSeq(pending, n + 1, Len(pending)) \in Seq(Byte)
         /\ Len(SubSeq(pending, n + 1, Len(pending))) = Len(pending) - n
  <1>1. pending \in Seq(Byte)
    BY DEF BytesInv
  <1> QED
    BY <1>1

(* A read that starts outside a frame, or with one. *)
LEMMA ReadFinds ==
  ASSUME BytesInv, ReadAndParse, awaiting_sync = FALSE \/ Pair(SubSeq(pending, 1, Avail), 1)
  PROVE  LET read == SubSeq(pending, 1, Avail)
         IN /\ found' = WholeFixes(read)
            /\ awaiting_sync' = FALSE => NoneOpen(read, Len(read))
  <1> DEFINE read == SubSeq(pending, 1, Avail)
             buf == Received(Avail)
             end == ParseUbx(buf, Avail)[Avail]
  <1>1. found' = end.found /\ awaiting_sync' = end.awaiting /\ Avail > 0
    BY Zenon DEF ReadAndParse
  <1>2. pending \in Seq(Byte) /\ awaiting_sync \in BOOLEAN
    BY DEF BytesInv
  <1>3. Avail \in Nat /\ Avail <= Len(pending) /\ Avail <= BufSize
    BY <1>2, ParserConstants DEF Avail
  <1>4. read \in Seq(Byte) /\ Len(read) = Avail /\ \A k \in 1..Avail : read[k] = pending[k]
    BY <1>3, Taken
  <1>5. DOMAIN buf = 0..(BufSize - 1) /\ \A k \in 0..(Avail - 1) : buf[k] = read[k + 1]
    <2>1. DOMAIN buf = 0..(BufSize - 1)
      BY DEF Received
    <2>2. \A k \in 0..(Avail - 1) : k \in 0..(BufSize - 1) /\ k < Avail /\ k + 1 \in 1..Avail
      BY <1>3, ParserConstants
    <2>3. \A k \in 0..(Avail - 1) : buf[k] = pending[k + 1]
      BY <2>2 DEF Received
    <2> HIDE DEF read, buf
    <2> QED
      BY <1>4, <2>1, <2>2, <2>3
  <1>6. Parsed(read, Avail, end) /\ end.found = WholeFixes(read)
    <2> HIDE DEF read, buf
    <2>1. awaiting_sync = FALSE \/ Pair(read, 1)
      BY DEF read
    <2> QED
      BY <1>2, <1>3, <1>4, <1>5, <2>1, LoopParsed
  <1> HIDE DEF end, read
  <1>7. awaiting_sync' = FALSE => NoneOpen(read, Len(read))
    BY <1>1, <1>4, <1>6, Zenon DEF Parsed
  <1> QED
    BY <1>1, <1>6, <1>7 DEF read

LEMMA ReadStored ==
  ASSUME StoredInv, ReadAndParse
  PROVE  StoredInv'
  <1> DEFINE read == SubSeq(pending, 1, Avail)
             rest == SubSeq(pending, Avail + 1, Len(pending))
  <1>1. /\ pending' = rest /\ taken' = taken \o read /\ sends' = sends /\ handed' = handed
        /\ disturbed' = (disturbed \/ Len(pending) > BufSize \/ (awaiting_sync /\ ~Pair(pending, 1)))
        /\ pc = "read" /\ pc' = "parse" /\ source' = "ubx" /\ Avail > 0
    BY Zenon DEF ReadAndParse, ReadBytes
  <1>2. /\ BytesInv /\ FoundInv /\ OrderInv /\ WholeFixesStored
        /\ pending \in Seq(Byte) /\ taken \in Seq(Byte) /\ sends \in Nat /\ awaiting_sync \in BOOLEAN
    BY DEF StoredInv, BytesInv
  <1>3. Avail \in Nat /\ Avail <= Len(pending) /\ Len(pending) \in Nat
        /\ (~(Len(pending) > BufSize) => Avail = Len(pending))
    BY <1>2, ParserConstants DEF Avail
  <1>4. read \in Seq(Byte) /\ Len(read) = Avail /\ (\A k \in 1..Avail : read[k] = pending[k])
        /\ rest \in Seq(Byte) /\ Len(rest) = Len(pending) - Avail
    BY <1>2, <1>3, Taken
  <1> HIDE DEF read, rest
  <1>5. BytesInv'
    <2>1. taken' \in Seq(Byte)
      <3> DEFINE X == Byte
      <3>1. taken \in Seq(X) /\ read \in Seq(X)
        BY <1>2, <1>4
      <3> HIDE DEF X
      <3>2. taken \o read \in Seq(X)
        BY <3>1, ConcatProperties
      <3> QED
        BY <1>1, <3>2 DEF X
    <2>2. awaiting_sync' \in BOOLEAN
      <3> DEFINE buf == Received(Avail)
      <3>1. awaiting_sync' = ParseUbx(buf, Avail)[Avail].awaiting
        BY Zenon DEF ReadAndParse
      <3> HIDE DEF buf
      <3>2. ParseUbx(buf, Avail)[Avail].awaiting \in BOOLEAN
        BY <1>2, <1>3, LoopFlag, Zenon
      <3> QED
        BY <3>1, <3>2, Zenon
    <2> QED
      BY <1>1, <1>2, <1>4, <2>1, <2>2, Zenon DEF BytesInv
  <1>6. FoundInv'
    BY <1>1 DEF FoundInv
  <1>7. ASSUME ~disturbed'
        PROVE  /\ ~(Len(pending') > 0) /\ handed' \in Fixes /\ found' \in Fixes
               /\ awaiting_sync' = FALSE => NoneOpen(taken', Len(taken'))
               /\ handed' \o found' = WholeFixes(taken')
    <2>1. ~disturbed /\ ~(Len(pending) > BufSize) /\ (awaiting_sync = FALSE \/ Pair(pending, 1))
      BY <1>1, <1>2, <1>7, Zenon
    <2>2. Avail = Len(pending) /\ ~(Len(pending') > 0) /\ Len(read) > 0
      BY <1>1, <1>3, <1>4, <2>1
    <2>3. read = pending
      BY <1>2, <1>4, <2>2, SeqEqual
    <2>4. /\ pending[1].is # "sync2" /\ handed \in Fixes
          /\ awaiting_sync = FALSE => NoneOpen(taken, Len(taken))
      <3>1. Len(pending) > 0
        BY <2>2, <2>3
      <3> QED
        BY <1>2, <2>1, <3>1, Zenon DEF OrderInv
    <2>5. Joined(taken', taken, read)
      BY <1>1, <1>2, <1>4, <2>1, <2>3, <2>4, JoinedIs, Zenon
    <2>6. found' = WholeFixes(read) /\ (awaiting_sync' = FALSE => NoneOpen(read, Len(read)))
      <3>1. awaiting_sync = FALSE \/ Pair(SubSeq(pending, 1, Avail), 1)
        BY <2>1, <2>3 DEF read
      <3> QED
        BY <1>2, <3>1, ReadFinds, Zenon DEF read
    <2>7. handed = WholeFixes(taken)
      <3>1. FromFrames = << >>
        BY <1>1, <1>2 DEF FoundInv, FromFrames
      <3>2. handed \o << >> = WholeFixes(taken)
        BY <1>2, <2>1, <3>1, StoredIs, Zenon
      <3> QED
        BY <2>4, <3>2, NoFixes
    <2>8. handed' \o found' = WholeFixes(taken')
      <3>1. WholeFixes(taken') = WholeFixes(taken) \o WholeFixes(read)
        BY <2>5, WholeJoined
      <3>2. handed' = WholeFixes(taken) /\ found' = WholeFixes(read)
        BY <1>1, <2>6, <2>7, Zenon
      <3> QED
        BY <3>1, <3>2, Zenon
    <2>9. awaiting_sync' = FALSE => NoneOpen(taken', Len(taken'))
      BY <2>2, <2>5, <2>6, NoneOpenJoined, Zenon
    <2>10. found' \in Fixes
      BY <1>4, <2>6, WholeType, Zenon DEF Fixes
    <2> QED
      BY <1>1, <2>2, <2>4, <2>8, <2>9, <2>10, Zenon
  <1>8. OrderInv'
    BY <1>7, Zenon DEF OrderInv
  <1>9. WholeFixesStored'
    <2>1. ~disturbed' => handed' \o (IF source' = "ubx" THEN found' ELSE << >>) = WholeFixes(taken')
      BY <1>1, <1>7, Zenon
    <2> QED
      BY <2>1, Zenon DEF WholeFixesStored
  <1> QED
    BY <1>5, <1>6, <1>8, <1>9 DEF StoredInv

LEMMA FailStored ==
  ASSUME StoredInv, ReadFails
  PROVE  StoredInv'
  <1>1. PICK n \in Lost : /\ n <= Avail
                          /\ pending' = SubSeq(pending, n + 1, Len(pending))
                          /\ disturbed' = (disturbed \/ n > 0)
    BY DEF ReadFails
  <1>2. /\ sends' = sends /\ awaiting_sync' = awaiting_sync /\ found' = found /\ handed' = handed
        /\ taken' = taken /\ pc = "read" /\ pc' = "configure" /\ source' = source
    BY DEF ReadFails, ReadNothing, store
  <1>3. /\ BytesInv /\ FoundInv /\ OrderInv /\ WholeFixesStored /\ pending \in Seq(Byte)
    BY DEF StoredInv, BytesInv
  <1>4. n \in Nat /\ n <= Len(pending)
    <2>1. n \in Nat
      BY ParserAssumption
    <2> QED
      BY <1>1, <1>3, <2>1, ParserConstants DEF Avail
  <1>5. BytesInv'
    <2>1. pending' \in Seq(Byte)
      BY <1>1, <1>3, <1>4, Taken, Zenon
    <2> QED
      BY <1>2, <1>3, <2>1, Zenon DEF BytesInv
  <1>6. FoundInv'
    BY <1>2, <1>3 DEF FoundInv
  <1>7. ~disturbed' => ~disturbed /\ pending' = pending
    <2> SUFFICES ASSUME ~disturbed' PROVE ~disturbed /\ pending' = pending
      OBVIOUS
    <2>1. ~disturbed /\ n = 0
      <3>1. ~disturbed /\ ~(n > 0)
        BY <1>1, Zenon
      <3> QED
        BY <1>4, <3>1
    <2>2. pending' = SubSeq(pending, 1, Len(pending))
      BY <1>1, <2>1
    <2> QED
      BY <1>3, <2>1, <2>2
  <1>8. OrderInv'
    BY <1>2, <1>3, <1>7, Zenon DEF OrderInv
  <1>9. WholeFixesStored'
    BY <1>2, <1>3, <1>7, Zenon DEF WholeFixesStored
  <1> QED
    BY <1>5, <1>6, <1>8, <1>9 DEF StoredInv

LEMMA HeadMoves ==
  ASSUME NEW h \in Fixes, NEW f \in Fixes, f # << >>
  PROVE  /\ Append(h, Head(f)) \in Fixes /\ Tail(f) \in Fixes
         /\ h \o f = Append(h, Head(f)) \o Tail(f)
  <1> DEFINE X == Seq(Byte)
  <1>1. h \in Seq(X) /\ f \in Seq(X)
    BY DEF Fixes
  <1> HIDE DEF X
  <1>2. Append(h, Head(f)) \in Seq(X) /\ Tail(f) \in Seq(X)
    BY <1>1
  <1>3. h \o f = Append(h, Head(f)) \o Tail(f)
    BY <1>1
  <1> QED
    BY <1>2, <1>3 DEF Fixes, X

LEMMA StoreStored ==
  ASSUME StoredInv, StoreFound
  PROVE  StoredInv'
  <1>1. /\ found # << >> /\ found' = Tail(found) /\ pc = "parse" /\ pc' = "copy" /\ source' = source
        /\ handed' = IF source = "ubx" THEN Append(handed, Head(found)) ELSE handed
        /\ pending' = pending /\ sends' = sends /\ awaiting_sync' = awaiting_sync
        /\ taken' = taken /\ disturbed' = disturbed
    BY DEF StoreFound, ParseFix, parser
  <1>2. BytesInv /\ FoundInv /\ OrderInv /\ WholeFixesStored
    BY DEF StoredInv
  <1>3. BytesInv'
    BY <1>1, <1>2, Zenon DEF BytesInv
  <1>4. source = "nmea" => found' = << >>
    <2> SUFFICES ASSUME source = "nmea" PROVE found' = << >>
      OBVIOUS
    <2>1. PICK x : found = << x >>
      BY <1>1, <1>2 DEF FoundInv
    <2>2. Tail(<< x >>) = << >>
      OBVIOUS
    <2> QED
      BY <1>1, <2>1, <2>2
  <1>5. FoundInv'
    BY <1>1, <1>2, <1>4 DEF FoundInv
  <1>6. ASSUME ~disturbed, source = "ubx"
        PROVE  handed' \in Fixes /\ found' \in Fixes /\ handed' \o found' = WholeFixes(taken)
    <2>1. handed \in Fixes /\ found \in Fixes /\ handed \o found = WholeFixes(taken)
      BY <1>2, <1>6, StoredIs, Zenon DEF OrderInv, FromFrames
    <2> QED
      BY <1>1, <1>6, <2>1, HeadMoves, Zenon
  <1>7. source # "ubx" => handed' = handed
    BY <1>1
  <1>8. OrderInv'
    BY <1>1, <1>2, <1>6, <1>7, Zenon DEF OrderInv
  <1>9. WholeFixesStored'
    BY <1>1, <1>2, <1>6, <1>7, Zenon DEF WholeFixesStored
  <1> QED
    BY <1>3, <1>5, <1>8, <1>9 DEF StoredInv

(* Where the bytes and what is found for the ring and handed to it stay.   *)
LEMMA Still ==
  ASSUME StoredInv, pending' = pending, sends' = sends, awaiting_sync' = awaiting_sync, handed' = handed,
         taken' = taken, disturbed' = disturbed,
         source' = "ubx" => source = "ubx" /\ found' = found,
         source = "ubx" /\ source' # "ubx" => found = << >>
  PROVE  BytesInv' /\ OrderInv' /\ WholeFixesStored'
  <1>1. BytesInv /\ OrderInv /\ WholeFixesStored
    BY DEF StoredInv
  <1>2. BytesInv'
    BY <1>1, Zenon DEF BytesInv
  <1>3. OrderInv'
    BY <1>1, Zenon DEF OrderInv
  <1>4. (IF source' = "ubx" THEN found' ELSE << >>) = IF source = "ubx" THEN found ELSE << >>
    BY Zenon
  <1>5. WholeFixesStored'
    BY <1>1, <1>4, Zenon DEF WholeFixesStored
  <1> QED
    BY <1>2, <1>3, <1>5

LEMMA NmeaFinds == ASSUME NEW buf, NEW ret PROVE NmeaFix(buf, ret) = << >> \/ \E x : NmeaFix(buf, ret) = << x >>
  BY Zenon DEF NmeaFix

LEMMA LoopEndStored ==
  ASSUME StoredInv, LoopEnd
  PROVE  StoredInv'
  <1>1. /\ found = << >> /\ found' = IF source = "ubx" THEN NmeaFix(parse_buf, got) ELSE << >>
        /\ pending' = pending /\ sends' = sends /\ awaiting_sync' = awaiting_sync
        /\ taken' = taken /\ handed' = handed /\ disturbed' = disturbed
        /\ pc = "parse" /\ \/ source = "ubx" /\ source' = "nmea" /\ pc' = pc
                           \/ source = "nmea" /\ pc' = "configure" /\ source' = source
    BY DEF LoopEnd, ParseEnd, parser, history
  <1>2. found' = << >> \/ \E x : found' = << x >>
    BY <1>1, NmeaFinds
  <1>3. FoundInv'
    BY <1>1, <1>2 DEF FoundInv
  <1>4. source' # "ubx"
    BY <1>1
  <1> QED
    BY <1>1, <1>3, <1>4, Still DEF StoredInv

LEMMA ElsewhereStored ==
  ASSUME StoredInv, Elsewhere \/ UNCHANGED allVars
  PROVE  StoredInv'
  <1>1. /\ pending' = pending /\ sends' = sends /\ awaiting_sync' = awaiting_sync /\ found' = found
        /\ taken' = taken /\ handed' = handed /\ disturbed' = disturbed /\ source' = source
    BY DEF Elsewhere, allVars, vars, parser, history, m10, setup, store, m10_init, Configure, ReadNothing,
           CopyWord, Increment, Wrap, gps_get_latest, gps_get_latest_if_fresh, Return, Tick
  <1>2. \/ pc' = pc
        \/ pc = "init" /\ pc' = "configure"
        \/ pc = "configure" /\ pc' = "read"
        \/ pc = "read" /\ pc' = "configure"
        \/ pc = "copy" /\ pc' = "wrap"
        \/ pc = "wrap" /\ pc' = IF source = "nmea" THEN "configure" ELSE "parse"
    BY DEF Elsewhere, allVars, vars, m10, setup, store, m10_init, Configure, ReadNothing,
           CopyWord, Increment, Wrap, gps_get_latest, gps_get_latest_if_fresh, Return, Tick
  <1>3. FoundInv'
    BY <1>1, <1>2 DEF StoredInv, FoundInv
  <1> QED
    BY <1>1, <1>3, Still DEF StoredInv

LEMMA NextStored == StoredInv /\ [ParserNext]_allVars => StoredInv'
  BY SendStored, ReadStored, FailStored, StoreStored, LoopEndStored, ElsewhereStored DEF ParserNext

LEMMA StoredInvariant == ParserSpec => []StoredInv
  BY InitStored, NextStored, PTL DEF ParserSpec

(* Whatever bytes the payloads have: while all reads are in order, the     *)
(* ring is handed the fixes of exactly the frames that line 390 does not   *)
(* abandon, in order, wherever one read ends and the next begins.          *)
THEOREM WholeFixesTheorem == ParserSpec => []WholeFixesStored
  <1>1. StoredInv => WholeFixesStored
    BY DEF StoredInv
  <1> QED
    BY <1>1, StoredInvariant, PTL

LEMMA WholeStep ==
  ASSUME StoredInv, [ParserNext]_allVars, pc = "read", pc' = "parse",
         ~awaiting_sync \/ Pair(SubSeq(pending, 1, got'), 1)
  PROVE  found' = WholeFixes(SubSeq(pending, 1, got'))
  <1>1. ReadAndParse
    <2>1. Send => pc' = pc
      BY DEF Send, vars, setup, store, m10
    <2>2. StoreFound \/ LoopEnd => pc = "parse"
      BY DEF StoreFound, LoopEnd, ParseFix, ParseEnd
    <2>3. ReadFails => pc' = "configure"
      BY DEF ReadFails, ReadNothing
    <2>4. Elsewhere \/ UNCHANGED allVars => ~(pc = "read" /\ pc' = "parse")
      BY DEF Elsewhere, allVars, vars, m10, setup, store, m10_init, Configure, ReadNothing,
             CopyWord, Increment, Wrap, gps_get_latest, gps_get_latest_if_fresh, Return, Tick
    <2> QED
      BY <2>1, <2>2, <2>3, <2>4 DEF ParserNext
  <1>2. got' = Avail /\ BytesInv /\ awaiting_sync \in BOOLEAN
    BY <1>1 DEF ReadAndParse, StoredInv, BytesInv
  <1>3. awaiting_sync = FALSE \/ Pair(SubSeq(pending, 1, Avail), 1)
    BY <1>2, Zenon
  <1> QED
    BY <1>1, <1>2, <1>3, ReadFinds, Zenon

(* Every read that starts outside a frame or with one finds exactly the    *)
(* fixes of the frames whole in it that line 390 does not abandon, for any *)
(* bytes and any read: the assembly in the buffer that is being read never *)
(* overtakes the reading.                                                  *)
THEOREM WholeFramesTheorem == ParserSpec => WholeFramesParsed
  <1>1. StoredInv /\ [ParserNext]_allVars
          => [pc = "read" /\ pc' = "parse" =>
               LET read == SubSeq(pending, 1, got')
               IN ~awaiting_sync \/ Pair(read, 1) => found' = WholeFixes(read)]_allVars
    BY WholeStep, Zenon
  <1> QED
    BY <1>1, StoredInvariant, PTL DEF ParserSpec, WholeFramesParsed
=============================================================================
