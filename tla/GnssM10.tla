------------------------------ MODULE GnssM10 ------------------------------
(***************************************************************************)
(* The u-blox M10 driver, drivers/gnss/u_blox_m10/gnss_u_blox_m10.c: the   *)
(* acquisition thread, the two-slot ring it stores positions in, and the   *)
(* calls that read the ring.                                               *)
(*                                                                         *)
(* The thread copies a position into a slot word by word and moves the     *)
(* index afterwards in two steps.  Readers run at a higher priority: they  *)
(* preempt the thread between any two of its steps and run to completion.  *)
(* What the bytes of a cycle contain is a choice: any number of UBX fixes, *)
(* then at most one NMEA fix.                                              *)
(***************************************************************************)
EXTENDS Integers

CONSTANTS
  Words,            \* the words of a struct gps_position, 1..Words
  RING_BUFFER_SIZE,
  ClockMod,         \* the 32-bit microsecond clock counts modulo this
  MaxAge,           \* the max_age_ms of the callers, in ticks
  MaxFixes, MaxTime \* bounds: fixes parsed, ticks of real time

ASSUME GnssAssumption ==
  /\ Words \in Nat \ {0} /\ RING_BUFFER_SIZE = 2 /\ ClockMod \in Nat \ {0}
  /\ MaxAge \in Nat /\ MaxFixes \in Nat /\ MaxTime \in Nat

VARIABLES
  ring_buffer,        \* slot -> word -> the fix the word comes from
  write_idx, read_idx,
  configured, config_retry_count,
  pc,                 \* of m10_init, then of m10_acquire_thread
  source,             \* "ubx" or "nmea": the loop the store returns to
  pos, copied,        \* the position being stored and its words already copied
  uptime,             \* real time; the CPU clock is uptime % ClockMod
  fixes,              \* history: fixes parsed so far
  published,          \* history: the newest fix completely stored and indexed
  config_ok,          \* history: the module accepted the configuration
  result              \* history: what the last call of the API returned

m10   == <<ring_buffer, write_idx, read_idx>>
setup == <<configured, config_retry_count, config_ok>>
store == <<source, pos, copied>>
vars  == <<m10, setup, pc, store, uptime, fixes, published, result>>

Slots == 0..(RING_BUFFER_SIZE - 1)
NoFix == [n |-> 0, at |-> 0, valid |-> FALSE]     \* a zeroed position
cpu_timestamp_us(fix) == fix.at % ClockMod
Now == uptime % ClockMod
None == [ret |-> "none", call |-> "none", pos |-> [w \in 1..Words |-> NoFix]]

Init ==
  /\ ring_buffer = [s \in Slots |-> [w \in 1..Words |-> NoFix]]
  /\ write_idx = 0 /\ read_idx = 0
  /\ configured = FALSE /\ config_retry_count = 0 /\ config_ok = FALSE
  /\ pc = "init" /\ source = "ubx" /\ pos = NoFix /\ copied = 0
  /\ uptime = 0 /\ fixes = 0 /\ published = NoFix
  /\ result = None
-----------------------------------------------------------------------------
(* Each write of the configuration may fail; the answer is 0 all the same. *)
m10_configure(ok) == 0

(* Before the thread starts; nothing is configured if the bus is not ready.*)
m10_init ==
  /\ pc = "init" /\ pc' = "configure"
  /\ \/ UNCHANGED setup
     \/ \E ok \in BOOLEAN : /\ config_ok' = ok
                            /\ configured' = (m10_configure(ok) = 0)
                            /\ UNCHANGED config_retry_count
  /\ UNCHANGED <<m10, store, uptime, fixes, published, result>>

Configure ==
  /\ pc = "configure"
  /\ IF ~configured /\ config_retry_count < 5
       THEN \E ok \in BOOLEAN :
              /\ config_ok' = ok
              /\ configured' = (m10_configure(ok) = 0)
              /\ config_retry_count' = config_retry_count + (IF configured' THEN 0 ELSE 1)
       ELSE UNCHANGED setup
  /\ pc' = "read"
  /\ UNCHANGED <<m10, store, uptime, fixes, published, result>>

(* One cycle: an I2C transfer fails, or there is nothing to read, and the  *)
(* cycle ends; or up to a buffer of bytes has been read.                   *)
ReadNothing == pc = "read" /\ pc' = "configure"
               /\ UNCHANGED <<m10, setup, store, uptime, fixes, published, result>>
ReadBytes   == pc = "read" /\ pc' = "parse" /\ source' = "ubx"
               /\ UNCHANGED <<m10, setup, pos, copied, uptime, fixes, published, result>>

(* The parsers hand over only positions they mark valid. *)
ParseFix ==
  /\ pc = "parse" /\ fixes < MaxFixes
  /\ fixes' = fixes + 1
  /\ pos' = [n |-> fixes + 1, at |-> uptime, valid |-> TRUE]
  /\ copied' = 0 /\ pc' = "copy"
  /\ UNCHANGED <<m10, setup, source, uptime, published, result>>

ParseEnd ==
  /\ pc = "parse"
  /\ \/ source = "ubx" /\ source' = "nmea" /\ UNCHANGED pc
     \/ source = "nmea" /\ pc' = "configure" /\ UNCHANGED source
  /\ UNCHANGED <<m10, setup, pos, copied, uptime, fixes, published, result>>

(* data->ring_buffer[write_idx] = pos *)
CopyWord ==
  /\ pc = "copy" /\ copied < Words
  /\ ring_buffer' = [ring_buffer EXCEPT ![write_idx][copied + 1] = pos]
  /\ copied' = copied + 1
  /\ UNCHANGED <<write_idx, read_idx, setup, pc, source, pos, uptime, fixes, published, result>>

Increment ==
  /\ pc = "copy" /\ copied = Words
  /\ write_idx' = write_idx + 1
  /\ published' = IF write_idx' < RING_BUFFER_SIZE THEN pos ELSE published
  /\ pc' = "wrap"
  /\ UNCHANGED <<ring_buffer, read_idx, setup, store, uptime, fixes, result>>

(* The operators named Faulty... are what a plausible mistake would make   *)
(* of the operator after them; nothing refers to them.                     *)
FaultyWrapLate ==                    \* one slot too many
  /\ pc = "wrap"
  /\ write_idx' = IF write_idx > RING_BUFFER_SIZE THEN 0 ELSE write_idx
  /\ published' = pos
  /\ pc' = IF source = "nmea" THEN "configure" ELSE "parse"
  /\ UNCHANGED <<ring_buffer, read_idx, setup, store, uptime, fixes, result>>

FaultyWrapToLast ==                  \* the slot readers look at is left out
  /\ pc = "wrap"
  /\ write_idx' = IF write_idx >= RING_BUFFER_SIZE THEN RING_BUFFER_SIZE - 1 ELSE write_idx
  /\ published' = pos
  /\ pc' = IF source = "nmea" THEN "configure" ELSE "parse"
  /\ UNCHANGED <<ring_buffer, read_idx, setup, store, uptime, fixes, result>>

(* The index goes back to 0; a loop over UBX frames goes on, the NMEA one  *)
(* ends with its first fix.                                                *)
Wrap ==
  /\ pc = "wrap"
  /\ write_idx' = IF write_idx >= RING_BUFFER_SIZE THEN 0 ELSE write_idx
  /\ published' = pos
  /\ pc' = IF source = "nmea" THEN "configure" ELSE "parse"
  /\ UNCHANGED <<ring_buffer, read_idx, setup, store, uptime, fixes, result>>

m10_acquire_thread ==
  Configure \/ ReadNothing \/ ReadBytes \/ ParseFix \/ ParseEnd \/ CopyWord \/ Increment \/ Wrap
-----------------------------------------------------------------------------
Return(call, ret, p) ==
  /\ result' = [ret |-> ret, call |-> call, pos |-> p]
  /\ UNCHANGED <<m10, setup, pc, store, uptime, fixes, published>>

gps_get_latest == Return("latest", "0", ring_buffer[read_idx])

(* The members valid and cpu_timestamp_us are two of the words. *)
Valid(p) == p[Words].valid
Faulty_if_fresh ==                   \* the indices are not compared
  LET tmp == ring_buffer[read_idx]
  IN IF ~Valid(tmp) THEN Return("fresh", "-ENODATA", None.pos)
     ELSE IF (Now - cpu_timestamp_us(tmp[1])) % ClockMod > MaxAge
            THEN Return("fresh", "-ETIMEDOUT", None.pos)
            ELSE Return("fresh", "0", tmp)

gps_get_latest_if_fresh ==
  LET tmp == ring_buffer[read_idx]
  IN IF write_idx = read_idx \/ ~Valid(tmp) THEN Return("fresh", "-ENODATA", None.pos)
     ELSE IF (Now - cpu_timestamp_us(tmp[1])) % ClockMod > MaxAge
            THEN Return("fresh", "-ETIMEDOUT", None.pos)
            ELSE Return("fresh", "0", tmp)

Tick == uptime < MaxTime /\ uptime' = uptime + 1
        /\ UNCHANGED <<m10, setup, pc, store, fixes, published, result>>

Next == m10_init \/ m10_acquire_thread \/ gps_get_latest \/ gps_get_latest_if_fresh \/ Tick

Spec == Init /\ [][Next]_vars
-----------------------------------------------------------------------------
Fix == [n : 0..MaxFixes, at : 0..MaxTime, valid : BOOLEAN]
Position == [1..Words -> Fix]

(* Every variable keeps to its type; the index of a write is in the ring.  *)
TypeOK ==
  /\ ring_buffer \in [Slots -> Position]
  /\ write_idx \in 0..RING_BUFFER_SIZE /\ read_idx = 0
  /\ pc # "wrap" => write_idx \in Slots
  /\ configured \in BOOLEAN /\ config_ok \in BOOLEAN /\ config_retry_count \in 0..5
  /\ pc \in {"init", "configure", "read", "parse", "copy", "wrap"}
  /\ source \in {"ubx", "nmea"} /\ pos \in Fix /\ copied \in 0..Words
  /\ uptime \in 0..MaxTime /\ fixes \in 0..MaxFixes /\ published \in Fix
  /\ result.ret \in {"none", "0", "-ENODATA", "-ETIMEDOUT"} /\ result.pos \in Position

Returns(call) == result' # result /\ result'.call = call /\ result'.ret = "0"

(* A position gps_get_latest_if_fresh returns is never a mix of two fixes  *)
(* and is the newest one stored: the thread writes slot 0 only while the   *)
(* indices are equal, which the call takes for "no data".                  *)
FreshIsNewest ==
  [][Returns("fresh") => \A w \in 1..Words : result'.pos[w] = published /\ published.valid]_vars

(* What gps_get_latest returns may lag and may mix fixes, but no word of   *)
(* it is older than the fix before the newest one, whatever the thread is  *)
(* in the middle of.                                                       *)
LatestAtMostOneBehind ==
  [][Returns("latest") => \A w \in 1..Words : result'.pos[w].n + 1 >= published.n]_vars

(* gnss_u_blox_m10.h: "Get the latest GPS position" *)
LatestIsLatest ==
  [][Returns("latest") => \A w \in 1..Words : result'.pos[w].n >= published.n]_vars

(* gnss_u_blox_m10.h: a position is what is returned, not parts of two.    *)
LatestIsOnePosition ==
  [][Returns("latest") => \A v, w \in 1..Words : result'.pos[v] = result'.pos[w]]_vars

(* gnss_u_blox_m10.h: "0 on success, -ENODATA if no valid data" *)
LatestIsValid == [][Returns("latest") => Valid(result'.pos)]_vars

(* gnss_u_blox_m10.h: "-ENODATA if no valid data", of the call for fresh   *)
(* positions: with a fix stored, the answer is about its age.              *)
NoDataMeansNone ==
  [][result' # result /\ result'.call = "fresh" /\ result'.ret = "-ENODATA" => ~published.valid]_vars

(* gnss_u_blox_m10.h: "-ETIMEDOUT if data too old" *)
FreshIsYoung ==
  [][Returns("fresh") => uptime - result'.pos[1].at <= MaxAge]_vars

(* README.md, Error Handling: configuration failures are "Retried up to 5  *)
(* times, then skipped".                                                   *)
FailuresRetried == pc = "read" => config_ok \/ ~configured
=============================================================================
