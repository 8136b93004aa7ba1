----------------------------- MODULE GnssParser -----------------------------
(***************************************************************************)
(* What GnssM10 leaves open: which positions a cycle of the acquisition    *)
(* thread finds.  The module (external) queues UBX frames and NMEA         *)
(* sentences; a cycle reads what is queued, at most a buffer of it, so a   *)
(* frame may be cut; the bytes are parsed in the buffer they were read     *)
(* into, the frame being assembled from its start while the loop still     *)
(* reads further on; then the same buffer is searched for a sentence.      *)
(*                                                                         *)
(* The frame format is scaled down: a byte each for class with ID and for  *)
(* the length, a checksum of one byte, PvtLen bytes of NAV-PVT payload.  A *)
(* byte has a role, the message it is of, and the number it reads as where *)
(* the parser takes it for a length.  Payload and checksum may hold any    *)
(* bytes, those that look like the start of a frame included.              *)
(***************************************************************************)
EXTENDS GnssM10, SequencesExt, FiniteSetsExt

CONSTANTS
  BufSize,       \* sizeof(parse_buf), 256
  MaxPayload,    \* a longer frame is given up at once, 512
  PvtLen,        \* sizeof(struct ubx_nav_pvt), 92
  NmeaTail,      \* bytes that must follow a '$', 80
  Bodies,        \* payloads with their checksum, of the frames the module sends
  Lost,          \* bytes a data read may have moved when it fails
  MaxSent        \* bound: frames and sentences sent

Roles == {"sync1", "sync2", "nav_pvt", "other", "len", "ck", "pvt", "nofix", "data",
          "$", "gga", "newline", "zero"}
Byte  == [is : Roles, of : Nat, as : Nat]

ASSUME ParserAssumption ==
  /\ {BufSize, MaxPayload} \cup Lost \subseteq Nat /\ PvtLen \in Nat \ {0} /\ MaxSent \in Nat
  /\ PvtLen + 5 <= BufSize
  /\ \A body \in Bodies : body \in Seq([is : Roles, as : Nat]) /\ Len(body) > 0

VARIABLES
  pending,                    \* external: the bytes queued in the module
  sends,                      \* frames and sentences sent so far
  parse_buf, parse_len, awaiting_sync,
  got,                        \* ret: the bytes read in this cycle
  found,                      \* positions the running loop has yet to store
  taken,                      \* history: all the bytes read
  handed,                     \* history: the payloads handed to the ring
  disturbed                   \* history: a read has cut, lost or mixed bytes

parser   == <<parse_buf, parse_len, awaiting_sync, got>>
history  == <<taken, handed, disturbed>>
allVars  == <<vars, pending, sends, parser, found, history>>

Header == 4
Zero   == [is |-> "zero", of |-> 0, as |-> 0]
-----------------------------------------------------------------------------
(* What the module sends.  The checksum of a frame is never looked at.     *)
Frame(id, n, body) ==
  << [is |-> "sync1", of |-> n, as |-> MaxPayload + 1],
     [is |-> "sync2", of |-> n, as |-> MaxPayload + 1],
     [is |-> id,      of |-> n, as |-> 1],
     [is |-> "len",   of |-> n, as |-> Len(body) - 1] >>
  \o [k \in 1..Len(body) |-> [is |-> body[k].is, of |-> n, as |-> body[k].as]]

Sentence(n) ==
  [k \in 1..5 |-> [is |-> <<"$", "gga", "data", "data", "newline">>[k], of |-> n, as |-> MaxPayload + 1]]

(* Of the messages the module sends, only a NAV-PVT has its length.        *)
Message(body, n) == Frame(IF Len(body) = PvtLen + 1 THEN "nav_pvt" ELSE "other", n, body)

(* The module sends while the thread sleeps; only a read looks at it.      *)
Send ==
  /\ pc = "read" /\ sends < MaxSent
  /\ \E m \in {Message(body, sends + 1) : body \in Bodies} \cup {Sentence(sends + 1)} :
       pending' = pending \o m
  /\ sends' = sends + 1
  /\ UNCHANGED <<vars, parser, found, history>>
-----------------------------------------------------------------------------
IsSync(buf, i, ret) == buf[i].is = "sync1" /\ i + 1 < ret /\ buf[i + 1].is = "sync2"

FaultyNavPvt(buf, payload_len) ==    \* the fix is not looked at
  IF buf[2].is = "nav_pvt" /\ payload_len >= PvtLen
    THEN << [k \in 1..PvtLen |-> buf[Header + k - 1]] >> ELSE << >>

(* m10_parse_ubx_nav_pvt: long enough, and with a fix. *)
NavPvt(buf, payload_len) ==
  IF buf[2].is = "nav_pvt" /\ payload_len >= PvtLen /\ buf[Header].is = "pvt"
    THEN << [k \in 1..PvtLen |-> buf[Header + k - 1]] >> ELSE << >>

(* What the loop carries from a byte to the next. *)
State(buf, len, awaiting, fixes_found) ==
  [buf |-> buf, len |-> len, awaiting |-> awaiting, found |-> fixes_found]

(* The operators named Faulty... are what a plausible mistake would make   *)
(* of the operator after them; nothing refers to them.                     *)
FaultyParseByte(s, i, ret) ==        \* a sync does not start the frame anew
  LET awaiting == IsSync(s.buf, i, ret) \/ s.awaiting
      len == s.len
      buf == [s.buf EXCEPT ![len] = s.buf[i]]
      payload_len == buf[3].as
  IN IF ~awaiting \/ len >= BufSize THEN State(s.buf, len, awaiting, s.found)
     ELSE IF len + 1 < Header THEN State(buf, len + 1, TRUE, s.found)
     ELSE IF payload_len > MaxPayload THEN State(buf, 0, FALSE, s.found)
     ELSE IF len + 1 < Header + payload_len + 1 THEN State(buf, len + 1, TRUE, s.found)
     ELSE State(buf, 0, FALSE, s.found \o NavPvt(buf, payload_len))

(* The loop body for byte i of ret. *)
ParseByte(s, i, ret) ==
  LET awaiting == IsSync(s.buf, i, ret) \/ s.awaiting
      len == IF IsSync(s.buf, i, ret) THEN 0 ELSE s.len
      buf == [s.buf EXCEPT ![len] = s.buf[i]]
      payload_len == buf[3].as
  IN IF ~awaiting \/ len >= BufSize THEN State(s.buf, len, awaiting, s.found)
     ELSE IF len + 1 < Header THEN State(buf, len + 1, TRUE, s.found)
     ELSE IF payload_len > MaxPayload THEN State(buf, 0, FALSE, s.found)
     ELSE IF len + 1 < Header + payload_len + 1 THEN State(buf, len + 1, TRUE, s.found)
     ELSE State(buf, 0, FALSE, s.found \o NavPvt(buf, payload_len))

(* The parser after each of the bytes 0 to ret - 1. *)
ParseUbx(buf, ret) ==
  LET loop[i \in 0..ret] ==
        IF i = 0 THEN State(buf, parse_len, awaiting_sync, << >>)
                 ELSE ParseByte(loop[i - 1], i - 1, ret)
  IN loop

(* The search for a sentence: the first one that parses with a fix ends it.*)
NmeaFix(buf, ret) ==
  LET End(i) == {j \in (i + 4)..(ret - 1) : buf[j].is = "newline"}
      Parses == {i \in 0..(ret - 1) : /\ buf[i].is = "$" /\ i + NmeaTail < ret
                                      /\ End(i) # {} /\ buf[i + 1].is = "gga"}
  IN IF Parses = {} THEN << >> ELSE << SubSeq([k \in 1..ret |-> buf[k - 1]],
                                              Min(Parses) + 3, Min(End(Min(Parses)))) >>
-----------------------------------------------------------------------------
ParserInit ==
  /\ Init
  /\ pending = << >> /\ sends = 0
  /\ parse_buf = [k \in 0..(BufSize - 1) |-> Zero]
  /\ parse_len = 0 /\ awaiting_sync = FALSE /\ got = 0 /\ found = << >>
  /\ taken = << >> /\ handed = << >> /\ disturbed = FALSE

Avail == IF Len(pending) > BufSize THEN BufSize ELSE Len(pending)

(* parse_buf once the first n bytes queued have been read into it. *)
Received(n) == [k \in 0..(BufSize - 1) |-> IF k < n THEN pending[k + 1] ELSE parse_buf[k]]

(* A frame starts at p of the bytes b. *)
Pair(b, p) == p < Len(b) /\ b[p].is = "sync1" /\ b[p + 1].is = "sync2"

(* The loop over the bytes runs in this step; the thread is preempted only *)
(* by callers that look at the ring, which it changes in steps of its own. *)
(* A read is in order if it takes all that is queued and either finds the  *)
(* parser outside a frame or starts with one.                              *)
ReadAndParse ==
  /\ Avail > 0 /\ ReadBytes
  /\ LET end == ParseUbx(Received(Avail), Avail)[Avail]
     IN /\ parse_buf' = end.buf /\ parse_len' = end.len /\ awaiting_sync' = end.awaiting
        /\ found' = end.found
  /\ got' = Avail
  /\ pending' = SubSeq(pending, Avail + 1, Len(pending))
  /\ taken' = taken \o SubSeq(pending, 1, Avail)
  /\ disturbed' = (disturbed \/ Len(pending) > BufSize \/ (awaiting_sync /\ ~Pair(pending, 1)))
  /\ UNCHANGED <<sends, handed>>

(* i2c_read_dt fails after n bytes: they have left the module and are in   *)
(* the buffer, where a frame may be half assembled; they are not parsed.   *)
ReadFails ==
  /\ Avail > 0 /\ ReadNothing
  /\ \E n \in Lost :
       /\ n <= Avail
       /\ parse_buf' = Received(n)
       /\ pending' = SubSeq(pending, n + 1, Len(pending))
       /\ disturbed' = (disturbed \/ n > 0)
  /\ UNCHANGED <<sends, parse_len, awaiting_sync, got, found, taken, handed>>

StoreFound ==
  /\ found # << >> /\ ParseFix
  /\ found' = Tail(found)
  /\ handed' = IF source = "ubx" THEN Append(handed, Head(found)) ELSE handed
  /\ UNCHANGED <<pending, sends, parser, taken, disturbed>>

LoopEnd ==
  /\ found = << >> /\ ParseEnd
  /\ found' = IF source = "ubx" THEN NmeaFix(parse_buf, got) ELSE << >>
  /\ UNCHANGED <<pending, sends, parser, history>>

Elsewhere ==
  /\ \/ m10_init \/ Configure \/ ReadNothing \/ CopyWord \/ Increment \/ Wrap
     \/ gps_get_latest \/ gps_get_latest_if_fresh \/ Tick
  /\ UNCHANGED <<pending, sends, parser, found, history>>

ParserNext == Send \/ ReadAndParse \/ ReadFails \/ StoreFound \/ LoopEnd \/ Elsewhere

ParserSpec == ParserInit /\ [][ParserNext]_allVars
-----------------------------------------------------------------------------
(* The frame that starts at p ends at i, and no other starts in between,   *)
(* the checksum included.                                                  *)
EndsAt(b, p, i) ==
  /\ Pair(b, p) /\ b[p + 3].as <= MaxPayload /\ i = p + Header + b[p + 3].as
  /\ \A q \in (p + 1)..i : ~Pair(b, q)
HasFix(b, p) == b[p + 2].is = "nav_pvt" /\ b[p + 3].as >= PvtLen /\ b[p + 4].is = "pvt"

FixStarts(b, i) == {p \in 1..(i - Header) : EndsAt(b, p, i) /\ HasFix(b, p)}
FixAt(b, i) ==
  IF FixStarts(b, i) = {} THEN << >>
  ELSE LET p == CHOOSE p \in FixStarts(b, i) : TRUE
       IN << SubSeq(b, p + Header, p + Header + PvtLen - 1) >>

(* The payloads of the frames with a fix that end by each of the bytes b.  *)
FixesBy(b) ==
  LET whole[i \in 0..Len(b)] == IF i = 0 THEN << >> ELSE whole[i - 1] \o FixAt(b, i)
  IN whole
WholeFixes(b) == FixesBy(b)[Len(b)]

(* A read that finds the parser outside a frame, or that starts with one,  *)
(* finds the fixes of exactly the frames that are whole in it and in which *)
(* no other sync pair follows before their end - line 390 takes one in a   *)
(* payload for the start of a frame - whatever the reads before it left:   *)
(* assembling a frame in the buffer it is read from destroys nothing that  *)
(* is still to be parsed, and a cut or lost frame, or one abandoned for a  *)
(* pair in its payload, does no harm past the next read that starts well.  *)
WholeFramesParsed ==
  [][pc = "read" /\ pc' = "parse" =>
       LET read == SubSeq(pending, 1, got')
       IN ~awaiting_sync \/ Pair(read, 1) => found' = WholeFixes(read)]_allVars

(* While all reads have been in order, the positions handed to the ring,   *)
(* with those about to be, are those of the frames in all the bytes read:  *)
(* where one read ends and the next begins makes no difference, and no fix *)
(* is lost, doubled or put out of order.  A frame with a sync pair in its  *)
(* payload or checksum is not among them, and what such a pair starts is.  *)
WholeFixesStored ==
  LET fromFrames == IF source = "ubx" THEN found ELSE << >>
  IN ~disturbed => handed \o fromFrames = WholeFixes(taken)

(* gnss_u_blox_m10/README.md, UBX Message Format: the payload of a NAV-PVT *)
(* has 92 bytes, whatever they are.  Were line 390 to look for the start   *)
(* of a frame only between frames, every fix sent and read would be stored.*)
EveryFixStored ==
  ~disturbed /\ pc = "configure" =>
    \A i \in 1..(Len(taken) - Header - PvtLen) :
      taken[i + 3].is = "len" /\ HasFix(taken, i)
        => Contains(handed, SubSeq(taken, i + Header, i + Header + PvtLen - 1))

(* gnss_u_blox_m10/README.md, UBX Message Format: a frame carries a        *)
(* checksum.  Were it checked, only what the module sent would be stored.  *)
StoredIsSent ==
  \A k \in DOMAIN handed : \E i \in 1..Len(taken) :
    taken[i].is = "len" /\ handed[k] = SubSeq(taken, i + 1, i + PvtLen)
=============================================================================
