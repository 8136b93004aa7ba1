------------------------------- MODULE MCGnss -------------------------------
(* Frames of 5, 8, 12 and 13 bytes and sentences of 5 in a buffer of 12,   *)
(* so that a read may end in any part of a frame and one frame never fits. *)
(* A payload may hold a pair of sync characters, alone, across its end, or *)
(* with a whole frame behind it; its bytes may read as a length that is    *)
(* too long or as that of a fix.  Two words make a torn copy visible; the  *)
(* third fix is stored in slot 0 again.                                    *)
EXTENDS GnssParser

B(role, as) == [is |-> role, as |-> as]
Data(n, as) == [k \in 1..n |-> B("data", as)]
Ck          == B("ck", 0)
MCBodies ==
  { << Ck >>,
    << B("nofix", 3) >> \o Data(2, 3) \o << Ck >>,
    << B("pvt", 3) >>   \o Data(2, 3) \o << Ck >>,
    << B("pvt", 10) >>  \o Data(2, 10) \o << Ck >>,
    << B("pvt", 3), B("data", 3), B("sync1", 10), B("sync2", 10) >>,
    << B("sync1", 10), B("sync2", 10), B("nav_pvt", 1), B("data", 3), B("pvt", 3) >>
      \o Data(2, 3) \o << Ck >>,
    Data(8, 3) \o << Ck >> }
=============================================================================
