------------------------------- MODULE MCSound -------------------------------
(* The four demo sounds with their rests and lengths relative to a sixteenth *)
(* (notes kept apart by frequency, the alert by two of its three beeps).     *)
EXTENDS Sound
N(f, d) == [freq |-> f, dur |-> d]
success_sound     == << N(784, 2), N(0, 2), N(880, 4) >>
alert_sound       == << N(659, 1), N(0, 1), N(659, 1), N(0, 1) >>
acknowledge_sound == << N(880, 4) >>
error_sound       == << N(330, 8), N(0, 2), N(294, 8) >>
MCDemo   == << success_sound, alert_sound, acknowledge_sound, error_sound >>
MCSounds == {MCDemo[i] : i \in DOMAIN MCDemo}
=============================================================================
