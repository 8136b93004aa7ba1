--------------------------- MODULE MCEncoderInput ---------------------------
(* One tick is the polling period; the windows keep the order they have in  *)
(* the driver, and the clock wraps within any long use.                     *)
EXTENDS EncoderInput
=============================================================================
