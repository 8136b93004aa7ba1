------------------------------ MODULE MCMs5611 ------------------------------
(* The coefficients of the sensor's datasheet example; raw temperatures at   *)
(* the ends of the range and just below, at and above 20 degrees; raw        *)
(* pressures at the ends and three that differ in their lowest byte.         *)
EXTENDS Ms5611
MCCoeffs == <<40127, 36924, 23317, 23282, 33464, 28312>>
MCD1s == {1, 9085466, 9085440, 9000000, 16777215}
MCD2s == {1, 8000000, 8566783, 8566784, 8569150, 16777215}
(* A temperate day and a cold one, as they are measured. *)
ColdD1s == {9085466, 9000000}
ColdD2s == {8000000, 8569150}
(* Nothing, a pressure and a temperature: what a read may find of another. *)
MCLeft == {0, 9000000, 8000000}
=============================================================================
