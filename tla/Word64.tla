------------------------------- MODULE Word64 -------------------------------
(***************************************************************************)
(* The unsigned 64-bit arithmetic of C, modulo 2^64, and the shifts of     *)
(* both signednesses.  A word is the sequence of its eight bytes, the      *)
(* lowest first, since TLC's integers have 32 bits.                        *)
(***************************************************************************)
EXTENDS Integers, Sequences

Byte  == 0..255
Bytes == 1..8
Word  == [Bytes -> Byte]

(* A function as a sequence of values: TLC would evaluate the function's   *)
(* body again at every use.                                                *)
Evaluated(f) == f \o << >>

(* Digits of any size and sign, carried into bytes; a carry out is lost.   *)
Carried(digits) ==
  LET d == Evaluated(digits)
      carry[i \in 1..9] == IF i = 1 THEN 0 ELSE (d[i - 1] + carry[i - 1]) \div 256
  IN Evaluated([i \in Bytes |-> (d[i] + carry[i]) % 256])

OfNat(n)    == Evaluated([i \in Bytes |-> IF i > 4 THEN 0 ELSE (n \div 256^(i - 1)) % 256])
Plus(a, b)  == Carried([i \in Bytes |-> a[i] + b[i]])
Minus(a, b) == Carried([i \in Bytes |-> a[i] - b[i]])
Times(a, b) ==
  LET p(i, j) == IF j > i THEN 0 ELSE a[j] * b[i + 1 - j]
  IN Carried([i \in Bytes |-> p(i, 1) + p(i, 2) + p(i, 3) + p(i, 4) + p(i, 5) + p(i, 6) + p(i, 7) + p(i, 8)])

(* Right by k bits, with the byte fill coming in from the left.            *)
ShiftIn(a, k, fill) ==
  LET byte(i) == IF i + k \div 8 > 8 THEN fill ELSE a[i + k \div 8]
  IN Evaluated([i \in Bytes |-> ((byte(i) + 256 * byte(i + 1)) \div 2^(k % 8)) % 256])

Negative(a) == a[8] >= 128
Shl(a, k)   == Times(a, OfNat(2^k))
Shr(a, k)   == ShiftIn(a, k, 0)                                    \* of uint64_t
Sar(a, k)   == ShiftIn(a, k, IF Negative(a) THEN 255 ELSE 0)       \* of int64_t

Int32(a) == SubSeq(a, 1, 4)                                        \* (int32_t)a
=============================================================================
