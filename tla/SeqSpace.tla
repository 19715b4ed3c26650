------------------------------ MODULE SeqSpace ------------------------------
(***************************************************************************)
(* Sequence numbers and flags, common to both stacks.  A 32-bit number is  *)
(* a pair of 16-bit halves; W16 stands for 2^16, so a small even W16 keeps *)
(* the wrap-around, the sign bit and the truncation to 16 bits of the code *)
(* in reach of TLC.                                                        *)
(***************************************************************************)
EXTENDS Integers

CONSTANT W16     \* 2^16: the number of values of a uint16_t

ASSUME W16Assumption == W16 \in Nat /\ W16 > 0 /\ W16 % 2 = 0

Flag    == {"FIN", "SYN", "RST", "PSH", "ACK"}
SeqMod  == W16 * W16
SignBit == (W16 \div 2) * W16
SeqNum  == 0 .. SeqMod - 1

(***************************************************************************)
(* uint32_t addition and subtraction, and the SEQ_ macros: the difference  *)
(* is negative as an int32_t when its sign bit is set.                     *)
(***************************************************************************)
Add32(a, b) == IF a + b < SeqMod THEN a + b ELSE a + b - SeqMod
Sub32(a, b) == IF a >= b THEN a - b ELSE a - b + SeqMod

SEQ_LT(a, b)  == Sub32(a, b) >= SignBit
SEQ_GEQ(a, b) == ~ SEQ_LT(a, b)
=============================================================================
