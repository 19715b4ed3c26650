----------------------------- MODULE MCChecksum -----------------------------
(***************************************************************************)
(* Every buffer of up to MaxLen bytes of one bit: words of two bits, an    *)
(* accumulator of four, which MaxLen just cannot overflow.                 *)
(***************************************************************************)
EXTENDS Checksum
=============================================================================
