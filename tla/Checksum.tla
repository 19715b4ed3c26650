------------------------------ MODULE Checksum ------------------------------
(***************************************************************************)
(* The Internet checksum of the refactored stack (network.c), one step per *)
(* iteration, and the three ways it is used: ip_checksum and icmp_checksum *)
(* store it in a packet, ip_validate and icmp_validate sum a packet with   *)
(* its checksum and compare with zero, tcp_dispatch sums the packet without *)
(* its checksum and compares with the stored one.                          *)
(*                                                                         *)
(* A packet is first filled by the stack, and perhaps one of its bytes is  *)
(* damaged on the way, or it is any packet of a peer; then both tests are  *)
(* applied to it.                                                          *)
(***************************************************************************)
EXTENDS Integers, FiniteSets

CONSTANTS
  W8,       \* 2^8: the number of values of a byte
  MaxLen,   \* the longest buffer that is summed, MTU_SIZE and a pseudo header
  Field     \* where the checksum lies, an even offset

W16  == W8 * W8
W32  == W16 * W16
Byte == 0 .. W8 - 1

ASSUME ChecksumAssumption ==
  /\ W8 \in Nat /\ W8 > 1 /\ MaxLen \in Nat /\ Field \in Nat
  /\ Field % 2 = 0 /\ Field + 2 <= MaxLen
  /\ ((MaxLen + 1) \div 2) * (W16 - 1) < W32

VARIABLES
  buf,        \* the packet, a function on 0 .. length - 1
  sender,     \* who stored the checksum: the stack, the stack before damage, a peer
  call,       \* the use of checksum under way
  pc, pos, sum,     \* checksum: its loop, the bytes behind ptr, its accumulator
  verified, accepted   \* the outcomes of the two tests

vars == <<buf, sender, call, pc, pos, sum, verified, accepted>>

-----------------------------------------------------------------------------
(* A 16-bit load on the little-endian build.                               *)
Word(b, i) == b[i] + W8 * b[i + 1]
Zeroed(b)  == [b EXCEPT ![Field] = 0, ![Field + 1] = 0]

Stored(b, v) == [b EXCEPT ![Field] = v % W8, ![Field + 1] = v \div W8]

SumsField == buf                        \* mutant: the field is not cleared first

(* ip_checksum, icmp_checksum and tcp_checksum clear the field first.      *)
Summed == IF call = "verify" THEN buf ELSE Zeroed(buf)

(* The bytes that are summed.  icmp_validate and tcp_checksum go by what   *)
(* was read; ip_validate by the IHL, taken here to be undamaged.           *)
Length == Cardinality(DOMAIN buf)
Left   == Length - pos

AddWord ==
  /\ pc = "add" /\ Left > 1
  /\ sum' = (sum + Word(Summed, pos)) % W32 /\ pos' = pos + 2
  /\ UNCHANGED <<buf, sender, call, pc, verified, accepted>>

NoOddByte ==                            \* mutant: the last byte is left out
  /\ pc = "add" /\ Left <= 1
  /\ pc' = "fold" /\ pos' = Length /\ UNCHANGED sum
  /\ UNCHANGED <<buf, sender, call, verified, accepted>>

AddByte ==
  /\ pc = "add" /\ Left <= 1
  /\ pc' = "fold" /\ pos' = Length
  /\ sum' = IF Left = 1 THEN (sum + Summed[pos]) % W32 ELSE sum
  /\ UNCHANGED <<buf, sender, call, verified, accepted>>

CarriesAllOnes == sum >= W16 - 1        \* mutant: the loop goes on at 0xFFFF
Carries        == sum >= W16

DropsCarry ==                           \* mutant: the carry is cut off
  /\ pc = "fold" /\ Carries
  /\ sum' = sum % W16
  /\ UNCHANGED <<buf, sender, call, pc, pos, verified, accepted>>

Fold ==
  /\ pc = "fold" /\ Carries
  /\ sum' = (sum % W16) + (sum \div W16)
  /\ UNCHANGED <<buf, sender, call, pc, pos, verified, accepted>>

Result == W16 - 1 - sum                 \* (uint16_t) ~sum

-----------------------------------------------------------------------------
(* What the caller does with the result.                                   *)
Calls(next) == call' = next /\ pc' = "add" /\ pos' = 0 /\ sum' = 0
Returns     == pc = "fold" /\ ~Carries

Fill ==
  /\ Returns /\ call = "fill"
  /\ buf' = Stored(buf, Result) /\ Calls("transit")
  /\ UNCHANGED <<sender, verified, accepted>>

(* The packet arrives as it was sent, or with one byte changed.            *)
Transit ==
  /\ call = "transit"
  /\ Calls("verify")
  /\ \/ UNCHANGED <<buf, sender>>
     \/ /\ \E i \in DOMAIN buf, v \in Byte : v # buf[i] /\ buf' = [buf EXCEPT ![i] = v]
        /\ sender' = "damaged"
  /\ UNCHANGED <<verified, accepted>>

Verify ==
  /\ Returns /\ call = "verify"
  /\ verified' = (Result = 0) /\ Calls("compare")
  /\ UNCHANGED <<buf, sender, accepted>>

Compare ==
  /\ Returns /\ call = "compare"
  /\ accepted' = (Result = Word(buf, Field)) /\ call' = "done"
  /\ UNCHANGED <<buf, sender, pc, pos, sum, verified>>

Init ==
  /\ \E n \in Field + 2 .. MaxLen : buf \in [0 .. n - 1 -> Byte]
  /\ \/ sender = "stack" /\ call = "fill"
     \/ sender = "peer"  /\ call = "verify"
  /\ pc = "add" /\ pos = 0 /\ sum = 0 /\ verified = FALSE /\ accepted = FALSE

Sum  == call \in {"fill", "verify", "compare"} /\ (AddWord \/ AddByte \/ Fold)
Next == Sum \/ Fill \/ Transit \/ Verify \/ Compare

(* Sequential code: as long as it can go on it does.                       *)
Spec == Init /\ [][Next]_vars /\ WF_vars(Next)

-----------------------------------------------------------------------------
(* The sum that is meant: unbounded, over all bytes in front of ptr, an    *)
(* odd last byte padded with zero.                                         *)
Weight(i) == IF i % 2 = 0 THEN 1 ELSE W8
PartialSum(b) ==
  LET upto[n \in 0 .. Cardinality(DOMAIN b)] ==
        IF n = 0 THEN 0 ELSE upto[n - 1] + Weight(n - 1) * b[n - 1]
  IN  upto
Meant == PartialSum(Summed)[pos]

(* The accumulator never overflows its 32 bits: while words are added it   *)
(* holds their exact sum, and folding the carry keeps it congruent modulo  *)
(* 2^16 - 1, zero only if every byte is zero.                              *)
SumExact ==
  call # "transit" =>
    /\ pc = "add" => sum = Meant
    /\ sum % (W16 - 1) = Meant % (W16 - 1)
    /\ sum = 0 <=> Meant = 0

Tested == call = "done"

(* A checksum that ip_checksum, icmp_checksum or tcp_checksum stored is    *)
(* accepted by both tests if nothing was changed, also when the length is  *)
(* odd, the sum is zero, or a fold brings a second carry; and no change of *)
(* a single byte, the checksum's own included, gets past either test as    *)
(* long as the same bytes are summed: ip_validate takes their number from  *)
(* the IHL of the packet itself, so damage of that field is not covered.   *)
VerdictsRight ==
  Tested => /\ sender = "stack"   => verified /\ accepted
            /\ sender = "damaged" => ~verified /\ ~accepted

(* The two tests agree on every packet, whoever made it, except that a     *)
(* peer may write the zero of ones' complement as all ones: ip_validate    *)
(* and icmp_validate take such a packet, tcp_dispatch does not.            *)
TestsAgree ==
  Tested => \/ accepted = verified
            \/ verified /\ Word(buf, Field) = W16 - 1

(* Folding comes to an end and every packet is judged.                     *)
Judged == <>Tested
=============================================================================
