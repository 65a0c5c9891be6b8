-------------------------------- MODULE Crc --------------------------------
(***************************************************************************)
(* The Mode S parity (crc/engine.rs) and the repair of bit errors with it  *)
(* (crc/fix.rs).                                                           *)
(*                                                                         *)
(* A message of n bits (56 or 112) is the set of the bits that are 1,      *)
(* numbered from 0 in the order they are sent; a syndrome is the set of    *)
(* the exponents, 0 to 23, whose coefficient is 1.                         *)
(***************************************************************************)
EXTENDS Integers, FiniteSets, FiniteSetsExt

Lengths == {56, 112}

(* CRC_POLYNOMIAL, 0xFFF409                                                *)
Polynomial == (12 .. 23) \cup {10, 3, 0}

(* The shift register after one more bit of a message.                     *)
Step(register, msg, i) ==
  LET shifted == {x + 1 : x \in register \ {23}}
  IN  IF (23 \in register) # (i \in msg) THEN SymDiff(shifted, Polynomial) ELSE shifted

(* The bits before the parity field go through the shift register, and the *)
(* parity field is added to what is left in it.                            *)
Checksum(n, msg) ==
  LET crc[i \in 0 .. n - 24] == IF i = 0 THEN {} ELSE Step(crc[i - 1], msg, i - 1)
  IN  SymDiff(crc[n - 24], {(n - 1) - b : b \in msg \cap (n - 24 .. n - 1)})

(* What CRC_POLYNOMIAL was chosen for, the minimum distance of the code:   *)
(* one wrong bit gives a syndrome of odd weight, and no two pairs of wrong *)
(* bits give the same syndrome.  There is no constant in it; TLC decides   *)
(* it by evaluation.                                                       *)
BitPairs(n) == {p \in (0 .. n - 1) \X (0 .. n - 1) : p[1] < p[2]}

ASSUME CodeAssumption ==
  \A n \in Lengths :
    LET single == [b \in 0 .. n - 1 |-> Checksum(n, {b})]
    IN  /\ \A b \in 0 .. n - 1 : Cardinality(single[b]) % 2 = 1
        /\ Cardinality({SymDiff(single[p[1]], single[p[2]]) : p \in BitPairs(n)})
             = Cardinality(BitPairs(n))

(* The bits the table of errors covers: not those of the type field.       *)
Repairable(n) == 5 .. n - 1

SingleErrors == [n \in Lengths |-> [b \in Repairable(n) |-> Checksum(n, {b})]]

Listed == [n \in Lengths |-> {SingleErrors[n][b] : b \in Repairable(n)}]

(* The bits that the table of CrcFixEngine::new has for a syndrome, one or *)
(* two, or none.  No two of its entries compete for a syndrome, so that it *)
(* does not matter that an earlier one of two bits would win and a later   *)
(* one of one bit.                                                         *)
Diagnose(n, syndrome) ==
  LET ones == {b \in Repairable(n) : SingleErrors[n][b] = syndrome}
      twos == {b \in Repairable(n) : syndrome # {} /\ SymDiff(syndrome, SingleErrors[n][b]) \in Listed[n]}
  IN  IF ones # {} THEN ones ELSE twos

Fix(msg, bits) == SymDiff(msg, bits)

=============================================================================
