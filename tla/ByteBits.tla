------------------------------ MODULE ByteBits ------------------------------
(***************************************************************************)
(* A byte is the set of its one bits, bit 0 the lowest.                    *)
(***************************************************************************)
EXTENDS Integers

Xor(a, b) == (a \ b) \cup (b \ a)

\* The low eight bits of a number, and the number in a byte.
Byte(n) == {b \in 0..7 : (n \div 2^b) % 2 = 1}
Number(byte) ==
    LET sum[b \in 0..8] ==
          IF b = 0 THEN 0
          ELSE sum[b - 1] + (IF b - 1 \in byte THEN 2^(b - 1) ELSE 0)
    IN  sum[8]
=============================================================================
