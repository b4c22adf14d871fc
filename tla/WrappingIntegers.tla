-------------------------- MODULE WrappingIntegers --------------------------
(***************************************************************************)
(* TCP sequence numbers: libsponge/wrapping_integers.{hh,cc}.              *)
(*                                                                         *)
(* A WrappingInt32 is a number below Modulus (2^32 in the code), an        *)
(* absolute sequence number one below Wide (2^64).  Both are given by      *)
(* Half, which is 2^31 in the code, so that the arithmetic can be checked  *)
(* exhaustively on a narrow word and proved for every word.                *)
(***************************************************************************)
EXTENDS Integers

CONSTANT Half

ASSUME HalfAssumption == Half \in Nat \ {0}

Modulus == 2 * Half
Wide == Modulus * Modulus

WrappingInt32 == 0 .. Modulus - 1
AbsoluteSeqno == 0 .. Wide - 1

(* The point `b' steps past `a', on the 32-bit circle. *)
plus(a, b) == (a + b) % Modulus

(* The absolute sequence number n as it appears in a header. *)
wrap(n, isn) == (isn + n) % Modulus

Distance(a, b) == IF a > b THEN a - b ELSE b - a

(* The two candidate high words of unwrap.  The literal (1 << 31) is a     *)
(* negative int there, so `checkpoint + (1 << 31)' subtracts Half and      *)
(* `checkpoint - (1 << 31)' adds it, both modulo 2^64.                     *)
upper32_1_NoHalf(checkpoint) == checkpoint \div Modulus    \* mutant
upper32_1(checkpoint) == ((checkpoint - Half) % Wide) \div Modulus
upper32_2(checkpoint) == ((checkpoint + Half) % Wide) \div Modulus

(* The absolute sequence number that a header's seqno n stands for. *)
unwrap_OneCandidate(n, isn, checkpoint) ==    \* mutant
    upper32_2(checkpoint) * Modulus + ((n - isn) % Modulus)
unwrap(n, isn, checkpoint) ==
    LET lower32 == (n - isn) % Modulus
        result1 == upper32_1(checkpoint) * Modulus + lower32
        result2 == upper32_2(checkpoint) * Modulus + lower32
    IN  IF Distance(result1, checkpoint) < Distance(result2, checkpoint)
        THEN result1
        ELSE result2
=============================================================================
