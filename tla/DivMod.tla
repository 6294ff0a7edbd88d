------------------------------ MODULE DivMod ------------------------------
(***************************************************************************)
(* The division of libutils/isoc/arch/arm32: aeabi_divmod.c for int,       *)
(* aeabi_ldivmod.c for long long, each with its assembly.                  *)
(*                                                                         *)
(* Arguments and results are unsigned numbers of w bits, w being 32 or 64; *)
(* a signed number is the one of the same bits.                            *)
(***************************************************************************)
EXTENDS Integers

Negate(x, w) == (2 ^ w - x) % 2 ^ w
IsNegative(x, w) == x >= 2 ^ (w - 1)
IsPositive(x, w) == x > 0 /\ ~ IsNegative(x, w)
Absolute(x, w) == IF IsNegative(x, w) THEN Negate(x, w) ELSE x

(* p goes down to the divisor again, one bit of q a step, while i lasts.   *)
RECURSIVE Subtract(_, _, _, _)
Subtract(n, p, i, q) ==
  IF i = 0 THEN [q |-> q, r |-> n]
  ELSE IF n >= p THEN Subtract(n - p, p \div 2, i \div 2, 2 * q + 1)
  ELSE Subtract(n, p \div 2, i \div 2, 2 * q)

(* p is made as large as it gets, and i counts the steps.                  *)
RECURSIVE Shift(_, _, _, _)
Shift(n, p, i, w) ==
  IF IsNegative(p, w) THEN Subtract(n, p, i, 0)
  ELSE Shift(n, 2 * p, 2 * i, w)

(* division_qr and division_lqr; q is not written when the divisor is 0.   *)
Division(n, p, w) ==
  IF p = 0 THEN [q |-> 0, r |-> 2 ^ w - 1] ELSE Shift(n, p, 1, w)

(* uint_div_qr and ul_div_qr.                                              *)
DivQr(n, p, q_n, r_n, w) ==
  LET qr == Division(n, p, w)
  IN  [q |-> IF q_n THEN Negate(qr.q, w) ELSE qr.q,
       r |-> IF r_n THEN Negate(qr.r, w) ELSE qr.r]

(* __aeabi_uidivmod, with uidiv and uimod, and __aeabi_uldivmod.           *)
uidivmod(n, p, w) == DivQr(n, p, FALSE, FALSE, w)

(* __aeabi_idivmod, with idiv, and __aeabi_ldivmod.                        *)
idivmod(n, p, w) ==
  DivQr(Absolute(n, w), Absolute(p, w),
        \/ IsNegative(n, w) /\ IsPositive(p, w)
        \/ IsPositive(n, w) /\ IsNegative(p, w),
        IsNegative(n, w), w)

(* __aeabi_imod: the loop that looks for a power of two ends only when it  *)
(* finds one, or for 0; what is returned then is the numerator shifted.    *)
PowerOfTwo(k, p, w) == k \in 0..w - 2 /\ p = 2 ^ k
ImodReturns(p, w) == p = 0 \/ \E k \in 0..w - 2 : PowerOfTwo(k, p, w)

ShiftRight(x, j, w) ==
  IF IsNegative(x, w) THEN 2 ^ w - 1 - (2 ^ w - 1 - x) \div 2 ^ j
  ELSE x \div 2 ^ j

imod(n, p, w) ==
  IF p = 0 THEN idivmod(n, p, w).r
  ELSE ShiftRight(n, CHOOSE k \in 0..w - 2 : PowerOfTwo(k, p, w), w)
=============================================================================
