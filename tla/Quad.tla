------------------------------- MODULE Quad -------------------------------
(***************************************************************************)
(* Division of double long integers (kernel/util/math.c).                  *)
(*                                                                         *)
(* A long holds two digits of base B, a quad four; every long is taken     *)
(* modulo B * B.  u, v and q are arrays of digits with the highest first,  *)
(* as the code shifts its pointers past leading zeros.  A state holds the  *)
(* operands and what was computed from them.                               *)
(***************************************************************************)
EXTENDS Integers, FiniteSetsExt, SequencesExt

CONSTANTS HALF_BITS, NONE

VARIABLE d
vars == <<d>>

B == 2 ^ HALF_BITS
Long(x) == x % (B * B)
Quads == 0 .. B ^ 4 - 1
HHALF(x) == x \div B
LHALF(x) == x % B
COMBINE(a, b) == Long(a * B) + b
Digits(x) == [i \in 0 .. 4 |-> IF i = 0 THEN 0 ELSE (x \div B ^ (4 - i)) % B]
Value(p) == ((p[1] * B + p[2]) * B + p[3]) * B + p[4]
Down(n) == [i \in 1 .. n |-> n + 1 - i]

\* shl: p[lo] .. p[lo + len] move left.
shl(p, lo, len, sh) ==
  [i \in DOMAIN p |->
     IF i \in lo .. lo + len - 1 THEN LHALF(p[i] * 2 ^ sh) + (p[i + 1] \div 2 ^ (HALF_BITS - sh))
     ELSE IF i = lo + len THEN LHALF(p[i] * 2 ^ sh) ELSE p[i]]

-----------------------------------------------------------------------------
(* Program D.                                                              *)

\* D3: qhat is brought down until it is too large by one at most.
RECURSIVE Adjust(_, _, _, _, _)
Adjust(qhat, rhat, v1, v2, uj2) ==
  IF Long(v2 * qhat) <= COMBINE(rhat, uj2) THEN qhat
  ELSE IF rhat + v1 >= B THEN qhat - 1 ELSE Adjust(qhat - 1, rhat + v1, v1, v2, uj2)
Estimate(u, v, j) ==
  LET nn == COMBINE(u[j], u[j + 1])
  IN IF u[j] = v[1]
     THEN IF u[j + 1] + v[1] >= B THEN B - 1 ELSE Adjust(B - 1, u[j + 1] + v[1], v[1], v[2], u[j + 2])
     ELSE Adjust(nn \div v[1], nn % v[1], v[1], v[2], u[j + 2])

\* D4: multiply and subtract; t holds the borrow.
Subtract(u, v, n, j, qhat) ==
  LET Step(s, i) == LET t == Long(s.u[i + j] - v[i] * qhat - s.t)
                    IN [u |-> [s.u EXCEPT ![i + j] = LHALF(t)], t |-> (B - HHALF(t)) % B]
  IN FoldLeft(Step, [u |-> u, t |-> 0], Down(n))

\* D6: add back.
AddBack(u, v, n, j) ==
  LET Step(s, i) == LET t == s.t + s.u[i + j] + v[i] IN [u |-> [s.u EXCEPT ![i + j] = LHALF(t)], t |-> HHALF(t)]
      s == FoldLeft(Step, [u |-> u, t |-> 0], Down(n))
  IN [s.u EXCEPT ![j] = LHALF(@ + s.t)]

\* Mutant: a quotient digit too large by one is kept.
DigitNoAddBack(s, v, n, j) ==
  LET qhat == Estimate(s.u, v, j)
  IN [u |-> Subtract(s.u, v, n, j, qhat).u, q |-> [s.q EXCEPT ![j] = qhat]]

\* One digit of the quotient, corrected if the subtraction borrowed.
Corrected(r, t, q, v, n, j, qhat) ==
  IF HHALF(t) # 0
  THEN [u |-> AddBack([r.u EXCEPT ![j] = LHALF(t)], v, n, j), q |-> [q EXCEPT ![j] = qhat - 1]]
  ELSE [u |-> [r.u EXCEPT ![j] = LHALF(t)], q |-> [q EXCEPT ![j] = qhat]]
Tried(r, q, v, n, j, qhat) == Corrected(r, Long(r.u[j] - r.t), q, v, n, j, qhat)
Try(s, v, n, j, qhat) == Tried(Subtract(s.u, v, n, j, qhat), s.q, v, n, j, qhat)
Digit(s, v, n, j) == Try(s, v, n, j, Estimate(s.u, v, j))

\* A divisor of one digit.
ByDigit(u, t) ==
  LET r1 == COMBINE(u[1] % t, u[2])
      r2 == COMBINE(r1 % t, u[3])
      r3 == COMBINE(r2 % t, u[4])
  IN [q |-> COMBINE(u[1] \div t, r1 \div t) * B * B + COMBINE(r2 \div t, r3 \div t), r |-> r3 % t]

\* D1: both operands move left until the divisor's first digit is large.
Shift(v1) == CHOOSE sh \in 0 .. HALF_BITS - 1 : v1 * 2 ^ sh \in B \div 2 .. B - 1
Shifted(p, lo, len, sh) == IF sh > 0 THEN shl(p, lo, len, sh) ELSE p
AllDigits(us, vs, n, m) ==
  FoldLeft(LAMBDA x, j : Digit(x, vs, n, j - 1), [u |-> us, q |-> [j \in 0 .. m |-> 0]], [j \in 1 .. m + 1 |-> j])

\* The remainder is what is left of u, moved back; q and u are put where
\* their leading zeros were.
Back(u, i, m, sh) ==
  IF sh = 0 \/ i < m THEN u[i]
  ELSE IF i = m THEN 0 ELSE (u[i] \div 2 ^ sh) + LHALF(u[i - 1] * 2 ^ (HALF_BITS - sh))
Result(s, m, off, sh) ==
  [q |-> Value([i \in 1 .. 4 |-> IF i >= 4 - m THEN s.q[i - (4 - m)] ELSE 0]),
   r |-> Value([i \in 1 .. 4 |-> IF i > off THEN Back(s.u, i - off, m, sh) ELSE 0])]
ProgramD(u0, v0, n, m, off, sh) ==
  Result(AllDigits(Shifted(u0, 0, m + n, sh), Shifted(v0, 1, n - 1, sh), n, m), m, off, sh)
Long4(u, v, n, off) ==
  ProgramD([i \in 0 .. 4 - off |-> u[i + off]], [i \in 1 .. n |-> v[i + 4 - n]], n, 4 - n - off, off, Shift(v[5 - n]))
First(p) == Min({i \in 1 .. 4 : p[i] # 0})

__qdivrem(uq, vq) ==
  IF vq = 0 THEN [q |-> NONE, r |-> NONE]
  ELSE IF uq < vq THEN [q |-> 0, r |-> uq]
  ELSE IF vq < B THEN ByDigit(Digits(uq), vq)
  ELSE Long4(Digits(uq), Digits(vq), 5 - First(Digits(vq)), First(Digits(uq)) - 1)

\* Signed operands, as residues.
Neg(x) == (-x) % B ^ 4
Signed(x) == IF x >= (B ^ 4) \div 2 THEN x - B ^ 4 ELSE x
Magnitude(x) == IF Signed(x) < 0 THEN Neg(x) ELSE x
__divdi3(a, b) ==
  LET uq == __qdivrem(Magnitude(a), Magnitude(b)).q
  IN IF uq = NONE THEN NONE ELSE IF (Signed(a) < 0) # (Signed(b) < 0) THEN Neg(uq) ELSE uq

Init == \E u \in Quads : d = [u |-> u, v |-> NONE, q |-> NONE, r |-> NONE, s |-> NONE]

\* __udivdi3, __umoddi3 and __divdi3 of the same operands.
Divide ==
  /\ d.v = NONE
  /\ \E v \in Quads :
       LET x == __qdivrem(d.u, v) IN d' = [d EXCEPT !.v = v, !.q = x.q, !.r = x.r, !.s = __divdi3(d.u, v)]
Divided == d.v # NONE /\ UNCHANGED d
Next == Divide \/ Divided
Spec == Init /\ [][Next]_vars

-----------------------------------------------------------------------------
Abs(x) == IF x < 0 THEN -x ELSE x

\* The quotient and the remainder of every pair of quads are the ones of
\* integer division, the digit by digit estimate and its rare correction
\* included; the signed quotient is cut off towards zero, and only the one
\* that does not fit wraps (__qdivrem, __divdi3).
DivisionExact ==
  d.v # NONE /\ d.v # 0 =>
    LET a == Signed(d.u)
        b == Signed(d.v)
        s == (Abs(a) \div Abs(b)) * (IF (a < 0) # (b < 0) THEN -1 ELSE 1)
    IN d.q = d.u \div d.v /\ d.r = d.u % d.v /\ d.s = s % B ^ 4

=============================================================================
