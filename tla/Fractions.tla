--------------------------------- MODULE Fractions ---------------------------------
(***************************************************************************)
(* Exact fractions <<numerator, denominator>>, always in lowest terms, for *)
(* what the code computes in floats.  Factors are cancelled before they    *)
(* are multiplied: TLC's numbers have 32 bits and it stops at an overflow. *)
(***************************************************************************)
EXTENDS Integers

Whole(n) == <<n, 1>>

Divisor[m \in Nat] == [n \in Nat |-> IF n = 0 THEN m ELSE Divisor[n][m % n]]

Abs(n) == IF n < 0 THEN -n ELSE n

Fraction(n, d) ==
    LET over(top, bottom, g) == <<top \div g, bottom \div g>>
    IN  over(IF d < 0 THEN -n ELSE n, Abs(d), Divisor[Abs(n)][Abs(d)])

a ** b == LET times(left, right) == <<left[1] * right[1], left[2] * right[2]>>
          IN  times(Fraction(a[1], b[2]), Fraction(b[1], a[2]))
a // b == a ** Fraction(b[2], b[1])

a ++ b == LET plus(share) == Fraction(a[1] * share[2] + b[1] * share[1], a[2] * share[2])
          IN  plus(Fraction(a[2], b[2]))
a -- b == a ++ <<-b[1], b[2]>>

\* By their whole parts, then by what is left of them, turned over: no common denominator.
UpTo[a \in Int \X (Nat \ {0})] == [b \in Int \X (Nat \ {0}) |->
    LET left == a[1] % a[2]
        right == b[1] % b[2]
    IN  IF a[1] \div a[2] # b[1] \div b[2] THEN a[1] \div a[2] < b[1] \div b[2]
        ELSE left = 0 \/ (right # 0 /\ UpTo[<<b[2], right>>][<<a[2], left>>])]

a \preceq b == UpTo[a][b]
a \prec b   == ~UpTo[b][a]
===================================================================================
