------------------------------ MODULE Expressions ------------------------------
(***************************************************************************)
(* What the expressions mean that are given to the calculators, and that   *)
(* the calculators of Commands compute it.                                 *)
(***************************************************************************)
EXTENDS Commands

\* the operators of `ops' that are in no brackets
Outer(e, ops) == {k \in DOMAIN e : e[k] \in ops /\ Depth(e, k) = 0}
Sums(e)     == Outer(e, {"+", "-"})
Products(e) == Outer(e, {"*", "/"})

Left(e, k)  == SubSeq(e, 1, k - 1)
Right(e, k) == SubSeq(e, k + 1, Len(e))
Inner(e)    == SubSeq(e, 2, Len(e) - 1)

IsNumber(e) == e # <<>> /\ \A k \in DOMAIN e : IsDigit(e[k])
Bracketed(e) == Len(e) > 2 /\ Head(e) = "(" /\ Last(e) = ")"

\* An operator on two values, if there are both; every result is kept in a char.
Combine(o, a, b) == IF NONE \in {a, b} THEN NONE ELSE Apply(o, a, b)
Shift(a, ch)     == IF a = NONE THEN NONE ELSE Byte(a * 10 + DigitOf(ch))

\* The value of e, given those of shorter expressions: numbers, brackets, products,
\* sums, which may begin with a sign.  NONE is that of what is not well-formed.
ValueFrom(value, e) ==
    CASE IsNumber(e) -> Shift(IF Len(e) = 1 THEN 0 ELSE value[Front(e)], Last(e))
      [] ~IsNumber(e) /\ Sums(e) # {} ->
            LET k == Max(Sums(e))
            IN  Combine(e[k], IF k = 1 THEN 0 ELSE value[Left(e, k)], value[Right(e, k)])
      [] ~IsNumber(e) /\ Sums(e) = {} /\ Products(e) # {} ->
            LET k == Max(Products(e)) IN Combine(e[k], value[Left(e, k)], value[Right(e, k)])
      [] OTHER -> IF Bracketed(e) THEN value[Inner(e)] ELSE NONE

\* the values of the expressions of n characters and less
ValueOf[n \in Nat] ==
    [e \in Seq(STRING) |-> IF n = 0 THEN NONE ELSE ValueFrom(ValueOf[n - 1], e)]

Value(e) == ValueOf[Len(e)][e]
WellFormed(e) == Value(e) # NONE

-----------------------------------------------------------------------------

\* What is printed for a well-formed expression that fits execute's array is its
\* value, whatever was calculated, killed or refused before and is calculated on other
\* terminals meanwhile, with one of them at a time in the kernel's calculator.
Calculated ==
    \A p \in Procs : says[p] # NONE /\ WellFormed(Arg(line[p])) => says[p] = Value(Arg(line[p]))
=============================================================================
