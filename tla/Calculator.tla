------------------------------ MODULE Calculator ------------------------------
(***************************************************************************)
(* The calculator: the operator stack and the number stack of cal          *)
(* (calculator.c), one character at a time.  The same code is in the user  *)
(* program calc (ece391calc.c).                                            *)
(*                                                                         *)
(* A number is a char: every assignment wraps.  num holds num[0..num_top], *)
(* since what is above num_top has been set back to 0.                     *)
(***************************************************************************)
EXTENDS Integers, Sequences, FiniteSets, SequencesExt

Numerals == <<"0", "1", "2", "3", "4", "5", "6", "7", "8", "9">>
IsDigit(ch) == \E d \in 0 .. 9 : Numerals[d + 1] = ch
DigitOf(ch) == CHOOSE d \in 0 .. 9 : Numerals[d + 1] = ch

\* (slip: char is taken as unsigned)
ByteUnsigned(n) == n % 256

\* an int stored in a char
Byte(n) == ((n + 128) % 256) - 128

Magnitude(n) == IF n < 0 THEN -n ELSE n

\* division of C, towards 0; by 0 it does not end in a value
Quotient(a, b) ==
    IF b = 0 THEN 0
    ELSE LET q == Magnitude(a) \div Magnitude(b) IN IF (a < 0) = (b < 0) THEN q ELSE -q

Apply(o, a, b) ==
    Byte(CASE o = "+" -> a + b [] o = "-" -> a - b [] o = "*" -> a * b [] o = "/" -> Quotient(a, b))

Cleared == [op |-> <<>>, num |-> <<0>>, fault |-> FALSE]

\* the body of the loops: the operator on top, on the two numbers on top
Reduce(c) ==
    LET n == Len(c.num)
    IN  [op    |-> Front(c.op),
         num   |-> Append(SubSeq(c.num, 1, n - 2), Apply(Last(c.op), c.num[n - 1], c.num[n])),
         fault |-> c.fault \/ (Last(c.op) = "/" /\ c.num[n] = 0)]

\* one round of the loops, which go on until one of `stops' is on top
ReduceOne(c, stops) == IF c.op = <<>> \/ Last(c.op) \in stops THEN c ELSE Reduce(c)

Until(c, stops) ==
    LET f[k \in 0 .. Len(c.op)] == IF k = 0 THEN c ELSE ReduceOne(f[k - 1], stops)
    IN  f[Len(c.op)]

Operator(c, ch) == [c EXCEPT !.op = Append(@, ch), !.num = Append(@, 0)]

\* one character; others than these are passed over
Read(c, ch) ==
    IF IsDigit(ch) THEN [c EXCEPT !.num[Len(c.num)] = Byte(@ * 10 + DigitOf(ch))]
    ELSE CASE ch = "(" -> [c EXCEPT !.op = Append(@, ch)]
           [] ch = ")" -> LET d == Until(c, {"("}) IN [d EXCEPT !.op = Front(@)]
           [] ch \in {"+", "-"} -> Operator(Until(c, {"("}), ch)
           [] ch \in {"*", "/"} -> Operator(Until(c, {"(", "+", "-"}), ch)
           [] OTHER -> c

Finish(c) == Until(c, {})

-----------------------------------------------------------------------------
(* brackets *)

\* how many of the first k characters are ch
Count(e, ch, k) == Cardinality({i \in 1 .. k : e[i] = ch})

\* in how many brackets what follows the first k characters is
Depth(e, k) == Count(e, "(", k) - Count(e, ")", k)

\* Every bracket that is opened is closed.
Balanced(e) == Depth(e, Len(e)) = 0 /\ \A k \in 1 .. Len(e) : Depth(e, k) >= 0
=============================================================================
