---------------------------- MODULE CommandsProofs ----------------------------
(***************************************************************************)
(* Proofs about Commands, for any number of terminals and any command      *)
(* lines whose arguments fit the arrays of execute (ArgumentsAssumption):  *)
(* the calculators never take a number from an empty stack and print the   *)
(* value of every well-formed expression, a program is given the words of  *)
(* its argument and no other, and, while no info prints, the colour of the *)
(* screen is the one last chosen or, after Ctrl-C killed an info, info's.  *)
(***************************************************************************)
EXTENDS Expressions, SequenceTheorems, Induction

-----------------------------------------------------------------------------
(* the colour *)

\* the colour of the screen while no info prints
Resting == IF killed THEN INFO_COLOR ELSE chosen

\* At most one terminal prints info, and it keeps the colour that it found.
Colour ==
    /\ prog \in [Procs -> {"shell", "calc", "cal", "info"}]
    /\ att = [p \in Procs |-> att[p]]
    /\ \A p, q \in Procs : prog[p] = "info" /\ prog[q] = "info" => p = q
    /\ \A p \in Procs : prog[p] = "info" => att[p] = Resting /\ attrib = INFO_COLOR
    /\ (\A p \in Procs : prog[p] # "info") => attrib = Resting

\* A shell that becomes or leaves a calculator prints no info.
LEMMA NoInfo ==
    ASSUME Colour, NEW p \in Procs, prog[p] # "info",
           NEW what \in {"shell", "calc", "cal"}, prog' = [prog EXCEPT ![p] = what],
           UNCHANGED <<attrib, att, chosen, killed>>
    PROVE  Colour'
<1>1. \A q \in Procs : prog'[q] = IF q = p THEN what ELSE prog[q]
    BY DEF Colour
<1>2. \A q \in Procs : prog'[q] = "info" <=> prog[q] = "info"
    BY <1>1
<1> QED
    BY <1>2 DEF Colour, Resting

LEMMA ColourKept == ASSUME ~Overlap, Colour, [Next]_vars PROVE Colour'
<1>1. ASSUME NEW p \in Procs, Calculation(p) PROVE Colour'
    <2>1. prog[p] # "info" /\ UNCHANGED <<attrib, att, chosen, killed>>
        BY <1>1 DEF Calculation, UserCalc, KernelCalc, ReadOne, Result, Divided, Given, Calculates
    <2>2. CASE UNCHANGED prog
        BY <2>1, <2>2 DEF Colour, Resting
    <2>3. CASE ~UNCHANGED prog
        <3>1. \E what \in {"shell", "calc", "cal"} : prog' = [prog EXCEPT ![p] = what]
            BY <1>1, <2>3 DEF Calculation, UserCalc, KernelCalc, ReadOne, Result, Divided
        <3> QED
            BY <2>1, <3>1, NoInfo
    <2> QED
        BY <2>2, <2>3
<1>2. ASSUME NEW p \in Procs, Prints(p) \/ Serial(p) PROVE Colour'
    BY <1>2 DEF Prints, Serial, Colour, Resting
<1>3. ASSUME NEW p \in Procs, Color(p) PROVE Colour'
    <2>1. \A q \in Procs : prog[q] # "info"
        BY <1>3 DEF Color, Given, Alone
    <2>2. UNCHANGED <<prog, att>>
        BY <1>3 DEF Color
    <2>3. PICK l \in Lines[p] :
              /\ attrib' = IF Accepts(l) THEN ColorOf(Arg(l)) ELSE attrib
              /\ chosen' = IF Accepts(l) THEN ColorOf(Arg(l)) ELSE chosen
              /\ killed' = IF Accepts(l) THEN FALSE ELSE killed
        BY <1>3 DEF Color
    <2>4. attrib' = Resting'
        BY <2>1, <2>3 DEF Colour, Resting
    <2> QED
        BY <2>1, <2>2, <2>4 DEF Colour
<1>4. ASSUME NEW p \in Procs, InfoBegin(p) PROVE Colour'
    <2>1. \A q \in Procs : prog[q] # "info"
        BY <1>4 DEF InfoBegin, Given, Alone
    <2>2. /\ prog' = [prog EXCEPT ![p] = "info"] /\ att' = [att EXCEPT ![p] = attrib]
          /\ attrib' = INFO_COLOR /\ UNCHANGED <<chosen, killed>>
        BY <1>4 DEF InfoBegin
    <2>3. attrib = Resting /\ Resting' = Resting
        BY <2>1, <2>2 DEF Colour, Resting
    <2> QED
        BY <2>1, <2>2, <2>3 DEF Colour
<1>5. ASSUME NEW p \in Procs, InfoEnd(p) PROVE Colour'
    <2>1. /\ prog[p] = "info" /\ prog' = [prog EXCEPT ![p] = "shell"]
          /\ attrib' = att[p] /\ att' = [att EXCEPT ![p] = CLEAR_COLOR] /\ UNCHANGED <<chosen, killed>>
        BY <1>5 DEF InfoEnd
    <2>2. \A q \in Procs : prog'[q] # "info"
        BY <2>1 DEF Colour
    <2>3. attrib' = Resting'
        BY <2>1 DEF Colour, Resting
    <2> QED
        BY <2>1, <2>2, <2>3 DEF Colour
<1>6. ASSUME NEW p \in Procs, Killed(p) PROVE Colour'
    <2>1. CASE prog[p] = "info"
        <3>1. /\ prog' = [prog EXCEPT ![p] = "shell"] /\ att' = [att EXCEPT ![p] = CLEAR_COLOR]
              /\ killed' /\ UNCHANGED attrib
            BY <1>6, <2>1 DEF Killed
        <3>2. \A q \in Procs : prog'[q] # "info"
            BY <2>1, <3>1 DEF Colour
        <3>3. attrib' = Resting'
            BY <2>1, <3>1 DEF Colour, Resting
        <3> QED
            BY <3>1, <3>2, <3>3 DEF Colour
    <2>2. CASE prog[p] # "info"
        <3>1. prog' = [prog EXCEPT ![p] = "shell"] /\ UNCHANGED <<attrib, att, chosen, killed>>
            BY <1>6, <2>2 DEF Killed, Calculates
        <3> QED
            BY <2>2, <3>1, NoInfo
    <2> QED
        BY <2>1, <2>2
<1>7. CASE Clear
    BY <1>7 DEF Clear, Colour, Resting
<1>8. CASE UNCHANGED vars
    BY <1>8 DEF vars, Colour, Resting
<1> QED
    BY <1>1, <1>2, <1>3, <1>4, <1>5, <1>6, <1>7, <1>8 DEF Next

\* The inductive invariant of the colour: if a terminal prints info, it is the only one,
\* and what it keeps is the colour that is to be put back.
THEOREM ColourInvariance == ASSUME ~Overlap PROVE Spec => []Colour
<1>1. Init => Colour
    BY DEF Init, Colour, Resting
<1>2. Colour /\ [Next]_vars => Colour'
    BY ColourKept
<1> QED
    BY <1>1, <1>2, PTL DEF Spec

\* Provided that info prints on one terminal at a time and no colour is chosen with color or
\* Ctrl-L meanwhile, info (kernel_program.c:116-127) puts back the colour it found, on any
\* number of terminals: while none prints, the colour is the one last chosen, unless Ctrl-C
\* killed an info since (signal.c:66-71), whose colour then stays until another is chosen.
THEOREM ColorKeptCorrect == ASSUME ~Overlap PROVE Spec => []ColorKept
<1>1. Colour => ColorKept
    BY DEF Colour, Resting, ColorKept
<1> QED
    BY <1>1, ColourInvariance, PTL

-----------------------------------------------------------------------------
(* taking a command line apart *)

\* Two functions that go on alike from the same beginning are the same.
LEMMA SameSteps ==
    ASSUME NEW N \in Nat, NEW f, NEW g, f[0] = g[0],
           \A k \in 1 .. N : f[k - 1] = g[k - 1] => f[k] = g[k]
    PROVE  \A k \in 0 .. N : f[k] = g[k]
<1> DEFINE T == {k \in 0 .. N : f[k] = g[k]}
<1>1. 0 \in T
    OBVIOUS
<1>2. \A k \in 0 .. N - 1 : k \in T => k + 1 \in T
    <2> SUFFICES ASSUME NEW k \in 0 .. N - 1, k \in T PROVE k + 1 \in T
        OBVIOUS
    <2>1. k + 1 \in 1 .. N /\ k + 1 \in 0 .. N /\ (k + 1) - 1 = k
        OBVIOUS
    <2> QED
        BY <2>1
<1>3. 0 .. N \subseteq T
    <2> HIDE DEF T
    <2> QED
        BY <1>1, <1>2, BoundedInduction
<1> QED
    BY <1>3

ParseState == [state : 0 .. 3, cmd : Seq(STRING), arg : Seq(STRING)]

LEMMA ParseOneType ==
    ASSUME NEW s \in ParseState, NEW ch \in STRING PROVE ParseOne(s, ch) \in ParseState
<1> DEFINE S == Seq(STRING)
<1>1. /\ s.state \in 0 .. 3 /\ s.cmd \in S /\ s.arg \in S
      /\ <<ch>> \in S /\ Append(s.cmd, ch) \in S /\ Append(s.arg, ch) \in S
    BY DEF ParseState
<1>2. s \in [state : 0 .. 3, cmd : S, arg : S]
    BY DEF ParseState
<1> HIDE DEF S
<1>3. \A n \in 0 .. 3 : [s EXCEPT !.state = n] \in [state : 0 .. 3, cmd : S, arg : S]
    BY <1>2
<1>4. \A x \in S : /\ [s EXCEPT !.cmd = x] \in [state : 0 .. 3, cmd : S, arg : S]
                   /\ [s EXCEPT !.arg = x] \in [state : 0 .. 3, cmd : S, arg : S]
                   /\ \A n \in 0 .. 3 : /\ [s EXCEPT !.state = n, !.cmd = x] \in [state : 0 .. 3, cmd : S, arg : S]
                                        /\ [s EXCEPT !.state = n, !.arg = x] \in [state : 0 .. 3, cmd : S, arg : S]
    BY <1>2
<1> DEFINE T == [state : 0 .. 3, cmd : S, arg : S]
           c0 == [s EXCEPT !.state = 1, !.cmd = <<ch>>]
           c1 == [s EXCEPT !.state = 2]
           c2 == [s EXCEPT !.cmd = Append(s.cmd, ch)]
           c3 == [s EXCEPT !.state = 3, !.arg = <<ch>>]
           c4 == [s EXCEPT !.arg = Append(s.arg, ch)]
<1>5. s \in T /\ c0 \in T /\ c1 \in T /\ c2 \in T /\ c3 \in T /\ c4 \in T
    <2>1. 1 \in 0 .. 3 /\ 2 \in 0 .. 3 /\ 3 \in 0 .. 3
        OBVIOUS
    <2> QED
        BY <1>1, <1>2, <1>3, <1>4, <2>1
<1>6. ParseOne(s, ch) = CASE s.state = 0 -> IF ch = BLANK THEN s ELSE c0
                          [] s.state = 1 -> IF ch = BLANK THEN c1 ELSE c2
                          [] s.state = 2 -> IF ch = BLANK THEN s ELSE c3
                          [] s.state = 3 -> c4
    BY DEF ParseOne
<1> HIDE DEF T, c0, c1, c2, c3, c4
<1>7. s.state = 0 \/ s.state = 1 \/ s.state = 2 \/ s.state = 3
    BY <1>1
<1>8. ParseOne(s, ch) \in {s, c0, c1, c2, c3, c4}
    BY <1>6, <1>7
<1> QED
    BY <1>5, <1>8 DEF T, S, ParseState

\* What follows the command is a sequence of characters.
LEMMA ParseType == ASSUME NEW l \in Seq(STRING) PROVE Parse(l).arg \in Seq(STRING)
<1> DEFINE N == Len(l)
           C == ParseState
           a == [state |-> 0, cmd |-> <<>>, arg |-> <<>>]
           F == [x \in (1 .. N) \X C |-> ParseOne(x[2], l[x[1]])]
           Def(f) == [k \in 0 .. N |-> IF k = 0 THEN a ELSE ParseOne(f[k - 1], l[k])]
           r == CHOOSE f : f = Def(f)
<1>1. N \in Nat /\ a \in C /\ \A k \in 1 .. N : l[k] \in STRING
    BY DEF ParseState
<1>2. F \in [(1 .. N) \X C -> C]
    <2> HIDE DEF C, N
    <2> QED
        BY <1>1, ParseOneType DEF C
<1>3. PICK g \in [0 .. N -> C] : g[0] = a /\ \A k \in 1 .. N : g[k] = F[<<k, g[k - 1]>>]
    <2>1. \E g : g \in Iterates(N, C, a, F)
        <3> HIDE DEF N, C, a, F
        <3> QED
            BY <1>1, <1>2, IteratesExist
    <2> HIDE DEF N, C, a, F
    <2> QED
        BY <2>1 DEF Iterates
<1>4. \A k \in 1 .. N : g[k] = ParseOne(g[k - 1], l[k])
    <2> SUFFICES ASSUME NEW k \in 1 .. N PROVE g[k] = ParseOne(g[k - 1], l[k])
        OBVIOUS
    <2>1. g[k - 1] \in C
        <3>1. k - 1 \in 0 .. N
            BY <1>1
        <3> HIDE DEF N, C
        <3> QED
            BY <1>3, <3>1
    <2>2. F[<<k, g[k - 1]>>] = ParseOne(g[k - 1], l[k])
        <3> HIDE DEF N, C
        <3> QED
            BY <2>1
    <2> QED
        BY <1>3, <2>2
<1>5. g = Def(g)
    <2>1. \A k \in 0 .. N : g[k] = Def(g)[k]
        <3> SUFFICES ASSUME NEW k \in 0 .. N PROVE g[k] = Def(g)[k]
            OBVIOUS
        <3>1. k = 0 \/ k \in 1 .. N
            BY <1>1
        <3> HIDE DEF N, C, a
        <3> QED
            BY <1>3, <1>4, <3>1
    <2> HIDE DEF N, C, a
    <2> QED
        BY <1>3, <2>1
<1>6. r = Def(r)
    <2> HIDE DEF Def
    <2> QED
        BY <1>5
<1>7. Parse(l) = r[N]
    BY DEF Parse
<1> HIDE DEF r
<1>8. r[0] = a /\ \A k \in 1 .. N : r[k] = ParseOne(r[k - 1], l[k])
    <2>1. \A k \in 0 .. N : r[k] = IF k = 0 THEN a ELSE ParseOne(r[k - 1], l[k])
        <3> HIDE DEF N, a
        <3> QED
            BY <1>6
    <2>2. 0 \in 0 .. N /\ \A k \in 1 .. N : k \in 0 .. N /\ k # 0
        BY <1>1
    <2> HIDE DEF N, a
    <2> QED
        BY <2>1, <2>2
<1>9. r[N] = g[N]
    <2>1. \A k \in 1 .. N : r[k - 1] = g[k - 1] => r[k] = g[k]
        BY <1>4, <1>8
    <2>2. r[0] = g[0]
        BY <1>3, <1>8
    <2> HIDE DEF N, C, a, F
    <2>3. \A k \in 0 .. N : r[k] = g[k]
        BY <1>1, <2>1, <2>2, SameSteps, ZenonT(40)
    <2> QED
        BY <1>1, <2>3
<1>10. g[N] \in C
    <2> HIDE DEF C
    <2> QED
        BY <1>1, <1>3
<1> HIDE DEF N
<1> QED
    BY <1>7, <1>9, <1>10 DEF ParseState

\* So it is for every line a shell is told.
LEMMA ArgType ==
    ASSUME NEW l, l = <<>> \/ \E p \in Procs : l \in Lines[p]
    PROVE  Arg(l) \in Seq(STRING)
<1>1. l \in Seq(STRING) /\ l \in {<<>>} \cup UNION {Lines[p] : p \in Procs}
    <2>1. ASSUME NEW p \in Procs, l \in Lines[p] PROVE l \in Seq(STRING)
        <3>1. Lines[p] \in SUBSET Seq(STRING)
            BY CommandsAssumption
        <3> QED
            BY <2>1, <3>1
    <2>2. <<>> \in Seq(STRING)
        OBVIOUS
    <2> QED
        BY <2>1, <2>2
<1>2. Arg(l) = Parse(l).arg
    BY <1>1 DEF Arg, Parsed
<1> QED
    BY <1>1, <1>2, ParseType

-----------------------------------------------------------------------------
(* counting brackets *)

\* One more character.
LEMMA CountStep ==
    ASSUME NEW e, NEW ch, NEW k \in Nat
    PROVE  /\ Count(e, ch, 0) = 0
           /\ Count(e, ch, k) \in 0 .. k
           /\ Count(e, ch, k + 1) = Count(e, ch, k) + (IF e[k + 1] = ch THEN 1 ELSE 0)
<1> DEFINE At(j) == {i \in 1 .. j : e[i] = ch}
<1>1. At(0) = {}
    OBVIOUS
<1>2. IsFiniteSet(At(k)) /\ Cardinality(At(k)) \in 0 .. k
    <2>1. IsFiniteSet(1 .. k) /\ Cardinality(1 .. k) = k
        BY FS_Interval
    <2>2. At(k) \in SUBSET (1 .. k)
        OBVIOUS
    <2> HIDE DEF At
    <2>3. IsFiniteSet(At(k)) /\ Cardinality(At(k)) <= Cardinality(1 .. k)
        BY <2>1, <2>2, FS_Subset
    <2>4. Cardinality(At(k)) \in Nat
        BY <2>3, FS_CardinalityType
    <2> QED
        BY <2>1, <2>3, <2>4
<1>3. CASE e[k + 1] = ch
    <2>1. At(k + 1) = At(k) \cup {k + 1} /\ k + 1 \notin At(k)
        BY <1>3
    <2> HIDE DEF At
    <2>2. Cardinality(At(k + 1)) = Cardinality(At(k)) + 1
        BY <1>2, <2>1, FS_AddElement
    <2> QED
        BY <1>1, <1>2, <1>3, <2>2, FS_EmptySet DEF Count, At
<1>4. CASE e[k + 1] # ch
    <2>1. At(k + 1) = At(k)
        BY <1>4
    <2> HIDE DEF At
    <2> QED
        BY <1>1, <1>2, <1>4, <2>1, FS_EmptySet DEF Count, At
<1> QED
    BY <1>3, <1>4

\* The count depends on the characters counted only.
LEMMA CountSame ==
    ASSUME NEW e, NEW d, NEW ch, NEW k \in Nat, \A i \in 1 .. k : e[i] = d[i]
    PROVE  Count(e, ch, k) = Count(d, ch, k)
<1>1. {i \in 1 .. k : e[i] = ch} = {i \in 1 .. k : d[i] = ch}
    OBVIOUS
<1> QED
    BY <1>1 DEF Count

\* What follows the first character.
LEMMA CountTail ==
    ASSUME NEW S, NEW e \in Seq(S), e # <<>>, NEW ch, NEW k \in 0 .. Len(e) - 1
    PROVE  Count(Tail(e), ch, k) = Count(e, ch, k + 1) - (IF Head(e) = ch THEN 1 ELSE 0)
<1> DEFINE N == Len(e) - 1
           T == {j \in 0 .. N : Count(Tail(e), ch, j) = Count(e, ch, j + 1) - (IF Head(e) = ch THEN 1 ELSE 0)}
<1>1. N \in Nat
    OBVIOUS
<1>2. Head(e) = e[1] /\ \A j \in 1 .. N : Tail(e)[j] = e[j + 1]
    OBVIOUS
<1>3. 0 \in T
    <2>1. Count(Tail(e), ch, 0) = 0
        BY CountStep
    <2>2. Count(e, ch, 0 + 1) = Count(e, ch, 0) + (IF e[0 + 1] = ch THEN 1 ELSE 0) /\ Count(e, ch, 0) = 0
        BY CountStep
    <2> QED
        BY <1>1, <1>2, <2>1, <2>2
<1>4. \A j \in 0 .. N - 1 : j \in T => j + 1 \in T
    <2> SUFFICES ASSUME NEW j \in 0 .. N - 1, j \in T PROVE j + 1 \in T
        OBVIOUS
    <2>1. j \in Nat /\ j + 1 \in Nat /\ j + 1 \in 0 .. N /\ j + 1 \in 1 .. N
        BY <1>1
    <2>2. Count(Tail(e), ch, j + 1) = Count(Tail(e), ch, j) + (IF Tail(e)[j + 1] = ch THEN 1 ELSE 0)
        BY <2>1, CountStep
    <2>3. Count(e, ch, (j + 1) + 1) = Count(e, ch, j + 1) + (IF e[(j + 1) + 1] = ch THEN 1 ELSE 0)
        BY <2>1, CountStep, ZenonT(40)
    <2>4. Count(e, ch, j + 1) \in Int
        BY <2>1, CountStep
    <2> QED
        BY <1>2, <2>1, <2>2, <2>3, <2>4
<1>5. 0 .. N \subseteq T
    <2> HIDE DEF N, T
    <2> QED
        BY <1>1, <1>3, <1>4, BoundedInduction
<1> QED
    BY <1>5

-----------------------------------------------------------------------------
(* the stacks of the calculators *)

\* the brackets among operators
Opened(op) == Count(op, "(", Len(op))

\* There is one number more than there are operators that take two.
Fits(c) ==
    /\ c \in [op : Seq({"+", "-", "*", "/", "("}), num : Seq(-128 .. 127), fault : BOOLEAN]
    /\ Len(c.num) = Len(c.op) - Opened(c.op) + 1

\* A number is one of a char.
LEMMA ByteType == ASSUME NEW n \in Int PROVE Byte(n) \in -128 .. 127
<1>1. (n + 128) % 256 \in 0 .. 255
    OBVIOUS
<1> QED
    BY <1>1 DEF Byte

LEMMA ApplyType ==
    ASSUME NEW o \in {"+", "-", "*", "/"}, NEW a \in Int, NEW b \in Int
    PROVE  Apply(o, a, b) \in -128 .. 127
<1>1. a + b \in Int /\ a - b \in Int /\ a * b \in Int
    OBVIOUS
<1>2. Quotient(a, b) \in Int
    <2>1. CASE b # 0
        <3>1. Magnitude(a) \in Int /\ Magnitude(b) \in Nat \ {0}
            BY <2>1 DEF Magnitude
        <3>2. \A x \in Int : \A y \in Nat \ {0} : x \div y \in Int
            OBVIOUS
        <3>3. Magnitude(a) \div Magnitude(b) \in Int
            BY <3>1, <3>2
        <3> QED
            BY <2>1, <3>3 DEF Quotient
    <2> QED
        BY <2>1 DEF Quotient
<1> QED
    BY <1>1, <1>2, ByteType DEF Apply

LEMMA OpenedAppend ==
    ASSUME NEW S, NEW s \in Seq(S), NEW x \in S
    PROVE  /\ Opened(s) \in 0 .. Len(s)
           /\ Opened(Append(s, x)) = Opened(s) + (IF x = "(" THEN 1 ELSE 0)
<1> DEFINE t == Append(s, x)
<1>1. Len(s) \in Nat /\ Len(t) = Len(s) + 1 /\ t[Len(s) + 1] = x /\ \A i \in 1 .. Len(s) : t[i] = s[i]
    OBVIOUS
<1> DEFINE n == Len(s)
<1> HIDE DEF t, n
<1>2. Count(t, "(", n + 1) = Count(t, "(", n) + (IF t[n + 1] = "(" THEN 1 ELSE 0)
    <2>1. n \in Nat
        BY <1>1 DEF n
    <2>2. \A ch : Count(t, ch, n + 1) = Count(t, ch, n) + (IF t[n + 1] = ch THEN 1 ELSE 0)
        BY <2>1, CountStep, ZenonT(40)
    <2> QED
        BY <2>2
<1>3. Count(t, "(", Len(s)) = Count(s, "(", Len(s))
    BY <1>1, CountSame
<1>4. Count(s, "(", Len(s)) \in 0 .. Len(s)
    BY <1>1, CountStep
<1>5. Opened(t) = Opened(s) + (IF x = "(" THEN 1 ELSE 0)
    BY <1>1, <1>2, <1>3 DEF Opened, n
<1> QED
    BY <1>4, <1>5 DEF Opened, t

LEMMA OpenedFront ==
    ASSUME NEW S, NEW s \in Seq(S), s # <<>>
    PROVE  /\ Front(s) \in Seq(S) /\ Len(Front(s)) = Len(s) - 1 /\ Last(s) \in S
           /\ Opened(s) = Opened(Front(s)) + (IF Last(s) = "(" THEN 1 ELSE 0)
           /\ Opened(Front(s)) \in 0 .. Len(s) - 1
<1>1. Front(s) \in Seq(S) /\ Len(Front(s)) = Len(s) - 1 /\ Last(s) \in S
    <2>1. Len(s) \in Nat \ {0} /\ 1 \in Nat /\ 1 <= Len(s) /\ Len(s) - 1 \in 0 .. Len(s)
        OBVIOUS
    <2>2. Last(s) \in S
        BY <2>1 DEF Last
    <2>3. \A i \in 1 .. Len(s) - 1 : s[i] \in S
        BY <2>1
    <2> DEFINE n == Len(s) - 1
    <2>4. n \in Nat
        BY <2>1
    <2> HIDE DEF n
    <2>5. SubSeq(s, 1, n) \in Seq(S) /\ Len(SubSeq(s, 1, n)) = n
        <3>1. (IF 1 <= n THEN n - 1 + 1 ELSE 0) = n
            BY <2>4
        <3> QED
            BY <2>3, <2>4, <3>1, SubSeqProperties DEF n
    <2> QED
        BY <2>2, <2>5 DEF Front, n
<1>2. s = Append(Front(s), Last(s))
    BY DEF Front, Last
<1>3. /\ Opened(Front(s)) \in 0 .. Len(Front(s))
      /\ Opened(Append(Front(s), Last(s))) = Opened(Front(s)) + (IF Last(s) = "(" THEN 1 ELSE 0)
    BY <1>1, OpenedAppend
<1> QED
    BY <1>1, <1>2, <1>3

\* An operator that takes two numbers finds two, and leaves one.
LEMMA ReduceFits ==
    ASSUME NEW c, Fits(c), c.op # <<>>, Last(c.op) # "("
    PROVE  /\ Fits(Reduce(c))
           /\ Opened(Reduce(c).op) = Opened(c.op)
           /\ Len(Reduce(c).op) = Len(c.op) - 1
<1> DEFINE Marks == {"+", "-", "*", "/", "("}
           Chars == -128 .. 127
           n == Len(c.num)
           rest == SubSeq(c.num, 1, n - 2)
           a == Apply(Last(c.op), c.num[n - 1], c.num[n])
<1>1. c.op \in Seq(Marks) /\ c.num \in Seq(Chars) /\ c.fault \in BOOLEAN /\ n = Len(c.op) - Opened(c.op) + 1
    BY DEF Fits
<1>2. /\ Front(c.op) \in Seq(Marks) /\ Len(Front(c.op)) = Len(c.op) - 1 /\ Last(c.op) \in Marks
      /\ Opened(c.op) = Opened(Front(c.op)) /\ Opened(Front(c.op)) \in 0 .. Len(c.op) - 1
    <2> HIDE DEF Marks
    <2> QED
        BY <1>1, OpenedFront
<1>3. n \in Nat /\ n >= 2
    <2>1. Len(c.op) \in Nat /\ n \in Nat
        BY <1>1
    <2> QED
        BY <1>1, <1>2, <2>1
<1>4. a \in Chars
    <2>1. c.num[n - 1] \in Int /\ c.num[n] \in Int
        <3>1. n - 1 \in 1 .. n /\ n \in 1 .. n
            BY <1>3
        <3>2. \A i \in 1 .. n : c.num[i] \in Chars
            <4> HIDE DEF Chars
            <4> QED
                BY <1>1, ElementOfSeq
        <3>3. Chars \subseteq Int
            OBVIOUS
        <3> HIDE DEF n, Chars
        <3> QED
            BY <3>1, <3>2, <3>3
    <2> QED
        BY <1>2, <2>1, ApplyType
<1>5. rest \in Seq(Chars) /\ Len(rest) = n - 2
    <2>1. \A i \in 1 .. n - 2 : c.num[i] \in Chars
        <3>1. \A i \in 1 .. n - 2 : i \in 1 .. n
            BY <1>3
        <3>2. \A i \in 1 .. n : c.num[i] \in Chars
            <4> HIDE DEF Chars
            <4> QED
                BY <1>1, ElementOfSeq
        <3> HIDE DEF n, Chars
        <3> QED
            BY <3>1, <3>2
    <2>2. n - 2 \in Nat /\ (IF 1 <= n - 2 THEN (n - 2) - 1 + 1 ELSE 0) = n - 2
        BY <1>3
    <2> HIDE DEF n, Chars
    <2> QED
        BY <2>1, <2>2, SubSeqProperties
<1>6. Append(rest, a) \in Seq(Chars) /\ Len(Append(rest, a)) = n - 1
    <2> HIDE DEF rest, a, Chars
    <2> QED
        BY <1>3, <1>4, <1>5
<1>7. Reduce(c) = [op |-> Front(c.op), num |-> Append(rest, a),
                   fault |-> c.fault \/ (Last(c.op) = "/" /\ c.num[n] = 0)]
    BY DEF Reduce
<1> HIDE DEF rest, a, n
<1> QED
    BY <1>1, <1>2, <1>3, <1>6, <1>7 DEF Fits

\* the stacks in order with `opened' brackets open
Orderly(opened) ==
    {d \in [op : Seq({"+", "-", "*", "/", "("}), num : Seq(-128 .. 127), fault : BOOLEAN] :
        Fits(d) /\ Opened(d.op) = opened}

\* One round of a loop.
LEMMA OneReduced ==
    ASSUME NEW opened, NEW stops, "(" \in stops \/ opened = 0, NEW d \in Orderly(opened)
    PROVE  /\ ReduceOne(d, stops) \in Orderly(opened)
           /\ \/ d.op = <<>> /\ ReduceOne(d, stops) = d
              \/ d.op # <<>> /\ Last(d.op) \in stops /\ ReduceOne(d, stops) = d
              \/ Len(ReduceOne(d, stops).op) = Len(d.op) - 1
<1>0. Fits(d) /\ Opened(d.op) = opened
    BY DEF Orderly
<1>1. CASE d.op = <<>> \/ Last(d.op) \in stops
    BY <1>1 DEF ReduceOne
<1>2. CASE d.op # <<>> /\ Last(d.op) \notin stops
    <2>1. Last(d.op) # "("
        <3>1. CASE "(" \in stops
            BY <1>2, <3>1
        <3>2. CASE opened = 0
            <4>1. d.op \in Seq({"+", "-", "*", "/", "("}) /\ Opened(d.op) = 0
                BY <1>0, <3>2 DEF Fits
            <4>2. /\ Opened(d.op) = Opened(Front(d.op)) + (IF Last(d.op) = "(" THEN 1 ELSE 0)
                  /\ Opened(Front(d.op)) \in 0 .. Len(d.op) - 1
                BY <1>2, <4>1, OpenedFront
            <4> QED
                BY <4>1, <4>2
        <3> QED
            BY <3>1, <3>2
    <2>2. Fits(Reduce(d)) /\ Opened(Reduce(d).op) = Opened(d.op) /\ Len(Reduce(d).op) = Len(d.op) - 1
        BY <1>0, <1>2, <2>1, ReduceFits
    <2>3. ReduceOne(d, stops) = Reduce(d)
        BY <1>2 DEF ReduceOne
    <2>4. Reduce(d) \in [op : Seq({"+", "-", "*", "/", "("}), num : Seq(-128 .. 127), fault : BOOLEAN]
        BY <2>2 DEF Fits
    <2> QED
        BY <1>0, <2>2, <2>3, <2>4 DEF Orderly
<1> QED
    BY <1>1, <1>2

\* The rounds of a loop, which computes Until.
LEMMA UntilRounds ==
    ASSUME NEW c, Fits(c), NEW stops, "(" \in stops \/ Opened(c.op) = 0
    PROVE  \E g \in [0 .. Len(c.op) -> Orderly(Opened(c.op))] :
              /\ g[0] = c
              /\ \A k \in 1 .. Len(c.op) : g[k] = ReduceOne(g[k - 1], stops)
              /\ Until(c, stops) = g[Len(c.op)]
<1> DEFINE N == Len(c.op)
           C == Orderly(Opened(c.op))
           F == [x \in (1 .. N) \X C |-> ReduceOne(x[2], stops)]
           Def(f) == [k \in 0 .. N |-> IF k = 0 THEN c ELSE ReduceOne(f[k - 1], stops)]
           r == CHOOSE f : f = Def(f)
<1>1. N \in Nat /\ c \in C
    BY DEF Fits, Orderly
<1>2. \A d \in C : ReduceOne(d, stops) \in C
    BY OneReduced
<1>3. \E f : f \in Iterates(N, C, c, F)
    <2>1. F \in [(1 .. N) \X C -> C]
        <3> HIDE DEF N, C
        <3> QED
            BY <1>2
    <2> HIDE DEF N, C, F
    <2> QED
        BY <1>1, <2>1, IteratesExist
<1>4. PICK g \in [0 .. N -> C] : g[0] = c /\ \A k \in 1 .. N : g[k] = F[<<k, g[k - 1]>>]
    <2> HIDE DEF N, C, F
    <2> QED
        BY <1>3 DEF Iterates
<1>5. \A k \in 1 .. N : g[k - 1] \in C /\ g[k] = ReduceOne(g[k - 1], stops)
    <2> SUFFICES ASSUME NEW k \in 1 .. N PROVE g[k - 1] \in C /\ g[k] = ReduceOne(g[k - 1], stops)
        OBVIOUS
    <2>1. k - 1 \in 0 .. N
        BY <1>1
    <2>2. g[k - 1] \in C
        <3> HIDE DEF N, C
        <3> QED
            BY <1>4, <2>1
    <2>3. F[<<k, g[k - 1]>>] = ReduceOne(g[k - 1], stops)
        <3> HIDE DEF N, C
        <3> QED
            BY <2>2
    <2> QED
        BY <1>4, <2>2, <2>3
<1>6. g = Def(g)
    <2>1. \A k \in 0 .. N : g[k] = Def(g)[k]
        <3> SUFFICES ASSUME NEW k \in 0 .. N PROVE g[k] = Def(g)[k]
            OBVIOUS
        <3>1. k = 0 \/ k \in 1 .. N
            BY <1>1
        <3> HIDE DEF N, C
        <3> QED
            BY <1>4, <1>5, <3>1
    <2>2. DOMAIN g = 0 .. N
        <3> HIDE DEF N, C
        <3> QED
            BY <1>4
    <2> HIDE DEF N, C
    <2> QED
        BY <1>4, <2>1
<1>7. r = Def(r)
    <2> HIDE DEF Def
    <2> QED
        BY <1>6
<1>8. Until(c, stops) = r[N]
    BY DEF Until
<1> HIDE DEF r
<1>9. r[N] = g[N]
    <2> DEFINE V == {k \in 0 .. N : r[k] = g[k]}
    <2>1. 0 \in V
        BY <1>1, <1>4, <1>7
    <2>2. \A k \in 0 .. N - 1 : k \in V => k + 1 \in V
        <3> SUFFICES ASSUME NEW k \in 0 .. N - 1, k \in V PROVE k + 1 \in V
            OBVIOUS
        <3>1. k + 1 \in 1 .. N /\ k + 1 \in 0 .. N /\ (k + 1) - 1 = k /\ k + 1 # 0
            BY <1>1
        <3>2. r[k] = g[k]
            OBVIOUS
        <3>3. g[k + 1] = ReduceOne(g[k], stops)
            <4> HIDE DEF N, C
            <4> QED
                BY <1>5, <3>1
        <3>4. r[k + 1] = ReduceOne(r[k], stops)
            <4> HIDE DEF N, C
            <4> QED
                BY <1>7, <3>1
        <3> QED
            BY <3>1, <3>2, <3>3, <3>4
    <2>3. 0 .. N \subseteq V
        <3> HIDE DEF V, N
        <3> QED
            BY <1>1, <2>1, <2>2, BoundedInduction
    <2> QED
        BY <1>1, <2>3
<1> QED
    <2> HIDE DEF C, N
    <2> QED
        BY <1>4, <1>5, <1>8, <1>9 DEF C, N

\* The loops end on an empty stack or on one of `stops', and close no bracket.
LEMMA UntilFits ==
    ASSUME NEW c, Fits(c), NEW stops, "(" \in stops \/ Opened(c.op) = 0
    PROVE  LET d == Until(c, stops)
           IN  Fits(d) /\ Opened(d.op) = Opened(c.op) /\ (d.op = <<>> \/ Last(d.op) \in stops)
<1> DEFINE N == Len(c.op)
           C == Orderly(Opened(c.op))
<1>1. N \in Nat /\ c \in C
    BY DEF Fits, Orderly
<1>2. \A d \in C : \/ d.op = <<>> /\ ReduceOne(d, stops) = d
                   \/ d.op # <<>> /\ Last(d.op) \in stops /\ ReduceOne(d, stops) = d
                   \/ Len(ReduceOne(d, stops).op) = Len(d.op) - 1
    BY OneReduced
<1>3. PICK g \in [0 .. N -> C] :
            g[0] = c /\ (\A k \in 1 .. N : g[k] = ReduceOne(g[k - 1], stops)) /\ Until(c, stops) = g[N]
    <2> HIDE DEF C, N
    <2> QED
        BY UntilRounds DEF C, N
<1>5. \A k \in 1 .. N : g[k - 1] \in C /\ g[k] = ReduceOne(g[k - 1], stops)
    <2> SUFFICES ASSUME NEW k \in 1 .. N PROVE g[k - 1] \in C /\ g[k] = ReduceOne(g[k - 1], stops)
        OBVIOUS
    <2>1. k - 1 \in 0 .. N
        BY <1>1
    <2> HIDE DEF N, C
    <2> QED
        BY <1>3, <2>1
<1> DEFINE Stopped(d) == d.op = <<>> \/ Last(d.op) \in stops
           T == {k \in 0 .. N : Stopped(g[k]) \/ Len(g[k].op) = N - k}
<1>10. 0 \in T
    BY <1>1, <1>3
<1>11. \A k \in 0 .. N - 1 : k \in T => k + 1 \in T
    <2> SUFFICES ASSUME NEW k \in 0 .. N - 1, k \in T PROVE k + 1 \in T
        OBVIOUS
    <2>1. k + 1 \in 1 .. N /\ k + 1 \in 0 .. N /\ (k + 1) - 1 = k
        BY <1>1
    <2>2. g[k] \in C /\ g[k + 1] = ReduceOne(g[k], stops)
        <3> HIDE DEF N, C
        <3> QED
            BY <1>5, <2>1
    <2>3. Stopped(g[k]) => g[k + 1] = g[k]
        BY <2>2 DEF ReduceOne
    <2>4. Stopped(g[k]) \/ Len(g[k + 1].op) = Len(g[k].op) - 1
        <3> HIDE DEF N, C
        <3> QED
            BY <1>2, <2>2
    <2>5. CASE Stopped(g[k])
        <3> HIDE DEF N, C
        <3> QED
            BY <2>1, <2>3, <2>5
    <2>6. CASE ~Stopped(g[k])
        <3>1. Len(g[k].op) = N - k
            <4> HIDE DEF N, C, Stopped
            <4> QED
                BY <2>6
        <3>2. Len(g[k + 1].op) = N - (k + 1)
            BY <1>1, <2>4, <2>6, <3>1
        <3> HIDE DEF N, C, Stopped
        <3> QED
            BY <2>1, <3>2
    <2> QED
        BY <2>5, <2>6
<1>12. N \in T
    <2>1. 0 .. N \subseteq T
        <3> HIDE DEF T, N
        <3> QED
            BY <1>1, <1>10, <1>11, BoundedInduction
    <2> HIDE DEF T
    <2> QED
        BY <1>1, <2>1
<1>13. g[N] \in C
    <2> HIDE DEF C
    <2> QED
        BY <1>1, <1>3
<1>14. Stopped(g[N])
    <2>1. Len(g[N].op) = 0 => g[N].op = <<>>
        BY <1>13 DEF Orderly
    <2> QED
        BY <1>1, <1>12, <2>1
<1> QED
    BY <1>3, <1>13, <1>14 DEF Orderly

\* A loop that has ended does nothing more.
LEMMA UntilStays ==
    ASSUME NEW c, Fits(c), NEW stops, "(" \in stops \/ Opened(c.op) = 0,
           c.op = <<>> \/ Last(c.op) \in stops
    PROVE  Until(c, stops) = c
<1> DEFINE N == Len(c.op)
           C == Orderly(Opened(c.op))
<1>1. N \in Nat
    BY DEF Fits
<1>2. PICK g \in [0 .. N -> C] :
            g[0] = c /\ (\A k \in 1 .. N : g[k] = ReduceOne(g[k - 1], stops)) /\ Until(c, stops) = g[N]
    <2> HIDE DEF C, N
    <2> QED
        BY UntilRounds DEF C, N
<1> DEFINE T == {k \in 0 .. N : g[k] = c}
<1>3. 0 \in T
    BY <1>1, <1>2
<1>4. \A k \in 0 .. N - 1 : k \in T => k + 1 \in T
    <2> SUFFICES ASSUME NEW k \in 0 .. N - 1, k \in T PROVE k + 1 \in T
        OBVIOUS
    <2>1. k + 1 \in 1 .. N /\ k + 1 \in 0 .. N /\ (k + 1) - 1 = k
        BY <1>1
    <2> HIDE DEF N, C
    <2>2. g[k + 1] = ReduceOne(g[k], stops)
        BY <1>2, <2>1
    <2> QED
        BY <2>1, <2>2 DEF ReduceOne
<1>5. 0 .. N \subseteq T
    <2> HIDE DEF T, N
    <2> QED
        BY <1>1, <1>3, <1>4, BoundedInduction
<1> QED
    BY <1>1, <1>2, <1>5

\* A loop that has not ended goes one round and on.
LEMMA UntilGoesOn ==
    ASSUME NEW c, Fits(c), NEW stops, "(" \in stops \/ Opened(c.op) = 0,
           c.op # <<>>, Last(c.op) \notin stops
    PROVE  /\ Fits(Reduce(c)) /\ Opened(Reduce(c).op) = Opened(c.op)
           /\ Len(Reduce(c).op) = Len(c.op) - 1
           /\ Until(c, stops) = Until(Reduce(c), stops)
<1> DEFINE N == Len(c.op)
           C == Orderly(Opened(c.op))
           d == Reduce(c)
<1>1. N \in Nat \ {0} /\ c \in C
    BY DEF Fits, Orderly
<1>2. ReduceOne(c, stops) = d /\ d \in C /\ Len(d.op) = N - 1
    <2>1. ReduceOne(c, stops) = d
        BY DEF ReduceOne
    <2>2. ReduceOne(c, stops) \in C /\ Len(ReduceOne(c, stops).op) = N - 1
        <3> HIDE DEF C
        <3> QED
            BY <1>1, OneReduced DEF C
    <2> HIDE DEF d, C
    <2> QED
        BY <2>1, <2>2
<1>3. Fits(d) /\ Opened(d.op) = Opened(c.op)
    <2> HIDE DEF d
    <2> QED
        BY <1>2 DEF Orderly
<1>4. PICK g \in [0 .. N -> C] :
            g[0] = c /\ (\A k \in 1 .. N : g[k] = ReduceOne(g[k - 1], stops)) /\ Until(c, stops) = g[N]
    <2> HIDE DEF C, N
    <2> QED
        BY UntilRounds DEF C, N
<1> HIDE DEF d
<1>5. PICK h \in [0 .. N - 1 -> C] :
            /\ h[0] = d /\ (\A k \in 1 .. N - 1 : h[k] = ReduceOne(h[k - 1], stops))
            /\ Until(d, stops) = h[N - 1]
    <2>1. \E h \in [0 .. Len(d.op) -> Orderly(Opened(d.op))] :
              /\ h[0] = d
              /\ \A k \in 1 .. Len(d.op) : h[k] = ReduceOne(h[k - 1], stops)
              /\ Until(d, stops) = h[Len(d.op)]
        BY <1>3, UntilRounds
    <2> HIDE DEF N
    <2> QED
        BY <1>2, <1>3, <2>1
<1> DEFINE T == {k \in 0 .. N - 1 : h[k] = g[k + 1]}
<1>6. 0 \in T
    <2>1. 1 \in 1 .. N /\ 1 - 1 = 0 /\ 0 + 1 = 1 /\ 0 \in 0 .. N - 1
        BY <1>1
    <2> HIDE DEF N, C
    <2> QED
        BY <1>2, <1>4, <1>5, <2>1
<1>7. \A k \in 0 .. (N - 1) - 1 : k \in T => k + 1 \in T
    <2> SUFFICES ASSUME NEW k \in 0 .. (N - 1) - 1, k \in T PROVE k + 1 \in T
        OBVIOUS
    <2>1. /\ k + 1 \in 1 .. N - 1 /\ k + 1 \in 0 .. N - 1 /\ (k + 1) - 1 = k
          /\ (k + 1) + 1 \in 1 .. N /\ ((k + 1) + 1) - 1 = k + 1
        BY <1>1
    <2>2. h[k + 1] = ReduceOne(h[k], stops) /\ g[(k + 1) + 1] = ReduceOne(g[k + 1], stops)
        <3> HIDE DEF N, C
        <3> QED
            BY <1>4, <1>5, <2>1
    <2> HIDE DEF N, C
    <2> QED
        BY <2>1, <2>2
<1>8. h[N - 1] = g[N]
    <2>1. N - 1 \in Nat /\ N - 1 \in 0 .. N - 1 /\ (N - 1) + 1 = N
        BY <1>1
    <2> DEFINE M == N - 1
    <2> HIDE DEF T, M
    <2>2. 0 .. M \subseteq T
        BY <1>6, <1>7, <2>1, BoundedInduction DEF M
    <2>3. M \in T
        BY <2>1, <2>2 DEF M
    <2> QED
        BY <2>1, <2>3 DEF T, M
<1> QED
    BY <1>2, <1>3, <1>4, <1>5, <1>8 DEF d

\* A loop that stops at more may run first.
LEMMA UntilTwice ==
    ASSUME NEW c, Fits(c), NEW stops, NEW more, stops \subseteq more, "(" \in stops \/ Opened(c.op) = 0
    PROVE  Until(Until(c, more), stops) = Until(c, stops)
<1> DEFINE o == Opened(c.op)
           T == {n \in Nat : \A d \in Orderly(o) :
                    Len(d.op) = n => Until(Until(d, more), stops) = Until(d, stops)}
<1> HIDE DEF o
<1>1. \A n \in Nat : (\A k \in Nat : k < n => k \in T) => n \in T
    <2> SUFFICES ASSUME NEW n \in Nat, \A k \in Nat : k < n => k \in T,
                        NEW d \in Orderly(o), Len(d.op) = n
                 PROVE  Until(Until(d, more), stops) = Until(d, stops)
        OBVIOUS
    <2>1. Fits(d) /\ Opened(d.op) = o /\ ("(" \in stops \/ o = 0) /\ ("(" \in more \/ o = 0)
        BY DEF Orderly, o
    <2>2. CASE d.op = <<>> \/ Last(d.op) \in more
        BY <2>1, <2>2, UntilStays
    <2>3. CASE d.op # <<>> /\ Last(d.op) \notin more
        <3>1. /\ Fits(Reduce(d)) /\ Opened(Reduce(d).op) = o /\ Len(Reduce(d).op) = n - 1
              /\ Until(d, more) = Until(Reduce(d), more) /\ Until(d, stops) = Until(Reduce(d), stops)
            BY <2>1, <2>3, UntilGoesOn
        <3>2. Reduce(d) \in Orderly(o)
            BY <3>1 DEF Orderly, Fits
        <3>3. n - 1 \in Nat /\ n - 1 < n
            <4>1. n # 0
                BY <2>1, <2>3 DEF Fits
            <4> QED
                BY <4>1
        <3>4. n - 1 \in T
            <4> HIDE DEF T
            <4> QED
                BY <3>3
        <3> QED
            BY <3>1, <3>2, <3>4
    <2> QED
        BY <2>2, <2>3
<1>2. Nat \subseteq T
    <2> HIDE DEF T
    <2> QED
        BY <1>1, StrongInduction
<1>3. c \in Orderly(o) /\ Len(c.op) \in Nat
    BY DEF Orderly, Fits, o
<1> QED
    BY <1>2, <1>3

\* The characters that Read treats apart.
LEMMA Digits == ASSUME NEW ch, IsDigit(ch) PROVE ch \notin {"+", "-", "*", "/", "(", ")"} /\ DigitOf(ch) \in 0 .. 9
<1>1. ch \in {"0", "1", "2", "3", "4", "5", "6", "7", "8", "9"}
    BY DEF IsDigit, Numerals
<1>2. DigitOf(ch) \in 0 .. 9
    BY DEF IsDigit, DigitOf
<1> QED
    BY <1>1, <1>2

\* The fields of the stacks that are replaced.
LEMMA Replaced ==
    ASSUME NEW c, Fits(c), NEW o, NEW m
    PROVE  /\ [c EXCEPT !.op = o] = [op |-> o, num |-> c.num, fault |-> c.fault]
           /\ [c EXCEPT !.num = m] = [op |-> c.op, num |-> m, fault |-> c.fault]
<1> DEFINE Ops == Seq({"+", "-", "*", "/", "("})
           Nums == Seq(-128 .. 127)
<1>1. c \in [op : Ops, num : Nums, fault : BOOLEAN]
    BY DEF Fits
<1> HIDE DEF Ops, Nums
<1>2. [c EXCEPT !.op = o] = [op |-> o, num |-> c.num, fault |-> c.fault]
    BY <1>1
<1>3. [c EXCEPT !.num = m] = [op |-> c.op, num |-> m, fault |-> c.fault]
    BY <1>1
<1> QED
    BY <1>2, <1>3

\* An operator or a bracket on top of the stack; a sign takes a number, which is 0.
LEMMA PushFits ==
    ASSUME NEW c, Fits(c)
    PROVE  /\ \A ch \in {"+", "-", "*", "/"} :
                 Fits(Operator(c, ch)) /\ Opened(Operator(c, ch).op) = Opened(c.op)
           /\ LET d == [c EXCEPT !.op = Append(@, "(")]
              IN  Fits(d) /\ Opened(d.op) = Opened(c.op) + 1
<1> DEFINE Marks == {"+", "-", "*", "/", "("}
           Chars == -128 .. 127
<1>1. c.op \in Seq(Marks) /\ c.num \in Seq(Chars) /\ c.fault \in BOOLEAN
      /\ Len(c.num) = Len(c.op) - Opened(c.op) + 1
    BY DEF Fits
<1>2. 0 \in Chars /\ "(" \in Marks /\ \A ch \in {"+", "-", "*", "/"} : ch \in Marks /\ ch # "("
    OBVIOUS
<1>3. Append(c.num, 0) \in Seq(Chars) /\ Len(Append(c.num, 0)) = Len(c.num) + 1
    <2> HIDE DEF Chars
    <2> QED
        BY <1>1, <1>2
<1>4. \A ch \in Marks : /\ Append(c.op, ch) \in Seq(Marks) /\ Len(Append(c.op, ch)) = Len(c.op) + 1
                        /\ Opened(Append(c.op, ch)) = Opened(c.op) + (IF ch = "(" THEN 1 ELSE 0)
                        /\ Opened(c.op) \in Int /\ Len(c.op) \in Int
    <2> HIDE DEF Marks
    <2> QED
        BY <1>1, OpenedAppend
<1>5. ASSUME NEW ch \in {"+", "-", "*", "/"}
      PROVE  Fits(Operator(c, ch)) /\ Opened(Operator(c, ch).op) = Opened(c.op)
    <2>1. Operator(c, ch) = [op |-> Append(c.op, ch), num |-> Append(c.num, 0), fault |-> c.fault]
        <3> DEFINE o == Append(c.op, ch)
                   m == Append(c.num, 0)
        <3>1. Operator(c, ch) = [c EXCEPT !.op = o, !.num = m]
            BY DEF Operator
        <3> HIDE DEF o, m
        <3>2. [c EXCEPT !.op = o] = [op |-> o, num |-> c.num, fault |-> c.fault]
            BY Replaced
        <3> DEFINE d == [c EXCEPT !.op = o]
        <3>3. d \in [op : {o}, num : {c.num}, fault : {c.fault}]
            BY <3>2
        <3> HIDE DEF d
        <3>4. [d EXCEPT !.num = m] = [op |-> o, num |-> m, fault |-> c.fault]
            BY <3>3
        <3> QED
            BY <3>1, <3>4 DEF d, o, m
    <2>2. /\ Append(c.op, ch) \in Seq(Marks) /\ Len(Append(c.op, ch)) = Len(c.op) + 1
          /\ Opened(Append(c.op, ch)) = Opened(c.op) /\ Opened(c.op) \in Int /\ Len(c.op) \in Int
        BY <1>2, <1>4
    <2> QED
        BY <1>1, <1>3, <2>1, <2>2 DEF Fits
<1>6. LET d == [c EXCEPT !.op = Append(@, "(")]
      IN  Fits(d) /\ Opened(d.op) = Opened(c.op) + 1
    <2>1. [c EXCEPT !.op = Append(@, "(")] = [op |-> Append(c.op, "("), num |-> c.num, fault |-> c.fault]
        BY Replaced
    <2>2. /\ Append(c.op, "(") \in Seq(Marks) /\ Len(Append(c.op, "(")) = Len(c.op) + 1
          /\ Opened(Append(c.op, "(")) = Opened(c.op) + 1 /\ Opened(c.op) \in Int /\ Len(c.op) \in Int
        BY <1>2, <1>4
    <2> DEFINE d == [op |-> Append(c.op, "("), num |-> c.num, fault |-> c.fault]
    <2>3. d.op = Append(c.op, "(") /\ d.num = c.num /\ Len(d.num) = Len(d.op) - Opened(d.op) + 1
        BY <1>1, <2>2
    <2>4. d \in [op : Seq(Marks), num : Seq(Chars), fault : BOOLEAN]
        BY <1>1, <2>2
    <2> HIDE DEF d
    <2>5. Fits(d) /\ Opened(d.op) = Opened(c.op) + 1
        BY <2>2, <2>3, <2>4 DEF Fits
    <2> QED
        BY <2>1, <2>5 DEF d
<1> QED
    BY <1>5, <1>6

\* A character leaves the stacks in order, if it closes no bracket that is not open.
LEMMA ReadFits ==
    ASSUME NEW c, Fits(c), NEW ch, ch = ")" => Opened(c.op) # 0
    PROVE  /\ Fits(Read(c, ch))
           /\ Opened(Read(c, ch).op) =
                  Opened(c.op) + (IF ch = "(" THEN 1 ELSE 0) - (IF ch = ")" THEN 1 ELSE 0)
<1> DEFINE Marks == {"+", "-", "*", "/", "("}
           Chars == -128 .. 127
<1>1. /\ c.op \in Seq(Marks) /\ c.num \in Seq(Chars) /\ c.fault \in BOOLEAN
      /\ Len(c.num) = Len(c.op) - Opened(c.op) + 1
    BY DEF Fits
<1>2. Opened(c.op) \in 0 .. Len(c.op) /\ Len(c.op) \in Nat
    <2>1. "+" \in Marks
        OBVIOUS
    <2> HIDE DEF Marks
    <2> QED
        BY <1>1, <2>1, OpenedAppend
<1>3. CASE IsDigit(ch)
    <2> DEFINE n == Len(c.num)
               b == Byte(c.num[n] * 10 + DigitOf(ch))
    <2>1. n \in Nat /\ n >= 1 /\ n \in 1 .. n
        BY <1>1, <1>2
    <2>2. c.num[n] \in Chars
        <3> HIDE DEF Chars
        <3> QED
            BY <1>1, <2>1, ElementOfSeq
    <2>3. b \in Chars
        <3>1. c.num[n] * 10 + DigitOf(ch) \in Int
            <4>1. DigitOf(ch) \in Int
                BY <1>3, Digits
            <4>2. c.num[n] \in Int
                <5>1. Chars \subseteq Int
                    OBVIOUS
                <5> HIDE DEF n, Chars
                <5> QED
                    BY <2>2, <5>1
            <4> HIDE DEF n
            <4> QED
                BY <4>1, <4>2
        <3> HIDE DEF n
        <3> QED
            BY <3>1, ByteType
    <2>4. Read(c, ch) = [op |-> c.op, num |-> [c.num EXCEPT ![n] = b], fault |-> c.fault]
        BY <1>3, Replaced DEF Read
    <2>5. [c.num EXCEPT ![n] = b] \in Seq(Chars) /\ Len([c.num EXCEPT ![n] = b]) = n
        <3> HIDE DEF b, Chars
        <3> QED
            BY <1>1, <2>1, <2>3
    <2>6. ch # "(" /\ ch # ")"
        BY <1>3, Digits
    <2> HIDE DEF b
    <2> QED
        BY <1>1, <1>2, <2>4, <2>5, <2>6 DEF Fits
<1>4. CASE ~IsDigit(ch) /\ ch = "("
    <2> DEFINE d == [c EXCEPT !.op = Append(@, "(")]
    <2>1. Read(c, ch) = d
        BY <1>4 DEF Read
    <2>2. Fits(d) /\ Opened(d.op) = Opened(c.op) + 1
        BY PushFits
    <2>3. (IF ch = "(" THEN 1 ELSE 0) = 1 /\ (IF ch = ")" THEN 1 ELSE 0) = 0
        BY <1>4
    <2> HIDE DEF Marks, d
    <2> QED
        BY <1>2, <2>1, <2>2, <2>3
<1>5. CASE ~IsDigit(ch) /\ ch = ")"
    <2> DEFINE d == Until(c, {"("})
    <2>1. Fits(d) /\ Opened(d.op) = Opened(c.op) /\ (d.op = <<>> \/ Last(d.op) = "(")
        BY UntilFits
    <2>2. Read(c, ch) = [d EXCEPT !.op = Front(@)]
        BY <1>5 DEF Read
    <2> HIDE DEF d
    <2>3. d.op \in Seq(Marks) /\ Len(d.num) = Len(d.op) - Opened(d.op) + 1
        BY <2>1 DEF Fits
    <2>4. d.op # <<>>
        <3>1. Opened(<<>>) = 0
            BY CountStep DEF Opened
        <3> QED
            BY <1>5, <2>1, <3>1
    <2>5. /\ Front(d.op) \in Seq(Marks) /\ Len(Front(d.op)) = Len(d.op) - 1
          /\ Opened(d.op) = Opened(Front(d.op)) + 1 /\ Opened(Front(d.op)) \in 0 .. Len(d.op) - 1
        <3> HIDE DEF Marks
        <3> QED
            BY <2>1, <2>3, <2>4, OpenedFront
    <2>6. [d EXCEPT !.op = Front(@)] = [op |-> Front(d.op), num |-> d.num, fault |-> d.fault]
        BY <2>1, Replaced
    <2>7. d.num \in Seq(Chars) /\ d.fault \in BOOLEAN /\ Len(d.op) \in Nat
        BY <2>1 DEF Fits
    <2> DEFINE e == [op |-> Front(d.op), num |-> d.num, fault |-> d.fault]
    <2>8. e.op = Front(d.op) /\ Len(e.num) = Len(e.op) - Opened(e.op) + 1
        BY <2>3, <2>5, <2>7
    <2>9. e \in [op : Seq(Marks), num : Seq(Chars), fault : BOOLEAN]
        BY <2>5, <2>7
    <2>10. Read(c, ch) = e
        BY <2>2, <2>6
    <2> HIDE DEF e
    <2>11. Fits(e)
        BY <2>8, <2>9 DEF Fits
    <2>12. Opened(e.op) = Opened(c.op) - 1
        BY <2>1, <2>5, <2>7, <2>8
    <2>13. (IF ch = "(" THEN 1 ELSE 0) = 0 /\ (IF ch = ")" THEN 1 ELSE 0) = 1
        BY <1>5
    <2> HIDE DEF Marks
    <2> QED
        BY <1>2, <2>10, <2>11, <2>12, <2>13
<1>6. CASE ~IsDigit(ch) /\ ch \in {"+", "-", "*", "/"}
    <2>1. PICK stops : "(" \in stops /\ Read(c, ch) = Operator(Until(c, stops), ch)
        <3>1. CASE ch \in {"+", "-"}
            BY <1>6, <3>1 DEF Read
        <3>2. CASE ch \in {"*", "/"}
            BY <1>6, <3>2 DEF Read
        <3> QED
            BY <1>6, <3>1, <3>2
    <2>2. Fits(Until(c, stops)) /\ Opened(Until(c, stops).op) = Opened(c.op)
        BY <2>1, UntilFits
    <2> DEFINE d == Until(c, stops)
    <2>3. Fits(Operator(d, ch)) /\ Opened(Operator(d, ch).op) = Opened(d.op)
        BY <1>6, <2>2, PushFits
    <2>4. (IF ch = "(" THEN 1 ELSE 0) = 0 /\ (IF ch = ")" THEN 1 ELSE 0) = 0
        BY <1>6
    <2> HIDE DEF Marks
    <2> QED
        BY <1>2, <2>1, <2>2, <2>3, <2>4
<1>7. CASE ~IsDigit(ch) /\ ch \notin {"+", "-", "*", "/", "(", ")"}
    <2>1. Read(c, ch) = c
        BY <1>7 DEF Read
    <2> QED
        BY <1>2, <1>7, <2>1
<1> QED
    BY <1>3, <1>4, <1>5, <1>6, <1>7

\* Empty stacks are in order.
LEMMA ClearedFits == Fits(Cleared) /\ Opened(Cleared.op) = 0
<1>1. Opened(<<>>) = 0
    BY CountStep DEF Opened
<1>2. Cleared.op = <<>> /\ Cleared.num = <<0>> /\ Len(<<0>>) = 1
      /\ Cleared \in [op : Seq({"+", "-", "*", "/", "("}), num : Seq(-128 .. 127), fault : BOOLEAN]
    BY DEF Cleared
<1> QED
    BY <1>1, <1>2 DEF Fits

\* The last loop (calculator.c): when every bracket is closed, it uses up the operators,
\* and the number it leaves is the only one.
THEOREM OneNumberLeft ==
    ASSUME NEW c, Fits(c), Opened(c.op) = 0
    PROVE  LET d == Finish(c) IN Fits(d) /\ d.op = <<>> /\ Len(d.num) = 1
<1> DEFINE d == Finish(c)
<1>1. Fits(d) /\ Opened(d.op) = 0 /\ d.op = <<>>
    BY UntilFits DEF Finish
<1> HIDE DEF d
<1>2. Len(d.num) = 1
    BY <1>1 DEF Fits
<1> QED
    BY <1>1, <1>2 DEF d

-----------------------------------------------------------------------------
(* the inductive invariant *)

\* What is left of an expression closes the brackets that are open, and no more.
Closes(op, e) ==
    /\ Opened(op) + Depth(e, Len(e)) = 0
    /\ \A k \in 1 .. Len(e) : Opened(op) + Depth(e, k) >= 0

\* The stacks of each calculator are in order and await what is left to read; one
\* process at most is in the calculator of the kernel.
Stacks ==
    /\ prog \in [Procs -> {"shell", "calc", "cal", "info"}]
    /\ stacks = [o \in Procs \cup {KERNEL} |-> stacks[o]]
    /\ \A o \in Procs \cup {KERNEL} : Fits(stacks[o])
    /\ todo \in [Procs -> Seq(STRING)]
    /\ \A p \in Procs : prog[p] \in {"calc", "cal"} => Closes(stacks[Owner(p)].op, todo[p])
    /\ \A p, q \in Procs : prog[p] = "cal" /\ prog[q] = "cal" => p = q
    /\ says \in [Procs -> -128 .. 127 \cup {NONE}]

\* One character of the expression has been read.
LEMMA ClosesTail ==
    ASSUME NEW op, Opened(op) \in Int, NEW e \in Seq(STRING), e # <<>>, Closes(op, e)
    PROVE  /\ Head(e) = ")" => Opened(op) # 0
           /\ \A more : Opened(more) = Opened(op) + (IF Head(e) = "(" THEN 1 ELSE 0)
                                                  - (IF Head(e) = ")" THEN 1 ELSE 0)
                        => Closes(more, Tail(e))
<1> DEFINE a == IF Head(e) = "(" THEN 1 ELSE 0
           b == IF Head(e) = ")" THEN 1 ELSE 0
<1>1. /\ Len(e) \in Nat /\ Len(e) >= 1 /\ Len(Tail(e)) = Len(e) - 1
      /\ Head(e) = e[1] /\ a \in {0, 1} /\ b \in {0, 1}
    OBVIOUS
<1>2. \A ch : \A k \in Nat : Count(e, ch, k) \in Int
    BY CountStep
<1>3. \A k \in 0 .. Len(e) - 1 : Depth(Tail(e), k) = Depth(e, k + 1) - a + b
    <2> SUFFICES ASSUME NEW k \in 0 .. Len(e) - 1
                 PROVE  Depth(Tail(e), k) = Depth(e, k + 1) - a + b
        OBVIOUS
    <2>1. \A ch : Count(Tail(e), ch, k) = Count(e, ch, k + 1) - (IF Head(e) = ch THEN 1 ELSE 0)
        BY CountTail
    <2>2. Count(Tail(e), "(", k) = Count(e, "(", k + 1) - a
        BY <2>1
    <2>3. Count(Tail(e), ")", k) = Count(e, ")", k + 1) - b
        BY <2>1
    <2>4. Count(e, "(", k + 1) \in Int /\ Count(e, ")", k + 1) \in Int
        BY <1>2
    <2> HIDE DEF a, b
    <2> QED
        BY <1>1, <2>2, <2>3, <2>4 DEF Depth
<1>4. \A k \in 1 .. Len(e) : Depth(e, k) \in Int
    BY <1>2 DEF Depth
<1>5. Depth(e, 1) = a - b
    <2>1. \A ch : Count(e, ch, 0 + 1) = Count(e, ch, 0) + (IF e[0 + 1] = ch THEN 1 ELSE 0)
                  /\ Count(e, ch, 0) = 0
        BY CountStep
    <2>2. \A ch : Count(e, ch, 1) = IF Head(e) = ch THEN 1 ELSE 0
        BY <1>1, <2>1
    <2>3. Count(e, "(", 1) = a /\ Count(e, ")", 1) = b
        BY <2>2
    <2> QED
        BY <2>3 DEF Depth
<1>6. Opened(op) + (a - b) >= 0
    BY <1>1, <1>5 DEF Closes
<1>7. Head(e) = ")" => a = 0 /\ b = 1
    OBVIOUS
<1>8. ASSUME NEW more, Opened(more) = Opened(op) + a - b
      PROVE  Closes(more, Tail(e))
    <2> DEFINE n == Len(e)
    <2>1. n \in Nat /\ n >= 1 /\ Len(Tail(e)) = n - 1
        BY <1>1
    <2>2. Opened(op) + Depth(e, n) = 0 /\ \A k \in 1 .. n : Opened(op) + Depth(e, k) >= 0
        BY DEF Closes
    <2>3. \A k \in 0 .. n - 1 : k + 1 \in 1 .. n /\ Depth(e, k + 1) \in Int
                                 /\ Opened(more) + Depth(Tail(e), k) = Opened(op) + Depth(e, k + 1)
        <3> HIDE DEF a, b
        <3> QED
            BY <1>1, <1>3, <1>4, <1>8
    <2>4. n - 1 \in 0 .. n - 1 /\ (n - 1) + 1 = n
        BY <2>1
    <2> HIDE DEF n
    <2>5. Opened(more) + Depth(Tail(e), n - 1) = 0
        BY <2>2, <2>3, <2>4
    <2>6. \A k \in 1 .. n - 1 : Opened(more) + Depth(Tail(e), k) >= 0
        <3>1. \A k \in 1 .. n - 1 : k \in 0 .. n - 1
            BY <2>1
        <3> QED
            BY <2>2, <2>3, <3>1
    <2> QED
        BY <2>1, <2>5, <2>6 DEF Closes
<1> QED
    <2>1. Head(e) = ")" => Opened(op) # 0
        <3> HIDE DEF a, b
        <3> QED
            BY <1>6, <1>7
    <2> QED
        BY <1>8, <2>1

\* Where the program of one process changes and the stacks of nobody in a calculator.
LEMMA StacksKept ==
    ASSUME Stacks, NEW p \in Procs, NEW what \in {"shell", "info"},
           prog' = [prog EXCEPT ![p] = what], prog[p] \notin {"calc", "cal"},
           UNCHANGED <<todo, stacks>>, says' \in [Procs -> -128 .. 127 \cup {NONE}]
    PROVE  Stacks'
<1>1. \A q \in Procs : prog'[q] = IF q = p THEN what ELSE prog[q]
    BY DEF Stacks
<1>2. prog' \in [Procs -> {"shell", "calc", "cal", "info"}]
    BY DEF Stacks
<1>3. \A q \in Procs : prog'[q] \in {"calc", "cal"} => prog'[q] = prog[q]
    BY <1>1
<1>4. \A q \in Procs : prog'[q] \in {"calc", "cal"} => Owner(q)' = Owner(q)
    BY <1>3 DEF Owner
<1> QED
    BY <1>2, <1>3, <1>4 DEF Stacks

\* One process works on its own stacks, or alone on those of the kernel.
LEMMA OwnStacks ==
    ASSUME Stacks, NEW p \in Procs, NEW q \in Procs, q # p,
           prog[p] \in {"calc", "cal"}, prog[q] \in {"calc", "cal"}
    PROVE  Owner(p) # Owner(q)
<1>1. p # KERNEL /\ q # KERNEL
    BY CommandsAssumption DEF KERNEL
<1> QED
    BY <1>1 DEF Owner, Stacks

\* A calculation begins, with empty stacks.
LEMMA BeginsKept ==
    ASSUME Stacks, NEW p \in Procs, prog[p] = "shell", NEW l \in Lines[p],
           NEW what \in {"calc", "cal"}, prog' = [prog EXCEPT ![p] = what],
           what = "cal" => \A q \in Procs \ {p} : prog[q] # "cal",
           IsUser(l, "calc") \/ IsKernel(l, "calc"), todo' = [todo EXCEPT ![p] = Arg(l)],
           stacks' = [stacks EXCEPT ![IF what = "cal" THEN KERNEL ELSE p] = Cleared],
           says' = [says EXCEPT ![p] = NONE]
    PROVE  Stacks'
<1> DEFINE o == IF what = "cal" THEN KERNEL ELSE p
<1>1. Arg(l) \in Seq(STRING) /\ Balanced(Arg(l))
    BY BracketsAssumption, ArgType
<1>2. Fits(Cleared) /\ Opened(Cleared.op) = 0
    BY ClearedFits
<1>3. Closes(Cleared.op, Arg(l))
    <2> DEFINE e == Arg(l)
    <2>1. \A k \in Nat : Depth(e, k) \in Int
        BY CountStep DEF Depth
    <2>2. Len(e) \in Nat /\ \A k \in 1 .. Len(e) : k \in Nat
        BY <1>1
    <2>3. Depth(e, Len(e)) = 0 /\ \A k \in 1 .. Len(e) : Depth(e, k) >= 0
        BY <1>1 DEF Balanced
    <2> HIDE DEF e
    <2> QED
        BY <1>2, <2>1, <2>2, <2>3 DEF Closes, e
<1>4. \A q \in Procs : prog'[q] = IF q = p THEN what ELSE prog[q]
    BY DEF Stacks
<1>5. prog' \in [Procs -> {"shell", "calc", "cal", "info"}] /\ todo' \in [Procs -> Seq(STRING)]
    BY <1>1 DEF Stacks
<1>6. o \in Procs \cup {KERNEL} /\ p # KERNEL /\ KERNEL \notin Procs
    BY CommandsAssumption DEF KERNEL
<1>7. \A r \in Procs \cup {KERNEL} : stacks'[r] = IF r = o THEN Cleared ELSE stacks[r]
    BY <1>6 DEF Stacks
<1>8. Owner(p)' = o
    BY <1>4 DEF Owner
<1>9. ASSUME NEW q \in Procs, prog'[q] \in {"calc", "cal"} PROVE Closes(stacks'[Owner(q)'].op, todo'[q])
    <2>1. CASE q = p
        <3>1. todo'[p] = Arg(l)
            BY DEF Stacks
        <3> HIDE DEF o
        <3> QED
            BY <1>3, <1>6, <1>7, <1>8, <2>1, <3>1
    <2>2. CASE q # p
        <3>1. prog'[q] = prog[q] /\ todo'[q] = todo[q]
            BY <1>4, <2>2 DEF Stacks
        <3>2. Owner(q)' = Owner(q)
            BY <3>1 DEF Owner
        <3>3. Owner(q) # o /\ Owner(q) \in Procs \cup {KERNEL}
            BY <1>6, <2>2 DEF Owner
        <3>4. stacks'[Owner(q)] = stacks[Owner(q)]
            BY <1>7, <3>3
        <3> QED
            BY <1>9, <3>1, <3>2, <3>4 DEF Stacks
    <2> QED
        BY <2>1, <2>2
<1>10. \A r \in Procs \cup {KERNEL} : Fits(stacks'[r])
    BY <1>2, <1>7 DEF Stacks
<1>11. \A q, r \in Procs : prog'[q] = "cal" /\ prog'[r] = "cal" => q = r
    BY <1>4 DEF Stacks
<1>12. stacks' = [r \in Procs \cup {KERNEL} |-> stacks'[r]]
    BY DEF Stacks
<1>13. says' \in [Procs -> -128 .. 127 \cup {NONE}]
    BY DEF Stacks
<1> HIDE DEF o
<1> QED
    BY <1>5, <1>9, <1>10, <1>11, <1>12, <1>13 DEF Stacks

\* A calculation ends: nobody awaits anything of the stacks it leaves.
LEMMA EndsKept ==
    ASSUME Stacks, NEW p \in Procs, prog[p] \in {"calc", "cal"},
           prog' = [prog EXCEPT ![p] = "shell"], todo' \in [Procs -> Seq(STRING)],
           \A q \in Procs \ {p} : todo'[q] = todo[q],
           NEW d, Fits(d), stacks' = [stacks EXCEPT ![Owner(p)] = d],
           says' \in [Procs -> -128 .. 127 \cup {NONE}]
    PROVE  Stacks'
<1>1. \A q \in Procs : prog'[q] = IF q = p THEN "shell" ELSE prog[q]
    BY DEF Stacks
<1>2. prog' \in [Procs -> {"shell", "calc", "cal", "info"}]
    BY DEF Stacks
<1>3. \A r \in Procs \cup {KERNEL} : stacks'[r] = IF r = Owner(p) THEN d ELSE stacks[r]
    BY DEF Stacks
<1>4. \A r \in Procs \cup {KERNEL} : Fits(stacks'[r])
    BY <1>3 DEF Stacks
<1>5. ASSUME NEW q \in Procs, prog'[q] \in {"calc", "cal"} PROVE Closes(stacks'[Owner(q)'].op, todo'[q])
    <2>1. q # p /\ prog'[q] = prog[q] /\ todo'[q] = todo[q]
        BY <1>1, <1>5
    <2>2. Owner(q)' = Owner(q) /\ Owner(q) \in Procs \cup {KERNEL}
        BY <2>1 DEF Owner
    <2>3. Owner(q) # Owner(p)
        BY <1>5, <2>1, OwnStacks
    <2>4. stacks'[Owner(q)] = stacks[Owner(q)]
        BY <1>3, <2>2, <2>3
    <2> QED
        BY <1>5, <2>1, <2>2, <2>4 DEF Stacks
<1>6. \A q, r \in Procs : prog'[q] = "cal" /\ prog'[r] = "cal" => q = r
    BY <1>1 DEF Stacks
<1>7. stacks' = [r \in Procs \cup {KERNEL} |-> stacks'[r]]
    BY DEF Stacks
<1> QED
    BY <1>2, <1>4, <1>5, <1>6, <1>7 DEF Stacks

\* A calculator reads a character.
LEMMA ReadKept == ASSUME Stacks, NEW p \in Procs, ReadOne(p) PROVE Stacks'
<1> DEFINE o == Owner(p)
           c == stacks[o]
           e == todo[p]
           d == Read(c, Head(e))
<1>1. /\ prog[p] \in {"calc", "cal"} /\ e # <<>> /\ UNCHANGED <<prog, says>>
      /\ stacks' = [stacks EXCEPT ![o] = d] /\ todo' = [todo EXCEPT ![p] = Tail(e)]
    BY DEF ReadOne, Calculates
<1>2. o \in Procs \cup {KERNEL} /\ Fits(c) /\ e \in Seq(STRING) /\ Closes(c.op, e)
    BY <1>1 DEF Stacks, Owner
<1>3. Opened(c.op) \in Int
    <2>1. c.op \in Seq({"+", "-", "*", "/", "("}) /\ "+" \in {"+", "-", "*", "/", "("}
        BY <1>2 DEF Fits
    <2>2. Opened(c.op) \in 0 .. Len(c.op)
        BY <2>1, OpenedAppend
    <2> QED
        BY <2>2
<1> HIDE DEF c, e
<1>4. Head(e) = ")" => Opened(c.op) # 0
    BY <1>1, <1>2, <1>3, ClosesTail
<1>5. /\ Fits(d)
      /\ Opened(d.op) = Opened(c.op) + (IF Head(e) = "(" THEN 1 ELSE 0) - (IF Head(e) = ")" THEN 1 ELSE 0)
    BY <1>2, <1>4, ReadFits
<1>6. Closes(d.op, Tail(e)) /\ Tail(e) \in Seq(STRING)
    <2> HIDE DEF d
    <2> QED
        BY <1>1, <1>2, <1>3, <1>5, ClosesTail
<1> HIDE DEF d, o
<1>7. \A r \in Procs \cup {KERNEL} : stacks'[r] = IF r = o THEN d ELSE stacks[r]
    BY <1>1, <1>2 DEF Stacks
<1>8. \A r \in Procs \cup {KERNEL} : Fits(stacks'[r])
    BY <1>5, <1>7 DEF Stacks
<1>9. todo' \in [Procs -> Seq(STRING)] /\ todo'[p] = Tail(e) /\ \A q \in Procs \ {p} : todo'[q] = todo[q]
    BY <1>1, <1>6 DEF Stacks
<1>10. ASSUME NEW q \in Procs, prog'[q] \in {"calc", "cal"} PROVE Closes(stacks'[Owner(q)'].op, todo'[q])
    <2>1. prog'[q] = prog[q] /\ Owner(q)' = Owner(q) /\ Owner(q) \in Procs \cup {KERNEL}
        BY <1>1 DEF Owner
    <2>2. CASE q = p
        BY <1>6, <1>7, <1>9, <2>1, <2>2 DEF o
    <2>3. CASE q # p
        <3>1. Owner(q) # o
            BY <1>1, <1>10, <2>1, <2>3, OwnStacks DEF o
        <3>2. stacks'[Owner(q)] = stacks[Owner(q)]
            BY <1>7, <2>1, <3>1
        <3> QED
            BY <1>9, <1>10, <2>1, <2>3, <3>2 DEF Stacks
    <2> QED
        BY <2>2, <2>3
<1>11. stacks' = [r \in Procs \cup {KERNEL} |-> stacks'[r]]
    BY <1>1 DEF Stacks
<1> QED
    BY <1>1, <1>8, <1>9, <1>10, <1>11 DEF Stacks

\* A calculator has read all of its expression.
LEMMA ResultKept == ASSUME Stacks, NEW p \in Procs, Result(p) PROVE Stacks'
<1> DEFINE o == Owner(p)
           c == stacks[o]
           f == Finish(c)
<1>1. /\ prog[p] \in {"calc", "cal"} /\ todo[p] = <<>> /\ prog' = [prog EXCEPT ![p] = "shell"]
      /\ UNCHANGED todo /\ stacks' = [stacks EXCEPT ![o] = IF o = KERNEL THEN f ELSE Cleared]
      /\ says' = [says EXCEPT ![p] = IF f.fault THEN NONE ELSE Head(f.num)]
    BY DEF Result, Calculates
<1>2. o \in Procs \cup {KERNEL} /\ Fits(c) /\ Closes(c.op, <<>>)
    BY <1>1 DEF Stacks, Owner
<1>3. Opened(c.op) = 0
    <2>1. Depth(<<>>, 0) = 0
        BY CountStep DEF Depth
    <2>2. Opened(c.op) + Depth(<<>>, 0) = 0
        BY <1>2 DEF Closes
    <2>3. Opened(c.op) \in Int
        <3>1. c.op \in Seq({"+", "-", "*", "/", "("}) /\ "+" \in {"+", "-", "*", "/", "("}
            BY <1>2 DEF Fits
        <3>2. Opened(c.op) \in 0 .. Len(c.op)
            BY <3>1, OpenedAppend
        <3> QED
            BY <3>2
    <2> HIDE DEF c
    <2> QED
        BY <2>1, <2>2, <2>3
<1> HIDE DEF c, o
<1>4. Fits(f) /\ f.op = <<>> /\ Len(f.num) = 1
    BY <1>2, <1>3, OneNumberLeft
<1> HIDE DEF f
<1>5. Head(f.num) \in -128 .. 127
    <2> DEFINE Chars == -128 .. 127
    <2>1. f.num \in Seq(Chars)
        BY <1>4 DEF Fits
    <2>2. 1 \in 1 .. Len(f.num)
        BY <1>4
    <2> HIDE DEF Chars
    <2>3. f.num[1] \in Chars /\ Head(f.num) = f.num[1]
        BY <2>1, <2>2, ElementOfSeq
    <2> QED
        BY <2>3 DEF Chars
<1>6. says' \in [Procs -> -128 .. 127 \cup {NONE}]
    BY <1>1, <1>5 DEF Stacks
<1>7. Fits(IF o = KERNEL THEN f ELSE Cleared)
    BY <1>4, ClearedFits
<1>8. todo' \in [Procs -> Seq(STRING)]
    BY <1>1 DEF Stacks
<1> QED
    BY <1>1, <1>6, <1>7, <1>8, EndsKept DEF o

LEMMA StacksInvariance == ASSUME ~Overlap, Stacks, [Next]_vars PROVE Stacks'
<1>0. \A p \in Procs : says \in [Procs -> -128 .. 127 \cup {NONE}]
                       /\ [says EXCEPT ![p] = NONE] \in [Procs -> -128 .. 127 \cup {NONE}]
    BY DEF Stacks
<1>1. ASSUME NEW p \in Procs, UserCalc(p) PROVE Stacks'
    <2>1. PICK l \in Lines[p] : Given(p, l) /\ IsUser(l, "calc") /\ todo' = [todo EXCEPT ![p] = Arg(l)]
        BY <1>1 DEF UserCalc
    <2>2. prog' = [prog EXCEPT ![p] = "calc"] /\ stacks' = [stacks EXCEPT ![p] = Cleared]
        BY <1>1 DEF UserCalc
    <2> QED
        BY <2>1, <2>2, BeginsKept DEF Given
<1>2. ASSUME NEW p \in Procs, KernelCalc(p) PROVE Stacks'
    <2>1. PICK l \in Lines[p] : Given(p, l) /\ IsKernel(l, "calc") /\ todo' = [todo EXCEPT ![p] = Arg(l)]
        BY <1>2 DEF KernelCalc
    <2>2. prog' = [prog EXCEPT ![p] = "cal"] /\ stacks' = [stacks EXCEPT ![KERNEL] = Cleared]
        BY <1>2 DEF KernelCalc
    <2>3. \A q \in Procs \ {p} : prog[q] # "cal"
        BY <1>2 DEF KernelCalc, Alone
    <2> QED
        BY <2>1, <2>2, <2>3, BeginsKept DEF Given
<1>3. ASSUME NEW p \in Procs, ReadOne(p) \/ Result(p) PROVE Stacks'
    BY <1>3, ReadKept, ResultKept
<1>4. ASSUME NEW p \in Procs, Divided(p) PROVE Stacks'
    <2>1. /\ prog[p] \in {"calc", "cal"} /\ prog' = [prog EXCEPT ![p] = "shell"]
          /\ todo' = [todo EXCEPT ![p] = <<>>] /\ stacks' = [stacks EXCEPT ![Owner(p)] = Cleared]
          /\ UNCHANGED says
        BY <1>4 DEF Divided
    <2>2. todo' \in [Procs -> Seq(STRING)] /\ \A q \in Procs \ {p} : todo'[q] = todo[q]
        BY <2>1 DEF Stacks
    <2> QED
        BY <1>0, <2>1, <2>2, ClearedFits, EndsKept
<1>5. ASSUME NEW p \in Procs, Prints(p) \/ Color(p) \/ Serial(p) PROVE Stacks'
    <2>1. prog[p] = "shell" /\ UNCHANGED <<prog, todo, stacks>> /\ says' = [says EXCEPT ![p] = NONE]
        BY <1>5 DEF Prints, Color, Serial, Given
    <2>2. prog' = [prog EXCEPT ![p] = "shell"]
        BY <2>1 DEF Stacks
    <2> QED
        BY <1>0, <2>1, <2>2, StacksKept
<1>6. ASSUME NEW p \in Procs, InfoBegin(p) PROVE Stacks'
    <2>1. /\ prog[p] = "shell" /\ prog' = [prog EXCEPT ![p] = "info"] /\ UNCHANGED <<todo, stacks>>
          /\ says' = [says EXCEPT ![p] = NONE]
        BY <1>6 DEF InfoBegin, Given
    <2> QED
        BY <1>0, <2>1, StacksKept
<1>7. ASSUME NEW p \in Procs, InfoEnd(p) PROVE Stacks'
    <2>1. prog[p] = "info" /\ prog' = [prog EXCEPT ![p] = "shell"] /\ UNCHANGED <<todo, stacks, says>>
        BY <1>7 DEF InfoEnd
    <2> QED
        BY <1>0, <2>1, StacksKept
<1>8. ASSUME NEW p \in Procs, Killed(p) PROVE Stacks'
    <2>1. /\ prog' = [prog EXCEPT ![p] = "shell"] /\ UNCHANGED says
          /\ todo' = [todo EXCEPT ![p] = <<>>]
          /\ stacks' = IF prog[p] = "calc" THEN [stacks EXCEPT ![p] = Cleared] ELSE stacks
          /\ prog[p] \in {"info", "calc", "cal"}
        BY <1>8 DEF Killed, Calculates
    <2>2. todo' \in [Procs -> Seq(STRING)] /\ \A q \in Procs \ {p} : todo'[q] = todo[q]
        BY <2>1 DEF Stacks
    <2>3. CASE prog[p] = "info"
        <3>1. \A q \in Procs : prog'[q] = IF q = p THEN "shell" ELSE prog[q]
            BY <2>1 DEF Stacks
        <3>2. \A q \in Procs : prog'[q] \in {"calc", "cal"} =>
                    Owner(q)' = Owner(q) /\ prog[q] = prog'[q] /\ todo'[q] = todo[q]
            BY <2>2, <3>1 DEF Owner
        <3>3. stacks' = stacks
            BY <2>1, <2>3
        <3> QED
            BY <1>0, <2>1, <2>2, <3>1, <3>2, <3>3 DEF Stacks
    <2>4. CASE prog[p] = "calc"
        <3>1. Owner(p) = p /\ stacks' = [stacks EXCEPT ![Owner(p)] = Cleared]
            BY <2>1, <2>4 DEF Owner
        <3> QED
            BY <1>0, <2>1, <2>2, <2>4, <3>1, ClearedFits, EndsKept
    <2>5. CASE prog[p] = "cal"
        <3>1. Owner(p) = KERNEL /\ Fits(stacks[KERNEL])
            BY <2>5 DEF Owner, Stacks
        <3>2. stacks' = [stacks EXCEPT ![Owner(p)] = stacks[KERNEL]]
            BY <2>1, <2>5, <3>1 DEF Stacks
        <3> QED
            BY <1>0, <2>1, <2>2, <2>5, <3>1, <3>2, EndsKept
    <2> QED
        BY <2>1, <2>3, <2>4, <2>5
<1>9. CASE Clear
    BY <1>9 DEF Clear, Stacks, Owner
<1>10. CASE UNCHANGED vars
    BY <1>10 DEF vars, Stacks, Owner
<1> QED
    BY <1>1, <1>2, <1>3, <1>4, <1>5, <1>6, <1>7, <1>8, <1>9, <1>10 DEF Next, Calculation

\* The colours are of the palette, and the port is set to something.
Ports ==
    /\ attrib \in 0 .. 15 /\ chosen \in 0 .. 15 /\ att \in [Procs -> 0 .. 15] /\ killed \in BOOLEAN
    /\ uart \in [irqs : BOOLEAN, loop : BOOLEAN]

LEMMA PortsKept == ASSUME Ports, [Next]_vars PROVE Ports'
<1>1. ASSUME NEW p \in Procs, Prints(p) \/ Calculation(p) PROVE Ports'
    BY <1>1 DEF Prints, Calculation, UserCalc, KernelCalc, ReadOne, Result, Divided, Ports
<1>2. ASSUME NEW p \in Procs, Color(p) PROVE Ports'
    <2>1. PICK l \in Lines[p] :
              /\ attrib' = IF Accepts(l) THEN ColorOf(Arg(l)) ELSE attrib
              /\ chosen' = IF Accepts(l) THEN ColorOf(Arg(l)) ELSE chosen
        BY <1>2 DEF Color
    <2>2. Accepts(l) => ColorOf(Arg(l)) \in 0 .. 15
        BY DEF Accepts, IsColor, ColorOf
    <2>3. UNCHANGED <<att, uart>>
        BY <1>2 DEF Color
    <2>4. killed' \in BOOLEAN
        BY <1>2 DEF Color, Ports
    <2> QED
        BY <2>1, <2>2, <2>3, <2>4 DEF Ports
<1>3. ASSUME NEW p \in Procs, InfoBegin(p) \/ InfoEnd(p) PROVE Ports'
    BY <1>3 DEF InfoBegin, InfoEnd, Ports, INFO_COLOR, CLEAR_COLOR
<1>4. ASSUME NEW p \in Procs, Serial(p) PROVE Ports'
    <2>1. PICK l \in Lines[p] : uart' = Uart(SeparateArgs(Arg(l)))
        BY <1>4 DEF Serial
    <2>2. \A words : Uart(words) \in [irqs : BOOLEAN, loop : BOOLEAN]
        <3> SUFFICES ASSUME NEW words PROVE Uart(words) \in [irqs : BOOLEAN, loop : BOOLEAN]
            OBVIOUS
        <3>1. /\ SerialInit \in [irqs : BOOLEAN, loop : BOOLEAN]
              /\ SerialOff \in [irqs : BOOLEAN, loop : BOOLEAN]
              /\ \A on \in BOOLEAN : Loopback(on) \in [irqs : BOOLEAN, loop : BOOLEAN]
            BY DEF SerialInit, SerialOff, Loopback, Ports
        <3>2. (Len(words) < 2 \/ Head(words[2]) # "0") \in BOOLEAN
            OBVIOUS
        <3> QED
            BY <3>1, <3>2 DEF Uart, Ports
    <2>3. UNCHANGED <<attrib, att, chosen, killed>>
        BY <1>4 DEF Serial
    <2> QED
        BY <2>1, <2>2, <2>3 DEF Ports
<1>5. ASSUME NEW p \in Procs, Killed(p) PROVE Ports'
    <2>1. killed' \in BOOLEAN /\ UNCHANGED <<attrib, chosen, uart>>
        BY <1>5 DEF Killed, Ports
    <2>2. att' \in [Procs -> 0 .. 15]
        BY <1>5 DEF Killed, Ports, CLEAR_COLOR
    <2> QED
        BY <2>1, <2>2 DEF Ports
<1>6. CASE Clear
    <2>1. killed' \in BOOLEAN
        BY <1>6 DEF Clear
    <2>2. /\ attrib' \in 0 .. 15 /\ chosen' \in 0 .. 15 /\ att' \in [Procs -> 0 .. 15]
          /\ uart' \in [irqs : BOOLEAN, loop : BOOLEAN]
        BY <1>6 DEF Clear, Ports, CLEAR_COLOR
    <2> QED
        BY <2>1, <2>2 DEF Ports
<1>7. CASE UNCHANGED vars
    BY <1>7 DEF vars, Ports
<1> QED
    BY <1>1, <1>2, <1>3, <1>4, <1>5, <1>6, <1>7 DEF Next

\* The inductive invariant of the calculators: for arguments that fit execute's array, and
\* if one terminal at a time uses the kernel's calculator, what is left of each expression
\* closes the brackets that are open on the stacks it works on, and those hold one number
\* more than operators, however often terminals take turns and whatever Ctrl-C kills.
THEOREM StacksCorrect == ASSUME ~Overlap PROVE Spec => []Stacks
<1>1. Init => Stacks
    <2>1. Fits(Cleared)
        BY ClearedFits
    <2> QED
        BY <2>1 DEF Init, Stacks
<1>2. Stacks /\ [Next]_vars => Stacks'
    BY StacksInvariance
<1> QED
    BY <1>1, <1>2, PTL DEF Spec

\* Under the same conditions, and for expressions with balanced brackets, the calculators
\* never take a number from an empty stack or an operator from nothing, and what they keep
\* and print are chars; colours stay colours.
THEOREM TypeCorrect == ASSUME ~Overlap PROVE Spec => []TypeOK
<1>1. Init => Ports
    <2>1. Init => killed \in BOOLEAN
        BY DEF Init
    <2>2. Init => /\ attrib \in 0 .. 15 /\ chosen \in 0 .. 15 /\ att \in [Procs -> 0 .. 15]
                  /\ uart \in [irqs : BOOLEAN, loop : BOOLEAN]
        BY DEF Init, CLEAR_COLOR
    <2> QED
        BY <2>1, <2>2 DEF Ports
<1>2. Ports /\ [Next]_vars => Ports'
    BY PortsKept
<1>3. Stacks /\ Ports => TypeOK
    <2> SUFFICES ASSUME Stacks, Ports PROVE TypeOK
        OBVIOUS
    <2>1. ASSUME NEW o \in Procs \cup {KERNEL}
          PROVE  stacks[o].num # <<>> /\ \A i \in DOMAIN stacks[o].num : stacks[o].num[i] \in -128 .. 127
        <3> DEFINE c == stacks[o]
                   Chars == -128 .. 127
        <3>1. Fits(c)
            BY DEF Stacks
        <3> HIDE DEF c
        <3>2. c.num \in Seq(Chars) /\ DOMAIN c.num = 1 .. Len(c.num)
            BY <3>1 DEF Fits
        <3>3. Len(c.num) >= 1
            <4>1. c.op \in Seq({"+", "-", "*", "/", "("}) /\ "+" \in {"+", "-", "*", "/", "("}
                BY <3>1 DEF Fits
            <4>2. Opened(c.op) \in 0 .. Len(c.op) /\ Len(c.op) \in Nat
                BY <4>1, OpenedAppend
            <4> QED
                BY <3>1, <4>2 DEF Fits
        <3> HIDE DEF Chars
        <3>4. c.num # <<>> /\ \A i \in DOMAIN c.num : c.num[i] \in Chars
            BY <3>2, <3>3, ElementOfSeq
        <3> QED
            BY <3>4 DEF c, Chars
    <2> QED
        BY <2>1 DEF Stacks, Ports, TypeOK
<1> QED
    BY <1>1, <1>2, <1>3, StacksCorrect, PTL DEF Spec

-----------------------------------------------------------------------------
(* the value of an expression *)

Values == -128 .. 127 \cup {NONE}

LEMMA CombineType ==
    ASSUME NEW o \in {"+", "-", "*", "/"}, NEW a \in Values, NEW b \in Values
    PROVE  Combine(o, a, b) \in Values
<1>1. a # NONE /\ b # NONE => a \in Int /\ b \in Int
    BY DEF Values
<1> QED
    BY <1>1, ApplyType DEF Combine, Values

LEMMA ShiftType ==
    ASSUME NEW a \in Values, NEW ch, IsDigit(ch)
    PROVE  Shift(a, ch) \in Values
<1>1. CASE a # NONE
    <2>1. a \in Int /\ DigitOf(ch) \in Int
        BY <1>1, Digits DEF Values
    <2>2. a * 10 + DigitOf(ch) \in Int
        BY <2>1
    <2> QED
        BY <1>1, <2>2, ByteType DEF Shift, Values
<1> QED
    BY <1>1 DEF Shift, Values

\* A set of places has a last one.
LEMMA MaxOf ==
    ASSUME NEW n \in Nat, NEW S \in SUBSET (1 .. n), S # {}
    PROVE  Max(S) \in S /\ \A k \in S : k <= Max(S)
<1> DEFINE T == {n - k : k \in S}
<1>0. \A k \in S : k \in 1 .. n /\ n - k \in Nat
    OBVIOUS
<1>1. T \in SUBSET Nat /\ T # {}
    BY <1>0
<1>2. PICK m \in T : \A t \in T : m <= t
    <2> HIDE DEF T
    <2> QED
        BY <1>1, LeastNat
<1>3. PICK k \in S : m = n - k
    OBVIOUS
<1>4. \A j \in S : j <= k
    <2> SUFFICES ASSUME NEW j \in S PROVE j <= k
        OBVIOUS
    <2>1. n - k <= n - j
        BY <1>2, <1>3
    <2>2. j \in Nat /\ k \in Nat
        OBVIOUS
    <2> HIDE DEF T
    <2> QED
        BY <2>1, <2>2
<1>5. \E x \in S : \A y \in S : x >= y
    BY <1>3, <1>4
<1>6. Max(S) \in S /\ \A y \in S : Max(S) >= y
    BY <1>5 DEF Max
<1> QED
    BY <1>6

\* The parts of an expression are sequences of characters.
LEMMA PartsType ==
    ASSUME NEW e \in Seq(STRING)
    PROVE  /\ \A k \in 1 .. Len(e) : /\ Left(e, k) \in Seq(STRING) /\ Len(Left(e, k)) = k - 1
                                     /\ \A j \in 1 .. k - 1 : Left(e, k)[j] = e[j]
                                     /\ Right(e, k) \in Seq(STRING) /\ Len(Right(e, k)) = Len(e) - k
                                     /\ \A j \in 1 .. Len(e) - k : Right(e, k)[j] = e[k + j]
           /\ Len(e) > 2 => /\ Inner(e) \in Seq(STRING) /\ Len(Inner(e)) = Len(e) - 2
                            /\ \A j \in 1 .. Len(e) - 2 : Inner(e)[j] = e[j + 1]
           /\ e # <<>> => /\ Front(e) \in Seq(STRING) /\ Len(Front(e)) = Len(e) - 1
                          /\ \A j \in 1 .. Len(e) - 1 : Front(e)[j] = e[j]
<1> DEFINE n == Len(e)
<1>1. n \in Nat /\ \A j \in 1 .. n : e[j] \in STRING
    OBVIOUS
<1>2. ASSUME NEW a \in Nat \ {0}, NEW b \in Nat, b <= n
      PROVE  /\ SubSeq(e, a, b) \in Seq(STRING)
             /\ Len(SubSeq(e, a, b)) = IF a <= b THEN b - a + 1 ELSE 0
             /\ \A j \in 1 .. b - a + 1 : SubSeq(e, a, b)[j] = e[a + j - 1]
    <2>1. \A j \in a .. b : e[j] \in STRING
        BY <1>1, <1>2
    <2> QED
        BY <2>1, SubSeqProperties
<1> HIDE DEF n
<1>3. ASSUME NEW k \in 1 .. n
      PROVE  /\ Left(e, k) \in Seq(STRING) /\ Len(Left(e, k)) = k - 1
             /\ \A j \in 1 .. k - 1 : Left(e, k)[j] = e[j]
             /\ Right(e, k) \in Seq(STRING) /\ Len(Right(e, k)) = n - k
             /\ \A j \in 1 .. n - k : Right(e, k)[j] = e[k + j]
    <2>1. /\ Left(e, k) \in Seq(STRING) /\ Len(Left(e, k)) = IF 1 <= k - 1 THEN (k - 1) - 1 + 1 ELSE 0
          /\ \A j \in 1 .. (k - 1) - 1 + 1 : Left(e, k)[j] = e[1 + j - 1]
        BY <1>1, <1>2 DEF Left
    <2>2. /\ Right(e, k) \in Seq(STRING) /\ Len(Right(e, k)) = IF k + 1 <= n THEN n - (k + 1) + 1 ELSE 0
          /\ \A j \in 1 .. n - (k + 1) + 1 : Right(e, k)[j] = e[(k + 1) + j - 1]
        BY <1>1, <1>2 DEF Right, n
    <2>3. \A j \in 1 .. k - 1 : j \in 1 .. (k - 1) - 1 + 1 /\ 1 + j - 1 = j
        OBVIOUS
    <2>4. \A j \in 1 .. n - k : j \in 1 .. n - (k + 1) + 1 /\ (k + 1) + j - 1 = k + j
        BY <1>1
    <2>5. \A j \in 1 .. n - k : Right(e, k)[j] = e[k + j]
        BY <2>2, <2>4
    <2>6. \A j \in 1 .. k - 1 : Left(e, k)[j] = e[j]
        BY <2>1, <2>3
    <2>7. Len(Left(e, k)) = k - 1 /\ Len(Right(e, k)) = n - k
        BY <1>1, <2>1, <2>2
    <2> QED
        BY <2>1, <2>2, <2>5, <2>6, <2>7
<1>4. ASSUME n > 2
      PROVE  /\ Inner(e) \in Seq(STRING) /\ Len(Inner(e)) = n - 2
             /\ \A j \in 1 .. n - 2 : Inner(e)[j] = e[j + 1]
    <2>1. /\ Inner(e) \in Seq(STRING) /\ Len(Inner(e)) = IF 2 <= n - 1 THEN (n - 1) - 2 + 1 ELSE 0
          /\ \A j \in 1 .. (n - 1) - 2 + 1 : Inner(e)[j] = e[2 + j - 1]
        <3>1. n - 1 \in Nat /\ n - 1 <= n
            BY <1>1, <1>4
        <3> QED
            BY <1>2, <3>1 DEF Inner, n
    <2>2. \A j \in 1 .. n - 2 : j \in 1 .. (n - 1) - 2 + 1 /\ 2 + j - 1 = j + 1
        BY <1>1
    <2>3. \A j \in 1 .. n - 2 : Inner(e)[j] = e[j + 1]
        BY <2>1, <2>2
    <2> QED
        BY <1>1, <1>4, <2>1, <2>3
<1>5. ASSUME e # <<>>
      PROVE  /\ Front(e) \in Seq(STRING) /\ Len(Front(e)) = n - 1
             /\ \A j \in 1 .. n - 1 : Front(e)[j] = e[j]
    <2>1. n \in 1 .. n
        BY <1>1, <1>5 DEF n
    <2>2. Front(e) = Left(e, n)
        BY DEF Front, Left, n
    <2> QED
        BY <1>3, <2>1, <2>2
<1> QED
    BY <1>3, <1>4, <1>5 DEF n

\* The operator at which an expression is split is one of those in no brackets.
LEMMA SplitAt ==
    ASSUME NEW e \in Seq(STRING), NEW ops, Outer(e, ops) # {}
    PROVE  LET k == Max(Outer(e, ops))
           IN  /\ k \in 1 .. Len(e) /\ e[k] \in ops /\ Depth(e, k) = 0
               /\ \A j \in k + 1 .. Len(e) : e[j] \in ops => Depth(e, j) # 0
<1>1. Len(e) \in Nat /\ DOMAIN e = 1 .. Len(e) /\ Outer(e, ops) \in SUBSET (1 .. Len(e))
    BY DEF Outer
<1> DEFINE S == Outer(e, ops)
           k == Max(S)
<1>2. k \in S /\ \A j \in S : j <= k
    <2> HIDE DEF S
    <2> QED
        BY <1>1, MaxOf DEF S
<1>3. k \in 1 .. Len(e) /\ e[k] \in ops /\ Depth(e, k) = 0
    <2> HIDE DEF k
    <2> QED
        BY <1>1, <1>2 DEF Outer
<1>4. ASSUME NEW j \in k + 1 .. Len(e), e[j] \in ops PROVE Depth(e, j) # 0
    <2> HIDE DEF k
    <2>1. j \in 1 .. Len(e) /\ ~(j <= k)
        BY <1>1, <1>3
    <2>2. j \notin Outer(e, ops)
        BY <1>2, <2>1
    <2> QED
        BY <1>1, <1>4, <2>1, <2>2 DEF Outer
<1> QED
    BY <1>3, <1>4

LEMMA ValueFromType ==
    ASSUME NEW v \in [Seq(STRING) -> Values], NEW e \in Seq(STRING)
    PROVE  ValueFrom(v, e) \in Values
<1>1. 0 \in Values /\ NONE \in Values
    BY DEF Values
<1>2. CASE IsNumber(e)
    <2>1. e # <<>> /\ Front(e) \in Seq(STRING)
        BY <1>2, PartsType DEF IsNumber
    <2>2. IsDigit(Last(e))
        <3>1. Len(e) \in DOMAIN e
            BY <2>1
        <3> QED
            BY <1>2, <3>1 DEF IsNumber, Last
    <2>3. ValueFrom(v, e) = Shift(IF Len(e) = 1 THEN 0 ELSE v[Front(e)], Last(e))
        BY <1>2 DEF ValueFrom
    <2> QED
        BY <1>1, <2>1, <2>2, <2>3, ShiftType
<1>3. CASE ~IsNumber(e) /\ Sums(e) # {}
    <2> DEFINE k == Max(Sums(e))
    <2>1. k \in 1 .. Len(e) /\ e[k] \in {"+", "-"}
        BY <1>3, SplitAt DEF Sums
    <2>2. ValueFrom(v, e) = Combine(e[k], IF k = 1 THEN 0 ELSE v[Left(e, k)], v[Right(e, k)])
        BY <1>3 DEF ValueFrom
    <2> HIDE DEF k
    <2>3. Left(e, k) \in Seq(STRING) /\ Right(e, k) \in Seq(STRING)
        BY <2>1, PartsType
    <2>4. v[Left(e, k)] \in Values /\ v[Right(e, k)] \in Values
        BY <2>3
    <2> QED
        BY <1>1, <2>1, <2>2, <2>4, CombineType
<1>4. CASE ~IsNumber(e) /\ Sums(e) = {} /\ Products(e) # {}
    <2> DEFINE k == Max(Products(e))
    <2>1. k \in 1 .. Len(e) /\ e[k] \in {"*", "/"}
        BY <1>4, SplitAt DEF Products
    <2>2. ValueFrom(v, e) = Combine(e[k], v[Left(e, k)], v[Right(e, k)])
        BY <1>4 DEF ValueFrom
    <2> HIDE DEF k
    <2>3. Left(e, k) \in Seq(STRING) /\ Right(e, k) \in Seq(STRING)
        BY <2>1, PartsType
    <2>4. v[Left(e, k)] \in Values /\ v[Right(e, k)] \in Values
        BY <2>3
    <2> QED
        BY <2>1, <2>2, <2>4, CombineType
<1>5. CASE ~IsNumber(e) /\ Sums(e) = {} /\ Products(e) = {}
    <2>1. ValueFrom(v, e) = IF Bracketed(e) THEN v[Inner(e)] ELSE NONE
        BY <1>5 DEF ValueFrom
    <2>2. Bracketed(e) => Inner(e) \in Seq(STRING)
        BY PartsType DEF Bracketed
    <2> QED
        BY <1>1, <2>1, <2>2
<1> QED
    BY <1>2, <1>3, <1>4, <1>5

\* The values, by recursion.
LEMMA ValueUnfold ==
    /\ ValueOf[0] = [e \in Seq(STRING) |-> NONE]
    /\ \A n \in Nat : /\ ValueOf[n] \in [Seq(STRING) -> Values]
                      /\ ValueOf[n + 1] = [e \in Seq(STRING) |-> ValueFrom(ValueOf[n], e)]
<1> DEFINE C == [Seq(STRING) -> Values]
           a == [e \in Seq(STRING) |-> NONE]
           Step(v) == [e \in Seq(STRING) |-> ValueFrom(v, e)]
           F == [x \in Nat \X C |-> Step(x[2])]
           Def(f) == [n \in Nat |-> [e \in Seq(STRING) |-> IF n = 0 THEN NONE ELSE ValueFrom(f[n - 1], e)]]
           p == CHOOSE f : f = Def(f)
<1>1. a \in C /\ \A v \in C : Step(v) \in C
    BY ValueFromType DEF Values
<1>2. F \in [Nat \X C -> C]
    <2> HIDE DEF C, Step
    <2> QED
        BY <1>1
<1>3. \E g : g \in Recursive(C, a, F)
    <2> HIDE DEF F, C, a
    <2> QED
        BY <1>1, <1>2, RecursionExists
<1>4. PICK g \in [Nat -> C] : g[0] = a /\ \A n \in Nat : g[n + 1] = F[<<n, g[n]>>]
    <2> HIDE DEF F, C, a
    <2> QED
        BY <1>3 DEF Recursive
<1>5. \A n \in Nat : g[n] \in C /\ g[n + 1] = Step(g[n])
    <2> SUFFICES ASSUME NEW n \in Nat PROVE g[n] \in C /\ g[n + 1] = Step(g[n])
        OBVIOUS
    <2> HIDE DEF C, Step
    <2> QED
        BY <1>4
<1>6. g = Def(g)
    <2>1. ASSUME NEW n \in Nat PROVE g[n] = Def(g)[n]
        <3>1. CASE n = 0
            BY <1>4, <3>1
        <3>2. CASE n # 0
            <4>1. n - 1 \in Nat /\ (n - 1) + 1 = n
                BY <3>2
            <4>2. g[n] = Step(g[n - 1])
                <5> HIDE DEF Step
                <5> QED
                    BY <1>5, <4>1
            <4>3. Def(g)[n] = Step(g[n - 1])
                BY <3>2
            <4> QED
                BY <4>2, <4>3
        <3> QED
            BY <3>1, <3>2
    <2> HIDE DEF C
    <2> QED
        BY <1>4, <2>1
<1>7. p = Def(p)
    <2> HIDE DEF Def
    <2> QED
        BY <1>6
<1>8. ValueOf = p
    BY DEF ValueOf
<1> HIDE DEF p
<1>9. ValueOf[0] = a
    BY <1>7, <1>8
<1>10. ASSUME NEW n \in Nat PROVE ValueOf[n + 1] = Step(ValueOf[n])
    <2>1. n + 1 \in Nat /\ n + 1 # 0 /\ (n + 1) - 1 = n
        OBVIOUS
    <2>2. Def(p)[n + 1] = Step(p[n])
        BY <2>1
    <2> HIDE DEF Def, Step
    <2> QED
        BY <1>7, <1>8, <2>2
<1> DEFINE T == {n \in Nat : ValueOf[n] \in C}
<1>11. Nat \subseteq T
    <2>1. 0 \in T
        BY <1>1, <1>9
    <2>2. \A n \in Nat : n \in T => n + 1 \in T
        <3> HIDE DEF C, Step
        <3> QED
            BY <1>1, <1>10
    <2> HIDE DEF T
    <2> QED
        BY <2>1, <2>2, SetInduction
<1> QED
    <2>1. \A n \in Nat : ValueOf[n] \in C
        <3> HIDE DEF C
        <3> QED
            BY <1>11
    <2> QED
        BY <1>9, <1>10, <2>1

LEMMA DepthType == ASSUME NEW e, NEW j \in Nat PROVE Depth(e, j) \in Int
<1>1. \A ch : Count(e, ch, j) \in Int
    BY CountStep
<1>2. Count(e, "(", j) \in Int /\ Count(e, ")", j) \in Int
    BY <1>1
<1> QED
    BY <1>2 DEF Depth

\* The brackets in which a character of a part is: as in the whole.
LEMMA DepthOfParts ==
    ASSUME NEW e \in Seq(STRING), NEW k \in 1 .. Len(e)
    PROVE  /\ \A j \in 1 .. k - 1 : Depth(Left(e, k), j) = Depth(e, j)
           /\ \A j \in 1 .. Len(e) - k : Depth(Right(e, k), j) = Depth(e, k + j) - Depth(e, k)
<1> DEFINE r == Right(e, k)
           N == Len(e) - k
<1>1. N \in Nat /\ k \in Nat /\ \A j \in 1 .. N : r[j] = e[k + j]
    <2>1. Len(e) \in Nat
        OBVIOUS
    <2> QED
        BY <2>1, PartsType
<1>2. ASSUME NEW j \in 1 .. k - 1 PROVE Depth(Left(e, k), j) = Depth(e, j)
    <2>1. \A i \in 1 .. k - 1 : Left(e, k)[i] = e[i]
        BY PartsType
    <2>2. j \in Nat /\ \A i \in 1 .. j : i \in 1 .. k - 1
        OBVIOUS
    <2>3. \A i \in 1 .. j : Left(e, k)[i] = e[i]
        BY <2>1, <2>2
    <2>4. \A ch : Count(Left(e, k), ch, j) = Count(e, ch, j)
        BY <2>2, <2>3, CountSame
    <2> QED
        BY <2>4 DEF Depth
<1> HIDE DEF r, N
<1>3. ASSUME NEW ch
      PROVE  \A j \in 0 .. N : Count(r, ch, j) = Count(e, ch, k + j) - Count(e, ch, k)
    <2> DEFINE T == {j \in 0 .. N : Count(r, ch, j) = Count(e, ch, k + j) - Count(e, ch, k)}
    <2>1. 0 \in T
        <3>1. Count(r, ch, 0) = 0 /\ Count(e, ch, k) \in Int /\ k + 0 = k
            BY <1>1, CountStep
        <3> QED
            BY <1>1, <3>1
    <2>2. \A j \in 0 .. N - 1 : j \in T => j + 1 \in T
        <3> SUFFICES ASSUME NEW j \in 0 .. N - 1, j \in T PROVE j + 1 \in T
            OBVIOUS
        <3>1. j \in Nat /\ k + j \in Nat /\ j + 1 \in 1 .. N /\ j + 1 \in 0 .. N /\ k + (j + 1) = (k + j) + 1
            BY <1>1
        <3>2. Count(r, ch, j + 1) = Count(r, ch, j) + (IF r[j + 1] = ch THEN 1 ELSE 0)
            BY <3>1, CountStep
        <3>3. Count(e, ch, (k + j) + 1) = Count(e, ch, k + j) + (IF e[(k + j) + 1] = ch THEN 1 ELSE 0)
            <4> DEFINE i == k + j
            <4>1. i \in Nat
                BY <3>1
            <4> HIDE DEF i
            <4>2. Count(e, ch, i + 1) = Count(e, ch, i) + (IF e[i + 1] = ch THEN 1 ELSE 0)
                BY <4>1, CountStep
            <4> QED
                BY <4>2 DEF i
        <3>4. r[j + 1] = e[(k + j) + 1]
            BY <1>1, <3>1
        <3>5. Count(e, ch, k + j) \in Int /\ Count(e, ch, k) \in Int
            BY <1>1, <3>1, CountStep
        <3> QED
            BY <3>1, <3>2, <3>3, <3>4, <3>5
    <2>3. 0 .. N \subseteq T
        <3> HIDE DEF T
        <3> QED
            BY <1>1, <2>1, <2>2, BoundedInduction
    <2> QED
        BY <2>3
<1>4. ASSUME NEW j \in 1 .. N PROVE Depth(r, j) = Depth(e, k + j) - Depth(e, k)
    <2>1. j \in 0 .. N /\ k + j \in Nat
        BY <1>1
    <2>2. Count(r, "(", j) = Count(e, "(", k + j) - Count(e, "(", k)
        BY <1>3, <2>1
    <2>3. Count(r, ")", j) = Count(e, ")", k + j) - Count(e, ")", k)
        BY <1>3, <2>1
    <2>4. \A ch : Count(e, ch, k + j) \in Int /\ Count(e, ch, k) \in Int
        BY <1>1, <2>1, CountStep
    <2> QED
        BY <2>2, <2>3, <2>4 DEF Depth
<1> QED
    BY <1>2, <1>4 DEF r, N

\* What is left of the last sum or product: no other one that binds less.
LEMMA RightOfLast ==
    ASSUME NEW e \in Seq(STRING), NEW ops, Outer(e, ops) # {}
    PROVE  Outer(Right(e, Max(Outer(e, ops))), ops) = {}
<1> DEFINE k == Max(Outer(e, ops))
           r == Right(e, k)
<1>1. /\ k \in 1 .. Len(e) /\ Depth(e, k) = 0
      /\ \A j \in k + 1 .. Len(e) : e[j] \in ops => Depth(e, j) # 0
    BY SplitAt
<1> HIDE DEF k
<1>2. r \in Seq(STRING) /\ Len(r) = Len(e) - k /\ \A j \in 1 .. Len(e) - k : r[j] = e[k + j]
    BY <1>1, PartsType
<1>3. \A j \in 1 .. Len(e) - k : Depth(r, j) = Depth(e, k + j) - Depth(e, k)
    BY <1>1, DepthOfParts
<1>4. Len(e) \in Nat /\ k \in Nat /\ \A j \in Nat : Depth(e, j) \in Int
    BY <1>1, DepthType
<1> HIDE DEF r
<1>5. ASSUME NEW j \in 1 .. Len(e) - k, r[j] \in ops, Depth(r, j) = 0 PROVE FALSE
    <2>1. k + j \in k + 1 .. Len(e) /\ k + j \in Nat
        BY <1>4
    <2>2. Depth(e, k + j) = 0 /\ e[k + j] \in ops
        BY <1>1, <1>2, <1>3, <1>4, <1>5, <2>1
    <2> QED
        BY <1>1, <2>1, <2>2
<1>6. Outer(r, ops) = {}
    <2>1. DOMAIN r = 1 .. Len(e) - k
        BY <1>2
    <2> QED
        BY <1>5, <2>1 DEF Outer
<1> QED
    BY <1>6 DEF r, k

\* Parts at an operator in no brackets have no operators in none that the whole has not.
LEMMA OuterOfParts ==
    ASSUME NEW e \in Seq(STRING), NEW k \in 1 .. Len(e), Depth(e, k) = 0, NEW ops, Outer(e, ops) = {}
    PROVE  Outer(Left(e, k), ops) = {} /\ Outer(Right(e, k), ops) = {}
<1>1. Len(e) \in Nat /\ \A j \in Nat : Depth(e, j) \in Int
    BY DepthType
<1>2. \A j \in 1 .. Len(e) : e[j] \in ops => Depth(e, j) # 0
    BY DEF Outer
<1>3. ASSUME NEW j \in DOMAIN Left(e, k), Left(e, k)[j] \in ops, Depth(Left(e, k), j) = 0 PROVE FALSE
    <2>1. j \in 1 .. k - 1
        <3>1. DOMAIN Left(e, k) = 1 .. k - 1
            BY PartsType
        <3> QED
            BY <1>3, <3>1
    <2>2. Left(e, k)[j] = e[j] /\ Depth(Left(e, k), j) = Depth(e, j)
        BY <2>1, PartsType, DepthOfParts, ZenonT(40)
    <2>3. j \in 1 .. Len(e)
        BY <1>1, <2>1
    <2> QED
        BY <1>2, <1>3, <2>2, <2>3
<1>4. ASSUME NEW j \in DOMAIN Right(e, k), Right(e, k)[j] \in ops, Depth(Right(e, k), j) = 0 PROVE FALSE
    <2>1. j \in 1 .. Len(e) - k
        <3>1. Right(e, k) \in Seq(STRING) /\ Len(Right(e, k)) = Len(e) - k
            BY PartsType
        <3>2. DOMAIN Right(e, k) = 1 .. Len(e) - k
            BY <3>1
        <3> QED
            BY <1>4, <3>2
    <2>2. Right(e, k)[j] = e[k + j] /\ Depth(Right(e, k), j) = Depth(e, k + j) - Depth(e, k)
        BY <2>1, PartsType, DepthOfParts, ZenonT(40)
    <2>3. k + j \in 1 .. Len(e) /\ k + j \in Nat
        BY <1>1, <2>1
    <2>4. Depth(e, k + j) \in Int
        BY <1>1, <2>3
    <2> QED
        BY <1>2, <1>4, <2>2, <2>3, <2>4
<1> QED
    BY <1>3, <1>4 DEF Outer

-----------------------------------------------------------------------------
(* reading an expression *)

\* The characters of e, one after another, turn the stacks c into d.
Reads(c, e, d) ==
    \E f : f[0] = c /\ (\A k \in 1 .. Len(e) : f[k] = Read(f[k - 1], e[k])) /\ f[Len(e)] = d

LEMMA ReadsNothing ==
    ASSUME NEW c PROVE Reads(c, <<>>, c) /\ \A d : Reads(c, <<>>, d) => d = c
<1> DEFINE f == [k \in {0} |-> c]
<1>1. f[0] = c
    OBVIOUS
<1> HIDE DEF f
<1>2. Len(<<>>) = 0 /\ \A k \in 1 .. 0 : FALSE
    OBVIOUS
<1>3. Reads(c, <<>>, c)
    BY <1>1, <1>2 DEF Reads
<1> QED
    BY <1>2, <1>3 DEF Reads

\* What is before a character, the character, and what is after it.
LEMMA ReadsThen ==
    ASSUME NEW e \in Seq(STRING), NEW k \in 1 .. Len(e), NEW c, NEW d, NEW x,
           Reads(c, Left(e, k), d), Reads(Read(d, e[k]), Right(e, k), x)
    PROVE  Reads(c, e, x)
<1> DEFINE n == Len(e)
<1>1. n \in Nat /\ k \in 1 .. n /\ k \in Nat
    OBVIOUS
<1>2. /\ Len(Left(e, k)) = k - 1 /\ \A j \in 1 .. k - 1 : Left(e, k)[j] = e[j]
      /\ Len(Right(e, k)) = n - k /\ \A j \in 1 .. n - k : Right(e, k)[j] = e[k + j]
    BY PartsType
<1>3. PICK f : f[0] = c /\ (\A j \in 1 .. k - 1 : f[j] = Read(f[j - 1], e[j])) /\ f[k - 1] = d
    <2>1. PICK f : /\ f[0] = c /\ f[Len(Left(e, k))] = d
                   /\ \A j \in 1 .. Len(Left(e, k)) : f[j] = Read(f[j - 1], Left(e, k)[j])
        BY DEF Reads
    <2>2. \A j \in 1 .. k - 1 : f[j] = Read(f[j - 1], e[j])
        BY <1>2, <2>1
    <2> QED
        BY <1>2, <2>1, <2>2
<1>4. PICK g : /\ g[0] = Read(d, e[k]) /\ g[n - k] = x
               /\ \A j \in 1 .. n - k : g[j] = Read(g[j - 1], e[k + j])
    <2>1. PICK g : /\ g[0] = Read(d, e[k]) /\ g[Len(Right(e, k))] = x
                   /\ \A j \in 1 .. Len(Right(e, k)) : g[j] = Read(g[j - 1], Right(e, k)[j])
        BY DEF Reads
    <2>2. \A j \in 1 .. n - k : g[j] = Read(g[j - 1], e[k + j])
        BY <1>2, <2>1
    <2> QED
        BY <1>2, <2>1, <2>2
<1> DEFINE h == [i \in 0 .. n |-> IF i < k THEN f[i] ELSE g[i - k]]
<1> HIDE DEF n
<1>5. \A i \in 0 .. n : h[i] = IF i < k THEN f[i] ELSE g[i - k]
    OBVIOUS
<1> HIDE DEF h
<1>6. h[0] = c
    BY <1>1, <1>3, <1>5
<1>7. h[n] = x
    <2>1. n \in 0 .. n /\ ~(n < k)
        BY <1>1
    <2> QED
        BY <1>4, <1>5, <2>1
<1>8. ASSUME NEW i \in 1 .. n PROVE h[i] = Read(h[i - 1], e[i])
    <2>1. i \in 0 .. n /\ i - 1 \in 0 .. n /\ i \in Int
        BY <1>1
    <2>2. CASE i < k
        <3>1. i - 1 < k /\ i \in 1 .. k - 1
            BY <1>1, <2>2
        <3> QED
            BY <1>3, <1>5, <2>1, <2>2, <3>1
    <2>3. CASE i = k
        <3>1. k - 1 < k /\ ~(k < k) /\ k - k = 0
            BY <1>1
        <3>2. h[k - 1] = d /\ h[k] = g[0]
            BY <1>3, <1>5, <2>1, <2>3, <3>1
        <3> QED
            BY <1>4, <2>3, <3>2
    <2>4. CASE i > k
        <3>1. ~(i < k) /\ ~(i - 1 < k) /\ i - k \in 1 .. n - k /\ (i - k) - 1 = (i - 1) - k /\ k + (i - k) = i
            BY <1>1, <2>4
        <3>2. g[i - k] = Read(g[(i - k) - 1], e[k + (i - k)])
            BY <1>4, <3>1
        <3>3. h[i] = g[i - k] /\ h[i - 1] = g[(i - 1) - k]
            BY <1>5, <2>1, <3>1
        <3> QED
            BY <3>1, <3>2, <3>3
    <2> QED
        BY <1>1, <2>1, <2>2, <2>3, <2>4
<1> QED
    BY <1>6, <1>7, <1>8 DEF Reads, n

\* What is left to read after the first character.
LEMMA ReadsTail ==
    ASSUME NEW e \in Seq(STRING), e # <<>>, NEW c, NEW d, Reads(c, e, d)
    PROVE  Reads(Read(c, Head(e)), Tail(e), d)
<1> DEFINE n == Len(e) - 1
<1>1. n \in Nat /\ Len(e) = n + 1 /\ Len(Tail(e)) = n /\ Head(e) = e[1]
      /\ \A j \in 1 .. n : Tail(e)[j] = e[j + 1]
    OBVIOUS
<1> HIDE DEF n
<1>2. PICK f : f[0] = c /\ f[n + 1] = d /\ \A k \in 1 .. n + 1 : f[k] = Read(f[k - 1], e[k])
    BY <1>1 DEF Reads
<1> DEFINE g == [j \in 0 .. n |-> f[j + 1]]
<1>3. \A j \in 0 .. n : g[j] = f[j + 1]
    OBVIOUS
<1> HIDE DEF g
<1>4. g[0] = Read(c, Head(e))
    <2>1. 0 \in 0 .. n /\ 1 \in 1 .. n + 1 /\ 0 + 1 = 1 /\ 1 - 1 = 0
        BY <1>1
    <2> QED
        BY <1>1, <1>2, <1>3, <2>1
<1>5. g[n] = d
    BY <1>1, <1>2, <1>3
<1>6. ASSUME NEW j \in 1 .. n PROVE g[j] = Read(g[j - 1], Tail(e)[j])
    <2>1. j \in 0 .. n /\ j - 1 \in 0 .. n /\ j + 1 \in 1 .. n + 1 /\ (j + 1) - 1 = j /\ (j - 1) + 1 = j
        BY <1>1
    <2>2. f[j + 1] = Read(f[j], e[j + 1])
        BY <1>2, <2>1
    <2>3. g[j] = f[j + 1] /\ g[j - 1] = f[j]
        BY <1>3, <2>1
    <2> QED
        BY <1>1, <2>2, <2>3
<1> QED
    BY <1>1, <1>4, <1>5, <1>6 DEF Reads

-----------------------------------------------------------------------------
(* the stacks around an expression *)

Stacked(o, m, g) == [op |-> o, num |-> m, fault |-> g]

\* operators, and the numbers that wait for them: all but the last one
Waiting(o, m) ==
    /\ o \in Seq({"+", "-", "*", "/", "("}) /\ m \in Seq(-128 .. 127)
    /\ Len(m) = Len(o) - Opened(o)

\* Taking the last element away.
LEMMA LastOf ==
    ASSUME NEW S, NEW s \in Seq(S), NEW x \in S
    PROVE  /\ Append(s, x) \in Seq(S) /\ Len(Append(s, x)) = Len(s) + 1 /\ Append(s, x) # <<>>
           /\ Front(Append(s, x)) = s /\ Last(Append(s, x)) = x
           /\ SubSeq(Append(s, x), 1, Len(s)) = s
           /\ Append(s, x)[Len(s) + 1] = x /\ \A i \in 1 .. Len(s) : Append(s, x)[i] = s[i]
<1> DEFINE t == Append(s, x)
<1>1. /\ t \in Seq(S) /\ Len(t) = Len(s) + 1 /\ t[Len(s) + 1] = x /\ Len(s) \in Nat
      /\ \A i \in 1 .. Len(s) : t[i] = s[i]
    OBVIOUS
<1> HIDE DEF t
<1>2. SubSeq(t, 1, Len(s)) = s
    <2>1. \A i \in 1 .. Len(s) : t[i] \in S
        BY <1>1
    <2>2. /\ SubSeq(t, 1, Len(s)) \in Seq(S)
          /\ Len(SubSeq(t, 1, Len(s))) = IF 1 <= Len(s) THEN Len(s) - 1 + 1 ELSE 0
          /\ \A i \in 1 .. Len(s) - 1 + 1 : SubSeq(t, 1, Len(s))[i] = t[1 + i - 1]
        BY <1>1, <2>1, SubSeqProperties
    <2> DEFINE u == SubSeq(t, 1, Len(s))
    <2>3. Len(u) = Len(s)
        BY <1>1, <2>2
    <2>4. \A i \in 1 .. Len(s) : u[i] = s[i]
        <3>1. \A i \in 1 .. Len(s) : i \in 1 .. Len(s) - 1 + 1 /\ 1 + i - 1 = i
            BY <1>1
        <3> QED
            BY <1>1, <2>2, <3>1
    <2> HIDE DEF u
    <2> QED
        BY <2>2, <2>3, <2>4, SeqEqual DEF u
<1>3. Front(t) = s /\ Last(t) = x
    <2>1. Len(t) - 1 = Len(s)
        BY <1>1
    <2> QED
        BY <1>1, <1>2, <2>1 DEF Front, Last
<1>4. t # <<>>
    BY <1>1
<1> QED
    BY <1>1, <1>2, <1>3, <1>4 DEF t

\* With one more number the stacks are in order.
LEMMA WaitingFits ==
    ASSUME NEW o, NEW m, Waiting(o, m), NEW a \in -128 .. 127, NEW g \in BOOLEAN
    PROVE  Fits(Stacked(o, Append(m, a), g))
<1> DEFINE Marks == {"+", "-", "*", "/", "("}
           Chars == -128 .. 127
           c == Stacked(o, Append(m, a), g)
<1>1. o \in Seq(Marks) /\ m \in Seq(Chars) /\ a \in Chars /\ Len(m) = Len(o) - Opened(o)
    BY DEF Waiting
<1>2. Append(m, a) \in Seq(Chars) /\ Len(Append(m, a)) = Len(m) + 1
    <2> HIDE DEF Chars
    <2> QED
        BY <1>1, LastOf
<1>3. Len(Append(m, a)) = Len(o) - Opened(o) + 1
    BY <1>1, <1>2
<1>4. c \in [op : Seq(Marks), num : Seq(Chars), fault : BOOLEAN] /\ c.op = o /\ c.num = Append(m, a)
    BY <1>1, <1>2 DEF Stacked
<1> HIDE DEF c
<1> QED
    BY <1>3, <1>4 DEF Fits, c

\* Behind an operator or a bracket.
LEMMA WaitingMore ==
    ASSUME NEW o, NEW m, Waiting(o, m)
    PROVE  /\ \A ch \in {"+", "-", "*", "/"} : \A a \in -128 .. 127 :
                 Waiting(Append(o, ch), Append(m, a)) /\ Opened(Append(o, ch)) = Opened(o)
           /\ Waiting(Append(o, "("), m) /\ Opened(Append(o, "(")) = Opened(o) + 1
           /\ Opened(o) \in Nat
<1> DEFINE Marks == {"+", "-", "*", "/", "("}
           Chars == -128 .. 127
<1>1. o \in Seq(Marks) /\ m \in Seq(Chars) /\ Len(m) = Len(o) - Opened(o)
    BY DEF Waiting
<1>2. "(" \in Marks /\ \A ch \in {"+", "-", "*", "/"} : ch \in Marks /\ ch # "("
    OBVIOUS
<1>3. \A ch \in Marks : /\ Append(o, ch) \in Seq(Marks) /\ Len(Append(o, ch)) = Len(o) + 1
                        /\ Opened(Append(o, ch)) = Opened(o) + (IF ch = "(" THEN 1 ELSE 0)
                        /\ Opened(o) \in Nat /\ Len(o) \in Nat
    <2> HIDE DEF Marks
    <2> QED
        BY <1>1, OpenedAppend
<1>4. \A a \in Chars : Append(m, a) \in Seq(Chars) /\ Len(Append(m, a)) = Len(m) + 1
    <2> HIDE DEF Chars
    <2> QED
        BY <1>1, LastOf
<1>5. ASSUME NEW ch \in {"+", "-", "*", "/"}, NEW a \in Chars
      PROVE  Waiting(Append(o, ch), Append(m, a)) /\ Opened(Append(o, ch)) = Opened(o)
    <2>1. /\ Append(o, ch) \in Seq(Marks) /\ Len(Append(o, ch)) = Len(o) + 1
          /\ Opened(Append(o, ch)) = Opened(o) /\ Opened(o) \in Nat /\ Len(o) \in Nat
        BY <1>2, <1>3
    <2>2. Append(m, a) \in Seq(Chars) /\ Len(Append(m, a)) = Len(m) + 1
        BY <1>4
    <2> QED
        BY <1>1, <2>1, <2>2 DEF Waiting
<1>6. Waiting(Append(o, "("), m) /\ Opened(Append(o, "(")) = Opened(o) + 1
    <2>1. /\ Append(o, "(") \in Seq(Marks) /\ Len(Append(o, "(")) = Len(o) + 1
          /\ Opened(Append(o, "(")) = Opened(o) + 1 /\ Opened(o) \in Nat /\ Len(o) \in Nat
        BY <1>2, <1>3
    <2> QED
        BY <1>1, <2>1 DEF Waiting
<1>7. Opened(o) \in Nat
    BY <1>2, <1>3
<1> QED
    BY <1>5, <1>6, <1>7

\* A loop that stops at less begins where the other stopped, and may stay there.
LEMMA Looser ==
    ASSUME NEW c, Fits(c), NEW stops, NEW more, stops \subseteq more, "(" \in stops,
           Fits(Until(c, more)),
           Until(c, more).op = <<>> \/ Last(Until(c, more).op) \in stops
    PROVE  Until(c, stops) = Until(c, more)
<1>1. Until(Until(c, more), stops) = Until(c, stops)
    BY UntilTwice
<1> DEFINE d == Until(c, more)
<1> HIDE DEF d
<1>2. Fits(d) /\ (d.op = <<>> \/ Last(d.op) \in stops)
    BY DEF d
<1>3. Until(d, stops) = d
    BY <1>2, UntilStays
<1> QED
    BY <1>1, <1>3 DEF d

Operations == {"+", "-", "*", "/"}
Bytes == -128 .. 127
Faults(g, ch, b) == g \/ (ch = "/" /\ b = 0)

\* The operator on top takes the two numbers on top.
LEMMA ReduceTop ==
    ASSUME NEW o, NEW m, Waiting(o, m), NEW ch \in Operations,
           NEW a \in Bytes, NEW b \in Bytes, NEW g \in BOOLEAN
    PROVE  Reduce(Stacked(Append(o, ch), Append(Append(m, a), b), g))
           = Stacked(o, Append(m, Apply(ch, a, b)), Faults(g, ch, b))
<1> DEFINE Marks == {"+", "-", "*", "/", "("}
           Chars == -128 .. 127
           c == Stacked(Append(o, ch), Append(Append(m, a), b), g)
           n == Len(m)
<1>1. o \in Seq(Marks) /\ m \in Seq(Chars) /\ ch \in Marks /\ a \in Chars /\ b \in Chars /\ n \in Nat
    BY DEF Waiting, Operations, Bytes
<1>2. Front(Append(o, ch)) = o /\ Last(Append(o, ch)) = ch
    <2> HIDE DEF Marks
    <2> QED
        BY <1>1, LastOf
<1> DEFINE ma == Append(m, a)
           mab == Append(ma, b)
<1>3. /\ ma \in Seq(Chars) /\ Len(ma) = n + 1 /\ ma[n + 1] = a /\ \A i \in 1 .. n : ma[i] = m[i]
      /\ SubSeq(ma, 1, n) = m
    <2> HIDE DEF Chars
    <2> QED
        BY <1>1, LastOf
<1>4. /\ mab \in Seq(Chars) /\ Len(mab) = n + 2 /\ mab[n + 2] = b /\ mab[n + 1] = a
      /\ \A i \in 1 .. n : mab[i] = m[i]
    <2>1. /\ mab \in Seq(Chars) /\ Len(mab) = Len(ma) + 1 /\ mab[Len(ma) + 1] = b
          /\ \A i \in 1 .. Len(ma) : mab[i] = ma[i]
        <3>1. ma \in Seq(Chars) /\ b \in Chars
            BY <1>1, <1>3
        <3> HIDE DEF Chars, ma
        <3> QED
            BY <3>1, LastOf
    <2>2. Len(ma) + 1 = n + 2 /\ n + 1 \in 1 .. Len(ma) /\ \A i \in 1 .. n : i \in 1 .. Len(ma)
        BY <1>1, <1>3
    <2> HIDE DEF ma, mab, n
    <2> QED
        BY <1>3, <2>1, <2>2
<1> HIDE DEF ma, mab, n
<1>5. SubSeq(mab, 1, n) = m
    <2>1. \A i \in 1 .. n : mab[i] \in Chars
        <3>1. \A i \in 1 .. n : i \in 1 .. Len(mab)
            BY <1>1, <1>4
        <3> HIDE DEF Chars
        <3> QED
            BY <1>4, <3>1, ElementOfSeq
    <2> DEFINE u == SubSeq(mab, 1, n)
    <2>2. u \in Seq(Chars) /\ Len(u) = (IF 1 <= n THEN n - 1 + 1 ELSE 0)
          /\ \A i \in 1 .. n - 1 + 1 : u[i] = mab[1 + i - 1]
        <3> HIDE DEF Chars
        <3> QED
            BY <1>1, <2>1, SubSeqProperties
    <2> HIDE DEF u
    <2>3. Len(u) = n /\ \A i \in 1 .. n : u[i] = mab[i]
        <3>1. \A i \in 1 .. n : i \in 1 .. n - 1 + 1 /\ 1 + i - 1 = i
            BY <1>1
        <3>2. Len(u) = n
            BY <1>1, <2>2
        <3> QED
            BY <2>2, <3>1, <3>2
    <2>4. u = m
        BY <1>1, <1>4, <2>2, <2>3, SeqEqual DEF n
    <2> QED
        BY <2>4 DEF u
<1>6. c.op = Append(o, ch) /\ c.num = mab /\ c.fault = g
    BY DEF Stacked, mab, ma
<1> HIDE DEF c
<1>7. Reduce(c) = [op    |-> Front(c.op),
                   num   |-> Append(SubSeq(c.num, 1, n), Apply(Last(c.op), c.num[n + 1], c.num[n + 2])),
                   fault |-> c.fault \/ (Last(c.op) = "/" /\ c.num[n + 2] = 0)]
    <2>1. Len(c.num) = n + 2 /\ (n + 2) - 1 = n + 1 /\ (n + 2) - 2 = n
        BY <1>1, <1>4, <1>6
    <2> QED
        BY <2>1 DEF Reduce
<1>8. Reduce(c) = Stacked(o, Append(m, Apply(ch, a, b)), g \/ (ch = "/" /\ b = 0))
    BY <1>2, <1>4, <1>5, <1>6, <1>7 DEF Stacked
<1> QED
    BY <1>8 DEF c, ma, mab, Faults

\* A character read: what becomes of the stacks.
LEMMA StackedIs ==
    ASSUME NEW o, NEW m, NEW g
    PROVE  LET c == Stacked(o, m, g)
           IN  /\ c.op = o /\ c.num = m /\ c.fault = g
               /\ \A x : [c EXCEPT !.op = x] = Stacked(x, m, g)
               /\ \A x : [c EXCEPT !.num = x] = Stacked(o, x, g)
    BY DEF Stacked

LEMMA OperatorIs ==
    ASSUME NEW o, NEW m, NEW g, NEW ch
    PROVE  Operator(Stacked(o, m, g), ch) = Stacked(Append(o, ch), Append(m, 0), g)
<1> DEFINE c == Stacked(o, m, g)
           p == Append(o, ch)
           q == Append(m, 0)
<1>1. c.op = o /\ c.num = m
    BY StackedIs
<1>2. Operator(c, ch) = [[c EXCEPT !.op = p] EXCEPT !.num = q]
    BY <1>1 DEF Operator
<1> HIDE DEF p, q
<1>3. [c EXCEPT !.op = p] = Stacked(p, m, g)
    BY StackedIs
<1>4. [Stacked(p, m, g) EXCEPT !.num = q] = Stacked(p, q, g)
    BY StackedIs
<1> QED
    BY <1>2, <1>3, <1>4 DEF p, q

LEMMA ReadDigit ==
    ASSUME NEW o, NEW m, Waiting(o, m), NEW a \in -128 .. 127, NEW g, NEW ch, IsDigit(ch)
    PROVE  Read(Stacked(o, Append(m, a), g), ch) = Stacked(o, Append(m, Byte(a * 10 + DigitOf(ch))), g)
<1> DEFINE Chars == -128 .. 127
           c == Stacked(o, Append(m, a), g)
           b == Byte(a * 10 + DigitOf(ch))
           n == Len(m)
<1>1. m \in Seq(Chars) /\ a \in Chars /\ n \in Nat /\ b \in Chars
    <2>1. DigitOf(ch) \in Int
        BY Digits
    <2>2. a * 10 + DigitOf(ch) \in Int
        BY <2>1
    <2>3. b \in Chars
        BY <2>2, ByteType
    <2> QED
        BY <2>3 DEF Waiting
<1> HIDE DEF b
<1>2. /\ Append(m, a) \in Seq(Chars) /\ Len(Append(m, a)) = n + 1
      /\ Append(m, a)[n + 1] = a /\ \A i \in 1 .. n : Append(m, a)[i] = m[i]
    <2> HIDE DEF Chars
    <2> QED
        BY <1>1, LastOf
<1>3. /\ Append(m, b) \in Seq(Chars) /\ Len(Append(m, b)) = n + 1
      /\ Append(m, b)[n + 1] = b /\ \A i \in 1 .. n : Append(m, b)[i] = m[i]
    <2> HIDE DEF Chars
    <2> QED
        BY <1>1, LastOf
<1> DEFINE ma == Append(m, a)
           mb == Append(m, b)
<1> HIDE DEF ma, mb, n
<1>4. [ma EXCEPT ![n + 1] = b] = mb
    <2> DEFINE u == [ma EXCEPT ![n + 1] = b]
    <2>1. u \in Seq(Chars) /\ Len(u) = n + 1
        <3> HIDE DEF Chars
        <3> QED
            BY <1>1, <1>2 DEF ma
    <2>2. \A i \in 1 .. n + 1 : u[i] = mb[i]
        <3>1. ASSUME NEW i \in 1 .. n + 1 PROVE u[i] = mb[i]
            <4>1. i \in DOMAIN ma
                BY <1>2 DEF ma
            <4>2. CASE i = n + 1
                BY <1>3, <4>1, <4>2 DEF mb
            <4>3. CASE i # n + 1
                <5>1. i \in 1 .. n
                    BY <1>1, <4>3
                <5> QED
                    BY <1>2, <1>3, <4>1, <4>3, <5>1 DEF ma, mb
            <4> QED
                BY <4>2, <4>3
        <3> QED
            BY <3>1
    <2> HIDE DEF u
    <2>3. u = mb
        BY <1>3, <2>1, <2>2, SeqEqual DEF mb
    <2> QED
        BY <2>3 DEF u
<1>5. c.num = ma /\ Len(c.num) = n + 1 /\ c.num[n + 1] = a
    <2>1. c.num = ma
        BY DEF Stacked, ma
    <2> QED
        BY <1>2, <2>1 DEF ma
<1>6. Read(c, ch) = [c EXCEPT !.num = mb]
    <2>1. Read(c, ch) = [c EXCEPT !.num = [c.num EXCEPT ![Len(c.num)] = Byte(c.num[Len(c.num)] * 10 + DigitOf(ch))]]
        BY DEF Read
    <2> HIDE DEF c
    <2> QED
        BY <1>4, <1>5, <2>1 DEF b
<1>7. [c EXCEPT !.num = mb] = Stacked(o, mb, g)
    BY StackedIs
<1> HIDE DEF c
<1> QED
    BY <1>6, <1>7 DEF c, mb, b

LEMMA ReadOpening ==
    ASSUME NEW o, NEW m, NEW g
    PROVE  Read(Stacked(o, m, g), "(") = Stacked(Append(o, "("), m, g)
<1> DEFINE c == Stacked(o, m, g)
<1>1. ~IsDigit("(")
    <2>1. \A ch : IsDigit(ch) => ch # "("
        BY Digits
    <2> QED
        BY <2>1
<1>2. c.op = o /\ \A x : [c EXCEPT !.op = x] = Stacked(x, m, g)
    BY StackedIs
<1> HIDE DEF c
<1>3. Read(c, "(") = [c EXCEPT !.op = Append(c.op, "(")]
    BY <1>1 DEF Read
<1> QED
    BY <1>2, <1>3 DEF c

LEMMA ReadClosing ==
    ASSUME NEW c, NEW o \in Seq({"+", "-", "*", "/", "("}), NEW m, NEW g,
           Until(c, {"("}) = Stacked(Append(o, "("), m, g)
    PROVE  Read(c, ")") = Stacked(o, m, g)
<1> DEFINE p == Append(o, "(")
           d == Stacked(p, m, g)
<1>1. ~IsDigit(")")
    <2>1. \A ch : IsDigit(ch) => ch # ")"
        BY Digits
    <2> QED
        BY <2>1
<1>2. Front(p) = o
    <2> DEFINE Marks == {"+", "-", "*", "/", "("}
    <2>1. o \in Seq(Marks) /\ "(" \in Marks
        OBVIOUS
    <2> HIDE DEF Marks
    <2> QED
        BY <2>1, LastOf
<1> HIDE DEF p
<1>3. d.op = p /\ \A x : [d EXCEPT !.op = x] = Stacked(x, m, g)
    BY StackedIs
<1> HIDE DEF d
<1>4. Read(c, ")") = [d EXCEPT !.op = Front(d.op)]
    <2>1. Until(c, {"("}) = d
        BY DEF d, p
    <2>2. \A ch : ch = ")" => Read(c, ch) = LET x == Until(c, {"("}) IN [x EXCEPT !.op = Front(@)]
        BY <1>1 DEF Read
    <2> QED
        BY <2>1, <2>2
<1> QED
    BY <1>2, <1>3, <1>4

LEMMA ReadOperator ==
    ASSUME NEW c, NEW ch, NEW o, NEW m, NEW g
    PROVE  /\ ch \in {"+", "-"} /\ Until(c, {"("}) = Stacked(o, m, g)
              => Read(c, ch) = Stacked(Append(o, ch), Append(m, 0), g)
           /\ ch \in {"*", "/"} /\ Until(c, {"(", "+", "-"}) = Stacked(o, m, g)
              => Read(c, ch) = Stacked(Append(o, ch), Append(m, 0), g)
<1>1. ch \in {"+", "-"} => Read(c, ch) = Operator(Until(c, {"("}), ch)
    BY Digits DEF Read
<1>2. ch \in {"*", "/"} => Read(c, ch) = Operator(Until(c, {"(", "+", "-"}), ch)
    BY Digits DEF Read
<1> QED
    BY <1>1, <1>2, OperatorIs

-----------------------------------------------------------------------------
(* what reading an expression computes *)

\* where a sum may be, and where a product
AtSum(o)     == o = <<>> \/ Last(o) = "("
AtProduct(o) == o = <<>> \/ Last(o) \in {"(", "+", "-"}

Suits(e, o) == /\ Sums(e) # {} => AtSum(o)
               /\ Sums(e) = {} /\ Products(e) # {} => AtProduct(o)

\* The loop that is due after e leaves y: after a sum the one that stops at brackets,
\* after a product also the one that stops at sums, after the rest none is needed.
Leaves(e, o, x, y) ==
    /\ Sums(e) = {} /\ Products(e) = {} => x = y
    /\ Sums(e) = {} /\ AtProduct(o) => Until(x, {"(", "+", "-"}) = y
    /\ AtSum(o) => Until(x, {"("}) = y

\* Wherever e suits, it puts the number a on top, and leaves what is under it.
Computes(e, a) ==
    \A o, m, f : Waiting(o, m) /\ f \in BOOLEAN /\ Suits(e, o) =>
        \E x : \E g \in BOOLEAN :
            /\ Reads(Stacked(o, Append(m, 0), f), e, x)
            /\ Fits(x) /\ Opened(x.op) = Opened(o)
            /\ Leaves(e, o, x, Stacked(o, Append(m, a), g))

\* No loop is needed.
LEMMA LeavesPlain ==
    ASSUME NEW e, NEW o, NEW x, Fits(x), x.op = o
    PROVE  Leaves(e, o, x, x)
<1>1. AtProduct(o) => Until(x, {"(", "+", "-"}) = x
    BY UntilStays DEF AtProduct
<1>2. AtSum(o) => Until(x, {"("}) = x
    BY UntilStays DEF AtSum
<1> QED
    BY <1>1, <1>2 DEF Leaves

\* After the loop that stops at sums, that of brackets alone finds no more to do.
LEMMA LeavesProduct ==
    ASSUME NEW e, Products(e) # {}, NEW o, NEW x, Fits(x), NEW y, Fits(y), y.op = o,
           Until(x, {"(", "+", "-"}) = y
    PROVE  Leaves(e, o, x, y)
<1>1. AtSum(o) => Until(x, {"("}) = y
    <2> SUFFICES ASSUME AtSum(o) PROVE Until(x, {"("}) = y
        OBVIOUS
    <2>1. y.op = <<>> \/ Last(y.op) \in {"("}
        BY DEF AtSum
    <2>2. {"("} \subseteq {"(", "+", "-"} /\ "(" \in {"("}
        OBVIOUS
    <2> QED
        BY <2>1, <2>2, Looser
<1> QED
    BY <1>1 DEF Leaves

\* An expression that puts a number on top as it is read.
LEMMA PlainComputes ==
    ASSUME NEW e, NEW a \in -128 .. 127,
           \A o, m, f : Waiting(o, m) /\ f \in BOOLEAN /\ Suits(e, o) =>
               \E g \in BOOLEAN : Reads(Stacked(o, Append(m, 0), f), e, Stacked(o, Append(m, a), g))
    PROVE  Computes(e, a)
<1> SUFFICES ASSUME NEW o, NEW m, NEW f, Waiting(o, m), f \in BOOLEAN, Suits(e, o)
             PROVE  \E x : \E g \in BOOLEAN :
                        /\ Reads(Stacked(o, Append(m, 0), f), e, x)
                        /\ Fits(x) /\ Opened(x.op) = Opened(o)
                        /\ Leaves(e, o, x, Stacked(o, Append(m, a), g))
    BY DEF Computes
<1>1. PICK g \in BOOLEAN : Reads(Stacked(o, Append(m, 0), f), e, Stacked(o, Append(m, a), g))
    OBVIOUS
<1> DEFINE x == Stacked(o, Append(m, a), g)
<1>2. Fits(x)
    BY WaitingFits
<1>3. x.op = o
    BY DEF Stacked
<1> HIDE DEF x
<1>4. Leaves(e, o, x, x)
    BY <1>2, <1>3, LeavesPlain
<1> QED
    BY <1>1, <1>2, <1>3, <1>4 DEF x

\* Nothing but an operator has an operator in no brackets.
LEMMA NumberPlain ==
    ASSUME NEW e \in Seq(STRING), IsNumber(e)
    PROVE  /\ Sums(e) = {} /\ Products(e) = {} /\ IsDigit(Last(e)) /\ Last(e) = e[Len(e)]
           /\ Len(e) # 1 => IsNumber(Front(e)) /\ Front(e) \in Seq(STRING)
<1> DEFINE n == Len(e)
<1>1. n \in Nat \ {0} /\ DOMAIN e = 1 .. n /\ \A k \in 1 .. n : IsDigit(e[k])
    BY DEF IsNumber
<1>2. \A k \in 1 .. n : e[k] \notin {"+", "-", "*", "/"}
    BY <1>1, Digits
<1>3. Sums(e) = {} /\ Products(e) = {}
    <2> HIDE DEF n
    <2> QED
        BY <1>1, <1>2 DEF Sums, Products, Outer
<1>4. Last(e) = e[n] /\ n \in 1 .. n
    BY <1>1 DEF Last
<1>5. ASSUME n # 1 PROVE IsNumber(Front(e)) /\ Front(e) \in Seq(STRING)
    <2>1. Front(e) \in Seq(STRING) /\ Len(Front(e)) = n - 1 /\ \A j \in 1 .. n - 1 : Front(e)[j] = e[j]
        BY PartsType DEF IsNumber
    <2> HIDE DEF n
    <2>2. DOMAIN Front(e) = 1 .. n - 1 /\ \A j \in 1 .. n - 1 : j \in 1 .. n
        BY <1>1, <2>1
    <2>3. Front(e) # <<>>
        <3>1. n - 1 # 0
            BY <1>1, <1>5
        <3> QED
            BY <2>1, <3>1
    <2> QED
        BY <1>1, <2>1, <2>2, <2>3 DEF IsNumber
<1> QED
    BY <1>1, <1>3, <1>4, <1>5

\* A number, digit by digit.
LEMMA NumberComputes ==
    ASSUME NEW e \in Seq(STRING), IsNumber(e), NEW a \in -128 .. 127,
           IF Len(e) = 1 THEN a = 0 ELSE Computes(Front(e), a)
    PROVE  Computes(e, Byte(a * 10 + DigitOf(Last(e))))
<1> DEFINE n == Len(e)
           b == Byte(a * 10 + DigitOf(Last(e)))
<1>1. n \in 1 .. n /\ IsDigit(Last(e)) /\ Last(e) = e[n]
    <2>1. n \in Nat \ {0}
        BY DEF IsNumber
    <2> QED
        BY <2>1, NumberPlain
<1>2. b \in -128 .. 127
    <2>1. a * 10 + DigitOf(Last(e)) \in Int
        BY <1>1, Digits
    <2> QED
        BY <2>1, ByteType
<1>3. Left(e, n) = Front(e) /\ Right(e, n) = <<>> /\ (n = 1 => Left(e, n) = <<>>)
    <2>1. Left(e, n) = Front(e)
        BY DEF Left, Front
    <2>2. Right(e, n) \in Seq(STRING) /\ Len(Right(e, n)) = 0 /\ Left(e, n) \in Seq(STRING) /\ Len(Left(e, n)) = n - 1
        <3>1. n - n = 0
            BY <1>1
        <3> QED
            BY <1>1, <3>1, PartsType
    <2> HIDE DEF n
    <2> QED
        BY <1>1, <2>1, <2>2
<1>4. ASSUME NEW o, NEW m, NEW f, Waiting(o, m), f \in BOOLEAN
      PROVE  \E g \in BOOLEAN : Reads(Stacked(o, Append(m, 0), f), e, Stacked(o, Append(m, b), g))
    <2> DEFINE c == Stacked(o, Append(m, 0), f)
    <2>1. \E g \in BOOLEAN : Reads(c, Left(e, n), Stacked(o, Append(m, a), g))
        <3>1. CASE n = 1
            BY <1>3, <1>4, <3>1, ReadsNothing
        <3>2. CASE n # 1
            <4>1. Sums(Front(e)) = {} /\ Products(Front(e)) = {} /\ Computes(Front(e), a)
                BY <3>2, NumberPlain
            <4>2. Suits(Front(e), o)
                BY <4>1 DEF Suits
            <4>3. PICK x : \E g \in BOOLEAN : /\ Reads(c, Front(e), x)
                                              /\ Leaves(Front(e), o, x, Stacked(o, Append(m, a), g))
                BY <1>4, <4>1, <4>2 DEF Computes
            <4> QED
                BY <1>3, <4>1, <4>3 DEF Leaves
        <3> QED
            BY <3>1, <3>2
    <2>2. PICK g \in BOOLEAN : Reads(c, Left(e, n), Stacked(o, Append(m, a), g))
        BY <2>1
    <2> DEFINE d == Stacked(o, Append(m, a), g)
    <2>3. Read(d, e[n]) = Stacked(o, Append(m, b), g)
        BY <1>1, <1>4, ReadDigit
    <2>4. Reads(Read(d, e[n]), Right(e, n), Read(d, e[n]))
        BY <1>3, ReadsNothing
    <2> HIDE DEF c, d, n
    <2>5. Reads(c, e, Read(d, e[n]))
        BY <1>1, <2>2, <2>4, ReadsThen DEF d, n
    <2> QED
        BY <2>3, <2>5 DEF c
<1> HIDE DEF b
<1>5. Computes(e, b)
    BY <1>2, <1>4, PlainComputes
<1> QED
    BY <1>5 DEF b

\* An expression in brackets: nothing outside is touched until they close.
LEMMA BracketsCompute ==
    ASSUME NEW e \in Seq(STRING), Bracketed(e), NEW a \in -128 .. 127, Computes(Inner(e), a)
    PROVE  Computes(e, a)
<1> DEFINE n == Len(e)
           r == Right(e, 1)
<1>1. n \in Nat /\ n > 2 /\ 1 \in 1 .. n /\ e[1] = "(" /\ e[n] = ")"
    BY DEF Bracketed, Last
<1>2. /\ Left(e, 1) = <<>> /\ r \in Seq(STRING) /\ Len(r) = n - 1
      /\ \A j \in 1 .. n - 1 : r[j] = e[1 + j]
    <2>1. Left(e, 1) \in Seq(STRING) /\ Len(Left(e, 1)) = 1 - 1
        BY <1>1, PartsType
    <2>2. r \in Seq(STRING) /\ Len(r) = n - 1 /\ \A j \in 1 .. n - 1 : r[j] = e[1 + j]
        BY <1>1, PartsType
    <2> QED
        BY <2>1, <2>2
<1> HIDE DEF r
<1>3. n - 1 \in 1 .. Len(r) /\ r[n - 1] = ")"
    <2>1. n - 1 \in 1 .. n - 1 /\ 1 + (n - 1) = n
        BY <1>1
    <2> HIDE DEF n
    <2> QED
        BY <1>1, <1>2, <2>1
<1>4. Left(r, n - 1) = Inner(e) /\ Right(r, n - 1) = <<>>
    <2> HIDE DEF n
    <2>1. /\ Left(r, n - 1) \in Seq(STRING) /\ Len(Left(r, n - 1)) = (n - 1) - 1
          /\ \A j \in 1 .. (n - 1) - 1 : Left(r, n - 1)[j] = r[j]
        BY <1>2, <1>3, PartsType
    <2>2. Right(r, n - 1) \in Seq(STRING) /\ Len(Right(r, n - 1)) = Len(r) - (n - 1)
        BY <1>2, <1>3, PartsType
    <2>3. Inner(e) \in Seq(STRING) /\ Len(Inner(e)) = n - 2 /\ \A j \in 1 .. n - 2 : Inner(e)[j] = e[j + 1]
        BY <1>1, PartsType DEF n
    <2>4. (n - 1) - 1 = n - 2 /\ Len(r) - (n - 1) = 0 /\ \A j \in 1 .. n - 2 : j \in 1 .. n - 1 /\ 1 + j = j + 1
        BY <1>1, <1>2
    <2>5. \A j \in 1 .. n - 2 : Left(r, n - 1)[j] = Inner(e)[j]
        BY <1>2, <2>1, <2>3, <2>4
    <2>6. Left(r, n - 1) = Inner(e)
        <3> DEFINE l == Left(r, n - 1)
        <3> HIDE DEF l
        <3>1. l \in Seq(STRING) /\ Len(l) = Len(Inner(e)) /\ \A j \in 1 .. Len(l) : l[j] = Inner(e)[j]
            BY <2>1, <2>3, <2>4, <2>5 DEF l
        <3>2. l = Inner(e)
            BY <2>3, <3>1, SeqEqual
        <3> QED
            BY <3>2 DEF l
    <2> QED
        BY <2>2, <2>4, <2>6
<1>5. ASSUME NEW o, NEW m, NEW f, Waiting(o, m), f \in BOOLEAN
      PROVE  \E g \in BOOLEAN : Reads(Stacked(o, Append(m, 0), f), e, Stacked(o, Append(m, a), g))
    <2> DEFINE c == Stacked(o, Append(m, 0), f)
               p == Append(o, "(")
               d == Stacked(p, Append(m, 0), f)
    <2>1. Waiting(p, m) /\ o \in Seq({"+", "-", "*", "/", "("})
        BY <1>5, WaitingMore DEF Waiting
    <2>2. AtSum(p) /\ AtProduct(p)
        <3> DEFINE Marks == {"+", "-", "*", "/", "("}
        <3>1. o \in Seq(Marks) /\ "(" \in Marks
            BY <2>1
        <3>2. Last(p) = "("
            <4> HIDE DEF Marks
            <4> QED
                BY <3>1, LastOf
        <3> QED
            BY <3>2 DEF AtSum, AtProduct
    <2> HIDE DEF p
    <2>3. Suits(Inner(e), p)
        BY <2>2 DEF Suits
    <2>4. PICK x : \E g \in BOOLEAN : /\ Reads(d, Inner(e), x)
                                      /\ Leaves(Inner(e), p, x, Stacked(p, Append(m, a), g))
        BY <1>5, <2>1, <2>3 DEF Computes
    <2>5. PICK g \in BOOLEAN : Until(x, {"("}) = Stacked(p, Append(m, a), g)
        BY <2>2, <2>4 DEF Leaves
    <2> DEFINE y == Stacked(o, Append(m, a), g)
    <2>6. Read(x, ")") = y
        BY <2>1, <2>5, ReadClosing DEF p
    <2>7. Read(c, "(") = d
        BY ReadOpening DEF p
    <2> HIDE DEF c, d, y, n
    <2>8. Reads(d, r, y)
        <3>1. Reads(d, Left(r, n - 1), x) /\ Reads(Read(x, r[n - 1]), Right(r, n - 1), y)
            BY <1>3, <1>4, <2>4, <2>6, ReadsNothing
        <3> QED
            BY <1>2, <1>3, <3>1, ReadsThen
    <2>9. Reads(c, Left(e, 1), c) /\ Reads(Read(c, e[1]), Right(e, 1), y)
        BY <1>1, <1>2, <2>7, <2>8, ReadsNothing DEF r
    <2>10. Reads(c, e, y)
        BY <1>1, <2>9, ReadsThen DEF n
    <2> QED
        BY <2>10 DEF c, y
<1> QED
    BY <1>5, PlainComputes

\* The loop that is due when an operator is on top of its two numbers takes it, and
\* nothing more.
LEMMA OperatorTaken ==
    ASSUME NEW o, NEW m, Waiting(o, m), NEW ch \in Operations,
           NEW a \in Bytes, NEW b \in Bytes, NEW g \in BOOLEAN,
           NEW stops, "(" \in stops, ch \notin stops, o = <<>> \/ Last(o) \in stops
    PROVE  \E h \in BOOLEAN : Until(Stacked(Append(o, ch), Append(Append(m, a), b), g), stops)
                              = Stacked(o, Append(m, Apply(ch, a, b)), h)
<1> DEFINE y == Stacked(Append(o, ch), Append(Append(m, a), b), g)
<1>0. ch \in {"+", "-", "*", "/"} /\ a \in -128 .. 127 /\ b \in -128 .. 127
    BY DEF Operations, Bytes
<1>1. Waiting(Append(o, ch), Append(m, a))
    BY <1>0, WaitingMore
<1>2. Fits(y)
    BY <1>0, <1>1, WaitingFits
<1> DEFINE h == Faults(g, ch, b)
<1>3. Reduce(y) = Stacked(o, Append(m, Apply(ch, a, b)), h) /\ h \in BOOLEAN
    <2>1. Reduce(y) = Stacked(o, Append(m, Apply(ch, a, b)), h)
        BY ReduceTop
    <2> QED
        BY <2>1 DEF Faults
<1> HIDE DEF h
<1> DEFINE z == Stacked(o, Append(m, Apply(ch, a, b)), h)
<1>4. Fits(z) /\ z.op = o
    <2>1. Apply(ch, a, b) \in -128 .. 127
        <3>1. a \in Int /\ b \in Int
            BY <1>0
        <3> QED
            BY <1>0, <3>1, ApplyType
    <2>2. z.op = o
        BY DEF Stacked
    <2> QED
        BY <1>3, <2>1, <2>2, WaitingFits
<1>5. y.op # <<>> /\ Last(y.op) = ch
    <2> DEFINE Marks == {"+", "-", "*", "/", "("}
    <2>1. o \in Seq(Marks) /\ ch \in Marks /\ y.op = Append(o, ch)
        BY <1>0 DEF Waiting, Stacked
    <2> HIDE DEF Marks, y
    <2> QED
        BY <2>1, LastOf
<1> HIDE DEF y, z
<1>6. Until(y, stops) = Until(Reduce(y), stops)
    BY <1>2, <1>5, UntilGoesOn
<1>7. Reduce(y) = z
    BY <1>3 DEF z
<1>8. Until(z, stops) = z
    BY <1>4, UntilStays
<1> QED
    BY <1>3, <1>6, <1>7, <1>8 DEF y, z

\* A sum: the first operand is reduced to one number when the sign is read, the second
\* when the next operator of the kind or the end is.
LEMMA SumComputes ==
    ASSUME NEW e \in Seq(STRING), Sums(e) # {}, NEW k, k = Max(Sums(e)),
           NEW a \in -128 .. 127, IF k = 1 THEN a = 0 ELSE Computes(Left(e, k), a),
           NEW b \in -128 .. 127, Computes(Right(e, k), b)
    PROVE  Computes(e, Apply(e[k], a, b))
<1> DEFINE ch == e[k]
           r == Right(e, k)
<1>1. k \in 1 .. Len(e) /\ ch \in {"+", "-"} /\ Sums(r) = {}
    BY SplitAt, RightOfLast DEF Sums
<1>2. Left(e, k) \in Seq(STRING) /\ Len(Left(e, k)) = k - 1
    BY <1>1, PartsType
<1> HIDE DEF ch, r
<1> SUFFICES ASSUME NEW o, NEW m, NEW f, Waiting(o, m), f \in BOOLEAN, Suits(e, o)
             PROVE  \E x : \E g \in BOOLEAN :
                        /\ Reads(Stacked(o, Append(m, 0), f), e, x)
                        /\ Fits(x) /\ Opened(x.op) = Opened(o)
                        /\ Leaves(e, o, x, Stacked(o, Append(m, Apply(ch, a, b)), g))
    BY DEF Computes, ch
<1> DEFINE c == Stacked(o, Append(m, 0), f)
<1>3. AtSum(o)
    BY DEF Suits
<1>4. \E d : \E g \in BOOLEAN : Reads(c, Left(e, k), d) /\ Until(d, {"("}) = Stacked(o, Append(m, a), g)
    <2>1. CASE k = 1
        <3>1. Left(e, k) = <<>>
            BY <1>2, <2>1
        <3>2. Fits(c) /\ c.op = o
            <4>1. Fits(c)
                BY WaitingFits
            <4> QED
                BY <4>1 DEF Stacked
        <3> HIDE DEF c
        <3>3. Until(c, {"("}) = c
            BY <1>3, <3>2, UntilStays DEF AtSum
        <3> QED
            BY <2>1, <3>1, <3>3, ReadsNothing DEF c
    <2>2. CASE k # 1
        <3>1. Suits(Left(e, k), o)
            BY <1>3 DEF Suits, AtSum, AtProduct
        <3>2. \E d : \E g \in BOOLEAN : /\ Reads(c, Left(e, k), d)
                                        /\ Leaves(Left(e, k), o, d, Stacked(o, Append(m, a), g))
            BY <2>2, <3>1 DEF Computes
        <3> QED
            BY <1>3, <3>2 DEF Leaves
    <2> QED
        BY <2>1, <2>2
<1>5. PICK d : \E g \in BOOLEAN : Reads(c, Left(e, k), d) /\ Until(d, {"("}) = Stacked(o, Append(m, a), g)
    BY <1>4
<1>6. PICK g \in BOOLEAN : Reads(c, Left(e, k), d) /\ Until(d, {"("}) = Stacked(o, Append(m, a), g)
    BY <1>5
<1> DEFINE p == Append(o, ch)
           q == Append(m, a)
<1>7. Read(d, ch) = Stacked(p, Append(q, 0), g)
    BY <1>1, <1>6, ReadOperator
<1>8. Waiting(p, q) /\ Opened(p) = Opened(o)
    <2>1. ch \in {"+", "-", "*", "/"}
        BY <1>1
    <2> QED
        BY <2>1, WaitingMore, ZenonT(40)
<1>9. p # <<>> /\ Last(p) = ch
    <2> DEFINE Marks == {"+", "-", "*", "/", "("}
    <2>1. o \in Seq(Marks) /\ ch \in Marks
        BY <1>1 DEF Waiting
    <2> HIDE DEF Marks
    <2> QED
        BY <2>1, LastOf
<1> HIDE DEF p, q, c
<1>10. AtProduct(p) /\ Suits(r, p)
    BY <1>1, <1>9 DEF AtProduct, Suits
<1>11. PICK x : \E h \in BOOLEAN :
            /\ Reads(Stacked(p, Append(q, 0), g), r, x) /\ Fits(x) /\ Opened(x.op) = Opened(p)
            /\ Leaves(r, p, x, Stacked(p, Append(q, b), h))
    BY <1>8, <1>10 DEF Computes, r
<1>12. PICK h \in BOOLEAN : Until(x, {"(", "+", "-"}) = Stacked(p, Append(q, b), h)
    BY <1>1, <1>10, <1>11 DEF Leaves
<1>13. \E i \in BOOLEAN : Until(Stacked(p, Append(q, b), h), {"("}) = Stacked(o, Append(m, Apply(ch, a, b)), i)
    <2>1. /\ ch \in Operations /\ a \in Bytes /\ b \in Bytes
          /\ ch \notin {"("} /\ "(" \in {"("}
        BY <1>1 DEF Operations, Bytes
    <2>2. o = <<>> \/ Last(o) \in {"("}
        BY <1>3 DEF AtSum
    <2> QED
        BY <2>1, <2>2, OperatorTaken DEF p, q
<1>14. Until(x, {"("}) = Until(Stacked(p, Append(q, b), h), {"("})
    <2>1. {"("} \subseteq {"(", "+", "-"} /\ "(" \in {"("}
        OBVIOUS
    <2> QED
        BY <1>11, <1>12, <2>1, UntilTwice
<1>15. Reads(c, e, x)
    BY <1>1, <1>6, <1>7, <1>11, ReadsThen DEF ch, r
<1>16. \A y : Until(x, {"("}) = y => Leaves(e, o, x, y)
    BY DEF Leaves
<1> QED
    BY <1>8, <1>11, <1>13, <1>14, <1>15, <1>16 DEF c

\* A product, likewise.
LEMMA ProductComputes ==
    ASSUME NEW e \in Seq(STRING), Sums(e) = {}, Products(e) # {}, NEW k, k = Max(Products(e)),
           NEW a \in -128 .. 127, Computes(Left(e, k), a),
           NEW b \in -128 .. 127, Computes(Right(e, k), b)
    PROVE  Computes(e, Apply(e[k], a, b))
<1> DEFINE ch == e[k]
           r == Right(e, k)
<1>1. k \in 1 .. Len(e) /\ ch \in {"*", "/"} /\ Depth(e, k) = 0 /\ Products(r) = {}
    BY SplitAt, RightOfLast DEF Products
<1>2. Sums(Left(e, k)) = {} /\ Sums(r) = {}
    BY <1>1, OuterOfParts DEF Sums
<1> HIDE DEF ch, r
<1> SUFFICES ASSUME NEW o, NEW m, NEW f, Waiting(o, m), f \in BOOLEAN, Suits(e, o)
             PROVE  \E x : \E g \in BOOLEAN :
                        /\ Reads(Stacked(o, Append(m, 0), f), e, x)
                        /\ Fits(x) /\ Opened(x.op) = Opened(o)
                        /\ Leaves(e, o, x, Stacked(o, Append(m, Apply(ch, a, b)), g))
    BY DEF Computes, ch
<1> DEFINE c == Stacked(o, Append(m, 0), f)
           more == {"(", "+", "-"}
<1>3. AtProduct(o) /\ Suits(Left(e, k), o)
    BY <1>2 DEF Suits
<1>4. PICK d : \E g \in BOOLEAN : Reads(c, Left(e, k), d) /\ Until(d, more) = Stacked(o, Append(m, a), g)
    BY <1>2, <1>3 DEF Computes, Leaves
<1>5. PICK g \in BOOLEAN : Reads(c, Left(e, k), d) /\ Until(d, more) = Stacked(o, Append(m, a), g)
    BY <1>4
<1> DEFINE p == Append(o, ch)
           q == Append(m, a)
<1>6. Read(d, ch) = Stacked(p, Append(q, 0), g)
    BY <1>1, <1>5, ReadOperator
<1>7. Waiting(p, q) /\ Opened(p) = Opened(o)
    <2>1. ch \in {"+", "-", "*", "/"}
        BY <1>1
    <2> QED
        BY <2>1, WaitingMore, ZenonT(40)
<1> HIDE DEF p, q, c
<1>8. Suits(r, p)
    BY <1>1, <1>2 DEF Suits
<1>9. PICK x : \E h \in BOOLEAN :
            /\ Reads(Stacked(p, Append(q, 0), g), r, x) /\ Fits(x) /\ Opened(x.op) = Opened(p)
            /\ Leaves(r, p, x, Stacked(p, Append(q, b), h))
    BY <1>7, <1>8 DEF Computes, r
<1>10. PICK h \in BOOLEAN : x = Stacked(p, Append(q, b), h)
    BY <1>1, <1>2, <1>9 DEF Leaves
<1>11. PICK i \in BOOLEAN : Until(x, more) = Stacked(o, Append(m, Apply(ch, a, b)), i)
    <2>1. /\ ch \in Operations /\ a \in Bytes /\ b \in Bytes
          /\ ch \notin more /\ "(" \in more
        BY <1>1 DEF Operations, Bytes
    <2>2. o = <<>> \/ Last(o) \in more
        BY <1>3 DEF AtProduct
    <2> HIDE DEF more
    <2> QED
        BY <1>10, <2>1, <2>2, OperatorTaken DEF p, q
<1> DEFINE y == Stacked(o, Append(m, Apply(ch, a, b)), i)
<1>12. Fits(y) /\ y.op = o
    <2>1. Apply(ch, a, b) \in -128 .. 127
        <3>1. ch \in {"+", "-", "*", "/"} /\ a \in Int /\ b \in Int
            BY <1>1
        <3> QED
            BY <3>1, ApplyType
    <2> QED
        BY <2>1, WaitingFits DEF Stacked
<1> HIDE DEF y
<1>13. Leaves(e, o, x, y)
    BY <1>9, <1>11, <1>12, LeavesProduct DEF y
<1>14. Reads(c, e, x)
    BY <1>1, <1>5, <1>6, <1>9, ReadsThen DEF ch, r
<1> QED
    BY <1>7, <1>9, <1>13, <1>14 DEF c, y

\* One step of the recursion by which the value is defined.
LEMMA ValueFromComputes ==
    ASSUME NEW v \in [Seq(STRING) -> Values], \A d \in Seq(STRING) : v[d] # NONE => Computes(d, v[d]),
           NEW e \in Seq(STRING), ValueFrom(v, e) # NONE
    PROVE  Computes(e, ValueFrom(v, e))
<1>0. /\ \A d \in Seq(STRING) : v[d] # NONE => v[d] \in -128 .. 127
      /\ 0 \in -128 .. 127 /\ 0 # NONE
    BY DEF Values, NONE
<1>1. CASE IsNumber(e)
    <2> DEFINE a == IF Len(e) = 1 THEN 0 ELSE v[Front(e)]
    <2>1. ValueFrom(v, e) = Shift(a, Last(e))
        BY <1>1 DEF ValueFrom
    <2>2. a # NONE /\ Shift(a, Last(e)) = Byte(a * 10 + DigitOf(Last(e)))
        <3> HIDE DEF a
        <3> QED
            BY <2>1 DEF Shift
    <2>3. Len(e) # 1 => Front(e) \in Seq(STRING)
        BY <1>1, NumberPlain
    <2>4. a \in -128 .. 127 /\ IF Len(e) = 1 THEN a = 0 ELSE Computes(Front(e), a)
        BY <1>0, <2>2, <2>3
    <2> HIDE DEF a
    <2> QED
        BY <1>1, <2>1, <2>2, <2>4, NumberComputes
<1>2. CASE ~IsNumber(e) /\ Sums(e) # {}
    <2> DEFINE k == Max(Sums(e))
               a == IF k = 1 THEN 0 ELSE v[Left(e, k)]
               b == v[Right(e, k)]
    <2>1. k \in 1 .. Len(e)
        BY <1>2, SplitAt DEF Sums
    <2>2. ValueFrom(v, e) = Combine(e[k], a, b)
        BY <1>2 DEF ValueFrom
    <2> HIDE DEF k
    <2>3. Left(e, k) \in Seq(STRING) /\ Right(e, k) \in Seq(STRING)
        BY <2>1, PartsType
    <2>4. a # NONE /\ b # NONE /\ Combine(e[k], a, b) = Apply(e[k], a, b)
        <3> HIDE DEF a, b
        <3> QED
            BY <2>2 DEF Combine
    <2>5. /\ a \in -128 .. 127 /\ IF k = 1 THEN a = 0 ELSE Computes(Left(e, k), a)
          /\ b \in -128 .. 127 /\ Computes(Right(e, k), b)
        BY <1>0, <2>3, <2>4
    <2> HIDE DEF a, b
    <2> QED
        BY <1>2, <2>2, <2>4, <2>5, SumComputes DEF k
<1>3. CASE ~IsNumber(e) /\ Sums(e) = {} /\ Products(e) # {}
    <2> DEFINE k == Max(Products(e))
               a == v[Left(e, k)]
               b == v[Right(e, k)]
    <2>1. k \in 1 .. Len(e)
        BY <1>3, SplitAt DEF Products
    <2>2. ValueFrom(v, e) = Combine(e[k], a, b)
        BY <1>3 DEF ValueFrom
    <2> HIDE DEF k
    <2>3. Left(e, k) \in Seq(STRING) /\ Right(e, k) \in Seq(STRING)
        BY <2>1, PartsType
    <2>4. a # NONE /\ b # NONE /\ Combine(e[k], a, b) = Apply(e[k], a, b)
        <3> HIDE DEF a, b
        <3> QED
            BY <2>2 DEF Combine
    <2>5. a \in -128 .. 127 /\ Computes(Left(e, k), a) /\ b \in -128 .. 127 /\ Computes(Right(e, k), b)
        BY <1>0, <2>3, <2>4
    <2> HIDE DEF a, b
    <2> QED
        BY <1>3, <2>2, <2>4, <2>5, ProductComputes DEF k
<1>4. CASE ~IsNumber(e) /\ Sums(e) = {} /\ Products(e) = {}
    <2>1. ValueFrom(v, e) = IF Bracketed(e) THEN v[Inner(e)] ELSE NONE
        BY <1>4 DEF ValueFrom
    <2>2. Bracketed(e) /\ ValueFrom(v, e) = v[Inner(e)]
        BY <2>1
    <2>3. Inner(e) \in Seq(STRING)
        BY <2>2, PartsType DEF Bracketed
    <2>4. v[Inner(e)] \in -128 .. 127 /\ Computes(Inner(e), v[Inner(e)])
        BY <1>0, <2>2, <2>3
    <2> QED
        BY <2>2, <2>4, BracketsCompute
<1> QED
    BY <1>1, <1>2, <1>3, <1>4

\* cal (calculator.c) computes the value of a well-formed expression of any length: where
\* one may stand, it is read to its value on top of what was there, once its last operators
\* are applied.
THEOREM ValueComputes ==
    ASSUME NEW e \in Seq(STRING), WellFormed(e)
    PROVE  Value(e) \in -128 .. 127 /\ Computes(e, Value(e))
<1> DEFINE T == {n \in Nat : \A d \in Seq(STRING) : ValueOf[n][d] # NONE => Computes(d, ValueOf[n][d])}
<1>1. 0 \in T
    <2>1. \A d \in Seq(STRING) : ValueOf[0][d] = NONE
        BY ValueUnfold
    <2> QED
        BY <2>1
<1>2. \A n \in Nat : n \in T => n + 1 \in T
    <2> SUFFICES ASSUME NEW n \in Nat, n \in T, NEW d \in Seq(STRING), ValueOf[n + 1][d] # NONE
                 PROVE  Computes(d, ValueOf[n + 1][d])
        OBVIOUS
    <2> DEFINE v == ValueOf[n]
    <2>1. v \in [Seq(STRING) -> Values] /\ ValueOf[n + 1][d] = ValueFrom(v, d)
        BY ValueUnfold
    <2>2. \A c \in Seq(STRING) : v[c] # NONE => Computes(c, v[c])
        OBVIOUS
    <2> HIDE DEF v, T
    <2>3. ValueFrom(v, d) # NONE
        BY <2>1
    <2>4. Computes(d, ValueFrom(v, d))
        BY <2>1, <2>2, <2>3, ValueFromComputes
    <2> QED
        BY <2>1, <2>4
<1>3. Nat \subseteq T
    <2> HIDE DEF T
    <2> QED
        BY <1>1, <1>2, SetInduction
<1>4. Len(e) \in Nat
    OBVIOUS
<1>5. Computes(e, Value(e))
    <2>1. \A n \in Nat : ValueOf[n][e] # NONE => Computes(e, ValueOf[n][e])
        BY <1>3
    <2> QED
        BY <1>4, <2>1 DEF Value, WellFormed
<1>6. Value(e) \in -128 .. 127
    <2>1. ValueOf[Len(e)] \in [Seq(STRING) -> Values]
        BY <1>4, ValueUnfold
    <2>2. Value(e) \in Values
        BY <2>1 DEF Value
    <2> QED
        BY <2>2 DEF Values, WellFormed
<1> QED
    BY <1>5, <1>6

-----------------------------------------------------------------------------
(* what the calculators print *)

\* What is left to read leaves on the stacks what the whole would on empty ones.
Pending(p) ==
    prog[p] \in {"calc", "cal"} =>
        /\ Arg(line[p]) \in Seq(STRING)
        /\ \A x : Reads(Cleared, Arg(line[p]), x) => Reads(stacks[Owner(p)], todo[p], x)

Sound == /\ line = [p \in Procs |-> line[p]]
         /\ \A p \in Procs : Pending(p)
         /\ Calculated

\* A step of another process.
LEMMA PendingKept ==
    ASSUME NEW q \in Procs, Pending(q), prog'[q] = prog[q], line'[q] = line[q], todo'[q] = todo[q],
           prog[q] \in {"calc", "cal"} => stacks'[Owner(q)] = stacks[Owner(q)]
    PROVE  Pending(q)'
<1>1. Owner(q)' = Owner(q)
    BY DEF Owner
<1>2. CASE prog[q] \in {"calc", "cal"}
    <2>1. stacks'[Owner(q)'] = stacks[Owner(q)]
        BY <1>1, <1>2
    <2> QED
        BY <1>2, <2>1 DEF Pending
<1>3. CASE prog[q] \notin {"calc", "cal"}
    BY <1>3 DEF Pending
<1> QED
    BY <1>2, <1>3

\* A step of one process, of which it remains to be shown what becomes of its own.
LEMMA SoundKept ==
    ASSUME Sound, Stacks, NEW p \in Procs, line' = [q \in Procs |-> line'[q]],
           \A q \in Procs \ {p} :
               /\ prog'[q] = prog[q] /\ line'[q] = line[q] /\ todo'[q] = todo[q] /\ says'[q] = says[q]
               /\ prog[q] \in {"calc", "cal"} => stacks'[Owner(q)] = stacks[Owner(q)],
           Pending(p)',
           says'[p] # NONE /\ WellFormed(Arg(line'[p])) => says'[p] = Value(Arg(line'[p]))
    PROVE  Sound'
<1>1. \A q \in Procs : Pending(q)'
    <2> SUFFICES ASSUME NEW q \in Procs, q # p PROVE Pending(q)'
        OBVIOUS
    <2>1. Pending(q)
        BY DEF Sound
    <2> QED
        BY <2>1, PendingKept
<1>2. Calculated'
    <2>1. \A q \in Procs : says'[q] # NONE /\ WellFormed(Arg(line'[q])) => says'[q] = Value(Arg(line'[q]))
        BY DEF Sound, Calculated
    <2> QED
        BY <2>1 DEF Calculated
<1> QED
    BY <1>1, <1>2 DEF Sound

\* A calculation begins.
LEMMA SoundBegins ==
    ASSUME Sound, Stacks, NEW p \in Procs, prog[p] = "shell", NEW l \in Lines[p],
           NEW what \in {"calc", "cal"}, prog' = [prog EXCEPT ![p] = what],
           what = "cal" => \A q \in Procs \ {p} : prog[q] # "cal",
           IsUser(l, "calc") \/ IsKernel(l, "calc"), line' = [line EXCEPT ![p] = l],
           todo' = [todo EXCEPT ![p] = Arg(l)], says' = [says EXCEPT ![p] = NONE],
           stacks' = [stacks EXCEPT ![IF what = "cal" THEN KERNEL ELSE p] = Cleared]
    PROVE  Sound'
<1> DEFINE o == IF what = "cal" THEN KERNEL ELSE p
<1>1. Arg(l) \in Seq(STRING)
    BY ArgType
<1>2. \A q \in Procs : /\ prog'[q] = IF q = p THEN what ELSE prog[q]
                       /\ todo'[q] = IF q = p THEN Arg(l) ELSE todo[q]
                       /\ says'[q] = IF q = p THEN NONE ELSE says[q]
    BY DEF Stacks
<1>3. /\ \A q \in Procs : line'[q] = IF q = p THEN l ELSE line[q]
      /\ line' = [q \in Procs |-> line'[q]]
    BY DEF Sound
<1>4. o \in Procs \cup {KERNEL} /\ p # KERNEL /\ KERNEL \notin Procs
    BY CommandsAssumption DEF KERNEL
<1>5. \A r \in Procs \cup {KERNEL} : stacks'[r] = IF r = o THEN Cleared ELSE stacks[r]
    BY <1>4 DEF Stacks
<1>6. Owner(p)' = o
    BY <1>2 DEF Owner
<1>7. Pending(p)'
    <2>1. stacks'[Owner(p)'] = Cleared /\ line'[p] = l /\ todo'[p] = Arg(l)
        <3> HIDE DEF o
        <3> QED
            BY <1>2, <1>3, <1>4, <1>5, <1>6
    <2> QED
        BY <1>1, <2>1 DEF Pending
<1>8. ASSUME NEW q \in Procs \ {p}, prog[q] \in {"calc", "cal"}
      PROVE  stacks'[Owner(q)] = stacks[Owner(q)]
    <2>1. Owner(q) # o /\ Owner(q) \in Procs \cup {KERNEL}
        BY <1>4 DEF Owner
    <2> HIDE DEF o
    <2> QED
        BY <1>5, <2>1
<1> HIDE DEF o
<1> QED
    BY <1>2, <1>3, <1>7, <1>8, SoundKept, ZenonT(40)

\* A character is read, or a calculation ends.
LEMMA SoundGoesOn ==
    ASSUME Sound, Stacks, NEW p \in Procs, prog[p] \in {"calc", "cal"},
           NEW what \in {prog[p], "shell"}, prog' = [prog EXCEPT ![p] = what],
           NEW d, stacks' = [stacks EXCEPT ![Owner(p)] = d],
           NEW more, todo' = [todo EXCEPT ![p] = more], UNCHANGED line,
           NEW n, says' = [says EXCEPT ![p] = n],
           what # "shell" => \A x : Reads(Cleared, Arg(line[p]), x) => Reads(d, more, x),
           n # NONE /\ WellFormed(Arg(line[p])) => n = Value(Arg(line[p]))
    PROVE  Sound'
<1>1. \A q \in Procs : /\ prog'[q] = IF q = p THEN what ELSE prog[q]
                       /\ todo'[q] = IF q = p THEN more ELSE todo[q]
                       /\ says'[q] = IF q = p THEN n ELSE says[q]
    BY DEF Stacks
<1>2. line' = [q \in Procs |-> line'[q]]
    BY DEF Sound
<1>3. Owner(p) \in Procs \cup {KERNEL}
    BY DEF Owner
<1>4. \A r \in Procs \cup {KERNEL} : stacks'[r] = IF r = Owner(p) THEN d ELSE stacks[r]
    BY DEF Stacks
<1>5. Pending(p)'
    <2>1. CASE what = "shell"
        BY <1>1, <2>1 DEF Pending
    <2>2. CASE what # "shell"
        <3>1. prog'[p] = prog[p] /\ what = prog[p]
            BY <1>1, <2>2
        <3>2. Owner(p)' = Owner(p)
            BY <3>1 DEF Owner
        <3>3. stacks'[Owner(p)'] = d /\ todo'[p] = more
            BY <1>1, <1>3, <1>4, <3>2
        <3>4. Pending(p)
            BY DEF Sound
        <3> QED
            BY <2>2, <3>3, <3>4 DEF Pending
    <2> QED
        BY <2>1, <2>2
<1>6. ASSUME NEW q \in Procs \ {p}, prog[q] \in {"calc", "cal"}
      PROVE  stacks'[Owner(q)] = stacks[Owner(q)]
    <2>1. Owner(q) # Owner(p)
        BY <1>6, OwnStacks
    <2>2. Owner(q) \in Procs \cup {KERNEL}
        BY DEF Owner
    <2> QED
        BY <1>4, <2>1, <2>2
<1> QED
    BY <1>1, <1>2, <1>5, <1>6, SoundKept

\* The last loop leaves the value of the expression that has been read from empty stacks.
LEMMA FinishIsValue ==
    ASSUME NEW e \in Seq(STRING), WellFormed(e), NEW c, \A x : Reads(Cleared, e, x) => x = c
    PROVE  Head(Finish(c).num) = Value(e)
<1> DEFINE v == Value(e)
           m == Append(<<>>, v)
<1>1. v \in -128 .. 127 /\ Computes(e, v)
    BY ValueComputes
<1>2. Opened(<<>>) = 0
    BY CountStep DEF Opened
<1>3. Waiting(<<>>, <<>>)
    BY <1>2 DEF Waiting
<1>4. Cleared = Stacked(<<>>, Append(<<>>, 0), FALSE)
    BY DEF Cleared, Stacked
<1>5. AtSum(<<>>) /\ Suits(e, <<>>)
    BY DEF Suits, AtSum, AtProduct
<1>6. PICK x : \E g \in BOOLEAN :
            /\ Reads(Cleared, e, x) /\ Fits(x) /\ Opened(x.op) = Opened(<<>>)
            /\ Leaves(e, <<>>, x, Stacked(<<>>, m, g))
    BY <1>1, <1>3, <1>4, <1>5 DEF Computes
<1>7. x = c /\ Fits(c) /\ Opened(c.op) = 0
    BY <1>2, <1>6
<1>8. PICK g \in BOOLEAN : Until(c, {"("}) = Stacked(<<>>, m, g)
    BY <1>5, <1>6, <1>7 DEF Leaves
<1> DEFINE y == Stacked(<<>>, m, g)
<1>9. Fits(y)
    BY <1>1, <1>3, WaitingFits
<1>10. y.op = <<>> /\ y.num = m
    BY DEF Stacked
<1> HIDE DEF y
<1>11. Until(Until(c, {"("}), {}) = Until(c, {})
    <2>1. {} \subseteq {"("}
        OBVIOUS
    <2> QED
        BY <1>7, <2>1, UntilTwice
<1>12. Opened(y.op) = 0
    BY <1>2, <1>10
<1>13. Until(y, {}) = y
    BY <1>9, <1>10, <1>12, UntilStays
<1>14. Finish(c) = y
    BY <1>8, <1>11, <1>13 DEF Finish, y
<1>15. Head(m) = v
    <2> DEFINE Chars == -128 .. 127
    <2>1. v \in Chars /\ <<>> \in Seq(Chars)
        BY <1>1
    <2> HIDE DEF v, Chars
    <2>2. m = <<v>>
        BY <2>1
    <2> QED
        BY <2>2
<1> QED
    BY <1>10, <1>14, <1>15

LEMMA SoundReads == ASSUME Sound, Stacks, NEW p \in Procs, ReadOne(p) PROVE Sound'
<1> DEFINE o == Owner(p)
           c == stacks[o]
           e == todo[p]
           d == Read(c, Head(e))
<1>1. /\ prog[p] \in {"calc", "cal"} /\ e # <<>> /\ UNCHANGED <<prog, line, says>>
      /\ stacks' = [stacks EXCEPT ![o] = d] /\ todo' = [todo EXCEPT ![p] = Tail(e)]
    BY DEF ReadOne, Calculates
<1>2. e \in Seq(STRING) /\ prog' = [prog EXCEPT ![p] = prog[p]] /\ says' = [says EXCEPT ![p] = says[p]]
    BY <1>1 DEF Stacks
<1>3. Pending(p) /\ (says[p] # NONE /\ WellFormed(Arg(line[p])) => says[p] = Value(Arg(line[p])))
    BY DEF Sound, Calculated
<1> HIDE DEF c, e
<1>4. \A x : Reads(Cleared, Arg(line[p]), x) => Reads(d, Tail(e), x)
    <2> SUFFICES ASSUME NEW x, Reads(Cleared, Arg(line[p]), x) PROVE Reads(d, Tail(e), x)
        OBVIOUS
    <2>1. Reads(c, e, x)
        BY <1>1, <1>3 DEF Pending, c, e
    <2> QED
        BY <1>1, <1>2, <2>1, ReadsTail
<1> DEFINE t == Tail(e)
<1> HIDE DEF d, t, o
<1>5. /\ stacks' = [stacks EXCEPT ![Owner(p)] = d] /\ todo' = [todo EXCEPT ![p] = t]
      /\ \A x : Reads(Cleared, Arg(line[p]), x) => Reads(d, t, x)
    BY <1>1, <1>4 DEF o, t
<1> QED
    BY <1>1, <1>2, <1>3, <1>5, SoundGoesOn

LEMMA SoundEnds == ASSUME Sound, Stacks, NEW p \in Procs, Result(p) PROVE Sound'
<1> DEFINE c == stacks[Owner(p)]
           f == Finish(c)
           d == IF Owner(p) = KERNEL THEN f ELSE Cleared
           n == IF f.fault THEN NONE ELSE Head(f.num)
<1>1. /\ prog[p] \in {"calc", "cal"} /\ todo[p] = <<>> /\ prog' = [prog EXCEPT ![p] = "shell"]
      /\ UNCHANGED <<line, todo>> /\ stacks' = [stacks EXCEPT ![Owner(p)] = d]
      /\ says' = [says EXCEPT ![p] = n]
    BY DEF Result, Calculates
<1>2. todo' = [todo EXCEPT ![p] = <<>>]
    BY <1>1 DEF Stacks
<1>3. Pending(p)
    BY DEF Sound
<1> HIDE DEF c
<1>4. Arg(line[p]) \in Seq(STRING) /\ \A x : Reads(Cleared, Arg(line[p]), x) => x = c
    <2>1. Arg(line[p]) \in Seq(STRING) /\ \A x : Reads(Cleared, Arg(line[p]), x) => Reads(c, <<>>, x)
        BY <1>1, <1>3 DEF Pending, c
    <2> QED
        BY <2>1, ReadsNothing
<1>5. WellFormed(Arg(line[p])) => Head(f.num) = Value(Arg(line[p]))
    BY <1>4, FinishIsValue
<1> HIDE DEF f
<1>6. n # NONE /\ WellFormed(Arg(line[p])) => n = Value(Arg(line[p]))
    BY <1>5
<1> HIDE DEF d, n
<1> QED
    BY <1>1, <1>2, <1>6, SoundGoesOn

LEMMA SoundInvariance == ASSUME ~Overlap, Sound, Stacks, [Next]_vars PROVE Sound'
<1>1. ASSUME NEW p \in Procs, UserCalc(p) PROVE Sound'
    <2>1. PICK l \in Lines[p] : Given(p, l) /\ IsUser(l, "calc") /\ todo' = [todo EXCEPT ![p] = Arg(l)]
        BY <1>1 DEF UserCalc
    <2>2. prog' = [prog EXCEPT ![p] = "calc"] /\ stacks' = [stacks EXCEPT ![p] = Cleared]
        BY <1>1 DEF UserCalc
    <2> QED
        BY <2>1, <2>2, SoundBegins DEF Given
<1>2. ASSUME NEW p \in Procs, KernelCalc(p) PROVE Sound'
    <2>1. PICK l \in Lines[p] : Given(p, l) /\ IsKernel(l, "calc") /\ todo' = [todo EXCEPT ![p] = Arg(l)]
        BY <1>2 DEF KernelCalc
    <2>2. prog' = [prog EXCEPT ![p] = "cal"] /\ stacks' = [stacks EXCEPT ![KERNEL] = Cleared]
        BY <1>2 DEF KernelCalc
    <2>3. \A q \in Procs \ {p} : prog[q] # "cal"
        BY <1>2 DEF KernelCalc, Alone
    <2> QED
        BY <2>1, <2>2, <2>3, SoundBegins DEF Given
<1>3. ASSUME NEW p \in Procs, ReadOne(p) \/ Result(p) PROVE Sound'
    BY <1>3, SoundReads, SoundEnds
<1>4. ASSUME NEW p \in Procs, Divided(p) PROVE Sound'
    <2>1. /\ prog[p] \in {"calc", "cal"} /\ prog' = [prog EXCEPT ![p] = "shell"]
          /\ todo' = [todo EXCEPT ![p] = <<>>] /\ stacks' = [stacks EXCEPT ![Owner(p)] = Cleared]
          /\ UNCHANGED <<line, says>>
        BY <1>4 DEF Divided
    <2>2. says' = [says EXCEPT ![p] = says[p]]
        BY <2>1 DEF Stacks
    <2>3. says[p] # NONE /\ WellFormed(Arg(line[p])) => says[p] = Value(Arg(line[p]))
        BY DEF Sound, Calculated
    <2> QED
        BY <2>1, <2>2, <2>3, SoundGoesOn
<1>5. ASSUME NEW p \in Procs, NEW l \in Lines[p], Given(p, l), UNCHANGED <<todo, stacks>>,
             NEW what \in {"shell", "info"}, prog' = [prog EXCEPT ![p] = what]
      PROVE  Sound'
    <2>1. /\ \A q \in Procs : /\ line'[q] = IF q = p THEN l ELSE line[q]
                              /\ says'[q] = IF q = p THEN NONE ELSE says[q]
                              /\ prog'[q] = IF q = p THEN what ELSE prog[q]
          /\ line' = [q \in Procs |-> line'[q]]
        BY <1>5 DEF Given, Sound, Stacks
    <2>2. Pending(p)'
        BY <2>1 DEF Pending
    <2> QED
        BY <1>5, <2>1, <2>2, SoundKept
<1>6. ASSUME NEW p \in Procs, Prints(p) \/ Color(p) \/ Serial(p) \/ InfoBegin(p) PROVE Sound'
    <2>1. \E l \in Lines[p] : Given(p, l)
        BY <1>6 DEF Prints, Color, Serial, InfoBegin
    <2>2. UNCHANGED <<todo, stacks>> /\ \E what \in {"shell", "info"} : prog' = [prog EXCEPT ![p] = what]
        <3>1. CASE UNCHANGED prog
            <4>1. prog[p] = "shell"
                BY <2>1 DEF Given
            <4>2. prog' = [prog EXCEPT ![p] = "shell"]
                BY <3>1, <4>1 DEF Stacks
            <4> QED
                BY <1>6, <4>2 DEF Prints, Color, Serial, InfoBegin
        <3>2. CASE ~UNCHANGED prog
            BY <1>6, <3>2 DEF Prints, Color, Serial, InfoBegin
        <3> QED
            BY <3>1, <3>2
    <2> QED
        BY <1>5, <2>1, <2>2
<1>7. ASSUME UNCHANGED <<line, todo, stacks, says>>, NEW p \in Procs, prog[p] = "info",
             prog' = [prog EXCEPT ![p] = "shell"]
      PROVE  Sound'
    <2>1. \A q \in Procs : prog'[q] = IF q = p THEN "shell" ELSE prog[q]
        BY <1>7 DEF Stacks
    <2>2. Pending(p)' /\ line' = [q \in Procs |-> line'[q]]
        BY <1>7, <2>1 DEF Pending, Sound
    <2>3. says'[p] # NONE /\ WellFormed(Arg(line'[p])) => says'[p] = Value(Arg(line'[p]))
        BY <1>7 DEF Sound, Calculated
    <2> QED
        BY <1>7, <2>1, <2>2, <2>3, SoundKept
<1>8. ASSUME UNCHANGED <<prog, line, todo, stacks, says>> PROVE Sound'
    <2>1. \A q \in Procs : Pending(q)'
        BY <1>8, PendingKept DEF Sound
    <2> QED
        BY <1>8, <2>1 DEF Sound, Calculated
<1>9. ASSUME NEW p \in Procs, InfoEnd(p) PROVE Sound'
    BY <1>7, <1>9 DEF InfoEnd
<1>10. ASSUME NEW p \in Procs, Killed(p) PROVE Sound'
    <2>1. /\ prog' = [prog EXCEPT ![p] = "shell"] /\ UNCHANGED <<line, says>>
          /\ todo' = [todo EXCEPT ![p] = <<>>]
          /\ stacks' = IF prog[p] = "calc" THEN [stacks EXCEPT ![p] = Cleared] ELSE stacks
          /\ prog[p] \in {"info", "calc", "cal"}
        BY <1>10 DEF Killed, Calculates
    <2>2. CASE prog[p] \in {"calc", "cal"}
        <3>1. \E d : stacks' = [stacks EXCEPT ![Owner(p)] = d]
            <4>1. CASE prog[p] = "calc"
                BY <2>1, <4>1 DEF Owner
            <4>2. CASE prog[p] = "cal"
                <5>1. stacks' = [stacks EXCEPT ![KERNEL] = stacks[KERNEL]]
                    BY <2>1, <4>2 DEF Stacks
                <5> QED
                    BY <4>2, <5>1 DEF Owner
            <4> QED
                BY <2>2, <4>1, <4>2
        <3>2. says' = [says EXCEPT ![p] = says[p]]
            BY <2>1 DEF Stacks
        <3>3. says[p] # NONE /\ WellFormed(Arg(line[p])) => says[p] = Value(Arg(line[p]))
            BY DEF Sound, Calculated
        <3> QED
            BY <2>1, <2>2, <3>1, <3>2, <3>3, SoundGoesOn
    <2>3. CASE prog[p] = "info"
        <3>1. /\ \A q \in Procs : prog'[q] = IF q = p THEN "shell" ELSE prog[q]
              /\ \A q \in Procs \ {p} : todo'[q] = todo[q]
              /\ stacks' = stacks
            BY <2>1, <2>3 DEF Stacks
        <3>2. Pending(p)' /\ line' = [q \in Procs |-> line'[q]]
            BY <2>1, <3>1 DEF Pending, Sound
        <3>3. says'[p] # NONE /\ WellFormed(Arg(line'[p])) => says'[p] = Value(Arg(line'[p]))
            BY <2>1 DEF Sound, Calculated
        <3> QED
            BY <2>1, <3>1, <3>2, <3>3, SoundKept
    <2> QED
        BY <2>1, <2>2, <2>3
<1>11. CASE Clear \/ UNCHANGED vars
    BY <1>8, <1>11 DEF Clear, vars
<1> QED
    BY <1>1, <1>2, <1>3, <1>4, <1>6, <1>9, <1>10, <1>11 DEF Next, Calculation

\* The calculators (calculator.c, ece391calc.c) print the value of any well-formed expression
\* that fits the array execute reads it into (MAX_ARG_LEN characters), however many terminals
\* calculate in turn, if the kernel's calculator serves one at a time.
THEOREM CalculatedCorrect == ASSUME ~Overlap PROVE Spec => []Calculated
<1>1. Init => Sound
    BY DEF Init, Sound, Pending, Calculated
<1>2. Sound /\ Stacks /\ [Next]_vars => Sound'
    BY SoundInvariance
<1>3. Sound => Calculated
    BY DEF Sound
<1> QED
    BY <1>1, <1>2, <1>3, StacksCorrect, PTL DEF Spec

-----------------------------------------------------------------------------
(* the words of an argument *)

\* Counting the words that begin in the first k characters.
LEMMA NthStep ==
    ASSUME NEW s \in Seq(STRING), NEW k \in Nat
    PROVE  /\ IsFiniteSet({j \in Begins(s) : j <= k}) /\ Nth(s, k) \in Nat
           /\ Nth(s, 0) = 0
           /\ Nth(s, k + 1) = Nth(s, k) + (IF k + 1 \in Begins(s) THEN 1 ELSE 0)
<1> DEFINE Upto(i) == {j \in Begins(s) : j <= i}
<1>1. Begins(s) \subseteq Nat \ {0}
    BY DEF Begins
<1>2. Upto(0) = {}
    BY <1>1
<1>3. IsFiniteSet(Upto(k)) /\ Cardinality(Upto(k)) \in Nat
    <2>1. Upto(k) \subseteq 1 .. k
        BY <1>1
    <2>2. IsFiniteSet(1 .. k)
        BY FS_Interval
    <2> HIDE DEF Upto
    <2>3. IsFiniteSet(Upto(k))
        BY <2>1, <2>2, FS_Subset
    <2> QED
        BY <2>3, FS_CardinalityType
<1>4. k + 1 \in Begins(s) => Upto(k + 1) = Upto(k) \cup {k + 1} /\ k + 1 \notin Upto(k)
    BY <1>1
<1>5. k + 1 \notin Begins(s) => Upto(k + 1) = Upto(k)
    BY <1>1
<1>6. \A i : Nth(s, i) = Cardinality(Upto(i))
    BY DEF Nth
<1> HIDE DEF Upto
<1>7. k + 1 \in Begins(s) => Cardinality(Upto(k + 1)) = Cardinality(Upto(k)) + 1
    BY <1>3, <1>4, FS_AddElement
<1>8. Nth(s, k + 1) = Nth(s, k) + (IF k + 1 \in Begins(s) THEN 1 ELSE 0)
    BY <1>3, <1>5, <1>6, <1>7
<1>9. Nth(s, 0) = 0
    BY <1>2, <1>6, FS_EmptySet
<1> QED
    BY <1>3, <1>6, <1>8, <1>9 DEF Upto

\* Words that begin later have higher numbers; where none begins the number stays.
LEMMA NthOrder ==
    ASSUME NEW s \in Seq(STRING), NEW j \in Nat, NEW k \in Nat, j <= k
    PROVE  /\ Nth(s, j) <= Nth(s, k)
           /\ j < k /\ k \in Begins(s) => Nth(s, j) < Nth(s, k)
           /\ (\A i \in j + 1 .. k : i \notin Begins(s)) => Nth(s, k) = Nth(s, j)
           /\ j \in Begins(s) => Nth(s, j) = Nth(s, j - 1) + 1 /\ Nth(s, j - 1) \in Nat
<1>0. Begins(s) \subseteq Nat \ {0}
    BY DEF Begins
<1>1. ASSUME NEW a \in Nat, NEW b \in Nat, a <= b PROVE Nth(s, a) <= Nth(s, b)
    <2> DEFINE A == {i \in Begins(s) : i <= a}
               B == {i \in Begins(s) : i <= b}
    <2>1. A \in SUBSET B
        BY <1>0, <1>1
    <2>2. IsFiniteSet(B)
        BY NthStep
    <2> HIDE DEF A, B
    <2>3. Cardinality(A) <= Cardinality(B)
        BY <2>1, <2>2, FS_Subset
    <2> QED
        BY <2>3 DEF Nth, A, B
<1>2. \A b \in Begins(s) : b - 1 \in Nat /\ Nth(s, b) = Nth(s, b - 1) + 1 /\ Nth(s, b - 1) \in Nat
    <2> SUFFICES ASSUME NEW b \in Begins(s)
                 PROVE  b - 1 \in Nat /\ Nth(s, b) = Nth(s, b - 1) + 1 /\ Nth(s, b - 1) \in Nat
        OBVIOUS
    <2> DEFINE a == b - 1
    <2>1. a \in Nat /\ a + 1 = b
        BY <1>0
    <2> HIDE DEF a
    <2>2. Nth(s, a + 1) = Nth(s, a) + 1 /\ Nth(s, a) \in Nat
        BY <2>1, NthStep
    <2> QED
        BY <2>1, <2>2 DEF a
<1>3. j < k /\ k \in Begins(s) => Nth(s, j) < Nth(s, k)
    <2> SUFFICES ASSUME j < k, k \in Begins(s) PROVE Nth(s, j) < Nth(s, k)
        OBVIOUS
    <2>1. k - 1 \in Nat /\ j <= k - 1
        OBVIOUS
    <2>2. Nth(s, j) <= Nth(s, k - 1) /\ Nth(s, j) \in Nat
        BY <1>1, <2>1, NthStep
    <2> QED
        BY <1>2, <2>2
<1>4. (\A i \in j + 1 .. k : i \notin Begins(s)) => Nth(s, k) = Nth(s, j)
    <2> SUFFICES ASSUME \A i \in j + 1 .. k : i \notin Begins(s) PROVE Nth(s, k) = Nth(s, j)
        OBVIOUS
    <2>1. {i \in Begins(s) : i <= k} = {i \in Begins(s) : i <= j}
        BY <1>0
    <2> QED
        BY <2>1 DEF Nth
<1> QED
    BY <1>1, <1>2, <1>3, <1>4

\* A word ends at a blank or with the argument.
LEMMA EndIs ==
    ASSUME NEW s \in Seq(STRING), NEW b \in Begins(s), NEW k \in b .. Len(s), \A i \in b .. k : s[i] # BLANK
    PROVE  /\ End(s, b) \in k .. Len(s)
           /\ k = Len(s) \/ s[k + 1] = BLANK => End(s, b) = k
<1> DEFINE n == Len(s)
           S == {j \in b .. n : \A i \in b .. j : s[i] # BLANK}
<1>1. b \in 1 .. n /\ n \in Nat
    BY DEF Begins
<1>2. S \in SUBSET (1 .. n) /\ k \in S
    BY <1>1
<1>3. Max(S) \in S /\ k <= Max(S)
    <2> HIDE DEF S
    <2> QED
        BY <1>1, <1>2, MaxOf
<1> DEFINE e == Max(S)
<1>4. End(s, b) = e
    BY DEF End
<1> HIDE DEF e
<1>5. e \in b .. n /\ k <= e /\ \A i \in b .. e : s[i] # BLANK
    BY <1>3 DEF e
<1>6. ASSUME k = n \/ s[k + 1] = BLANK PROVE e = k
    <2> SUFFICES ASSUME e # k PROVE FALSE
        OBVIOUS
    <2>1. k + 1 \in b .. e /\ k # n
        BY <1>1, <1>5
    <2> QED
        BY <1>5, <1>6, <2>1
<1> QED
    BY <1>1, <1>4, <1>5, <1>6

\* Within a word no other begins.
LEMMA NoneBegins ==
    ASSUME NEW s \in Seq(STRING), NEW b \in Nat \ {0}, NEW k \in Nat, k <= Len(s),
           \A i \in b .. k : s[i] # BLANK
    PROVE  \A i \in b + 1 .. k : i \notin Begins(s)
<1> SUFFICES ASSUME NEW i \in b + 1 .. k, i \in Begins(s) PROVE FALSE
    OBVIOUS
<1>1. i - 1 \in b .. k /\ i # 1
    OBVIOUS
<1> QED
    BY <1>1 DEF Begins

\* What separate_args takes of any argument, also of one that does not fit: the first
\* words, until one is too long, which it cuts.
TooLong(s, k) == End(s, k) - k + 1 > MAX_ARG_LEN
Piece(s, k)   == SubSeq(s, k, IF TooLong(s, k) THEN k + MAX_ARG_LEN - 1 ELSE End(s, k))
Taken(s) == {k \in Begins(s) : Nth(s, k) <= MAX_ARGS /\ \A j \in Begins(s) : j < k => ~TooLong(s, j)}

\* what separate_args is to leave
Delivers(words, s) ==
    /\ Len(words) = Cardinality(Taken(s))
    /\ \A k \in Taken(s) : words[Nth(s, k)] = Piece(s, k)

\* The words that begin in the first b characters, if those after are not wanted.
LEMMA DeliversUpto ==
    ASSUME NEW s \in Seq(STRING), NEW b \in Nat, NEW words, Len(words) = Nth(s, b), Nth(s, b) <= MAX_ARGS,
           \A j \in Begins(s) : j <= b => words[Nth(s, j)] = Piece(s, j),
           \A j \in Begins(s) : j < b => ~TooLong(s, j),
           \A j \in Begins(s) : j > b => Nth(s, j) > MAX_ARGS \/ \E i \in Begins(s) : i < j /\ TooLong(s, i)
    PROVE  Delivers(words, s)
<1>1. \A j \in Begins(s) : j \in Nat /\ Nth(s, j) \in Nat
    <2>1. \A j \in Begins(s) : j \in Nat
        BY DEF Begins
    <2> QED
        BY <2>1, NthStep
<1>2. MAX_ARGS \in Nat /\ Nth(s, b) \in Nat
    BY CommandsAssumption, NthStep
<1>3. ASSUME NEW j \in Begins(s), j <= b PROVE j \in Taken(s)
    <2>1. Nth(s, j) <= Nth(s, b)
        BY <1>1, <1>3, NthOrder
    <2>2. Nth(s, j) <= MAX_ARGS
        BY <1>1, <1>2, <2>1
    <2>3. \A i \in Begins(s) : i < j => ~TooLong(s, i)
        BY <1>1, <1>3
    <2> QED
        BY <2>2, <2>3 DEF Taken
<1>4. ASSUME NEW j \in Begins(s), j > b PROVE j \notin Taken(s)
    <2>1. CASE Nth(s, j) > MAX_ARGS
        BY <1>1, <1>2, <2>1 DEF Taken
    <2>2. CASE \E i \in Begins(s) : i < j /\ TooLong(s, i)
        BY <2>2 DEF Taken
    <2> QED
        BY <1>4, <2>1, <2>2
<1>5. \A j \in Begins(s) : j <= b \/ j > b
    BY <1>1
<1>6. Taken(s) \subseteq Begins(s)
    BY DEF Taken
<1>7. Taken(s) = {j \in Begins(s) : j <= b}
    BY <1>3, <1>4, <1>5, <1>6
<1>8. Cardinality(Taken(s)) = Nth(s, b)
    BY <1>7 DEF Nth
<1> QED
    BY <1>7, <1>8 DEF Delivers

LEMMA OneIsSeq == ASSUME NEW S, NEW x \in S PROVE <<x>> \in Seq(S)
    OBVIOUS

\* A word grows by the character after it.
LEMMA WordGrows ==
    ASSUME NEW s \in Seq(STRING), NEW b \in Nat \ {0}, NEW k \in Nat, b <= k, k < Len(s)
    PROVE  /\ Len(SubSeq(s, b, k)) = k - b + 1
           /\ SubSeq(s, b, k + 1) = Append(SubSeq(s, b, k), s[k + 1])
<1>1. Len(s) \in Nat
    OBVIOUS
<1>2. Len(SubSeq(s, b, k)) = k - b + 1
    BY <1>1
<1>3. SubSeq(s, b, k + 1) = Append(SubSeq(s, b, k), s[k + 1])
    <2> DEFINE x == SubSeq(s, b, k + 1)
               y == Append(SubSeq(s, b, k), s[k + 1])
    <2>1. SubSeq(s, b, k) \in Seq(STRING) /\ s[k + 1] \in STRING
        BY <1>1
    <2>2. x \in Seq(STRING) /\ y \in Seq(STRING)
        BY <1>1, <2>1
    <2>3. Len(x) = k - b + 2 /\ Len(y) = k - b + 2
        BY <1>1, <1>2, <2>1
    <2>4. \A i \in 1 .. Len(x) : x[i] = y[i]
        <3> SUFFICES ASSUME NEW i \in 1 .. k - b + 2 PROVE x[i] = y[i]
            BY <2>3
        <3>1. x[i] = s[b + i - 1]
            BY <1>1
        <3>2. CASE i = k - b + 2
            BY <1>1, <1>2, <2>1, <3>1, <3>2
        <3>3. CASE i # k - b + 2
            <4>1. i \in 1 .. k - b + 1
                BY <3>3
            <4>2. SubSeq(s, b, k)[i] = s[b + i - 1]
                BY <1>1, <4>1
            <4>3. y[i] = SubSeq(s, b, k)[i]
                BY <1>2, <2>1, <4>1
            <4> QED
                BY <3>1, <4>2, <4>3
        <3> QED
            BY <3>2, <3>3
    <2> HIDE DEF x, y
    <2>5. x = y
        BY <2>2, <2>3, <2>4, SeqEqual
    <2> QED
        BY <2>5 DEF x, y
<1> QED
    BY <1>2, <1>3

SplitState == [words : Seq(Seq(STRING)), in : BOOLEAN, stop : BOOLEAN]

\* What Split does with a character, case by case.
LEMMA SplitIs ==
    ASSUME NEW r \in SplitState, NEW ch \in STRING
    PROVE  LET t == Split(r, ch)
           IN  /\ t \in SplitState
               /\ r.stop => t = r
               /\ ~r.stop /\ r.in /\ ch = BLANK =>
                     t.words = r.words /\ ~t.in /\ t.stop = (Len(r.words) >= MAX_ARGS)
               /\ ~r.stop /\ r.in /\ ch # BLANK /\ Len(Last(r.words)) >= MAX_ARG_LEN =>
                     t.words = r.words /\ t.stop
               /\ ~r.stop /\ r.in /\ ch # BLANK /\ ~(Len(Last(r.words)) >= MAX_ARG_LEN) =>
                     /\ t.words = [r.words EXCEPT ![Len(r.words)] = Append(r.words[Len(r.words)], ch)]
                     /\ t.in /\ ~t.stop
               /\ ~r.stop /\ ~r.in /\ ch = BLANK => t = r
               /\ ~r.stop /\ ~r.in /\ ch # BLANK =>
                     t.words = Append(r.words, <<ch>>) /\ t.in /\ ~t.stop
<1> DEFINE W == Seq(Seq(STRING))
           T == [words : W, in : BOOLEAN, stop : BOOLEAN]
           more == [r.words EXCEPT ![Len(r.words)] = Append(r.words[Len(r.words)], ch)]
           new == Append(r.words, <<ch>>)
           full == Len(r.words) >= MAX_ARGS
<1>1. r \in T /\ r.words \in W /\ r.in \in BOOLEAN /\ r.stop \in BOOLEAN
    BY DEF SplitState
<1>2. more \in W
    <2> DEFINE S == Seq(STRING)
               n == Len(r.words)
    <2>1. n \in Nat /\ r.words \in Seq(S)
        BY <1>1
    <2>2. CASE n = 0
        <3>1. r.words = <<>>
            BY <2>1, <2>2
        <3>2. more = r.words
            BY <2>2, <3>1
        <3> HIDE DEF more, W
        <3> QED
            BY <1>1, <3>2
    <2>3. CASE n # 0
        <3>1. r.words[n] \in S
            <4>1. n \in 1 .. n
                BY <2>1, <2>3
            <4> HIDE DEF S
            <4> QED
                BY <2>1, <4>1, ElementOfSeq
        <3>2. Append(r.words[n], ch) \in S
            BY <3>1
        <3>3. n \in 1 .. Len(r.words)
            BY <2>1, <2>3
        <3>4. [r.words EXCEPT ![n] = Append(r.words[n], ch)] \in Seq(S)
            <4> HIDE DEF S, n
            <4> QED
                BY <2>1, <3>2, <3>3, ExceptSeq
        <3> QED
            BY <3>4
    <2> QED
        BY <2>2, <2>3
<1>3. new \in W
    <2>1. <<ch>> \in Seq(STRING)
        <3>1. ch \in STRING
            OBVIOUS
        <3> QED
            BY <3>1, OneIsSeq
    <2> DEFINE S == Seq(STRING)
    <2>2. <<ch>> \in S /\ r.words \in Seq(S)
        BY <1>1, <2>1
    <2> HIDE DEF S
    <2> QED
        BY <2>2 DEF S
<1> DEFINE c1 == [r EXCEPT !.in = FALSE, !.stop = full]
           c2 == [r EXCEPT !.stop = TRUE]
           c3 == [r EXCEPT !.words = more]
           c4 == [r EXCEPT !.in = TRUE, !.words = new]
<1>4. Split(r, ch) = IF r.stop THEN r
                     ELSE IF r.in
                          THEN IF ch = BLANK THEN c1 ELSE IF Len(Last(r.words)) >= MAX_ARG_LEN THEN c2 ELSE c3
                          ELSE IF ch = BLANK THEN r ELSE c4
    BY DEF Split
<1>5. full \in BOOLEAN
    OBVIOUS
<1> HIDE DEF W, more, new, full
<1>6. c1 \in T /\ c1.words = r.words /\ ~c1.in /\ c1.stop = full
    BY <1>1, <1>5
<1>7. c2 \in T /\ c2.words = r.words /\ c2.stop
    BY <1>1
<1>8. c3 \in T /\ c3.words = more /\ c3.in = r.in /\ c3.stop = r.stop
    BY <1>1, <1>2
<1>9. c4 \in T /\ c4.words = new /\ c4.in /\ c4.stop = r.stop
    BY <1>1, <1>3
<1> HIDE DEF c1, c2, c3, c4, T
<1>10. T = SplitState
    BY DEF T, W, SplitState
<1> QED
    BY <1>1, <1>4, <1>6, <1>7, <1>8, <1>9, <1>10 DEF more, new, full

\* The words so far, of those that begin in the first k characters.
AsTaken(s, k, words) ==
    \A j \in Begins(s) : j <= k => ~TooLong(s, j) /\ words[Nth(s, j)] = Piece(s, j)

\* separate_args after k characters of s, in the word that begins at b.
Within(s, k, b, words) ==
    /\ b \in Begins(s) /\ b <= k /\ \A i \in b .. k : s[i] # BLANK
    /\ Nth(s, b - 1) < MAX_ARGS /\ Len(words) = Nth(s, b - 1) + 1
    /\ AsTaken(s, b - 1, words)
    /\ words[Len(words)] = SubSeq(s, b, k) /\ k - b + 1 <= MAX_ARG_LEN

\* And between two words.
Between(s, k, words) ==
    /\ k = 0 \/ s[k] = BLANK
    /\ Nth(s, k) < MAX_ARGS /\ Len(words) = Nth(s, k)
    /\ AsTaken(s, k, words)

Scanned(s, k, r) ==
    /\ r \in SplitState
    /\ r.stop => Delivers(r.words, s)
    /\ ~r.stop /\ r.in => \E b \in Begins(s) : Within(s, k, b, r.words)
    /\ ~r.stop /\ ~r.in => Between(s, k, r.words)

\* A word that has ended: it is the last one so far, and is to be given as it is.
LEMMA WordEnds ==
    ASSUME NEW s \in Seq(STRING), NEW k \in 0 .. Len(s), NEW words, NEW b, Within(s, k, b, words),
           k = Len(s) \/ s[k + 1] = BLANK
    PROVE  /\ b \in Nat \ {0} /\ Len(words) = Nth(s, b) /\ Nth(s, b) <= MAX_ARGS
           /\ Nth(s, k) = Nth(s, b) /\ AsTaken(s, k, words)
           /\ \A j \in Begins(s) : j > b => j > k
<1>0. /\ b \in Begins(s) /\ b <= k /\ \A i \in b .. k : s[i] # BLANK
      /\ Nth(s, b - 1) < MAX_ARGS /\ Len(words) = Nth(s, b - 1) + 1
      /\ \A j \in Begins(s) : j <= b - 1 => ~TooLong(s, j) /\ words[Nth(s, j)] = Piece(s, j)
      /\ words[Len(words)] = SubSeq(s, b, k) /\ k - b + 1 <= MAX_ARG_LEN
    BY DEF Within, AsTaken
<1>1. b \in Nat \ {0} /\ k \in Nat /\ Len(s) \in Nat /\ MAX_ARGS \in Nat /\ MAX_ARG_LEN \in Nat \ {0}
    BY <1>0, CommandsAssumption DEF Begins
<1>2. k \in b .. Len(s)
    BY <1>0, <1>1
<1>3. End(s, b) = k
    BY <1>0, <1>2, EndIs
<1>4. ~TooLong(s, b) /\ Piece(s, b) = SubSeq(s, b, k)
    BY <1>0, <1>1, <1>3 DEF TooLong, Piece
<1>5. Nth(s, b) = Nth(s, b - 1) + 1 /\ Nth(s, b - 1) \in Nat
    BY <1>0, <1>1, NthOrder
<1>6. \A i \in b + 1 .. k : i \notin Begins(s)
    <2>1. k <= Len(s)
        BY <1>1
    <2> QED
        BY <1>0, <1>1, <2>1, NoneBegins
<1>7. \A j \in Begins(s) : j \in Nat /\ (j > b => j > k)
    <2>1. \A j \in Begins(s) : j \in Nat
        BY DEF Begins
    <2> QED
        BY <1>1, <1>6, <2>1
<1>8. AsTaken(s, k, words)
    <2> SUFFICES ASSUME NEW j \in Begins(s), j <= k
                 PROVE  ~TooLong(s, j) /\ words[Nth(s, j)] = Piece(s, j)
        BY DEF AsTaken
    <2>1. j \in Nat /\ j <= b
        BY <1>1, <1>7
    <2>2. CASE j = b
        BY <1>0, <1>4, <1>5, <2>2
    <2>3. CASE j # b
        <3>1. j <= b - 1
            BY <1>1, <2>1, <2>3
        <3> QED
            BY <1>0, <3>1
    <2> QED
        BY <2>2, <2>3
<1>9. Nth(s, k) = Nth(s, b)
    BY <1>0, <1>1, <1>6, NthOrder
<1>10. Len(words) = Nth(s, b) /\ Nth(s, b) <= MAX_ARGS
    BY <1>0, <1>1, <1>5
<1> QED
    BY <1>1, <1>7, <1>8, <1>9, <1>10

\* The words of an argument that ends, or of which no more words are taken.
LEMMA AllGiven ==
    ASSUME NEW s \in Seq(STRING), NEW k \in 0 .. Len(s), NEW words,
           AsTaken(s, k, words), Len(words) = Nth(s, k), Nth(s, k) <= MAX_ARGS,
           k = Len(s) \/ Nth(s, k) >= MAX_ARGS
    PROVE  Delivers(words, s)
<1>1. k \in Nat /\ Len(s) \in Nat /\ MAX_ARGS \in Nat /\ Nth(s, k) \in Nat
    BY CommandsAssumption, NthStep
<1>2. \A j \in Begins(s) : j \in 1 .. Len(s)
    BY DEF Begins
<1>3. ASSUME NEW j \in Begins(s), j > k PROVE Nth(s, j) > MAX_ARGS
    <2>1. j \in Nat /\ k < j /\ k # Len(s)
        BY <1>1, <1>2, <1>3
    <2>2. Nth(s, k) < Nth(s, j) /\ Nth(s, j) \in Nat
        BY <1>1, <1>3, <2>1, NthOrder, NthStep
    <2> QED
        BY <1>1, <2>1, <2>2
<1>4. \A j \in Begins(s) : j <= k => words[Nth(s, j)] = Piece(s, j)
    BY DEF AsTaken
<1>5. \A j \in Begins(s) : j < k => ~TooLong(s, j)
    <2>1. \A j \in Begins(s) : j < k => j <= k
        BY <1>1, <1>2
    <2> QED
        BY <2>1 DEF AsTaken
<1>6. \A j \in Begins(s) : j > k => Nth(s, j) > MAX_ARGS \/ \E i \in Begins(s) : i < j /\ TooLong(s, i)
    BY <1>3
<1> QED
    BY <1>1, <1>4, <1>5, <1>6, DeliversUpto

\* A word that is too long is the last one, cut.
LEMMA WordTooLong ==
    ASSUME NEW s \in Seq(STRING), NEW k \in 0 .. Len(s) - 1, NEW words, NEW b, Within(s, k, b, words),
           s[k + 1] # BLANK, k - b + 1 >= MAX_ARG_LEN
    PROVE  Delivers(words, s)
<1>0. /\ b \in Begins(s) /\ b <= k /\ \A i \in b .. k : s[i] # BLANK
      /\ Nth(s, b - 1) < MAX_ARGS /\ Len(words) = Nth(s, b - 1) + 1
      /\ \A j \in Begins(s) : j <= b - 1 => ~TooLong(s, j) /\ words[Nth(s, j)] = Piece(s, j)
      /\ words[Len(words)] = SubSeq(s, b, k) /\ k - b + 1 <= MAX_ARG_LEN
    BY DEF Within, AsTaken
<1>1. b \in Nat \ {0} /\ k \in Nat /\ Len(s) \in Nat /\ MAX_ARGS \in Nat /\ MAX_ARG_LEN \in Nat \ {0}
    BY <1>0, CommandsAssumption DEF Begins
<1>2. k - b + 1 = MAX_ARG_LEN
    BY <1>0, <1>1
<1>3. k + 1 \in b .. Len(s) /\ \A i \in b .. k + 1 : s[i] # BLANK
    <2>1. \A i \in b .. k + 1 : i \in b .. k \/ i = k + 1
        BY <1>1
    <2> QED
        BY <1>0, <1>1, <2>1
<1>4. End(s, b) \in k + 1 .. Len(s)
    BY <1>0, <1>3, EndIs
<1>5. TooLong(s, b)
    BY <1>1, <1>2, <1>4 DEF TooLong
<1>6. Piece(s, b) = SubSeq(s, b, k)
    <2>1. b + MAX_ARG_LEN - 1 = k
        BY <1>1, <1>2
    <2> QED
        BY <1>5, <2>1 DEF Piece
<1>7. Nth(s, b) = Nth(s, b - 1) + 1 /\ Nth(s, b - 1) \in Nat
    BY <1>0, <1>1, NthOrder
<1>8. \A j \in Begins(s) : j \in Nat
    BY DEF Begins
<1>9. \A j \in Begins(s) : j < b => ~TooLong(s, j) /\ words[Nth(s, j)] = Piece(s, j)
    <2>1. \A j \in Begins(s) : j < b => j <= b - 1
        BY <1>1, <1>8
    <2> QED
        BY <1>0, <2>1
<1>10. \A j \in Begins(s) : j <= b => words[Nth(s, j)] = Piece(s, j)
    <2>1. words[Nth(s, b)] = Piece(s, b)
        BY <1>0, <1>6, <1>7
    <2>2. \A j \in Begins(s) : j <= b => j < b \/ j = b
        BY <1>1, <1>8
    <2> QED
        BY <1>9, <2>1, <2>2
<1>11. Len(words) = Nth(s, b) /\ Nth(s, b) <= MAX_ARGS
    BY <1>0, <1>1, <1>7
<1>12. \A j \in Begins(s) : j > b => Nth(s, j) > MAX_ARGS \/ \E i \in Begins(s) : i < j /\ TooLong(s, i)
    <2>1. \A j \in Begins(s) : j > b => b < j
        BY <1>1, <1>8
    <2> QED
        BY <1>0, <1>5, <2>1
<1>13. \A j \in Begins(s) : j < b => ~TooLong(s, j)
    BY <1>9
<1> QED
    BY <1>1, <1>10, <1>11, <1>12, <1>13, DeliversUpto

\* Blanks end words and separate them.
LEMMA BlankSkipped ==
    ASSUME NEW s \in Seq(STRING), NEW k \in 0 .. Len(s) - 1, NEW words, s[k + 1] = BLANK,
           AsTaken(s, k, words), Nth(s, k) < MAX_ARGS, Len(words) = Nth(s, k)
    PROVE  Between(s, k + 1, words)
<1>1. k \in Nat /\ k + 1 \notin Begins(s)
    BY DEF Begins
<1>2. Nth(s, k + 1) = Nth(s, k)
    <2>1. Nth(s, k) \in Nat /\ Nth(s, k + 1) = Nth(s, k) + (IF k + 1 \in Begins(s) THEN 1 ELSE 0)
        BY <1>1, NthStep
    <2> QED
        BY <1>1, <2>1
<1>3. \A j \in Begins(s) : j <= k + 1 => j <= k
    <2>1. \A j \in Begins(s) : j \in Nat
        BY DEF Begins
    <2> QED
        BY <1>1, <2>1
<1>4. AsTaken(s, k + 1, words)
    BY <1>3 DEF AsTaken
<1> QED
    BY <1>2, <1>4 DEF Between

LEMMA WordGoesOn ==
    ASSUME NEW s \in Seq(STRING), NEW k \in 0 .. Len(s) - 1, NEW words \in Seq(Seq(STRING)), NEW b,
           Within(s, k, b, words), s[k + 1] # BLANK, k - b + 1 < MAX_ARG_LEN
    PROVE  Within(s, k + 1, b, [words EXCEPT ![Len(words)] = Append(words[Len(words)], s[k + 1])])
<1> DEFINE S == Seq(STRING)
           n == Len(words)
           w == Append(words[n], s[k + 1])
           more == [words EXCEPT ![n] = w]
<1>0. /\ b \in Begins(s) /\ b <= k /\ \A i \in b .. k : s[i] # BLANK
      /\ Nth(s, b - 1) < MAX_ARGS /\ n = Nth(s, b - 1) + 1
      /\ \A j \in Begins(s) : j <= b - 1 => ~TooLong(s, j) /\ words[Nth(s, j)] = Piece(s, j)
      /\ words[n] = SubSeq(s, b, k)
    BY DEF Within, AsTaken
<1>1. b \in Nat \ {0} /\ k \in Nat /\ Len(s) \in Nat /\ k < Len(s) /\ MAX_ARG_LEN \in Nat
    BY <1>0, CommandsAssumption, SMTT(30) DEF Begins
<1>2. Nth(s, b - 1) \in Nat /\ b - 1 \in Nat
    BY <1>0, <1>1, NthOrder
<1>3. w = SubSeq(s, b, k + 1) /\ w \in S
    <2>1. w = SubSeq(s, b, k + 1)
        BY <1>0, <1>1, WordGrows
    <2> QED
        BY <1>1, <2>1
<1>4. Len(more) = n /\ more[n] = w /\ \A i \in 1 .. n : i # n => more[i] = words[i]
    <2>1. n \in 1 .. Len(words) /\ words \in Seq(S)
        BY <1>0, <1>2
    <2> HIDE DEF S, n, w
    <2>2. /\ Len([words EXCEPT ![n] = w]) = Len(words)
          /\ \A i \in 1 .. Len(words) : [words EXCEPT ![n] = w][i] = IF i = n THEN w ELSE words[i]
        BY <1>3, <2>1, ExceptSeq
    <2> QED
        BY <2>1, <2>2 DEF n
<1>5. AsTaken(s, b - 1, more)
    <2> SUFFICES ASSUME NEW j \in Begins(s), j <= b - 1
                 PROVE  ~TooLong(s, j) /\ more[Nth(s, j)] = Piece(s, j)
        BY DEF AsTaken
    <2>1. j \in Nat \ {0}
        BY DEF Begins
    <2>2. Nth(s, j) <= Nth(s, b - 1)
        BY <1>2, <2>1, NthOrder
    <2>3. Nth(s, j) = Nth(s, j - 1) + 1 /\ Nth(s, j - 1) \in Nat
        BY <2>1, NthOrder
    <2>4. Nth(s, j) \in 1 .. n /\ Nth(s, j) # n
        BY <1>0, <1>2, <2>2, <2>3
    <2> HIDE DEF more, n
    <2> QED
        BY <1>0, <1>4, <2>4
<1>6. \A i \in b .. k + 1 : s[i] # BLANK
    <2>1. \A i \in b .. k + 1 : i \in b .. k \/ i = k + 1
        BY <1>1
    <2> QED
        BY <1>0, <2>1
<1>7. b <= k + 1 /\ (k + 1) - b + 1 <= MAX_ARG_LEN
    BY <1>0, <1>1
<1> HIDE DEF n, w
<1>8. Len(more) = Nth(s, b - 1) + 1 /\ more[Len(more)] = SubSeq(s, b, k + 1)
    BY <1>0, <1>3, <1>4
<1> HIDE DEF more
<1>9. Within(s, k + 1, b, more)
    BY <1>0, <1>5, <1>6, <1>7, <1>8 DEF Within
<1> QED
    BY <1>9 DEF more, w, n

LEMMA WordBegins ==
    ASSUME NEW s \in Seq(STRING), NEW k \in 0 .. Len(s) - 1, NEW words \in Seq(Seq(STRING)),
           Between(s, k, words), s[k + 1] # BLANK
    PROVE  Within(s, k + 1, k + 1, Append(words, <<s[k + 1]>>))
<1> DEFINE S == Seq(STRING)
           n == Len(words)
           w == <<s[k + 1]>>
           more == Append(words, w)
<1>0. /\ k = 0 \/ s[k] = BLANK
      /\ Nth(s, k) < MAX_ARGS /\ n = Nth(s, k)
      /\ \A j \in Begins(s) : j <= k => ~TooLong(s, j) /\ words[Nth(s, j)] = Piece(s, j)
    BY DEF Between, AsTaken
<1>1. k \in Nat /\ Len(s) \in Nat /\ k + 1 \in 1 .. Len(s) /\ (k + 1) - 1 = k /\ MAX_ARG_LEN \in Nat \ {0}
    BY CommandsAssumption
<1>2. k + 1 \in Begins(s)
    <2>1. k + 1 = 1 \/ s[(k + 1) - 1] = BLANK
        BY <1>0, <1>1
    <2> QED
        BY <1>1, <2>1 DEF Begins
<1>3. Nth(s, k) \in Nat
    BY <1>1, NthStep
<1>4. w = SubSeq(s, k + 1, k + 1) /\ w \in S
    BY <1>1
<1>5. Len(more) = n + 1 /\ more[n + 1] = w /\ \A i \in 1 .. n : more[i] = words[i]
    <2>1. words \in Seq(S) /\ w \in S
        BY <1>4
    <2> HIDE DEF S, w
    <2> QED
        BY <2>1
<1>6. AsTaken(s, k, more)
    <2> SUFFICES ASSUME NEW j \in Begins(s), j <= k
                 PROVE  ~TooLong(s, j) /\ more[Nth(s, j)] = Piece(s, j)
        BY DEF AsTaken
    <2>1. j \in Nat \ {0}
        BY DEF Begins
    <2>2. Nth(s, j) <= Nth(s, k)
        BY <1>1, <2>1, NthOrder
    <2>3. Nth(s, j) = Nth(s, j - 1) + 1 /\ Nth(s, j - 1) \in Nat
        BY <2>1, NthOrder
    <2>4. Nth(s, j) \in 1 .. n
        BY <1>0, <1>3, <2>2, <2>3
    <2> HIDE DEF more, n
    <2> QED
        BY <1>0, <1>5, <2>4
<1>7. \A i \in k + 1 .. k + 1 : s[i] # BLANK
    BY <1>1
<1>8. (k + 1) - (k + 1) + 1 <= MAX_ARG_LEN /\ k + 1 <= k + 1
    BY <1>1
<1> HIDE DEF n, w
<1>9. Len(more) = Nth(s, k) + 1 /\ more[Len(more)] = SubSeq(s, k + 1, k + 1)
    BY <1>0, <1>4, <1>5
<1> HIDE DEF more
<1>10. Within(s, k + 1, k + 1, more)
    BY <1>0, <1>1, <1>2, <1>6, <1>7, <1>8, <1>9 DEF Within
<1> QED
    BY <1>10 DEF more, w

\* One character more.
LEMMA ScanStep ==
    ASSUME NEW s \in Seq(STRING), NEW k \in 0 .. Len(s) - 1, NEW r, Scanned(s, k, r)
    PROVE  Scanned(s, k + 1, Split(r, s[k + 1]))
<1> SUFFICES ASSUME NEW ch, ch = s[k + 1], NEW t, t = Split(r, ch) PROVE Scanned(s, k + 1, t)
    OBVIOUS
<1> DEFINE n == Len(r.words)
<1>0. /\ r \in SplitState
      /\ r.stop => Delivers(r.words, s)
      /\ ~r.stop /\ r.in => \E b \in Begins(s) : Within(s, k, b, r.words)
      /\ ~r.stop /\ ~r.in => Between(s, k, r.words)
    BY DEF Scanned
<1>1. ch \in STRING /\ k \in Nat /\ k \in 0 .. Len(s) /\ Len(s) \in Nat
    <2>1. k + 1 \in 1 .. Len(s)
        OBVIOUS
    <2> QED
        BY <2>1
<1>2. r.words \in Seq(Seq(STRING)) /\ r.in \in BOOLEAN /\ r.stop \in BOOLEAN
    BY <1>0 DEF SplitState
<1>3. /\ t \in SplitState
      /\ r.stop => t = r
      /\ ~r.stop /\ r.in /\ ch = BLANK =>
            t.words = r.words /\ ~t.in /\ t.stop = (Len(r.words) >= MAX_ARGS)
      /\ ~r.stop /\ r.in /\ ch # BLANK /\ Len(Last(r.words)) >= MAX_ARG_LEN =>
            t.words = r.words /\ t.stop
      /\ ~r.stop /\ r.in /\ ch # BLANK /\ ~(Len(Last(r.words)) >= MAX_ARG_LEN) =>
            /\ t.words = [r.words EXCEPT ![Len(r.words)] = Append(r.words[Len(r.words)], ch)]
            /\ t.in /\ ~t.stop
      /\ ~r.stop /\ ~r.in /\ ch = BLANK => t = r
      /\ ~r.stop /\ ~r.in /\ ch # BLANK =>
            t.words = Append(r.words, <<ch>>) /\ t.in /\ ~t.stop
    BY <1>0, <1>1, SplitIs
<1>4. CASE r.stop
    BY <1>0, <1>3, <1>4 DEF Scanned
<1>5. CASE ~r.stop /\ r.in /\ ch = BLANK
    <2>1. PICK b : b \in Begins(s) /\ Within(s, k, b, r.words)
        BY <1>0, <1>5
    <2>2. /\ Len(r.words) = Nth(s, b) /\ Nth(s, b) <= MAX_ARGS
          /\ Nth(s, k) = Nth(s, b) /\ AsTaken(s, k, r.words)
        BY <1>1, <1>5, <2>1, WordEnds
    <2>3. Nth(s, k) \in Nat /\ MAX_ARGS \in Nat
        BY <1>1, NthStep, CommandsAssumption
    <2>4. t.words = r.words /\ ~t.in /\ t.stop = (Nth(s, k) >= MAX_ARGS)
        BY <1>3, <1>5, <2>2
    <2>5. CASE Nth(s, k) >= MAX_ARGS
        <3>1. Delivers(r.words, s)
            BY <1>1, <2>2, <2>5, AllGiven
        <3> QED
            BY <1>3, <2>4, <2>5, <3>1 DEF Scanned
    <2>6. CASE Nth(s, k) < MAX_ARGS
        <3>1. Between(s, k + 1, r.words)
            BY <1>5, <2>2, <2>6, BlankSkipped
        <3>2. ~t.stop
            <4>1. ~(Nth(s, k) >= MAX_ARGS)
                BY <2>3, <2>6
            <4> QED
                BY <2>4, <4>1
        <3> QED
            BY <1>3, <2>4, <3>1, <3>2 DEF Scanned
    <2> QED
        BY <2>3, <2>5, <2>6
<1>6. CASE ~r.stop /\ r.in /\ ch # BLANK
    <2>1. PICK b : b \in Begins(s) /\ Within(s, k, b, r.words)
        BY <1>0, <1>6
    <2>2. b \in Nat \ {0} /\ b <= k /\ n = Nth(s, b - 1) + 1 /\ r.words[n] = SubSeq(s, b, k)
        BY <2>1 DEF Within, Begins
    <2>3. n > 0
        <3>1. Nth(s, b - 1) \in Nat
            BY <2>1, <2>2, NthOrder
        <3> QED
            BY <2>2, <3>1
    <2>4. Last(r.words) = r.words[n]
        BY <2>3 DEF Last
    <2>5. Len(Last(r.words)) = k - b + 1
        BY <1>1, <2>2, <2>4, WordGrows
    <2>6. MAX_ARG_LEN \in Nat
        BY CommandsAssumption
    <2>7. CASE k - b + 1 >= MAX_ARG_LEN
        <3>1. Delivers(r.words, s)
            BY <1>6, <2>1, <2>7, WordTooLong
        <3>2. t.words = r.words /\ t.stop
            BY <1>3, <1>6, <2>5, <2>7
        <3> QED
            BY <1>3, <3>1, <3>2 DEF Scanned
    <2>8. CASE k - b + 1 < MAX_ARG_LEN
        <3>1. Within(s, k + 1, b, [r.words EXCEPT ![n] = Append(r.words[n], ch)])
            BY <1>2, <1>6, <2>1, <2>8, WordGoesOn
        <3>2. ~(Len(Last(r.words)) >= MAX_ARG_LEN)
            BY <1>1, <2>2, <2>5, <2>6, <2>8
        <3>3. t.words = [r.words EXCEPT ![n] = Append(r.words[n], ch)] /\ t.in /\ ~t.stop
            BY <1>3, <1>6, <3>2
        <3> HIDE DEF n
        <3>4. Within(s, k + 1, b, t.words)
            BY <3>1, <3>3
        <3> QED
            BY <1>3, <2>1, <3>3, <3>4 DEF Scanned
    <2> QED
        BY <1>1, <2>2, <2>6, <2>7, <2>8
<1>7. CASE ~r.stop /\ ~r.in /\ ch = BLANK
    <2>1. Between(s, k, r.words) /\ t = r
        BY <1>0, <1>3, <1>7
    <2>2. Between(s, k + 1, r.words)
        BY <1>7, <2>1, BlankSkipped DEF Between
    <2> QED
        BY <1>3, <1>7, <2>1, <2>2 DEF Scanned
<1>8. CASE ~r.stop /\ ~r.in /\ ch # BLANK
    <2>1. Within(s, k + 1, k + 1, Append(r.words, <<ch>>))
        BY <1>0, <1>2, <1>8, WordBegins
    <2>2. k + 1 \in Begins(s)
        BY <2>1 DEF Within
    <2> QED
        BY <1>3, <1>8, <2>1, <2>2 DEF Scanned
<1> QED
    BY <1>2, <1>4, <1>5, <1>6, <1>7, <1>8

\* The end of the argument.
LEMMA ScanEnd ==
    ASSUME NEW s \in Seq(STRING), NEW r, Scanned(s, Len(s), r)
    PROVE  Delivers(r.words, s)
<1> DEFINE k == Len(s)
<1>0. /\ r \in SplitState
      /\ r.stop => Delivers(r.words, s)
      /\ ~r.stop /\ r.in => \E b \in Begins(s) : Within(s, k, b, r.words)
      /\ ~r.stop /\ ~r.in => Between(s, k, r.words)
    BY DEF Scanned
<1>1. k \in 0 .. Len(s) /\ k = Len(s) /\ k \in Nat
    OBVIOUS
<1>2. Nth(s, k) \in Nat /\ MAX_ARGS \in Nat
    BY <1>1, NthStep, CommandsAssumption
<1>3. CASE ~r.stop /\ r.in
    <2>1. PICK b : Within(s, k, b, r.words)
        BY <1>0, <1>3
    <2>2. /\ Len(r.words) = Nth(s, b) /\ Nth(s, b) <= MAX_ARGS
          /\ Nth(s, k) = Nth(s, b) /\ AsTaken(s, k, r.words)
        BY <1>1, <2>1, WordEnds
    <2> QED
        BY <1>1, <2>2, AllGiven
<1>4. CASE ~r.stop /\ ~r.in
    <2>1. Nth(s, k) < MAX_ARGS /\ Len(r.words) = Nth(s, k) /\ AsTaken(s, k, r.words)
        BY <1>0, <1>4 DEF Between
    <2>2. Nth(s, k) <= MAX_ARGS
        BY <1>2, <2>1
    <2> QED
        BY <1>1, <2>1, <2>2, AllGiven
<1>5. r.stop \in BOOLEAN /\ r.in \in BOOLEAN
    BY <1>0 DEF SplitState
<1> QED
    BY <1>0, <1>3, <1>4, <1>5

\* separate_args gives the words that are wanted.
THEOREM SeparateArgsDelivers == ASSUME NEW s \in Seq(STRING) PROVE Delivers(SeparateArgs(s), s)
<1> DEFINE N == Len(s)
           C == SplitState
           a == [words |-> <<>>, in |-> FALSE, stop |-> FALSE]
           F == [x \in (1 .. N) \X C |-> Split(x[2], s[x[1]])]
           Def(f) == [k \in 0 .. N |-> IF k = 0 THEN a ELSE Split(f[k - 1], s[k])]
           r == CHOOSE f : f = Def(f)
<1>1. N \in Nat /\ a \in C /\ \A k \in 1 .. N : s[k] \in STRING
    BY DEF SplitState
<1>2. F \in [(1 .. N) \X C -> C]
    <2>1. \A k \in 1 .. N : \A x \in C : Split(x, s[k]) \in C
        <3> HIDE DEF N
        <3> QED
            BY <1>1, SplitIs
    <2> HIDE DEF C, N
    <2> QED
        BY <2>1
<1>3. PICK g \in [0 .. N -> C] : g[0] = a /\ \A k \in 1 .. N : g[k] = F[<<k, g[k - 1]>>]
    <2>1. \E g : g \in Iterates(N, C, a, F)
        <3> HIDE DEF N, C, a, F
        <3> QED
            BY <1>1, <1>2, IteratesExist
    <2> HIDE DEF N, C, a, F
    <2> QED
        BY <2>1 DEF Iterates
<1>4. \A k \in 1 .. N : g[k] = Split(g[k - 1], s[k])
    <2> SUFFICES ASSUME NEW k \in 1 .. N PROVE g[k] = Split(g[k - 1], s[k])
        OBVIOUS
    <2>1. g[k - 1] \in C
        <3>1. k - 1 \in 0 .. N
            BY <1>1
        <3> HIDE DEF N, C
        <3> QED
            BY <1>3, <3>1
    <2>2. F[<<k, g[k - 1]>>] = Split(g[k - 1], s[k])
        <3> HIDE DEF N, C
        <3> QED
            BY <2>1
    <2> QED
        BY <1>3, <2>2
<1>5. g = Def(g)
    <2>1. \A k \in 0 .. N : g[k] = Def(g)[k]
        <3> SUFFICES ASSUME NEW k \in 0 .. N PROVE g[k] = Def(g)[k]
            OBVIOUS
        <3>1. k = 0 \/ k \in 1 .. N
            BY <1>1
        <3> HIDE DEF N, C, a
        <3> QED
            BY <1>3, <1>4, <3>1
    <2> HIDE DEF N, C, a
    <2> QED
        BY <1>3, <2>1
<1>6. r = Def(r)
    <2> HIDE DEF Def
    <2> QED
        BY <1>5
<1>7. SeparateArgs(s) = r[N].words
    BY DEF SeparateArgs
<1> HIDE DEF r
<1>8. r[0] = a /\ \A k \in 1 .. N : r[k] = Split(r[k - 1], s[k])
    <2>1. \A k \in 0 .. N : r[k] = IF k = 0 THEN a ELSE Split(r[k - 1], s[k])
        <3> HIDE DEF N, a
        <3> QED
            BY <1>6
    <2>2. 0 \in 0 .. N /\ \A k \in 1 .. N : k \in 0 .. N /\ k # 0
        BY <1>1
    <2> HIDE DEF N, a
    <2> QED
        BY <2>1, <2>2
<1>9. Scanned(s, 0, a)
    <2>1. Nth(s, 0) = 0
        BY NthStep
    <2>2. 0 < MAX_ARGS
        BY CommandsAssumption
    <2>3. AsTaken(s, 0, <<>>)
        BY DEF AsTaken, Begins
    <2>4. Between(s, 0, <<>>)
        BY <2>1, <2>2, <2>3 DEF Between
    <2> QED
        BY <1>1, <2>4 DEF Scanned
<1> DEFINE T == {k \in 0 .. N : Scanned(s, k, r[k])}
<1>10. \A k \in 0 .. N - 1 : k \in T => k + 1 \in T
    <2> SUFFICES ASSUME NEW k \in 0 .. N - 1, k \in T PROVE k + 1 \in T
        OBVIOUS
    <2>1. k + 1 \in 1 .. N /\ k + 1 \in 0 .. N /\ (k + 1) - 1 = k
        BY <1>1
    <2>2. r[k + 1] = Split(r[k], s[k + 1])
        BY <1>8, <2>1
    <2>3. Scanned(s, k + 1, Split(r[k], s[k + 1]))
        BY ScanStep
    <2> QED
        BY <2>1, <2>2, <2>3
<1>11. 0 \in T
    BY <1>1, <1>8, <1>9
<1>12. N \in T
    <2> HIDE DEF T, N
    <2>1. 0 .. N \subseteq T
        BY <1>1, <1>10, <1>11, BoundedInduction
    <2> QED
        BY <1>1, <2>1
<1>13. Delivers(r[N].words, s)
    BY <1>12, ScanEnd
<1> QED
    BY <1>7, <1>13

Told == {<<>>} \cup UNION {Lines[p] : p \in Procs}

\* No shell has a line it was not told, whatever processes do meanwhile.
LEMMA LinesTold ==
    ASSUME line \in [Procs -> Told], [Next]_vars
    PROVE  line' \in [Procs -> Told]
<1>1. ASSUME NEW p \in Procs, NEW l \in Lines[p], Given(p, l) PROVE line' \in [Procs -> Told]
    <2>1. l \in Told
        BY <1>1 DEF Told
    <2>2. line' = [line EXCEPT ![p] = l]
        BY <1>1 DEF Given
    <2> QED
        BY <2>1, <2>2
<1>2. ASSUME NEW p \in Procs, Prints(p) \/ UserCalc(p) \/ KernelCalc(p) \/ Color(p) \/ InfoBegin(p) \/ Serial(p)
      PROVE  \E l \in Lines[p] : Given(p, l)
    BY <1>2 DEF Prints, UserCalc, KernelCalc, Color, InfoBegin, Serial
<1>3. ASSUME NEW p \in Procs, ReadOne(p) \/ Result(p) \/ Divided(p) \/ InfoEnd(p) \/ Killed(p) PROVE line' = line
    BY <1>3 DEF ReadOne, Result, Divided, InfoEnd, Killed
<1>4. CASE Clear \/ UNCHANGED vars
    BY <1>4 DEF Clear, vars
<1> QED
    BY <1>1, <1>2, <1>3, <1>4 DEF Next, Calculation

\* An argument that is not longer than a word may be has no word that is too long.
LEMMA ShortWords ==
    ASSUME NEW s \in Seq(STRING), Len(s) <= MAX_ARG_LEN
    PROVE  Taken(s) = Wanted(s) /\ \A k \in Begins(s) : Piece(s, k) = Word(s, k)
<1>1. ASSUME NEW k \in Begins(s) PROVE ~TooLong(s, k)
    <2>1. k \in 1 .. Len(s) /\ k \in k .. Len(s) /\ s[k] # BLANK
        BY DEF Begins
    <2>2. \A i \in k .. k : s[i] # BLANK
        BY <2>1
    <2>3. End(s, k) \in k .. Len(s)
        BY <2>1, <2>2, EndIs
    <2>4. MAX_ARG_LEN \in Nat
        BY CommandsAssumption
    <2> QED
        BY <2>1, <2>3, <2>4 DEF TooLong
<1>2. Taken(s) = Wanted(s)
    BY <1>1 DEF Taken, Wanted
<1>3. \A k \in Begins(s) : Piece(s, k) = Word(s, k)
    BY <1>1 DEF Piece, Word
<1> QED
    BY <1>2, <1>3

\* No argument is longer than execute's array.
LEMMA ArgShort == ASSUME NEW l \in Told PROVE Len(Arg(l)) <= MAX_ARG_LEN
<1>1. CASE \E p \in Procs : l \in Lines[p]
    BY <1>1, ArgumentsAssumption
<1>2. CASE l = <<>>
    <2> DEFINE a == [state |-> 0, cmd |-> <<>>, arg |-> <<>>]
               Def(f) == [k \in 0 .. 0 |-> IF k = 0 THEN a ELSE ParseOne(f[k - 1], l[k])]
               r == CHOOSE f : f = Def(f)
               g == [k \in 0 .. 0 |-> a]
    <2>1. g = Def(g)
        OBVIOUS
    <2>2. r = Def(r)
        <3> HIDE DEF Def, g
        <3> QED
            BY <2>1
    <2>3. Len(l) = 0
        BY <1>2
    <2>4. Parse(l) = r[0]
        BY <2>3 DEF Parse
    <2> HIDE DEF r
    <2>5. r[0] = a
        BY <2>2
    <2>6. Arg(l) = Parse(l).arg
        BY <1>2 DEF Arg, Parsed
    <2> QED
        BY <2>4, <2>5, <2>6, CommandsAssumption
<1> QED
    BY <1>1, <1>2 DEF Told

\* A program of the kernel is given the words of its argument (separate_args), whole and in
\* their order, as many as there is room for, of every line whose argument fits the array
\* execute reads it into, however many words and blanks it has.
THEOREM WordsGivenCorrect == Spec => []WordsGiven
<1> DEFINE I == line \in [Procs -> Told]
<1>1. Init => I
    BY DEF Init, Told
<1>2. I /\ [Next]_vars => I'
    BY LinesTold
<1>3. I => WordsGiven
    <2> SUFFICES ASSUME I, NEW p \in Procs
                 PROVE  LET arg   == Arg(line[p])
                            words == SeparateArgs(arg)
                        IN  /\ Len(words) = Cardinality(Wanted(arg))
                            /\ \A k \in Wanted(arg) : words[Nth(arg, k)] = Word(arg, k)
        BY DEF WordsGiven
    <2>1. line[p] = <<>> \/ \E q \in Procs : line[p] \in Lines[q]
        BY DEF Told
    <2>2. Arg(line[p]) \in Seq(STRING)
        BY <2>1, ArgType
    <2>3. Delivers(SeparateArgs(Arg(line[p])), Arg(line[p]))
        BY <2>2, SeparateArgsDelivers
    <2>4. Len(Arg(line[p])) <= MAX_ARG_LEN
        BY ArgShort
    <2>5. /\ Taken(Arg(line[p])) = Wanted(Arg(line[p]))
          /\ \A k \in Begins(Arg(line[p])) : Piece(Arg(line[p]), k) = Word(Arg(line[p]), k)
        BY <2>2, <2>4, ShortWords
    <2>6. Wanted(Arg(line[p])) \subseteq Begins(Arg(line[p]))
        BY DEF Wanted
    <2> QED
        BY <2>3, <2>5, <2>6 DEF Delivers
<1> QED
    BY <1>1, <1>2, <1>3, PTL DEF Spec
=============================================================================
