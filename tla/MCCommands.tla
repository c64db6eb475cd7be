------------------------------ MODULE MCCommands ------------------------------
(* Command lines for TLC: on terminal 0 all well-formed expressions of up to  *)
(* three characters and some longer ones, on terminal 1 the other programs,   *)
(* lines that are refused and expressions that are not well-formed; on both,  *)
(* the calculator of the disk and that of the kernel.                         *)
EXTENDS Expressions

Chars == {"9", "-", "*", "/", "(", ")"}
Short == UNION {{e \in [1 .. n -> Chars] : WellFormed(e)} : n \in 1 .. 3}
Long  ==
    {<<"9", "*", "9", "*", "9">>, <<"9", "-", "2", "*", "9", "+", "2">>,
     <<"9", "/", "2", "*", "2">>, <<"(", "2", "-", "9", ")", "/", "2">>,
     <<"9", "2", "-", "2", "9", "9">>, <<"2", "*", "(", "-", "9", ")">>,
     <<"9", "/", "(", "2", "-", "2", ")">>}
Calc(e)  == <<"calc", BLANK>> \o e
CalcK(e) == <<"calc", "x", BLANK>> \o e

MCLines == [p \in Procs |->
    IF p = 0
    THEN {Calc(e) : e \in Short \cup Long} \cup {CalcK(<<"2", "-", "9", "*", "9">>)}
    ELSE {CalcK(<<"9", "2", BLANK, "2">>), Calc(<<"2", "/", "0", "-", "2">>),
          Calc(<<"2", "*", "-", "9">>),
          <<"calc">>, <<"calc">> \o [n \in 1 .. 32 |-> "x"], <<BLANK>>, <<"info">>,
          <<"color", BLANK, "a">>, <<"color", "x", BLANK, "2", "2">>,
          <<"serial", BLANK, BLANK, "loopback", BLANK, "0">>, <<"serial", BLANK, "on", BLANK>>,
          <<"serial", BLANK, "loopback", BLANK, "2", "2", BLANK, "9">>,
          <<"serial", BLANK, "send">> \o [n \in 1 .. 20 |-> IF n % 2 = 0 THEN "2" ELSE BLANK]}]
=============================================================================
