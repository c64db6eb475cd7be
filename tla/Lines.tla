------------------------------- MODULE Lines -------------------------------
(***************************************************************************)
(* What terminal_read promises: a process that reads gets the line that    *)
(* the user of its terminal edits from then on, once, when it is complete, *)
(* and the lines given out so far can be recalled.  Line breaks that only  *)
(* fold a long line on the screen are no part of a line.  What the process *)
(* gets is promised only while its terminal is displayed.                  *)
(***************************************************************************)
EXTENDS Integers, Sequences

CONSTANTS
    Terminals,
    Letters,            \* what the keys type
    Sizes,              \* how many bytes readers ask for
    Whole               \* the size that holds every line

VARIABLES
    shown,              \* the terminal on the screen, whose user types
    line,               \* the line edited on each terminal, <<>> unless it is being read
    done,               \* is that line complete?
    reading,            \* how many bytes the reader of each terminal wants, 0: no reader
    got,                \* the line last given out on each terminal
    past                \* the lines given out so far on each terminal

vars == <<shown, line, done, reading, got, past>>

BLANK == " "

Init ==
    /\ shown = 0
    /\ line = [t \in Terminals |-> <<>>]
    /\ done = [t \in Terminals |-> FALSE]
    /\ reading = [t \in Terminals |-> 0]
    /\ got = [t \in Terminals |-> <<>>]
    /\ past = [t \in Terminals |-> <<>>]

Begin(t) ==
    /\ reading[t] = 0
    /\ \E n \in Sizes : reading' = [reading EXCEPT ![t] = n]
    /\ UNCHANGED <<shown, line, done, got, past>>

\* the lines that can be recalled; none: the command after the last
Past(lines) == {lines[i] : i \in DOMAIN lines} \cup {<<>>}

\* a letter, a tabulator, the last character taken back, or an earlier line put
\* in the place of what was typed after some point
Edits(l, lines) ==
    {Append(l, ch) : ch \in Letters} \cup {l \o <<BLANK, BLANK>>}
    \cup (IF l = <<>> THEN {} ELSE {SubSeq(l, 1, Len(l) - 1)})
    \cup {SubSeq(l, 1, k) \o e : k \in 0 .. Len(l), e \in Past(lines)}

Edit(t) ==
    /\ shown = t
    /\ reading[t] # 0
    /\ ~done[t]
    /\ \E l \in Edits(line[t], past[t]) : line' = [line EXCEPT ![t] = l]
    /\ UNCHANGED <<shown, done, reading, got, past>>

Complete(t) ==
    /\ shown = t
    /\ reading[t] # 0
    /\ done' = [done EXCEPT ![t] = TRUE]
    /\ UNCHANGED <<shown, line, reading, got, past>>

\* what a reader gets, who may ask for less than the line: the beginning of it
Gives(t, bytes) ==
    shown = t =>
        \E n \in 0 .. Len(line[t]) :
           /\ bytes = SubSeq(line[t], 1, n)
           /\ reading[t] = Whole => n = Len(line[t])

Return(t) ==
    /\ reading[t] # 0
    /\ done[t]
    /\ got' = [got EXCEPT ![t] = got'[t]]
    /\ Gives(t, got'[t])
    /\ past' = [past EXCEPT ![t] = Append(@, line[t])]
    /\ line' = [line EXCEPT ![t] = <<>>]
    /\ done' = [done EXCEPT ![t] = FALSE]
    /\ reading' = [reading EXCEPT ![t] = 0]
    /\ UNCHANGED shown

Show(t) ==
    /\ shown' = t
    /\ UNCHANGED <<line, done, reading, got, past>>

Next == \E t \in Terminals : Begin(t) \/ Edit(t) \/ Complete(t) \/ Return(t) \/ Show(t)

Spec == Init /\ [][Next]_vars
=============================================================================
