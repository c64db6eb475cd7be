----------------------------- MODULE Allocator -----------------------------
(***************************************************************************)
(* What malloc and free (page.c) promise their callers: a power-of-two     *)
(* number of pages, aligned to its size, that nobody else holds, and NULL  *)
(* only when there is no such block.                                       *)
(***************************************************************************)
EXTENDS Powers

CONSTANTS
    LOG2_ENTRIES,       \* the area is 2^LOG2_ENTRIES pages of 4 KB
    Lengths             \* the lengths in bytes that callers ask for

Pages  == 0 .. Pow2[LOG2_ENTRIES] - 1
Levels == 0 .. LOG2_ENTRIES
NULL   == -1            \* what malloc returns for no memory

VARIABLES
    held,               \* the blocks <<start, level>> given to callers
    last                \* the last malloc: the length asked for, and the start page
                        \* returned or NULL

vars == <<held, last>>

PagesOf(start, level) == start .. start + Pow2[level] - 1

HeldPages == UNION {PagesOf(b[1], b[2]) : b \in held}

\* the blocks of a level that nobody holds a page of
Available(level) ==
    {start \in Pages : /\ start % Pow2[level] = 0
                       /\ PagesOf(start, level) \subseteq Pages \ HeldPages}

\* the smallest level whose blocks hold length bytes; no block holds 0 bytes
Fits(length, level) ==
    /\ length \in 1 .. Pow2[level] * 4096
    /\ level > 0 => length > Pow2[level - 1] * 4096

Init == held = {} /\ last = <<0, NULL>>

Alloc(length) ==
    \E level \in Levels :
      /\ Fits(length, level)
      /\ \E start \in Available(level) :
            /\ held' = held \cup {<<start, level>>}
            /\ last' = <<length, start>>

Refuse(length) ==
    /\ \A level \in Levels : Fits(length, level) => Available(level) = {}
    /\ last' = <<length, NULL>>
    /\ UNCHANGED held

Release(b) ==
    /\ held' = held \ {b}
    /\ UNCHANGED last

Next ==
    \/ \E length \in Lengths : Alloc(length) \/ Refuse(length)
    \/ \E b \in held : Release(b)

Spec == Init /\ [][Next]_vars
=============================================================================
