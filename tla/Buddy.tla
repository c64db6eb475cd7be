------------------------------- MODULE Buddy -------------------------------
(***************************************************************************)
(* The buddy system behind malloc and free (page.c): one doubly linked     *)
(* list of free nodes per level, threaded through a heap-ordered tree of   *)
(* nodes: node j has children 2j and 2j+1, node 1 is the whole area.       *)
(*                                                                         *)
(* A pointer is the page it points into; a link is a node, or NIL.  The    *)
(* last node, 2 * ENTRIES - 1, lies one past the end of buddy_list: it is  *)
(* taken to be memory that nothing else uses.  malloc and free run without *)
(* being interrupted here.                                                 *)
(***************************************************************************)
EXTENDS Powers

CONSTANTS
    LOG2_ENTRIES,       \* levels are 0 .. LOG2_ENTRIES
    Lengths,            \* the lengths in bytes that callers ask for
    AnyPtr              \* may callers free a page that malloc did not return?

ASSUME BuddyAssumption ==
    /\ LOG2_ENTRIES \in 0 .. 19         \* 10: fewer pages than a length of 32 bits may need
    /\ Lengths \subseteq Nat
    /\ \A length \in Lengths : length > 0 => (length - 1) \div 4096 < Pow2[20]
    /\ AnyPtr \in BOOLEAN

ENTRIES == Pow2[LOG2_ENTRIES]
Pages   == 0 .. ENTRIES - 1
Levels  == 0 .. LOG2_ENTRIES
Nodes   == 1 .. 2 * ENTRIES - 1
NIL     == 0            \* the pointer NULL; buddy_list[0] is in no list
NULL    == -1           \* what malloc returns for no memory
UNUSED  == -1           \* size of a page that starts no block

VARIABLES
    buddy_head,         \* the first free node of each level
    prev, next,         \* the links of buddy_list
    size,               \* the level of the block that starts at a page
    held,               \* the blocks <<start, level>> that callers hold
    last                \* the last malloc: the length asked for, and the start page
                        \* returned or NULL

lists == <<buddy_head, prev, next>>
vars  == <<lists, size, held, last>>

\* buddy_list[j].level and .start_addr, set once by buddy_init
RowOf(j)   == CHOOSE i \in Levels : Pow2[i] <= j /\ j < Pow2[i + 1]
LevelOf(j) == LOG2_ENTRIES - RowOf(j)
StartOf(j) == (ENTRIES \div Pow2[RowOf(j)]) * (j - Pow2[RowOf(j)])

\* j ^ 1
BuddyOf(j) == IF j % 2 = 0 THEN j + 1 ELSE j - 1

\* buddy_init: the loop that sets size runs over the levels, not the pages, so
\* the other pages keep the 0 that they were loaded with
Init ==
    /\ buddy_head = [l \in Levels |-> IF l = LOG2_ENTRIES THEN 1 ELSE NIL]
    /\ prev = [j \in Nodes |-> NIL]
    /\ next = [j \in Nodes |-> NIL]
    /\ size = [p \in Pages |-> IF p <= LOG2_ENTRIES THEN UNUSED ELSE 0]
    /\ held = {}
    /\ last = <<0, NULL>>

-----------------------------------------------------------------------------
(* the free lists, as a value [head, prev, next] *)

Lists == [head |-> buddy_head, prev |-> prev, next |-> next]

Become(F) == buddy_head' = F.head /\ prev' = F.prev /\ next' = F.next

\* put node j at the head of its level's list
Add(F, j, level) ==
    IF F.head[level] = NIL
    THEN [F EXCEPT !.head[level] = j, !.prev[j] = NIL, !.next[j] = NIL]
    ELSE [F EXCEPT !.prev[F.head[level]] = j, !.next[j] = F.head[level],
                   !.prev[j] = NIL, !.head[level] = j]

\* (slip: the new head keeps its link back)
PopLinked(F, level) ==
    LET j == F.head[level]
    IN  [F EXCEPT !.head[level] = F.next[j], !.prev[j] = NIL, !.next[j] = NIL]

\* take the head off a list that is not empty
Pop(F, level) ==
    LET j     == F.head[level]
        first == F.next[j]
        rest  == IF first = NIL THEN F ELSE [F EXCEPT !.prev[first] = NIL]
    IN  [rest EXCEPT !.head[level] = first, !.prev[j] = NIL, !.next[j] = NIL]

\* (slip: the right child is forgotten)
SplitLeft(F, level) == Add(Pop(F, level), 2 * F.head[level], level - 1)

\* replace the head of a level's list by its two children
Split(F, level) ==
    LET j == F.head[level]
    IN  Add(Add(Pop(F, level), 2 * j, level - 1), 2 * j + 1, level - 1)

\* unlink node j, which is free, from its level's list
Unlink(F, j, level) ==
    IF F.head[level] = j THEN Pop(F, level)
    ELSE LET skip == [F EXCEPT !.next[F.prev[j]] = F.next[j]]
             back == IF F.next[j] = NIL THEN skip
                     ELSE [skip EXCEPT !.prev[F.next[j]] = F.prev[j]]
         IN  [back EXCEPT !.prev[j] = NIL, !.next[j] = NIL]

-----------------------------------------------------------------------------
(* malloc *)

\* (length - 1) / 4096 + 1 on 32 unsigned bits
PagesNeeded(length) ==
    IF length = 0 THEN Pow2[20] ELSE (length - 1) \div 4096 + 1

LevelNeeded(length) ==
    CHOOSE i \in 0 .. 20 :
        /\ Pow2[i] >= PagesNeeded(length)
        /\ i > 0 => Pow2[i - 1] < PagesNeeded(length)

\* (slip: the exact level is passed over)
SourceAbove(level) == {i \in Levels : i > level /\ buddy_head[i] # NIL}

\* the levels a block for level can come from; malloc takes the lowest
Source(level) == {i \in Levels : i >= level /\ buddy_head[i] # NIL}

\* (slip: the number of pages is stored)
SizeStoredPages(level) == Pow2[level]

\* what malloc remembers of a block
SizeStored(level) == level

MallocFail(length) ==
    /\ Source(LevelNeeded(length)) = {}
    /\ last' = <<length, NULL>>
    /\ UNCHANGED <<lists, size, held>>

\* the loop that splits from level i down to the one needed
Halved(i, level) ==
    LET f[k \in 0 .. i - level] == IF k = 0 THEN Lists ELSE Split(f[k - 1], i - k + 1)
    IN  f[i - level]

Malloc(length) ==
    LET level == LevelNeeded(length) IN
    \E i \in Source(level) :
        LET halved == Halved(i, level)
            start  == StartOf(halved.head[level])
        IN  /\ \A j \in Source(level) : i <= j
            /\ Become(Pop(halved, level))
            /\ size' = [size EXCEPT ![start] = SizeStored(level)]
            /\ held' = held \cup {<<start, level>>}
            /\ last' = <<length, start>>

-----------------------------------------------------------------------------
(* free *)

\* (slip: a node alone in its list is not seen to be free)
IsFreeLinked(F, j, level) == F.next[j] # NIL \/ F.prev[j] # NIL

\* does node j look free?
IsFree(F, j, level) ==
    F.next[j] # NIL \/ F.prev[j] # NIL \/ F.head[level] = j

\* one round of the loop that merges node m.node with its free buddy; a round
\* after the loop has ended changes nothing
MergeOnce(m) ==
    IF m.node > 1 /\ IsFree(m.lists, BuddyOf(m.node), m.level)
    THEN [lists |-> Unlink(m.lists, BuddyOf(m.node), m.level),
          node  |-> m.node \div 2,
          level |-> m.level + 1]
    ELSE m

\* the node of a block, from its first page and its level
NodeOf(page, level) ==
    LET row == Pow2[LOG2_ENTRIES - level] IN row + page \div (ENTRIES \div row)

\* the loop, which ends at the root at the latest
Merged(page) ==
    LET m[k \in 0 .. LOG2_ENTRIES] ==
            IF k = 0
            THEN [lists |-> Lists, node |-> NodeOf(page, size[page]), level |-> size[page]]
            ELSE MergeOnce(m[k - 1])
    IN  m[LOG2_ENTRIES]

\* "invalid pointer": free returns -1 and changes nothing
FreeRefuse(page) ==
    /\ size[page] = UNUSED
    /\ UNCHANGED vars

Free(page) ==
    /\ AnyPtr \/ \E b \in held : b[1] = page
    /\ size[page] # UNUSED
    /\ LET merged == Merged(page)
       IN  Become(Add(merged.lists, merged.node, merged.level))
    /\ size' = [size EXCEPT ![page] = UNUSED]
    /\ held' = {b \in held : b[1] # page}
    /\ UNCHANGED last

-----------------------------------------------------------------------------

Next ==
    \/ \E length \in Lengths : Malloc(length) \/ MallocFail(length)
    \/ \E page \in Pages : Free(page) \/ FreeRefuse(page)

Spec == Init /\ [][Next]_vars

-----------------------------------------------------------------------------
(* Properties *)

\* Links and sizes are in range: the size of a page is a level or UNUSED.
TypeOK ==
    /\ buddy_head \in [Levels -> Nodes \cup {NIL}]
    /\ prev \in [Nodes -> Nodes \cup {NIL}]
    /\ next \in [Nodes -> Nodes \cup {NIL}]
    /\ size \in [Pages -> Levels \cup {UNUSED}]
    /\ held \subseteq Pages \X Levels
    /\ last \in Nat \X (Pages \cup {NULL})

\* the nodes reached from the head of a level's list
FreeNodes(level) ==
    LET walk[n \in Nat] ==
            IF n = 0 THEN buddy_head[level]
            ELSE LET j == walk[n - 1] IN IF j = NIL THEN NIL ELSE next[j]
    IN  {walk[n] : n \in 0 .. ENTRIES - 1} \ {NIL}

AllFree == UNION {FreeNodes(l) : l \in Levels}

\* The lists are well linked: each holds nodes of its level only, links run
\* both ways, and a node in no list has no links, so that free may take a link
\* for the mark of a free node.
WellLinked ==
    /\ \A l \in Levels :
          /\ buddy_head[l] # NIL => prev[buddy_head[l]] = NIL
          /\ \A j \in FreeNodes(l) :
                /\ LevelOf(j) = l
                /\ next[j] # NIL => prev[next[j]] = j
                /\ j # buddy_head[l] => next[prev[j]] = j
    /\ \A j \in Nodes \ AllFree : prev[j] = NIL /\ next[j] = NIL

PagesOf(start, level) == start .. start + Pow2[level] - 1

\* Every page belongs to exactly one block, held or free: no page is given out
\* twice and none is lost, over any sequence of malloc and free.
Partition ==
    \A p \in Pages :
        LET h == {b \in held : p \in PagesOf(b[1], b[2])}
            f == {j \in AllFree : p \in PagesOf(StartOf(j), LevelOf(j))}
        IN  \/ f = {} /\ \E b \in h : h = {b}
            \/ h = {} /\ \E j \in f : f = {j}

\* Two buddies are never free at once: free merges all that can be merged.
Coalesced == \A j \in AllFree \ {1} : BuddyOf(j) \notin AllFree

\* malloc and free implement the abstract allocator; in particular malloc
\* returns NULL only when no aligned block of the size is free.
A == INSTANCE Allocator
Implements == A!Spec

\* free refuses a pointer to a page that starts no block in use: "-1 means the
\* block is not used", and -1 is what free takes for an "invalid pointer".
RefusesUnused ==
    [][\A p \in Pages : (\A b \in held : b[1] # p) /\ Free(p) => UNCHANGED lists]_vars
=============================================================================
