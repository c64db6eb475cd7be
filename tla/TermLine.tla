------------------------------ MODULE TermLine ------------------------------
(***************************************************************************)
(* The terminals: the keyboard interrupt, the line buffer, terminal_read   *)
(* and its history, and the routing of output to the screen or to the page *)
(* that keeps a hidden screen (keyboard.c, terminal.c, putc of lib.c).     *)
(*                                                                         *)
(* The console's memory is one record, con.  A C function that changes it  *)
(* is an operator from a record to a record, so that a handler is their    *)
(* composition; handlers and putc run with interrupts off.  A frame of     *)
(* video memory is abstracted to the terminals whose text or blank screen  *)
(* is in it, and a buffer to its characters below the iterator.            *)
(*                                                                         *)
(* The Up and Down keys delete without routing video_mem: the places that  *)
(* they blank are not recorded in the frame, whichever it is.  astray is   *)
(* history, read by no step: a deletion has moved <<screen_x, screen_y>>   *)
(* for the displayed terminal while another one runs, and nothing has set  *)
(* it again.                                                               *)
(*                                                                         *)
(*   using, exe        terminal_using and curr_exe_terminal                *)
(*   active            the terminals that have a process                   *)
(*   screen, astray    <<screen_x, screen_y>>, and whose it is             *)
(*   cursor[t]         <<cursor_x_coord, cursor_y_coord>> of t             *)
(*   map, frames       the frame behind video_mem; the text in each frame  *)
(*   buf, flag         terminal_buffer up to buffer_iterator, read_flag    *)
(*   cmds, ask         prev_cmd up to num_cmd, and curr_ask_cmd, of t      *)
(***************************************************************************)
EXTENDS Integers, Sequences

CONSTANTS
    TerminalNum,        \* TERMINAL_NUM
    COLS, ROWS,         \* the screen
    PromptEnd,          \* the column after the shell's prompt
    BUFFER_SIZE,
    Letters,            \* what the keys type
    Sizes,              \* the nbytes of terminal_read
    Readers,            \* bound: the terminals whose process reads
    MaxAhead,           \* bound: characters in the buffer while nobody reads, before a key
    MaxReads,           \* bound: lines read on each terminal
    AnyUser             \* may the user do what the line discipline cannot take?

ASSUME TermAssumption ==
    /\ TerminalNum \in Nat \ {0} /\ BUFFER_SIZE \in Nat \ {0, 1}
    /\ COLS \in Nat \ {0} /\ ROWS \in Nat \ {0} /\ PromptEnd \in Nat
    /\ Sizes \subseteq Nat \ {0} /\ BUFFER_SIZE \in Sizes
    /\ Readers \subseteq 0 .. TerminalNum - 1
    /\ MaxReads \in Nat /\ MaxAhead \in Nat /\ AnyUser \in BOOLEAN

Terminals == 0 .. TerminalNum - 1
VIDEO     == -1         \* the frame on the screen; frame t keeps hidden screen t
ENTER     == "\n"
BLANK     == " "
NUL       == "0"
STALE     == "?"        \* a character skipped over: what was in the buffer before
Chars     == Letters \cup {ENTER, BLANK, NUL, STALE}
LOST      == -1         \* a reader whose copy loop has left the history

ASSUME LettersAssumption == Letters # {} /\ {ENTER, STALE} \cap Letters = {}

VARIABLES
    con,
    reading,            \* what the reader of each terminal asked for; 0: no reader
    waits,              \* the terminals whose reader waits for read_flag
    got                 \* the bytes last returned on each terminal

vars == <<con, reading, waits, got>>

Init ==
    /\ con = [using  |-> 0, exe |-> 0, active |-> {0},
              screen |-> <<0, 0>>, astray |-> FALSE, cursor |-> [t \in Terminals |-> <<0, 0>>],
              map    |-> VIDEO,
              frames |-> [f \in Terminals \cup {VIDEO} |-> IF f = VIDEO THEN {0} ELSE {f}],
              buf    |-> [t \in Terminals |-> <<>>],
              flag   |-> [t \in Terminals |-> FALSE],
              cmds   |-> [t \in Terminals |-> <<>>],
              ask    |-> [t \in Terminals |-> 0]]
    /\ reading = [t \in Terminals |-> 0]
    /\ waits = {}
    /\ got = [t \in Terminals |-> <<>>]

-----------------------------------------------------------------------------
(* video memory *)

\* the frame that shows terminal t
FrameOf(c, t) == IF t = c.using THEN VIDEO ELSE t

SetMem(c, t) ==
    [c EXCEPT !.screen = c.cursor[t], !.astray = FALSE, !.map = FrameOf(c, t)]

\* a store through video_mem on behalf of the terminals in S, at most one
Store(c, S) == [c EXCEPT !.frames[c.map] = @ \cup S]

\* (slip: the last row is not the last)
NewLineOff(s) == <<0, s[2] + 1>>

\* on the last row the screen scrolls
NewLine(s) == <<0, IF s[2] < ROWS - 1 THEN s[2] + 1 ELSE s[2]>>

\* where the cursor goes when ch is printed; the last column stays empty
Advance(s, ch) ==
    IF ch = ENTER THEN NewLine(s)
    ELSE LET at == IF s[1] >= COLS - 1 THEN NewLine(s) ELSE s
         IN  <<(at[1] + 1) % COLS, at[2]>>

\* a process prints
Putc(c, ch) ==
    LET s == Advance(c.screen, ch)
    IN  [Store(c, {c.exe}) EXCEPT !.screen = s, !.astray = FALSE, !.cursor[c.exe] = s]

\* a key is echoed
PutcKeyboard(c, ch) ==
    LET s == Advance(c.screen, ch)
    IN  [Store(c, {c.using}) EXCEPT !.screen = s, !.cursor[c.using] = s]

\* (slip: video memory is not routed to the displayed terminal)
EchoUnrouted(c, ch) == SetMem(PutcKeyboard(c, ch), c.exe)

Echo(c, ch) == SetMem(PutcKeyboard(SetMem(c, c.using), ch), c.exe)

-----------------------------------------------------------------------------
(* the line buffer *)

It(c, t) == Len(c.buf[t])

\* terminal_buffer[buffer_iterator] = ch, and the echo that moves the iterator
Put(c, ch) == Echo([c EXCEPT !.buf[c.using] = Append(@, ch)], ch)

\* (slip: the terminal that runs is told, not the one displayed)
EnterKeyExe(c) == [Put(c, ENTER) EXCEPT !.buf[c.using] = Append(@, STALE), !.flag[c.exe] = TRUE]

\* buffer_set of a newline moves the iterator too
EnterKey(c) == [Put(c, ENTER) EXCEPT !.buf[c.using] = Append(@, STALE), !.flag[c.using] = TRUE]

\* buffer_set of another character: at the end of a row a newline goes first.
\* The row is that of the running terminal, whose position is in screen_x.
CharKey(c, ch) == Put(IF c.screen[1] = COLS - 1 THEN Put(c, ENTER) ELSE c, ch)

TerminalDisplay(c, ch) ==
    LET i == It(c, c.using)
    IN  IF i >= BUFFER_SIZE \/ (i = BUFFER_SIZE - 1 /\ ch # ENTER) THEN c
        ELSE IF ch = ENTER THEN EnterKey(c) ELSE CharKey(c, ch)

\* prompts is the set of rows with a '>' where a prompt has it
Undeletable(c, prompts) ==
    \/ c.screen[1] = PromptEnd /\ c.screen[2] \in prompts
    \/ c.buf[c.using] = <<>>
    \/ c.screen = <<0, 0>>

\* The blank goes to the place of the iterator; past the end of the buffer lies
\* the iterator itself, whose first or second byte becomes 32.
Blanked(i) == IF i < BUFFER_SIZE THEN i ELSE IF i = BUFFER_SIZE THEN 32 ELSE i + 256 * 32

\* S: the terminal on whose behalf video_mem was routed, none if it was not
TerminalDelete(c, prompts, S) ==
    IF Undeletable(c, prompts) THEN c
    ELSE LET t == c.using
             s == IF c.screen[1] = 0 THEN <<COLS - 1, c.screen[2] - 1>>
                  ELSE <<c.screen[1] - 1, c.screen[2]>>
             n == (Blanked(It(c, t)) - 1) % BUFFER_SIZE
         IN  [Store(c, S) EXCEPT !.screen = s, !.astray = (c.exe # t), !.cursor[t] = s,
                                 !.buf[t] = SubSeq(@, 1, n)]

\* the loops of show_last_cmd and show_next_cmd: delete what is there ...
DeleteLine(c, prompts) ==
    LET d[k \in 0 .. BUFFER_SIZE + 1] ==
            IF k = 0 THEN c ELSE TerminalDelete(d[k - 1], prompts, {})
    IN  d[BUFFER_SIZE + 1]

\* ... and display the command
DisplayAll(c, s) ==
    LET d[k \in 0 .. Len(s)] == IF k = 0 THEN c ELSE TerminalDisplay(d[k - 1], s[k])
    IN  d[Len(s)]

Command(c, t, n) == IF n < Len(c.cmds[t]) THEN c.cmds[t][n + 1] ELSE <<>>

ShowCmd(c, prompts, n) ==
    DisplayAll([DeleteLine(c, prompts) EXCEPT !.ask[c.using] = n], Command(c, c.using, n))

LastCmd(c) == IF c.ask[c.using] > 0 THEN c.ask[c.using] - 1 ELSE 0
NextCmd(c) == IF c.ask[c.using] < Len(c.cmds[c.using]) THEN c.ask[c.using] + 1 ELSE c.ask[c.using]

ClearKey(c) ==
    LET d == SetMem(c, c.using)
    IN  SetMem([d EXCEPT !.frames[d.map] = {c.using}, !.cursor[c.using] = <<0, 0>>,
                         !.flag[c.using] = FALSE], c.exe)

-----------------------------------------------------------------------------
(* the keyboard interrupt: one key of the displayed terminal's user *)

Unfolded(s) == \A k \in 1 .. Len(s) : s[k] # ENTER

\* AnyUser = FALSE assumes a user who, once a line is complete, types nothing on
\* its terminal until the reader has it (but may display another); who does not
\* press Enter just between a reader's emptying of the buffer and its wait; keeps
\* lines two short of the buffer; and recalls commands that were not folded.
Ready(c, t)   == t \in waits /\ c.flag[t]
MayType       == AnyUser \/ ~Ready(con, con.using)
FitsBuffer(c) == AnyUser \/ It(c, c.using) <= BUFFER_SIZE - 2
MayEnter(c)   == con.using \in waits \/ (FitsBuffer(c) /\ (AnyUser \/ reading[con.using] = 0))
MayRecall(n)  == AnyUser \/ Unfolded(Command(con, con.using, n))

\* while nobody reads, a line is typed ahead only before a read
Bounded(c) ==
    LET t == c.using
    IN  \/ reading[t] # 0
        \/ c.buf = con.buf
        \/ /\ t \in Readers /\ Len(con.cmds[t]) < MaxReads
           /\ It(con, t) < MaxAhead \/ It(c, t) <= It(con, t)

Press(c) == Bounded(c) /\ con' = c /\ UNCHANGED <<reading, waits, got>>
Type(c)  == MayType /\ Press(c)

\* a letter, or a tabulator, which is two blanks
TypeKey ==
    \E c \in {TerminalDisplay(con, ch) : ch \in Letters}
             \cup {TerminalDisplay(TerminalDisplay(con, BLANK), BLANK)} :
        FitsBuffer(c) /\ Type(c)

Enter ==
    LET c == TerminalDisplay(con, ENTER)
    IN  MayEnter(c) /\ Type(c)

Backspace ==
    \E prompts \in SUBSET (0 .. ROWS - 1) :
        LET c == SetMem(TerminalDelete(SetMem(con, con.using), prompts, {con.using}), con.exe)
        IN  FitsBuffer(c) /\ Type(c)

\* Up and Down, whichever process runs: the deletions go where video_mem and
\* screen_x are, those of the terminal that runs
Recall ==
    \E prompts \in SUBSET (0 .. ROWS - 1), n \in {LastCmd(con), NextCmd(con)} :
        LET c == ShowCmd(con, prompts, n)
        IN  MayRecall(n) /\ FitsBuffer(c) /\ Type(c)

ControlL == Type(ClearKey(con))

\* (slip: video memory stays routed to the terminal that was displayed)
TerminalSwitchUnrouted(t) ==
    /\ t # con.using
    /\ Press([con EXCEPT !.frames[con.using] = con.frames[VIDEO],
                         !.frames[VIDEO] = con.frames[t], !.using = t])

\* Alt+Fn: keep the displayed frame, show the other
TerminalSwitch(t) ==
    /\ t # con.using
    /\ Press(SetMem([con EXCEPT !.frames[con.using] = con.frames[VIDEO],
                                !.frames[VIDEO] = con.frames[t], !.using = t], con.exe))

Key ==
    \/ TypeKey \/ Enter \/ Backspace \/ Recall \/ ControlL
    \/ \E t \in Terminals : TerminalSwitch(t)

-----------------------------------------------------------------------------
(* the clock interrupt, and the process that runs *)

\* (slip: the search begins at the terminal that runs, not after it)
NextExeFromItself(c) ==
    LET after(t) == (t - c.exe) % TerminalNum
    IN  CHOOSE t \in c.active : \A u \in c.active : after(t) <= after(u)

\* the next terminal with a process, going round
NextExe(c) ==
    LET after(t) == (t - c.exe - 1) % TerminalNum
    IN  CHOOSE t \in c.active : \A u \in c.active : after(t) <= after(u)

\* process_switch: start the displayed terminal's shell, or go round
Tick ==
    LET started == con.using \notin con.active
        t       == IF started THEN con.using ELSE NextExe(con)
    IN  /\ con' = [SetMem(con, t) EXCEPT !.exe = t, !.active = @ \cup {t}]
        /\ UNCHANGED <<reading, waits, got>>

\* terminal_write, one character
Write ==
    /\ reading[con.exe] = 0
    /\ \E ch \in {CHOOSE l \in Letters : TRUE, ENTER} : con' = Putc(con, ch)
    /\ UNCHANGED <<reading, waits, got>>

\* terminal_read: read_flag is cleared and the buffer emptied, as one, since only
\* this reader tests its flag and the iterator is the last that is reset ...
ReadBegin ==
    /\ con.exe \in Readers /\ reading[con.exe] = 0
    /\ Len(con.cmds[con.exe]) < MaxReads
    /\ con' = [con EXCEPT !.buf[con.exe] = <<>>, !.flag[con.exe] = FALSE]
    /\ \E n \in Sizes : reading' = [reading EXCEPT ![con.exe] = n]
    /\ UNCHANGED <<waits, got>>

\* ... and then the flag is cleared once more, whatever was entered in between
ReadWaits ==
    /\ reading[con.exe] \in Sizes /\ con.exe \notin waits
    /\ con' = [con EXCEPT !.flag[con.exe] = FALSE]
    /\ waits' = waits \cup {con.exe}
    /\ UNCHANGED <<reading, got>>

LeastOf(a, b) == IF a < b THEN a ELSE b

\* terminal_read after its wait: the character below the iterator becomes NUL,
\* what is two below goes to the history, and the copy stops at the NUL, but is
\* made from the buffer of the displayed terminal.  Past the end of the buffer
\* the NUL hits the iterator, whose low byte becomes 0.  (A place skipped in the
\* middle of the line, which takes AnyUser, may hold a NUL that ends the copy
\* earlier: not modelled.)
ReadReturn ==
    LET t == con.exe
        i == It(con, t)
    IN  /\ Ready(con, t)
        /\ waits' = waits \ {t}
        /\ IF i < 2 \/ i > BUFFER_SIZE      \* cmd_len, unsigned, is above the history's
           THEN /\ reading' = [reading EXCEPT ![t] = LOST]
                /\ UNCHANGED <<con, got>>
           ELSE /\ con' = [con EXCEPT !.buf[t][i] = NUL,
                                      !.cmds[t] = Append(@, SubSeq(con.buf[t], 1, i - 2)),
                                      !.ask[t] = Len(con.cmds[t]) + 1]
                /\ reading' = [reading EXCEPT ![t] = 0]
                /\ got' = [got EXCEPT ![t] =
                              [k \in 1 .. LeastOf(reading[t], i - 1) |->
                                  IF k <= It(con, con.using) THEN con.buf[con.using][k] ELSE STALE]]

-----------------------------------------------------------------------------

Next == Key \/ Tick \/ Write \/ ReadBegin \/ ReadWaits \/ ReadReturn

Spec == Init /\ [][Next]_vars

\* The clock keeps ticking, and a process that is scheduled again and again gets
\* to test read_flag and return before the next tick.
FairSpec == Spec /\ WF_vars(Tick) /\ SF_vars(ReadReturn)

-----------------------------------------------------------------------------
(* Properties *)

Places == (0 .. COLS - 1) \X (0 .. ROWS - 1)

\* Positions are on the screen, buffers have their length, lines their bound.
TypeOK ==
    /\ con.using \in Terminals /\ con.exe \in con.active
    /\ con.active \subseteq Terminals
    /\ con.screen \in Places /\ con.astray \in BOOLEAN /\ con.cursor \in [Terminals -> Places]
    /\ con.map \in Terminals \cup {VIDEO}
    /\ con.frames \in [Terminals \cup {VIDEO} -> SUBSET Terminals]
    /\ \A t \in Terminals :
          /\ It(con, t) <= BUFFER_SIZE
          /\ Len(con.cmds[t]) <= MaxReads /\ con.ask[t] \in 0 .. Len(con.cmds[t])
    /\ con.flag \in [Terminals -> BOOLEAN]
    /\ reading \in [Terminals -> Sizes \cup {0}]
    /\ waits \subseteq {t \in Readers : reading[t] # 0}

\* Whenever a process runs, video_mem is the frame of its terminal, and screen_x/y
\* its position, whatever keys, switches and ticks came between its characters;
\* the one exception is the position between an Up or Down that deleted on the
\* displayed terminal while this one runs and showed no command, and the next
\* echo, switch, tick or character.
Routed ==
    /\ con.map = FrameOf(con, con.exe)
    /\ con.astray \/ con.screen = con.cursor[con.exe]

\* The frame that shows a terminal holds only the output and the echo of that
\* terminal: no process, no typed key, no backspace and no switch ever draws on the
\* screen of another.  Only the blanks of Up and Down, which are not routed and not
\* recorded here, may be on any screen.
OwnScreen == \A t \in Terminals : con.frames[FrameOf(con, t)] \subseteq {t}

\* a line without the newlines that end or fold it, and the place after its end
Text(s) ==
    LET f[n \in 0 .. Len(s)] ==
            IF n = 0 THEN <<>>
            ELSE IF s[n] \in {ENTER, STALE} THEN f[n - 1] ELSE Append(f[n - 1], s[n])
    IN  f[Len(s)]

\* what each terminal's reader is being typed, whether it is complete, what it was
\* given last, and the lines it was given before
edited   == [t \in Terminals |-> IF reading[t] = 0 THEN <<>> ELSE Text(con.buf[t])]
complete == [t \in Terminals |-> Ready(con, t)]
given    == [t \in Terminals |-> Text(got[t])]
Texts(lines) == [i \in DOMAIN lines |-> Text(lines[i])]
recalled == [t \in Terminals |-> Texts(con.cmds[t])]

\* terminal_read implements Lines: what a reader returns is what the user of its
\* terminal typed since it began to read, edits and recalled commands applied, if
\* that terminal is still displayed; else, as terminal.c:155 copies from the
\* displayed terminal, it may be anything.
L == INSTANCE Lines WITH
        Whole <- BUFFER_SIZE, shown <- con.using,
        line <- edited, done <- complete, got <- given, past <- recalled
Implements == L!Spec

\* A complete line is returned to the process that waits for it, although the
\* processes of other terminals run and print in between, without end.
LineDelivered == \A t \in Terminals : Ready(con, t) ~> reading[t] = 0
=============================================================================
