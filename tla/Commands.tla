------------------------------- MODULE Commands -------------------------------
(***************************************************************************)
(* What becomes of a command line: execute takes it apart (syscall.c) and  *)
(* looks for a user program of that name, then for a kernel program whose  *)
(* name begins the command (kernel_program.c).  The programs that change   *)
(* what others see are modelled: the calculators, those that set the       *)
(* colour, and serial.  Processes are preempted between any two steps.     *)
(*                                                                         *)
(* A command line is a sequence of characters, but the names of programs   *)
(* and the words of serial, in which nothing is looked up, are one each,   *)
(* also where lengths are counted.                                         *)
(***************************************************************************)
EXTENDS Calculator

CONSTANTS
    Procs,              \* shells, one per terminal
    Lines,              \* what each is told
    UserPrograms,       \* those of the disk that are modelled; they come first
    MAX_CMD,
    MAX_ARGS, MAX_ARG_LEN,
    Overlap             \* may kernel programs of two terminals overlap?

KernelPrograms == {"help", "color", "meminfo", "calc", "info", "serial"}
BLANK == " "
Colors == <<"0", "1", "2", "3", "4", "5", "6", "7", "8", "9", "a", "b", "c", "d", "e", "f">>
INFO_COLOR == 11        \* 0x0b
CLEAR_COLOR == 15       \* 0x0F
NONE == 1000            \* no number printed
KERNEL == -1

ASSUME CommandsAssumption ==
    /\ Procs \subseteq Nat /\ Lines \in [Procs -> SUBSET Seq(STRING)]
    /\ UserPrograms \subseteq {"calc", "color", "help"}
    /\ MAX_CMD \in Nat \ {0} /\ MAX_ARGS \in Nat \ {0} /\ MAX_ARG_LEN \in Nat \ {0}
    /\ Overlap \in BOOLEAN

VARIABLES
    prog,               \* what each process runs: "shell", "calc", "cal", "info"
    line,               \* the last command line of each process
    todo,               \* what its calculator has not read yet
    stacks,             \* op and num: of each user program, and of the kernel
    says,               \* the number printed for its last command line
    attrib,             \* ATTRIB
    att,                \* the attribute that info keeps
    chosen,             \* history: the colour last chosen
    killed,             \* history: was info killed since?
    uart                \* what the serial port is set to

vars == <<prog, line, todo, stacks, says, attrib, att, chosen, killed, uart>>

-----------------------------------------------------------------------------
(* command lines *)

\* execute: one word, and what follows the blanks after it
ParseOne(s, ch) ==
    CASE s.state = 0 -> IF ch = BLANK THEN s ELSE [s EXCEPT !.state = 1, !.cmd = <<ch>>]
      [] s.state = 1 -> IF ch = BLANK THEN [s EXCEPT !.state = 2] ELSE [s EXCEPT !.cmd = Append(@, ch)]
      [] s.state = 2 -> IF ch = BLANK THEN s ELSE [s EXCEPT !.state = 3, !.arg = <<ch>>]
      [] s.state = 3 -> [s EXCEPT !.arg = Append(@, ch)]

Parse(l) ==
    LET f[k \in 0 .. Len(l)] == IF k = 0 THEN [state |-> 0, cmd |-> <<>>, arg |-> <<>>]
                                ELSE ParseOne(f[k - 1], l[k])
    IN  f[Len(l)]

\* of every line a shell may be told, once
Parsed == [l \in {<<>>} \cup UNION {Lines[p] : p \in Procs} |-> Parse(l)]

Cmd(l) == Parsed[l].cmd
Arg(l) == Parsed[l].arg

\* No argument is longer than execute's array of MAX_ARG_LEN + 1 bytes (syscall.c:94):
\* its loop counts the characters of the command and not those of the argument
\* (:147-151), and a longer one is written over its stack and, by the strcpy of :232,
\* over what the process keeps after args.
ASSUME ArgumentsAssumption == \A p \in Procs : \A l \in Lines[p] : Len(Arg(l)) <= MAX_ARG_LEN

\* (slip: one word more than there is room for)
SplitMore(s, ch) ==
    IF s.stop THEN s
    ELSE IF s.in
         THEN IF ch = BLANK THEN [s EXCEPT !.in = FALSE, !.stop = Len(s.words) > MAX_ARGS]
              ELSE IF Len(Last(s.words)) >= MAX_ARG_LEN THEN [s EXCEPT !.stop = TRUE]
              ELSE [s EXCEPT !.words[Len(s.words)] = Append(@, ch)]
         ELSE IF ch = BLANK THEN s
              ELSE [s EXCEPT !.in = TRUE, !.words = Append(@, <<ch>>)]

\* separate_args: at most MAX_ARGS words, and nothing after a word that is too long
Split(s, ch) ==
    IF s.stop THEN s
    ELSE IF s.in
         THEN IF ch = BLANK THEN [s EXCEPT !.in = FALSE, !.stop = Len(s.words) >= MAX_ARGS]
              ELSE IF Len(Last(s.words)) >= MAX_ARG_LEN THEN [s EXCEPT !.stop = TRUE]
              ELSE [s EXCEPT !.words[Len(s.words)] = Append(@, ch)]
         ELSE IF ch = BLANK THEN s
              ELSE [s EXCEPT !.in = TRUE, !.words = Append(@, <<ch>>)]

SeparateArgs(arg) ==
    LET f[k \in 0 .. Len(arg)] == IF k = 0 THEN [words |-> <<>>, in |-> FALSE, stop |-> FALSE]
                                  ELSE Split(f[k - 1], arg[k])
    IN  f[Len(arg)].words

\* read_dentry_by_name wants the name, strncmp only what the command begins with
IsUser(l, name) == Cmd(l) = <<name>> /\ name \in UserPrograms
IsKernel(l, name) ==
    /\ Cmd(l) # <<>> /\ Len(Cmd(l)) <= MAX_CMD
    /\ Head(Cmd(l)) = name
    /\ \A u \in UserPrograms : ~IsUser(l, u)

\* A calculator is given no bracket that is not closed and closes none that is not
\* open: the loops of cal would leave its arrays.
ASSUME BracketsAssumption ==
    \A p \in Procs : \A l \in Lines[p] :
        IsUser(l, "calc") \/ IsKernel(l, "calc") => Balanced(Arg(l))

Init ==
    /\ prog = [p \in Procs |-> "shell"]
    /\ line = [p \in Procs |-> <<>>]
    /\ todo = [p \in Procs |-> <<>>]
    /\ stacks = [o \in Procs \cup {KERNEL} |-> Cleared]
    /\ says = [p \in Procs |-> NONE]
    /\ attrib = CLEAR_COLOR
    /\ att = [p \in Procs |-> CLEAR_COLOR]
    /\ chosen = CLEAR_COLOR
    /\ killed = FALSE
    /\ uart = [irqs |-> FALSE, loop |-> FALSE]

\* Overlap = FALSE assumes that no process calls the kernel's calculator while
\* another is in it, and that no colour is chosen and no second info is begun, on any
\* terminal, while info prints.
Alone(p, programs) == Overlap \/ \A q \in Procs \ {p} : prog[q] \notin programs

Given(p, l) ==
    /\ prog[p] = "shell"
    /\ line' = [line EXCEPT ![p] = l]
    /\ says' = [says EXCEPT ![p] = NONE]

\* nothing but the screen changes
Prints(p) ==
    /\ \E l \in Lines[p] :
          /\ Given(p, l)
          /\ \/ \A k \in KernelPrograms : ~IsKernel(l, k) /\ ~IsUser(l, k)
             \/ \E k \in {"help", "meminfo"} : IsKernel(l, k) \/ IsUser(l, k)
             \/ IsUser(l, "calc") /\ Arg(l) = <<>>
    /\ UNCHANGED <<prog, todo, stacks, attrib, att, chosen, killed, uart>>

-----------------------------------------------------------------------------
(* the calculators *)

\* the stacks that process p works on
Owner(p) == IF prog[p] = "cal" THEN KERNEL ELSE p

\* calc of the disk: the stacks are variables of its main
UserCalc(p) ==
    /\ \E l \in Lines[p] :
          /\ Given(p, l) /\ IsUser(l, "calc") /\ Arg(l) # <<>>
          /\ todo' = [todo EXCEPT ![p] = Arg(l)]
    /\ prog' = [prog EXCEPT ![p] = "calc"]
    /\ stacks' = [stacks EXCEPT ![p] = Cleared]
    /\ UNCHANGED <<attrib, att, chosen, killed, uart>>

\* (slip: the numbers are not cleared)
KernelCalcUncleared(p) ==
    /\ Alone(p, {"cal"})
    /\ \E l \in Lines[p] :
          /\ Given(p, l) /\ IsKernel(l, "calc")
          /\ todo' = [todo EXCEPT ![p] = Arg(l)]
    /\ prog' = [prog EXCEPT ![p] = "cal"]
    /\ stacks' = [stacks EXCEPT ![KERNEL] = [Cleared EXCEPT !.num = <<Head(stacks[KERNEL].num)>>]]
    /\ UNCHANGED <<attrib, att, chosen, killed, uart>>

\* calc of the kernel: op and num are static
KernelCalc(p) ==
    /\ Alone(p, {"cal"})
    /\ \E l \in Lines[p] :
          /\ Given(p, l) /\ IsKernel(l, "calc")
          /\ todo' = [todo EXCEPT ![p] = Arg(l)]
    /\ prog' = [prog EXCEPT ![p] = "cal"]
    /\ stacks' = [stacks EXCEPT ![KERNEL] = Cleared]
    /\ UNCHANGED <<attrib, att, chosen, killed, uart>>

Calculates(p) == prog[p] \in {"calc", "cal"} /\ ~stacks[Owner(p)].fault

ReadOne(p) ==
    /\ Calculates(p)
    /\ todo[p] # <<>>
    /\ stacks' = [stacks EXCEPT ![Owner(p)] = Read(@, Head(todo[p]))]
    /\ todo' = [todo EXCEPT ![p] = Tail(@)]
    /\ UNCHANGED <<prog, line, says, attrib, att, chosen, killed, uart>>

\* the last loop, and the number on the screen; or a division by 0, as below
Result(p) ==
    LET c == Finish(stacks[Owner(p)])
    IN  /\ Calculates(p)
        /\ todo[p] = <<>>
        /\ stacks' = [stacks EXCEPT ![Owner(p)] = IF Owner(p) = KERNEL THEN c ELSE Cleared]
        /\ says' = [says EXCEPT ![p] = IF c.fault THEN NONE ELSE Head(c.num)]
        /\ prog' = [prog EXCEPT ![p] = "shell"]
        /\ UNCHANGED <<line, todo, attrib, att, chosen, killed, uart>>

\* a division by 0: exception0_handler halts the program, which is the shell
\* itself when the kernel calculates; nothing of its stacks is used again
Divided(p) ==
    /\ prog[p] \in {"calc", "cal"}
    /\ stacks[Owner(p)].fault
    /\ prog' = [prog EXCEPT ![p] = "shell"]
    /\ todo' = [todo EXCEPT ![p] = <<>>]
    /\ stacks' = [stacks EXCEPT ![Owner(p)] = Cleared]
    /\ UNCHANGED <<line, says, attrib, att, chosen, killed, uart>>

-----------------------------------------------------------------------------
(* colours *)

IsColor(arg) == arg # <<>> /\ \E n \in 0 .. 15 : Colors[n + 1] = Head(arg)
ColorOf(arg) == CHOOSE n \in 0 .. 15 : Colors[n + 1] = Head(arg)

\* the program of the disk takes the first character, that of the kernel only one
Accepts(l) ==
    /\ IsColor(Arg(l))
    /\ \/ IsUser(l, "color")
       \/ IsKernel(l, "color") /\ (Len(Arg(l)) = 1 \/ Arg(l)[2] = BLANK)

Color(p) ==
    /\ Alone(p, {"info"})
    /\ \E l \in Lines[p] :
          /\ Given(p, l)
          /\ IsUser(l, "color") \/ IsKernel(l, "color")
          /\ attrib' = IF Accepts(l) THEN ColorOf(Arg(l)) ELSE attrib
          /\ chosen' = IF Accepts(l) THEN ColorOf(Arg(l)) ELSE chosen
          /\ killed' = IF Accepts(l) THEN FALSE ELSE killed
    /\ UNCHANGED <<prog, todo, stacks, att, uart>>

\* Ctrl-L: terminal_clear
Clear ==
    /\ Overlap \/ \A p \in Procs : prog[p] # "info"
    /\ attrib' = CLEAR_COLOR
    /\ chosen' = CLEAR_COLOR
    /\ killed' = FALSE
    /\ UNCHANGED <<prog, line, todo, stacks, says, att, uart>>

InfoBegin(p) ==
    /\ Alone(p, {"info"})
    /\ \E l \in Lines[p] : Given(p, l) /\ IsKernel(l, "info")
    /\ prog' = [prog EXCEPT ![p] = "info"]
    /\ att' = [att EXCEPT ![p] = attrib]
    /\ attrib' = INFO_COLOR
    /\ UNCHANGED <<todo, stacks, chosen, killed, uart>>

\* (slip: the attribute is not put back)
InfoEndsColored(p) ==
    /\ prog[p] = "info"
    /\ prog' = [prog EXCEPT ![p] = "shell"]
    /\ UNCHANGED <<attrib, line, todo, stacks, says, att, chosen, killed, uart>>

InfoEnd(p) ==
    /\ prog[p] = "info"
    /\ prog' = [prog EXCEPT ![p] = "shell"]
    /\ attrib' = att[p]
    /\ att' = [att EXCEPT ![p] = CLEAR_COLOR]
    /\ UNCHANGED <<line, todo, stacks, says, chosen, killed, uart>>

\* Ctrl-C halts what the terminal runs wherever it is, which is the shell itself when
\* the kernel calculates or prints: the colour stays info's, and the stacks of the
\* kernel what they are until cal clears them
Killed(p) ==
    /\ prog[p] = "info" \/ Calculates(p)
    /\ prog' = [prog EXCEPT ![p] = "shell"]
    /\ todo' = [todo EXCEPT ![p] = <<>>]
    /\ stacks' = IF prog[p] = "calc" THEN [stacks EXCEPT ![p] = Cleared] ELSE stacks
    /\ att' = IF prog[p] = "info" THEN [att EXCEPT ![p] = CLEAR_COLOR] ELSE att
    /\ killed' = IF prog[p] = "info" THEN TRUE ELSE killed
    /\ UNCHANGED <<line, says, attrib, chosen, uart>>

-----------------------------------------------------------------------------
(* the serial port *)

SerialInit   == [irqs |-> TRUE, loop |-> FALSE]
SerialOff    == [uart EXCEPT !.irqs = FALSE]
Loopback(on) == [uart EXCEPT !.loop = on]

\* what the first word asks for; a byte that is sent leaves the port as it is
Uart(words) ==
    CASE words = <<>> -> uart
      [] Head(words) = <<"on">> -> SerialInit
      [] Head(words) = <<"off">> -> SerialOff
      [] Head(words) = <<"loopback">> -> Loopback(Len(words) < 2 \/ Head(words[2]) # "0")
      [] OTHER -> uart

Serial(p) ==
    /\ \E l \in Lines[p] :
          /\ Given(p, l) /\ IsKernel(l, "serial")
          /\ uart' = Uart(SeparateArgs(Arg(l)))
    /\ UNCHANGED <<prog, todo, stacks, attrib, att, chosen, killed>>

-----------------------------------------------------------------------------

Calculation(p) == UserCalc(p) \/ KernelCalc(p) \/ ReadOne(p) \/ Result(p) \/ Divided(p)

Next ==
    \/ \E p \in Procs : Prints(p) \/ Calculation(p) \/ Color(p) \/ InfoBegin(p) \/ InfoEnd(p) \/ Serial(p)
    \/ \E p \in Procs : Killed(p)
    \/ Clear

Spec == Init /\ [][Next]_vars

-----------------------------------------------------------------------------
(* Properties *)

\* Numbers stay chars, colours stay colours.
TypeOK ==
    /\ prog \in [Procs -> {"shell", "calc", "cal", "info"}]
    /\ \A o \in Procs \cup {KERNEL} :
          stacks[o].num # <<>> /\ \A i \in DOMAIN stacks[o].num : stacks[o].num[i] \in -128 .. 127
    /\ says \in [Procs -> -128 .. 127 \cup {NONE}]
    /\ attrib \in 0 .. 15 /\ chosen \in 0 .. 15 /\ killed \in BOOLEAN
    /\ uart \in [irqs : BOOLEAN, loop : BOOLEAN]

\* where the words of s begin, which word it is, and where it ends
Begins(s) == {k \in DOMAIN s : s[k] # BLANK /\ (k = 1 \/ s[k - 1] = BLANK)}
Nth(s, k) == Cardinality({j \in Begins(s) : j <= k})
End(s, k) == Max({j \in k .. Len(s) : \A i \in k .. j : s[i] # BLANK})

Word(s, k) == SubSeq(s, k, End(s, k))

\* the words a program is given
Wanted(s) == {k \in Begins(s) : Nth(s, k) <= MAX_ARGS}

\* A program is given the first MAX_ARGS words of its argument, whole and in their
\* order, and no other, whatever blanks there are between them.
WordsGiven ==
    \A p \in Procs :
        LET arg   == Arg(line[p])
            words == SeparateArgs(arg)
        IN  /\ Len(words) = Cardinality(Wanted(arg))
            /\ \A k \in Wanted(arg) : words[Nth(arg, k)] = Word(arg, k)

\* While no info prints, the colour of the screen is the one last chosen, or that of
\* info if Ctrl-C killed an info since then.
ColorKept == (\A p \in Procs : prog[p] # "info") => attrib = IF killed THEN INFO_COLOR ELSE chosen
=============================================================================
