----------------------------- MODULE Interrupts -----------------------------
(***************************************************************************)
(* How the kernel is entered and left: the gates of the IDT, the stubs of  *)
(* handler_dispatcher.S with the words they push and pop, the interrupt    *)
(* flag, the two interrupt controllers, the handlers' end-of-interrupt     *)
(* commands, and the cell through which system calls return their value.   *)
(*                                                                         *)
(* What a handler does besides is abstracted: signal_handler is a step     *)
(* (module Signal), process_switch is a choice of the next process, and    *)
(* halt restarts the program or goes back to its parent (module Process).  *)
(***************************************************************************)
EXTENDS Integers, Sequences, FiniteSets, SequencesExt

CONSTANTS
    Procs,              \* the foreground processes, one per terminal
    First,              \* that of the terminal that is started at boot
    Devices,            \* the lines on which devices interrupt
    Exceptions,         \* the exceptions that programs run into
    Numbers,            \* what programs put into eax for a system call
    MaxDepth,           \* bound: frames on a kernel stack when one more is entered
    ReturnsAtomic       \* is the return of a system call never interrupted?

PIT == 0
KEYBOARD == 1
SLAVE_IRQ == 2
SERIAL == 4
RTC == 8
IRQ_START == 32
SYSCALL   == 128
HALT == 1
EXECUTE == 2
INVALID   == -1
WORD      == 1073741824 \* 2^30 for the 2^32 values of a register; TLC's integers end at 2^31 - 1

ASSUME InterruptsAssumption ==
    /\ First \in Procs
    /\ Devices \subseteq {PIT, KEYBOARD, SERIAL, RTC}
    /\ Exceptions \subseteq 0 .. 19
    /\ Numbers \subseteq 0 .. WORD - 1
    /\ MaxDepth \in Nat /\ ReturnsAtomic \in BOOLEAN

VARIABLES
    cur,                \* the process that runs
    born,               \* the processes that have been started
    stack,              \* the kernel stack of each process, as frames
    iflag,              \* the processor's interrupt flag
    irr, isr,           \* the lines that are requested, and those in service
    waiting,            \* the devices whose interrupt has not been answered
    ret_val             \* the cell .ret_val

pic == <<irr, isr, waiting>>
vars == <<cur, born, stack, iflag, pic, ret_val>>

-----------------------------------------------------------------------------
(* the interrupt controllers *)

\* enable_irq; the masks of both controllers as one set of lines
EnableIrq(mask, n) == IF n < 16 THEN mask \ {n} ELSE mask

\* i8259_init, and the init functions of the devices
Masked == FoldLeft(EnableIrq, 0 .. 15, <<SLAVE_IRQ, KEYBOARD, RTC, PIT, SERIAL>>)

\* (slip: only the controller of the line is told)
EoiOne(n) == isr \ {n}

\* send_eoi, a specific end of interrupt
Eoi(n) == IF n < 8 THEN isr \ {n} ELSE isr \ {n, SLAVE_IRQ}

OnMaster(n) == IF n < 8 THEN n ELSE SLAVE_IRQ

\* The processor gets the requested line of the highest priority, unless one of
\* at least its priority is in service.
Deliverable(n) ==
    /\ n \in irr \ Masked
    /\ OnMaster(n) \notin Masked
    /\ \A m \in isr : OnMaster(m) = m => OnMaster(n) < m
    /\ \A m \in irr \ Masked : OnMaster(n) <= OnMaster(m)

-----------------------------------------------------------------------------
(* the stubs *)

\* what the processor pushes for the exceptions it gives an error code
HasCode(v) == v \in {8, 10, 11, 12, 13, 14, 17}

Cpu(f) ==
    (IF f.user THEN <<"ss", "esp">> ELSE <<>>)
        \o <<"eflags", "cs", "eip">> \o (IF HasCode(f.vec) THEN <<"code">> ELSE <<>>)

Saved == <<"fs", "es", "ds", "eax", "ebp", "edi", "esi", "edx", "ecx", "ebx">>

\* the words a stub makes room for, and those it drops before iret
ExcStub     == [room |-> 1, drop |-> 1]     \* exceptions without a code
ExcCodeStub == [room |-> 1, drop |-> 2]     \* exceptions with a code
IrqStub     == [room |-> 2, drop |-> 2]
SyscallStub == [room |-> 2, drop |-> 2]

\* the IDT
Stub(v) ==
    IF v = SYSCALL THEN SyscallStub
    ELSE IF v >= IRQ_START THEN IrqStub
    ELSE IF HasCode(v) THEN ExcCodeStub ELSE ExcStub

Words(f) == Cpu(f) \o [i \in 1 .. Stub(f.vec).room |-> "room"] \o Saved

\* hw_context_t, where signal_handler and sigreturn look for it
Context ==
    Reverse(Saved) \o <<"irq_exc", "error_code", "eip", "cs", "eflags", "esp", "ss">>

\* trap gates leave the interrupt flag alone, interrupt gates clear it
IsTrap(v) == v < IRQ_START \/ v = SYSCALL

\* the exceptions whose handler halts the program
Fatal == (0 .. 19) \ {13, 14}

-----------------------------------------------------------------------------

InUser(p) == stack[p] = <<>>
Top(p)    == stack[p][Len(stack[p])]
At(p, pc) == ~InUser(p) /\ Top(p).pc = pc

\* vector v comes in: the gate and the stub
Frame(v, pc, num) ==
    [vec |-> v, user |-> InUser(cur), if |-> iflag, pc |-> pc, num |-> num]

Enter(f) ==
    /\ stack' = [stack EXCEPT ![cur] = Append(@, f)]
    /\ iflag' = (iflag /\ IsTrap(f.vec))

GoTo(pc) == stack' = [stack EXCEPT ![cur][Len(stack[cur])].pc = pc]

\* the end of a stub: registers, room, iret
Iret ==
    /\ stack' = [stack EXCEPT ![cur] = Front(@)]
    /\ iflag' = Top(cur).if

\* the program in user mode with interrupts on
Init ==
    /\ cur = First
    /\ born = {First}
    /\ stack = [p \in Procs |-> <<>>]
    /\ iflag = TRUE
    /\ irr = {} /\ isr = {} /\ waiting = {}
    /\ ret_val = 0

-----------------------------------------------------------------------------
(* devices *)

\* A device that has not been answered does not interrupt again; the clock does.
Request(n) ==
    /\ n = PIT \/ n \notin waiting
    /\ irr' = irr \cup {n}
    /\ waiting' = waiting \cup {n}
    /\ UNCHANGED <<cur, born, stack, iflag, isr, ret_val>>

Accept(n) ==
    /\ iflag
    /\ Deliverable(n)
    /\ Len(stack[cur]) < MaxDepth
    /\ ~(ReturnsAtomic /\ At(cur, "return"))
    /\ irr' = irr \ {n}
    /\ isr' = isr \cup {n, OnMaster(n)}
    /\ Enter(Frame(IRQ_START + n, "handler", 0))
    /\ UNCHANGED <<cur, born, waiting, ret_val>>

Handles(n) == At(cur, "handler") /\ Top(cur).vec = IRQ_START + n

\* (slip: the device is not answered)
AnswerNot(n) ==
    /\ Handles(n)
    /\ waiting' = waiting
    /\ isr' = Eoi(n)
    /\ iflag' = TRUE
    /\ GoTo("tail")
    /\ UNCHANGED <<cur, born, irr, ret_val>>

\* irq1_handler, serial_handler, rtc_handler: cli, read the device, EOI, sti
Answer(n) ==
    /\ Handles(n)
    /\ waiting' = waiting \ {n}
    /\ isr' = Eoi(n)
    /\ iflag' = TRUE
    /\ GoTo("tail")
    /\ UNCHANGED <<cur, born, irr, ret_val>>

-----------------------------------------------------------------------------
(* pit_handler: EOI, then process_switch *)

\* (slip: the shell is started with interrupts off)
StartQuiet(p) ==
    /\ Handles(PIT)
    /\ p \notin born
    /\ born' = born \cup {p}
    /\ cur' = p
    /\ GoTo("switched")
    /\ iflag' = iflag
    /\ isr' = Eoi(PIT)
    /\ waiting' = waiting \ {PIT}
    /\ UNCHANGED <<irr, ret_val>>

\* execute starts a shell: sti, and iret to its first instruction
Start(p) ==
    /\ Handles(PIT)
    /\ p \notin born
    /\ born' = born \cup {p}
    /\ cur' = p
    /\ GoTo("switched")
    /\ iflag' = TRUE
    /\ isr' = Eoi(PIT)
    /\ waiting' = waiting \ {PIT}
    /\ UNCHANGED <<irr, ret_val>>

\* the next process leaves the process_switch that it entered when it was left
Switch(p) ==
    /\ Handles(PIT)
    /\ p \in born
    /\ cur' = p
    /\ stack' = LET s == [stack EXCEPT ![cur][Len(stack[cur])].pc = "switched"]
                IN  [s EXCEPT ![p][Len(s[p])].pc = "tail"]
    /\ isr' = Eoi(PIT)
    /\ waiting' = waiting \ {PIT}
    /\ UNCHANGED <<born, iflag, irr, ret_val>>

-----------------------------------------------------------------------------
(* exceptions and halt *)

Exception(v) ==
    /\ InUser(cur) \/ At(cur, "call")
    /\ Len(stack[cur]) < MaxDepth
    /\ Enter(Frame(v, "handler", 0))
    /\ UNCHANGED <<cur, born, pic, ret_val>>

\* `int n' in a program: the other gates are closed to it
IntOther ==
    /\ InUser(cur) /\ MaxDepth > 0 /\ 13 \in Exceptions
    /\ Enter(Frame(13, "handler", 0))
    /\ UNCHANGED <<cur, born, pic, ret_val>>

\* halt starts the terminal's shell again, or leaves the parent's execute
HaltProgram ==
    /\ \/ /\ stack' = [stack EXCEPT ![cur] = <<>>]
          /\ iflag' = TRUE
       \/ /\ stack' = [stack EXCEPT ![cur] =
                          <<[vec |-> SYSCALL, user |-> TRUE, if |-> TRUE, pc |-> "left", num |-> EXECUTE]>>]
          /\ UNCHANGED iflag
    /\ UNCHANGED <<cur, born, pic, ret_val>>

\* (slip: the handler returns, as the general protection handler does)
HaltHandlerReturns ==
    /\ At(cur, "handler") /\ Top(cur).vec \in Fatal
    /\ GoTo("tail")
    /\ UNCHANGED <<cur, born, iflag, pic, ret_val>>

HaltHandler ==
    /\ At(cur, "handler") /\ Top(cur).vec \in Fatal
    /\ HaltProgram

\* exception13_handler and exception14_handler raise SEGFAULT
FaultHandler ==
    /\ At(cur, "handler") /\ Top(cur).vec \in {13, 14}
    /\ GoTo("tail")
    /\ UNCHANGED <<cur, born, iflag, pic, ret_val>>

\* signal_handler returns
SignalHandler ==
    /\ At(cur, "tail")
    /\ Iret
    /\ UNCHANGED <<cur, born, pic, ret_val>>

\* signal_handler kills the program
Kill == At(cur, "tail") /\ HaltProgram

Calls(num) == At(cur, "call") /\ Top(cur).num = num

Halt == Calls(HALT) /\ HaltProgram

\* execute leaves for the first instruction of a program, on another kernel stack
Execute ==
    /\ Calls(EXECUTE)
    /\ stack' = [stack EXCEPT ![cur] = <<>>]
    /\ iflag' = TRUE
    /\ UNCHANGED <<cur, born, pic, ret_val>>

-----------------------------------------------------------------------------
(* system calls *)

\* (slip: compared as a signed number)
IsCallSigned(num) == num - 1 <= 12

\* decl, cmpl $12, ja
IsCall(num) == (num - 1) % WORD <= 12

\* what the call of process p returns
Result(p, num) == IF IsCall(num) THEN p ELSE INVALID

\* (slip: the error code is not filled in)
Int80Unfilled(num) ==
    /\ InUser(cur) /\ MaxDepth > 0
    /\ Enter(Frame(SYSCALL, IF IsCall(num) THEN "call" ELSE "return", num))
    /\ ret_val' = ret_val
    /\ UNCHANGED <<cur, born, pic>>

Int80(num) ==
    /\ InUser(cur) /\ MaxDepth > 0
    /\ Enter(Frame(SYSCALL, IF IsCall(num) THEN "call" ELSE "return", num))
    /\ ret_val' = IF IsCall(num) THEN ret_val ELSE INVALID
    /\ UNCHANGED <<cur, born, pic>>

\* the function returns and its value is stored
CallReturns ==
    /\ At(cur, "left") \/ (At(cur, "call") /\ ~Calls(HALT))
    /\ ret_val' = Result(cur, Top(cur).num)
    /\ GoTo("return")
    /\ UNCHANGED <<cur, born, iflag, pic>>

\* the registers are restored, and eax is loaded from the cell
LoadResult ==
    /\ At(cur, "return")
    /\ Iret
    /\ UNCHANGED <<cur, born, pic, ret_val>>

-----------------------------------------------------------------------------

Handlers ==
    \/ \E n \in Devices \ {PIT} : Answer(n)
    \/ \E p \in Procs : Start(p) \/ Switch(p)
    \/ HaltHandler \/ FaultHandler \/ SignalHandler \/ LoadResult

Next ==
    \/ \E n \in Devices : Request(n) \/ Accept(n)
    \/ Handlers
    \/ \E v \in Exceptions : Exception(v)
    \/ \E num \in Numbers : Int80(num)
    \/ IntOther \/ Kill \/ Halt \/ Execute \/ CallReturns

Spec == Init /\ [][Next]_vars

\* Handlers run to their end, and the processor accepts what the controllers
\* deliver again and again.  Programs and calls may run for ever.
FairSpec ==
    /\ Spec
    /\ WF_vars(Handlers)
    /\ WF_vars(CallReturns /\ At(cur, "left"))
    /\ \A n \in Devices : SF_vars(Accept(n))

-----------------------------------------------------------------------------
(* Properties *)

\* Only calls of the table are made.
TypeOK ==
    /\ born \subseteq Procs /\ cur \in born
    /\ iflag \in BOOLEAN
    /\ irr \subseteq Devices /\ waiting \subseteq Devices /\ isr \subseteq 0 .. 15
    /\ ret_val \in Procs \cup {0, INVALID}
    /\ \A p \in Procs : At(p, "call") => Top(p).num \in 1 .. 13

\* A program is never in user mode with interrupts off: not the shell started in
\* the middle of a clock interrupt, not a parent whose child is killed in one.
UserInterruptible == InUser(cur) => iflag

\* Interrupts are on only when no line is in service, on the master and on the
\* slave: after a switch too, nothing is left that would keep a line out.
NoneInService == iflag => isr = {}

\* signal_handler finds the interrupted context in the words on the stack, and
\* the stub finds the return address after the words it drops.
ContextFound ==
    \A p \in Procs : At(p, "tail") =>
        LET words == Reverse(Words(Top(p)))
        IN  /\ \A i \in DOMAIN words : words[i] \in {Context[i], "room", "code"}
            /\ words[Len(Saved) + Stub(Top(p).vec).drop + 1] = "eip"

\* A system call returns its own result, whatever was entered since it was made.
ReturnsOwnResult ==
    [][\A p \in Procs :
          p = cur /\ At(p, "return") /\ stack'[p] = Front(stack[p])
            => ret_val = Result(p, Top(p).num)]_vars

\* A device that interrupts is answered, whatever switches, faults and kills come
\* in between; it waits at most for lines of a higher priority, the clock for none.
Answered ==
    \A n \in Devices :
        n \in waiting ~> n \notin waiting \/ \E m \in irr : OnMaster(m) < OnMaster(n)
=============================================================================
