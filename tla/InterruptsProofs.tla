--------------------------- MODULE InterruptsProofs ---------------------------
(***************************************************************************)
(* Proofs about Interrupts, for all processes, devices, exceptions, call   *)
(* numbers and depths of nesting: the types, that interrupts are never off *)
(* in user mode, that interrupts are on only with no line in service, that *)
(* stubs and signal_handler agree on the words on the stack, and - when    *)
(* nothing interrupts the return of a call - that every call returns its   *)
(* own result.                                                             *)
(***************************************************************************)
EXTENDS Interrupts, SequenceTheorems, TLAPS

-----------------------------------------------------------------------------
(* the inductive invariant *)

Pcs == {"handler", "tail", "switched", "call", "left", "return"}

Frames == [vec : Nat, user : BOOLEAN, if : BOOLEAN, pc : Pcs, num : Nat]

\* the vectors whose handlers return: the two that raise SEGFAULT, and the devices'
Returning == {13, 14} \cup (IRQ_START .. IRQ_START + 15)

\* Only the first frame was entered from user mode, and then with interrupts on;
\* no handler that halts gets to the end of its stub.
GoodFrame(f, i) ==
    /\ f \in Frames
    /\ f.user <=> i = 1
    /\ f.user => f.if
    /\ f.pc = "call" => f.num \in 1 .. 13
    /\ f.pc \in {"tail", "switched"} => f.vec \in Returning

\* Nothing nests on the return of a call.
GoodStack(s) ==
    /\ s \in Seq(Frames)
    /\ \A i \in 1 .. Len(s) : GoodFrame(s[i], i)
    /\ ReturnsAtomic => \A i \in 1 .. Len(s) - 1 : s[i].pc # "return"

Basics ==
    /\ born \subseteq Procs /\ cur \in born
    /\ iflag \in BOOLEAN
    /\ irr \subseteq Devices /\ waiting \subseteq Devices /\ isr \subseteq 0 .. 15
    /\ ret_val \in Procs \cup {0, INVALID}

Stacks == stack \in [Procs -> Seq(Frames)] /\ \A p \in Procs : GoodStack(stack[p])

\* A process that does not run has not been started or is in process_switch.
Others ==
    \A p \in Procs :
        /\ p \notin born => InUser(p)
        /\ p \in born /\ p # cur => At(p, "switched")

\* A line in service is that of the handler that runs, with interrupts off.
Service ==
    isr # {} =>
        /\ ~iflag
        /\ At(cur, "handler")
        /\ \E n \in Devices : Top(cur).vec = IRQ_START + n /\ isr = {n, OnMaster(n)}

Own == ReturnsAtomic /\ At(cur, "return") => ret_val = Result(cur, Top(cur).num)

IInv == Basics /\ Stacks /\ Others /\ Service /\ UserInterruptible /\ Own

-----------------------------------------------------------------------------
(* stacks *)

\* What Front keeps.
LEMMA FrontFacts ==
    ASSUME NEW S, NEW s \in Seq(S), s # <<>>
    PROVE  /\ Front(s) \in Seq(S) /\ Len(s) \in Nat \ {0}
           /\ Len(Front(s)) = Len(s) - 1
           /\ \A i \in 1 .. Len(s) - 1 : Front(s)[i] = s[i]
<1>1. Len(s) \in Nat \ {0}
    BY SMT
<1>2. \A i \in 1 .. Len(s) - 1 : s[i] \in S
    BY <1>1, SMT
<1>3. SubSeq(s, 1, Len(s) - 1) = [i \in 1 .. Len(s) - 1 |-> s[i]]
    BY <1>1, SMT
<1>4. Front(s) = [i \in 1 .. Len(s) - 1 |-> s[i]]
    BY <1>3 DEF Front
<1>a. Front(s) \in Seq(S)
    BY <1>1, <1>2, <1>4, SMT
<1>b. Len(Front(s)) = Len(s) - 1
    BY <1>1, <1>4, SMT
<1>c. \A i \in 1 .. Len(s) - 1 : Front(s)[i] = s[i]
    BY <1>4
<1> QED
    BY <1>1, <1>a, <1>b, <1>c

\* A stack that is not empty has a last frame.
LEMMA TopFacts ==
    ASSUME NEW s, GoodStack(s), s # <<>>
    PROVE  Len(s) \in Nat \ {0} /\ s[Len(s)] \in Frames /\ GoodFrame(s[Len(s)], Len(s))
<1>1. Len(s) \in Nat \ {0}
    BY SMT DEF GoodStack
<1>2. Len(s) \in 1 .. Len(s)
    BY <1>1, SMT
<1> QED
    BY <1>1, <1>2 DEF GoodStack, GoodFrame

\* The gate and the stub add a frame to a good stack.
LEMMA EnterGood ==
    ASSUME NEW s, GoodStack(s), NEW f, GoodFrame(f, Len(s) + 1),
           ReturnsAtomic /\ s # <<>> => s[Len(s)].pc # "return"
    PROVE  /\ GoodStack(Append(s, f)) /\ Append(s, f) # <<>>
           /\ Append(s, f)[Len(Append(s, f))] = f
<1>1. f \in Frames /\ s \in Seq(Frames)
    BY DEF GoodFrame, GoodStack
<1>2. /\ Append(s, f) \in Seq(Frames) /\ Len(s) \in Nat
      /\ Len(Append(s, f)) = Len(s) + 1
      /\ \A i \in 1 .. Len(s) : Append(s, f)[i] = s[i]
      /\ Append(s, f)[Len(s) + 1] = f
    BY <1>1, SMT
<1>3. Append(s, f) # <<>>
    BY <1>1, <1>2, SMT
<1>4. \A i \in 1 .. Len(s) + 1 : GoodFrame(Append(s, f)[i], i)
    <2> TAKE i \in 1 .. Len(s) + 1
    <2>1. CASE i = Len(s) + 1
        BY <2>1, <1>2
    <2>2. CASE i # Len(s) + 1
        <3>1. i \in 1 .. Len(s)
            BY <2>2, <1>2, SMT
        <3> QED
            BY <3>1, <1>2 DEF GoodStack
    <2> QED
        BY <2>1, <2>2
<1>5. ReturnsAtomic => \A i \in 1 .. Len(s) : Append(s, f)[i].pc # "return"
    <2> SUFFICES ASSUME ReturnsAtomic, NEW i \in 1 .. Len(s) PROVE s[i].pc # "return"
        BY <1>2
    <2>1. CASE i = Len(s)
        <3>1. s # <<>>
            BY <1>1, SMT
        <3> QED
            BY <2>1, <3>1
    <2>2. CASE i # Len(s)
        <3>1. i \in 1 .. Len(s) - 1
            BY <2>2, <1>2, SMT
        <3> QED
            BY <3>1 DEF GoodStack
    <2> QED
        BY <2>1, <2>2
<1>6. (Len(s) + 1) - 1 = Len(s)
    BY <1>2, SMT
<1> QED
    BY <1>2, <1>3, <1>4, <1>5, <1>6 DEF GoodStack

\* A handler goes on to its next step in the frame on top.
LEMMA GoToGood ==
    ASSUME NEW s, GoodStack(s), s # <<>>, NEW pc \in Pcs, pc # "call",
           pc \in {"tail", "switched"} => s[Len(s)].vec \in Returning,
           NEW t, t = [s EXCEPT ![Len(s)].pc = pc]
    PROVE  /\ GoodStack(t) /\ t # <<>> /\ Len(t) = Len(s)
           /\ t[Len(t)] = [s[Len(s)] EXCEPT !.pc = pc]
<1>1. s \in Seq(Frames) /\ Len(s) \in Nat \ {0} /\ s[Len(s)] \in Frames
      /\ GoodFrame(s[Len(s)], Len(s))
    BY TopFacts DEF GoodStack
<1> DEFINE f == [s[Len(s)] EXCEPT !.pc = pc]
<1>2. /\ f \in Frames /\ f.pc = pc /\ f.user = s[Len(s)].user /\ f.if = s[Len(s)].if
      /\ f.vec = s[Len(s)].vec
    BY <1>1, SMT DEF Frames
<1>3. GoodFrame(f, Len(s))
    BY <1>1, <1>2 DEF GoodFrame
<1>4. t = [s EXCEPT ![Len(s)] = f]
    OBVIOUS
<1> HIDE DEF f
<1>5. /\ t \in Seq(Frames) /\ Len(t) = Len(s)
      /\ \A i \in 1 .. Len(s) : t[i] = IF i = Len(s) THEN f ELSE s[i]
    BY <1>1, <1>2, <1>4, SMT
<1>6. t # <<>>
    BY <1>1, <1>5, SMT
<1>7. t[Len(t)] = f
    BY <1>1, <1>5, SMT
<1>8. \A i \in 1 .. Len(t) : GoodFrame(t[i], i)
    BY <1>3, <1>5 DEF GoodStack
<1>9. ReturnsAtomic => \A i \in 1 .. Len(t) - 1 : t[i].pc # "return"
    <2> SUFFICES ASSUME ReturnsAtomic, NEW i \in 1 .. Len(s) - 1 PROVE t[i].pc # "return"
        BY <1>5
    <2>1. i \in 1 .. Len(s) /\ i # Len(s)
        BY <1>1, SMT
    <2> QED
        BY <2>1, <1>5 DEF GoodStack
<1> QED
    BY <1>5, <1>6, <1>7, <1>8, <1>9 DEF GoodStack, f

\* iret leaves a good stack, in user mode only with interrupts on.
LEMMA IretGood ==
    ASSUME NEW s, GoodStack(s), s # <<>>
    PROVE  /\ GoodStack(Front(s))
           /\ Front(s) = <<>> => s[Len(s)].if
           /\ ReturnsAtomic /\ Front(s) # <<>> => Front(s)[Len(Front(s))].pc # "return"
           /\ s[Len(s)].if \in BOOLEAN
<1>1. s \in Seq(Frames) /\ Len(s) \in Nat \ {0} /\ s[Len(s)] \in Frames
      /\ GoodFrame(s[Len(s)], Len(s))
    BY TopFacts DEF GoodStack
<1>2. /\ Front(s) \in Seq(Frames)
      /\ Len(Front(s)) = Len(s) - 1
      /\ \A i \in 1 .. Len(s) - 1 : Front(s)[i] = s[i]
    BY <1>1, FrontFacts
<1>3. \A i \in 1 .. Len(Front(s)) : GoodFrame(Front(s)[i], i)
    <2> TAKE i \in 1 .. Len(Front(s))
    <2>1. i \in 1 .. Len(s) /\ i \in 1 .. Len(s) - 1
        BY <1>1, <1>2, SMT
    <2> QED
        BY <2>1, <1>2 DEF GoodStack
<1>4. ReturnsAtomic => \A i \in 1 .. Len(Front(s)) : Front(s)[i].pc # "return"
    BY <1>2 DEF GoodStack
<1>5. ReturnsAtomic => \A i \in 1 .. Len(Front(s)) - 1 : Front(s)[i].pc # "return"
    <2> SUFFICES ASSUME ReturnsAtomic, NEW i \in 1 .. Len(Front(s)) - 1
                 PROVE  Front(s)[i].pc # "return"
        OBVIOUS
    <2>1. i \in 1 .. Len(Front(s))
        BY <1>1, <1>2, SMT
    <2> QED
        BY <2>1, <1>4
<1>6. Front(s) = <<>> => s[Len(s)].if
    <2> SUFFICES ASSUME Front(s) = <<>> PROVE s[Len(s)].if
        OBVIOUS
    <2>1. Len(s) = 1
        BY <1>1, <1>2, SMT
    <2> QED
        BY <2>1, <1>1 DEF GoodFrame
<1>7. ReturnsAtomic /\ Front(s) # <<>> => Front(s)[Len(Front(s))].pc # "return"
    <2> SUFFICES ASSUME ReturnsAtomic, Front(s) # <<>>
                 PROVE  Front(s)[Len(Front(s))].pc # "return"
        OBVIOUS
    <2>1. Len(Front(s)) \in 1 .. Len(Front(s))
        BY <1>2, SMT
    <2> QED
        BY <2>1, <1>4
<1>8. s[Len(s)].if \in BOOLEAN
    BY <1>1, SMT DEF Frames
<1> QED
    BY <1>2, <1>3, <1>5, <1>6, <1>7, <1>8 DEF GoodStack

-----------------------------------------------------------------------------
(* the steps *)

\* The stack of the process that runs, and nothing else, changes to t.
Replace(t) == stack' = [stack EXCEPT ![cur] = t]

\* What every step that stays with one process has to show of the stacks.
LEMMA ReplaceStacks ==
    ASSUME IInv, NEW t, GoodStack(t), Replace(t), cur' = cur, born' = born
    PROVE  Stacks' /\ Others' /\ stack'[cur] = t
<1>1. cur \in Procs /\ t \in Seq(Frames)
    BY DEF IInv, Basics, GoodStack
<1>2. /\ stack' \in [Procs -> Seq(Frames)] /\ stack'[cur] = t
      /\ \A p \in Procs : p # cur => stack'[p] = stack[p]
    BY <1>1 DEF IInv, Stacks, Replace
<1>3. Stacks'
    BY <1>2 DEF IInv, Stacks
<1>4. Others'
    BY <1>2 DEF IInv, Basics, Others, InUser, At, Top
<1> QED
    BY <1>2, <1>3, <1>4

\* The program that runs enters the kernel outside an interrupt.
LEMMA EnterStep ==
    ASSUME IInv, NEW f, GoodFrame(f, Len(stack[cur]) + 1), Enter(f),
           InUser(cur) \/ At(cur, "call"),
           cur' = cur, born' = born, irr' = irr, isr' = isr, waiting' = waiting,
           ret_val' \in Procs \cup {0, INVALID},
           f.pc = "return" => ret_val' = Result(cur, f.num)
    PROVE  IInv'
<1> DEFINE s == stack[cur]
           t == Append(stack[cur], f)
<1>1. cur \in Procs /\ GoodStack(s)
    BY DEF IInv, Basics, Stacks
<1>2. ReturnsAtomic /\ s # <<>> => s[Len(s)].pc # "return"
    BY DEF InUser, At, Top
<1>3. GoodStack(t) /\ t # <<>> /\ t[Len(t)] = f
    BY <1>1, <1>2, EnterGood
<1>4. Replace(t)
    BY DEF Enter, Replace
<1>5. Stacks' /\ Others' /\ stack'[cur] = t
    BY <1>3, <1>4, ReplaceStacks
<1>6. Basics'
    BY DEF IInv, Basics, Enter
<1>7. Service'
    BY DEF IInv, Service, At, Top, InUser
<1>8. UserInterruptible'
    BY <1>3, <1>5 DEF UserInterruptible, InUser
<1>9. Own'
    BY <1>3, <1>5 DEF Own, At, Top
<1> QED
    BY <1>5, <1>6, <1>7, <1>8, <1>9 DEF IInv

\* The handler on top goes on to its next step.
LEMMA GoToStep ==
    ASSUME IInv, ~InUser(cur), NEW pc \in Pcs, pc # "call", GoTo(pc),
           pc \in {"tail", "switched"} => Top(cur).vec \in Returning,
           cur' = cur, born' = born, irr' = irr, waiting' \subseteq waiting,
           isr' = {}, iflag' \in BOOLEAN, ret_val' \in Procs \cup {0, INVALID},
           pc = "return" => ret_val' = Result(cur, Top(cur).num)
    PROVE  IInv'
<1> DEFINE s == stack[cur]
           t == [s EXCEPT ![Len(s)].pc = pc]
<1>1. cur \in Procs /\ GoodStack(s) /\ s # <<>> /\ stack \in [Procs -> Seq(Frames)]
    BY DEF IInv, Basics, Stacks, InUser
<1>2. GoodStack(t) /\ t # <<>> /\ t[Len(t)] = [s[Len(s)] EXCEPT !.pc = pc]
    BY <1>1, GoToGood DEF Top
<1>3. Replace(t)
    BY <1>1 DEF GoTo, Replace
<1>4. Stacks' /\ Others' /\ stack'[cur] = t
    BY <1>2, <1>3, ReplaceStacks
<1>5. Basics'
    BY DEF IInv, Basics
<1>6. Service'
    BY DEF Service
<1>7. UserInterruptible'
    BY <1>2, <1>4 DEF UserInterruptible, InUser
<1>8. s[Len(s)] \in Frames
    BY <1>1, TopFacts
<1>9. Top(cur)'.pc = pc /\ Top(cur)'.num = Top(cur).num
    BY <1>2, <1>4, <1>8 DEF Top, Frames
<1>10. Own'
    BY <1>9 DEF Own, At
<1> QED
    BY <1>4, <1>5, <1>6, <1>7, <1>10 DEF IInv

\* iret with no line in service.
LEMMA IretStep ==
    ASSUME IInv, ~InUser(cur), isr = {}, Iret,
           cur' = cur, born' = born, irr' = irr, isr' = isr, waiting' = waiting,
           ret_val' = ret_val
    PROVE  IInv'
<1> DEFINE s == stack[cur]
           t == Front(s)
<1>1. cur \in Procs /\ GoodStack(s) /\ s # <<>>
    BY DEF IInv, Basics, Stacks, InUser
<1>2. /\ GoodStack(t) /\ t = <<>> => s[Len(s)].if
      /\ ReturnsAtomic /\ t # <<>> => t[Len(t)].pc # "return"
      /\ s[Len(s)].if \in BOOLEAN
    BY <1>1, IretGood
<1>3. Replace(t)
    BY DEF Iret, Replace
<1>4. GoodStack(t)
    BY <1>1, IretGood
<1>5. Stacks' /\ Others' /\ stack'[cur] = t
    BY <1>4, <1>3, ReplaceStacks
<1>6. iflag' = s[Len(s)].if
    BY DEF Iret, Top
<1>7. Basics'
    BY <1>2, <1>6 DEF IInv, Basics
<1>8. Service'
    BY DEF Service
<1>9. UserInterruptible'
    BY <1>1, <1>5, <1>6, IretGood DEF UserInterruptible, InUser
<1>10. Own'
    BY <1>1, <1>5, IretGood DEF Own, At, Top, InUser
<1> QED
    BY <1>5, <1>7, <1>8, <1>9, <1>10 DEF IInv

\* A stack of one frame, or of none with interrupts on, takes the place.
LEMMA RestartStep ==
    ASSUME IInv, isr = {}, NEW t, GoodStack(t), Replace(t),
           t = <<>> => iflag', iflag' \in BOOLEAN,
           t # <<>> => t[Len(t)].pc # "return",
           cur' = cur, born' = born, irr' = irr, isr' = isr, waiting' = waiting,
           ret_val' = ret_val
    PROVE  IInv'
<1>1. Stacks' /\ Others' /\ stack'[cur] = t
    BY ReplaceStacks
<1>2. Basics'
    BY DEF IInv, Basics
<1>3. Service'
    BY DEF Service
<1>4. UserInterruptible'
    BY <1>1 DEF UserInterruptible, InUser
<1>5. Own'
    BY <1>1 DEF Own, At, Top, InUser
<1> QED
    BY <1>1, <1>2, <1>3, <1>4, <1>5 DEF IInv

\* Outside a handler no line is in service.
LEMMA NotInService ==
    ASSUME IInv, NEW pc, pc # "handler", InUser(cur) \/ At(cur, pc)
    PROVE  isr = {}
BY DEF IInv, Service, At, InUser

\* The handler of an exception runs with no line in service.
LEMMA NotInException ==
    ASSUME IInv, At(cur, "handler"), Top(cur).vec < IRQ_START
    PROVE  isr = {}
<1> SUFFICES ASSUME isr # {} PROVE FALSE
    OBVIOUS
<1>1. PICK n \in Devices : Top(cur).vec = IRQ_START + n
    BY DEF IInv, Service
<1>2. n \in Nat
    BY <1>1, InterruptsAssumption, SMT DEF PIT, KEYBOARD, SERIAL, RTC
<1> QED
    BY <1>1, <1>2, SMT DEF IRQ_START

\* The devices' lines are numbers, none of them that of the slave.
LEMMA DeviceLines == Devices \subseteq {0, 1, 4, 8}
BY InterruptsAssumption DEF PIT, KEYBOARD, SERIAL, RTC

\* The end-of-interrupt command of a handler leaves no line in service.
LEMMA EoiClears ==
    ASSUME IInv, NEW n \in {0, 1, 4, 8}, Handles(n)
    PROVE  Eoi(n) = {}
<1>2. CASE isr = {}
    BY <1>2 DEF Eoi
<1>3. CASE isr # {}
    <2>1. PICK m \in Devices : Top(cur).vec = IRQ_START + m /\ isr = {m, OnMaster(m)}
        BY <1>3 DEF IInv, Service
    <2>2. m = n
        BY <2>1, DeviceLines, SMT DEF Handles, IRQ_START
    <2>3. CASE n < 8
        <3>1. OnMaster(n) = n
            BY <2>3 DEF OnMaster
        <3> QED
            BY <2>1, <2>2, <2>3, <3>1 DEF Eoi
    <2>4. CASE ~(n < 8)
        <3>1. OnMaster(n) = SLAVE_IRQ
            BY <2>4 DEF OnMaster
        <3> QED
            BY <2>1, <2>2, <2>4, <3>1 DEF Eoi
    <2> QED
        BY <2>3, <2>4
<1> QED
    BY <1>2, <1>3

\* The first state.
LEMMA InitInv == Init => IInv
<1> SUFFICES ASSUME Init PROVE IInv
    OBVIOUS
<1>1. GoodStack(<<>>)
    BY SMT DEF GoodStack
<1>2. Basics /\ Stacks
    BY <1>1, InterruptsAssumption DEF Init, Basics, Stacks, GoodStack
<1>3. Others /\ Service /\ UserInterruptible /\ Own
    BY InterruptsAssumption DEF Init, Others, Service, UserInterruptible, Own, InUser, At
<1> QED
    BY <1>2, <1>3 DEF IInv

\* What a stub writes down.
LEMMA FrameFacts ==
    ASSUME IInv, NEW v \in Nat, NEW pc \in Pcs, NEW num \in Nat
    PROVE  /\ Frame(v, pc, num) \in Frames
           /\ Frame(v, pc, num).user = InUser(cur) /\ Frame(v, pc, num).if = iflag
           /\ Frame(v, pc, num).vec = v /\ Frame(v, pc, num).pc = pc
           /\ Frame(v, pc, num).num = num
<1>1. iflag \in BOOLEAN /\ InUser(cur) \in BOOLEAN
    BY DEF IInv, Basics, InUser
<1> QED
    BY <1>1 DEF Frame, Frames

\* A device requests its line.
LEMMA RequestStep == ASSUME IInv, NEW n \in Devices, Request(n) PROVE IInv'
<1>1. Basics'
    BY DEF IInv, Basics, Request
<1>2. Stacks' /\ Others' /\ UserInterruptible'
    BY DEF IInv, Stacks, Others, UserInterruptible, Request, InUser, At, Top
<1>3. Service'
    BY DEF IInv, Service, Request, InUser, At, Top
<1>4. Own'
    BY DEF IInv, Own, Request, InUser, At, Top
<1> QED
    BY <1>1, <1>2, <1>3, <1>4 DEF IInv

\* An interrupt is accepted: only with interrupts on, so with no line in service.
LEMMA AcceptStep == ASSUME IInv, NEW n \in Devices, Accept(n) PROVE IInv'
<1> DEFINE s == stack[cur]
           f == Frame(IRQ_START + n, "handler", 0)
           t == Append(s, f)
<1>1. cur \in Procs /\ GoodStack(s) /\ Len(s) \in Nat /\ (s = <<>> <=> Len(s) = 0)
    BY SMT DEF IInv, Basics, Stacks, GoodStack
<1>2. n \in {0, 1, 4, 8} /\ iflag
    BY DeviceLines DEF Accept
<1>3. IRQ_START + n \in Nat /\ ~IsTrap(IRQ_START + n)
    BY <1>2, SMT DEF IRQ_START, IsTrap, SYSCALL
<1>4. GoodFrame(f, Len(s) + 1)
    <2>1. 0 \in Nat /\ "handler" \in Pcs
        BY DEF Pcs
    <2>2. /\ f \in Frames /\ f.user = InUser(cur)
          /\ f.if = iflag /\ f.pc = "handler"
        BY <1>3, <2>1, FrameFacts
    <2>3. InUser(cur) <=> Len(s) + 1 = 1
        BY <1>1, SMT DEF InUser
    <2> HIDE DEF f
    <2> QED
        BY <1>2, <2>2, <2>3 DEF GoodFrame
<1>5. ReturnsAtomic /\ s # <<>> => s[Len(s)].pc # "return"
    BY DEF Accept, At, InUser, Top
<1> HIDE DEF f
<1>6. GoodStack(t) /\ t # <<>> /\ t[Len(t)] = f
    BY <1>1, <1>4, <1>5, EnterGood
<1>7. Replace(t) /\ ~iflag'
    BY <1>3 DEF Accept, Enter, Replace, f, Frame
<1>8. cur' = cur /\ born' = born /\ ret_val' = ret_val
    BY DEF Accept
<1>9. Stacks' /\ Others' /\ stack'[cur] = t
    BY <1>6, <1>7, <1>8, ReplaceStacks
<1>10. isr' = {n, OnMaster(n)}
    <2>1. isr = {}
        BY <1>2 DEF IInv, Service
    <2> QED
        BY <2>1 DEF Accept
<1>11. Basics'
    <2>1. isr' \subseteq 0 .. 15
        BY <1>2, <1>10, SMT DEF OnMaster, SLAVE_IRQ
    <2>2. iflag' \in BOOLEAN
        BY DEF Accept, Enter
    <2> QED
        BY <1>8, <2>1, <2>2 DEF IInv, Basics, Accept
<1>12. f.pc = "handler" /\ f.vec = IRQ_START + n
    BY DEF f, Frame
<1>13. Service'
    BY <1>6, <1>7, <1>8, <1>9, <1>10, <1>12 DEF Service, At, Top, InUser
<1>14. UserInterruptible' /\ Own'
    BY <1>6, <1>8, <1>9, <1>12 DEF UserInterruptible, Own, At, Top, InUser
<1> QED
    BY <1>9, <1>11, <1>13, <1>14 DEF IInv

\* The devices' handlers return.
LEMMA DeviceVectors == \A n \in Devices : IRQ_START + n \in Returning
<1> SUFFICES ASSUME NEW n \in Devices PROVE IRQ_START + n \in IRQ_START .. IRQ_START + 15
    BY DEF Returning
<1>1. n \in {0, 1, 4, 8}
    BY DeviceLines
<1> QED
    BY <1>1, SMT DEF IRQ_START

LEMMA ClockVector == IRQ_START + PIT \in Returning
    BY SMT DEF IRQ_START, PIT, Returning

\* The handlers of the devices but the clock.
LEMMA AnswerStep == ASSUME IInv, NEW n \in Devices, Answer(n) PROVE IInv'
<1>1. isr' = {} /\ ~InUser(cur)
    BY DeviceLines, EoiClears DEF Answer, Handles, At
<1>2. waiting' \subseteq waiting /\ iflag' \in BOOLEAN
    BY DEF Answer
<1>3. ret_val' \in Procs \cup {0, INVALID}
    BY DEF Answer, IInv, Basics
<1>4. GoTo("tail") /\ cur' = cur /\ born' = born /\ irr' = irr
    BY DEF Answer
<1>5. "tail" \in Pcs /\ "tail" # "call" /\ "tail" # "return"
    BY DEF Pcs
<1>6. Top(cur).vec \in Returning
    BY DeviceVectors DEF Answer, Handles
<1> QED
    BY <1>1, <1>2, <1>3, <1>4, <1>5, <1>6, GoToStep

\* The clock starts the shell of the displayed terminal.
LEMMA StartStep == ASSUME IInv, NEW p \in Procs, Start(p) PROVE IInv'
<1> DEFINE s == stack[cur]
           t == [s EXCEPT ![Len(s)].pc = "switched"]
<1>1. cur \in Procs /\ GoodStack(s) /\ s # <<>> /\ stack \in [Procs -> Seq(Frames)]
    BY DEF IInv, Basics, Stacks, InUser, Start, Handles, At
<1>2. "switched" \in Pcs /\ "switched" # "call" /\ s[Len(s)].vec \in Returning
    BY ClockVector DEF Pcs, Start, Handles, Top
<1>3. GoodStack(t) /\ t # <<>> /\ t[Len(t)] = [s[Len(s)] EXCEPT !.pc = "switched"]
    BY <1>1, <1>2, GoToGood, ZenonT(40)
<1>4. s[Len(s)] \in Frames
    BY <1>1, TopFacts
<1>5. t[Len(t)].pc = "switched"
    BY <1>3, <1>4 DEF Frames
<1>6. p # cur /\ cur' = p /\ born' = born \cup {p} /\ iflag' = TRUE /\ stack[p] = <<>>
    BY DEF Start, IInv, Basics, Others, InUser
<1>7. stack' = [stack EXCEPT ![cur] = t]
    BY <1>1 DEF Start, GoTo
<1> HIDE DEF t
<1>8. /\ stack'[cur] = t /\ \A q \in Procs : q # cur => stack'[q] = stack[q]
      /\ stack' \in [Procs -> Seq(Frames)]
    BY <1>1, <1>3, <1>7 DEF GoodStack
<1>9. isr' = {}
    BY EoiClears DEF Start, PIT
<1>10. Basics'
    BY <1>6, <1>9 DEF IInv, Basics, Start
<1>11. Stacks'
    BY <1>3, <1>8 DEF IInv, Stacks
<1>12. Others'
    BY <1>3, <1>5, <1>6, <1>8 DEF IInv, Basics, Others, InUser, At, Top
<1>13. Service' /\ UserInterruptible' /\ Own'
    BY <1>6, <1>8, <1>9 DEF Service, UserInterruptible, Own, At, InUser
<1> QED
    BY <1>10, <1>11, <1>12, <1>13 DEF IInv

\* The clock resumes the next process.
LEMMA SwitchStep == ASSUME IInv, NEW p \in Procs, Switch(p) PROVE IInv'
<1> DEFINE s == stack[cur]
           t == [s EXCEPT ![Len(s)].pc = "switched"]
           left == [stack EXCEPT ![cur] = t]
           u == [left[p] EXCEPT ![Len(left[p])].pc = "tail"]
<1>1. cur \in Procs /\ GoodStack(s) /\ s # <<>> /\ stack \in [Procs -> Seq(Frames)]
    BY DEF IInv, Basics, Stacks, InUser, Switch, Handles, At
<1>2. /\ "switched" \in Pcs /\ "switched" # "call" /\ "tail" \in Pcs /\ "tail" # "call"
      /\ s[Len(s)].vec \in Returning
    BY ClockVector DEF Pcs, Switch, Handles, Top
<1>3. GoodStack(t) /\ t # <<>> /\ t[Len(t)] = [s[Len(s)] EXCEPT !.pc = "switched"]
    BY <1>1, <1>2, GoToGood
<1>4. s[Len(s)] \in Frames
    BY <1>1, TopFacts
<1>5. t[Len(t)].pc = "switched"
    BY <1>3, <1>4 DEF Frames
<1>6. cur' = p /\ born' = born /\ iflag' = iflag /\ p \in born
    BY DEF Switch
<1>7. stack' = [left EXCEPT ![p] = u]
    BY <1>1 DEF Switch
<1> HIDE DEF t
<1>8. /\ left[cur] = t /\ \A q \in Procs : q # cur => left[q] = stack[q]
      /\ left \in [Procs -> Seq(Frames)]
    BY <1>1, <1>3 DEF GoodStack
<1> HIDE DEF left
<1>9. \A q \in born : GoodStack(left[q]) /\ left[q] # <<>> /\ left[q][Len(left[q])].pc = "switched"
    BY <1>3, <1>5, <1>8 DEF IInv, Basics, Stacks, Others, At, Top, InUser
<1>11. left[p][Len(left[p])] \in Frames /\ left[p][Len(left[p])].vec \in Returning
    BY <1>6, <1>9, TopFacts DEF GoodFrame
<1>10. GoodStack(u) /\ u # <<>> /\ u[Len(u)] = [left[p][Len(left[p])] EXCEPT !.pc = "tail"]
    BY <1>2, <1>6, <1>9, <1>11, GoToGood
<1>12. u[Len(u)].pc = "tail"
    BY <1>10, <1>11 DEF Frames
<1> HIDE DEF u
<1>13. /\ stack'[p] = u /\ \A q \in Procs : q # p => stack'[q] = left[q]
       /\ stack' \in [Procs -> Seq(Frames)]
    BY <1>7, <1>8, <1>10 DEF GoodStack
<1>14. isr' = {}
    BY EoiClears DEF Switch, PIT
<1>15. Basics'
    BY <1>6, <1>14 DEF IInv, Basics, Switch
<1>16. Stacks'
    <2>1. \A q \in Procs : GoodStack(left[q])
        BY <1>3, <1>8 DEF IInv, Stacks
    <2> QED
        BY <2>1, <1>10, <1>13 DEF Stacks
<1>17. Others'
    <2>1. \A q \in Procs : q \notin born => q # p /\ q # cur
        BY <1>6 DEF IInv, Basics
    <2> QED
        BY <2>1, <1>6, <1>8, <1>9, <1>13 DEF IInv, Others, InUser, At, Top
<1>18. Service' /\ UserInterruptible' /\ Own'
    BY <1>6, <1>10, <1>12, <1>13, <1>14 DEF Service, UserInterruptible, Own, At, InUser, Top
<1> QED
    BY <1>15, <1>16, <1>17, <1>18 DEF IInv

\* Programs are halted, and start again or leave their parent's execute.
LEMMA HaltStep == ASSUME IInv, isr = {}, HaltProgram PROVE IInv'
<1>1. GoodStack(<<>>)
    BY SMT DEF GoodStack
<1>2. cur' = cur /\ born' = born /\ irr' = irr /\ isr' = isr /\ waiting' = waiting
      /\ ret_val' = ret_val
    BY DEF HaltProgram, pic
<1>3. CASE stack' = [stack EXCEPT ![cur] = <<>>] /\ iflag' = TRUE
    BY <1>1, <1>2, <1>3, RestartStep DEF Replace
<1>4. CASE /\ stack' = [stack EXCEPT ![cur] =
                 <<[vec |-> SYSCALL, user |-> TRUE, if |-> TRUE, pc |-> "left", num |-> EXECUTE]>>]
           /\ UNCHANGED iflag
    <2> DEFINE f == [vec |-> SYSCALL, user |-> TRUE, if |-> TRUE, pc |-> "left", num |-> EXECUTE]
               t == <<f>>
    <2>1. f \in Frames
        BY SMT DEF Frames, Pcs, SYSCALL, EXECUTE
    <2>2. f.user = TRUE /\ f.if = TRUE /\ f.pc = "left"
        OBVIOUS
    <2>3. Replace(t)
        BY <1>4 DEF Replace
    <2> HIDE DEF f
    <2>4. t \in Seq(Frames) /\ Len(t) = 1 /\ t[1] = f /\ t # <<>>
        BY <2>1, SMT
    <2>5. GoodFrame(f, 1)
        BY <2>1, <2>2 DEF GoodFrame
    <2> HIDE DEF t
    <2>6. GoodStack(t)
        BY <2>4, <2>5, SMT DEF GoodStack
    <2>7. t[Len(t)].pc # "return"
        BY <2>2, <2>4
    <2>8. iflag' \in BOOLEAN
        BY <1>4 DEF IInv, Basics
    <2> QED
        BY <1>2, <2>3, <2>4, <2>6, <2>7, <2>8, RestartStep
<1> QED
    BY <1>3, <1>4 DEF HaltProgram

\* A stub's frame is good on top of the stack of the process that runs.
LEMMA FrameGood ==
    ASSUME IInv, NEW v \in Nat, NEW pc \in Pcs \ {"tail", "switched"}, NEW num \in Nat,
           pc = "call" => num \in 1 .. 13
    PROVE  GoodFrame(Frame(v, pc, num), Len(stack[cur]) + 1)
<1> DEFINE f == Frame(v, pc, num)
<1>1. /\ f \in Frames /\ f.user = InUser(cur) /\ f.if = iflag
      /\ f.pc = pc /\ f.num = num
    BY FrameFacts
<1>2. stack[cur] \in Seq(Frames)
    BY DEF IInv, Basics, Stacks
<1>3. InUser(cur) <=> Len(stack[cur]) + 1 = 1
    BY <1>2, SMT DEF InUser
<1>4. InUser(cur) => iflag
    BY DEF IInv, UserInterruptible
<1> HIDE DEF f
<1>5. GoodFrame(f, Len(stack[cur]) + 1)
    BY <1>1, <1>3, <1>4 DEF GoodFrame
<1> QED
    BY <1>5 DEF f

\* A program runs into an exception, or a call it made does.
LEMMA ExceptionStep ==
    ASSUME IInv, NEW v \in 0 .. 19, InUser(cur) \/ At(cur, "call"),
           Enter(Frame(v, "handler", 0)), UNCHANGED <<cur, born, pic, ret_val>>
    PROVE  IInv'
<1>1. /\ v \in Nat /\ 0 \in Nat /\ "handler" \in Pcs \ {"tail", "switched"}
      /\ "handler" # "call" /\ "handler" # "return"
    BY SMT DEF Pcs
<1>2. GoodFrame(Frame(v, "handler", 0), Len(stack[cur]) + 1)
    BY <1>1, FrameGood
<1>3. Frame(v, "handler", 0).pc # "return"
    BY <1>1, FrameFacts
<1>4. /\ cur' = cur /\ born' = born /\ irr' = irr /\ isr' = isr /\ waiting' = waiting
      /\ ret_val' \in Procs \cup {0, INVALID}
    BY DEF pic, IInv, Basics
<1> QED
    BY <1>2, <1>3, <1>4, EnterStep

\* One comparison of the decremented number refuses 0 as well.
LEMMA WrapAround ==
    ASSUME NEW w \in Nat, w > 13, NEW n \in 0 .. w - 1, (n - 1) % w <= 12
    PROVE  n \in 1 .. 13
<1>1. CASE n = 0
    <2>1. (0 - 1) % w = w - 1
        BY SMT
    <2> QED
        BY <1>1, <2>1, SMT
<1>2. CASE n \in 1 .. w - 1
    <2>1. (n - 1) % w = n - 1
        BY <1>2, SMT
    <2> QED
        BY <1>2, <2>1, SMT
<1> QED
    BY <1>1, <1>2, SMT

\* A call is made: one of the table, or one that is refused.
LEMMA Int80Step == ASSUME IInv, NEW num \in Numbers, Int80(num) PROVE IInv'
<1> DEFINE pc == IF IsCall(num) THEN "call" ELSE "return"
           f == Frame(SYSCALL, pc, num)
<1>1. num \in Nat /\ num \in 0 .. WORD - 1
    <2>1. num \in 0 .. WORD - 1
        BY InterruptsAssumption
    <2>2. WORD \in Nat
        BY DEF WORD
    <2> QED
        BY <2>1, <2>2, SMT
<1>2. SYSCALL \in Nat /\ pc \in Pcs \ {"tail", "switched"}
    BY SMT DEF SYSCALL, Pcs
<1>3. pc = "call" => num \in 1 .. 13
    <2>1. WORD \in Nat /\ WORD > 13
        BY SMT DEF WORD
    <2>2. (num - 1) % WORD <= 12 => num \in 1 .. 13
        BY <1>1, <2>1, WrapAround
    <2>3. IsCall(num) => num \in 1 .. 13
        BY <2>2 DEF IsCall
    <2> QED
        BY <2>3
<1>4. pc = "return" => ~IsCall(num)
    OBVIOUS
<1>5. Enter(f) /\ InUser(cur)
    BY DEF Int80
<1>6. ret_val' = IF IsCall(num) THEN ret_val ELSE INVALID
    BY DEF Int80
<1> HIDE DEF pc
<1>7. GoodFrame(f, Len(stack[cur]) + 1) /\ f.pc = pc /\ f.num = num
    BY <1>1, <1>2, <1>3, FrameGood, FrameFacts
<1> HIDE DEF f
<1>8. f.pc = "return" => ret_val' = Result(cur, f.num)
    BY <1>4, <1>6, <1>7 DEF Result
<1>9. /\ cur' = cur /\ born' = born /\ irr' = irr /\ isr' = isr /\ waiting' = waiting
      /\ ret_val' \in Procs \cup {0, INVALID}
    BY <1>6 DEF Int80, pic, IInv, Basics
<1> QED
    BY <1>5, <1>7, <1>8, <1>9, EnterStep

\* Execute leaves for a program.
LEMMA ExecuteStep == ASSUME IInv, Execute PROVE IInv'
<1>1. isr = {}
    BY NotInService DEF Execute, Calls
<1>2. GoodStack(<<>>)
    BY SMT DEF GoodStack
<1>3. Replace(<<>>) /\ iflag' = TRUE
    BY DEF Execute, Replace
<1>4. cur' = cur /\ born' = born /\ irr' = irr /\ isr' = isr /\ waiting' = waiting
      /\ ret_val' = ret_val
    BY DEF Execute, pic
<1> QED
    BY <1>1, <1>2, <1>3, <1>4, RestartStep

\* The other ways to a halt.
LEMMA HaltSteps == ASSUME IInv, HaltHandler \/ Kill \/ Halt PROVE IInv'
<1>1. CASE HaltHandler
    <2>1. Top(cur).vec < IRQ_START
        <3>1. Top(cur).vec \in 0 .. 19
            BY <1>1 DEF HaltHandler, Fatal
        <3> QED
            BY <3>1, SMT DEF IRQ_START
    <2>2. isr = {}
        BY <1>1, <2>1, NotInException DEF HaltHandler
    <2> QED
        BY <1>1, <2>2, HaltStep DEF HaltHandler
<1>2. CASE Kill
    BY <1>2, NotInService, HaltStep DEF Kill
<1>3. CASE Halt
    BY <1>3, NotInService, HaltStep DEF Halt, Calls
<1> QED
    BY <1>1, <1>2, <1>3

\* The handlers that raise SEGFAULT.
LEMMA FaultStep == ASSUME IInv, FaultHandler PROVE IInv'
<1>1. Top(cur).vec < IRQ_START
    BY SMT DEF FaultHandler, IRQ_START
<1>2. isr = {} /\ ~InUser(cur)
    BY <1>1, NotInException DEF FaultHandler, At
<1>3. /\ "tail" \in Pcs /\ "tail" # "call" /\ "tail" # "return"
      /\ Top(cur).vec \in Returning
    BY DEF Pcs, FaultHandler, Returning
<1>4. /\ cur' = cur /\ born' = born /\ irr' = irr /\ isr' = {} /\ waiting' \subseteq waiting
      /\ iflag' \in BOOLEAN /\ ret_val' \in Procs \cup {0, INVALID} /\ GoTo("tail")
    BY <1>2 DEF FaultHandler, pic, IInv, Basics
<1> QED
    BY <1>2, <1>3, <1>4, GoToStep

\* A call stores its value.
LEMMA CallReturnsStep == ASSUME IInv, CallReturns PROVE IInv'
<1>1. isr = {} /\ ~InUser(cur)
    BY NotInService DEF CallReturns, At
<1>2. "return" \in Pcs /\ "return" \notin {"call", "tail", "switched"}
    BY DEF Pcs
<1>3. ret_val' = Result(cur, Top(cur).num) /\ GoTo("return")
    BY DEF CallReturns
<1>4. ret_val' \in Procs \cup {0, INVALID}
    BY <1>3 DEF Result, IInv, Basics
<1>5. cur' = cur /\ born' = born /\ irr' = irr /\ isr' = {} /\ waiting' \subseteq waiting
      /\ iflag' \in BOOLEAN
    BY <1>1 DEF CallReturns, pic, IInv, Basics
<1> QED
    BY <1>1, <1>2, <1>3, <1>4, <1>5, GoToStep

\* The two ways out of the kernel.
LEMMA IretSteps == ASSUME IInv, SignalHandler \/ LoadResult PROVE IInv'
<1>1. isr = {} /\ ~InUser(cur) /\ Iret
    BY NotInService DEF SignalHandler, LoadResult, At
<1>2. cur' = cur /\ born' = born /\ irr' = irr /\ isr' = isr /\ waiting' = waiting
      /\ ret_val' = ret_val
    BY DEF SignalHandler, LoadResult, pic
<1> QED
    BY <1>1, <1>2, IretStep

\* Every step keeps the invariant.
LEMMA NextInv == IInv /\ [Next]_vars => IInv'
<1> SUFFICES ASSUME IInv, [Next]_vars PROVE IInv'
    OBVIOUS
<1>1. CASE UNCHANGED vars
    BY <1>1 DEF vars, pic, IInv, Basics, Stacks, Others, Service, UserInterruptible, Own,
                InUser, At, Top
<1>2. CASE \E n \in Devices : Request(n) \/ Accept(n)
    BY <1>2, RequestStep, AcceptStep
<1>3. CASE \E n \in Devices \ {PIT} : Answer(n)
    BY <1>3, AnswerStep
<1>4. CASE \E p \in Procs : Start(p) \/ Switch(p)
    BY <1>4, StartStep, SwitchStep
<1>5. CASE HaltHandler \/ Kill \/ Halt
    BY <1>5, HaltSteps
<1>6. CASE FaultHandler
    BY <1>6, FaultStep
<1>7. CASE SignalHandler \/ LoadResult
    BY <1>7, IretSteps
<1>8. CASE \E v \in Exceptions : Exception(v)
    <2>1. PICK v \in Exceptions : Exception(v)
        BY <1>8
    <2>2. v \in 0 .. 19
        BY InterruptsAssumption
    <2> QED
        BY <2>1, <2>2, ExceptionStep DEF Exception
<1>9. CASE IntOther
    <2>1. 13 \in 0 .. 19
        OBVIOUS
    <2> QED
        BY <1>9, <2>1, ExceptionStep DEF IntOther
<1>10. CASE \E num \in Numbers : Int80(num)
    BY <1>10, Int80Step
<1>11. CASE Execute
    BY <1>11, ExecuteStep
<1>12. CASE CallReturns
    BY <1>12, CallReturnsStep
<1> QED
    BY <1>1, <1>2, <1>3, <1>4, <1>5, <1>6, <1>7, <1>8, <1>9, <1>10, <1>11, <1>12 DEF Next, Handlers

-----------------------------------------------------------------------------
(* the words on the stack *)

\* the words on a kernel stack
Pushed == {"ss", "esp", "eflags", "cs", "eip", "code", "room", "fs", "es", "ds",
           "eax", "ebp", "edi", "esi", "edx", "ecx", "ebx"}

\* fifteen words on top of n
Laid(w, n) ==
    /\ w \in Seq(Pushed) /\ Len(w) = n + 15
    /\ n = 2 => w[1] = "ss" /\ w[2] = "esp"
    /\ w[n + 1] = "eflags" /\ w[n + 2] = "cs" /\ w[n + 3] = "eip"
    /\ w[n + 4] \in {"code", "room"} /\ w[n + 5] \in {"code", "room"}
    /\ \A k \in 1 .. 10 : w[n + 5 + k] = Saved[k]

\* What is on the stack when a handler returns: after ss and esp, if it was
\* entered from user mode, 15 words, whether the processor pushed a code or not.
LEMMA WordsPushed ==
    ASSUME NEW f, f.vec \in Returning, NEW n, n = IF f.user THEN 2 ELSE 0, NEW w, w = Words(f)
    PROVE  Laid(w, n)
<1> DEFINE pre  == IF f.user THEN <<"ss", "esp">> ELSE <<>>
           base == <<"eflags", "cs", "eip">>
           code == IF HasCode(f.vec) THEN <<"code">> ELSE <<>>
           room == [i \in 1 .. Stub(f.vec).room |-> "room"]
<1>1. /\ pre \in Seq(Pushed) /\ Len(pre) = n
      /\ n = 2 => pre[1] = "ss" /\ pre[2] = "esp"
    <2>1. CASE f.user
        <3>1. pre = <<"ss", "esp">> /\ n = 2
            BY <2>1
        <3> HIDE DEF pre
        <3> QED
            BY <3>1, SMT DEF Pushed
    <2>2. CASE ~f.user
        <3>1. pre = <<>> /\ n = 0
            BY <2>2
        <3> HIDE DEF pre
        <3> QED
            BY <3>1, SMT
    <2> QED
        BY <2>1, <2>2
<1>2. /\ base \in Seq(Pushed) /\ Len(base) = 3
      /\ base[1] = "eflags" /\ base[2] = "cs" /\ base[3] = "eip"
    BY SMT DEF Pushed
<1>3. Saved \in Seq(Pushed) /\ Len(Saved) = 10
    BY SMT DEF Pushed, Saved
<1>4. /\ code \in Seq(Pushed) /\ Len(code) \in {0, 1}
      /\ \A i \in 1 .. Len(code) : code[i] = "code"
      /\ room \in Seq(Pushed) /\ Len(room) = 2 - Len(code)
      /\ \A i \in 1 .. Len(room) : room[i] = "room"
    <2>1. CASE f.vec \in {13, 14}
        <3>1. HasCode(f.vec) /\ Stub(f.vec).room = 1
            BY <2>1, SMT DEF HasCode, Stub, SYSCALL, IRQ_START, ExcCodeStub
        <3>2. code = <<"code">> /\ room = [i \in 1 .. 1 |-> "room"]
            BY <3>1
        <3> HIDE DEF code, room
        <3> QED
            BY <3>2, SMT DEF Pushed
    <2>2. CASE f.vec \in IRQ_START .. IRQ_START + 15
        <3>1. ~HasCode(f.vec) /\ Stub(f.vec).room = 2
            BY <2>2, SMT DEF HasCode, Stub, SYSCALL, IRQ_START, IrqStub
        <3>2. code = <<>> /\ room = [i \in 1 .. 2 |-> "room"]
            BY <3>1
        <3> HIDE DEF code, room
        <3> QED
            BY <3>2, SMT DEF Pushed
    <2> QED
        BY <2>1, <2>2 DEF Returning
<1>5. w = pre \o base \o code \o room \o Saved
    BY DEF Words, Cpu
<1> HIDE DEF pre, base, code, room
<1> DEFINE a == pre \o base
           b == a \o code
           c == b \o room
<1>6. w = c \o Saved
    BY <1>5
<1>7. /\ a \in Seq(Pushed) /\ Len(a) = n + 3
      /\ \A i \in 1 .. n + 3 : a[i] = IF i <= n THEN pre[i] ELSE base[i - n]
    <2>1. /\ a \in Seq(Pushed) /\ Len(a) = Len(pre) + Len(base)
          /\ \A i \in 1 .. Len(pre) + Len(base) :
                a[i] = IF i <= Len(pre) THEN pre[i] ELSE base[i - Len(pre)]
        BY <1>1, <1>2, ConcatProperties
    <2>2. Len(pre) = n /\ Len(base) = 3
        BY <1>1, <1>2
    <2> QED
        BY <2>1, <2>2
<1> HIDE DEF a
<1>8. /\ b \in Seq(Pushed) /\ Len(b) = n + 3 + Len(code)
      /\ \A i \in 1 .. n + 3 + Len(code) : b[i] = IF i <= n + 3 THEN a[i] ELSE code[i - (n + 3)]
    <2>1. /\ b \in Seq(Pushed) /\ Len(b) = Len(a) + Len(code)
          /\ \A i \in 1 .. Len(a) + Len(code) :
                b[i] = IF i <= Len(a) THEN a[i] ELSE code[i - Len(a)]
        BY <1>4, <1>7, ConcatProperties
    <2> QED
        BY <1>7, <2>1
<1>10. n \in {0, 2}
    OBVIOUS
<1> DEFINE m == n + 3 + Len(code)
<1>9. /\ c \in Seq(Pushed) /\ Len(c) = n + 5
      /\ \A i \in 1 .. n + 5 : c[i] = IF i <= m THEN b[i] ELSE room[i - m]
    <2>1. /\ c \in Seq(Pushed) /\ Len(c) = Len(b) + Len(room)
          /\ \A i \in 1 .. Len(b) + Len(room) :
                c[i] = IF i <= Len(b) THEN b[i] ELSE room[i - Len(b)]
        BY <1>4, <1>8, ConcatProperties
    <2>2. Len(b) = m
        BY <1>8
    <2>3. m + Len(room) = n + 5
        BY <1>4, <1>10
    <2> HIDE DEF m
    <2> QED
        BY <2>1, <2>2, <2>3
<1> HIDE DEF b, c
<1>11. /\ w \in Seq(Pushed) /\ Len(w) = n + 15
       /\ \A i \in 1 .. n + 15 : w[i] = IF i <= n + 5 THEN c[i] ELSE Saved[i - (n + 5)]
    <2>1. /\ w \in Seq(Pushed) /\ Len(w) = Len(c) + Len(Saved)
          /\ \A i \in 1 .. Len(c) + Len(Saved) :
                w[i] = IF i <= Len(c) THEN c[i] ELSE Saved[i - Len(c)]
        <3>1. /\ c \o Saved \in Seq(Pushed) /\ Len(c \o Saved) = Len(c) + Len(Saved)
              /\ \A i \in 1 .. Len(c) + Len(Saved) :
                    (c \o Saved)[i] = IF i <= Len(c) THEN c[i] ELSE Saved[i - Len(c)]
            <4>1. c \in Seq(Pushed) /\ Saved \in Seq(Pushed)
                BY <1>3, <1>9
            <4> QED
                BY <4>1, ConcatProperties
        <3> QED
            BY <1>6, <3>1
    <2>2. Len(c) = n + 5
        BY <1>9
    <2>3. (n + 5) + Len(Saved) = n + 15
        BY <1>3, <1>10
    <2> QED
        BY <2>1, <2>2, <2>3
<1>12. \A i \in 1 .. n + 3 : w[i] = IF i <= n THEN pre[i] ELSE base[i - n]
    <2> TAKE i \in 1 .. n + 3
    <2>1. i \in 1 .. n + 15 /\ i <= n + 5 /\ i \in 1 .. n + 5 /\ i \in 1 .. m /\ i <= m
        BY <1>4, <1>10, SMT
    <2> HIDE DEF m
    <2>2. w[i] = b[i]
        BY <1>9, <1>11, <2>1
    <2>3. b[i] = a[i]
        BY <1>8, <2>1 DEF m
    <2> QED
        BY <1>7, <2>2, <2>3
<1>13. \A k \in 1 .. 10 : w[n + 5 + k] = Saved[k]
    <2> TAKE k \in 1 .. 10
    <2>1. n + 5 + k \in 1 .. n + 15 /\ ~(n + 5 + k <= n + 5) /\ (n + 5 + k) - (n + 5) = k
        BY <1>10, SMT
    <2> QED
        BY <1>11, <2>1
<1>14. w[n + 4] \in {"code", "room"} /\ w[n + 5] \in {"code", "room"}
    <2>1. w[n + 4] = c[n + 4] /\ w[n + 5] = c[n + 5]
        BY <1>10, <1>11, SMT
    <2>2. CASE Len(code) = 0
        BY <1>4, <1>9, <1>10, <2>1, <2>2, SMT
    <2>3. CASE Len(code) = 1
        BY <1>4, <1>8, <1>9, <1>10, <2>1, <2>3, SMT
    <2> QED
        BY <1>4, <2>2, <2>3
<1>15. /\ n = 2 => w[1] = "ss" /\ w[2] = "esp"
       /\ w[n + 1] = "eflags" /\ w[n + 2] = "cs" /\ w[n + 3] = "eip"
    BY <1>1, <1>2, <1>10, <1>12, SMT
<1> QED
    BY <1>11, <1>13, <1>14, <1>15 DEF Laid

\* hw_context_t, word by word.
LEMMA ContextWords ==
    /\ Len(Context) = 17 
    /\ \A k \in 1 .. 10 : Context[k] = Saved[11 - k]
    /\ Context[13] = "eip" /\ Context[14] = "cs" /\ Context[15] = "eflags"
    /\ Context[16] = "esp" /\ Context[17] = "ss"
<1> DEFINE W == Pushed \cup {"irq_exc", "error_code"}
           s == Reverse(Saved)
           t == <<"irq_exc", "error_code", "eip", "cs", "eflags", "esp", "ss">>
<1>1. s \in Seq(W) /\ Len(s) = 10 /\ \A k \in 1 .. 10 : s[k] = Saved[11 - k]
    BY SMT DEF Saved, Reverse, Pushed
<1>2. /\ t \in Seq(W) /\ Len(t) = 7 
      /\ t[3] = "eip" /\ t[4] = "cs" /\ t[5] = "eflags" /\ t[6] = "esp" /\ t[7] = "ss"
    BY SMT DEF Pushed
<1>3. Context = s \o t
    BY DEF Context
<1> HIDE DEF s, t, W
<1>4. /\ Len(Context) = 17 
      /\ \A i \in 1 .. 17 : Context[i] = IF i <= 10 THEN s[i] ELSE t[i - 10]
    <2>1. /\ Context \in Seq(W) /\ Len(Context) = Len(s) + Len(t)
          /\ \A i \in 1 .. Len(s) + Len(t) :
                Context[i] = IF i <= Len(s) THEN s[i] ELSE t[i - Len(s)]
        BY <1>1, <1>2, <1>3, ConcatProperties
    <2>2. Len(s) = 10 /\ Len(s) + Len(t) = 17
        BY <1>1, <1>2
    <2> QED
        BY <2>1, <2>2
<1>5. \A k \in 1 .. 10 : Context[k] = Saved[11 - k]
    BY <1>1, <1>4, SMT
<1>6. /\ Context[13] = t[3] /\ Context[14] = t[4] /\ Context[15] = t[5]
      /\ Context[16] = t[6] /\ Context[17] = t[7]
    BY <1>4, SMT
<1> QED
    BY <1>2, <1>4, <1>5, <1>6

\* signal_handler finds the context of a handler that returns, and its stub the
\* return address.
LEMMA ContextMatches ==
    ASSUME NEW n \in {0, 2}, NEW w, Laid(w, n)
    PROVE  /\ \A i \in DOMAIN Reverse(w) : Reverse(w)[i] \in {Context[i], "room", "code"}
           /\ Reverse(w)[13] = "eip"
<1> DEFINE words == Reverse(w)
<1>1. /\ Len(w) = n + 15
      /\ n = 2 => w[1] = "ss" /\ w[2] = "esp"
      /\ w[n + 1] = "eflags" /\ w[n + 2] = "cs" /\ w[n + 3] = "eip"
      /\ w[n + 4] \in {"code", "room"} /\ w[n + 5] \in {"code", "room"}
      /\ \A k \in 1 .. 10 : w[n + 5 + k] = Saved[k]
    BY DEF Laid
<1>2. n \in {0, 2}
    OBVIOUS
<1>3. DOMAIN words = 1 .. n + 15 /\ \A i \in 1 .. n + 15 : words[i] = w[n + 16 - i]
    <2>1. words = [i \in 1 .. Len(w) |-> w[(Len(w) - i) + 1]]
        BY DEF Reverse
    <2>2. \A i \in 1 .. n + 15 : ((n + 15) - i) + 1 = n + 16 - i
        BY <1>2, SMT
    <2> HIDE DEF words
    <2>3. Len(w) = n + 15
        BY <1>1
    <2>4. words = [i \in 1 .. n + 15 |-> w[((n + 15) - i) + 1]]
        BY <2>1, <2>3
    <2> QED
        BY <2>2, <2>4
<1> HIDE DEF words
<1>4. \A i \in 1 .. 10 : words[i] = Context[i]
    <2> TAKE i \in 1 .. 10
    <2>1. /\ 11 - i \in 1 .. 10 /\ n + 16 - i = n + 5 + (11 - i) /\ i \in 1 .. n + 15
        BY <1>2, SMT
    <2>2. words[i] = w[n + 5 + (11 - i)]
        BY <1>3, <2>1
    <2>3. w[n + 5 + (11 - i)] = Saved[11 - i]
        BY <1>1, <2>1
    <2> QED
        BY <2>2, <2>3, ContextWords
<1>a. /\ n + 16 - 11 = n + 5 /\ n + 16 - 12 = n + 4 /\ n + 16 - 13 = n + 3
      /\ n + 16 - 14 = n + 2 /\ n + 16 - 15 = n + 1 /\ 11 .. 15 \subseteq 1 .. n + 15
    BY <1>2, SMT
<1>b. /\ words[11] = w[n + 5] /\ words[12] = w[n + 4] /\ words[13] = w[n + 3]
      /\ words[14] = w[n + 2] /\ words[15] = w[n + 1]
    BY <1>3, <1>a
<1>5. words[11] \in {"code", "room"} /\ words[12] \in {"code", "room"}
    BY <1>1, <1>b
<1>6. words[13] = Context[13] /\ words[14] = Context[14] /\ words[15] = Context[15]
    BY <1>1, <1>b, ContextWords
<1>7. n = 2 => words[16] = Context[16] /\ words[17] = Context[17]
    BY <1>1, <1>3, ContextWords, SMT
<1>8. ASSUME NEW i \in DOMAIN words PROVE words[i] \in {Context[i], "room", "code"}
    <2>1. i \in 1 .. 10 \/ i \in {11, 12} \/ i \in {13, 14, 15} \/ (n = 2 /\ i \in {16, 17})
        <3>1. i \in 1 .. n + 15
            BY <1>3
        <3>2. CASE n = 0
            <4>1. i \in 1 .. 15
                BY <3>1, <3>2
            <4> QED
                BY <4>1, SMT
        <3>3. CASE n = 2
            <4>1. i \in 1 .. 17
                BY <3>1, <3>3
            <4> QED
                BY <4>1, <3>3, SMT
        <3> QED
            BY <1>2, <3>2, <3>3
    <2> QED
        BY <2>1, <1>4, <1>5, <1>6, <1>7
<1> QED
    BY <1>6, <1>8, ContextWords DEF words

\* ... whatever the handler that returns.
LEMMA StubsMatch ==
    ASSUME NEW f, f.vec \in Returning
    PROVE  LET words == Reverse(Words(f))
           IN  /\ \A i \in DOMAIN words : words[i] \in {Context[i], "room", "code"}
               /\ words[Len(Saved) + Stub(f.vec).drop + 1] = "eip"
<1> DEFINE n == IF f.user THEN 2 ELSE 0
<1>1. n \in {0, 2} /\ Laid(Words(f), n)
    BY WordsPushed
<1>2. Len(Saved) = 10 /\ Stub(f.vec).drop = 2
    BY SMT DEF Saved, Returning, Stub, HasCode, SYSCALL, IRQ_START, IrqStub, ExcCodeStub
<1>3. Len(Saved) + Stub(f.vec).drop + 1 = 13
    BY <1>2, SMT
<1> HIDE DEF n
<1> QED
    BY <1>1, <1>3, ContextMatches

-----------------------------------------------------------------------------
(* the theorems *)

\* The invariant holds of every reachable state.
THEOREM Invariance == Spec => []IInv
<1>1. Init => IInv
    BY InitInv
<1>2. IInv /\ [Next]_vars => IInv'
    BY NextInv
<1> QED
    BY <1>1, <1>2, PTL DEF Spec

\* The types are right, and only calls of the table are made (the bound check of
\* handler_dispatcher.S).
THEOREM TypeCorrect == Spec => []TypeOK
<1>1. IInv => TypeOK
    <2> SUFFICES ASSUME IInv PROVE TypeOK
        OBVIOUS
    <2>1. ASSUME NEW p \in Procs, At(p, "call") PROVE Top(p).num \in 1 .. 13
        <3>1. GoodStack(stack[p]) /\ stack[p] # <<>> /\ Top(p).pc = "call"
            BY <2>1 DEF IInv, Stacks, At, InUser
        <3>2. GoodFrame(stack[p][Len(stack[p])], Len(stack[p]))
            BY <3>1, TopFacts
        <3> QED
            BY <3>1, <3>2 DEF GoodFrame, Top
    <2> QED
        BY <2>1 DEF TypeOK, IInv, Basics
<1> QED
    BY <1>1, Invariance, PTL

\* No program is in user mode with interrupts off: execute's sti (syscall.c) and
\* the flags that iret restores.
THEOREM UserInterruptibleCorrect == Spec => []UserInterruptible
<1>1. IInv => UserInterruptible
    BY DEF IInv
<1> QED
    BY <1>1, Invariance, PTL

\* With interrupts on no line is in service, however handlers nest and processes
\* are switched: pit_handler's send_eoi comes before process_switch.
THEOREM NoneInServiceCorrect == Spec => []NoneInService
<1>1. IInv => NoneInService
    BY DEF IInv, Service, NoneInService
<1> QED
    BY <1>1, Invariance, PTL

\* signal_handler and sigreturn find the interrupted context in what processor and
\* stub have pushed, and the stub drops what was pushed above the return address,
\* for every handler that gets to its end: handler_dispatcher.S and hw_context_t.
THEOREM ContextFoundCorrect == Spec => []ContextFound
<1>1. IInv => ContextFound
    <2> SUFFICES ASSUME IInv, NEW p \in Procs, At(p, "tail")
                 PROVE  LET words == Reverse(Words(Top(p)))
                        IN  /\ \A i \in DOMAIN words : words[i] \in {Context[i], "room", "code"}
                            /\ words[Len(Saved) + Stub(Top(p).vec).drop + 1] = "eip"
        BY DEF ContextFound
    <2>1. GoodStack(stack[p]) /\ stack[p] # <<>> /\ Top(p).pc = "tail"
        BY DEF IInv, Stacks, At, InUser
    <2>2. Top(p).vec \in Returning
        BY <2>1, TopFacts DEF GoodFrame, Top
    <2> QED
        BY <2>2, StubsMatch
<1> QED
    BY <1>1, Invariance, PTL

\* If no interrupt is taken between the write of .ret_val and its read
\* (handler_dispatcher.S:875-891), every call returns its result.
THEOREM ReturnsOwnResultCorrect ==
    ASSUME ReturnsAtomic PROVE Spec => ReturnsOwnResult
<1>1. IInv /\ [Next]_vars =>
        [\A p \in Procs :
            p = cur /\ At(p, "return") /\ stack'[p] = Front(stack[p])
              => ret_val = Result(p, Top(p).num)]_vars
    BY DEF IInv, Own
<1> QED
    BY <1>1, Invariance, PTL DEF Spec, ReturnsOwnResult
=============================================================================
