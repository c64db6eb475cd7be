------------------------------- MODULE Signal -------------------------------
(***************************************************************************)
(* Signals (signal.c): raised by interrupt and exception handlers, looked  *)
(* for at the end of each of them, and handled by the kernel, by a call    *)
(* into the program (ALARM), or by a frame on the user stack that makes    *)
(* the program run its handler and come back through sigreturn.            *)
(*                                                                         *)
(* One process per terminal.  kstack[p] is what is under way on p's kernel *)
(* stack, the innermost last; its first entry was entered from user mode,  *)
(* the others interrupted the kernel.                                      *)
(***************************************************************************)
EXTENDS Integers, Sequences

CONSTANTS
    Procs,              \* the foreground processes, one per terminal
    Handled,            \* the signals that the program of each installs handlers for
    MaxDepth,           \* bound: entries on a kernel stack
    MaxFrames,          \* bound: handlers nested on a user stack when one more is raised
    KernelReturn        \* may an interrupt of kernel code find a signal for a handler?

SEGFAULT  == 1
INTERRUPT == 2
ALARM     == 3
Signals   == 0 .. 4     \* SIG_NUM
MAIN      == -1         \* what a program runs when it runs no handler
NONE      == -1         \* SIG_NONE

ASSUME SignalAssumption ==
    /\ Procs # {} /\ Handled \in [Procs -> SUBSET Signals]
    /\ MaxDepth \in Nat /\ MaxFrames \in Nat
    /\ KernelReturn \in BOOLEAN

VARIABLES
    cur,                \* the process that runs
    sig_state,          \* the pending signals of each process
    sig_mask,           \* the signals that may be delivered to each process
    sig_hand,           \* "kill", "ignore" or "user" for each signal
    kstack,             \* the kernel stack, as [at, sig] records
    run,                \* MAIN, or the signal whose handler the program runs
    ustack              \* the words that signals have put on the user stack, the top last

sigs == <<sig_state, sig_mask, sig_hand>>
vars == <<cur, sigs, kstack, run, ustack>>

\* signal_init
Default == [s \in Signals |-> IF s < 3 THEN "kill" ELSE "ignore"]
Unmasked == Signals

Entry(at) == [at |-> at, sig |-> NONE]

\* all but one process have been interrupted in user mode
Init ==
    /\ cur \in Procs
    /\ sig_state = [p \in Procs |-> {}]
    /\ sig_mask = [p \in Procs |-> Unmasked]
    /\ sig_hand = [p \in Procs |-> Default]
    /\ kstack = [p \in Procs |-> IF p = cur THEN <<>> ELSE <<Entry("tail")>>]
    /\ run = [p \in Procs |-> MAIN]
    /\ ustack = [p \in Procs |-> <<>>]

InUser(p) == kstack[p] = <<>>
Top(p)    == kstack[p][Len(kstack[p])]
At(p, at) == ~InUser(p) /\ Top(p).at = at

Push(p, e) == kstack' = [kstack EXCEPT ![p] = Append(@, e)]
Pop(p)     == kstack' = [kstack EXCEPT ![p] = SubSeq(@, 1, Len(@) - 1)]
SetTop(p, e) == kstack' = [kstack EXCEPT ![p][Len(kstack[p])] = e]

-----------------------------------------------------------------------------
(* interrupts and exceptions: raise a signal, then go to signal_handler *)

\* a signal that would be taken for a handler on the user stack, once it is unmasked
ForHandler(p, s) == s \in sig_state[p] /\ sig_hand[p][s] = "user" /\ s # ALARM

\* KernelReturn = FALSE assumes that no interrupt of kernel code finds one when it
\* ends, and that no call is made while one waits for the next interrupt.
Timely ==
    KernelReturn \/
        \A p \in Procs : \A i \in 2 .. Len(kstack[p]) : \A s \in Signals :
            kstack[p][i].at = "tail" /\ (s \in sig_mask[p] \/ i < Len(kstack[p]))
                => ~ForHandler(p, s)

\* signal_trigger
Raise(p, s) ==
    /\ Len(ustack[p]) < 4 * MaxFrames
    /\ sig_state' = [sig_state EXCEPT ![p] = @ \cup {s}]

Enter ==
    /\ Len(kstack[cur]) < MaxDepth
    /\ Push(cur, Entry("tail"))
    /\ UNCHANGED <<sig_mask, sig_hand, run, ustack>>
    /\ Timely'

\* Ctrl-C: irq1_handler, for the foreground process of the terminal displayed
ControlC ==
    /\ \E p \in Procs : Raise(p, INTERRUPT)
    /\ UNCHANGED cur
    /\ Enter

\* rtc_handler, which raises ALARM every ten seconds
Rtc ==
    /\ Raise(cur, ALARM) \/ UNCHANGED sig_state
    /\ UNCHANGED cur
    /\ Enter

\* general protection and page faults, of the program or of a call it made
Fault ==
    /\ InUser(cur) \/ At(cur, "call")
    /\ Raise(cur, SEGFAULT)
    /\ UNCHANGED cur
    /\ Enter

\* the clock: another process goes on where it was interrupted
Tick ==
    /\ \E p \in Procs : (Procs = {cur} \/ p # cur) /\ cur' = p
    /\ UNCHANGED sig_state
    /\ Enter

-----------------------------------------------------------------------------
(* signal_handler; interrupts may nest between its steps *)

Pending(p) == sig_state[p] \cap sig_mask[p]

\* (slip: the bit is cleared instead of being the only one set)
MaskWithout(p, s) == sig_mask[p] \ {s}

\* signal_mask
Mask(p, s) == {s}

\* the lowest pending signal that may be delivered is taken and masks the others
Select ==
    /\ At(cur, "tail")
    /\ \E s \in Pending(cur) :
          /\ \A r \in Pending(cur) : s <= r
          /\ sig_state' = [sig_state EXCEPT ![cur] = @ \ {s}]
          /\ sig_mask' = [sig_mask EXCEPT ![cur] = Mask(cur, s)]
          /\ SetTop(cur, [at |-> "act", sig |-> s])
    /\ UNCHANGED <<cur, sig_hand, run, ustack>>

NoSignal ==
    /\ At(cur, "tail")
    /\ Pending(cur) = {}
    /\ Pop(cur)
    /\ UNCHANGED <<cur, sigs, run, ustack>>

Acts(s, how) == At(cur, "act") /\ Top(cur).sig = s /\ sig_hand[cur][s] = how

\* halt: the process's place goes to a new one, for which execute calls signal_init
Kill(s) ==
    /\ Acts(s, "kill")
    /\ sig_state' = [sig_state EXCEPT ![cur] = {}]
    /\ sig_mask' = [sig_mask EXCEPT ![cur] = Unmasked]
    /\ sig_hand' = [sig_hand EXCEPT ![cur] = Default]
    /\ kstack' = [kstack EXCEPT ![cur] = <<>>]
    /\ run' = [run EXCEPT ![cur] = MAIN]
    /\ ustack' = [ustack EXCEPT ![cur] = <<>>]
    /\ UNCHANGED cur

\* (slip: the signals stay masked)
IgnoreMasked(s) ==
    /\ Acts(s, "ignore")
    /\ Pop(cur)
    /\ UNCHANGED <<cur, sigs, run, ustack>>

Ignore(s) ==
    /\ Acts(s, "ignore")
    /\ sig_mask' = [sig_mask EXCEPT ![cur] = Unmasked]
    /\ Pop(cur)
    /\ UNCHANGED <<cur, sig_state, sig_hand, run, ustack>>

\* the handler of ALARM is called, not returned to, and runs in the kernel
CallAlarm ==
    /\ Acts(ALARM, "user")
    /\ SetTop(cur, [at |-> "alarm", sig |-> ALARM])
    /\ UNCHANGED <<cur, sigs, run, ustack>>

AlarmReturns ==
    /\ At(cur, "alarm")
    /\ sig_mask' = [sig_mask EXCEPT ![cur] = Unmasked]
    /\ Pop(cur)
    /\ UNCHANGED <<cur, sig_state, sig_hand, run, ustack>>

\* The frame, from its bottom: the code of sigreturn.S, the context interrupted,
\* the signal's number, and the return address, which leads to that code.
Frame(p, s) ==
    <<[word |-> "code"], [word |-> "context", run |-> run[p], esp |-> Len(ustack[p])],
      [word |-> "number", sig |-> s], [word |-> "return"]>>

\* back to user mode, in the handler
Deliver(s) ==
    /\ Acts(s, "user") /\ s # ALARM
    /\ Len(kstack[cur]) = 1
    /\ ustack' = [ustack EXCEPT ![cur] = @ \o Frame(cur, s)]
    /\ run' = [run EXCEPT ![cur] = s]
    /\ Pop(cur)
    /\ UNCHANGED <<cur, sigs>>

\* back to kernel code: nothing is delivered
DeliverNot(s) ==
    /\ Acts(s, "user") /\ s # ALARM
    /\ Len(kstack[cur]) > 1
    /\ Pop(cur)
    /\ UNCHANGED <<cur, sigs, run, ustack>>

-----------------------------------------------------------------------------
(* the program *)

\* a system call, and its return, which does not look for signals
Call ==
    /\ InUser(cur) /\ MaxDepth > 0
    /\ KernelReturn \/ \A s \in sig_mask[cur] : ~ForHandler(cur, s)
    /\ Push(cur, Entry("call"))
    /\ UNCHANGED <<cur, sigs, run, ustack>>

CallReturns ==
    /\ At(cur, "call")
    /\ Pop(cur)
    /\ UNCHANGED <<cur, sigs, run, ustack>>

SetHandler(s) ==
    /\ InUser(cur)
    /\ sig_hand' = [sig_hand EXCEPT ![cur][s] = "user"]
    /\ UNCHANGED <<cur, sig_state, sig_mask, kstack, run, ustack>>

\* the handler returns into the code on the stack, which calls sigreturn
HandlerReturns ==
    /\ InUser(cur)
    /\ run[cur] # MAIN
    /\ ustack[cur][Len(ustack[cur])].word = "return"
    /\ ustack' = [ustack EXCEPT ![cur] = SubSeq(@, 1, Len(@) - 1)]
    /\ Push(cur, Entry("sigreturn"))
    /\ UNCHANGED <<cur, sigs, run>>

\* (slip: the word at stored_esp, not the next one)
ContextAtTop(p) == ustack[p][Len(ustack[p])]

\* the word at stored_esp + 4
ContextAt(p) == ustack[p][Len(ustack[p]) - 1]

\* (slip: the signals stay masked)
SigreturnMasked ==
    /\ At(cur, "sigreturn")
    /\ ContextAt(cur).word = "context"
    /\ run' = [run EXCEPT ![cur] = ContextAt(cur).run]
    /\ ustack' = [ustack EXCEPT ![cur] = SubSeq(@, 1, ContextAt(cur).esp)]
    /\ Pop(cur)
    /\ UNCHANGED <<cur, sigs>>

\* sigreturn: the context found on the user stack is restored
Sigreturn ==
    /\ At(cur, "sigreturn")
    /\ ContextAt(cur).word = "context"
    /\ run' = [run EXCEPT ![cur] = ContextAt(cur).run]
    /\ ustack' = [ustack EXCEPT ![cur] = SubSeq(@, 1, ContextAt(cur).esp)]
    /\ sig_mask' = [sig_mask EXCEPT ![cur] = Unmasked]
    /\ Pop(cur)
    /\ UNCHANGED <<cur, sig_state, sig_hand>>

-----------------------------------------------------------------------------

Interrupt == ControlC \/ Rtc \/ Fault \/ Tick

Handle ==
    \/ Select \/ NoSignal \/ CallAlarm \/ AlarmReturns
    \/ \E s \in Signals : Kill(s) \/ Ignore(s) \/ Deliver(s) \/ DeliverNot(s)

Program == Call \/ CallReturns \/ HandlerReturns \/ Sigreturn \/ \E s \in Handled[cur] : SetHandler(s)

Next == Interrupt \/ Handle \/ Program

Spec == Init /\ [][Next]_vars

\* Handlers and kernel code take less time than interrupts leave between them (a
\* call may wait for ever), a program's handlers return, and the clock ticks.
FairSpec ==
    /\ Spec
    /\ \A p \in Procs :
          /\ \A d \in 1 .. MaxDepth : SF_vars(cur = p /\ Len(kstack[p]) = d /\ Handle)
          /\ SF_vars(cur = p /\ (HandlerReturns \/ Sigreturn))
          /\ SF_vars(cur = p /\ (InUser(p) \/ At(p, "call")) /\ Tick)

-----------------------------------------------------------------------------
(* Properties *)

\* A process's mask lets all signals through or a single one.
TypeOK ==
    /\ cur \in Procs
    /\ sig_state \in [Procs -> SUBSET Signals]
    /\ sig_mask \in [Procs -> {Unmasked} \cup {{s} : s \in Signals}]
    /\ sig_hand \in [Procs -> [Signals -> {"kill", "ignore", "user"}]]
    /\ run \in [Procs -> Signals \cup {MAIN}]
    /\ kstack \in [Procs -> Seq([at : {"call", "sigreturn", "tail", "act", "alarm"},
                                 sig : Signals \cup {NONE}])]

\* p handles signal s: it does so in the kernel, or its program runs the handler;
\* of several the innermost
Handles(p, s) ==
    \/ \E i \in DOMAIN kstack[p] :
          /\ s # NONE /\ kstack[p][i].sig = s
          /\ \A j \in i + 1 .. Len(kstack[p]) : kstack[p][j].sig = NONE
    \/ run[p] = s /\ \A i \in DOMAIN kstack[p] : kstack[p][i].sig = NONE

\* Signals are masked only while one is handled, and by the one handled: no
\* signal keeps the others out for ever.
MaskIsHandled ==
    \A p \in Procs : sig_mask[p] = Unmasked \/ \E s \in Signals : sig_mask[p] = {s} /\ Handles(p, s)

\* sigreturn finds the context of what the signal interrupted, however handlers
\* nest: from the top, each frame leads to the code and the stack below it.
FramesLeadBack ==
    \A p \in Procs :
        /\ At(p, "sigreturn") => ContextAt(p).word = "context"
        /\ \A i \in DOMAIN ustack[p] :
              LET w == ustack[p][i]
              IN  w.word = "context" =>
                     /\ w.esp = i - 2
                     /\ w.run = IF w.esp = 0 THEN MAIN ELSE ustack[p][w.esp - 1].sig

\* A signal that is raised is dealt with, unless its process waits in a call.  It
\* can wait for ever only behind the handlers of signals with a lower number.
HandlerRuns ==
    \A p \in Procs : \A s \in Handled[p] :
        s \in sig_state[p] ~> \/ s \notin sig_state[p]
                              \/ run[p] \in 0 .. s - 1
                              \/ kstack[p] # <<>> /\ kstack[p][1].at = "call"
=============================================================================
