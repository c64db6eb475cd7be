------------------------------ MODULE Process ------------------------------
(***************************************************************************)
(* Processes, terminals and the scheduler of RazelOS: execute and halt     *)
(* (syscall.c), the PIT's process_switch (scheduler.c) and the key that    *)
(* selects the displayed terminal (terminal.c).                            *)
(*                                                                         *)
(* A process is its pid: pid p owns PCB p, kernel stack p and the 4 MB     *)
(* user page p.  One processor runs on the kernel stack of "cur" (what     *)
(* fetch_curr_pid computes from esp); "pc" says where in the kernel it is. *)
(* execute and halt are split where an interrupt would see their half-done *)
(* work, and Windows names the points at which interrupts are taken.  The  *)
(* code leaves interrupts on in all of them (int 0x80 is a trap gate);     *)
(* Windows = {} is the behaviour with system calls run to completion.      *)
(***************************************************************************)
EXTENDS Integers, FiniteSets

CONSTANTS
    MaxProcess,         \* MAX_PROCESS: pids are 0 .. MaxProcess - 1
    TerminalNum,        \* TERMINAL_NUM
    MaxTerminalProcess, \* MAX_TERMINAL_PROCESS: processes one terminal may hold
    Windows,            \* the kernel points at which interrupts are taken
    AnyTime             \* may a shell start a program, or exit, at an unlucky time?

EMPTY    == -1          \* PID_EMPTY, and the parent_pid of a base shell
Pids     == 0 .. MaxProcess - 1
Terminals == 0 .. TerminalNum - 1

\* Where a kernel stack is: in user mode; in execute before allocate_pid, after
\* program_page_init, and after change_terminal_process; in halt after
\* change_terminal_process.  "none" is no context at all: a processor there has
\* jumped to a stack frame that is not the one it wants.
Points   == {"user", "exec", "load", "enter", "unwind"}
Contexts == Points \cup {"none"}

ASSUME ProcessAssumption ==
    /\ MaxProcess \in Nat \ {0}
    /\ TerminalNum \in Nat \ {0}
    /\ MaxTerminalProcess \in Nat \ {0}
    /\ Windows \subseteq Points \ {"user"}
    /\ AnyTime \in BOOLEAN

VARIABLES
    process_id_arr,     \* the pids whose process_id_arr entry is 1
    parent_pid,         \* pcb->parent_pid
    terminal_id,        \* pcb->terminal_id
    num_proc,           \* terminal_pid_map[t].num_proc
    terminal_pid,       \* terminal_pid_map[t].pid
    terminal_using,     \* the displayed terminal
    terminal_active,    \* the terminals displayed at least once
    curr_exe_terminal,  \* the terminal the scheduler runs
    cur,                \* the pid whose kernel stack is in use
    pc,                 \* where on that stack the kernel is
    child,              \* the pid that the execute frame on stack p is making, or made
    saved,              \* the context at pcb->scheduler_esp, "none" once resumed
    page,               \* the pid whose 4 MB page is mapped at 128 MB
    image               \* the pid whose program was last loaded into page p

tree  == <<process_id_arr, parent_pid, terminal_id, num_proc, terminal_pid>>
view  == <<terminal_using, terminal_active>>
stack == <<cur, pc, child, saved>>
vars  == <<tree, view, curr_exe_terminal, stack, page, image>>

Free        == Pids \ process_id_arr
FirstFree(p) == p \in Free /\ \A q \in Free : p <= q

\* boot: main runs execute("shell") on the boot stack, which is stack 0
Init ==
    /\ process_id_arr = {}
    /\ parent_pid = [p \in Pids |-> EMPTY]
    /\ terminal_id = [p \in Pids |-> 0]
    /\ num_proc = [t \in Terminals |-> 0]
    /\ terminal_pid = [t \in Terminals |-> EMPTY]
    /\ terminal_using = 0
    /\ terminal_active = {0}
    /\ curr_exe_terminal = 0
    /\ cur = 0
    /\ pc = "exec"
    /\ child = [p \in Pids |-> EMPTY]
    /\ saved = [p \in Pids |-> "none"]
    /\ page = 0
    /\ image = [p \in Pids |-> EMPTY]

-----------------------------------------------------------------------------
(* the user's timing *)

\* terminal_switch marks a terminal active at once, but its shell is started by
\* the next tick, and until then execute takes the displayed terminal for the
\* caller's because it has no process.  AnyTime = FALSE assumes that the user is
\* slower than a tick (10 ms): until the shell of the displayed terminal is up
\* no program is started and no other terminal is displayed; and that a base
\* shell exits while its terminal is displayed.
ShellIsUp   == AnyTime \/ num_proc[terminal_using] # 0
MayExitBase == AnyTime \/ terminal_id[cur] = terminal_using

-----------------------------------------------------------------------------
(* execute *)

\* (slip: the new page is not mapped before the program is loaded)
ExecAllocNoMap ==
    /\ pc = "exec" \/ (pc = "user" /\ ShellIsUp)
    /\ \E p \in Pids :
          /\ FirstFree(p)
          /\ process_id_arr' = process_id_arr \cup {p}
          /\ child' = [child EXCEPT ![cur] = p]
    /\ pc' = "load"
    /\ UNCHANGED <<parent_pid, terminal_id, num_proc, terminal_pid, view,
                   curr_exe_terminal, cur, saved, page, image>>

\* allocate_pid and program_page_init
ExecAlloc ==
    /\ pc = "exec" \/ (pc = "user" /\ ShellIsUp)
    /\ \E p \in Pids :
          /\ FirstFree(p)
          /\ process_id_arr' = process_id_arr \cup {p}
          /\ child' = [child EXCEPT ![cur] = p]
          /\ page' = p
    /\ pc' = "load"
    /\ UNCHANGED <<parent_pid, terminal_id, num_proc, terminal_pid, view,
                   curr_exe_terminal, cur, saved, image>>

\* allocate_pid finds no pid: execute returns -1
ExecNoPid ==
    /\ pc \in {"user", "exec"}
    /\ Free = {}
    /\ pc' = "user"
    /\ UNCHANGED <<tree, view, curr_exe_terminal, cur, child, saved, page, image>>

\* is the new process the first of the displayed terminal?
IsBase == num_proc[terminal_using] = 0

\* (slip: the terminal on the screen instead of the caller's)
HomeTerminalShown == terminal_using

\* the terminal a new process belongs to
HomeTerminal == IF IsBase THEN terminal_using ELSE terminal_id[cur]

\* (slip: the pids free before this one was taken)
PidsAreReservedLate ==
    Cardinality(Free) + 1 < TerminalNum - Cardinality(terminal_active)

\* MAX_PROCESS - allocated_pid_cnt() < TERMINAL_NUM - active_termminal_cnt()
PidsAreReserved ==
    Cardinality(Free) < TerminalNum - Cardinality(terminal_active)

\* (slip: one process too many)
MustRefuseLate ==
    /\ ~IsBase
    /\ \/ num_proc[HomeTerminal] > MaxTerminalProcess
       \/ PidsAreReserved

MustRefuse ==
    /\ ~IsBase
    /\ \/ num_proc[HomeTerminal] >= MaxTerminalProcess
       \/ PidsAreReserved

\* The loader writes through whatever page is mapped; then the PCB is filled in
\* and the terminal's foreground process becomes the new one.
ExecRegister ==
    /\ pc = "load"
    /\ ~MustRefuse
    /\ image' = [image EXCEPT ![page] = child[cur]]
    /\ parent_pid' = [parent_pid EXCEPT ![child[cur]] = IF IsBase THEN EMPTY ELSE cur]
    /\ terminal_id' = [terminal_id EXCEPT ![child[cur]] = HomeTerminal]
    /\ num_proc' = [num_proc EXCEPT ![HomeTerminal] = @ + 1]
    /\ terminal_pid' = [terminal_pid EXCEPT ![HomeTerminal] = child[cur]]
    /\ pc' = "enter"
    /\ UNCHANGED <<process_id_arr, view, curr_exe_terminal, cur, child, saved, page>>

\* (slip: the caller's page is not mapped again)
ExecRefuseNoMap ==
    /\ pc = "load"
    /\ MustRefuse
    /\ image' = [image EXCEPT ![page] = child[cur]]
    /\ process_id_arr' = process_id_arr \ {child[cur]}
    /\ child' = [child EXCEPT ![cur] = EMPTY]
    /\ pc' = "user"
    /\ UNCHANGED <<parent_pid, terminal_id, num_proc, terminal_pid, view,
                   curr_exe_terminal, cur, saved, page>>

\* the terminal, or the table, is full: the pid is given back and the caller's
\* page mapped again
ExecRefuse ==
    /\ pc = "load"
    /\ MustRefuse
    /\ image' = [image EXCEPT ![page] = child[cur]]
    /\ parent_pid' = [parent_pid EXCEPT ![child[cur]] = cur]
    /\ terminal_id' = [terminal_id EXCEPT ![child[cur]] = HomeTerminal]
    /\ process_id_arr' = process_id_arr \ {child[cur]}
    /\ page' = cur
    /\ child' = [child EXCEPT ![cur] = EMPTY]
    /\ pc' = "user"
    /\ UNCHANGED <<num_proc, terminal_pid, view, curr_exe_terminal, cur, saved>>

\* iret to the new program, with tss.esp0 at the top of its own kernel stack,
\* where nothing that was on that stack survives
ExecEnter ==
    /\ pc = "enter"
    /\ cur' = child[cur]
    /\ child' = [child EXCEPT ![child[cur]] = EMPTY]
    /\ saved' = [saved EXCEPT ![child[cur]] = "none"]
    /\ pc' = "user"
    /\ UNCHANGED <<tree, view, curr_exe_terminal, page, image>>

-----------------------------------------------------------------------------
(* halt: by the process, by an exception, or by a signal that kills it *)

\* the process leaves its terminal, which goes to its parent, EMPTY for a base shell
HaltStart ==
    /\ pc = "user"
    /\ parent_pid[cur] = EMPTY => MayExitBase
    /\ num_proc' = [num_proc EXCEPT ![terminal_id[cur]] = @ - 1]
    /\ terminal_pid' = [terminal_pid EXCEPT ![terminal_id[cur]] = parent_pid[cur]]
    /\ pc' = "unwind"
    /\ UNCHANGED <<process_id_arr, parent_pid, terminal_id, view,
                   curr_exe_terminal, cur, child, saved, page, image>>

\* A base shell gives its pid back and calls execute("shell") itself.
HaltBase ==
    /\ pc = "unwind"
    /\ parent_pid[cur] = EMPTY
    /\ process_id_arr' = process_id_arr \ {cur}
    /\ pc' = "exec"
    /\ UNCHANGED <<parent_pid, terminal_id, num_proc, terminal_pid, view,
                   curr_exe_terminal, cur, child, saved, page, image>>

\* (slip: the test for a base shell is missing)
HaltReturnAlways ==
    /\ pc = "unwind"
    /\ process_id_arr' = process_id_arr \ {cur}
    /\ page' = parent_pid[cur]
    /\ cur' = parent_pid[cur]
    /\ pc' = "user"
    /\ UNCHANGED <<parent_pid, terminal_id, num_proc, terminal_pid, view,
                   curr_exe_terminal, child, saved, image>>

\* (slip: the parent's pid is given back instead of the child's)
HaltReturnParent ==
    /\ pc = "unwind"
    /\ parent_pid[cur] # EMPTY
    /\ process_id_arr' = process_id_arr \ {parent_pid[cur]}
    /\ page' = parent_pid[cur]
    /\ cur' = parent_pid[cur]
    /\ pc' = "user"
    /\ UNCHANGED <<parent_pid, terminal_id, num_proc, terminal_pid, view,
                   curr_exe_terminal, child, saved, image>>

\* Give the pid back, map the parent's page and return into the execute frame
\* that pcb->esp points at, above anything saved on that stack since.  The frame
\* is there only if the stack still holds the execute that made this process.
HaltReturn ==
    /\ pc = "unwind"
    /\ parent_pid[cur] # EMPTY
    /\ process_id_arr' = process_id_arr \ {cur}
    /\ page' = parent_pid[cur]
    /\ cur' = parent_pid[cur]
    /\ pc' = IF child[parent_pid[cur]] = cur THEN "user" ELSE "none"
    /\ child' = [child EXCEPT ![parent_pid[cur]] = EMPTY]
    /\ saved' = [saved EXCEPT ![parent_pid[cur]] = "none"]
    /\ UNCHANGED <<parent_pid, terminal_id, num_proc, terminal_pid, view,
                   curr_exe_terminal, image>>

-----------------------------------------------------------------------------
(* interrupts *)

\* (slip: interrupts are never off)
InterruptibleAlways == pc # "none"

Interruptible == pc \in {"user"} \cup Windows

\* Alt+Fn: terminal_switch
TerminalSwitch(t) ==
    /\ Interruptible
    /\ ShellIsUp
    /\ t # terminal_using
    /\ terminal_using' = t
    /\ terminal_active' = terminal_active \cup {t}
    /\ UNCHANGED <<tree, curr_exe_terminal, stack, page, image>>

\* (slip: the loop over the terminals starts at 2)
NeedShellLate == terminal_using > 1 /\ terminal_pid[terminal_using] = EMPTY

\* the displayed terminal has no shell yet; terminal 0 is never looked at
NeedShell == terminal_using # 0 /\ terminal_pid[terminal_using] = EMPTY

\* (slip: the interrupted context is saved only when another one is resumed)
SpawnShellUnsaved ==
    /\ NeedShell
    /\ IsBase
    /\ \E p \in Pids :
          /\ FirstFree(p)
          /\ process_id_arr' = process_id_arr \cup {p}
          /\ parent_pid' = [parent_pid EXCEPT ![p] = EMPTY]
          /\ terminal_id' = [terminal_id EXCEPT ![p] = terminal_using]
          /\ terminal_pid' = [terminal_pid EXCEPT ![terminal_using] = p]
          /\ image' = [image EXCEPT ![p] = p]
          /\ page' = p
          /\ cur' = p
          /\ child' = [child EXCEPT ![p] = EMPTY]
    /\ num_proc' = [num_proc EXCEPT ![terminal_using] = @ + 1]
    /\ curr_exe_terminal' = terminal_using
    /\ pc' = "user"
    /\ UNCHANGED <<view, saved>>

\* process_switch calls execute("shell") on the interrupted stack and does not
\* come back: the new base shell runs, the interrupted context stays saved.
\* Interrupts are off until the shell is about to enter user mode.
SpawnShell ==
    /\ NeedShell
    /\ IsBase
    /\ \E p \in Pids :
          /\ FirstFree(p)
          /\ process_id_arr' = process_id_arr \cup {p}
          /\ parent_pid' = [parent_pid EXCEPT ![p] = EMPTY]
          /\ terminal_id' = [terminal_id EXCEPT ![p] = terminal_using]
          /\ terminal_pid' = [terminal_pid EXCEPT ![terminal_using] = p]
          /\ image' = [image EXCEPT ![p] = p]
          /\ page' = p
          /\ cur' = p
          /\ child' = [child EXCEPT ![p] = EMPTY]
          /\ saved' = [saved EXCEPT ![cur] = pc, ![p] = "none"]
    /\ num_proc' = [num_proc EXCEPT ![terminal_using] = @ + 1]
    /\ curr_exe_terminal' = terminal_using
    /\ pc' = "user"
    /\ UNCHANGED view

\* a, b, c in this order going round the terminals from a
Between(a, b, c) == IF a < c THEN a < b /\ b < c ELSE a < b \/ b < c

\* (slip: the scan starts from terminal 0 every time)
NextTerminalFirst(t, n) ==
    /\ terminal_pid[n] # EMPTY
    /\ \A m \in Terminals : m < n => terminal_pid[m] = EMPTY

\* the first terminal after t, going round, that has a process
NextTerminal(t, n) ==
    /\ terminal_pid[n] # EMPTY
    /\ \A m \in Terminals : Between(t, m, n) => terminal_pid[m] = EMPTY

\* The round robin starts from the displayed terminal when its shell could not
\* be started, since curr_exe_terminal was set before execute failed.
ScanFrom == IF NeedShell THEN terminal_using ELSE curr_exe_terminal

\* save the context, pick the next terminal, map and resume its process
RoundRobin ==
    /\ NeedShell => Free = {}
    /\ \E n \in Terminals :
          LET next == terminal_pid[n]
              ctx  == [saved EXCEPT ![cur] = pc]
          IN  /\ NextTerminal(ScanFrom, n)
              /\ curr_exe_terminal' = n
              /\ cur' = next
              /\ page' = next
              /\ pc' = ctx[next]
              /\ saved' = [ctx EXCEPT ![next] = "none"]
    /\ UNCHANGED <<tree, view, child, image>>

\* the PIT interrupt; nothing is scheduled while terminal 0 has no process
Tick ==
    /\ Interruptible
    /\ terminal_pid[0] # EMPTY
    /\ SpawnShell \/ RoundRobin

-----------------------------------------------------------------------------

Execute == ExecAlloc \/ ExecNoPid \/ ExecRegister \/ ExecRefuse \/ ExecEnter

Halt == HaltStart \/ HaltBase \/ HaltReturn

Next ==
    \/ Execute
    \/ Halt
    \/ Tick
    \/ \E t \in Terminals : TerminalSwitch(t)

Spec == Init /\ [][Next]_vars

\* A system call under way goes on; the PIT keeps interrupting, and a tick
\* raised while a call runs stays pending in the PIC until the call is done.
FairSpec ==
    /\ Spec
    /\ WF_vars(pc # "user" /\ (Execute \/ Halt))
    /\ SF_vars(Tick)
=============================================================================
