---------------------------- MODULE ProcessProps ----------------------------
(***************************************************************************)
(* What the process table, the terminals and the scheduler promise.        *)
(***************************************************************************)
EXTENDS Process

Maybe(S) == S \cup {EMPTY}

\* Every variable is in the range its C type and its uses give it.
Shapes ==
    /\ process_id_arr \subseteq Pids
    /\ parent_pid \in [Pids -> Maybe(Pids)]
    /\ terminal_id \in [Pids -> Terminals]
    /\ num_proc \in [Terminals -> Int]
    /\ terminal_pid \in [Terminals -> Maybe(Pids)]
    /\ terminal_using \in Terminals
    /\ terminal_active \subseteq Terminals
    /\ curr_exe_terminal \in Terminals
    /\ cur \in Pids
    /\ pc \in Contexts
    /\ child \in [Pids -> Maybe(Pids)]
    /\ saved \in [Pids -> Contexts]
    /\ page \in Pids
    /\ image \in [Pids -> Maybe(Pids)]

\* The stack in use has no saved context; execute under way has its pid.
Frames ==
    /\ saved[cur] = "none"
    /\ pc \in {"load", "enter"} => child[cur] \in Pids
    /\ \A p \in Pids : saved[p] \in {"load", "enter"} => child[p] \in Pids

\* The types of the variables, and a context for every kernel stack that is not
\* in use: what process_switch and execute leave behind is well formed.
TypeOK == Shapes /\ Frames

\* the process that execute has not registered yet, or halt has already
\* taken off its terminal
InTransit == IF pc = "load" THEN {child[cur]}
             ELSE IF pc = "unwind" THEN {cur} ELSE {}

Live == process_id_arr \ InTransit

Children(p) == {q \in Live : parent_pid[q] = p}
ProcsOf(t)  == {p \in Live : terminal_id[p] = t}

\* The foreground process of a terminal is a live process of that terminal
\* that waits for no child.
ForegroundIsLeaf ==
    \A t \in Terminals : terminal_pid[t] # EMPTY =>
        /\ terminal_pid[t] \in ProcsOf(t)
        /\ Children(terminal_pid[t]) = {}

\* A live process other than a base shell has a live parent, another process of
\* the same terminal, which waits in the execute call that made it.
ParentsWait ==
    \A p \in Live : parent_pid[p] # EMPTY =>
        /\ parent_pid[p] \in ProcsOf(terminal_id[p]) \ {p}
        /\ child[parent_pid[p]] = p

\* A process waits for one child at most, and a terminal has one base shell
\* at most.
NoFork ==
    \A p, q \in Live :
        /\ parent_pid[p] = parent_pid[q]
        /\ parent_pid[p] = EMPTY => terminal_id[p] = terminal_id[q]
        => p = q

\* A terminal with a live process has a foreground process.
NoneStranded ==
    \A p \in Live : terminal_pid[terminal_id[p]] # EMPTY

ProcessTree == ForegroundIsLeaf /\ ParentsWait /\ NoFork /\ NoneStranded

\* the processes on the way from the foreground process of t to its base shell
Chain(t) ==
    LET up[n \in Nat] ==
            IF n = 0 THEN terminal_pid[t]
            ELSE LET p == up[n - 1] IN IF p = EMPTY THEN EMPTY ELSE parent_pid[p]
    IN  {up[n] : n \in 0 .. MaxProcess - 1} \ {EMPTY}

\* num_proc counts the live processes of a terminal and stays within the limit.
Counts ==
    \A t \in Terminals :
        /\ num_proc[t] = Cardinality(ProcsOf(t))
        /\ num_proc[t] <= MaxTerminalProcess

\* No pid leaks: each one in use is reached from the foreground process of its
\* terminal by following parents, and num_proc counts exactly those, never more
\* than the limit.  execute and halt keep the three records of it apart.
NoLeak == Counts /\ \A t \in Terminals : Chain(t) = ProcsOf(t)

\* The processor never jumps to a kernel stack that does not hold the frame it
\* wants: process_switch resumes only contexts it saved and has not resumed
\* since, and halt returns only into the execute call that waits.
NoStaleStack == pc # "none"

\* "if this the first program in the terminal, then no parent" (syscall.c): the
\* only process of a terminal is a base shell.  Implied by ProcessTree and
\* NoLeak, and broken when a base shell exits behind another terminal's screen.
FirstHasNoParent ==
    \A t \in Terminals : num_proc[t] = 1 /\ terminal_pid[t] # EMPTY
        => parent_pid[terminal_pid[t]] = EMPTY

\* The program that runs in user mode is the foreground process of the terminal
\* being scheduled and sees its own 4 MB page.
RunsInItsPage ==
    pc = "user" =>
        /\ page = cur
        /\ terminal_id[cur] = curr_exe_terminal
        /\ terminal_pid[curr_exe_terminal] = cur

\* Loading a program never overwrites that of another process.
ImagesIntact == \A p \in Live : image[p] = p

\* the terminals that have no shell yet, or no longer
NoShell == {t \in Terminals : ProcsOf(t) = {}}

\* A pid is kept for every terminal that has no shell yet, whatever the others
\* start (the test against active_termminal_cnt in execute).
PidKeptForShell == Cardinality(NoShell) <= Cardinality(Pids \ Live)

\* halt ends the youngest process of a terminal only: a process whose child has
\* not halted keeps its pid, its page and its terminal.
ParentOutlivesChild ==
    [][\A p \in Live : Children(p) # {} =>
           /\ p \in process_id_arr'
           /\ terminal_id'[p] = terminal_id[p]
           /\ image'[p] = image[p]]_vars

\* A timer tick is invisible to every process: the one it resumes goes on where
\* it was interrupted, and no process starts or ends but the shell of a newly
\* displayed terminal.
TickIsTransparent ==
    [][Tick => /\ pc' = "user"
               /\ terminal_pid' # terminal_pid =>
                      /\ terminal_pid[terminal_using] = EMPTY
                      /\ parent_pid'[cur'] = EMPTY
               /\ \A p \in Live : p # cur' /\ Children(p) = {} => saved'[p] = "user"]_vars

-----------------------------------------------------------------------------
(* The inductive invariant behind the safety properties, for Windows = {}. *)

\* Following parents never goes round: no set of live processes contains the
\* parent of each of its members.
Acyclic ==
    \A S \in SUBSET Live : (\A p \in S : parent_pid[p] \in S) => S = {}

\* the caller of execute: the foreground process of the scheduled terminal, or,
\* at boot and when a base shell restarts, nobody
CallerIsForeground ==
    /\ cur \in ProcsOf(curr_exe_terminal)
    /\ terminal_pid[curr_exe_terminal] = cur
CallerIsGone ==
    /\ cur \notin Live
    /\ curr_exe_terminal = terminal_using
    /\ terminal_pid[curr_exe_terminal] = EMPTY

\* what holds at each point of the kernel
AtPoint ==
    /\ pc # "none"
    /\ pc = "user" => CallerIsForeground /\ page = cur
    /\ pc = "exec" => CallerIsGone
    /\ pc = "load" =>
           /\ child[cur] \in process_id_arr
           /\ page = child[cur]
           /\ \/ CallerIsForeground /\ num_proc[terminal_using] # 0
              \/ CallerIsGone
    /\ pc = "enter" =>
           /\ child[cur] \in ProcsOf(curr_exe_terminal)
           /\ terminal_pid[curr_exe_terminal] = child[cur]
           /\ page = child[cur]
    /\ pc = "unwind" =>
           /\ cur \in process_id_arr
           /\ terminal_id[cur] = curr_exe_terminal
           /\ terminal_pid[curr_exe_terminal] = parent_pid[cur]
           /\ Children(cur) = {}
           /\ IF parent_pid[cur] = EMPTY THEN curr_exe_terminal = terminal_using
              ELSE child[parent_pid[cur]] = cur

\* the process that runs on the scheduled terminal, or is about to
Now == CASE pc = "enter"  -> child[cur]
         [] pc = "unwind" -> parent_pid[cur]
         [] OTHER         -> cur

\* every other terminal's foreground process was interrupted in user mode and
\* can be resumed
OthersResumable ==
    \A t \in Terminals :
        terminal_pid[t] \notin {EMPTY, Now} => saved[terminal_pid[t]] = "user"

TreeInv == ProcessTree /\ Acyclic /\ Counts /\ ImagesIntact

IInv ==
    /\ TypeOK
    /\ TreeInv
    /\ AtPoint
    /\ OthersResumable

\* A terminal that was displayed before has its shell: execute counts it as
\* active and keeps no pid for it any more.
ShownHaveShells == \A t \in NoShell : t \in terminal_active => t = terminal_using

-----------------------------------------------------------------------------
(* Liveness *)

\* A displayed terminal gets its shell, unless the user looks at another
\* terminal first.
ShellAppears ==
    \A t \in Terminals :
        terminal_using = t /\ terminal_pid[t] = EMPTY
            ~> terminal_pid[t] # EMPTY \/ terminal_using # t

\* Round robin: a terminal that has a process runs again and again.
EveryTerminalRuns ==
    \A t \in Terminals : []<>(curr_exe_terminal = t \/ terminal_pid[t] = EMPTY)
=============================================================================
