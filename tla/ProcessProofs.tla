--------------------------- MODULE ProcessProofs ---------------------------
(***************************************************************************)
(* Proofs about Process.  TypeOK holds for every choice of the constants,  *)
(* with interrupts anywhere; the process tree, the scheduler's contexts    *)
(* and the page mapping are proved for system calls that run to completion *)
(* (Windows = {}) under the timing assumption (AnyTime = FALSE).           *)
(***************************************************************************)
EXTENDS ProcessProps, Induction

USE DEF Points, Contexts, Maybe

-----------------------------------------------------------------------------
(* Types *)

\* The initial state is well typed.
LEMMA InitType == Init => TypeOK
<1>1. 0 \in Pids /\ 0 \in Terminals
    BY ProcessAssumption DEF Pids, Terminals
<1> QED
    BY <1>1, SMT DEF Init, TypeOK, Shapes, Frames

\* The steps of execute keep the types.
LEMMA ExecuteType == TypeOK /\ Execute => TypeOK'
<1> SUFFICES ASSUME TypeOK, Execute PROVE TypeOK'
    OBVIOUS
<1> USE DEF TypeOK, Shapes, tree, view
<1>1. CASE ExecAlloc
    <2>1. Shapes'
        BY <1>1 DEF ExecAlloc, FirstFree, Free
    <2>2. Frames'
        BY <1>1, SMT DEF ExecAlloc, FirstFree, Free, Frames
    <2> QED
        BY <2>1, <2>2
<1>2. CASE ExecNoPid
    <2>1. Shapes'
        BY <1>2 DEF ExecNoPid
    <2>2. Frames'
        BY <1>2, SMT DEF ExecNoPid, Frames
    <2> QED
        BY <2>1, <2>2
<1>h. HomeTerminal \in Terminals
    BY DEF HomeTerminal
<1>3. CASE ExecRegister
    <2>1. Shapes'
        <3>1. num_proc[HomeTerminal] + 1 \in Int
            BY <1>h
        <3>2. (IF IsBase THEN EMPTY ELSE cur) \in Maybe(Pids)
            OBVIOUS
        <3> QED
            BY <1>3, <1>h, <3>1, <3>2 DEF ExecRegister
    <2>2. Frames'
        BY <1>3, SMT DEF ExecRegister, Frames
    <2> QED
        BY <2>1, <2>2
<1>4. CASE ExecRefuse
    <2>1. Shapes'
        BY <1>4, <1>h DEF ExecRefuse
    <2>2. Frames'
        BY <1>4, SMT DEF ExecRefuse, Frames
    <2> QED
        BY <2>1, <2>2
<1>5. CASE ExecEnter
    <2>1. Shapes'
        BY <1>5 DEF ExecEnter, Frames
    <2>2. Frames'
        BY <1>5, SMT DEF ExecEnter, Frames
    <2> QED
        BY <2>1, <2>2
<1> QED
    BY <1>1, <1>2, <1>3, <1>4, <1>5 DEF Execute

\* The steps of halt keep the types.
LEMMA HaltType == TypeOK /\ Halt => TypeOK'
<1> SUFFICES ASSUME TypeOK, Halt PROVE TypeOK'
    OBVIOUS
<1> USE DEF TypeOK, Shapes, tree, view
<1>1. CASE HaltStart
    <2>1. Shapes'
        BY <1>1 DEF HaltStart
    <2>2. Frames'
        BY <1>1, SMT DEF HaltStart, Frames
    <2> QED
        BY <2>1, <2>2
<1>2. CASE HaltBase
    <2>1. Shapes'
        BY <1>2 DEF HaltBase
    <2>2. Frames'
        BY <1>2, SMT DEF HaltBase, Frames
    <2> QED
        BY <2>1, <2>2
<1>3. CASE HaltReturn
    <2>1. Shapes'
        BY <1>3 DEF HaltReturn
    <2>2. Frames'
        BY <1>3, SMT DEF HaltReturn, Frames
    <2> QED
        BY <2>1, <2>2
<1> QED
    BY <1>1, <1>2, <1>3 DEF Halt

\* The timer interrupt keeps the types.
LEMMA TickType == TypeOK /\ Tick => TypeOK'
<1> SUFFICES ASSUME TypeOK, Tick PROVE TypeOK'
    OBVIOUS
<1> USE DEF TypeOK, Shapes, tree, view
<1>1. CASE SpawnShell
    <2>1. PICK p \in Pids :
            /\ process_id_arr' = process_id_arr \cup {p}
            /\ parent_pid' = [parent_pid EXCEPT ![p] = EMPTY]
            /\ terminal_id' = [terminal_id EXCEPT ![p] = terminal_using]
            /\ terminal_pid' = [terminal_pid EXCEPT ![terminal_using] = p]
            /\ image' = [image EXCEPT ![p] = p]
            /\ page' = p
            /\ cur' = p
            /\ child' = [child EXCEPT ![p] = EMPTY]
            /\ saved' = [saved EXCEPT ![cur] = pc, ![p] = "none"]
        BY <1>1 DEF SpawnShell
    <2>2. /\ saved' \in [Pids -> Contexts]
          /\ saved'[p] = "none"
          /\ \A q \in Pids \ {p} : saved'[q] = IF q = cur THEN pc ELSE saved[q]
        BY <2>1
    <2>3. \A q \in Pids : saved'[q] \in {"load", "enter"} => child'[q] \in Pids
        BY <2>1, <2>2 DEF Frames
    <2>4. Shapes'
        BY <1>1, <2>1, <2>2 DEF SpawnShell
    <2>5. Frames'
        BY <1>1, <2>1, <2>2, <2>3 DEF SpawnShell, Frames
    <2> QED
        BY <2>4, <2>5
<1>2. CASE RoundRobin
    <2>1. PICK n \in Terminals :
            /\ terminal_pid[n] # EMPTY
            /\ curr_exe_terminal' = n
            /\ cur' = terminal_pid[n]
            /\ page' = terminal_pid[n]
            /\ pc' = [saved EXCEPT ![cur] = pc][terminal_pid[n]]
            /\ saved' = [[saved EXCEPT ![cur] = pc] EXCEPT ![terminal_pid[n]] = "none"]
        BY <1>2 DEF RoundRobin, NextTerminal
    <2>2. DEFINE next == terminal_pid[n]
    <2>3. next \in Pids
        BY <2>1
    <2>4. /\ pc' = IF next = cur THEN pc ELSE saved[next]
          /\ saved' \in [Pids -> Contexts]
          /\ saved'[next] = "none"
          /\ \A q \in Pids \ {next} : saved'[q] = IF q = cur THEN pc ELSE saved[q]
        BY <2>1, <2>3
    <2>5. \A q \in Pids : saved'[q] \in {"load", "enter"} => child[q] \in Pids
        BY <2>4 DEF Frames
    <2>6. Shapes'
        BY <1>2, <2>1, <2>3, <2>4 DEF RoundRobin, Frames
    <2>7. Frames'
        BY <1>2, <2>1, <2>3, <2>4, <2>5 DEF RoundRobin, Frames
    <2> QED
        BY <2>6, <2>7
<1> QED
    BY <1>1, <1>2 DEF Tick

\* Every step keeps the types.
LEMMA NextType == TypeOK /\ [Next]_vars => TypeOK'
<1> SUFFICES ASSUME TypeOK, [Next]_vars PROVE TypeOK'
    OBVIOUS
<1>1. CASE Execute
    BY <1>1, ExecuteType
<1>2. CASE Halt
    BY <1>2, HaltType
<1>3. CASE Tick
    BY <1>3, TickType
<1>4. CASE \E t \in Terminals : TerminalSwitch(t)
    BY <1>4 DEF TypeOK, Shapes, Frames, TerminalSwitch, tree, stack
<1>5. CASE UNCHANGED vars
    BY <1>5 DEF TypeOK, Shapes, Frames, vars, tree, view, stack
<1> QED
    BY <1>1, <1>2, <1>3, <1>4, <1>5 DEF Next

\* TypeOK, for every value of the constants and wherever interrupts are taken.
THEOREM TypeCorrect == Spec => []TypeOK
    BY InitType, NextType, PTL DEF Spec

-----------------------------------------------------------------------------
(* The process tree *)

\* PID_EMPTY is no pid.
LEMMA EmptyIsNoPid == EMPTY \notin Pids
    BY DEF EMPTY, Pids

\* There are finitely many live processes, on any terminal.
LEMMA ProcsFinite ==
    ASSUME Shapes, NEW t
    PROVE  IsFiniteSet(ProcsOf(t)) /\ Cardinality(ProcsOf(t)) \in Nat
<1>1. IsFiniteSet(Pids)
    BY FS_Interval, ProcessAssumption DEF Pids
<1>2. ProcsOf(t) \subseteq Pids
    BY DEF Shapes, ProcsOf, Live
<1> QED
    BY <1>1, <1>2, FS_Subset, FS_CardinalityType

\* A step that leaves the live processes, their records and their images alone
\* keeps the tree.
LEMMA SameTree ==
    ASSUME TreeInv,
           Live' = Live,
           terminal_pid' = terminal_pid,
           num_proc' = num_proc,
           \A q \in Live :
               /\ parent_pid'[q] = parent_pid[q]
               /\ terminal_id'[q] = terminal_id[q]
               /\ image'[q] = image[q]
               /\ parent_pid[q] # EMPTY => child'[parent_pid[q]] = child[parent_pid[q]]
    PROVE  TreeInv'
<1>1. \A t : ProcsOf(t)' = ProcsOf(t)
    BY DEF ProcsOf
<1>2. \A p : Children(p)' = Children(p)
    BY DEF Children
<1>3. ForegroundIsLeaf'
    BY <1>1, <1>2 DEF TreeInv, ProcessTree, ForegroundIsLeaf
<1>4. ParentsWait'
    BY <1>1 DEF TreeInv, ProcessTree, ParentsWait
<1>5. NoFork'
    BY DEF TreeInv, ProcessTree, NoFork
<1>6. NoneStranded'
    BY DEF TreeInv, ProcessTree, NoneStranded
<1>7. Acyclic'
    BY DEF TreeInv, Acyclic
<1>8. Counts'
    BY <1>1 DEF TreeInv, Counts
<1>9. ImagesIntact'
    BY DEF TreeInv, ImagesIntact
<1> QED
    BY <1>3, <1>4, <1>5, <1>6, <1>7, <1>8, <1>9 DEF TreeInv, ProcessTree

\* A new process p becomes the foreground of terminal t: a base shell if t had
\* none, else a child of the process that was.
LEMMA AddLeaf ==
    ASSUME TypeOK, TypeOK', TreeInv,
           NEW p \in Pids, NEW t \in Terminals, NEW par,
           p \notin Live,
           Live' = Live \cup {p},
           par = terminal_pid[t],
           parent_pid'[p] = par,
           terminal_id'[p] = t,
           image'[p] = p,
           terminal_pid' = [terminal_pid EXCEPT ![t] = p],
           num_proc' = [num_proc EXCEPT ![t] = @ + 1],
           num_proc[t] < MaxTerminalProcess,
           par # EMPTY => child'[par] = p,
           \A q \in Live :
               /\ parent_pid'[q] = parent_pid[q]
               /\ terminal_id'[q] = terminal_id[q]
               /\ image'[q] = image[q]
               /\ parent_pid[q] # EMPTY => child'[parent_pid[q]] = child[parent_pid[q]]
    PROVE  TreeInv'
<1> USE DEF TypeOK, Shapes
<1>1. ProcsOf(t)' = ProcsOf(t) \cup {p}
    BY DEF ProcsOf
<1>2. \A u \in Terminals \ {t} : ProcsOf(u)' = ProcsOf(u)
    BY DEF ProcsOf
<1>3. p # EMPTY /\ \A q \in Live : q # EMPTY
    BY EmptyIsNoPid DEF Live
<1>4. par # EMPTY => par \in Live /\ terminal_id[par] = t /\ \A q \in Live : parent_pid[q] # par
    BY DEF TreeInv, ProcessTree, ForegroundIsLeaf, ProcsOf, Children
<1>5. \A q \in Live : parent_pid[q] # p
    BY <1>3 DEF TreeInv, ProcessTree, ParentsWait, ProcsOf
<1>6. par = EMPTY => \A q \in Live : terminal_id[q] # t
  <2> SUFFICES ASSUME par = EMPTY, NEW q \in Live, terminal_id[q] = t PROVE FALSE
      OBVIOUS
  <2>1. terminal_pid[terminal_id[q]] # EMPTY
      BY DEF TreeInv, ProcessTree, NoneStranded
  <2> QED
      BY <2>1
<1>7. \A u \in Terminals \ {t} : terminal_pid[u] # EMPTY =>
          terminal_pid[u] \in Live /\ terminal_id[terminal_pid[u]] = u
    BY DEF TreeInv, ProcessTree, ForegroundIsLeaf, ProcsOf
<1>8. ForegroundIsLeaf'
  <2> SUFFICES ASSUME NEW u \in Terminals, terminal_pid'[u] # EMPTY
               PROVE  /\ terminal_pid'[u] \in Live'
                      /\ terminal_id'[terminal_pid'[u]] = u
                      /\ \A q \in Live' : parent_pid'[q] # terminal_pid'[u]
      BY DEF ForegroundIsLeaf, ProcsOf, Children
  <2>1. CASE u = t
      BY <1>3, <1>4, <1>5, <2>1
  <2>2. CASE u # t
      <3>1. terminal_pid'[u] = terminal_pid[u]
          BY <2>2
      <3>2. \A q \in Live : parent_pid[q] # terminal_pid[u]
          BY <3>1 DEF TreeInv, ProcessTree, ForegroundIsLeaf, Children
      <3>3. par # terminal_pid[u]
          BY <1>4, <1>7, <2>2, <3>1
      <3> QED
          BY <1>7, <2>2, <3>1, <3>2, <3>3
  <2> QED
      BY <2>1, <2>2
<1>9. ParentsWait'
  <2> SUFFICES ASSUME NEW q \in Live', parent_pid'[q] # EMPTY
               PROVE  /\ parent_pid'[q] \in Live'
                      /\ terminal_id'[parent_pid'[q]] = terminal_id'[q]
                      /\ parent_pid'[q] # q
                      /\ child'[parent_pid'[q]] = q
      BY DEF ParentsWait, ProcsOf
  <2>1. CASE q = p
      BY <1>4, <2>1
  <2>2. CASE q # p
      BY <2>2 DEF TreeInv, ProcessTree, ParentsWait, ProcsOf
  <2> QED
      BY <2>1, <2>2
<1>10. NoFork'
  <2>1. \A q \in Live : parent_pid[q] = par =>
            par = EMPTY /\ terminal_id[q] # t
      BY <1>4, <1>6
  <2> QED
      BY <2>1 DEF TreeInv, ProcessTree, NoFork
<1>11. NoneStranded'
  <2>1. \A q \in Live : terminal_id[q] \in Terminals
      BY DEF Live
  <2> QED
      BY <1>3, <2>1 DEF TreeInv, ProcessTree, NoneStranded
<1>12. Acyclic'
  <2> SUFFICES ASSUME NEW S \in SUBSET Live', \A q \in S : parent_pid'[q] \in S
               PROVE  S = {}
      BY DEF Acyclic
  <2>1. \A q \in S \ {p} : parent_pid[q] \in S \ {p}
      BY <1>5
  <2>2. S \ {p} = {}
      BY <2>1 DEF TreeInv, Acyclic
  <2>3. p \notin S
      BY <1>3, <1>4, <2>2
  <2> QED
      BY <2>2, <2>3
<1>13. Counts'
  <2>1. Cardinality(ProcsOf(t)') = Cardinality(ProcsOf(t)) + 1
      <3>1. p \notin ProcsOf(t)
          BY DEF ProcsOf
      <3>2. IsFiniteSet(ProcsOf(t))
          BY ProcsFinite
      <3>3. Cardinality(ProcsOf(t) \cup {p}) = Cardinality(ProcsOf(t)) + 1
          BY <3>1, <3>2, FS_AddElement
      <3> QED
          BY <1>1, <3>3
  <2>2. num_proc'[t] = num_proc[t] + 1 /\ num_proc[t] \in Int
      OBVIOUS
  <2>3. num_proc'[t] = Cardinality(ProcsOf(t)') /\ num_proc'[t] <= MaxTerminalProcess
      BY <2>1, <2>2, ProcessAssumption DEF TreeInv, Counts
  <2>4. \A u \in Terminals \ {t} : num_proc'[u] = num_proc[u]
      OBVIOUS
  <2> QED
      BY <1>2, <2>3, <2>4 DEF TreeInv, Counts
<1>14. ImagesIntact'
  BY DEF TreeInv, ImagesIntact
<1> QED
  BY <1>8, <1>9, <1>10, <1>11, <1>12, <1>13, <1>14 DEF TreeInv, ProcessTree

\* The foreground process p of terminal t leaves it to its parent.
LEMMA RemoveLeaf ==
    ASSUME TypeOK, TypeOK', TreeInv,
           NEW p \in Live, NEW t \in Terminals,
           terminal_id[p] = t,
           terminal_pid[t] = p,
           Live' = Live \ {p},
           terminal_pid' = [terminal_pid EXCEPT ![t] = parent_pid[p]],
           num_proc' = [num_proc EXCEPT ![t] = @ - 1],
           parent_pid' = parent_pid,
           terminal_id' = terminal_id,
           image' = image,
           child' = child
    PROVE  TreeInv'
<1> USE DEF TypeOK, Shapes
<1>1. ProcsOf(t)' = ProcsOf(t) \ {p}
    BY DEF ProcsOf
<1>2. \A u \in Terminals \ {t} : ProcsOf(u)' = ProcsOf(u)
    BY DEF ProcsOf
<1>3. \A q \in Live : q # EMPTY
    BY EmptyIsNoPid DEF Live
<1>4. \A q \in Live : parent_pid[q] # p
    BY <1>3 DEF TreeInv, ProcessTree, ForegroundIsLeaf, Children
<1>5. parent_pid[p] # EMPTY => /\ parent_pid[p] \in Live \ {p}
                               /\ terminal_id[parent_pid[p]] = t
    BY DEF TreeInv, ProcessTree, ParentsWait, ProcsOf
<1>6. \A q \in Live \ {p} : parent_pid[q] = parent_pid[p] =>
          parent_pid[p] = EMPTY /\ terminal_id[q] # t
    BY DEF TreeInv, ProcessTree, NoFork
<1>7. ForegroundIsLeaf'
  <2> SUFFICES ASSUME NEW u \in Terminals, terminal_pid'[u] # EMPTY
               PROVE  /\ terminal_pid'[u] \in Live'
                      /\ terminal_id'[terminal_pid'[u]] = u
                      /\ \A q \in Live' : parent_pid'[q] # terminal_pid'[u]
      BY DEF ForegroundIsLeaf, ProcsOf, Children
  <2>1. CASE u = t
      BY <1>5, <1>6, <2>1
  <2>2. CASE u # t
      <3>1. terminal_pid'[u] = terminal_pid[u]
          BY <2>2
      <3>2. /\ terminal_pid[u] \in Live
            /\ terminal_id[terminal_pid[u]] = u
            /\ \A q \in Live : parent_pid[q] # terminal_pid[u]
          BY <3>1 DEF TreeInv, ProcessTree, ForegroundIsLeaf, ProcsOf, Children
      <3> QED
          BY <2>2, <3>1, <3>2
  <2> QED
      BY <2>1, <2>2
<1>8. ParentsWait'
  <2> SUFFICES ASSUME NEW q \in Live', parent_pid'[q] # EMPTY
               PROVE  /\ parent_pid'[q] \in Live'
                      /\ terminal_id'[parent_pid'[q]] = terminal_id'[q]
                      /\ parent_pid'[q] # q
                      /\ child'[parent_pid'[q]] = q
      BY DEF ParentsWait, ProcsOf
  <2> QED
      BY <1>4 DEF TreeInv, ProcessTree, ParentsWait, ProcsOf
<1>9. NoFork'
  BY DEF TreeInv, ProcessTree, NoFork
<1>10. NoneStranded'
  <2> SUFFICES ASSUME NEW q \in Live \ {p}, terminal_id[q] = t, parent_pid[p] = EMPTY
               PROVE  FALSE
      <3>1. \A q \in Live : terminal_id[q] \in Terminals
          BY DEF Live
      <3> QED
          BY <3>1 DEF TreeInv, ProcessTree, NoneStranded
  <2> DEFINE S == ProcsOf(t) \ {p}
  <2>1. \A r \in S : parent_pid[r] \in S
      BY <1>4, <1>6 DEF TreeInv, ProcessTree, ParentsWait, ProcsOf
  <2>2. S \in SUBSET Live /\ q \in S
      BY DEF ProcsOf
  <2>3. S = {}
      <3> HIDE DEF S
      <3> QED BY <2>1, <2>2 DEF TreeInv, Acyclic
  <2> QED
      BY <2>2, <2>3
<1>11. Acyclic'
  <2>1. \A S \in SUBSET Live' : S \in SUBSET Live
      OBVIOUS
  <2> QED
      BY <2>1 DEF TreeInv, Acyclic
<1>12. Counts'
  <2>1. Cardinality(ProcsOf(t)') = Cardinality(ProcsOf(t)) - 1
      <3>1. p \in ProcsOf(t)
          BY DEF ProcsOf
      <3>2. IsFiniteSet(ProcsOf(t))
          BY ProcsFinite
      <3>3. Cardinality(ProcsOf(t) \ {p}) = Cardinality(ProcsOf(t)) - 1
          BY <3>1, <3>2, FS_RemoveElement
      <3> QED
          BY <1>1, <3>3
  <2>2. num_proc'[t] = num_proc[t] - 1 /\ num_proc[t] \in Int
      OBVIOUS
  <2>3. num_proc'[t] = Cardinality(ProcsOf(t)') /\ num_proc'[t] <= MaxTerminalProcess
      BY <2>1, <2>2, ProcessAssumption DEF TreeInv, Counts
  <2>4. \A u \in Terminals \ {t} : num_proc'[u] = num_proc[u]
      OBVIOUS
  <2> QED
      BY <1>2, <2>3, <2>4 DEF TreeInv, Counts
<1>13. ImagesIntact'
  BY DEF TreeInv, ImagesIntact
<1> QED
  BY <1>7, <1>8, <1>9, <1>10, <1>11, <1>12, <1>13 DEF TreeInv, ProcessTree

-----------------------------------------------------------------------------
(* The inductive invariant *)

\* What the invariant needs of the machine: interrupts are taken in user mode
\* and, inside the kernel, at most in execute before it has taken a pid; and the
\* user is slower than a tick.
Timely == Windows \subseteq {"exec"} /\ AnyTime = FALSE

Rest == TreeInv /\ AtPoint /\ OthersResumable

\* A terminal without a foreground process has no process at all.
LEMMA NoForegroundNoProcess ==
    ASSUME TypeOK, TreeInv, NEW t \in Terminals, terminal_pid[t] = EMPTY
    PROVE  num_proc[t] = 0
<1>1. ProcsOf(t) = {}
    BY DEF TreeInv, ProcessTree, NoneStranded, ProcsOf
<1> QED
    BY <1>1, FS_EmptySet DEF TreeInv, Counts

\* The foreground process of a terminal is live, belongs to it and has no child.
LEMMA Foreground ==
    ASSUME TreeInv, NEW t \in Terminals, terminal_pid[t] # EMPTY
    PROVE  /\ terminal_pid[t] \in Live
           /\ terminal_id[terminal_pid[t]] = t
           /\ \A q \in Live : parent_pid[q] # terminal_pid[t]
    BY DEF TreeInv, ProcessTree, ForegroundIsLeaf, ProcsOf, Children

\* Every live process is a pid, and so is the parent of one that has a parent.
LEMMA LiveParent ==
    ASSUME TypeOK, TreeInv, NEW q \in Live
    PROVE  /\ q \in Pids /\ q # EMPTY
           /\ parent_pid[q] # EMPTY => parent_pid[q] \in Live
<1>1. q \in Pids
    BY DEF Live, TypeOK, Shapes
<1> QED
    BY <1>1, EmptyIsNoPid DEF TreeInv, ProcessTree, ParentsWait, ProcsOf

\* Booting starts without processes.
LEMMA InitInv == Init => IInv
<1> SUFFICES ASSUME Init PROVE IInv
    OBVIOUS
<1> USE DEF Init
<1>1. TypeOK
    BY InitType
<1>2. Live = {} /\ \A t : ProcsOf(t) = {}
    BY DEF Live, ProcsOf
<1>3. Counts
    <2>1. \A t \in Terminals : num_proc[t] = 0
        OBVIOUS
    <2> QED
        BY <1>2, <2>1, FS_EmptySet, ProcessAssumption DEF Counts
<1>4. TreeInv
    BY <1>2, <1>3 DEF TreeInv, ProcessTree, ForegroundIsLeaf, ParentsWait, NoFork,
                      NoneStranded, Acyclic, ImagesIntact
<1>5. AtPoint
    BY <1>1, <1>2, SMT DEF AtPoint, CallerIsGone, TypeOK, Shapes
<1>6. OthersResumable
    BY DEF OthersResumable
<1> QED
    BY <1>1, <1>4, <1>5, <1>6 DEF IInv

\* execute takes a pid: nothing live changes.
LEMMA ExecAllocInv ==
    ASSUME Timely, IInv, TypeOK', ExecAlloc
    PROVE  Rest'
<1> USE DEF IInv, ExecAlloc, view
<1>1. PICK p \in Pids :
        /\ FirstFree(p)
        /\ process_id_arr' = process_id_arr \cup {p}
        /\ child' = [child EXCEPT ![cur] = p]
        /\ page' = p
    OBVIOUS
<1>2. cur \in Pids /\ child \in [Pids -> Maybe(Pids)] /\ child'[cur] = p
    BY <1>1 DEF TypeOK, Shapes
<1>3. p \notin process_id_arr /\ Live = process_id_arr /\ Live' = Live
    BY <1>1, <1>2 DEF Live, InTransit, FirstFree, Free
<1>4. \A q \in Live : parent_pid[q] # cur
    <2>1. CASE pc = "user"
        BY <2>1, Foreground, <1>2, EmptyIsNoPid
           DEF AtPoint, CallerIsForeground, TypeOK, Shapes
    <2>2. CASE pc = "exec"
        BY <2>2, LiveParent, EmptyIsNoPid, <1>2 DEF AtPoint, CallerIsGone
    <2> QED
        BY <2>1, <2>2
<1>5. TreeInv'
    <2>1. \A q \in Live : parent_pid[q] # EMPTY =>
              child'[parent_pid[q]] = child[parent_pid[q]]
        BY <1>1, <1>2, <1>4, LiveParent
    <2> QED
        BY <1>3, <2>1, SameTree
<1>6. AtPoint'
    <2>1. child'[cur'] \in process_id_arr' /\ page' = child'[cur']
        BY <1>1, <1>2
    <2>2. \/ CallerIsForeground' /\ num_proc'[terminal_using'] # 0
          \/ CallerIsGone'
        BY <1>3 DEF AtPoint, Timely, ShellIsUp, CallerIsForeground, CallerIsGone, ProcsOf
    <2> QED
        BY <2>1, <2>2 DEF AtPoint
<1>7. OthersResumable'
    BY DEF OthersResumable, Now
<1> QED
    BY <1>5, <1>6, <1>7 DEF Rest

\* execute fails for want of a pid: from user mode only, and nothing changes.
LEMMA ExecNoPidInv ==
    ASSUME IInv, ExecNoPid
    PROVE  Rest'
<1> USE DEF IInv, ExecNoPid, tree, view
<1>1. pc = "user"
    <2> SUFFICES ASSUME pc = "exec" PROVE FALSE
        OBVIOUS
    <2>1. cur \in Pids /\ cur \notin process_id_arr
        BY DEF TypeOK, Shapes, AtPoint, CallerIsGone, Live, InTransit
    <2> QED
        BY <2>1 DEF Free
<1>2. Live' = Live
    BY <1>1 DEF Live, InTransit
<1>3. TreeInv'
    BY <1>2, SameTree
<1>4. AtPoint'
    BY <1>1, <1>2 DEF AtPoint, CallerIsForeground, ProcsOf
<1>5. OthersResumable'
    BY <1>1 DEF OthersResumable, Now
<1> QED
    BY <1>3, <1>4, <1>5 DEF Rest

\* The new process becomes the foreground of its terminal.
LEMMA ExecRegisterInv ==
    ASSUME IInv, TypeOK', ExecRegister
    PROVE  Rest'
<1> USE DEF IInv, ExecRegister, view
<1> DEFINE p == child[cur]
           t == HomeTerminal
<1>1. p \in Pids /\ p \in process_id_arr /\ page = p
    BY DEF TypeOK, Frames, AtPoint
<1>2. p \notin Live /\ Live' = Live \cup {p}
    BY <1>1 DEF Live, InTransit
<1>3. /\ t \in Terminals /\ t = curr_exe_terminal
      /\ (IF IsBase THEN EMPTY ELSE cur) = terminal_pid[t]
      /\ num_proc[t] < MaxTerminalProcess
      /\ terminal_pid[t] \in {EMPTY, cur}
      /\ \A u \in Terminals \ {t} : terminal_pid[u] # EMPTY => terminal_pid[u] # cur
    <2>1. CASE CallerIsForeground /\ num_proc[terminal_using] # 0
        <3>1. ~IsBase /\ t = terminal_id[cur] /\ terminal_id[cur] = curr_exe_terminal
            BY <2>1 DEF IsBase, HomeTerminal, CallerIsForeground, ProcsOf
        <3>2. num_proc[t] < MaxTerminalProcess
            BY <3>1, ProcessAssumption DEF MustRefuse, TypeOK, Shapes
        <3>3. \A u \in Terminals \ {t} : terminal_pid[u] # EMPTY => terminal_pid[u] # cur
            BY <3>1, Foreground
        <3> QED
            BY <2>1, <3>1, <3>2, <3>3 DEF CallerIsForeground, TypeOK, Shapes
    <2>2. CASE CallerIsGone
        <3>1. num_proc[terminal_using] = 0
            BY <2>2, NoForegroundNoProcess DEF CallerIsGone, TypeOK, Shapes
        <3>2. IsBase /\ t = terminal_using /\ t = curr_exe_terminal
            BY <2>2, <3>1 DEF IsBase, HomeTerminal, CallerIsGone
        <3>3. \A u \in Terminals \ {t} : terminal_pid[u] # EMPTY => terminal_pid[u] # cur
            BY <2>2, Foreground DEF CallerIsGone
        <3> QED
            BY <2>2, <3>1, <3>2, <3>3, ProcessAssumption DEF CallerIsGone, TypeOK, Shapes
    <2> QED
        BY <2>1, <2>2 DEF AtPoint
<1>4. /\ parent_pid'[p] = terminal_pid[t]
      /\ terminal_id'[p] = t
      /\ image'[p] = p
      /\ terminal_pid' = [terminal_pid EXCEPT ![t] = p]
      /\ num_proc' = [num_proc EXCEPT ![t] = @ + 1]
      /\ terminal_pid'[t] = p
    BY <1>1, <1>3 DEF TypeOK, Shapes
<1>5. \A q \in Live : q \in Pids /\ q # p
    BY <1>2, LiveParent
<1>6. \A q \in Live :
          /\ parent_pid'[q] = parent_pid[q]
          /\ terminal_id'[q] = terminal_id[q]
          /\ image'[q] = image[q]
    BY <1>1, <1>5 DEF TypeOK, Shapes
<1>7. terminal_pid[t] # EMPTY => child'[terminal_pid[t]] = p
    BY <1>3
<1> HIDE DEF p, t
<1>8. TreeInv'
    <2>1. \A q \in Live :
              /\ parent_pid'[q] = parent_pid[q]
              /\ terminal_id'[q] = terminal_id[q]
              /\ image'[q] = image[q]
              /\ parent_pid[q] # EMPTY => child'[parent_pid[q]] = child[parent_pid[q]]
        BY <1>6
    <2>2. TypeOK /\ TreeInv
        OBVIOUS
    <2> HIDE DEF IInv, ExecRegister
    <2> QED
        BY <1>1, <1>2, <1>3, <1>4, <1>7, <2>1, <2>2, AddLeaf
<1>9. AtPoint'
    <2>1. child'[cur'] = p /\ p \in ProcsOf(curr_exe_terminal)'
        BY <1>2, <1>3, <1>4 DEF ProcsOf, p
    <2> QED
        BY <1>1, <1>3, <1>4, <2>1 DEF AtPoint
<1>10. OthersResumable'
    <2>1. Now' = p /\ Now = cur
        BY DEF Now, p
    <2>2. \A u \in Terminals \ {t} : terminal_pid'[u] = terminal_pid[u]
        BY <1>4 DEF TypeOK, Shapes
    <2> QED
        BY <1>3, <1>4, <2>1, <2>2 DEF OthersResumable
<1> QED
    BY <1>8, <1>9, <1>10 DEF Rest

\* execute gives the pid back: only a pid that is not live was touched.
LEMMA ExecRefuseInv ==
    ASSUME IInv, ExecRefuse
    PROVE  Rest'
<1> USE DEF IInv, ExecRefuse, view
<1> DEFINE p == child[cur]
<1>1. p \in Pids /\ page = p /\ cur \in Pids
    BY DEF TypeOK, Shapes, Frames, AtPoint
<1>2. p \notin Live /\ Live' = Live
    BY <1>1 DEF Live, InTransit
<1>3. CallerIsForeground
    <2> SUFFICES ASSUME CallerIsGone PROVE FALSE
        BY DEF AtPoint
    <2>1. num_proc[terminal_using] = 0
        BY NoForegroundNoProcess DEF CallerIsGone, TypeOK, Shapes
    <2> QED
        BY <2>1 DEF MustRefuse, IsBase
<1>4. \A q \in Live : q \in Pids /\ q # p /\ parent_pid[q] # cur
    BY <1>1, <1>2, <1>3, LiveParent, Foreground, EmptyIsNoPid
       DEF CallerIsForeground, TypeOK, Shapes
<1>5. \A q \in Live :
          /\ parent_pid'[q] = parent_pid[q]
          /\ terminal_id'[q] = terminal_id[q]
          /\ image'[q] = image[q]
    BY <1>1, <1>4 DEF TypeOK, Shapes
<1>6. TreeInv'
    <2>1. \A q \in Live : parent_pid[q] # EMPTY =>
              child'[parent_pid[q]] = child[parent_pid[q]]
        BY <1>1, <1>4, LiveParent DEF TypeOK, Shapes
    <2> HIDE DEF p
    <2> QED
        BY <1>2, <1>5, <2>1, SameTree
<1>7. CallerIsForeground'
    BY <1>2, <1>3, <1>5 DEF CallerIsForeground, ProcsOf
<1>8. AtPoint'
    BY <1>7 DEF AtPoint
<1>9. OthersResumable'
    BY DEF OthersResumable, Now
<1> QED
    BY <1>6, <1>8, <1>9 DEF Rest

\* The new process runs on its own stack.
LEMMA ExecEnterInv ==
    ASSUME IInv, ExecEnter
    PROVE  Rest'
<1> USE DEF IInv, ExecEnter, tree, view
<1> DEFINE p == child[cur]
<1>1. p \in Pids /\ page = p /\ p \in ProcsOf(curr_exe_terminal)
      /\ terminal_pid[curr_exe_terminal] = p /\ curr_exe_terminal \in Terminals
    BY DEF TypeOK, Shapes, Frames, AtPoint
<1>2. Live' = Live
    BY DEF Live, InTransit
<1>3. \A q \in Live : parent_pid[q] # p
    BY <1>1, Foreground, EmptyIsNoPid
<1>4. TreeInv'
    <2>1. \A q \in Live : parent_pid[q] # EMPTY =>
              child'[parent_pid[q]] = child[parent_pid[q]]
        BY <1>3, LiveParent DEF TypeOK, Shapes
    <2> HIDE DEF p
    <2> QED
        BY <1>2, <2>1, SameTree
<1>5. AtPoint'
    BY <1>1, <1>2 DEF AtPoint, CallerIsForeground, ProcsOf
<1>6. OthersResumable'
    <2>1. Now = p /\ Now' = p
        BY DEF Now
    <2>2. \A q \in Pids \ {p} : saved'[q] = saved[q]
        BY DEF TypeOK, Shapes
    <2> QED
        BY <2>1, <2>2 DEF OthersResumable, TypeOK, Shapes
<1> QED
    BY <1>4, <1>5, <1>6 DEF Rest

\* halt takes the foreground process off its terminal.
LEMMA HaltStartInv ==
    ASSUME Timely, IInv, TypeOK', HaltStart
    PROVE  Rest'
<1> USE DEF IInv, HaltStart, view
<1> DEFINE t == curr_exe_terminal
<1>1. /\ cur \in Live /\ cur \in process_id_arr /\ t \in Terminals
      /\ terminal_id[cur] = t /\ terminal_pid[t] = cur /\ cur # EMPTY
      /\ \A q \in Live : parent_pid[q] # cur
    BY Foreground, EmptyIsNoPid
       DEF AtPoint, CallerIsForeground, ProcsOf, Live, TypeOK, Shapes
<1>2. Live' = Live \ {cur}
    BY <1>1 DEF Live, InTransit
<1>3. TreeInv'
    <2>1. /\ terminal_pid' = [terminal_pid EXCEPT ![t] = parent_pid[cur]]
          /\ num_proc' = [num_proc EXCEPT ![t] = @ - 1]
        BY <1>1
    <2>2. TypeOK /\ TreeInv /\ parent_pid' = parent_pid /\ terminal_id' = terminal_id
          /\ image' = image /\ child' = child
        OBVIOUS
    <2> HIDE DEF IInv, HaltStart, t
    <2> QED
        BY <1>1, <1>2, <2>1, <2>2, RemoveLeaf
<1>4. terminal_pid'[t] = parent_pid[cur]
    BY <1>1 DEF TypeOK, Shapes
<1>5. AtPoint'
    <2>1. Children(cur)' = {}
        BY <1>1, <1>2 DEF Children
    <2>2. parent_pid[cur] = EMPTY => t = terminal_using
        BY <1>1 DEF MayExitBase, Timely
    <2>3. parent_pid[cur] # EMPTY => child[parent_pid[cur]] = cur
        BY <1>1 DEF TreeInv, ProcessTree, ParentsWait
    <2> QED
        BY <1>1, <1>4, <2>1, <2>2, <2>3 DEF AtPoint
<1>6. OthersResumable'
    <2>1. Now = cur /\ Now' = parent_pid[cur]
        BY DEF Now
    <2>2. \A u \in Terminals \ {t} : terminal_pid'[u] = terminal_pid[u]
        BY <1>1 DEF TypeOK, Shapes
    <2>3. \A u \in Terminals \ {t} : terminal_pid[u] # cur
        BY <1>1, Foreground
    <2> QED
        BY <1>4, <2>1, <2>2, <2>3 DEF OthersResumable
<1> QED
    BY <1>3, <1>5, <1>6 DEF Rest

\* A base shell that exits is a caller of execute that is gone.
LEMMA HaltBaseInv ==
    ASSUME IInv, HaltBase
    PROVE  Rest'
<1> USE DEF IInv, HaltBase, view
<1>1. Live' = Live /\ cur \notin Live
    BY DEF Live, InTransit
<1>2. TreeInv'
    BY <1>1, SameTree
<1>3. AtPoint'
    BY <1>1 DEF AtPoint, CallerIsGone
<1>4. OthersResumable'
    BY DEF OthersResumable, Now
<1> QED
    BY <1>2, <1>3, <1>4 DEF Rest

\* halt returns into the execute call of the parent.
LEMMA HaltReturnInv ==
    ASSUME IInv, HaltReturn
    PROVE  Rest'
<1> USE DEF IInv, HaltReturn, view
<1> DEFINE par == parent_pid[cur]
           t   == curr_exe_terminal
<1>1. /\ t \in Terminals /\ terminal_pid[t] = par /\ par # EMPTY
      /\ child[par] = cur /\ par \in Pids
    BY DEF AtPoint, TypeOK, Shapes
<1>2. Live' = Live
    BY DEF Live, InTransit
<1>3. /\ par \in Live /\ terminal_id[par] = t
      /\ \A q \in Live : parent_pid[q] # par
    BY <1>1, Foreground
<1>4. TreeInv'
    <2>1. \A q \in Live : parent_pid[q] # EMPTY =>
              child'[parent_pid[q]] = child[parent_pid[q]]
        BY <1>1, <1>3 DEF TypeOK, Shapes
    <2> HIDE DEF par
    <2> QED
        BY <1>2, <2>1, SameTree
<1>5. pc' = "user" /\ cur' = par /\ page' = par
    BY <1>1
<1>6. AtPoint'
    BY <1>1, <1>2, <1>3, <1>5 DEF AtPoint, CallerIsForeground, ProcsOf
<1>7. OthersResumable'
    <2>1. Now = par /\ Now' = par
        BY <1>5 DEF Now
    <2>2. \A q \in Pids \ {par} : saved'[q] = saved[q]
        BY DEF TypeOK, Shapes
    <2> QED
        BY <2>1, <2>2 DEF OthersResumable, TypeOK, Shapes
<1> QED
    BY <1>4, <1>6, <1>7 DEF Rest

\* Another terminal is displayed: not while a caller of execute is gone.
LEMMA TerminalSwitchInv ==
    ASSUME Timely, IInv, NEW t \in Terminals, TerminalSwitch(t)
    PROVE  Rest'
<1> USE DEF IInv, TerminalSwitch, tree, stack
<1>1. pc = "user"
    <2> SUFFICES ASSUME pc = "exec" PROVE FALSE
        BY DEF Interruptible, Timely
    <2>1. num_proc[terminal_using] = 0
        BY NoForegroundNoProcess DEF AtPoint, CallerIsGone, TypeOK, Shapes
    <2> QED
        BY <2>1 DEF ShellIsUp, Timely
<1>2. Live' = Live
    BY <1>1 DEF Live, InTransit
<1>3. TreeInv'
    BY <1>2, SameTree
<1>4. AtPoint'
    BY <1>1, <1>2 DEF AtPoint, CallerIsForeground, ProcsOf
<1>5. OthersResumable'
    BY DEF OthersResumable, Now
<1> QED
    BY <1>3, <1>4, <1>5 DEF Rest

\* An interrupt finds every foreground process but the current one saved in
\* user mode, and the current one, if it is a foreground process, running there.
LEMMA AtInterrupt ==
    ASSUME Timely, IInv, Interruptible
    PROVE  /\ pc \in {"user", "exec"} /\ Live = process_id_arr
           /\ cur \in Live => pc = "user"
           /\ \A t \in Terminals : terminal_pid[t] # EMPTY /\ terminal_pid[t] # cur
                  => saved[terminal_pid[t]] = "user"
<1>1. pc \in {"user", "exec"}
    BY DEF Interruptible, Timely
<1> QED
    BY <1>1 DEF IInv, Live, InTransit, AtPoint, CallerIsGone, OthersResumable, Now

\* A tick starts the shell of the displayed terminal.
LEMMA SpawnShellInv ==
    ASSUME Timely, IInv, TypeOK', Interruptible, SpawnShell
    PROVE  Rest'
<1> USE DEF IInv
<1> DEFINE t == terminal_using
<1>1. PICK p \in Pids :
        /\ FirstFree(p)
        /\ process_id_arr' = process_id_arr \cup {p}
        /\ parent_pid' = [parent_pid EXCEPT ![p] = EMPTY]
        /\ terminal_id' = [terminal_id EXCEPT ![p] = t]
        /\ terminal_pid' = [terminal_pid EXCEPT ![t] = p]
        /\ image' = [image EXCEPT ![p] = p]
        /\ page' = p
        /\ cur' = p
        /\ child' = [child EXCEPT ![p] = EMPTY]
        /\ saved' = [saved EXCEPT ![cur] = pc, ![p] = "none"]
    BY DEF SpawnShell
<1>2. /\ t \in Terminals /\ terminal_pid[t] = EMPTY /\ num_proc[t] = 0
      /\ num_proc' = [num_proc EXCEPT ![t] = @ + 1]
      /\ curr_exe_terminal' = t /\ pc' = "user"
    BY DEF SpawnShell, NeedShell, IsBase, TypeOK, Shapes
<1>3. p \notin Live /\ Live' = Live \cup {p}
    BY <1>1, <1>2, AtInterrupt DEF Live, InTransit, FirstFree, Free
<1>4. /\ parent_pid'[p] = EMPTY
      /\ terminal_id'[p] = t
      /\ image'[p] = p
      /\ terminal_pid'[t] = p
      /\ num_proc[t] < MaxTerminalProcess
    BY <1>1, <1>2, ProcessAssumption DEF TypeOK, Shapes
<1>5. \A q \in Live : q \in Pids /\ q # p
    BY <1>3, LiveParent
<1>6. \A q \in Live :
          /\ parent_pid'[q] = parent_pid[q]
          /\ terminal_id'[q] = terminal_id[q]
          /\ image'[q] = image[q]
          /\ parent_pid[q] # EMPTY => child'[parent_pid[q]] = child[parent_pid[q]]
    BY <1>1, <1>3, <1>5, LiveParent DEF TypeOK, Shapes
<1>7. TreeInv'
    <2>1. TypeOK /\ TreeInv
        OBVIOUS
    <2> HIDE DEF IInv, t
    <2> QED
        BY <1>1, <1>2, <1>3, <1>4, <1>6, <2>1, AddLeaf
<1>8. AtPoint'
    BY <1>1, <1>2, <1>3, <1>4 DEF AtPoint, CallerIsForeground, ProcsOf
<1>9. OthersResumable'
    <2> SUFFICES ASSUME NEW u \in Terminals, terminal_pid'[u] # EMPTY, terminal_pid'[u] # p
                 PROVE  saved'[terminal_pid'[u]] = "user"
        BY <1>1, <1>2 DEF OthersResumable, Now
    <2>1. terminal_pid'[u] = terminal_pid[u]
        BY <1>1, <1>4 DEF TypeOK, Shapes
    <2>2. terminal_pid[u] \in Live /\ terminal_pid[u] \in Pids
        BY <2>1, Foreground, LiveParent
    <2>3. saved'[terminal_pid[u]] = IF terminal_pid[u] = cur THEN pc
                                    ELSE saved[terminal_pid[u]]
        BY <1>1, <2>1, <2>2 DEF TypeOK, Shapes
    <2> QED
        BY <2>1, <2>2, <2>3, AtInterrupt
<1> QED
    BY <1>7, <1>8, <1>9 DEF Rest

\* A tick that starts no shell resumes a process in user mode.
LEMMA ResumesUser ==
    ASSUME Timely, IInv, Interruptible, RoundRobin
    PROVE  pc' = "user"
<1> USE DEF IInv
<1>1. PICK n \in Terminals :
        /\ terminal_pid[n] # EMPTY
        /\ pc' = [saved EXCEPT ![cur] = pc][terminal_pid[n]]
    BY DEF RoundRobin, NextTerminal
<1>2. terminal_pid[n] \in Live /\ terminal_pid[n] \in Pids
    BY <1>1, Foreground, LiveParent
<1>3. pc' = IF terminal_pid[n] = cur THEN pc ELSE saved[terminal_pid[n]]
    BY <1>1, <1>2 DEF TypeOK, Shapes
<1> QED
    BY <1>1, <1>2, <1>3, AtInterrupt

\* A tick resumes a process in user mode, with its own page mapped.
LEMMA RoundRobinInv ==
    ASSUME Timely, IInv, Interruptible, RoundRobin
    PROVE  Rest'
<1> USE DEF IInv
<1>1. PICK n \in Terminals :
        /\ terminal_pid[n] # EMPTY
        /\ curr_exe_terminal' = n
        /\ cur' = terminal_pid[n]
        /\ page' = terminal_pid[n]
        /\ pc' = [saved EXCEPT ![cur] = pc][terminal_pid[n]]
        /\ saved' = [[saved EXCEPT ![cur] = pc] EXCEPT ![terminal_pid[n]] = "none"]
    BY DEF RoundRobin, NextTerminal
<1>2. UNCHANGED <<tree, view, child, image>>
    BY DEF RoundRobin
<1> DEFINE next == terminal_pid[n]
<1>3. next \in Live /\ next \in Pids /\ terminal_id[next] = n
    BY <1>1, Foreground, LiveParent
<1>4. \A q \in Pids \ {next} : saved'[q] = IF q = cur THEN pc ELSE saved[q]
    BY <1>1, <1>3 DEF TypeOK, Shapes
<1>5. pc' = "user"
    BY ResumesUser
<1>6. Live' = Live
    BY <1>2, <1>5, AtInterrupt DEF Live, InTransit, tree
<1>7. TreeInv'
    BY <1>2, <1>6, SameTree DEF tree
<1>8. AtPoint'
    BY <1>1, <1>2, <1>3, <1>5, <1>6 DEF AtPoint, CallerIsForeground, ProcsOf, tree
<1>9. OthersResumable'
    <2> SUFFICES ASSUME NEW u \in Terminals, terminal_pid[u] # EMPTY, terminal_pid[u] # next
                 PROVE  saved'[terminal_pid[u]] = "user"
        BY <1>1, <1>2, <1>5 DEF OthersResumable, Now, tree
    <2>1. terminal_pid[u] \in Live /\ terminal_pid[u] \in Pids
        BY Foreground, LiveParent
    <2>2. saved'[terminal_pid[u]] = IF terminal_pid[u] = cur THEN pc
                                    ELSE saved[terminal_pid[u]]
        BY <1>4, <2>1
    <2> QED
        BY <2>1, <2>2, AtInterrupt
<1> QED
    BY <1>7, <1>8, <1>9 DEF Rest

\* Every step keeps the inductive invariant.
LEMMA NextInv ==
    ASSUME Timely, IInv, [Next]_vars
    PROVE  IInv'
<1>1. TypeOK'
    BY NextType DEF IInv
<1>2. CASE Execute
    BY <1>1, <1>2, ExecAllocInv, ExecNoPidInv, ExecRegisterInv, ExecRefuseInv, ExecEnterInv
       DEF Execute, Rest, IInv
<1>3. CASE Halt
    BY <1>1, <1>3, HaltStartInv, HaltBaseInv, HaltReturnInv DEF Halt, Rest, IInv
<1>4. CASE Tick
    BY <1>1, <1>4, SpawnShellInv, RoundRobinInv DEF Tick, Rest, IInv
<1>5. CASE \E t \in Terminals : TerminalSwitch(t)
    BY <1>1, <1>5, TerminalSwitchInv DEF Rest, IInv
<1>6. CASE UNCHANGED vars
    <2> USE <1>6 DEF vars, tree, view, stack
    <2>1. Live' = Live
        BY DEF Live, InTransit
    <2>2. TreeInv'
        BY <2>1, SameTree DEF IInv
    <2>3. AtPoint'
        BY <2>1 DEF IInv, AtPoint, CallerIsForeground, CallerIsGone, ProcsOf, Children
    <2>4. OthersResumable'
        BY DEF IInv, OthersResumable, Now
    <2> QED
        BY <1>1, <2>2, <2>3, <2>4 DEF IInv
<1> QED
    BY <1>2, <1>3, <1>4, <1>5, <1>6 DEF Next

\* The inductive invariant holds in every reachable state.
THEOREM Invariance ==
    ASSUME Timely
    PROVE  Spec => []IInv
<1>1. IInv /\ [Next]_vars => IInv'
    BY NextInv
<1> QED
    BY <1>1, InitInv, PTL DEF Spec

-----------------------------------------------------------------------------
(* Safety *)

\* Processes form one chain of waiting parents per terminal, ending in the
\* foreground process, through every execute, halt, tick and switch.
THEOREM TreeCorrect ==
    ASSUME Timely
    PROVE  Spec => []ProcessTree
<1>1. IInv => ProcessTree
    BY DEF IInv, TreeInv
<1> QED
    BY <1>1, Invariance, PTL

\* num_proc counts the live processes of each terminal, within the limit.
THEOREM CountsCorrect ==
    ASSUME Timely
    PROVE  Spec => []Counts
<1>1. IInv => Counts
    BY DEF IInv, TreeInv
<1> QED
    BY <1>1, Invariance, PTL

\* No jump to a kernel stack without the frame that is wanted.
THEOREM NoStaleStackCorrect ==
    ASSUME Timely
    PROVE  Spec => []NoStaleStack
<1>1. IInv => NoStaleStack
    BY DEF IInv, AtPoint, NoStaleStack
<1> QED
    BY <1>1, Invariance, PTL

\* User code always runs as the scheduled terminal's foreground process, in the
\* page of its own.
THEOREM PageCorrect ==
    ASSUME Timely
    PROVE  Spec => []RunsInItsPage
<1>1. IInv => RunsInItsPage
    BY DEF IInv, AtPoint, CallerIsForeground, ProcsOf, RunsInItsPage
<1> QED
    BY <1>1, Invariance, PTL

\* If no interrupt is taken between program_page_init and the loader (syscall.c:192-199),
\* as Timely has it, no program image is overwritten while its process lives.
THEOREM ImagesCorrect ==
    ASSUME Timely
    PROVE  Spec => []ImagesIntact
<1>1. IInv => ImagesIntact
    BY DEF IInv, TreeInv
<1> QED
    BY <1>1, Invariance, PTL

\* The only process of a terminal is a base shell.
THEOREM FirstHasNoParentCorrect ==
    ASSUME Timely
    PROVE  Spec => []FirstHasNoParent
<1>1. IInv => FirstHasNoParent
    <2> SUFFICES ASSUME IInv, NEW t \in Terminals, num_proc[t] = 1,
                        terminal_pid[t] # EMPTY, parent_pid[terminal_pid[t]] # EMPTY
                 PROVE  FALSE
        BY DEF FirstHasNoParent
    <2> DEFINE p   == terminal_pid[t]
               par == parent_pid[p]
    <2>1. p \in ProcsOf(t) /\ par \in ProcsOf(t) \ {p}
        BY Foreground DEF IInv, TreeInv, ProcessTree, ParentsWait, ProcsOf
    <2>2. IsFiniteSet(ProcsOf(t)) /\ Cardinality(ProcsOf(t)) = 1
        BY ProcsFinite DEF IInv, TypeOK, TreeInv, Counts
    <2> HIDE DEF p, par
    <2>3. IsFiniteSet(ProcsOf(t) \ {p}) /\ Cardinality(ProcsOf(t) \ {p}) = 1 - 1
        BY <2>1, <2>2, FS_RemoveElement, Zenon
    <2>4. ProcsOf(t) \ {p} = {}
        BY <2>3, FS_EmptySet
    <2> QED
        BY <2>1, <2>4
<1> QED
    BY <1>1, Invariance, PTL

\* A process whose child has not halted keeps its pid, its page and its terminal.
THEOREM ParentCorrect ==
    ASSUME Timely
    PROVE  Spec => ParentOutlivesChild
<1> DEFINE Kept(p) == /\ p \in process_id_arr'
                      /\ terminal_id'[p] = terminal_id[p]
                      /\ image'[p] = image[p]
           Keep == \A p \in Live : Children(p) # {} => Kept(p)
<1>1. IInv /\ [Next]_vars => [Keep]_vars
    <2> SUFFICES ASSUME IInv, Next, NEW p \in Live, Children(p) # {}
                 PROVE  Kept(p)
        BY DEF vars
    <2> USE DEF IInv
    <2>1. p \in Pids /\ p \in process_id_arr
        BY LiveParent DEF Live
    <2>2. CASE Execute
        <3>1. CASE ExecAlloc
            BY <2>1, <3>1 DEF ExecAlloc
        <3>2. CASE ExecNoPid
            BY <2>1, <3>2 DEF ExecNoPid, tree
        <3>3. CASE ExecRegister \/ ExecRefuse
            <4>1. p # child[cur] /\ page = child[cur]
                BY <3>3 DEF ExecRegister, ExecRefuse, Live, InTransit, AtPoint
            <4> QED
                BY <2>1, <3>3, <4>1 DEF ExecRegister, ExecRefuse, TypeOK, Shapes
        <3>4. CASE ExecEnter
            BY <2>1, <3>4 DEF ExecEnter, tree
        <3> QED
            BY <2>2, <3>1, <3>2, <3>3, <3>4 DEF Execute
    <2>3. CASE Halt
        BY <2>1, <2>3 DEF Halt, HaltStart, HaltBase, HaltReturn, Live, InTransit
    <2>4. CASE SpawnShell
        BY <2>1, <2>4 DEF SpawnShell, FirstFree, Free, TypeOK, Shapes
    <2>5. CASE RoundRobin
        BY <2>1, <2>5 DEF RoundRobin, tree
    <2>6. CASE \E t \in Terminals : TerminalSwitch(t)
        BY <2>1, <2>6 DEF TerminalSwitch, tree
    <2> QED
        BY <2>2, <2>3, <2>4, <2>5, <2>6 DEF Next, Tick
<1> QED
    BY <1>1, Invariance, PTL DEF ParentOutlivesChild, Spec

-----------------------------------------------------------------------------
(* The processes of a terminal form one chain *)

\* No live process waits for a child but on the way from the foreground process
\* to the base shell: whatever set holds the foreground process and, with a
\* process, its parent, holds every process of the terminal.
LEMMA OneChain ==
    ASSUME TypeOK, TreeInv, NEW t \in Terminals, terminal_pid[t] # EMPTY,
           NEW A, terminal_pid[t] \in A,
           \A q \in A : q \in Live /\ parent_pid[q] # EMPTY => parent_pid[q] \in A
    PROVE  ProcsOf(t) \subseteq A
<1> DEFINE f == terminal_pid[t]
           Closed == {S \in SUBSET ProcsOf(t) :
                         f \in S /\ \A q \in S : parent_pid[q] # EMPTY => parent_pid[q] \in S}
           Up == {q \in ProcsOf(t) : \A S \in Closed : q \in S}
           Off == ProcsOf(t) \ Up
<1>1. f \in ProcsOf(t) /\ \A q \in Live : parent_pid[q] # f
    BY Foreground DEF ProcsOf
<1>2. \A q \in ProcsOf(t) : parent_pid[q] # EMPTY => parent_pid[q] \in ProcsOf(t)
    BY DEF TreeInv, ProcessTree, ParentsWait, ProcsOf
<1>3. f \in Up /\ \A q \in Up : parent_pid[q] # EMPTY => parent_pid[q] \in Up
    BY <1>1, <1>2
<1>4. ASSUME NEW r \in Up, r # f PROVE \E a \in Up : parent_pid[a] = r
    <2> SUFFICES ASSUME \A a \in Up : parent_pid[a] # r PROVE FALSE
        OBVIOUS
    <2>1. Up \ {r} \in Closed
        BY <1>3, <1>4
    <2> QED
        BY <2>1
<1>5. \E b \in Up : parent_pid[b] = EMPTY
    <2> SUFFICES ASSUME \A b \in Up : parent_pid[b] \in Up PROVE FALSE
        BY <1>3
    <2>1. Up \in SUBSET Live
        BY DEF ProcsOf
    <2> HIDE DEF Up
    <2> QED
        BY <1>3, <2>1 DEF TreeInv, Acyclic
<1>6. \A q \in Off : parent_pid[q] \in Off
    <2> SUFFICES ASSUME NEW q \in Off, parent_pid[q] \notin Off PROVE FALSE
        OBVIOUS
    <2>1. \A a \in Up : parent_pid[a] # parent_pid[q]
        <3>1. \A a \in Up : a # q /\ a \in Live /\ terminal_id[a] = t
            BY DEF ProcsOf
        <3>2. q \in Live /\ terminal_id[q] = t
            BY DEF ProcsOf
        <3> HIDE DEF Up, Off
        <3> QED
            BY <3>1, <3>2 DEF TreeInv, ProcessTree, NoFork
    <2>2. parent_pid[q] # EMPTY /\ parent_pid[q] # f
        <3>1. q \in Live
            BY DEF ProcsOf
        <3> QED
            BY <1>1, <1>5, <2>1, <3>1
    <2>3. parent_pid[q] \in Up
        BY <1>2, <2>2
    <2> HIDE DEF Up, f
    <2> QED
        BY <1>4, <2>1, <2>2, <2>3
<1>7. Off = {}
    <2>1. Off \in SUBSET Live
        BY DEF ProcsOf
    <2> HIDE DEF Off
    <2> QED
        BY <1>6, <2>1 DEF TreeInv, Acyclic
<1>8. A \cap ProcsOf(t) \in Closed
    <2>1. ProcsOf(t) \subseteq Live
        BY DEF ProcsOf
    <2> QED
        BY <1>1, <1>2, <2>1
<1> QED
    BY <1>7, <1>8

\* A live process without a child is the foreground process of its terminal.
LEMMA LeafIsForeground ==
    ASSUME TypeOK, TreeInv, NEW p \in Live, Children(p) = {}
    PROVE  terminal_id[p] \in Terminals /\ terminal_pid[terminal_id[p]] = p
<1> DEFINE t == terminal_id[p]
<1>1. t \in Terminals /\ terminal_pid[t] # EMPTY
    BY LiveParent DEF TypeOK, Shapes, TreeInv, ProcessTree, NoneStranded
<1> SUFFICES ASSUME terminal_pid[t] # p PROVE FALSE
    BY <1>1
<1>2. \A q \in ProcsOf(t) \ {p} : q \in Live /\ parent_pid[q] # EMPTY =>
          parent_pid[q] \in ProcsOf(t) \ {p}
    BY DEF TreeInv, ProcessTree, ParentsWait, ProcsOf, Children
<1>3. terminal_pid[t] \in ProcsOf(t) \ {p}
    BY <1>1, Foreground DEF ProcsOf
<1>4. p \in ProcsOf(t)
    BY DEF ProcsOf
<1> HIDE DEF t
<1>5. ProcsOf(t) \subseteq ProcsOf(t) \ {p}
    BY <1>1, <1>2, <1>3, OneChain
<1> QED
    BY <1>4, <1>5

\* A timer tick is invisible to every process but the one that it resumes, and
\* that one goes on in user mode; only the shell of a newly displayed terminal
\* starts.
THEOREM TickCorrect ==
    ASSUME Timely
    PROVE  Spec => TickIsTransparent
<1> DEFINE Left == \A p \in Live : p # cur' /\ Children(p) = {} => saved'[p] = "user"
           Started == terminal_pid' # terminal_pid =>
                          /\ terminal_pid[terminal_using] = EMPTY
                          /\ parent_pid'[cur'] = EMPTY
           Transparent == Tick => pc' = "user" /\ Started /\ Left
<1>1. IInv /\ [Next]_vars => [Transparent]_vars
    <2> SUFFICES ASSUME IInv, Tick PROVE pc' = "user" /\ Started /\ Left
        OBVIOUS
    <2> USE DEF IInv
    <2>1. Interruptible
        BY DEF Tick
    <2>2. ASSUME NEW p \in Live, Children(p) = {}
          PROVE  /\ p \in Pids
                 /\ p = cur => pc = "user"
                 /\ p # cur => saved[p] = "user"
        <3>1. terminal_id[p] \in Terminals /\ terminal_pid[terminal_id[p]] = p
            BY <2>2, LeafIsForeground
        <3>2. p \in Pids /\ p # EMPTY
            BY LiveParent
        <3> QED
            BY <2>1, <3>1, <3>2, AtInterrupt
    <2>3. CASE SpawnShell
        <3>1. PICK p \in Pids :
                /\ parent_pid' = [parent_pid EXCEPT ![p] = EMPTY]
                /\ cur' = p
                /\ saved' = [saved EXCEPT ![cur] = pc, ![p] = "none"]
            BY <2>3 DEF SpawnShell
        <3>2. pc' = "user" /\ Started
            BY <2>3, <3>1 DEF SpawnShell, NeedShell, TypeOK, Shapes
        <3>3. \A q \in Pids \ {p} : saved'[q] = IF q = cur THEN pc ELSE saved[q]
            BY <3>1 DEF TypeOK, Shapes
        <3> QED
            BY <2>2, <3>1, <3>2, <3>3
    <2>4. CASE RoundRobin
        <3>1. PICK n \in Terminals :
                /\ terminal_pid[n] # EMPTY
                /\ cur' = terminal_pid[n]
                /\ saved' = [[saved EXCEPT ![cur] = pc] EXCEPT ![terminal_pid[n]] = "none"]
            BY <2>4 DEF RoundRobin, NextTerminal
        <3>2. terminal_pid[n] \in Live /\ terminal_pid[n] \in Pids
            BY <3>1, Foreground, LiveParent
        <3>3. \A q \in Pids \ {cur'} : saved'[q] = IF q = cur THEN pc ELSE saved[q]
            BY <3>1, <3>2 DEF TypeOK, Shapes
        <3>4. pc' = "user"
            BY <2>1, <2>4, ResumesUser
        <3>5. Started
            BY <2>4 DEF RoundRobin, tree
        <3> QED
            BY <2>2, <3>3, <3>4, <3>5
    <2> QED
        BY <2>3, <2>4 DEF Tick
<1> QED
    BY <1>1, Invariance, PTL DEF TickIsTransparent, Spec

-----------------------------------------------------------------------------
(* No pid leaks *)

\* the parent of p, EMPTY above a base shell
Above(p) == IF p = EMPTY THEN EMPTY ELSE parent_pid[p]

\* The way up from a process, n parents above it, is what Chain follows.
LEMMA WayUp ==
    ASSUME TypeOK, NEW t \in Terminals
    PROVE  \E g \in [Nat -> Maybe(Pids)] :
               /\ g[0] = terminal_pid[t]
               /\ \A n \in Nat : g[n + 1] = Above(g[n])
               /\ Chain(t) = {g[n] : n \in 0 .. MaxProcess - 1} \ {EMPTY}
<1> DEFINE C == Maybe(Pids)
           a == terminal_pid[t]
           F == [x \in Nat \X C |-> Above(x[2])]
           Def(f) == [n \in Nat |-> IF n = 0 THEN a
                                    ELSE LET p == f[n - 1] IN IF p = EMPTY THEN EMPTY ELSE parent_pid[p]]
           up == CHOOSE f : f = Def(f)
<1>1. a \in C /\ F \in [Nat \X C -> C]
    BY DEF TypeOK, Shapes, Above
<1>2. \E g : g \in Recursive(C, a, F)
    <2> HIDE DEF C, a, F
    <2> QED
        BY <1>1, RecursionExists
<1>3. PICK g \in [Nat -> C] : g[0] = a /\ \A n \in Nat : g[n + 1] = F[<<n, g[n]>>]
    BY <1>2 DEF Recursive
<1>4. \E f : f = Def(f)
    <2>1. ASSUME NEW n \in Nat PROVE g[n] = Def(g)[n]
        <3>1. CASE n = 0
            BY <1>3, <3>1
        <3>2. CASE n # 0
            <4>1. n - 1 \in Nat /\ (n - 1) + 1 = n
                BY <3>2
            <4>2. g[n] = F[<<n - 1, g[n - 1]>>]
                BY <1>3, <4>1
            <4>3. g[n] = Above(g[n - 1])
                BY <4>1, <4>2
            <4> QED
                BY <3>2, <4>3 DEF Above
        <3> QED
            BY <3>1, <3>2
    <2>2. g = Def(g)
        BY <1>3, <2>1
    <2> QED
        BY <2>2
<1>5. up = Def(up)
    <2> HIDE DEF Def
    <2> QED
        BY <1>4
<1>6. up[0] = a /\ \A n \in Nat : up[n + 1] = Above(up[n])
    <2> HIDE DEF up
    <2> QED
        BY <1>5 DEF Above
<1>7. \A n \in Nat : up[n] \in C
    <2> DEFINE T == {n \in Nat : up[n] \in C}
    <2> HIDE DEF up
    <2>1. 0 \in T
        BY <1>1, <1>6
    <2>2. \A n \in Nat : n \in T => n + 1 \in T
        BY <1>6 DEF Above, TypeOK, Shapes
    <2>3. Nat \subseteq T
        <3> HIDE DEF T
        <3> QED
            BY <2>1, <2>2, SetInduction
    <2> QED
        BY <2>3
<1>8. up \in [Nat -> C]
    <2> HIDE DEF up
    <2> QED
        BY <1>5, <1>7
<1>9. Chain(t) = {up[n] : n \in 0 .. MaxProcess - 1} \ {EMPTY}
    BY DEF Chain
<1> HIDE DEF up
<1> QED
    BY <1>6, <1>8, <1>9

\* From the foreground process up, no pid comes twice before the base shell, so
\* there are at most MaxProcess of them.
LEMMA ShortWayUp ==
    ASSUME TypeOK, TreeInv, NEW g \in [Nat -> Maybe(Pids)],
           \A n \in Nat : g[n + 1] = Above(g[n]),
           \A n \in Nat : g[n] # EMPTY => g[n] \in Live,
           NEW n \in Nat, g[n] # EMPTY
    PROVE  n < MaxProcess
<1>1. \A k \in 0 .. n : g[k] # EMPTY
    <2> DEFINE T == {k \in Nat : k <= n => g[n - k] # EMPTY}
    <2>1. 0 \in T
        OBVIOUS
    <2>2. ASSUME NEW k \in Nat, k \in T PROVE k + 1 \in T
        <3> SUFFICES ASSUME k + 1 <= n, g[n - (k + 1)] = EMPTY PROVE FALSE
            OBVIOUS
        <3>1. n - (k + 1) \in Nat /\ (n - (k + 1)) + 1 = n - k /\ g[n - k] # EMPTY
            BY <2>2
        <3>2. g[n - k] = Above(g[n - (k + 1)])
            BY <3>1
        <3> QED
            BY <3>1, <3>2 DEF Above
    <2>3. Nat \subseteq T
        <3> HIDE DEF T
        <3> QED
            BY <2>1, <2>2, SetInduction
    <2> SUFFICES ASSUME NEW k \in 0 .. n PROVE g[k] # EMPTY
        OBVIOUS
    <2>4. n - k \in Nat /\ n - k <= n /\ n - (n - k) = k
        OBVIOUS
    <2> QED
        BY <2>3, <2>4
<1>2. ASSUME NEW i \in 0 .. n, NEW j \in 0 .. n, i < j, g[i] = g[j] PROVE FALSE
    <2> DEFINE S == {g[k] : k \in i .. j - 1}
    <2>1. \A k \in i .. j - 1 : k \in Nat /\ k \in 0 .. n /\ k + 1 \in 0 .. n
        OBVIOUS
    <2>2. S \in SUBSET Live
        BY <1>1, <2>1
    <2>3. \A k \in i .. j - 1 : parent_pid[g[k]] = g[k + 1]
        BY <1>1, <2>1 DEF Above
    <2>4. \A k \in i .. j - 1 : g[k + 1] \in S
        <3> SUFFICES ASSUME NEW k \in i .. j - 1 PROVE g[k + 1] \in S
            OBVIOUS
        <3>1. k + 1 = j \/ k + 1 \in i .. j - 1
            OBVIOUS
        <3>2. g[i] \in S
            BY <1>2
        <3> QED
            BY <1>2, <3>1, <3>2
    <2>5. \A p \in S : parent_pid[p] \in S
        BY <2>3, <2>4
    <2>6. g[i] \in S
        BY <1>2
    <2> HIDE DEF S
    <2> QED
        BY <2>2, <2>5, <2>6 DEF TreeInv, Acyclic
<1> SUFFICES ASSUME n >= MaxProcess PROVE FALSE
    BY ProcessAssumption
<1> DEFINE h == [k \in 0 .. n |-> g[k]]
<1>3. h \in [0 .. n -> Pids]
    BY <1>1
<1>4. IsFiniteSet(0 .. n) /\ Cardinality(0 .. n) = n + 1
    BY FS_Interval
<1>5. IsFiniteSet(Pids) /\ Cardinality(Pids) = MaxProcess
    <2>1. MaxProcess \in Nat /\ MaxProcess - 1 >= 0
        BY ProcessAssumption
    <2> QED
        BY <2>1, FS_Interval DEF Pids
<1>6. Cardinality(Pids) < Cardinality(0 .. n)
    BY <1>4, <1>5, ProcessAssumption
<1>7. \E i, j \in 0 .. n : i # j /\ h[i] = h[j]
    <2> DEFINE S == 0 .. n
    <2>1. IsFiniteSet(S) /\ IsFiniteSet(Pids) /\ Cardinality(Pids) < Cardinality(S)
          /\ h \in [S -> Pids]
        BY <1>3, <1>4, <1>5, <1>6
    <2> HIDE DEF S, h
    <2>2. \E i, j \in S : i # j /\ h[i] = h[j]
        BY <2>1, FS_PigeonHole
    <2> QED
        BY <2>2 DEF S
<1>8. PICK i \in 0 .. n, j \in 0 .. n : i # j /\ g[i] = g[j]
    BY <1>7
<1> QED
    BY <1>2, <1>8

\* The processes of a terminal are those on the way up from the foreground one.
LEMMA ChainIsProcs ==
    ASSUME TypeOK, TreeInv, NEW t \in Terminals
    PROVE  Chain(t) = ProcsOf(t)
<1>1. PICK g \in [Nat -> Maybe(Pids)] :
          /\ g[0] = terminal_pid[t]
          /\ \A n \in Nat : g[n + 1] = Above(g[n])
          /\ Chain(t) = {g[n] : n \in 0 .. MaxProcess - 1} \ {EMPTY}
    BY WayUp
<1>2. \A n \in Nat : g[n] # EMPTY => g[n] \in ProcsOf(t)
    <2> DEFINE T == {n \in Nat : g[n] # EMPTY => g[n] \in ProcsOf(t)}
    <2>1. 0 \in T
        BY <1>1, Foreground DEF ProcsOf
    <2>2. ASSUME NEW n \in Nat, n \in T PROVE n + 1 \in T
        <3> SUFFICES ASSUME g[n + 1] # EMPTY PROVE g[n + 1] \in ProcsOf(t)
            OBVIOUS
        <3>1. g[n] # EMPTY /\ g[n] \in ProcsOf(t) /\ g[n + 1] = parent_pid[g[n]]
            BY <1>1, <2>2 DEF Above
        <3> QED
            BY <3>1 DEF TreeInv, ProcessTree, ParentsWait, ProcsOf
    <2>3. Nat \subseteq T
        <3> HIDE DEF T
        <3> QED
            BY <2>1, <2>2, SetInduction
    <2> QED
        BY <2>3
<1>3. \A n \in Nat : g[n] # EMPTY => n \in 0 .. MaxProcess - 1
    <2> SUFFICES ASSUME NEW n \in Nat, g[n] # EMPTY PROVE n < MaxProcess
        BY ProcessAssumption
    <2>1. \A m \in Nat : g[m] # EMPTY => g[m] \in Live
        BY <1>2 DEF ProcsOf
    <2> QED
        BY <1>1, <2>1, ShortWayUp
<1> DEFINE A == {g[n] : n \in Nat}
<1>4. ProcsOf(t) \subseteq A
    <2>1. CASE terminal_pid[t] = EMPTY
        BY <2>1 DEF TreeInv, ProcessTree, NoneStranded, ProcsOf
    <2>2. CASE terminal_pid[t] # EMPTY
        <3>1. terminal_pid[t] \in A
            BY <1>1
        <3>2. ASSUME NEW q \in A, q \in Live, parent_pid[q] # EMPTY
              PROVE  parent_pid[q] \in A
            <4>1. PICK n \in Nat : q = g[n]
                OBVIOUS
            <4>2. parent_pid[q] = g[n + 1]
                BY <1>1, <3>2, <4>1, LiveParent DEF Above
            <4> QED
                BY <4>2
        <3> HIDE DEF A
        <3> QED
            BY <2>2, <3>1, <3>2, OneChain
    <2> QED
        BY <2>1, <2>2
<1>5. \A p \in ProcsOf(t) : p # EMPTY
    BY LiveParent DEF ProcsOf
<1>6. 0 .. MaxProcess - 1 \subseteq Nat
    OBVIOUS
<1> QED
    BY <1>1, <1>2, <1>3, <1>4, <1>5, <1>6

\* Every pid in use is on the way up from its terminal's foreground process, and
\* num_proc counts those.
THEOREM NoLeakCorrect ==
    ASSUME Timely
    PROVE  Spec => []NoLeak
<1>1. IInv => NoLeak
    BY ChainIsProcs DEF IInv, TreeInv, NoLeak
<1> QED
    BY <1>1, Invariance, PTL

-----------------------------------------------------------------------------
(* A pid is kept for every terminal *)

\* What the kept pids need of the build: as many pids as terminals (the code has
\* nine and three).
EnoughPids == TerminalNum <= MaxProcess

Reserve == ShownHaveShells /\ PidKeptForShell

\* The sets that are counted are finite.
LEMMA ReserveFinite ==
    /\ IsFiniteSet(Terminals) /\ Cardinality(Terminals) = TerminalNum
    /\ IsFiniteSet(Pids) /\ Cardinality(Pids) = MaxProcess
    /\ IsFiniteSet(NoShell) /\ Cardinality(NoShell) \in Nat
    /\ \A S : IsFiniteSet(Pids \ S) /\ Cardinality(Pids \ S) \in Nat
<1>1. IsFiniteSet(Pids) /\ Cardinality(Pids) = MaxProcess
    <2>1. MaxProcess \in Nat /\ MaxProcess - 1 >= 0
        BY ProcessAssumption
    <2> QED
        BY <2>1, FS_Interval DEF Pids
<1>2. IsFiniteSet(Terminals) /\ Cardinality(Terminals) = TerminalNum
    <2>1. TerminalNum \in Nat /\ TerminalNum - 1 >= 0
        BY ProcessAssumption
    <2> QED
        BY <2>1, FS_Interval DEF Terminals
<1>3. IsFiniteSet(NoShell)
    BY <1>2, FS_Subset DEF NoShell
<1>4. \A S : IsFiniteSet(Pids \ S)
    BY <1>1, FS_Difference
<1> QED
    BY <1>1, <1>2, <1>3, <1>4, FS_CardinalityType

\* A step that starts and ends no process keeps the reserve, while the same
\* terminal is displayed.
LEMMA ReserveSame ==
    ASSUME Reserve, Live' = Live, \A q \in Live : terminal_id'[q] = terminal_id[q],
           terminal_active' = terminal_active, terminal_using' = terminal_using
    PROVE  Reserve'
<1>1. \A t : ProcsOf(t)' = ProcsOf(t)
    BY DEF ProcsOf
<1>2. NoShell' = NoShell
    BY <1>1 DEF NoShell
<1> QED
    BY <1>2 DEF Reserve, ShownHaveShells, PidKeptForShell

\* A process p starts on terminal t: as its shell, or when more pids are left
\* than terminals wait for one.
LEMMA ReserveStart ==
    ASSUME Reserve, NEW p \in Pids, NEW t \in Terminals,
           p \notin Live, Live' = Live \cup {p},
           terminal_id'[p] = t, \A q \in Live : terminal_id'[q] = terminal_id[q],
           terminal_active' = terminal_active, terminal_using' = terminal_using,
           t \in NoShell \/ Cardinality(NoShell) < Cardinality(Pids \ Live)
    PROVE  Reserve'
<1>1. NoShell' = NoShell \ {t}
    <2>1. \A u : ProcsOf(u)' = IF u = t THEN ProcsOf(u) \cup {p} ELSE ProcsOf(u)
        BY DEF ProcsOf
    <2> QED
        BY <2>1 DEF NoShell
<1>2. Cardinality(NoShell \ {t}) =
          IF t \in NoShell THEN Cardinality(NoShell) - 1 ELSE Cardinality(NoShell)
    BY ReserveFinite, FS_RemoveElement
<1>3. Cardinality((Pids \ Live) \ {p}) = Cardinality(Pids \ Live) - 1
    <2>1. IsFiniteSet(Pids \ Live) /\ p \in Pids \ Live
        BY ReserveFinite
    <2> QED
        BY <2>1, FS_RemoveElement
<1>4. (Pids \ Live)' = (Pids \ Live) \ {p}
    OBVIOUS
<1>5. Cardinality(NoShell \ {t}) <= Cardinality((Pids \ Live) \ {p})
    <2>1. Cardinality(NoShell) \in Nat /\ Cardinality(Pids \ Live) \in Nat
        BY ReserveFinite
    <2>2. Cardinality(NoShell) <= Cardinality(Pids \ Live)
        BY DEF Reserve, PidKeptForShell
    <2> QED
        BY <1>2, <1>3, <2>1, <2>2
<1> QED
    BY <1>1, <1>4, <1>5 DEF Reserve, ShownHaveShells, PidKeptForShell

\* A process p leaves terminal t, which is displayed or has another process.
LEMMA ReserveEnd ==
    ASSUME Reserve, NEW p \in Live, NEW t \in Terminals, p \in Pids,
           Live' = Live \ {p}, terminal_id' = terminal_id, terminal_id[p] = t,
           terminal_active' = terminal_active, terminal_using' = terminal_using,
           t = terminal_using \/ ProcsOf(t) \ {p} # {}
    PROVE  Reserve'
<1>1. \A u : ProcsOf(u)' = ProcsOf(u) \ {p}
    BY DEF ProcsOf
<1>2. \A u \in Terminals \ {t} : ProcsOf(u)' = ProcsOf(u)
    BY DEF ProcsOf
<1>3. NoShell' \subseteq NoShell \cup {t}
    BY <1>2 DEF NoShell
<1>4. t \in NoShell' => t = terminal_using
    BY <1>1 DEF NoShell
<1>5. Cardinality(NoShell') <= Cardinality(NoShell) + 1
    <2>1. /\ IsFiniteSet(NoShell \cup {t})
          /\ Cardinality(NoShell \cup {t}) <= Cardinality(NoShell) + 1
        <3>1. IsFiniteSet(NoShell) /\ Cardinality(NoShell) \in Nat
            BY ReserveFinite
        <3>2. /\ IsFiniteSet(NoShell \cup {t})
              /\ Cardinality(NoShell \cup {t}) =
                     IF t \in NoShell THEN Cardinality(NoShell) ELSE Cardinality(NoShell) + 1
            BY <3>1, FS_AddElement
        <3> QED
            BY <3>1, <3>2
    <2>2. Cardinality(NoShell') <= Cardinality(NoShell \cup {t})
        BY <1>3, <2>1, FS_Subset
    <2>3. Cardinality(NoShell \cup {t}) \in Nat /\ Cardinality(NoShell') \in Nat
        BY <1>3, <2>1, FS_Subset, FS_CardinalityType
    <2> QED
        BY <2>1, <2>2, <2>3, ReserveFinite
<1>6. (Pids \ Live)' = (Pids \ Live) \cup {p} /\ p \notin Pids \ Live
    OBVIOUS
<1>7. Cardinality((Pids \ Live)') = Cardinality(Pids \ Live) + 1
    BY <1>6, ReserveFinite, FS_AddElement
<1>8. Cardinality(NoShell') \in Nat
    <2>1. IsFiniteSet(NoShell')
        BY <1>3, ReserveFinite, FS_AddElement, FS_Subset
    <2> QED
        BY <2>1, FS_CardinalityType
<1>9. PidKeptForShell'
    BY <1>5, <1>7, <1>8, ReserveFinite DEF Reserve, PidKeptForShell
<1> QED
    BY <1>3, <1>4, <1>9 DEF Reserve, ShownHaveShells

\* The terminals without a shell are those whose num_proc is 0.
LEMMA NoShellCount ==
    ASSUME TypeOK, TreeInv, NEW t \in Terminals
    PROVE  t \in NoShell <=> num_proc[t] = 0
<1>1. IsFiniteSet(ProcsOf(t)) /\ num_proc[t] = Cardinality(ProcsOf(t))
    BY ProcsFinite DEF TypeOK, TreeInv, Counts
<1> QED
    BY <1>1, FS_EmptySet DEF NoShell

\* execute starts no program with a pid that a terminal without a shell may need.
LEMMA RegisterReserve ==
    ASSUME IInv, Reserve, ExecRegister
    PROVE  Reserve'
<1> USE DEF IInv, ExecRegister, view
<1> DEFINE p == child[cur]
           t == HomeTerminal
<1>1. p \in Pids /\ p \in process_id_arr /\ t \in Terminals /\ cur \in Pids
    BY DEF TypeOK, Shapes, Frames, AtPoint, HomeTerminal
<1>2. p \notin Live /\ Live' = Live \cup {p}
    BY <1>1 DEF Live, InTransit
<1>3. terminal_id'[p] = t /\ \A q \in Live : terminal_id'[q] = terminal_id[q]
    BY <1>1, <1>2 DEF TypeOK, Shapes
<1>4. CASE IsBase
    <2>1. t \in NoShell
        BY <1>1, <1>4, NoShellCount DEF IsBase, HomeTerminal
    <2> HIDE DEF p, t, IInv, ExecRegister
    <2> QED
        BY <1>1, <1>2, <1>3, <2>1, ReserveStart DEF ExecRegister
<1>5. CASE ~IsBase
    <2>1. terminal_using \notin NoShell
        BY <1>5, NoShellCount DEF IsBase, TypeOK, Shapes
    <2>2. NoShell \subseteq Terminals \ terminal_active
        BY <2>1 DEF Reserve, ShownHaveShells, NoShell
    <2>3. Cardinality(Terminals \ terminal_active) = TerminalNum - Cardinality(terminal_active)
        <3>1. terminal_active \subseteq Terminals
            BY DEF TypeOK, Shapes
        <3>2. Terminals \cap terminal_active = terminal_active
            BY <3>1
        <3> QED
            BY <3>2, ReserveFinite, FS_Difference
    <2>4. Cardinality(NoShell) <= Cardinality(Terminals \ terminal_active)
        <3>1. IsFiniteSet(Terminals \ terminal_active)
            BY ReserveFinite, FS_Difference
        <3> QED
            BY <2>2, <3>1, FS_Subset
    <2>5. Cardinality(Free) >= TerminalNum - Cardinality(terminal_active)
        <3>1. ~(Cardinality(Free) < TerminalNum - Cardinality(terminal_active))
            BY <1>5 DEF MustRefuse, PidsAreReserved
        <3>2. Cardinality(Free) \in Nat
            BY ReserveFinite DEF Free
        <3>3. Cardinality(terminal_active) \in Nat
            BY ReserveFinite, FS_Subset, FS_CardinalityType DEF TypeOK, Shapes
        <3> QED
            BY <3>1, <3>2, <3>3, ProcessAssumption
    <2>6. Cardinality(Pids \ Live) = Cardinality(Free) + 1
        <3>1. Pids \ Live = Free \cup {p} /\ p \notin Free
            BY <1>1, <1>2 DEF Free, Live, InTransit
        <3>2. IsFiniteSet(Free)
            BY ReserveFinite DEF Free
        <3> HIDE DEF p
        <3> QED
            BY <3>1, <3>2, FS_AddElement
    <2>7. Cardinality(NoShell) < Cardinality(Pids \ Live)
        <3>1. /\ Cardinality(NoShell) \in Nat /\ Cardinality(Free) \in Nat
              /\ Cardinality(Terminals \ terminal_active) \in Nat
            BY ReserveFinite, FS_Difference, FS_CardinalityType DEF Free
        <3> QED
            BY <2>3, <2>4, <2>5, <2>6, <3>1
    <2> HIDE DEF p, t, IInv, ExecRegister
    <2> QED
        BY <1>1, <1>2, <1>3, <2>7, ReserveStart DEF ExecRegister
<1> QED
    BY <1>4, <1>5

\* A process that halts leaves a displayed terminal, or its parent, behind.
LEMMA HaltReserve ==
    ASSUME Timely, IInv, Reserve, HaltStart
    PROVE  Reserve'
<1> USE DEF IInv, HaltStart, view
<1> DEFINE t == terminal_id[cur]
<1>1. /\ cur \in Live /\ cur \in Pids /\ t \in Terminals
      /\ Live' = Live \ {cur}
    BY DEF AtPoint, CallerIsForeground, ProcsOf, Live, InTransit, TypeOK, Shapes
<1>2. t = terminal_using \/ ProcsOf(t) \ {cur} # {}
    <2>1. CASE parent_pid[cur] = EMPTY
        BY <2>1 DEF MayExitBase, Timely
    <2>2. CASE parent_pid[cur] # EMPTY
        BY <1>1, <2>2 DEF TreeInv, ProcessTree, ParentsWait
    <2> QED
        BY <2>1, <2>2
<1>3. /\ terminal_id' = terminal_id /\ terminal_active' = terminal_active
      /\ terminal_using' = terminal_using
    OBVIOUS
<1> HIDE DEF IInv, HaltStart
<1> QED
    BY <1>1, <1>2, <1>3, ReserveEnd

\* The shell of the displayed terminal starts.
LEMMA SpawnReserve ==
    ASSUME Timely, IInv, Reserve, Interruptible, SpawnShell
    PROVE  Reserve'
<1> USE DEF IInv
<1> DEFINE t == terminal_using
<1>1. PICK p \in Pids :
        /\ FirstFree(p)
        /\ process_id_arr' = process_id_arr \cup {p}
        /\ terminal_id' = [terminal_id EXCEPT ![p] = t]
    BY DEF SpawnShell
<1>2. /\ t \in Terminals /\ t \in NoShell /\ pc' = "user"
      /\ terminal_active' = terminal_active /\ terminal_using' = terminal_using
    BY NoShellCount DEF SpawnShell, IsBase, TypeOK, Shapes, view
<1>3. p \notin Live /\ Live' = Live \cup {p}
    BY <1>1, <1>2, AtInterrupt DEF Live, InTransit, FirstFree, Free
<1>4. terminal_id'[p] = t /\ \A q \in Live : terminal_id'[q] = terminal_id[q]
    BY <1>1, <1>3 DEF TypeOK, Shapes
<1> HIDE DEF t, IInv
<1> QED
    BY <1>1, <1>2, <1>3, <1>4, ReserveStart DEF t

\* Another terminal is displayed: the one displayed so far has its shell.
LEMMA SwitchReserve ==
    ASSUME Timely, IInv, Reserve, NEW t \in Terminals, TerminalSwitch(t)
    PROVE  Reserve'
<1> USE DEF IInv, TerminalSwitch, tree, stack
<1>1. Live' = Live /\ \A u : ProcsOf(u)' = ProcsOf(u)
    BY DEF Live, InTransit, ProcsOf
<1>2. NoShell' = NoShell
    BY <1>1 DEF NoShell
<1>3. terminal_using \notin NoShell
    BY NoShellCount DEF ShellIsUp, Timely, TypeOK, Shapes
<1> QED
    BY <1>1, <1>2, <1>3 DEF Reserve, ShownHaveShells, PidKeptForShell

\* Every step keeps the reserve.
LEMMA ReserveNext ==
    ASSUME Timely, IInv, Reserve, [Next]_vars
    PROVE  Reserve'
<1> USE DEF IInv
<1>1. CASE ExecAlloc
    <2>1. Live' = Live
        <3>1. PICK p \in Pids : /\ FirstFree(p)
                                /\ process_id_arr' = process_id_arr \cup {p}
                                /\ child' = [child EXCEPT ![cur] = p]
            BY <1>1 DEF ExecAlloc
        <3>2. child'[cur] = p /\ p \notin process_id_arr
            BY <3>1 DEF TypeOK, Shapes, FirstFree, Free
        <3> QED
            BY <1>1, <3>1, <3>2 DEF ExecAlloc, Live, InTransit
    <2> QED
        BY <1>1, <2>1, ReserveSame DEF ExecAlloc, view
<1>2. CASE ExecNoPid
    <2>1. Live' = Live
        BY <1>2 DEF ExecNoPid, Live, InTransit, tree
    <2> QED
        BY <1>2, <2>1, ReserveSame DEF ExecNoPid, tree, view
<1>3. CASE ExecRegister
    BY <1>3, RegisterReserve
<1>4. CASE ExecRefuse
    <2>1. Live' = Live /\ child[cur] \notin Live
        BY <1>4 DEF ExecRefuse, Live, InTransit
    <2>2. \A q \in Live : terminal_id'[q] = terminal_id[q]
        BY <1>4, <2>1, LiveParent DEF ExecRefuse, TypeOK, Shapes
    <2> QED
        BY <1>4, <2>1, <2>2, ReserveSame DEF ExecRefuse, view
<1>5. CASE ExecEnter
    <2>1. Live' = Live
        BY <1>5 DEF ExecEnter, Live, InTransit, tree
    <2> QED
        BY <1>5, <2>1, ReserveSame DEF ExecEnter, tree, view
<1>6. CASE HaltStart
    BY <1>6, HaltReserve
<1>7. CASE HaltBase
    <2>1. Live' = Live
        BY <1>7 DEF HaltBase, Live, InTransit
    <2> QED
        BY <1>7, <2>1, ReserveSame DEF HaltBase, view
<1>8. CASE HaltReturn
    <2>1. Live' = Live
        BY <1>8 DEF HaltReturn, Live, InTransit
    <2> QED
        BY <1>8, <2>1, ReserveSame DEF HaltReturn, view
<1>9. CASE Interruptible /\ SpawnShell
    BY <1>9, SpawnReserve
<1>10. CASE Interruptible /\ RoundRobin
    <2>1. pc' = "user"
        BY <1>10, ResumesUser
    <2>2. Live' = Live
        BY <1>10, <2>1, AtInterrupt DEF RoundRobin, Live, InTransit, tree
    <2> QED
        BY <1>10, <2>2, ReserveSame DEF RoundRobin, tree, view
<1>11. CASE \E t \in Terminals : TerminalSwitch(t)
    BY <1>11, SwitchReserve
<1>12. CASE UNCHANGED vars
    <2>1. Live' = Live
        BY <1>12 DEF vars, Live, InTransit, tree, stack
    <2> QED
        BY <1>12, <2>1, ReserveSame DEF vars, tree, view
<1> QED
    BY <1>1, <1>2, <1>3, <1>4, <1>5, <1>6, <1>7, <1>8, <1>9, <1>10, <1>11, <1>12
       DEF Next, Execute, Halt, Tick

\* A pid is kept for every terminal that has no shell yet, whatever programs the
\* others start.
THEOREM PidKeptCorrect ==
    ASSUME Timely, EnoughPids
    PROVE  Spec => []PidKeptForShell
<1>1. Init => Reserve
    <2> SUFFICES ASSUME Init PROVE Reserve
        OBVIOUS
    <2>1. Live = {}
        BY DEF Init, Live
    <2>2. NoShell = Terminals /\ Pids \ Live = Pids
        BY <2>1 DEF NoShell, ProcsOf
    <2> QED
        BY <2>2, ReserveFinite, ProcessAssumption
           DEF Init, Reserve, ShownHaveShells, PidKeptForShell, EnoughPids
<1>2. IInv /\ Reserve /\ [Next]_vars => Reserve'
    BY ReserveNext
<1>3. Reserve => PidKeptForShell
    BY DEF Reserve
<1> QED
    BY <1>1, <1>2, <1>3, Invariance, PTL DEF Spec
=============================================================================
