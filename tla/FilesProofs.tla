------------------------------ MODULE FilesProofs ------------------------------
(***************************************************************************)
(* Proofs about Files, for any number of processes, rates and descriptors  *)
(* and for any disk that is whole: a process that uses the RTC only while  *)
(* its terminal is displayed never returns from rtc_read twice in one      *)
(* period; reads of any sizes give a file and a listing in order.          *)
(***************************************************************************)
EXTENDS Files, SequenceTheorems, Induction

-----------------------------------------------------------------------------
(* the virtual RTC: the inductive invariant *)

\* which number a rate is does not matter
Basics ==
    /\ shown \in Procs
    /\ rate = [t \in Procs |-> rate[t]]
    /\ call \in [Procs -> {"idle", "wait", "woken"} \X Procs]
    /\ fresh = [p \in Procs |-> fresh[p]]

\* A process in rtc_read reads for its own terminal.
OwnTerminal == \A p \in Procs : ~Runs(p) => call[p][2] = p

\* the flag that p is about to clear
Taken(p) == IF Woken(p) THEN {RateOf(p)} ELSE {}

\* A flag that is set stands for a period that ended since it last woke p, but for
\* the one that p is about to clear.
FlagsAreFresh == \A p \in Procs : int_flag \subseteq fresh[p] \cup Taken(p)

IInv == Basics /\ OwnTerminal /\ FlagsAreFresh

-----------------------------------------------------------------------------
(* the steps *)

\* Where a process is in rtc_read, and for which terminal.
LEMMA CallIs ==
    ASSUME Basics, NEW p \in Procs
    PROVE  call[p] = <<call[p][1], call[p][2]>> /\ call[p][2] \in Procs
<1>1. call[p] \in {"idle", "wait", "woken"} \X Procs
    BY DEF Basics
<1> QED
    BY <1>1

\* What the steps that do not use the RTC leave alone.
LEMMA Elsewhere ==
    ASSUME IInv, UNCHANGED rtc, shown' \in Procs
    PROVE  IInv'
BY DEF IInv, Basics, OwnTerminal, FlagsAreFresh, Taken, Woken, RateOf, Runs, rtc

LEMMA RtcHandlerStep == ASSUME IInv, RtcHandler PROVE IInv'
<1> DEFINE c == int_counter + 1
<1>1. /\ int_flag' = int_flag \cup Ends(c)
      /\ fresh' = [p \in Procs |-> fresh[p] \cup Ends(c)]
      /\ UNCHANGED <<shown, rate, call>>
    BY DEF RtcHandler
<1> HIDE DEF c
<1>3. Basics'
    BY <1>1 DEF IInv, Basics
<1>4. OwnTerminal'
    BY <1>1 DEF IInv, OwnTerminal, Runs
<1>5. FlagsAreFresh'
  <2> SUFFICES ASSUME NEW p \in Procs PROVE (int_flag \subseteq fresh[p] \cup Taken(p))'
      BY DEF FlagsAreFresh
  <2>1. fresh'[p] = fresh[p] \cup Ends(c) /\ Taken(p)' = Taken(p)
      BY <1>1 DEF Taken, Woken, RateOf
  <2> QED
      BY <1>1, <2>1 DEF IInv, FlagsAreFresh
<1> QED
    BY <1>3, <1>4, <1>5 DEF IInv

LEMMA RtcWriteStep ==
    ASSUME ~AnyTerminal, IInv, NEW p \in Procs, RtcWrite(p)
    PROVE  IInv'
<1>1. shown = p /\ Runs(p)
    BY DEF RtcWrite, MayUseRtc
<1>2. PICK k : rate' = [rate EXCEPT ![p] = k]
    BY <1>1 DEF RtcWrite
<1>3. UNCHANGED <<shown, int_flag, call, fresh>>
    BY DEF RtcWrite
<1>4. Basics' /\ OwnTerminal'
    BY <1>2, <1>3 DEF IInv, Basics, OwnTerminal, Runs
<1>5. FlagsAreFresh'
  <2> SUFFICES ASSUME NEW q \in Procs PROVE (int_flag \subseteq fresh[q] \cup Taken(q))'
      BY DEF FlagsAreFresh
  <2>1. CASE call[q][1] = "woken"
    <3>1. q # p /\ call[q][2] = q
        BY <1>1, <2>1 DEF IInv, OwnTerminal, Runs, Idle
    <3>2. RateOf(q)' = RateOf(q)
        BY <1>2, <1>3, <3>1 DEF RateOf, IInv, Basics
    <3> QED
        BY <1>3, <2>1, <3>2 DEF IInv, FlagsAreFresh, Taken, Woken
  <2>2. CASE call[q][1] # "woken"
      BY <1>3, <2>2 DEF IInv, FlagsAreFresh, Taken, Woken
  <2> QED
      BY <2>1, <2>2
<1> QED
    BY <1>4, <1>5 DEF IInv

LEMMA RtcReadBeginStep ==
    ASSUME ~AnyTerminal, IInv, NEW p \in Procs, RtcReadBegin(p)
    PROVE  IInv'
<1>1. shown = p /\ Runs(p) /\ call' = [call EXCEPT ![p] = <<"wait", p>>]
    BY DEF RtcReadBegin, MayUseRtc
<1>2. UNCHANGED <<shown, int_flag, rate, fresh>>
    BY DEF RtcReadBegin
<1>3. Basics' /\ OwnTerminal'
    BY <1>1, <1>2 DEF IInv, Basics, OwnTerminal, Runs
<1>4. FlagsAreFresh'
  <2> SUFFICES ASSUME NEW q \in Procs PROVE (int_flag \subseteq fresh[q] \cup Taken(q))'
      BY DEF FlagsAreFresh
  <2>1. CASE q = p
      BY <1>1, <1>2, <2>1 DEF IInv, Basics, FlagsAreFresh, Taken, Woken, Runs, Idle
  <2>2. CASE q # p
    <3>1. call'[q] = call[q] /\ Taken(q)' = Taken(q)
        BY <1>1, <1>2, <2>2 DEF IInv, Basics, Taken, Woken, RateOf
    <3> QED
        BY <1>2, <3>1 DEF IInv, FlagsAreFresh
  <2> QED
      BY <2>1, <2>2
<1> QED
    BY <1>3, <1>4 DEF IInv

\* Waking, p takes the flag that is set.
LEMMA RtcReadWakesStep ==
    ASSUME IInv, NEW p \in Procs, RtcReadWakes(p)
    PROVE  IInv'
<1>1. /\ call' = [call EXCEPT ![p][1] = "woken"]
      /\ fresh' = [fresh EXCEPT ![p] = @ \ {RateOf(p)}]
      /\ UNCHANGED <<shown, int_flag, rate>>
    BY DEF RtcReadWakes
<1>2. call[p] = <<"wait", call[p][2]>> /\ call[p][2] \in Procs
    BY CallIs DEF IInv, RtcReadWakes, Waits
<1>3. call' = [call EXCEPT ![p] = <<"woken", call[p][2]>>]
  <2>1. call' = [call EXCEPT ![p] = [call[p] EXCEPT ![1] = "woken"]]
      BY <1>1
  <2>2. [call[p] EXCEPT ![1] = "woken"] = <<"woken", call[p][2]>>
      BY <1>2
  <2> QED
      BY <2>1, <2>2
<1>4. Basics' /\ OwnTerminal'
  <2>1. Basics'
    <3>1. call' \in [Procs -> {"idle", "wait", "woken"} \X Procs]
        BY <1>2, <1>3 DEF IInv, Basics
    <3>2. fresh' = [q \in Procs |-> fresh'[q]]
        BY <1>1 DEF IInv, Basics
    <3> QED
        BY <1>1, <3>1, <3>2 DEF IInv, Basics
  <2>2. call[p][2] = p
      BY <1>2 DEF IInv, OwnTerminal, Runs, Idle
  <2>3. \A q \in Procs : call'[q] = IF q = p THEN <<"woken", p>> ELSE call[q]
      BY <1>3, <2>2 DEF IInv, Basics
  <2>4. OwnTerminal'
      BY <2>3 DEF IInv, OwnTerminal, Runs, Idle
  <2> QED
      BY <2>1, <2>4
<1>5. FlagsAreFresh'
  <2> SUFFICES ASSUME NEW q \in Procs PROVE (int_flag \subseteq fresh[q] \cup Taken(q))'
      BY DEF FlagsAreFresh
  <2>1. CASE q = p
    <3>1. Taken(p) = {} /\ Taken(p)' = {RateOf(p)}
        BY <1>1, <1>2, <1>3 DEF IInv, Basics, Taken, Woken, RateOf
    <3>2. fresh'[p] = fresh[p] \ {RateOf(p)}
        BY <1>1 DEF IInv, Basics
    <3> QED
        BY <1>1, <2>1, <3>1, <3>2 DEF IInv, FlagsAreFresh
  <2>2. CASE q # p
    <3>1. Taken(q)' = Taken(q) /\ fresh'[q] = fresh[q]
        BY <1>1, <1>3, <2>2 DEF IInv, Basics, Taken, Woken, RateOf
    <3> QED
        BY <1>1, <3>1 DEF IInv, FlagsAreFresh
  <2> QED
      BY <2>1, <2>2
<1> QED
    BY <1>4, <1>5 DEF IInv

\* Returning, it clears the flag, for the other readers too.
LEMMA RtcReadReturnsStep ==
    ASSUME IInv, NEW p \in Procs, RtcReadReturns(p)
    PROVE  IInv'
<1>1. /\ int_flag' = int_flag \ {RateOf(p)}
      /\ call' = [call EXCEPT ![p] = Idle]
      /\ UNCHANGED <<shown, rate, fresh>>
    BY DEF RtcReadReturns
<1>2. Idle \in {"idle", "wait", "woken"} \X Procs
    BY FilesAssumption DEF Idle
<1>3. Basics' /\ OwnTerminal'
    BY <1>1, <1>2 DEF IInv, Basics, OwnTerminal, Runs
<1>4. FlagsAreFresh'
  <2> SUFFICES ASSUME NEW q \in Procs PROVE (int_flag \subseteq fresh[q] \cup Taken(q))'
      BY DEF FlagsAreFresh
  <2>1. CASE q = p
      BY <1>1, <2>1 DEF IInv, FlagsAreFresh, Taken, Woken, RtcReadReturns
  <2>2. CASE q # p
    <3>1. Taken(q)' = Taken(q)
        BY <1>1, <2>2 DEF IInv, Basics, Taken, Woken, RateOf
    <3> QED
        BY <1>1, <3>1 DEF IInv, FlagsAreFresh
  <2> QED
      BY <2>1, <2>2
<1> QED
    BY <1>3, <1>4 DEF IInv

\* Halted in rtc_read, p leaves the flag it was about to clear.
LEMMA HaltClosesKeeps ==
    ASSUME IInv, NEW p \in Procs, HaltCloses(p)
    PROVE  IInv'
<1>1. /\ call' = [call EXCEPT ![p] = Idle]
      /\ fresh' = IF Woken(p) THEN [fresh EXCEPT ![p] = fresh[p] \cup {RateOf(p)}] ELSE fresh
      /\ UNCHANGED <<shown, int_flag, rate>>
    BY DEF HaltCloses
<1>2. Idle \in {"idle", "wait", "woken"} \X Procs
    BY FilesAssumption DEF Idle
<1>3. fresh' = [q \in Procs |-> fresh'[q]]
    BY <1>1 DEF IInv, Basics
<1>4. Basics' /\ OwnTerminal'
    BY <1>1, <1>2, <1>3 DEF IInv, Basics, OwnTerminal, Runs
<1>5. FlagsAreFresh'
  <2> SUFFICES ASSUME NEW q \in Procs PROVE (int_flag \subseteq fresh[q] \cup Taken(q))'
      BY DEF FlagsAreFresh
  <2>1. fresh[p] \cup Taken(p) \subseteq fresh'[p] /\ (q # p => fresh'[q] = fresh[q])
      BY <1>1 DEF IInv, Basics, Taken
  <2>2. CASE q = p
      BY <1>1, <2>1, <2>2 DEF IInv, FlagsAreFresh
  <2>3. CASE q # p
    <3>1. Taken(q)' = Taken(q)
        BY <1>1, <2>3 DEF IInv, Basics, Taken, Woken, RateOf
    <3> QED
        BY <1>1, <2>1, <2>3, <3>1 DEF IInv, FlagsAreFresh
  <2> QED
      BY <2>2, <2>3
<1> QED
    BY <1>4, <1>5 DEF IInv

LEMMA NextKeeps == ASSUME ~AnyTerminal, IInv, [Next]_vars PROVE IInv'
<1>1. CASE RtcHandler
    BY <1>1, RtcHandlerStep
<1>2. ASSUME NEW p \in Procs,
             Open(p) \/ Close(p) \/ FileRead(p) \/ DirRead(p) \/ Show(p)
      PROVE  IInv'
  <2>1. UNCHANGED rtc
      BY <1>2 DEF Open, Close, FileRead, DirRead, Show
  <2>2. shown' \in Procs
      BY <1>2 DEF Open, Close, FileRead, DirRead, Show, IInv, Basics
  <2> QED
      BY <2>1, <2>2, Elsewhere
<1>3. ASSUME NEW p \in Procs, RtcWrite(p) PROVE IInv'
    BY <1>3, RtcWriteStep
<1>4. ASSUME NEW p \in Procs, RtcReadBegin(p) PROVE IInv'
    BY <1>4, RtcReadBeginStep
<1>5. ASSUME NEW p \in Procs, RtcReadWakes(p) PROVE IInv'
    BY <1>5, RtcReadWakesStep
<1>6. ASSUME NEW p \in Procs, RtcReadReturns(p) PROVE IInv'
    BY <1>6, RtcReadReturnsStep
<1>7. ASSUME NEW p \in Procs, HaltCloses(p) PROVE IInv'
    BY <1>7, HaltClosesKeeps
<1>8. CASE UNCHANGED vars
    BY <1>8, Elsewhere DEF vars, IInv, Basics
<1> QED
    BY <1>1, <1>2, <1>3, <1>4, <1>5, <1>6, <1>7, <1>8 DEF Next

-----------------------------------------------------------------------------
(* the virtual RTC: the theorems *)

\* The inductive invariant, of users who look at the program that uses the RTC: a
\* flag that is set is news to every reader that is not about to clear it.
THEOREM Invariance == ASSUME ~AnyTerminal PROVE Spec => []IInv
<1>1. Init => IInv
    BY FilesAssumption DEF Init, IInv, Basics, OwnTerminal, FlagsAreFresh, Runs, Idle, Taken, Woken
<1>2. IInv /\ [Next]_vars => IInv'
    BY NextKeeps
<1> QED
    BY <1>1, <1>2, PTL DEF Spec

\* rtc_read (rtc.c:165) returns once in a period at most, for any number of
\* processes that share a rate and any interleaving with rtc_handler.
THEOREM PacedCorrect == ASSUME ~AnyTerminal PROVE Spec => Paced
<1>1. IInv => \A p \in Procs : RtcReadWakes(p) => RateOf(p) \in fresh[p]
    BY DEF IInv, FlagsAreFresh, Taken, Woken, RtcReadWakes, Waits
<1>2. IInv /\ [Next]_vars => [\A p \in Procs : RtcReadWakes(p) => RateOf(p) \in fresh[p]]_vars
    BY <1>1
<1> QED
    BY <1>2, Invariance, PTL DEF Spec, Paced

-----------------------------------------------------------------------------
(* read_data *)

\* What is assumed of an inode.
LEMMA InodeIs ==
    ASSUME NEW i \in DOMAIN Inodes
    PROVE  /\ Length(i) \in Nat /\ Blocks(i) \in Seq(Nat)
           /\ Length(i) <= BLOCK_SIZE * Len(Blocks(i))
           /\ Length(i) < BLOCK_SIZE * MaxBlocks
<1>1. Inodes[i] \in Nat \X Seq(Nat)
    BY FileSysAssumption
<1>2. Inodes[i][1] \in Nat /\ Inodes[i][2] \in Seq(Nat)
    BY <1>1
<1> QED
    BY <1>2, FileSysAssumption DEF Length, Blocks

\* The block and the place in it of a byte.
LEMMA Place ==
    ASSUME NEW b \in Nat, NEW j \in 0 .. BLOCK_SIZE - 1
    PROVE  (BLOCK_SIZE * b + j) \div BLOCK_SIZE = b /\ (BLOCK_SIZE * b + j) % BLOCK_SIZE = j
<1>1. BLOCK_SIZE \in Nat \ {0}
    BY FileSysAssumption
<1>2. BLOCK_SIZE * b \in Nat
    BY <1>1, SMT
<1> DEFINE a == BLOCK_SIZE * b + j
<1>3. a \in Nat /\ BLOCK_SIZE * b <= a /\ a < BLOCK_SIZE * b + BLOCK_SIZE
    BY <1>1, <1>2
<1> HIDE DEF a
<1>4. a \div BLOCK_SIZE = b
    BY <1>1, <1>3, QuotientIs
<1>5. a = BLOCK_SIZE * (a \div BLOCK_SIZE) + (a % BLOCK_SIZE) /\ a % BLOCK_SIZE \in 0 .. BLOCK_SIZE - 1
    BY <1>1, <1>3, Division
<1>6. a % BLOCK_SIZE = a - BLOCK_SIZE * b
    BY <1>1, <1>2, <1>3, <1>4, <1>5
<1>7. a - BLOCK_SIZE * b = j
    BY <1>1, <1>2 DEF a
<1> QED
    BY <1>4, <1>6, <1>7 DEF a

\* A byte that the file has lies in a block that it has.
LEMMA InFile ==
    ASSUME NEW i \in DOMAIN Inodes, NEW b \in Nat, BLOCK_SIZE * b < Length(i)
    PROVE  b + 1 \in 1 .. Len(Blocks(i)) /\ Blocks(i)[b + 1] \in Nat /\ b < MaxBlocks
<1>1. BLOCK_SIZE \in Nat \ {0} /\ MaxBlocks \in Nat
    BY FileSysAssumption
<1>2. /\ Length(i) \in Nat /\ Blocks(i) \in Seq(Nat) /\ Len(Blocks(i)) \in Nat
      /\ Length(i) <= BLOCK_SIZE * Len(Blocks(i)) /\ Length(i) < BLOCK_SIZE * MaxBlocks
    BY InodeIs
<1>3. ASSUME NEW n \in Nat, Length(i) <= BLOCK_SIZE * n PROVE b < n
    <2> SUFFICES ASSUME n <= b PROVE FALSE
        BY SMT
    <2>1. BLOCK_SIZE * n <= BLOCK_SIZE * b
        BY <1>1, TimesOrder
    <2>2. BLOCK_SIZE * n \in Nat /\ BLOCK_SIZE * b \in Nat
        BY <1>1, SMT
    <2> QED
        BY <1>2, <1>3, <2>1, <2>2
<1>4. b < Len(Blocks(i))
    BY <1>2, <1>3
<1>5. b < MaxBlocks
    <2>1. BLOCK_SIZE * MaxBlocks \in Nat
        BY <1>1, SMT
    <2> QED
        BY <1>1, <1>2, <1>3, <2>1
<1>6. b + 1 \in 1 .. Len(Blocks(i))
    BY <1>2, <1>4
<1>7. Blocks(i)[b + 1] \in Nat
    <2> DEFINE s == Blocks(i)
    <2>1. s \in Seq(Nat) /\ b + 1 \in 1 .. Len(s)
        BY <1>2, <1>6
    <2> HIDE DEF s
    <2>2. s[b + 1] \in Nat
        BY <2>1, ElementOfSeq
    <2> QED
        BY <2>2 DEF s
<1> QED
    BY <1>5, <1>6, <1>7

\* The bytes of a file, block by block.
LEMMA ByteIs ==
    ASSUME NEW i \in DOMAIN Inodes, NEW b \in Nat, NEW j \in 0 .. BLOCK_SIZE - 1,
           BLOCK_SIZE * b + j < Length(i)
    PROVE  /\ BLOCK_SIZE * b + j + 1 \in 1 .. Length(i)
           /\ Contents(i)[BLOCK_SIZE * b + j + 1] = Blocks(i)[b + 1] * BLOCK_SIZE + j
           /\ Contents(i)[BLOCK_SIZE * b + j + 1] \in Nat
<1>1. BLOCK_SIZE \in Nat \ {0} /\ Length(i) \in Nat
    BY FileSysAssumption, InodeIs
<1>2. BLOCK_SIZE * b \in Nat
    BY <1>1, SMT
<1> DEFINE a == BLOCK_SIZE * b + j
<1>3. a \in Nat /\ a + 1 \in 1 .. Length(i) /\ (a + 1) - 1 = a
    BY <1>1, <1>2
<1>4. a \div BLOCK_SIZE = b /\ a % BLOCK_SIZE = j
    BY Place
<1>5. Blocks(i)[b + 1] \in Nat
    <2>1. BLOCK_SIZE * b < Length(i)
        BY <1>1, <1>2
    <2> QED
        BY <2>1, InFile
<1> HIDE DEF a
<1>6. Contents(i)[a + 1] = Blocks(i)[b + 1] * BLOCK_SIZE + j
    BY <1>3, <1>4 DEF Contents
<1>7. Blocks(i)[b + 1] * BLOCK_SIZE \in Nat
    BY <1>1, <1>5, SMT
<1>8. Contents(i)[a + 1] \in Nat
    BY <1>1, <1>6, <1>7
<1> QED
    BY <1>3, <1>6, <1>8 DEF a

\* So the contents are a sequence of bytes.
LEMMA ContentsIs ==
    ASSUME NEW i \in DOMAIN Inodes
    PROVE  Contents(i) \in Seq(Nat) /\ Len(Contents(i)) = Length(i)
<1>1. BLOCK_SIZE \in Nat \ {0} /\ Length(i) \in Nat
    BY FileSysAssumption, InodeIs
<1>2. ASSUME NEW k \in 1 .. Length(i) PROVE Contents(i)[k] \in Nat
    <2> DEFINE b == (k - 1) \div BLOCK_SIZE
               j == (k - 1) % BLOCK_SIZE
    <2>1. k - 1 \in Nat
        BY <1>1
    <2>2. k - 1 = BLOCK_SIZE * b + j /\ b \in Nat /\ j \in 0 .. BLOCK_SIZE - 1
        BY <1>1, <2>1, Division
    <2> HIDE DEF b, j
    <2>3. k = BLOCK_SIZE * b + j + 1
        <3>1. BLOCK_SIZE * b \in Nat
            BY <1>1, <2>2, SMT
        <3> QED
            BY <2>1, <2>2, <3>1
    <2>4. BLOCK_SIZE * b + j < Length(i)
        BY <1>1, <2>1, <2>2
    <2> QED
        BY <2>2, <2>3, <2>4, ByteIs
<1>3. Contents(i) = [k \in 1 .. Length(i) |-> Contents(i)[k]]
    BY DEF Contents
<1>4. Contents(i) \in [1 .. Length(i) -> Nat]
    BY <1>2, <1>3
<1> QED
    BY <1>1, <1>4

\* A copy takes the bytes that come next in the file, if it stays in its block, or
\* goes on into the next one where that follows on the disk.
LEMMA CopyRight ==
    ASSUME NEW i \in DOMAIN Inodes, NEW b \in Nat, NEW off \in 0 .. BLOCK_SIZE - 1, NEW n \in Nat,
           BLOCK_SIZE * b + off + n <= Length(i),
           \/ off + n <= BLOCK_SIZE
           \/ off + n <= 2 * BLOCK_SIZE /\ Blocks(i)[b + 2] = Blocks(i)[b + 1] + 1
    PROVE  Copy(Blocks(i)[b + 1], off, n)
              = SubSeq(Contents(i), BLOCK_SIZE * b + off + 1, BLOCK_SIZE * b + off + n)
<1> DEFINE a == BLOCK_SIZE * b + off
           whole == Contents(i)
           copy == Copy(Blocks(i)[b + 1], off, n)
           part == SubSeq(whole, a + 1, a + n)
<1>1. BLOCK_SIZE \in Nat \ {0} /\ Length(i) \in Nat /\ BLOCK_SIZE * b \in Nat
    BY FileSysAssumption, InodeIs, SMT
<1>2. a \in Nat /\ a + n <= Length(i)
    BY <1>1
<1>3. whole \in Seq(Nat) /\ Len(whole) = Length(i)
    BY ContentsIs
<1>4. ASSUME NEW j \in 1 .. n PROVE copy[j] = whole[a + j] /\ whole[a + j] \in Nat
    <2>1. copy[j] = Blocks(i)[b + 1] * BLOCK_SIZE + off + j - 1
        BY DEF Copy
    <2>2. CASE off + j - 1 < BLOCK_SIZE
        <3>1. off + j - 1 \in 0 .. BLOCK_SIZE - 1 /\ BLOCK_SIZE * b + (off + j - 1) < Length(i)
            BY <1>1, <2>2
        <3>2. /\ whole[BLOCK_SIZE * b + (off + j - 1) + 1]
                    = Blocks(i)[b + 1] * BLOCK_SIZE + (off + j - 1)
              /\ whole[BLOCK_SIZE * b + (off + j - 1) + 1] \in Nat
            BY <3>1, ByteIs
        <3>3. BLOCK_SIZE * b + (off + j - 1) + 1 = a + j
            BY <1>1
        <3>4. Blocks(i)[b + 1] * BLOCK_SIZE \in Nat
            <4>1. BLOCK_SIZE * b < Length(i)
                BY <1>1, <3>1
            <4>2. Blocks(i)[b + 1] \in Nat
                BY <4>1, InFile
            <4> QED
                BY <1>1, <4>2, SMT
        <3> HIDE DEF a, whole, copy
        <3> QED
            BY <2>1, <3>2, <3>3, <3>4
    <2>3. CASE off + j - 1 >= BLOCK_SIZE
        <3> DEFINE k == off + j - 1 - BLOCK_SIZE
        <3>1. k \in 0 .. BLOCK_SIZE - 1 /\ Blocks(i)[b + 2] = Blocks(i)[b + 1] + 1
            BY <1>1, <2>3
        <3>2. BLOCK_SIZE * (b + 1) = BLOCK_SIZE * b + BLOCK_SIZE
            BY <1>1, SMT
        <3>3. BLOCK_SIZE * (b + 1) + k < Length(i) /\ BLOCK_SIZE * (b + 1) + k + 1 = a + j
            BY <1>1, <3>2
        <3>4. b + 1 \in Nat /\ (b + 1) + 1 = b + 2
            OBVIOUS
        <3>5. whole[a + j] = Blocks(i)[b + 2] * BLOCK_SIZE + k /\ whole[a + j] \in Nat
            <4> HIDE DEF k, a
            <4> QED
                BY <3>1, <3>3, <3>4, ByteIs
        <3>6. Blocks(i)[b + 1] \in Nat
            <4>1. BLOCK_SIZE * b < Length(i)
                BY <1>1, <3>1, <3>2, <3>3
            <4> QED
                BY <4>1, InFile
        <3>7. (Blocks(i)[b + 1] + 1) * BLOCK_SIZE = Blocks(i)[b + 1] * BLOCK_SIZE + BLOCK_SIZE
            BY <1>1, <3>6, SMT
        <3>8. Blocks(i)[b + 1] * BLOCK_SIZE \in Nat
            BY <1>1, <3>6, SMT
        <3> HIDE DEF a, whole, copy
        <3>9. whole[a + j] = Blocks(i)[b + 1] * BLOCK_SIZE + BLOCK_SIZE + k
            BY <3>1, <3>5, <3>7
        <3> QED
            BY <1>1, <2>1, <3>5, <3>8, <3>9
    <2> QED
        BY <1>1, <2>2, <2>3
<1>5. copy \in Seq(Nat) /\ Len(copy) = n
    <2>1. copy = [j \in 1 .. n |-> copy[j]]
        BY DEF Copy
    <2>2. copy \in [1 .. n -> Nat]
        <3> HIDE DEF copy
        <3> QED
            BY <1>4, <2>1
    <2> HIDE DEF copy
    <2> QED
        BY <2>2
<1>6. part \in Seq(Nat) /\ Len(part) = n /\ \A j \in 1 .. n : part[j] = whole[a + j]
    <2>1. \A k \in a + 1 .. a + n : whole[k] \in Nat
        <3> HIDE DEF a, whole
        <3> QED
            BY <1>2, <1>3
    <2>2. a + 1 \in Int /\ a + n \in Int
        BY <1>2
    <2> HIDE DEF a, whole
    <2>3. /\ SubSeq(whole, a + 1, a + n) \in Seq(Nat)
          /\ Len(SubSeq(whole, a + 1, a + n))
                = IF a + 1 <= a + n THEN (a + n) - (a + 1) + 1 ELSE 0
          /\ \A j \in 1 .. (a + n) - (a + 1) + 1 :
                SubSeq(whole, a + 1, a + n)[j] = whole[(a + 1) + j - 1]
        BY <2>1, <2>2, SubSeqProperties
    <2>4. (a + n) - (a + 1) + 1 = n /\ (a + 1 <= a + n \/ n = 0)
        BY <1>2
    <2>5. \A j \in 1 .. n : (a + 1) + j - 1 = a + j
        BY <1>2
    <2> QED
        BY <2>3, <2>4, <2>5
<1> HIDE DEF a, whole, copy, part
<1>7. \A j \in 1 .. n : copy[j] = part[j]
    BY <1>4, <1>6
<1>8. copy = part
    BY <1>5, <1>6, <1>7, SeqEqual
<1> QED
    BY <1>1, <1>8 DEF copy, part, whole, a

\* A file's bytes from the first to the last, by two pieces.
LEMMA Joined ==
    ASSUME NEW i \in DOMAIN Inodes, NEW k \in Nat, NEW m \in Nat, NEW n \in Nat,
           k <= m, m <= n, n <= Length(i)
    PROVE  SubSeq(Contents(i), k + 1, m) \o SubSeq(Contents(i), m + 1, n)
              = SubSeq(Contents(i), k + 1, n)
<1> DEFINE whole == Contents(i)
<1>1. whole \in Seq(Nat) /\ Len(whole) = Length(i) /\ Length(i) \in Nat
    BY ContentsIs, InodeIs
<1> HIDE DEF whole
<1>2. k + 1 \in 1 .. Len(whole) + 1 /\ m \in (k + 1) - 1 .. Len(whole) /\ n \in m .. Len(whole)
    BY <1>1
<1>3. SubSeq(whole, k + 1, m) \o SubSeq(whole, m + 1, n) = SubSeq(whole, k + 1, n)
    BY <1>1, <1>2, ConcatAdjacentSubSeq
<1> QED
    BY <1>3 DEF whole

\* What holds when a read of n bytes from `offset' is k rounds of the loop on: what was
\* copied is what the file has there, the next round begins where it ended, and no
\* block but the first is begun in the middle.  A round that copies less than the rest
\* of a block can only be the first.
Reading(i, offset, n, c) ==
    /\ c \in [out : Seq(Nat), remain : 0 .. n, block : Nat, off : 0 .. BLOCK_SIZE - 1]
    /\ BLOCK_SIZE * c.block + c.off = offset + n - c.remain
    /\ c.out = SubSeq(Contents(i), offset + 1, offset + n - c.remain)
    /\ c.off # 0 => c.remain = n

\* A round of the loop keeps that, and gets on.
LEMMA OneRound ==
    ASSUME NEW i \in DOMAIN Inodes, NEW offset \in Nat, NEW n \in Nat, offset + n <= Length(i),
           NEW c, Reading(i, offset, n, c)
    PROVE  /\ Reading(i, offset, n, Loop(i, c))
           /\ c.remain < BLOCK_SIZE => Loop(i, c) = c
           /\ c.remain >= BLOCK_SIZE =>
                 Loop(i, c).remain = c.remain - BLOCK_SIZE + c.off
<1>1. BLOCK_SIZE \in Nat \ {0} /\ MaxBlocks \in Nat /\ Length(i) \in Nat
    BY FileSysAssumption, InodeIs
<1>0. PICK out \in Seq(Nat), remain \in 0 .. n, block \in Nat, off \in 0 .. BLOCK_SIZE - 1 :
         c = [out |-> out, remain |-> remain, block |-> block, off |-> off]
    BY DEF Reading
<1>2. /\ BLOCK_SIZE * block + off = offset + n - remain
      /\ out = SubSeq(Contents(i), offset + 1, offset + n - remain)
      /\ off # 0 => remain = n
    BY <1>0 DEF Reading
<1>3. BLOCK_SIZE * block \in Nat
    BY <1>1, <1>2, SMT
<1>4. CASE remain < BLOCK_SIZE
    <2>1. Loop(i, c) = c
        BY <1>0, <1>4 DEF Loop
    <2> QED
        BY <1>0, <1>1, <1>4, <2>1
<1>5. CASE remain >= BLOCK_SIZE
    <2> DEFINE m == BLOCK_SIZE - off
               r == remain - m
               copy == Copy(Blocks(i)[block + 1], off, m)
    <2>1. m \in Nat /\ off + m = BLOCK_SIZE /\ r \in 0 .. n
        BY <1>1, <1>2, <1>5
    <2>2. BLOCK_SIZE * block < Length(i)
        BY <1>1, <1>2, <1>3, <1>5
    <2>3. block < MaxBlocks
        BY <1>2, <2>2, InFile
    <2>4. Loop(i, c) = [out |-> out \o copy, remain |-> r, block |-> block + 1, off |-> 0]
        BY <1>0, <1>1, <1>5, <2>3 DEF Loop
    <2>5. BLOCK_SIZE * block + off + m = offset + n - r
        BY <1>1, <1>2, <1>3, <2>1
    <2>6. BLOCK_SIZE * block + off + m <= Length(i)
        BY <1>1, <2>1, <2>5
    <2> HIDE DEF m, r
    <2>7. copy = SubSeq(Contents(i), BLOCK_SIZE * block + off + 1, BLOCK_SIZE * block + off + m)
        <3>1. off + m <= BLOCK_SIZE
            BY <1>1, <2>1
        <3> QED
            BY <2>1, <2>6, <3>1, CopyRight
    <2> DEFINE at == offset + n - remain
               then == offset + n - r
    <2>8. copy = SubSeq(Contents(i), at + 1, then)
        BY <1>2, <2>5, <2>7
    <2>9. at \in Nat /\ then \in Nat /\ offset <= at /\ at <= then /\ then <= Length(i)
        BY <1>1, <1>2, <2>1, <2>5
    <2>10. out \o copy = SubSeq(Contents(i), offset + 1, then)
        <3> HIDE DEF at, then, copy
        <3>1. out = SubSeq(Contents(i), offset + 1, at)
            BY <1>2 DEF at
        <3> QED
            BY <2>8, <2>9, <3>1, Joined
    <2>11. out \o copy \in Seq(Nat)
        <3>1. Contents(i) \in Seq(Nat) /\ Len(Contents(i)) = Length(i)
            BY ContentsIs
        <3>2. \A k \in offset + 1 .. then : Contents(i)[k] \in Nat
            <4> DEFINE s == Contents(i)
            <4>1. s \in Seq(Nat) /\ Len(s) = Length(i)
                BY <3>1
            <4> HIDE DEF s, then
            <4>2. \A k \in offset + 1 .. then : s[k] \in Nat
                BY <1>1, <2>9, <4>1
            <4> QED
                BY <4>2 DEF s
        <3> HIDE DEF then
        <3>3. SubSeq(Contents(i), offset + 1, then) \in Seq(Nat)
            <4>1. offset + 1 \in Int /\ then \in Int
                BY <2>9
            <4> QED
                BY <3>2, <4>1, SubSeqProperties
        <3> QED
            BY <2>10, <3>3
    <2>12. BLOCK_SIZE * (block + 1) + 0 = then
        <3>1. BLOCK_SIZE * (block + 1) = BLOCK_SIZE * block + BLOCK_SIZE
            BY <1>1, <1>2, SMT
        <3> QED
            BY <1>1, <1>2, <1>3, <2>1, <2>5, <3>1
    <2> HIDE DEF copy
    <2>13. Reading(i, offset, n, Loop(i, c))
        <3> DEFINE d == [out |-> out \o copy, remain |-> r, block |-> block + 1, off |-> 0]
        <3>1. d \in [out : Seq(Nat), remain : 0 .. n, block : Nat, off : 0 .. BLOCK_SIZE - 1]
            <4>1. block + 1 \in Nat /\ 0 \in 0 .. BLOCK_SIZE - 1
                BY <1>1, <1>2
            <4> QED
                BY <2>1, <2>11, <4>1
        <3>2. d.remain = r /\ d.block = block + 1 /\ d.off = 0 /\ d.out = out \o copy
            OBVIOUS
        <3> HIDE DEF d
        <3>3. Reading(i, offset, n, d)
            BY <2>10, <2>12, <3>1, <3>2 DEF Reading
        <3> QED
            BY <2>4, <3>3 DEF d
    <2>14. Loop(i, c).remain = c.remain - BLOCK_SIZE + off
        BY <1>0, <1>1, <2>4 DEF r, m
    <2> QED
        BY <1>0, <1>1, <1>5, <2>13, <2>14
<1> QED
    BY <1>1, <1>4, <1>5

\* The loop ends with less than a block to go.
LEMMA AllRounds ==
    ASSUME NEW i \in DOMAIN Inodes, NEW offset \in Nat, NEW n \in Nat, offset + n <= Length(i),
           NEW c, Reading(i, offset, n, c), c.remain = n
    PROVE  Reading(i, offset, n, Rounds(i, c)) /\ Rounds(i, c).remain < BLOCK_SIZE
<1> DEFINE C == {d \in [out : Seq(Nat), remain : 0 .. n, block : Nat, off : 0 .. BLOCK_SIZE - 1] :
                    Reading(i, offset, n, d)}
           N == (n \div BLOCK_SIZE) + 1
           F == [x \in (1 .. N) \X C |-> Loop(i, x[2])]
           Def(f) == [k \in 0 .. N |-> IF k = 0 THEN c ELSE Loop(i, f[k - 1])]
           r == CHOOSE f : f = Def(f)
<1>1. BLOCK_SIZE \in Nat \ {0} /\ n \div BLOCK_SIZE \in Nat /\ N \in Nat
    <2>1. BLOCK_SIZE \in Nat \ {0}
        BY FileSysAssumption
    <2>2. n \div BLOCK_SIZE \in Nat
        BY <2>1, Division
    <2> QED
        BY <2>1, <2>2
<1>2. \A d : Reading(i, offset, n, d) => d \in C
    BY DEF Reading
<1>3. c \in C
    BY <1>2
<1>4. F \in [(1 .. N) \X C -> C]
    BY <1>2, OneRound
<1>5. \E g : g \in Iterates(N, C, c, F)
    <2> HIDE DEF N, F, C
    <2> QED
        BY <1>1, <1>3, <1>4, IteratesExist
<1>6. PICK g \in [0 .. N -> C] : g[0] = c /\ \A k \in 1 .. N : g[k] = F[<<k, g[k - 1]>>]
    BY <1>5 DEF Iterates
<1>7. ASSUME NEW k \in 0 .. N - 1 PROVE g[k] \in C /\ g[k + 1] = Loop(i, g[k])
    <2>1. k + 1 \in 1 .. N /\ k \in 0 .. N /\ (k + 1) - 1 = k
        BY <1>1
    <2>2. g[k] \in C
        BY <1>6, <2>1
    <2>3. <<k + 1, g[k]>> \in (1 .. N) \X C
        BY <2>1, <2>2
    <2>4. g[k + 1] = F[<<k + 1, g[k]>>]
        BY <1>6, <2>1
    <2>5. F[<<k + 1, g[k]>>] = Loop(i, g[k])
        BY <2>3
    <2> QED
        BY <2>2, <2>4, <2>5
<1>8. \A k \in 0 .. N : Reading(i, offset, n, g[k])
    BY <1>6
<1>9. g[N].remain < BLOCK_SIZE
    <2> DEFINE Left(k) == g[k].remain
               T == {k \in 0 .. N :
                        Left(k) < BLOCK_SIZE \/ k = 0 \/ Left(k) + BLOCK_SIZE * (k - 1) + 1 <= n}
    <2>1. \A k \in 0 .. N : Left(k) \in 0 .. n /\ g[k].off \in 0 .. BLOCK_SIZE - 1
        BY <1>8 DEF Reading
    <2>2. 0 \in T
        BY <1>1
    <2>3. ASSUME NEW k \in 0 .. N - 1, k \in T PROVE k + 1 \in T
        <3>1. k \in 0 .. N /\ k + 1 \in 0 .. N /\ k \in Nat /\ (k + 1) - 1 = k
            BY <1>1
        <3>2. /\ Left(k) < BLOCK_SIZE => g[k + 1] = g[k]
              /\ Left(k) >= BLOCK_SIZE => Left(k + 1) = Left(k) - BLOCK_SIZE + g[k].off
            BY <1>7, <1>8, <3>1, OneRound
        <3>3. g[k].off # 0 => Left(k) = n
            BY <1>8, <3>1 DEF Reading
        <3> DEFINE u == Left(k)
                   v == Left(k + 1)
                   o == g[k].off
        <3>4. u \in 0 .. n /\ v \in 0 .. n /\ o \in 0 .. BLOCK_SIZE - 1 /\ BLOCK_SIZE * k \in Nat
            <4>1. BLOCK_SIZE * k \in Nat
                BY <1>1, <3>1, SMT
            <4> HIDE DEF Left
            <4> QED
                BY <2>1, <3>1, <4>1
        <3>5. u < BLOCK_SIZE => v = u
            BY <3>2
        <3>6. u >= BLOCK_SIZE => v = u - BLOCK_SIZE + o
            BY <3>2
        <3>7. u < BLOCK_SIZE \/ k = 0 \/ u + BLOCK_SIZE * (k - 1) + 1 <= n
            BY <2>3
        <3>8. o # 0 => u = n
            BY <3>3
        <3>9. k # 0 => BLOCK_SIZE * (k - 1) \in Nat /\ BLOCK_SIZE * k = BLOCK_SIZE * (k - 1) + BLOCK_SIZE
            BY <1>1, <3>1, SMT
        <3> HIDE DEF u, v, o, Left
        <3>10. CASE u < BLOCK_SIZE
            <4>1. Left(k + 1) < BLOCK_SIZE
                BY <3>5, <3>10 DEF v
            <4> QED
                BY <3>1, <4>1
        <3>11. CASE u >= BLOCK_SIZE /\ k = 0
            <4>1. BLOCK_SIZE * 0 = 0
                BY <1>1, SMT
            <4>2. v + 0 + 1 <= n
                BY <1>1, <3>4, <3>6, <3>11
            <4>3. Left(k + 1) + BLOCK_SIZE * ((k + 1) - 1) + 1 <= n
                BY <3>4, <3>11, <4>1, <4>2 DEF v
            <4> QED
                BY <3>1, <4>3
        <3>12. CASE u >= BLOCK_SIZE /\ k # 0
            <4>1. u < n
                BY <1>1, <3>4, <3>7, <3>9, <3>12
            <4>2. v = u - BLOCK_SIZE
                BY <1>1, <3>4, <3>6, <3>8, <3>12, <4>1
            <4>3. v + BLOCK_SIZE * k + 1 <= n
                BY <1>1, <3>4, <3>7, <3>9, <3>12, <4>2
            <4>4. Left(k + 1) + BLOCK_SIZE * ((k + 1) - 1) + 1 <= n
                BY <3>1, <4>3 DEF v
            <4> QED
                BY <3>1, <4>4
        <3> QED
            BY <1>1, <3>4, <3>10, <3>11, <3>12
    <2>4. N \in T
        <3>1. 0 .. N \subseteq T
            <4> HIDE DEF T, N
            <4> QED
                BY <1>1, <2>2, <2>3, BoundedInduction
        <3>2. N \in 0 .. N
            BY <1>1
        <3> HIDE DEF T, N
        <3> QED
            BY <3>1, <3>2
    <2>5. n = BLOCK_SIZE * (n \div BLOCK_SIZE) + (n % BLOCK_SIZE) /\ n % BLOCK_SIZE \in 0 .. BLOCK_SIZE - 1
        BY <1>1, Division
    <2>6. N # 0 /\ N - 1 = n \div BLOCK_SIZE /\ N \in 0 .. N
        BY <1>1
    <2>7. BLOCK_SIZE * (n \div BLOCK_SIZE) \in Nat
        BY <1>1, SMT
    <2>8. Left(N) < BLOCK_SIZE \/ Left(N) + BLOCK_SIZE * (n \div BLOCK_SIZE) + 1 <= n
        <3> HIDE DEF N, Left
        <3> QED
            BY <2>4, <2>6
    <2>9. Left(N) \in 0 .. n
        <3> HIDE DEF N, Left
        <3> QED
            BY <2>1, <2>6
    <2> HIDE DEF N, Left
    <2>10. Left(N) < BLOCK_SIZE
        BY <1>1, <2>5, <2>7, <2>8, <2>9, SMTT(30)
    <2> QED
        BY <2>10 DEF Left
<1>10. g = Def(g)
    <2>1. ASSUME NEW k \in 0 .. N PROVE g[k] = Def(g)[k]
        <3>1. CASE k = 0
            BY <1>6, <3>1
        <3>2. CASE k # 0
            <4>1. k - 1 \in 0 .. N - 1 /\ (k - 1) + 1 = k
                BY <1>1, <3>2
            <4>2. g[(k - 1) + 1] = Loop(i, g[k - 1])
                <5> HIDE DEF N, C
                <5> QED
                    BY <1>7, <4>1
            <4> QED
                BY <3>2, <4>1, <4>2
        <3> QED
            BY <3>1, <3>2
    <2> HIDE DEF N
    <2> QED
        BY <1>6, <2>1
<1>11. r = Def(r)
    <2> HIDE DEF Def
    <2> QED
        BY <1>10
<1>12. Rounds(i, c) = r[N]
    BY DEF Rounds
<1> HIDE DEF r
<1>13. r[N] = g[N]
    <2> DEFINE V == {k \in 0 .. N : r[k] = g[k]}
    <2>1. 0 \in V
        <3>1. 0 \in 0 .. N
            BY <1>1
        <3> HIDE DEF N
        <3>2. r[0] = c
            BY <1>11, <3>1
        <3> QED
            BY <1>6, <3>1, <3>2
    <2>2. ASSUME NEW k \in 0 .. N - 1, k \in V PROVE k + 1 \in V
        <3>1. k + 1 \in 0 .. N /\ k + 1 # 0 /\ (k + 1) - 1 = k
            BY <1>1
        <3>2. r[k + 1] = Loop(i, r[k])
            BY <1>11, <3>1
        <3>3. g[k + 1] = Loop(i, g[k])
            BY <1>7
        <3> QED
            BY <2>2, <3>1, <3>2, <3>3
    <2>3. 0 .. N \subseteq V
        <3> HIDE DEF V, N
        <3> QED
            BY <1>1, <2>1, <2>2, BoundedInduction
    <2>4. N \in 0 .. N
        BY <1>1
    <2> QED
        BY <2>3, <2>4
<1>14. N \in 0 .. N
    BY <1>1
<1> QED
    BY <1>8, <1>9, <1>12, <1>13, <1>14

\* read_data returns how much the file has from the offset on, of what was asked for, and
\* copies that, unless it runs on into a foreign block.
LEMMA ReadDataRight ==
    ASSUME NEW i \in DOMAIN Inodes, i \in 1 .. 63, NEW offset \in Nat, offset <= Length(i),
           NEW nbytes \in Nat
    PROVE  \E n \in Nat : /\ offset + n <= Length(i)
                          /\ ReadData(i, offset, nbytes).ret = n
                          /\ ~RunsOn(i, offset, nbytes) =>
                                ReadData(i, offset, nbytes).out
                                   = SubSeq(Contents(i), offset + 1, offset + n)
<1>0. ~(i > 63)
  <2>1. \A k \in 1 .. 63 : ~(k > 63)
      OBVIOUS
  <2> QED
      BY <2>1
<1>1. BLOCK_SIZE \in Nat \ {0} /\ MaxBlocks \in Nat /\ Length(i) \in Nat /\ Length(i) < BLOCK_SIZE * MaxBlocks
    BY FileSysAssumption, InodeIs
<1> DEFINE end == LeastOf(offset + nbytes, Length(i))
           n == end - offset
           c0 == [out |-> <<>>, remain |-> n, block |-> offset \div BLOCK_SIZE,
                  off |-> offset % BLOCK_SIZE]
           c == Rounds(i, c0)
<1>2. end \in Nat /\ end <= Length(i) /\ n \in Nat /\ offset + n = end
    BY <1>1 DEF LeastOf
<1> HIDE DEF end
<1>3. /\ offset = BLOCK_SIZE * (offset \div BLOCK_SIZE) + (offset % BLOCK_SIZE)
      /\ offset \div BLOCK_SIZE \in Nat /\ offset % BLOCK_SIZE \in 0 .. BLOCK_SIZE - 1
    BY <1>1, Division
<1> HIDE DEF n
<1>4. Reading(i, offset, n, c0) /\ c0.remain = n
    <2>1. c0 \in [out : Seq(Nat), remain : 0 .. n, block : Nat, off : 0 .. BLOCK_SIZE - 1]
        BY <1>2, <1>3
    <2>2. SubSeq(Contents(i), offset + 1, offset + n - n) = <<>>
        <3>1. offset + n - n = offset /\ offset \in Int /\ offset + 1 \in Int /\ offset < offset + 1
            BY <1>2
        <3> QED
            BY <3>1, SubSeqEmpty
    <2>3. BLOCK_SIZE * (offset \div BLOCK_SIZE) + (offset % BLOCK_SIZE) = offset + n - n
        BY <1>2, <1>3
    <2> QED
        BY <2>1, <2>2, <2>3 DEF Reading
<1> HIDE DEF c0
<1>5. Reading(i, offset, n, c) /\ c.remain < BLOCK_SIZE
    BY <1>2, <1>4, AllRounds
<1> HIDE DEF c
<1>6. PICK out \in Seq(Nat), remain \in 0 .. n, block \in Nat, off \in 0 .. BLOCK_SIZE - 1 :
         c = [out |-> out, remain |-> remain, block |-> block, off |-> off]
    BY <1>5 DEF Reading
<1>7. /\ BLOCK_SIZE * block + off = offset + n - remain
      /\ out = SubSeq(Contents(i), offset + 1, offset + n - remain)
      /\ off # 0 => remain = n
      /\ remain < BLOCK_SIZE
    BY <1>5, <1>6 DEF Reading
<1>8. BLOCK_SIZE * block \in Nat /\ BLOCK_SIZE * MaxBlocks \in Nat
    BY <1>1, SMT
<1>9. block < MaxBlocks
    <2> SUFFICES ASSUME MaxBlocks <= block PROVE FALSE
        BY <1>1, SMT
    <2>1. BLOCK_SIZE * MaxBlocks <= BLOCK_SIZE * block
        BY <1>1, TimesOrder
    <2> QED
        BY <1>1, <1>2, <1>7, <1>8, <2>1
<1> DEFINE copy == Copy(Blocks(i)[block + 1], off, remain)
<1>10. ReadData(i, offset, nbytes)
          = [ret |-> n, out |-> IF remain = 0 THEN out ELSE out \o copy]
    <2>1. ~(i > 63) /\ ~(Length(i) < offset) /\ ~(c.block >= MaxBlocks)
        <3>1. c.block = block
            BY <1>6
        <3> QED
            BY <1>0, <1>1, <1>9, <3>1
    <2>2. ReadData(i, offset, nbytes)
             = [ret |-> n,
                out |-> IF c.remain = 0 THEN c.out
                        ELSE c.out \o Copy(Blocks(i)[c.block + 1], c.off, c.remain)]
        BY <2>1 DEF ReadData, c, c0, n, end
    <2> QED
        BY <1>6, <2>2
<1>11. CASE remain = 0
    <2>1. offset + n - remain = offset + n
        BY <1>2, <1>11
    <2> QED
        BY <1>2, <1>7, <1>10, <1>11, <2>1
<1>12. ASSUME remain # 0, ~RunsOn(i, offset, nbytes)
       PROVE  ReadData(i, offset, nbytes).out = SubSeq(Contents(i), offset + 1, offset + n)
    <2>1. /\ off + remain <= 2 * BLOCK_SIZE
          /\ off + remain <= BLOCK_SIZE \/ Blocks(i)[block + 2] = Blocks(i)[block + 1] + 1
        <3>1. CASE off = 0
            BY <1>1, <1>7, <3>1
        <3>2. CASE off # 0
            <4>1. BLOCK_SIZE * block + off = offset /\ n < BLOCK_SIZE /\ remain = n
                BY <1>2, <1>7, <1>8, <3>2
            <4>2. offset \div BLOCK_SIZE = block
                BY <4>1, Place
            <4>3. \/ ~(end - offset < BLOCK_SIZE)
                  \/ ~((block + 1) * BLOCK_SIZE < end)
                  \/ Blocks(i)[block + 2] = Blocks(i)[block + 1] + 1
                BY <1>12, <4>2 DEF RunsOn, end
            <4>4. end - offset = n
                BY DEF n
            <4>5. (block + 1) * BLOCK_SIZE = BLOCK_SIZE * block + BLOCK_SIZE
                BY <1>1, SMT
            <4> QED
                BY <1>1, <1>2, <1>8, <4>1, <4>3, <4>4, <4>5
        <3> QED
            BY <3>1, <3>2
    <2>2. BLOCK_SIZE * block + off + remain = offset + n
        BY <1>2, <1>7, <1>8
    <2>3. BLOCK_SIZE * block + off + remain <= Length(i)
        BY <1>2, <2>2
    <2>4. copy = SubSeq(Contents(i), BLOCK_SIZE * block + off + 1, BLOCK_SIZE * block + off + remain)
        <3> HIDE DEF copy
        <3> QED
            BY <2>1, <2>3, CopyRight DEF copy
    <2> DEFINE at == offset + n - remain
    <2>5. at \in Nat /\ offset <= at /\ at <= offset + n /\ offset + n \in Nat /\ offset + n <= Length(i)
        BY <1>2
    <2>6. copy = SubSeq(Contents(i), at + 1, offset + n)
        BY <1>7, <2>2, <2>4
    <2>7. out \o copy = SubSeq(Contents(i), offset + 1, offset + n)
        <3>1. out = SubSeq(Contents(i), offset + 1, at)
            BY <1>7
        <3> HIDE DEF at, copy
        <3> QED
            BY <2>5, <2>6, <3>1, Joined
    <2> HIDE DEF copy
    <2>8. ReadData(i, offset, nbytes) = [ret |-> n, out |-> out \o copy]
        BY <1>10, <1>12
    <2>9. \A R, r, s : R = [ret |-> r, out |-> s] => R.out = s
        OBVIOUS
    <2> QED
        BY <2>7, <2>8, <2>9, Zenon
<1> HIDE DEF copy
<1>13. ReadData(i, offset, nbytes).ret = n
    BY <1>10
<1>14. n \in Nat /\ offset + n <= Length(i)
    BY <1>2
<1> QED
    BY <1>11, <1>12, <1>13, <1>14

-----------------------------------------------------------------------------
(* descriptors *)

IsFile(i) == i \in DOMAIN Inodes /\ i \in 1 .. 63

\* the names, in the order of the directory
Listing == [i \in DOMAIN Dentries |-> Name(i)]

\* what a descriptor is read from
Whole(d) == IF d.op = REGULAR THEN Contents(d.inode) ELSE Listing

\* A descriptor is closed, or of a device, a directory or a file that exists, and its
\* position is not beyond the end.
Good(d) ==
    /\ d \in [op : {-1, RTC_FILE, DIRECTORY, REGULAR}, pos : Nat, inode : Nat]
    /\ d.op = REGULAR => IsFile(d.inode)
    /\ d.op \in {REGULAR, DIRECTORY} => d.pos <= Len(Whole(d))

\* What was read through it, unless reads run on, is the beginning.
Begins(d, s) == ~AnyRead /\ d.op \in {REGULAR, DIRECTORY} => s = SubSeq(Whole(d), 1, d.pos)

Descriptors ==
    /\ fds = [p \in Procs |-> [f \in Fds(p) |-> fds[p][f]]]
    /\ seen = [p \in Procs |-> [f \in Fds(p) |-> seen[p][f]]]
    /\ \A p \in Procs : \A f \in Fds(p) : Good(fds[p][f]) /\ Begins(fds[p][f], seen[p][f])

\* The directory.
LEMMA Directory ==
    /\ Dentries \in Seq(STRING \X {RTC_FILE, DIRECTORY, REGULAR} \X Nat)
    /\ Listing \in Seq(STRING) /\ Len(Listing) = Len(Dentries)
    /\ Len(Dentries) \in Nat /\ DOMAIN Dentries = 1 .. Len(Dentries)
    /\ \A i \in DOMAIN Dentries :
          /\ Type(i) \in {RTC_FILE, DIRECTORY, REGULAR} /\ Inode(i) \in Nat
          /\ Type(i) = REGULAR => IsFile(Inode(i))
<1> DEFINE T == STRING \X {RTC_FILE, DIRECTORY, REGULAR} \X Nat
<1>1. Dentries \in Seq(T)
    BY FileSysAssumption
<1>2. Len(Dentries) \in Nat /\ DOMAIN Dentries = 1 .. Len(Dentries)
    <2> HIDE DEF T
    <2> QED
        BY <1>1
<1>3. ASSUME NEW i \in DOMAIN Dentries
      PROVE  /\ Name(i) \in STRING /\ Type(i) \in {RTC_FILE, DIRECTORY, REGULAR} /\ Inode(i) \in Nat
             /\ Type(i) = REGULAR => IsFile(Inode(i))
    <2>1. Dentries[i] \in T
        <3> HIDE DEF T
        <3> QED
            BY <1>1, <1>2
    <2>2. Name(i) \in STRING /\ Type(i) \in {RTC_FILE, DIRECTORY, REGULAR} /\ Inode(i) \in Nat
        BY <2>1 DEF Name, Type, Inode
    <2> QED
        BY <2>2, FileSysAssumption DEF IsFile
<1>4. Listing \in [1 .. Len(Dentries) -> STRING]
    BY <1>2, <1>3 DEF Listing
<1>5. Listing \in Seq(STRING) /\ Len(Listing) = Len(Dentries)
    BY <1>2, <1>4
<1> QED
    BY <1>1, <1>2, <1>3, <1>5

\* What a descriptor is read from is a sequence.
LEMMA WholeIs ==
    ASSUME NEW d, d.op = REGULAR => IsFile(d.inode)
    PROVE  Whole(d) \in Seq(Nat) \cup Seq(STRING) /\ Len(Whole(d)) \in Nat
<1>1. CASE d.op = REGULAR
    <2>1. d.inode \in DOMAIN Inodes
        BY <1>1 DEF IsFile
    <2>2. Contents(d.inode) \in Seq(Nat) /\ Len(Contents(d.inode)) \in Nat
        BY <2>1, ContentsIs, InodeIs
    <2> QED
        BY <1>1, <2>2 DEF Whole
<1>2. CASE d.op # REGULAR
    BY <1>2, Directory DEF Whole
<1> QED
    BY <1>1, <1>2

\* A descriptor that is opened or closed has been read nothing of.
LEMMA AtStart ==
    ASSUME NEW d, d \in [op : {-1, RTC_FILE, DIRECTORY, REGULAR}, pos : {0}, inode : Nat],
           d.op = REGULAR => IsFile(d.inode)
    PROVE  Good(d) /\ Begins(d, <<>>)
<1>1. d.pos = 0 /\ d \in [op : {-1, RTC_FILE, DIRECTORY, REGULAR}, pos : Nat, inode : Nat]
    OBVIOUS
<1>2. Len(Whole(d)) \in Nat
    BY WholeIs
<1>3. SubSeq(Whole(d), 1, 0) = <<>>
    BY SubSeqEmpty
<1> QED
    BY <1>1, <1>2, <1>3 DEF Good, Begins

\* One descriptor changes.
LEMMA OneChanges ==
    ASSUME Descriptors, NEW p \in Procs, NEW f \in Fds(p), NEW d, NEW s,
           fds' = [fds EXCEPT ![p][f] = d], seen' = [seen EXCEPT ![p][f] = s],
           Good(d), Begins(d, s)
    PROVE  Descriptors'
<1>1. \A q \in Procs : \A g \in Fds(q) :
          /\ fds'[q][g] = IF q = p /\ g = f THEN d ELSE fds[q][g]
          /\ seen'[q][g] = IF q = p /\ g = f THEN s ELSE seen[q][g]
    BY DEF Descriptors
<1>2. fds' = [q \in Procs |-> [g \in Fds(q) |-> fds'[q][g]]]
    BY DEF Descriptors
<1>3. seen' = [q \in Procs |-> [g \in Fds(q) |-> seen'[q][g]]]
    BY DEF Descriptors
<1>4. ASSUME NEW q \in Procs, NEW g \in Fds(q) PROVE (Good(fds[q][g]) /\ Begins(fds[q][g], seen[q][g]))'
    BY <1>1 DEF Descriptors, Good, Begins
<1> QED
    BY <1>2, <1>3, <1>4 DEF Descriptors, Fds

\* A set of numbers that is not empty has a least one, to be chosen.
LEMMA LeastChosen ==
    ASSUME NEW S \in SUBSET Nat, S # {}
    PROVE  (CHOOSE g \in S : \A h \in S : g <= h) \in S
<1>1. \E g \in S : \A h \in S : g <= h
    BY LeastNat
<1> QED
    BY <1>1

\* read_dentry_by_name finds an entry, if any.
LEMMA EntryIs ==
    ASSUME NEW name, DentryByName(name) # 0
    PROVE  DentryByName(name) \in DOMAIN Dentries
<1> DEFINE Named == {i \in DOMAIN Dentries : Name(i) = name}
<1>1. Named \in SUBSET Nat
    BY Directory
<1>2. Named # {} /\ DentryByName(name) = CHOOSE i \in Named : \A j \in Named : i <= j
    BY DEF DentryByName
<1>3. DentryByName(name) \in Named
    <2> HIDE DEF Named
    <2> QED
        BY <1>1, <1>2, LeastChosen
<1> QED
    BY <1>3

LEMMA OpenStep == ASSUME Descriptors, NEW p \in Procs, Open(p) PROVE Descriptors'
<1>1. PICK name \in Names[p] :
          LET i    == DentryByName(name)
              Free == {f \in Fds(p) : fds[p][f] = Closed}
          IN  /\ i # 0 /\ Free # {}
              /\ LET f == CHOOSE g \in Free : \A h \in Free : g <= h
                     inode == IF Type(i) = REGULAR THEN Inode(i) ELSE 0
                 IN  /\ fds' = [fds EXCEPT ![p][f] = [op |-> Type(i), pos |-> 0, inode |-> inode]]
                     /\ seen' = [seen EXCEPT ![p][f] = <<>>]
    BY DEF Open
<1> DEFINE i == DentryByName(name)
           Free == {f \in Fds(p) : fds[p][f] = Closed}
           f == CHOOSE g \in Free : \A h \in Free : g <= h
           d == [op |-> Type(i), pos |-> 0, inode |-> IF Type(i) = REGULAR THEN Inode(i) ELSE 0]
<1>2. i \in DOMAIN Dentries
    BY <1>1, EntryIs
<1>3. f \in Fds(p)
    <2>1. Fds(p) \in SUBSET Nat
        BY FilesAssumption DEF Fds
    <2>2. Free \in SUBSET Nat /\ Free # {}
        BY <1>1, <2>1
    <2> HIDE DEF Free
    <2>3. f \in Free
        BY <2>2, LeastChosen
    <2> QED
        BY <2>3 DEF Free
<1>4. fds' = [fds EXCEPT ![p][f] = d] /\ seen' = [seen EXCEPT ![p][f] = <<>>]
    BY <1>1
<1> HIDE DEF i, f, Free
<1>5. d \in [op : {-1, RTC_FILE, DIRECTORY, REGULAR}, pos : {0}, inode : Nat]
    BY <1>2, Directory
<1>6. d.op = REGULAR => IsFile(d.inode)
    BY <1>2, Directory
<1> HIDE DEF d
<1> QED
    BY <1>3, <1>4, <1>5, <1>6, AtStart, OneChanges

LEMMA ClosedIsGood == Good(Closed) /\ Begins(Closed, <<>>)
<1>1. Closed \in [op : {-1, RTC_FILE, DIRECTORY, REGULAR}, pos : {0}, inode : Nat] /\ Closed.op # REGULAR
    BY DEF Closed, REGULAR
<1> QED
    BY <1>1, AtStart

LEMMA CloseStep == ASSUME Descriptors, NEW p \in Procs, Close(p) PROVE Descriptors'
<1>1. PICK f \in Fds(p) : fds' = [fds EXCEPT ![p][f] = Closed] /\ seen' = [seen EXCEPT ![p][f] = <<>>]
    BY DEF Close
<1> QED
    BY <1>1, ClosedIsGood, OneChanges

LEMMA HaltClosesStep == ASSUME Descriptors, NEW p \in Procs, HaltCloses(p) PROVE Descriptors'
<1>1. /\ fds' = [fds EXCEPT ![p] = [f \in Fds(p) |-> Closed]]
      /\ seen' = [seen EXCEPT ![p] = [f \in Fds(p) |-> <<>>]]
    BY DEF HaltCloses
<1>2. \A q \in Procs : \A g \in Fds(q) :
          /\ fds'[q][g] = IF q = p THEN Closed ELSE fds[q][g]
          /\ seen'[q][g] = IF q = p THEN <<>> ELSE seen[q][g]
    BY <1>1 DEF Descriptors
<1>3. fds' = [q \in Procs |-> [g \in Fds(q) |-> fds'[q][g]]]
    BY <1>1 DEF Descriptors
<1>4. seen' = [q \in Procs |-> [g \in Fds(q) |-> seen'[q][g]]]
    BY <1>1 DEF Descriptors
<1>5. ASSUME NEW q \in Procs, NEW g \in Fds(q) PROVE (Good(fds[q][g]) /\ Begins(fds[q][g], seen[q][g]))'
    BY <1>2, ClosedIsGood DEF Descriptors, Good, Begins
<1> QED
    BY <1>3, <1>4, <1>5 DEF Descriptors, Fds

\* A read goes on where the one before ended.
LEMMA FileReadStep == ASSUME Descriptors, NEW p \in Procs, FileRead(p) PROVE Descriptors'
<1>1. PICK f \in Fds(p), n \in Sizes :
          LET d == fds[p][f]
              r == ReadData(d.inode, d.pos, n)
          IN  /\ IsOpen(p, f, REGULAR)
              /\ AnyRead \/ ~RunsOn(d.inode, d.pos, n)
              /\ fds' = [fds EXCEPT ![p][f].pos = IF d.inode # 0 THEN @ + r.ret ELSE @]
              /\ seen' = [seen EXCEPT ![p][f] = @ \o r.out]
    BY DEF FileRead
<1> DEFINE d == fds[p][f]
           r == ReadData(d.inode, d.pos, n)
           s == seen[p][f]
<1>2. Good(d) /\ Begins(d, s) /\ d.op = REGULAR
    BY <1>1 DEF Descriptors, IsOpen
<1>3. PICK pos \in Nat, inode \in Nat : d = [op |-> REGULAR, pos |-> pos, inode |-> inode]
    BY <1>2 DEF Good
<1>4. IsFile(inode) /\ inode # 0 /\ inode \in DOMAIN Inodes /\ n \in Nat
    <2>1. IsFile(inode)
        BY <1>2, <1>3 DEF Good
    <2>2. \A k \in 1 .. 63 : k # 0
        OBVIOUS
    <2> QED
        BY <2>1, <2>2, FilesAssumption DEF IsFile
<1>5. Whole(d) = Contents(inode) /\ Contents(inode) \in Seq(Nat) /\ Len(Contents(inode)) = Length(inode)
      /\ Length(inode) \in Nat
    BY <1>3, <1>4, ContentsIs, InodeIs DEF Whole
<1>6. pos <= Length(inode)
    BY <1>2, <1>3, <1>5 DEF Good
<1>7. PICK m \in Nat : /\ pos + m <= Length(inode)
                       /\ ReadData(inode, pos, n).ret = m
                       /\ ~RunsOn(inode, pos, n) =>
                             ReadData(inode, pos, n).out = SubSeq(Contents(inode), pos + 1, pos + m)
    BY <1>4, <1>6, ReadDataRight DEF IsFile
<1> DEFINE e == [op |-> REGULAR, pos |-> pos + m, inode |-> inode]
           t == s \o r.out
<1>8. fds' = [fds EXCEPT ![p][f] = e]
    <2>1. r = ReadData(inode, pos, n) /\ r.ret = m /\ d.inode # 0
        BY <1>3, <1>4, <1>7
    <2>2. fds' = [fds EXCEPT ![p] = [fds[p] EXCEPT ![f] = [d EXCEPT !.pos = d.pos + r.ret]]]
        BY <1>1, <2>1
    <2>3. [d EXCEPT !.pos = d.pos + r.ret] = e
        <3> HIDE DEF d, r
        <3> QED
            BY <1>3, <2>1
    <2> QED
        BY <2>2, <2>3
<1>9. seen' = [seen EXCEPT ![p][f] = t]
    BY <1>1
<1>10. Good(e)
    <2>1. e \in [op : {-1, RTC_FILE, DIRECTORY, REGULAR}, pos : Nat, inode : Nat]
        OBVIOUS
    <2>2. e.op = REGULAR /\ e.inode = inode /\ e.pos = pos + m /\ Whole(e) = Contents(inode)
        BY DEF Whole
    <2> HIDE DEF e
    <2> QED
        BY <1>4, <1>5, <1>7, <2>1, <2>2 DEF Good
<1>11. Begins(e, t)
    <2> SUFFICES ASSUME ~AnyRead PROVE t = SubSeq(Contents(inode), 1, pos + m)
        BY DEF Begins, Whole
    <2>1. s = SubSeq(Contents(inode), 1, pos)
        BY <1>2, <1>3, <1>5 DEF Begins
    <2>2. r.out = SubSeq(Contents(inode), pos + 1, pos + m)
        BY <1>1, <1>3, <1>7
    <2>3. SubSeq(Contents(inode), 0 + 1, pos) \o SubSeq(Contents(inode), pos + 1, pos + m)
             = SubSeq(Contents(inode), 0 + 1, pos + m)
        <3>1. 0 \in Nat /\ 0 <= pos /\ pos <= pos + m /\ pos + m \in Nat
            OBVIOUS
        <3> QED
            BY <1>4, <1>7, <3>1, Joined
    <2>4. 0 + 1 = 1
        OBVIOUS
    <2> HIDE DEF r, s
    <2> QED
        BY <2>1, <2>2, <2>3, <2>4
<1> HIDE DEF e, t
<1> QED
    BY <1>8, <1>9, <1>10, <1>11, OneChanges

\* So does a listing.
LEMMA DirReadStep == ASSUME Descriptors, NEW p \in Procs, DirRead(p) PROVE Descriptors'
<1>1. PICK f \in Fds(p) :
          LET d == fds[p][f]
          IN  /\ IsOpen(p, f, DIRECTORY)
              /\ d.pos < Len(Dentries)
              /\ fds' = [fds EXCEPT ![p][f].pos = @ + 1]
              /\ seen' = [seen EXCEPT ![p][f] = Append(@, Name(d.pos + 1))]
    BY DEF DirRead
<1> DEFINE d == fds[p][f]
           s == seen[p][f]
<1>2. Good(d) /\ Begins(d, s) /\ d.op = DIRECTORY
    BY <1>1 DEF Descriptors, IsOpen
<1>3. PICK pos \in Nat, inode \in Nat : d = [op |-> DIRECTORY, pos |-> pos, inode |-> inode]
    BY <1>2 DEF Good
<1>4. /\ Listing \in Seq(STRING) /\ Len(Listing) = Len(Dentries) /\ Len(Dentries) \in Nat
      /\ DOMAIN Dentries = 1 .. Len(Dentries)
    BY Directory
<1>5. pos < Len(Listing) /\ pos + 1 \in 1 .. Len(Listing)
    BY <1>1, <1>3, <1>4
<1> DEFINE e == [op |-> DIRECTORY, pos |-> pos + 1, inode |-> inode]
           t == Append(s, Name(pos + 1))
<1>6. fds' = [fds EXCEPT ![p][f] = e]
    <2>1. fds' = [fds EXCEPT ![p] = [fds[p] EXCEPT ![f] = [d EXCEPT !.pos = d.pos + 1]]]
        BY <1>1
    <2>2. [d EXCEPT !.pos = d.pos + 1] = e
        <3> HIDE DEF d
        <3> QED
            BY <1>3
    <2> QED
        BY <2>1, <2>2
<1>7. seen' = [seen EXCEPT ![p][f] = t]
    BY <1>1, <1>3
<1>8. \A x : x.op = DIRECTORY => Whole(x) = Listing
    BY DEF Whole, DIRECTORY, REGULAR
<1>9. Good(e)
    <2>1. e \in [op : {-1, RTC_FILE, DIRECTORY, REGULAR}, pos : Nat, inode : Nat]
        OBVIOUS
    <2>2. e.op = DIRECTORY /\ e.pos = pos + 1 /\ Whole(e) = Listing /\ e.op # REGULAR
        BY <1>8 DEF DIRECTORY, REGULAR
    <2> HIDE DEF e
    <2> QED
        BY <1>5, <2>1, <2>2 DEF Good
<1>10. Begins(e, t)
    <2> SUFFICES ASSUME ~AnyRead PROVE t = SubSeq(Listing, 1, pos + 1)
        BY <1>8 DEF Begins
    <2>1. s = SubSeq(Listing, 1, pos)
        BY <1>2, <1>3, <1>8 DEF Begins
    <2>2. Name(pos + 1) = Listing[pos + 1]
        BY <1>4, <1>5 DEF Listing
    <2> DEFINE whole == Listing
    <2>3. whole \in Seq(STRING) /\ pos + 1 \in 1 .. Len(whole)
        BY <1>4, <1>5
    <2> HIDE DEF whole
    <2>4. Append(SubSeq(whole, 1, pos), whole[pos + 1]) = SubSeq(whole, 1, pos + 1)
        <3>1. SubSeq(whole, 1, pos + 1) = SubSeq(whole, 1, (pos + 1) - 1) \o <<whole[pos + 1]>>
            <4>1. 1 \in 1 .. Len(whole) /\ pos + 1 \in 1 .. Len(whole)
                BY <2>3
            <4> QED
                BY <2>3, <4>1, SubSeqRecursiveSecond
        <3>2. (pos + 1) - 1 = pos
            OBVIOUS
        <3>3. SubSeq(whole, 1, pos) \in Seq(STRING) /\ whole[pos + 1] \in STRING
            BY <2>3
        <3>4. Append(SubSeq(whole, 1, pos), whole[pos + 1]) = SubSeq(whole, 1, pos) \o <<whole[pos + 1]>>
            BY <3>3, AppendIsConcat
        <3> QED
            BY <3>1, <3>2, <3>4
    <2> QED
        BY <2>1, <2>2, <2>4 DEF whole
<1> HIDE DEF e, t
<1> QED
    BY <1>6, <1>7, <1>9, <1>10, OneChanges

-----------------------------------------------------------------------------
(* the clock *)

\* Of 1024 the flags have no rate.
NoLastRate == BASE_RATE \notin Freqs

Clock ==
    /\ shown \in Procs
    /\ int_counter \in 0 .. BASE_RATE - 1
    /\ int_flag \subseteq 0 .. Rates - 1
    /\ rate \in [Procs -> 0 .. Rates - 1]
    /\ call \in [Procs -> {"idle", "wait", "woken"} \X Procs]

\* Two to the n exceeds n.
LEMMA PowerAbove == \A n \in Nat : n < Pow2[n]
<1> DEFINE T == {n \in Nat : n < Pow2[n]}
<1>1. 0 \in T
    BY Doubling
<1>2. ASSUME NEW n \in Nat, n \in T PROVE n + 1 \in T
    <2>1. Pow2[n + 1] = 2 * Pow2[n] /\ Pow2[n] \in Nat
        BY Doubling
    <2> QED
        BY <1>2, <2>1
<1>3. Nat \subseteq T
    <2> HIDE DEF T
    <2> QED
        BY <1>1, <1>2, SetInduction
<1> QED
    BY <1>3

\* A power of two has one bit more than its exponent.
LEMMA BitsOfPower == ASSUME NEW k \in Nat PROVE BitsOf(Pow2[k]) = k + 1
<1> DEFINE n == Pow2[k]
           Is(m) == (m = 0 \/ Pow2[m - 1] <= n) /\ n < Pow2[m]
<1>1. n \in Nat \ {0} /\ k < n /\ n < Pow2[k + 1]
    BY PowerType, PowerAbove, Doubling
<1>2. k + 1 \in 0 .. n /\ Is(k + 1)
    <2>1. (k + 1) - 1 = k
        OBVIOUS
    <2>2. k + 1 \in 0 .. n
        <3> HIDE DEF n
        <3> QED
            BY <1>1
    <2> QED
        BY <1>1, <2>1, <2>2
<1>3. ASSUME NEW m \in 0 .. n, Is(m) PROVE m = k + 1
    <2>1. m \in Nat
        BY <1>1
    <2>2. m # 0
        BY <1>1, <1>3, Doubling
    <2>3. m - 1 \in Nat /\ Pow2[m] \in Nat /\ Pow2[m - 1] \in Nat
        BY <2>1, <2>2, Doubling
    <2>4. ~(m <= k)
        <3>1. m <= k => Pow2[m] <= n
            BY <2>1, PowerOrder
        <3> HIDE DEF n
        <3> QED
            BY <1>1, <1>3, <2>3, <3>1
    <2>5. ~(k < m - 1)
        <3>1. k < m - 1 => 2 * n <= Pow2[m - 1]
            BY <2>3, PowerLess
        <3> HIDE DEF n
        <3> QED
            BY <1>1, <1>3, <2>2, <2>3, <3>1
    <2> QED
        BY <2>1, <2>4, <2>5
<1>4. BitsOf(n) = CHOOSE m \in 0 .. n : Is(m)
    BY DEF BitsOf
<1> HIDE DEF Is, n
<1>5. BitsOf(n) = k + 1
    BY <1>2, <1>3, <1>4
<1> QED
    BY <1>5 DEF n

\* The period of every rate divides the counter's range.
LEMMA BaseRate == BASE_RATE \in Nat \ {0} /\ Rates \in Nat \ {0}
BY FilesAssumption, PowerType DEF BASE_RATE

LEMMA ClockHandler == ASSUME Clock, RtcHandler PROVE Clock'
<1> DEFINE c == int_counter + 1
<1>1. /\ int_counter' = c % BASE_RATE
      /\ int_flag' = int_flag \cup Ends(c)
      /\ UNCHANGED <<shown, rate, call>>
    BY DEF RtcHandler
<1>2. c \in Nat
    BY BaseRate DEF Clock
<1>3. c % BASE_RATE \in 0 .. BASE_RATE - 1
    BY <1>2, BaseRate, Division
<1>4. Ends(c) \subseteq 0 .. Rates - 1
    BY DEF Ends
<1> HIDE DEF c
<1> QED
    BY <1>1, <1>3, <1>4 DEF Clock

LEMMA ClockWrite == ASSUME NoLastRate, Clock, NEW p \in Procs, RtcWrite(p) PROVE Clock'
<1>1. PICK freq \in Freqs : /\ freq \in {Pow2[k] : k \in 0 .. Rates}
                            /\ rate' = [rate EXCEPT ![shown] = BitsOf(freq) - 1]
    BY DEF RtcWrite
<1>2. UNCHANGED <<shown, int_counter, int_flag, call>>
    BY DEF RtcWrite
<1>3. PICK k \in 0 .. Rates : freq = Pow2[k]
    BY <1>1
<1>4. k \in 0 .. Rates - 1
    BY <1>1, <1>3, BaseRate DEF NoLastRate, BASE_RATE
<1>5. BitsOf(freq) - 1 = k
    BY <1>3, <1>4, BaseRate, BitsOfPower
<1> QED
    BY <1>1, <1>2, <1>4, <1>5 DEF Clock

LEMMA ClockRead ==
    ASSUME Clock, NEW p \in Procs,
           RtcReadBegin(p) \/ RtcReadWakes(p) \/ RtcReadReturns(p) \/ HaltCloses(p)
    PROVE  Clock'
<1>1. call[p] = <<call[p][1], call[p][2]>> /\ call[p][2] \in Procs
    <2>1. call[p] \in {"idle", "wait", "woken"} \X Procs
        BY DEF Clock
    <2> QED
        BY <2>1
<1>2. UNCHANGED <<shown, int_counter, rate>> /\ int_flag' \subseteq int_flag
    BY DEF RtcReadBegin, RtcReadWakes, RtcReadReturns, HaltCloses
<1>3. call' \in [Procs -> {"idle", "wait", "woken"} \X Procs]
    <2>1. CASE RtcReadBegin(p)
        BY <2>1 DEF RtcReadBegin, Clock
    <2>2. CASE RtcReadWakes(p)
        <3>1. call' = [call EXCEPT ![p] = [call[p] EXCEPT ![1] = "woken"]]
            BY <2>2 DEF RtcReadWakes
        <3>2. [call[p] EXCEPT ![1] = "woken"] = <<"woken", call[p][2]>>
            BY <1>1
        <3> QED
            BY <1>1, <3>1, <3>2 DEF Clock
    <2>3. CASE RtcReadReturns(p) \/ HaltCloses(p)
        BY <2>3, FilesAssumption DEF RtcReadReturns, HaltCloses, Clock, Idle
    <2> QED
        BY <2>1, <2>2, <2>3
<1> QED
    BY <1>2, <1>3 DEF Clock

LEMMA ClockKept == ASSUME NoLastRate, Clock, [Next]_vars PROVE Clock'
<1>1. CASE RtcHandler
    BY <1>1, ClockHandler
<1>2. ASSUME NEW p \in Procs,
             Open(p) \/ Close(p) \/ FileRead(p) \/ DirRead(p) \/ Show(p)
      PROVE  Clock'
  <2>1. UNCHANGED rtc /\ shown' \in Procs
      BY <1>2 DEF Open, Close, FileRead, DirRead, Show, Clock
  <2> QED
      BY <2>1 DEF Clock, rtc
<1>3. ASSUME NEW p \in Procs, RtcWrite(p) PROVE Clock'
    BY <1>3, ClockWrite
<1>4. ASSUME NEW p \in Procs,
             RtcReadBegin(p) \/ RtcReadWakes(p) \/ RtcReadReturns(p) \/ HaltCloses(p)
      PROVE  Clock'
    BY <1>4, ClockRead
<1>5. CASE UNCHANGED vars
    BY <1>5 DEF vars, rtc, Clock
<1> QED
    BY <1>1, <1>2, <1>3, <1>4, <1>5 DEF Next

LEMMA DescriptorsKept == ASSUME Descriptors, [Next]_vars PROVE Descriptors'
<1>1. ASSUME NEW p \in Procs, Open(p) \/ Close(p) \/ HaltCloses(p) \/ FileRead(p) \/ DirRead(p)
      PROVE  Descriptors'
    BY <1>1, OpenStep, CloseStep, HaltClosesStep, FileReadStep, DirReadStep
<1>2. CASE UNCHANGED <<fds, seen>>
    BY <1>2 DEF Descriptors, Good, Begins
<1>3. ASSUME NEW p \in Procs,
             Show(p) \/ RtcWrite(p) \/ RtcReadBegin(p) \/ RtcReadWakes(p) \/ RtcReadReturns(p)
      PROVE  UNCHANGED <<fds, seen>>
    BY <1>3 DEF Show, RtcWrite, RtcReadBegin, RtcReadWakes, RtcReadReturns
<1>4. RtcHandler \/ UNCHANGED vars => UNCHANGED <<fds, seen>>
    BY DEF RtcHandler, vars
<1> QED
    BY <1>1, <1>2, <1>3, <1>4 DEF Next

\* The inductive invariant of the descriptors: every position is one of the file or
\* directory, and what was read is what lies before it.
THEOREM DescriptorsInvariance == Spec => []Descriptors
<1>1. Init => Descriptors
    BY ClosedIsGood DEF Init, Descriptors
<1>2. Descriptors /\ [Next]_vars => Descriptors'
    BY DescriptorsKept
<1> QED
    BY <1>1, <1>2, PTL DEF Spec

\* read (syscall.c, file_read, dir_read, read_data): for any disk that is whole, any number
\* of processes and descriptors and reads of any sizes, what was read through a descriptor is
\* the beginning of the file or the listing, as long as no short read runs on into a
\* block that is not the file's next.
THEOREM ReadsInOrderCorrect == ASSUME ~AnyRead PROVE Spec => []ReadsInOrder
<1>1. Descriptors => ReadsInOrder
    BY DEF Descriptors, Good, Begins, ReadsInOrder, Whole, Listing
<1> QED
    BY <1>1, DescriptorsInvariance, PTL

\* Operations, positions, flags and rates stay in range, the rates of terminals in that of
\* the flags unless a program asks for 1024 Hz.
THEOREM TypeCorrect == ASSUME NoLastRate PROVE Spec => []TypeOK
<1>1. Init => Clock
    BY FilesAssumption, BaseRate DEF Init, Clock, Idle
<1>2. Clock /\ [Next]_vars => Clock'
    BY ClockKept
<1>3. Clock /\ Descriptors => TypeOK
    BY DEF Clock, Descriptors, Good, TypeOK
<1> QED
    BY <1>1, <1>2, <1>3, DescriptorsInvariance, PTL DEF Spec
=============================================================================
