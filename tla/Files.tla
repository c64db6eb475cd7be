-------------------------------- MODULE Files --------------------------------
(***************************************************************************)
(* File descriptors and the virtual RTC: open, read, write and close of    *)
(* syscall.c, the operations they dispatch to, the RTC's interrupt and the *)
(* reader that waits for it (rtc.c).  Processes are preempted anywhere; an *)
(* operation that touches only its own descriptors is one step.            *)
(*                                                                         *)
(* There is one process per terminal, by the terminal's number.            *)
(***************************************************************************)
EXTENDS FileSys, FiniteSets, Powers

CONSTANTS
    Procs,              \* the processes, which are terminals too
    MaxFd,              \* bound: the last descriptor of each process; 7
    Names,              \* what the program of each process opens
    Sizes,              \* how much they read
    Freqs,              \* the frequencies they write to the RTC
    Rates,              \* 10, the entries of int_flag
    AnyRead,            \* may a read run on from a block into a foreign one?
    AnyTerminal         \* may a process use the RTC while its terminal is hidden?

ASSUME FilesAssumption ==
    /\ Procs \subseteq Nat /\ 0 \in Procs
    /\ MaxFd \in [Procs -> 1 .. 7] /\ Rates \in Nat \ {0}
    /\ Sizes \subseteq Nat /\ Freqs \subseteq Nat
    /\ AnyRead \in BOOLEAN /\ AnyTerminal \in BOOLEAN

BASE_RATE == Pow2[Rates]    \* 1024

VARIABLES
    fds,                \* file_desc_arr of each process, from 2 on
    seen,               \* history: what was read through each descriptor
    shown,              \* the displayed terminal
    int_counter,        \* modulo BASE_RATE
    int_flag,           \* the rates for which a period has ended
    rate,               \* rtc_rate_off of each terminal
    call,               \* <<step, terminal>> of a process in rtc_read
    fresh               \* history: the rates with a period that ended since they last woke p

rtc == <<int_counter, int_flag, rate, call, fresh>>
vars == <<fds, seen, shown, rtc>>

Closed == [op |-> -1, pos |-> 0, inode |-> 0]
Idle   == <<"idle", 0>>
Fds(p) == 2 .. MaxFd[p]

Init ==
    /\ fds = [p \in Procs |-> [f \in Fds(p) |-> Closed]]
    /\ seen = [p \in Procs |-> [f \in Fds(p) |-> <<>>]]
    /\ shown = 0
    /\ int_counter = 0
    /\ int_flag = {}
    /\ rate = [t \in Procs |-> Rates - 1]
    /\ call = [p \in Procs |-> Idle]
    /\ fresh = [p \in Procs |-> {}]

Runs(p)   == call[p] = Idle
Waits(p)  == call[p][1] = "wait"
Woken(p)  == call[p][1] = "woken"
RateOf(p) == rate[call[p][2]]
IsOpen(p, f, op) == f \in Fds(p) /\ fds[p][f].op = op

-----------------------------------------------------------------------------
(* descriptors *)

\* open: the first free descriptor; the operation table's open is not called
Open(p) ==
    /\ Runs(p)
    /\ \E name \in Names[p] :
          LET i    == DentryByName(name)
              Free == {f \in Fds(p) : fds[p][f] = Closed}
          IN  /\ i # 0 /\ Free # {}
              /\ LET f == CHOOSE g \in Free : \A h \in Free : g <= h
                     inode == IF Type(i) = REGULAR THEN Inode(i) ELSE 0
                 IN  /\ fds' = [fds EXCEPT ![p][f] = [op |-> Type(i), pos |-> 0, inode |-> inode]]
                     /\ seen' = [seen EXCEPT ![p][f] = <<>>]
    /\ UNCHANGED <<shown, rtc>>

Close(p) ==
    /\ Runs(p)
    /\ \E f \in Fds(p) :
          /\ fds[p][f] # Closed
          /\ fds' = [fds EXCEPT ![p][f] = Closed]
          /\ seen' = [seen EXCEPT ![p][f] = <<>>]
    /\ UNCHANGED <<shown, rtc>>

\* halt closes what the program left open; Ctrl-C halts it in rtc_read too, where a
\* call that has not cleared the flag leaves it to the next one
HaltCloses(p) ==
    /\ fds' = [fds EXCEPT ![p] = [f \in Fds(p) |-> Closed]]
    /\ seen' = [seen EXCEPT ![p] = [f \in Fds(p) |-> <<>>]]
    /\ call' = [call EXCEPT ![p] = Idle]
    /\ fresh' = IF Woken(p) THEN [fresh EXCEPT ![p] = @ \cup {RateOf(p)}] ELSE fresh
    /\ UNCHANGED <<shown, int_counter, int_flag, rate>>

\* read of a regular file: file_read, and the position unless the inode is 0
FileRead(p) ==
    /\ Runs(p)
    /\ \E f \in Fds(p), n \in Sizes :
          LET d == fds[p][f]
              r == ReadData(d.inode, d.pos, n)
          IN  /\ IsOpen(p, f, REGULAR)
              /\ AnyRead \/ ~RunsOn(d.inode, d.pos, n)
              /\ fds' = [fds EXCEPT ![p][f].pos = IF d.inode # 0 THEN @ + r.ret ELSE @]
              /\ seen' = [seen EXCEPT ![p][f] = @ \o r.out]
    /\ UNCHANGED <<shown, rtc>>

\* dir_read and directory_read: a name, or nothing at the end
DirRead(p) ==
    /\ Runs(p)
    /\ \E f \in Fds(p) :
          LET d == fds[p][f]
          IN  /\ IsOpen(p, f, DIRECTORY)
              /\ d.pos < Len(Dentries)
              /\ fds' = [fds EXCEPT ![p][f].pos = @ + 1]
              /\ seen' = [seen EXCEPT ![p][f] = Append(@, Name(d.pos + 1))]
    /\ UNCHANGED <<shown, rtc>>

-----------------------------------------------------------------------------
(* the virtual RTC *)

\* Alt+Fn
Show(t) ==
    /\ t # shown
    /\ shown' = t
    /\ UNCHANGED <<fds, seen, rtc>>

\* (slip: the loop begins with the second rate)
EndsFromOne(c) == {i \in 1 .. Rates - 1 : c % (BASE_RATE \div Pow2[i + 1]) = 0}

\* the rates whose period ends with the c-th interrupt
Ends(c) == {i \in 0 .. Rates - 1 : c % (BASE_RATE \div Pow2[i + 1]) = 0}

RtcHandler ==
    LET c == int_counter + 1
    IN  /\ int_counter' = c % BASE_RATE
        /\ int_flag' = int_flag \cup Ends(c)
        /\ fresh' = [p \in Procs |-> fresh[p] \cup Ends(c)]
        /\ UNCHANGED <<fds, seen, shown, rate, call>>

MayUseRtc(p) ==
    /\ Runs(p)
    /\ \E f \in Fds(p) : IsOpen(p, f, RTC_FILE)
    /\ AnyTerminal \/ shown = p

\* (slip: the logarithm, one bit less)
Log2(n) == CHOOSE k \in 0 .. n : Pow2[k] <= n /\ n < Pow2[k + 1]

\* log_2: how many bits n has
BitsOf(n) == CHOOSE k \in 0 .. n : (k = 0 \/ Pow2[k - 1] <= n) /\ n < Pow2[k]

\* rtc_write takes powers of two up to BASE_RATE, for the displayed terminal
RtcWrite(p) ==
    /\ MayUseRtc(p)
    /\ \E freq \in Freqs :
          /\ freq \in {Pow2[k] : k \in 0 .. Rates}
          /\ rate' = [rate EXCEPT ![shown] = BitsOf(freq) - 1]
    /\ UNCHANGED <<fds, seen, shown, int_counter, int_flag, call, fresh>>

\* rtc_read: the terminal is that displayed when it is called
RtcReadBegin(p) ==
    /\ MayUseRtc(p)
    /\ call' = [call EXCEPT ![p] = <<"wait", shown>>]
    /\ UNCHANGED <<fds, seen, shown, int_counter, int_flag, rate, fresh>>

\* the wait finds the flag
RtcReadWakes(p) ==
    /\ Waits(p)
    /\ RateOf(p) \in int_flag
    /\ call' = [call EXCEPT ![p][1] = "woken"]
    /\ fresh' = [fresh EXCEPT ![p] = @ \ {RateOf(p)}]
    /\ UNCHANGED <<fds, seen, shown, int_counter, int_flag, rate>>

\* (slip: the flag stays)
RtcReadReturnsUncleared(p) ==
    /\ Woken(p)
    /\ call' = [call EXCEPT ![p] = Idle]
    /\ UNCHANGED <<fds, seen, shown, int_counter, int_flag, rate, fresh>>

\* the flag is cleared
RtcReadReturns(p) ==
    /\ Woken(p)
    /\ int_flag' = int_flag \ {RateOf(p)}
    /\ call' = [call EXCEPT ![p] = Idle]
    /\ UNCHANGED <<fds, seen, shown, int_counter, rate, fresh>>

-----------------------------------------------------------------------------

Next ==
    \/ RtcHandler
    \/ \E p \in Procs :
          \/ Open(p) \/ Close(p) \/ HaltCloses(p) \/ FileRead(p) \/ DirRead(p)
          \/ Show(p)
          \/ RtcWrite(p) \/ RtcReadBegin(p) \/ RtcReadWakes(p) \/ RtcReadReturns(p)

Spec == Init /\ [][Next]_vars

\* The RTC goes on interrupting, and a process gets to test a flag that stays set
\* and to return.
FairSpec ==
    /\ Spec
    /\ WF_vars(RtcHandler)
    /\ \A p \in Procs : WF_vars(RtcReadWakes(p)) /\ WF_vars(RtcReadReturns(p))

-----------------------------------------------------------------------------
(* Properties *)

\* No rate is beyond the flags.
TypeOK ==
    /\ \A p \in Procs : \A f \in Fds(p) :
          /\ fds[p][f].op \in {-1, RTC_FILE, DIRECTORY, REGULAR}
          /\ fds[p][f].pos \in Nat
    /\ shown \in Procs
    /\ int_counter \in 0 .. BASE_RATE - 1
    /\ int_flag \subseteq 0 .. Rates - 1
    /\ rate \in [Procs -> 0 .. Rates - 1]
    /\ call \in [Procs -> {"idle", "wait", "woken"} \X Procs]

\* What is read through a descriptor is the beginning of the file or the listing,
\* every byte and every name once and in order, in reads of any sizes, with other
\* descriptors open on the same file.
ReadsInOrder ==
    \A p \in Procs : \A f \in Fds(p) :
        LET d == fds[p][f]
            whole == IF d.op = REGULAR THEN Contents(d.inode)
                     ELSE [i \in DOMAIN Dentries |-> Name(i)]
        IN  d.op \in {REGULAR, DIRECTORY} => d.pos <= Len(whole) /\ seen[p][f] = SubSeq(whole, 1, d.pos)

\* rtc_read does not return twice in one period of the terminal's rate, however the
\* readers and the interrupt interleave.
Paced == [][\A p \in Procs : RtcReadWakes(p) => RateOf(p) \in fresh[p]]_vars

\* A reader of the RTC returns, unless another one takes the flags of its rate.
RtcReturns ==
    \A p \in Procs : Waits(p) ~> \/ ~Waits(p)
                                 \/ \E q \in Procs \ {p} : ~Runs(q) /\ RateOf(q) = RateOf(p)
=============================================================================
