------------------------------- MODULE MCFiles -------------------------------
(* A disk for TLC: a directory, the RTC and two files, one of them in blocks *)
(* that do not follow one another, and two processes.                        *)
EXTENDS Files

MCDentries == << <<".", DIRECTORY, 0>>, <<"rtc", RTC_FILE, 0>>, <<"frame", REGULAR, 1>> >>
MCInodes == [i \in 1 .. 1 |-> <<7, <<2, 3, 0>>>>]
MCNames == [p \in Procs |-> IF p = 0 THEN {".", "rtc", "frame"} ELSE {"rtc"}]
MCMaxFd == [p \in Procs |-> IF p = 0 THEN 3 ELSE 2]
=============================================================================
