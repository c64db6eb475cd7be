----------------------------- MODULE SignalProofs -----------------------------
(***************************************************************************)
(* Proofs about Signal, for all processes, signals and depths of nesting:  *)
(* the types, that sigreturn always finds the context of what its signal   *)
(* interrupted, and - when no interrupt of kernel code finds a signal for  *)
(* a handler - that signals are masked only while one is handled.          *)
(***************************************************************************)
EXTENDS Signal, TLAPS

-----------------------------------------------------------------------------
(* the inductive invariant *)

Ats     == {"call", "sigreturn", "tail", "act", "alarm"}
Entries == [at : Ats, sig : Signals \cup {NONE}]

Words ==
    [word : {"code", "return"}]
        \cup [word : {"context"}, run : Signals \cup {MAIN}, esp : Nat]
        \cup [word : {"number"}, sig : Signals]

\* System calls are made from user mode; an entry has a signal when it acts on one.
GoodEntry(e, i) ==
    /\ e \in Entries
    /\ e.at \in {"call", "sigreturn"} => i = 1
    /\ e.at \in {"act", "alarm"} <=> e.sig # NONE

GoodKernel(k) == k \in Seq(Entries) /\ \A i \in 1 .. Len(k) : GoodEntry(k[i], i)

\* what the program ran below the n-th word: the number of the frame there
RunAt(u, n) == IF n = 0 THEN MAIN ELSE u[n - 1].sig

\* Frames of four words, one above the other; the last without its return address
\* when the handler has returned.  r is what runs.
GoodUser(u, r, back) ==
    /\ u \in Seq(Words)
    /\ Len(u) % 4 = IF back THEN 3 ELSE 0
    /\ \A i \in 1 .. Len(u) :
          /\ i % 4 = 1 => u[i].word = "code"
          /\ i % 4 = 2 => u[i].word = "context" /\ u[i].esp = i - 2 /\ u[i].run = RunAt(u, i - 2)
          /\ i % 4 = 3 => u[i].word = "number"
          /\ i % 4 = 0 => u[i].word = "return"
    /\ r = RunAt(u, IF back THEN Len(u) + 1 ELSE Len(u))

Back(p) == kstack[p] # <<>> /\ kstack[p][1].at = "sigreturn"

Stacks == \A p \in Procs : GoodKernel(kstack[p]) /\ GoodUser(ustack[p], run[p], Back(p))

Basics == TypeOK /\ ustack \in [Procs -> Seq(Words)]

IInv == Basics /\ Stacks

-----------------------------------------------------------------------------
(* user stacks *)

\* What runs on a frame is the signal of its number.
LEMMA RunAtNumber ==
    ASSUME NEW u, NEW n \in Nat \ {0}
    PROVE  RunAt(u, n) = u[n - 1].sig
BY SMT DEF RunAt

\* A frame pushed on frames makes frames.
LEMMA PushFrame ==
    ASSUME NEW u, NEW r, GoodUser(u, r, FALSE), r \in Signals \cup {MAIN}, NEW s \in Signals,
           NEW f, f = <<[word |-> "code"], [word |-> "context", run |-> r, esp |-> Len(u)],
                        [word |-> "number", sig |-> s], [word |-> "return"]>>
    PROVE  GoodUser(u \o f, s, FALSE)
<1> DEFINE n == Len(u)
<1>1. /\ u \in Seq(Words) /\ n \in Nat /\ n % 4 = 0 /\ r = RunAt(u, n)
    BY SMT DEF GoodUser
<1>2. f[1] \in Words /\ f[2] \in Words /\ f[3] \in Words /\ f[4] \in Words
    BY <1>1, SMT DEF Words
<1>3. f \in Seq(Words) /\ Len(f) = 4
    BY <1>2, SMT
<1>4. u \o f \in Seq(Words) /\ Len(u \o f) = n + 4
    BY <1>1, <1>3, SMT
<1>5. \A i \in 1 .. n : (u \o f)[i] = u[i]
    BY <1>1, <1>3, SMT
<1>6. /\ (u \o f)[n + 1].word = "code"
      /\ (u \o f)[n + 2].word = "context" /\ (u \o f)[n + 2].run = r /\ (u \o f)[n + 2].esp = n
      /\ (u \o f)[n + 3].word = "number" /\ (u \o f)[n + 3].sig = s
      /\ (u \o f)[n + 4].word = "return"
  <2>1. /\ (u \o f)[n + 1] = f[1] /\ (u \o f)[n + 2] = f[2]
        /\ (u \o f)[n + 3] = f[3] /\ (u \o f)[n + 4] = f[4]
    BY <1>1, <1>3, SMT
  <2>2. /\ f[1] = [word |-> "code"] /\ f[2] = [word |-> "context", run |-> r, esp |-> n]
        /\ f[3] = [word |-> "number", sig |-> s] /\ f[4] = [word |-> "return"]
    OBVIOUS
  <2> QED
    BY <2>1, <2>2
<1> HIDE DEF n
<1>7. (n + 4) % 4 = 0 /\ (n + 1) % 4 = 1 /\ (n + 2) % 4 = 2 /\ (n + 3) % 4 = 3
    BY <1>1, SMT
<1>8. n = 0 \/ n - 1 \in 1 .. n
    BY <1>1, SMT
<1>9. r = RunAt(u \o f, n)
    BY <1>1, <1>5, <1>8 DEF RunAt
<1>10. \A i \in 1 .. n : i % 4 = 2 => i - 2 = 0 \/ i - 3 \in 1 .. n
    BY <1>1, SMT
<1>11. \A i \in 1 .. n : i % 4 = 2 => RunAt(u \o f, i - 2) = RunAt(u, i - 2)
  <2>1. \A i \in 1 .. n : i % 4 = 2 => i - 2 = 0 \/ i - 2 - 1 \in 1 .. n
    BY <1>1, <1>10, SMT
  <2> QED
    BY <2>1, <1>5 DEF RunAt
<1>12. ASSUME NEW i \in 1 .. n + 4
       PROVE  /\ i % 4 = 1 => (u \o f)[i].word = "code"
              /\ i % 4 = 2 => (u \o f)[i].word = "context" /\ (u \o f)[i].esp = i - 2
                                  /\ (u \o f)[i].run = RunAt(u \o f, i - 2)
              /\ i % 4 = 3 => (u \o f)[i].word = "number"
              /\ i % 4 = 0 => (u \o f)[i].word = "return"
  <2>1. CASE i \in 1 .. n
    BY <2>1, <1>5, <1>11 DEF GoodUser, n
  <2>2. CASE i = n + 1
    BY <2>2, <1>6, <1>7
  <2>3. CASE i = n + 2
    <3>1. i % 4 = 2 /\ i - 2 = n
        BY <2>3, <1>1, <1>7, SMT
    <3> QED
        BY <3>1, <2>3, <1>6, <1>9
  <2>4. CASE i = n + 3
    BY <2>4, <1>6, <1>7
  <2>5. CASE i = n + 4
    BY <2>5, <1>6, <1>7
  <2>6. i \in 1 .. n \/ i = n + 1 \/ i = n + 2 \/ i = n + 3 \/ i = n + 4
    BY <1>1, SMT
  <2> QED
    BY <2>1, <2>2, <2>3, <2>4, <2>5, <2>6
<1>13. s = RunAt(u \o f, n + 4)
  <2> DEFINE w == u \o f  k == n + 4
  <2>1. k \in Nat \ {0} /\ k - 1 = n + 3
    BY <1>1, SMT
  <2>2. w[n + 3].sig = s
    BY <1>6
  <2> HIDE DEF w, k
  <2>3. RunAt(w, k) = w[k - 1].sig
    BY <2>1, RunAtNumber
  <2> QED
    BY <2>1, <2>2, <2>3 DEF w, k
<1> QED
    BY <1>4, <1>7, <1>12, <1>13 DEF GoodUser, n

\* What a prefix of a sequence is.
LEMMA PrefixFacts ==
    ASSUME NEW S, NEW u \in Seq(S), NEW n \in 0 .. Len(u)
    PROVE  /\ SubSeq(u, 1, n) \in Seq(S) /\ Len(SubSeq(u, 1, n)) = n
           /\ \A i \in 1 .. n : SubSeq(u, 1, n)[i] = u[i]
<1>1. SubSeq(u, 1, n) = [i \in 1 .. n |-> u[i]]
    BY SMT
<1>2. \A i \in 1 .. n : u[i] \in S
    BY SMT
<1>3. [i \in 1 .. n |-> u[i]] \in Seq(S) /\ Len([i \in 1 .. n |-> u[i]]) = n
    BY <1>2, SMT
<1> QED
    BY <1>1, <1>3

\* Frames without the last return address.
LEMMA PopReturn ==
    ASSUME NEW u, NEW r, GoodUser(u, r, FALSE), u # <<>>
    PROVE  GoodUser(SubSeq(u, 1, Len(u) - 1), r, TRUE)
<1> DEFINE n == Len(u)  v == SubSeq(u, 1, n - 1)
<1>1. u \in Seq(Words) /\ n \in Nat \ {0} /\ n % 4 = 0 /\ r = RunAt(u, n)
    BY SMT DEF GoodUser
<1>2. v \in Seq(Words) /\ Len(v) = n - 1 /\ \A i \in 1 .. n - 1 : v[i] = u[i]
    BY <1>1, PrefixFacts, n - 1 \in 0 .. Len(u), SMT
<1> HIDE DEF n, v
<1>3. (n - 1) % 4 = 3 /\ n - 1 + 1 = n /\ n # 0 /\ n - 1 \in 1 .. n - 1
    BY <1>1, SMT
<1>4. r = RunAt(v, Len(v) + 1)
    BY <1>1, <1>2, <1>3 DEF RunAt
<1>5. \A i \in 1 .. n - 1 : i % 4 = 2 => RunAt(v, i - 2) = RunAt(u, i - 2)
  <2>1. \A i \in 1 .. n - 1 : i % 4 = 2 => i - 2 = 0 \/ i - 2 - 1 \in 1 .. n - 1
    BY <1>1, SMT
  <2> QED
    BY <2>1, <1>2 DEF RunAt
<1>6. \A i \in 1 .. n - 1 : i \in 1 .. n
    BY <1>1, SMT
<1>7. \A i \in 1 .. n - 1 :
          /\ i % 4 = 1 => v[i].word = "code"
          /\ i % 4 = 2 => v[i].word = "context" /\ v[i].esp = i - 2 /\ v[i].run = RunAt(v, i - 2)
          /\ i % 4 = 3 => v[i].word = "number"
          /\ i % 4 = 0 => v[i].word = "return"
    BY <1>2, <1>5, <1>6 DEF GoodUser, n
<1> QED
    BY <1>2, <1>3, <1>4, <1>7 DEF GoodUser, v, n

\* The word above the last is the context of what was interrupted, and leads to
\* the frames below.
LEMMA RestoreFrame ==
    ASSUME NEW u, NEW r, GoodUser(u, r, TRUE)
    PROVE  LET c == u[Len(u) - 1]
           IN  /\ c.word = "context" /\ c.run \in Signals \cup {MAIN}
               /\ GoodUser(SubSeq(u, 1, c.esp), c.run, FALSE)
<1> DEFINE n == Len(u)  c == u[n - 1]  m == n - 3  v == SubSeq(u, 1, m)
<1>1. u \in Seq(Words) /\ n \in Nat /\ n % 4 = 3
    BY SMT DEF GoodUser
<1>2. n - 1 \in 1 .. n /\ (n - 1) % 4 = 2 /\ m \in 0 .. n /\ m % 4 = 0 /\ n - 1 - 2 = m
    BY <1>1, SMT
<1>3. c.word = "context" /\ c.esp = m /\ c.run = RunAt(u, m)
    BY <1>2 DEF GoodUser
<1>4. c.run \in Signals \cup {MAIN}
  <2>1. c \in Words
    BY <1>1, <1>2, SMT
  <2> QED
    BY <2>1, <1>3, SMT DEF Words
<1>5. v \in Seq(Words) /\ Len(v) = m /\ \A i \in 1 .. m : v[i] = u[i]
    BY <1>1, <1>2, PrefixFacts
<1> HIDE DEF n, m, v, c
<1>6. m \in Nat /\ (m # 0 => m - 1 \in 1 .. m)
    BY <1>1, <1>2, SMT
<1>7. RunAt(u, m) = RunAt(v, m)
    BY <1>5, <1>6 DEF RunAt
<1>8. \A i \in 1 .. m : i % 4 = 2 => RunAt(v, i - 2) = RunAt(u, i - 2)
  <2>1. \A i \in 1 .. m : i % 4 = 2 => i - 2 = 0 \/ i - 2 - 1 \in 1 .. m
    BY <1>6, SMT
  <2> QED
    BY <2>1, <1>5 DEF RunAt
<1>9. \A i \in 1 .. m : i \in 1 .. n
    BY <1>1, <1>2, SMT
<1>10. \A i \in 1 .. m :
          /\ i % 4 = 1 => v[i].word = "code"
          /\ i % 4 = 2 => v[i].word = "context" /\ v[i].esp = i - 2 /\ v[i].run = RunAt(v, i - 2)
          /\ i % 4 = 3 => v[i].word = "number"
          /\ i % 4 = 0 => v[i].word = "return"
    BY <1>5, <1>8, <1>9 DEF GoodUser, n
<1>11. GoodUser(v, c.run, FALSE)
    BY <1>2, <1>3, <1>5, <1>7, <1>10 DEF GoodUser
<1> QED
    BY <1>3, <1>4, <1>11 DEF v, c, n

-----------------------------------------------------------------------------
(* kernel stacks *)

\* An entry is pushed.
LEMMA PushEntry ==
    ASSUME NEW k, GoodKernel(k), NEW e, GoodEntry(e, Len(k) + 1)
    PROVE  GoodKernel(Append(k, e))
<1>1. k \in Seq(Entries) /\ Len(k) \in Nat /\ e \in Entries
    BY SMT DEF GoodKernel, GoodEntry
<1>2. /\ Append(k, e) \in Seq(Entries) /\ Len(Append(k, e)) = Len(k) + 1
      /\ Append(k, e)[Len(k) + 1] = e
      /\ \A i \in 1 .. Len(k) : Append(k, e)[i] = k[i]
    BY <1>1, SMT
<1>3. \A i \in 1 .. Len(k) + 1 : i \in 1 .. Len(k) \/ i = Len(k) + 1
    BY <1>1, SMT
<1> QED
    BY <1>2, <1>3 DEF GoodKernel

\* The innermost entry is popped.
LEMMA PopEntry ==
    ASSUME NEW k, GoodKernel(k), k # <<>>
    PROVE  GoodKernel(SubSeq(k, 1, Len(k) - 1))
<1>1. k \in Seq(Entries) /\ Len(k) \in Nat \ {0} /\ Len(k) - 1 \in 0 .. Len(k)
    BY SMT DEF GoodKernel
<1>2. \A i \in 1 .. Len(k) - 1 : i \in 1 .. Len(k)
    BY <1>1, SMT
<1> QED
    BY <1>1, <1>2, PrefixFacts DEF GoodKernel

\* The innermost entry changes.
LEMMA SetEntry ==
    ASSUME NEW k, GoodKernel(k), k # <<>>, NEW e, GoodEntry(e, Len(k))
    PROVE  GoodKernel([k EXCEPT ![Len(k)] = e])
<1>1. k \in Seq(Entries) /\ Len(k) \in 1 .. Len(k) /\ e \in Entries
    BY SMT DEF GoodKernel, GoodEntry
<1>2. /\ [k EXCEPT ![Len(k)] = e] \in Seq(Entries) /\ Len([k EXCEPT ![Len(k)] = e]) = Len(k)
      /\ \A i \in 1 .. Len(k) : [k EXCEPT ![Len(k)] = e][i] = IF i = Len(k) THEN e ELSE k[i]
    BY <1>1, SMT
<1> QED
    BY <1>2 DEF GoodKernel

\* The innermost entry exists.
LEMMA TopEntry ==
    ASSUME NEW k, GoodKernel(k), k # <<>>
    PROVE  /\ Len(k) \in Nat \ {0} /\ 1 \in 1 .. Len(k) /\ Len(k) \in 1 .. Len(k)
           /\ GoodEntry(k[1], 1) /\ GoodEntry(k[Len(k)], Len(k))
<1>1. Len(k) \in Nat \ {0}
    BY SMT DEF GoodKernel
<1>2. 1 \in 1 .. Len(k) /\ Len(k) \in 1 .. Len(k)
    BY <1>1, SMT
<1> QED
    BY <1>1, <1>2 DEF GoodKernel

-----------------------------------------------------------------------------
(* what a step must show of the process that runs *)

\* The types of the variables that TypeOK gives, apart from kstack.
Types ==
    /\ cur \in Procs
    /\ sig_state \in [Procs -> SUBSET Signals]
    /\ sig_mask \in [Procs -> {Unmasked} \cup {{s} : s \in Signals}]
    /\ sig_hand \in [Procs -> [Signals -> {"kill", "ignore", "user"}]]
    /\ run \in [Procs -> Signals \cup {MAIN}]

LEMMA TypesAre == TypeOK <=> Types /\ kstack \in [Procs -> Seq(Entries)]
BY DEF TypeOK, Types, Entries, Ats

\* If only the stacks and the program of the running process change, those must
\* be good.
LEMMA StackStep ==
    ASSUME IInv, Types', NEW k, NEW u, NEW r,
           kstack' = [kstack EXCEPT ![cur] = k], ustack' = [ustack EXCEPT ![cur] = u],
           run' = [run EXCEPT ![cur] = r],
           GoodKernel(k), GoodUser(u, r, k # <<>> /\ k[1].at = "sigreturn")
    PROVE  IInv'
<1>1. cur \in Procs /\ DOMAIN kstack = Procs /\ DOMAIN ustack = Procs /\ DOMAIN run = Procs
      /\ kstack \in [Procs -> Seq(Entries)]
    BY TypesAre DEF IInv, Basics, Types
<1>2. k \in Seq(Entries) /\ u \in Seq(Words)
    BY DEF GoodKernel, GoodUser
<1>3. kstack' \in [Procs -> Seq(Entries)] /\ ustack' \in [Procs -> Seq(Words)]
    BY <1>1, <1>2 DEF IInv, Basics
<1>4. ASSUME NEW p \in Procs
      PROVE  GoodKernel(kstack'[p]) /\ GoodUser(ustack'[p], run'[p], Back(p)')
  <2>1. CASE p = cur
    <3>1. kstack'[p] = k /\ ustack'[p] = u /\ run'[p] = r
        BY <2>1, <1>1
    <3> QED
        BY <3>1 DEF Back
  <2>2. CASE p # cur
    <3>1. kstack'[p] = kstack[p] /\ ustack'[p] = ustack[p] /\ run'[p] = run[p]
        BY <2>2, <1>1
    <3> QED
        BY <3>1 DEF Back, IInv, Stacks
  <2> QED
    BY <2>1, <2>2
<1>5. TypeOK'
    BY <1>3 DEF TypeOK, Types, Entries, Ats
<1> QED
    BY <1>3, <1>4, <1>5 DEF IInv, Basics, Stacks

\* If only the kernel stack changes, and not whether the handler has returned.
LEMMA KernelStep ==
    ASSUME IInv, Types', NEW k, kstack' = [kstack EXCEPT ![cur] = k], UNCHANGED <<run, ustack>>,
           GoodKernel(k), (k # <<>> /\ k[1].at = "sigreturn") <=> Back(cur)
    PROVE  IInv'
<1>1. cur \in Procs /\ DOMAIN ustack = Procs /\ DOMAIN run = Procs
    BY TypesAre DEF IInv, Basics, Types
<1>2. ustack' = [ustack EXCEPT ![cur] = ustack[cur]] /\ run' = [run EXCEPT ![cur] = run[cur]]
  <2>1. ustack \in [Procs -> Seq(Words)] /\ run \in [Procs -> Signals \cup {MAIN}]
    BY TypesAre DEF IInv, Basics, Types
  <2> QED
    BY <1>1, <2>1
<1>3. GoodUser(ustack[cur], run[cur], k # <<>> /\ k[1].at = "sigreturn")
    BY <1>1 DEF IInv, Stacks, Back
<1> QED
    BY <1>2, <1>3, StackStep

\* The first of pushed entries stays, and so does that of an entry popped.
LEMMA FirstEntry ==
    ASSUME NEW k, GoodKernel(k)
    PROVE  /\ \A e \in Entries : /\ Append(k, e) # <<>>
                                /\ Append(k, e)[1] = IF k = <<>> THEN e ELSE k[1]
           /\ Len(k) = 1 => SubSeq(k, 1, Len(k) - 1) = <<>>
           /\ k # <<>> /\ Len(k) # 1 => SubSeq(k, 1, Len(k) - 1) # <<>>
                                          /\ SubSeq(k, 1, Len(k) - 1)[1] = k[1]
           /\ k = <<>> <=> Len(k) = 0
<1>1. k \in Seq(Entries) /\ Len(k) \in Nat
    BY SMT DEF GoodKernel
<1>2. k = <<>> <=> Len(k) = 0
    BY <1>1, SMT
<1>3. ASSUME NEW e \in Entries
      PROVE  Append(k, e) # <<>> /\ Append(k, e)[1] = IF k = <<>> THEN e ELSE k[1]
  <2>1. Len(Append(k, e)) = Len(k) + 1 /\ Append(k, e)[Len(k) + 1] = e
        /\ \A i \in 1 .. Len(k) : Append(k, e)[i] = k[i]
    BY <1>1, SMT
  <2>2. Len(Append(k, e)) # 0
    BY <1>1, <2>1, SMT
  <2> DEFINE t == Append(k, e)
  <2>a. Len(<<>>) = 0
    OBVIOUS
  <2> HIDE DEF t
  <2>b. Len(t) # 0
    BY <2>2 DEF t
  <2>c. t # <<>>
    BY <2>a, <2>b
  <2>3. Append(k, e) # <<>>
    BY <2>c DEF t
  <2>4. CASE k = <<>>
    BY <2>1, <2>3, <2>4, SMT
  <2>5. CASE k # <<>>
    <3>1. Len(k) # 0
        BY <1>2, <2>5
    <3>2. 1 \in 1 .. Len(k)
        BY <1>1, <3>1, SMT
    <3> QED
        BY <2>1, <2>3, <2>5, <3>2
  <2> QED
    BY <2>4, <2>5
<1>4. Len(k) = 1 => SubSeq(k, 1, Len(k) - 1) = <<>>
    BY <1>1, SMT
<1>5. ASSUME k # <<>>, Len(k) # 1
      PROVE  SubSeq(k, 1, Len(k) - 1) # <<>> /\ SubSeq(k, 1, Len(k) - 1)[1] = k[1]
  <2> DEFINE n == Len(k)
  <2>0. n \in Nat /\ n # 0 /\ n # 1
    BY <1>1, <1>2, <1>5
  <2> HIDE DEF n
  <2>a. n - 1 \in 0 .. n /\ 1 \in 1 .. n - 1
    BY <2>0, SMT
  <2>1. Len(k) - 1 \in 0 .. Len(k) /\ 1 \in 1 .. Len(k) - 1
    BY <2>a DEF n
  <2>2. Len(SubSeq(k, 1, Len(k) - 1)) # 0 /\ SubSeq(k, 1, Len(k) - 1)[1] = k[1]
    BY <1>1, <2>1, PrefixFacts, SMT
  <2> QED
    BY <2>2, SMT
<1> QED
    BY <1>2, <1>3, <1>4, <1>5

\* A pop of an entry that is not a return of a handler.
LEMMA PopStep ==
    ASSUME IInv, Types', ~InUser(cur), Top(cur).at # "sigreturn", Pop(cur), UNCHANGED <<run, ustack>>
    PROVE  IInv'
<1> DEFINE k == kstack[cur]  l == SubSeq(k, 1, Len(k) - 1)
<1>1. cur \in Procs /\ GoodKernel(k) /\ k # <<>>
    BY TypesAre DEF IInv, Basics, Types, Stacks, InUser
<1>2. GoodKernel(l)
    BY <1>1, PopEntry
<1>3. kstack' = [kstack EXCEPT ![cur] = l]
    BY DEF Pop
<1>4. (l # <<>> /\ l[1].at = "sigreturn") <=> Back(cur)
  <2>1. CASE Len(k) = 1
    BY <2>1, <1>1, FirstEntry DEF Back, Top
  <2>2. CASE Len(k) # 1
    BY <2>2, <1>1, FirstEntry DEF Back
  <2> QED
    BY <2>1, <2>2
<1> HIDE DEF l
<1> QED
    BY <1>2, <1>3, <1>4, KernelStep

\* A push of an entry that is not a return of a handler.
LEMMA PushStep ==
    ASSUME IInv, Types', NEW e, Push(cur, e), e.at # "sigreturn", e.at = "call" => InUser(cur),
           e \in Entries, e.at \in {"act", "alarm"} <=> e.sig # NONE, UNCHANGED <<run, ustack>>
    PROVE  IInv'
<1> DEFINE k == kstack[cur]  l == Append(k, e)
<1>1. cur \in Procs /\ GoodKernel(k) /\ DOMAIN kstack = Procs
    BY TypesAre DEF IInv, Basics, Types, Stacks
<1>2. e.at = "call" => Len(k) + 1 = 1
    BY <1>1, FirstEntry DEF InUser
<1>3. GoodKernel(l)
    BY <1>1, <1>2, PushEntry DEF GoodEntry
<1>4. kstack' = [kstack EXCEPT ![cur] = l]
    BY DEF Push
<1>5. (l # <<>> /\ l[1].at = "sigreturn") <=> Back(cur)
    BY <1>1, FirstEntry DEF Back
<1> HIDE DEF l
<1> QED
    BY <1>3, <1>4, <1>5, KernelStep

\* A change of the innermost entry, neither a call nor a return of a handler.
LEMMA SetStep ==
    ASSUME IInv, Types', ~InUser(cur), Top(cur).at # "sigreturn",
           NEW e \in Entries, SetTop(cur, e), e.at \in {"act", "alarm"}, e.sig # NONE,
           UNCHANGED <<run, ustack>>
    PROVE  IInv'
<1> DEFINE k == kstack[cur]  l == [k EXCEPT ![Len(k)] = e]
<1>1. cur \in Procs /\ GoodKernel(k) /\ k # <<>> /\ DOMAIN kstack = Procs
    BY TypesAre DEF IInv, Basics, Types, Stacks, InUser
<1>2. GoodKernel(l)
    BY <1>1, SetEntry DEF GoodEntry
<1>3. kstack' = [kstack EXCEPT ![cur] = l]
    BY <1>1 DEF SetTop
<1>4. (l # <<>> /\ l[1].at = "sigreturn") <=> Back(cur)
  <2>1. k \in Seq(Entries) /\ Len(k) \in Nat \ {0} /\ 1 \in 1 .. Len(k)
    BY <1>1, TopEntry DEF GoodKernel
  <2>2. l # <<>> /\ l[1] = IF 1 = Len(k) THEN e ELSE k[1]
    BY <2>1, SMT
  <2> QED
    BY <1>1, <2>2 DEF Back, Top
<1> HIDE DEF l
<1> QED
    BY <1>2, <1>3, <1>4, KernelStep

-----------------------------------------------------------------------------
(* the steps *)

\* What IInv says of the running process.
LEMMA Running ==
    ASSUME IInv
    PROVE  /\ Types /\ cur \in Procs
           /\ kstack \in [Procs -> Seq(Entries)] /\ ustack \in [Procs -> Seq(Words)]
           /\ GoodKernel(kstack[cur]) /\ GoodUser(ustack[cur], run[cur], Back(cur))
           /\ ~InUser(cur) => Len(kstack[cur]) \in Nat \ {0} /\ GoodEntry(Top(cur), Len(kstack[cur]))
           /\ InUser(cur) => Back(cur) = FALSE
<1>1. Types /\ cur \in Procs /\ kstack \in [Procs -> Seq(Entries)] /\ ustack \in [Procs -> Seq(Words)]
    BY TypesAre DEF IInv, Basics, Types
<1>2. GoodKernel(kstack[cur]) /\ GoodUser(ustack[cur], run[cur], Back(cur))
    BY <1>1 DEF IInv, Stacks
<1>3. ~InUser(cur) => Len(kstack[cur]) \in Nat \ {0} /\ GoodEntry(Top(cur), Len(kstack[cur]))
    BY <1>2, TopEntry DEF InUser, Top
<1> QED
    BY <1>1, <1>2, <1>3 DEF InUser, Back

LEMMA SignalNumbers ==
    /\ SEGFAULT \in Signals /\ INTERRUPT \in Signals /\ ALARM \in Signals
    /\ NONE \notin Signals /\ MAIN \notin Signals
BY SMT DEF SEGFAULT, INTERRUPT, ALARM, Signals, NONE, MAIN

\* Interrupts and exceptions push an entry.
LEMMA InterruptStep == IInv /\ Interrupt => IInv'
<1> SUFFICES ASSUME IInv, Interrupt PROVE IInv'
    OBVIOUS
<1>1. Push(cur, Entry("tail")) /\ UNCHANGED <<sig_mask, sig_hand, run, ustack>>
    BY DEF Interrupt, ControlC, Rtc, Fault, Tick, Enter
<1>2. Types
    BY Running
<1>3. ASSUME NEW p \in Procs, NEW s \in Signals, Raise(p, s)
      PROVE  sig_state' \in [Procs -> SUBSET Signals]
    BY <1>2, <1>3 DEF Raise, Types
<1>4. sig_state' \in [Procs -> SUBSET Signals]
    BY <1>2, <1>3, SignalNumbers DEF Interrupt, ControlC, Rtc, Fault, Tick, Types
<1>5. cur' \in Procs
    BY <1>2 DEF Interrupt, ControlC, Rtc, Fault, Tick, Types
<1>6. Types'
    BY <1>1, <1>2, <1>4, <1>5 DEF Types
<1>7. LET e == Entry("tail")
      IN  e \in Entries /\ e.at = "tail" /\ e.sig = NONE
    BY DEF Entry, Entries, Ats
<1> QED
    BY <1>1, <1>6, <1>7, PushStep

LEMMA SelectStep == IInv /\ Select => IInv'
<1> SUFFICES ASSUME IInv, Select PROVE IInv'
    OBVIOUS
<1>1. Types /\ cur \in Procs
    BY Running
<1>2. PICK s \in Pending(cur) :
          /\ sig_state' = [sig_state EXCEPT ![cur] = @ \ {s}]
          /\ sig_mask' = [sig_mask EXCEPT ![cur] = Mask(cur, s)]
          /\ SetTop(cur, [at |-> "act", sig |-> s])
    BY DEF Select
<1>3. s \in Signals
    BY <1>1 DEF Pending, Types
<1>4. Types'
  <2>1. sig_state' \in [Procs -> SUBSET Signals]
    BY <1>1, <1>2 DEF Types
  <2>2. sig_mask' \in [Procs -> {Unmasked} \cup {{r} : r \in Signals}]
    BY <1>1, <1>2, <1>3 DEF Types, Mask
  <2> QED
    BY <1>1, <2>1, <2>2 DEF Types, Select
<1>5. ~InUser(cur) /\ Top(cur).at = "tail" /\ UNCHANGED <<run, ustack>>
    BY DEF Select, At
<1>6. LET e == [at |-> "act", sig |-> s] IN e \in Entries /\ e.at = "act" /\ e.sig # NONE
    BY <1>3, SignalNumbers DEF Entries, Ats
<1> QED
    BY <1>2, <1>4, <1>5, <1>6, SetStep

LEMMA NoSignalStep == IInv /\ NoSignal => IInv'
<1> SUFFICES ASSUME IInv, NoSignal PROVE IInv'
    OBVIOUS
<1>1. Types'
    BY Running DEF NoSignal, sigs, Types
<1> QED
    BY <1>1, PopStep DEF NoSignal, At

\* All signals are let through again.
LEMMA UnmaskTypes ==
    ASSUME Types, sig_mask' = [sig_mask EXCEPT ![cur] = Unmasked],
           UNCHANGED <<cur, sig_state, sig_hand, run>>
    PROVE  Types'
BY DEF Types

LEMMA IgnoreStep == ASSUME NEW s \in Signals PROVE IInv /\ Ignore(s) => IInv'
<1> SUFFICES ASSUME IInv, Ignore(s) PROVE IInv'
    OBVIOUS
<1>1. Types'
    BY Running, UnmaskTypes DEF Ignore
<1> QED
    BY <1>1, PopStep DEF Ignore, Acts, At

LEMMA CallAlarmStep == IInv /\ CallAlarm => IInv'
<1> SUFFICES ASSUME IInv, CallAlarm PROVE IInv'
    OBVIOUS
<1>1. Types'
    BY Running DEF CallAlarm, sigs, Types
<1>2. LET e == [at |-> "alarm", sig |-> ALARM] IN e \in Entries /\ e.at = "alarm" /\ e.sig # NONE
    BY SignalNumbers DEF Entries, Ats
<1> QED
    BY <1>1, <1>2, SetStep DEF CallAlarm, Acts, At

LEMMA AlarmReturnsStep == IInv /\ AlarmReturns => IInv'
<1> SUFFICES ASSUME IInv, AlarmReturns PROVE IInv'
    OBVIOUS
<1>1. Types'
    BY Running, UnmaskTypes DEF AlarmReturns
<1> QED
    BY <1>1, PopStep DEF AlarmReturns, At

\* An empty stack, of either kind, is good.
LEMMA EmptyStacks == GoodKernel(<<>>) /\ GoodUser(<<>>, MAIN, FALSE)
<1>1. Len(<<>>) = 0 /\ \A i \in 1 .. 0 : FALSE
    BY SMT
<1>2. <<>> \in Seq(Entries) /\ <<>> \in Seq(Words)
    OBVIOUS
<1>3. 0 % 4 = 0
    BY SMT
<1> QED
    BY <1>1, <1>2, <1>3 DEF GoodKernel, GoodUser, RunAt

LEMMA KillStep == ASSUME NEW s \in Signals PROVE IInv /\ Kill(s) => IInv'
<1> SUFFICES ASSUME IInv, Kill(s) PROVE IInv'
    OBVIOUS
<1>1. Default \in [Signals -> {"kill", "ignore", "user"}] /\ {} \in SUBSET Signals
    BY DEF Default
<1>2. Types'
    BY <1>1, Running DEF Kill, Types
<1>3. /\ kstack' = [kstack EXCEPT ![cur] = <<>>] /\ ustack' = [ustack EXCEPT ![cur] = <<>>]
      /\ run' = [run EXCEPT ![cur] = MAIN]
    BY DEF Kill
<1> QED
    BY <1>2, <1>3, EmptyStacks, StackStep

LEMMA DeliverStep == ASSUME NEW s \in Signals PROVE IInv /\ Deliver(s) => IInv'
<1> SUFFICES ASSUME IInv, Deliver(s) PROVE IInv'
    OBVIOUS
<1> DEFINE k == SubSeq(kstack[cur], 1, Len(kstack[cur]) - 1)
           u == ustack[cur] \o Frame(cur, s)
<1>1. Types /\ cur \in Procs /\ GoodKernel(kstack[cur]) /\ GoodUser(ustack[cur], run[cur], Back(cur))
    BY Running
<1>2. /\ ~InUser(cur) /\ Top(cur).at = "act" /\ Len(kstack[cur]) = 1
      /\ kstack' = [kstack EXCEPT ![cur] = k]
      /\ ustack' = [ustack EXCEPT ![cur] = u]
      /\ run' = [run EXCEPT ![cur] = s]
      /\ UNCHANGED <<cur, sigs>>
    BY DEF Deliver, Acts, At, Pop
<1>3. Types'
    BY <1>1, <1>2 DEF Types, sigs
<1>4. Back(cur) = FALSE
    BY <1>2 DEF Top, Back
<1>5. k = <<>>
    BY <1>1, <1>2, FirstEntry
<1>6. run[cur] \in Signals \cup {MAIN}
    BY <1>1 DEF Types
<1>7. Frame(cur, s) = <<[word |-> "code"],
                        [word |-> "context", run |-> run[cur], esp |-> Len(ustack[cur])],
                        [word |-> "number", sig |-> s], [word |-> "return"]>>
    BY DEF Frame
<1>8. GoodUser(ustack[cur], run[cur], FALSE)
    BY <1>1, <1>4
<1>9. GoodUser(u, s, FALSE)
    BY <1>6, <1>7, <1>8, PushFrame
<1> HIDE DEF u, k
<1>10. GoodKernel(k) /\ ~(k # <<>> /\ k[1].at = "sigreturn")
    BY <1>5, EmptyStacks
<1> QED
    BY <1>2, <1>3, <1>9, <1>10, StackStep

LEMMA DeliverNotStep == ASSUME NEW s \in Signals PROVE IInv /\ DeliverNot(s) => IInv'
<1> SUFFICES ASSUME IInv, DeliverNot(s) PROVE IInv'
    OBVIOUS
<1>1. Types'
    BY Running DEF DeliverNot, sigs, Types
<1> QED
    BY <1>1, PopStep DEF DeliverNot, Acts, At

LEMMA CallStep == IInv /\ Call => IInv'
<1> SUFFICES ASSUME IInv, Call PROVE IInv'
    OBVIOUS
<1>1. Types'
    BY Running DEF Call, sigs, Types
<1>2. LET e == Entry("call") IN e \in Entries /\ e.at = "call" /\ e.sig = NONE
    BY DEF Entry, Entries, Ats
<1> QED
    BY <1>1, <1>2, PushStep DEF Call

LEMMA CallReturnsStep == IInv /\ CallReturns => IInv'
<1> SUFFICES ASSUME IInv, CallReturns PROVE IInv'
    OBVIOUS
<1>1. Types'
    BY Running DEF CallReturns, sigs, Types
<1> QED
    BY <1>1, PopStep DEF CallReturns, At

LEMMA SetHandlerStep == ASSUME NEW s \in Handled[cur] PROVE IInv /\ SetHandler(s) => IInv'
<1> SUFFICES ASSUME IInv, SetHandler(s) PROVE IInv'
    OBVIOUS
<1>1. s \in Signals
    BY SignalAssumption, Running DEF Types
<1>2. Types'
    BY <1>1, Running DEF SetHandler, Types
<1>3. UNCHANGED <<kstack, run, ustack>>
    BY DEF SetHandler
<1> QED
    BY <1>2, <1>3, TypesAre DEF IInv, Basics, Stacks, Back, TypeOK, Types

LEMMA HandlerReturnsStep == IInv /\ HandlerReturns => IInv'
<1> SUFFICES ASSUME IInv, HandlerReturns PROVE IInv'
    OBVIOUS
<1> DEFINE e == Entry("sigreturn")  k == Append(kstack[cur], e)
           u == SubSeq(ustack[cur], 1, Len(ustack[cur]) - 1)
<1>1. /\ Types /\ cur \in Procs /\ GoodKernel(kstack[cur]) /\ Back(cur) = FALSE
      /\ GoodUser(ustack[cur], run[cur], FALSE)
    BY Running DEF HandlerReturns
<1>2. /\ kstack[cur] = <<>> /\ run[cur] # MAIN
      /\ kstack' = [kstack EXCEPT ![cur] = k]
      /\ ustack' = [ustack EXCEPT ![cur] = u]
      /\ UNCHANGED <<cur, sigs, run>>
    BY DEF HandlerReturns, InUser, Push
<1>3. Types'
    BY <1>1, <1>2 DEF Types, sigs
<1>4. e \in Entries /\ e.at = "sigreturn" /\ e.sig = NONE
    BY DEF Entry, Entries, Ats
<1>5. GoodEntry(e, Len(kstack[cur]) + 1)
    BY <1>1, <1>2, <1>4, FirstEntry, Len(kstack[cur]) + 1 = 1 DEF GoodEntry
<1>6. GoodKernel(k) /\ k # <<>> /\ k[1] = e
    BY <1>1, <1>2, <1>4, <1>5, PushEntry, FirstEntry
<1>7. ustack[cur] # <<>>
  <2>1. ustack[cur] = <<>> => run[cur] = MAIN
    BY <1>1, Len(<<>>) = 0 DEF GoodUser, RunAt
  <2> QED
    BY <2>1, <1>2
<1>8. GoodUser(u, run[cur], TRUE)
    BY <1>1, <1>7, PopReturn
<1>9. run' = [run EXCEPT ![cur] = run[cur]]
    BY <1>1, <1>2 DEF Types
<1> HIDE DEF u, k, e
<1> QED
    BY <1>2, <1>3, <1>4, <1>6, <1>8, <1>9, StackStep

\* sigreturn finds a context, and restores it.
LEMMA SigreturnStep == IInv /\ Sigreturn => IInv'
<1> SUFFICES ASSUME IInv, Sigreturn PROVE IInv'
    OBVIOUS
<1> DEFINE c == ContextAt(cur)
           k == SubSeq(kstack[cur], 1, Len(kstack[cur]) - 1)
           u == SubSeq(ustack[cur], 1, c.esp)
<1>1. Types /\ cur \in Procs /\ GoodKernel(kstack[cur]) /\ GoodUser(ustack[cur], run[cur], Back(cur))
    BY Running
<1>2. /\ ~InUser(cur) /\ Top(cur).at = "sigreturn"
      /\ kstack' = [kstack EXCEPT ![cur] = k]
      /\ ustack' = [ustack EXCEPT ![cur] = u]
      /\ run' = [run EXCEPT ![cur] = c.run]
      /\ sig_mask' = [sig_mask EXCEPT ![cur] = Unmasked]
      /\ UNCHANGED <<cur, sig_state, sig_hand>>
    BY DEF Sigreturn, At, Pop
<1>3. Len(kstack[cur]) = 1
    BY <1>2, Running DEF GoodEntry
<1>4. Back(cur) /\ k = <<>>
    BY <1>1, <1>2, <1>3, FirstEntry DEF Back, Top, InUser
<1>5. c.run \in Signals \cup {MAIN} /\ GoodUser(u, c.run, FALSE)
    BY <1>1, <1>4, RestoreFrame DEF ContextAt
<1>6. Types'
    BY <1>1, <1>2, <1>5 DEF Types
<1> HIDE DEF u, k, c
<1>7. GoodKernel(k) /\ ~(k # <<>> /\ k[1].at = "sigreturn")
    BY <1>4, EmptyStacks
<1> QED
    BY <1>2, <1>5, <1>6, <1>7, StackStep

-----------------------------------------------------------------------------
(* theorems: types and frames *)

LEMMA InitGood == Init => IInv
<1> SUFFICES ASSUME Init PROVE IInv
    OBVIOUS
<1>1. GoodEntry(Entry("tail"), 1) /\ Entry("tail").at = "tail"
    BY DEF Entry, GoodEntry, Entries, Ats
<1> DEFINE k == Append(<<>>, Entry("tail"))
<1>2. <<Entry("tail")>> = k
    BY SMT
<1>3. GoodKernel(k) /\ k[1] = Entry("tail")
    BY <1>1, EmptyStacks, PushEntry, FirstEntry, Len(<<>>) + 1 = 1 DEF GoodEntry
<1>4. ASSUME NEW p \in Procs
      PROVE  GoodKernel(kstack[p]) /\ Back(p) = FALSE /\ run[p] = MAIN /\ ustack[p] = <<>>
  <2>1. kstack[p] = <<>> \/ kstack[p] = k
    BY <1>2 DEF Init
  <2> HIDE DEF k
  <2> QED
    BY <2>1, <1>1, <1>3, EmptyStacks DEF Init, Back
<1>5. kstack \in [Procs -> Seq(Entries)] /\ ustack \in [Procs -> Seq(Words)]
  <2>1. \A p \in Procs : kstack[p] \in Seq(Entries)
    BY <1>4 DEF GoodKernel
  <2>2. <<>> \in Seq(Words)
    OBVIOUS
  <2> QED
    BY <2>1, <2>2 DEF Init
<1>6. Types
    BY DEF Init, Types, Default
<1>7. \A p \in Procs : GoodUser(ustack[p], run[p], Back(p))
    BY <1>4, EmptyStacks
<1> QED
    BY <1>4, <1>5, <1>6, <1>7, TypesAre DEF IInv, Basics, Stacks

LEMMA NextGood == IInv /\ [Next]_vars => IInv'
<1>1. IInv /\ UNCHANGED vars => IInv'
    BY DEF IInv, Basics, TypeOK, Stacks, Back, vars, sigs
<1>2. IInv /\ Handle => IInv'
    BY SelectStep, NoSignalStep, CallAlarmStep, AlarmReturnsStep, KillStep, IgnoreStep,
       DeliverStep, DeliverNotStep DEF Handle
<1>3. IInv /\ Program => IInv'
    BY CallStep, CallReturnsStep, HandlerReturnsStep, SigreturnStep, SetHandlerStep DEF Program
<1> QED
    BY <1>1, <1>2, <1>3, InterruptStep DEF Next

\* The kernel stacks hold entries and the user stacks whole frames, whatever
\* interrupts, faults, handlers and calls nest.
THEOREM Invariance == Spec => []IInv
<1> QED
    BY InitGood, NextGood, PTL DEF Spec

\* The mask of a process is never anything but all signals or one
\* (signal_mask, signal_unmask).
THEOREM TypeCorrect == Spec => []TypeOK
<1>1. IInv => TypeOK
    BY DEF IInv, Basics
<1> QED
    BY <1>1, Invariance, PTL

\* sigreturn always finds the context that its own signal interrupted.
THEOREM FramesLeadBackCorrect == Spec => []FramesLeadBack
<1>1. ASSUME IInv, NEW p \in Procs
      PROVE  At(p, "sigreturn") => ContextAt(p).word = "context"
  <2>1. GoodKernel(kstack[p]) /\ GoodUser(ustack[p], run[p], Back(p))
    BY <1>1 DEF IInv, Stacks
  <2>2. ASSUME At(p, "sigreturn")
        PROVE  Back(p) = TRUE
    <3>1. kstack[p] # <<>> /\ kstack[p][Len(kstack[p])].at = "sigreturn"
        BY <2>2 DEF At, InUser, Top
    <3>2. Len(kstack[p]) = 1
        BY <2>1, <3>1, TopEntry DEF GoodEntry
    <3> QED
        BY <3>1, <3>2 DEF Back
  <2> QED
    BY <2>1, <2>2, RestoreFrame DEF ContextAt
<1>2. ASSUME IInv, NEW p \in Procs, NEW i \in DOMAIN ustack[p], ustack[p][i].word = "context"
      PROVE  LET w == ustack[p][i]
             IN  w.esp = i - 2 /\ w.run = IF w.esp = 0 THEN MAIN ELSE ustack[p][w.esp - 1].sig
  <2>1. GoodUser(ustack[p], run[p], Back(p))
    BY <1>2 DEF IInv, Stacks
  <2>2. i \in 1 .. Len(ustack[p]) /\ i \in Nat
    BY <2>1, SMT DEF GoodUser
  <2>3. i % 4 = 0 \/ i % 4 = 1 \/ i % 4 = 2 \/ i % 4 = 3
    BY <2>2, SMT
  <2>4. i % 4 = 2
    BY <2>1, <2>2, <2>3, <1>2 DEF GoodUser
  <2>5. ustack[p][i].esp = i - 2 /\ ustack[p][i].run = RunAt(ustack[p], i - 2)
    BY <2>1, <2>2, <2>4 DEF GoodUser
  <2> QED
    BY <2>5 DEF RunAt
<1>3. IInv => FramesLeadBack
    BY <1>1, <1>2 DEF FramesLeadBack
<1> QED
    BY <1>3, Invariance, PTL

-----------------------------------------------------------------------------
(* masks, when no interrupt of kernel code finds a signal for a handler *)

\* s is pending among st, and h leaves it to a handler on the user stack.
Waits(st, h, s) == s \in st /\ h[s] = "user" /\ s # ALARM

\* Timely, NoActs and Masked, of a process's kernel stack k, signals st, mask m,
\* handlers h and program r.
TimelyIn(k, st, m, h) ==
    \A i \in 2 .. Len(k) : \A s \in Signals :
        k[i].at = "tail" /\ (s \in m \/ i < Len(k)) => ~Waits(st, h, s)

\* an interrupt of kernel code acts on no signal for a handler
NoActs(k, h) ==
    \A i \in 2 .. Len(k) : k[i].at = "act" => k[i].sig = ALARM \/ h[k[i].sig] # "user"

HandlesIn(k, r, s) ==
    \/ \E i \in DOMAIN k :
          /\ s # NONE /\ k[i].sig = s
          /\ \A j \in i + 1 .. Len(k) : k[j].sig = NONE
    \/ r = s /\ \A i \in DOMAIN k : k[i].sig = NONE

Masked(k, m, r) == m = Unmasked \/ \E s \in Signals : m = {s} /\ HandlesIn(k, r, s)

GoodMask(k, st, m, h, r) == TimelyIn(k, st, m, h) /\ NoActs(k, h) /\ Masked(k, m, r)

MInv == \A p \in Procs : GoodMask(kstack[p], sig_state[p], sig_mask[p], sig_hand[p], run[p])

\* An entry without a signal is pushed; that no signal waits must be known.
LEMMA PushMask ==
    ASSUME NEW k, GoodKernel(k), NEW e \in Entries, e.sig = NONE, e.at # "act",
           NEW st, NEW m, NEW h, NEW r, GoodMask(k, st, m, h, r),
           NEW st2, TimelyIn(Append(k, e), st2, m, h)
    PROVE  GoodMask(Append(k, e), st2, m, h, r)
<1> DEFINE l == Append(k, e)  n == Len(k)
<1>1. k \in Seq(Entries) /\ n \in Nat /\ DOMAIN k = 1 .. n
    BY SMT DEF GoodKernel
<1>2. /\ Len(l) = n + 1 /\ l[n + 1] = e /\ DOMAIN l = 1 .. n + 1
      /\ \A i \in 1 .. n : l[i] = k[i]
    BY <1>1, SMT
<1> HIDE DEF l, n
<1>3. \A i \in 1 .. n + 1 : i \in 1 .. n \/ i = n + 1
    BY <1>1, SMT
<1>4. \A i \in 2 .. n + 1 : (i \in 2 .. n /\ i \in 1 .. n) \/ i = n + 1
    BY <1>1, SMT
<1>5. NoActs(l, h)
  <2>1. NoActs(k, h)
    BY DEF GoodMask
  <2> QED
    BY <2>1, <1>2, <1>4 DEF NoActs, n
<1>6. ASSUME NEW s \in Signals, HandlesIn(k, r, s)
      PROVE  HandlesIn(l, r, s)
  <2>1. CASE \A i \in DOMAIN k : k[i].sig = NONE
    <3>1. s = r \/ s = NONE
        BY <2>1, <1>6 DEF HandlesIn
    <3>2. \A i \in DOMAIN l : l[i].sig = NONE
        BY <2>1, <1>1, <1>2, <1>3
    <3> QED
        BY <3>1, <3>2, SignalNumbers DEF HandlesIn
  <2>2. CASE \E i \in DOMAIN k : /\ s # NONE /\ k[i].sig = s
                                /\ \A j \in i + 1 .. Len(k) : k[j].sig = NONE
    <3>1. PICK i \in 1 .. n : /\ s # NONE /\ k[i].sig = s
                              /\ \A j \in i + 1 .. n : k[j].sig = NONE
        BY <2>2, <1>1 DEF n
    <3>2. \A j \in i + 1 .. n + 1 : (j \in i + 1 .. n /\ j \in 1 .. n) \/ j = n + 1
        BY <1>1, SMT
    <3>3. i \in 1 .. n + 1
        BY <1>1, SMT
    <3>4. l[i].sig = s /\ \A j \in i + 1 .. n + 1 : l[j].sig = NONE
        BY <3>1, <3>2, <1>2
    <3> QED
        BY <3>1, <3>3, <3>4, <1>2 DEF HandlesIn
  <2> QED
    BY <1>6, <2>1, <2>2 DEF HandlesIn
<1>7. Masked(l, m, r)
    BY <1>6 DEF GoodMask, Masked
<1> QED
    BY <1>5, <1>7 DEF GoodMask, l

\* An entry is popped that has no signal, or all signals are let through again.
LEMMA PopMask ==
    ASSUME NEW k, GoodKernel(k), k # <<>>,
           NEW st, NEW m, NEW h, NEW r, GoodMask(k, st, m, h, r),
           NEW m2, m2 = Unmasked \/ (m2 = m /\ k[Len(k)].sig = NONE)
    PROVE  GoodMask(SubSeq(k, 1, Len(k) - 1), st, m2, h, r)
<1> DEFINE n == Len(k)  l == SubSeq(k, 1, n - 1)
<1>1. k \in Seq(Entries) /\ n \in Nat \ {0} /\ DOMAIN k = 1 .. n
    BY TopEntry, SMT DEF GoodKernel
<1>2. n - 1 \in 0 .. n
    BY <1>1, SMT
<1>3. l \in Seq(Entries) /\ Len(l) = n - 1 /\ \A i \in 1 .. n - 1 : l[i] = k[i]
    BY <1>1, <1>2, PrefixFacts
<1>4. DOMAIN l = 1 .. n - 1
    BY <1>3, SMT
<1> HIDE DEF l, n
<1>5. \A i \in 2 .. n - 1 : i \in 2 .. n /\ i \in 1 .. n - 1 /\ i < n
    BY <1>1, SMT
<1>6. TimelyIn(l, st, m2, h)
  <2>1. TimelyIn(k, st, m, h)
    BY DEF GoodMask
  <2> QED
    BY <2>1, <1>3, <1>5 DEF TimelyIn, n
<1>7. NoActs(l, h)
  <2>1. NoActs(k, h)
    BY DEF GoodMask
  <2> QED
    BY <2>1, <1>3, <1>5 DEF NoActs, n
<1>8. ASSUME NEW s \in Signals, HandlesIn(k, r, s), k[n].sig = NONE
      PROVE  HandlesIn(l, r, s)
  <2>1. CASE \A i \in DOMAIN k : k[i].sig = NONE
    <3>1. s = r \/ s = NONE
        BY <2>1, <1>8 DEF HandlesIn
    <3>2. \A i \in 1 .. n - 1 : i \in 1 .. n
        BY <1>1, SMT
    <3>3. \A i \in DOMAIN l : l[i].sig = NONE
        BY <2>1, <3>2, <1>1, <1>3, <1>4
    <3> QED
        BY <3>1, <3>3, SignalNumbers DEF HandlesIn
  <2>2. CASE \E i \in DOMAIN k : /\ s # NONE /\ k[i].sig = s
                                /\ \A j \in i + 1 .. Len(k) : k[j].sig = NONE
    <3>1. PICK i \in 1 .. n : /\ s # NONE /\ k[i].sig = s
                              /\ \A j \in i + 1 .. n : k[j].sig = NONE
        BY <2>2, <1>1 DEF n
    <3>2. i # n
        BY <3>1, <1>8
    <3>3. /\ i \in 1 .. n - 1
          /\ \A j \in i + 1 .. n - 1 : j \in i + 1 .. n /\ j \in 1 .. n - 1
        BY <1>1, <3>2, SMT
    <3>4. l[i].sig = s /\ \A j \in i + 1 .. n - 1 : l[j].sig = NONE
        BY <3>1, <3>3, <1>3
    <3> QED
        BY <3>1, <3>3, <3>4, <1>3, <1>4 DEF HandlesIn
  <2> QED
    BY <1>8, <2>1, <2>2 DEF HandlesIn
<1>9. Masked(l, m2, r)
    BY <1>8 DEF GoodMask, Masked, n
<1> QED
    BY <1>6, <1>7, <1>9 DEF GoodMask, l, n

\* The innermost entry comes to act on signal s, and masks the others or has done so.
LEMMA SetMask ==
    ASSUME NEW k, GoodKernel(k), k # <<>>, NEW s \in Signals,
           NEW at \in {"act", "alarm"},
           NEW st, NEW m, NEW h, NEW r, GoodMask(k, st, m, h, r),
           NEW st2, st2 \subseteq st,
           NEW m2, m2 = {s} \/ (m2 = m /\ k[Len(k)].sig = s),
           at = "act" /\ Len(k) # 1 => s = ALARM \/ h[s] # "user"
    PROVE  GoodMask([k EXCEPT ![Len(k)] = [at |-> at, sig |-> s]], st2, m2, h, r)
<1> DEFINE n == Len(k)  e == [at |-> at, sig |-> s]  l == [k EXCEPT ![n] = e]
<1>1. k \in Seq(Entries) /\ n \in Nat \ {0} /\ DOMAIN k = 1 .. n /\ n \in 1 .. n
    BY TopEntry, SMT DEF GoodKernel
<1>2. e \in Entries /\ e.at = at /\ e.sig = s
    BY DEF Entries, Ats
<1>3. /\ Len(l) = n /\ DOMAIN l = 1 .. n
      /\ \A i \in 1 .. n : l[i] = IF i = n THEN e ELSE k[i]
    BY <1>1, <1>2, SMT
<1> HIDE DEF l, n, e
<1>4. \A i \in 2 .. n : i \in 1 .. n /\ (i = n => n # 1) /\ (i # n => i < n)
    BY <1>1, SMT
<1>5. TimelyIn(l, st2, m2, h)
  <2>1. TimelyIn(k, st, m, h)
    BY DEF GoodMask
  <2> QED
    BY <2>1, <1>2, <1>3, <1>4 DEF TimelyIn, Waits, n
<1>6. NoActs(l, h)
  <2>1. NoActs(k, h)
    BY DEF GoodMask
  <2> QED
    BY <2>1, <1>2, <1>3, <1>4 DEF NoActs, n
<1>7. \A j \in n + 1 .. n : FALSE
    BY <1>1, SMT
<1>8. HandlesIn(l, r, s)
    BY <1>1, <1>2, <1>3, <1>7, SignalNumbers DEF HandlesIn
<1>9. ASSUME NEW q \in Signals, HandlesIn(k, r, q), k[n].sig = s
      PROVE  q = s
  <2>1. ASSUME NEW i \in 1 .. n, i # n
        PROVE  n \in i + 1 .. n
    BY <1>1, <2>1, SMT
  <2> QED
    BY <1>1, <1>9, <2>1, SignalNumbers DEF HandlesIn, n
<1>10. Masked(l, m2, r)
    BY <1>8, <1>9 DEF GoodMask, Masked, n
<1> QED
    BY <1>5, <1>6, <1>10 DEF GoodMask, l, n, e

\* If only the running process changes, its masks must be good.
LEMMA MaskStep ==
    ASSUME IInv, MInv, NEW k, NEW st, NEW m, NEW h, NEW r,
           kstack' = [kstack EXCEPT ![cur] = k], sig_state' = [sig_state EXCEPT ![cur] = st],
           sig_mask' = [sig_mask EXCEPT ![cur] = m], sig_hand' = [sig_hand EXCEPT ![cur] = h],
           run' = [run EXCEPT ![cur] = r],
           GoodMask(k, st, m, h, r)
    PROVE  MInv'
<1>1. /\ kstack \in [Procs -> Seq(Entries)] /\ DOMAIN sig_state = Procs /\ DOMAIN sig_mask = Procs
      /\ DOMAIN sig_hand = Procs /\ DOMAIN run = Procs
    BY Running DEF Types
<1>2. ASSUME NEW p \in Procs
      PROVE  GoodMask(kstack'[p], sig_state'[p], sig_mask'[p], sig_hand'[p], run'[p])
  <2>1. CASE p = cur
    <3>1. kstack'[p] = k /\ sig_state'[p] = st /\ sig_mask'[p] = m /\ sig_hand'[p] = h /\ run'[p] = r
        BY <2>1, <1>1
    <3> QED
        BY <3>1
  <2>2. CASE p # cur
    <3>1. /\ kstack'[p] = kstack[p] /\ sig_state'[p] = sig_state[p] /\ sig_mask'[p] = sig_mask[p]
          /\ sig_hand'[p] = sig_hand[p] /\ run'[p] = run[p]
        BY <2>2, <1>1
    <3> QED
        BY <3>1 DEF MInv
  <2> QED
    BY <2>1, <2>2
<1> QED
    BY <1>2 DEF MInv

\* What a variable that does not change is, in the form that MaskStep asks for.
LEMMA Unchanged ==
    ASSUME IInv
    PROVE  /\ kstack = [kstack EXCEPT ![cur] = kstack[cur]]
           /\ sig_state = [sig_state EXCEPT ![cur] = sig_state[cur]]
           /\ sig_mask = [sig_mask EXCEPT ![cur] = sig_mask[cur]]
           /\ sig_hand = [sig_hand EXCEPT ![cur] = sig_hand[cur]]
           /\ run = [run EXCEPT ![cur] = run[cur]]
BY Running DEF Types

\* If only its stacks, its program and its mask change.
LEMMA StackMask ==
    ASSUME IInv, MInv, NEW k, NEW r, NEW m,
           kstack' = [kstack EXCEPT ![cur] = k], run' = [run EXCEPT ![cur] = r],
           sig_mask' = [sig_mask EXCEPT ![cur] = m], UNCHANGED <<sig_state, sig_hand>>,
           GoodMask(k, sig_state[cur], m, sig_hand[cur], r)
    PROVE  MInv'
<1>1. sig_state' = [sig_state EXCEPT ![cur] = sig_state[cur]]
    BY Unchanged
<1>2. sig_hand' = [sig_hand EXCEPT ![cur] = sig_hand[cur]]
    BY Unchanged
<1> DEFINE st == sig_state[cur]  h == sig_hand[cur]
<1>3. /\ sig_state' = [sig_state EXCEPT ![cur] = st] /\ sig_hand' = [sig_hand EXCEPT ![cur] = h]
      /\ GoodMask(k, st, m, h, r)
    BY <1>1, <1>2
<1> HIDE DEF st, h
<1> QED
    BY <1>3, MaskStep

\* If only its kernel stack changes.
LEMMA KernelMask ==
    ASSUME IInv, MInv, NEW k, kstack' = [kstack EXCEPT ![cur] = k],
           UNCHANGED <<sig_state, sig_mask, sig_hand, run>>,
           GoodMask(k, sig_state[cur], sig_mask[cur], sig_hand[cur], run[cur])
    PROVE  MInv'
<1>1. sig_mask' = [sig_mask EXCEPT ![cur] = sig_mask[cur]]
    BY Unchanged
<1>2. run' = [run EXCEPT ![cur] = run[cur]]
    BY Unchanged
<1> DEFINE m == sig_mask[cur]  r == run[cur]
<1>3. /\ sig_mask' = [sig_mask EXCEPT ![cur] = m] /\ run' = [run EXCEPT ![cur] = r]
      /\ GoodMask(k, sig_state[cur], m, sig_hand[cur], r)
    BY <1>1, <1>2
<1> HIDE DEF m, r
<1> QED
    BY <1>3, StackMask

LEMMA RunningMask ==
    ASSUME IInv, MInv
    PROVE  GoodMask(kstack[cur], sig_state[cur], sig_mask[cur], sig_hand[cur], run[cur])
BY Running DEF MInv

LEMMA InterruptMask == ~KernelReturn /\ IInv /\ MInv /\ Interrupt => MInv'
<1> SUFFICES ASSUME ~KernelReturn, IInv, MInv, Interrupt PROVE MInv'
    OBVIOUS
<1> DEFINE e == Entry("tail")
<1>1. /\ kstack' = [kstack EXCEPT ![cur] = Append(@, e)]
      /\ UNCHANGED <<sig_mask, sig_hand, run, ustack>> /\ Timely'
    BY DEF Interrupt, ControlC, Rtc, Fault, Tick, Enter, Push
<1>2. e \in Entries /\ e.sig = NONE /\ e.at # "act"
    BY DEF Entry, Entries, Ats
<1> HIDE DEF e
<1>3. \A p \in Procs : TimelyIn(kstack'[p], sig_state'[p], sig_mask'[p], sig_hand'[p])
    BY <1>1 DEF Timely, TimelyIn, ForHandler, Waits
<1>4. ASSUME NEW p \in Procs
      PROVE  GoodMask(kstack'[p], sig_state'[p], sig_mask'[p], sig_hand'[p], run'[p])
  <2>1. /\ GoodMask(kstack[p], sig_state[p], sig_mask[p], sig_hand[p], run[p])
        /\ GoodKernel(kstack[p]) /\ kstack \in [Procs -> Seq(Entries)]
    BY Running DEF MInv, IInv, Stacks
  <2>2. /\ TimelyIn(kstack'[p], sig_state'[p], sig_mask[p], sig_hand[p])
        /\ sig_mask'[p] = sig_mask[p] /\ sig_hand'[p] = sig_hand[p] /\ run'[p] = run[p]
    BY <1>1, <1>3
  <2>3. CASE p = cur
    <3>1. kstack'[p] = Append(kstack[p], e)
        BY <2>1, <2>3, <1>1
    <3>2. TimelyIn(Append(kstack[p], e), sig_state'[p], sig_mask[p], sig_hand[p])
        BY <2>2, <3>1
    <3>3. GoodMask(Append(kstack[p], e), sig_state'[p], sig_mask[p], sig_hand[p], run[p])
        BY <2>1, <3>2, <1>2, PushMask
    <3> QED
        BY <3>1, <3>3, <2>2
  <2>4. CASE p # cur
    <3>1. kstack'[p] = kstack[p]
        BY <2>1, <2>4, <1>1
    <3> QED
        BY <2>1, <2>2, <3>1 DEF GoodMask
  <2> QED
    BY <2>3, <2>4
<1> QED
    BY <1>4 DEF MInv

LEMMA SelectMask == ~KernelReturn /\ IInv /\ MInv /\ Select => MInv'
<1> SUFFICES ASSUME ~KernelReturn, IInv, MInv, Select PROVE MInv'
    OBVIOUS
<1> DEFINE k == kstack[cur]
<1>1. /\ Types /\ GoodKernel(k) /\ Len(k) \in Nat \ {0} /\ ~InUser(cur) /\ Top(cur).at = "tail"
      /\ GoodMask(k, sig_state[cur], sig_mask[cur], sig_hand[cur], run[cur])
      /\ UNCHANGED <<sig_hand, run>>
    BY Running, RunningMask DEF Select, At
<1>2. PICK s \in Pending(cur) :
          /\ sig_state' = [sig_state EXCEPT ![cur] = sig_state[cur] \ {s}]
          /\ sig_mask' = [sig_mask EXCEPT ![cur] = {s}]
          /\ kstack' = [kstack EXCEPT ![cur] = [k EXCEPT ![Len(k)] = [at |-> "act", sig |-> s]]]
  <2>1. DOMAIN kstack = Procs /\ DOMAIN sig_state = Procs /\ cur \in Procs
    BY Running DEF Types
  <2> QED
    BY <2>1 DEF Select, SetTop, Mask
<1>3. s \in Signals /\ s \in sig_state[cur] /\ s \in sig_mask[cur]
    BY <1>1, <1>2, Running DEF Pending, Types
<1>4. ASSUME Len(k) # 1
      PROVE  s = ALARM \/ sig_hand[cur][s] # "user"
  <2> DEFINE n == Len(k)
  <2>a. n \in Nat \ {0} /\ n # 1
    BY <1>1, <1>4
  <2> HIDE DEF n
  <2>b. n \in 2 .. n
    BY <2>a, SMT
  <2>1. Len(k) \in 2 .. Len(k)
    BY <2>b DEF n
  <2>2. TimelyIn(k, sig_state[cur], sig_mask[cur], sig_hand[cur])
    BY <1>1 DEF GoodMask
  <2>3. ~Waits(sig_state[cur], sig_hand[cur], s)
    BY <1>1, <1>3, <2>1, <2>2 DEF TimelyIn, Top
  <2> QED
    BY <1>3, <2>3 DEF Waits
<1> DEFINE l == [k EXCEPT ![Len(k)] = [at |-> "act", sig |-> s]]
<1>5. GoodMask(l, sig_state[cur] \ {s}, {s}, sig_hand[cur], run[cur])
  <2>1. k # <<>> /\ sig_state[cur] \ {s} \subseteq sig_state[cur]
    BY <1>1 DEF InUser
  <2> HIDE DEF k
  <2> QED
    BY <1>1, <1>3, <1>4, <2>1, SetMask
<1> HIDE DEF l
<1> QED
    BY <1>1, <1>2, <1>5, Unchanged, MaskStep DEF l

\* A pop of an entry that has no signal.
LEMMA PopNoSignal ==
    ASSUME IInv, MInv, ~InUser(cur), Pop(cur), Top(cur).sig = NONE,
           UNCHANGED <<sig_state, sig_mask, sig_hand, run>>
    PROVE  MInv'
<1> DEFINE k == kstack[cur]  l == SubSeq(k, 1, Len(k) - 1)
<1>1. /\ GoodKernel(k) /\ k # <<>> /\ k[Len(k)].sig = NONE
      /\ GoodMask(k, sig_state[cur], sig_mask[cur], sig_hand[cur], run[cur])
    BY Running, RunningMask DEF InUser, Top
<1>2. kstack' = [kstack EXCEPT ![cur] = l]
    BY DEF Pop
<1> HIDE DEF k
<1>3. GoodMask(l, sig_state[cur], sig_mask[cur], sig_hand[cur], run[cur])
    BY <1>1, PopMask
<1> HIDE DEF l
<1> QED
    BY <1>2, <1>3, KernelMask

\* A pop that lets all signals through again.
LEMMA PopUnmask ==
    ASSUME IInv, MInv, ~InUser(cur), Pop(cur), sig_mask' = [sig_mask EXCEPT ![cur] = Unmasked],
           UNCHANGED <<sig_state, sig_hand, run>>
    PROVE  MInv'
<1> DEFINE k == kstack[cur]  l == SubSeq(k, 1, Len(k) - 1)
<1>1. /\ GoodKernel(k) /\ k # <<>>
      /\ GoodMask(k, sig_state[cur], sig_mask[cur], sig_hand[cur], run[cur])
    BY Running, RunningMask DEF InUser
<1>2. kstack' = [kstack EXCEPT ![cur] = l]
    BY DEF Pop
<1> HIDE DEF k
<1>3. GoodMask(l, sig_state[cur], Unmasked, sig_hand[cur], run[cur])
    BY <1>1, PopMask
<1> DEFINE r == run[cur]  m == Unmasked
<1>4. /\ run' = [run EXCEPT ![cur] = r] /\ sig_mask' = [sig_mask EXCEPT ![cur] = m]
      /\ GoodMask(l, sig_state[cur], m, sig_hand[cur], r)
    BY <1>3, Unchanged
<1> HIDE DEF l, r, m
<1> QED
    BY <1>2, <1>4, StackMask

\* An empty kernel stack has nothing to be handled.
LEMMA EmptyMask ==
    ASSUME NEW st, NEW m, NEW h, NEW r, m = Unmasked \/ \E s \in Signals : m = {s} /\ r = s
    PROVE  GoodMask(<<>>, st, m, h, r)
<1>1. Len(<<>>) = 0 /\ (\A i \in 2 .. 0 : FALSE) /\ DOMAIN <<>> = {}
    BY SMT
<1> QED
    BY <1>1 DEF GoodMask, TimelyIn, NoActs, Masked, HandlesIn

LEMMA CallAlarmMask == IInv /\ MInv /\ CallAlarm => MInv'
<1> SUFFICES ASSUME IInv, MInv, CallAlarm PROVE MInv'
    OBVIOUS
<1> DEFINE k == kstack[cur]  l == [k EXCEPT ![Len(k)] = [at |-> "alarm", sig |-> ALARM]]
<1>1. /\ GoodKernel(k) /\ k # <<>> /\ k[Len(k)].sig = ALARM /\ ALARM \in Signals
      /\ GoodMask(k, sig_state[cur], sig_mask[cur], sig_hand[cur], run[cur])
      /\ UNCHANGED <<sig_state, sig_mask, sig_hand, run>>
    BY Running, RunningMask, SignalNumbers DEF CallAlarm, Acts, At, InUser, Top, sigs
<1>2. kstack' = [kstack EXCEPT ![cur] = l]
    BY Running DEF CallAlarm, SetTop
<1> HIDE DEF k
<1>3. GoodMask(l, sig_state[cur], sig_mask[cur], sig_hand[cur], run[cur])
  <2>1. "alarm" # "act"
    OBVIOUS
  <2> QED
    BY <1>1, <2>1, SetMask
<1> HIDE DEF l
<1> QED
    BY <1>1, <1>2, <1>3, KernelMask

LEMMA KillMask == ASSUME NEW s \in Signals PROVE IInv /\ MInv /\ Kill(s) => MInv'
<1> SUFFICES ASSUME IInv, MInv, Kill(s) PROVE MInv'
    OBVIOUS
<1>1. GoodMask(<<>>, {}, Unmasked, Default, MAIN)
    BY EmptyMask
<1> QED
    BY <1>1, MaskStep DEF Kill

\* The handler that the program comes to run is that of the signal acted on.
LEMMA DeliverMask == ASSUME NEW s \in Signals PROVE IInv /\ MInv /\ Deliver(s) => MInv'
<1> SUFFICES ASSUME IInv, MInv, Deliver(s) PROVE MInv'
    OBVIOUS
<1> DEFINE k == kstack[cur]  m == sig_mask[cur]
<1>1. /\ GoodKernel(k) /\ Len(k) = 1 /\ k[1].sig = s
      /\ GoodMask(k, sig_state[cur], m, sig_hand[cur], run[cur])
      /\ kstack' = [kstack EXCEPT ![cur] = SubSeq(k, 1, Len(k) - 1)]
      /\ run' = [run EXCEPT ![cur] = s] /\ UNCHANGED <<sig_state, sig_mask, sig_hand>>
    BY Running, RunningMask DEF Deliver, Acts, At, Top, Pop, sigs
<1>2. SubSeq(k, 1, Len(k) - 1) = <<>>
    BY <1>1, FirstEntry
<1>3. DOMAIN k = {1}
    BY <1>1, SMT DEF GoodKernel
<1>4. m = Unmasked \/ \E q \in Signals : m = {q} /\ s = q
    BY <1>1, <1>3, SignalNumbers DEF GoodMask, Masked, HandlesIn
<1>5. GoodMask(<<>>, sig_state[cur], m, sig_hand[cur], s)
    BY <1>4, EmptyMask
<1>6. /\ kstack' = [kstack EXCEPT ![cur] = <<>>]
      /\ sig_mask' = [sig_mask EXCEPT ![cur] = m]
    BY <1>1, <1>2, Unchanged
<1> HIDE DEF m
<1> QED
    BY <1>1, <1>5, <1>6, StackMask

\* This does not happen.
LEMMA DeliverNotMask == ASSUME NEW s \in Signals PROVE IInv /\ MInv => ~DeliverNot(s)
<1> SUFFICES ASSUME IInv, MInv, DeliverNot(s) PROVE FALSE
    OBVIOUS
<1> DEFINE k == kstack[cur]
<1>1. /\ Len(k) \in Nat /\ Len(k) > 1 /\ k[Len(k)].at = "act" /\ k[Len(k)].sig = s
      /\ sig_hand[cur][s] = "user" /\ s # ALARM
    BY Running DEF DeliverNot, Acts, At, Top
<1>2. Len(k) \in 2 .. Len(k)
    BY <1>1, SMT
<1>3. NoActs(k, sig_hand[cur])
    BY RunningMask DEF GoodMask
<1> QED
    BY <1>1, <1>2, <1>3 DEF NoActs

\* The first entry is pushed, one without a signal.
LEMMA PushFirst ==
    ASSUME IInv, MInv, InUser(cur), NEW e \in Entries, Push(cur, e), e.sig = NONE,
           UNCHANGED <<sig_state, sig_mask, sig_hand, run>>, e.at # "act"
    PROVE  MInv'
<1> DEFINE k == kstack[cur]  l == Append(k, e)
<1>1. /\ GoodKernel(k) /\ k = <<>>
      /\ GoodMask(k, sig_state[cur], sig_mask[cur], sig_hand[cur], run[cur])
    BY Running, RunningMask DEF InUser
<1>2. kstack' = [kstack EXCEPT ![cur] = l]
    BY Running DEF Push
<1>3. Len(l) = 1 /\ \A i \in 2 .. 1 : FALSE
  <2>1. l = <<e>>
    BY <1>1, SMT
  <2> QED
    BY <2>1, SMT
<1> HIDE DEF l
<1>4. TimelyIn(l, sig_state[cur], sig_mask[cur], sig_hand[cur])
    BY <1>3 DEF TimelyIn
<1>5. GoodMask(l, sig_state[cur], sig_mask[cur], sig_hand[cur], run[cur])
    BY <1>1, <1>4, PushMask DEF l
<1> QED
    BY <1>2, <1>5, KernelMask

LEMMA SetHandlerMask == ASSUME NEW s \in Handled[cur] PROVE IInv /\ MInv /\ SetHandler(s) => MInv'
<1> SUFFICES ASSUME IInv, MInv, SetHandler(s) PROVE MInv'
    OBVIOUS
<1> DEFINE h == [sig_hand[cur] EXCEPT ![s] = "user"]
<1>1. /\ kstack[cur] = <<>> /\ UNCHANGED <<kstack, sig_state, sig_mask, run>>
      /\ GoodMask(kstack[cur], sig_state[cur], sig_mask[cur], sig_hand[cur], run[cur])
    BY RunningMask DEF SetHandler, InUser
<1>2. sig_hand' = [sig_hand EXCEPT ![cur] = h]
    BY Running DEF SetHandler, Types
<1>3. GoodMask(<<>>, sig_state[cur], sig_mask[cur], h, run[cur])
  <2>1. DOMAIN <<>> = {}
    BY SMT
  <2> QED
    BY <1>1, <2>1, EmptyMask DEF GoodMask, Masked, HandlesIn
<1> DEFINE k == kstack[cur]  st == sig_state[cur]  m == sig_mask[cur]  r == run[cur]
<1>4. /\ kstack' = [kstack EXCEPT ![cur] = k] /\ sig_state' = [sig_state EXCEPT ![cur] = st]
      /\ sig_mask' = [sig_mask EXCEPT ![cur] = m] /\ run' = [run EXCEPT ![cur] = r]
    BY <1>1, Unchanged
<1>5. GoodMask(k, st, m, h, r)
    BY <1>1, <1>3
<1> HIDE DEF h, k, st, m, r
<1> QED
    BY <1>2, <1>4, <1>5, MaskStep

LEMMA NextMask == ~KernelReturn /\ IInv /\ MInv /\ [Next]_vars => MInv'
<1> SUFFICES ASSUME ~KernelReturn, IInv, MInv, [Next]_vars PROVE MInv'
    OBVIOUS
<1>1. CASE Interrupt
    BY <1>1, InterruptMask
<1>2. CASE Select
    BY <1>2, SelectMask
<1>3. CASE NoSignal
    BY <1>3, Running, PopNoSignal DEF NoSignal, At, sigs, GoodEntry
<1>4. CASE CallAlarm
    BY <1>4, CallAlarmMask
<1>5. CASE AlarmReturns
    BY <1>5, PopUnmask DEF AlarmReturns, At
<1>6. ASSUME NEW s \in Signals, Kill(s) \/ Ignore(s) \/ Deliver(s) \/ DeliverNot(s)
      PROVE  MInv'
    BY <1>6, KillMask, DeliverMask, DeliverNotMask, PopUnmask DEF Ignore, Acts, At
<1>7. CASE Call
  <2>1. LET e == Entry("call") IN e \in Entries /\ e.sig = NONE /\ e.at # "act"
    BY DEF Entry, Entries, Ats
  <2> QED
    BY <1>7, <2>1, PushFirst DEF Call, sigs
<1>8. CASE CallReturns
    BY <1>8, Running, PopNoSignal DEF CallReturns, At, sigs, GoodEntry
<1>9. CASE HandlerReturns
  <2>1. LET e == Entry("sigreturn") IN e \in Entries /\ e.sig = NONE /\ e.at # "act"
    BY DEF Entry, Entries, Ats
  <2> QED
    BY <1>9, <2>1, PushFirst DEF HandlerReturns, sigs
<1>10. CASE Sigreturn
  <2> DEFINE k == kstack[cur]
  <2>1. /\ kstack' = [kstack EXCEPT ![cur] = <<>>]
        /\ sig_mask' = [sig_mask EXCEPT ![cur] = Unmasked]
        /\ run' = [run EXCEPT ![cur] = ContextAt(cur).run] /\ UNCHANGED <<sig_state, sig_hand>>
    <3>1. Len(k) = 1
        BY <1>10, Running DEF Sigreturn, At, GoodEntry
    <3>2. SubSeq(k, 1, Len(k) - 1) = <<>>
        BY <3>1, Running, FirstEntry
    <3> QED
        BY <3>2, <1>10 DEF Sigreturn, Pop
  <2>2. GoodMask(<<>>, sig_state[cur], Unmasked, sig_hand[cur], ContextAt(cur).run)
    BY EmptyMask
  <2> QED
    BY <2>1, <2>2, Unchanged, MaskStep
<1>11. ASSUME NEW s \in Handled[cur], SetHandler(s)
       PROVE  MInv'
    BY <1>11, SetHandlerMask
<1>12. CASE UNCHANGED vars
    BY <1>12 DEF vars, sigs, MInv
<1> QED
    BY <1>1, <1>2, <1>3, <1>4, <1>5, <1>6, <1>7, <1>8, <1>9, <1>10, <1>11, <1>12
    DEF Next, Handle, Program

\* A process's signals are masked only while one of them is handled, if no interrupt
\* of kernel code finds a signal for a handler (signal_handler, sigreturn).
THEOREM MaskIsHandledCorrect == ASSUME ~KernelReturn PROVE Spec => []MaskIsHandled
<1>1. ASSUME Init
      PROVE  MInv
  <2>1. ASSUME NEW p \in Procs
        PROVE  GoodMask(kstack[p], sig_state[p], sig_mask[p], sig_hand[p], run[p])
    <3>1. GoodMask(<<>>, {}, Unmasked, Default, MAIN)
        BY EmptyMask
    <3>2. TimelyIn(<<Entry("tail")>>, {}, Unmasked, Default)
      <4>1. \A i \in 2 .. Len(<<Entry("tail")>>) : FALSE
        BY SMT
      <4> QED
        BY <4>1 DEF TimelyIn
    <3>3. Append(<<>>, Entry("tail")) = <<Entry("tail")>>
        BY SMT
    <3>4. Entry("tail") \in Entries /\ Entry("tail").sig = NONE /\ Entry("tail").at # "act"
        BY DEF Entry, Entries, Ats
    <3>5. GoodMask(<<Entry("tail")>>, {}, Unmasked, Default, MAIN)
      <4> DEFINE e == Entry("tail")
      <4> HIDE DEF e
      <4>1. TimelyIn(Append(<<>>, e), {}, Unmasked, Default) /\ e \in Entries /\ e.sig = NONE
            /\ e.at # "act"
        BY <3>2, <3>3, <3>4 DEF e
      <4>2. GoodMask(Append(<<>>, e), {}, Unmasked, Default, MAIN)
        BY <4>1, <3>1, EmptyStacks, PushMask
      <4> QED
        BY <4>2, <3>3 DEF e
    <3>6. /\ kstack[p] = <<>> \/ kstack[p] = <<Entry("tail")>>
          /\ sig_state[p] = {} /\ sig_mask[p] = Unmasked /\ sig_hand[p] = Default /\ run[p] = MAIN
        BY <1>1 DEF Init
    <3> QED
        BY <3>1, <3>5, <3>6
  <2> QED
    BY <2>1 DEF MInv
<1>2. MInv => MaskIsHandled
    BY DEF MInv, GoodMask, Masked, HandlesIn, MaskIsHandled, Handles
<1> QED
    BY <1>1, <1>2, Invariance, NextMask, PTL DEF Spec
===============================================================================
