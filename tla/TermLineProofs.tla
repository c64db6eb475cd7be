--------------------------- MODULE TermLineProofs ---------------------------
(***************************************************************************)
(* Proofs about TermLine.  Each operator of the console has a lemma that   *)
(* says what it changes.  The routing of video memory is proved from these *)
(* for whatever the user does, the types and the refinement of Lines for   *)
(* the user that AnyUser = FALSE describes.                                *)
(***************************************************************************)
EXTENDS TermLine, SequenceTheorems, Induction

Frames == Terminals \cup {VIDEO}

\* the console's memory
Console ==
    [using  : Terminals, exe : Terminals, active : SUBSET Terminals,
     screen : Places, astray : BOOLEAN, cursor : [Terminals -> Places],
     map    : Frames, frames : [Frames -> SUBSET Terminals],
     buf    : [Terminals -> Seq(Chars)], flag : [Terminals -> BOOLEAN],
     cmds   : [Terminals -> Seq(Seq(Chars))], ask : [Terminals -> Nat]]

\* Routed and OwnScreen of any console
RoutedIn(c) == c.map = FrameOf(c, c.exe) /\ (c.astray \/ c.screen = c.cursor[c.exe])
OwnIn(c)    == \A t \in Terminals : c.frames[FrameOf(c, t)] \subseteq {t}

\* what no step of a key changes but the switch of terminals
SameView(c, d) ==
    d.using = c.using /\ d.exe = c.exe /\ d.active = c.active /\ d.cmds = c.cmds

\* The frames are those of the terminals and the one on the screen.
LEMMA FrameType ==
    ASSUME NEW c, NEW t \in Terminals
    PROVE  FrameOf(c, t) \in Frames
    BY DEF FrameOf, Frames

\* The cursor stays on the screen.
LEMMA AdvanceType ==
    ASSUME NEW s \in Places, NEW ch
    PROVE  Advance(s, ch) \in Places
<1>1. /\ COLS \in Nat /\ COLS > 0 /\ ROWS \in Nat /\ ROWS > 0
      /\ s[1] \in 0 .. COLS - 1 /\ s[2] \in 0 .. ROWS - 1
    BY TermAssumption DEF Places
<1>2. NewLine(s) \in Places /\ NewLine(s)[1] = 0
    BY <1>1 DEF NewLine, Places
<1> DEFINE at == IF s[1] >= COLS - 1 THEN NewLine(s) ELSE s
<1>3. at \in Places
    BY <1>2
<1>4. (at[1] + 1) % COLS \in 0 .. COLS - 1 /\ at[2] \in 0 .. ROWS - 1
    BY <1>1, <1>3 DEF Places
<1> QED
    BY <1>2, <1>4 DEF Advance, Places

\* set_video_mem: the position and the frame of terminal t.
LEMMA SetMemEffect ==
    ASSUME NEW c \in Console, NEW t \in Terminals
    PROVE  LET d == SetMem(c, t)
           IN  /\ d \in Console
               /\ d.screen = c.cursor[t] /\ d.map = FrameOf(c, t) /\ d.astray = FALSE
               /\ d.cursor = c.cursor /\ d.frames = c.frames
               /\ d.buf = c.buf /\ d.flag = c.flag /\ d.ask = c.ask
               /\ SameView(c, d)
    BY FrameType DEF SetMem, Console, SameView

\* A character is drawn or blanked, by a process or by a key, for terminal t.
Drawn(c, t, S, at, astray) ==
    [Store(c, S) EXCEPT !.screen = at, !.astray = astray, !.cursor[t] = at]

DrawEffect(c, d, t, S, at, astray) ==
    /\ d \in Console
    /\ d.screen = at /\ d.cursor = [c.cursor EXCEPT ![t] = at]
    /\ d.map = c.map /\ d.astray = astray
    /\ d.frames = [c.frames EXCEPT ![c.map] = @ \cup S]
    /\ d.buf = c.buf /\ d.flag = c.flag /\ d.ask = c.ask
    /\ SameView(c, d)

LEMMA Drawing ==
    ASSUME NEW c \in Console, NEW t \in Terminals, NEW S \in SUBSET Terminals,
           NEW at \in Places, NEW astray \in BOOLEAN
    PROVE  DrawEffect(c, Drawn(c, t, S, at, astray), t, S, at, astray)
<1> DEFINE d == Drawn(c, t, S, at, astray)
<1>1. /\ c.map \in Frames /\ c.frames \in [Frames -> SUBSET Terminals]
      /\ c.cursor \in [Terminals -> Places]
    BY DEF Console
<1>2. d = [c EXCEPT !.frames = [c.frames EXCEPT ![c.map] = @ \cup S], !.screen = at,
                    !.astray = astray, !.cursor = [c.cursor EXCEPT ![t] = at]]
    BY DEF Drawn, Store
<1> HIDE DEF d
<1>3. /\ [c.frames EXCEPT ![c.map] = @ \cup S] \in [Frames -> SUBSET Terminals]
      /\ [c.cursor EXCEPT ![t] = at] \in [Terminals -> Places]
    BY <1>1
<1>4. d \in Console
    BY <1>2, <1>3 DEF Console
<1>5. /\ d.screen = at /\ d.map = c.map /\ d.astray = astray
      /\ d.cursor = [c.cursor EXCEPT ![t] = at]
      /\ d.frames = [c.frames EXCEPT ![c.map] = @ \cup S]
      /\ d.buf = c.buf /\ d.flag = c.flag /\ d.ask = c.ask
      /\ SameView(c, d)
    BY <1>2 DEF Console, SameView
<1> QED
    BY <1>4, <1>5 DEF d, DrawEffect

\* An echo goes to the displayed terminal, and leaves the routing as the running
\* process needs it.
LEMMA EchoEffect ==
    ASSUME NEW c \in Console, NEW ch
    PROVE  LET d == Echo(c, ch)
           IN  /\ d \in Console /\ RoutedIn(d) /\ (OwnIn(c) => OwnIn(d))
               /\ d.buf = c.buf /\ d.flag = c.flag /\ d.ask = c.ask
               /\ SameView(c, d)
<1> DEFINE a == SetMem(c, c.using)
           b == PutcKeyboard(a, ch)
           d == SetMem(b, c.exe)
<1>1. c.using \in Terminals /\ c.exe \in Terminals
    BY DEF Console
<1>2. /\ a \in Console /\ a.map = VIDEO /\ a.frames = c.frames
      /\ a.buf = c.buf /\ a.flag = c.flag /\ a.ask = c.ask /\ SameView(c, a)
    BY <1>1, SetMemEffect DEF FrameOf
<1>3. /\ b = Drawn(a, c.using, {c.using}, Advance(a.screen, ch), a.astray)
      /\ Echo(c, ch) = SetMem(b, c.exe)
    <2>1. b = [Store(a, {c.using}) EXCEPT !.screen = Advance(a.screen, ch),
                                          !.cursor[c.using] = Advance(a.screen, ch)]
          /\ Echo(c, ch) = SetMem(b, c.exe)
        BY <1>2 DEF PutcKeyboard, SameView, Echo
    <2> HIDE DEF a, b
    <2>2. b = Drawn(a, c.using, {c.using}, Advance(a.screen, ch), a.astray)
        BY <1>2, <2>1 DEF Drawn, Store, Console
    <2> QED
        BY <2>1, <2>2
<1> HIDE DEF a, b
<1>4. /\ b \in Console
      /\ b.frames[VIDEO] = c.frames[VIDEO] \cup {c.using}
      /\ \A f \in Frames \ {VIDEO} : b.frames[f] = c.frames[f]
      /\ b.buf = c.buf /\ b.flag = c.flag /\ b.ask = c.ask /\ SameView(c, b)
    <2>1. Advance(a.screen, ch) \in Places
        BY <1>2, AdvanceType DEF Console
    <2>2. DrawEffect(a, b, c.using, {c.using}, Advance(a.screen, ch), a.astray)
        <3>1. {c.using} \in SUBSET Terminals /\ a.astray \in BOOLEAN
            BY <1>1, <1>2 DEF Console
        <3> QED
            BY <1>1, <1>2, <1>3, <2>1, <3>1, Drawing
    <2>3. c.frames \in [Frames -> SUBSET Terminals] /\ VIDEO \in Frames
        BY DEF Console, Frames
    <2> QED
        BY <1>2, <2>2, <2>3 DEF DrawEffect, SameView
<1>5. /\ d \in Console
      /\ d.screen = b.cursor[c.exe] /\ d.map = FrameOf(b, c.exe)
      /\ d.cursor = b.cursor /\ d.frames = b.frames
      /\ d.buf = b.buf /\ d.flag = b.flag /\ d.ask = b.ask /\ SameView(b, d)
    BY <1>1, <1>4, SetMemEffect
<1> HIDE DEF d
<1>6. RoutedIn(d)
    BY <1>4, <1>5 DEF RoutedIn, SameView, FrameOf
<1>7. OwnIn(c) => OwnIn(d)
    <2> SUFFICES ASSUME OwnIn(c), NEW t \in Terminals
                 PROVE  d.frames[FrameOf(d, t)] \subseteq {t}
        BY DEF OwnIn
    <2>1. FrameOf(d, t) = FrameOf(c, t) /\ d.using = c.using
        BY <1>4, <1>5 DEF SameView, FrameOf
    <2>2. c.frames[FrameOf(c, t)] \subseteq {t}
        BY DEF OwnIn
    <2>3. CASE t = c.using
        BY <1>4, <1>5, <2>1, <2>2, <2>3 DEF FrameOf
    <2>4. CASE t # c.using
        <3>1. FrameOf(c, t) = t /\ t \in Frames \ {VIDEO}
            BY <2>4 DEF FrameOf, Frames, Terminals, VIDEO
        <3> QED
            BY <1>4, <1>5, <2>1, <2>2, <3>1
    <2> QED
        BY <2>3, <2>4
<1> QED
    BY <1>3, <1>4, <1>5, <1>6, <1>7 DEF SameView, d

\* What a key does to the console c of the displayed terminal, whose buffer
\* becomes s.
KeyEffect(c, d, s) ==
    /\ d \in Console /\ RoutedIn(d) /\ (OwnIn(c) => OwnIn(d))
    /\ d.buf = [c.buf EXCEPT ![c.using] = s] /\ d.ask = c.ask
    /\ SameView(c, d)

\* A character goes into the buffer and to the screen.
LEMMA PutEffect ==
    ASSUME NEW c \in Console, NEW ch \in Chars
    PROVE  /\ KeyEffect(c, Put(c, ch), Append(c.buf[c.using], ch))
           /\ Put(c, ch).flag = c.flag
<1> DEFINE s == Append(c.buf[c.using], ch)
           a == [c EXCEPT !.buf = [c.buf EXCEPT ![c.using] = s]]
<1>1. c.using \in Terminals /\ c.buf \in [Terminals -> Seq(Chars)]
    BY DEF Console
<1>2. s \in Seq(Chars)
    BY <1>1
<1>3. Put(c, ch) = Echo(a, ch)
    BY DEF Put
<1> HIDE DEF s
<1>4. [c.buf EXCEPT ![c.using] = s] \in [Terminals -> Seq(Chars)]
    BY <1>1, <1>2
<1>5. /\ a \in Console /\ a.buf = [c.buf EXCEPT ![c.using] = s]
      /\ a.flag = c.flag /\ a.ask = c.ask /\ SameView(c, a) /\ a.frames = c.frames
    BY <1>4 DEF Console, SameView
<1>6. OwnIn(c) => OwnIn(a)
    BY <1>5 DEF OwnIn, FrameOf, SameView
<1> HIDE DEF a
<1> DEFINE d == Echo(a, ch)
<1>7. /\ d \in Console /\ RoutedIn(d) /\ (OwnIn(a) => OwnIn(d))
      /\ d.buf = a.buf /\ d.flag = a.flag /\ d.ask = a.ask
      /\ SameView(a, d)
    BY <1>5, EchoEffect
<1> HIDE DEF d
<1>8. KeyEffect(c, d, s) /\ d.flag = c.flag
    BY <1>5, <1>6, <1>7 DEF KeyEffect, SameView
<1> QED
    BY <1>3, <1>8 DEF d, s

\* One key after the other.
LEMMA KeyAfterKey ==
    ASSUME NEW c \in Console, NEW d, NEW e, NEW s, NEW u, s \in Seq(Chars),
           KeyEffect(c, d, s), KeyEffect(d, e, u)
    PROVE  KeyEffect(c, e, u)
<1>1. c.using \in Terminals /\ c.buf \in [Terminals -> Seq(Chars)]
    BY DEF Console
<1> QED
    BY <1>1 DEF KeyEffect, SameView

\* terminal_display of a character that does not end the line.
DisplayEffect(c, d, ch) ==
    IF It(c, c.using) >= BUFFER_SIZE - 1 THEN d = c
    ELSE /\ \/ KeyEffect(c, d, Append(c.buf[c.using], ch))
            \/ KeyEffect(c, d, Append(Append(c.buf[c.using], ENTER), ch))
         /\ d.flag = c.flag

LEMMA Displaying ==
    ASSUME NEW c \in Console, NEW ch \in Chars \ {ENTER}
    PROVE  DisplayEffect(c, TerminalDisplay(c, ch), ch)
<1> DEFINE b == c.buf[c.using]
           n == Append(b, ENTER)
<1>1. b \in Seq(Chars) /\ n \in Seq(Chars) /\ ENTER \in Chars
    BY DEF Console, Chars
<1>2. It(c, c.using) \in Nat /\ BUFFER_SIZE \in Nat
    BY <1>1, TermAssumption DEF It
<1> SUFFICES ASSUME It(c, c.using) < BUFFER_SIZE - 1
             PROVE  /\ \/ KeyEffect(c, CharKey(c, ch), Append(b, ch))
                       \/ KeyEffect(c, CharKey(c, ch), Append(n, ch))
                    /\ CharKey(c, ch).flag = c.flag
    BY <1>2 DEF DisplayEffect, TerminalDisplay
<1>3. CASE c.screen[1] # COLS - 1
    BY <1>3, PutEffect DEF CharKey
<1>4. CASE c.screen[1] = COLS - 1
    <2> DEFINE d == Put(c, ENTER)
    <2>1. KeyEffect(c, d, n) /\ d.flag = c.flag
        BY <1>1, PutEffect
    <2>2. d \in Console /\ d.buf[d.using] = n
        BY <1>1, <2>1 DEF KeyEffect, SameView, Console
    <2>3. CharKey(c, ch) = Put(d, ch)
        BY <1>4 DEF CharKey
    <2> HIDE DEF d, n
    <2>4. KeyEffect(d, Put(d, ch), Append(n, ch)) /\ Put(d, ch).flag = d.flag
        BY <2>2, PutEffect
    <2>5. KeyEffect(c, Put(d, ch), Append(n, ch))
        BY <1>1, <2>1, <2>4, KeyAfterKey
    <2> QED
        BY <2>1, <2>3, <2>4, <2>5
<1> QED
    BY <1>3, <1>4

\* The Enter key.
EnterEffect(c, d) ==
    IF It(c, c.using) >= BUFFER_SIZE THEN d = c
    ELSE /\ KeyEffect(c, d, Append(Append(c.buf[c.using], ENTER), STALE))
         /\ d.flag = [c.flag EXCEPT ![c.using] = TRUE]

LEMMA Entering ==
    ASSUME NEW c \in Console
    PROVE  EnterEffect(c, TerminalDisplay(c, ENTER))
<1> DEFINE b == c.buf[c.using]
           n == Append(b, ENTER)
           a == Put(c, ENTER)
           d == EnterKey(c)
<1>1. /\ b \in Seq(Chars) /\ n \in Seq(Chars) /\ ENTER \in Chars /\ STALE \in Chars
      /\ Append(n, STALE) \in Seq(Chars)
      /\ c.using \in Terminals /\ c.buf \in [Terminals -> Seq(Chars)]
    BY DEF Console, Chars
<1>2. It(c, c.using) \in Nat /\ BUFFER_SIZE \in Nat
    BY <1>1, TermAssumption DEF It
<1> SUFFICES ASSUME It(c, c.using) < BUFFER_SIZE
             PROVE  /\ KeyEffect(c, d, Append(n, STALE))
                    /\ d.flag = [c.flag EXCEPT ![c.using] = TRUE]
    BY <1>2 DEF EnterEffect, TerminalDisplay
<1>3. KeyEffect(c, a, n) /\ a.flag = c.flag
    BY <1>1, PutEffect
<1>4. /\ a \in Console /\ a.buf = [c.buf EXCEPT ![c.using] = n] /\ RoutedIn(a)
      /\ (OwnIn(c) => OwnIn(a)) /\ a.ask = c.ask /\ SameView(c, a)
    BY <1>3 DEF KeyEffect
<1>5. d = [a EXCEPT !.buf = [a.buf EXCEPT ![c.using] = Append(@, STALE)],
                    !.flag = [a.flag EXCEPT ![c.using] = TRUE]]
    BY DEF EnterKey
<1> HIDE DEF a, d, n
<1>6. [a.buf EXCEPT ![c.using] = Append(@, STALE)] = [c.buf EXCEPT ![c.using] = Append(n, STALE)]
    BY <1>1, <1>4
<1>7. /\ d \in Console
      /\ d.buf = [c.buf EXCEPT ![c.using] = Append(n, STALE)]
      /\ d.flag = [c.flag EXCEPT ![c.using] = TRUE]
      /\ d.screen = a.screen /\ d.astray = a.astray /\ d.cursor = a.cursor /\ d.map = a.map
      /\ d.frames = a.frames /\ d.ask = a.ask /\ SameView(a, d)
    <2>1. [c.buf EXCEPT ![c.using] = Append(n, STALE)] \in [Terminals -> Seq(Chars)]
        BY <1>1
    <2>2. [a.flag EXCEPT ![c.using] = TRUE] \in [Terminals -> BOOLEAN]
        BY <1>4 DEF Console
    <2> QED
        BY <1>3, <1>4, <1>5, <1>6, <2>1, <2>2 DEF Console, SameView
<1>8. RoutedIn(d) /\ (OwnIn(c) => OwnIn(d))
    BY <1>4, <1>7 DEF RoutedIn, OwnIn, FrameOf, SameView
<1> QED
    BY <1>4, <1>7, <1>8 DEF KeyEffect, SameView

-----------------------------------------------------------------------------
(* The text of a buffer *)

\* the text grows by ch
Grown(l, ch) == IF ch \in {ENTER, STALE} THEN l ELSE Append(l, ch)

\* the texts of the beginnings of s, by their lengths
TextSteps(s, f) ==
    /\ f \in [0 .. Len(s) -> Seq(Chars)]
    /\ f[0] = <<>>
    /\ \A k \in 1 .. Len(s) : f[k] = Grown(f[k - 1], s[k])

\* Text is the last of these.
LEMMA TextIsLast ==
    ASSUME NEW s \in Seq(Chars)
    PROVE  \E f : TextSteps(s, f) /\ Text(s) = f[Len(s)]
<1> DEFINE C == Seq(Chars)
           N == Len(s)
           F == [x \in (1 .. N) \X C |-> Grown(x[2], s[x[1]])]
           Def(f) == [n \in 0 .. Len(s) |->
                         IF n = 0 THEN <<>>
                         ELSE IF s[n] \in {ENTER, STALE} THEN f[n - 1] ELSE Append(f[n - 1], s[n])]
           txt == CHOOSE f : f = Def(f)
<1>1. N \in Nat /\ \A k \in 1 .. N : s[k] \in Chars
    OBVIOUS
<1>2. <<>> \in C /\ \A l \in C, ch \in Chars : Grown(l, ch) \in C
    BY DEF Grown
<1>3. F \in [(1 .. N) \X C -> C]
    BY <1>1, <1>2
<1>4. \E g : g \in Iterates(N, C, <<>>, F)
    <2> HIDE DEF N, C, F
    <2> QED
        BY <1>1, <1>2, <1>3, IteratesExist
<1>5. PICK g \in [0 .. N -> C] : g[0] = <<>> /\ \A k \in 1 .. N : g[k] = F[<<k, g[k - 1]>>]
    BY <1>4 DEF Iterates
<1>6. ASSUME NEW k \in 1 .. N PROVE k - 1 \in 0 .. N /\ g[k] = Grown(g[k - 1], s[k])
    <2>1. k - 1 \in 0 .. N
        BY <1>1
    <2>2. g[k - 1] \in C /\ g[k] = F[<<k, g[k - 1]>>]
        BY <1>5, <2>1
    <2>3. F[<<k, g[k - 1]>>] = Grown(g[k - 1], s[k])
        BY <2>2
    <2> QED
        BY <2>1, <2>2, <2>3
<1>7. g = Def(g)
    <2>1. \A n \in 0 .. N : n = 0 \/ n \in 1 .. N
        BY <1>1
    <2>2. \A n \in 0 .. N : g[n] = Def(g)[n]
        BY <1>1, <1>5, <1>6, <2>1 DEF Grown
    <2> QED
        BY <1>5, <2>2
<1>8. txt = Def(txt)
    <2> HIDE DEF Def
    <2> QED
        BY <1>7
<1>9. /\ DOMAIN txt = 0 .. N /\ txt[0] = <<>>
      /\ \A k \in 1 .. N : txt[k] = Grown(txt[k - 1], s[k])
    <2> HIDE DEF txt
    <2>1. DOMAIN txt = 0 .. N /\ \A k \in 0 .. N : txt[k] = Def(txt)[k]
        BY <1>8
    <2>2. 0 \in 0 .. N /\ \A k \in 1 .. N : k \in 0 .. N /\ k # 0
        BY <1>1
    <2> QED
        BY <2>1, <2>2 DEF Grown
<1>10. \A k \in 0 .. N : txt[k] \in C
    <2> DEFINE T == {k \in 0 .. N : txt[k] \in C}
    <2> HIDE DEF txt, C
    <2>1. 0 \in T
        BY <1>1, <1>2, <1>9
    <2>2. ASSUME NEW k \in 0 .. N - 1, k \in T PROVE k + 1 \in T
        <3>1. k + 1 \in 1 .. N /\ (k + 1) - 1 = k /\ k + 1 \in 0 .. N
            BY <1>1
        <3>2. txt[k + 1] = Grown(txt[k], s[k + 1])
            BY <1>9, <3>1
        <3> QED
            BY <1>1, <1>2, <2>2, <3>1, <3>2
    <2>3. 0 .. N \subseteq T
        <3> HIDE DEF T, N
        <3> QED
            BY <1>1, <2>1, <2>2, BoundedInduction
    <2> QED
        BY <2>3
<1>11. Text(s) = txt[N]
    BY DEF Text
<1>12. txt \in [0 .. N -> C]
    <2>1. txt = [n \in 0 .. N |-> txt[n]]
        <3> HIDE DEF txt
        <3> QED
            BY <1>8
    <2> HIDE DEF txt
    <2> QED
        BY <1>10, <2>1
<1> HIDE DEF txt
<1> QED
    BY <1>9, <1>11, <1>12 DEF TextSteps

\* The text of nothing, and of one character more.
LEMMA TextGrows ==
    /\ Text(<<>>) = <<>>
    /\ \A s \in Seq(Chars) : Text(s) \in Seq(Chars)
    /\ \A s \in Seq(Chars), ch \in Chars : Text(Append(s, ch)) = Grown(Text(s), ch)
<1>1. Text(<<>>) = <<>>
    <2>1. <<>> \in Seq(Chars) /\ Len(<<>>) = 0
        OBVIOUS
    <2> QED
        BY <2>1, TextIsLast DEF TextSteps
<1>2. \A s \in Seq(Chars) : Text(s) \in Seq(Chars)
    <2> TAKE s \in Seq(Chars)
    <2>1. Len(s) \in 0 .. Len(s)
        OBVIOUS
    <2> QED
        BY <2>1, TextIsLast DEF TextSteps
<1>3. ASSUME NEW s \in Seq(Chars), NEW ch \in Chars
      PROVE  Text(Append(s, ch)) = Grown(Text(s), ch)
    <2> DEFINE u == Append(s, ch)
               N == Len(s)
    <2>1. /\ u \in Seq(Chars) /\ Len(u) = N + 1 /\ N \in Nat /\ u[N + 1] = ch
          /\ \A k \in 1 .. N : u[k] = s[k]
        OBVIOUS
    <2>2. PICK f : TextSteps(s, f) /\ Text(s) = f[N]
        BY TextIsLast
    <2>3. PICK g : TextSteps(u, g) /\ Text(u) = g[N + 1]
        BY <2>1, TextIsLast
    <2> HIDE DEF u, N
    <2> DEFINE T == {k \in 0 .. N : g[k] = f[k]}
    <2>4. 0 \in T
        BY <2>1, <2>2, <2>3 DEF TextSteps
    <2>5. ASSUME NEW k \in 0 .. N - 1, k \in T PROVE k + 1 \in T
        <3>1. k + 1 \in 1 .. N /\ k + 1 \in 1 .. N + 1 /\ (k + 1) - 1 = k /\ k + 1 \in 0 .. N
            BY <2>1
        <3>2. g[k + 1] = Grown(g[k], u[k + 1]) /\ f[k + 1] = Grown(f[k], s[k + 1])
            BY <2>1, <2>2, <2>3, <3>1 DEF TextSteps, N
        <3> QED
            BY <2>1, <2>5, <3>1, <3>2
    <2>6. 0 .. N \subseteq T
        <3> HIDE DEF T
        <3> QED
            BY <2>1, <2>4, <2>5, BoundedInduction
    <2>7. g[N] = f[N] /\ N + 1 \in 1 .. Len(u) /\ (N + 1) - 1 = N
        BY <2>1, <2>6
    <2>8. g[N + 1] = Grown(g[N], u[N + 1])
        BY <2>3, <2>7 DEF TextSteps
    <2> QED
        BY <2>1, <2>2, <2>3, <2>7, <2>8 DEF u
<1> QED
    BY <1>1, <1>2, <1>3

\* the first n elements of s
Prefix(s, n) == SubSeq(s, 1, n)

\* Prefixes, of prefixes, of a longer sequence, and up to the whole.
LEMMA PrefixFacts ==
    ASSUME NEW S, NEW s \in Seq(S), NEW n \in 0 .. Len(s)
    PROVE  /\ Prefix(s, n) \in Seq(S) /\ Len(Prefix(s, n)) = n
           /\ \A i \in 1 .. n : Prefix(s, n)[i] = s[i]
<1>1. \A i \in 1 .. n : s[i] \in S
    OBVIOUS
<1>2. 1 \in Int /\ n \in Int
    OBVIOUS
<1> QED
    BY <1>1, <1>2, SubSeqProperties DEF Prefix

LEMMA PrefixFull ==
    ASSUME NEW S, NEW s \in Seq(S)
    PROVE  Prefix(s, Len(s)) = s /\ Prefix(s, 0) = <<>>
<1>1. Prefix(s, Len(s)) = s
    BY SubSeqFull DEF Prefix
<1>2. Prefix(s, 0) \in Seq(S) /\ Len(Prefix(s, 0)) = 0
    BY PrefixFacts
<1> QED
    BY <1>1, <1>2, EmptySeq

LEMMA PrefixOfPrefix ==
    ASSUME NEW S, NEW s \in Seq(S), NEW n \in 0 .. Len(s), NEW m \in 0 .. n
    PROVE  Prefix(Prefix(s, n), m) = Prefix(s, m)
<1> DEFINE p == Prefix(s, n)
<1>1. p \in Seq(S) /\ Len(p) = n /\ \A i \in 1 .. n : p[i] = s[i]
    BY PrefixFacts
<1> HIDE DEF p
<1>2. m \in 0 .. Len(s) /\ m \in 0 .. Len(p)
    BY <1>1
<1>3. /\ Prefix(p, m) \in Seq(S) /\ Len(Prefix(p, m)) = m
      /\ \A i \in 1 .. m : Prefix(p, m)[i] = p[i]
    BY <1>1, <1>2, PrefixFacts
<1>4. /\ Prefix(s, m) \in Seq(S) /\ Len(Prefix(s, m)) = m
      /\ \A i \in 1 .. m : Prefix(s, m)[i] = s[i]
    BY <1>2, PrefixFacts
<1>5. \A i \in 1 .. m : Prefix(p, m)[i] = Prefix(s, m)[i]
    BY <1>1, <1>3, <1>4
<1>6. Prefix(p, m) = Prefix(s, m)
    BY <1>3, <1>4, <1>5, SeqEqual
<1> QED
    BY <1>6 DEF p

LEMMA PrefixNext ==
    ASSUME NEW S, NEW s \in Seq(S), NEW n \in 0 .. Len(s) - 1
    PROVE  Prefix(s, n + 1) = Append(Prefix(s, n), s[n + 1])
<1> DEFINE p == Prefix(s, n)
           q == Prefix(s, n + 1)
<1>1. n \in 0 .. Len(s) /\ n + 1 \in 0 .. Len(s) /\ s[n + 1] \in S
    OBVIOUS
<1>2. p \in Seq(S) /\ Len(p) = n /\ \A i \in 1 .. n : p[i] = s[i]
    BY <1>1, PrefixFacts
<1>3. q \in Seq(S) /\ Len(q) = n + 1 /\ \A i \in 1 .. n + 1 : q[i] = s[i]
    BY <1>1, PrefixFacts
<1> HIDE DEF p, q
<1>4. /\ Append(p, s[n + 1]) \in Seq(S) /\ Len(Append(p, s[n + 1])) = n + 1
      /\ \A i \in 1 .. n + 1 : Append(p, s[n + 1])[i] = q[i]
    BY <1>1, <1>2, <1>3
<1>5. q = Append(p, s[n + 1])
    BY <1>3, <1>4, SeqEqual
<1> QED
    BY <1>5 DEF p, q

\* The text of a prefix is a prefix of the text.
LEMMA TextOfPrefix ==
    ASSUME NEW s \in Seq(Chars), NEW n \in 0 .. Len(s)
    PROVE  \E k \in 0 .. Len(Text(s)) : Text(Prefix(s, n)) = Prefix(Text(s), k)
<1> DEFINE Is(l, u) == \E k \in 0 .. Len(u) : l = Prefix(u, k)
           N == Len(s)
           T == {j \in 0 .. N : Is(Text(Prefix(s, N - j)), Text(s))}
<1>1. N \in Nat /\ \A j \in 0 .. N : N - j \in 0 .. N
    OBVIOUS
<1>2. 0 \in T
    <2>1. N - 0 = N /\ Prefix(s, N) = s
        BY <1>1, PrefixFull
    <2>2. Text(s) \in Seq(Chars)
        BY TextGrows
    <2>3. Prefix(Text(s), Len(Text(s))) = Text(s) /\ Len(Text(s)) \in 0 .. Len(Text(s))
        BY <2>2, PrefixFull
    <2>4. Is(Text(s), Text(s))
        BY <2>3
    <2> QED
        BY <1>1, <2>1, <2>4
<1>3. ASSUME NEW j \in 0 .. N - 1, j \in T PROVE j + 1 \in T
    <2> DEFINE m == N - (j + 1)
               a == Text(Prefix(s, m))
               b == Text(Prefix(s, m + 1))
    <2>1. m \in 0 .. N - 1 /\ m + 1 = N - j /\ j + 1 \in 0 .. N /\ m \in 0 .. N /\ m + 1 \in 1 .. N
        BY <1>1
    <2>2. Prefix(s, m) \in Seq(Chars) /\ s[m + 1] \in Chars
        BY <2>1, PrefixFacts
    <2>3. Prefix(s, m + 1) = Append(Prefix(s, m), s[m + 1])
        BY <2>1, PrefixNext
    <2>4. b = Grown(a, s[m + 1]) /\ a \in Seq(Chars)
        BY <2>2, <2>3, TextGrows
    <2>5. PICK k \in 0 .. Len(Text(s)) : b = Prefix(Text(s), k)
        BY <1>3, <2>1
    <2>6. Text(s) \in Seq(Chars)
        BY TextGrows
    <2> HIDE DEF a, b, m
    <2>7. Is(a, Text(s))
        <3>1. CASE a = b
            BY <2>5, <3>1
        <3>2. CASE a # b
            <4>1. b = Append(a, s[m + 1])
                BY <2>4, <3>2 DEF Grown
            <4>2. Len(b) = Len(a) + 1 /\ Len(a) \in Nat /\ b \in Seq(Chars)
                  /\ \A i \in 1 .. Len(a) : b[i] = a[i]
                BY <2>2, <2>4, <4>1
            <4>3. Len(b) = k
                BY <2>5, <2>6, PrefixFacts
            <4>4. Len(a) \in 0 .. k /\ Len(a) \in 0 .. Len(Text(s)) /\ Len(a) \in 0 .. Len(b)
                BY <4>2, <4>3
            <4>5. Prefix(b, Len(a)) = Prefix(Text(s), Len(a))
                BY <2>5, <2>6, <4>4, PrefixOfPrefix
            <4>6. /\ Prefix(b, Len(a)) \in Seq(Chars) /\ Len(Prefix(b, Len(a))) = Len(a)
                  /\ \A i \in 1 .. Len(a) : Prefix(b, Len(a))[i] = b[i]
                BY <4>2, <4>4, PrefixFacts
            <4>7. \A i \in 1 .. Len(a) : Prefix(b, Len(a))[i] = a[i]
                BY <4>2, <4>6
            <4>8. Prefix(b, Len(a)) = a
                BY <2>4, <4>6, <4>7, SeqEqual
            <4> QED
                BY <4>4, <4>5, <4>8
        <3> QED
            BY <3>1, <3>2
    <2> QED
        BY <2>1, <2>7 DEF a, m
<1>4. 0 .. N \subseteq T
    <2> HIDE DEF T, N
    <2> QED
        BY <1>1, <1>2, <1>3, BoundedInduction
<1>5. N - n \in 0 .. N /\ N - (N - n) = n
    BY <1>1
<1> QED
    BY <1>4, <1>5

-----------------------------------------------------------------------------
(* Deleting, and recalling a command *)

\* for whom a deletion draws on console c: the displayed terminal, to which
\* video_mem is routed, or nobody
Blanks(c, S) == S = {} \/ (S = {c.using} /\ c.map = VIDEO)

\* What deletions on the displayed terminal leave: the rest is as before, and the
\* buffer keeps a prefix.  They draw where video_mem points.
DeleteEffect(c, d) ==
    /\ d \in Console /\ SameView(c, d)
    /\ d.flag = c.flag /\ d.ask = c.ask /\ d.map = c.map
    /\ RoutedIn(c) => RoutedIn(d)
    /\ OwnIn(c) => OwnIn(d)
    /\ \E n \in 0 .. It(c, c.using) :
           d.buf = [c.buf EXCEPT ![c.using] = Prefix(c.buf[c.using], n)]

\* Nothing deleted.
LEMMA DeleteNothing ==
    ASSUME NEW c \in Console
    PROVE  DeleteEffect(c, c)
<1>1. c.using \in Terminals /\ c.buf \in [Terminals -> Seq(Chars)]
    BY DEF Console
<1>2. Prefix(c.buf[c.using], It(c, c.using)) = c.buf[c.using]
    BY <1>1, PrefixFull DEF It
<1>3. It(c, c.using) \in 0 .. It(c, c.using)
    BY <1>1 DEF It
<1>4. c.buf = [c.buf EXCEPT ![c.using] = Prefix(c.buf[c.using], It(c, c.using))]
    BY <1>1, <1>2
<1> QED
    BY <1>3, <1>4 DEF DeleteEffect, SameView

\* Deletions after deletions.
LEMMA DeleteMore ==
    ASSUME NEW c \in Console, NEW d, NEW e, DeleteEffect(c, d), DeleteEffect(d, e)
    PROVE  DeleteEffect(c, e)
<1> DEFINE b == c.buf[c.using]
<1>1. /\ c.using \in Terminals /\ c.buf \in [Terminals -> Seq(Chars)]
      /\ b \in Seq(Chars) /\ It(c, c.using) = Len(b) /\ d.using = c.using
    BY DEF Console, It, DeleteEffect, SameView
<1>2. PICK n \in 0 .. Len(b) : d.buf = [c.buf EXCEPT ![c.using] = Prefix(b, n)]
    BY <1>1 DEF DeleteEffect
<1>3. d.buf[d.using] = Prefix(b, n) /\ It(d, d.using) = n
    BY <1>1, <1>2, PrefixFacts DEF It
<1>4. PICK m \in 0 .. n : e.buf = [d.buf EXCEPT ![d.using] = Prefix(Prefix(b, n), m)]
    BY <1>3 DEF DeleteEffect
<1>5. Prefix(Prefix(b, n), m) = Prefix(b, m) /\ m \in 0 .. Len(b)
    BY <1>1, PrefixOfPrefix
<1>6. e.buf = [c.buf EXCEPT ![c.using] = Prefix(b, m)]
    BY <1>1, <1>2, <1>4, <1>5
<1>7. \E k \in 0 .. It(c, c.using) : e.buf = [c.buf EXCEPT ![c.using] = Prefix(b, k)]
    BY <1>1, <1>5, <1>6
<1> HIDE DEF b
<1>8. /\ e \in Console /\ SameView(c, e)
      /\ e.flag = c.flag /\ e.ask = c.ask /\ e.map = c.map
      /\ RoutedIn(c) => RoutedIn(e)
      /\ OwnIn(c) => OwnIn(e)
    BY DEF DeleteEffect, SameView
<1> QED
    BY <1>7, <1>8 DEF DeleteEffect, b

\* The place before the iterator is in the buffer, whatever its low byte became.
LEMMA IteratorBack ==
    ASSUME NEW B \in Nat \ {0, 1}, NEW l \in Nat \ {0}, NEW i \in Nat \ {0}, l < B => i = l
    PROVE  (i - 1) % B \in 0 .. l
<1>1. \A m \in 0 .. B - 1 : m % B = m
    OBVIOUS
<1>2. CASE l < B
    <2>1. l - 1 \in 0 .. B - 1
        BY <1>2
    <2>2. (l - 1) % B = l - 1
        BY <1>1, <2>1
    <2> QED
        BY <1>2, <2>2
<1>3. CASE l >= B
    <2>1. i - 1 \in Nat
        OBVIOUS
    <2>2. (i - 1) % B \in 0 .. B - 1
        BY <2>1
    <2> QED
        BY <1>3, <2>2
<1> QED
    BY <1>2, <1>3

\* One character is deleted, or none.
LEMMA Deleting ==
    ASSUME NEW c \in Console, NEW prompts, NEW S, Blanks(c, S)
    PROVE  DeleteEffect(c, TerminalDelete(c, prompts, S))
<1>1. CASE Undeletable(c, prompts)
    BY <1>1, DeleteNothing DEF TerminalDelete
<1>2. CASE ~Undeletable(c, prompts)
    <2> DEFINE t == c.using
               b == c.buf[t]
               s == IF c.screen[1] = 0 THEN <<COLS - 1, c.screen[2] - 1>>
                    ELSE <<c.screen[1] - 1, c.screen[2]>>
               i == Blanked(It(c, t))
               n == (i - 1) % BUFFER_SIZE
               o == (c.exe # t)
               a == Drawn(c, t, S, s, o)
               d == TerminalDelete(c, prompts, S)
    <2>1. /\ t \in Terminals /\ c.buf \in [Terminals -> Seq(Chars)] /\ b \in Seq(Chars)
          /\ b # <<>> /\ It(c, t) = Len(b) /\ Len(b) \in Nat /\ Len(b) > 0
          /\ c.screen \in Places /\ c.screen # <<0, 0>>
        BY <1>2 DEF Console, It, Undeletable
    <2>2. s \in Places
        BY <2>1, TermAssumption DEF Places
    <2>3. n \in 0 .. It(c, t)
        <3>1. /\ BUFFER_SIZE \in Nat \ {0, 1} /\ It(c, t) \in Nat \ {0}
              /\ i \in Nat \ {0} /\ (It(c, t) < BUFFER_SIZE => i = It(c, t))
            BY <2>1, TermAssumption DEF Blanked
        <3> HIDE DEF b, i
        <3> QED
            BY ONLY <3>1, IteratorBack
    <2>4. d = [a EXCEPT !.buf[t] = Prefix(@, n)]
        BY <1>2 DEF TerminalDelete, Drawn, Prefix
    <2>5. DrawEffect(c, a, t, S, s, o)
        <3>1. S \in SUBSET Terminals /\ o \in BOOLEAN
            BY <2>1 DEF Blanks
        <3> QED
            BY <2>1, <2>2, <3>1, Drawing
    <2> HIDE DEF s, n, a, d, o
    <2>6. Prefix(b, n) \in Seq(Chars)
        BY <2>1, <2>3, PrefixFacts
    <2>7. /\ a \in Console /\ a.screen = s /\ a.cursor = [c.cursor EXCEPT ![t] = s]
          /\ a.map = c.map /\ a.frames = [c.frames EXCEPT ![c.map] = @ \cup S] /\ a.astray = o
          /\ a.buf = c.buf /\ a.flag = c.flag /\ a.ask = c.ask /\ SameView(c, a)
        BY <2>5 DEF DrawEffect
    <2>8. d = [a EXCEPT !.buf = [c.buf EXCEPT ![t] = Prefix(b, n)]]
        BY <2>4, <2>7
    <2>9. [c.buf EXCEPT ![t] = Prefix(b, n)] \in [Terminals -> Seq(Chars)]
        BY <2>1, <2>6
    <2>10. /\ d \in Console /\ d.screen = a.screen /\ d.cursor = a.cursor /\ d.map = a.map
           /\ d.frames = a.frames /\ d.flag = a.flag /\ d.ask = a.ask /\ SameView(a, d)
           /\ d.astray = a.astray /\ d.buf = [c.buf EXCEPT ![t] = Prefix(b, n)]
        BY <2>7, <2>8, <2>9 DEF Console, SameView
    <2>11. RoutedIn(c) => RoutedIn(d)
        <3>1. c.cursor \in [Terminals -> Places]
            BY DEF Console
        <3>2. /\ d.map = c.map /\ d.using = t /\ d.exe = c.exe
              /\ d.screen = s /\ d.cursor[t] = s
            BY <2>1, <2>7, <2>10, <3>1 DEF SameView
        <3>3. CASE c.exe = t
            BY <3>2, <3>3 DEF RoutedIn, FrameOf
        <3>4. CASE c.exe # t
            <4>1. d.astray
                BY <2>7, <2>10, <3>4 DEF o
            <4> QED
                BY <3>2, <4>1 DEF RoutedIn, FrameOf
        <3> QED
            BY <3>3, <3>4
    <2>12. OwnIn(c) => OwnIn(d)
        <3> SUFFICES ASSUME OwnIn(c), NEW u \in Terminals
                     PROVE  d.frames[FrameOf(d, u)] \subseteq {u}
            BY DEF OwnIn
        <3>1. c.frames \in [Frames -> SUBSET Terminals] /\ VIDEO \in Frames
            BY DEF Console, Frames
        <3>2. FrameOf(d, u) = FrameOf(c, u) /\ FrameOf(c, u) \in Frames
            BY <2>7, <2>10, FrameType DEF SameView, FrameOf
        <3>3. c.frames[FrameOf(c, u)] \subseteq {u}
            BY DEF OwnIn
        <3>4. CASE S = {}
            BY <2>7, <2>10, <3>1, <3>2, <3>3, <3>4
        <3>5. CASE S = {t} /\ c.map = VIDEO
            <4>1. u # t => FrameOf(c, u) # VIDEO
                BY DEF FrameOf, Terminals, VIDEO
            <4> QED
                BY <2>7, <2>10, <3>1, <3>2, <3>3, <3>5, <4>1
        <3> QED
            BY <3>4, <3>5 DEF Blanks
    <2>13. /\ SameView(c, d) /\ d.flag = c.flag /\ d.ask = c.ask /\ d.map = c.map
        BY <2>7, <2>10 DEF SameView
    <2> QED
        BY <2>3, <2>10, <2>11, <2>12, <2>13 DEF DeleteEffect, d
<1> QED
    BY <1>1, <1>2

\* The deletion of a line is a number of deletions.
LEMMA DeletingLine ==
    ASSUME NEW c \in Console, NEW prompts
    PROVE  DeleteEffect(c, DeleteLine(c, prompts))
<1> DEFINE N == BUFFER_SIZE + 1
           F == [x \in (1 .. N) \X Console |-> TerminalDelete(x[2], prompts, {})]
           Def(f) == [k \in 0 .. N |-> IF k = 0 THEN c ELSE TerminalDelete(f[k - 1], prompts, {})]
           d == CHOOSE f : f = Def(f)
<1>1. N \in Nat
    BY TermAssumption
<1>2. F \in [(1 .. N) \X Console -> Console]
    <2>1. \A e \in Console : TerminalDelete(e, prompts, {}) \in Console
        BY Deleting DEF DeleteEffect, Blanks
    <2> QED
        BY <2>1
<1>3. \E g : g \in Iterates(N, Console, c, F)
    <2> HIDE DEF N, F
    <2> QED
        BY <1>1, <1>2, IteratesExist
<1>4. PICK g \in [0 .. N -> Console] : g[0] = c /\ \A k \in 1 .. N : g[k] = F[<<k, g[k - 1]>>]
    BY <1>3 DEF Iterates
<1>5. g = Def(g)
    <2>1. ASSUME NEW k \in 0 .. N PROVE g[k] = Def(g)[k]
        <3>1. CASE k = 0
            BY <1>4, <3>1
        <3>2. CASE k # 0
            <4>1. k \in 1 .. N /\ k - 1 \in 0 .. N
                BY <1>1, <3>2
            <4>2. g[k - 1] \in Console /\ g[k] = F[<<k, g[k - 1]>>]
                BY <1>4, <4>1
            <4>3. F[<<k, g[k - 1]>>] = TerminalDelete(g[k - 1], prompts, {})
                BY <4>1, <4>2
            <4> QED
                BY <3>2, <4>2, <4>3
        <3> QED
            BY <3>1, <3>2
    <2> QED
        BY <1>4, <2>1
<1>6. d = Def(d)
    <2> HIDE DEF Def
    <2> QED
        BY <1>5
<1>7. DeleteLine(c, prompts) = d[N]
    BY DEF DeleteLine
<1> HIDE DEF d
<1>8. /\ d[0] = c
      /\ \A k \in 1 .. N : d[k] = TerminalDelete(d[k - 1], prompts, {})
    <2>1. \A k \in 0 .. N : d[k] = Def(d)[k]
        BY <1>6
    <2>2. 0 \in 0 .. N /\ \A k \in 1 .. N : k \in 0 .. N /\ k # 0
        BY <1>1
    <2> QED
        BY <2>1, <2>2
<1> DEFINE T == {k \in 0 .. N : DeleteEffect(c, d[k])}
<1>9. 0 \in T
    BY <1>1, <1>8, DeleteNothing
<1>10. ASSUME NEW k \in 0 .. N - 1, k \in T PROVE k + 1 \in T
    <2>1. k + 1 \in 1 .. N /\ k + 1 \in 0 .. N /\ (k + 1) - 1 = k
        BY <1>1
    <2>2. DeleteEffect(c, d[k]) /\ d[k] \in Console
        BY <1>10 DEF DeleteEffect
    <2>3. d[k + 1] = TerminalDelete(d[k], prompts, {})
        BY <1>8, <2>1
    <2>4. DeleteEffect(d[k], d[k + 1])
        BY <2>2, <2>3, Deleting DEF Blanks
    <2>5. DeleteEffect(c, d[k + 1])
        BY <2>2, <2>4, DeleteMore
    <2> QED
        BY <2>1, <2>5
<1>11. 0 .. N \subseteq T
    <2> HIDE DEF T, N
    <2> QED
        BY <1>1, <1>9, <1>10, BoundedInduction
<1> QED
    BY <1>1, <1>7, <1>11

\* What displaying the characters of s leaves.
WriteEffect(c, d, s) ==
    /\ d \in Console /\ SameView(c, d)
    /\ d.flag = c.flag /\ d.ask = c.ask
    /\ d.buf = [c.buf EXCEPT ![c.using] = d.buf[c.using]]
    /\ It(c, c.using) <= BUFFER_SIZE => It(d, c.using) <= BUFFER_SIZE
    /\ It(d, c.using) < BUFFER_SIZE - 1 =>
           Text(d.buf[c.using]) = Text(c.buf[c.using]) \o Text(s)

LEMMA WriteNothing ==
    ASSUME NEW c \in Console
    PROVE  WriteEffect(c, c, <<>>)
<1>1. c.using \in Terminals /\ c.buf \in [Terminals -> Seq(Chars)]
    BY DEF Console
<1>2. Text(c.buf[c.using]) \in Seq(Chars) /\ Text(<<>>) = <<>>
    BY <1>1, TextGrows
<1>3. Text(c.buf[c.using]) \o <<>> = Text(c.buf[c.using])
    BY <1>2
<1> QED
    BY <1>1, <1>2, <1>3 DEF WriteEffect, SameView

LEMMA WriteMore ==
    ASSUME NEW c \in Console, NEW s \in Seq(Chars), NEW d, WriteEffect(c, d, s),
           NEW ch \in Chars \ {ENTER}
    PROVE  WriteEffect(c, TerminalDisplay(d, ch), Append(s, ch))
<1> DEFINE e == TerminalDisplay(d, ch)
           t == c.using
           b == d.buf[t]
           x == e.buf[t]
<1>1. /\ t \in Terminals /\ c.buf \in [Terminals -> Seq(Chars)] /\ c.buf[t] \in Seq(Chars)
      /\ d \in Console /\ SameView(c, d) /\ d.using = t
      /\ b \in Seq(Chars) /\ d.buf \in [Terminals -> Seq(Chars)]
    BY DEF Console, WriteEffect, SameView
<1>2. DisplayEffect(d, e, ch)
    BY <1>1, Displaying
<1> HIDE DEF e
<1>3. Text(Append(s, ch)) = Grown(Text(s), ch) /\ Text(s) \in Seq(Chars)
    BY TextGrows
<1>4. It(d, t) = Len(b) /\ Len(b) \in Nat /\ It(e, t) = Len(x) /\ BUFFER_SIZE \in Nat
    BY <1>1, TermAssumption DEF It
<1>5. CASE Len(b) >= BUFFER_SIZE - 1
    <2>1. e = d
        BY <1>1, <1>2, <1>4, <1>5 DEF DisplayEffect
    <2> QED
        BY <1>4, <1>5, <2>1 DEF WriteEffect, e
<1>6. CASE Len(b) < BUFFER_SIZE - 1
    <2> DEFINE n == Append(b, ENTER)
    <2>1. PICK v \in {b, n} : KeyEffect(d, e, Append(v, ch)) /\ e.flag = d.flag
        BY <1>1, <1>2, <1>4, <1>6 DEF DisplayEffect
    <2>2. /\ v \in Seq(Chars) /\ Text(v) = Text(b) /\ Text(b) \in Seq(Chars)
          /\ Len(v) <= Len(b) + 1
        <3>1. ENTER \in Chars /\ Text(n) = Grown(Text(b), ENTER) /\ Text(b) \in Seq(Chars)
            BY <1>1, TextGrows DEF Chars
        <3>2. n \in Seq(Chars) /\ Len(n) = Len(b) + 1 /\ Text(n) = Text(b)
            BY <1>1, <3>1 DEF Grown
        <3> HIDE DEF b, n
        <3> QED
            BY <1>1, <1>4, <3>1, <3>2
    <2>3. /\ e \in Console
          /\ e.buf = [d.buf EXCEPT ![t] = Append(v, ch)] /\ e.ask = d.ask /\ SameView(d, e)
        BY <1>1, <2>1 DEF KeyEffect
    <2>4. x = Append(v, ch) /\ Len(x) <= BUFFER_SIZE
        BY <1>1, <1>4, <1>6, <2>2, <2>3
    <2>5. Text(x) = Grown(Text(b), ch)
        BY <2>2, <2>4, TextGrows
    <2>6. Text(b) = Text(c.buf[t]) \o Text(s) /\ Text(c.buf[t]) \in Seq(Chars)
        BY <1>1, <1>4, <1>6, TextGrows DEF WriteEffect
    <2>7. Grown(Text(c.buf[t]) \o Text(s), ch) = Text(c.buf[t]) \o Grown(Text(s), ch)
        <3> DEFINE p == Text(c.buf[t])
                   q == Text(s)
        <3>1. p \in Seq(Chars) /\ q \in Seq(Chars)
            BY <1>3, <2>6
        <3> HIDE DEF p, q
        <3>2. Append(p \o q, ch) = p \o Append(q, ch)
            BY <3>1, SMTT(30)
        <3> QED
            BY <3>2 DEF Grown, p, q
    <2>8. Text(x) = Text(c.buf[t]) \o Text(Append(s, ch))
        BY <1>3, <2>5, <2>6, <2>7
    <2>9. e.buf = [c.buf EXCEPT ![t] = x]
        <3>1. d.buf = [c.buf EXCEPT ![t] = b]
            BY DEF WriteEffect
        <3> QED
            BY <1>1, <2>3, <2>4, <3>1
    <2>10. SameView(c, e) /\ e.flag = c.flag /\ e.ask = c.ask
        BY <1>1, <2>1, <2>3 DEF WriteEffect, SameView
    <2> QED
        BY <1>4, <2>3, <2>4, <2>8, <2>9, <2>10 DEF WriteEffect, e
<1> QED
    BY <1>4, <1>5, <1>6

\* One character more, whatever it is: the console stays one, drawn on as it may be.
ViewEffect(c, d) ==
    /\ d \in Console /\ SameView(c, d)
    /\ RoutedIn(c) => RoutedIn(d)
    /\ OwnIn(c) => OwnIn(d)

LEMMA DisplayingView ==
    ASSUME NEW c \in Console, NEW ch \in Chars
    PROVE  ViewEffect(c, TerminalDisplay(c, ch))
<1> DEFINE d == TerminalDisplay(c, ch)
<1>1. CASE ch = ENTER
    <2>1. EnterEffect(c, d)
        BY <1>1, Entering
    <2> HIDE DEF d
    <2>2. ViewEffect(c, d)
        BY <2>1 DEF EnterEffect, KeyEffect, ViewEffect, SameView
    <2> QED
        BY <2>2 DEF d
<1>2. CASE ch # ENTER
    <2>1. DisplayEffect(c, d, ch)
        BY <1>2, Displaying
    <2> HIDE DEF d
    <2>2. ViewEffect(c, d)
        BY <2>1 DEF DisplayEffect, KeyEffect, ViewEffect, SameView
    <2> QED
        BY <2>2 DEF d
<1> QED
    BY <1>1, <1>2

\* the consoles after each of the characters of s
DisplaySteps(c, s, d) ==
    /\ d \in [0 .. Len(s) -> Console] /\ d[0] = c
    /\ \A k \in 1 .. Len(s) : d[k] = TerminalDisplay(d[k - 1], s[k])

\* A command is displayed character by character.
LEMMA DisplayingSteps ==
    ASSUME NEW c \in Console, NEW s \in Seq(Chars)
    PROVE  \E d : DisplaySteps(c, s, d) /\ DisplayAll(c, s) = d[Len(s)]
<1> DEFINE N == Len(s)
           F == [x \in (1 .. N) \X Console |-> TerminalDisplay(x[2], s[x[1]])]
           Def(f) == [k \in 0 .. Len(s) |-> IF k = 0 THEN c ELSE TerminalDisplay(f[k - 1], s[k])]
           d == CHOOSE f : f = Def(f)
<1>1. N \in Nat /\ \A k \in 1 .. N : s[k] \in Chars
    OBVIOUS
<1>2. F \in [(1 .. N) \X Console -> Console]
    <2>1. \A e \in Console, ch \in Chars : TerminalDisplay(e, ch) \in Console
        BY DisplayingView DEF ViewEffect
    <2> QED
        BY <1>1, <2>1
<1>3. \E g : g \in Iterates(N, Console, c, F)
    <2> HIDE DEF N, F
    <2> QED
        BY <1>1, <1>2, IteratesExist
<1>4. PICK g \in [0 .. N -> Console] : g[0] = c /\ \A k \in 1 .. N : g[k] = F[<<k, g[k - 1]>>]
    BY <1>3 DEF Iterates
<1>5. g = Def(g)
    <2>1. ASSUME NEW k \in 0 .. N PROVE g[k] = Def(g)[k]
        <3>1. CASE k = 0
            BY <1>4, <3>1
        <3>2. CASE k # 0
            <4>1. k \in 1 .. N /\ k - 1 \in 0 .. N
                BY <1>1, <3>2
            <4>2. g[k - 1] \in Console /\ g[k] = F[<<k, g[k - 1]>>]
                BY <1>4, <4>1
            <4>3. F[<<k, g[k - 1]>>] = TerminalDisplay(g[k - 1], s[k])
                BY <4>1, <4>2
            <4> QED
                BY <3>2, <4>2, <4>3
        <3> QED
            BY <3>1, <3>2
    <2> QED
        BY <1>4, <2>1
<1>6. d = Def(d)
    <2> HIDE DEF Def
    <2> QED
        BY <1>5
<1>7. DisplayAll(c, s) = d[N]
    BY DEF DisplayAll
<1> HIDE DEF d
<1>8. DOMAIN d = 0 .. N /\ d[0] = c /\ \A k \in 1 .. N : d[k] = TerminalDisplay(d[k - 1], s[k])
    <2>1. DOMAIN d = 0 .. N /\ \A k \in 0 .. N : d[k] = Def(d)[k]
        BY <1>6
    <2>2. 0 \in 0 .. N /\ \A k \in 1 .. N : k \in 0 .. N /\ k # 0
        BY <1>1
    <2> QED
        BY <2>1, <2>2
<1> DEFINE T == {k \in 0 .. N : d[k] \in Console}
<1>9. 0 \in T
    BY <1>1, <1>8
<1>10. ASSUME NEW k \in 0 .. N - 1, k \in T PROVE k + 1 \in T
    <2>1. k + 1 \in 1 .. N /\ k + 1 \in 0 .. N /\ (k + 1) - 1 = k
        BY <1>1
    <2>2. d[k + 1] = TerminalDisplay(d[k], s[k + 1]) /\ s[k + 1] \in Chars
        BY <1>1, <1>8, <2>1
    <2> QED
        BY <1>10, <2>1, <2>2, DisplayingView DEF ViewEffect
<1>11. 0 .. N \subseteq T
    <2> HIDE DEF T, N
    <2> QED
        BY <1>1, <1>9, <1>10, BoundedInduction
<1>12. d \in [0 .. N -> Console]
    <2>1. \A k \in 0 .. N : d[k] \in Console
        BY <1>11
    <2>2. d = [k \in 0 .. N |-> d[k]]
        <3> HIDE DEF Def
        <3> QED
            BY <1>6, <1>8 DEF Def
    <2> HIDE DEF N
    <2> QED
        BY <2>1, <2>2
<1>13. DisplaySteps(c, s, d)
    BY <1>8, <1>12 DEF DisplaySteps
<1> QED
    BY <1>7, <1>13

LEMMA DisplayingAllView ==
    ASSUME NEW c \in Console, NEW s \in Seq(Chars)
    PROVE  ViewEffect(c, DisplayAll(c, s))
<1> DEFINE N == Len(s)
<1>1. PICK d : DisplaySteps(c, s, d) /\ DisplayAll(c, s) = d[N]
    BY DisplayingSteps
<1>2. /\ N \in Nat /\ d[0] = c /\ d \in [0 .. N -> Console]
      /\ \A k \in 1 .. N : d[k] = TerminalDisplay(d[k - 1], s[k]) /\ s[k] \in Chars
    BY <1>1 DEF DisplaySteps
<1> HIDE DEF N
<1> DEFINE T == {k \in 0 .. N : ViewEffect(c, d[k])}
<1>3. 0 \in T
    BY <1>2 DEF ViewEffect, SameView
<1>4. ASSUME NEW k \in 0 .. N - 1, k \in T PROVE k + 1 \in T
    <2>1. k + 1 \in 1 .. N /\ k + 1 \in 0 .. N /\ (k + 1) - 1 = k /\ k \in 0 .. N
        BY <1>2
    <2>2. d[k + 1] = TerminalDisplay(d[k], s[k + 1]) /\ s[k + 1] \in Chars /\ d[k] \in Console
        BY <1>2, <2>1
    <2>3. ViewEffect(d[k], d[k + 1])
        BY <2>2, DisplayingView
    <2>4. ViewEffect(c, d[k])
        BY <1>4
    <2>5. ViewEffect(c, d[k + 1])
        BY <2>3, <2>4 DEF ViewEffect, SameView
    <2> QED
        BY <2>1, <2>5
<1>5. 0 .. N \subseteq T
    <2> HIDE DEF T
    <2> QED
        BY <1>2, <1>3, <1>4, BoundedInduction
<1> QED
    BY <1>1, <1>2, <1>5

\* A command without a newline is typed at the end of the line.
LEMMA DisplayingAll ==
    ASSUME NEW c \in Console, NEW s \in Seq(Chars), Unfolded(s)
    PROVE  WriteEffect(c, DisplayAll(c, s), s)
<1> DEFINE N == Len(s)
<1>1. N \in Nat /\ \A k \in 1 .. N : s[k] \in Chars \ {ENTER}
    BY DEF Unfolded
<1>2. PICK d : DisplaySteps(c, s, d) /\ DisplayAll(c, s) = d[N]
    BY DisplayingSteps
<1>7. DisplayAll(c, s) = d[N]
    BY <1>2
<1>8. d[0] = c /\ \A k \in 1 .. N : d[k] = TerminalDisplay(d[k - 1], s[k])
    BY <1>2 DEF DisplaySteps
<1> DEFINE T == {k \in 0 .. N : WriteEffect(c, d[k], Prefix(s, k))}
<1>9. 0 \in T
    <2>1. Prefix(s, 0) = <<>> /\ 0 \in 0 .. N
        BY <1>1, PrefixFull
    <2> QED
        BY <1>8, <2>1, WriteNothing
<1>10. ASSUME NEW k \in 0 .. N - 1, k \in T PROVE k + 1 \in T
    <2>1. /\ k + 1 \in 1 .. N /\ k + 1 \in 0 .. N /\ (k + 1) - 1 = k /\ k \in 0 .. N
          /\ k \in 0 .. Len(s) - 1
        BY <1>1
    <2>2. Prefix(s, k + 1) = Append(Prefix(s, k), s[k + 1])
        BY <2>1, PrefixNext
    <2>3. Prefix(s, k) \in Seq(Chars) /\ s[k + 1] \in Chars \ {ENTER}
        BY <1>1, <2>1, PrefixFacts
    <2>4. WriteEffect(c, d[k], Prefix(s, k))
        BY <1>10
    <2>5. d[k + 1] = TerminalDisplay(d[k], s[k + 1])
        BY <1>8, <2>1
    <2>6. WriteEffect(c, TerminalDisplay(d[k], s[k + 1]), Append(Prefix(s, k), s[k + 1]))
        BY <2>3, <2>4, WriteMore
    <2> QED
        BY <2>1, <2>2, <2>5, <2>6
<1>11. 0 .. N \subseteq T
    <2> HIDE DEF T, N
    <2> QED
        BY <1>1, <1>9, <1>10, BoundedInduction
<1>12. N \in T
    BY <1>1, <1>11
<1>13. Prefix(s, N) = s
    BY PrefixFull
<1> QED
    BY <1>7, <1>12, <1>13

\* show_last_cmd and show_next_cmd: what is left of the line, and the command after
\* it.
RecallEffect(c, d, n) ==
    /\ d \in Console /\ SameView(c, d) /\ d.flag = c.flag
    /\ d.ask = [c.ask EXCEPT ![c.using] = n]
    /\ d.buf = [c.buf EXCEPT ![c.using] = d.buf[c.using]]
    /\ It(c, c.using) <= BUFFER_SIZE => It(d, c.using) <= BUFFER_SIZE
    /\ It(d, c.using) < BUFFER_SIZE - 1 =>
           \E k \in 0 .. Len(Text(c.buf[c.using])) :
               Text(d.buf[c.using]) =
                   Prefix(Text(c.buf[c.using]), k) \o Text(Command(c, c.using, n))

LEMMA Recalling ==
    ASSUME NEW c \in Console, NEW prompts, NEW n \in Nat,
           Unfolded(Command(c, c.using, n))
    PROVE  RecallEffect(c, ShowCmd(c, prompts, n), n)
<1> DEFINE t == c.using
           s == Command(c, t, n)
           b == c.buf[t]
           a == DeleteLine(c, prompts)
           e == [a EXCEPT !.ask = [a.ask EXCEPT ![t] = n]]
           d == DisplayAll(e, s)
<1>1. /\ t \in Terminals /\ c.buf \in [Terminals -> Seq(Chars)] /\ b \in Seq(Chars)
      /\ c.cmds[t] \in Seq(Seq(Chars)) /\ It(c, t) = Len(b) /\ Len(b) \in Nat
    BY DEF Console, It
<1>2. s \in Seq(Chars)
    BY <1>1 DEF Command
<1>3. ShowCmd(c, prompts, n) = d
    BY DEF ShowCmd
<1>4. DeleteEffect(c, a)
    BY DeletingLine
<1> HIDE DEF a, s, b
<1>5. PICK m \in 0 .. Len(b) : a.buf = [c.buf EXCEPT ![t] = Prefix(b, m)]
    BY <1>1, <1>4 DEF DeleteEffect, b
<1>6. a.buf[t] = Prefix(b, m) /\ Prefix(b, m) \in Seq(Chars) /\ It(a, t) <= It(c, t) /\ It(a, t) \in Nat
    <2>1. a.buf[t] = Prefix(b, m)
        BY <1>1, <1>5
    <2>2. Prefix(b, m) \in Seq(Chars) /\ Len(Prefix(b, m)) = m
        BY <1>1, PrefixFacts
    <2> QED
        BY <1>1, <2>1, <2>2 DEF It
<1>7. /\ a \in Console /\ SameView(c, a) /\ a.flag = c.flag /\ a.ask = c.ask
    BY <1>4 DEF DeleteEffect
<1>8. /\ e \in Console /\ e.ask = [c.ask EXCEPT ![t] = n]
      /\ e.buf = a.buf /\ e.flag = c.flag /\ SameView(c, e)
    <2>1. [a.ask EXCEPT ![t] = n] \in [Terminals -> Nat]
        BY <1>7 DEF Console
    <2> QED
        BY <1>7, <2>1 DEF Console, SameView
<1> HIDE DEF e
<1>9. WriteEffect(e, d, s)
    BY <1>2, <1>8, DisplayingAll DEF s
<1> HIDE DEF d
<1>10. e.using = t /\ e.buf[t] = Prefix(b, m) /\ It(e, t) <= It(c, t) /\ It(e, t) \in Nat
    BY <1>6, <1>8 DEF SameView, It
<1>11. /\ d \in Console /\ SameView(e, d) /\ d.flag = e.flag /\ d.ask = e.ask
       /\ d.buf = [e.buf EXCEPT ![t] = d.buf[t]]
       /\ It(e, t) <= BUFFER_SIZE => It(d, t) <= BUFFER_SIZE
       /\ It(d, t) < BUFFER_SIZE - 1 => Text(d.buf[t]) = Text(Prefix(b, m)) \o Text(s)
    BY <1>8, <1>9, <1>10 DEF WriteEffect
<1>12. d.buf = [c.buf EXCEPT ![t] = d.buf[t]]
    BY <1>1, <1>5, <1>8, <1>11, ZenonT(40)
<1>13. It(c, t) <= BUFFER_SIZE => It(d, t) <= BUFFER_SIZE
    <2>1. BUFFER_SIZE \in Nat /\ It(c, t) \in Nat
        BY <1>1, TermAssumption
    <2> QED
        BY <1>10, <1>11, <2>1
<1>14. PICK k \in 0 .. Len(Text(b)) : Text(Prefix(b, m)) = Prefix(Text(b), k)
    BY <1>1, TextOfPrefix
<1>15. It(d, t) < BUFFER_SIZE - 1 =>
           \E j \in 0 .. Len(Text(b)) : Text(d.buf[t]) = Prefix(Text(b), j) \o Text(s)
    BY <1>11, <1>14
<1>16. SameView(c, d) /\ d.flag = c.flag /\ d.ask = [c.ask EXCEPT ![t] = n]
    BY <1>8, <1>11 DEF SameView
<1> QED
    BY <1>3, <1>8, <1>11, <1>12, <1>13, <1>15, <1>16 DEF RecallEffect, b, s

LEMMA RecallView ==
    ASSUME NEW c \in Console, NEW prompts, NEW n \in Nat
    PROVE  ViewEffect(c, ShowCmd(c, prompts, n))
<1> DEFINE t == c.using
           s == Command(c, t, n)
           a == DeleteLine(c, prompts)
           e == [a EXCEPT !.ask = [a.ask EXCEPT ![t] = n]]
           d == DisplayAll(e, s)
<1>1. t \in Terminals /\ c.cmds[t] \in Seq(Seq(Chars))
    BY DEF Console
<1>2. s \in Seq(Chars)
    BY <1>1 DEF Command
<1>3. ShowCmd(c, prompts, n) = d
    BY DEF ShowCmd
<1>4. DeleteEffect(c, a)
    BY DeletingLine
<1> HIDE DEF a, s
<1>5. ViewEffect(c, a) /\ a.ask \in [Terminals -> Nat]
    BY <1>4 DEF DeleteEffect, ViewEffect, Console
<1>6. [a.ask EXCEPT ![t] = n] \in [Terminals -> Nat]
    BY <1>5
<1>7. ViewEffect(c, e)
    BY <1>5, <1>6 DEF ViewEffect, Console, SameView, RoutedIn, OwnIn, FrameOf
<1> HIDE DEF e
<1>8. ViewEffect(e, d)
    BY <1>2, <1>7, DisplayingAllView DEF ViewEffect
<1> HIDE DEF d
<1>9. ViewEffect(c, d)
    BY <1>7, <1>8 DEF ViewEffect, SameView
<1> QED
    BY <1>3, <1>9

-----------------------------------------------------------------------------
(* The keys *)

\* What a key does that edits the line: only the buffer and the place in the
\* history of the displayed terminal change, and if the line fits the buffer, the
\* text is edited as Lines allows.
EditEffect(c, d) ==
    /\ d \in Console /\ SameView(c, d) /\ d.flag = c.flag
    /\ \A t \in Terminals : d.ask[t] <= Len(c.cmds[t])
    /\ d.buf = [c.buf EXCEPT ![c.using] = d.buf[c.using]]
    /\ It(d, c.using) <= BUFFER_SIZE
    /\ It(d, c.using) < BUFFER_SIZE - 1 =>
           Text(d.buf[c.using]) \in L!Edits(Text(c.buf[c.using]), Texts(c.cmds[c.using]))

\* buffers and places in the history within their bounds
Settled(c) == \A t \in Terminals : It(c, t) <= BUFFER_SIZE /\ c.ask[t] <= Len(c.cmds[t])

\* What is put after the text, or in the place of its end, is one of the edits.
LEMMA EditsAre ==
    ASSUME NEW l \in Seq(Chars), NEW lines
    PROVE  /\ \A ch \in Letters : l \o <<ch>> \in L!Edits(l, lines)
           /\ l \o <<BLANK, BLANK>> \in L!Edits(l, lines)
           /\ \A k \in 0 .. Len(l), e \in L!Past(lines) : Prefix(l, k) \o e \in L!Edits(l, lines)
<1>1. \A ch \in Letters : l \o <<ch>> = Append(l, ch)
    BY DEF Chars
<1>2. \A ch \in Letters : Append(l, ch) \in L!Edits(l, lines)
    BY DEF L!Edits
<1>3. l \o <<BLANK, BLANK>> \in L!Edits(l, lines)
    BY DEF L!Edits, L!BLANK, BLANK
<1>4. \A k \in 0 .. Len(l), e \in L!Past(lines) : Prefix(l, k) \o e \in L!Edits(l, lines)
    BY DEF L!Edits, Prefix
<1> QED
    BY <1>1, <1>2, <1>3, <1>4

\* Characters that are displayed are typed at the end of the line.
LEMMA EditWritten ==
    ASSUME NEW c \in Console, Settled(c), NEW d, NEW s, WriteEffect(c, d, s),
           Text(c.buf[c.using]) \o Text(s) \in L!Edits(Text(c.buf[c.using]), Texts(c.cmds[c.using]))
    PROVE  EditEffect(c, d)
<1>1. c.using \in Terminals
    BY DEF Console
<1> QED
    BY <1>1 DEF EditEffect, WriteEffect, Settled, SameView

\* A letter.
LEMMA EditTyped ==
    ASSUME NEW c \in Console, Settled(c), NEW ch \in Letters
    PROVE  EditEffect(c, TerminalDisplay(c, ch))
<1>1. ch \in Chars \ {ENTER} /\ ch # STALE /\ <<>> \in Seq(Chars)
    BY LettersAssumption DEF Chars
<1>2. WriteEffect(c, c, <<>>)
    BY WriteNothing
<1>3. WriteEffect(c, TerminalDisplay(c, ch), Append(<<>>, ch))
    BY <1>1, <1>2, WriteMore
<1>4. Text(Append(<<>>, ch)) = <<ch>>
    <2>1. Text(Append(<<>>, ch)) = Grown(Text(<<>>), ch) /\ Text(<<>>) = <<>>
        BY <1>1, TextGrows
    <2>2. Grown(<<>>, ch) = Append(<<>>, ch)
        BY <1>1 DEF Grown
    <2> QED
        BY <2>1, <2>2
<1>5. Text(c.buf[c.using]) \in Seq(Chars)
    BY TextGrows DEF Console
<1> DEFINE l == Text(c.buf[c.using])
<1>6. l \o <<ch>> \in L!Edits(l, Texts(c.cmds[c.using]))
    <2> HIDE DEF l
    <2> QED
        BY <1>5, EditsAre DEF l
<1> QED
    BY <1>3, <1>4, <1>6, EditWritten

\* A tabulator.
LEMMA EditTabbed ==
    ASSUME NEW c \in Console, Settled(c)
    PROVE  EditEffect(c, TerminalDisplay(TerminalDisplay(c, BLANK), BLANK))
<1> DEFINE one == Append(<<>>, BLANK)
           two == Append(one, BLANK)
           d   == TerminalDisplay(c, BLANK)
           l   == Text(c.buf[c.using])
<1>1. BLANK \in Chars \ {ENTER} /\ BLANK # STALE /\ one \in Seq(Chars) /\ two = <<BLANK, BLANK>>
    <2>1. BLANK \in Chars /\ BLANK # ENTER /\ BLANK # STALE
        BY DEF Chars, BLANK, ENTER, STALE
    <2>2. ASSUME NEW ch \in Chars
          PROVE  Append(<<>>, ch) = <<ch>> /\ Append(<<ch>>, ch) = <<ch, ch>>
        <3>1. Append(<<>>, ch) = <<ch>>
            OBVIOUS
        <3>2. /\ Append(<<ch>>, ch) \in Seq(Chars) /\ <<ch, ch>> \in Seq(Chars)
              /\ Len(Append(<<ch>>, ch)) = 2 /\ Len(<<ch, ch>>) = 2
            OBVIOUS
        <3>3. \A i \in 1 .. 2 : Append(<<ch>>, ch)[i] = <<ch, ch>>[i]
            OBVIOUS
        <3> QED
            BY <3>1, <3>2, <3>3, SeqEqual
    <2>3. one \in Seq(Chars)
        BY <2>1
    <2> QED
        BY <2>1, <2>2, <2>3
<1>2. WriteEffect(c, c, <<>>) /\ <<>> \in Seq(Chars)
    BY WriteNothing
<1>3. WriteEffect(c, d, one)
    BY <1>1, <1>2, WriteMore
<1>4. WriteEffect(c, TerminalDisplay(d, BLANK), two)
    BY <1>1, <1>3, WriteMore
<1>5. Text(two) = <<BLANK, BLANK>>
    <2>1. Text(one) = Grown(Text(<<>>), BLANK) /\ Text(<<>>) = <<>>
        BY <1>1, <1>2, TextGrows
    <2>2. Text(two) = Grown(Text(one), BLANK)
        BY <1>1, TextGrows
    <2> QED
        BY <1>1, <2>1, <2>2 DEF Grown
<1>6. l \in Seq(Chars)
    BY TextGrows DEF Console
<1>7. l \o <<BLANK, BLANK>> \in L!Edits(l, Texts(c.cmds[c.using]))
    <2> HIDE DEF l
    <2> QED
        BY <1>6, EditsAre
<1> QED
    BY <1>4, <1>5, <1>7, EditWritten

\* set_video_mem for the process that runs routes the output to it.
LEMMA SetMemRoutes ==
    ASSUME NEW c \in Console
    PROVE  RoutedIn(SetMem(c, c.exe)) /\ (OwnIn(c) => OwnIn(SetMem(c, c.exe)))
<1> DEFINE d == SetMem(c, c.exe)
<1>1. c.exe \in Terminals
    BY DEF Console
<1>2. /\ d.screen = c.cursor[c.exe] /\ d.map = FrameOf(c, c.exe)
      /\ d.cursor = c.cursor /\ d.frames = c.frames /\ SameView(c, d)
    BY <1>1, SetMemEffect
<1> HIDE DEF d
<1>3. RoutedIn(d) /\ (OwnIn(c) => OwnIn(d))
    BY <1>2 DEF RoutedIn, OwnIn, FrameOf, SameView
<1> QED
    BY <1>3 DEF d

\* The backspace key, which deletes where the terminal is displayed.
Backspaced(c, prompts) ==
    SetMem(TerminalDelete(SetMem(c, c.using), prompts, {c.using}), c.exe)

BackEffect(c, d) ==
    /\ d \in Console /\ SameView(c, d) /\ d.flag = c.flag /\ d.ask = c.ask
    /\ RoutedIn(d) /\ (OwnIn(c) => OwnIn(d))
    /\ \E n \in 0 .. It(c, c.using) :
           d.buf = [c.buf EXCEPT ![c.using] = Prefix(c.buf[c.using], n)]

LEMMA Backspacing ==
    ASSUME NEW c \in Console, NEW prompts
    PROVE  BackEffect(c, Backspaced(c, prompts))
<1> DEFINE t == c.using
           a == SetMem(c, t)
           b == TerminalDelete(a, prompts, {t})
           d == SetMem(b, c.exe)
<1>1. t \in Terminals /\ c.exe \in Terminals
    BY DEF Console
<1>2. /\ a \in Console /\ a.map = VIDEO /\ a.frames = c.frames
      /\ a.buf = c.buf /\ a.flag = c.flag /\ a.ask = c.ask /\ SameView(c, a)
    BY <1>1, SetMemEffect DEF FrameOf
<1> HIDE DEF a
<1>3. OwnIn(c) => OwnIn(a)
    BY <1>2 DEF OwnIn, FrameOf, SameView
<1>4. DeleteEffect(a, b)
    BY <1>2, Deleting DEF Blanks, SameView
<1> HIDE DEF b
<1>5. /\ b \in Console /\ b.flag = c.flag /\ b.ask = c.ask /\ SameView(c, b)
      /\ b.exe = c.exe /\ (OwnIn(c) => OwnIn(b))
    BY <1>2, <1>3, <1>4 DEF DeleteEffect, SameView
<1>6. PICK n \in 0 .. It(c, t) : b.buf = [c.buf EXCEPT ![t] = Prefix(c.buf[t], n)]
    BY <1>2, <1>4 DEF DeleteEffect, SameView, It
<1>7. /\ d \in Console /\ d.buf = b.buf /\ d.flag = b.flag /\ d.ask = b.ask /\ SameView(b, d)
    BY <1>1, <1>5, SetMemEffect
<1>8. RoutedIn(d) /\ (OwnIn(b) => OwnIn(d))
    BY <1>5, SetMemRoutes
<1> HIDE DEF d
<1>9. BackEffect(c, d)
    BY <1>5, <1>6, <1>7, <1>8 DEF BackEffect, SameView
<1> QED
    BY <1>9 DEF d, b, a, Backspaced

LEMMA EditBack ==
    ASSUME NEW c \in Console, Settled(c), NEW prompts
    PROVE  EditEffect(c, Backspaced(c, prompts))
<1> DEFINE t == c.using
           d == Backspaced(c, prompts)
           l == Text(c.buf[t])
<1>1. /\ t \in Terminals /\ c.buf \in [Terminals -> Seq(Chars)] /\ c.buf[t] \in Seq(Chars)
    BY DEF Console
<1>2. BackEffect(c, d)
    BY Backspacing
<1> HIDE DEF d
<1>3. PICK n \in 0 .. It(c, t) : d.buf = [c.buf EXCEPT ![t] = Prefix(c.buf[t], n)]
    BY <1>2 DEF BackEffect
<1>4. d.buf = [c.buf EXCEPT ![t] = d.buf[t]] /\ d.buf[t] = Prefix(c.buf[t], n)
    BY <1>1, <1>3
<1>5. It(d, t) <= BUFFER_SIZE
    <2>1. Len(Prefix(c.buf[t], n)) = n /\ It(c, t) \in Nat
        BY <1>1, PrefixFacts DEF It
    <2>2. It(d, t) = n
        BY <1>4, <2>1 DEF It
    <2>3. BUFFER_SIZE \in Nat /\ It(c, t) <= BUFFER_SIZE
        BY <1>1, TermAssumption DEF Settled
    <2> QED
        BY <2>1, <2>2, <2>3
<1>6. Text(d.buf[t]) \in L!Edits(l, Texts(c.cmds[t]))
    <2>1. PICK k \in 0 .. Len(l) : Text(Prefix(c.buf[t], n)) = Prefix(l, k)
        BY <1>1, TextOfPrefix DEF It
    <2>2. l \in Seq(Chars)
        BY <1>1, TextGrows
    <2> HIDE DEF l
    <2>3. Prefix(l, k) \in Seq(Chars) /\ Prefix(l, k) \o <<>> = Prefix(l, k)
        <3>1. Prefix(l, k) \in Seq(Chars)
            BY <2>2, PrefixFacts
        <3> QED
            BY <3>1, ConcatEmptySeq
    <2>4. Prefix(l, k) \o <<>> \in L!Edits(l, Texts(c.cmds[t]))
        BY <2>2, EditsAre DEF L!Past
    <2> QED
        BY <1>4, <2>1, <2>3, <2>4
<1>7. \A u \in Terminals : d.ask[u] <= Len(c.cmds[u])
    BY <1>2 DEF BackEffect, Settled
<1>8. EditEffect(c, d)
    BY <1>2, <1>4, <1>5, <1>6, <1>7 DEF EditEffect, BackEffect
<1> QED
    BY <1>8 DEF d

\* A command is recalled.
LEMMA EditRecalled ==
    ASSUME NEW c \in Console, Settled(c), NEW prompts, NEW n \in {LastCmd(c), NextCmd(c)},
           Unfolded(Command(c, c.using, n))
    PROVE  EditEffect(c, ShowCmd(c, prompts, n))
<1> DEFINE t == c.using
           s == Command(c, t, n)
           d == ShowCmd(c, prompts, n)
           l == Text(c.buf[t])
<1>1. /\ t \in Terminals /\ c.buf[t] \in Seq(Chars) /\ c.cmds[t] \in Seq(Seq(Chars))
      /\ c.ask \in [Terminals -> Nat] /\ c.ask[t] \in Nat /\ Len(c.cmds[t]) \in Nat
      /\ c.ask[t] <= Len(c.cmds[t])
    BY DEF Console, Settled
<1>2. n \in Nat /\ n <= Len(c.cmds[t])
    BY <1>1 DEF LastCmd, NextCmd
<1>3. RecallEffect(c, d, n)
    BY <1>2, Recalling DEF Settled
<1> HIDE DEF d
<1>4. Text(s) \in L!Past(Texts(c.cmds[t]))
    <2>1. CASE n < Len(c.cmds[t])
        <3>1. n + 1 \in DOMAIN c.cmds[t]
            BY <1>1, <1>2, <2>1
        <3>2. s = c.cmds[t][n + 1]
            BY <2>1 DEF Command
        <3>3. n + 1 \in DOMAIN Texts(c.cmds[t]) /\ Texts(c.cmds[t])[n + 1] = Text(s)
            BY <3>1, <3>2 DEF Texts
        <3> QED
            BY <3>3 DEF L!Past
    <2>2. CASE ~(n < Len(c.cmds[t]))
        BY <2>2, TextGrows DEF Command, L!Past
    <2> QED
        BY <2>1, <2>2
<1>5. It(d, t) < BUFFER_SIZE - 1 => Text(d.buf[t]) \in L!Edits(l, Texts(c.cmds[t]))
    <2> SUFFICES ASSUME It(d, t) < BUFFER_SIZE - 1
                 PROVE  Text(d.buf[t]) \in L!Edits(l, Texts(c.cmds[t]))
        OBVIOUS
    <2>1. PICK k \in 0 .. Len(l) : Text(d.buf[t]) = Prefix(l, k) \o Text(s)
        BY <1>3 DEF RecallEffect
    <2>2. l \in Seq(Chars)
        BY <1>1, TextGrows
    <2> HIDE DEF l, s
    <2> QED
        BY <1>4, <2>1, <2>2, EditsAre
<1>6. \A u \in Terminals : d.ask[u] <= Len(c.cmds[u])
    BY <1>1, <1>2, <1>3 DEF RecallEffect, Settled
<1>7. It(d, t) <= BUFFER_SIZE
    BY <1>1, <1>3 DEF RecallEffect, Settled
<1> QED
    BY <1>3, <1>5, <1>6, <1>7 DEF RecallEffect, EditEffect, Settled, d

\* Ctrl-L.
ClearEffect(c, d) ==
    /\ d \in Console /\ SameView(c, d) /\ RoutedIn(d) /\ OwnIn(d)
    /\ d.buf = c.buf /\ d.ask = c.ask /\ d.flag = [c.flag EXCEPT ![c.using] = FALSE]

LEMMA Clearing ==
    ASSUME NEW c \in Console, RoutedIn(c), OwnIn(c)
    PROVE  ClearEffect(c, ClearKey(c))
<1> DEFINE t == c.using
           a == SetMem(c, t)
           b == [a EXCEPT !.frames = [a.frames EXCEPT ![a.map] = {t}],
                          !.cursor = [a.cursor EXCEPT ![t] = <<0, 0>>],
                          !.flag = [a.flag EXCEPT ![t] = FALSE]]
           d == SetMem(b, c.exe)
<1>1. t \in Terminals /\ c.exe \in Terminals
    BY DEF Console
<1>2. /\ a \in Console /\ a.map = VIDEO /\ a.frames = c.frames
      /\ a.buf = c.buf /\ a.flag = c.flag /\ a.ask = c.ask /\ SameView(c, a)
    BY <1>1, SetMemEffect DEF FrameOf
<1>3. ClearKey(c) = d
    BY DEF ClearKey
<1> HIDE DEF a
<1>4. <<0, 0>> \in Places
    BY TermAssumption DEF Places
<1>5. /\ [a.frames EXCEPT ![a.map] = {t}] \in [Frames -> SUBSET Terminals]
      /\ [a.cursor EXCEPT ![t] = <<0, 0>>] \in [Terminals -> Places]
      /\ [a.flag EXCEPT ![t] = FALSE] \in [Terminals -> BOOLEAN]
    BY <1>1, <1>2, <1>4 DEF Console
<1>6. /\ b \in Console /\ SameView(c, b) /\ b.buf = c.buf /\ b.ask = c.ask
      /\ b.flag = [c.flag EXCEPT ![t] = FALSE]
      /\ b.frames = [c.frames EXCEPT ![VIDEO] = {t}]
    BY <1>2, <1>5 DEF Console, SameView
<1> HIDE DEF b
<1>7. OwnIn(b)
    <2> SUFFICES ASSUME NEW u \in Terminals PROVE b.frames[FrameOf(b, u)] \subseteq {u}
        BY DEF OwnIn
    <2>1. FrameOf(b, u) = FrameOf(c, u) /\ FrameOf(c, u) \in Frames /\ VIDEO \in Frames
        BY <1>6, FrameType DEF FrameOf, SameView, Frames
    <2>2. c.frames \in [Frames -> SUBSET Terminals] /\ c.frames[FrameOf(c, u)] \subseteq {u}
        BY DEF Console, OwnIn
    <2>3. u # t => FrameOf(c, u) # VIDEO
        BY DEF FrameOf, VIDEO, Terminals
    <2> QED
        BY <1>6, <2>1, <2>2, <2>3
<1>8. d \in Console /\ SameView(b, d) /\ d.buf = b.buf /\ d.ask = b.ask /\ d.flag = b.flag
    BY <1>1, <1>6, SetMemEffect
<1>9. b.exe = c.exe
    BY <1>6 DEF SameView
<1>10. RoutedIn(d) /\ OwnIn(d)
    BY <1>6, <1>7, <1>9, SetMemRoutes
<1> HIDE DEF d
<1>11. ClearEffect(c, d)
    BY <1>6, <1>8, <1>10 DEF ClearEffect, SameView
<1> QED
    BY <1>3, <1>11

\* The switch to terminal t keeps the frame that was displayed and shows t's.
Switched(c, t) ==
    SetMem([c EXCEPT !.frames[c.using] = c.frames[VIDEO],
                     !.frames[VIDEO] = c.frames[t], !.using = t], c.exe)

SwitchEffect(c, d, t) ==
    /\ d \in Console /\ RoutedIn(d) /\ OwnIn(d)
    /\ d.using = t /\ d.exe = c.exe /\ d.active = c.active
    /\ d.cmds = c.cmds /\ d.buf = c.buf /\ d.ask = c.ask /\ d.flag = c.flag

LEMMA Switching ==
    ASSUME NEW c \in Console, OwnIn(c), NEW t \in Terminals, t # c.using
    PROVE  SwitchEffect(c, Switched(c, t), t)
<1> DEFINE f == [[c.frames EXCEPT ![c.using] = c.frames[VIDEO]] EXCEPT ![VIDEO] = c.frames[t]]
           b == [c EXCEPT !.frames = f, !.using = t]
           d == SetMem(b, c.exe)
<1>1. /\ c.using \in Terminals /\ c.exe \in Terminals /\ VIDEO \in Frames /\ VIDEO \notin Terminals
      /\ Terminals \subseteq Frames /\ c.frames \in [Frames -> SUBSET Terminals]
    BY DEF Console, Frames, Terminals, VIDEO
<1>2. Switched(c, t) = d
    BY DEF Switched
<1>3. /\ f \in [Frames -> SUBSET Terminals]
      /\ f[VIDEO] = c.frames[t] /\ f[c.using] = c.frames[VIDEO]
      /\ \A u \in Frames \ {VIDEO, c.using} : f[u] = c.frames[u]
    BY <1>1
<1> HIDE DEF f
<1>4. /\ b \in Console /\ b.frames = f /\ b.using = t /\ b.exe = c.exe /\ b.active = c.active
      /\ b.cmds = c.cmds /\ b.buf = c.buf /\ b.ask = c.ask /\ b.flag = c.flag
    BY <1>3 DEF Console
<1> HIDE DEF b
<1>5. OwnIn(b)
    <2> SUFFICES ASSUME NEW u \in Terminals PROVE b.frames[FrameOf(b, u)] \subseteq {u}
        BY DEF OwnIn
    <2>1. c.frames[FrameOf(c, u)] \subseteq {u} /\ c.frames[FrameOf(c, t)] \subseteq {t}
        BY DEF OwnIn
    <2>2. FrameOf(c, t) = t
        BY DEF FrameOf
    <2>3. CASE u = t
        BY <1>3, <1>4, <2>1, <2>2, <2>3 DEF FrameOf
    <2>4. CASE u # t
        <3>1. FrameOf(b, u) = u /\ u \in Frames \ {VIDEO}
            BY <1>1, <1>4, <2>4 DEF FrameOf
        <3>2. CASE u = c.using
            <4>1. FrameOf(c, u) = VIDEO
                BY <3>2 DEF FrameOf
            <4> QED
                BY <1>3, <1>4, <2>1, <3>1, <3>2, <4>1
        <3>3. CASE u # c.using
            <4>1. FrameOf(c, u) = u
                BY <3>3 DEF FrameOf
            <4> QED
                BY <1>3, <1>4, <2>1, <3>1, <3>3, <4>1
        <3> QED
            BY <3>2, <3>3
    <2> QED
        BY <2>3, <2>4
<1>6. d \in Console /\ SameView(b, d) /\ d.buf = b.buf /\ d.ask = b.ask /\ d.flag = b.flag
    BY <1>1, <1>4, SetMemEffect
<1>7. RoutedIn(d) /\ OwnIn(d)
    BY <1>4, <1>5, SetMemRoutes
<1> HIDE DEF d
<1>8. SwitchEffect(c, d, t)
    BY <1>4, <1>6, <1>7 DEF SwitchEffect, SameView
<1> QED
    BY <1>2, <1>8

-----------------------------------------------------------------------------
(* The clock and the processes *)

\* Going round, the scheduler finds a terminal that has a process.
LEMMA NextExeIsActive ==
    ASSUME NEW c \in Console, c.exe \in c.active
    PROVE  NextExe(c) \in c.active
<1> DEFINE after(t) == (t - c.exe - 1) % TerminalNum
           S == {after(t) : t \in c.active}
<1>1. \A t \in c.active : after(t) \in Nat
    <2>1. \A i \in Int : i % TerminalNum \in Nat
        BY TermAssumption
    <2>2. c.exe \in Int /\ \A t \in c.active : t \in Int
        BY DEF Console, Terminals
    <2>3. \A t \in c.active : t - c.exe - 1 \in Int
        BY <2>2
    <2> QED
        BY <2>1, <2>3
<1>2. S \in SUBSET Nat /\ S # {}
    BY <1>1
<1>3. PICK m \in S : \A k \in S : m <= k
    <2> HIDE DEF S
    <2> QED
        BY <1>2, LeastNat
<1>4. \E t \in c.active : \A u \in c.active : after(t) <= after(u)
    BY <1>3
<1> QED
    BY <1>4 DEF NextExe

\* process_switch to terminal t.
Scheduled(c, t) == [SetMem(c, t) EXCEPT !.exe = t, !.active = @ \cup {t}]

ScheduleEffect(c, d, t) ==
    /\ d \in Console /\ RoutedIn(d) /\ OwnIn(d)
    /\ d.using = c.using /\ d.exe = t /\ d.active = c.active \cup {t}
    /\ d.cmds = c.cmds /\ d.buf = c.buf /\ d.ask = c.ask /\ d.flag = c.flag

LEMMA Scheduling ==
    ASSUME NEW c \in Console, OwnIn(c), NEW t \in Terminals
    PROVE  ScheduleEffect(c, Scheduled(c, t), t)
<1> DEFINE a == SetMem(c, t)
           d == Scheduled(c, t)
<1>1. /\ a \in Console /\ a.screen = c.cursor[t] /\ a.map = FrameOf(c, t)
      /\ a.cursor = c.cursor /\ a.frames = c.frames
      /\ a.buf = c.buf /\ a.flag = c.flag /\ a.ask = c.ask /\ SameView(c, a)
    BY SetMemEffect
<1>2. d = [a EXCEPT !.exe = t, !.active = @ \cup {t}]
    BY DEF Scheduled
<1> HIDE DEF a, d
<1>3. /\ d \in Console /\ d.exe = t /\ d.active = a.active \cup {t} /\ d.using = a.using
      /\ d.screen = a.screen /\ d.map = a.map /\ d.cursor = a.cursor /\ d.frames = a.frames
      /\ d.cmds = a.cmds /\ d.buf = a.buf /\ d.ask = a.ask /\ d.flag = a.flag
    BY <1>1, <1>2 DEF Console
<1>4. RoutedIn(d) /\ OwnIn(d)
    BY <1>1, <1>3 DEF RoutedIn, OwnIn, FrameOf, SameView
<1>5. ScheduleEffect(c, d, t)
    BY <1>1, <1>3, <1>4 DEF ScheduleEffect, SameView
<1> QED
    BY <1>5 DEF d

\* A process prints on its own terminal.
PutcEffect(c, d) ==
    /\ d \in Console /\ SameView(c, d) /\ RoutedIn(d) /\ OwnIn(d)
    /\ d.buf = c.buf /\ d.ask = c.ask /\ d.flag = c.flag

LEMMA Printing ==
    ASSUME NEW c \in Console, RoutedIn(c), OwnIn(c), NEW ch
    PROVE  PutcEffect(c, Putc(c, ch))
<1> DEFINE at == Advance(c.screen, ch)
           t == c.exe
           d == Putc(c, ch)
<1>1. /\ t \in Terminals /\ at \in Places /\ c.cursor \in [Terminals -> Places]
      /\ c.frames \in [Frames -> SUBSET Terminals] /\ c.map = FrameOf(c, t)
    BY AdvanceType DEF Console, RoutedIn
<1>2. d = Drawn(c, t, {t}, at, FALSE)
    BY DEF Putc, Drawn
<1> HIDE DEF d, at
<1>3. DrawEffect(c, d, t, {t}, at, FALSE)
    BY <1>1, <1>2, Drawing
<1>4. RoutedIn(d)
    BY <1>1, <1>3 DEF DrawEffect, RoutedIn, SameView, FrameOf
<1>5. OwnIn(d)
    <2> SUFFICES ASSUME NEW u \in Terminals PROVE d.frames[FrameOf(d, u)] \subseteq {u}
        BY DEF OwnIn
    <2>1. /\ FrameOf(d, u) = FrameOf(c, u) /\ FrameOf(c, u) \in Frames
          /\ c.frames[FrameOf(c, u)] \subseteq {u} /\ FrameOf(c, t) \in Frames
        BY <1>1, <1>3, FrameType DEF DrawEffect, SameView, FrameOf, OwnIn
    <2>2. u # t => FrameOf(c, u) # FrameOf(c, t)
        BY <1>1 DEF FrameOf, VIDEO, Terminals
    <2>3. d.frames = [c.frames EXCEPT ![FrameOf(c, t)] = @ \cup {t}]
        BY <1>1, <1>3 DEF DrawEffect
    <2> QED
        BY <1>1, <2>1, <2>2, <2>3
<1>6. PutcEffect(c, d)
    BY <1>3, <1>4, <1>5 DEF PutcEffect, DrawEffect
<1> QED
    BY <1>6 DEF d

-----------------------------------------------------------------------------
(* The routing of video memory, for whatever the user does *)

\* set_video_mem follows what runs and what is displayed
ViewInv ==
    /\ con \in Console /\ con.exe \in con.active
    /\ RoutedIn(con) /\ OwnIn(con)

\* the same process runs, the same terminal is displayed, nothing is drawn
SameScreen(c, d) ==
    /\ d.using = c.using /\ d.exe = c.exe /\ d.active = c.active
    /\ d.screen = c.screen /\ d.astray = c.astray /\ d.cursor = c.cursor
    /\ d.map = c.map /\ d.frames = c.frames

LEMMA ScreenKept ==
    ASSUME ViewInv, con' \in Console, SameScreen(con, con')
    PROVE  ViewInv'
    BY DEF ViewInv, SameScreen, RoutedIn, OwnIn, FrameOf

LEMMA KeyView ==
    ASSUME ViewInv, NEW c, ViewEffect(con, c), con' = c
    PROVE  ViewInv'
    BY DEF ViewInv, ViewEffect, SameView, RoutedIn, OwnIn, FrameOf

\* The first states.
LEMMA InitView == Init => ViewInv
<1> SUFFICES ASSUME Init PROVE ViewInv
    OBVIOUS
<1>1. 0 \in Terminals /\ <<0, 0>> \in Places /\ VIDEO \in Frames
    BY TermAssumption DEF Terminals, Places, Frames
<1>2. [f \in Terminals \cup {VIDEO} |-> IF f = VIDEO THEN {0} ELSE {f}] \in [Frames -> SUBSET Terminals]
    BY <1>1 DEF Frames
<1>3. /\ [t \in Terminals |-> <<>>] \in [Terminals -> Seq(Chars)]
      /\ [t \in Terminals |-> <<>>] \in [Terminals -> Seq(Seq(Chars))]
    BY EmptySeq
<1>4. con \in Console
    BY <1>1, <1>2, <1>3 DEF Init, Console
<1>5. con.exe \in con.active /\ RoutedIn(con)
    BY <1>1 DEF Init, RoutedIn, FrameOf
<1>6. OwnIn(con)
    <2> SUFFICES ASSUME NEW t \in Terminals PROVE con.frames[FrameOf(con, t)] \subseteq {t}
        BY DEF OwnIn
    <2>1. /\ con.using = 0
          /\ con.frames = [f \in Terminals \cup {VIDEO} |-> IF f = VIDEO THEN {0} ELSE {f}]
        BY DEF Init
    <2>2. t # VIDEO /\ t \in Terminals \cup {VIDEO} /\ VIDEO \in Terminals \cup {VIDEO}
        BY DEF Terminals, VIDEO
    <2>3. con.frames[VIDEO] = {0} /\ con.frames[t] = {t}
        BY <2>1, <2>2
    <2> QED
        BY <2>1, <2>3 DEF FrameOf
<1> QED
    BY <1>4, <1>5, <1>6 DEF ViewInv

\* The keys but the switch of terminals draw on the terminal displayed, and route
\* video memory back; those that recall a command do not route it at all.
LEMMA KeysView ==
    ASSUME ViewInv, TypeKey \/ Enter \/ Backspace \/ Recall \/ ControlL
    PROVE  ViewInv'
<1>1. con \in Console /\ RoutedIn(con) /\ OwnIn(con)
    BY DEF ViewInv
<1>2. CASE TypeKey
    <2>1. PICK c \in {TerminalDisplay(con, ch) : ch \in Letters}
                     \cup {TerminalDisplay(TerminalDisplay(con, BLANK), BLANK)} : con' = c
        BY <1>2 DEF TypeKey, Type, Press
    <2>2. ASSUME NEW ch \in Chars PROVE ViewEffect(con, TerminalDisplay(con, ch))
        BY <1>1, DisplayingView
    <2>3. BLANK \in Chars /\ Letters \subseteq Chars
        BY DEF Chars
    <2>4. ViewEffect(con, TerminalDisplay(TerminalDisplay(con, BLANK), BLANK))
        <3> DEFINE d == TerminalDisplay(con, BLANK)
                   e == TerminalDisplay(d, BLANK)
        <3>1. ViewEffect(con, d)
            BY <2>2, <2>3
        <3> HIDE DEF d
        <3>2. ViewEffect(d, e)
            BY <2>3, <3>1, DisplayingView DEF ViewEffect
        <3> HIDE DEF e
        <3>3. ViewEffect(con, e)
            BY <3>1, <3>2 DEF ViewEffect, SameView
        <3> QED
            BY <3>3 DEF d, e
    <2>5. ViewEffect(con, c)
        BY <2>1, <2>2, <2>3, <2>4
    <2> QED
        BY <2>1, <2>5, KeyView
<1>3. CASE Enter
    <2>1. con' = TerminalDisplay(con, ENTER)
        BY <1>3 DEF Enter, Type, Press
    <2>2. ViewEffect(con, TerminalDisplay(con, ENTER))
        BY <1>1, DisplayingView DEF Chars
    <2> QED
        BY <2>1, <2>2, KeyView
<1>4. CASE Backspace
    <2>1. PICK prompts : con' = Backspaced(con, prompts)
        BY <1>4 DEF Backspace, Type, Press, Backspaced
    <2>2. BackEffect(con, Backspaced(con, prompts))
        BY <1>1, Backspacing
    <2>3. ViewEffect(con, Backspaced(con, prompts))
        BY <2>2 DEF BackEffect, ViewEffect
    <2> QED
        BY <2>1, <2>3, KeyView
<1>5. CASE Recall
    <2>1. PICK prompts \in SUBSET (0 .. ROWS - 1), n \in {LastCmd(con), NextCmd(con)} :
              con' = ShowCmd(con, prompts, n)
        BY <1>5 DEF Recall, Type, Press
    <2>2. n \in Nat
        <3>1. con.ask[con.using] \in Nat
            BY <1>1 DEF Console
        <3> QED
            BY <2>1, <3>1 DEF LastCmd, NextCmd
    <2>3. ViewEffect(con, ShowCmd(con, prompts, n))
        BY <1>1, <2>2, RecallView
    <2> QED
        BY <2>1, <2>3, KeyView
<1>6. CASE ControlL
    <2>1. con' = ClearKey(con)
        BY <1>6 DEF ControlL, Type, Press
    <2>2. ClearEffect(con, ClearKey(con))
        BY <1>1, Clearing
    <2>3. ViewEffect(con, ClearKey(con))
        BY <2>2 DEF ClearEffect, ViewEffect
    <2> QED
        BY <2>1, <2>3, KeyView
<1> QED
    BY <1>2, <1>3, <1>4, <1>5, <1>6

LEMMA SwitchView ==
    ASSUME ViewInv, NEW t \in Terminals, TerminalSwitch(t)
    PROVE  SwitchEffect(con, con', t) /\ UNCHANGED <<reading, waits, got>> /\ ViewInv'
<1>1. con \in Console /\ OwnIn(con) /\ t # con.using
    BY DEF ViewInv, TerminalSwitch
<1>2. con' = Switched(con, t) /\ UNCHANGED <<reading, waits, got>>
    BY DEF TerminalSwitch, Switched, Press
<1>3. SwitchEffect(con, con', t)
    BY <1>1, <1>2, Switching
<1>4. ViewInv'
    BY <1>3 DEF SwitchEffect, ViewInv, RoutedIn, OwnIn, FrameOf
<1> QED
    BY <1>2, <1>3, <1>4

\* The clock tick schedules a terminal.
LEMMA TickView ==
    ASSUME ViewInv, Tick
    PROVE  /\ \E t \in Terminals : ScheduleEffect(con, con', t)
           /\ UNCHANGED <<reading, waits, got>> /\ ViewInv'
<1> DEFINE t == IF con.using \notin con.active THEN con.using ELSE NextExe(con)
<1>1. /\ con \in Console /\ OwnIn(con) /\ con.using \in Terminals
      /\ con.active \subseteq Terminals /\ con.exe \in con.active
    BY DEF ViewInv, Console
<1>2. t \in Terminals
    BY <1>1, NextExeIsActive
<1>3. con' = Scheduled(con, t) /\ UNCHANGED <<reading, waits, got>>
    BY DEF Tick, Scheduled
<1> HIDE DEF t
<1>4. ScheduleEffect(con, con', t)
    BY <1>1, <1>2, <1>3, Scheduling
<1>5. ViewInv'
    BY <1>4 DEF ScheduleEffect, ViewInv, RoutedIn, OwnIn, FrameOf
<1> QED
    BY <1>2, <1>3, <1>4, <1>5

\* A process prints.
LEMMA WriteView ==
    ASSUME ViewInv, Write
    PROVE  PutcEffect(con, con') /\ UNCHANGED <<reading, waits, got>> /\ ViewInv'
<1>1. PICK ch : con' = Putc(con, ch) /\ UNCHANGED <<reading, waits, got>>
    BY DEF Write
<1>2. PutcEffect(con, con')
    BY <1>1, Printing DEF ViewInv
<1>3. ViewInv'
    BY <1>2 DEF PutcEffect, SameView, ViewInv, RoutedIn, OwnIn, FrameOf
<1> QED
    BY <1>1, <1>2, <1>3

\* The three parts of terminal_read draw nothing.
BeginEffect(t) ==
    /\ t \in Terminals /\ con' \in Console /\ SameScreen(con, con')
    /\ con'.buf = [con.buf EXCEPT ![t] = <<>>] /\ con'.flag = [con.flag EXCEPT ![t] = FALSE]
    /\ con'.cmds = con.cmds /\ con'.ask = con.ask
    /\ \E n \in Sizes : reading' = [reading EXCEPT ![t] = n]
    /\ waits' = waits /\ got' = got

LEMMA Beginning ==
    ASSUME con \in Console, ReadBegin
    PROVE  BeginEffect(con.exe)
<1> DEFINE t == con.exe
<1>1. /\ t \in Terminals
      /\ con.buf \in [Terminals -> Seq(Chars)] /\ con.flag \in [Terminals -> BOOLEAN]
    BY DEF Console
<1>2. /\ con' = [con EXCEPT !.buf = [con.buf EXCEPT ![t] = <<>>],
                            !.flag = [con.flag EXCEPT ![t] = FALSE]]
      /\ \E n \in Sizes : reading' = [reading EXCEPT ![t] = n]
      /\ waits' = waits /\ got' = got
    BY DEF ReadBegin
<1>3. /\ [con.buf EXCEPT ![t] = <<>>] \in [Terminals -> Seq(Chars)]
      /\ [con.flag EXCEPT ![t] = FALSE] \in [Terminals -> BOOLEAN]
    BY <1>1, EmptySeq
<1>4. /\ con' \in Console /\ SameScreen(con, con')
      /\ con'.buf = [con.buf EXCEPT ![t] = <<>>] /\ con'.flag = [con.flag EXCEPT ![t] = FALSE]
      /\ con'.cmds = con.cmds /\ con'.ask = con.ask
    BY <1>2, <1>3 DEF Console, SameScreen
<1> QED
    BY <1>1, <1>2, <1>4 DEF BeginEffect

WaitEffect(t) ==
    /\ t \in Terminals /\ reading[t] \in Sizes /\ t \notin waits
    /\ con' \in Console /\ SameScreen(con, con')
    /\ con'.flag = [con.flag EXCEPT ![t] = FALSE]
    /\ con'.buf = con.buf /\ con'.cmds = con.cmds /\ con'.ask = con.ask
    /\ waits' = waits \cup {t} /\ reading' = reading /\ got' = got

LEMMA Waiting ==
    ASSUME con \in Console, ReadWaits
    PROVE  WaitEffect(con.exe)
<1> DEFINE t == con.exe
<1>1. t \in Terminals /\ con.flag \in [Terminals -> BOOLEAN]
    BY DEF Console
<1>2. /\ con' = [con EXCEPT !.flag = [con.flag EXCEPT ![t] = FALSE]]
      /\ reading[t] \in Sizes /\ t \notin waits
      /\ waits' = waits \cup {t} /\ reading' = reading /\ got' = got
    BY DEF ReadWaits
<1>3. [con.flag EXCEPT ![t] = FALSE] \in [Terminals -> BOOLEAN]
    BY <1>1
<1>4. /\ con' \in Console /\ SameScreen(con, con')
      /\ con'.flag = [con.flag EXCEPT ![t] = FALSE]
      /\ con'.buf = con.buf /\ con'.cmds = con.cmds /\ con'.ask = con.ask
    BY <1>2, <1>3 DEF Console, SameScreen
<1> QED
    BY <1>1, <1>2, <1>4 DEF WaitEffect

\* A process returns with a line that is in the buffer and its history: the
\* newline below the iterator becomes NUL, the line goes to the history.
GiveEffect(t) ==
    LET i == It(con, t)
    IN  /\ t \in Terminals /\ con' \in Console /\ SameScreen(con, con')
        /\ con'.flag = con.flag
        /\ con'.cmds = [con.cmds EXCEPT ![t] = Append(@, Prefix(con.buf[t], i - 2))]
        /\ con'.ask = [con.ask EXCEPT ![t] = Len(con.cmds[t]) + 1]
        /\ \A u \in Terminals : It(con', u) = It(con, u)
        /\ \A u \in Terminals \ {t} : con'.buf[u] = con.buf[u]

LEMMA Giving ==
    ASSUME con \in Console, NEW t \in Terminals, 2 <= It(con, t),
           con' = [con EXCEPT !.buf[t][It(con, t)] = NUL,
                              !.cmds[t] = Append(@, SubSeq(con.buf[t], 1, It(con, t) - 2)),
                              !.ask[t] = Len(con.cmds[t]) + 1]
    PROVE  GiveEffect(t)
<1> DEFINE i == It(con, t)
           b == con.buf[t]
           w == [b EXCEPT ![i] = NUL]
<1>1. /\ con.buf \in [Terminals -> Seq(Chars)] /\ b \in Seq(Chars)
      /\ con.cmds \in [Terminals -> Seq(Seq(Chars))] /\ con.ask \in [Terminals -> Nat]
      /\ i = Len(b) /\ i \in Nat /\ 2 <= i
    BY DEF Console, It
<1>2. Prefix(b, i - 2) \in Seq(Chars)
    <2>1. i - 2 \in 0 .. Len(b)
        BY <1>1
    <2> HIDE DEF b, i
    <2> QED
        BY <1>1, <2>1, PrefixFacts
<1>3. w \in Seq(Chars) /\ Len(w) = i
    <2>1. i \in 1 .. Len(b) /\ NUL \in Chars
        BY <1>1 DEF Chars
    <2> HIDE DEF b, i
    <2> QED
        BY <1>1, <2>1, ExceptSeq
<1> DEFINE cs == [con.cmds EXCEPT ![t] = Append(con.cmds[t], Prefix(b, i - 2))]
           as == [con.ask EXCEPT ![t] = Len(con.cmds[t]) + 1]
           bs == [con.buf EXCEPT ![t] = w]
<1>4. con' = [con EXCEPT !.buf = bs, !.cmds = cs, !.ask = as]
    BY DEF Prefix
<1>5. /\ bs \in [Terminals -> Seq(Chars)] /\ cs \in [Terminals -> Seq(Seq(Chars))]
      /\ as \in [Terminals -> Nat]
    <2> HIDE DEF w, i
    <2> QED
        BY <1>1, <1>2, <1>3
<1>6. bs[t] = w /\ \A u \in Terminals \ {t} : bs[u] = con.buf[u]
    <2> HIDE DEF w
    <2> QED
        BY <1>1
<1> HIDE DEF bs, cs, as
<1>7. /\ con' \in Console /\ con'.buf = bs /\ con'.cmds = cs /\ con'.ask = as
      /\ con'.flag = con.flag /\ SameScreen(con, con')
    BY <1>1, <1>4, <1>5 DEF Console, SameScreen
<1>8. \A u \in Terminals : It(con', u) = It(con, u)
    BY <1>3, <1>6, <1>7 DEF It
<1>9. \A u \in Terminals \ {t} : con'.buf[u] = con.buf[u]
    BY <1>6, <1>7
<1> QED
    BY <1>7, <1>8, <1>9 DEF GiveEffect, cs, as

LEMMA ReadView ==
    ASSUME ViewInv, ReadBegin \/ ReadWaits \/ ReadReturn
    PROVE  ViewInv'
<1>1. con \in Console /\ con.exe \in Terminals
    BY DEF ViewInv, Console
<1>2. CASE ReadBegin
    BY <1>1, <1>2, Beginning, ScreenKept DEF BeginEffect
<1>3. CASE ReadWaits
    BY <1>1, <1>3, Waiting, ScreenKept DEF WaitEffect
<1>4. CASE ReadReturn
    <2> DEFINE t == con.exe
               i == It(con, t)
    <2>1. i \in Nat /\ BUFFER_SIZE \in Nat
        BY <1>1, TermAssumption DEF Console, It
    <2>2. CASE i < 2 \/ i > BUFFER_SIZE
        <3>1. con' = con
            BY <1>4, <2>2 DEF ReadReturn
        <3> QED
            BY <1>1, <3>1, ScreenKept DEF SameScreen
    <2>3. CASE ~(i < 2 \/ i > BUFFER_SIZE)
        <3>1. /\ con' = [con EXCEPT !.buf[t][i] = NUL,
                                    !.cmds[t] = Append(@, SubSeq(con.buf[t], 1, i - 2)),
                                    !.ask[t] = Len(con.cmds[t]) + 1]
              /\ 2 <= i
            BY <1>4, <2>1, <2>3 DEF ReadReturn
        <3>2. GiveEffect(t)
            BY <1>1, <3>1, Giving
        <3> QED
            BY <3>2, ScreenKept DEF GiveEffect
    <2> QED
        BY <2>2, <2>3
<1> QED
    BY <1>2, <1>3, <1>4

LEMMA ViewNext == ViewInv /\ [Next]_vars => ViewInv'
<1> SUFFICES ASSUME ViewInv, [Next]_vars PROVE ViewInv'
    OBVIOUS
<1>1. CASE TypeKey \/ Enter \/ Backspace \/ Recall \/ ControlL
    BY <1>1, KeysView
<1>2. CASE \E t \in Terminals : TerminalSwitch(t)
    BY <1>2, SwitchView
<1>3. CASE Tick
    BY <1>3, TickView
<1>4. CASE Write
    BY <1>4, WriteView
<1>5. CASE ReadBegin \/ ReadWaits \/ ReadReturn
    BY <1>5, ReadView
<1>6. CASE UNCHANGED vars
    <2>1. con' = con
        BY <1>6 DEF vars
    <2> QED
        BY <2>1, ScreenKept DEF ViewInv, SameScreen
<1> QED
    BY <1>1, <1>2, <1>3, <1>4, <1>5, <1>6 DEF Next, Key

LEMMA View == Spec => []ViewInv
    BY InitView, ViewNext, PTL DEF Spec

\* Whenever a process runs, video memory is that of its terminal, and so is the
\* position but after an Up or Down that deleted while another terminal's process
\* runs, whatever the user does and whichever process is scheduled.
THEOREM RoutedCorrect == Spec => []Routed
<1>1. ViewInv => Routed
    BY DEF ViewInv, RoutedIn, Routed
<1> QED
    BY <1>1, View, PTL

\* The output of a process and the echo of a key never come on the screen of
\* another terminal, whatever the user does.
THEOREM OwnScreenCorrect == Spec => []OwnScreen
<1>1. ViewInv => OwnScreen
    BY DEF ViewInv, OwnIn, OwnScreen
<1> QED
    BY <1>1, View, PTL

-----------------------------------------------------------------------------
(* The inductive invariant, for the user that AnyUser = FALSE describes *)

\* the end of a complete line
Ended(s) == Len(s) >= 2 /\ s[Len(s) - 1] = ENTER /\ s[Len(s)] = STALE

\* the line buffer and the history of terminal t: while a reader's line is not
\* complete, there is place for its newline and the iterator after it
LineInv(t) ==
    /\ It(con, t) <= BUFFER_SIZE
    /\ reading[t] # 0 /\ ~Ready(con, t) => It(con, t) < BUFFER_SIZE - 1
    /\ Ready(con, t) => Ended(con.buf[t])
    /\ t \in waits => reading[t] # 0
    /\ Len(con.cmds[t]) <= MaxReads
    /\ reading[t] # 0 => t \in Readers /\ Len(con.cmds[t]) < MaxReads
    /\ con.ask[t] <= Len(con.cmds[t])

ReadInv ==
    /\ reading \in [Terminals -> Sizes \cup {0}]
    /\ got \in [Terminals -> Seq(Chars)]
    /\ waits \subseteq Terminals
    /\ \A t \in Terminals : LineInv(t)

TermInv == ViewInv /\ ReadInv

LEMMA InvSettles ==
    ASSUME TermInv
    PROVE  con \in Console /\ Settled(con)
    BY DEF TermInv, ViewInv, ReadInv, Settled, LineInv

\* The first states satisfy the invariant.
LEMMA InitReadInv == Init => ReadInv
<1> SUFFICES ASSUME Init PROVE ReadInv
    OBVIOUS
<1>1. BUFFER_SIZE \in Nat /\ BUFFER_SIZE >= 2 /\ MaxReads \in Nat
    BY TermAssumption
<1>2. [t \in Terminals |-> <<>>] \in [Terminals -> Seq(Chars)]
    BY EmptySeq
<1>3. ASSUME NEW t \in Terminals PROVE LineInv(t)
    <2>1. /\ con.buf[t] = <<>> /\ con.cmds[t] = <<>> /\ reading[t] = 0 /\ con.ask[t] = 0
          /\ waits = {}
        BY DEF Init
    <2> QED
        BY <1>1, <2>1, EmptySeq DEF LineInv, It, Ready
<1> QED
    BY <1>2, <1>3 DEF Init, ReadInv

\* The keys that edit the line.
LEMMA EditKeys ==
    ASSUME AnyUser = FALSE, TermInv, TypeKey \/ Backspace \/ Recall
    PROVE  \E c : EditEffect(con, c) /\ FitsBuffer(c) /\ Type(c)
<1>1. con \in Console /\ Settled(con)
    BY InvSettles
<1>2. CASE TypeKey
    BY <1>1, <1>2, EditTyped, EditTabbed DEF TypeKey
<1>3. CASE Backspace
    <2>1. PICK prompts \in SUBSET (0 .. ROWS - 1) :
              FitsBuffer(Backspaced(con, prompts)) /\ Type(Backspaced(con, prompts))
        BY <1>3 DEF Backspace, Backspaced
    <2>2. EditEffect(con, Backspaced(con, prompts))
        BY <1>1, EditBack
    <2> QED
        BY <2>1, <2>2
<1>4. CASE Recall
    <2>1. PICK prompts \in SUBSET (0 .. ROWS - 1), n \in {LastCmd(con), NextCmd(con)} :
              /\ MayRecall(n) /\ FitsBuffer(ShowCmd(con, prompts, n))
              /\ Type(ShowCmd(con, prompts, n))
        BY <1>4 DEF Recall
    <2>2. Unfolded(Command(con, con.using, n))
        BY <2>1 DEF MayRecall
    <2>3. EditEffect(con, ShowCmd(con, prompts, n))
        BY <1>1, <2>2, EditRecalled
    <2> QED
        BY <2>1, <2>3
<1> QED
    BY <1>2, <1>3, <1>4

\* While a line is complete nothing is typed, and what is typed fits the buffer.
LEMMA EditStep ==
    ASSUME AnyUser = FALSE, TermInv, NEW c, EditEffect(con, c), FitsBuffer(c), Type(c)
    PROVE  ReadInv'
<1>1. /\ con' = c /\ reading' = reading /\ waits' = waits /\ got' = got
      /\ ~Ready(con, con.using) /\ It(c, c.using) <= BUFFER_SIZE - 2
    BY DEF Type, Press, FitsBuffer, MayType
<1>2. /\ con \in Console /\ con.using \in Terminals /\ con.buf \in [Terminals -> Seq(Chars)]
      /\ c \in Console /\ SameView(con, c) /\ c.flag = con.flag
      /\ \A t \in Terminals : c.ask[t] <= Len(con.cmds[t])
      /\ c.buf = [con.buf EXCEPT ![con.using] = c.buf[con.using]]
    BY InvSettles DEF Console, EditEffect
<1>3. ASSUME NEW t \in Terminals PROVE LineInv(t)'
    <2>1. LineInv(t) /\ It(c, con.using) \in Nat /\ BUFFER_SIZE \in Nat
        BY <1>2, TermAssumption DEF TermInv, ReadInv, It, Console
    <2>2. CASE t = con.using
        BY <1>1, <1>2, <2>1, <2>2 DEF LineInv, Ready, SameView, It
    <2>3. CASE t # con.using
        <3>1. c.buf[t] = con.buf[t]
            BY <1>2, <2>3
        <3> QED
            BY <1>1, <1>2, <2>1, <3>1 DEF LineInv, Ready, SameView, It
    <2> QED
        BY <2>2, <2>3
<1> QED
    BY <1>1, <1>3 DEF TermInv, ReadInv

\* Enter completes a line, which had the place for it.
LEMMA EnterStep ==
    ASSUME AnyUser = FALSE, TermInv, Enter
    PROVE  ReadInv'
<1> DEFINE c == TerminalDisplay(con, ENTER)
           t == con.using
<1>1. con \in Console
    BY InvSettles
<1>2. EnterEffect(con, c)
    BY <1>1, Entering
<1>3. /\ t \in waits \/ (FitsBuffer(c) /\ reading[t] = 0)
      /\ con' = c /\ reading' = reading /\ waits' = waits /\ got' = got /\ ~Ready(con, t)
    BY DEF Enter, Type, Press, MayType, MayEnter
<1> HIDE DEF c
<1>4. /\ t \in Terminals /\ con.buf \in [Terminals -> Seq(Chars)] /\ con.buf[t] \in Seq(Chars)
      /\ con.flag \in [Terminals -> BOOLEAN] /\ It(con, t) = Len(con.buf[t])
      /\ It(con, t) \in Nat /\ BUFFER_SIZE \in Nat /\ LineInv(t)
    BY <1>1, TermAssumption DEF Console, It, TermInv, ReadInv
<1>5. CASE It(con, t) >= BUFFER_SIZE
    <2>1. con' = con
        BY <1>2, <1>3, <1>5 DEF EnterEffect
    <2> QED
        BY <1>3, <2>1 DEF TermInv, ReadInv, LineInv, Ready, It
<1>6. CASE It(con, t) < BUFFER_SIZE
    <2> DEFINE s == Append(Append(con.buf[t], ENTER), STALE)
    <2>1. /\ c \in Console /\ SameView(con, c) /\ c.ask = con.ask
          /\ c.buf = [con.buf EXCEPT ![t] = s] /\ c.flag = [con.flag EXCEPT ![t] = TRUE]
        BY <1>2, <1>4, <1>6 DEF EnterEffect, KeyEffect
    <2>2. s \in Seq(Chars) /\ Len(s) = Len(con.buf[t]) + 2 /\ Ended(s)
        BY <1>4 DEF Ended, Chars
    <2> HIDE DEF s
    <2>3. /\ It(c, t) = It(con, t) + 2 /\ c.using = t /\ c.buf[t] = s /\ c.flag[t]
          /\ \A u \in Terminals \ {t} : c.buf[u] = con.buf[u] /\ c.flag[u] = con.flag[u]
        BY <1>4, <2>1, <2>2 DEF It, SameView
    <2>4. It(c, t) <= BUFFER_SIZE
        <3>1. CASE t \in waits
            BY <1>3, <1>4, <2>3, <3>1 DEF LineInv
        <3>2. CASE FitsBuffer(c)
            BY <1>4, <2>3, <3>2 DEF FitsBuffer
        <3> QED
            BY <1>3, <3>1, <3>2
    <2>5. ASSUME NEW u \in Terminals PROVE LineInv(u)'
        <3>1. LineInv(u) /\ c.ask = con.ask /\ c.cmds = con.cmds
            BY <2>1 DEF TermInv, ReadInv, SameView
        <3>2. CASE u = t
            <4>1. reading[t] # 0 => t \in waits
                BY <1>3
            <4> QED
                BY <1>3, <2>2, <2>3, <2>4, <3>1, <3>2, <4>1 DEF LineInv, Ready, It
        <3>3. CASE u # t
            BY <1>3, <2>3, <3>1, <3>3 DEF LineInv, Ready, It
        <3> QED
            BY <3>2, <3>3
    <2> QED
        BY <1>3, <2>5 DEF TermInv, ReadInv
<1> QED
    BY <1>4, <1>5, <1>6

\* Ctrl-L, the switch of terminals, the clock and the output of processes change no
\* line.
LEMMA LinesKept ==
    ASSUME TermInv, UNCHANGED <<reading, waits, got>>,
           con'.buf = con.buf, con'.cmds = con.cmds, con'.ask = con.ask,
           \A t \in waits : con'.flag[t] = con.flag[t]
    PROVE  ReadInv'
<1>1. ASSUME NEW t \in Terminals PROVE LineInv(t)'
    <2>1. LineInv(t)
        BY DEF TermInv, ReadInv
    <2> QED
        BY <2>1 DEF LineInv, Ready, It
<1> QED
    BY <1>1 DEF TermInv, ReadInv

\* Ctrl-L clears the flag of no reader: that of a line complete is not typed on.
LEMMA ClearKeeps ==
    ASSUME AnyUser = FALSE, TermInv, ControlL
    PROVE  /\ con'.using = con.using /\ con'.buf = con.buf /\ con'.cmds = con.cmds
           /\ con'.ask = con.ask /\ UNCHANGED <<reading, waits, got>>
           /\ \A t \in waits : con'.flag[t] = con.flag[t]
<1>1. con \in Console /\ RoutedIn(con) /\ OwnIn(con) /\ con.flag \in [Terminals -> BOOLEAN]
    BY DEF TermInv, ViewInv, Console
<1>2. ClearEffect(con, ClearKey(con))
    BY <1>1, Clearing
<1>3. con' = ClearKey(con) /\ UNCHANGED <<reading, waits, got>> /\ ~Ready(con, con.using)
    BY DEF ControlL, Type, Press, MayType
<1>4. ClearEffect(con, con')
    BY <1>2, <1>3
<1>5. ASSUME NEW t \in waits PROVE con'.flag[t] = con.flag[t]
    <2>1. t \in Terminals
        BY DEF TermInv, ReadInv
    <2> QED
        BY <1>1, <1>3, <1>4, <2>1 DEF ClearEffect, Ready
<1> QED
    BY <1>3, <1>4, <1>5 DEF ClearEffect, SameView

\* A process begins to read: its buffer is emptied.
LEMMA BeginStep ==
    ASSUME TermInv, ReadBegin
    PROVE  ReadInv'
<1> DEFINE t == con.exe
<1>1. /\ t \in Terminals /\ con \in Console /\ t \in Readers
      /\ con.buf \in [Terminals -> Seq(Chars)] /\ con.flag \in [Terminals -> BOOLEAN]
      /\ Len(con.cmds[t]) < MaxReads /\ reading[t] = 0
    BY InvSettles DEF Console, ReadBegin
<1>2. BeginEffect(t)
    BY <1>1, Beginning
<1>3. PICK n \in Sizes : reading' = [reading EXCEPT ![t] = n]
    BY <1>2 DEF BeginEffect
<1>4. n \in Nat \ {0}
    BY TermAssumption
<1>5. ASSUME NEW u \in Terminals PROVE LineInv(u)'
    <2>1. LineInv(u) /\ BUFFER_SIZE \in Nat /\ BUFFER_SIZE >= 2
        BY TermAssumption DEF TermInv, ReadInv
    <2>2. CASE u = t
        <3>1. con'.buf[u] = <<>> /\ ~con'.flag[u] /\ reading'[u] = n /\ u \notin waits
            BY <1>1, <1>2, <1>3, <2>1, <2>2 DEF BeginEffect, LineInv, TermInv, ReadInv
        <3> QED
            BY <1>1, <1>2, <2>1, <2>2, <3>1, EmptySeq DEF LineInv, Ready, BeginEffect, It
    <2>3. CASE u # t
        <3>1. con'.buf[u] = con.buf[u] /\ con'.flag[u] = con.flag[u] /\ reading'[u] = reading[u]
            BY <1>1, <1>2, <1>3, <2>3 DEF TermInv, ReadInv, BeginEffect
        <3> QED
            BY <1>2, <2>1, <3>1 DEF LineInv, Ready, It, BeginEffect
    <2> QED
        BY <2>2, <2>3
<1>6. reading' \in [Terminals -> Sizes \cup {0}]
    BY <1>1, <1>3 DEF TermInv, ReadInv
<1> QED
    BY <1>2, <1>5, <1>6 DEF TermInv, ReadInv, BeginEffect

\* A process begins to wait: no Enter fell between its two resets of the flag.
LEMMA WaitStep ==
    ASSUME TermInv, ReadWaits
    PROVE  ReadInv' /\ \A u \in Terminals : Ready(con, u)' <=> Ready(con, u)
<1> DEFINE t == con.exe
<1>1. /\ t \in Terminals /\ con \in Console /\ con.flag \in [Terminals -> BOOLEAN]
    BY InvSettles DEF Console, ReadWaits
<1>2. WaitEffect(t)
    BY <1>1, Waiting
<1>3. reading[t] # 0
    BY <1>2, TermAssumption DEF WaitEffect
<1>4. ASSUME NEW u \in Terminals PROVE Ready(con, u)' <=> Ready(con, u)
    BY <1>1, <1>2 DEF WaitEffect, Ready
<1>5. ASSUME NEW u \in Terminals PROVE LineInv(u)'
    <2>1. LineInv(u) /\ (Ready(con, u)' <=> Ready(con, u))
        BY <1>4 DEF TermInv, ReadInv
    <2> QED
        BY <1>2, <1>3, <2>1 DEF LineInv, It, WaitEffect
<1> QED
    BY <1>1, <1>2, <1>4, <1>5 DEF TermInv, ReadInv, WaitEffect

\* A process returns with its line; what is copied is the buffer of its terminal up
\* to the newline or to the size asked for, if that terminal is displayed.
ReturnEffect(t, m) ==
    /\ Ready(con, t) /\ Ended(con.buf[t]) /\ GiveEffect(t)
    /\ m = LeastOf(reading[t], It(con, t) - 1)
    /\ reading' = [reading EXCEPT ![t] = 0]
    /\ waits' = waits \ {t}
    /\ got' \in [Terminals -> Seq(Chars)] /\ got' = [got EXCEPT ![t] = got'[t]]
    /\ t = con.using => got'[t] = Prefix(con.buf[t], m)

LEMMA Returning ==
    ASSUME TermInv, ReadReturn
    PROVE  \E m : ReturnEffect(con.exe, m)
<1> DEFINE t == con.exe
           i == It(con, t)
           b == con.buf[t]
           a == con.buf[con.using]
           m == LeastOf(reading[t], i - 1)
           v == [k \in 1 .. m |-> IF k <= It(con, con.using) THEN a[k] ELSE STALE]
<1>1. /\ t \in Terminals /\ con \in Console /\ con.using \in Terminals
      /\ b \in Seq(Chars) /\ a \in Seq(Chars)
      /\ i = Len(b) /\ i \in Nat /\ BUFFER_SIZE \in Nat
      /\ It(con, con.using) = Len(a) /\ Len(a) \in Nat
    BY InvSettles, TermAssumption DEF Console, It
<1>2. Ready(con, t) /\ Ended(b) /\ 2 <= i /\ i <= BUFFER_SIZE
    BY <1>1 DEF TermInv, ReadInv, LineInv, ReadReturn, Ended
<1>3. /\ con' = [con EXCEPT !.buf[t][i] = NUL, !.cmds[t] = Append(@, SubSeq(b, 1, i - 2)),
                            !.ask[t] = Len(con.cmds[t]) + 1]
      /\ reading' = [reading EXCEPT ![t] = 0] /\ waits' = waits \ {t}
      /\ got' = [got EXCEPT ![t] = v]
    BY <1>1, <1>2 DEF ReadReturn
<1>4. GiveEffect(t)
    BY <1>1, <1>2, <1>3, Giving
<1>5. reading[t] \in Nat \ {0}
    BY <1>1, <1>2, TermAssumption DEF TermInv, ReadInv, LineInv, Ready
<1>6. m \in 0 .. i - 1
    BY <1>1, <1>2, <1>5 DEF LeastOf
<1>7. v \in Seq(Chars)
    <2>1. \A k \in 1 .. m : (IF k <= Len(a) THEN a[k] ELSE STALE) \in Chars
        <3> HIDE DEF a, m
        <3>1. STALE \in Chars /\ \A k \in 1 .. Len(a) : a[k] \in Chars
            BY <1>1 DEF Chars
        <3>2. ASSUME NEW k \in 1 .. m, k <= Len(a) PROVE k \in 1 .. Len(a)
            BY <1>1, <1>6, <3>2
        <3> QED
            BY <3>1, <3>2
    <2> HIDE DEF a, m, i
    <2>2. v = [k \in 1 .. m |-> IF k <= Len(a) THEN a[k] ELSE STALE]
        BY <1>1
    <2>3. v \in [1 .. m -> Chars]
        BY <2>1, <2>2
    <2>4. m \in Nat
        BY <1>1, <1>2, <1>6
    <2> HIDE DEF v
    <2> QED
        BY <2>3, <2>4, SeqDef
<1>8. t = con.using => v = Prefix(b, m)
    <2> SUFFICES ASSUME t = con.using PROVE v = Prefix(b, m)
        OBVIOUS
    <2> HIDE DEF m, b
    <2>1. /\ Prefix(b, m) \in Seq(Chars) /\ Len(Prefix(b, m)) = m
          /\ \A k \in 1 .. m : Prefix(b, m)[k] = b[k]
        <3>1. m \in 0 .. Len(b)
            BY <1>1, <1>6
        <3> QED
            BY <1>1, <3>1, PrefixFacts
    <2>2. v = [k \in 1 .. m |-> b[k]]
        BY <1>1, <1>2, <1>6 DEF b
    <2>3. Prefix(b, m) = [k \in 1 .. m |-> Prefix(b, m)[k]]
        BY <2>1
    <2> QED
        BY <2>1, <2>2, <2>3
<1> HIDE DEF m, v
<1>9. got \in [Terminals -> Seq(Chars)]
    BY DEF TermInv, ReadInv
<1>10. got' \in [Terminals -> Seq(Chars)] /\ got'[t] = v
    BY <1>1, <1>3, <1>7, <1>9
<1>11. ReturnEffect(t, m)
    BY <1>2, <1>3, <1>4, <1>8, <1>10 DEF ReturnEffect, m
<1> QED
    BY <1>11

LEMMA ReturnStep ==
    ASSUME TermInv, ReadReturn
    PROVE  ReadInv'
<1> DEFINE t == con.exe
<1>1. PICK m : ReturnEffect(t, m)
    BY Returning
<1>2. /\ t \in Terminals /\ con \in Console /\ con.cmds \in [Terminals -> Seq(Seq(Chars))]
      /\ con.ask \in [Terminals -> Nat] /\ con.buf[t] \in Seq(Chars)
      /\ Ready(con, t) /\ GiveEffect(t)
      /\ reading' = [reading EXCEPT ![t] = 0] /\ waits' = waits \ {t}
    BY <1>1, InvSettles DEF Console, ReturnEffect
<1>3. /\ con'.cmds[t] = Append(con.cmds[t], Prefix(con.buf[t], It(con, t) - 2))
      /\ \A u \in Terminals \ {t} : con'.cmds[u] = con.cmds[u] /\ con'.ask[u] = con.ask[u]
      /\ con'.ask[t] = Len(con.cmds[t]) + 1
    BY <1>2 DEF GiveEffect
<1>4. Len(con'.cmds[t]) = Len(con.cmds[t]) + 1 /\ Len(con.cmds[t]) \in Nat
    <2>1. con.cmds[t] \in Seq(Seq(Chars))
        BY <1>2
    <2>2. Prefix(con.buf[t], It(con, t) - 2) \in Seq(Chars)
        <3>1. It(con, t) - 2 \in 0 .. Len(con.buf[t])
            BY <1>1, <1>2 DEF ReturnEffect, Ended, It
        <3> QED
            BY <1>2, <3>1, PrefixFacts
    <2> QED
        BY <1>3, <2>1, <2>2
<1>5. ASSUME NEW u \in Terminals PROVE LineInv(u)'
    <2>1. LineInv(u) /\ It(con', u) = It(con, u) /\ con'.flag = con.flag
        BY <1>2 DEF TermInv, ReadInv, GiveEffect
    <2>2. CASE u = t
        <3>1. reading'[u] = 0 /\ u \notin waits'
            BY <1>2, <2>2 DEF TermInv, ReadInv
        <3>2. Len(con.cmds[t]) < MaxReads /\ MaxReads \in Nat
            BY <1>2, <2>1, <2>2, TermAssumption DEF LineInv, Ready
        <3> QED
            BY <1>3, <1>4, <2>1, <2>2, <3>1, <3>2 DEF LineInv, Ready, It
    <2>3. CASE u # t
        <3>1. /\ reading'[u] = reading[u] /\ con'.buf[u] = con.buf[u]
              /\ (u \in waits' <=> u \in waits)
            BY <1>2, <2>3 DEF TermInv, ReadInv, GiveEffect
        <3> QED
            BY <1>3, <2>1, <2>3, <3>1 DEF LineInv, Ready, It
    <2> QED
        BY <2>2, <2>3
<1>6. reading' \in [Terminals -> Sizes \cup {0}] /\ got' \in [Terminals -> Seq(Chars)]
    BY <1>1, <1>2 DEF TermInv, ReadInv, ReturnEffect
<1> QED
    BY <1>2, <1>5, <1>6 DEF TermInv, ReadInv

\* Every step preserves the invariant.
LEMMA TermNext ==
    ASSUME AnyUser = FALSE
    PROVE  TermInv /\ [Next]_vars => TermInv'
<1> SUFFICES ASSUME TermInv, [Next]_vars PROVE ReadInv'
    BY ViewNext DEF TermInv
<1> USE DEF TermInv
<1>1. CASE TypeKey \/ Backspace \/ Recall
    BY <1>1, EditKeys, EditStep
<1>2. CASE Enter
    BY <1>2, EnterStep
<1>3. CASE ControlL
    BY <1>3, ClearKeeps, LinesKept
<1>4. CASE \E t \in Terminals : TerminalSwitch(t)
    BY <1>4, SwitchView, LinesKept DEF SwitchEffect
<1>5. CASE Tick
    BY <1>5, TickView, LinesKept DEF ScheduleEffect
<1>6. CASE Write
    BY <1>6, WriteView, LinesKept DEF PutcEffect, SameView
<1>7. CASE ReadBegin
    BY <1>7, BeginStep
<1>8. CASE ReadWaits
    BY <1>8, WaitStep
<1>9. CASE ReadReturn
    BY <1>9, ReturnStep
<1>10. CASE UNCHANGED vars
    BY <1>10, LinesKept DEF vars
<1> QED
    BY <1>1, <1>2, <1>3, <1>4, <1>5, <1>6, <1>7, <1>8, <1>9, <1>10 DEF Next, Key

LEMMA Invariant ==
    ASSUME AnyUser = FALSE
    PROVE  Spec => []TermInv
<1>1. Init => TermInv
    BY InitView, InitReadInv DEF TermInv
<1> QED
    BY <1>1, TermNext, PTL DEF Spec

\* Buffers and the history stay in their bounds, whatever is typed, deleted and
\* recalled by a user who keeps lines two short of the buffer and types nothing on a
\* terminal whose line is complete.
THEOREM TypeCorrect ==
    ASSUME AnyUser = FALSE
    PROVE  Spec => []TypeOK
<1>1. TermInv => TypeOK
    <2> SUFFICES ASSUME TermInv PROVE TypeOK
        OBVIOUS
    <2>1. /\ con.using \in Terminals /\ con.active \subseteq Terminals
          /\ con.screen \in Places /\ con.astray \in BOOLEAN /\ con.cursor \in [Terminals -> Places]
          /\ con.map \in Terminals \cup {VIDEO}
          /\ con.frames \in [Terminals \cup {VIDEO} -> SUBSET Terminals]
          /\ con.flag \in [Terminals -> BOOLEAN] /\ con.exe \in con.active
          /\ reading \in [Terminals -> Sizes \cup {0}]
          /\ con.ask \in [Terminals -> Nat] /\ con.cmds \in [Terminals -> Seq(Seq(Chars))]
        BY DEF TermInv, ViewInv, ReadInv, Console, Frames
    <2>2. ASSUME NEW t \in Terminals
          PROVE  /\ It(con, t) <= BUFFER_SIZE
                 /\ Len(con.cmds[t]) <= MaxReads /\ con.ask[t] \in 0 .. Len(con.cmds[t])
        <3>1. con.ask[t] \in Nat /\ Len(con.cmds[t]) \in Nat /\ LineInv(t)
            BY <2>1 DEF TermInv, ReadInv
        <3> QED
            BY <3>1 DEF LineInv
    <2>3. waits \subseteq {t \in Readers : reading[t] # 0}
        BY DEF TermInv, ReadInv, LineInv
    <2> QED
        BY <2>1, <2>2, <2>3 DEF TypeOK
<1> QED
    BY <1>1, Invariant, PTL

-----------------------------------------------------------------------------
(* terminal_read implements Lines *)

\* What Lines sees stays, where neither the readers nor what they read change.
LEMMA SameLines ==
    ASSUME reading' = reading, waits' = waits, got' = got, con'.cmds = con.cmds,
           \A t \in Terminals : reading[t] # 0 => con'.buf[t] = con.buf[t],
           \A t \in waits : con'.flag[t] = con.flag[t]
    PROVE  /\ edited' = edited /\ complete' = complete /\ given' = given
           /\ recalled' = recalled
<1>1. edited' = edited
    BY DEF edited
<1>2. complete' = complete
    BY DEF complete, Ready
<1>3. given' = given
    BY DEF given
<1>4. recalled' = recalled
    BY DEF recalled, Texts
<1> QED
    BY <1>1, <1>2, <1>3, <1>4

LEMMA InitRefines == Init => L!Init
<1> SUFFICES ASSUME Init PROVE L!Init
    OBVIOUS
<1>1. /\ con.using = 0 /\ reading = [t \in Terminals |-> 0] /\ got = [t \in Terminals |-> <<>>]
      /\ con.cmds = [t \in Terminals |-> <<>>]
    BY DEF Init
<1>2. edited = [t \in Terminals |-> <<>>]
    BY <1>1 DEF edited
<1>3. complete = [t \in Terminals |-> FALSE]
    BY DEF Init, complete, Ready
<1>4. given = [t \in Terminals |-> <<>>]
    BY <1>1, TextGrows DEF given
<1>5. recalled = [t \in Terminals |-> <<>>]
    <2>1. ASSUME NEW t \in Terminals PROVE Texts(con.cmds[t]) = <<>>
        <3>1. DOMAIN con.cmds[t] = {}
            BY <1>1
        <3> QED
            BY <3>1 DEF Texts
    <2> QED
        BY <2>1 DEF recalled
<1> QED
    BY <1>1, <1>2, <1>3, <1>4, <1>5 DEF L!Init

\* A key that edits the line is an Edit, or nothing while nobody reads.
LEMMA EditRefines ==
    ASSUME TermInv, AnyUser = FALSE, NEW c, EditEffect(con, c), FitsBuffer(c), Type(c)
    PROVE  [L!Next]_(L!vars)
<1> DEFINE t == con.using
           l == Text(c.buf[t])
<1>1. /\ con' = c /\ reading' = reading /\ waits' = waits /\ got' = got /\ ~Ready(con, t)
      /\ It(c, c.using) <= BUFFER_SIZE - 2
    BY DEF Type, Press, FitsBuffer, MayType
<1>2. /\ t \in Terminals /\ con.buf \in [Terminals -> Seq(Chars)]
      /\ c \in Console /\ SameView(con, c) /\ c.flag = con.flag
      /\ c.buf = [con.buf EXCEPT ![t] = c.buf[t]]
    BY InvSettles DEF Console, EditEffect
<1>3. \A u \in Terminals \ {t} : con'.buf[u] = con.buf[u]
    BY <1>1, <1>2
<1>4. con'.cmds = con.cmds /\ con'.using = con.using /\ con'.flag = con.flag
    BY <1>1, <1>2 DEF SameView
<1>5. CASE reading[t] = 0
    <2>1. \A u \in Terminals : reading[u] # 0 => con'.buf[u] = con.buf[u]
        BY <1>3, <1>5
    <2> QED
        BY <1>1, <1>4, <2>1, SameLines DEF L!vars
<1>6. CASE reading[t] # 0
    <2>1. edited' = [edited EXCEPT ![t] = l] /\ edited[t] = Text(con.buf[t])
        BY <1>1, <1>2, <1>3, <1>6 DEF edited
    <2>2. complete' = complete /\ given' = given /\ recalled' = recalled
        BY <1>1, <1>4 DEF complete, Ready, given, recalled, Texts
    <2>3. l \in L!Edits(edited[t], recalled[t])
        <3>1. It(c, t) \in Nat /\ BUFFER_SIZE \in Nat /\ c.using = t
            BY <1>2, TermAssumption DEF It, Console, SameView
        <3>2. It(c, t) < BUFFER_SIZE - 1
            BY <1>1, <3>1
        <3>3. l \in L!Edits(Text(con.buf[t]), Texts(con.cmds[t]))
            BY <3>2 DEF EditEffect
        <3>4. recalled[t] = Texts(con.cmds[t])
            BY <1>2 DEF recalled
        <3> QED
            BY <2>1, <3>3, <3>4
    <2>4. ~complete[t]
        BY <1>1, <1>2 DEF complete
    <2>5. L!Edit(t)
        BY <1>1, <1>4, <1>6, <2>1, <2>2, <2>3, <2>4 DEF L!Edit
    <2> QED
        BY <1>2, <2>5 DEF L!Next
<1> QED
    BY <1>5, <1>6

\* Enter is Complete, or nothing.
LEMMA EnterRefines ==
    ASSUME TermInv, AnyUser = FALSE, Enter
    PROVE  [L!Next]_(L!vars)
<1> DEFINE t == con.using
           c == TerminalDisplay(con, ENTER)
           b == con.buf[t]
           s == Append(Append(b, ENTER), STALE)
<1>1. /\ con \in Console /\ t \in Terminals /\ con.buf \in [Terminals -> Seq(Chars)]
      /\ con.flag \in [Terminals -> BOOLEAN] /\ b \in Seq(Chars)
    BY InvSettles DEF Console
<1>2. EnterEffect(con, c)
    BY <1>1, Entering
<1>3. /\ con' = c /\ reading' = reading /\ waits' = waits /\ got' = got
      /\ t \in waits \/ reading[t] = 0
    BY DEF Enter, Type, Press, MayEnter
<1> HIDE DEF c
<1>4. CASE It(con, t) >= BUFFER_SIZE
    <2>1. con' = con
        BY <1>2, <1>3, <1>4 DEF EnterEffect
    <2> QED
        BY <1>3, <2>1, SameLines DEF L!vars
<1>5. CASE ~(It(con, t) >= BUFFER_SIZE)
    <2>1. /\ SameView(con, con') /\ con'.buf = [con.buf EXCEPT ![t] = s]
          /\ con'.flag = [con.flag EXCEPT ![t] = TRUE]
        BY <1>2, <1>3, <1>5 DEF EnterEffect, KeyEffect
    <2>2. /\ con'.cmds = con.cmds /\ con'.using = con.using
          /\ \A u \in Terminals \ {t} : con'.buf[u] = con.buf[u] /\ con'.flag[u] = con.flag[u]
        BY <1>1, <2>1 DEF SameView
    <2>3. CASE reading[t] = 0
        <3>1. /\ \A u \in Terminals : reading[u] # 0 => con'.buf[u] = con.buf[u]
              /\ \A u \in waits : u \in Terminals /\ reading[u] # 0
            BY <2>2, <2>3 DEF TermInv, ReadInv, LineInv
        <3> QED
            BY <1>3, <2>2, <2>3, <3>1, SameLines DEF L!vars
    <2>4. CASE reading[t] # 0
        <3>1. Text(s) = Text(b)
            <4>1. ENTER \in Chars /\ STALE \in Chars
                BY DEF Chars
            <4>2. Text(Append(b, ENTER)) = Text(b) /\ Append(b, ENTER) \in Seq(Chars)
                BY <1>1, <4>1, TextGrows DEF Grown
            <4> QED
                BY <4>1, <4>2, TextGrows DEF Grown
        <3>2. con'.buf[t] = s /\ con'.flag[t]
            BY <1>1, <2>1
        <3>3. edited' = edited
            <4>1. \A u \in Terminals : Text(con'.buf[u]) = Text(con.buf[u])
                BY <2>2, <3>1, <3>2
            <4> QED
                BY <1>3, <4>1 DEF edited
        <3>4. complete' = [complete EXCEPT ![t] = TRUE]
            <4>1. ASSUME NEW u \in Terminals
                  PROVE  complete'[u] = [complete EXCEPT ![t] = TRUE][u]
                BY <1>3, <2>2, <2>4, <3>2 DEF complete, Ready
            <4> QED
                BY <4>1 DEF complete
        <3>5. given' = given /\ recalled' = recalled
            BY <1>3, <2>2 DEF given, recalled, Texts
        <3>6. L!Complete(t)
            BY <1>3, <2>2, <2>4, <3>3, <3>4, <3>5 DEF L!Complete
        <3> QED
            BY <1>1, <3>6 DEF L!Next
    <2> QED
        BY <2>3, <2>4
<1> QED
    BY <1>4, <1>5

\* Ctrl-L, the clock and the output of a process are no steps of Lines.
LEMMA ClearRefines ==
    ASSUME TermInv, AnyUser = FALSE, ControlL
    PROVE  UNCHANGED L!vars
    BY ClearKeeps, SameLines DEF L!vars

LEMMA TickRefines ==
    ASSUME TermInv, Tick
    PROVE  UNCHANGED L!vars
    BY TickView, SameLines DEF ScheduleEffect, L!vars, TermInv

LEMMA WriteRefines ==
    ASSUME TermInv, Write
    PROVE  UNCHANGED L!vars
    BY WriteView, SameLines DEF PutcEffect, SameView, L!vars, TermInv

\* The switch of terminals is Show.
LEMMA SwitchRefines ==
    ASSUME TermInv, NEW t \in Terminals, TerminalSwitch(t)
    PROVE  L!Next
<1>1. SwitchEffect(con, con', t) /\ UNCHANGED <<reading, waits, got>>
    BY SwitchView DEF TermInv
<1>2. L!Show(t)
    BY <1>1, SameLines DEF SwitchEffect, L!Show
<1> QED
    BY <1>2 DEF L!Next

\* terminal_read up to the emptying of the buffer is Begin.
LEMMA BeginRefines ==
    ASSUME TermInv, ReadBegin
    PROVE  L!Next
<1> DEFINE t == con.exe
<1>1. /\ t \in Terminals /\ con \in Console /\ reading[t] = 0 /\ got' = got
      /\ con.buf \in [Terminals -> Seq(Chars)] /\ con.flag \in [Terminals -> BOOLEAN]
      /\ reading \in [Terminals -> Sizes \cup {0}] /\ LineInv(t) /\ t \notin waits
    BY InvSettles DEF TermInv, ReadInv, LineInv, Console, ReadBegin
<1>2. BeginEffect(t)
    BY <1>1, Beginning
<1>3. PICK n \in Sizes : reading' = [reading EXCEPT ![t] = n]
    BY <1>2 DEF BeginEffect
<1>4. /\ con'.using = con.using /\ con'.cmds = con.cmds /\ waits' = waits
      /\ con'.buf[t] = <<>> /\ con'.flag[t] = FALSE
      /\ \A u \in Terminals \ {t} : /\ con'.buf[u] = con.buf[u] /\ con'.flag[u] = con.flag[u]
                                    /\ reading'[u] = reading[u]
    BY <1>1, <1>2, <1>3 DEF BeginEffect, SameScreen
<1>5. edited' = edited
    <2>1. ASSUME NEW u \in Terminals PROVE edited'[u] = edited[u]
        <3>1. CASE u = t
            <4>1. Text(con'.buf[u]) = <<>>
                BY <1>4, <3>1, TextGrows
            <4> QED
                BY <1>1, <3>1, <4>1 DEF edited
        <3>2. CASE u # t
            BY <1>4, <3>2 DEF edited
        <3> QED
            BY <3>1, <3>2
    <2> QED
        BY <2>1 DEF edited
<1>6. complete' = complete
    <2>1. ASSUME NEW u \in Terminals PROVE complete'[u] = complete[u]
        <3>1. CASE u = t
            BY <1>1, <1>4, <3>1 DEF complete, Ready
        <3>2. CASE u # t
            BY <1>4, <3>2 DEF complete, Ready
        <3> QED
            BY <3>1, <3>2
    <2> QED
        BY <2>1 DEF complete
<1>7. given' = given /\ recalled' = recalled
    BY <1>1, <1>4 DEF given, recalled, Texts
<1>8. L!Begin(t)
    BY <1>1, <1>3, <1>4, <1>5, <1>6, <1>7 DEF L!Begin
<1> QED
    BY <1>1, <1>8 DEF L!Next

\* The second reset of the flag is no step of Lines.
LEMMA WaitRefines ==
    ASSUME TermInv, ReadWaits
    PROVE  UNCHANGED L!vars
<1>1. con.exe \in Terminals /\ WaitEffect(con.exe)
    BY InvSettles, Waiting DEF WaitEffect
<1>2. complete' = complete
    <2>1. \A t \in Terminals : complete'[t] = complete[t]
        <3> SUFFICES ASSUME NEW t \in Terminals PROVE Ready(con, t)' = Ready(con, t)
            BY DEF complete
        <3>1. Ready(con, t)' <=> Ready(con, t)
            BY WaitStep
        <3>2. Ready(con, t)' \in BOOLEAN /\ Ready(con, t) \in BOOLEAN
            BY DEF Ready
        <3> QED
            BY <3>1, <3>2
    <2> QED
        BY <2>1 DEF complete
<1>3. edited' = edited /\ given' = given /\ recalled' = recalled
    BY <1>1 DEF WaitEffect, edited, given, recalled, Texts
<1> QED
    BY <1>1, <1>2, <1>3 DEF WaitEffect, SameScreen, L!vars

\* The text of a complete line ends before its newline.
LEMMA EndedText ==
    ASSUME NEW s \in Seq(Chars), Ended(s)
    PROVE  /\ Len(s) - 1 \in 0 .. Len(s) /\ Text(Prefix(s, Len(s) - 1)) = Text(s)
           /\ Len(s) - 2 \in 0 .. Len(s) /\ Text(Prefix(s, Len(s) - 2)) = Text(s)
<1> DEFINE n == Len(s) - 1
           m == Len(s) - 2
<1>1. /\ Len(s) \in Nat /\ n \in 0 .. Len(s) - 1 /\ m \in 0 .. Len(s) - 1
      /\ n + 1 = Len(s) /\ m + 1 = n /\ n \in 0 .. Len(s) /\ m \in 0 .. Len(s)
    BY DEF Ended
<1>2. s[n] = ENTER /\ s[n + 1] = STALE
    BY <1>1 DEF Ended
<1> HIDE DEF n, m
<1>3. Prefix(s, n + 1) = Append(Prefix(s, n), STALE) /\ Prefix(s, n) = Append(Prefix(s, m), ENTER)
    BY <1>1, <1>2, PrefixNext
<1>4. Prefix(s, n) \in Seq(Chars) /\ Prefix(s, m) \in Seq(Chars)
    BY <1>1, PrefixFacts
<1>5. Prefix(s, n + 1) = s
    BY <1>1, PrefixFull
<1>6. ENTER \in Chars /\ STALE \in Chars
    BY DEF Chars
<1>7. Text(s) = Text(Prefix(s, n))
    BY <1>3, <1>4, <1>5, <1>6, TextGrows DEF Grown
<1>8. Text(Prefix(s, n)) = Text(Prefix(s, m))
    BY <1>3, <1>4, <1>6, TextGrows DEF Grown
<1> QED
    BY <1>1, <1>7, <1>8 DEF n, m

\* The texts of a history to which s was added.
LEMMA PastGrows ==
    ASSUME NEW q \in Seq(Seq(Chars)), NEW s \in Seq(Chars)
    PROVE  Texts(Append(q, s)) = Append(Texts(q), Text(s))
<1> DEFINE r == Append(q, s)
           p == Texts(q)
           a == Texts(r)
           N == Len(q)
<1>1. /\ r \in Seq(Seq(Chars)) /\ N \in Nat /\ Len(r) = N + 1 /\ r[N + 1] = s
      /\ \A i \in 1 .. N : r[i] = q[i]
      /\ DOMAIN q = 1 .. N /\ DOMAIN r = 1 .. N + 1
    OBVIOUS
<1>2. \A v \in Seq(Chars) : Text(v) \in Seq(Chars)
    BY TextGrows
<1>3. p \in Seq(Seq(Chars)) /\ Len(p) = N
    <2>1. p \in [1 .. N -> Seq(Chars)]
        BY <1>1, <1>2 DEF Texts
    <2> HIDE DEF p, N
    <2> QED
        BY <1>1, <2>1, SeqDef
<1>4. a \in Seq(Seq(Chars)) /\ Len(a) = N + 1
    <2>1. a \in [1 .. N + 1 -> Seq(Chars)]
        BY <1>1, <1>2 DEF Texts
    <2> HIDE DEF a, N
    <2> QED
        BY <1>1, <2>1, SeqDef
<1>5. Text(s) \in Seq(Chars)
    BY <1>2
<1>6. /\ \A i \in 1 .. N : p[i] = Text(q[i])
      /\ \A i \in 1 .. N + 1 : a[i] = Text(r[i])
    BY <1>1 DEF Texts
<1> HIDE DEF p, a, r
<1>7. /\ Append(p, Text(s)) \in Seq(Seq(Chars)) /\ Len(Append(p, Text(s))) = N + 1
      /\ \A i \in 1 .. N : Append(p, Text(s))[i] = p[i]
      /\ Append(p, Text(s))[N + 1] = Text(s)
    BY <1>3, <1>5
<1>8. \A i \in 1 .. N + 1 : a[i] = Append(p, Text(s))[i]
    <2>1. ASSUME NEW i \in 1 .. N + 1 PROVE a[i] = Append(p, Text(s))[i]
        <3>1. CASE i = N + 1
            BY <1>1, <1>6, <1>7, <3>1
        <3>2. CASE i # N + 1
            <4>1. i \in 1 .. N
                BY <1>1, <3>2
            <4> QED
                BY <1>1, <1>6, <1>7, <4>1
        <3> QED
            BY <3>1, <3>2
    <2> QED
        BY <2>1
<1>9. a = Append(p, Text(s))
    BY <1>4, <1>7, <1>8, SeqEqual
<1> QED
    BY <1>9 DEF a, p, r

\* What is copied to the reader is a beginning of its line, and the whole line if
\* the reader asks for a whole buffer.
LEMMA ReturnedLine ==
    ASSUME TermInv, NEW m, NEW t \in Terminals, ReturnEffect(t, m)
    PROVE  \E n \in 0 .. Len(Text(con.buf[t])) :
              /\ reading[t] = BUFFER_SIZE => n = Len(Text(con.buf[t]))
              /\ Text(Prefix(con.buf[t], m)) = Prefix(Text(con.buf[t]), n)
<1> DEFINE b == con.buf[t]
<1>1. /\ t \in Terminals /\ b \in Seq(Chars) /\ It(con, t) = Len(b) /\ Ended(b)
      /\ m = LeastOf(reading[t], Len(b) - 1) /\ Ready(con, t) /\ Len(b) \in Nat
      /\ Len(b) >= 2 /\ Len(b) <= BUFFER_SIZE /\ BUFFER_SIZE \in Nat
    BY InvSettles, TermAssumption, SMTT(30) DEF Settled, Console, ReturnEffect, It, Ended
<1>2. reading[t] \in Nat \ {0}
    BY <1>1, TermAssumption DEF TermInv, ReadInv, LineInv, Ready
<1> HIDE DEF b
<1>3. Text(b) \in Seq(Chars)
    BY <1>1, TextGrows
<1>4. CASE reading[t] = BUFFER_SIZE
    <2>1. m = Len(b) - 1
        BY <1>1, <1>4 DEF LeastOf
    <2>2. Text(Prefix(b, m)) = Text(b)
        BY <1>1, <2>1, EndedText
    <2>3. Prefix(Text(b), Len(Text(b))) = Text(b) /\ Len(Text(b)) \in 0 .. Len(Text(b))
        BY <1>3, PrefixFull
    <2> QED
        BY <2>2, <2>3 DEF b
<1>5. CASE reading[t] # BUFFER_SIZE
    <2>1. m \in 0 .. Len(b)
        BY <1>1, <1>2 DEF LeastOf
    <2> QED
        BY <1>1, <1>5, <2>1, TextOfPrefix DEF b
<1> QED
    BY <1>4, <1>5

\* terminal_read after its wait is Return.
LEMMA ReturnRefines ==
    ASSUME TermInv, ReadReturn
    PROVE  L!Next
<1> DEFINE t == con.exe
           b == con.buf[t]
           s == Prefix(b, It(con, t) - 2)
<1>1. PICK m : ReturnEffect(t, m)
    BY Returning
<1>2. /\ t \in Terminals /\ con.cmds \in [Terminals -> Seq(Seq(Chars))]
      /\ con.cmds[t] \in Seq(Seq(Chars)) /\ b \in Seq(Chars) /\ It(con, t) = Len(b)
      /\ reading \in [Terminals -> Sizes \cup {0}] /\ got \in [Terminals -> Seq(Chars)]
    BY InvSettles DEF TermInv, ReadInv, Console, It
<1>3. /\ Ready(con, t) /\ Ended(b) /\ con'.using = con.using /\ con'.flag = con.flag
      /\ con'.cmds = [con.cmds EXCEPT ![t] = Append(@, s)]
      /\ \A u \in Terminals \ {t} : con'.buf[u] = con.buf[u]
      /\ reading' = [reading EXCEPT ![t] = 0] /\ waits' = waits \ {t}
      /\ got' \in [Terminals -> Seq(Chars)] /\ got' = [got EXCEPT ![t] = got'[t]]
      /\ t = con.using => got'[t] = Prefix(b, m)
    BY <1>1 DEF ReturnEffect, GiveEffect, SameScreen
<1>4. s \in Seq(Chars) /\ Text(s) = Text(b)
    <2>1. Len(b) - 2 \in 0 .. Len(b) /\ Text(Prefix(b, Len(b) - 2)) = Text(b)
        BY <1>2, <1>3, EndedText
    <2> QED
        BY <1>2, <2>1, PrefixFacts
<1>5. PICK n \in 0 .. Len(Text(b)) : /\ reading[t] = BUFFER_SIZE => n = Len(Text(b))
                                     /\ Text(Prefix(b, m)) = Prefix(Text(b), n)
    BY <1>1, <1>2, ReturnedLine
<1> HIDE DEF b, s
<1>6. edited[t] = Text(b) /\ complete[t] /\ reading[t] # 0
    BY <1>2, <1>3 DEF edited, complete, Ready, b, TermInv, ReadInv, LineInv
<1>7. given' = [given EXCEPT ![t] = given'[t]] /\ given'[t] = Text(got'[t])
    <2>1. \A u \in Terminals \ {t} : got'[u] = got[u]
        BY <1>2, <1>3
    <2>2. \A u \in Terminals \ {t} : given'[u] = given[u]
        BY <2>1 DEF given
    <2> QED
        BY <1>2, <2>2 DEF given
<1>8. L!Gives(t, given'[t])
    BY <1>3, <1>5, <1>6, <1>7 DEF L!Gives, Prefix
<1>9. recalled' = [recalled EXCEPT ![t] = Append(@, edited[t])]
    <2>1. /\ con'.cmds[t] = Append(con.cmds[t], s)
          /\ \A u \in Terminals \ {t} : con'.cmds[u] = con.cmds[u]
        BY <1>2, <1>3
    <2>2. Texts(con'.cmds[t]) = Append(Texts(con.cmds[t]), Text(s))
        BY <1>2, <1>4, <2>1, PastGrows
    <2>3. \A u \in Terminals \ {t} : Texts(con'.cmds[u]) = Texts(con.cmds[u])
        BY <2>1
    <2>4. ASSUME NEW u \in Terminals
          PROVE  recalled'[u] = [recalled EXCEPT ![t] = Append(@, edited[t])][u]
        BY <1>2, <1>4, <1>6, <2>2, <2>3 DEF recalled
    <2> QED
        BY <2>4 DEF recalled
<1>10. edited' = [edited EXCEPT ![t] = <<>>]
    <2>1. ASSUME NEW u \in Terminals PROVE edited'[u] = [edited EXCEPT ![t] = <<>>][u]
        BY <1>2, <1>3 DEF edited
    <2> QED
        BY <2>1 DEF edited
<1>11. complete' = [complete EXCEPT ![t] = FALSE]
    <2>1. ASSUME NEW u \in Terminals PROVE complete'[u] = [complete EXCEPT ![t] = FALSE][u]
        BY <1>2, <1>3 DEF complete, Ready
    <2> QED
        BY <2>1 DEF complete
<1>12. L!Return(t)
    BY <1>3, <1>6, <1>7, <1>8, <1>9, <1>10, <1>11 DEF L!Return
<1> QED
    BY <1>2, <1>12 DEF L!Next

\* The terminals implement Lines: whatever the processes of other terminals print
\* and however the clock switches between them, a process that reads is given, once
\* and while its terminal is displayed, the line its user edited since, and the
\* history holds the lines given; for a user who types nothing on a terminal whose
\* line is complete, keeps lines two short of the buffer, recalls only commands that
\* were not folded, and does not press Enter between a reader's two resets.
THEOREM ImplementsCorrect ==
    ASSUME AnyUser = FALSE
    PROVE  Spec => Implements
<1>1. TermInv /\ [Next]_vars => [L!Next]_(L!vars)
    <2> SUFFICES ASSUME TermInv, [Next]_vars PROVE [L!Next]_(L!vars)
        OBVIOUS
    <2>1. CASE TypeKey \/ Backspace \/ Recall
        BY <2>1, EditKeys, EditRefines
    <2>2. CASE Enter
        BY <2>2, EnterRefines
    <2>3. CASE ControlL
        BY <2>3, ClearRefines
    <2>4. CASE \E t \in Terminals : TerminalSwitch(t)
        BY <2>4, SwitchRefines
    <2>5. CASE Tick
        BY <2>5, TickRefines
    <2>6. CASE Write
        BY <2>6, WriteRefines
    <2>7. CASE ReadBegin
        BY <2>7, BeginRefines
    <2>8. CASE ReadWaits
        BY <2>8, WaitRefines
    <2>9. CASE ReadReturn
        BY <2>9, ReturnRefines
    <2>10. CASE UNCHANGED vars
        <3>1. con' = con /\ reading' = reading /\ waits' = waits /\ got' = got
            BY <2>10 DEF vars
        <3> QED
            BY <3>1, SameLines DEF L!vars
    <2> QED
        BY <2>1, <2>2, <2>3, <2>4, <2>5, <2>6, <2>7, <2>8, <2>9, <2>10 DEF Next, Key
<1> QED
    BY <1>1, InitRefines, Invariant, PTL DEF Spec, Implements, L!Spec
=============================================================================
