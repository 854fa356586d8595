---------------------------- MODULE ConsoleProofs ----------------------------
(***************************************************************************)
(* Proofs about a client's session, for every table of commands, every     *)
(* session of the form the client tools make, and whatever state another   *)
(* client left the firmware in.                                            *)
(*                                                                         *)
(* Until a transfer that was under way when the port was opened ends, the  *)
(* client is kept at its first empty line: nothing is executed and no      *)
(* prompt is said (Foreign).  From then on the firmware takes the lines of *)
(* the session in order (Own): the characters under way are what is left   *)
(* of at most two of them, the buffer holds the start of the first, and    *)
(* the prompts under way are later than the last one the client took.      *)
(***************************************************************************)
EXTENDS Console, SequenceTheorems, TLAPS

Ctl   == {"CAN", "ETX"}
Chars == STRING \union Ctl \union {"CR", "LF"}
Xfer  == {"READY", "NAK", "CTRL+C to cancel."}
Items == [what : Xfer \union {"prompt", "text", "ERROR", "FLASH", "ROM", "ACK"}, at : Nat]

\* The session s, of a aborts, opens with b steps.  Its lines:
Line(s, a, k) == s[a + k].line

\* The characters that follow the first c lines: the line feed of the last of
\* them, then two more lines; and where n lines sent end.
At(s, a, c, j) ==
    LET u == Len(Line(s, a, c+1))
        v == Len(Line(s, a, c+2))
    IN  IF j = 0 THEN "LF"
        ELSE IF j <= u THEN Line(s, a, c+1)[j]
        ELSE IF j = u+1 THEN "CR"
        ELSE IF j = u+2 THEN "LF"
        ELSE IF j <= u+2+v THEN Line(s, a, c+2)[j-u-2]
        ELSE IF j = u+v+3 THEN "CR" ELSE "LF"
Total(s, a, c, n) ==
    IF n = c THEN 0
    ELSE IF n = c+1 THEN Len(Line(s, a, c+1)) + 2
    ELSE Len(Line(s, a, c+1)) + Len(Line(s, a, c+2)) + 4

\* q is m characters of aborts, and the rest of n lines sent, of which c were
\* taken, from the p-th character on.
Stream(s, a, c, n, m, p, q) ==
    /\ q \in Seq(Chars)
    /\ Len(q) = m + Total(s, a, c, n) + 1 - p
    /\ \A i \in 1..Len(q) : i <= m => q[i] \in Ctl
    /\ \A i \in 1..Len(q) : i > m => q[i] = At(s, a, c, p+i-1-m)

\* The commands among the first c lines.
Done(s, a, b, c) == [k \in 1..(IF a+c <= b THEN 0 ELSE a+c-b) |-> s[b+k].line]

\* Answers under way when ln lines were ended: prompts in order, from base on;
\* nothing of a transfer, but what is before the first prompt, as long as the
\* client took none, and the answer to the last line, once it was taken.
QueueOK(q, ln, base, first, final) ==
    /\ q \in Seq(Items)
    /\ \A i \in 1..Len(q) :
          /\ q[i].at <= ln
          /\ q[i].what = "prompt" => q[i].at >= base
          /\ q[i].what \in Xfer =>
                IF first THEN \A j \in 1..Len(q) : j < i => q[j].what # "prompt"
                         ELSE final /\ q[i].at = ln
    /\ \A i, j \in 1..Len(q) :
          i < j /\ q[i].what = "prompt" /\ q[j].what = "prompt" => q[i].at < q[j].at

Queue == inbuf \o wire
NoPrompt(q) == \A i \in 1..Len(q) : q[i].what # "prompt"
NoCommand(line) == \A k \in DOMAIN Commands : ~IsPrefix(Commands[k], line)

\* Where the client is after n lines.
AtLine(s, a, n) ==
    /\ client \in {"idle", "reading", "raised"}
    /\ sent = n /\ step \in Nat /\ step >= 1
    /\ client = "reading" => n >= 1 /\ step = a+n
    /\ client # "reading" /\ n >= 1 => step = a+n+1
    /\ n = 0 => client = "idle" /\ step <= a+1
    /\ client = "raised" => step <= Len(s)

Plain ==
    /\ mode \in Modes /\ found \in InitModes
    /\ datpos \in 0..PktLen-1 /\ (mode # "uxrx" => datpos = 0)
    /\ waits \in 0..MaxNaks-1
    /\ inbuf \in Seq(Items) /\ wire \in Seq(Items)

\* In a transfer that another client began.
Foreign(s, a, b, n, m, p) ==
    /\ script = s /\ found # "cmd" /\ mode # "cmd"
    /\ lines = 0 /\ answered = 0 /\ executed = <<>> /\ cmdbuf = <<>>
    /\ n \in {0, 1} /\ AtLine(s, a, n) /\ (n = 1 => client = "reading")
    /\ m \in Nat /\ p \in 1..3 /\ (p > 1 => m = 0 /\ n = 1)
    /\ Stream(s, a, 0, n, m, p, rx)
    /\ QueueOK(Queue, 0, 0, TRUE, FALSE) /\ NoPrompt(Queue)

First(a) == step <= a+1
Base(s, a) == IF step > Len(s) THEN 0
              ELSE IF First(a) /\ found # "cmd" THEN answered ELSE answered + 1

\* The client, when c of the n lines it sent were taken.
Talk(s, a, c, n) ==
    /\ script = s
    /\ n \in Nat /\ AtLine(s, a, n) /\ n <= Len(s) - a
    /\ answered \in Nat /\ answered <= lines
    /\ n <= answered + (IF client = "reading" THEN 1 ELSE 0) + (IF found = "cmd" THEN 0 ELSE 1)
    /\ client = "idle" /\ step > Len(s) => c = Len(s) - a

\* What is left of these lines, and the buffer.
Text(s, a, c, n, m, p) ==
    /\ c \in Nat /\ c <= n /\ n <= c+2
    /\ m \in Nat /\ p \in Nat
    /\ c = 0 => p = 1
    /\ c > 0 => m = 0
    /\ p <= IF n = c THEN 1 ELSE Len(Line(s, a, c+1)) + 1
    /\ Stream(s, a, c, n, m, p, rx)
    /\ cmdbuf \in Seq(Chars) /\ Len(cmdbuf) < CmdBufSize
    /\ c = 0 => NoCommand(cmdbuf)
    /\ c > 0 => /\ Len(cmdbuf) = IF p = 0 THEN 0 ELSE p-1
                /\ \A i \in 1..Len(cmdbuf) : cmdbuf[i] = Line(s, a, c+1)[i]

\* The firmware: a line may have been lost to a transfer.
Taken(s, a, b, c) ==
    /\ executed = Done(s, a, b, c)
    /\ IF c = Len(s) - a THEN mode \in {"dxstart", "uxwait"} ELSE mode = "cmd"
    /\ lines \in Nat /\ lines <= c /\ c <= lines+1
    /\ found = "cmd" => lines = c

\* The answers.
Said(s, a, c) ==
    /\ QueueOK(Queue, lines, Base(s, a), First(a), c = Len(s) - a)
    /\ c = Len(s) - a /\ client = "reading" =>
          \E i \in 1..Len(Queue) : Queue[i].what = s[Len(s)].ender

\* Taking the lines of the session.
Own(s, a, b, c, n, m, p) ==
    Talk(s, a, c, n) /\ Text(s, a, c, n, m, p) /\ Taken(s, a, b, c) /\ Said(s, a, c)

Inv ==
    /\ Plain
    /\ \E a, b \in 0..Len(script) :
          /\ SessionOf(script, a, b)
          /\ \/ \E n, m, p \in Nat : Foreign(script, a, b, n, m, p)
             \/ \E c, n, m, p \in Nat : Own(script, a, b, c, n, m, p)


(***************************************************************************)
(* What a session says.                                                    *)
(***************************************************************************)
Session(s, a, b) == a \in 0..Len(s) /\ b \in 0..Len(s) /\ SessionOf(s, a, b)

LEMMA Shape ==
    ASSUME NEW s, NEW a, NEW b, Session(s, a, b)
    PROVE  /\ a \in Nat /\ b \in Nat /\ Len(s) \in Nat /\ a < b /\ b < Len(s)
           /\ Len(s) - a \in Nat /\ Len(s) - a >= 2
<1>1. a \in 0..Len(s) /\ b \in 0..Len(s) /\ a < b /\ b < Len(s)
  BY Zenon DEF Session, SessionOf
<1>2. \/ Len(s) \in Nat
      \/ Len(s) \notin Nat
  OBVIOUS
<1> QED
  BY <1>1

LEMMA LineText ==
    ASSUME NEW s, NEW a, NEW b, Session(s, a, b), NEW k \in 1..Len(s)-a
    PROVE  /\ Line(s, a, k) \in Seq(Chars) /\ Len(Line(s, a, k)) < CmdBufSize
           /\ Len(Line(s, a, k)) \in Nat
           /\ \A i \in 1..Len(Line(s, a, k)) :
                 Line(s, a, k)[i] \notin {"CAN", "ETX", "CR", "LF"}
           /\ a+k <= b => Line(s, a, k) = <<>>
           /\ a+k > b => IsCommand(Line(s, a, k))
           /\ k = 1 => Line(s, a, k) = <<>>
<1>1. /\ a \in Nat /\ b \in Nat /\ Len(s) \in Nat /\ a < b /\ b < Len(s)
  BY Shape
<1>2. a+k \in 1..Len(s) /\ a+k >= a+1
  BY <1>1
<1>3. CASE a+k <= b
  <2>1. a+k \in a+1..b
    BY <1>1, <1>2, <1>3
  <2>2. Line(s, a, k) = <<>>
    BY <2>1 DEF Session, SessionOf, Line
  <2> QED
    BY <2>2, <1>1, <1>3, ConsoleAssumption
<1>4. CASE a+k > b
  <2>1. a+k \in b+1..Len(s)
    BY <1>1, <1>2, <1>4
  <2>2. IsCommand(Line(s, a, k))
    BY <2>1 DEF Session, SessionOf, Line
  <2>3. \E h \in DOMAIN Commands : Commands[h] = Line(s, a, k)
    BY <2>2 DEF IsCommand
  <2>4. PICK h \in DOMAIN Commands : Commands[h] = Line(s, a, k)
    BY <2>3
  <2>5. Commands[h] \in Seq(Chars)
    <3>1. Commands[h] \in Seq(STRING)
      BY ConsoleAssumption
    <3>2. STRING \subseteq Chars
      BY DEF Chars
    <3> QED
      BY <3>1, <3>2, SeqMonotonic
  <2>6. \A i \in DOMAIN Commands[h] : Commands[h][i] \notin {"CAN", "ETX", "CR", "LF"}
    BY ConsoleAssumption
  <2>7. DOMAIN Line(s, a, k) = 1..Len(Line(s, a, k)) /\ Len(Line(s, a, k)) \in Nat
    BY <2>4, <2>5
  <2>8. Len(Line(s, a, k)) < CmdBufSize
    BY <2>2 DEF IsCommand
  <2>9. k # 1
    BY <1>1, <1>4
  <2> QED
    BY <2>2, <2>4, <2>5, <2>6, <2>7, <2>8, <2>9, <1>1, <1>4
<1> QED
  BY <1>1, <1>2, <1>3, <1>4


(***************************************************************************)
(* The characters under way, as the firmware takes one and the client      *)
(* sends some.                                                             *)
(***************************************************************************)
LEMMA Two ==
    ASSUME NEW S, NEW q \in Seq(S), NEW x \in S, NEW y \in S
    PROVE  /\ q \o <<x, y>> \in Seq(S) /\ Len(q \o <<x, y>>) = Len(q) + 2
           /\ \A i \in 1..Len(q) : (q \o <<x, y>>)[i] = q[i]
           /\ (q \o <<x, y>>)[Len(q) + 1] = x /\ (q \o <<x, y>>)[Len(q) + 2] = y
<1>1. <<x, y>> \in Seq(S) /\ Len(<<x, y>>) = 2
  OBVIOUS
<1>2. <<x, y>>[1] = x /\ <<x, y>>[2] = y
  OBVIOUS
<1>3. Len(q) \in Nat
  OBVIOUS
<1>4. q \o <<x, y>> \in Seq(S) /\ Len(q \o <<x, y>>) = Len(q) + 2
  BY <1>1
<1>5. \A i \in 1..Len(q) : (q \o <<x, y>>)[i] = q[i]
  BY <1>1
<1>6. \A j \in 1..2 : (q \o <<x, y>>)[Len(q) + j] = <<x, y>>[j]
  BY <1>1
<1> QED
  BY <1>2, <1>4, <1>5, <1>6

LEMMA TotalNat ==
    ASSUME NEW s, NEW a, NEW b, Session(s, a, b), NEW c \in Nat, NEW n \in Nat,
           c <= n, n <= c+2, n <= Len(s) - a
    PROVE  Total(s, a, c, n) \in Nat
<1>1. a \in Nat /\ Len(s) \in Nat
  BY Shape
<1>2. n >= c+1 => Len(Line(s, a, c+1)) \in Nat
  <2>1. n >= c+1 => c+1 \in 1..Len(s)-a
    BY <1>1
  <2> QED
    BY <2>1, LineText
<1>3. n >= c+2 => Len(Line(s, a, c+2)) \in Nat
  <2>1. n >= c+2 => c+2 \in 1..Len(s)-a
    BY <1>1
  <2> QED
    BY <2>1, LineText
<1> QED
  BY <1>2, <1>3 DEF Total

LEMMA StreamTail ==
    ASSUME NEW s, NEW a, NEW c, NEW n, NEW m \in Nat, NEW p \in Nat, NEW q,
           Total(s, a, c, n) \in Nat, Stream(s, a, c, n, m, p, q), q # <<>>
    PROVE  /\ Head(q) \in Chars
           /\ m > 0 => Head(q) \in Ctl /\ Stream(s, a, c, n, m-1, p, Tail(q))
           /\ m = 0 => Head(q) = At(s, a, c, p) /\ Stream(s, a, c, n, 0, p+1, Tail(q))
<1>1. /\ q \in Seq(Chars) /\ Len(q) = m + Total(s, a, c, n) + 1 - p
      /\ \A i \in 1..Len(q) : i <= m => q[i] \in Ctl
      /\ \A i \in 1..Len(q) : i > m => q[i] = At(s, a, c, p+i-1-m)
  BY DEF Stream
<1>2. /\ Len(q) \in Nat /\ Len(q) >= 1 /\ Tail(q) \in Seq(Chars) /\ Len(Tail(q)) = Len(q) - 1
      /\ \A i \in 1..Len(Tail(q)) : i+1 \in 1..Len(q) /\ Tail(q)[i] = q[i+1]
      /\ Head(q) = q[1] /\ 1 \in 1..Len(q) /\ q[1] \in Chars
  BY <1>1
<1>3. CASE m > 0
  <2>1. Head(q) \in Ctl
    BY <1>1, <1>2, <1>3
  <2>2. Len(Tail(q)) = m-1 + Total(s, a, c, n) + 1 - p
    BY <1>1, <1>2
  <2>3. \A i \in 1..Len(Tail(q)) : i <= m-1 => Tail(q)[i] \in Ctl
    BY <1>1, <1>2
  <2>4. ASSUME NEW i \in 1..Len(Tail(q)), i > m-1
        PROVE  Tail(q)[i] = At(s, a, c, p+i-1-(m-1))
    <3>1. i+1 \in 1..Len(q) /\ i+1 > m /\ p+(i+1)-1-m = p+i-1-(m-1)
      BY <1>2, <2>4
    <3> QED
      BY <3>1, <1>1, <1>2
  <2> QED
    BY <1>2, <1>3, <2>1, <2>2, <2>3, <2>4 DEF Stream
<1>4. CASE m = 0
  <2>1. Head(q) = At(s, a, c, p)
    <3>1. 1 > m /\ p+1-1-m = p
      BY <1>4
    <3> QED
      BY <3>1, <1>1, <1>2
  <2>2. Len(Tail(q)) = 0 + Total(s, a, c, n) + 1 - (p+1)
    BY <1>1, <1>2, <1>4
  <2>3. \A i \in 1..Len(Tail(q)) : i <= 0 => Tail(q)[i] \in Ctl
    BY <1>2
  <2>4. ASSUME NEW i \in 1..Len(Tail(q))
        PROVE  Tail(q)[i] = At(s, a, c, (p+1)+i-1-0)
    <3>1. i+1 \in 1..Len(q) /\ i+1 > m /\ p+(i+1)-1-m = (p+1)+i-1-0
      BY <1>2, <1>4
    <3> QED
      BY <3>1, <1>1, <1>2
  <2> QED
    BY <1>2, <1>4, <2>1, <2>2, <2>3, <2>4 DEF Stream
<1> QED
  BY <1>3, <1>4

LEMMA StreamLine ==
    ASSUME NEW s, NEW a, NEW b, Session(s, a, b), NEW c \in Nat, NEW n \in Nat,
           c < n, n <= c+2, n <= Len(s) - a, NEW q,
           Stream(s, a, c, n, 0, Len(Line(s, a, c+1)) + 2, q)
    PROVE  Stream(s, a, c+1, n, 0, 0, q)
<1> DEFINE u == Len(Line(s, a, c+1))
           v == Len(Line(s, a, c+2))
<1>1. a \in Nat /\ Len(s) \in Nat
  BY Shape
<1>2. u \in Nat
  <2>1. c+1 \in 1..Len(s)-a
    BY <1>1
  <2> QED
    BY <2>1, LineText
<1>3. n = c+2 => v \in Nat
  <2>1. n = c+2 => c+2 \in 1..Len(s)-a
    BY <1>1
  <2> QED
    BY <2>1, LineText
<1>4. c+1+1 = c+2
  OBVIOUS
<1>5. /\ q \in Seq(Chars) /\ Len(q) = 0 + Total(s, a, c, n) + 1 - (u+2)
      /\ \A i \in 1..Len(q) : i > 0 => q[i] = At(s, a, c, u+2+i-1-0)
  BY DEF Stream
<1>6. Total(s, a, c, n) = IF n = c+1 THEN u+2 ELSE u+v+4
  BY DEF Total
<1>7. Total(s, a, c+1, n) = IF n = c+1 THEN 0 ELSE v+2
  BY <1>4 DEF Total
<1>8. Len(q) = 0 + Total(s, a, c+1, n) + 1 - 0
  <2>1. CASE n = c+1
    BY <2>1, <1>2, <1>5, <1>6, <1>7
  <2>2. CASE n = c+2
    BY <2>2, <1>2, <1>3, <1>5, <1>6, <1>7
  <2> QED
    BY <2>1, <2>2
<1>9. ASSUME NEW i \in 1..Len(q)
      PROVE  q[i] = At(s, a, c+1, 0+i-1-0)
  <2>1. q[i] = At(s, a, c, u+1+i)
    <3>1. i > 0 /\ u+2+i-1-0 = u+1+i
      BY <1>2
    <3> QED
      BY <3>1, <1>5
  <2>2. 0+i-1-0 = i-1
    OBVIOUS
  <2>3. CASE i = 1
    <3>1. At(s, a, c+1, i-1) = "LF"
      BY <2>3 DEF At
    <3>2. At(s, a, c, u+1+i) = "LF"
      BY <2>3, <1>2 DEF At
    <3> QED
      BY <2>1, <2>2, <3>1, <3>2
  <2>4. CASE i > 1
    <3>1. n = c+2 /\ v \in Nat /\ i <= v+3
      BY <1>3, <1>7, <1>8, <2>4
    <3>2. At(s, a, c+1, i-1) =
             IF i-1 <= v THEN Line(s, a, c+2)[i-1] ELSE IF i-1 = v+1 THEN "CR" ELSE "LF"
      BY <3>1, <2>4, <1>4 DEF At
    <3>3. At(s, a, c, u+1+i) =
             IF u+1+i <= u+2+v THEN Line(s, a, c+2)[u+1+i-u-2]
             ELSE IF u+1+i = u+v+3 THEN "CR" ELSE "LF"
      BY <3>1, <2>4, <1>2 DEF At
    <3>4. u+1+i-u-2 = i-1 /\ (u+1+i <= u+2+v <=> i-1 <= v) /\ (u+1+i = u+v+3 <=> i-1 = v+1)
      BY <3>1, <1>2
    <3> QED
      BY <2>1, <2>2, <3>2, <3>3, <3>4
  <2> QED
    BY <2>3, <2>4
<1> QED
  BY <1>5, <1>8, <1>9 DEF Stream

LEMMA StreamAbort ==
    ASSUME NEW s, NEW a, NEW m \in Nat, NEW q, Stream(s, a, 0, 0, m, 1, q)
    PROVE  Stream(s, a, 0, 0, m+2, 1, q \o <<"CAN", "ETX">>)
<1> DEFINE r == q \o <<"CAN", "ETX">>
<1>1. /\ q \in Seq(Chars) /\ Len(q) = m /\ \A i \in 1..Len(q) : q[i] \in Ctl
  BY DEF Stream, Total
<1>2. /\ r \in Seq(Chars) /\ Len(r) = m+2 /\ \A i \in 1..m : r[i] = q[i]
      /\ r[m+1] = "CAN" /\ r[m+2] = "ETX"
  <2>1. "CAN" \in Chars /\ "ETX" \in Chars
    BY DEF Chars, Ctl
  <2>2. /\ r \in Seq(Chars) /\ Len(r) = Len(q)+2 /\ \A i \in 1..Len(q) : r[i] = q[i]
        /\ r[Len(q)+1] = "CAN" /\ r[Len(q)+2] = "ETX"
    BY <1>1, <2>1, Two
  <2> QED
    BY <1>1, <2>2
<1>3. \A i \in 1..m+2 : r[i] \in Ctl
  <2> SUFFICES ASSUME NEW i \in 1..m+2 PROVE r[i] \in Ctl
    OBVIOUS
  <2>1. i \in 1..m \/ i = m+1 \/ i = m+2
    OBVIOUS
  <2> QED
    BY <2>1, <1>1, <1>2 DEF Ctl
<1>4. Len(r) = m+2 + Total(s, a, 0, 0) + 1 - 1
  BY <1>2 DEF Total
<1> QED
  BY <1>2, <1>3, <1>4 DEF Stream

LEMMA StreamSend ==
    ASSUME NEW s, NEW a, NEW b, Session(s, a, b), NEW c \in Nat, NEW n \in Nat,
           c <= n, n <= c+1, n+1 <= Len(s) - a, NEW m \in Nat, NEW p \in Nat,
           p <= Total(s, a, c, n) + 1, NEW q, Stream(s, a, c, n, m, p, q)
    PROVE  Stream(s, a, c, n+1, m, p, q \o Line(s, a, n+1) \o <<"CR", "LF">>)
<1> DEFINE t == Line(s, a, n+1)
           w == Len(t)
           o == Total(s, a, c, n)
           r == q \o t \o <<"CR", "LF">>
<1>1. a \in Nat /\ Len(s) \in Nat
  BY Shape
<1>2. t \in Seq(Chars) /\ w \in Nat
  <2>1. n+1 \in 1..Len(s)-a
    BY <1>1
  <2> QED
    BY <2>1, LineText
<1>3. o \in Nat
  <2>1. n <= c+2 /\ n <= Len(s) - a
    BY <1>1
  <2> QED
    BY <2>1, TotalNat
<1>4. /\ q \in Seq(Chars) /\ Len(q) = m + o + 1 - p
      /\ \A i \in 1..Len(q) : i <= m => q[i] \in Ctl
      /\ \A i \in 1..Len(q) : i > m => q[i] = At(s, a, c, p+i-1-m)
  BY DEF Stream
<1>5. /\ r \in Seq(Chars) /\ Len(r) = Len(q) + w + 2
  <2>1. q \o t \in Seq(Chars) /\ Len(q \o t) = Len(q) + w
    BY <1>2, <1>4
  <2>2. "CR" \in Chars /\ "LF" \in Chars
    BY DEF Chars
  <2>3. r \in Seq(Chars) /\ Len(r) = Len(q \o t) + 2
    BY <2>1, <2>2, Two
  <2> QED
    BY <2>1, <2>3
<1>6. /\ \A i \in 1..Len(q) : r[i] = q[i]
      /\ \A j \in 1..w : r[Len(q) + j] = t[j]
      /\ r[Len(q) + w + 1] = "CR" /\ r[Len(q) + w + 2] = "LF"
  <2>1. q \o t \in Seq(Chars) /\ Len(q \o t) = Len(q) + w
    BY <1>2, <1>4
  <2>2. \A i \in 1..Len(q) : (q \o t)[i] = q[i]
    BY <1>2, <1>4
  <2>3. \A j \in 1..w : (q \o t)[Len(q) + j] = t[j]
    BY <1>2, <1>4
  <2>4. \A i \in 1..Len(q \o t) : r[i] = (q \o t)[i]
    BY <2>1, Two
  <2>5. r[Len(q \o t) + 1] = "CR" /\ r[Len(q \o t) + 2] = "LF"
    BY <2>1, Two
  <2>6. \A i \in 1..Len(q) : i \in 1..Len(q \o t)
    BY <2>1, <1>2, <1>4
  <2>7. \A j \in 1..w : Len(q) + j \in 1..Len(q \o t)
    BY <2>1, <1>2, <1>4
  <2> QED
    BY <2>1, <2>2, <2>3, <2>4, <2>5, <2>6, <2>7
<1>0. p <= o+1 /\ r = q \o Line(s, a, n+1) \o <<"CR", "LF">>
  OBVIOUS
<1>7. Total(s, a, c, n+1) = o + w + 2
  <2>1. CASE n = c
    BY <2>1, <1>2 DEF Total
  <2>2. CASE n = c+1
    <3>1. Len(Line(s, a, c+1)) \in Nat
      <4>1. c+1 \in 1..Len(s)-a
        BY <2>2, <1>1
      <4> QED
        BY <4>1, LineText
    <3>2. n+1 = c+2
      BY <2>2
    <3>3. t = Line(s, a, c+2)
      BY <3>2
    <3>4. o = Len(Line(s, a, c+1)) + 2
      BY <2>2 DEF Total
    <3>5. Total(s, a, c, n+1) = Len(Line(s, a, c+1)) + Len(Line(s, a, c+2)) + 4
      BY <3>2 DEF Total
    <3> QED
      BY <3>1, <3>3, <3>4, <3>5, <1>2
  <2> QED
    BY <2>1, <2>2
<1> HIDE DEF t, w, o, r
<1>8. Len(r) = m + Total(s, a, c, n+1) + 1 - p
  BY <1>2, <1>3, <1>4, <1>5, <1>7
<1>9. Len(q) >= m
  BY <1>0, <1>3, <1>4
<1>10. \A i \in 1..Len(r) : i <= m => r[i] \in Ctl
  <2> SUFFICES ASSUME NEW i \in 1..Len(r), i <= m PROVE r[i] \in Ctl
    OBVIOUS
  <2>1. i \in 1..Len(q)
    BY <1>4, <1>5, <1>9, <1>2
  <2> QED
    BY <2>1, <1>4, <1>6
<1>11. /\ \A j \in 1..w : At(s, a, c, o+j) = t[j]
       /\ At(s, a, c, o+w+1) = "CR" /\ At(s, a, c, o+w+2) = "LF"
  <2> USE DEF t, w, o
  <2>1. CASE n = c
    <3>1. o = 0 /\ t = Line(s, a, c+1)
      BY <2>1 DEF Total
    <3> QED
      BY <3>1, <1>2 DEF At
  <2>2. CASE n = c+1
    <3> DEFINE u == Len(Line(s, a, c+1))
    <3>1. u \in Nat
      <4>1. c+1 \in 1..Len(s)-a
        BY <2>2, <1>1
      <4> QED
        BY <4>1, LineText
    <3>2. n+1 = c+2
      BY <2>2
    <3>3. o = u+2 /\ t = Line(s, a, c+2)
      BY <2>2, <3>2 DEF Total
    <3>4. ASSUME NEW j \in 1..w PROVE At(s, a, c, o+j) = t[j]
      <4>1. /\ o+j # 0 /\ ~(o+j <= u) /\ o+j # u+1 /\ o+j # u+2 /\ o+j <= u+2+w
            /\ o+j-u-2 = j
        BY <3>1, <3>3, <1>2
      <4> QED
        BY <4>1, <3>3 DEF At
    <3>5. At(s, a, c, o+w+1) = "CR" /\ At(s, a, c, o+w+2) = "LF"
      BY <3>1, <3>3, <1>2 DEF At
    <3> QED
      BY <3>4, <3>5
  <2> QED
    BY <2>1, <2>2
<1>12. ASSUME NEW i \in 1..Len(r), i > m
       PROVE  r[i] = At(s, a, c, p+i-1-m)
  <2>1. CASE i <= Len(q)
    <3>1. i \in 1..Len(q)
      BY <2>1, <1>4, <1>5, <1>2
    <3> QED
      BY <3>1, <1>12, <1>4, <1>6
  <2>2. CASE i > Len(q)
    <3> DEFINE j == i - Len(q)
    <3>1. /\ j \in 1..w+2 /\ i = Len(q) + j /\ p+i-1-m = o+j
      BY <2>2, <1>2, <1>3, <1>4, <1>5
    <3> HIDE DEF j
    <3>2. CASE j <= w
      <4>1. j \in 1..w
        BY <3>1, <3>2, <1>2
      <4> QED
        BY <4>1, <3>1, <1>6, <1>11
    <3>3. CASE j = w+1
      <4>1. i = Len(q) + w + 1 /\ p+i-1-m = o+w+1
        BY <3>1, <3>3, <1>2, <1>3, <1>4
      <4> QED
        BY <4>1, <1>6, <1>11
    <3>4. CASE j = w+2
      <4>1. i = Len(q) + w + 2 /\ p+i-1-m = o+w+2
        BY <3>1, <3>4, <1>2, <1>3, <1>4
      <4> QED
        BY <4>1, <1>6, <1>11
    <3> QED
      BY <3>1, <3>2, <3>3, <3>4, <1>2
  <2> QED
    BY <2>1, <2>2, <1>4, <1>5, <1>2
<1> QED
  BY <1>0, <1>5, <1>8, <1>10, <1>12 DEF Stream


(***************************************************************************)
(* The table of commands.                                                  *)
(***************************************************************************)
LEMMA PrefixAt ==
    ASSUME NEW S, NEW u \in Seq(S), NEW T, NEW v \in Seq(T)
    PROVE  IsPrefix(u, v) <=> Len(u) <= Len(v) /\ \A i \in 1..Len(u) : u[i] = v[i]
<1>1. Len(u) \in Nat /\ Len(v) \in Nat
  OBVIOUS
<1>2. ASSUME Len(u) <= Len(v)
      PROVE  /\ Len(SubSeq(u, 1, Len(u))) = Len(u) /\ Len(SubSeq(v, 1, Len(u))) = Len(u)
             /\ \A i \in 1..Len(u) : SubSeq(u, 1, Len(u))[i] = u[i]
             /\ \A i \in 1..Len(u) : SubSeq(v, 1, Len(u))[i] = v[i]
             /\ SubSeq(u, 1, Len(u)) \in Seq(S \union T) /\ SubSeq(v, 1, Len(u)) \in Seq(S \union T)
  <2>1. u \in Seq(S \union T) /\ v \in Seq(S \union T)
    BY SeqMonotonic
  <2> QED
    BY <1>1, <1>2, <2>1
<1>3. IsPrefix(u, v) => Len(u) <= Len(v) /\ \A i \in 1..Len(u) : u[i] = v[i]
  BY <1>2 DEF IsPrefix
<1>4. ASSUME Len(u) <= Len(v), \A i \in 1..Len(u) : u[i] = v[i]
      PROVE  SubSeq(u, 1, Len(u)) = SubSeq(v, 1, Len(u))
  <2>1. \A i \in 1..Len(SubSeq(u, 1, Len(u))) :
           SubSeq(u, 1, Len(u))[i] = SubSeq(v, 1, Len(u))[i]
    BY <1>2, <1>4
  <2> QED
    BY <2>1, <1>2, <1>4, SeqEqual
<1> QED
  BY <1>3, <1>4 DEF IsPrefix

LEMMA Names ==
    ASSUME NEW k \in DOMAIN Commands
    PROVE  /\ Commands[k] \in Seq(STRING) /\ Len(Commands[k]) \in Nat /\ Len(Commands[k]) >= 1
           /\ \A i \in 1..Len(Commands[k]) : Commands[k][i] \notin Ctl
<1>1. /\ Commands \in Seq(Seq(STRING)) /\ Commands[k] # <<>>
      /\ \A i \in DOMAIN Commands[k] : Commands[k][i] \notin {"CAN", "ETX", "CR", "LF"}
  BY ConsoleAssumption
<1>2. Commands[k] \in Seq(STRING)
  BY <1>1
<1>3. DOMAIN Commands[k] = 1..Len(Commands[k])
  BY <1>2
<1> QED
  BY <1>1, <1>2, <1>3 DEF Ctl

LEMMA NoHandler ==
    ASSUME NEW line, NoCommand(line)
    PROVE  Handler(line) = 0
<1>1. DOMAIN Commands = 1..Len(Commands)
  BY ConsoleAssumption
<1>2. {k \in 1..Len(Commands) : Matches(line, Commands[k])} = {}
  BY <1>1 DEF NoCommand, Matches
<1> QED
  BY <1>2 DEF Handler, SelectInSeq

LEMMA NoCommandEmpty == NoCommand(<<>>)
<1> SUFFICES ASSUME NEW k \in DOMAIN Commands PROVE ~IsPrefix(Commands[k], <<>>)
  BY DEF NoCommand
<1>1. Len(Commands[k]) >= 1 /\ Len(Commands[k]) \in Nat
  BY Names
<1>2. Len(<<>>) = 0
  OBVIOUS
<1> QED
  BY <1>1, <1>2 DEF IsPrefix

LEMMA NoCommandCtl ==
    ASSUME NEW line \in Seq(Chars), NoCommand(line), NEW x \in Ctl
    PROVE  NoCommand(Append(line, x))
<1> SUFFICES ASSUME NEW k \in DOMAIN Commands, IsPrefix(Commands[k], Append(line, x))
             PROVE FALSE
  BY DEF NoCommand
<1> DEFINE name == Commands[k]
<1>1. name \in Seq(STRING) /\ Len(name) \in Nat /\ Len(name) >= 1
      /\ \A i \in 1..Len(name) : name[i] \notin Ctl
  BY Names
<1>2. x \in Chars
  BY DEF Chars
<1>3. /\ Append(line, x) \in Seq(Chars) /\ Len(Append(line, x)) = Len(line) + 1
      /\ Len(line) \in Nat /\ Append(line, x)[Len(line) + 1] = x
      /\ \A i \in 1..Len(line) : Append(line, x)[i] = line[i]
  BY <1>2
<1>4. Len(name) <= Len(line) + 1 /\ \A i \in 1..Len(name) : name[i] = Append(line, x)[i]
  <2>1. IsPrefix(name, Append(line, x))
    OBVIOUS
  <2>2. /\ Len(name) <= Len(Append(line, x))
        /\ \A i \in 1..Len(name) : name[i] = Append(line, x)[i]
    <3> HIDE DEF name
    <3>1. name \in Seq(STRING) /\ Append(line, x) \in Seq(Chars)
      BY <1>1, <1>3
    <3> QED
      BY <2>1, <3>1, PrefixAt, Zenon
  <2> QED
    BY <1>3, <2>2
<1>5. ~IsPrefix(name, line)
  BY DEF NoCommand
<1>6. CASE Len(name) <= Len(line)
  <2>1. \A i \in 1..Len(name) : name[i] = line[i]
    BY <1>1, <1>3, <1>4, <1>6
  <2> QED
    BY <1>1, <1>5, <1>6, <2>1, PrefixAt
<1>7. CASE Len(name) = Len(line) + 1
  BY <1>1, <1>3, <1>4, <1>7
<1> QED
  BY <1>1, <1>3, <1>4, <1>6, <1>7

(***************************************************************************)
(* The commands among one line more.                                       *)
(***************************************************************************)
LEMMA DoneNext ==
    ASSUME NEW s, NEW a, NEW b, Session(s, a, b), NEW c \in Nat
    PROVE  /\ a+c < b => Done(s, a, b, c+1) = Done(s, a, b, c)
           /\ a+c >= b => Done(s, a, b, c+1) = Append(Done(s, a, b, c), Line(s, a, c+1))
           /\ Done(s, a, b, 0) = <<>> /\ Done(s, a, b, 1) = <<>>
<1>1. a \in Nat /\ b \in Nat /\ a < b
  BY Shape
<1>2. \A d \in Nat : a+d <= b => Done(s, a, b, d) = <<>>
  <2> SUFFICES ASSUME NEW d \in Nat, a+d <= b PROVE Done(s, a, b, d) = <<>>
    OBVIOUS
  <2>1. Done(s, a, b, d) = [k \in 1..0 |-> s[b+k].line]
    BY DEF Done
  <2> QED
    BY <2>1
<1>5. Done(s, a, b, 0) = <<>> /\ Done(s, a, b, 1) = <<>>
  <2>1. a+0 <= b /\ a+1 <= b
    BY <1>1
  <2> QED
    BY <2>1, <1>2
<1>3. CASE a+c < b
  <2>1. a+c <= b /\ a+(c+1) <= b
    BY <1>1, <1>3
  <2> QED
    BY <1>1, <1>2, <1>3, <1>5, <2>1
<1>4. CASE a+c >= b
  <2> DEFINE e == a+c-b
  <2>1. e \in Nat
    BY <1>1, <1>4
  <2>2. Done(s, a, b, c) = [k \in 1..e |-> s[b+k].line]
    <3>1. (IF a+c <= b THEN 0 ELSE a+c-b) = e
      BY <1>1, <1>4
    <3> QED
      BY <3>1 DEF Done
  <2>3. Done(s, a, b, c+1) = [k \in 1..e+1 |-> s[b+k].line]
    <3>1. (IF a+(c+1) <= b THEN 0 ELSE a+(c+1)-b) = e+1
      BY <1>1, <1>4
    <3> QED
      BY <3>1 DEF Done
  <2>4. s[b+(e+1)].line = Line(s, a, c+1)
    <3>1. b+(e+1) = a+(c+1)
      BY <1>1
    <3> QED
      BY <3>1 DEF Line
  <2> HIDE DEF e
  <2>5. [k \in 1..e+1 |-> s[b+k].line] = Append([k \in 1..e |-> s[b+k].line], s[b+(e+1)].line)
    BY <2>1
  <2> QED
    <3>1. Done(s, a, b, c+1) = Append(Done(s, a, b, c), Line(s, a, c+1))
      BY <2>2, <2>3, <2>4, <2>5, Zenon
    <3>2. ~(a+c < b)
      BY <1>1, <1>4
    <3> QED
      BY <1>5, <3>1, <3>2
<1> QED
  BY <1>1, <1>3, <1>4, <1>5


(***************************************************************************)
(* The answers under way, as the firmware says more and the client takes   *)
(* or drops the oldest.                                                    *)
(***************************************************************************)
Neutral == {"text", "ERROR", "FLASH", "ROM", "ACK"}

LEMMA Joined ==
    ASSUME NEW S, NEW x \in Seq(S), NEW y \in Seq(S)
    PROVE  /\ x \o y \in Seq(S) /\ Len(x \o y) = Len(x) + Len(y)
           /\ \A i \in 1..Len(x) : (x \o y)[i] = x[i]
           /\ \A i \in 1..Len(y) : (x \o y)[Len(x) + i] = y[i]
  OBVIOUS

LEMMA Regrouped ==
    ASSUME NEW S, NEW x \in Seq(S), NEW y \in Seq(S), NEW z \in Seq(S)
    PROVE  (x \o y) \o z = x \o (y \o z)
<1> DEFINE u == x \o y
           v == y \o z
<1>0. u \in Seq(S) /\ v \in Seq(S)
  OBVIOUS
<1>1. /\ Len(x) \in Nat /\ Len(y) \in Nat /\ Len(z) \in Nat
      /\ Len(u) = Len(x) + Len(y) /\ Len(v) = Len(y) + Len(z)
      /\ (\A i \in 1..Len(x) : u[i] = x[i]) /\ (\A i \in 1..Len(y) : u[Len(x)+i] = y[i])
      /\ (\A i \in 1..Len(y) : v[i] = y[i]) /\ (\A i \in 1..Len(z) : v[Len(y)+i] = z[i])
  OBVIOUS
<1> HIDE DEF u, v
<1>2. /\ u \o z \in Seq(S) /\ Len(u \o z) = Len(u) + Len(z)
      /\ (\A i \in 1..Len(u) : (u \o z)[i] = u[i])
      /\ (\A i \in 1..Len(z) : (u \o z)[Len(u)+i] = z[i])
  BY <1>0
<1>3. /\ x \o v \in Seq(S) /\ Len(x \o v) = Len(x) + Len(v)
      /\ (\A i \in 1..Len(x) : (x \o v)[i] = x[i])
      /\ (\A i \in 1..Len(v) : (x \o v)[Len(x)+i] = v[i])
  BY <1>0
<1>4. ASSUME NEW i \in 1..Len(u \o z) PROVE (u \o z)[i] = (x \o v)[i]
  <2>1. CASE i \in 1..Len(x)
    <3>1. i \in 1..Len(u)
      BY <1>1, <2>1
    <3> QED
      BY <1>1, <1>2, <1>3, <2>1, <3>1, Zenon
  <2>2. ASSUME NEW j \in 1..Len(y), i = Len(x)+j PROVE (u \o z)[i] = (x \o v)[i]
    <3>1. i \in 1..Len(u) /\ j \in 1..Len(v)
      BY <1>1, <2>2
    <3> QED
      BY <1>1, <1>2, <1>3, <2>2, <3>1, Zenon
  <2>3. ASSUME NEW j \in 1..Len(z), i = Len(u)+j PROVE (u \o z)[i] = (x \o v)[i]
    <3>1. i = Len(x) + (Len(y)+j) /\ Len(y)+j \in 1..Len(v)
      BY <1>1, <2>3
    <3> QED
      BY <1>1, <1>2, <1>3, <2>3, <3>1
  <2>4. \/ i \in 1..Len(x)
        \/ i-Len(x) \in 1..Len(y) /\ i = Len(x)+(i-Len(x))
        \/ i-Len(u) \in 1..Len(z) /\ i = Len(u)+(i-Len(u))
    BY <1>1, <1>2
  <2> QED
    BY <2>1, <2>2, <2>3, <2>4, Zenon
<1>5. Len(u \o z) = Len(x \o v)
  BY <1>1, <1>2, <1>3
<1>6. u \o z = x \o v
  BY <1>2, <1>3, <1>4, <1>5, SeqEqual, Zenon
<1> QED
  BY <1>6 DEF u, v

LEMMA QueueTail ==
    ASSUME NEW q, NEW ln, NEW base, NEW first, NEW final,
           QueueOK(q, ln, base, first, final), q # <<>>
    PROVE  QueueOK(Tail(q), ln, base, first, final)
<1> DEFINE r == Tail(q)
<1>1. q \in Seq(Items)
  BY DEF QueueOK
<1>2. /\ r \in Seq(Items) /\ Len(q) \in Nat /\ Len(r) = Len(q) - 1 /\ Len(r) \in Nat
      /\ \A i \in 1..Len(r) : i+1 \in 1..Len(q) /\ r[i] = q[i+1]
  BY <1>1
<1> HIDE DEF r
<1>3. ASSUME NEW i \in 1..Len(r)
      PROVE  /\ r[i].at <= ln
             /\ r[i].what = "prompt" => r[i].at >= base
             /\ r[i].what \in Xfer =>
                   IF first THEN \A j \in 1..Len(r) : j < i => r[j].what # "prompt"
                            ELSE final /\ r[i].at = ln
  <2>1. i+1 \in 1..Len(q) /\ r[i] = q[i+1]
    BY <1>2
  <2>2. r[i].at <= ln /\ (r[i].what = "prompt" => r[i].at >= base)
    BY <2>1, Zenon DEF QueueOK
  <2>3. ASSUME r[i].what \in Xfer, first, NEW j \in 1..Len(r), j < i
        PROVE  r[j].what # "prompt"
    <3>1. j+1 \in 1..Len(q) /\ r[j] = q[j+1] /\ j+1 < i+1
      BY <1>2, <2>3
    <3> QED
      BY <2>1, <2>3, <3>1, Zenon DEF QueueOK
  <2>4. ASSUME r[i].what \in Xfer, ~first
        PROVE  final /\ r[i].at = ln
    BY <2>1, <2>4, Zenon DEF QueueOK
  <2> QED
    BY <2>2, <2>3, <2>4, Zenon
<1>4. ASSUME NEW i \in 1..Len(r), NEW j \in 1..Len(r),
             i < j, r[i].what = "prompt", r[j].what = "prompt"
      PROVE  r[i].at < r[j].at
  <2>1. /\ i+1 \in 1..Len(q) /\ r[i] = q[i+1] /\ j+1 \in 1..Len(q) /\ r[j] = q[j+1]
        /\ i+1 < j+1
    BY <1>2, <1>4
  <2> QED
    BY <1>4, <2>1, Zenon DEF QueueOK
<1>5. QueueOK(r, ln, base, first, final)
  BY <1>2, <1>3, <1>4, Zenon DEF QueueOK
<1> QED
  BY <1>5 DEF r

LEMMA QueueDrop ==
    ASSUME NEW x \in Seq(Items), NEW r \in Seq(Items), NEW ln, NEW base, NEW first, NEW final,
           QueueOK(x \o r, ln, base, first, final)
    PROVE  QueueOK(r, ln, base, first, final)
<1> DEFINE q == x \o r
           d == Len(x)
<1>2. /\ Len(r) \in Nat /\ d \in Nat /\ Len(q) = Len(r) + d
      /\ \A i \in 1..Len(r) : i+d \in 1..Len(q) /\ r[i] = q[i+d]
  <2>1. Len(q) = d + Len(r) /\ \A i \in 1..Len(r) : q[d+i] = r[i]
    BY Joined
  <2>2. Len(r) \in Nat /\ d \in Nat
    OBVIOUS
  <2> HIDE DEF d, q
  <2> QED
    BY <2>1, <2>2
<1>0. QueueOK(q, ln, base, first, final)
  OBVIOUS
<1> HIDE DEF q, d
<1>3. ASSUME NEW i \in 1..Len(r)
      PROVE  /\ r[i].at <= ln
             /\ r[i].what = "prompt" => r[i].at >= base
             /\ r[i].what \in Xfer =>
                   IF first THEN \A j \in 1..Len(r) : j < i => r[j].what # "prompt"
                            ELSE final /\ r[i].at = ln
  <2>1. i+d \in 1..Len(q) /\ r[i] = q[i+d]
    BY <1>2
  <2>2. r[i].at <= ln /\ (r[i].what = "prompt" => r[i].at >= base)
    BY <1>0, <2>1, Zenon DEF QueueOK
  <2>3. ASSUME r[i].what \in Xfer, first, NEW j \in 1..Len(r), j < i
        PROVE  r[j].what # "prompt"
    <3>1. j+d \in 1..Len(q) /\ r[j] = q[j+d] /\ j+d < i+d
      BY <1>2, <2>3
    <3> QED
      BY <1>0, <2>1, <2>3, <3>1, Zenon DEF QueueOK
  <2>4. ASSUME r[i].what \in Xfer, ~first
        PROVE  final /\ r[i].at = ln
    BY <1>0, <2>1, <2>4, Zenon DEF QueueOK
  <2> QED
    BY <2>2, <2>3, <2>4, Zenon
<1>4. ASSUME NEW i \in 1..Len(r), NEW j \in 1..Len(r),
             i < j, r[i].what = "prompt", r[j].what = "prompt"
      PROVE  r[i].at < r[j].at
  <2>1. /\ i+d \in 1..Len(q) /\ r[i] = q[i+d] /\ j+d \in 1..Len(q) /\ r[j] = q[j+d]
        /\ i+d < j+d
    BY <1>2, <1>4
  <2> QED
    BY <1>0, <1>4, <2>1, Zenon DEF QueueOK
<1> QED
  BY <1>3, <1>4, Zenon DEF QueueOK

\* The client takes a prompt: what is left of a transfer was before it, and
\* later prompts are later.
LEMMA QueuePrompt ==
    ASSUME NEW q, NEW ln \in Nat, NEW base, NEW first, NEW final,
           QueueOK(q, ln, base, first, final), q # <<>>, Head(q).what = "prompt"
    PROVE  /\ Head(q).at \in Nat /\ Head(q).at >= base /\ Head(q).at <= ln
           /\ QueueOK(Tail(q), ln, Head(q).at + 1, FALSE, final)
<1> DEFINE r == Tail(q)
<1>1. q \in Seq(Items)
  BY DEF QueueOK
<1>2. /\ r \in Seq(Items) /\ Len(q) \in Nat /\ Len(r) = Len(q) - 1 /\ Len(r) \in Nat
      /\ \A i \in 1..Len(r) : i+1 \in 1..Len(q) /\ r[i] = q[i+1]
      /\ 1 \in 1..Len(q) /\ Head(q) = q[1] /\ q[1] \in Items
      /\ \A i \in 1..Len(r) : r[i] \in Items
  BY <1>1
<1>6. Head(q).at \in Nat /\ Head(q).at >= base /\ Head(q).at <= ln
  <2>1. q[1].at \in Nat
    BY <1>2 DEF Items
  <2>2. q[1].at >= base /\ q[1].at <= ln
    BY <1>2, Zenon DEF QueueOK
  <2> QED
    BY <1>2, <2>1, <2>2
<1> HIDE DEF r
<1>3. ASSUME NEW i \in 1..Len(r)
      PROVE  /\ r[i].at <= ln
             /\ r[i].what = "prompt" => r[i].at >= Head(q).at + 1
             /\ r[i].what \in Xfer => final /\ r[i].at = ln
  <2>1. i+1 \in 1..Len(q) /\ r[i] = q[i+1] /\ 1 < i+1
    BY <1>2
  <2>2. r[i].at <= ln
    BY <2>1, Zenon DEF QueueOK
  <2>3. ASSUME r[i].what = "prompt" PROVE r[i].at >= Head(q).at + 1
    <3>1. q[1].at < r[i].at
      BY <1>2, <2>1, <2>3, Zenon DEF QueueOK
    <3>2. q[1].at \in Nat /\ r[i].at \in Nat
      BY <1>2 DEF Items
    <3> QED
      BY <1>2, <3>1, <3>2
  <2>4. ASSUME r[i].what \in Xfer PROVE final /\ r[i].at = ln
    BY <1>2, <2>1, <2>4, Zenon DEF QueueOK
  <2> QED
    BY <2>2, <2>3, <2>4
<1>4. ASSUME NEW i \in 1..Len(r), NEW j \in 1..Len(r),
             i < j, r[i].what = "prompt", r[j].what = "prompt"
      PROVE  r[i].at < r[j].at
  <2>1. /\ i+1 \in 1..Len(q) /\ r[i] = q[i+1] /\ j+1 \in 1..Len(q) /\ r[j] = q[j+1]
        /\ i+1 < j+1
    BY <1>2, <1>4
  <2> QED
    BY <1>4, <2>1, Zenon DEF QueueOK
<1>5. QueueOK(r, ln, Head(q).at + 1, FALSE, final)
  BY <1>2, <1>3, <1>4, Zenon DEF QueueOK
<1> QED
  BY <1>5, <1>6 DEF r

LEMMA QueueWeaker ==
    ASSUME NEW q, NEW ln, NEW base, NEW first, NEW final,
           QueueOK(q, ln, base, first, final)
    PROVE  QueueOK(q, ln, 0, first, final)
<1>1. q \in Seq(Items) /\ \A i \in 1..Len(q) : q[i] \in Items
  BY DEF QueueOK
<1>2. \A i \in 1..Len(q) : q[i].at >= 0
  BY <1>1 DEF Items
<1> QED
  BY <1>2, Zenon DEF QueueOK


\* One part more of an answer.
LEMMA QueueAdd ==
    ASSUME NEW q, NEW ln \in Nat, NEW ln2 \in Nat, NEW base, NEW first, NEW final, NEW final2,
           NEW e \in Items,
           QueueOK(q, ln, base, first, final), ln <= ln2, e.at <= ln2,
           e.what = "prompt" =>
              e.at >= base /\ \A i \in 1..Len(q) : q[i].what = "prompt" => q[i].at < e.at,
           e.what \in Xfer => IF first THEN NoPrompt(q) ELSE final2 /\ e.at = ln2,
           first \/ \A i \in 1..Len(q) : q[i].what \in Xfer => final2 /\ q[i].at = ln2
    PROVE  QueueOK(Append(q, e), ln2, base, first, final2)
<1> DEFINE r == Append(q, e)
           d == Len(q)
<1>1. q \in Seq(Items)
  BY DEF QueueOK
<1>2. /\ r \in Seq(Items) /\ d \in Nat /\ Len(r) = d+1 /\ r[d+1] = e
      /\ \A i \in 1..d : r[i] = q[i] /\ q[i] \in Items
  BY <1>1
<1>3. \A i \in 1..Len(r) : i \in 1..d \/ i = d+1
  BY <1>2
<1>4. \A i \in 1..Len(r), j \in 1..Len(r) : j < i => j \in 1..d
  BY <1>2
<1>5. \A i \in 1..d : q[i].at <= ln2
  <2> SUFFICES ASSUME NEW i \in 1..d PROVE q[i].at <= ln2
    OBVIOUS
  <2>1. q[i].at <= ln
    BY Zenon DEF QueueOK
  <2>2. q[i].at \in Nat
    BY <1>2 DEF Items
  <2> QED
    BY <2>1, <2>2
<1>6. \A i \in 1..d, j \in 1..d : j < i => i \in 1..Len(q) /\ j \in 1..Len(q)
  OBVIOUS
<1>0. d = Len(q) /\ r = Append(q, e)
  OBVIOUS
<1> HIDE DEF r, d
<1>7. ASSUME NEW i \in 1..Len(r)
      PROVE  /\ r[i].at <= ln2
             /\ r[i].what = "prompt" => r[i].at >= base
             /\ r[i].what \in Xfer =>
                   IF first THEN \A j \in 1..Len(r) : j < i => r[j].what # "prompt"
                            ELSE final2 /\ r[i].at = ln2
  <2>1. CASE i \in 1..d
    <3>1. r[i] = q[i]
      BY <1>2, <2>1
    <3>2. r[i].at <= ln2 /\ (r[i].what = "prompt" => r[i].at >= base)
      BY <1>0, <1>5, <2>1, <3>1, Zenon DEF QueueOK
    <3>3. ASSUME first, r[i].what \in Xfer, NEW j \in 1..Len(r), j < i
          PROVE  r[j].what # "prompt"
      <4>1. j \in 1..d /\ r[j] = q[j]
        BY <1>2, <1>4, <3>3
      <4> QED
        BY <1>0, <2>1, <3>1, <3>3, <4>1, Zenon DEF QueueOK
    <3>4. ASSUME ~first, r[i].what \in Xfer PROVE final2 /\ r[i].at = ln2
      BY <1>0, <2>1, <3>1, <3>4, Zenon
    <3> QED
      BY <3>2, <3>3, <3>4, Zenon
  <2>2. CASE i = d+1
    <3>1. r[i] = e
      BY <1>2, <2>2
    <3>2. r[i].at <= ln2 /\ (r[i].what = "prompt" => r[i].at >= base)
      BY <3>1, Zenon
    <3>3. ASSUME first, r[i].what \in Xfer, NEW j \in 1..Len(r), j < i
          PROVE  r[j].what # "prompt"
      <4>1. j \in 1..d /\ r[j] = q[j]
        BY <1>2, <1>4, <3>3
      <4> QED
        BY <1>0, <3>1, <3>3, <4>1, Zenon DEF NoPrompt
    <3>4. ASSUME ~first, r[i].what \in Xfer PROVE final2 /\ r[i].at = ln2
      BY <3>1, <3>4, Zenon
    <3> QED
      BY <3>2, <3>3, <3>4, Zenon
  <2> QED
    BY <1>3, <2>1, <2>2
<1>8. ASSUME NEW i \in 1..Len(r), NEW j \in 1..Len(r),
             i < j, r[i].what = "prompt", r[j].what = "prompt"
      PROVE  r[i].at < r[j].at
  <2>1. i \in 1..d /\ r[i] = q[i]
    BY <1>2, <1>4, <1>8
  <2>2. CASE j \in 1..d
    BY <1>0, <1>2, <1>8, <2>1, <2>2, Zenon DEF QueueOK
  <2>3. CASE j = d+1
    BY <1>0, <1>2, <1>8, <2>1, <2>3, Zenon
  <2> QED
    BY <1>3, <2>2, <2>3
<1>9. QueueOK(r, ln2, base, first, final2)
  BY <1>2, <1>7, <1>8, Zenon DEF QueueOK
<1> QED
  BY <1>0, <1>9

(***************************************************************************)
(* What is said, and how the answers under way move.                       *)
(***************************************************************************)
LEMMA QueueSaid ==
    ASSUME NEW i \in Seq(Items), NEW w \in Seq(Items), NEW e \in Items
    PROVE  /\ w \o <<e>> \in Seq(Items)
           /\ i \o (w \o <<e>>) = Append(i \o w, e)
<1>1. <<e>> \in Seq(Items)
  OBVIOUS
<1>2. i \o (w \o <<e>>) = (i \o w) \o <<e>>
  BY <1>1, Regrouped, SMTT(30)
<1>3. i \o w \in Seq(Items)
  BY ConcatProperties, Zenon
<1>4. (i \o w) \o <<e>> = Append(i \o w, e)
  BY <1>3
<1> QED
  BY <1>1, <1>2, <1>4, ConcatProperties

LEMMA QueueMoves ==
    ASSUME NEW i \in Seq(Items), NEW w \in Seq(Items)
    PROVE  /\ i # <<>> => /\ i \o w # <<>> /\ Head(i \o w) = Head(i) /\ Head(i) \in Items
                          /\ Tail(i) \o w = Tail(i \o w) /\ Tail(i) \in Seq(Items)
           /\ w # <<>> => /\ Append(i, Head(w)) \o Tail(w) = i \o w
                          /\ Append(i, Head(w)) \in Seq(Items) /\ Tail(w) \in Seq(Items)
           /\ i \o w \in Seq(Items) /\ <<>> \o w = w
<1>1. i \o w \in Seq(Items) /\ <<>> \o w = w
  BY ConcatProperties, ConcatEmptySeq, Zenon
<1>2. ASSUME i # <<>>
      PROVE  /\ i \o w # <<>> /\ Head(i \o w) = Head(i) /\ Head(i) \in Items
             /\ Tail(i) \o w = Tail(i \o w) /\ Tail(i) \in Seq(Items)
  <2>1. Head(i) \in Items /\ Tail(i) \in Seq(Items) /\ Len(i) \in Nat /\ Len(i) >= 1
        /\ Len(w) \in Nat /\ Head(i) = i[1] /\ Len(Tail(i)) = Len(i) - 1
        /\ \A k \in 1..Len(i)-1 : Tail(i)[k] = i[k+1]
    BY <1>2
  <2>2. /\ Len(i \o w) = Len(i) + Len(w)
        /\ \A k \in 1..Len(i) : (i \o w)[k] = i[k]
        /\ \A k \in 1..Len(w) : (i \o w)[Len(i) + k] = w[k]
    BY Joined
  <2>3. i \o w # <<>> /\ Head(i \o w) = Head(i)
    BY <1>1, <2>1, <2>2
  <2>4. /\ Tail(i \o w) \in Seq(Items) /\ Len(Tail(i \o w)) = Len(i \o w) - 1
        /\ \A k \in 1..Len(i \o w)-1 : Tail(i \o w)[k] = (i \o w)[k+1]
    BY <1>1, <2>3
  <2>5. /\ Tail(i) \o w \in Seq(Items) /\ Len(Tail(i) \o w) = Len(Tail(i)) + Len(w)
        /\ \A k \in 1..Len(Tail(i)) : (Tail(i) \o w)[k] = Tail(i)[k]
        /\ \A k \in 1..Len(w) : (Tail(i) \o w)[Len(Tail(i)) + k] = w[k]
    BY <2>1, Joined
  <2>6. ASSUME NEW k \in 1..Len(i)+Len(w)-1 PROVE Tail(i \o w)[k] = (Tail(i) \o w)[k]
    <3>1. Tail(i \o w)[k] = (i \o w)[k+1]
      BY <2>2, <2>4
    <3>2. CASE k <= Len(i)-1
      <4>1. k+1 \in 1..Len(i) /\ k \in 1..Len(Tail(i)) /\ k \in 1..Len(i)-1
        BY <2>1, <3>2
      <4> QED
        BY <2>1, <2>2, <2>5, <3>1, <4>1, Zenon
    <3>3. CASE k > Len(i)-1
      <4>1. PICK j \in 1..Len(w) : k = Len(i)-1+j
        <5>1. k-(Len(i)-1) \in 1..Len(w) /\ k = Len(i)-1+(k-(Len(i)-1))
          BY <2>1, <3>3
        <5> QED
          BY <5>1
      <4>2. k+1 = Len(i)+j /\ k = Len(Tail(i))+j
        BY <2>1, <4>1
      <4> QED
        BY <2>2, <2>5, <3>1, <4>2, Zenon
    <3> QED
      BY <2>1, <3>2, <3>3
  <2>7. Len(Tail(i \o w)) = Len(Tail(i) \o w) /\ Len(Tail(i \o w)) = Len(i)+Len(w)-1
    BY <2>1, <2>2, <2>4, <2>5
  <2>8. \A k \in 1..Len(Tail(i \o w)) : Tail(i \o w)[k] = (Tail(i) \o w)[k]
    BY <2>6, <2>7, Zenon
  <2>9. Tail(i \o w) = Tail(i) \o w
    BY <2>4, <2>5, <2>7, <2>8, SeqEqual, Zenon
  <2> QED
    BY <2>1, <2>3, <2>9
<1>3. ASSUME w # <<>>
      PROVE  /\ Append(i, Head(w)) \o Tail(w) = i \o w
             /\ Append(i, Head(w)) \in Seq(Items) /\ Tail(w) \in Seq(Items)
  <2>1. /\ Head(w) \in Items /\ Tail(w) \in Seq(Items) /\ w = <<Head(w)>> \o Tail(w)
        /\ <<Head(w)>> \in Seq(Items) /\ Append(i, Head(w)) = i \o <<Head(w)>>
        /\ Append(i, Head(w)) \in Seq(Items)
    BY <1>3
  <2>2. (i \o <<Head(w)>>) \o Tail(w) = i \o (<<Head(w)>> \o Tail(w))
    BY <2>1, Regrouped, SMTT(30)
  <2> QED
    BY <2>1, <2>2, Zenon
<1> QED
  BY <1>1, <1>2, <1>3


It(x, at) == [what |-> x, at |-> at]
Whats == Xfer \union Neutral \union {"prompt"}

LEMMA ItIs ==
    ASSUME NEW x \in Whats, NEW at \in Nat
    PROVE  It(x, at) \in Items /\ It(x, at).what = x /\ It(x, at).at = at
  BY DEF It, Whats, Items, Neutral, Xfer

LEMMA SayOne ==
    ASSUME NEW x \in Whats, lines' \in Nat, inbuf \in Seq(Items), wire \in Seq(Items),
           inbuf' = inbuf, Say(<<x>>)
    PROVE  wire' \in Seq(Items) /\ Queue' = Append(Queue, It(x, lines'))
<1> DEFINE e == It(x, lines')
<1>1. e \in Items
  BY ItIs
<1>2. [k \in 1..Len(<<x>>) |-> [what |-> <<x>>[k], at |-> lines']] = <<e>>
  BY DEF It
<1>3. wire' = wire \o <<e>>
  BY <1>2, Zenon DEF Say
<1>4. wire' \in Seq(Items) /\ inbuf \o wire' = Append(inbuf \o wire, e)
  BY <1>1, <1>3, QueueSaid
<1> QED
  BY <1>4, Zenon DEF Queue

LEMMA SayTwo ==
    ASSUME NEW x \in Whats, NEW y \in Whats, lines' \in Nat,
           inbuf \in Seq(Items), wire \in Seq(Items), inbuf' = inbuf, Say(<<x, y>>)
    PROVE  /\ wire' \in Seq(Items)
           /\ Queue' = Append(Append(Queue, It(x, lines')), It(y, lines'))
<1> DEFINE e == It(x, lines')
           f == It(y, lines')
<1>1. e \in Items /\ f \in Items
  BY ItIs
<1>2. [k \in 1..Len(<<x, y>>) |-> [what |-> <<x, y>>[k], at |-> lines']] = <<e, f>>
  BY DEF It
<1>3. wire' = wire \o <<e, f>>
  BY <1>2, Zenon DEF Say
<1> HIDE DEF e, f
<1>4. wire \o <<e, f>> = (wire \o <<e>>) \o <<f>>
  <2>0. <<e>> \in Seq(Items) /\ <<f>> \in Seq(Items)
    BY <1>1
  <2>1. <<e>> \in Seq(Items) /\ <<f>> \in Seq(Items) /\ <<e>> \o <<f>> = <<e, f>>
    <3> DEFINE g == <<e>> \o <<f>>
               h == <<e, f>>
    <3>2. g \in Seq(Items) /\ Len(g) = 2 /\ g[1] = e /\ g[2] = f
      <4>1. /\ g \in Seq(Items) /\ Len(g) = 1+1
            /\ \A i \in 1..1 : g[i] = <<e>>[i]
            /\ \A i \in 1..1 : g[1+i] = <<f>>[i]
        BY <2>0
      <4>2. <<e>>[1] = e /\ <<f>>[1] = f
        OBVIOUS
      <4> QED
        BY <4>1, <4>2
    <3>3. h \in Seq(Items) /\ Len(h) = 2 /\ h[1] = e /\ h[2] = f
      BY <1>1
    <3> HIDE DEF g, h
    <3>4. Len(g) = Len(h) /\ \A i \in 1..Len(g) : g[i] = h[i]
      BY <3>2, <3>3
    <3>5. g = h
      BY <3>2, <3>3, <3>4, SeqEqual, Zenon
    <3>1. <<e>> \o <<f>> = <<e, f>>
      BY <3>5 DEF g, h
    <3> QED
      BY <2>0, <3>1
  <2>2. (wire \o <<e>>) \o <<f>> = wire \o (<<e>> \o <<f>>)
    BY <2>1, Regrouped, SMTT(30)
  <2> QED
    BY <2>1, <2>2, Zenon
<1>5. /\ wire \o <<e>> \in Seq(Items)
      /\ inbuf \o (wire \o <<e>>) = Append(inbuf \o wire, e)
  BY <1>1, QueueSaid
<1>6. /\ (wire \o <<e>>) \o <<f>> \in Seq(Items)
      /\ inbuf \o ((wire \o <<e>>) \o <<f>>) = Append(inbuf \o (wire \o <<e>>), f)
  BY <1>1, <1>5, QueueSaid
<1>7. wire' = (wire \o <<e>>) \o <<f>>
  BY <1>3, <1>4
<1>8. wire' \in Seq(Items) /\ inbuf \o wire' = Append(Append(inbuf \o wire, e), f)
  BY <1>5, <1>6, <1>7
<1> QED
  BY <1>8, Zenon DEF Queue, e, f

(***************************************************************************)
(* The first character under way.                                          *)
(***************************************************************************)
LEMMA FirstChar ==
    ASSUME NEW s, NEW a, NEW b, Session(s, a, b), NEW c, NEW n \in Nat, NEW m, NEW p,
           n <= Len(s) - a, Text(s, a, c, n, m, p), rx # <<>>
    PROVE  /\ Head(rx) \in Chars
           /\ \/ m > 0 /\ c = 0 /\ Head(rx) \in Ctl /\ Stream(s, a, c, n, m-1, p, Tail(rx))
              \/ m = 0 /\ p = 0 /\ c > 0 /\ Head(rx) = "LF" /\ Stream(s, a, c, n, 0, 1, Tail(rx))
              \/ /\ m = 0 /\ c > 0 /\ n > c /\ p \in 1..Len(Line(s, a, c+1))
                 /\ Head(rx) = Line(s, a, c+1)[p] /\ Stream(s, a, c, n, 0, p+1, Tail(rx))
              \/ /\ m = 0 /\ n > c /\ p = Len(Line(s, a, c+1)) + 1
                 /\ Head(rx) = "CR" /\ Stream(s, a, c+1, n, 0, 0, Tail(rx))
<1> DEFINE u == Len(Line(s, a, c+1))
<1>1. /\ c \in Nat /\ c <= n /\ n <= c+2 /\ m \in Nat /\ p \in Nat
      /\ (c = 0 => p = 1) /\ (c > 0 => m = 0)
      /\ p <= IF n = c THEN 1 ELSE u + 1
      /\ Stream(s, a, c, n, m, p, rx)
  BY DEF Text
<1>2. Total(s, a, c, n) \in Nat
  BY <1>1, TotalNat
<1>3. a \in Nat /\ Len(s) \in Nat
  BY Shape
<1>4. n > c => u \in Nat /\ (c = 0 => u = 0)
  <2> SUFFICES ASSUME n > c PROVE u \in Nat /\ (c = 0 => u = 0)
    OBVIOUS
  <2>1. c+1 \in 1..Len(s)-a
    BY <1>1, <1>3
  <2>2. u \in Nat /\ (c+1 = 1 => Line(s, a, c+1) = <<>>)
    BY <2>1, LineText
  <2> QED
    BY <1>1, <2>2
<1>5. /\ Head(rx) \in Chars
      /\ m > 0 => Head(rx) \in Ctl /\ Stream(s, a, c, n, m-1, p, Tail(rx))
      /\ m = 0 => Head(rx) = At(s, a, c, p) /\ Stream(s, a, c, n, 0, p+1, Tail(rx))
  BY <1>1, <1>2, StreamTail
<1>6. rx \in Seq(Chars) /\ Len(rx) = m + Total(s, a, c, n) + 1 - p
  BY <1>1 DEF Stream
<1>7. Len(rx) >= 1
  BY <1>6
<1>8. CASE m > 0
  BY <1>1, <1>5, <1>8
<1>9. CASE m = 0 /\ p = 0
  <2>1. Head(rx) = "LF"
    BY <1>5, <1>9 DEF At
  <2>2. c > 0 /\ p+1 = 1
    BY <1>1, <1>9
  <2> QED
    BY <1>5, <1>9, <2>1, <2>2
<1>10. CASE m = 0 /\ p > 0
  <2>1. n > c
    <3>1. n = c => Total(s, a, c, n) = 0
      BY DEF Total
    <3> QED
      BY <1>1, <1>6, <1>7, <1>10, <3>1
  <2>2. p <= u+1 /\ u \in Nat
    BY <1>1, <1>4, <2>1
  <2>3. CASE p <= u
    <3>1. Head(rx) = Line(s, a, c+1)[p]
      BY <1>1, <1>5, <1>10, <2>2, <2>3 DEF At
    <3>2. c > 0
      BY <1>1, <1>4, <1>10, <2>1, <2>3
    <3>3. p \in 1..u
      BY <1>1, <1>10, <2>2, <2>3
    <3> QED
      BY <1>5, <1>10, <2>1, <3>1, <3>2, <3>3
  <2>4. CASE p = u+1
    <3>1. Head(rx) = "CR"
      BY <1>1, <1>5, <1>10, <2>2, <2>4 DEF At
    <3>2. p+1 = u+2
      BY <2>2, <2>4
    <3>3. Stream(s, a, c, n, 0, u+2, Tail(rx))
      BY <1>5, <1>10, <3>2
    <3>4. Stream(s, a, c+1, n, 0, 0, Tail(rx))
      BY <1>1, <2>1, <3>3, StreamLine
    <3> QED
      BY <1>5, <1>10, <2>1, <2>4, <3>1, <3>4
  <2> QED
    BY <1>1, <2>2, <2>3, <2>4
<1> QED
  BY <1>1, <1>5, <1>8, <1>9, <1>10


(***************************************************************************)
(* What a step leaves alone.                                               *)
(***************************************************************************)
LEMMA TalkKept ==
    ASSUME NEW s, NEW a, NEW c, NEW n, Talk(s, a, c, n),
           UNCHANGED <<script, client, step, sent, answered, found, lines>>
    PROVE  Talk(s, a, c, n)'
  BY DEF Talk, AtLine

LEMMA TextKept ==
    ASSUME NEW s, NEW a, NEW c, NEW n, NEW m, NEW p, Text(s, a, c, n, m, p),
           UNCHANGED <<rx, cmdbuf>>
    PROVE  Text(s, a, c, n, m, p)'
  BY DEF Text

LEMMA TakenKept ==
    ASSUME NEW s, NEW a, NEW b, NEW c, Taken(s, a, b, c),
           UNCHANGED <<executed, mode, lines, found>>
    PROVE  Taken(s, a, b, c)'
  BY DEF Taken

LEMMA SaidKept ==
    ASSUME NEW s, NEW a, NEW c, Said(s, a, c), Queue' = Queue,
           UNCHANGED <<client, step, answered, found, lines>>
    PROVE  Said(s, a, c)'
  BY DEF Said, Base, First

\* Another answer to a line that is not the last.
LEMMA SaidLine ==
    ASSUME NEW s, NEW a, NEW b, Session(s, a, b), NEW c \in Nat, NEW n \in Nat,
           Talk(s, a, c, n), Said(s, a, c), NEW q,
           lines \in Nat, lines' = lines + 1, c # Len(s) - a, c+1 # Len(s) - a,
           q = Queue \/ \E x \in Neutral : q = Append(Queue, It(x, lines')),
           Queue' = Append(q, It("prompt", lines')),
           UNCHANGED <<script, client, step, sent, answered, found>>
    PROVE  Said(s, a, c+1)'
<1> DEFINE l == lines'
<1>1. l \in Nat /\ l = lines+1 /\ lines <= l
  OBVIOUS
<1>2. Base(s, a) \in Nat /\ Base(s, a) <= l
  <2>1. answered \in Nat /\ answered <= lines
    BY DEF Talk
  <2> QED
    BY <1>1, <2>1 DEF Base
<1>3. QueueOK(Queue, lines, Base(s, a), First(a), FALSE)
  <2>1. QueueOK(Queue, lines, Base(s, a), First(a), c = Len(s) - a)
    BY DEF Said
  <2>2. (c = Len(s) - a) = FALSE
    OBVIOUS
  <2> QED
    BY <2>1, <2>2, Zenon
<1> HIDE DEF l
<1>4. \A i \in 1..Len(Queue) : Queue[i].at \in Nat /\ Queue[i].at <= lines
  <2> SUFFICES ASSUME NEW i \in 1..Len(Queue)
               PROVE  Queue[i].at \in Nat /\ Queue[i].at <= lines
    OBVIOUS
  <2>1. Queue \in Seq(Items) /\ Queue[i].at <= lines
    BY <1>3, Zenon DEF QueueOK
  <2>2. Queue[i] \in Items
    BY <2>1
  <2> QED
    BY <2>1, <2>2 DEF Items
<1>5. First(a) \/ \A i \in 1..Len(Queue) : Queue[i].what \notin Xfer
  BY <1>3, Zenon DEF QueueOK
<1>6. /\ QueueOK(q, l, Base(s, a), First(a), FALSE) \/ q = Queue
      /\ \A i \in 1..Len(q) : q[i].what = "prompt" => q[i].at < l
      /\ First(a) \/ \A i \in 1..Len(q) : q[i].what \notin Xfer
  <2>1. CASE q = Queue
    <3>1. \A i \in 1..Len(Queue) : Queue[i].what = "prompt" => Queue[i].at < l
      BY <1>1, <1>4
    <3> QED
      BY <2>1, <3>1, <1>5, Zenon
  <2>2. ASSUME NEW x \in Neutral, q = Append(Queue, It(x, lines'))
        PROVE  /\ QueueOK(q, l, Base(s, a), First(a), FALSE)
               /\ \A i \in 1..Len(q) : q[i].what = "prompt" => q[i].at < l
               /\ First(a) \/ \A i \in 1..Len(q) : q[i].what \notin Xfer
    <3> DEFINE e == It(x, l)
    <3>1. e \in Items /\ e.what = x /\ e.at = l
      BY <1>1, ItIs DEF Whats
    <3>2. x # "prompt" /\ x \notin Xfer
      BY DEF Neutral, Xfer
    <3>3. e.at <= l
      BY <1>1, <3>1
    <3>4. q = Append(Queue, e)
      BY <2>2 DEF l
    <3> HIDE DEF e
    <3>5. QueueOK(Append(Queue, e), l, Base(s, a), First(a), FALSE)
      BY <1>1, <1>3, <1>5, <3>1, <3>2, <3>3, QueueAdd, Zenon
    <3>6. Queue \in Seq(Items)
      BY <1>3, Zenon DEF QueueOK
    <3>7. /\ Len(q) = Len(Queue) + 1 /\ Len(Queue) \in Nat /\ q[Len(Queue) + 1] = e
          /\ \A i \in 1..Len(Queue) : q[i] = Queue[i]
      BY <3>1, <3>4, <3>6
    <3>8. ASSUME NEW i \in 1..Len(q)
          PROVE  /\ q[i].what = "prompt" => q[i].at < l
                 /\ First(a) \/ q[i].what \notin Xfer
      <4>1. CASE i = Len(Queue) + 1
        BY <3>1, <3>2, <3>7, <4>1
      <4>2. CASE i \in 1..Len(Queue)
        <5>1. q[i] = Queue[i] /\ Queue[i].at < l
          BY <1>1, <1>4, <3>7, <4>2
        <5> QED
          BY <1>5, <4>2, <5>1, Zenon
      <4> QED
        BY <3>7, <4>1, <4>2
    <3> QED
      BY <3>4, <3>5, <3>8, Zenon
  <2> QED
    BY <2>1, <2>2, Zenon
<1>7. QueueOK(Queue', l, Base(s, a), First(a), FALSE)
  <2> DEFINE e == It("prompt", l)
  <2>1. e \in Items /\ e.what = "prompt" /\ e.at = l
    BY <1>1, ItIs DEF Whats
  <2>2. e.at <= l /\ e.at >= Base(s, a)
    BY <1>1, <1>2, <2>1
  <2>3. "prompt" \notin Xfer /\ l <= l
    BY <1>1 DEF Xfer
  <2>4. \A i \in 1..Len(q) : q[i].what = "prompt" => q[i].at < e.at
    BY <1>6, <2>1, Zenon
  <2> HIDE DEF e
  <2>5. CASE QueueOK(q, l, Base(s, a), First(a), FALSE)
    BY <1>1, <1>6, <2>1, <2>2, <2>3, <2>4, <2>5, QueueAdd, Zenon DEF e, l
  <2>6. CASE q = Queue
    <3>1. QueueOK(q, lines, Base(s, a), First(a), FALSE)
      BY <1>3, <2>6, Zenon
    <3> QED
      BY <1>1, <1>6, <2>1, <2>2, <2>3, <2>4, <3>1, QueueAdd, Zenon DEF e, l
  <2> QED
    BY <1>6, <2>5, <2>6, Zenon
<1>8. Base(s, a)' = Base(s, a) /\ First(a)' = First(a)
  BY DEF Base, First
<1>9. (c+1 = Len(s) - a) = FALSE
  OBVIOUS
<1> QED
  BY <1>7, <1>8, <1>9, Zenon DEF Said, l


\* The answer to the last line, once it is taken, which begins a transfer.
LEMMA SaidLast ==
    ASSUME NEW s, NEW a, NEW b, Session(s, a, b), NEW c \in Nat, NEW n \in Nat,
           Talk(s, a, c, n), Said(s, a, c), n > c,
           lines \in Nat, lines' = lines + 1, c+1 = Len(s) - a, NEW x \in Xfer, NEW y \in Xfer,
           \/ Queue' = Append(Queue, It(x, lines')) /\ s[Len(s)].ender = x
           \/ /\ Queue' = Append(Append(Queue, It(x, lines')), It(y, lines'))
              /\ s[Len(s)].ender \in {x, y},
           UNCHANGED <<script, client, step, sent, answered, found>>
    PROVE  Said(s, a, c+1)'
<1> DEFINE l == lines'
           e == It(x, l)
           f == It(y, l)
           q == Append(Queue, e)
           r == Append(q, f)
<1>1. l \in Nat /\ l = lines+1 /\ lines <= l /\ l <= l
  OBVIOUS
<1>2. /\ e \in Items /\ e.what = x /\ e.at = l /\ f \in Items /\ f.what = y /\ f.at = l
  BY <1>1, ItIs DEF Whats
<1>3. x # "prompt" /\ y # "prompt"
  BY DEF Xfer
<1>4. ~First(a)
  <2>1. c+1 >= 2 /\ a \in Nat
    BY Shape
  <2>2. AtLine(s, a, n)
    BY DEF Talk
  <2> QED
    BY <2>1, <2>2 DEF AtLine, First
<1>5. QueueOK(Queue, lines, Base(s, a), First(a), FALSE)
  <2>1. QueueOK(Queue, lines, Base(s, a), First(a), c = Len(s) - a)
    BY DEF Said
  <2>2. (c = Len(s) - a) = FALSE
    BY Shape
  <2> QED
    BY <2>1, <2>2, Zenon
<1>6. \A i \in 1..Len(Queue) : Queue[i].what \notin Xfer
  BY <1>4, <1>5, Zenon DEF QueueOK
<1>7. Queue \in Seq(Items)
  BY <1>5, Zenon DEF QueueOK
<1>0. \/ Queue' = q /\ s[Len(s)].ender = x
      \/ Queue' = r /\ s[Len(s)].ender \in {x, y}
  OBVIOUS
<1>8. e.at <= l /\ f.at <= l
  BY <1>1, <1>2
<1>9. /\ q \in Seq(Items) /\ Len(q) = Len(Queue) + 1 /\ Len(Queue) \in Nat
      /\ q[Len(Queue) + 1] = e /\ \A i \in 1..Len(Queue) : q[i] = Queue[i]
  BY <1>2, <1>7
<1>15. q = Append(Queue, e) /\ r = Append(q, f)
  OBVIOUS
<1> HIDE DEF l, e, f, q, r
<1>10. /\ r \in Seq(Items) /\ Len(r) = Len(q) + 1 /\ Len(q) \in Nat
       /\ r[Len(q) + 1] = f /\ \A i \in 1..Len(q) : r[i] = q[i]
  BY <1>2, <1>9, <1>15
<1>11. QueueOK(q, l, Base(s, a), First(a), TRUE)
  BY <1>1, <1>2, <1>3, <1>4, <1>5, <1>6, <1>8, <1>15, QueueAdd, Zenon
<1>12. \A i \in 1..Len(q) : q[i].what \in Xfer => q[i].at = l
  <2> SUFFICES ASSUME NEW i \in 1..Len(q), q[i].what \in Xfer PROVE q[i].at = l
    OBVIOUS
  <2>1. i \in 1..Len(Queue) \/ i = Len(Queue) + 1
    BY <1>9
  <2> QED
    BY <2>1, <1>2, <1>6, <1>9, Zenon
<1>13. QueueOK(r, l, Base(s, a), First(a), TRUE)
  BY <1>1, <1>2, <1>3, <1>4, <1>8, <1>11, <1>12, <1>15, QueueAdd, Zenon
<1>14. QueueOK(Queue', l, Base(s, a), First(a), TRUE)
  BY <1>0, <1>11, <1>13, Zenon
<1>16. \E i \in 1..Len(Queue') : Queue'[i].what = s[Len(s)].ender
  <2>1. CASE Queue' = q /\ s[Len(s)].ender = x
    <3>1. Len(Queue) + 1 \in 1..Len(q) /\ q[Len(Queue) + 1].what = x
      BY <1>2, <1>9
    <3> QED
      BY <2>1, <3>1, Zenon
  <2>2. CASE Queue' = r /\ s[Len(s)].ender = x
    <3>1. Len(Queue) + 1 \in 1..Len(r) /\ Len(Queue) + 1 \in 1..Len(q)
      BY <1>9, <1>10
    <3>2. r[Len(Queue) + 1].what = x
      BY <1>2, <1>9, <1>10, <3>1
    <3> QED
      BY <2>2, <3>1, <3>2, Zenon
  <2>3. CASE Queue' = r /\ s[Len(s)].ender = y
    <3>1. Len(q) + 1 \in 1..Len(r) /\ r[Len(q) + 1].what = y
      BY <1>2, <1>10
    <3> QED
      BY <2>3, <3>1, Zenon
  <2> QED
    BY <1>0, <2>1, <2>2, <2>3
<1>17. Base(s, a)' = Base(s, a) /\ First(a)' = First(a)
  BY DEF Base, First
<1>18. (c+1 = Len(s) - a) = TRUE
  OBVIOUS
<1>19. QueueOK(Queue', lines', Base(s, a)', First(a)', c+1 = Len(s) - a)
  BY <1>14, <1>17, <1>18, Zenon DEF l
<1> QED
  BY <1>16, <1>19, Zenon DEF Said

\* One more NAK, when a transfer of the session waits for its first byte.
LEMMA SaidNak ==
    ASSUME NEW s, NEW a, NEW b, Session(s, a, b), NEW c, NEW n, Talk(s, a, c, n), Said(s, a, c),
           c = Len(s) - a, c <= n, lines \in Nat, lines' = lines,
           Queue' = Append(Queue, It("NAK", lines')),
           UNCHANGED <<script, client, step, sent, answered, found>>
    PROVE  Said(s, a, c)'
<1> DEFINE e == It("NAK", lines)
<1>1. e \in Items /\ e.what = "NAK" /\ e.at = lines /\ "NAK" \in Xfer /\ "NAK" # "prompt"
  BY ItIs DEF Whats, Xfer
<1>2. e.at <= lines /\ lines <= lines
  BY <1>1
<1>3. ~First(a)
  <2>1. c >= 2 /\ a \in Nat /\ c \in Nat
    BY Shape
  <2>2. AtLine(s, a, n) /\ n \in Nat
    BY DEF Talk
  <2> QED
    BY <2>1, <2>2 DEF AtLine, First
<1>4. QueueOK(Queue, lines, Base(s, a), First(a), TRUE)
  <2>1. QueueOK(Queue, lines, Base(s, a), First(a), c = Len(s) - a)
    BY DEF Said
  <2>2. (c = Len(s) - a) = TRUE
    OBVIOUS
  <2> QED
    BY <2>1, <2>2, Zenon
<1>5. Queue \in Seq(Items)
  BY <1>4, Zenon DEF QueueOK
<1>6. Queue' = Append(Queue, e)
  OBVIOUS
<1> HIDE DEF e
<1>7. \A i \in 1..Len(Queue) : Queue[i].what \in Xfer => Queue[i].at = lines
  BY <1>3, <1>4, Zenon DEF QueueOK
<1>8. QueueOK(Queue', lines, Base(s, a), First(a), TRUE)
  BY <1>1, <1>2, <1>3, <1>4, <1>6, <1>7, QueueAdd, Zenon
<1>9. Base(s, a)' = Base(s, a) /\ First(a)' = First(a)
  BY DEF Base, First
<1>10. QueueOK(Queue', lines', Base(s, a)', First(a)', c = Len(s) - a)
  <2>1. (c = Len(s) - a) = TRUE
    OBVIOUS
  <2> QED
    BY <1>8, <1>9, <2>1, Zenon
<1>11. client' = "reading" => \E i \in 1..Len(Queue') : Queue'[i].what = s[Len(s)].ender
  <2> SUFFICES ASSUME client = "reading"
               PROVE  \E i \in 1..Len(Queue') : Queue'[i].what = s[Len(s)].ender
    OBVIOUS
  <2>1. PICK i \in 1..Len(Queue) : Queue[i].what = s[Len(s)].ender
    BY Zenon DEF Said
  <2>2. i \in 1..Len(Queue') /\ Queue'[i] = Queue[i]
    BY <1>1, <1>5, <1>6
  <2> QED
    BY <2>1, <2>2, Zenon
<1> QED
  BY <1>10, <1>11, Zenon DEF Said

(***************************************************************************)
(* A line's end.                                                           *)
(***************************************************************************)
LEMMA LineEnds ==
    ASSUME NEW s, NEW a, NEW b, Session(s, a, b), NEW c, NEW n \in Nat, NEW m, NEW p,
           n <= Len(s) - a, n > c, Text(s, a, c, n, m, p), Taken(s, a, b, c),
           p = Len(Line(s, a, c+1)) + 1, mode = "cmd",
           lines' = lines + 1, menu_handleLine(cmdbuf)
    PROVE  /\ c # Len(s) - a
           /\ executed' = Done(s, a, b, c+1)
           /\ IF c+1 = Len(s) - a
              THEN \/ /\ mode' = "dxstart" /\ Say(<<"CTRL+C to cancel.">>)
                      /\ s[Len(s)].ender = "CTRL+C to cancel."
                   \/ /\ mode' = "uxwait" /\ Say(<<"READY", "NAK">>)
                      /\ s[Len(s)].ender \in {"READY", "NAK"}
              ELSE /\ mode' = "cmd"
                   /\ Say(<<"prompt">>) \/ \E x \in Neutral : Say(<<x, "prompt">>)
<1> DEFINE line == Line(s, a, c+1)
           h == Handler(cmdbuf)
<1>1. a \in Nat /\ b \in Nat /\ Len(s) \in Nat /\ a < b /\ b < Len(s)
  BY Shape
<1>2. c \in Nat /\ c+1 \in 1..Len(s)-a
  BY <1>1 DEF Text
<1>3. c # Len(s) - a
  BY <1>1, <1>2 DEF Text
<1>4. executed = Done(s, a, b, c)
  BY DEF Taken
<1>5. /\ line \in Seq(Chars) /\ Len(line) \in Nat
      /\ a+(c+1) <= b => line = <<>>
      /\ a+(c+1) > b => IsCommand(line)
  BY <1>2, LineText
<1>6. c > 0 => cmdbuf = line
  <2> SUFFICES ASSUME c > 0 PROVE cmdbuf = line
    OBVIOUS
  <2>1. /\ cmdbuf \in Seq(Chars) /\ Len(cmdbuf) = IF p = 0 THEN 0 ELSE p-1
        /\ \A i \in 1..Len(cmdbuf) : cmdbuf[i] = line[i]
    BY DEF Text
  <2>2. Len(cmdbuf) = Len(line)
    BY <1>5, <2>1
  <2> QED
    BY <1>5, <2>1, <2>2, SeqEqual, Zenon
<1>7. CASE a+(c+1) <= b
  <2>1. NoCommand(cmdbuf)
    <3>1. CASE c = 0
      BY <3>1 DEF Text
    <3>2. CASE c > 0
      <4>1. cmdbuf = <<>>
        BY <1>5, <1>6, <1>7, <3>2
      <4> QED
        BY <4>1, NoCommandEmpty, Zenon
    <3> QED
      BY <1>2, <3>1, <3>2
  <2>2. h = 0
    BY <2>1, NoHandler
  <2>3. /\ UNCHANGED <<executed, mode>>
        /\ Say(IF cmdbuf = <<>> THEN <<"prompt">> ELSE <<"ERROR", "prompt">>)
    BY <2>2, Zenon DEF menu_handleLine
  <2>4. Say(<<"prompt">>) \/ Say(<<"ERROR", "prompt">>)
    <3>1. CASE cmdbuf = <<>>
      <4>1. (IF cmdbuf = <<>> THEN <<"prompt">> ELSE <<"ERROR", "prompt">>) = <<"prompt">>
        BY <3>1
      <4> QED
        BY <2>3, <4>1, Zenon
    <3>2. CASE cmdbuf # <<>>
      <4>1. (IF cmdbuf = <<>> THEN <<"prompt">> ELSE <<"ERROR", "prompt">>) = <<"ERROR", "prompt">>
        BY <3>2
      <4> QED
        BY <2>3, <4>1, Zenon
    <3> QED
      BY <3>1, <3>2
  <2>5. "ERROR" \in Neutral
    BY DEF Neutral
  <2>6. c+1 # Len(s) - a
    BY <1>1, <1>2, <1>7
  <2>7. Done(s, a, b, c+1) = Done(s, a, b, c)
    <3>1. a+c < b
      BY <1>1, <1>2, <1>7
    <3> QED
      BY <1>2, <3>1, DoneNext
  <2> QED
    BY <1>3, <1>4, <2>3, <2>4, <2>5, <2>6, <2>7, Zenon
<1>8. CASE a+(c+1) > b
  <2>1. c > 0
    BY <1>1, <1>2, <1>8
  <2>2. cmdbuf = line /\ IsCommand(line)
    BY <1>5, <1>6, <1>8, <2>1
  <2>3. h \in DOMAIN Commands /\ Commands[h] = line
    BY <2>2 DEF IsCommand
  <2>4. h # 0
    BY <2>3, ConsoleAssumption
  <2>5. Run(line)
    BY <2>3, <2>4, Zenon DEF menu_handleLine
  <2> HIDE DEF line, h
  <2>6. executed' = Append(executed, line)
    BY <2>5, Zenon DEF Run
  <2>7. Done(s, a, b, c+1) = Append(Done(s, a, b, c), line)
    <3>1. a+c >= b
      BY <1>1, <1>2, <1>8
    <3> QED
      BY <1>2, <3>1, DoneNext DEF line
  <2>8. executed' = Done(s, a, b, c+1)
    BY <1>4, <2>6, <2>7
  <2>9. line = s[a+(c+1)].line
    BY DEF Line, line
  <2>10. ASSUME line # <<"d", "x">>, line # <<"u", "x">>
         PROVE  /\ mode' = mode
                /\ \E x \in Neutral : Say(<<x, "prompt">>)
    <3>1. CASE line = <<"i", "n", "i", "t">>
      <4>1. mode' = mode /\ Say(<<IF flash THEN "FLASH" ELSE "ROM", "prompt">>)
        BY <2>5, <2>10, <3>1 DEF Run
      <4>2. (IF flash THEN "FLASH" ELSE "ROM") \in Neutral
        BY DEF Neutral
      <4> QED
        BY <4>1, <4>2, Zenon
    <3>2. CASE line # <<"i", "n", "i", "t">>
      <4>1. mode' = mode /\ Say(<<"text", "prompt">>)
        BY <2>5, <2>10, <3>2 DEF Run
      <4>2. "text" \in Neutral
        BY DEF Neutral
      <4> QED
        BY <4>1, <4>2, Zenon
    <3> QED
      BY <3>1, <3>2
  <2>11. CASE c+1 # Len(s) - a
    <3>1. a+(c+1) \in a+1..Len(s)-1
      BY <1>1, <1>2, <2>11
    <3>2. line # <<"d", "x">> /\ line # <<"u", "x">>
      BY <2>9, <3>1 DEF Session, SessionOf
    <3>3. mode' = mode /\ \E x \in Neutral : Say(<<x, "prompt">>)
      BY <2>10, <3>2
    <3> QED
      BY <1>3, <2>8, <2>11, <3>3, Zenon
  <2>12. CASE c+1 = Len(s) - a
    <3>1. a+(c+1) = Len(s)
      BY <1>1, <1>2, <2>12
    <3>2. line = s[Len(s)].line
      BY <2>9, <3>1, Zenon
    <3>3. \/ line = <<"d", "x">> /\ s[Len(s)].ender = "CTRL+C to cancel."
          \/ line = <<"u", "x">> /\ s[Len(s)].ender \in {"READY", "NAK"}
      BY <3>2, Zenon DEF Session, SessionOf
    <3>4. line = <<"d", "x">> => mode' = "dxstart" /\ Say(<<"CTRL+C to cancel.">>)
      <4> SUFFICES ASSUME line = <<"d", "x">>
                   PROVE  mode' = "dxstart" /\ Say(<<"CTRL+C to cancel.">>)
        OBVIOUS
      <4>1. line # <<"u", "x">> /\ line # <<"i", "n", "i", "t">>
        OBVIOUS
      <4> QED
        BY <2>5, <4>1 DEF Run
    <3>5. line = <<"u", "x">> => mode' = "uxwait" /\ Say(<<"READY", "NAK">>)
      <4> SUFFICES ASSUME line = <<"u", "x">> PROVE mode' = "uxwait" /\ Say(<<"READY", "NAK">>)
        OBVIOUS
      <4>1. line # <<"d", "x">>
        OBVIOUS
      <4> QED
        BY <2>5, <4>1 DEF Run
    <3> QED
      BY <1>3, <2>8, <2>12, <3>3, <3>4, <3>5, Zenon
  <2> QED
    BY <2>11, <2>12
<1>9. a+(c+1) <= b \/ a+(c+1) > b
  BY <1>1, <1>2
<1> QED
  BY <1>7, <1>8, <1>9, Zenon


(***************************************************************************)
(* The firmware's steps, in the client's own session.                      *)
(***************************************************************************)
LEMMA OldestIs ==
    ASSUME NEW q, NEW x \in Oldest(q)
    PROVE  q # <<>> /\ x = Head(q)
<1>1. q # <<>>
  BY DEF Oldest
<1> QED
  BY <1>1 DEF Oldest

LEMMA CommandLineSteps ==
    ASSUME CommandLine
    PROVE  /\ mode = "cmd" /\ rx # <<>> /\ rx' = Tail(rx)
           /\ UNCHANGED <<datpos, waits, flash, inbuf, clientVars>>
           /\ \/ Head(rx) = "LF" /\ UNCHANGED <<cmdbuf, lines, executed, mode, wire>>
              \/ /\ Head(rx) = "CR" /\ lines' = lines + 1
                 /\ menu_handleLine(cmdbuf) /\ cmdbuf' = <<>>
              \/ /\ Head(rx) \notin {"CR", "LF"}
                 /\ cmdbuf' = IF Len(cmdbuf) + 1 >= CmdBufSize THEN <<>>
                              ELSE Append(cmdbuf, Head(rx))
                 /\ UNCHANGED <<lines, executed, mode, wire>>
<1>1. PICK x \in Oldest(rx) :
         /\ Take
         /\ \/ x = "LF" /\ UNCHANGED <<cmdbuf, lines, executed, mode, wire>>
            \/ /\ x \in {"CR"} /\ lines' = lines + 1
               /\ menu_handleLine(cmdbuf) /\ cmdbuf' = <<>>
            \/ /\ x \notin {"CR"} \union {"LF"}
               /\ cmdbuf' = IF Len(cmdbuf) + 1 >= CmdBufSize THEN <<>> ELSE Append(cmdbuf, x)
               /\ UNCHANGED <<lines, executed, mode, wire>>
  BY Zenon DEF CommandLine, CommandLineWith
<1>2. rx # <<>> /\ x = Head(rx)
  BY OldestIs
<1>3. mode = "cmd" /\ UNCHANGED <<datpos, waits, flash, inbuf, clientVars>>
  BY Zenon DEF CommandLine, CommandLineWith
<1>4. rx' = Tail(rx)
  BY <1>1, Zenon DEF Take
<1> QED
  BY <1>1, <1>2, <1>3, <1>4, Zenon

LEMMA OwnCommandLine ==
    ASSUME NEW s, NEW a, NEW b, Session(s, a, b), NEW c, NEW n, NEW m, NEW p,
           Plain, Own(s, a, b, c, n, m, p), CommandLine
    PROVE  /\ wire' \in Seq(Items)
           /\ \E c2, m2, p2 \in Nat : Own(s, a, b, c2, n, m2, p2)'
<1>1. /\ mode = "cmd" /\ rx # <<>> /\ rx' = Tail(rx)
      /\ UNCHANGED <<datpos, waits, flash, inbuf, clientVars>>
      /\ \/ Head(rx) = "LF" /\ UNCHANGED <<cmdbuf, lines, executed, mode, wire>>
         \/ /\ Head(rx) = "CR" /\ lines' = lines + 1
            /\ menu_handleLine(cmdbuf) /\ cmdbuf' = <<>>
         \/ /\ Head(rx) \notin {"CR", "LF"}
            /\ cmdbuf' = IF Len(cmdbuf) + 1 >= CmdBufSize THEN <<>>
                         ELSE Append(cmdbuf, Head(rx))
            /\ UNCHANGED <<lines, executed, mode, wire>>
  BY CommandLineSteps, Zenon
<1>2. UNCHANGED <<script, client, step, sent, answered, found>>
  BY <1>1 DEF clientVars
<1>3. Talk(s, a, c, n) /\ Text(s, a, c, n, m, p) /\ Taken(s, a, b, c) /\ Said(s, a, c)
  BY DEF Own
<1>4. /\ c \in Nat /\ n \in Nat /\ m \in Nat /\ p \in Nat /\ n <= Len(s) - a /\ c <= n /\ n <= c+2
      /\ cmdbuf \in Seq(Chars) /\ Len(cmdbuf) \in Nat /\ Len(cmdbuf) < CmdBufSize
      /\ lines \in Nat /\ lines <= c /\ c <= lines+1 /\ (found = "cmd" => lines = c)
  BY <1>3 DEF Talk, Text, Taken
<1>5. /\ Head(rx) \in Chars
      /\ \/ m > 0 /\ c = 0 /\ Head(rx) \in Ctl /\ Stream(s, a, c, n, m-1, p, Tail(rx))
         \/ m = 0 /\ p = 0 /\ c > 0 /\ Head(rx) = "LF" /\ Stream(s, a, c, n, 0, 1, Tail(rx))
         \/ /\ m = 0 /\ c > 0 /\ n > c /\ p \in 1..Len(Line(s, a, c+1))
            /\ Head(rx) = Line(s, a, c+1)[p] /\ Stream(s, a, c, n, 0, p+1, Tail(rx))
         \/ /\ m = 0 /\ n > c /\ p = Len(Line(s, a, c+1)) + 1
            /\ Head(rx) = "CR" /\ Stream(s, a, c+1, n, 0, 0, Tail(rx))
  BY <1>1, <1>3, <1>4, FirstChar
<1>6. inbuf \in Seq(Items) /\ wire \in Seq(Items)
  BY DEF Plain
<1>7. a \in Nat /\ Len(s) \in Nat
  BY Shape
<1>8. n > c => /\ c+1 \in 1..Len(s)-a /\ Line(s, a, c+1) \in Seq(Chars)
               /\ Len(Line(s, a, c+1)) \in Nat /\ Len(Line(s, a, c+1)) < CmdBufSize
               /\ \A i \in 1..Len(Line(s, a, c+1)) :
                     Line(s, a, c+1)[i] \notin {"CAN", "ETX", "CR", "LF"}
  <2>1. n > c => c+1 \in 1..Len(s)-a
    BY <1>4, <1>7
  <2> QED
    BY <2>1, LineText
<1>9. ASSUME UNCHANGED <<lines, executed, mode, wire>>
      PROVE  /\ Talk(s, a, c, n)' /\ Taken(s, a, b, c)' /\ Said(s, a, c)'
             /\ wire' \in Seq(Items)
  <2>1. Queue' = Queue
    BY <1>1, <1>9 DEF Queue
  <2>2. UNCHANGED <<script, client, step, sent, answered, found, lines>>
    BY <1>2, <1>9
  <2>3. UNCHANGED <<executed, mode, lines, found>>
    BY <1>2, <1>9
  <2>4. Talk(s, a, c, n)'
    BY <1>3, <2>2, TalkKept
  <2>5. Taken(s, a, b, c)'
    BY <1>3, <2>3, TakenKept
  <2>6. Said(s, a, c)'
    BY <1>3, <2>1, <2>2, SaidKept
  <2> QED
    BY <2>4, <2>5, <2>6, <1>6, <1>9
<1>10. CASE m > 0 /\ c = 0 /\ Head(rx) \in Ctl /\ Stream(s, a, c, n, m-1, p, Tail(rx))
  <2>1. Head(rx) \notin {"CR", "LF"}
    BY <1>10 DEF Ctl
  <2>2. /\ cmdbuf' = IF Len(cmdbuf) + 1 >= CmdBufSize THEN <<>> ELSE Append(cmdbuf, Head(rx))
        /\ UNCHANGED <<lines, executed, mode, wire>>
    BY <1>1, <2>1
  <2>3. NoCommand(cmdbuf)
    BY <1>3, <1>10 DEF Text
  <2>4. cmdbuf' \in Seq(Chars) /\ Len(cmdbuf') < CmdBufSize /\ NoCommand(cmdbuf')
    <3>1. CASE Len(cmdbuf) + 1 >= CmdBufSize
      <4>1. cmdbuf' = <<>>
        BY <2>2, <3>1
      <4>2. <<>> \in Seq(Chars) /\ Len(<<>>) < CmdBufSize
        BY ConsoleAssumption
      <4> QED
        BY <4>1, <4>2, NoCommandEmpty, Zenon
    <3>2. CASE ~(Len(cmdbuf) + 1 >= CmdBufSize)
      <4>1. cmdbuf' = Append(cmdbuf, Head(rx))
        BY <2>2, <3>2
      <4>2. NoCommand(Append(cmdbuf, Head(rx)))
        BY <1>4, <1>10, <2>3, NoCommandCtl
      <4>3. Append(cmdbuf, Head(rx)) \in Seq(Chars) /\ Len(Append(cmdbuf, Head(rx))) < CmdBufSize
        BY <1>4, <1>5, <3>2, ConsoleAssumption
      <4> QED
        BY <4>1, <4>2, <4>3, Zenon
    <3> QED
      BY <3>1, <3>2
  <2>5. m-1 \in Nat /\ c = 0
    BY <1>4, <1>10
  <2>6. p = 1 /\ p <= IF n = c THEN 1 ELSE Len(Line(s, a, c+1)) + 1
    BY <1>3, <1>10 DEF Text
  <2>7. Text(s, a, c, n, m-1, p)'
    BY <1>1, <1>4, <1>10, <2>4, <2>5, <2>6 DEF Text
  <2> QED
    BY <1>4, <1>9, <2>2, <2>5, <2>7 DEF Own
<1>11. CASE m = 0 /\ p = 0 /\ c > 0 /\ Head(rx) = "LF" /\ Stream(s, a, c, n, 0, 1, Tail(rx))
  <2>1. UNCHANGED <<cmdbuf, lines, executed, mode, wire>>
    BY <1>1, <1>11
  <2>2. Len(cmdbuf) = 0
    BY <1>3, <1>11 DEF Text
  <2>3. 1 <= IF n = c THEN 1 ELSE Len(Line(s, a, c+1)) + 1
    BY <1>4, <1>8
  <2>4. Text(s, a, c, n, 0, 1)'
    BY <1>1, <1>4, <1>11, <2>1, <2>2, <2>3 DEF Text
  <2> QED
    BY <1>4, <1>9, <2>1, <2>4 DEF Own
<1>12. CASE /\ m = 0 /\ c > 0 /\ n > c /\ p \in 1..Len(Line(s, a, c+1))
            /\ Head(rx) = Line(s, a, c+1)[p] /\ Stream(s, a, c, n, 0, p+1, Tail(rx))
  <2>1. Head(rx) \notin {"CR", "LF"}
    BY <1>8, <1>12
  <2>2. /\ cmdbuf' = IF Len(cmdbuf) + 1 >= CmdBufSize THEN <<>> ELSE Append(cmdbuf, Head(rx))
        /\ UNCHANGED <<lines, executed, mode, wire>>
    BY <1>1, <2>1
  <2>3. Len(cmdbuf) = p-1 /\ \A i \in 1..Len(cmdbuf) : cmdbuf[i] = Line(s, a, c+1)[i]
    BY <1>3, <1>12 DEF Text
  <2>4. ~(Len(cmdbuf) + 1 >= CmdBufSize)
    BY <1>8, <1>12, <2>3, ConsoleAssumption
  <2>5. cmdbuf' = Append(cmdbuf, Head(rx))
    BY <2>2, <2>4
  <2>6. /\ cmdbuf' \in Seq(Chars) /\ Len(cmdbuf') = p /\ Len(cmdbuf') < CmdBufSize
        /\ cmdbuf'[p] = Head(rx) /\ \A i \in 1..p-1 : cmdbuf'[i] = cmdbuf[i]
    BY <1>4, <1>5, <1>12, <2>3, <2>4, <2>5, ConsoleAssumption
  <2>7. \A i \in 1..p : cmdbuf'[i] = Line(s, a, c+1)[i]
    <3> SUFFICES ASSUME NEW i \in 1..p PROVE cmdbuf'[i] = Line(s, a, c+1)[i]
      OBVIOUS
    <3>1. i = p \/ i \in 1..p-1
      BY <1>4
    <3> QED
      BY <3>1, <1>12, <2>3, <2>6, Zenon
  <2>8. p+1 <= IF n = c THEN 1 ELSE Len(Line(s, a, c+1)) + 1
    BY <1>4, <1>8, <1>12
  <2>9. p+1 \in Nat /\ p+1 # 0 /\ p+1-1 = p
    BY <1>4
  <2>10. Text(s, a, c, n, 0, p+1)'
    BY <1>1, <1>4, <1>12, <2>6, <2>7, <2>8, <2>9 DEF Text
  <2> QED
    BY <1>4, <1>9, <2>2, <2>9, <2>10 DEF Own
<1>13. CASE /\ m = 0 /\ n > c /\ p = Len(Line(s, a, c+1)) + 1
            /\ Head(rx) = "CR" /\ Stream(s, a, c+1, n, 0, 0, Tail(rx))
  <2>1. lines' = lines + 1 /\ menu_handleLine(cmdbuf) /\ cmdbuf' = <<>>
    BY <1>1, <1>13
  <2>2. /\ c # Len(s) - a
        /\ executed' = Done(s, a, b, c+1)
        /\ IF c+1 = Len(s) - a
           THEN \/ /\ mode' = "dxstart" /\ Say(<<"CTRL+C to cancel.">>)
                   /\ s[Len(s)].ender = "CTRL+C to cancel."
                \/ /\ mode' = "uxwait" /\ Say(<<"READY", "NAK">>)
                   /\ s[Len(s)].ender \in {"READY", "NAK"}
           ELSE /\ mode' = "cmd"
                /\ Say(<<"prompt">>) \/ \E x \in Neutral : Say(<<x, "prompt">>)
    BY <1>1, <1>3, <1>4, <1>13, <2>1, LineEnds
  <2>3. Talk(s, a, c+1, n)'
    <3>1. ~(client = "idle" /\ step > Len(s))
      BY <1>3, <2>2 DEF Talk
    <3>2. AtLine(s, a, n)'
      BY <1>2, <1>3 DEF Talk, AtLine
    <3>3. /\ script = s /\ answered \in Nat /\ answered <= lines
          /\ n <= answered + (IF client = "reading" THEN 1 ELSE 0)
                            + (IF found = "cmd" THEN 0 ELSE 1)
      BY <1>3 DEF Talk
    <3>4. answered <= lines + 1
      BY <1>4, <3>3
    <3> QED
      BY <1>2, <1>4, <2>1, <3>1, <3>2, <3>3, <3>4, Zenon DEF Talk
  <2>4. Text(s, a, c+1, n, 0, 0)'
    <3>1. cmdbuf' \in Seq(Chars) /\ Len(cmdbuf') = 0 /\ 0 < CmdBufSize
      BY <2>1, ConsoleAssumption
    <3>2. 0 <= IF n = c+1 THEN 1 ELSE Len(Line(s, a, (c+1)+1)) + 1
      <4>1. CASE n = c+1
        BY <4>1
      <4>2. CASE n # c+1
        <5>1. (c+1)+1 \in 1..Len(s)-a
          BY <1>4, <1>7, <1>13, <4>2
        <5> QED
          BY <4>2, <5>1, LineText
      <4> QED
        BY <4>1, <4>2
    <3> QED
      BY <1>1, <1>4, <1>13, <3>1, <3>2 DEF Text
  <2>5. Taken(s, a, b, c+1)'
    <3>1. /\ lines' \in Nat /\ lines' <= c+1 /\ c+1 <= lines'+1
          /\ found' = "cmd" => lines' = c+1
      BY <1>2, <1>4, <2>1
    <3>2. IF c+1 = Len(s) - a THEN mode' \in {"dxstart", "uxwait"} ELSE mode' = "cmd"
      BY <2>2
    <3> QED
      BY <2>2, <3>1, <3>2, Zenon DEF Taken
  <2>6. wire' \in Seq(Items) /\ Said(s, a, c+1)'
    <3>1. lines' \in Nat /\ inbuf' = inbuf
      BY <1>1, <1>4, <2>1
    <3>2. CASE c+1 # Len(s) - a
      <4>1. Say(<<"prompt">>) \/ \E x \in Neutral : Say(<<x, "prompt">>)
        BY <2>2, <3>2
      <4>2. "prompt" \in Whats /\ Neutral \subseteq Whats
        BY DEF Whats
      <4>3. CASE Say(<<"prompt">>)
        <5>1. wire' \in Seq(Items) /\ Queue' = Append(Queue, It("prompt", lines'))
          BY <1>6, <3>1, <4>2, <4>3, SayOne
        <5>2. Said(s, a, c+1)'
          BY <1>2, <1>3, <1>4, <2>1, <2>2, <3>2, <5>1, SaidLine, Zenon
        <5> QED
          BY <5>1, <5>2
      <4>4. ASSUME NEW x \in Neutral, Say(<<x, "prompt">>)
            PROVE  wire' \in Seq(Items) /\ Said(s, a, c+1)'
        <5> DEFINE q == Append(Queue, It(x, lines'))
        <5>1. wire' \in Seq(Items) /\ Queue' = Append(q, It("prompt", lines'))
          BY <1>6, <3>1, <4>2, <4>4, SayTwo
        <5>2. q = Append(Queue, It(x, lines'))
          OBVIOUS
        <5> HIDE DEF q
        <5>3. Said(s, a, c+1)'
          BY <1>2, <1>3, <1>4, <2>1, <2>2, <3>2, <5>1, <5>2, SaidLine, Zenon
        <5> QED
          BY <5>1, <5>3
      <4> QED
        BY <4>1, <4>3, <4>4
    <3>3. CASE c+1 = Len(s) - a
      <4>0. Xfer \subseteq Whats /\ {"READY", "NAK", "CTRL+C to cancel."} \subseteq Xfer
        BY DEF Whats, Xfer
      <4>1. CASE Say(<<"CTRL+C to cancel.">>) /\ s[Len(s)].ender = "CTRL+C to cancel."
        <5>1. /\ wire' \in Seq(Items)
              /\ Queue' = Append(Queue, It("CTRL+C to cancel.", lines'))
          BY <1>6, <3>1, <4>0, <4>1, SayOne
        <5>2. Said(s, a, c+1)'
          BY <1>2, <1>3, <1>4, <1>13, <2>1, <3>3, <4>0, <4>1, <5>1, SaidLast
        <5> QED
          BY <5>1, <5>2
      <4>2. CASE Say(<<"READY", "NAK">>) /\ s[Len(s)].ender \in {"READY", "NAK"}
        <5>1. /\ wire' \in Seq(Items)
              /\ Queue' = Append(Append(Queue, It("READY", lines')), It("NAK", lines'))
          BY <1>6, <3>1, <4>0, <4>2, SayTwo
        <5>2. Said(s, a, c+1)'
          BY <1>2, <1>3, <1>4, <1>13, <2>1, <3>3, <4>0, <4>2, <5>1, SaidLast
        <5> QED
          BY <5>1, <5>2
      <4> QED
        BY <2>2, <3>3, <4>1, <4>2
    <3> QED
      BY <3>2, <3>3
  <2>7. c+1 \in Nat /\ 0 \in Nat
    BY <1>4
  <2> QED
    BY <2>3, <2>4, <2>5, <2>6, <2>7 DEF Own
<1> QED
  BY <1>5, <1>10, <1>11, <1>12, <1>13, Zenon


\* Once the last line is taken, only its line feed is left.
LEMMA OwnLast ==
    ASSUME NEW s, NEW a, NEW b, Session(s, a, b), NEW c, NEW n, NEW m, NEW p,
           Own(s, a, b, c, n, m, p), mode # "cmd"
    PROVE  /\ c \in Nat /\ n \in Nat /\ m \in Nat /\ p \in Nat
           /\ c = Len(s) - a /\ c = n /\ mode \in {"dxstart", "uxwait"}
           /\ lines \in Nat
           /\ rx # <<>> => Head(rx) = "LF"
           /\ rx # <<>> /\ rx' = Tail(rx) /\ cmdbuf' = cmdbuf => Text(s, a, c, n, 0, 1)'
<1>1. Len(s) - a \in Nat /\ Len(s) - a >= 2
  BY Shape
<1>2. Talk(s, a, c, n) /\ Text(s, a, c, n, m, p) /\ Taken(s, a, b, c)
  BY DEF Own
<1>3. c = Len(s) - a /\ mode \in {"dxstart", "uxwait"} /\ lines \in Nat
  BY <1>2 DEF Taken
<1>4. c \in Nat /\ n \in Nat /\ m \in Nat /\ p \in Nat /\ c <= n /\ n <= Len(s) - a
  BY <1>2 DEF Talk, Text
<1>5. c = n /\ c > 0
  BY <1>1, <1>3, <1>4
<1>6. rx # <<>> => /\ m = 0 /\ p = 0 /\ Head(rx) = "LF" /\ Stream(s, a, c, n, 0, 1, Tail(rx))
  BY <1>2, <1>4, <1>5, FirstChar
<1>7. ASSUME rx # <<>>, rx' = Tail(rx), cmdbuf' = cmdbuf
      PROVE  Text(s, a, c, n, 0, 1)'
  <2>1. Len(cmdbuf) = 0
    BY <1>2, <1>5, <1>6, <1>7 DEF Text
  <2>2. cmdbuf \in Seq(Chars) /\ Len(cmdbuf) < CmdBufSize
    BY <1>2 DEF Text
  <2> QED
    BY <1>4, <1>5, <1>6, <1>7, <2>1, <2>2 DEF Text
<1> QED
  BY <1>3, <1>4, <1>5, <1>6, <1>7

LEMMA OwnDownloadLoops ==
    ASSUME NEW s, NEW a, NEW b, Session(s, a, b), NEW c, NEW n, NEW m, NEW p,
           Plain, Own(s, a, b, c, n, m, p), DownloadLoops
    PROVE  wire' \in Seq(Items) /\ Own(s, a, b, c, n, 0, 1)'
<1>1. PICK x \in Oldest(rx) :
         Take /\ IF <<mode, x>> \in {<<"dxstart", "ETX">>, <<"dxack", "CAN">>}
                 THEN Returns ELSE UNCHANGED <<mode, wire>>
  BY Zenon DEF DownloadLoops
<1>2. /\ mode \in {"dxstart", "dxack", "dxeot"} /\ lines' = lines
      /\ UNCHANGED <<cmdbuf, datpos, waits, flash, executed, inbuf, clientVars>>
  BY Zenon DEF DownloadLoops
<1>3. rx # <<>> /\ x = Head(rx) /\ rx' = Tail(rx)
  BY <1>1, OldestIs DEF Take
<1>4. mode # "cmd"
  BY <1>2
<1>5. /\ mode \in {"dxstart", "uxwait"} /\ Head(rx) = "LF" /\ Text(s, a, c, n, 0, 1)'
  BY <1>2, <1>3, <1>4, OwnLast
<1>6. UNCHANGED <<mode, wire>>
  BY <1>1, <1>2, <1>3, <1>5
<1>7. Queue' = Queue
  BY <1>2, <1>6 DEF Queue
<1>8. UNCHANGED <<script, client, step, sent, answered, found, lines>>
  BY <1>2 DEF clientVars
<1>9. Talk(s, a, c, n)'
  BY <1>8, TalkKept DEF Own
<1>10. Taken(s, a, b, c)'
  BY <1>2, <1>6, <1>8, TakenKept DEF Own
<1>11. Said(s, a, c)'
  BY <1>7, <1>8, SaidKept DEF Own
<1> QED
  BY <1>5, <1>6, <1>9, <1>10, <1>11 DEF Own, Plain

LEMMA OwnUploadWait ==
    ASSUME NEW s, NEW a, NEW b, Session(s, a, b), NEW c, NEW n, NEW m, NEW p,
           Plain, Own(s, a, b, c, n, m, p), UploadWait
    PROVE  wire' \in Seq(Items) /\ Own(s, a, b, c, n, 0, 1)'
<1>1. PICK x \in Oldest(rx) :
         Take /\ IF x \in {"ETX", "CAN"} THEN Returns ELSE mode' = mode /\ Say(<<"NAK">>)
  BY Zenon DEF UploadWait
<1>2. /\ mode = "uxwait" /\ lines' = lines
      /\ UNCHANGED <<cmdbuf, datpos, flash, executed, inbuf, clientVars>>
  BY Zenon DEF UploadWait
<1>3. rx # <<>> /\ x = Head(rx) /\ rx' = Tail(rx)
  BY <1>1, OldestIs DEF Take
<1>4. mode # "cmd"
  BY <1>2
<1>5. /\ Head(rx) = "LF" /\ Text(s, a, c, n, 0, 1)' /\ lines \in Nat
      /\ c = Len(s) - a /\ c <= n
  BY <1>2, <1>3, <1>4, OwnLast
<1>6. mode' = mode /\ Say(<<"NAK">>)
  BY <1>1, <1>3, <1>5
<1>7. wire' \in Seq(Items) /\ Queue' = Append(Queue, It("NAK", lines'))
  BY <1>2, <1>5, <1>6, SayOne DEF Whats, Xfer, Plain
<1>8. UNCHANGED <<script, client, step, sent, answered, found, lines>>
  BY <1>2 DEF clientVars
<1>9. Talk(s, a, c, n)'
  BY <1>8, TalkKept DEF Own
<1>10. Taken(s, a, b, c)'
  BY <1>2, <1>6, <1>8, TakenKept DEF Own
<1>11. Said(s, a, c)'
  BY <1>5, <1>7, <1>8, SaidNak DEF Own
<1> QED
  BY <1>5, <1>7, <1>9, <1>10, <1>11 DEF Own

\* The upload of the session does not time out before the client goes on to it.
LEMMA OwnUploadTimeout ==
    ASSUME NEW s, NEW a, NEW b, Session(s, a, b), NEW c, NEW n, NEW m, NEW p,
           Plain, Own(s, a, b, c, n, m, p), UploadTimeout
    PROVE  wire' \in Seq(Items) /\ Own(s, a, b, c, n, m, p)'
<1>1. /\ mode \in {"uxwait", "uxrx"} /\ rx = <<>> /\ lines' = lines
      /\ IF waits + 1 = MaxNaks
         THEN /\ client # "idle" /\ wire = <<>> /\ inbuf = <<>>
              /\ waits' = 0 /\ datpos' = 0 /\ Returns
         ELSE /\ waits' = waits + 1 /\ UNCHANGED <<mode, datpos>>
              /\ IF mode = "uxwait" THEN Say(<<"NAK">>) ELSE UNCHANGED wire
      /\ UNCHANGED <<cmdbuf, flash, executed, rx, inbuf, clientVars>>
  BY Zenon DEF UploadTimeout
<1>2. mode # "cmd"
  BY <1>1
<1>3. mode \in {"dxstart", "uxwait"} /\ lines \in Nat /\ c = Len(s) - a /\ c = n /\ c \in Nat
  BY <1>2, OwnLast
<1>4. Talk(s, a, c, n) /\ Text(s, a, c, n, m, p) /\ Taken(s, a, b, c) /\ Said(s, a, c)
  BY DEF Own
<1>5. waits + 1 # MaxNaks
  <2> SUFFICES ASSUME client # "idle", wire = <<>>, inbuf = <<>> PROVE FALSE
    BY <1>1
  <2>1. a \in Nat /\ Len(s) \in Nat /\ n >= 1
    BY <1>3, Shape
  <2>2. client \in {"reading", "raised"}
    BY <1>4 DEF Talk, AtLine
  <2>3. CASE client = "reading"
    <3>1. \E i \in 1..Len(Queue) : Queue[i].what = s[Len(s)].ender
      BY <1>3, <1>4, <2>3, Zenon DEF Said
    <3>2. Len(Queue) = 0
      BY DEF Queue
    <3> QED
      BY <3>1, <3>2
  <2>4. CASE client = "raised"
    <3>1. step = a+n+1 /\ step <= Len(s)
      BY <1>3, <1>4, <2>1, <2>4 DEF Talk, AtLine
    <3> QED
      BY <1>3, <2>1, <3>1
  <2> QED
    BY <2>2, <2>3, <2>4
<1>6. mode' = mode /\ Say(<<"NAK">>)
  BY <1>1, <1>3, <1>5
<1>7. wire' \in Seq(Items) /\ Queue' = Append(Queue, It("NAK", lines'))
  BY <1>1, <1>3, <1>6, SayOne DEF Whats, Xfer, Plain
<1>8. UNCHANGED <<script, client, step, sent, answered, found, lines>>
  BY <1>1 DEF clientVars
<1>9. Talk(s, a, c, n)'
  BY <1>4, <1>8, TalkKept
<1>10. Taken(s, a, b, c)'
  BY <1>1, <1>4, <1>6, <1>8, TakenKept
<1>11. Said(s, a, c)'
  BY <1>3, <1>4, <1>7, <1>8, SaidNak
<1>12. Text(s, a, c, n, m, p)'
  BY <1>1, <1>4, TextKept
<1> QED
  BY <1>7, <1>9, <1>10, <1>11, <1>12 DEF Own


(***************************************************************************)
(* The client's steps, in its own session.                                 *)
(***************************************************************************)
LEMMA KindOf ==
    ASSUME NEW s, NEW a, NEW b, Session(s, a, b), NEW k \in 1..Len(s)
    PROVE  /\ s[k].kind = "abort" => k <= a
           /\ s[k].kind = "exchange" => k >= a+1
           /\ k >= a+1 => s[k].kind = "exchange"
<1>1. a \in Nat /\ b \in Nat /\ Len(s) \in Nat /\ a < b /\ b < Len(s)
  BY Shape
<1>2. CASE k <= a
  <2>1. k \in 1..a
    BY <1>1, <1>2
  <2>2. s[k].kind = "abort"
    BY <2>1, Zenon DEF Session, SessionOf
  <2>3. "abort" # "exchange" /\ ~(k >= a+1)
    BY <1>1, <1>2
  <2> QED
    BY <1>2, <2>2, <2>3, Zenon
<1>3. CASE k >= a+1
  <2>1. k \in a+1..b \/ k \in b+1..Len(s)
    BY <1>1, <1>3
  <2>2. s[k].kind = "exchange"
    BY <2>1, Zenon DEF Session, SessionOf
  <2>3. "abort" # "exchange"
    OBVIOUS
  <2> QED
    BY <1>3, <2>2, <2>3, Zenon
<1> QED
  BY <1>1, <1>2, <1>3

LEMMA OwnSendAbort ==
    ASSUME NEW s, NEW a, NEW b, Session(s, a, b), NEW c, NEW n, NEW m, NEW p,
           Own(s, a, b, c, n, m, p), SendAbort
    PROVE  UNCHANGED <<inbuf, wire>> /\ m+2 \in Nat /\ Own(s, a, b, c, n, m+2, p)'
<1>1. /\ client = "idle" /\ step <= Len(script) /\ script[step].kind = "abort"
      /\ rx' = rx \o <<"CAN", "ETX">> /\ step' = step + 1
      /\ UNCHANGED <<found, script, client, sawFlash, sent, answered, devVars, wire, inbuf>>
  BY Zenon DEF SendAbort, This
<1>2. Talk(s, a, c, n) /\ Text(s, a, c, n, m, p) /\ Taken(s, a, b, c) /\ Said(s, a, c)
  BY DEF Own
<1>3. a \in Nat /\ Len(s) \in Nat /\ Len(s) - a >= 2 /\ a < Len(s)
  BY Shape
<1>4. script = s /\ step \in 1..Len(s) /\ n \in Nat
  BY <1>1, <1>2, <1>3 DEF Talk, AtLine
<1>5. step <= a
  BY <1>1, <1>4, KindOf
<1>6. n = 0
  BY <1>1, <1>2, <1>3, <1>4, <1>5 DEF Talk, AtLine
<1>7. c = 0 /\ m \in Nat /\ p = 1 /\ Stream(s, a, 0, 0, m, 1, rx)
  BY <1>2, <1>6 DEF Text
<1>8. Stream(s, a, 0, 0, m+2, 1, rx')
  BY <1>1, <1>7, StreamAbort
<1>9. Text(s, a, c, n, m+2, p)'
  <2>1. cmdbuf' = cmdbuf /\ m+2 \in Nat
    BY <1>1, <1>7 DEF devVars
  <2> QED
    BY <1>2, <1>6, <1>7, <1>8, <2>1 DEF Text
<1>10. UNCHANGED <<found, script, client, sent, answered, executed, mode, lines, inbuf, wire>>
  BY <1>1 DEF devVars
<1>11. Taken(s, a, b, c)'
  BY <1>2, <1>10, TakenKept
<1>12. Talk(s, a, c, n)'
  <2>1. AtLine(s, a, n)'
    BY <1>1, <1>2, <1>3, <1>4, <1>5, <1>6, <1>10 DEF Talk, AtLine
  <2>2. ~(step' > Len(s))
    BY <1>1, <1>3, <1>4, <1>5
  <2> QED
    BY <1>2, <1>10, <2>1, <2>2, Zenon DEF Talk
<1>13. Said(s, a, c)'
  <2>1. First(a)' = First(a) /\ First(a) = TRUE
    BY <1>1, <1>4, <1>5, <1>3 DEF First
  <2>2. Base(s, a)' = Base(s, a)
    <3>1. ~(step > Len(s)) /\ ~(step' > Len(s))
      BY <1>1, <1>3, <1>4, <1>5
    <3> QED
      BY <1>10, <2>1, <3>1, Zenon DEF Base
  <2>3. Queue' = Queue
    BY <1>10 DEF Queue
  <2> QED
    BY <1>2, <1>10, <2>1, <2>2, <2>3, Zenon DEF Said
<1> QED
  BY <1>7, <1>9, <1>10, <1>11, <1>12, <1>13 DEF Own

LEMMA OwnSendCommand ==
    ASSUME NEW s, NEW a, NEW b, Session(s, a, b), NEW c, NEW n, NEW m, NEW p,
           Plain, Own(s, a, b, c, n, m, p), SendCommand
    PROVE  /\ inbuf' \in Seq(Items) /\ wire' \in Seq(Items)
           /\ n+1 \in Nat /\ Own(s, a, b, c, n+1, m, p)'
<1>1. /\ client = "idle" /\ step <= Len(script) /\ script[step].kind = "exchange"
      /\ inbuf' = <<>> /\ rx' = rx \o script[step].line \o <<"CR", "LF">>
      /\ client' = "reading" /\ sawFlash' = FALSE /\ sent' = sent + 1
      /\ UNCHANGED <<found, script, step, answered, devVars, wire>>
  BY Zenon DEF SendCommand, This
<1>2. Talk(s, a, c, n) /\ Text(s, a, c, n, m, p) /\ Taken(s, a, b, c) /\ Said(s, a, c)
  BY DEF Own
<1>3. a \in Nat /\ Len(s) \in Nat /\ Len(s) - a >= 2
  BY Shape
<1>4. script = s /\ step \in 1..Len(s) /\ n \in Nat /\ sent = n
  BY <1>1, <1>2, <1>3 DEF Talk, AtLine
<1>5. step = a+n+1
  <2>1. step >= a+1
    BY <1>1, <1>4, KindOf
  <2> QED
    BY <1>1, <1>2, <1>3, <1>4, <2>1 DEF Talk, AtLine
<1>6. n+1 <= Len(s) - a /\ n+1 \in Nat /\ n+1 \in 1..Len(s)-a
  BY <1>3, <1>4, <1>5
<1>7. answered \in Nat /\ answered <= lines /\ n <= answered + 1 /\ (found = "cmd" => n <= answered)
  BY <1>1, <1>2, <1>4 DEF Talk
<1>8. c \in Nat /\ lines \in Nat /\ lines <= c /\ c <= n /\ m \in Nat /\ p \in Nat
  BY <1>2 DEF Text, Taken
<1>9. n <= c+1
  BY <1>4, <1>7, <1>8
<1>10. UNCHANGED <<found, script, step, answered, executed, mode, lines, cmdbuf>>
  BY <1>1 DEF devVars
<1>11. Len(Line(s, a, c+1)) \in Nat
  <2>1. c+1 \in 1..Len(s)-a
    BY <1>3, <1>4, <1>6, <1>8
  <2> QED
    BY <2>1, LineText
<1>12. Text(s, a, c, n+1, m, p)'
  <2>1. p <= IF n = c THEN 1 ELSE Len(Line(s, a, c+1)) + 1
    BY <1>2 DEF Text
  <2>2. Total(s, a, c, n) \in Nat /\ p <= Total(s, a, c, n) + 1
    <3>1. CASE n = c
      BY <2>1, <3>1 DEF Total
    <3>2. CASE n = c+1
      <4>1. Total(s, a, c, n) = Len(Line(s, a, c+1)) + 2
        BY <1>8, <3>2 DEF Total
      <4> QED
        BY <1>8, <1>11, <2>1, <3>2, <4>1
    <3> QED
      BY <1>4, <1>8, <1>9, <3>1, <3>2
  <2>3. Stream(s, a, c, n, m, p, rx)
    BY <1>2 DEF Text
  <2>4. Stream(s, a, c, n+1, m, p, rx \o Line(s, a, n+1) \o <<"CR", "LF">>)
    BY <1>4, <1>6, <1>8, <1>9, <2>2, <2>3, StreamSend
  <2>5. script[step].line = Line(s, a, n+1)
    <3>1. step = a+(n+1)
      BY <1>3, <1>4, <1>5
    <3> QED
      BY <1>4, <3>1 DEF Line
  <2>6. Stream(s, a, c, n+1, m, p, rx')
    BY <1>1, <2>4, <2>5
  <2>7. c <= n+1 /\ n+1 <= c+2
    BY <1>4, <1>8, <1>9
  <2>8. p <= IF n+1 = c THEN 1 ELSE Len(Line(s, a, c+1)) + 1
    BY <1>4, <1>8, <1>11, <2>1
  <2>9. /\ c = 0 => p = 1 /\ NoCommand(cmdbuf)
        /\ c > 0 => m = 0
        /\ cmdbuf \in Seq(Chars) /\ Len(cmdbuf) < CmdBufSize
        /\ c > 0 => /\ Len(cmdbuf) = IF p = 0 THEN 0 ELSE p-1
                    /\ \A i \in 1..Len(cmdbuf) : cmdbuf[i] = Line(s, a, c+1)[i]
    BY <1>2 DEF Text
  <2> QED
    BY <1>8, <1>10, <2>6, <2>7, <2>8, <2>9, Zenon DEF Text
<1>13. Taken(s, a, b, c)'
  BY <1>2, <1>10, TakenKept
<1>14. c # Len(s) - a
  BY <1>3, <1>4, <1>6, <1>8
<1>15. Talk(s, a, c, n+1)'
  <2>1. AtLine(s, a, n+1)'
    <3>1. step' = a+(n+1) /\ n+1 >= 1 /\ n+1 # 0 /\ sent' = n+1 /\ step' \in Nat /\ step' >= 1
      BY <1>1, <1>3, <1>4, <1>5, <1>10
    <3> QED
      BY <1>1, <3>1 DEF AtLine
  <2>2. n+1 <= answered + (IF client' = "reading" THEN 1 ELSE 0) + (IF found = "cmd" THEN 0 ELSE 1)
    BY <1>1, <1>4, <1>7
  <2>3. client' # "idle"
    BY <1>1
  <2> QED
    BY <1>4, <1>6, <1>7, <1>10, <2>1, <2>2, <2>3, Zenon DEF Talk
<1>16. Said(s, a, c)'
  <2>1. First(a)' = First(a) /\ Base(s, a)' = Base(s, a)
    BY <1>10 DEF First, Base
  <2>2. inbuf \in Seq(Items) /\ wire \in Seq(Items)
    BY DEF Plain
  <2>3. QueueOK(inbuf \o wire, lines, Base(s, a), First(a), c = Len(s) - a)
    BY <1>2, Zenon DEF Said, Queue
  <2>4. QueueOK(wire, lines, Base(s, a), First(a), c = Len(s) - a)
    BY <2>2, <2>3, QueueDrop, Zenon
  <2>5. Queue' = wire
    <3>1. <<>> \o wire = wire
      BY <2>2, QueueMoves
    <3> QED
      BY <1>1, <3>1, Zenon DEF Queue
  <2> QED
    BY <1>10, <1>14, <2>1, <2>4, <2>5, Zenon DEF Said
<1>17. inbuf' \in Seq(Items) /\ wire' \in Seq(Items)
  BY <1>1 DEF Plain
<1> QED
  BY <1>6, <1>12, <1>13, <1>15, <1>16, <1>17 DEF Own

LEMMA OwnArrive ==
    ASSUME NEW s, NEW a, NEW b, NEW c, NEW n, NEW m, NEW p,
           Plain, Own(s, a, b, c, n, m, p), Arrive
    PROVE  /\ inbuf' \in Seq(Items) /\ wire' \in Seq(Items)
           /\ Own(s, a, b, c, n, m, p)'
<1>1. /\ wire # <<>> /\ inbuf' = Append(inbuf, Head(wire)) /\ wire' = Tail(wire)
      /\ UNCHANGED <<devVars, clientVars, rx>>
  BY Zenon DEF Arrive
<1>2. Talk(s, a, c, n) /\ Text(s, a, c, n, m, p) /\ Taken(s, a, b, c) /\ Said(s, a, c)
  BY DEF Own
<1>3. UNCHANGED <<script, client, step, sent, answered, found, lines, executed, mode, cmdbuf, rx>>
  BY <1>1 DEF devVars, clientVars
<1>4. inbuf \in Seq(Items) /\ wire \in Seq(Items)
  BY DEF Plain
<1>5. /\ Append(inbuf, Head(wire)) \o Tail(wire) = inbuf \o wire
      /\ Append(inbuf, Head(wire)) \in Seq(Items) /\ Tail(wire) \in Seq(Items)
  BY <1>1, <1>4, QueueMoves
<1>6. Queue' = Queue
  BY <1>1, <1>5, Zenon DEF Queue
<1>7. Talk(s, a, c, n)'
  BY <1>2, <1>3, TalkKept
<1>8. Text(s, a, c, n, m, p)'
  BY <1>2, <1>3, TextKept
<1>9. Taken(s, a, b, c)'
  BY <1>2, <1>3, TakenKept
<1>10. Said(s, a, c)'
  BY <1>2, <1>3, <1>6, SaidKept
<1> QED
  BY <1>1, <1>5, <1>7, <1>8, <1>9, <1>10 DEF Own


LEMMA OwnReadAnswer ==
    ASSUME NEW s, NEW a, NEW b, Session(s, a, b), NEW c, NEW n, NEW m, NEW p,
           Plain, Own(s, a, b, c, n, m, p), ReadAnswer
    PROVE  /\ inbuf' \in Seq(Items) /\ wire' = wire
           /\ Own(s, a, b, c, n, m, p)'
<1>1. PICK x \in Oldest(inbuf) :
         /\ inbuf' = Tail(inbuf)
         /\ sawFlash' = (sawFlash \/ x.what = "FLASH")
         /\ IF x.what # script[step].ender
            THEN UNCHANGED <<client, step, answered>>
            ELSE /\ answered' = x.at
                 /\ step' = step + 1
                 /\ client' = IF script[step].flashOnly /\ ~sawFlash' THEN "raised" ELSE "idle"
  BY Zenon DEF ReadAnswer, This
<1>2. client = "reading" /\ UNCHANGED <<found, script, sent, devVars, rx, wire>>
  BY Zenon DEF ReadAnswer
<1>3. inbuf # <<>> /\ x = Head(inbuf)
  BY OldestIs
<1>4. Talk(s, a, c, n) /\ Text(s, a, c, n, m, p) /\ Taken(s, a, b, c) /\ Said(s, a, c)
  BY DEF Own
<1>5. a \in Nat /\ b \in Nat /\ Len(s) \in Nat /\ Len(s) - a >= 2
  BY Shape
<1>6. /\ script = s /\ n \in Nat /\ n >= 1 /\ sent = n /\ step = a+n /\ n <= Len(s) - a
      /\ answered \in Nat /\ answered <= lines
      /\ n <= answered + 1 + (IF found = "cmd" THEN 0 ELSE 1)
  BY <1>2, <1>4 DEF Talk, AtLine
<1>7. c \in Nat /\ c <= n /\ lines \in Nat /\ lines <= c /\ c <= lines+1
      /\ (found = "cmd" => lines = c)
  BY <1>4 DEF Text, Taken
<1>8. inbuf \in Seq(Items) /\ wire \in Seq(Items)
  BY DEF Plain
<1>9. /\ Queue # <<>> /\ Head(Queue) = x /\ x \in Items
      /\ Tail(inbuf) \o wire = Tail(Queue) /\ Tail(inbuf) \in Seq(Items)
      /\ Queue \in Seq(Items)
  BY <1>3, <1>8, QueueMoves DEF Queue
<1>10. Queue' = Tail(Queue)
  BY <1>1, <1>2, <1>9, Zenon DEF Queue
<1>11. UNCHANGED <<script, sent, found, lines, executed, mode, cmdbuf, rx, wire>>
  BY <1>2 DEF devVars
<1>12. Text(s, a, c, n, m, p)' /\ Taken(s, a, b, c)'
  BY <1>4, <1>11, TextKept, TakenKept
<1>13. QueueOK(Queue, lines, Base(s, a), First(a), c = Len(s) - a)
  BY <1>4, Zenon DEF Said
<1>14. CASE x.what # script[step].ender
  <2>1. UNCHANGED <<client, step, answered>>
    BY <1>1, <1>14
  <2>2. Talk(s, a, c, n)'
    BY <1>4, <1>11, <2>1, TalkKept
  <2>3. QueueOK(Tail(Queue), lines, Base(s, a), First(a), c = Len(s) - a)
    BY <1>9, <1>13, QueueTail, Zenon
  <2>4. Base(s, a)' = Base(s, a) /\ First(a)' = First(a)
    BY <1>11, <2>1 DEF Base, First
  <2>5. ASSUME c = Len(s) - a
        PROVE  \E i \in 1..Len(Queue') : Queue'[i].what = s[Len(s)].ender
    <3>1. step = Len(s)
      BY <1>5, <1>6, <1>7, <2>5
    <3>2. PICK i \in 1..Len(Queue) : Queue[i].what = s[Len(s)].ender
      BY <1>2, <1>4, <2>5, Zenon DEF Said
    <3>3. Queue[1].what # s[Len(s)].ender
      <4>1. Head(Queue) = Queue[1]
        BY <1>9
      <4> QED
        BY <1>6, <1>9, <1>14, <3>1, <4>1, Zenon
    <3>4. i # 1
      BY <3>2, <3>3
    <3>5. i-1 \in 1..Len(Tail(Queue)) /\ Tail(Queue)[i-1] = Queue[i]
      BY <1>9, <3>4
    <3> QED
      BY <1>10, <3>2, <3>5, Zenon
  <2>6. Said(s, a, c)'
    BY <1>10, <1>11, <2>3, <2>4, <2>5, Zenon DEF Said
  <2> QED
    BY <1>1, <1>9, <1>11, <1>12, <2>2, <2>6 DEF Own
<1>15. CASE x.what = script[step].ender
  <2>1. /\ answered' = x.at /\ step' = step + 1
        /\ client' = IF script[step].flashOnly /\ ~sawFlash' THEN "raised" ELSE "idle"
    BY <1>1, <1>15
  <2>2. client' \in {"idle", "raised"}
    BY <2>1
  <2>3. First(a)' = FALSE
    BY <1>5, <1>6, <2>1 DEF First
  <2>4. step' = a+n+1 /\ n # 0 /\ step' \in Nat /\ step' >= 1
    BY <1>5, <1>6, <2>1
  <2>5. CASE step < Len(s)
    <3>1. step \in a+1..Len(s)-1
      BY <1>5, <1>6, <2>5
    <3>2. x.what = "prompt"
      BY <1>6, <1>15, <3>1, Zenon DEF Session, SessionOf
    <3>3. /\ x.at \in Nat /\ x.at >= Base(s, a) /\ x.at <= lines
          /\ QueueOK(Tail(Queue), lines, x.at + 1, FALSE, c = Len(s) - a)
      BY <1>7, <1>9, <1>13, <3>2, QueuePrompt
    <3>4. Base(s, a)' = x.at + 1
      <4>1. ~(step' > Len(s))
        BY <1>5, <1>6, <2>1, <2>5
      <4> QED
        BY <2>1, <2>3, <4>1, Zenon DEF Base
    <3>5. Said(s, a, c)'
      <4>1. client' # "reading"
        BY <2>2
      <4> QED
        BY <1>10, <1>11, <2>3, <3>3, <3>4, <4>1, Zenon DEF Said
    <3>6. n <= x.at + (IF found = "cmd" THEN 0 ELSE 1)
      <4>1. CASE First(a) /\ found # "cmd"
        <5>1. n <= 1
          BY <1>5, <1>6, <4>1 DEF First
        <5> QED
          BY <1>6, <3>3, <4>1, <5>1
      <4>2. CASE ~(First(a) /\ found # "cmd")
        <5>1. Base(s, a) = answered + 1
          <6>1. ~(step > Len(s))
            BY <1>5, <1>6, <2>5
          <6> QED
            BY <4>2, <6>1, Zenon DEF Base
        <5> QED
          BY <1>6, <3>3, <5>1
      <4> QED
        BY <4>1, <4>2
    <3>7. step' <= Len(s)
      BY <1>5, <1>6, <2>1, <2>5
    <3>8. AtLine(s, a, n)'
      BY <1>6, <1>11, <2>2, <2>4, <3>7 DEF AtLine
    <3>9. Talk(s, a, c, n)'
      <4>1. ~(step' > Len(s))
        BY <1>5, <2>4, <3>7
      <4>2. n <= answered' + (IF client' = "reading" THEN 1 ELSE 0) + (IF found' = "cmd" THEN 0 ELSE 1)
        BY <1>6, <1>11, <2>1, <2>2, <3>3, <3>6
      <4>3. answered' \in Nat /\ answered' <= lines'
        BY <1>11, <2>1, <3>3
      <4> QED
        BY <1>6, <1>11, <3>8, <4>1, <4>2, <4>3, Zenon DEF Talk
    <3> QED
      BY <1>1, <1>9, <1>11, <1>12, <3>5, <3>9 DEF Own
  <2>6. CASE step = Len(s)
    <3>1. n = Len(s) - a /\ ~First(a)
      BY <1>5, <1>6, <2>6 DEF First
    <3>2. x.what \in Xfer /\ ~s[Len(s)].flashOnly
      BY <1>6, <1>15, <2>6 DEF Session, SessionOf, Xfer
    <3>3. c = Len(s) - a /\ x.at = lines
      <4>1. 1 \in 1..Len(Queue) /\ Queue[1] = x
        BY <1>9
      <4> QED
        BY <1>13, <3>1, <3>2, <4>1, Zenon DEF QueueOK
    <3>4. client' = "idle"
      BY <1>6, <2>1, <2>6, <3>2
    <3>5. QueueOK(Tail(Queue), lines, 0, FALSE, c = Len(s) - a)
      <4>1. QueueOK(Tail(Queue), lines, Base(s, a), First(a), c = Len(s) - a)
        BY <1>9, <1>13, QueueTail, Zenon
      <4>2. QueueOK(Tail(Queue), lines, 0, First(a), c = Len(s) - a)
        BY <4>1, QueueWeaker, Zenon
      <4>3. First(a) = FALSE
        BY <3>1 DEF First
      <4> QED
        BY <4>2, <4>3, Zenon
    <3>6. Base(s, a)' = 0
      <4>1. step' > Len(s)
        BY <1>5, <1>6, <2>1, <2>6
      <4> QED
        BY <4>1, Zenon DEF Base
    <3>7. Said(s, a, c)'
      <4>1. client' # "reading"
        BY <3>4
      <4> QED
        BY <1>10, <1>11, <2>3, <3>5, <3>6, <4>1, Zenon DEF Said
    <3>8. AtLine(s, a, n)'
      BY <1>6, <1>11, <2>4, <3>4 DEF AtLine
    <3>9. Talk(s, a, c, n)'
      <4>1. n <= answered' + (IF client' = "reading" THEN 1 ELSE 0) + (IF found' = "cmd" THEN 0 ELSE 1)
        BY <1>6, <1>7, <1>11, <2>1, <3>1, <3>3, <3>4
      <4>2. answered' \in Nat /\ answered' <= lines'
        BY <1>7, <1>11, <2>1, <3>3
      <4> QED
        BY <1>6, <1>11, <3>3, <3>8, <4>1, <4>2, Zenon DEF Talk
    <3> QED
      BY <1>1, <1>9, <1>11, <1>12, <3>7, <3>9 DEF Own
  <2> QED
    BY <1>5, <1>6, <2>5, <2>6
<1> QED
  BY <1>14, <1>15



(***************************************************************************)
(* Until the other client's transfer ends.                                 *)
(***************************************************************************)
LEMMA ForeignChar ==
    ASSUME NEW s, NEW a, NEW b, Session(s, a, b), NEW n \in {0, 1}, NEW m \in Nat, NEW p \in 1..3,
           p > 1 => m = 0 /\ n = 1, Stream(s, a, 0, n, m, p, rx), rx # <<>>
    PROVE  \/ m > 0 /\ p = 1 /\ Head(rx) \in Ctl /\ Stream(s, a, 0, n, m-1, 1, Tail(rx))
           \/ /\ m = 0 /\ n = 1 /\ p \in 1..2 /\ Head(rx) \in {"CR", "LF"}
              /\ Stream(s, a, 0, 1, 0, p+1, Tail(rx))
<1>1. a \in Nat /\ Len(s) \in Nat /\ Len(s) - a >= 2
  BY Shape
<1>2. Len(Line(s, a, 0+1)) = 0
  <2>1. 1 \in 1..Len(s)-a
    BY <1>1
  <2>2. Line(s, a, 1) = <<>>
    BY <2>1, LineText
  <2> QED
    BY <2>2
<1>3. Total(s, a, 0, n) = IF n = 0 THEN 0 ELSE 2
  BY <1>2 DEF Total
<1>4. rx \in Seq(Chars) /\ Len(rx) = m + Total(s, a, 0, n) + 1 - p
  BY DEF Stream
<1>5. Len(rx) >= 1
  BY <1>4
<1>6. /\ m > 0 => Head(rx) \in Ctl /\ Stream(s, a, 0, n, m-1, p, Tail(rx))
      /\ m = 0 => Head(rx) = At(s, a, 0, p) /\ Stream(s, a, 0, n, 0, p+1, Tail(rx))
  <2>1. Total(s, a, 0, n) \in Nat /\ p \in Nat
    BY <1>3
  <2> QED
    BY <2>1, StreamTail
<1>7. CASE m > 0
  <2>1. p = 1
    BY <1>7
  <2> QED
    BY <1>6, <1>7, <2>1
<1>8. CASE m = 0
  <2>1. n = 1 /\ p \in 1..2
    BY <1>3, <1>4, <1>5, <1>8
  <2>2. At(s, a, 0, p) \in {"CR", "LF"}
    BY <1>2, <2>1 DEF At
  <2> QED
    BY <1>6, <1>8, <2>1, <2>2
<1> QED
  BY <1>7, <1>8

LEMMA NoPromptAdd ==
    ASSUME NEW q \in Seq(Items), NEW e \in Items, NoPrompt(q), e.what # "prompt"
    PROVE  NoPrompt(Append(q, e))
<1>1. /\ Len(Append(q, e)) = Len(q) + 1 /\ Len(q) \in Nat /\ Append(q, e)[Len(q) + 1] = e
      /\ \A i \in 1..Len(q) : Append(q, e)[i] = q[i]
  OBVIOUS
<1>2. ASSUME NEW i \in 1..Len(Append(q, e)) PROVE Append(q, e)[i].what # "prompt"
  <2>1. i = Len(q) + 1 \/ i \in 1..Len(q)
    BY <1>1
  <2> QED
    BY <2>1, <1>1, Zenon DEF NoPrompt
<1> QED
  BY <1>2, Zenon DEF NoPrompt

\* An answer of the transfer.
LEMMA ForeignSays ==
    ASSUME inbuf \in Seq(Items), wire \in Seq(Items), inbuf' = inbuf, lines' = 0,
           QueueOK(Queue, 0, 0, TRUE, FALSE), NoPrompt(Queue),
           NEW x \in {"NAK", "ACK"}, Say(<<x>>)
    PROVE  /\ wire' \in Seq(Items)
           /\ QueueOK(Queue', 0, 0, TRUE, FALSE) /\ NoPrompt(Queue')
<1> DEFINE e == It(x, 0)
<1>1. x \in Whats /\ x # "prompt"
  BY DEF Whats, Xfer, Neutral
<1>2. e \in Items /\ e.what = x /\ e.at = 0
  BY <1>1, ItIs
<1>3. wire' \in Seq(Items) /\ Queue' = Append(Queue, e)
  BY <1>1, SayOne
<1>4. Queue \in Seq(Items)
  BY DEF QueueOK
<1>5. e.at <= 0 /\ 0 <= 0 /\ 0 \in Nat
  BY <1>2
<1> HIDE DEF e
<1>6. QueueOK(Append(Queue, e), 0, 0, TRUE, FALSE)
  BY <1>1, <1>2, <1>5, QueueAdd, Zenon
<1>7. NoPrompt(Append(Queue, e))
  BY <1>1, <1>2, <1>4, NoPromptAdd, Zenon
<1> QED
  BY <1>3, <1>6, <1>7, Zenon

\* A character that does not end the transfer.
LEMMA ForeignStays ==
    ASSUME NEW s, NEW a, NEW b, Session(s, a, b), NEW n, NEW m, NEW p,
           Foreign(s, a, b, n, m, p), rx # <<>>, rx' = Tail(rx), mode' # "cmd",
           UNCHANGED <<script, client, step, sent, answered, found, lines, executed, cmdbuf>>,
           QueueOK(Queue', 0, 0, TRUE, FALSE), NoPrompt(Queue')
    PROVE  \E m2, p2 \in Nat : Foreign(s, a, b, n, m2, p2)'
<1>1. /\ n \in {0, 1} /\ m \in Nat /\ p \in 1..3 /\ (p > 1 => m = 0 /\ n = 1)
      /\ Stream(s, a, 0, n, m, p, rx)
  BY DEF Foreign
<1>2. /\ script' = s /\ found' # "cmd"
      /\ lines' = 0 /\ answered' = 0 /\ executed' = <<>> /\ cmdbuf' = <<>>
      /\ AtLine(s, a, n)' /\ (n = 1 => client' = "reading")
  BY DEF Foreign, AtLine
<1>3. \/ m > 0 /\ p = 1 /\ Head(rx) \in Ctl /\ Stream(s, a, 0, n, m-1, 1, Tail(rx))
      \/ /\ m = 0 /\ n = 1 /\ p \in 1..2 /\ Head(rx) \in {"CR", "LF"}
         /\ Stream(s, a, 0, 1, 0, p+1, Tail(rx))
  BY <1>1, ForeignChar
<1>4. CASE m > 0 /\ p = 1 /\ Stream(s, a, 0, n, m-1, 1, Tail(rx))
  <2>1. m-1 \in Nat /\ 1 \in Nat /\ 1 \in 1..3 /\ ~(1 > 1)
    BY <1>1, <1>4
  <2>2. Foreign(s, a, b, n, m-1, 1)'
    BY <1>1, <1>2, <1>4, <2>1, Zenon DEF Foreign
  <2> QED
    BY <2>1, <2>2
<1>5. CASE m = 0 /\ n = 1 /\ p \in 1..2 /\ Stream(s, a, 0, 1, 0, p+1, Tail(rx))
  <2>1. 0 \in Nat /\ p+1 \in Nat /\ p+1 \in 1..3
    BY <1>5
  <2>2. Foreign(s, a, b, n, 0, p+1)'
    BY <1>1, <1>2, <1>5, <2>1, Zenon DEF Foreign
  <2> QED
    BY <2>1, <2>2
<1> QED
  BY <1>3, <1>4, <1>5

\* The transfer ends: the first prompt is said.
LEMMA ForeignReturns ==
    ASSUME NEW s, NEW a, NEW b, Session(s, a, b), NEW n, NEW m, NEW p, Plain,
           Foreign(s, a, b, n, m, p), Returns, NEW c \in {0, 1}, NEW k, Text(s, a, c, n, k, 1)',
           UNCHANGED <<script, client, step, sent, answered, found, lines, executed, inbuf>>
    PROVE  wire' \in Seq(Items) /\ Own(s, a, b, c, n, k, 1)'
<1> DEFINE e == It("text", 0)
           f == It("prompt", 0)
<1>1. a \in Nat /\ Len(s) \in Nat /\ Len(s) - a >= 2
  BY Shape
<1>2. /\ script = s /\ found # "cmd" /\ lines = 0 /\ answered = 0 /\ executed = <<>>
      /\ n \in {0, 1} /\ AtLine(s, a, n) /\ (n = 1 => client = "reading")
      /\ QueueOK(Queue, 0, 0, TRUE, FALSE) /\ NoPrompt(Queue)
  BY DEF Foreign
<1>3. mode' = "cmd" /\ Say(<<"text", "prompt">>)
  BY DEF Returns
<1>4. "text" \in Whats /\ "prompt" \in Whats /\ "text" \notin Xfer /\ "prompt" \notin Xfer
      /\ "text" # "prompt"
  BY DEF Whats, Neutral, Xfer
<1>5. e \in Items /\ e.what = "text" /\ e.at = 0 /\ f \in Items /\ f.what = "prompt" /\ f.at = 0
  BY <1>4, ItIs
<1>6. wire' \in Seq(Items) /\ Queue' = Append(Append(Queue, e), f)
  <2>1. lines' = 0 /\ inbuf \in Seq(Items) /\ wire \in Seq(Items) /\ inbuf' = inbuf
    BY <1>2 DEF Plain
  <2> QED
    BY <1>3, <1>4, <2>1, SayTwo
<1>7. Queue \in Seq(Items)
  BY <1>2, Zenon DEF QueueOK
<1>8. e.at <= 0 /\ f.at <= 0 /\ f.at >= 0 /\ 0 <= 0 /\ 0 \in Nat
  BY <1>5
<1> HIDE DEF e, f
<1>9. QueueOK(Append(Queue, e), 0, 0, TRUE, FALSE)
  BY <1>2, <1>4, <1>5, <1>8, QueueAdd, Zenon
<1>10. NoPrompt(Append(Queue, e))
  BY <1>2, <1>4, <1>5, <1>7, NoPromptAdd, Zenon
<1>11. \A i \in 1..Len(Append(Queue, e)) :
          Append(Queue, e)[i].what = "prompt" => Append(Queue, e)[i].at < f.at
  BY <1>10, Zenon DEF NoPrompt
<1>12. QueueOK(Queue', 0, 0, TRUE, FALSE)
  BY <1>4, <1>5, <1>6, <1>8, <1>9, <1>11, QueueAdd, Zenon
<1>13. step \in Nat /\ step <= a+1
  BY <1>1, <1>2 DEF AtLine
<1>14. Said(s, a, c)'
  <2>1. First(a)' = TRUE
    BY <1>13 DEF First
  <2>2. Base(s, a)' = 0
    <3>1. ~(step > Len(s))
      BY <1>1, <1>13
    <3> QED
      BY <1>2, <2>1, <3>1, Zenon DEF Base
  <2>3. (c = Len(s) - a) = FALSE
    BY <1>1
  <2> QED
    BY <1>2, <1>12, <2>1, <2>2, <2>3, Zenon DEF Said
<1>15. Taken(s, a, b, c)'
  <2>1. Done(s, a, b, c) = <<>>
    <3>1. Done(s, a, b, 0) = <<>> /\ Done(s, a, b, 1) = <<>>
      BY DoneNext
    <3> QED
      BY <3>1
  <2>2. c # Len(s) - a /\ 0 \in Nat /\ 0 <= c /\ c <= 0+1
    BY <1>1
  <2> QED
    BY <1>2, <1>3, <2>1, <2>2, Zenon DEF Taken
<1>16. Talk(s, a, c, n)'
  <2>1. AtLine(s, a, n)'
    BY <1>2 DEF AtLine
  <2>2. ~(step > Len(s))
    BY <1>1, <1>13
  <2>3. n \in Nat /\ n <= Len(s) - a /\ 0 \in Nat /\ 0 <= 0
    BY <1>1, <1>2
  <2>4. n <= 0 + (IF client' = "reading" THEN 1 ELSE 0) + (IF found' = "cmd" THEN 0 ELSE 1)
    BY <1>2
  <2> QED
    BY <1>2, <2>1, <2>2, <2>3, <2>4, Zenon DEF Talk
<1> QED
  BY <1>6, <1>14, <1>15, <1>16 DEF Own


\* What the buffer and the characters are, when a control character ended it.
LEMMA ForeignText ==
    ASSUME NEW s, NEW a, NEW b, Session(s, a, b), NEW n \in {0, 1}, NEW m \in Nat,
           Stream(s, a, 0, n, m, 1, rx)', cmdbuf' = <<>>
    PROVE  Text(s, a, 0, n, m, 1)'
<1>1. a \in Nat /\ Len(s) \in Nat /\ Len(s) - a >= 2
  BY Shape
<1>2. Len(Line(s, a, 0+1)) \in Nat
  <2>1. 0+1 \in 1..Len(s)-a
    BY <1>1
  <2> QED
    BY <2>1, LineText
<1>3. /\ 0 \in Nat /\ 0 <= n /\ n <= 0+2 /\ 1 \in Nat /\ ~(0 > 0)
      /\ 1 <= IF n = 0 THEN 1 ELSE Len(Line(s, a, 0+1)) + 1
  BY <1>2
<1>4. <<>> \in Seq(Chars) /\ Len(<<>>) < CmdBufSize
  BY ConsoleAssumption
<1> QED
  BY <1>3, <1>4, NoCommandEmpty, Zenon DEF Text

LEMMA ForeignDownloadLoops ==
    ASSUME NEW s, NEW a, NEW b, Session(s, a, b), NEW n, NEW m, NEW p,
           Plain, Foreign(s, a, b, n, m, p), DownloadLoops
    PROVE  /\ wire' \in Seq(Items)
           /\ \/ \E m2, p2 \in Nat : Foreign(s, a, b, n, m2, p2)'
              \/ \E c, m2, p2 \in Nat : Own(s, a, b, c, n, m2, p2)'
<1>1. PICK x \in Oldest(rx) :
         Take /\ IF <<mode, x>> \in {<<"dxstart", "ETX">>, <<"dxack", "CAN">>}
                 THEN Returns ELSE UNCHANGED <<mode, wire>>
  BY Zenon DEF DownloadLoops
<1>2. /\ mode \in {"dxstart", "dxack", "dxeot"} /\ lines' = lines
      /\ UNCHANGED <<cmdbuf, datpos, waits, flash, executed, inbuf, clientVars>>
  BY Zenon DEF DownloadLoops
<1>3. rx # <<>> /\ x = Head(rx) /\ rx' = Tail(rx)
  BY <1>1, OldestIs DEF Take
<1>4. UNCHANGED <<script, client, step, sent, answered, found, lines, executed, cmdbuf, inbuf>>
  BY <1>2 DEF clientVars
<1>5. /\ n \in {0, 1} /\ m \in Nat /\ p \in 1..3 /\ (p > 1 => m = 0 /\ n = 1)
      /\ Stream(s, a, 0, n, m, p, rx) /\ cmdbuf = <<>>
      /\ QueueOK(Queue, 0, 0, TRUE, FALSE) /\ NoPrompt(Queue)
  BY DEF Foreign
<1>6. CASE <<mode, x>> \in {<<"dxstart", "ETX">>, <<"dxack", "CAN">>}
  <2>1. Returns
    BY <1>1, <1>6, Zenon
  <2>2. Head(rx) \in Ctl /\ Head(rx) \notin {"CR", "LF"}
    BY <1>3, <1>6 DEF Ctl
  <2>3. m > 0 /\ Stream(s, a, 0, n, m-1, 1, Tail(rx))
    BY <1>3, <1>5, <2>2, ForeignChar
  <2>4. m-1 \in Nat
    BY <1>5, <2>3
  <2>5. Text(s, a, 0, n, m-1, 1)'
    <3>1. Stream(s, a, 0, n, m-1, 1, rx)'
      BY <1>3, <2>3
    <3> QED
      BY <1>4, <1>5, <2>4, <3>1, ForeignText
  <2>6. wire' \in Seq(Items) /\ Own(s, a, b, 0, n, m-1, 1)'
    BY <1>4, <2>1, <2>5, ForeignReturns
  <2> QED
    BY <2>4, <2>6
<1>7. CASE <<mode, x>> \notin {<<"dxstart", "ETX">>, <<"dxack", "CAN">>}
  <2>1. mode' = mode /\ wire' = wire
    BY <1>1, <1>7, Zenon
  <2>2. Queue' = Queue /\ mode' # "cmd"
    BY <1>2, <2>1 DEF Queue
  <2>3. \E m2, p2 \in Nat : Foreign(s, a, b, n, m2, p2)'
    BY <1>3, <1>4, <1>5, <2>2, ForeignStays
  <2> QED
    BY <2>1, <2>3 DEF Plain
<1> QED
  BY <1>6, <1>7

LEMMA ForeignUploadWait ==
    ASSUME NEW s, NEW a, NEW b, Session(s, a, b), NEW n, NEW m, NEW p,
           Plain, Foreign(s, a, b, n, m, p), UploadWait
    PROVE  /\ wire' \in Seq(Items)
           /\ \/ \E m2, p2 \in Nat : Foreign(s, a, b, n, m2, p2)'
              \/ \E c, m2, p2 \in Nat : Own(s, a, b, c, n, m2, p2)'
<1>1. PICK x \in Oldest(rx) :
         Take /\ IF x \in {"ETX", "CAN"} THEN Returns ELSE mode' = mode /\ Say(<<"NAK">>)
  BY Zenon DEF UploadWait
<1>2. /\ mode = "uxwait" /\ lines' = lines
      /\ UNCHANGED <<cmdbuf, datpos, flash, executed, inbuf, clientVars>>
  BY Zenon DEF UploadWait
<1>3. rx # <<>> /\ x = Head(rx) /\ rx' = Tail(rx)
  BY <1>1, OldestIs DEF Take
<1>4. UNCHANGED <<script, client, step, sent, answered, found, lines, executed, cmdbuf, inbuf>>
  BY <1>2 DEF clientVars
<1>5. /\ n \in {0, 1} /\ m \in Nat /\ p \in 1..3 /\ (p > 1 => m = 0 /\ n = 1)
      /\ Stream(s, a, 0, n, m, p, rx) /\ cmdbuf = <<>> /\ lines = 0
      /\ QueueOK(Queue, 0, 0, TRUE, FALSE) /\ NoPrompt(Queue)
  BY DEF Foreign
<1>6. CASE x \in {"ETX", "CAN"}
  <2>1. Returns
    BY <1>1, <1>6, Zenon
  <2>2. Head(rx) \in Ctl /\ Head(rx) \notin {"CR", "LF"}
    BY <1>3, <1>6 DEF Ctl
  <2>3. m > 0 /\ Stream(s, a, 0, n, m-1, 1, Tail(rx))
    BY <1>3, <1>5, <2>2, ForeignChar
  <2>4. m-1 \in Nat
    BY <1>5, <2>3
  <2>5. Text(s, a, 0, n, m-1, 1)'
    <3>1. Stream(s, a, 0, n, m-1, 1, rx)'
      BY <1>3, <2>3
    <3> QED
      BY <1>4, <1>5, <2>4, <3>1, ForeignText
  <2>6. wire' \in Seq(Items) /\ Own(s, a, b, 0, n, m-1, 1)'
    BY <1>4, <2>1, <2>5, ForeignReturns
  <2> QED
    BY <2>4, <2>6
<1>7. CASE x \notin {"ETX", "CAN"}
  <2>1. mode' = mode /\ Say(<<"NAK">>)
    BY <1>1, <1>7, Zenon
  <2>2. wire' \in Seq(Items) /\ QueueOK(Queue', 0, 0, TRUE, FALSE) /\ NoPrompt(Queue')
    <3>1. inbuf \in Seq(Items) /\ wire \in Seq(Items) /\ inbuf' = inbuf /\ lines' = 0
      BY <1>4, <1>5 DEF Plain
    <3>2. "NAK" \in {"NAK", "ACK"}
      OBVIOUS
    <3> QED
      BY <1>5, <2>1, <3>1, <3>2, ForeignSays
  <2>3. mode' # "cmd"
    BY <1>2, <2>1
  <2>4. \E m2, p2 \in Nat : Foreign(s, a, b, n, m2, p2)'
    BY <1>3, <1>4, <2>2, <2>3, ForeignStays
  <2> QED
    BY <2>2, <2>4
<1> QED
  BY <1>6, <1>7

LEMMA ForeignUploadData ==
    ASSUME NEW s, NEW a, NEW b, Session(s, a, b), NEW n, NEW m, NEW p,
           Plain, Foreign(s, a, b, n, m, p), UploadData
    PROVE  /\ wire' \in Seq(Items)
           /\ \E m2, p2 \in Nat : Foreign(s, a, b, n, m2, p2)'
<1>1. /\ mode = "uxrx" /\ rx # <<>> /\ lines' = lines /\ rx' = Tail(rx)
      /\ \/ mode' = mode /\ wire' = wire
         \/ mode' = "uxwait" /\ Say(<<"ACK">>)
      /\ UNCHANGED <<cmdbuf, flash, executed, inbuf, clientVars>>
  BY Zenon DEF UploadData, Take
<1>2. UNCHANGED <<script, client, step, sent, answered, found, lines, executed, cmdbuf, inbuf>>
  BY <1>1 DEF clientVars
<1>3. mode' # "cmd"
  BY <1>1
<1>4. lines = 0 /\ QueueOK(Queue, 0, 0, TRUE, FALSE) /\ NoPrompt(Queue)
  BY DEF Foreign
<1>5. wire' \in Seq(Items) /\ QueueOK(Queue', 0, 0, TRUE, FALSE) /\ NoPrompt(Queue')
  <2>1. inbuf \in Seq(Items) /\ wire \in Seq(Items) /\ inbuf' = inbuf /\ lines' = 0
    BY <1>2, <1>4 DEF Plain
  <2>2. CASE wire' = wire
    <3>1. Queue' = Queue
      BY <2>1, <2>2 DEF Queue
    <3> QED
      BY <1>4, <2>1, <2>2, <3>1, Zenon
  <2>3. CASE Say(<<"ACK">>)
    <3>1. "ACK" \in {"NAK", "ACK"}
      OBVIOUS
    <3> QED
      BY <1>4, <2>1, <2>3, <3>1, ForeignSays
  <2> QED
    BY <1>1, <2>2, <2>3
<1> QED
  BY <1>1, <1>2, <1>3, <1>5, ForeignStays

\* The client's first line was lost to the transfer, when that times out.
LEMMA ForeignUploadTimeout ==
    ASSUME NEW s, NEW a, NEW b, Session(s, a, b), NEW n, NEW m, NEW p,
           Plain, Foreign(s, a, b, n, m, p), UploadTimeout
    PROVE  /\ wire' \in Seq(Items)
           /\ \/ Foreign(s, a, b, n, m, p)'
              \/ Own(s, a, b, 1, n, 0, 1)'
<1>1. /\ mode \in {"uxwait", "uxrx"} /\ rx = <<>> /\ lines' = lines
      /\ IF waits + 1 = MaxNaks
         THEN /\ client # "idle" /\ wire = <<>> /\ inbuf = <<>>
              /\ waits' = 0 /\ datpos' = 0 /\ Returns
         ELSE /\ waits' = waits + 1 /\ UNCHANGED <<mode, datpos>>
              /\ IF mode = "uxwait" THEN Say(<<"NAK">>) ELSE UNCHANGED wire
      /\ UNCHANGED <<cmdbuf, flash, executed, rx, inbuf, clientVars>>
  BY Zenon DEF UploadTimeout
<1>2. UNCHANGED <<script, client, step, sent, answered, found, lines, executed, cmdbuf, inbuf, rx>>
  BY <1>1 DEF clientVars
<1>3. a \in Nat /\ Len(s) \in Nat /\ Len(s) - a >= 2
  BY Shape
<1>4. /\ n \in {0, 1} /\ m \in Nat /\ p \in 1..3 /\ (p > 1 => m = 0 /\ n = 1)
      /\ Stream(s, a, 0, n, m, p, rx) /\ cmdbuf = <<>> /\ lines = 0 /\ AtLine(s, a, n)
      /\ QueueOK(Queue, 0, 0, TRUE, FALSE) /\ NoPrompt(Queue)
  BY DEF Foreign
<1>5. CASE waits + 1 = MaxNaks
  <2>1. client # "idle" /\ Returns
    BY <1>1, <1>5, Zenon
  <2>2. n = 1
    BY <1>4, <2>1 DEF AtLine
  <2>3. Stream(s, a, 1, 1, 0, 1, rx')
    <3>1. rx' = <<>> /\ <<>> \in Seq(Chars) /\ Len(<<>>) = 0
      BY <1>1
    <3>2. Total(s, a, 1, 1) = 0
      BY DEF Total
    <3> QED
      BY <3>1, <3>2 DEF Stream
  <2>4. Text(s, a, 1, n, 0, 1)'
    <3>1. /\ 1 \in Nat /\ 1 <= n /\ n <= 1+2 /\ 0 \in Nat /\ 1 # 0 /\ ~(1 = 0)
          /\ 1 <= (IF n = 1 THEN 1 ELSE Len(Line(s, a, 1+1)) + 1)
      BY <2>2
    <3>2. cmdbuf' = <<>> /\ cmdbuf' \in Seq(Chars) /\ Len(cmdbuf') < CmdBufSize /\ Len(cmdbuf') = 0
      BY <1>2, <1>4, ConsoleAssumption
    <3>3. \A i \in 1..Len(cmdbuf') : cmdbuf'[i] = Line(s, a, 1+1)[i]
      BY <3>2
    <3> QED
      BY <2>2, <2>3, <3>1, <3>2, <3>3 DEF Text
  <2>5. 1 \in {0, 1}
    OBVIOUS
  <2>6. wire' \in Seq(Items) /\ Own(s, a, b, 1, n, 0, 1)'
    BY <1>2, <2>1, <2>4, <2>5, ForeignReturns
  <2> QED
    BY <2>6
<1>6. CASE waits + 1 # MaxNaks
  <2>1. /\ mode' = mode
        /\ wire' = wire \/ Say(<<"NAK">>)
    BY <1>1, <1>6, Zenon
  <2>2. wire' \in Seq(Items) /\ QueueOK(Queue', 0, 0, TRUE, FALSE) /\ NoPrompt(Queue')
    <3>1. inbuf \in Seq(Items) /\ wire \in Seq(Items) /\ inbuf' = inbuf /\ lines' = 0
      BY <1>2, <1>4 DEF Plain
    <3>2. CASE wire' = wire
      <4>1. Queue' = Queue
        BY <3>1, <3>2 DEF Queue
      <4> QED
        BY <1>4, <3>1, <3>2, <4>1, Zenon
    <3>3. CASE Say(<<"NAK">>)
      <4>1. "NAK" \in {"NAK", "ACK"}
        OBVIOUS
      <4> QED
        BY <1>4, <3>1, <3>3, <4>1, ForeignSays
    <3> QED
      BY <2>1, <3>2, <3>3
  <2>3. mode' # "cmd"
    BY <1>1, <2>1
  <2>4. Foreign(s, a, b, n, m, p)'
    BY <1>2, <2>2, <2>3 DEF Foreign, AtLine
  <2> QED
    BY <2>2, <2>4
<1> QED
  BY <1>5, <1>6


LEMMA ForeignSendAbort ==
    ASSUME NEW s, NEW a, NEW b, Session(s, a, b), NEW n, NEW m, NEW p,
           Foreign(s, a, b, n, m, p), SendAbort
    PROVE  UNCHANGED <<inbuf, wire>> /\ m+2 \in Nat /\ Foreign(s, a, b, n, m+2, p)'
<1>1. /\ client = "idle" /\ step <= Len(script) /\ script[step].kind = "abort"
      /\ rx' = rx \o <<"CAN", "ETX">> /\ step' = step + 1
      /\ UNCHANGED <<found, script, client, sawFlash, sent, answered, devVars, wire, inbuf>>
  BY Zenon DEF SendAbort, This
<1>2. /\ script = s /\ n \in {0, 1} /\ m \in Nat /\ p \in 1..3 /\ (p > 1 => m = 0 /\ n = 1)
      /\ Stream(s, a, 0, n, m, p, rx) /\ AtLine(s, a, n) /\ (n = 1 => client = "reading")
  BY DEF Foreign
<1>3. a \in Nat /\ Len(s) \in Nat /\ Len(s) - a >= 2 /\ a < Len(s)
  BY Shape
<1>4. step \in 1..Len(s)
  BY <1>1, <1>2, <1>3 DEF AtLine
<1>5. step <= a
  BY <1>1, <1>2, <1>4, KindOf
<1>6. n = 0 /\ p = 1 /\ m+2 \in Nat
  BY <1>1, <1>2
<1>7. Stream(s, a, 0, n, m+2, p, rx')
  BY <1>1, <1>2, <1>6, StreamAbort
<1>8. AtLine(s, a, n)'
  BY <1>1, <1>2, <1>3, <1>4, <1>5, <1>6 DEF AtLine
<1>9. UNCHANGED <<found, script, client, sent, answered, executed, mode, lines, cmdbuf, inbuf, wire>>
  BY <1>1 DEF devVars
<1>10. Queue' = Queue
  BY <1>9 DEF Queue
<1>11. Foreign(s, a, b, n, m+2, p)'
  <2>1. ~(p > 1) /\ (n = 1 => client' = "reading")
    BY <1>6
  <2>2. /\ found # "cmd" /\ mode # "cmd" /\ lines = 0 /\ answered = 0 /\ executed = <<>>
        /\ cmdbuf = <<>> /\ QueueOK(Queue, 0, 0, TRUE, FALSE) /\ NoPrompt(Queue)
    BY DEF Foreign
  <2> QED
    BY <1>2, <1>6, <1>7, <1>8, <1>9, <1>10, <2>1, <2>2, Zenon DEF Foreign
<1> QED
  BY <1>6, <1>9, <1>11

LEMMA ForeignSendCommand ==
    ASSUME NEW s, NEW a, NEW b, Session(s, a, b), NEW n, NEW m, NEW p,
           Plain, Foreign(s, a, b, n, m, p), SendCommand
    PROVE  /\ inbuf' \in Seq(Items) /\ wire' \in Seq(Items)
           /\ n+1 \in Nat /\ Foreign(s, a, b, n+1, m, p)'
<1>1. /\ client = "idle" /\ step <= Len(script) /\ script[step].kind = "exchange"
      /\ inbuf' = <<>> /\ rx' = rx \o script[step].line \o <<"CR", "LF">>
      /\ client' = "reading" /\ sawFlash' = FALSE /\ sent' = sent + 1
      /\ UNCHANGED <<found, script, step, answered, devVars, wire>>
  BY Zenon DEF SendCommand, This
<1>2. /\ script = s /\ n \in {0, 1} /\ m \in Nat /\ p \in 1..3 /\ (p > 1 => m = 0 /\ n = 1)
      /\ Stream(s, a, 0, n, m, p, rx) /\ AtLine(s, a, n) /\ (n = 1 => client = "reading")
      /\ QueueOK(Queue, 0, 0, TRUE, FALSE) /\ NoPrompt(Queue)
  BY DEF Foreign
<1>3. a \in Nat /\ Len(s) \in Nat /\ Len(s) - a >= 2 /\ a < Len(s)
  BY Shape
<1>4. n = 0 /\ p = 1 /\ n+1 = 1 /\ n+1 \in Nat /\ n+1 \in {0, 1}
  BY <1>1, <1>2
<1>5. step \in 1..Len(s) /\ sent = 0 /\ step <= a+1
  BY <1>1, <1>2, <1>3, <1>4 DEF AtLine
<1>6. step = a+1
  <2>1. step >= a+1
    BY <1>1, <1>2, <1>5, KindOf
  <2> QED
    BY <1>3, <1>5, <2>1
<1>7. Stream(s, a, 0, n+1, m, p, rx')
  <2>1. Stream(s, a, 0, 0+1, m, 1, rx \o Line(s, a, 0+1) \o <<"CR", "LF">>)
    <3>1. Total(s, a, 0, 0) = 0
      BY DEF Total
    <3>2. Stream(s, a, 0, 0, m, 1, rx)
      BY <1>2, <1>4
    <3>3. 0 \in Nat /\ 0 <= 0 /\ 0 <= 0+1 /\ 0+1 <= Len(s)-a /\ 1 \in Nat /\ 1 <= Total(s, a, 0, 0) + 1
      BY <1>3, <3>1
    <3> QED
      BY <1>2, <3>2, <3>3, StreamSend
  <2>2. script[step].line = Line(s, a, 0+1)
    <3>1. step = a+(0+1)
      BY <1>3, <1>6
    <3> QED
      BY <1>2, <3>1 DEF Line
  <2> QED
    BY <1>1, <1>4, <2>1, <2>2
<1>8. AtLine(s, a, n+1)' /\ client' = "reading"
  <2>1. step' = a+(n+1) /\ n+1 >= 1 /\ n+1 # 0 /\ sent' = n+1 /\ step' \in Nat /\ step' >= 1
    BY <1>1, <1>3, <1>4, <1>5, <1>6
  <2> QED
    BY <1>1, <2>1 DEF AtLine
<1>9. UNCHANGED <<found, script, answered, executed, mode, lines, cmdbuf, wire>>
  BY <1>1 DEF devVars
<1>10. inbuf \in Seq(Items) /\ wire \in Seq(Items)
  BY DEF Plain
<1>11. Queue' = wire
  <2>1. <<>> \o wire = wire
    BY <1>10, QueueMoves
  <2> QED
    BY <1>1, <2>1, Zenon DEF Queue
<1>12. QueueOK(wire, 0, 0, TRUE, FALSE) /\ NoPrompt(wire)
  <2>1. QueueOK(inbuf \o wire, 0, 0, TRUE, FALSE)
    BY <1>2, Zenon DEF Queue
  <2>2. \A i \in 1..Len(wire) : /\ Len(inbuf)+i \in 1..Len(inbuf \o wire)
                                 /\ (inbuf \o wire)[Len(inbuf)+i] = wire[i]
    BY <1>10, Joined
  <2> QED
    BY <1>2, <1>10, <2>1, <2>2, QueueDrop, Zenon DEF NoPrompt, Queue
<1>13. p > 1 => m = 0 /\ n+1 = 1
  BY <1>4
<1>14. Foreign(s, a, b, n+1, m, p)'
  <2>1. /\ found # "cmd" /\ mode # "cmd" /\ lines = 0 /\ answered = 0 /\ executed = <<>>
        /\ cmdbuf = <<>>
    BY DEF Foreign
  <2> QED
    BY <1>2, <1>4, <1>7, <1>8, <1>9, <1>11, <1>12, <1>13, <2>1, Zenon DEF Foreign
<1>15. inbuf' \in Seq(Items)
  BY <1>1
<1> QED
  BY <1>4, <1>9, <1>10, <1>14, <1>15

LEMMA ForeignArrive ==
    ASSUME NEW s, NEW a, NEW b, NEW n, NEW m, NEW p,
           Plain, Foreign(s, a, b, n, m, p), Arrive
    PROVE  /\ inbuf' \in Seq(Items) /\ wire' \in Seq(Items)
           /\ Foreign(s, a, b, n, m, p)'
<1>1. /\ wire # <<>> /\ inbuf' = Append(inbuf, Head(wire)) /\ wire' = Tail(wire)
      /\ UNCHANGED <<devVars, clientVars, rx>>
  BY Zenon DEF Arrive
<1>2. UNCHANGED <<script, client, step, sent, answered, found, lines, executed, mode, cmdbuf, rx>>
  BY <1>1 DEF devVars, clientVars
<1>3. inbuf \in Seq(Items) /\ wire \in Seq(Items)
  BY DEF Plain
<1>4. /\ Append(inbuf, Head(wire)) \o Tail(wire) = inbuf \o wire
      /\ Append(inbuf, Head(wire)) \in Seq(Items) /\ Tail(wire) \in Seq(Items)
  BY <1>1, <1>3, QueueMoves
<1>5. Queue' = Queue
  BY <1>1, <1>4, Zenon DEF Queue
<1>6. Foreign(s, a, b, n, m, p)'
  BY <1>2, <1>5 DEF Foreign, AtLine
<1> QED
  BY <1>1, <1>4, <1>6

\* No answer of the transfer ends the client's first exchange.
LEMMA ForeignReadAnswer ==
    ASSUME NEW s, NEW a, NEW b, Session(s, a, b), NEW n, NEW m, NEW p,
           Plain, Foreign(s, a, b, n, m, p), ReadAnswer
    PROVE  /\ inbuf' \in Seq(Items) /\ wire' = wire
           /\ Foreign(s, a, b, n, m, p)'
<1>1. PICK x \in Oldest(inbuf) :
         /\ inbuf' = Tail(inbuf)
         /\ x.what # script[step].ender => UNCHANGED <<client, step, answered>>
  BY Zenon DEF ReadAnswer, This
<1>2. client = "reading" /\ UNCHANGED <<found, script, sent, devVars, rx, wire>>
  BY Zenon DEF ReadAnswer
<1>3. inbuf # <<>> /\ x = Head(inbuf)
  BY OldestIs
<1>4. /\ script = s /\ n \in {0, 1} /\ AtLine(s, a, n)
      /\ QueueOK(Queue, 0, 0, TRUE, FALSE) /\ NoPrompt(Queue)
  BY DEF Foreign
<1>5. a \in Nat /\ Len(s) \in Nat /\ Len(s) - a >= 2
  BY Shape
<1>6. step = a+1
  BY <1>2, <1>4 DEF AtLine
<1>7. s[step].ender = "prompt"
  <2>1. step \in a+1..Len(s)-1
    BY <1>5, <1>6
  <2> QED
    BY <2>1, Zenon DEF Session, SessionOf
<1>8. inbuf \in Seq(Items) /\ wire \in Seq(Items)
  BY DEF Plain
<1>9. /\ Queue # <<>> /\ Head(Queue) = x /\ x \in Items
      /\ Tail(inbuf) \o wire = Tail(Queue) /\ Tail(inbuf) \in Seq(Items)
      /\ Queue \in Seq(Items)
  BY <1>3, <1>8, QueueMoves DEF Queue
<1>10. Queue' = Tail(Queue)
  BY <1>1, <1>2, <1>9, Zenon DEF Queue
<1>11. x.what # "prompt"
  <2>1. 1 \in 1..Len(Queue) /\ Queue[1] = x
    BY <1>9
  <2> QED
    BY <1>4, <2>1, Zenon DEF NoPrompt
<1>12. UNCHANGED <<script, client, step, sent, answered, found, lines, executed, mode, cmdbuf, rx, wire>>
  BY <1>1, <1>2, <1>4, <1>7, <1>11 DEF devVars
<1>13. QueueOK(Tail(Queue), 0, 0, TRUE, FALSE)
  BY <1>4, <1>9, QueueTail, Zenon
<1>14. NoPrompt(Tail(Queue))
  <2>1. \A i \in 1..Len(Tail(Queue)) : i+1 \in 1..Len(Queue) /\ Tail(Queue)[i] = Queue[i+1]
    BY <1>9
  <2> QED
    BY <1>4, <2>1, Zenon DEF NoPrompt
<1>15. Foreign(s, a, b, n, m, p)'
  BY <1>10, <1>12, <1>13, <1>14 DEF Foreign, AtLine
<1> QED
  BY <1>1, <1>9, <1>12, <1>15



(***************************************************************************)
(* Every step.                                                             *)
(***************************************************************************)
LEMMA ForeignStep ==
    ASSUME NEW s, NEW a, NEW b, Session(s, a, b), NEW n \in Nat, NEW m \in Nat, NEW p \in Nat,
           Plain, Foreign(s, a, b, n, m, p), Next
    PROVE  /\ inbuf' \in Seq(Items) /\ wire' \in Seq(Items)
           /\ \/ \E n2, m2, p2 \in Nat : Foreign(s, a, b, n2, m2, p2)'
              \/ \E c2, n2, m2, p2 \in Nat : Own(s, a, b, c2, n2, m2, p2)'
<1>0. inbuf \in Seq(Items) /\ wire \in Seq(Items)
  BY DEF Plain
<1>1. CASE CommandLine
  <2>1. mode = "cmd"
    BY <1>1, Zenon DEF CommandLine, CommandLineWith
  <2> QED
    BY <2>1 DEF Foreign
<1>2. CASE DownloadLoops
  <2>1. inbuf' = inbuf
    BY <1>2, Zenon DEF DownloadLoops
  <2> QED
    BY <1>0, <1>2, <2>1, ForeignDownloadLoops
<1>3. CASE UploadWait
  <2>1. inbuf' = inbuf
    BY <1>3, Zenon DEF UploadWait
  <2> QED
    BY <1>0, <1>3, <2>1, ForeignUploadWait
<1>4. CASE UploadData
  <2>1. inbuf' = inbuf
    BY <1>4, Zenon DEF UploadData
  <2> QED
    BY <1>0, <1>4, <2>1, ForeignUploadData
<1>5. CASE UploadTimeout
  <2>1. inbuf' = inbuf
    BY <1>5, Zenon DEF UploadTimeout
  <2>2. 0 \in Nat /\ 1 \in Nat
    OBVIOUS
  <2> QED
    BY <1>0, <1>5, <2>1, <2>2, ForeignUploadTimeout
<1>6. CASE Arrive
  BY <1>6, ForeignArrive
<1>7. CASE SendAbort
  BY <1>0, <1>7, ForeignSendAbort
<1>8. CASE SendCommand
  BY <1>8, ForeignSendCommand
<1>9. CASE ReadAnswer
  BY <1>0, <1>9, ForeignReadAnswer
<1> QED
  BY <1>1, <1>2, <1>3, <1>4, <1>5, <1>6, <1>7, <1>8, <1>9 DEF Next, Device, Client

LEMMA OwnStep ==
    ASSUME NEW s, NEW a, NEW b, Session(s, a, b),
           NEW c \in Nat, NEW n \in Nat, NEW m \in Nat, NEW p \in Nat,
           Plain, Own(s, a, b, c, n, m, p), Next
    PROVE  /\ inbuf' \in Seq(Items) /\ wire' \in Seq(Items)
           /\ \E c2, n2, m2, p2 \in Nat : Own(s, a, b, c2, n2, m2, p2)'
<1>0. inbuf \in Seq(Items) /\ wire \in Seq(Items) /\ 0 \in Nat /\ 1 \in Nat
  BY DEF Plain
<1>1. CASE CommandLine
  <2>1. inbuf' = inbuf
    BY <1>1, Zenon DEF CommandLine, CommandLineWith
  <2> QED
    BY <1>0, <1>1, <2>1, OwnCommandLine
<1>2. CASE DownloadLoops
  <2>1. inbuf' = inbuf
    BY <1>2, Zenon DEF DownloadLoops
  <2> QED
    BY <1>0, <1>2, <2>1, OwnDownloadLoops
<1>3. CASE UploadWait
  <2>1. inbuf' = inbuf
    BY <1>3, Zenon DEF UploadWait
  <2> QED
    BY <1>0, <1>3, <2>1, OwnUploadWait
<1>4. CASE UploadData
  <2>1. mode = "uxrx"
    BY <1>4, Zenon DEF UploadData
  <2>2. mode # "cmd" /\ mode \notin {"dxstart", "uxwait"}
    BY <2>1
  <2> QED
    BY <2>2, OwnLast
<1>5. CASE UploadTimeout
  <2>1. inbuf' = inbuf
    BY <1>5, Zenon DEF UploadTimeout
  <2> QED
    BY <1>0, <1>5, <2>1, OwnUploadTimeout
<1>6. CASE Arrive
  BY <1>6, OwnArrive
<1>7. CASE SendAbort
  BY <1>0, <1>7, OwnSendAbort
<1>8. CASE SendCommand
  BY <1>8, OwnSendCommand
<1>9. CASE ReadAnswer
  BY <1>0, <1>9, OwnReadAnswer
<1> QED
  BY <1>1, <1>2, <1>3, <1>4, <1>5, <1>6, <1>7, <1>8, <1>9 DEF Next, Device, Client

\* Where the firmware is, whoever began what it does.
LEMMA PlainStep ==
    ASSUME Plain, Next
    PROVE  /\ mode' \in Modes /\ found' \in InitModes
           /\ datpos' \in 0..PktLen-1 /\ (mode' # "uxrx" => datpos' = 0)
           /\ waits' \in 0..MaxNaks-1
<1>1. /\ mode \in Modes /\ found \in InitModes
      /\ datpos \in 0..PktLen-1 /\ (mode # "uxrx" => datpos = 0)
      /\ waits \in 0..MaxNaks-1
      /\ MaxNaks \in Nat \ {0} /\ PktLen \in Nat /\ PktLen > 1
  BY ConsoleAssumption DEF Plain
<1>2. CASE CommandLine
  <2>1. mode = "cmd" /\ UNCHANGED <<datpos, waits, found>>
    BY <1>2, CommandLineSteps DEF clientVars
  <2>2. mode' = mode \/ menu_handleLine(cmdbuf)
    BY <1>2, CommandLineSteps, Zenon
  <2>3. mode' = mode \/ \E name : Run(name)
    BY <2>2, Zenon DEF menu_handleLine
  <2>4. ASSUME NEW name, Run(name) PROVE mode' \in {mode, "dxstart", "uxwait"}
    <3>1. CASE name = <<"d", "x">>
      BY <2>4, <3>1 DEF Run
    <3>2. CASE name = <<"u", "x">>
      <4>1. name # <<"d", "x">>
        BY <3>2
      <4> QED
        BY <2>4, <3>2, <4>1 DEF Run
    <3>3. CASE name # <<"d", "x">> /\ name # <<"u", "x">> /\ name = <<"i", "n", "i", "t">>
      BY <2>4, <3>3 DEF Run
    <3>4. CASE name # <<"d", "x">> /\ name # <<"u", "x">> /\ name # <<"i", "n", "i", "t">>
      BY <2>4, <3>4 DEF Run
    <3> QED
      BY <3>1, <3>2, <3>3, <3>4
  <2> QED
    BY <1>1, <2>1, <2>3, <2>4 DEF Modes
<1>3. CASE DownloadLoops
  <2>1. /\ mode \in {"dxstart", "dxack", "dxeot"} /\ UNCHANGED <<datpos, waits, found>>
        /\ mode' = "cmd" \/ mode' = mode
    BY <1>3, Zenon DEF DownloadLoops, Returns, clientVars
  <2> QED
    BY <1>1, <2>1 DEF Modes
<1>4. CASE UploadWait
  <2>1. /\ mode = "uxwait" /\ UNCHANGED <<datpos, found>> /\ waits' = 0
        /\ mode' = "cmd" \/ mode' = mode
    BY <1>4, Zenon DEF UploadWait, Returns, clientVars
  <2> QED
    BY <1>1, <2>1 DEF Modes
<1>5. CASE UploadData
  <2>1. /\ mode = "uxrx" /\ found' = found /\ waits' = 0
        /\ \/ datpos + 1 < PktLen /\ datpos' = datpos + 1 /\ mode' = mode
           \/ datpos' = 0 /\ mode' = "uxwait"
    BY <1>5, Zenon DEF UploadData, clientVars
  <2> QED
    BY <1>1, <2>1 DEF Modes
<1>6. CASE UploadTimeout
  <2>1. /\ mode \in {"uxwait", "uxrx"} /\ found' = found
        /\ \/ waits' = 0 /\ datpos' = 0 /\ mode' = "cmd"
           \/ waits + 1 # MaxNaks /\ waits' = waits + 1 /\ mode' = mode /\ datpos' = datpos
    BY <1>6, Zenon DEF UploadTimeout, Returns, clientVars
  <2> QED
    BY <1>1, <2>1 DEF Modes
<1>7. CASE Arrive
  BY <1>1, <1>7 DEF Arrive, devVars, clientVars
<1>8. CASE Client
  BY <1>1, <1>8 DEF Client, SendAbort, SendCommand, ReadAnswer, devVars
<1> QED
  BY <1>2, <1>3, <1>4, <1>5, <1>6, <1>7, <1>8 DEF Next, Device

LEMMA InvStep ==
    ASSUME Inv, [Next]_vars
    PROVE  Inv'
<1>1. PICK s : s = script
  OBVIOUS
<1>2. PICK a \in 0..Len(s), b \in 0..Len(s) :
         /\ SessionOf(s, a, b)
         /\ \/ \E n, m, p \in Nat : Foreign(s, a, b, n, m, p)
            \/ \E c, n, m, p \in Nat : Own(s, a, b, c, n, m, p)
  BY <1>1, Zenon DEF Inv
<1>3. Session(s, a, b)
  BY <1>2, Zenon DEF Session
<1>4. Plain
  BY DEF Inv
<1>5. CASE Next
  <2>1. /\ inbuf' \in Seq(Items) /\ wire' \in Seq(Items)
        /\ \/ \E n, m, p \in Nat : Foreign(s, a, b, n, m, p)'
           \/ \E c, n, m, p \in Nat : Own(s, a, b, c, n, m, p)'
    <3>1. CASE \E n, m, p \in Nat : Foreign(s, a, b, n, m, p)
      BY <1>3, <1>4, <1>5, <3>1, ForeignStep
    <3>2. CASE \E c, n, m, p \in Nat : Own(s, a, b, c, n, m, p)
      BY <1>3, <1>4, <1>5, <3>2, OwnStep
    <3> QED
      BY <1>2, <3>1, <3>2
  <2>2. Plain'
    BY <1>4, <1>5, <2>1, PlainStep, Zenon DEF Plain
  <2>3. script' = s
    <3>1. ASSUME NEW n, NEW m, NEW p, Foreign(s, a, b, n, m, p)' PROVE script' = s
      BY <3>1, Zenon DEF Foreign
    <3>2. ASSUME NEW c, NEW n, NEW m, NEW p, Own(s, a, b, c, n, m, p)' PROVE script' = s
      BY <3>2, Zenon DEF Own, Talk
    <3> QED
      BY <2>1, <3>1, <3>2
  <2> QED
    BY <1>2, <2>1, <2>2, <2>3, Zenon DEF Inv
<1>6. CASE UNCHANGED vars
  <2>1. UNCHANGED <<mode, found, cmdbuf, datpos, waits, executed, lines, rx, wire, inbuf,
                    script, step, client, sent, answered>>
    BY <1>6 DEF vars, devVars, clientVars
  <2>2. Plain'
    BY <1>4, <2>1 DEF Plain
  <2>3. Queue' = Queue
    BY <2>1 DEF Queue
  <2>4. ASSUME NEW n, NEW m, NEW p, Foreign(s, a, b, n, m, p)
        PROVE  Foreign(s, a, b, n, m, p)'
    BY <2>1, <2>3, <2>4 DEF Foreign, AtLine
  <2>5. ASSUME NEW c, NEW n, NEW m, NEW p, Own(s, a, b, c, n, m, p)
        PROVE  Own(s, a, b, c, n, m, p)'
    <3>1. Talk(s, a, c, n) /\ Text(s, a, c, n, m, p) /\ Taken(s, a, b, c) /\ Said(s, a, c)
      BY <2>5 DEF Own
    <3>2. Talk(s, a, c, n)'
      BY <2>1, <3>1, TalkKept
    <3>3. Text(s, a, c, n, m, p)'
      BY <2>1, <3>1, TextKept
    <3>4. Taken(s, a, b, c)'
      BY <2>1, <3>1, TakenKept
    <3>5. Said(s, a, c)'
      BY <2>1, <2>3, <3>1, SaidKept
    <3> QED
      BY <3>2, <3>3, <3>4, <3>5 DEF Own
  <2>6. script' = s
    BY <1>1, <2>1
  <2> QED
    <3>1. \/ \E n, m, p \in Nat : Foreign(s, a, b, n, m, p)'
          \/ \E c, n, m, p \in Nat : Own(s, a, b, c, n, m, p)'
      BY <1>2, <2>4, <2>5
    <3> QED
      BY <1>2, <2>2, <2>6, <3>1, Zenon DEF Inv
<1> QED
  BY <1>5, <1>6


LEMMA InvInit ==
    ASSUME Init
    PROVE  Inv
<1>1. /\ mode \in InitModes /\ found = mode
      /\ cmdbuf \in IF mode = "cmd" THEN Junk ELSE {<<>>}
      /\ datpos \in IF mode = "uxrx" THEN 1..PktLen-1 ELSE {0}
      /\ waits = 0 /\ flash \in BOOLEAN /\ executed = <<>> /\ lines = 0
      /\ rx = <<>> /\ wire = <<>> /\ inbuf = <<>>
      /\ script \in Scripts /\ step = 1 /\ client = "idle"
      /\ sawFlash = FALSE /\ sent = 0 /\ answered = 0
  BY Zenon DEF Init
<1>2. PICK s : s = script
  OBVIOUS
<1>3. PICK a \in 0..Len(s), b \in 0..Len(s) : SessionOf(s, a, b)
  BY <1>1, <1>2, SessionAssumption, Zenon
<1>4. Session(s, a, b)
  BY <1>3, Zenon DEF Session
<1>5. a \in Nat /\ Len(s) \in Nat /\ Len(s) - a >= 2 /\ a < Len(s)
  BY <1>4, Shape
<1>6. Plain
  <2>1. /\ InitModes \subseteq Modes /\ PktLen \in Nat /\ PktLen > 1 /\ MaxNaks \in Nat \ {0}
    BY ConsoleAssumption
  <2>2. /\ datpos \in 0..PktLen-1 /\ (mode # "uxrx" => datpos = 0) /\ waits \in 0..MaxNaks-1
    BY <1>1, <2>1
  <2>3. inbuf \in Seq(Items) /\ wire \in Seq(Items)
    BY <1>1
  <2> QED
    BY <1>1, <2>1, <2>2, <2>3 DEF Plain
<1>7. Queue = <<>>
  BY <1>1 DEF Queue
<1>8. /\ NoPrompt(Queue)
      /\ \A base, first, final : QueueOK(Queue, 0, base, first, final)
  <2>1. <<>> \in Seq(Items) /\ \A i \in 1..Len(<<>>) : FALSE
    OBVIOUS
  <2> QED
    BY <1>7, <2>1, Zenon DEF NoPrompt, QueueOK
<1>9. AtLine(s, a, 0)
  <2>1. step \in Nat /\ step >= 1 /\ step <= a+1 /\ ~(0 >= 1)
    BY <1>1, <1>5
  <2>2. client = "idle" /\ client # "reading" /\ client # "raised"
    BY <1>1
  <2> QED
    BY <1>1, <2>1, <2>2 DEF AtLine
<1>10. Stream(s, a, 0, 0, 0, 1, rx)
  <2>1. Total(s, a, 0, 0) = 0
    BY DEF Total
  <2>2. rx = <<>> /\ rx \in Seq(Chars) /\ Len(rx) = 0
    BY <1>1
  <2> QED
    BY <2>1, <2>2 DEF Stream
<1>11. CASE mode # "cmd"
  <2>1. cmdbuf = <<>> /\ found # "cmd"
    BY <1>1, <1>11
  <2>2. 0 \in Nat /\ 0 \in {0, 1} /\ 1 \in Nat /\ 1 \in 1..3 /\ ~(1 > 1) /\ 0 # 1
    OBVIOUS
  <2>3. Foreign(s, a, b, 0, 0, 1)
    BY <1>1, <1>2, <1>8, <1>9, <1>10, <1>11, <2>1, <2>2, Zenon DEF Foreign
  <2> QED
    BY <1>2, <1>3, <1>6, <2>2, <2>3, Zenon DEF Inv
<1>12. CASE mode = "cmd"
  <2>1. cmdbuf \in Junk
    BY <1>1, <1>12
  <2>2. cmdbuf \in Seq(Chars) /\ Len(cmdbuf) < CmdBufSize /\ NoCommand(cmdbuf)
    <3>1. cmdbuf \in Seq(STRING) /\ STRING \subseteq Chars
      BY <2>1, ConsoleAssumption DEF Chars
    <3>2. cmdbuf \in Seq(Chars)
      BY <3>1, SeqMonotonic
    <3>3. Len(cmdbuf) < CmdBufSize /\ \A k \in DOMAIN Commands : ~IsPrefix(Commands[k], cmdbuf)
      BY <2>1, ConsoleAssumption
    <3> QED
      BY <3>2, <3>3 DEF NoCommand
  <2>3. 0 \in Nat /\ 1 \in Nat /\ 0 <= 0 /\ 0 <= 0+2 /\ ~(0 > 0) /\ 0 <= 0+1
        /\ 1 <= IF 0 = 0 THEN 1 ELSE Len(Line(s, a, 0+1)) + 1
    OBVIOUS
  <2>4. Text(s, a, 0, 0, 0, 1)
    BY <1>10, <2>2, <2>3, Zenon DEF Text
  <2>5. Talk(s, a, 0, 0)
    <3>1. ~(step > Len(s)) /\ 0 <= Len(s) - a
      BY <1>1, <1>5
    <3>2. 0 <= 0 + (IF client = "reading" THEN 1 ELSE 0) + (IF found = "cmd" THEN 0 ELSE 1)
      BY <1>1
    <3> QED
      BY <1>1, <1>2, <1>9, <2>3, <3>1, <3>2, Zenon DEF Talk
  <2>6. Taken(s, a, b, 0)
    <3>1. 0 # Len(s) - a /\ Done(s, a, b, 0) = <<>>
      BY <1>4, <1>5, DoneNext
    <3> QED
      BY <1>1, <1>12, <2>3, <3>1, Zenon DEF Taken
  <2>7. Said(s, a, 0)
    <3>1. client # "reading"
      BY <1>1
    <3> QED
      BY <1>1, <1>8, <3>1, Zenon DEF Said
  <2>8. Own(s, a, b, 0, 0, 0, 1)
    BY <2>4, <2>5, <2>6, <2>7 DEF Own
  <2> QED
    BY <1>2, <1>3, <1>6, <2>3, <2>8, Zenon DEF Inv
<1> QED
  BY <1>11, <1>12

LEMMA AlwaysInv == Spec => []Inv
<1>1. Init => Inv
  BY InvInit
<1>2. Inv /\ [Next]_vars => Inv'
  BY InvStep
<1> QED
  BY <1>1, <1>2, PTL DEF Spec


(***************************************************************************)
(* What follows.                                                           *)
(***************************************************************************)

\* A session has one opening.
LEMMA OpeningIs ==
    ASSUME NEW a, NEW b, Session(script, a, b)
    PROVE  Opening = b
<1> DEFINE P(n) == \E aborts \in 0..n : SessionOf(script, aborts, n)
<1>1. a \in Nat /\ b \in Nat /\ Len(script) \in Nat /\ a < b /\ b < Len(script)
  BY Shape
<1>2. ASSUME NEW a1 \in Nat, NEW b1 \in 0..Len(script), SessionOf(script, a1, b1),
             NEW a2 \in Nat, NEW b2 \in 0..Len(script), SessionOf(script, a2, b2), b1 < b2
      PROVE  FALSE
  <2>1. a2 < b2 /\ b2 \in a2+1..b2 /\ b2 \in b1+1..Len(script)
    <3>1. a2 < b2
      BY <1>2, Zenon DEF SessionOf
    <3> QED
      BY <1>1, <1>2, <3>1
  <2>2. script[b2].line = <<>>
    BY <1>2, <2>1, Zenon DEF SessionOf
  <2>3. IsCommand(script[b2].line)
    BY <1>2, <2>1, Zenon DEF SessionOf
  <2> QED
    BY <2>2, <2>3 DEF IsCommand
<1>3. b \in 0..Len(script) /\ P(b)
  <2>1. a \in 0..b /\ b \in 0..Len(script) /\ SessionOf(script, a, b)
    BY <1>1 DEF Session
  <2> QED
    BY <2>1, Zenon
<1>4. ASSUME NEW n \in 0..Len(script), P(n) PROVE n = b
  <2>1. PICK d \in 0..n : SessionOf(script, d, n)
    BY <1>4, Zenon
  <2>2. SessionOf(script, a, b) /\ d \in Nat /\ n \in Nat
    BY <1>1 DEF Session
  <2>3. ~(n < b)
    BY <1>1, <1>2, <1>3, <2>1, <2>2, Zenon
  <2>4. ~(b < n)
    BY <1>1, <1>2, <1>3, <2>1, <2>2, Zenon
  <2> QED
    BY <1>1, <2>2, <2>3, <2>4
<1>5. Opening = CHOOSE n \in 0..Len(script) : P(n)
  BY Zenon DEF Opening
<1> HIDE DEF P
<1>6. Opening \in 0..Len(script) /\ P(Opening)
  BY <1>3, <1>5, Zenon
<1> QED
  BY <1>4, <1>6, Zenon

\* The commands among the lines taken are the first of the session's.
LEMMA DoneIntended ==
    ASSUME NEW a, NEW b, Session(script, a, b), NEW c \in Nat, c <= Len(script) - a
    PROVE  /\ IsPrefix(Done(script, a, b, c), Intended)
           /\ c = Len(script) - a => Done(script, a, b, c) = Intended
<1> DEFINE S == {script[i].line : i \in 1..Len(script)}
           e == IF a+c <= b THEN 0 ELSE a+c-b
           f == Len(script) - b
           u == [k \in 1..e |-> script[b+k].line]
           v == [k \in 1..f |-> script[b+k].line]
<1>1. a \in Nat /\ b \in Nat /\ Len(script) \in Nat /\ a < b /\ b < Len(script)
  BY Shape
<1>2. Done(script, a, b, c) = u
  BY DEF Done
<1>3. Intended = v
  <2>1. Opening = b
    BY OpeningIs
  <2> QED
    BY <2>1 DEF Intended
<1>4. e \in Nat /\ f \in Nat /\ e <= f /\ (c = Len(script) - a => e = f)
  BY <1>1
<1>5. \A k \in 1..f : b+k \in 1..Len(script)
  BY <1>1
<1>6. \A k \in 1..f : script[b+k].line \in S
  BY <1>5
<1> HIDE DEF e, f, S
<1>7. u \in Seq(S) /\ Len(u) = e /\ v \in Seq(S) /\ Len(v) = f
  BY <1>4, <1>6
<1>8. \A k \in 1..e : u[k] = v[k]
  BY <1>4
<1>9. IsPrefix(u, v)
  <2> HIDE DEF u, v
  <2>1. Len(u) <= Len(v) /\ \A i \in 1..Len(u) : u[i] = v[i]
    BY <1>4, <1>7, <1>8
  <2> QED
    BY <1>7, <2>1, PrefixAt, Zenon
<1>10. c = Len(script) - a => u = v
  BY <1>4
<1> QED
  BY <1>2, <1>3, <1>9, <1>10, Zenon

\* What holds of a state of a session.
LEMMA Holds ==
    ASSUME Inv
    PROVE  TypeOK /\ CommandsIntact /\ TransferInStep /\ OwnAnswerFromIdle
<1>1. PICK a \in 0..Len(script), b \in 0..Len(script) :
         /\ SessionOf(script, a, b)
         /\ \/ \E n, m, p \in Nat : Foreign(script, a, b, n, m, p)
            \/ \E c, n, m, p \in Nat : Own(script, a, b, c, n, m, p)
  BY Zenon DEF Inv
<1>2. Session(script, a, b)
  BY <1>1, Zenon DEF Session
<1>3. a \in Nat /\ b \in Nat /\ Len(script) \in Nat /\ Len(script) - a >= 2 /\ a < Len(script)
  BY <1>2, Shape
<1>4. Plain
  BY DEF Inv
<1>5. CASE \E n, m, p \in Nat : Foreign(script, a, b, n, m, p)
  <2>1. PICK n \in Nat, m \in Nat, p \in Nat : Foreign(script, a, b, n, m, p)
    BY <1>5
  <2>2. /\ found # "cmd" /\ lines = 0 /\ answered = 0 /\ executed = <<>> /\ cmdbuf = <<>>
        /\ n \in {0, 1} /\ AtLine(script, a, n) /\ (n = 1 => client = "reading")
    BY <2>1 DEF Foreign
  <2>3. client = "idle" => step <= Len(script)
    BY <1>3, <2>2 DEF AtLine
  <2>4. /\ sent = n /\ step \in 1..Len(script)+1 /\ client \in {"idle", "reading", "raised"}
    BY <1>3, <2>2 DEF AtLine
  <2>5. Len(cmdbuf) < CmdBufSize /\ sent \in 0..Len(script) /\ lines \in 0..sent
        /\ answered \in 0..lines
    BY <1>3, <2>2, <2>4, ConsoleAssumption
  <2>6. TypeOK
    BY <1>4, <2>4, <2>5 DEF TypeOK, Plain
  <2>7. CommandsIntact
    <3>1. Done(script, a, b, 0) = executed
      BY <1>2, <2>2, DoneNext
    <3>2. 0 \in Nat /\ 0 <= Len(script) - a
      BY <1>3
    <3> QED
      BY <1>2, <3>1, <3>2, DoneIntended DEF CommandsIntact
  <2>8. TransferInStep
    <3>1. ~(client = "idle" /\ step > Len(script))
      BY <1>3, <2>3, <2>4
    <3> QED
      BY <3>1 DEF TransferInStep
  <2> QED
    BY <2>2, <2>6, <2>7, <2>8 DEF OwnAnswerFromIdle
<1>6. CASE \E c, n, m, p \in Nat : Own(script, a, b, c, n, m, p)
  <2>1. PICK c \in Nat, n \in Nat, m \in Nat, p \in Nat : Own(script, a, b, c, n, m, p)
    BY <1>6
  <2>2. Talk(script, a, c, n) /\ Text(script, a, c, n, m, p) /\ Taken(script, a, b, c)
    BY <2>1 DEF Own
  <2>3. /\ AtLine(script, a, n) /\ n <= Len(script) - a /\ c <= n
        /\ answered \in Nat /\ answered <= lines /\ lines \in Nat /\ lines <= c
        /\ Len(cmdbuf) < CmdBufSize
        /\ n <= answered + (IF client = "reading" THEN 1 ELSE 0) + (IF found = "cmd" THEN 0 ELSE 1)
        /\ client = "idle" /\ step > Len(script) => c = Len(script) - a
    BY <2>2 DEF Talk, Text, Taken
  <2>4. /\ sent = n /\ client \in {"idle", "reading", "raised"} /\ step \in 1..Len(script)+1
    BY <1>3, <2>3 DEF AtLine
  <2>5. sent \in 0..Len(script) /\ lines \in 0..sent /\ answered \in 0..lines
    BY <1>3, <2>3, <2>4
  <2>6. TypeOK
    BY <1>4, <2>3, <2>4, <2>5 DEF TypeOK, Plain
  <2>7. executed = Done(script, a, b, c)
    BY <2>2 DEF Taken
  <2>8. c <= Len(script) - a
    BY <1>3, <2>3
  <2>9. CommandsIntact
    BY <1>2, <2>7, <2>8, DoneIntended DEF CommandsIntact
  <2>10. TransferInStep
    <3> SUFFICES ASSUME client = "idle", step > Len(script)
                 PROVE  executed = Intended /\ mode \in {"dxstart", "uxwait"}
      BY DEF TransferInStep
    <3>1. c = Len(script) - a
      BY <2>3
    <3>2. mode \in {"dxstart", "uxwait"}
      BY <2>2, <3>1 DEF Taken
    <3> QED
      BY <1>2, <2>7, <2>8, <3>1, <3>2, DoneIntended
  <2>11. OwnAnswerFromIdle
    <3> SUFFICES ASSUME found = "cmd", client = "idle" PROVE answered = sent
      BY DEF OwnAnswerFromIdle, OwnAnswer
    <3> QED
      BY <2>3, <2>4
  <2> QED
    BY <2>6, <2>9, <2>10, <2>11
<1> QED
  BY <1>1, <1>5, <1>6

\* The firmware's and the client's counters and places stay where they belong:
\* main's line never overruns cmdbuf, and no answer is taken before a line
\* ended.
THEOREM TypeCorrect == Spec => []TypeOK
<1>1. Inv => TypeOK
  BY Holds
<1> QED
  BY <1>1, AlwaysInv, PTL

\* menu_handleLine executes the commands of the client's session only, in
\* order and each as it was sent, whatever was in cmdbuf or under way when the
\* port was opened.
THEOREM NothingElseExecuted == Spec => []CommandsIntact
<1>1. Inv => CommandsIntact
  BY Holds
<1> QED
  BY <1>1, AlwaysInv, PTL

\* A client that goes on to send or to receive blocks finds the firmware in
\* uploadXmodem or downloadXmodem, with the commands before executed.
THEOREM TransfersInStep == Spec => []TransferInStep
<1>1. Inv => TransferInStep
  BY Holds
<1> QED
  BY <1>1, AlwaysInv, PTL

\* An exchangeCommand takes the answer to its own line, when the port was
\* opened on the main loop.
THEOREM AnswersOwnLine == Spec => []OwnAnswerFromIdle
<1>1. Inv => OwnAnswerFromIdle
  BY Holds
<1> QED
  BY <1>1, AlwaysInv, PTL
=============================================================================
