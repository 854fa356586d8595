------------------------- MODULE XmodemUploadProofs -------------------------
(***************************************************************************)
(* What the flash holds after an upload is a prefix of the file, for every *)
(* file, length and modulus of the packets, size of the receive buffer,    *)
(* limit of the waits and of the retries, and every set of clients; the    *)
(* receive buffer overruns only after a premature timeout; and a sender    *)
(* that reports success has left nothing out.                              *)
(***************************************************************************)
EXTENDS XmodemUpload, SequenceTheorems, TLAPS

Kinds == {"SOH", "seq", "data", "EOT", "CAN", "ETX", "LF"}
Cells == [kind : Kinds, n : 0..N]

\* How much is programmed, and what is still to be processed, in order.
Done == Len(programmed)
Stream == packetbuf \o (ring \o toDev)

Typed ==
    /\ dev \in {"send", "wait", "rx", "process", "cmd"}
    /\ host \in {"ux", "start", "send", "ack", "eot", "eotack", "done", "failed"}
    /\ packetbuf \in Seq(Cells) /\ Len(packetbuf) <= PktLen
    /\ dev = "rx" => Len(packetbuf) \in 1..PktLen-1
    /\ dev = "process" => Len(packetbuf) = PktLen
    /\ ring \in Seq(Cells) /\ Len(ring) < RxBufSize /\ toDev \in Seq(Cells)
    /\ tries \in 0..WaitLimit-1 /\ errs \in 0..Retry
    /\ blk \in 1..N+1 /\ last_packet_id \in 0..SeqMod-1
    /\ host \in {"send", "ack"} => blk <= N
    /\ host \in {"ux", "start"} => blk = 1
    /\ overrun \in BOOLEAN

(***************************************************************************)
(* The strengthening, on a stream s of cells.  Its packets are whole, and  *)
(* what could be mistaken for a control character lies in one (Framed).    *)
(* Their blocks never decrease, none is behind the p that are programmed,  *)
(* and each is preceded by all the blocks between (Ordered, Covers).       *)
(***************************************************************************)
Starts(s) == {k \in 1..Len(s) : s[k].kind = "SOH"}
No(s, k) == s[k + 1].n

Whole(s, k) ==
    /\ k + PktLen - 1 <= Len(s)
    /\ \E b \in 1..N : \A m \in 1..PktLen : s[k + m - 1] = Packet(b)[m]

Framed(s) ==
    /\ \A k \in Starts(s) : Whole(s, k)
    /\ \A k \in 1..Len(s) : Opaque(s[k]) => \E j \in Starts(s) : j < k /\ k < j + PktLen

Covers(s, p, b, k) == \A c \in p+1..b : \E j \in Starts(s) : j <= k /\ No(s, j) = c

Ordered(s, p, b) ==
    \A k \in Starts(s) :
        /\ No(s, k) \in p..b /\ Covers(s, p, No(s, k), k)
        /\ \A j \in Starts(s) : j <= k => No(s, j) <= No(s, k)

\* The last block the client has sent at least once.
LastSent == IF host = "ack" THEN blk ELSE blk - 1

Underway ==
    /\ Framed(Stream) /\ Ordered(Stream, Done, blk)
    /\ Covers(Stream, Done, LastSent, Len(Stream))
    /\ Done <= blk /\ last_packet_id = Done % SeqMod
    /\ dev \in {"send", "wait"} => packetbuf = <<>>
    /\ dev \in {"rx", "process"} => packetbuf[1].kind = "SOH"

\* At the command line nothing is programmed any more, and after an overrun
\* nothing is promised.
UploadInv ==
    /\ Typed /\ ExactPrefix
    /\ ~overrun => Done \in Nat
    /\ ~overrun /\ dev # "cmd" => Underway


-----------------------------------------------------------------------------
(***************************************************************************)
(* Cells, packets and queues.                                              *)
(***************************************************************************)
LEMMA Sizes ==
    /\ N \in Nat \ {0} /\ SeqMod \in Nat \ {0, 1, 2} /\ PktLen \in Nat /\ PktLen >= 3
    /\ RxBufSize \in Nat /\ PktLen + 2 < RxBufSize
    /\ WaitLimit \in Nat \ {0} /\ Retry \in Nat
BY UploadAssumption

LEMMA CtlCell ==
    ASSUME NEW k \in {"SOH", "EOT", "CAN", "ETX", "LF"}
    PROVE  Ctl(k) \in Cells /\ Ctl(k).kind = k /\ ~Opaque(Ctl(k))
BY Sizes DEF Ctl, Cell, Cells, Kinds, Opaque

LEMMA PacketCells ==
    ASSUME NEW b \in 1..N
    PROVE  /\ Packet(b) \in Seq(Cells) /\ Len(Packet(b)) = PktLen
           /\ Packet(b)[1].kind = "SOH" /\ Packet(b)[2].kind = "seq" /\ Packet(b)[2].n = b
           /\ \A m \in 3..PktLen : Packet(b)[m] = Cell("data", b)
           /\ \A m \in 2..PktLen : Opaque(Packet(b)[m]) /\ Packet(b)[m].kind # "SOH"
<1> DEFINE head == <<Ctl("SOH"), Cell("seq", b)>>
           data == [i \in 1..PktLen-2 |-> Cell("data", b)]
<1>1. /\ Cell("seq", b) \in Cells /\ Cell("data", b) \in Cells /\ Ctl("SOH") \in Cells
      /\ Ctl("SOH").kind = "SOH"
      /\ Cell("seq", b).kind = "seq" /\ Cell("seq", b).n = b
      /\ Cell("data", b).kind = "data"
  BY Sizes DEF Ctl, Cell, Cells, Kinds
<1>2. PktLen - 2 \in Nat
  BY Sizes
<1>3. data \in Seq(Cells) /\ Len(data) = PktLen - 2 /\ \A i \in 1..PktLen-2 : data[i] = Cell("data", b)
  BY <1>1, <1>2
<1>4. head \in Seq(Cells) /\ Len(head) = 2 /\ head[1] = Ctl("SOH") /\ head[2] = Cell("seq", b)
  BY <1>1
<1> HIDE DEF head, data
<1>5. /\ head \o data \in Seq(Cells) /\ Len(head \o data) = Len(head) + Len(data)
      /\ \A i \in 1..Len(head) + Len(data) :
            (head \o data)[i] = IF i <= Len(head) THEN head[i] ELSE data[i - Len(head)]
  BY <1>3, <1>4, ConcatProperties, Zenon
<1>6. Packet(b) = head \o data
  BY DEF Packet, head, data
<1>7. /\ Packet(b) \in Seq(Cells) /\ Len(Packet(b)) = PktLen
      /\ Packet(b)[1] = Ctl("SOH") /\ Packet(b)[2] = Cell("seq", b)
      /\ \A m \in 3..PktLen : Packet(b)[m] = Cell("data", b)
  BY <1>3, <1>4, <1>5, <1>6, Sizes
<1>8. \A m \in 2..PktLen : m = 2 \/ m \in 3..PktLen
  BY Sizes
<1>9. \A m \in 2..PktLen : Packet(b)[m].kind \in {"seq", "data"}
  BY <1>1, <1>7, <1>8
<1> QED
  BY <1>1, <1>7, <1>9 DEF Opaque

LEMMA Tails ==
    ASSUME NEW S, NEW s \in Seq(S), s # <<>>
    PROVE  /\ Head(s) = s[1] /\ s[1] \in S /\ Len(s) \in Nat \ {0}
           /\ Tail(s) \in Seq(S) /\ Len(Tail(s)) = Len(s) - 1
           /\ \A k \in 1..Len(Tail(s)) : Tail(s)[k] = s[k + 1]
BY HeadTailProperties, LenProperties, ElementOfSeq

LEMMA Arrives ==
    ASSUME NEW q, NEW c \in Oldest(q)
    PROVE  q # <<>> /\ c = Head(q)
BY DEF Oldest

\* t is s with w at its end.
Extends(t, s, w) == t = s \o w

LEMMA Regrouped ==
    ASSUME NEW S, NEW a \in Seq(S), NEW b \in Seq(S), NEW c \in Seq(S)
    PROVE  Extends(a \o (b \o c), a \o b, c)
BY ConcatAssociative DEF Extends

\* A cell taken from the front of one queue and put at the end of the one
\* before it leaves their concatenation as it was.
LEMMA Moved ==
    ASSUME NEW S, NEW a \in Seq(S), NEW b \in Seq(S), NEW c \in Seq(S), b # <<>>
    PROVE  Append(a, Head(b)) \o (Tail(b) \o c) = a \o (b \o c)
<1>1. Head(b) \in S /\ Tail(b) \in Seq(S) /\ Len(b) \in Nat \ {0} /\ b = <<Head(b)>> \o Tail(b)
  BY Tails, HeadTailProperties
<1> DEFINE h == <<Head(b)>>
           t == Tail(b)
<1>2. h \in Seq(S) /\ t \in Seq(S) /\ Append(a, Head(b)) = a \o h /\ b = h \o t
  BY <1>1, AppendIsConcat
<1> HIDE DEF h, t
<1>3. t \o c \in Seq(S)
  BY <1>2, ConcatProperties, Zenon
<1>4. Extends(a \o (h \o (t \o c)), a \o h, t \o c)
  BY <1>2, <1>3, Regrouped, Zenon
<1>5. Extends(h \o (t \o c), h \o t, c)
  BY <1>2, Regrouped, Zenon
<1> QED
  BY <1>2, <1>4, <1>5, Zenon DEF t, Extends

-----------------------------------------------------------------------------
(***************************************************************************)
(* The stream grows at its end: a control character changes nothing, and a *)
(* packet fits when its block follows what was sent before.                *)
(***************************************************************************)
LEMMA InStream ==
    ASSUME NEW s \in Seq(Cells), Framed(s), NEW k \in Starts(s)
    PROVE  /\ k \in Nat \ {0} /\ k + PktLen - 1 <= Len(s) /\ k + 1 <= Len(s)
           /\ No(s, k) \in 1..N
           /\ \A m \in 1..PktLen : s[k + m - 1] = Packet(No(s, k))[m]
<1>1. k \in Nat \ {0} /\ Len(s) \in Nat
  BY LenProperties DEF Starts
<1>2. k + PktLen - 1 <= Len(s)
  BY DEF Framed, Whole
<1>3. PICK b \in 1..N : \A m \in 1..PktLen : s[k + m - 1] = Packet(b)[m]
  BY DEF Framed, Whole
<1>4. 2 \in 1..PktLen /\ k + 2 - 1 = k + 1 /\ k + 1 <= k + PktLen - 1
  BY <1>1, Sizes
<1>5. No(s, k) = b
  BY <1>3, <1>4, PacketCells DEF No
<1> QED
  BY <1>1, <1>2, <1>3, <1>4, <1>5, Sizes

LEMMA Joined ==
    ASSUME NEW s \in Seq(Cells), NEW w \in Seq(Cells)
    PROVE  /\ s \o w \in Seq(Cells) /\ Len(s) \in Nat /\ Len(w) \in Nat
           /\ Len(s \o w) = Len(s) + Len(w)
           /\ \A k \in 1..Len(s) : (s \o w)[k] = s[k]
           /\ \A k \in 1..Len(w) : (s \o w)[Len(s) + k] = w[k]
           /\ \A k \in 1..Len(s \o w) : k \in 1..Len(s) \/ k - Len(s) \in 1..Len(w)
<1>1. /\ s \o w \in Seq(Cells) /\ Len(s \o w) = Len(s) + Len(w)
      /\ \A k \in 1..Len(s) + Len(w) : (s \o w)[k] = IF k <= Len(s) THEN s[k] ELSE w[k - Len(s)]
  BY ConcatProperties, Zenon
<1>2. Len(s) \in Nat /\ Len(w) \in Nat
  BY LenProperties
<1> QED
  BY <1>1, <1>2

LEMMA JoinedStarts ==
    ASSUME NEW s \in Seq(Cells), NEW w \in Seq(Cells), Framed(s)
    PROVE  /\ \A k \in Starts(s) : k \in Starts(s \o w) /\ No(s \o w, k) = No(s, k)
           /\ \A k \in Starts(s \o w) : k \in Starts(s) \/ k - Len(s) \in Starts(w)
           /\ \A k \in Starts(s) : k <= Len(s)
<1>1. ASSUME NEW k \in Starts(s)
      PROVE  k \in Starts(s \o w) /\ No(s \o w, k) = No(s, k) /\ k <= Len(s)
  <2>1. k \in 1..Len(s) /\ k + 1 \in 1..Len(s) /\ s[k].kind = "SOH"
    BY InStream DEF Starts
  <2> QED
    BY <2>1, Joined DEF Starts, No
<1>2. ASSUME NEW k \in Starts(s \o w) PROVE k \in Starts(s) \/ k - Len(s) \in Starts(w)
  <2>1. k \in 1..Len(s \o w) /\ (s \o w)[k].kind = "SOH"
    BY DEF Starts
  <2>2. CASE k \in 1..Len(s)
    BY <2>1, <2>2, Joined DEF Starts
  <2>3. CASE k - Len(s) \in 1..Len(w)
    <3>1. Len(s) + (k - Len(s)) = k
      BY <2>1, Joined
    <3>2. (s \o w)[k] = w[k - Len(s)]
      BY <2>3, <3>1, Joined
    <3> QED
      BY <2>1, <2>3, <3>2 DEF Starts
  <2> QED
    BY <2>1, <2>2, <2>3, Joined
<1> QED
  BY <1>1, <1>2

LEMMA JoinedCovers ==
    ASSUME NEW s \in Seq(Cells), NEW w \in Seq(Cells), Framed(s),
           NEW p \in Nat, NEW x \in Int, NEW k \in Int, NEW m \in Int, k <= m, Covers(s, p, x, k)
    PROVE  Covers(s \o w, p, x, m)
<1> SUFFICES ASSUME NEW c \in p+1..x
             PROVE  \E j \in Starts(s \o w) : j <= m /\ No(s \o w, j) = c
  BY DEF Covers
<1>1. PICK j \in Starts(s) : j <= k /\ No(s, j) = c
  BY DEF Covers
<1>2. j \in Int
  BY DEF Starts
<1> QED
  BY <1>1, <1>2, JoinedStarts

LEMMA JoinedFramed ==
    ASSUME NEW s \in Seq(Cells), NEW w \in Seq(Cells), Framed(s), Framed(w)
    PROVE  Framed(s \o w)
<1> DEFINE t == s \o w
           n == Len(s)
<1>1. /\ t \in Seq(Cells) /\ n \in Nat /\ Len(w) \in Nat /\ Len(t) = n + Len(w)
      /\ \A k \in 1..n : t[k] = s[k]
      /\ \A k \in 1..Len(w) : t[n + k] = w[k]
      /\ \A k \in 1..Len(t) : k \in 1..n \/ k - n \in 1..Len(w)
  BY Joined
<1>2. /\ \A k \in Starts(s) : k \in Starts(t)
      /\ \A k \in Starts(t) : k \in Starts(s) \/ k - n \in Starts(w)
  BY JoinedStarts
<1>3. ASSUME NEW k \in Starts(w) PROVE n + k \in Starts(t)
  <2>1. k \in 1..Len(w) /\ w[k].kind = "SOH"
    BY DEF Starts
  <2>2. n + k \in 1..Len(t) /\ t[n + k] = w[k]
    BY <1>1, <2>1
  <2> QED
    BY <2>1, <2>2 DEF Starts
<1> HIDE DEF t, n
<1>4. ASSUME NEW k \in Starts(t) PROVE Whole(t, k)
  <2>1. CASE k \in Starts(s)
    <3>1. /\ k \in Nat \ {0} /\ k + PktLen - 1 <= n
      BY <2>1, InStream DEF n
    <3>2. PICK b \in 1..N : \A m \in 1..PktLen : s[k + m - 1] = Packet(b)[m]
      BY <2>1 DEF Framed, Whole
    <3>3. \A m \in 1..PktLen : k + m - 1 \in 1..n
      BY <1>1, <3>1, Sizes
    <3>4. \A m \in 1..PktLen : t[k + m - 1] = Packet(b)[m]
      BY <1>1, <3>2, <3>3
    <3> QED
      BY <1>1, <3>1, <3>4, Sizes DEF Whole
  <2>2. CASE k - n \in Starts(w)
    <3>1. PICK i \in Starts(w) : i = k - n
      BY <2>2
    <3>2. i \in Nat \ {0} /\ i + PktLen - 1 <= Len(w) /\ k \in Int
      BY <3>1, InStream DEF Starts
    <3>3. PICK b \in 1..N : \A m \in 1..PktLen : w[i + m - 1] = Packet(b)[m]
      BY DEF Framed, Whole
    <3>4. \A m \in 1..PktLen : i + m - 1 \in 1..Len(w) /\ n + (i + m - 1) = k + m - 1
      BY <1>1, <3>1, <3>2, Sizes
    <3>5. \A m \in 1..PktLen : t[k + m - 1] = Packet(b)[m]
      BY <1>1, <3>3, <3>4
    <3> QED
      BY <1>1, <3>1, <3>2, <3>5, Sizes DEF Whole
  <2> QED
    BY <1>2, <2>1, <2>2
<1>5. ASSUME NEW k \in 1..Len(t), Opaque(t[k])
      PROVE  \E j \in Starts(t) : j < k /\ k < j + PktLen
  <2>1. CASE k \in 1..n
    <3>1. Opaque(s[k])
      BY <1>1, <1>5, <2>1
    <3>2. PICK j \in Starts(s) : j < k /\ k < j + PktLen
      BY <2>1, <3>1 DEF Framed, n
    <3> QED
      BY <1>2, <3>2
  <2>2. CASE k - n \in 1..Len(w)
    <3>1. n + (k - n) = k
      BY <1>1
    <3>2. Opaque(w[k - n])
      BY <1>1, <1>5, <2>2, <3>1
    <3>3. PICK j \in Starts(w) : j < k - n /\ k - n < j + PktLen
      BY <2>2, <3>2 DEF Framed
    <3>4. j \in Int
      BY DEF Starts
    <3>5. n + j \in Starts(t) /\ n + j < k /\ k < (n + j) + PktLen
      BY <1>1, <1>3, <3>3, <3>4, Sizes
    <3> QED
      BY <3>5
  <2> QED
    BY <1>1, <2>1, <2>2
<1> QED
  BY <1>4, <1>5 DEF Framed, t


\* A control character is no part of a packet.
LEMMA CtlFramed ==
    ASSUME NEW w \in Seq(Cells), \A k \in 1..Len(w) : w[k].kind # "SOH" /\ ~Opaque(w[k])
    PROVE  Framed(w) /\ Starts(w) = {}
BY DEF Framed, Starts

LEMMA CtlPairs ==
    ASSUME NEW a \in {"EOT", "CAN", "ETX", "LF"}, NEW b \in {"EOT", "CAN", "ETX", "LF"}
    PROVE  /\ <<Ctl(a)>> \in Seq(Cells) /\ <<Ctl(a), Ctl(b)>> \in Seq(Cells)
           /\ Framed(<<Ctl(a)>>) /\ Starts(<<Ctl(a)>>) = {}
           /\ Framed(<<Ctl(a), Ctl(b)>>) /\ Starts(<<Ctl(a), Ctl(b)>>) = {}
<1>1. /\ Ctl(a) \in Cells /\ Ctl(a).kind # "SOH" /\ ~Opaque(Ctl(a))
      /\ Ctl(b) \in Cells /\ Ctl(b).kind # "SOH" /\ ~Opaque(Ctl(b))
  BY CtlCell
<1>2. PICK x, y : x = Ctl(a) /\ y = Ctl(b)
  OBVIOUS
<1>3. /\ <<x>> \in Seq(Cells) /\ <<x, y>> \in Seq(Cells)
      /\ \A k \in 1..Len(<<x>>) : <<x>>[k] = x
      /\ \A k \in 1..Len(<<x, y>>) : <<x, y>>[k] \in {x, y}
  BY <1>1, <1>2
<1>4. /\ \A k \in 1..Len(<<x>>) : <<x>>[k].kind # "SOH" /\ ~Opaque(<<x>>[k])
      /\ \A k \in 1..Len(<<x, y>>) : <<x, y>>[k].kind # "SOH" /\ ~Opaque(<<x, y>>[k])
  BY <1>1, <1>2, <1>3, Zenon
<1> QED
  BY <1>2, <1>3, <1>4, CtlFramed, Zenon

LEMMA PacketFramed ==
    ASSUME NEW b \in 1..N
    PROVE  /\ Packet(b) \in Seq(Cells) /\ Len(Packet(b)) = PktLen
           /\ Framed(Packet(b)) /\ Starts(Packet(b)) = {1} /\ No(Packet(b), 1) = b
<1> DEFINE w == Packet(b)
<1>1. /\ w \in Seq(Cells) /\ Len(w) = PktLen /\ w[1].kind = "SOH" /\ w[2].n = b
      /\ \A m \in 2..PktLen : w[m].kind # "SOH"
  BY PacketCells
<1> HIDE DEF w
<1>2. Starts(w) = {1}
  BY <1>1, Sizes DEF Starts
<1>3. \A m \in 1..PktLen : w[1 + m - 1] = w[m]
  BY Sizes
<1>4. Whole(w, 1)
  BY <1>1, <1>3, Sizes DEF Whole, w
<1>5. \A k \in 1..Len(w) : Opaque(w[k]) => 1 < k /\ k < 1 + PktLen
  BY <1>1, Sizes DEF Opaque
<1>6. No(w, 1) = b
  BY <1>1 DEF No
<1> QED
  BY <1>1, <1>2, <1>4, <1>5, <1>6 DEF Framed, w

LEMMA JoinedOrdered ==
    ASSUME NEW s \in Seq(Cells), NEW w \in Seq(Cells), Framed(s), Starts(w) = {},
           NEW p \in Nat, NEW b \in Nat, Ordered(s, p, b)
    PROVE  Ordered(s \o w, p, b)
<1> DEFINE t == s \o w
<1>1. /\ \A k \in Starts(s) : k \in Starts(t) /\ No(t, k) = No(s, k)
      /\ \A k \in Starts(t) : k \in Starts(s)
  BY JoinedStarts
<1>2. ASSUME NEW k \in Starts(t)
      PROVE  /\ No(t, k) \in p..b /\ Covers(t, p, No(t, k), k)
             /\ \A j \in Starts(t) : j <= k => No(t, j) <= No(t, k)
  <2>1. k \in Starts(s) /\ k \in Int /\ No(s, k) \in Int
    BY <1>1, InStream
  <2>2. No(s, k) \in p..b /\ Covers(s, p, No(s, k), k)
    BY <2>1 DEF Ordered
  <2>3. Covers(t, p, No(s, k), k)
    BY <2>1, <2>2, JoinedCovers
  <2>4. \A j \in Starts(t) : j <= k => No(t, j) <= No(t, k)
    BY <1>1, <2>1 DEF Ordered
  <2> QED
    BY <1>1, <2>1, <2>2, <2>3, <2>4
<1> QED
  BY <1>2 DEF Ordered

LEMMA PacketOrdered ==
    ASSUME NEW s \in Seq(Cells), Framed(s), NEW p \in Nat, NEW b \in 1..N, p <= b,
           Ordered(s, p, b), Covers(s, p, b - 1, Len(s))
    PROVE  /\ Ordered(s \o Packet(b), p, b)
           /\ Covers(s \o Packet(b), p, b, Len(s \o Packet(b)))
<1> DEFINE w == Packet(b)
           t == s \o w
           n == Len(s)
<1>1. w \in Seq(Cells) /\ Starts(w) = {1} /\ w[1].kind = "SOH" /\ w[2].n = b /\ Len(w) = PktLen
  BY PacketCells, PacketFramed
<1>2. /\ n \in Nat /\ Len(t) = n + PktLen /\ t[n + 1] = w[1] /\ t[n + 2] = w[2]
  <2> HIDE DEF w
  <2>1. /\ n \in Nat /\ Len(t) = n + Len(w) /\ \A k \in 1..Len(w) : t[n + k] = w[k]
    BY <1>1, Joined, Zenon
  <2>2. 1 \in 1..Len(w) /\ 2 \in 1..Len(w)
    BY <1>1, Sizes
  <2> QED
    BY <1>1, <2>1, <2>2
<1>3. n + 1 \in Starts(t) /\ No(t, n + 1) = b
  BY <1>1, <1>2, Sizes DEF Starts, No
<1>4. /\ \A k \in Starts(s) : k \in Starts(t) /\ No(t, k) = No(s, k) /\ k <= n
      /\ \A k \in Starts(t) : k \in Starts(s) \/ k - n \in Starts(w)
  BY <1>1, JoinedStarts
<1>5. \A k \in Starts(t) : k \in Starts(s) \/ k = n + 1
  BY <1>1, <1>2, <1>4 DEF Starts
<1> HIDE DEF w, t, n
<1>6. Covers(t, p, b, n + 1)
  <2> SUFFICES ASSUME NEW c \in p+1..b
               PROVE  \E j \in Starts(t) : j <= n + 1 /\ No(t, j) = c
    BY DEF Covers
  <2>1. CASE c = b
    BY <1>2, <1>3, <2>1
  <2>2. CASE c \in p+1..b-1
    <3>1. PICK j \in Starts(s) : j <= n /\ No(s, j) = c
      BY <2>2 DEF Covers, n
    <3>2. j \in Int
      BY DEF Starts
    <3> QED
      BY <1>2, <1>4, <3>1, <3>2
  <2> QED
    BY <2>1, <2>2
<1>7. ASSUME NEW k \in Starts(s)
      PROVE  /\ k \in Nat /\ No(s, k) \in p..b /\ No(s, k) \in Nat /\ Covers(t, p, No(s, k), k)
             /\ \A j \in Starts(s) : j <= k => No(s, j) <= No(s, k)
  <2>1. k \in Nat /\ No(s, k) \in Nat /\ No(s, k) \in p..b /\ Covers(s, p, No(s, k), k)
        /\ \A j \in Starts(s) : j <= k => No(s, j) <= No(s, k)
    BY InStream DEF Ordered
  <2>2. k \in Int /\ No(s, k) \in Int /\ k <= k
    BY <2>1
  <2>3. Covers(t, p, No(s, k), k)
    BY <1>1, <2>1, <2>2, JoinedCovers, Zenon DEF t
  <2> QED
    BY <2>1, <2>3
<1>8. ASSUME NEW k \in Starts(t)
      PROVE  /\ No(t, k) \in p..b /\ Covers(t, p, No(t, k), k)
             /\ \A j \in Starts(t) : j <= k => No(t, j) <= No(t, k)
  <2>1. CASE k \in Starts(s)
    <3>1. \A j \in Starts(t) : j <= k => j \in Starts(s)
      BY <1>2, <1>4, <1>5, <1>7, <2>1
    <3> QED
      BY <1>4, <1>7, <2>1, <3>1
  <2>2. CASE k = n + 1
    <3>1. \A j \in Starts(t) : No(t, j) <= b
      BY <1>3, <1>4, <1>5, <1>7
    <3> QED
      BY <1>3, <1>6, <2>2, <3>1
  <2> QED
    BY <1>5, <2>1, <2>2
<1>9. Covers(t, p, b, Len(t))
  <2>1. \A j \in Starts(t) : j \in Int
    BY DEF Starts
  <2> QED
    BY <1>2, <1>6, <2>1, Sizes DEF Covers
<1> QED
  BY <1>8, <1>9 DEF Ordered, t, w

-----------------------------------------------------------------------------
(***************************************************************************)
(* The stream loses its first cells: a control character, or a packet as a *)
(* whole, after which its block is programmed.                             *)
(***************************************************************************)
LEMMA Dropped ==
    ASSUME NEW s \in Seq(Cells), NEW d \in Seq(Cells), NEW t \in Seq(Cells), s = d \o t, Framed(s),
           NEW p \in Nat, NEW q \in Nat, p <= q, NEW b \in Nat, Ordered(s, p, b),
           \A k \in Starts(s) : k <= Len(d) => k + PktLen - 1 <= Len(d) /\ No(s, k) <= q,
           \A k \in Starts(s) : Len(d) < k => q <= No(s, k)
    PROVE  /\ Framed(t) /\ Ordered(t, q, b)
           /\ \A x \in Int : Covers(s, p, x, Len(s)) => Covers(t, q, x, Len(t))
<1> DEFINE n == Len(d)
<1>1. /\ n \in Nat /\ Len(t) \in Nat /\ Len(s) = n + Len(t)
      /\ \A k \in 1..Len(t) : s[n + k] = t[k]
  BY Joined
<1> HIDE DEF n
<1>2. ASSUME NEW k \in Starts(t)
      PROVE  k \in Nat \ {0} /\ n + k \in Starts(s)
  BY <1>1 DEF Starts
<1>3. ASSUME NEW k \in Starts(s), n < k PROVE k - n \in Starts(t)
  BY <1>1, <1>3 DEF Starts
<1>4. ASSUME NEW k \in Starts(t) PROVE Whole(t, k)
  <2>1. k \in Nat \ {0} /\ n + k \in Starts(s)
    BY <1>2
  <2>2. (n + k) + PktLen - 1 <= Len(s)
    BY <2>1, InStream
  <2>3. PICK c \in 1..N : \A m \in 1..PktLen : s[(n + k) + m - 1] = Packet(c)[m]
    BY <2>1 DEF Framed, Whole
  <2>4. \A m \in 1..PktLen : k + m - 1 \in 1..Len(t) /\ n + (k + m - 1) = (n + k) + m - 1
    BY <1>1, <2>1, <2>2, Sizes
  <2>5. \A m \in 1..PktLen : t[k + m - 1] = Packet(c)[m]
    BY <1>1, <2>3, <2>4
  <2> QED
    BY <1>1, <2>1, <2>2, <2>5, Sizes DEF Whole
<1>5. \A k \in Starts(t) : No(t, k) = No(s, n + k) /\ No(s, n + k) \in Nat /\ n + k \in Starts(s)
  <2> TAKE k \in Starts(t)
  <2>1. k \in Nat \ {0} /\ n + k \in Starts(s) /\ k + PktLen - 1 <= Len(t)
    BY <1>2, <1>4 DEF Whole
  <2>2. k + 1 \in 1..Len(t) /\ n + (k + 1) = (n + k) + 1
    BY <1>1, <2>1, Sizes
  <2>3. s[(n + k) + 1] = t[k + 1]
    BY <1>1, <2>2
  <2>4. No(s, n + k) \in Nat
    <3>1. PICK i \in Starts(s) : i = n + k
      BY <2>1
    <3>2. No(s, i) \in 1..N
      BY InStream
    <3> QED
      BY <3>1, <3>2, Sizes
  <2> QED
    BY <2>1, <2>3, <2>4 DEF No
<1>6. ASSUME NEW k \in 1..Len(t), Opaque(t[k])
      PROVE  \E j \in Starts(t) : j < k /\ k < j + PktLen
  <2>1. n + k \in 1..Len(s) /\ Opaque(s[n + k])
    BY <1>1, <1>6
  <2>2. PICK j \in Starts(s) : j < n + k /\ n + k < j + PktLen
    BY <2>1 DEF Framed
  <2>3. j \in Nat
    BY DEF Starts
  <2>4. n < j
    BY <1>1, <2>2, <2>3, Sizes DEF n
  <2>5. j - n \in Starts(t) /\ j - n < k /\ k < (j - n) + PktLen
    BY <1>1, <1>3, <2>2, <2>3, <2>4, Sizes
  <2> QED
    BY <2>5
<1>7. ASSUME NEW x \in Int, NEW m \in Int, Covers(s, p, x, m) PROVE Covers(t, q, x, m - n)
  <2> SUFFICES ASSUME NEW c \in q+1..x
               PROVE  \E j \in Starts(t) : j <= m - n /\ No(t, j) = c
    BY DEF Covers
  <2>1. PICK j \in Starts(s) : j <= m /\ No(s, j) = c
    BY <1>7 DEF Covers
  <2>2. j \in Nat
    BY DEF Starts
  <2>3. n < j
    BY <1>1, <2>1, <2>2 DEF n
  <2>4. j - n \in Starts(t) /\ n + (j - n) = j
    BY <1>1, <1>3, <2>2, <2>3
  <2>5. j - n <= m - n /\ No(t, j - n) = c
    BY <1>1, <1>5, <2>1, <2>2, <2>4
  <2> QED
    BY <2>4, <2>5
<1>8. ASSUME NEW k \in Starts(t)
      PROVE  /\ No(t, k) \in q..b /\ Covers(t, q, No(t, k), k)
             /\ \A j \in Starts(t) : j <= k => No(t, j) <= No(t, k)
  <2>1. /\ k \in Nat \ {0} /\ n + k \in Starts(s) /\ No(t, k) = No(s, n + k)
        /\ No(s, n + k) \in Nat
    BY <1>2, <1>5
  <2>2. No(s, n + k) \in p..b /\ Covers(s, p, No(s, n + k), n + k) /\ q <= No(s, n + k)
    BY <1>1, <2>1 DEF Ordered, n
  <2>3. Covers(t, q, No(s, n + k), (n + k) - n) /\ (n + k) - n = k
    BY <1>1, <1>7, <2>1, <2>2
  <2>4. ASSUME NEW j \in Starts(t), j <= k PROVE No(t, j) <= No(t, k)
    <3>1. n + j \in Starts(s) /\ n + j <= n + k /\ No(t, j) = No(s, n + j)
      BY <1>1, <1>2, <1>5, <2>1, <2>4
    <3> QED
      BY <2>1, <3>1 DEF Ordered
  <2> QED
    BY <2>1, <2>2, <2>3, <2>4
<1>9. \A x \in Int : Covers(s, p, x, Len(s)) => Covers(t, q, x, Len(t))
  BY <1>1, <1>7
<1> QED
  BY <1>4, <1>6, <1>8, <1>9 DEF Framed, Ordered


-----------------------------------------------------------------------------
(***************************************************************************)
(* What a step does to the stream as a whole.                              *)
(***************************************************************************)
LEMMA StreamCells ==
    ASSUME Typed
    PROVE  ring \o toDev \in Seq(Cells) /\ Stream \in Seq(Cells) /\ Len(Stream) \in Nat
<1>1. ring \o toDev \in Seq(Cells)
  BY ConcatProperties DEF Typed
<1> QED
  BY <1>1, ConcatProperties, LenProperties DEF Typed, Stream

LEMMA Sent ==
    ASSUME Typed
    PROVE  LastSent \in 0..N /\ LastSent \in {blk - 1, blk} /\ blk \in 1..N+1
BY Sizes DEF Typed, LastSent

LEMMA Weaker ==
    ASSUME NEW s, NEW p \in Nat, NEW b \in Nat, NEW c \in Nat, b <= c, NEW x \in Int, NEW y \in Int,
           y <= x, NEW k, Ordered(s, p, b), Covers(s, p, x, k)
    PROVE  Ordered(s, p, c) /\ Covers(s, p, y, k)
<1>1. p..b \subseteq p..c /\ p+1..y \subseteq p+1..x
  OBVIOUS
<1> QED
  BY <1>1 DEF Ordered, Covers

LEMMA Extended ==
    ASSUME NEW S, NEW a \in Seq(S), NEW b \in Seq(S), NEW c \in Seq(S), NEW w \in Seq(S)
    PROVE  Extends(a \o (b \o (c \o w)), a \o (b \o c), w)
<1> DEFINE x == b \o c
<1>1. x \in Seq(S)
  BY ConcatProperties, Zenon
<1>2. Extends(b \o (c \o w), x, w)
  BY Regrouped, Zenon
<1> HIDE DEF x
<1>3. Extends(a \o (x \o w), a \o x, w)
  BY <1>1, Regrouped, Zenon
<1> QED
  BY <1>2, <1>3, Zenon DEF Extends, x

LEMMA Written ==
    ASSUME Typed, NEW w \in Seq(Cells), toDev' = toDev \o w, UNCHANGED <<packetbuf, ring>>
    PROVE  Stream' = Stream \o w
<1>1. ring \in Seq(Cells) /\ toDev \in Seq(Cells) /\ packetbuf \in Seq(Cells)
  BY DEF Typed
<1>2. Extends(packetbuf \o (ring \o (toDev \o w)), packetbuf \o (ring \o toDev), w)
  BY <1>1, Extended, Zenon
<1> QED
  BY <1>2, Zenon DEF Stream, Extends

\* Nothing is written or lost: at most the client counts on.
LEMMA StreamKept ==
    ASSUME Typed, Typed', Underway, Done \in Nat, Stream' = Stream,
           UNCHANGED <<programmed, last_packet_id>>,
           blk <= blk', LastSent' <= LastSent,
           dev' \in {"send", "wait"} => packetbuf' = <<>>,
           dev' \in {"rx", "process"} => packetbuf'[1].kind = "SOH"
    PROVE  Underway'
<1>1. /\ blk \in Nat /\ blk' \in Nat /\ LastSent \in Int /\ LastSent' \in Int
  BY Sent, Sizes DEF Typed, LastSent
<1>2. /\ Framed(Stream) /\ Ordered(Stream, Done, blk)
      /\ Covers(Stream, Done, LastSent, Len(Stream))
      /\ Done <= blk /\ last_packet_id = Done % SeqMod
  BY DEF Underway
<1>3. Ordered(Stream, Done, blk') /\ Covers(Stream, Done, LastSent', Len(Stream))
  BY <1>1, <1>2, Weaker
<1>4. Done' = Done
  BY DEF Done
<1>5. Done <= blk'
  BY <1>1, <1>2
<1> QED
  BY <1>2, <1>3, <1>4, <1>5 DEF Underway

\* The client writes control characters.
LEMMA StreamCtl ==
    ASSUME Typed, Typed', Underway, Done \in Nat,
           NEW w \in Seq(Cells), Framed(w), Starts(w) = {}, toDev' = toDev \o w,
           UNCHANGED <<dev, packetbuf, programmed, last_packet_id, ring>>,
           blk <= blk', LastSent' <= LastSent
    PROVE  Underway'
<1>1. /\ blk \in Nat /\ blk' \in Nat /\ LastSent \in Int /\ LastSent' \in Int
  BY Sent, Sizes DEF Typed, LastSent
<1>2. /\ Framed(Stream) /\ Ordered(Stream, Done, blk)
      /\ Covers(Stream, Done, LastSent, Len(Stream))
      /\ Done <= blk /\ last_packet_id = Done % SeqMod
  BY DEF Underway
<1>3. Stream \in Seq(Cells) /\ Len(Stream) \in Nat
  BY StreamCells
<1>4. Stream' = Stream \o w
  BY Written
<1>5. Ordered(Stream, Done, blk') /\ Covers(Stream, Done, LastSent', Len(Stream))
  BY <1>1, <1>2, Weaker
<1>6. Framed(Stream \o w) /\ Ordered(Stream \o w, Done, blk')
  BY <1>1, <1>2, <1>3, <1>5, JoinedFramed, JoinedOrdered
<1>7. Len(Stream \o w) \in Int /\ Len(Stream) <= Len(Stream \o w)
  BY <1>3, Joined
<1>8. Covers(Stream \o w, Done, LastSent', Len(Stream \o w))
  BY <1>1, <1>2, <1>3, <1>5, <1>7, JoinedCovers
<1>9. Done' = Done
  BY DEF Done
<1>10. Done <= blk'
  BY <1>1, <1>2
<1> QED
  BY <1>2, <1>4, <1>6, <1>8, <1>9, <1>10 DEF Underway

\* The client writes the packet of its block.
LEMMA StreamPacket ==
    ASSUME Typed, Typed', Underway, Done \in Nat, host = "send", host' = "ack",
           toDev' = toDev \o Packet(blk),
           UNCHANGED <<dev, packetbuf, programmed, last_packet_id, ring, blk>>
    PROVE  Underway'
<1>1. blk \in 1..N /\ LastSent = blk - 1 /\ LastSent' = blk /\ blk \in Nat
  BY Sizes DEF Typed, LastSent
<1>2. /\ Framed(Stream) /\ Ordered(Stream, Done, blk)
      /\ Covers(Stream, Done, blk - 1, Len(Stream))
      /\ Done <= blk /\ last_packet_id = Done % SeqMod
  BY <1>1 DEF Underway
<1> DEFINE w == Packet(blk)
<1>3. Stream \in Seq(Cells) /\ w \in Seq(Cells) /\ Framed(w)
  BY <1>1, StreamCells, PacketFramed
<1>4. Stream' = Stream \o w
  BY <1>3, Written
<1>5. Framed(Stream \o w)
  BY <1>2, <1>3, JoinedFramed
<1>6. Ordered(Stream \o w, Done, blk) /\ Covers(Stream \o w, Done, blk, Len(Stream \o w))
  BY <1>1, <1>2, <1>3, PacketOrdered
<1>7. Done' = Done
  BY DEF Done
<1> HIDE DEF w
<1> QED
  BY <1>1, <1>2, <1>4, <1>5, <1>6, <1>7 DEF Underway


-----------------------------------------------------------------------------
(***************************************************************************)
(* Every step keeps the invariant: first the firmware's.                   *)
(***************************************************************************)
LEMMA SameFlash ==
    ASSUME UploadInv, Typed', UNCHANGED programmed, overrun => overrun',
           ~overrun' /\ dev' # "cmd" => Underway'
    PROVE  UploadInv'
<1>1. ~overrun' => Done' \in Nat
  BY DEF UploadInv, Typed, Done
<1>2. ExactPrefix'
  BY DEF UploadInv, ExactPrefix
<1> QED
  BY <1>1, <1>2 DEF UploadInv

LEMMA Known ==
    ASSUME UploadInv
    PROVE  Typed /\ (~overrun /\ dev # "cmd" => Underway /\ Done \in Nat)
BY DEF UploadInv

LEMMA StillSent ==
    ASSUME UploadInv, UNCHANGED <<host, blk>>
    PROVE  blk <= blk' /\ LastSent' <= LastSent
BY Known, Sent DEF LastSent, Typed

LEMMA SendAckStep == ASSUME UploadInv, SendAck PROVE UploadInv'
<1>1. Typed'
  BY Known DEF SendAck, Typed, hostVars
<1>2. ~overrun => Underway'
  <2> SUFFICES ASSUME ~overrun PROVE Underway'
    OBVIOUS
  <2>1. Underway /\ packetbuf = <<>> /\ Done \in Nat
    BY Known DEF SendAck, Underway
  <2>2. Stream' = Stream
    BY DEF Stream, SendAck
  <2> QED
    BY <1>1, <2>1, <2>2, Known, StillSent, StreamKept DEF SendAck, hostVars
<1> QED
  BY <1>1, <1>2, SameFlash DEF SendAck

LEMMA WaitCharTimeoutStep == ASSUME UploadInv, WaitCharTimeout PROVE UploadInv'
<1>1. Typed'
  <2>1. tries \in 0..WaitLimit-1 /\ WaitLimit \in Nat \ {0}
    BY Known, Sizes DEF Typed
  <2>2. tries' = 0 \/ (tries' = tries + 1 /\ tries + 1 # WaitLimit)
    BY DEF WaitCharTimeout
  <2>3. tries' \in 0..WaitLimit-1
    BY <2>1, <2>2
  <2>4. /\ dev \in {"wait", "rx"}
        /\ dev' = "cmd" \/ dev' = (IF dev = "wait" THEN "send" ELSE dev)
    BY DEF WaitCharTimeout
  <2>5. dev' \in {"send", "rx", "cmd"} /\ (dev' = "rx" => dev = "rx")
    BY <2>4
  <2>6. UNCHANGED <<host, packetbuf, ring, toDev, errs, blk, last_packet_id, overrun>>
    BY DEF WaitCharTimeout, hostVars
  <2> QED
    BY <2>3, <2>5, <2>6, Known DEF Typed
<1>2. ~overrun /\ dev' # "cmd" => Underway'
  <2> SUFFICES ASSUME ~overrun, dev' # "cmd" PROVE Underway'
    OBVIOUS
  <2>1. Underway /\ Done \in Nat /\ dev \in {"wait", "rx"}
        /\ dev' = (IF dev = "wait" THEN "send" ELSE dev)
    BY Known DEF WaitCharTimeout
  <2>2. Stream' = Stream
    BY DEF Stream, WaitCharTimeout
  <2>3. /\ dev' \in {"send", "wait"} => packetbuf' = <<>>
        /\ dev' \in {"rx", "process"} => packetbuf'[1].kind = "SOH"
    BY <2>1 DEF Underway, WaitCharTimeout
  <2> QED
    BY <1>1, <2>1, <2>2, <2>3, Known, StillSent, StreamKept DEF WaitCharTimeout, hostVars
<1> QED
  BY <1>1, <1>2, SameFlash DEF WaitCharTimeout

\* What the firmware reads while it waits for a packet is no part of one.
LEMMA Opening ==
    ASSUME Typed, Underway, dev = "wait", NEW c \in Oldest(ring)
    PROVE  /\ c \in Cells /\ ~Opaque(c) /\ c = Stream[1] /\ packetbuf = <<>>
           /\ Tail(ring) \o toDev \in Seq(Cells) /\ Stream = <<c>> \o (Tail(ring) \o toDev)
           /\ Len(Tail(ring)) < RxBufSize
<1>1. /\ ring # <<>> /\ c = Head(ring) /\ c \in Cells /\ ring \in Seq(Cells)
      /\ toDev \in Seq(Cells) /\ Tail(ring) \in Seq(Cells) /\ Len(Tail(ring)) < RxBufSize
  BY Arrives, Tails, Sizes DEF Typed
<1>2. packetbuf = <<>> /\ <<>> \in Seq(Cells)
  BY DEF Underway
<1>3. Append(packetbuf, c) \o (Tail(ring) \o toDev) = Stream
  BY <1>1, <1>2, Moved DEF Stream
<1>4. Append(packetbuf, c) = <<c>>
  BY <1>2
<1>5. <<c>> \in Seq(Cells) /\ Len(<<c>>) = 1 /\ <<c>>[1] = c
  BY <1>1
<1>6. Tail(ring) \o toDev \in Seq(Cells)
  BY <1>1, ConcatProperties
<1> DEFINE h == <<c>>
           t == Tail(ring) \o toDev
<1>7. h \in Seq(Cells) /\ t \in Seq(Cells) /\ Len(h) = 1 /\ h[1] = c /\ Stream = h \o t
  BY <1>3, <1>4, <1>5, <1>6
<1> HIDE DEF h, t
<1>8. c = Stream[1] /\ 1 \in 1..Len(Stream)
  BY <1>7, Joined
<1>9. ~Opaque(c)
  <2> SUFFICES ASSUME Opaque(Stream[1]) PROVE FALSE
    BY <1>8
  <2>1. PICK j \in Starts(Stream) : j < 1
    BY <1>8 DEF Underway, Framed
  <2> QED
    BY <2>1 DEF Starts
<1> QED
  BY <1>1, <1>2, <1>7, <1>8, <1>9 DEF h, t

LEMMA StartMoves ==
    ASSUME Typed, Underway, StartPacket
    PROVE  Stream' = Stream /\ \E c \in Oldest(ring) : packetbuf' = <<c>> /\ c.kind = "SOH"
<1>1. PICK c \in Oldest(ring) : ring' = Tail(ring) /\ packetbuf' = <<c>> /\ Reads(c, "SOH")
  BY DEF StartPacket, WaitChar
<1>2. ~Opaque(c) /\ Stream = <<c>> \o (Tail(ring) \o toDev)
  BY Opening DEF StartPacket
<1>3. c.kind = "SOH"
  BY <1>1, <1>2 DEF Reads
<1>4. Stream' = Stream
  BY <1>1, <1>2 DEF Stream, StartPacket
<1> QED
  BY <1>1, <1>3, <1>4

LEMMA StartPacketStep == ASSUME UploadInv, StartPacket PROVE UploadInv'
<1>1. PICK c \in Oldest(ring) : /\ ring' = Tail(ring) /\ tries' = 0 /\ packetbuf' = <<c>>
                                /\ Reads(c, "SOH")
  BY DEF StartPacket, WaitChar
<1>2. /\ ring # <<>> /\ c \in Cells /\ Tail(ring) \in Seq(Cells) /\ Len(Tail(ring)) < RxBufSize
  BY Known, Arrives, Tails, Sizes DEF Typed
<1>3. <<c>> \in Seq(Cells) /\ Len(<<c>>) = 1 /\ <<c>>[1] = c
  BY <1>2
<1>4. packetbuf' \in Seq(Cells) /\ Len(packetbuf') = 1 /\ packetbuf'[1] = c
  BY <1>1, <1>3, Zenon
<1>5. Typed'
  BY <1>1, <1>2, <1>4, Known, Sizes DEF StartPacket, Typed, hostVars
<1>6. ~overrun => Underway'
  <2> SUFFICES ASSUME ~overrun PROVE Underway'
    OBVIOUS
  <2>1. Typed /\ Underway /\ Done \in Nat /\ dev = "wait"
    BY Known DEF StartPacket
  <2>2. Stream' = Stream
    BY <2>1, StartMoves
  <2>3. packetbuf'[1].kind = "SOH"
    <3>1. PICK d \in Oldest(ring) : packetbuf' = <<d>> /\ d.kind = "SOH"
      BY <2>1, StartMoves
    <3> QED
      BY <3>1
  <2> QED
    BY <1>5, <2>1, <2>2, <2>3, StillSent, StreamKept DEF StartPacket, hostVars
<1> QED
  BY <1>5, <1>6, SameFlash DEF StartPacket

LEMMA GivesUp ==
    ASSUME UploadInv, dev = "wait", dev' = "cmd", NEW c \in Oldest(ring), ring' = Tail(ring), tries' = 0,
           UNCHANGED <<last_packet_id, packetbuf, programmed, hostVars, toDev, overrun>>
    PROVE  UploadInv'
<1>1. /\ ring # <<>> /\ Tail(ring) \in Seq(Cells) /\ Len(Tail(ring)) < RxBufSize
  BY Known, Arrives, Tails, Sizes DEF Typed
<1>2. Typed'
  BY <1>1, Known, Sizes DEF Typed, hostVars
<1> QED
  BY <1>2, SameFlash

LEMMA EndStep == ASSUME UploadInv, Interrupted \/ EndOfTransmission PROVE UploadInv'
<1>1. PICK c \in Oldest(ring) : ring' = Tail(ring) /\ tries' = 0
  BY DEF Interrupted, EndOfTransmission, WaitChar
<1>2. /\ dev = "wait" /\ dev' = "cmd"
      /\ UNCHANGED <<last_packet_id, packetbuf, programmed, hostVars, toDev, overrun>>
  BY DEF Interrupted, EndOfTransmission
<1> QED
  BY <1>1, <1>2, GivesUp

LEMMA EchoStep == ASSUME UploadInv, Echo PROVE UploadInv'
<1>1. /\ Tail(ring) \in Seq(Cells) /\ Len(Tail(ring)) < RxBufSize
  BY Known, Tails, Sizes DEF Typed, Echo
<1>2. Typed'
  BY <1>1, Known DEF Echo, Typed, devVars, hostVars
<1> QED
  BY <1>2, SameFlash DEF Echo, devVars


LEMMA IgnoreMoves ==
    ASSUME Typed, Underway, IgnoreByte
    PROVE  /\ Stream' \in Seq(Cells) /\ packetbuf' = <<>>
           /\ \E c \in Cells : c.kind = "LF" /\ Stream = <<c>> \o Stream'
<1>1. PICK c \in Oldest(ring) : /\ ring' = Tail(ring)
                                /\ Opaque(c) \/ c.kind \notin {"SOH", "ETX", "CAN", "EOT"}
  BY DEF IgnoreByte, WaitChar
<1> DEFINE t == Tail(ring) \o toDev
<1>2. /\ c \in Cells /\ ~Opaque(c) /\ packetbuf = <<>> /\ t \in Seq(Cells) /\ Stream = <<c>> \o t
  BY Opening DEF IgnoreByte
<1>3. c.kind = "LF"
  BY <1>1, <1>2 DEF Cells, Kinds, Opaque
<1>4. Stream' = t
  <2>1. packetbuf' = <<>> /\ toDev' = toDev
    BY <1>2 DEF IgnoreByte
  <2> HIDE DEF t
  <2>2. <<>> \o t = t
    BY <1>2, ConcatEmptySeq
  <2> QED
    BY <1>1, <2>1, <2>2 DEF Stream, t
<1> HIDE DEF t
<1> QED
  BY <1>2, <1>3, <1>4 DEF IgnoreByte

LEMMA IgnoreByteStep == ASSUME UploadInv, IgnoreByte PROVE UploadInv'
<1>1. PICK c \in Oldest(ring) : /\ ring' = Tail(ring) /\ tries' = 0
                                /\ Opaque(c) \/ c.kind \notin {"SOH", "ETX", "CAN", "EOT"}
  BY DEF IgnoreByte, WaitChar
<1>2. /\ ring # <<>> /\ c \in Cells /\ Tail(ring) \in Seq(Cells) /\ Len(Tail(ring)) < RxBufSize
  BY Known, Arrives, Tails, Sizes DEF Typed
<1>3. Typed'
  BY <1>1, <1>2, Known, Sizes DEF IgnoreByte, Typed, hostVars
<1>4. ASSUME ~overrun PROVE Underway'
  <2>1. Typed /\ Underway /\ Done \in Nat /\ dev = "wait"
    BY <1>4, Known DEF IgnoreByte
  <2> DEFINE t == Stream'
  <2>2. PICK e \in Cells : e.kind = "LF" /\ Stream = <<e>> \o t
    BY <2>1, IgnoreMoves
  <2> DEFINE d == <<e>>
  <2>3. /\ d \in Seq(Cells) /\ Len(d) = 1 /\ d[1] = e /\ t \in Seq(Cells) /\ Stream = d \o t
        /\ packetbuf' = <<>>
    BY <2>1, <2>2, IgnoreMoves
  <2>4. /\ Framed(Stream) /\ Ordered(Stream, Done, blk)
        /\ Covers(Stream, Done, LastSent, Len(Stream))
        /\ Done <= blk /\ last_packet_id = Done % SeqMod
    BY <2>1 DEF Underway
  <2>5. Stream \in Seq(Cells) /\ blk \in Nat /\ LastSent \in Int
    BY <2>1, StreamCells, Sent
  <2> HIDE DEF d, t
  <2>6. \A k \in Starts(Stream) : ~(k <= Len(d)) /\ Done <= No(Stream, k)
    <3> TAKE k \in Starts(Stream)
    <3>1. k \in 1..Len(Stream) /\ Stream[k].kind = "SOH"
      BY DEF Starts
    <3>2. k # 1
      <4>1. Stream[1] = d[1]
        BY <2>3, Joined
      <4> QED
        BY <2>2, <2>3, <3>1, <4>1
    <3>3. No(Stream, k) \in Done..blk
      BY <2>4 DEF Ordered
    <3> QED
      BY <2>1, <2>3, <2>5, <3>1, <3>2, <3>3
  <2>7. Framed(t) /\ Ordered(t, Done, blk) /\ Covers(t, Done, LastSent, Len(t))
    <3>1. /\ \A k \in Starts(Stream) : k <= Len(d) => k + PktLen - 1 <= Len(d) /\ No(Stream, k) <= Done
          /\ \A k \in Starts(Stream) : Len(d) < k => Done <= No(Stream, k)
      BY <2>6
    <3>2. Done <= Done
      BY <2>1
    <3> QED
      BY <2>1, <2>3, <2>4, <2>5, <3>1, <3>2, Dropped
  <2>8. UNCHANGED <<Done, blk, host, LastSent, last_packet_id, packetbuf>> /\ dev' = "send"
    BY DEF IgnoreByte, hostVars, Done, LastSent
  <2> QED
    BY <2>3, <2>4, <2>7, <2>8 DEF Underway, t
<1> QED
  BY <1>3, <1>4, SameFlash DEF IgnoreByte

LEMMA ReceiveMoves == ASSUME Typed, ReceiveData PROVE Stream' = Stream
<1>1. PICK c \in Oldest(ring) : ring' = Tail(ring) /\ packetbuf' = Append(packetbuf, c)
  BY DEF ReceiveData, ReceiveUpTo, WaitChar
<1>2. /\ ring # <<>> /\ c = Head(ring) /\ packetbuf \in Seq(Cells) /\ ring \in Seq(Cells)
      /\ toDev \in Seq(Cells) /\ toDev' = toDev
  BY Arrives DEF Typed, ReceiveData, ReceiveUpTo
<1> QED
  BY <1>1, <1>2, Moved DEF Stream

LEMMA ReceiveDataStep == ASSUME UploadInv, ReceiveData PROVE UploadInv'
<1>1. PICK c \in Oldest(ring) : ring' = Tail(ring) /\ tries' = 0 /\ packetbuf' = Append(packetbuf, c)
  BY DEF ReceiveData, ReceiveUpTo, WaitChar
<1>2. /\ ring # <<>> /\ c \in Cells /\ Tail(ring) \in Seq(Cells) /\ Len(Tail(ring)) < RxBufSize
      /\ c = Head(ring) /\ packetbuf \in Seq(Cells) /\ Len(packetbuf) \in 1..PktLen-1
  BY Known, Arrives, Tails, Sizes DEF Typed, ReceiveData, ReceiveUpTo
<1>3. /\ packetbuf' \in Seq(Cells) /\ Len(packetbuf') = Len(packetbuf) + 1
      /\ packetbuf'[1] = packetbuf[1]
  BY <1>1, <1>2, AppendProperties
<1>4. dev' = (IF Len(packetbuf) + 1 < PktLen THEN "rx" ELSE "process")
  BY DEF ReceiveData, ReceiveUpTo
<1>5. Typed'
  BY <1>1, <1>2, <1>3, <1>4, Known, Sizes DEF ReceiveData, ReceiveUpTo, Typed, hostVars
<1>6. ASSUME ~overrun PROVE Underway'
  <2>1. Typed /\ Underway /\ Done \in Nat /\ dev = "rx"
    BY <1>6, Known DEF ReceiveData, ReceiveUpTo
  <2>2. packetbuf'[1].kind = "SOH" /\ dev' \notin {"send", "wait"}
    BY <1>3, <1>4, <2>1 DEF Underway
  <2>3. Stream' = Stream
    BY <2>1, ReceiveMoves
  <2> QED
    BY <1>5, <2>1, <2>2, <2>3, StillSent, StreamKept DEF ReceiveData, ReceiveUpTo, hostVars
<1> QED
  BY <1>5, <1>6, SameFlash DEF ReceiveData, ReceiveUpTo

LEMMA ArriveMoves ==
    ASSUME Typed, Arrive, Len(ring) + 1 # RxBufSize
    PROVE  Stream' = Stream
<1>1. /\ toDev # <<>> /\ ring \in Seq(Cells) /\ toDev \in Seq(Cells)
      /\ ring' = Append(ring, Head(toDev)) /\ toDev' = Tail(toDev) /\ packetbuf' = packetbuf
  BY DEF Typed, Arrive, devVars
<1>2. Tail(toDev) \in Seq(Cells)
  BY <1>1, Tails
<1>3. <<>> \in Seq(Cells) /\ Tail(toDev) \o <<>> = Tail(toDev) /\ toDev \o <<>> = toDev
  BY <1>1, <1>2, ConcatEmptySeq
<1>4. Append(ring, Head(toDev)) \o (Tail(toDev) \o <<>>) = ring \o (toDev \o <<>>)
  BY <1>1, <1>3, Moved
<1> QED
  BY <1>1, <1>3, <1>4 DEF Stream

LEMMA ArriveStep == ASSUME UploadInv, Arrive PROVE UploadInv'
<1>1. /\ toDev # <<>> /\ ring \in Seq(Cells) /\ toDev \in Seq(Cells) /\ packetbuf \in Seq(Cells)
      /\ Len(ring) \in Nat /\ Len(ring) < RxBufSize /\ overrun \in BOOLEAN
  BY Known, LenProperties DEF Typed, Arrive
<1>2. Head(toDev) \in Cells /\ Tail(toDev) \in Seq(Cells)
  BY <1>1, Tails
<1>3. CASE Len(ring) + 1 = RxBufSize
  <2>1. ring' = <<>> /\ overrun' = (overrun \/ dev # "cmd") /\ toDev' = Tail(toDev)
    BY <1>3 DEF Arrive
  <2>2. ring' \in Seq(Cells) /\ Len(ring') = 0
    BY <2>1
  <2>3. Typed'
    BY <1>1, <1>2, <2>1, <2>2, Known, Sizes DEF Arrive, Typed, devVars, hostVars
  <2>4. overrun' \/ dev' = "cmd"
    BY <2>1 DEF Arrive, devVars
  <2> QED
    BY <2>1, <2>3, <2>4, SameFlash DEF Arrive, devVars
<1>4. CASE Len(ring) + 1 # RxBufSize
  <2>1. ring' = Append(ring, Head(toDev)) /\ overrun' = overrun /\ toDev' = Tail(toDev)
    BY <1>4 DEF Arrive
  <2>2. ring' \in Seq(Cells) /\ Len(ring') < RxBufSize
    <3>1. ring' \in Seq(Cells) /\ Len(ring') = Len(ring) + 1
      BY <1>1, <1>2, <2>1, AppendProperties
    <3>2. ASSUME NEW n \in Nat, n < RxBufSize, n + 1 # RxBufSize PROVE n + 1 < RxBufSize
      BY <3>2, Sizes
    <3>3. Len(ring) + 1 < RxBufSize
      BY <1>1, <1>4, <3>2, Zenon
    <3> QED
      BY <3>1, <3>3
  <2>3. Typed'
    <3>1. UNCHANGED <<devVars, hostVars>>
      BY DEF Arrive
    <3> QED
      BY <1>2, <2>1, <2>2, <3>1, Known DEF Typed, devVars, hostVars
  <2>4. ASSUME ~overrun, dev # "cmd" PROVE Underway'
    <3>1. Typed /\ Underway /\ Done \in Nat
      BY <2>4, Known
    <3>2. Stream' = Stream
      BY <1>4, <3>1, ArriveMoves
    <3>3. /\ dev' \in {"send", "wait"} => packetbuf' = <<>>
          /\ dev' \in {"rx", "process"} => packetbuf'[1].kind = "SOH"
      BY <3>1 DEF Underway, Arrive, devVars
    <3> QED
      BY <2>3, <3>1, <3>2, <3>3, StillSent, StreamKept DEF Arrive, devVars, hostVars
  <2> QED
    BY <2>1, <2>3, <2>4, SameFlash DEF Arrive, devVars
<1> QED
  BY <1>3, <1>4


\* Consecutive blocks have different numbers.
LEMMA Differ ==
    ASSUME NEW x \in Nat
    PROVE  (x % SeqMod) \in 0..SeqMod-1 /\ ((x + 1) % SeqMod) # (x % SeqMod)
<1> DEFINE q == x \div SeqMod
           r == x % SeqMod
           u == (x + 1) \div SeqMod
           v == (x + 1) % SeqMod
<1>1. /\ q \in Int /\ r \in 0..SeqMod-1 /\ x = SeqMod * q + r
      /\ u \in Int /\ v \in 0..SeqMod-1 /\ x + 1 = SeqMod * u + v
  BY Sizes
<1> HIDE DEF q, r, u, v
<1>2. ASSUME r = v PROVE FALSE
  <2>1. SeqMod * u = SeqMod * q + 1
    BY <1>1, <1>2, Sizes
  <2>2. SeqMod * (u - q) = 1
    BY <1>1, <2>1, Sizes
  <2>3. u - q <= 0 \/ u - q >= 1
    BY <1>1
  <2> QED
    BY <1>1, <2>2, <2>3, Sizes
<1> QED
  BY <1>1, <1>2 DEF r, v

\* What is processed is the first packet of the stream.
LEMMA Processed ==
    ASSUME Typed, Underway, Done \in Nat, dev = "process"
    PROVE  \E b \in 1..N :
              /\ packetbuf = Packet(b) /\ 1 \in Starts(Stream) /\ No(Stream, 1) = b
              /\ b \in {Done, Done + 1} /\ b <= blk
              /\ \A k \in Starts(Stream) : IF k <= PktLen THEN k = 1 ELSE b <= No(Stream, k)
<1>1. /\ packetbuf \in Seq(Cells) /\ Len(packetbuf) = PktLen /\ packetbuf[1].kind = "SOH"
      /\ ring \o toDev \in Seq(Cells) /\ Stream \in Seq(Cells) /\ Len(Stream) \in Nat
      /\ Framed(Stream) /\ Ordered(Stream, Done, blk)
  BY StreamCells DEF Typed, Underway
<1> DEFINE b == No(Stream, 1)
           t == ring \o toDev
<1>2. /\ \A m \in 1..PktLen : Stream[m] = packetbuf[m]
      /\ PktLen <= Len(Stream)
  <2> HIDE DEF t
  <2>1. Stream = packetbuf \o t /\ t \in Seq(Cells)
    BY <1>1 DEF Stream, t
  <2> QED
    BY <1>1, <2>1, Joined, Sizes
<1>3. 1 \in Starts(Stream)
  BY <1>1, <1>2, Sizes DEF Starts
<1>4. /\ b \in 1..N /\ \A m \in 1..PktLen : Stream[1 + m - 1] = Packet(b)[m]
  BY <1>1, <1>3, InStream
<1> HIDE DEF b
<1>5. \A m \in 1..PktLen : packetbuf[m] = Packet(b)[m]
  BY <1>2, <1>4
<1>6. packetbuf = Packet(b)
  BY <1>1, <1>4, <1>5, PacketCells, SeqEqual
<1>7. b \in Done..blk /\ Covers(Stream, Done, b, 1)
  BY <1>1, <1>3 DEF Ordered, b
<1>8. b \in {Done, Done + 1} /\ b <= blk
  <2>1. ASSUME Done + 1 < b PROVE FALSE
    <3>1. Done + 1 \in Done+1..b
      BY <1>4, <2>1, Sizes
    <3>2. PICK j \in Starts(Stream) : j <= 1 /\ No(Stream, j) = Done + 1
      BY <1>7, <3>1 DEF Covers
    <3>3. j = 1
      BY <3>2 DEF Starts
    <3> QED
      BY <2>1, <3>2, <3>3, <1>4 DEF b
  <2>2. b \in Nat /\ Done <= b /\ b <= blk
    BY <1>4, <1>7, Sent, Sizes
  <2> QED
    BY <2>1, <2>2
<1>9. ASSUME NEW k \in Starts(Stream)
      PROVE  IF k <= PktLen THEN k = 1 ELSE b <= No(Stream, k)
  <2>1. k \in Nat \ {0} /\ Stream[k].kind = "SOH"
    BY DEF Starts
  <2>2. CASE k <= PktLen
    <3>1. k \in 1..PktLen
      BY <2>1, <2>2, Sizes
    <3>2. Packet(b)[k].kind = "SOH"
      BY <1>2, <1>5, <2>1, <3>1
    <3>3. k \notin 2..PktLen
      BY <1>4, <3>2, PacketCells
    <3> QED
      BY <2>2, <3>1, <3>3, Sizes
  <2>3. CASE ~(k <= PktLen)
    <3>1. 1 <= k
      BY <2>1
    <3>2. No(Stream, 1) <= No(Stream, k)
      BY <1>1, <1>3, <3>1 DEF Ordered
    <3> QED
      BY <2>3, <3>2 DEF b
  <2> QED
    BY <2>2, <2>3
<1> QED
  BY <1>3, <1>4, <1>6, <1>8, <1>9 DEF b

Block(b) == [i \in 3..PktLen |-> Cell("data", b)]

\* A whole packet's data is the block.
LEMMA PacketData ==
    ASSUME NEW b \in 1..N
    PROVE  /\ [i \in 3..PktLen |-> Packet(b)[i]] = Block(b)
           /\ PacketId(Packet(b)) = {b % SeqMod}
<1>1. \A i \in 3..PktLen : Packet(b)[i] = Cell("data", b)
  BY PacketCells
<1>2. Packet(b)[2].kind = "seq" /\ Packet(b)[2].n = b
  BY PacketCells
<1> DEFINE w == Packet(b)
<1> HIDE DEF w
<1>3. [i \in 3..PktLen |-> w[i]] = [i \in 3..PktLen |-> Cell("data", b)]
  BY <1>1 DEF w
<1> QED
  BY <1>2, <1>3 DEF w, Block, PacketId

\* The file's prefix grows by its next block.
LEMMA PrefixGrows ==
    ASSUME ExactPrefix, ~overrun, Done \in Nat, ~overrun',
           programmed' = Append(programmed, Block(Done + 1))
    PROVE  ExactPrefix' /\ Done' = Done + 1
<1> DEFINE S == {Block(i) : i \in Nat}
           next == [i \in 1..(Done + 1) |-> Block(i)]
<1>1. programmed = [i \in 1..Done |-> Block(i)]
  BY DEF ExactPrefix, Done, Block
<1>2. \A i \in Nat : Block(i) \in S
  OBVIOUS
<1> HIDE DEF S
<1>3. programmed \in Seq(S) /\ Len(programmed) = Done /\ \A i \in 1..Done : programmed[i] = Block(i)
  BY <1>1, <1>2
<1>4. Done + 1 \in Nat /\ \A i \in 1..(Done + 1) : i \in Nat
  OBVIOUS
<1>5. next \in Seq(S) /\ Len(next) = Done + 1 /\ \A i \in 1..(Done + 1) : next[i] = Block(i)
  BY <1>2, <1>4
<1> HIDE DEF next
<1>6. /\ programmed' \in Seq(S) /\ Len(programmed') = Done + 1
      /\ \A i \in 1..Done : programmed'[i] = Block(i)
      /\ programmed'[Done + 1] = Block(Done + 1)
  BY <1>2, <1>3, <1>4, AppendProperties
<1>7. \A i \in 1..(Done + 1) : programmed'[i] = next[i]
  BY <1>5, <1>6
<1>8. programmed' = next
  BY <1>5, <1>6, <1>7, SeqEqual
<1> QED
  BY <1>6, <1>8 DEF ExactPrefix, Done, next, Block


LEMMA ProcessMoves ==
    ASSUME Typed, ProcessPacket
    PROVE  /\ Stream' = ring \o toDev /\ Stream' \in Seq(Cells)
           /\ Stream = packetbuf \o Stream' /\ Len(packetbuf) = PktLen
<1> DEFINE t == ring \o toDev
<1>1. packetbuf' = <<>> /\ UNCHANGED <<ring, toDev>> /\ Len(packetbuf) = PktLen
  BY DEF ProcessPacket, ProcessIf, Typed
<1>2. t \in Seq(Cells) /\ Stream = packetbuf \o t
  BY StreamCells DEF Stream
<1>3. Stream' = <<>> \o t
  BY <1>1 DEF Stream
<1> HIDE DEF t
<1>4. Stream' = t
  BY <1>2, <1>3, ConcatEmptySeq
<1> QED
  BY <1>1, <1>2, <1>4 DEF t

LEMMA ProcessPacketStep == ASSUME UploadInv, ProcessPacket PROVE UploadInv'
<1>1. PICK id \in PacketId(packetbuf) :
         IF id # last_packet_id
         THEN /\ programmed' = Append(programmed, [i \in 3..PktLen |-> packetbuf[i]])
              /\ last_packet_id' = id
         ELSE UNCHANGED <<programmed, last_packet_id>>
  BY DEF ProcessPacket, ProcessIf
<1>2. /\ dev = "process" /\ dev' = "send" /\ packetbuf' = <<>>
      /\ UNCHANGED <<tries, as, host, blk, errs, aborted, toDev, ring, overrun>>
  BY DEF ProcessPacket, ProcessIf, hostVars
<1>3. /\ packetbuf \in Seq(Cells) /\ Len(packetbuf) = PktLen /\ packetbuf[2] \in Cells
  <2>1. packetbuf \in Seq(Cells) /\ Len(packetbuf) = PktLen
    BY <1>2, Known DEF Typed
  <2>2. 2 \in 1..Len(packetbuf)
    BY <2>1, Sizes
  <2> QED
    BY <2>1, <2>2, ElementOfSeq
<1>4. id \in 0..SeqMod-1
  <2>1. packetbuf[2].n \in 0..N
    BY <1>3 DEF Cells
  <2>2. (packetbuf[2].n % SeqMod) \in 0..SeqMod-1
    BY <2>1, Sizes
  <2> QED
    BY <2>2 DEF PacketId
<1>5. last_packet_id' \in 0..SeqMod-1
  BY <1>1, <1>4, Known DEF Typed
<1>6. packetbuf' \in Seq(Cells) /\ Len(packetbuf') = 0
  BY <1>2
<1>7. Typed'
  BY <1>2, <1>5, <1>6, Known, Sizes DEF Typed
<1>8. CASE overrun
  BY <1>2, <1>7, <1>8 DEF UploadInv, ExactPrefix
<1>9. CASE ~overrun
  <2>1. Typed /\ Underway /\ Done \in Nat /\ ExactPrefix /\ dev = "process"
    BY <1>2, <1>9, Known DEF UploadInv
  <2>2. PICK b \in 1..N :
           /\ packetbuf = Packet(b) /\ 1 \in Starts(Stream) /\ No(Stream, 1) = b
           /\ b \in {Done, Done + 1} /\ b <= blk
           /\ \A k \in Starts(Stream) : IF k <= PktLen THEN k = 1 ELSE b <= No(Stream, k)
    BY <2>1, Processed
  <2>3. b \in Nat /\ id = b % SeqMod /\ last_packet_id = Done % SeqMod
        /\ [i \in 3..PktLen |-> packetbuf[i]] = Block(b)
    BY <2>1, <2>2, PacketData, Sizes DEF Underway
  <2>4. ExactPrefix' /\ Done' = b /\ last_packet_id' = b % SeqMod
    <3>1. CASE b = Done
      <4>1. UNCHANGED <<programmed, last_packet_id>>
        BY <1>1, <2>3, <3>1
      <4> QED
        BY <1>2, <2>1, <2>3, <3>1, <4>1 DEF ExactPrefix, Done
    <3>2. CASE b = Done + 1
      <4>1. id # last_packet_id
        BY <2>1, <2>3, <3>2, Differ
      <4>2. programmed' = Append(programmed, Block(Done + 1)) /\ last_packet_id' = id
        BY <1>1, <2>3, <3>2, <4>1
      <4> QED
        BY <1>2, <1>9, <2>1, <2>3, <3>2, <4>2, PrefixGrows
    <3> QED
      BY <2>2, <3>1, <3>2
  <2> DEFINE t == ring \o toDev
  <2>5. /\ Framed(Stream) /\ Ordered(Stream, Done, blk)
        /\ Covers(Stream, Done, LastSent, Len(Stream))
        /\ Stream \in Seq(Cells) /\ t \in Seq(Cells) /\ blk \in Nat /\ LastSent \in Int
        /\ Stream = packetbuf \o t
    BY <2>1, StreamCells, Sent DEF Underway, Stream
  <2> HIDE DEF t
  <2>6. /\ \A k \in Starts(Stream) :
              k <= Len(packetbuf) => k + PktLen - 1 <= Len(packetbuf) /\ No(Stream, k) <= b
        /\ \A k \in Starts(Stream) : Len(packetbuf) < k => b <= No(Stream, k)
    <3>1. ASSUME NEW k \in Starts(Stream)
          PROVE  IF k <= PktLen THEN k + PktLen - 1 <= PktLen /\ No(Stream, k) <= b
                                ELSE b <= No(Stream, k)
      BY <2>2, <2>3, Sizes
    <3>2. \A k \in Starts(Stream) : k \in Nat
      BY DEF Starts
    <3> QED
      BY <1>3, <3>1, <3>2, Sizes
  <2>7. Done <= b
    BY <2>1, <2>2
  <2>8. Framed(t) /\ Ordered(t, b, blk) /\ Covers(t, b, LastSent, Len(t))
    BY <1>3, <2>1, <2>3, <2>5, <2>6, <2>7, Dropped
  <2>9. Stream' = t
    BY <2>1, ProcessMoves DEF t
  <2>10. LastSent' = LastSent
    BY <1>2 DEF LastSent
  <2>11. Underway'
    BY <1>2, <2>2, <2>4, <2>8, <2>9, <2>10 DEF Underway
  <2> QED
    BY <1>7, <2>3, <2>4, <2>11 DEF UploadInv
<1> QED
  BY <1>8, <1>9


-----------------------------------------------------------------------------
(***************************************************************************)
(* Then the client's, which write control characters, or a packet.         *)
(***************************************************************************)
Says == {<<>>, <<Ctl("CAN"), Ctl("CAN")>>, <<Ctl("CAN"), Ctl("ETX")>>, <<Ctl("EOT")>>}

LEMMA SaysCtl ==
    ASSUME NEW w \in Says
    PROVE  w \in Seq(Cells) /\ Framed(w) /\ Starts(w) = {}
<1>1. CASE w = <<>>
  <2>1. w \in Seq(Cells) /\ \A k \in 1..Len(w) : FALSE
    BY <1>1
  <2> QED
    BY <2>1, CtlFramed
<1>2. CASE w = <<Ctl("CAN"), Ctl("CAN")>>
  BY <1>2, CtlPairs
<1>3. CASE w = <<Ctl("CAN"), Ctl("ETX")>>
  BY <1>3, CtlPairs
<1>4. CASE w = <<Ctl("EOT")>>
  BY <1>4, CtlPairs
<1> QED
  BY <1>1, <1>2, <1>3, <1>4 DEF Says

LEMMA ClientSays ==
    ASSUME UploadInv, UNCHANGED <<devVars, ring, overrun>>,
           \E w \in Says : toDev' = toDev \o w,
           host' \in {"ux", "start", "send", "ack", "eot", "eotack", "done", "failed"},
           errs' \in 0..Retry, blk' \in blk..N+1,
           host' \in {"send", "ack"} => blk' <= N,
           host' \in {"ux", "start"} => blk' = 1,
           LastSent' <= LastSent
    PROVE  UploadInv'
<1>1. PICK w \in Says : toDev' = toDev \o w
  OBVIOUS
<1>2. w \in Seq(Cells) /\ Framed(w) /\ Starts(w) = {}
  BY SaysCtl
<1>3. toDev' \in Seq(Cells)
  <2>1. toDev \in Seq(Cells)
    BY Known DEF Typed
  <2> QED
    BY <1>1, <1>2, <2>1, ConcatProperties
<1>4. blk' \in 1..N+1 /\ blk <= blk'
  BY Known, Sizes DEF Typed
<1>5. Typed'
  BY <1>3, <1>4, Known DEF Typed, devVars
<1>6. ~overrun' /\ dev' # "cmd" => Underway'
  BY <1>1, <1>2, <1>4, <1>5, Known, StreamCtl DEF devVars
<1> QED
  BY <1>5, <1>6, SameFlash DEF devVars

\* Nothing said is nothing added.
LEMMA Silent ==
    ASSUME UploadInv, UNCHANGED toDev
    PROVE  \E w \in Says : toDev' = toDev \o w
<1>1. toDev \in Seq(Cells)
  BY Known DEF Typed
<1>2. toDev \o <<>> = toDev
  BY <1>1, ConcatEmptySeq
<1> QED
  BY <1>2 DEF Says

LEMMA Fails ==
    ASSUME UploadInv, NEW again, Fail(again)
    PROVE  /\ \E w \in Says : toDev' = toDev \o w
           /\ host' \in {again, "failed"} /\ errs' \in 0..Retry
<1>1. CASE errs + 1 > Retry
  BY <1>1, Sizes DEF Fail, Write, Says
<1>2. CASE ~(errs + 1 > Retry)
  <2>1. host' = again /\ errs' = errs + 1 /\ UNCHANGED toDev
    BY <1>2 DEF Fail
  <2>2. errs' \in 0..Retry
    BY <1>2, <2>1, Known, Sizes DEF Typed
  <2> QED
    BY <2>1, <2>2, Silent
<1> QED
  BY <1>1, <1>2

LEMMA ReadFirstNakStep == ASSUME UploadInv, ReadFirstNak PROVE UploadInv'
<1>1. /\ host = "ux" /\ host' \in {"start", "ux"}
      /\ UNCHANGED <<devVars, ring, overrun, blk, errs, toDev>>
  BY DEF ReadFirstNak
<1>2. blk = 1 /\ errs \in 0..Retry /\ blk \in blk..N+1
  BY <1>1, Known, Sizes DEF Typed
<1>3. LastSent' <= LastSent
  BY <1>1, <1>2 DEF LastSent
<1> QED
  BY <1>1, <1>2, <1>3, Silent, ClientSays

LEMMA StartStep == ASSUME UploadInv, Start PROVE UploadInv'
<1>1. /\ host = "start" /\ UNCHANGED <<blk, devVars, ring, overrun>>
      /\ (host' = "send" /\ errs' = 0 /\ UNCHANGED toDev) \/ Fail("start")
  BY DEF Start
<1>2. /\ \E w \in Says : toDev' = toDev \o w
      /\ host' \in {"send", "start", "failed"} /\ errs' \in 0..Retry
  BY <1>1, Fails, Silent, Sizes
<1>3. blk = 1 /\ blk \in blk..N+1 /\ blk <= N
  BY <1>1, Known, Sizes DEF Typed
<1>4. LastSent' <= LastSent
  BY <1>1, <1>2, <1>3 DEF LastSent
<1> QED
  BY <1>1, <1>2, <1>3, <1>4, ClientSays

LEMMA SendPacketStep == ASSUME UploadInv, SendPacket PROVE UploadInv'
<1>1. /\ host = "send" /\ host' = "ack" /\ toDev' = toDev \o Packet(blk)
      /\ UNCHANGED <<as, blk, errs, devVars, ring, overrun>>
  BY DEF SendPacket, Write
<1>2. blk \in 1..N /\ toDev \in Seq(Cells)
  BY <1>1, Known, Sizes DEF Typed
<1>3. toDev' \in Seq(Cells)
  <2>1. Packet(blk) \in Seq(Cells)
    BY <1>2, PacketFramed
  <2> QED
    BY <1>1, <1>2, <2>1, ConcatProperties
<1>4. Typed'
  BY <1>1, <1>2, <1>3, Known, Sizes DEF Typed, devVars
<1>5. ~overrun' /\ dev' # "cmd" => Underway'
  BY <1>1, <1>4, Known, StreamPacket DEF devVars
<1> QED
  BY <1>1, <1>4, <1>5, SameFlash DEF devVars

LEMMA ReadAckStep == ASSUME UploadInv, ReadAck PROVE UploadInv'
<1>1. /\ host = "ack" /\ UNCHANGED <<devVars, ring, overrun>>
      /\ \/ /\ errs' = 0 /\ blk' = blk + 1 /\ UNCHANGED toDev
            /\ host' = (IF blk < N THEN "send" ELSE "eot")
         \/ Fail("send") /\ UNCHANGED blk
  BY DEF ReadAck
<1>2. blk \in 1..N /\ errs \in 0..Retry
  BY <1>1, Known, Sizes DEF Typed
<1>3. CASE /\ errs' = 0 /\ blk' = blk + 1 /\ UNCHANGED toDev
           /\ host' = (IF blk < N THEN "send" ELSE "eot")
  <2>1. blk' \in blk..N+1 /\ (host' = "send" => blk' <= N) /\ host' \in {"send", "eot"}
    BY <1>2, <1>3, Sizes
  <2>2. LastSent' <= LastSent
    BY <1>1, <1>2, <1>3, <2>1 DEF LastSent
  <2> QED
    BY <1>1, <1>3, <2>1, <2>2, Silent, Sizes, ClientSays
<1>4. CASE Fail("send") /\ UNCHANGED blk
  <2>1. /\ \E w \in Says : toDev' = toDev \o w
        /\ host' \in {"send", "failed"} /\ errs' \in 0..Retry
    BY <1>4, Fails
  <2>2. blk' \in blk..N+1 /\ blk' <= N
    BY <1>2, <1>4, Sizes
  <2>3. LastSent' <= LastSent
    BY <1>1, <1>2, <1>4, <2>1 DEF LastSent
  <2> QED
    BY <1>1, <2>1, <2>2, <2>3, ClientSays
<1> QED
  BY <1>1, <1>3, <1>4

LEMMA EotStep == ASSUME UploadInv, SendEot \/ ReadEotAck PROVE UploadInv'
<1>1. /\ host \in {"eot", "eotack"} /\ UNCHANGED <<blk, devVars, ring, overrun>>
      /\ \/ host' \in {"eotack", "done"} /\ UNCHANGED errs
            /\ (toDev' = toDev \o <<Ctl("EOT")>> \/ UNCHANGED toDev)
         \/ Fail("eot")
  BY DEF SendEot, ReadEotAck, Write
<1>2. blk \in Nat /\ blk \in blk..N+1 /\ errs \in 0..Retry
  BY Known, Sizes DEF Typed
<1>3. /\ \E w \in Says : toDev' = toDev \o w
      /\ host' \in {"eot", "eotack", "done", "failed"} /\ errs' \in 0..Retry
  BY <1>1, <1>2, Fails, Silent DEF Says
<1>4. LastSent' <= LastSent
  BY <1>1, <1>2, <1>3 DEF LastSent
<1> QED
  BY <1>1, <1>2, <1>3, <1>4, ClientSays

LEMMA SendAbortStep == ASSUME UploadInv, SendAbort PROVE UploadInv'
<1>1. /\ UNCHANGED <<host, blk, errs, devVars, ring, overrun>>
      /\ toDev' = toDev \o <<Ctl("CAN"), Ctl("ETX")>>
  BY DEF SendAbort, Write
<1>2. /\ blk \in Nat /\ blk \in blk..N+1 /\ errs \in 0..Retry
      /\ host \in {"ux", "start", "send", "ack", "eot", "eotack", "done", "failed"}
      /\ host \in {"send", "ack"} => blk <= N
      /\ host \in {"ux", "start"} => blk = 1
  BY Known, Sizes DEF Typed
<1>3. \E w \in Says : toDev' = toDev \o w
  BY <1>1 DEF Says
<1>4. LastSent' <= LastSent
  BY <1>1, <1>2 DEF LastSent
<1> QED
  BY <1>1, <1>2, <1>3, <1>4, ClientSays


-----------------------------------------------------------------------------
(***************************************************************************)
(* The invariant, and what follows from it.                                *)
(***************************************************************************)
LEMMA UploadInit == ASSUME Init PROVE UploadInv
<1> DEFINE s == <<Ctl("LF")>>
<1>1. s \in Seq(Cells) /\ Framed(s) /\ Starts(s) = {}
  BY CtlPairs
<1>2. <<>> \in Seq(Cells) /\ Len(<<>>) = 0
  BY EmptySeq
<1>3. Typed
  <2>1. host \in {"ux", "start"} /\ blk = 1
    BY DEF Init
  <2>2. /\ packetbuf \in Seq(Cells) /\ Len(packetbuf) = 0 /\ ring \in Seq(Cells) /\ Len(ring) = 0
        /\ toDev \in Seq(Cells)
    BY <1>1, <1>2 DEF Init
  <2>3. /\ 0 \in 0..WaitLimit-1 /\ 0 \in 0..Retry /\ 0 \in 0..SeqMod-1 /\ 1 \in 1..N+1
        /\ 0 <= PktLen /\ 0 < RxBufSize
    BY Sizes
  <2>4. /\ dev = "send" /\ tries = 0 /\ errs = 0 /\ last_packet_id = 0 /\ overrun = FALSE
    BY DEF Init
  <2> QED
    BY <2>1, <2>2, <2>3, <2>4 DEF Typed
<1> HIDE DEF s
<1>4. Stream = s
  <2>1. <<>> \o s = s
    BY <1>1, ConcatEmptySeq
  <2> QED
    BY <2>1 DEF Init, Stream, s
<1>5. programmed = <<>> /\ Done = 0 /\ 0 % SeqMod = 0
  BY Sizes DEF Init, Done
<1>6. ExactPrefix
  BY <1>5 DEF ExactPrefix, Done
<1>7. Underway
  <2>1. LastSent = 0 /\ blk = 1 /\ last_packet_id = 0 /\ dev = "send" /\ packetbuf = <<>>
    BY DEF Init, LastSent
  <2>2. Ordered(s, 0, 1) /\ Covers(s, 0, 0, Len(s))
    BY <1>1 DEF Ordered, Covers
  <2> QED
    BY <1>1, <1>4, <1>5, <2>1, <2>2 DEF Underway
<1> QED
  BY <1>3, <1>5, <1>6, <1>7 DEF UploadInv

LEMMA UploadNext == ASSUME UploadInv, [Next]_vars PROVE UploadInv'
<1>1. CASE UNCHANGED vars
  <2>1. UNCHANGED <<dev, host, packetbuf, ring, toDev, tries, errs, blk, last_packet_id, overrun,
                    programmed>>
    BY <1>1 DEF vars, devVars, hostVars
  <2>2. Typed'
    BY <2>1, Known DEF Typed
  <2>3. ~overrun' /\ dev' # "cmd" => Underway'
    BY <2>1, Known DEF Underway, Stream, Done, LastSent
  <2> QED
    BY <2>1, <2>2, <2>3, SameFlash
<1>2. CASE Device
  BY <1>2, SendAckStep, WaitCharTimeoutStep, StartPacketStep, EndStep, IgnoreByteStep,
     ReceiveDataStep, ProcessPacketStep, EchoStep DEF Device
<1>3. CASE Client
  BY <1>3, ReadFirstNakStep, StartStep, SendPacketStep, ReadAckStep, EotStep DEF Client
<1> QED
  BY <1>1, <1>2, <1>3, ArriveStep, SendAbortStep DEF Next

LEMMA UploadAlways == Spec => []UploadInv
BY UploadInit, UploadNext, PTL DEF Spec

\* The packet buffer never holds more than a packet, the receive buffer never
\* all of its cells, and the limits of the waits and retries are kept.
THEOREM TypeCorrect == Spec => []TypeOK
<1>1. ASSUME UploadInv PROVE TypeOK
  BY <1>1, Known, LenProperties, Sizes DEF Typed, TypeOK
<1> QED
  BY <1>1, UploadAlways, PTL

\* What uploadXmodem processes is one whole packet of the sender, although it
\* never looks for the start of one among its bytes.
THEOREM StaysInStep == Spec => []InStep
<1>1. ASSUME UploadInv, dev = "process", ~overrun
      PROVE  \E b \in 1..N : packetbuf = Packet(b)
  BY <1>1, Known, Processed
<1>2. ASSUME UploadInv PROVE InStep
  BY <1>1, <1>2 DEF InStep
<1> QED
  BY <1>2, UploadAlways, PTL

\* The flash holds a prefix of the file, each block once and in order.
THEOREM FlashIsPrefix == Spec => []ExactPrefix
<1>1. ASSUME UploadInv PROVE ExactPrefix
  BY <1>1 DEF UploadInv
<1> QED
  BY <1>1, UploadAlways, PTL


-----------------------------------------------------------------------------
(***************************************************************************)
(* The receive buffer overruns only after a premature timeout, for clients *)
(* that wait for the NAK or that leave the main program time to poll.      *)
(*                                                                         *)
(* Every packet on its way was bought by one answer: an answer, a turn of  *)
(* either side to speak, and the LF of the command line, which is answered *)
(* too, each stand for one more packet.  Two may be owed until the first   *)
(* NAK was read by a client that waits for it, and one from then on.       *)
(***************************************************************************)
Cost(n) == PktLen * n

Alive == host \notin {"done", "failed"}
Heard == IF Alive THEN Len(toHost) ELSE 0
HostSpeaks == IF host \in {"send", "eot"} THEN 1 ELSE 0
DevSpeaks == IF dev = "send" THEN 1 ELSE 0
Answers == Heard + HostSpeaks + DevSpeaks
LineFeed == IF Stream # <<>> /\ Stream[1].kind = "LF" THEN PktLen - 1 ELSE 0
Abort == IF aborted THEN 2 ELSE 0
Room == IF as.waitsForNak /\ host # "ux" THEN PktLen ELSE PktLen + PktLen

Flow ==
    /\ Len(Stream) + Cost(Answers) + LineFeed <= Room + Abort
    /\ \A k \in 2..Len(Stream) : Stream[k].kind # "LF"
    /\ host = "ux" => Len(Stream) <= 1 + Abort

Paced == \A c \in Clients : c.waitsForNak \/ c.prompt

FlowInv ==
    /\ UploadInv /\ slow \in Nat /\ as \in Clients
    /\ toHost \in Seq([kind : Kinds \union {"NAK", "ACK", "text"}, n : 0..N])
    /\ overrun => slow > 0
    /\ slow = 0 /\ dev # "cmd" => Flow

HostCells == [kind : Kinds \union {"NAK", "ACK", "text"}, n : 0..N]

LEMMA Costs ==
    /\ Cost(0) = 0
    /\ \A n \in Nat : Cost(n) \in Nat /\ Cost(n + 1) = Cost(n) + PktLen
<1>1. PktLen * 0 = 0
  BY Sizes
<1>2. ASSUME NEW n \in Nat PROVE PktLen * n \in Nat /\ PktLen * (n + 1) = PktLen * n + PktLen
  BY Sizes
<1> QED
  BY <1>1, <1>2 DEF Cost

Counted ==
    /\ Len(Stream) \in Nat /\ Len(toHost) \in Nat
    /\ Heard \in {0, Len(toHost)} /\ HostSpeaks \in {0, 1} /\ DevSpeaks \in {0, 1}
    /\ Heard \in Nat /\ Answers \in Nat
    /\ LineFeed \in {0, PktLen - 1} /\ Abort \in {0, 2} /\ Room \in {PktLen, PktLen + PktLen}

LEMMA Counts == Typed /\ toHost \in Seq(HostCells) => Counted
<1> SUFFICES ASSUME Typed, toHost \in Seq(HostCells) PROVE Counted
  OBVIOUS
<1>1. Len(Stream) \in Nat /\ Len(toHost) \in Nat
  BY StreamCells, LenProperties
<1>2. LineFeed \in {0, PktLen - 1} /\ Abort \in {0, 2} /\ Room \in {PktLen, PktLen + PktLen}
  BY Zenon DEF LineFeed, Abort, Room
<1>3. Heard \in {0, Len(toHost)} /\ HostSpeaks \in {0, 1} /\ DevSpeaks \in {0, 1}
  BY Zenon DEF Heard, HostSpeaks, DevSpeaks
<1>4. Heard \in Nat /\ Answers \in Nat
  BY <1>1, <1>3 DEF Answers
<1> QED
  BY <1>1, <1>2, <1>3, <1>4 DEF Counted

LEMMA CountsNext == (Typed /\ toHost \in Seq(HostCells) => Counted)'
BY Counts, PTL

\* The stream grows by no more than was owed.
LEMMA FlowGrows ==
    ASSUME Typed, Typed', toHost \in Seq(HostCells), toHost' \in Seq(HostCells), Flow,
           NEW w \in Seq(Cells), Stream' = Stream \o w, \A k \in 1..Len(w) : w[k].kind # "LF",
           Len(w) + Cost(Answers') + Room + Abort <= Cost(Answers) + Room' + Abort',
           host' = "ux" => host = "ux" /\ Len(w) + Abort <= Abort'
    PROVE  Flow'
<1> DEFINE s == Stream
           t == s \o w
<1>1. s \in Seq(Cells)
  BY StreamCells
<1> HIDE DEF s
<1>2. /\ Len(s) \in Nat /\ Len(w) \in Nat /\ Len(t) = Len(s) + Len(w)
      /\ \A k \in 1..Len(s) : t[k] = s[k]
      /\ \A k \in 1..Len(w) : t[Len(s) + k] = w[k]
      /\ \A k \in 1..Len(t) : k \in 1..Len(s) \/ k - Len(s) \in 1..Len(w)
  BY <1>1, Joined
<1>3. Stream' = t
  BY DEF s
<1> HIDE DEF t
<1>4. ASSUME NEW k \in 1..Len(t), t[k].kind = "LF" PROVE k \in 1..Len(s) /\ s[k].kind = "LF"
  <2>1. k \in Nat
    BY <1>2
  <2>2. CASE k - Len(s) \in 1..Len(w)
    <3>1. t[Len(s) + (k - Len(s))] = w[k - Len(s)] /\ Len(s) + (k - Len(s)) = k
      BY <1>2, <2>1, <2>2
    <3> QED
      BY <1>4, <2>2, <3>1
  <2> QED
    BY <1>2, <1>4, <2>2
<1>5. \A k \in 2..Len(t) : t[k].kind # "LF"
  <2> SUFFICES ASSUME NEW k \in 2..Len(t), t[k].kind = "LF" PROVE FALSE
    OBVIOUS
  <2>1. k \in 1..Len(t) /\ k >= 2
    BY <1>2
  <2>2. k \in 1..Len(s) /\ s[k].kind = "LF"
    BY <1>4, <2>1
  <2>3. k \in 2..Len(s)
    BY <1>2, <2>1, <2>2
  <2> QED
    BY <2>2, <2>3 DEF Flow, s
<1>6. LineFeed' <= LineFeed /\ LineFeed \in Nat /\ LineFeed' \in Nat
  <2>1. LineFeed \in {0, PktLen - 1} /\ LineFeed' \in {0, PktLen - 1}
    BY DEF LineFeed
  <2>2. CASE LineFeed' # 0
    <3>1. t # <<>> /\ t[1].kind = "LF"
      BY <1>3, <2>2 DEF LineFeed
    <3>2. 1 \in 1..Len(t)
      <4>1. t \in Seq(Cells)
        BY <1>1, Joined DEF t
      <4> QED
        BY <3>1, <4>1, Tails
    <3>3. 1 \in 1..Len(s) /\ s[1].kind = "LF"
      BY <1>4, <3>1, <3>2
    <3>4. s # <<>>
      BY <3>3
    <3> QED
      BY <2>1, <3>3, <3>4, Sizes DEF LineFeed, s
  <2> QED
    BY <2>1, <2>2, Sizes
<1>7. /\ Len(s) + Cost(Answers) + LineFeed <= Room + Abort
      /\ host = "ux" => Len(s) <= 1 + Abort
  BY DEF Flow, s
<1>8. /\ Answers \in Nat /\ Answers' \in Nat /\ Room \in Nat /\ Room' \in Nat
      /\ Abort \in Nat /\ Abort' \in Nat
  BY Counts, CountsNext, Sizes DEF Counted
<1>9. Cost(Answers) \in Nat /\ Cost(Answers') \in Nat
  BY <1>8, Costs
<1>10. Len(t) + Cost(Answers') + LineFeed' <= Room' + Abort'
  <2> DEFINE a == Len(s)
             n == Len(w)
             c == Cost(Answers)
             d == Cost(Answers')
             l == LineFeed
             m == LineFeed'
             r == Room
             q == Room'
             b == Abort
             p == Abort'
  <2>1. /\ a \in Nat /\ n \in Nat /\ c \in Nat /\ d \in Nat /\ l \in Nat /\ m \in Nat
        /\ r \in Nat /\ q \in Nat /\ b \in Nat /\ p \in Nat
    BY <1>2, <1>6, <1>8, <1>9, Zenon
  <2>2. n + d + r + b <= c + q + p
    OBVIOUS
  <2>3. a + c + l <= r + b /\ m <= l /\ Len(t) = a + n
    BY <1>2, <1>6, <1>7, Zenon
  <2> HIDE DEF a, n, c, d, l, m, r, q, b, p
  <2>4. (a + n) + d + m <= q + p
    BY <2>1, <2>2, <2>3
  <2> QED
    BY <2>3, <2>4, Zenon DEF d, m, q, p
<1>11. ASSUME host' = "ux" PROVE Len(t) <= 1 + Abort'
  <2> DEFINE a == Len(s)
             n == Len(w)
             b == Abort
             p == Abort'
  <2>1. /\ a \in Nat /\ n \in Nat /\ b \in Nat /\ p \in Nat
        /\ a <= 1 + b /\ n + b <= p /\ Len(t) = a + n
    BY <1>2, <1>7, <1>8, <1>11, Zenon
  <2> HIDE DEF a, n, b, p
  <2>2. a + n <= 1 + p
    BY <2>1
  <2> QED
    BY <2>1, <2>2, Zenon DEF p
<1> QED
  BY <1>3, <1>5, <1>10, <1>11 DEF Flow

\* Nothing is said, and no more is owed.
LEMMA FlowStays ==
    ASSUME Typed, Typed', toHost \in Seq(HostCells), toHost' \in Seq(HostCells), Flow,
           Stream' = Stream,
           Cost(Answers') + Room + Abort <= Cost(Answers) + Room' + Abort',
           host' = "ux" => host = "ux", Abort <= Abort'
    PROVE  Flow'
<1> DEFINE w == <<>>
<1>1. w \in Seq(Cells) /\ Len(w) = 0 /\ Stream \o w = Stream
  BY StreamCells, ConcatEmptySeq
<1>2. \A k \in 1..Len(w) : w[k].kind # "LF"
  BY <1>1
<1> HIDE DEF w
<1>3. /\ Answers' \in Nat /\ Abort \in Nat /\ Abort' \in Nat /\ Room \in Nat
  BY Counts, CountsNext, Sizes DEF Counted
<1>4. Cost(Answers') \in Nat
  BY <1>3, Costs
<1>5. Len(w) + Cost(Answers') + Room + Abort <= Cost(Answers) + Room' + Abort'
  BY <1>1, <1>3, <1>4
<1>6. Len(w) + Abort <= Abort'
  BY <1>1, <1>3
<1> QED
  BY <1>1, <1>2, <1>5, <1>6, FlowGrows

LEMMA FlowKept ==
    ASSUME FlowInv, UploadInv', UNCHANGED as, toHost' \in Seq(HostCells),
           slow' \in Nat, slow <= slow', overrun' => overrun \/ slow > 0,
           dev = "cmd" => dev' = "cmd",
           Flow /\ Underway /\ ~overrun /\ slow' = slow /\ dev # "cmd" /\ dev' # "cmd" => Flow'
    PROVE  FlowInv'
<1>1. slow \in Nat /\ as' \in Clients /\ (overrun => slow > 0)
  BY DEF FlowInv
<1>2. overrun' => slow' > 0
  BY <1>1
<1>3. ASSUME slow' = 0, dev' # "cmd" PROVE Flow'
  <2>1. slow = 0 /\ slow' = slow /\ dev # "cmd" /\ ~overrun
    BY <1>1, <1>3
  <2>2. Flow /\ Underway
    BY <2>1, Known DEF FlowInv
  <2> QED
    BY <1>3, <2>1, <2>2
<1> QED
  BY <1>1, <1>2, <1>3 DEF FlowInv, HostCells

LEMMA FlowTypes ==
    ASSUME FlowInv
    PROVE  UploadInv /\ Typed /\ slow \in Nat /\ toHost \in Seq(HostCells)
BY Known DEF FlowInv, HostCells

LEMMA HostCtl ==
    ASSUME NEW k \in {"NAK", "ACK", "text"}
    PROVE  Ctl(k) \in HostCells
BY Sizes DEF Ctl, Cell, HostCells

\* When a timeout is due, nothing is owed.
LEMMA DueOwesNothing ==
    ASSUME Typed, Underway, toHost \in Seq(HostCells), dev # "cmd", Due
    PROVE  /\ dev = "wait" /\ Stream = <<>> /\ Heard = 0 /\ HostSpeaks = 0
           /\ host \in {"done", "failed"} \/ toHost = <<>>
<1>1. ring = <<>> /\ toDev = <<>> /\ dev \in {"wait", "rx"}
  BY DEF Due
<1>2. Stream = packetbuf
  <2>1. packetbuf \o <<>> = packetbuf /\ <<>> \o <<>> = <<>>
    BY ConcatEmptySeq, EmptySeq DEF Typed
  <2> QED
    BY <1>1, <2>1 DEF Stream
<1>3. dev # "rx"
  <2> SUFFICES ASSUME dev = "rx" PROVE FALSE
    OBVIOUS
  <2>1. packetbuf[1].kind = "SOH" /\ Len(packetbuf) \in 1..PktLen-1 /\ packetbuf \in Seq(Cells)
    BY DEF Underway, Typed
  <2>2. 1 \in Starts(packetbuf) /\ Framed(packetbuf)
    BY <1>2, <2>1 DEF Starts, Underway
  <2>3. 1 + PktLen - 1 <= Len(packetbuf)
    BY <2>1, <2>2, InStream
  <2> QED
    BY <2>1, <2>3, Sizes
<1>4. dev = "wait" /\ packetbuf = <<>>
  BY <1>1, <1>3 DEF Underway
<1>5. (host \in {"done", "failed"}) \/ (host \in {"ux", "start", "ack", "eotack"} /\ toHost = <<>>)
  BY DEF Due
<1>6. DevSpeaks = 0 /\ HostSpeaks = 0
  BY <1>4, <1>5 DEF DevSpeaks, HostSpeaks
<1>7. Heard = 0
  BY <1>5 DEF Alive, Heard
<1> QED
  BY <1>2, <1>4, <1>5, <1>6, <1>7

LEMMA CostGrows ==
    ASSUME NEW a \in Nat, NEW b \in Nat
    PROVE  /\ Cost(a) \in Nat /\ Cost(1) = PktLen
           /\ a <= b => Cost(a) <= Cost(b)
           /\ a + 1 <= b => Cost(a) + PktLen <= Cost(b)
<1>1. ASSUME NEW x \in Nat, NEW d \in Nat
      PROVE  PktLen * (x + d) = PktLen * x + PktLen * d /\ PktLen * d \in Nat
  BY Sizes
<1>2. ASSUME NEW x \in Nat, NEW y \in Nat, x <= y PROVE Cost(x) <= Cost(y)
  <2>1. y - x \in Nat /\ x + (y - x) = y
    BY <1>2
  <2>2. PktLen * (x + (y - x)) = PktLen * x + PktLen * (y - x) /\ PktLen * (y - x) \in Nat
    BY <1>1, <2>1, Zenon
  <2>3. Cost(x) \in Nat /\ Cost(y) = Cost(x) + PktLen * (y - x)
    BY <2>1, <2>2, Costs DEF Cost
  <2> QED
    BY <2>2, <2>3
<1>3. Cost(a) \in Nat /\ Cost(a + 1) = Cost(a) + PktLen /\ Cost(1) = PktLen
  <2>1. Cost(0 + 1) = Cost(0) + PktLen
    BY Costs
  <2> QED
    BY <2>1, Costs, Sizes
<1> QED
  BY <1>2, <1>3

\* The stream stays, and nobody speaks more.
LEMMA FlowRests ==
    ASSUME Typed, Typed', toHost \in Seq(HostCells), toHost' \in Seq(HostCells), Flow,
           Stream' = Stream, Answers' <= Answers, UNCHANGED <<as, host, aborted>>
    PROVE  Flow'
<1>1. Answers \in Nat /\ Answers' \in Nat /\ Room \in Nat /\ Abort \in Nat
  BY Counts, CountsNext, Sizes DEF Counted
<1>2. Cost(Answers') <= Cost(Answers) /\ Cost(Answers) \in Nat /\ Cost(Answers') \in Nat
  BY <1>1, CostGrows
<1>3. Room' = Room /\ Abort' = Abort
  BY DEF Room, Abort
<1>4. Cost(Answers') + Room + Abort <= Cost(Answers) + Room' + Abort'
  BY <1>1, <1>2, <1>3
<1> QED
  BY <1>1, <1>3, <1>4, FlowStays

\* An answer, or a turn to speak, is spent on what the client writes.
LEMMA FlowSpends ==
    ASSUME Typed, Typed', toHost \in Seq(HostCells), toHost' \in Seq(HostCells), Flow,
           NEW w \in Seq(Cells), Stream' = Stream \o w, \A k \in 1..Len(w) : w[k].kind # "LF",
           Len(w) <= PktLen, Answers' + 1 <= Answers, host # "ux", host' # "ux",
           UNCHANGED <<as, aborted>>
    PROVE  Flow'
<1>1. Answers \in Nat /\ Answers' \in Nat /\ Room \in Nat /\ Abort \in Nat
  BY Counts, CountsNext, Sizes DEF Counted
<1>2. Cost(Answers') + PktLen <= Cost(Answers) /\ Cost(Answers) \in Nat /\ Cost(Answers') \in Nat
  BY <1>1, CostGrows
<1>3. Room' = Room /\ Abort' = Abort
  BY DEF Room, Abort
<1>4. Len(w) + Cost(Answers') + Room + Abort <= Cost(Answers) + Room' + Abort'
  <2>1. Len(w) \in Nat /\ PktLen \in Nat
    BY LenProperties, Sizes
  <2> QED
    BY <1>1, <1>2, <1>3, <2>1
<1> QED
  BY <1>4, FlowGrows

\* After a timeout that was due, all begins anew.
LEMMA FlowAnew ==
    ASSUME Typed, Typed', toHost \in Seq(HostCells), toHost' \in Seq(HostCells),
           Len(Stream') + Cost(Answers') <= PktLen,
           \A k \in 1..Len(Stream') : Stream'[k].kind # "LF",
           host' = "ux" => Len(Stream') = 0
    PROVE  Flow'
<1>1. /\ Answers' \in Nat /\ Room' \in Nat /\ PktLen <= Room' /\ Abort' \in Nat
      /\ Len(Stream') \in Nat
  BY CountsNext, Sizes DEF Counted
<1>2. LineFeed' = 0
  <2>1. Stream' # <<>> => 1 \in 1..Len(Stream')
    <3>1. (Typed => Stream \in Seq(Cells))'
      BY StreamCells, PTL
    <3> QED
      BY <3>1, Tails
  <2> QED
    BY <2>1 DEF LineFeed
<1>3. Cost(Answers') \in Nat
  BY <1>1, CostGrows
<1>4. Len(Stream') + Cost(Answers') + LineFeed' <= Room' + Abort'
  BY <1>1, <1>2, <1>3, Sizes
<1>5. 2..Len(Stream') \subseteq 1..Len(Stream')
  BY <1>1
<1> QED
  BY <1>1, <1>4, <1>5 DEF Flow

LEMMA Answered ==
    ASSUME toHost \in Seq(HostCells), NEW c \in HostCells
    PROVE  /\ Append(toHost, c) \in Seq(HostCells) /\ Len(Append(toHost, c)) = Len(toHost) + 1
           /\ toHost \o <<c>> = Append(toHost, c) /\ Len(toHost) \in Nat
BY AppendProperties, AppendIsConcat, LenProperties

\* The answers, when either side hears one or speaks.
LEMMA Sums ==
    ASSUME NEW h \in Nat, NEW s \in Nat, NEW d \in Nat, NEW g \in Nat, NEW t \in Nat, NEW e \in Nat
    PROVE  /\ g <= h + 1 /\ t <= s /\ e + 1 <= d => g + t + e <= h + s + d
           /\ g <= h /\ t <= s /\ e <= d => g + t + e <= h + s + d
           /\ g + 1 <= h /\ t <= s + 1 /\ e <= d => g + t + e <= h + s + d
           /\ g + 1 <= h /\ t <= s /\ e <= d => g + t + e + 1 <= h + s + d
           /\ g <= h /\ t + 1 <= s /\ e <= d => g + t + e + 1 <= h + s + d
OBVIOUS

DevAnswers == Heard' <= Heard + 1 /\ HostSpeaks' <= HostSpeaks /\ DevSpeaks' + 1 <= DevSpeaks
NobodySpeaks == Heard' <= Heard /\ HostSpeaks' <= HostSpeaks /\ DevSpeaks' <= DevSpeaks
HostTurns == Heard' + 1 <= Heard /\ HostSpeaks' <= HostSpeaks + 1 /\ DevSpeaks' <= DevSpeaks
HostHears == Heard' + 1 <= Heard /\ HostSpeaks' <= HostSpeaks /\ DevSpeaks' <= DevSpeaks
HostWrites == Heard' <= Heard /\ HostSpeaks' + 1 <= HostSpeaks /\ DevSpeaks' <= DevSpeaks

LEMMA Turns ==
    ASSUME Typed, Typed', toHost \in Seq(HostCells), toHost' \in Seq(HostCells)
    PROVE  /\ DevAnswers \/ NobodySpeaks \/ HostTurns => Answers' <= Answers
           /\ HostHears \/ HostWrites => Answers' + 1 <= Answers
<1>1. Heard \in Nat /\ HostSpeaks \in Nat /\ DevSpeaks \in Nat
  BY Counts DEF Counted
<1>2. Heard' \in Nat /\ HostSpeaks' \in Nat /\ DevSpeaks' \in Nat
  BY CountsNext DEF Counted
<1>3. Answers = Heard + HostSpeaks + DevSpeaks /\ Answers' = Heard' + HostSpeaks' + DevSpeaks'
  BY DEF Answers
<1> QED
  BY <1>1, <1>2, <1>3, Sums, Zenon DEF DevAnswers, NobodySpeaks, HostTurns, HostHears, HostWrites

LEMMA SendAckFlow == ASSUME FlowInv, SendAck PROVE FlowInv'
<1>1. UploadInv' /\ Typed'
  BY FlowTypes, SendAckStep, Known DEF UploadInv
<1>2. /\ toHost' \in Seq(HostCells) /\ Len(toHost') = Len(toHost) + 1 /\ Len(toHost) \in Nat
  BY FlowTypes, HostCtl, Answered DEF SendAck, ToHost
<1>3. ASSUME Flow PROVE Flow'
  <2>1. Stream' = Stream /\ UNCHANGED <<as, host, aborted>>
    BY DEF Stream, SendAck, hostVars
  <2>2. HostSpeaks' <= HostSpeaks /\ DevSpeaks' + 1 <= DevSpeaks
    BY <2>1 DEF HostSpeaks, DevSpeaks, SendAck
  <2>3. Heard' <= Heard + 1
    BY <1>2, <2>1 DEF Alive, Heard
  <2>4. Answers' <= Answers
    BY <1>1, <1>2, <2>2, <2>3, FlowTypes, Turns DEF DevAnswers
  <2> QED
    BY <1>1, <1>2, <1>3, <2>1, <2>4, FlowTypes, FlowRests
<1> QED
  BY <1>1, <1>2, <1>3, FlowTypes, FlowKept DEF SendAck, hostVars

\* The firmware waits or receives, or something arrives; nobody speaks.
LEMMA QuietFlow ==
    ASSUME FlowInv, UploadInv', UNCHANGED <<as, host, aborted, toHost, overrun, slow>>,
           dev' = dev \/ (dev \in {"wait", "rx", "process"} /\ dev' # "send"),
           Underway => Stream' = Stream
    PROVE  FlowInv'
<1>1. Typed' /\ toHost' \in Seq(HostCells)
  BY FlowTypes DEF UploadInv
<1>2. ASSUME Flow, Underway PROVE Flow'
  <2>1. Heard' = Heard /\ HostSpeaks' = HostSpeaks /\ DevSpeaks' = DevSpeaks
    BY DEF Heard, Alive, HostSpeaks, DevSpeaks
  <2>2. Heard \in Nat /\ HostSpeaks \in Nat /\ DevSpeaks \in Nat
    BY FlowTypes, Counts DEF Counted
  <2>3. NobodySpeaks
    BY <2>1, <2>2 DEF NobodySpeaks
  <2>4. Answers' <= Answers
    BY <1>1, <2>3, FlowTypes, Turns
  <2> QED
    BY <1>1, <1>2, <2>4, FlowTypes, FlowRests
<1>3. slow' \in Nat /\ slow <= slow'
  BY FlowTypes
<1> QED
  BY <1>1, <1>2, <1>3, FlowKept

LEMMA StartPacketFlow == ASSUME FlowInv, StartPacket PROVE FlowInv'
BY FlowTypes, StartPacketStep, StartMoves, QuietFlow DEF StartPacket, hostVars

LEMMA ReceiveDataFlow == ASSUME FlowInv, ReceiveData PROVE FlowInv'
<1>1. UNCHANGED <<as, host, aborted, overrun, slow>> /\ dev = "rx"
  BY DEF ReceiveData, ReceiveUpTo, hostVars
<1>2. dev' \in {"rx", "process"}
  BY DEF ReceiveData, ReceiveUpTo
<1>3. toHost' = toHost
  <2>1. toHost \o <<>> = toHost
    BY FlowTypes, ConcatEmptySeq
  <2> QED
    BY <2>1 DEF ReceiveData, ReceiveUpTo, ToHost
<1>4. Stream' = Stream
  BY FlowTypes, ReceiveMoves
<1> QED
  BY <1>1, <1>2, <1>3, <1>4, FlowTypes, ReceiveDataStep, QuietFlow

\* Back at the command line, nothing is owed any more.
LEMMA LeftFlow ==
    ASSUME FlowInv, UploadInv', dev' = "cmd", UNCHANGED <<as, overrun>>, slow' \in Nat, slow <= slow',
           toHost' \in Seq(HostCells)
    PROVE  FlowInv'
BY FlowKept

LEMMA EndFlow == ASSUME FlowInv, Interrupted \/ EndOfTransmission PROVE FlowInv'
<1>1. dev' = "cmd" /\ UNCHANGED <<as, overrun, slow>>
  BY DEF Interrupted, EndOfTransmission, hostVars
<1>2. toHost' \in Seq(HostCells)
  <2>1. <<Ctl("text")>> \in Seq(HostCells) /\ <<Ctl("ACK"), Ctl("text")>> \in Seq(HostCells)
    <3>1. Ctl("text") \in HostCells /\ Ctl("ACK") \in HostCells
      BY HostCtl
    <3> QED
      BY <3>1
  <2> QED
    BY <2>1, FlowTypes, ConcatProperties DEF Interrupted, EndOfTransmission, ToHost
<1>3. slow' \in Nat /\ slow <= slow'
  BY <1>1, FlowTypes
<1> QED
  BY <1>1, <1>2, <1>3, FlowTypes, EndStep, LeftFlow

LEMMA EchoFlow == ASSUME FlowInv, Echo PROVE FlowInv'
<1>1. dev' = "cmd" /\ UNCHANGED <<as, overrun, slow>>
  BY DEF Echo, hostVars, devVars
<1>2. Head(ring) \in HostCells
  <2>1. Head(ring) \in Cells
    BY FlowTypes, Tails DEF Typed, Echo
  <2> QED
    BY <2>1 DEF Cells, HostCells
<1>3. toHost' \in Seq(HostCells)
  BY <1>2, FlowTypes, Answered DEF Echo, ToHost
<1>4. slow' \in Nat /\ slow <= slow'
  BY <1>1, FlowTypes
<1> QED
  BY <1>1, <1>3, <1>4, FlowTypes, EchoStep, LeftFlow

\* The firmware takes d from the stream, which is worth a packet, and will
\* answer.
LEMMA FlowTakes ==
    ASSUME FlowInv, Typed', Flow, UNCHANGED <<as, host, aborted, toHost>>, dev # "send", dev' = "send",
           NEW d \in Seq(Cells), Stream' \in Seq(Cells), Stream = d \o Stream',
           Len(d) >= 1, Len(d) + LineFeed >= PktLen
    PROVE  Flow'
<1> DEFINE t == Stream'
           n == Len(d)
<1> HIDE DEF t, n
<1>1. /\ Len(Stream) = n + Len(t) /\ Len(t) \in Nat /\ n \in Nat /\ n >= 1
      /\ \A k \in 1..Len(t) : Stream[n + k] = t[k]
  BY Joined DEF t, n
<1>2. \A k \in 1..Len(t) : t[k].kind # "LF"
  <2> SUFFICES ASSUME NEW k \in 1..Len(t) PROVE t[k].kind # "LF"
    OBVIOUS
  <2>1. n + k \in 2..Len(Stream) /\ Stream[n + k] = t[k]
    BY <1>1
  <2> QED
    BY <2>1 DEF Flow
<1>3. LineFeed' = 0 /\ LineFeed \in Nat
  <2>1. t # <<>> => 1 \in 1..Len(t)
    BY Tails DEF t
  <2>2. LineFeed' = 0
    BY <1>2, <2>1 DEF LineFeed, t
  <2> QED
    BY <2>2, FlowTypes, Counts, Sizes DEF Counted
<1>4. Heard' = Heard /\ HostSpeaks' = HostSpeaks /\ DevSpeaks' = 1 /\ DevSpeaks = 0
  BY DEF Heard, Alive, HostSpeaks, DevSpeaks
<1>5. Heard \in Nat /\ HostSpeaks \in Nat /\ Answers \in Nat /\ Room \in Nat /\ Abort \in Nat
  BY FlowTypes, Counts, Sizes DEF Counted
<1>6. Answers' = Answers + 1
  <2>1. Answers = Heard + HostSpeaks + 0 /\ Answers' = Heard + HostSpeaks + 1
    BY <1>4, Zenon DEF Answers
  <2> QED
    BY <1>5, <2>1
<1>7. Cost(Answers') = Cost(Answers) + PktLen /\ Cost(Answers) \in Nat
  BY <1>5, <1>6, Costs, Zenon
<1>8. Room' = Room /\ Abort' = Abort
  BY DEF Room, Abort
<1>9. Len(Stream) + Cost(Answers) + LineFeed <= Room + Abort /\ (host = "ux" => Len(Stream) <= 1 + Abort)
  BY DEF Flow
<1> DEFINE a == Len(t)
           c == Cost(Answers)
           l == LineFeed
           r == Room
           b == Abort
<1>10. /\ a \in Nat /\ c \in Nat /\ l \in Nat /\ r \in Nat /\ b \in Nat
       /\ (n + a) + c + l <= r + b /\ n + l >= PktLen
       /\ host = "ux" => n + a <= 1 + b
  BY <1>1, <1>3, <1>5, <1>7, <1>9, Zenon DEF n
<1> HIDE DEF a, c, l, r, b
<1>11. a + (c + PktLen) + 0 <= r + b /\ (host = "ux" => a <= 1 + b)
  BY <1>1, <1>10, Sizes
<1>12. Len(Stream') + Cost(Answers') + LineFeed' <= Room' + Abort'
  BY <1>3, <1>7, <1>8, <1>11, Zenon DEF a, c, r, b, t
<1>13. host' = "ux" => Len(Stream') <= 1 + Abort'
  BY <1>8, <1>11, Zenon DEF a, b, t
<1>14. 2..Len(t) \subseteq 1..Len(t)
  BY <1>1
<1>15. \A k \in 2..Len(Stream') : Stream'[k].kind # "LF"
  BY <1>2, <1>14 DEF t
<1> QED
  BY <1>12, <1>13, <1>15 DEF Flow

\* Anything but a packet that the firmware waits through is the line feed.
LEMMA IgnoreByteFlow == ASSUME FlowInv, IgnoreByte PROVE FlowInv'
<1>1. UploadInv' /\ Typed' /\ UNCHANGED <<as, host, aborted, toHost, overrun, slow>>
  BY FlowTypes, IgnoreByteStep, Known DEF UploadInv, IgnoreByte, hostVars
<1>2. dev = "wait" /\ dev' = "send"
  BY DEF IgnoreByte
<1>3. ASSUME Flow, Underway PROVE Flow'
  <2>1. PICK c \in Cells : c.kind = "LF" /\ Stream = <<c>> \o Stream'
    BY <1>3, FlowTypes, IgnoreMoves
  <2> DEFINE d == <<c>>
             t == Stream'
  <2>2. d \in Seq(Cells) /\ Len(d) = 1 /\ d[1] = c /\ t \in Seq(Cells) /\ Stream = d \o t
    BY <1>3, <2>1, FlowTypes, IgnoreMoves
  <2> HIDE DEF d, t
  <2>3. Stream[1] = c /\ Stream \in Seq(Cells) /\ Len(Stream) = 1 + Len(t) /\ Len(t) \in Nat
    BY <2>2, Joined
  <2>4. LineFeed = PktLen - 1
    <3>1. Stream # <<>>
      BY <2>3
    <3> QED
      BY <2>1, <2>3, <3>1 DEF LineFeed
  <2>5. Len(d) >= 1 /\ Len(d) + LineFeed >= PktLen
    BY <2>2, <2>4, Sizes
  <2> QED
    BY <1>1, <1>2, <1>3, <2>2, <2>5, FlowTakes DEF t
<1>4. slow' \in Nat /\ slow <= slow' /\ toHost' \in Seq(HostCells)
  BY <1>1, FlowTypes
<1> QED
  BY <1>1, <1>2, <1>3, <1>4, FlowKept

\* A packet that is processed is worth the answer to it.
LEMMA ProcessPacketFlow == ASSUME FlowInv, ProcessPacket PROVE FlowInv'
<1>1. UploadInv' /\ Typed' /\ UNCHANGED <<as, host, aborted, toHost, overrun, slow>>
  BY FlowTypes, ProcessPacketStep, Known DEF UploadInv, ProcessPacket, ProcessIf, hostVars
<1>2. dev = "process" /\ dev' = "send"
  BY DEF ProcessPacket, ProcessIf
<1>3. ASSUME Flow PROVE Flow'
  <2>1. /\ packetbuf \in Seq(Cells) /\ Len(packetbuf) = PktLen /\ Stream' \in Seq(Cells)
        /\ Stream = packetbuf \o Stream'
    BY FlowTypes, ProcessMoves DEF Typed
  <2>2. Len(packetbuf) >= 1 /\ Len(packetbuf) + LineFeed >= PktLen
    <3>1. LineFeed \in {0, PktLen - 1}
      BY FlowTypes, Counts DEF Counted
    <3> QED
      BY <2>1, <3>1, Sizes
  <2> QED
    BY <1>1, <1>2, <1>3, <2>1, <2>2, FlowTakes
<1>4. slow' \in Nat /\ slow <= slow' /\ toHost' \in Seq(HostCells)
  BY <1>1, FlowTypes
<1> QED
  BY <1>1, <1>2, <1>3, <1>4, FlowKept

LEMMA Lateness ==
    ASSUME slow \in Nat, Late
    PROVE  slow' \in Nat /\ slow <= slow' /\ (slow' = slow => Due)
<1>1. CASE Due
  BY <1>1 DEF Late
<1>2. CASE ~Due
  <2>1. slow' = slow + 1
    BY <1>2 DEF Late
  <2>2. slow + 1 # slow /\ slow + 1 \in Nat /\ slow <= slow + 1
    OBVIOUS
  <2> QED
    BY <2>1, <2>2, Zenon
<1> QED
  BY <1>1, <1>2

\* A timeout that was due buys one more answer.
LEMMA WaitCharTimeoutFlow == ASSUME FlowInv, WaitCharTimeout PROVE FlowInv'
<1>1. UploadInv' /\ Typed' /\ slow' \in Nat /\ slow <= slow' /\ (slow' = slow => Due)
  BY FlowTypes, WaitCharTimeoutStep, Known, Lateness DEF UploadInv, WaitCharTimeout
<1>2. UNCHANGED <<as, host, aborted, overrun>>
  BY DEF WaitCharTimeout, hostVars
<1>3. CASE tries + 1 = WaitLimit
  <2>1. dev' = "cmd" /\ toHost' = toHost \o <<Ctl("text")>>
    BY <1>3 DEF WaitCharTimeout, ToHost
  <2>2. toHost' \in Seq(HostCells)
    BY <2>1, FlowTypes, HostCtl, Answered
  <2> QED
    BY <1>1, <1>2, <2>1, <2>2, LeftFlow
<1>4. CASE tries + 1 # WaitLimit
  <2>1. dev \in {"wait", "rx"} /\ dev' = (IF dev = "wait" THEN "send" ELSE dev) /\ toHost' = toHost
    BY <1>4 DEF WaitCharTimeout
  <2>2. toHost' \in Seq(HostCells)
    BY <2>1, FlowTypes
  <2>3. ASSUME Underway, slow' = slow PROVE Flow'
    <3>1. dev = "wait" /\ Stream = <<>> /\ Heard = 0 /\ HostSpeaks = 0
      BY <1>1, <2>1, <2>3, FlowTypes, DueOwesNothing
    <3>2. Stream' = Stream
      BY DEF Stream, WaitCharTimeout
    <3>3. Heard' = 0 /\ HostSpeaks' = 0 /\ DevSpeaks' = 1
      BY <1>2, <2>1, <3>1 DEF Heard, Alive, HostSpeaks, DevSpeaks
    <3>4. Answers' = 1
      <4>1. Answers' = 0 + 0 + 1
        BY <3>3, Zenon DEF Answers
      <4> QED
        BY <4>1
    <3>5. Cost(Answers') = PktLen /\ Len(Stream') = 0
      <4>1. Cost(1) = PktLen
        BY CostGrows
      <4> QED
        BY <3>1, <3>2, <3>4, <4>1
    <3>6. Len(Stream') + Cost(Answers') <= PktLen /\ \A k \in 1..Len(Stream') : Stream'[k].kind # "LF"
      BY <3>5, Sizes
    <3> QED
      BY <1>1, <2>2, <3>5, <3>6, FlowTypes, FlowAnew
  <2> QED
    BY <1>1, <1>2, <2>1, <2>2, <2>3, FlowKept
<1> QED
  BY <1>3, <1>4

\* The receive buffer does not overrun.
LEMMA NoRoomLeft ==
    ASSUME FlowInv, Paced, Arrive, Len(ring) + 1 = RxBufSize, dev # "cmd", Flow, Underway
    PROVE  FALSE
<1>1. /\ ring \in Seq(Cells) /\ toDev \in Seq(Cells) /\ packetbuf \in Seq(Cells)
      /\ Len(packetbuf) \in Nat /\ Len(ring) \in Nat
  BY FlowTypes, LenProperties DEF Typed
<1>2. Len(toDev) \in Nat \ {0}
  BY <1>1, Tails DEF Arrive
<1>3. Len(Stream) = Len(packetbuf) + (Len(ring) + Len(toDev))
  <2>1. ring \o toDev \in Seq(Cells) /\ Len(ring \o toDev) = Len(ring) + Len(toDev)
    BY <1>1, Joined
  <2> QED
    BY <1>1, <2>1, Joined DEF Stream
<1>4. Len(packetbuf) + RxBufSize <= Len(Stream)
  BY <1>1, <1>2, <1>3, Sizes
<1>5. Room \in Nat /\ Abort \in {0, 2} /\ LineFeed \in Nat /\ Answers \in Nat
  BY FlowTypes, Counts, Sizes DEF Counted
<1>6. Cost(Answers) \in Nat
  BY <1>5, CostGrows
<1>7. Len(Stream) \in Nat
  BY FlowTypes, StreamCells
<1>8. Len(Stream) <= Room + Abort
  BY <1>5, <1>6, <1>7 DEF Flow
<1>9. CASE host = "ux"
  <2>1. Len(Stream) <= 1 + Abort
    BY <1>9 DEF Flow
  <2> QED
    BY <1>1, <1>4, <1>5, <1>7, <2>1, Sizes
<1>10. CASE host # "ux" /\ as.waitsForNak
  <2>1. Room = PktLen
    BY <1>10 DEF Room
  <2> QED
    BY <1>1, <1>4, <1>5, <1>7, <1>8, <2>1, Sizes
<1>11. CASE ~as.waitsForNak
  <2>1. Len(ring) = 0 \/ Len(packetbuf) = PktLen
    <3>1. ring = <<>> \/ dev = "process"
      BY <1>11 DEF Paced, FlowInv, Arrive
    <3> QED
      BY <3>1, FlowTypes DEF Typed
  <2>2. Room = PktLen + PktLen
    BY <1>11 DEF Room
  <2> QED
    BY <1>1, <1>4, <1>5, <1>7, <1>8, <2>1, <2>2, Sizes
<1> QED
  BY <1>9, <1>10, <1>11

LEMMA ArriveFlow == ASSUME FlowInv, Paced, Arrive PROVE FlowInv'
<1>1. UploadInv' /\ UNCHANGED <<as, host, aborted, toHost, slow, dev>>
  BY FlowTypes, ArriveStep DEF Arrive, hostVars, devVars
<1>2. CASE Len(ring) + 1 # RxBufSize
  <2>1. overrun' = overrun
    BY <1>2 DEF Arrive
  <2>2. Stream' = Stream
    BY <1>2, FlowTypes, ArriveMoves
  <2> QED
    BY <1>1, <2>1, <2>2, QuietFlow
<1>3. CASE Len(ring) + 1 = RxBufSize
  <2>1. overrun' = (overrun \/ dev # "cmd")
    BY <1>3 DEF Arrive
  <2>2. slow' \in Nat /\ slow <= slow' /\ toHost' \in Seq(HostCells) /\ (slow = 0 \/ slow > 0)
    BY <1>1, FlowTypes
  <2>3. ~(Flow /\ Underway /\ dev # "cmd")
    BY <1>3, NoRoomLeft
  <2>4. overrun' => overrun \/ slow > 0
    <3> SUFFICES ASSUME ~overrun, slow = 0, dev # "cmd" PROVE FALSE
      BY <2>1, <2>2
    <3>1. Flow /\ Underway
      BY FlowTypes, Known DEF FlowInv
    <3> QED
      BY <2>3, <3>1
  <2> QED
    BY <1>1, <2>2, <2>3, <2>4, FlowKept
<1> QED
  BY <1>2, <1>3

(***************************************************************************)
(* The client.                                                             *)
(***************************************************************************)
Cans == <<Ctl("CAN"), Ctl("CAN")>>

LEMMA NoLineFeed ==
    ASSUME NEW k \in {"CAN", "ETX", "EOT"}, NEW l \in {"CAN", "ETX", "EOT"}
    PROVE  /\ <<Ctl(k)>> \in Seq(Cells) /\ Len(<<Ctl(k)>>) = 1
           /\ \A m \in 1..Len(<<Ctl(k)>>) : <<Ctl(k)>>[m].kind # "LF"
           /\ <<Ctl(k), Ctl(l)>> \in Seq(Cells) /\ Len(<<Ctl(k), Ctl(l)>>) = 2
           /\ \A m \in 1..Len(<<Ctl(k), Ctl(l)>>) : <<Ctl(k), Ctl(l)>>[m].kind # "LF"
<1>1. Ctl(k) \in Cells /\ Ctl(k).kind # "LF" /\ Ctl(l) \in Cells /\ Ctl(l).kind # "LF"
  BY CtlCell
<1>2. /\ <<Ctl(k)>> \in Seq(Cells) /\ Len(<<Ctl(k)>>) = 1 /\ <<Ctl(k)>>[1] = Ctl(k)
      /\ <<Ctl(k), Ctl(l)>> \in Seq(Cells) /\ Len(<<Ctl(k), Ctl(l)>>) = 2
      /\ <<Ctl(k), Ctl(l)>>[1] = Ctl(k) /\ <<Ctl(k), Ctl(l)>>[2] = Ctl(l)
  BY <1>1
<1>3. 1..1 = {1} /\ 1..2 = {1, 2}
  OBVIOUS
<1> QED
  BY <1>1, <1>2, <1>3

\* getc takes the oldest answer.
LEMMA Hears ==
    ASSUME toHost \in Seq(HostCells), NEW c \in Oldest(toHost), Getc
    PROVE  /\ toHost' \in Seq(HostCells) /\ Len(toHost) \in Nat /\ Len(toHost') \in Nat
           /\ Len(toHost') + 1 = Len(toHost)
<1>1. toHost # <<>> /\ toHost' = Tail(toHost)
  BY Arrives DEF Getc
<1>2. Tail(toHost) \in Seq(HostCells) /\ Len(Tail(toHost)) = Len(toHost) - 1 /\ Len(toHost) \in Nat \ {0}
  BY <1>1, Tails
<1> QED
  BY <1>1, <1>2

\* The client begins to speak, or gives up.
Retries == UNCHANGED toDev /\ host' \in {"start", "send", "eot", "done"}
GivesIn == toDev' = toDev \o Cans /\ host' = "failed"
Listens == host \in {"start", "ack", "eotack"}
ClientOnly == UNCHANGED <<as, aborted, packetbuf, ring, dev, overrun>>

LEMMA FailCases ==
    ASSUME NEW again \in {"start", "send", "eot"}, Fail(again)
    PROVE  Retries \/ GivesIn
BY DEF Fail, Write, Retries, GivesIn, Cans

LEMMA HeardFlow ==
    ASSUME FlowInv, UploadInv', ClientOnly, Listens, slow' = slow, NEW c \in Oldest(toHost), Getc,
           Retries \/ GivesIn
    PROVE  FlowInv'
<1>1. /\ toHost' \in Seq(HostCells) /\ Len(toHost) \in Nat /\ Len(toHost') \in Nat
      /\ Len(toHost') + 1 = Len(toHost)
  BY FlowTypes, Hears
<1>2. Typed' /\ slow' \in Nat /\ slow <= slow' /\ as' = as
  BY FlowTypes, Known DEF UploadInv, ClientOnly
<1>3. Heard' + 1 <= Heard /\ HostSpeaks = 0 /\ DevSpeaks' <= DevSpeaks
  <2>1. Heard = Len(toHost) /\ Heard' \in {0, Len(toHost')} /\ HostSpeaks = 0
    BY CountsNext, <1>1, <1>2 DEF Heard, Alive, HostSpeaks, Listens, Counted
  <2>2. DevSpeaks' = DevSpeaks /\ DevSpeaks \in {0, 1}
    BY FlowTypes, Counts DEF DevSpeaks, ClientOnly, Counted
  <2> QED
    BY <1>1, <2>1, <2>2
<1>4. ASSUME Flow, Retries PROVE Flow'
  <2>1. HostSpeaks' <= HostSpeaks + 1
    BY <1>3 DEF HostSpeaks
  <2>2. Answers' <= Answers
    BY <1>1, <1>2, <1>3, <2>1, FlowTypes, Turns DEF HostTurns
  <2>3. Stream' = Stream
    BY <1>4 DEF Stream, ClientOnly, Retries
  <2>4. Room' = Room /\ Abort' = Abort /\ host' # "ux"
    BY <1>4 DEF Room, Abort, ClientOnly, Retries, Listens
  <2>5. Answers \in Nat /\ Answers' \in Nat /\ Room \in Nat /\ Abort \in Nat
    BY <1>1, <1>2, FlowTypes, Counts, CountsNext, Sizes DEF Counted
  <2>6. Cost(Answers') <= Cost(Answers) /\ Cost(Answers) \in Nat /\ Cost(Answers') \in Nat
    BY <2>2, <2>5, CostGrows
  <2>7. Cost(Answers') + Room + Abort <= Cost(Answers) + Room' + Abort' /\ Abort <= Abort'
    BY <2>4, <2>5, <2>6
  <2> QED
    BY <1>1, <1>2, <1>4, <2>3, <2>4, <2>7, FlowTypes, FlowStays
<1>5. ASSUME Flow, GivesIn PROVE Flow'
  <2>1. HostSpeaks' <= HostSpeaks
    BY <1>3, <1>5 DEF HostSpeaks, GivesIn
  <2>2. Answers' + 1 <= Answers
    BY <1>1, <1>2, <1>3, <2>1, FlowTypes, Turns DEF HostHears
  <2>3. Cans \in Seq(Cells) /\ Len(Cans) <= PktLen /\ \A k \in 1..Len(Cans) : Cans[k].kind # "LF"
    BY NoLineFeed, Sizes DEF Cans
  <2>4. Stream' = Stream \o Cans
    BY <1>5, <2>3, FlowTypes, Written DEF ClientOnly, GivesIn
  <2>5. host # "ux" /\ host' # "ux"
    BY <1>5 DEF GivesIn, Listens
  <2> QED
    BY <1>1, <1>2, <1>5, <2>2, <2>3, <2>4, <2>5, FlowTypes, FlowSpends DEF ClientOnly
<1>6. overrun' = overrun /\ dev' = dev
  BY DEF ClientOnly
<1> QED
  BY <1>1, <1>2, <1>4, <1>5, <1>6, FlowKept

LEMMA TimeoutFlow ==
    ASSUME FlowInv, UploadInv', ClientOnly, Listens, GetcTimeout, Retries \/ GivesIn
    PROVE  FlowInv'
<1>1. slow' \in Nat /\ slow <= slow' /\ (slow' = slow => Due) /\ toHost' = toHost /\ toHost = <<>>
  BY FlowTypes, Lateness DEF GetcTimeout
<1>2. Typed' /\ as' = as /\ toHost' \in Seq(HostCells)
  BY <1>1, FlowTypes, Known DEF UploadInv, ClientOnly
<1>3. ASSUME Underway, dev # "cmd", slow' = slow PROVE Flow'
  <2>1. dev = "wait" /\ Stream = <<>>
    BY <1>1, <1>3, FlowTypes, DueOwesNothing
  <2>2. Heard' = 0 /\ DevSpeaks' = 0
    BY <1>1, <2>1 DEF Heard, DevSpeaks, ClientOnly
  <2>3. host' # "ux"
    BY DEF Retries, GivesIn
  <2>4. Answers' = HostSpeaks'
    <3>1. HostSpeaks' \in {0, 1}
      BY <1>2, CountsNext DEF Counted
    <3>2. Answers' = 0 + HostSpeaks' + 0
      BY <2>2, Zenon DEF Answers
    <3>3. 0 + 0 + 0 = 0 /\ 0 + 1 + 0 = 1
      OBVIOUS
    <3> QED
      BY <3>1, <3>2, <3>3, Zenon
  <2>5. CASE Retries
    <3>1. Stream' = <<>>
      BY <2>1, <2>5 DEF Stream, ClientOnly, Retries
    <3>2. HostSpeaks' \in {0, 1} /\ Cost(0) = 0 /\ Cost(1) = PktLen
      BY <1>2, CountsNext, Costs, CostGrows DEF Counted
    <3>3. Cost(Answers') \in {0, PktLen} /\ Len(Stream') = 0
      BY <2>4, <3>1, <3>2
    <3>4. Len(Stream') + Cost(Answers') <= PktLen /\ \A k \in 1..Len(Stream') : Stream'[k].kind # "LF"
      BY <3>3, Sizes
    <3> QED
      BY <1>2, <2>3, <3>4, FlowTypes, FlowAnew
  <2>6. CASE GivesIn
    <3>1. Cans \in Seq(Cells) /\ Len(Cans) = 2 /\ \A k \in 1..Len(Cans) : Cans[k].kind # "LF"
      BY NoLineFeed DEF Cans
    <3>2. Stream' = Cans
      <4>1. Stream' = Stream \o Cans
        BY <2>6, <3>1, FlowTypes, Written DEF ClientOnly, GivesIn
      <4>2. <<>> \o Cans = Cans
        BY <3>1, ConcatEmptySeq
      <4> QED
        BY <2>1, <4>1, <4>2
    <3>3. HostSpeaks' = 0 /\ Cost(0) = 0
      BY <2>6, Costs DEF HostSpeaks, GivesIn
    <3>4. Cost(Answers') = 0
      BY <2>4, <3>3
    <3>5. Len(Stream') + Cost(Answers') <= PktLen
      <4>1. Len(Stream') + Cost(Answers') = 2 + 0
        BY <3>1, <3>2, <3>4, Zenon
      <4> QED
        BY <4>1, Sizes
    <3>6. \A k \in 1..Len(Stream') : Stream'[k].kind # "LF"
      BY <3>1, <3>2, Zenon
    <3> QED
      BY <1>2, <2>3, <3>5, <3>6, FlowTypes, FlowAnew
  <2> QED
    BY <2>5, <2>6
<1>4. overrun' = overrun /\ dev' = dev
  BY DEF ClientOnly
<1> QED
  BY <1>1, <1>2, <1>3, <1>4, FlowKept

LEMMA ReadFirstNakFlow == ASSUME FlowInv, ReadFirstNak PROVE FlowInv'
<1>1. /\ UploadInv' /\ host = "ux" /\ host' \in {"start", "ux"}
      /\ UNCHANGED <<devVars, as, aborted, toDev, ring, overrun, slow>>
  BY FlowTypes, ReadFirstNakStep DEF ReadFirstNak
<1>2. PICK c \in Oldest(toHost) : Getc
  BY DEF ReadFirstNak
<1>3. /\ toHost' \in Seq(HostCells) /\ Len(toHost) \in Nat /\ Len(toHost') \in Nat
      /\ Len(toHost') + 1 = Len(toHost)
  BY <1>2, FlowTypes, Hears
<1>4. Typed' /\ slow' \in Nat /\ slow <= slow'
  BY <1>1, FlowTypes, Known DEF UploadInv
<1>5. ASSUME Flow PROVE Flow'
  <2>1. Heard' + 1 <= Heard /\ HostSpeaks' <= HostSpeaks /\ DevSpeaks' <= DevSpeaks
    <3>1. Heard = Len(toHost) /\ Heard' = Len(toHost') /\ HostSpeaks = 0 /\ HostSpeaks' = 0
      BY <1>1 DEF Heard, Alive, HostSpeaks
    <3>2. DevSpeaks' = DevSpeaks /\ DevSpeaks \in {0, 1}
      BY <1>1, FlowTypes, Counts DEF DevSpeaks, devVars, Counted
    <3> QED
      BY <1>3, <3>1, <3>2
  <2>2. Answers' + 1 <= Answers
    BY <1>3, <1>4, <2>1, FlowTypes, Turns DEF HostHears
  <2>3. /\ Answers \in Nat /\ Answers' \in Nat /\ Abort \in Nat
        /\ Room \in {PktLen, PktLen + PktLen} /\ Room' \in {PktLen, PktLen + PktLen}
    BY <1>3, <1>4, FlowTypes, Counts, CountsNext, Sizes DEF Counted
  <2>4. Cost(Answers') + PktLen <= Cost(Answers) /\ Cost(Answers) \in Nat /\ Cost(Answers') \in Nat
    BY <2>2, <2>3, CostGrows
  <2>5. Abort' = Abort /\ Stream' = Stream
    BY <1>1 DEF Abort, Stream, devVars
  <2>6. Cost(Answers') + Room + Abort <= Cost(Answers) + Room' + Abort'
    BY <2>3, <2>4, <2>5, Sizes
  <2>7. Abort <= Abort'
    BY <2>3, <2>5
  <2> QED
    BY <1>1, <1>3, <1>4, <1>5, <2>5, <2>6, <2>7, FlowTypes, FlowStays
<1>6. UNCHANGED <<as, overrun, dev>>
  BY <1>1 DEF devVars
<1> QED
  BY <1>1, <1>3, <1>4, <1>5, <1>6, FlowKept

LEMMA StartFlow == ASSUME FlowInv, Start PROVE FlowInv'
<1>1. UploadInv' /\ ClientOnly /\ Listens
  BY FlowTypes, StartStep DEF Start, ClientOnly, Listens, devVars
<1>2. CASE GetcTimeout /\ Fail("start")
  BY <1>1, <1>2, FailCases, TimeoutFlow
<1>3. ASSUME NEW c \in Oldest(toHost), Getc, UNCHANGED slow,
             (host' = "send" /\ UNCHANGED toDev) \/ Fail("start")
      PROVE  FlowInv'
  <2>1. Retries \/ GivesIn
    BY <1>3, FailCases DEF Retries
  <2> QED
    BY <1>1, <1>3, <2>1, HeardFlow
<1> QED
  BY <1>2, <1>3 DEF Start

LEMMA ReadAckFlow == ASSUME FlowInv, ReadAck PROVE FlowInv'
<1>1. UploadInv' /\ ClientOnly /\ Listens
  BY FlowTypes, ReadAckStep DEF ReadAck, ClientOnly, Listens, devVars
<1>2. CASE GetcTimeout /\ Fail("send")
  BY <1>1, <1>2, FailCases, TimeoutFlow
<1>3. ASSUME NEW c \in Oldest(toHost), Getc, UNCHANGED slow,
             (host' \in {"send", "eot"} /\ UNCHANGED toDev) \/ Fail("send")
      PROVE  FlowInv'
  <2>1. Retries \/ GivesIn
    BY <1>3, FailCases DEF Retries
  <2> QED
    BY <1>1, <1>3, <2>1, HeardFlow
<1> QED
  BY <1>2, <1>3 DEF ReadAck

LEMMA ReadEotAckFlow == ASSUME FlowInv, ReadEotAck PROVE FlowInv'
<1>1. UploadInv' /\ ClientOnly /\ Listens
  BY FlowTypes, EotStep DEF ReadEotAck, ClientOnly, Listens, devVars
<1>2. CASE GetcTimeout /\ Fail("eot")
  BY <1>1, <1>2, FailCases, TimeoutFlow
<1>3. ASSUME NEW c \in Oldest(toHost), Getc, UNCHANGED slow,
             (host' = "done" /\ UNCHANGED toDev) \/ Fail("eot")
      PROVE  FlowInv'
  <2>1. Retries \/ GivesIn
    BY <1>3, FailCases DEF Retries
  <2> QED
    BY <1>1, <1>3, <2>1, HeardFlow
<1> QED
  BY <1>2, <1>3 DEF ReadEotAck

\* What the client writes when it is its turn is at most a packet.
LEMMA WritesFlow == ASSUME FlowInv, SendPacket \/ SendEot PROVE FlowInv'
<1>1. /\ UploadInv' /\ host \in {"send", "eot"} /\ host' \in {"ack", "eotack"}
      /\ UNCHANGED <<devVars, as, aborted, toHost, ring, overrun, slow>>
  BY FlowTypes, SendPacketStep, EotStep DEF SendPacket, SendEot
<1>2. PICK w \in Seq(Cells) : /\ toDev' = toDev \o w /\ Len(w) <= PktLen
                              /\ \A k \in 1..Len(w) : w[k].kind # "LF"
  <2>1. CASE SendEot
    <3>1. toDev' = toDev \o <<Ctl("EOT")>>
      BY <2>1 DEF SendEot, Write
    <3>2. /\ <<Ctl("EOT")>> \in Seq(Cells) /\ Len(<<Ctl("EOT")>>) <= PktLen
          /\ \A k \in 1..Len(<<Ctl("EOT")>>) : <<Ctl("EOT")>>[k].kind # "LF"
      BY NoLineFeed, Sizes
    <3> QED
      BY <3>1, <3>2
  <2>2. CASE SendPacket
    <3>1. blk \in 1..N /\ toDev' = toDev \o Packet(blk)
      BY <2>2, FlowTypes, Sizes DEF SendPacket, Write, Typed
    <3> DEFINE p == Packet(blk)
    <3>2. /\ p \in Seq(Cells) /\ Len(p) = PktLen /\ p[1].kind = "SOH"
          /\ \A m \in 2..PktLen : Opaque(p[m])
      BY <3>1, PacketCells
    <3> HIDE DEF p
    <3>3. \A k \in 1..Len(p) : k = 1 \/ k \in 2..PktLen
      BY <3>2, Sizes
    <3>4. \A k \in 1..Len(p) : p[k].kind # "LF"
      BY <3>2, <3>3 DEF Opaque
    <3>5. Len(p) <= PktLen
      BY <3>2, Sizes
    <3> QED
      BY <3>1, <3>2, <3>4, <3>5 DEF p
  <2> QED
    BY <2>1, <2>2
<1>3. Typed' /\ slow' \in Nat /\ slow <= slow' /\ toHost' \in Seq(HostCells) /\ Len(toHost) \in Nat
  BY <1>1, FlowTypes, Known, LenProperties DEF UploadInv
<1>4. ASSUME Flow PROVE Flow'
  <2>1. Heard' <= Heard /\ HostSpeaks' + 1 <= HostSpeaks /\ DevSpeaks' <= DevSpeaks
    <3>1. Heard = Len(toHost) /\ Heard' = Len(toHost) /\ HostSpeaks = 1 /\ HostSpeaks' = 0
      BY <1>1 DEF Heard, Alive, HostSpeaks
    <3>2. DevSpeaks' = DevSpeaks /\ DevSpeaks \in {0, 1}
      BY <1>1, FlowTypes, Counts DEF DevSpeaks, devVars, Counted
    <3> QED
      BY <1>3, <3>1, <3>2
  <2>2. Answers' + 1 <= Answers
    BY <1>3, <2>1, FlowTypes, Turns DEF HostWrites
  <2>3. Stream' = Stream \o w
    BY <1>1, <1>2, FlowTypes, Written DEF devVars
  <2> QED
    BY <1>1, <1>2, <1>3, <1>4, <2>2, <2>3, FlowTypes, FlowSpends
<1>5. UNCHANGED <<as, overrun, dev>>
  BY <1>1 DEF devVars
<1> QED
  BY <1>1, <1>3, <1>4, <1>5, FlowKept

LEMMA SendAbortFlow == ASSUME FlowInv, SendAbort PROVE FlowInv'
<1>1. /\ UploadInv' /\ UNCHANGED <<devVars, as, host, toHost, ring, overrun, slow>>
      /\ ~aborted /\ aborted' /\ toDev' = toDev \o <<Ctl("CAN"), Ctl("ETX")>>
  BY FlowTypes, SendAbortStep DEF SendAbort, Write
<1>2. Typed' /\ slow' \in Nat /\ slow <= slow' /\ toHost' \in Seq(HostCells)
  BY <1>1, FlowTypes, Known DEF UploadInv
<1>3. ASSUME Flow PROVE Flow'
  <2> DEFINE w == <<Ctl("CAN"), Ctl("ETX")>>
  <2>1. w \in Seq(Cells) /\ Len(w) = 2 /\ \A k \in 1..Len(w) : w[k].kind # "LF"
    BY NoLineFeed
  <2> HIDE DEF w
  <2>2. Stream' = Stream \o w
    BY <1>1, <2>1, FlowTypes, Written DEF devVars, w
  <2>3. Heard' = Heard /\ HostSpeaks' = HostSpeaks /\ DevSpeaks' = DevSpeaks
    BY <1>1 DEF Heard, Alive, HostSpeaks, DevSpeaks, devVars
  <2>4. Answers' = Answers
    BY <2>3, Zenon DEF Answers
  <2>5. Answers \in Nat /\ Room \in Nat
    BY FlowTypes, Counts, Sizes DEF Counted
  <2>6. Room' = Room /\ Abort = 0 /\ Abort' = 2
    BY <1>1 DEF Room, Abort
  <2>7. Cost(Answers') = Cost(Answers) /\ Cost(Answers) \in Nat
    BY <2>4, <2>5, CostGrows
  <2>8. Len(w) + Cost(Answers') + Room + Abort <= Cost(Answers) + Room' + Abort'
    BY <2>1, <2>5, <2>6, <2>7
  <2>9. host' = "ux" => host = "ux" /\ Len(w) + Abort <= Abort'
    BY <1>1, <2>1, <2>6
  <2> QED
    BY <1>2, <1>3, <2>1, <2>2, <2>8, <2>9, FlowTypes, FlowGrows
<1>4. dev' = dev
  BY <1>1 DEF devVars
<1> QED
  BY <1>1, <1>2, <1>3, <1>4, FlowKept

LEMMA FlowInit == ASSUME Init PROVE FlowInv
<1> DEFINE s == <<Ctl("LF")>>
<1>1. s \in Seq(Cells) /\ Len(s) = 1 /\ s[1].kind = "LF"
  BY CtlCell
<1> HIDE DEF s
<1>2. Stream = s
  <2>1. <<>> \o s = s
    BY <1>1, ConcatEmptySeq
  <2> QED
    BY <2>1 DEF Init, Stream, s
<1>3. LineFeed = PktLen - 1
  <2>1. s # <<>>
    BY <1>1
  <2> QED
    BY <1>1, <1>2, <2>1 DEF LineFeed
<1>4. Heard = 0 /\ HostSpeaks = 0 /\ DevSpeaks = 1 /\ Abort = 0 /\ Room = PktLen + PktLen
  <2>1. host = (IF as.waitsForNak THEN "ux" ELSE "start") /\ dev = "send" /\ aborted = FALSE /\ toHost = <<>>
    BY DEF Init
  <2>2. host \in {"ux", "start"}
    BY <2>1
  <2>3. Len(toHost) = 0
    BY <2>1
  <2> QED
    BY <2>1, <2>2, <2>3 DEF Heard, HostSpeaks, DevSpeaks, Abort, Room
<1>5. Cost(Answers) = PktLen
  <2>1. Answers = 1
    BY <1>4 DEF Answers
  <2> QED
    BY <2>1, CostGrows
<1>6. Flow
  <2>1. Len(Stream) + Cost(Answers) + LineFeed <= Room + Abort
    <3>1. 1 + PktLen + (PktLen - 1) <= (PktLen + PktLen) + 0
      BY Sizes
    <3> QED
      BY <1>1, <1>2, <1>3, <1>4, <1>5, <3>1, Zenon
  <2>2. Len(Stream) = 1
    BY <1>1, <1>2, Zenon
  <2>3. \A k \in 2..Len(Stream) : Stream[k].kind # "LF"
    BY <2>2
  <2>4. Len(Stream) <= 1 + Abort
    BY <1>4, <2>2
  <2> QED
    BY <2>1, <2>3, <2>4, Zenon DEF Flow
<1>7. toHost \in Seq(HostCells)
  BY DEF Init
<1> QED
  BY <1>6, <1>7, UploadInit DEF Init, FlowInv, HostCells

LEMMA FlowNext == ASSUME Paced, FlowInv, [Next]_vars PROVE FlowInv'
<1>1. CASE UNCHANGED vars
  <2>1. UNCHANGED <<as, host, aborted, toHost, overrun, slow, dev, packetbuf, ring, toDev>>
    BY <1>1 DEF vars, devVars, hostVars
  <2>2. Stream' = Stream
    BY <2>1 DEF Stream
  <2> QED
    BY <1>1, <2>1, <2>2, FlowTypes, UploadNext, QuietFlow
<1>2. CASE Device
  BY <1>2, SendAckFlow, WaitCharTimeoutFlow, StartPacketFlow, EndFlow, IgnoreByteFlow,
     ReceiveDataFlow, ProcessPacketFlow, EchoFlow DEF Device
<1>3. CASE Client
  BY <1>3, ReadFirstNakFlow, StartFlow, WritesFlow, ReadAckFlow, ReadEotAckFlow DEF Client
<1> QED
  BY <1>1, <1>2, <1>3, ArriveFlow, SendAbortFlow DEF Next

\* If every client waits for the NAK or leaves the main program time to poll,
\* the receive buffer, which holds one packet but not two, overruns only
\* after a timeout that fired although an answer was on its way.
THEOREM OverrunsLate == ASSUME Paced PROVE Spec => []OverrunNeedsDelay
<1>1. ASSUME FlowInv PROVE OverrunNeedsDelay
  BY <1>1 DEF FlowInv, OverrunNeedsDelay
<1>2. FlowInv /\ [Next]_vars => FlowInv'
  BY FlowNext
<1> QED
  BY <1>1, <1>2, FlowInit, PTL DEF Spec

-----------------------------------------------------------------------------
(***************************************************************************)
(* The receive buffer is taken by its promise: with the cell that was read *)
(* last as a history variable, what the upload sees of it is what RxFifo   *)
(* allows, which RxRing implements with the same capacity.                 *)
(***************************************************************************)
VARIABLE last

TakesFirst == ring # <<>> /\ ring' = Tail(ring)
Remembers == last' = IF TakesFirst THEN Head(ring) ELSE last
SpecWithLast == Init /\ last \in Cells /\ [][Next /\ Remembers]_<<vars, last>>

Buffer == INSTANCE RxFifo WITH Byte <- Cells, Capacity <- RxBufSize - 1,
                               queue <- ring, got <- last

\* A step that leaves the buffer alone, or takes its first cell, or stores one.
Stores(c) ==
    IF Len(ring) < RxBufSize - 1 THEN ring' = Append(ring, c) ELSE ring' = <<>>

LEMMA BufferSteps ==
    ASSUME Typed, [Next]_vars
    PROVE  UNCHANGED ring \/ TakesFirst \/ \E c \in Cells : Stores(c)
<1>1. CASE Arrive
  <2>1. Head(toDev) \in Cells /\ Len(ring) \in Nat /\ Len(ring) < RxBufSize
    BY <1>1, Tails, LenProperties DEF Arrive, Typed
  <2>2. Stores(Head(toDev))
    BY <1>1, <2>1, Sizes DEF Arrive, Stores
  <2> QED
    BY <2>1, <2>2
<1>2. CASE StartPacket \/ Interrupted \/ EndOfTransmission \/ IgnoreByte \/ ReceiveData
  <2>1. \E c \in Oldest(ring) : ring' = Tail(ring)
    BY <1>2 DEF StartPacket, Interrupted, EndOfTransmission, IgnoreByte, ReceiveData,
       ReceiveUpTo, WaitChar
  <2> QED
    BY <2>1, Arrives DEF TakesFirst
<1>3. CASE Echo
  BY <1>3 DEF Echo, TakesFirst
<1>4. CASE SendAck \/ WaitCharTimeout \/ ProcessPacket
  BY <1>4 DEF SendAck, WaitCharTimeout, ProcessPacket, ProcessIf
<1>5. CASE Client \/ SendAbort
  BY <1>5 DEF Client, ReadFirstNak, Start, SendPacket, ReadAck, SendEot, ReadEotAck, SendAbort
<1>6. CASE UNCHANGED vars
  BY <1>6 DEF vars
<1> QED
  BY <1>1, <1>2, <1>3, <1>4, <1>5, <1>6 DEF Next, Device

\* The buffer that XmodemUpload assumes is the queue that RxFifo promises: its
\* cells come out once each and in order, until one arrives that fills it.
THEOREM BufferIsFifo == SpecWithLast => Buffer!Spec
<1>1. Init /\ last \in Cells => Buffer!Init
  BY DEF Init, Buffer!Init
<1>2. ASSUME Typed, [Next /\ Remembers]_<<vars, last>>
      PROVE  [Buffer!Next]_(Buffer!vars)
  <2>1. Len(ring) \in Nat /\ Len(ring) < RxBufSize /\ ring \in Seq(Cells)
    BY <1>2, LenProperties DEF Typed
  <2>2. CASE UNCHANGED <<vars, last>>
    BY <2>2 DEF vars, Buffer!vars
  <2>3. CASE Next /\ Remembers
    <3>1. CASE TakesFirst
      BY <2>3, <3>1 DEF TakesFirst, Remembers, Buffer!Next, Buffer!Get
    <3>2. CASE UNCHANGED ring /\ ~TakesFirst
      BY <2>3, <3>2 DEF Remembers, Buffer!vars
    <3>3. ASSUME NEW c \in Cells, Stores(c), ~TakesFirst
          PROVE  Buffer!Put(c) \/ Buffer!PutFull(c)
      <4>1. last' = last
        BY <2>3, <3>3 DEF Remembers
      <4>2. CASE Len(ring) < RxBufSize - 1
        BY <3>3, <4>1, <4>2 DEF Stores, Buffer!Put
      <4>3. CASE ~(Len(ring) < RxBufSize - 1)
        <5>1. ring' = <<>> /\ Len(ring') <= RxBufSize - 1 + 1
          BY <3>3, <4>3, Sizes DEF Stores
        <5>2. Len(ring) >= RxBufSize - 1
          BY <2>1, <4>3, Sizes
        <5> QED
          BY <4>1, <5>1, <5>2 DEF Buffer!PutFull
      <4> QED
        BY <4>2, <4>3
    <3>4. UNCHANGED ring \/ TakesFirst \/ \E c \in Cells : Stores(c)
      BY <1>2, <2>3, BufferSteps
    <3> QED
      BY <3>1, <3>2, <3>3, <3>4 DEF Buffer!Next
  <2> QED
    BY <1>2, <2>2, <2>3
<1>3. ASSUME UploadInv, [Next /\ Remembers]_<<vars, last>>
      PROVE  UploadInv'
  BY <1>3, UploadNext DEF vars
<1>4. UploadInv => Typed
  BY DEF UploadInv
<1>5. Init => UploadInv
  BY UploadInit
<1> QED
  BY <1>1, <1>2, <1>3, <1>4, <1>5, PTL DEF SpecWithLast, Buffer!Spec

-----------------------------------------------------------------------------
(***************************************************************************)
(* What a client that reports success leaves behind.  Nothing on its way   *)
(* ends the upload early: no CAN before the client has given up, no ETX,   *)
(* and an EOT only behind all packets, of the whole file (Calm).  At the   *)
(* command line it has given up, or never heard the first NAK, or all is   *)
(* programmed (Returned).  The last wait is not reached with an answer     *)
(* owed: each wait without a byte says one again (Repeats).                *)
(***************************************************************************)
Calm(s, h, b) ==
    \A k \in 1..Len(s) :
        /\ s[k].kind = "CAN" => h = "failed"
        /\ s[k].kind # "ETX"
        /\ s[k].kind = "EOT" => b = N + 1 /\ \A j \in Starts(s) : j < k

Returned ==
    \/ host = "failed"
    \/ host \in {"ux", "start"} /\ ring = <<>> /\ toDev = <<>> /\ toHost \in Seq({Ctl("text")})
    \/ host \in {"eot", "eotack", "done"} /\ Done = N

Repeats ==
    dev = "wait" /\ tries > 0 /\ host \in {"ack", "eotack"} =>
        ring # <<>> \/ toDev # <<>> \/ toHost # <<>>

SuccessInv ==
    /\ UploadInv /\ toHost \in Seq(HostCells)
    /\ host \in {"eot", "eotack", "done"} => blk = N + 1
    /\ ~overrun => Done <= N
    /\ ~overrun /\ ~aborted => IF dev = "cmd" THEN Returned ELSE Calm(Stream, host, blk) /\ Repeats


LEMMA CalmKept ==
    ASSUME NEW s, NEW h, NEW b, NEW i, NEW c, Calm(s, h, b),
           h = "failed" => i = "failed", b = N + 1 => c = N + 1
    PROVE  Calm(s, i, c)
BY DEF Calm

\* What is written at the end of the stream leaves it calm, if it is, and has
\* no packet once the file is sent.
LEMMA CalmJoined ==
    ASSUME NEW s \in Seq(Cells), NEW w \in Seq(Cells), Framed(s), NEW h, NEW b,
           Calm(s, h, b), Calm(w, h, b), b = N + 1 => Starts(w) = {}
    PROVE  Calm(s \o w, h, b)
<1> DEFINE t == s \o w
           n == Len(s)
<1>1. /\ n \in Nat /\ Len(w) \in Nat
      /\ \A k \in 1..n : t[k] = s[k]
      /\ \A k \in 1..Len(w) : t[n + k] = w[k]
      /\ \A k \in 1..Len(t) : k \in 1..n \/ k - n \in 1..Len(w)
  BY Joined
<1>2. /\ \A k \in Starts(t) : k \in Starts(s) \/ k - n \in Starts(w)
      /\ \A k \in Starts(s) : k <= n
  BY JoinedStarts
<1>3. \A j \in Starts(s) : j \in Nat
  BY DEF Starts
<1> HIDE DEF t, n
<1>4. ASSUME NEW k \in 1..Len(t)
      PROVE  /\ t[k].kind = "CAN" => h = "failed"
             /\ t[k].kind # "ETX"
             /\ t[k].kind = "EOT" => b = N + 1 /\ \A j \in Starts(t) : j < k
  <2>1. CASE k \in 1..n
    <3>1. /\ s[k].kind = "CAN" => h = "failed"
          /\ s[k].kind # "ETX"
          /\ s[k].kind = "EOT" => b = N + 1 /\ \A j \in Starts(s) : j < k
      BY <2>1 DEF Calm, n
    <3>2. t[k] = s[k]
      BY <1>1, <2>1
    <3> QED
      BY <1>2, <3>1, <3>2
  <2>2. CASE k - n \in 1..Len(w)
    <3> DEFINE i == k - n
    <3>1. /\ w[i].kind = "CAN" => h = "failed"
          /\ w[i].kind # "ETX"
          /\ w[i].kind = "EOT" => b = N + 1
      BY <2>2 DEF Calm
    <3>2. t[k] = w[i] /\ n < k
      <4>1. n + i = k /\ n < k
        BY <1>1, <2>2
      <4> QED
        BY <1>1, <2>2, <4>1
    <3> HIDE DEF i
    <3>3. ASSUME b = N + 1, NEW j \in Starts(t) PROVE j < k
      <4>1. j \in Starts(s) /\ j <= n /\ j \in Nat
        BY <1>2, <1>3, <3>3
      <4> QED
        BY <1>1, <3>2, <4>1
    <3> QED
      BY <3>1, <3>2, <3>3
  <2> QED
    BY <1>1, <2>1, <2>2
<1> QED
  BY <1>4 DEF Calm, t

\* A calm stream stays calm without its first cells.
LEMMA CalmDropped ==
    ASSUME NEW d \in Seq(Cells), NEW t \in Seq(Cells), NEW h, NEW b, Calm(d \o t, h, b)
    PROVE  Calm(t, h, b)
<1> DEFINE s == d \o t
           n == Len(d)
<1>1. /\ n \in Nat /\ Len(t) \in Nat /\ Len(s) = n + Len(t)
      /\ \A k \in 1..Len(t) : s[n + k] = t[k]
  BY Joined
<1>2. Calm(s, h, b)
  OBVIOUS
<1> HIDE DEF s, n
<1>3. ASSUME NEW k \in 1..Len(t)
      PROVE  n + k \in 1..Len(s) /\ s[n + k] = t[k]
  BY <1>1
<1>4. ASSUME NEW j \in Starts(t) PROVE n + j \in Starts(s)
  BY <1>3 DEF Starts
<1>5. ASSUME NEW k \in 1..Len(t)
      PROVE  /\ t[k].kind = "CAN" => h = "failed"
             /\ t[k].kind # "ETX"
             /\ t[k].kind = "EOT" => b = N + 1 /\ \A j \in Starts(t) : j < k
  <2>1. /\ s[n + k].kind = "CAN" => h = "failed"
        /\ s[n + k].kind # "ETX"
        /\ s[n + k].kind = "EOT" => b = N + 1 /\ \A j \in Starts(s) : j < n + k
    BY <1>2, <1>3 DEF Calm
  <2>2. ASSUME t[k].kind = "EOT", NEW j \in Starts(t) PROVE j < k
    <3>1. n + j < n + k
      BY <1>3, <1>4, <2>1, <2>2
    <3>2. j \in Int
      BY DEF Starts
    <3> QED
      BY <1>1, <3>1, <3>2
  <2> QED
    BY <1>3, <2>1, <2>2
<1> QED
  BY <1>5 DEF Calm

LEMMA CalmPacket ==
    ASSUME NEW b \in 1..N, NEW h
    PROVE  Calm(Packet(b), h, b)
<1>1. Len(Packet(b)) = PktLen /\ Packet(b)[1].kind = "SOH"
      /\ \A m \in 2..PktLen : Packet(b)[m].kind \in {"seq", "data"}
  BY PacketCells DEF Opaque
<1> DEFINE w == Packet(b)
<1>2. \A m \in 1..PktLen : m = 1 \/ m \in 2..PktLen
  BY Sizes
<1> HIDE DEF w
<1>3. \A m \in 1..Len(w) : w[m].kind \in {"SOH", "seq", "data"}
  BY <1>1, <1>2 DEF w
<1> QED
  BY <1>3 DEF Calm, w

\* What else the client says: nothing, CANs when it gives up, an EOT when all
\* is sent.
LEMMA CalmSays ==
    ASSUME NEW h, NEW b
    PROVE  /\ Calm(<<>>, h, b)
           /\ h = "failed" => Calm(Cans, h, b)
           /\ b = N + 1 => Calm(<<Ctl("EOT")>>, h, b)
<1>1. Calm(<<>>, h, b)
  BY DEF Calm
<1>2. \A k \in 1..Len(Cans) : Cans[k].kind = "CAN"
  <2>1. PICK x : x = Ctl("CAN")
    OBVIOUS
  <2>2. x.kind = "CAN"
    BY <2>1, CtlCell
  <2>3. \A k \in 1..Len(<<x, x>>) : <<x, x>>[k] = x
    OBVIOUS
  <2> QED
    BY <2>1, <2>2, <2>3 DEF Cans
<1>3. /\ Starts(<<Ctl("EOT")>>) = {}
      /\ \A k \in 1..Len(<<Ctl("EOT")>>) : <<Ctl("EOT")>>[k].kind = "EOT"
  <2>1. PICK x : x = Ctl("EOT")
    OBVIOUS
  <2>2. x.kind = "EOT"
    BY <2>1, CtlCell
  <2>3. \A k \in 1..Len(<<x>>) : <<x>>[k] = x
    OBVIOUS
  <2> QED
    BY <2>1, <2>2, <2>3, CtlPairs
<1> QED
  BY <1>1, <1>2, <1>3 DEF Calm

\* The part of the invariant that speaks of an upload without fault.
Keeps == IF dev = "cmd" THEN Returned ELSE Calm(Stream, host, blk) /\ Repeats

LEMMA Knows ==
    ASSUME SuccessInv
    PROVE  /\ UploadInv /\ Typed /\ toHost \in Seq(HostCells)
           /\ host \in {"eot", "eotack", "done"} => blk = N + 1
           /\ ~overrun => Done <= N
           /\ ~overrun /\ ~aborted => Keeps
           /\ ~overrun /\ dev # "cmd" => Underway /\ Done \in Nat
BY Known DEF SuccessInv, Keeps

\* What reaches the client are cells.
LEMMA HostTyped ==
    ASSUME Typed, toHost \in Seq(HostCells), [Next]_vars
    PROVE  toHost' \in Seq(HostCells)
<1>1. CASE UNCHANGED toHost
  BY <1>1
<1>2. CASE toHost # <<>> /\ toHost' = Tail(toHost)
  BY <1>2, Tails
<1>3. ASSUME NEW w \in Seq(HostCells), ToHost(w) PROVE toHost' \in Seq(HostCells)
  BY <1>3, ConcatProperties DEF ToHost
<1>4. CASE SendAck
  <2>1. \E k \in {"NAK", "ACK"} : ToHost(<<Ctl(k)>>)
    BY <1>4 DEF SendAck
  <2>2. \A k \in {"NAK", "ACK"} : <<Ctl(k)>> \in Seq(HostCells)
    BY HostCtl
  <2> QED
    BY <1>3, <2>1, <2>2
<1>5. CASE Interrupted \/ EndOfTransmission \/ WaitCharTimeout
  <2>1. <<Ctl("text")>> \in Seq(HostCells) /\ <<Ctl("ACK"), Ctl("text")>> \in Seq(HostCells)
    BY HostCtl
  <2>2. UNCHANGED toHost \/ ToHost(<<Ctl("text")>>) \/ ToHost(<<Ctl("ACK"), Ctl("text")>>)
    BY <1>5 DEF Interrupted, EndOfTransmission, WaitCharTimeout
  <2> QED
    BY <1>1, <1>3, <2>1, <2>2
<1>6. CASE Echo
  <2>1. Head(ring) \in HostCells
    <3>1. Head(ring) \in Cells
      BY <1>6, Tails DEF Typed, Echo
    <3> QED
      BY <3>1 DEF Cells, HostCells
  <2>2. <<Head(ring)>> \in Seq(HostCells) /\ ToHost(<<Head(ring)>>)
    BY <1>6, <2>1 DEF Echo
  <2> QED
    BY <1>3, <2>2
<1>7. CASE ReceiveData
  <2>1. UNCHANGED toHost \/ ToHost(<<>>)
    BY <1>7 DEF ReceiveData, ReceiveUpTo
  <2>2. <<>> \in Seq(HostCells)
    OBVIOUS
  <2> QED
    BY <1>1, <1>3, <2>1, <2>2
<1>8. CASE StartPacket \/ IgnoreByte \/ ProcessPacket \/ Arrive \/ SendAbort \/ SendPacket \/ SendEot
           \/ UNCHANGED vars
  BY <1>8 DEF StartPacket, IgnoreByte, ProcessPacket, ProcessIf, Arrive, SendAbort, SendPacket,
     SendEot, vars
<1>9. CASE ReadFirstNak \/ Start \/ ReadAck \/ ReadEotAck
  <2>1. UNCHANGED toHost \/ \E c \in Oldest(toHost) : toHost' = Tail(toHost)
    BY <1>9 DEF ReadFirstNak, Start, ReadAck, ReadEotAck, Getc, GetcTimeout
  <2> QED
    BY <1>1, <1>2, <2>1, Arrives
<1> QED
  BY <1>4, <1>5, <1>6, <1>7, <1>8, <1>9 DEF Next, Device, Client

\* The EOT is sent when every block was.
LEMMA AllSent ==
    ASSUME Typed, host \in {"eot", "eotack", "done"} => blk = N + 1, [Next]_vars,
           host' \in {"eot", "eotack", "done"}
    PROVE  blk' = N + 1
<1>1. CASE ReadAck
  <2>1. /\ host = "ack"
        /\ \/ blk' = blk + 1 /\ host' = (IF blk < N THEN "send" ELSE "eot")
           \/ Fail("send")
    BY <1>1 DEF ReadAck
  <2>2. ~Fail("send")
    BY DEF Fail
  <2>3. blk' = blk + 1 /\ ~(blk < N)
    BY <2>1, <2>2
  <2>4. blk \in 1..N
    BY <2>1, Sizes DEF Typed
  <2> QED
    BY <2>3, <2>4, Sizes
<1>2. CASE ReadFirstNak \/ Start \/ SendPacket
  BY <1>2 DEF ReadFirstNak, Start, SendPacket, Fail
<1>3. CASE SendEot \/ ReadEotAck
  BY <1>3 DEF SendEot, ReadEotAck
<1>4. CASE Device \/ Arrive \/ SendAbort \/ UNCHANGED vars
  <2>1. UNCHANGED <<host, blk>>
    BY <1>4 DEF Device, SendAck, WaitCharTimeout, StartPacket, Interrupted, EndOfTransmission,
       IgnoreByte, ReceiveData, ReceiveUpTo, ProcessPacket, ProcessIf, Echo, Arrive, SendAbort,
       hostVars, vars
  <2> QED
    BY <2>1
<1> QED
  BY <1>1, <1>2, <1>3, <1>4 DEF Next, Client

LEMMA Faultless ==
    ASSUME Typed, [Next]_vars
    PROVE  (~overrun' => ~overrun) /\ (~aborted' => ~aborted)
<1>1. CASE Device \/ Client \/ UNCHANGED vars
  <2>1. UNCHANGED <<overrun, aborted>>
    BY <1>1 DEF Device, SendAck, WaitCharTimeout, StartPacket, Interrupted, EndOfTransmission,
       IgnoreByte, ReceiveData, ReceiveUpTo, ProcessPacket, ProcessIf, Echo, hostVars, vars,
       Client, ReadFirstNak, Start, SendPacket, ReadAck, SendEot, ReadEotAck
  <2> QED
    BY <2>1
<1>2. CASE Arrive
  <2>1. aborted' = aborted /\ (overrun' = (overrun \/ dev # "cmd") \/ overrun' = overrun)
    BY <1>2 DEF Arrive, hostVars
  <2>2. CASE overrun' = (overrun \/ dev # "cmd")
    BY <2>1, <2>2, Zenon
  <2>3. CASE overrun' = overrun
    BY <2>1, <2>3, Zenon
  <2> QED
    BY <2>1, <2>2, <2>3
<1>3. CASE SendAbort
  <2>1. aborted' = TRUE /\ overrun' = overrun
    BY <1>3 DEF SendAbort
  <2> QED
    BY <2>1, Zenon
<1> QED
  BY <1>1, <1>2, <1>3 DEF Next

\* No more is programmed than the file has.
LEMMA NoMore ==
    ASSUME UploadInv, ~overrun, Done <= N, [Next]_vars
    PROVE  Done' <= N
<1>1. CASE ProcessPacket
  <2>1. PICK id \in PacketId(packetbuf) :
           IF id # last_packet_id
           THEN programmed' = Append(programmed, [i \in 3..PktLen |-> packetbuf[i]])
           ELSE UNCHANGED programmed
    BY <1>1 DEF ProcessPacket, ProcessIf
  <2>2. Typed /\ Underway /\ Done \in Nat /\ dev = "process" /\ ExactPrefix
    BY <1>1, Known DEF ProcessPacket, ProcessIf, UploadInv
  <2>3. PICK b \in 1..N : packetbuf = Packet(b) /\ b \in {Done, Done + 1}
    BY <2>2, Processed
  <2>4. id = b % SeqMod /\ [i \in 3..PktLen |-> packetbuf[i]] = Block(b)
    BY <2>1, <2>3, PacketData
  <2>5. CASE b = Done
    <3>1. UNCHANGED programmed
      BY <2>1, <2>2, <2>4, <2>5 DEF Underway
    <3> QED
      BY <3>1 DEF Done
  <2>6. CASE b = Done + 1
    <3>1. CASE UNCHANGED programmed
      BY <3>1 DEF Done
    <3>2. CASE programmed' = Append(programmed, Block(Done + 1))
      <4>1. ~overrun'
        BY <1>1 DEF ProcessPacket, ProcessIf
      <4>2. Done' = Done + 1
        BY <2>2, <3>2, <4>1, PrefixGrows
      <4> QED
        BY <2>3, <2>6, <4>2, Sizes
    <3> QED
      BY <2>1, <2>4, <2>6, <3>1, <3>2
  <2> QED
    BY <2>3, <2>5, <2>6
<1>2. CASE ~ProcessPacket
  <2>1. UNCHANGED programmed
    BY <1>2 DEF Next, Device, SendAck, WaitCharTimeout, StartPacket, Interrupted, EndOfTransmission,
       IgnoreByte, ReceiveData, ReceiveUpTo, Echo, Arrive, SendAbort,
       Client, ReadFirstNak, Start, SendPacket, ReadAck, SendEot, ReadEotAck, devVars, vars
  <2> QED
    BY <2>1 DEF Done
<1> QED
  BY <1>1, <1>2

-----------------------------------------------------------------------------
(***************************************************************************)
(* The firmware's steps of an upload without fault.                        *)
(***************************************************************************)
Fine == ~overrun /\ ~aborted

\* A stream that is as it was, for a client that is as it was.
LEMMA StaysCalm ==
    ASSUME SuccessInv, Fine, dev # "cmd", dev' # "cmd", UNCHANGED <<host, blk>>,
           Stream' = Stream, Repeats'
    PROVE  Keeps'
<1>1. Calm(Stream, host, blk)
  BY Knows DEF Fine, Keeps
<1> QED
  BY <1>1 DEF Keeps

LEMMA SendAckEnds == ASSUME SuccessInv, Fine, SendAck PROVE Keeps'
<1>1. /\ dev = "send" /\ dev' = "wait" /\ UNCHANGED <<host, blk>> /\ Stream' = Stream
      /\ \E k \in {"NAK", "ACK"} : toHost' = toHost \o <<Ctl(k)>>
  BY DEF SendAck, ToHost, hostVars, Stream
<1>2. PICK k \in {"NAK", "ACK"} : toHost' = toHost \o <<Ctl(k)>>
  BY <1>1
<1>3. Append(toHost, Ctl(k)) \in Seq(HostCells) /\ Len(Append(toHost, Ctl(k))) = Len(toHost) + 1
  BY Knows, HostCtl, Answered
<1>4. toHost' = Append(toHost, Ctl(k)) /\ Len(toHost) \in Nat
  BY <1>2, Knows, HostCtl, AppendIsConcat, LenProperties
<1>5. toHost' # <<>>
  BY <1>3, <1>4
<1> QED
  BY <1>1, <1>5, StaysCalm DEF Repeats

\* With nothing on its way, nothing is left to program.
LEMMA NothingLeft ==
    ASSUME Typed, Underway, Done \in Nat, Done <= N, blk = N + 1, host # "ack", Starts(Stream) = {}
    PROVE  Done = N
<1>1. LastSent = N /\ Covers(Stream, Done, N, Len(Stream))
  BY Sizes DEF Underway, LastSent
<1>2. ~(Done < N)
  <2> SUFFICES ASSUME Done < N PROVE FALSE
    OBVIOUS
  <2>1. N \in Done+1..N
    BY Sizes
  <2> QED
    BY <1>1, <2>1 DEF Covers
<1> QED
  BY <1>2, Sizes

LEMMA WaitCharTimeoutEnds ==
    ASSUME WaitLimit >= 2, SuccessInv, Fine, WaitCharTimeout
    PROVE  Keeps'
<1>1. /\ dev \in {"wait", "rx"} /\ UNCHANGED <<host, blk, ring, toDev, programmed>> /\ Stream' = Stream
      /\ ring = <<>>
  BY DEF WaitCharTimeout, hostVars, Stream
<1>2. CASE tries + 1 = WaitLimit
  <2>1. Due /\ dev' = "cmd" /\ toHost' = toHost \o <<Ctl("text")>>
    BY <1>2 DEF WaitCharTimeout, ToHost
  <2>2. Typed /\ Underway /\ Done \in Nat /\ Done <= N /\ Keeps
    BY <1>1, Knows DEF Fine
  <2>3. toDev = <<>> /\ Stream = packetbuf
    <3>1. toDev = <<>> /\ packetbuf \in Seq(Cells)
      BY <2>1, <2>2 DEF Due, Typed
    <3>2. ring \o toDev = <<>>
      BY <1>1, <3>1
    <3> QED
      BY <3>1, <3>2, ConcatEmptySeq DEF Stream
  <2>4. dev = "wait" /\ packetbuf = <<>>
    <3>1. ASSUME dev = "rx" PROVE FALSE
      <4>1. packetbuf[1].kind = "SOH" /\ Len(packetbuf) \in 1..PktLen-1 /\ Framed(packetbuf)
        BY <2>2, <2>3, <3>1 DEF Typed, Underway
      <4>2. 1 \in Starts(packetbuf)
        BY <4>1 DEF Starts
      <4>3. Whole(packetbuf, 1)
        BY <4>1, <4>2 DEF Framed
      <4> QED
        BY <4>1, <4>3, Sizes DEF Whole
    <3> QED
      BY <1>1, <2>2, <3>1 DEF Underway
  <2>5. Starts(Stream) = {}
    <3>1. Stream = <<>>
      BY <2>3, <2>4
    <3> QED
      BY <3>1 DEF Starts
  <2>6. tries > 0
    <3>1. tries \in Nat
      BY <2>2, Sizes DEF Typed
    <3> QED
      BY <1>2, <3>1
  <2>7. host \notin {"ack", "eotack"} \/ toHost # <<>>
    BY <1>1, <2>2, <2>3, <2>4, <2>6 DEF Keeps, Repeats
  <2>8. \/ host \in {"done", "failed"}
        \/ host \in {"ux", "start"} /\ toHost = <<>>
    BY <2>1, <2>7 DEF Due
  <2>9. CASE host = "done"
    <3>1. Done = N
      BY <2>2, <2>5, <2>9, Knows, NothingLeft
    <3>2. Done' = Done /\ host' = host
      BY <1>1 DEF Done
    <3> QED
      BY <2>1, <2>9, <3>1, <3>2 DEF Keeps, Returned
  <2>10. CASE host = "failed"
    BY <1>1, <2>1, <2>10 DEF Keeps, Returned
  <2>11. CASE host \in {"ux", "start"} /\ toHost = <<>>
    <3>1. toHost' \in Seq({Ctl("text")})
      BY <2>1, <2>11
    <3> QED
      BY <1>1, <2>1, <2>3, <2>11, <3>1 DEF Keeps, Returned
  <2> QED
    BY <2>8, <2>9, <2>10, <2>11
<1>3. CASE tries + 1 # WaitLimit
  <2>1. dev' \in {"send", "rx"}
    BY <1>1, <1>3 DEF WaitCharTimeout
  <2> QED
    BY <1>1, <2>1, StaysCalm DEF Repeats
<1> QED
  BY <1>2, <1>3

LEMMA StartPacketEnds == ASSUME SuccessInv, Fine, StartPacket PROVE Keeps'
<1>1. dev = "wait" /\ dev' = "rx" /\ UNCHANGED <<host, blk>>
  BY DEF StartPacket, hostVars
<1>2. Typed /\ Underway
  BY <1>1, Knows DEF Fine
<1>3. Stream' = Stream
  BY <1>2, StartMoves
<1> QED
  BY <1>1, <1>3, StaysCalm DEF Repeats

\* The firmware is ended by a CAN of a client that gave up, or by the EOT.
LEMMA EndEnds ==
    ASSUME SuccessInv, Fine, Interrupted \/ EndOfTransmission
    PROVE  Keeps'
<1>1. dev = "wait" /\ dev' = "cmd" /\ UNCHANGED <<host, programmed>>
  BY DEF Interrupted, EndOfTransmission, hostVars
<1>2. Typed /\ Underway /\ Done \in Nat /\ Done <= N /\ Calm(Stream, host, blk)
  BY <1>1, Knows DEF Fine, Keeps
<1>3. PICK c \in Oldest(ring) :
         \/ Interrupted /\ (Reads(c, "ETX") \/ Reads(c, "CAN"))
         \/ EndOfTransmission /\ Reads(c, "EOT")
  BY DEF Interrupted, EndOfTransmission
<1>4. ~Opaque(c) /\ c = Stream[1] /\ 1 \in 1..Len(Stream)
  <2>1. /\ c \in Cells /\ ~Opaque(c) /\ c = Stream[1] /\ Tail(ring) \o toDev \in Seq(Cells)
        /\ Stream = <<c>> \o (Tail(ring) \o toDev)
    BY <1>1, <1>2, Opening
  <2> DEFINE t == Tail(ring) \o toDev
             h == <<c>>
  <2>2. h \in Seq(Cells) /\ Len(h) = 1 /\ t \in Seq(Cells) /\ Stream = h \o t
    BY <2>1
  <2> HIDE DEF t, h
  <2>3. Len(Stream) >= 1
    BY <2>2, Joined
  <2> QED
    BY <1>2, <2>1, <2>3, StreamCells
<1>5. /\ c.kind = "CAN" => host = "failed"
      /\ c.kind # "ETX"
      /\ c.kind = "EOT" => blk = N + 1 /\ \A j \in Starts(Stream) : j < 1
  BY <1>2, <1>4 DEF Calm
<1>6. CASE host = "failed"
  BY <1>1, <1>6 DEF Keeps, Returned
<1>7. CASE host # "failed"
  <2>1. c.kind = "EOT"
    BY <1>3, <1>4, <1>5, <1>7 DEF Reads
  <2>2. blk = N + 1 /\ Starts(Stream) = {}
    BY <1>5, <2>1 DEF Starts
  <2>3. host \in {"eot", "eotack", "done"}
    BY <1>2, <1>7, <2>2, Sizes DEF Typed
  <2>4. Done = N
    BY <1>2, <2>2, <2>3, NothingLeft
  <2>5. Done' = Done
    BY <1>1 DEF Done
  <2> QED
    BY <1>1, <2>3, <2>4, <2>5 DEF Keeps, Returned
<1> QED
  BY <1>6, <1>7

LEMMA IgnoreByteEnds == ASSUME SuccessInv, Fine, IgnoreByte PROVE Keeps'
<1>1. dev = "wait" /\ dev' = "send" /\ UNCHANGED <<host, blk>>
  BY DEF IgnoreByte, hostVars
<1>2. Typed /\ Underway /\ Calm(Stream, host, blk)
  BY <1>1, Knows DEF Fine, Keeps
<1>3. PICK c \in Cells : Stream = <<c>> \o Stream'
  BY <1>2, IgnoreMoves
<1>4. <<c>> \in Seq(Cells) /\ Stream' \in Seq(Cells)
  BY <1>2, IgnoreMoves
<1>5. Calm(Stream', host, blk)
  BY <1>2, <1>3, <1>4, CalmDropped
<1> QED
  BY <1>1, <1>5 DEF Keeps, Repeats

LEMMA ReceiveDataEnds == ASSUME SuccessInv, Fine, ReceiveData PROVE Keeps'
<1>1. dev = "rx" /\ dev' \in {"rx", "process"} /\ UNCHANGED <<host, blk>>
  BY DEF ReceiveData, ReceiveUpTo, hostVars
<1>2. Stream' = Stream
  BY Knows, ReceiveMoves
<1> QED
  BY <1>1, <1>2, StaysCalm DEF Repeats

LEMMA ProcessPacketEnds == ASSUME SuccessInv, Fine, ProcessPacket PROVE Keeps'
<1>1. dev = "process" /\ dev' = "send" /\ UNCHANGED <<host, blk>>
  BY DEF ProcessPacket, ProcessIf, hostVars
<1>2. Typed /\ Calm(Stream, host, blk) /\ packetbuf \in Seq(Cells)
  BY <1>1, Knows DEF Fine, Keeps, Typed
<1>3. Stream' \in Seq(Cells) /\ Stream = packetbuf \o Stream'
  BY <1>2, ProcessMoves
<1>4. Calm(Stream', host, blk)
  BY <1>2, <1>3, CalmDropped
<1> QED
  BY <1>1, <1>4 DEF Keeps, Repeats

LEMMA EchoEnds == ASSUME SuccessInv, Fine, Echo PROVE Keeps'
<1>1. dev = "cmd" /\ ring # <<>> /\ UNCHANGED <<dev, host, programmed>>
  BY DEF Echo, devVars, hostVars
<1>2. Returned /\ Done' = Done
  BY <1>1, Knows DEF Fine, Keeps, Done
<1> QED
  BY <1>1, <1>2 DEF Keeps, Returned

LEMMA ArriveEnds == ASSUME SuccessInv, Fine, ~overrun', Arrive PROVE Keeps'
<1>1. toDev # <<>> /\ UNCHANGED <<dev, host, blk, programmed>>
  BY DEF Arrive, devVars, hostVars
<1>2. CASE dev = "cmd"
  <2>1. Returned /\ Done' = Done
    BY <1>1, <1>2, Knows DEF Fine, Keeps, Done
  <2> QED
    BY <1>1, <1>2, <2>1 DEF Keeps, Returned
<1>3. CASE dev # "cmd"
  <2>1. Len(ring) + 1 # RxBufSize
    <3>1. ASSUME overrun' = (overrun \/ dev # "cmd") PROVE FALSE
      BY <1>3, <3>1, Zenon
    <3> QED
      BY <3>1 DEF Arrive
  <2>2. Stream' = Stream
    BY <2>1, Knows, ArriveMoves
  <2>3. ring' # <<>>
    <3>1. ring' = Append(ring, Head(toDev))
      BY <2>1 DEF Arrive
    <3>2. ring \in Seq(Cells) /\ Head(toDev) \in Cells /\ Len(ring) \in Nat
      BY <1>1, Knows, Tails, LenProperties DEF Typed
    <3>3. Len(ring') = Len(ring) + 1
      BY <3>1, <3>2, AppendProperties
    <3> QED
      BY <3>2, <3>3
  <2> QED
    BY <1>1, <1>3, <2>2, <2>3, StaysCalm DEF Repeats
<1> QED
  BY <1>2, <1>3

-----------------------------------------------------------------------------
(***************************************************************************)
(* The client's steps of an upload without fault.                          *)
(***************************************************************************)
\* What the client says is calm, and it does not wait for an answer again.
LEMMA ClientCalm ==
    ASSUME SuccessInv, Fine, dev # "cmd", UNCHANGED <<devVars, ring>>,
           NEW w \in Seq(Cells), toDev' = toDev \o w, Calm(w, host', blk'),
           blk' = N + 1 => Starts(w) = {},
           host = "failed" => host' = "failed", blk = N + 1 => blk' = N + 1,
           host' \in {"ack", "eotack"} => w # <<>>
    PROVE  Keeps'
<1>1. Typed /\ Framed(Stream) /\ Calm(Stream, host, blk) /\ Stream \in Seq(Cells)
  BY Knows, StreamCells DEF Fine, Keeps, Underway
<1>2. Stream' = Stream \o w
  BY <1>1, Written DEF devVars
<1>3. Calm(Stream, host', blk')
  BY <1>1, CalmKept
<1>4. Calm(Stream \o w, host', blk')
  BY <1>1, <1>3, CalmJoined
<1>5. w # <<>> => toDev' # <<>>
  <2>1. toDev \in Seq(Cells)
    BY <1>1 DEF Typed
  <2>2. Len(toDev \o w) = Len(toDev) + Len(w) /\ Len(toDev) \in Nat /\ Len(w) \in Nat
    BY <2>1, Joined
  <2>3. w # <<>> => Len(w) # 0
    BY EmptySeq
  <2>4. w # <<>> => Len(toDev') # 0
    BY <2>2, <2>3
  <2> QED
    BY <2>4
<1>6. dev' # "cmd" /\ Repeats'
  BY <1>5 DEF Repeats, devVars
<1> QED
  BY <1>2, <1>4, <1>6 DEF Keeps

\* It says nothing, or gives up.
LEMMA ClientQuiet ==
    ASSUME SuccessInv, Fine, dev # "cmd", UNCHANGED <<devVars, ring>>,
           UNCHANGED toDev \/ GivesIn,
           host' \notin {"ack", "eotack"}, host # "failed", blk = N + 1 => blk' = N + 1
    PROVE  Keeps'
<1>1. CASE UNCHANGED toDev
  <2>1. <<>> \in Seq(Cells) /\ Starts(<<>>) = {}
    BY EmptySeq DEF Starts
  <2>2. toDev' = toDev \o <<>>
    <3>1. toDev \in Seq(Cells)
      BY Knows DEF Typed
    <3> QED
      BY <1>1, <3>1, ConcatEmptySeq
  <2>3. Calm(<<>>, host', blk')
    BY CalmSays
  <2> QED
    BY <2>1, <2>2, <2>3, ClientCalm
<1>2. CASE GivesIn
  <2>1. Cans \in Seq(Cells) /\ Starts(Cans) = {}
    BY CtlPairs DEF Cans
  <2>2. toDev' = toDev \o Cans /\ host' = "failed" /\ Calm(Cans, host', blk')
    BY <1>2, CalmSays DEF GivesIn
  <2> QED
    BY <2>1, <2>2, ClientCalm
<1> QED
  BY <1>1, <1>2

\* What the command line says is no NAK.
LEMMA NoNak ==
    ASSUME toHost \in Seq({Ctl("text")}), NEW c \in Oldest(toHost)
    PROVE  c.kind = "text" /\ ~Opaque(c) /\ Tail(toHost) \in Seq({Ctl("text")})
<1>1. toHost # <<>> /\ c = Head(toHost)
  BY Arrives
<1>2. c = Ctl("text") /\ Tail(toHost) \in Seq({Ctl("text")})
  BY <1>1, Tails
<1> QED
  BY <1>2 DEF Ctl, Cell, Opaque

LEMMA ReadFirstNakEnds == ASSUME SuccessInv, Fine, ReadFirstNak PROVE Keeps'
<1>1. /\ host = "ux" /\ host' \in {"ux", "start"} /\ UNCHANGED <<blk, toDev, devVars, ring>>
      /\ \E c \in Oldest(toHost) : toHost' = Tail(toHost)
  BY DEF ReadFirstNak, Getc
<1>2. CASE dev = "cmd"
  <2>1. ring = <<>> /\ toDev = <<>> /\ toHost \in Seq({Ctl("text")})
    BY <1>1, <1>2, Knows DEF Fine, Keeps, Returned
  <2>2. toHost' \in Seq({Ctl("text")})
    BY <1>1, <2>1, NoNak
  <2> QED
    BY <1>1, <1>2, <2>1, <2>2 DEF Keeps, Returned, devVars
<1>3. CASE dev # "cmd"
  BY <1>1, <1>3, ClientQuiet
<1> QED
  BY <1>2, <1>3

LEMMA StartEnds == ASSUME SuccessInv, Fine, Start PROVE Keeps'
<1>1. host = "start" /\ UNCHANGED <<blk, devVars, ring>>
  BY DEF Start
<1>2. CASE dev = "cmd"
  <2>1. ring = <<>> /\ toDev = <<>> /\ toHost \in Seq({Ctl("text")})
    BY <1>1, <1>2, Knows DEF Fine, Keeps, Returned
  <2>2. Fail("start") /\ (UNCHANGED toHost \/ \E c \in Oldest(toHost) : toHost' = Tail(toHost))
    BY <2>1, NoNak DEF Start, Getc, GetcTimeout, Reads
  <2>3. toHost' \in Seq({Ctl("text")})
    BY <2>1, <2>2, NoNak
  <2>4. host' = "failed" \/ (host' = "start" /\ UNCHANGED toDev)
    BY <2>2 DEF Fail
  <2> QED
    BY <1>1, <1>2, <2>1, <2>3, <2>4 DEF Keeps, Returned, devVars
<1>3. CASE dev # "cmd"
  <2>1. (host' = "send" /\ UNCHANGED toDev) \/ Fail("start")
    BY DEF Start
  <2>2. host' \in {"send", "start", "failed"} /\ (UNCHANGED toDev \/ GivesIn)
    BY <2>1 DEF Fail, Write, GivesIn, Cans
  <2> QED
    BY <1>1, <1>3, <2>2, ClientQuiet
<1> QED
  BY <1>2, <1>3

LEMMA SendPacketEnds == ASSUME SuccessInv, Fine, SendPacket PROVE Keeps'
<1>1. /\ host = "send" /\ toDev' = toDev \o Packet(blk) /\ UNCHANGED <<blk, devVars, ring>>
      /\ host' = "ack"
  BY DEF SendPacket, Write
<1>2. blk \in 1..N /\ blk # N + 1
  BY <1>1, Knows, Sizes DEF Typed
<1>3. dev # "cmd"
  BY <1>1, Knows DEF Fine, Keeps, Returned
<1>4. /\ Packet(blk) \in Seq(Cells) /\ Len(Packet(blk)) = PktLen /\ Packet(blk) # <<>>
      /\ Calm(Packet(blk), host', blk)
  <2>1. Packet(blk) \in Seq(Cells) /\ Len(Packet(blk)) = PktLen
    BY <1>2, PacketCells
  <2>2. Packet(blk) # <<>>
    BY <2>1, Sizes
  <2> QED
    BY <1>2, <2>1, <2>2, CalmPacket
<1>5. blk' = blk
  BY <1>1
<1> DEFINE w == Packet(blk)
<1>6. w \in Seq(Cells) /\ w # <<>> /\ toDev' = toDev \o w /\ Calm(w, host', blk')
  BY <1>1, <1>4, <1>5
<1> HIDE DEF w
<1> QED
  BY <1>1, <1>2, <1>3, <1>5, <1>6, ClientCalm

LEMMA ReadAckEnds == ASSUME SuccessInv, Fine, ReadAck PROVE Keeps'
<1>1. /\ host = "ack" /\ UNCHANGED <<devVars, ring>>
      /\ \/ UNCHANGED toDev /\ host' \in {"send", "eot"}
         \/ Fail("send")
  BY DEF ReadAck
<1>2. host' \in {"send", "eot", "failed"} /\ (UNCHANGED toDev \/ GivesIn)
  BY <1>1 DEF Fail, Write, GivesIn, Cans
<1>3. dev # "cmd"
  BY <1>1, Knows DEF Fine, Keeps, Returned
<1>4. blk # N + 1
  BY <1>1, Knows, Sizes DEF Typed
<1> QED
  BY <1>1, <1>2, <1>3, <1>4, ClientQuiet

LEMMA SendEotEnds == ASSUME SuccessInv, Fine, SendEot PROVE Keeps'
<1>1. /\ host = "eot" /\ host' = "eotack" /\ UNCHANGED <<blk, devVars, ring>>
      /\ toDev' = toDev \o <<Ctl("EOT")>>
  BY DEF SendEot, Write
<1>2. blk = N + 1
  BY <1>1, Knows
<1>3. CASE dev = "cmd"
  <2>1. Done = N /\ Done' = Done
    BY <1>1, <1>3, Knows DEF Fine, Keeps, Returned, Done, devVars
  <2> QED
    BY <1>1, <1>3, <2>1 DEF Keeps, Returned, devVars
<1>4. CASE dev # "cmd"
  <2> DEFINE w == <<Ctl("EOT")>>
  <2>1. w \in Seq(Cells) /\ Starts(w) = {} /\ Calm(w, host', blk')
    BY <1>1, <1>2, CtlPairs, CalmSays
  <2>2. w # <<>>
    OBVIOUS
  <2>3. toDev' = toDev \o w
    BY <1>1
  <2> HIDE DEF w
  <2> QED
    BY <1>1, <1>2, <1>4, <2>1, <2>2, <2>3, ClientCalm
<1> QED
  BY <1>3, <1>4

LEMMA ReadEotAckEnds == ASSUME SuccessInv, Fine, ReadEotAck PROVE Keeps'
<1>1. /\ host = "eotack" /\ UNCHANGED <<blk, devVars, ring>>
      /\ \/ UNCHANGED toDev /\ host' = "done"
         \/ Fail("eot")
  BY DEF ReadEotAck
<1>2. host' \in {"eot", "done", "failed"} /\ (UNCHANGED toDev \/ GivesIn)
  BY <1>1 DEF Fail, Write, GivesIn, Cans
<1>3. CASE dev = "cmd"
  <2>1. Done = N /\ Done' = Done
    BY <1>1, <1>3, Knows DEF Fine, Keeps, Returned, Done, devVars
  <2> QED
    BY <1>1, <1>2, <1>3, <2>1 DEF Keeps, Returned, devVars
<1>4. CASE dev # "cmd"
  BY <1>1, <1>2, <1>4, ClientQuiet
<1> QED
  BY <1>3, <1>4


-----------------------------------------------------------------------------
(***************************************************************************)
(* What success means.                                                     *)
(***************************************************************************)
LEMMA SuccessInit == ASSUME Init PROVE SuccessInv
<1> DEFINE s == <<Ctl("LF")>>
<1>1. s \in Seq(Cells) /\ Len(s) = 1 /\ s[1].kind = "LF"
  BY CtlCell
<1>2. \A k \in 1..Len(s) : s[k].kind = "LF"
  BY <1>1
<1> HIDE DEF s
<1>3. Stream = s
  <2>1. <<>> \o s = s
    BY <1>1, ConcatEmptySeq
  <2> QED
    BY <2>1 DEF Init, Stream, s
<1>4. Calm(Stream, host, blk)
  BY <1>2, <1>3 DEF Calm
<1>5. /\ dev = "send" /\ host \in {"ux", "start"} /\ toHost \in Seq(HostCells)
      /\ programmed = <<>>
  BY DEF Init
<1>6. Done <= N
  <2>1. Done = 0
    BY <1>5 DEF Done
  <2> QED
    BY <2>1, Sizes
<1> QED
  BY <1>4, <1>5, <1>6, UploadInit DEF SuccessInv, Repeats

LEMMA SuccessNext == ASSUME WaitLimit >= 2, SuccessInv, [Next]_vars PROVE SuccessInv'
<1>1. UploadInv /\ UploadInv' /\ Typed /\ toHost' \in Seq(HostCells)
  BY Knows, UploadNext, HostTyped
<1>2. host' \in {"eot", "eotack", "done"} => blk' = N + 1
  BY <1>1, Knows, AllSent
<1>3. (~overrun' => ~overrun) /\ (~aborted' => ~aborted)
  BY <1>1, Faultless
<1>4. ~overrun' => Done' <= N
  BY <1>1, <1>3, Knows, NoMore
<1>5. ASSUME ~overrun', ~aborted' PROVE Keeps'
  <2>1. Fine
    BY <1>3, <1>5 DEF Fine
  <2>2. CASE UNCHANGED vars
    <3>1. UNCHANGED <<dev, host, blk, tries, programmed, packetbuf, ring, toDev, toHost>>
      BY <2>2 DEF vars, devVars, hostVars
    <3>2. Keeps
      BY <2>1, Knows DEF Fine
    <3> QED
      BY <3>1, <3>2 DEF Keeps, Returned, Repeats, Stream, Done
  <2>3. CASE Device
    BY <2>1, <2>3, SendAckEnds, WaitCharTimeoutEnds, StartPacketEnds, EndEnds, IgnoreByteEnds,
       ReceiveDataEnds, ProcessPacketEnds, EchoEnds DEF Device
  <2>4. CASE Client
    BY <2>1, <2>4, ReadFirstNakEnds, StartEnds, SendPacketEnds, ReadAckEnds, SendEotEnds,
       ReadEotAckEnds DEF Client
  <2>5. CASE Arrive
    BY <1>5, <2>1, <2>5, ArriveEnds
  <2>6. ~SendAbort
    <3>1. ASSUME aborted' = TRUE PROVE FALSE
      BY <1>5, <3>1, Zenon
    <3> QED
      BY <3>1 DEF SendAbort
  <2> QED
    BY <2>2, <2>3, <2>4, <2>5, <2>6 DEF Next
<1> QED
  BY <1>1, <1>2, <1>4, <1>5 DEF SuccessInv, Keeps

\* When a sender has reported success, without Cancel and without an overrun,
\* every block of the file is programmed, or the firmware has not yet left
\* uploadXmodem, the missing blocks are among what it has still to read, and
\* nothing before them ends it.
NothingMissing ==
    host = "done" /\ Fine =>
        Done = N \/ (dev # "cmd" /\ Covers(Stream, Done, N, Len(Stream)) /\ Calm(Stream, host, blk))

\* A sender that reports success has left nothing out: the file is programmed
\* when uploadXmodem returns, and until then what is missing is on its way.
\* SuccessIsProgrammed says that it also arrives, which needs the fairness.
THEOREM SuccessMissesNothing == ASSUME WaitLimit >= 2 PROVE Spec => []NothingMissing
<1>1. ASSUME SuccessInv PROVE NothingMissing
  <2> SUFFICES ASSUME host = "done", Fine
               PROVE  \/ Done = N
                      \/ dev # "cmd" /\ Covers(Stream, Done, N, Len(Stream)) /\ Calm(Stream, host, blk)
    BY DEF NothingMissing
  <2>1. CASE dev = "cmd"
    BY <1>1, <2>1, Knows DEF Fine, Keeps, Returned
  <2>2. CASE dev # "cmd"
    <3>1. /\ Covers(Stream, Done, LastSent, Len(Stream)) /\ blk = N + 1
          /\ Calm(Stream, host, blk)
      BY <1>1, <2>2, Knows DEF Fine, Underway, Keeps
    <3>2. LastSent = N
      BY <3>1, Sizes DEF LastSent
    <3> QED
      BY <2>2, <3>1, <3>2
  <2> QED
    BY <2>1, <2>2
<1>2. SuccessInv /\ [Next]_vars => SuccessInv'
  BY SuccessNext
<1> QED
  BY <1>1, <1>2, SuccessInit, PTL DEF Spec
=============================================================================
