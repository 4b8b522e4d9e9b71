------------------------- MODULE WorkerProcessProofs -------------------------
(***************************************************************************)
(* Messages between a Worker and its process arrive in order, each once,   *)
(* and none that a child posted before it completed is missing when the    *)
(* exit is told; a child that completed cleanly is no error.  For any      *)
(* number of messages, any socket and any queue that holds a frame.        *)
(*                                                                         *)
(* The argument follows a flow: all that is on its way from one side, its  *)
(* channel's queue, the wire and what the other end has read.  Reading and *)
(* writing move pieces inside it; sending adds a frame at its end, taking  *)
(* one removes the first, and closing an end cuts it.                      *)
(***************************************************************************)
EXTENDS WorkerProcess, FiniteSetTheorems, SequenceTheorems, TLAPS

\* The first frame of either side.
Openers == {"initialize", "online"}

\* What a side sends.
Kinds(s) ==
  IF s = "parent" THEN {"initialize", "message"} ELSE {"online", "message", "closed", "failure"}
Pieces == {"initialize", "online", "message", "closed", "failure"} \X Nat \X {1, 2}

\* All that is on its way from s, the next to arrive first.
Flow(l, s) == (l.end[Other(s)].incoming \o l.wire[s]) \o l.end[s].out

\* The piece b may follow a: frames are whole, messages are numbered one after
\* the other, and nothing else comes between them.
Follows(a, b) ==
  IF a[3] = 1 THEN b = <<a[1], a[2], 2>>
  ELSE /\ b[3] = 1 /\ b[1] \notin Openers
       /\ b[1] = "message" => \/ a[1] = "message" /\ b[2] = a[2] + 1
                              \/ a[1] \in Openers /\ b[2] = 1

\* A flow F of which base messages have arrived before, after the first frame
\* if begun.
Ordered(F, base, begun) ==
  /\ \A i \in 1..(Len(F) - 1) : Follows(F[i], F[i + 1])
  /\ F # <<>> =>
       /\ F[1][3] = 1
       /\ F[1][1] \in Openers => ~begun /\ base = 0
       /\ F[1][1] \notin Openers => begun
       /\ F[1][1] = "message" => F[1][2] = base + 1

\* It comes from s, and no message is numbered above n.
Below(F, s, n) ==
  \A i \in 1..Len(F) : F[i][1] \in Kinds(s) /\ (F[i][1] = "message" => F[i][2] <= n)

\* With what has arrived, it is all of the n messages that were posted.
Whole(F, base, n) ==
  /\ n > base => \E i \in 1..Len(F) : F[i] = <<"message", n, 2>>
  /\ F # <<>> => /\ F[Len(F)][3] = 2
                 /\ F[Len(F)][1] = "message" => F[Len(F)][2] = n
                 /\ F[Len(F)][1] \in Openers => n = 0

\* G is F without some of its end, and without its first frame.
Cut(F, G) == Len(G) <= Len(F) /\ \A i \in 1..Len(G) : G[i] = F[i]
Dropped(F, G) == Len(F) = Len(G) + 2 /\ \A i \in 1..Len(G) : G[i] = F[i + 2]
-----------------------------------------------------------------------------
(***************************************************************************)
(* Sequences of pieces.                                                    *)
(***************************************************************************)

\* The first k elements of b move to the end of a.
Move(a, b, k, P) ==
  /\ a \o SubSeq(b, 1, k) \in Seq(P) /\ Len(a \o SubSeq(b, 1, k)) = Len(a) + k
  /\ SubSeq(b, k + 1, Len(b)) \in Seq(P) /\ Len(SubSeq(b, k + 1, Len(b))) = Len(b) - k
  /\ (a \o SubSeq(b, 1, k)) \o SubSeq(b, k + 1, Len(b)) = a \o b

\* Moving k elements from one queue to the next keeps all of them, in order.
LEMMA Moved ==
  ASSUME NEW P, NEW a \in Seq(P), NEW b \in Seq(P), NEW k \in 0..Len(b)
  PROVE  Move(a, b, k, P)
<1> DEFINE c == SubSeq(b, 1, k)
           d == SubSeq(b, k + 1, Len(b))
<1>1. /\ Len(b) \in Nat /\ k \in Int /\ k + 1 \in Int /\ 1 \in 1..Len(b) + 1
      /\ k \in 1 - 1..Len(b) /\ Len(b) \in k..Len(b)
  OBVIOUS
<1>2. \A i \in 1..Len(b) : b[i] \in P
  OBVIOUS
<1>3. c \in Seq(P) /\ d \in Seq(P) /\ Len(c) = k /\ Len(d) = Len(b) - k
  <2>1. \A i \in 1..k : b[i] \in P
    BY <1>1, <1>2
  <2>2. \A i \in (k + 1)..Len(b) : b[i] \in P
    BY <1>1, <1>2
  <2> QED
    BY <1>1, <2>1, <2>2, SubSeqProperties
<1>4. c \o d = SubSeq(b, 1, Len(b))
  BY <1>1, ConcatAdjacentSubSeq
<1>5. SubSeq(b, 1, Len(b)) = b
  BY SubSeqFull
<1> HIDE DEF c, d
<1>6. (a \o c) \o d = a \o (c \o d)
  <2>1. a \in Seq(P) /\ c \in Seq(P) /\ d \in Seq(P)
    BY <1>3
  <2> QED
    BY ONLY <2>1
<1>7. (a \o c) \o d = a \o b
  BY <1>4, <1>5, <1>6
<1>8. a \o c \in Seq(P) /\ Len(a \o c) = Len(a) + k
  BY <1>3, ConcatProperties
<1> QED
  BY <1>3, <1>7, <1>8 DEF c, d, Move

\* Concatenation, element by element.
Joins(a, b, c, P) ==
  /\ c \in Seq(P) /\ Len(c) = Len(a) + Len(b) /\ Len(a) \in Nat /\ Len(b) \in Nat
  /\ \A i \in 1..Len(a) : c[i] = a[i]
  /\ \A i \in 1..Len(b) : c[Len(a) + i] = b[i]

\* The elements of two sequences, joined.
LEMMA Joined ==
  ASSUME NEW P, NEW a \in Seq(P), NEW b \in Seq(P)
  PROVE  Joins(a, b, a \o b, P)
<1> DEFINE c == a \o b
<1>1. /\ c \in Seq(P) /\ Len(c) = Len(a) + Len(b) /\ Len(a) \in Nat /\ Len(b) \in Nat
      /\ \A i \in 1..Len(a) : c[i] = a[i]
      /\ \A i \in (Len(a) + 1)..Len(c) : c[i] = b[i - Len(a)]
  BY ConcatProperties
<1> HIDE DEF c
<1>2. \A i \in 1..Len(b) : Len(a) + i \in (Len(a) + 1)..Len(c) /\ (Len(a) + i) - Len(a) = i
  BY <1>1
<1> QED
  BY <1>1, <1>2 DEF Joins, c

\* A cut flow stays in order.
LEMMA CutKeeps ==
  ASSUME NEW P, NEW F \in Seq(P), NEW G \in Seq(P), Cut(F, G),
         NEW base, NEW begun, NEW s, NEW n, Ordered(F, base, begun), Below(F, s, n)
  PROVE  Ordered(G, base, begun) /\ Below(G, s, n)
<1>1. Len(F) \in Nat /\ Len(G) \in Nat /\ Len(G) <= Len(F)
  BY DEF Cut
<1>2. \A i \in 1..(Len(G) - 1) : i \in 1..(Len(F) - 1) /\ i \in 1..Len(G) /\ i + 1 \in 1..Len(G)
  BY <1>1
<1>3. \A i \in 1..Len(G) : i \in 1..Len(F)
  BY <1>1
<1>4. G # <<>> => F # <<>> /\ 1 \in 1..Len(G)
  BY <1>1
<1> QED
  BY <1>2, <1>3, <1>4 DEF Cut, Ordered, Below

\* The two pieces of a frame follow a flow.
Sent(F, G, kind, value) ==
  /\ Len(G) = Len(F) + 2 /\ \A i \in 1..Len(F) : G[i] = F[i]
  /\ G[Len(F) + 1] = <<kind, value, 1>> /\ G[Len(F) + 2] = <<kind, value, 2>>

\* The two pieces of a frame, put at the end of a flow, are a frame sent.
LEMMA Framed ==
  ASSUME NEW s, NEW F \in Seq(Pieces), NEW kind \in Kinds(s), NEW value \in Nat
  PROVE  /\ pieces(kind, value) \in Seq(Pieces) /\ Len(pieces(kind, value)) = 2
         /\ F \o pieces(kind, value) \in Seq(Pieces)
         /\ Sent(F, F \o pieces(kind, value), kind, value)
<1> DEFINE p == pieces(kind, value)
<1>1. /\ p \in Seq(Pieces) /\ Len(p) = 2 /\ p[1] = <<kind, value, 1>>
      /\ p[2] = <<kind, value, 2>>
  BY DEF pieces, Pieces, Kinds
<1> HIDE DEF p
<1>2. Joins(F, p, F \o p, Pieces)
  BY <1>1, Joined
<1>3. 1 \in 1..Len(p) /\ 2 \in 1..Len(p)
  BY <1>1
<1> QED
  BY <1>1, <1>2, <1>3 DEF Joins, Sent, p

\* A frame that is sent: a message is numbered next and follows messages or the
\* first frame, which is sent once.
LEMMA SentKeeps ==
  ASSUME NEW s, NEW F \in Seq(Pieces), NEW G \in Seq(Pieces), NEW kind \in Kinds(s),
         NEW value \in Nat, Sent(F, G, kind, value),
         NEW base \in Nat, NEW begun \in BOOLEAN, NEW n \in Nat, NEW m \in Nat,
         Ordered(F, base, begun), Below(F, s, n), Whole(F, base, n), base <= n,
         kind = "message" => /\ value = n + 1 /\ m = n + 1 /\ (F = <<>> => begun)
                             /\ \A i \in 1..Len(F) : F[i][1] \in {"message"} \cup Openers,
         kind # "message" => m = n,
         kind \in Openers => F = <<>> /\ ~begun /\ n = 0,
         kind \notin Openers => begun \/ F # <<>>
  PROVE  Ordered(G, base, begun) /\ Below(G, s, m) /\ Whole(G, base, m)
<1> DEFINE k == Len(F)
<1>0. k \in Nat /\ (F = <<>> <=> k = 0)
  BY EmptySeq
<1>1. /\ Len(G) = k + 2 /\ (\A i \in 1..k : G[i] = F[i])
      /\ G[k + 1] = <<kind, value, 1>> /\ G[k + 2] = <<kind, value, 2>>
  BY DEF Sent
<1>1a. /\ G[k + 1][1] = kind /\ G[k + 1][2] = value /\ G[k + 1][3] = 1
       /\ G[k + 2][1] = kind /\ G[k + 2][2] = value /\ G[k + 2][3] = 2
  BY <1>1
<1>2. \A i \in 1..Len(G) : i \in 1..k \/ i = k + 1 \/ i = k + 2
  BY <1>0, <1>1
<1>2a. \A i \in 1..k : F[i][2] \in Nat
  BY DEF Pieces
<1>3. Below(G, s, m)
  <2>1. n <= m /\ (kind = "message" => value <= m)
    OBVIOUS
  <2>2. \A i \in 1..k : G[i][1] \in Kinds(s) /\ (G[i][1] = "message" => G[i][2] <= m)
    BY <1>1, <1>2a, <2>1 DEF Below
  <2> QED
    BY <1>1a, <1>2, <2>1, <2>2 DEF Below
<1>4. \A i \in 1..(Len(G) - 1) : Follows(G[i], G[i + 1])
  <2> TAKE i \in 1..(Len(G) - 1)
  <2>1. CASE i \in 1..(k - 1)
    <3>1. i \in 1..k /\ i + 1 \in 1..k
      BY <1>0, <2>1
    <3> QED
      BY <1>1, <2>1, <3>1 DEF Ordered
  <2>2. CASE i = k /\ k > 0
    <3>1. k \in 1..k /\ F # <<>>
      BY <1>0, <2>2
    <3>2. G[k] = F[k] /\ F[k][3] = 2 /\ kind \notin Openers
      BY <1>1, <3>1 DEF Whole
    <3>3. kind = "message" => \/ F[k][1] = "message" /\ value = F[k][2] + 1
                              \/ F[k][1] \in Openers /\ value = 1
      BY <3>1 DEF Whole
    <3> QED
      BY <1>1, <1>1a, <2>2, <3>2, <3>3 DEF Follows
  <2>3. CASE i = k + 1
    BY <1>0, <1>1, <1>1a, <2>3 DEF Follows
  <2> QED
    BY <1>0, <1>1, <2>1, <2>2, <2>3
<1>5. /\ G # <<>> /\ G[1][3] = 1
      /\ G[1][1] \in Openers => ~begun /\ base = 0
      /\ G[1][1] \notin Openers => begun
      /\ G[1][1] = "message" => G[1][2] = base + 1
  <2>1. CASE k = 0
    <3>1. ~(n > base)
      BY <1>0, <2>1 DEF Whole
    <3>2. n = base /\ k + 1 = 1 /\ F = <<>>
      BY <1>0, <2>1, <3>1
    <3>3. G[1][1] = kind /\ G[1][2] = value /\ G[1][3] = 1
      BY <1>1a, <3>2
    <3>4. G # <<>>
      BY <1>0, <1>1
    <3> QED
      BY <3>2, <3>3, <3>4
  <2>2. CASE k > 0
    <3>1. 1 \in 1..k /\ F # <<>>
      BY <1>0, <2>2
    <3> QED
      BY <1>0, <1>1, <3>1 DEF Ordered
  <2> QED
    BY <1>0, <2>1, <2>2
<1>6. Whole(G, base, m)
  <2>1. /\ G[Len(G)][3] = 2 /\ (G[Len(G)][1] = "message" => G[Len(G)][2] = m)
        /\ (G[Len(G)][1] \in Openers => m = 0)
    BY <1>1, <1>1a DEF Openers
  <2>2. m > base => \E i \in 1..Len(G) : G[i] = <<"message", m, 2>>
    <3>1. CASE kind = "message"
      <4>1. k + 2 \in 1..Len(G)
        BY <1>0, <1>1
      <4> QED
        BY <1>1, <3>1, <4>1
    <3>2. CASE kind # "message"
      <4>1. \A i \in 1..k : i \in 1..Len(G)
        BY <1>0, <1>1
      <4> QED
        BY <1>1, <3>2, <4>1 DEF Whole
    <3> QED
      BY <3>1, <3>2
  <2> QED
    BY <2>1, <2>2 DEF Whole
<1> QED
  BY <1>3, <1>4, <1>5, <1>6 DEF Ordered

\* The first frame arrives: the next one, if it is a message.
Arrives(F, G, s, base, begun, n) ==
  /\ F[1][1] \in Kinds(s) /\ F[1][2] \in Nat
  /\ F[1][1] \in Openers => ~begun
  /\ F[1][1] \notin Openers => begun
  /\ F[1][1] = "message" => F[1][2] = base + 1 /\ base + 1 <= n
  /\ \E b \in Nat : /\ b = IF F[1][1] = "message" THEN base + 1 ELSE base
                    /\ Ordered(G, b, TRUE) /\ Below(G, s, n)
                    /\ Whole(F, base, n) => Whole(G, b, n)

\* A flow in order stays so when its first frame is taken from it.
LEMMA DroppedKeeps ==
  ASSUME NEW s, NEW F \in Seq(Pieces), NEW G \in Seq(Pieces), Dropped(F, G),
         NEW base \in Nat, NEW begun \in BOOLEAN, NEW n \in Nat,
         Ordered(F, base, begun), Below(F, s, n)
  PROVE  Arrives(F, G, s, base, begun, n)
<1> DEFINE b == IF F[1][1] = "message" THEN base + 1 ELSE base
<1>1. /\ Len(F) \in Nat /\ Len(G) \in Nat /\ Len(F) = Len(G) + 2
      /\ \A i \in 1..Len(G) : G[i] = F[i + 2]
  BY DEF Dropped
<1>2. 1 \in 1..Len(F) /\ 2 \in 1..Len(F) /\ 1 \in 1..(Len(F) - 1) /\ F # <<>> /\ 1 + 1 = 2
  BY <1>1
<1>3. F[1] \in Pieces
  BY <1>2
<1>4. F[1][1] \in Kinds(s) /\ F[1][2] \in Nat
  BY <1>2, <1>3 DEF Pieces, Below
<1>5. /\ F[1][3] = 1 /\ (F[1][1] \in Openers => ~begun /\ base = 0)
      /\ (F[1][1] \notin Openers => begun) /\ (F[1][1] = "message" => F[1][2] = base + 1)
      /\ Follows(F[1], F[2])
  BY <1>2 DEF Ordered
<1>6. F[2] = <<F[1][1], F[1][2], 2>>
  BY <1>5 DEF Follows
<1>6a. F[2][1] = F[1][1] /\ F[2][2] = F[1][2] /\ F[2][3] = 2
  BY <1>6
<1>7. F[1][1] = "message" => base + 1 <= n
  BY <1>2, <1>5 DEF Below
<1>8. b \in Nat
  OBVIOUS
<1>9. Below(G, s, n)
  <2>1. \A i \in 1..Len(G) : i + 2 \in 1..Len(F)
    BY <1>1
  <2> QED
    BY <1>1, <2>1 DEF Below
<1>10. Ordered(G, b, TRUE)
  <2>1. \A i \in 1..(Len(G) - 1) : Follows(G[i], G[i + 1])
    <3> TAKE i \in 1..(Len(G) - 1)
    <3>1. /\ i \in 1..Len(G) /\ i + 1 \in 1..Len(G) /\ i + 2 \in 1..(Len(F) - 1)
          /\ (i + 1) + 2 = (i + 2) + 1
      BY <1>1
    <3> QED
      BY <1>1, <3>1 DEF Ordered
  <2>2. ASSUME G # <<>>
        PROVE  /\ G[1][3] = 1 /\ G[1][1] \notin Openers
               /\ G[1][1] = "message" => G[1][2] = b + 1
    <3>1. Len(G) # 0
      BY <2>2, EmptySeq
    <3>2. 1 \in 1..Len(G) /\ 2 \in 1..(Len(F) - 1) /\ 1 + 2 = 3 /\ 2 + 1 = 3
      BY <1>1, <3>1
    <3>3. G[1] = F[3] /\ Follows(F[2], F[3])
      BY <1>1, <3>2 DEF Ordered
    <3>4. /\ F[3][3] = 1 /\ F[3][1] \notin Openers
          /\ F[3][1] = "message" => \/ F[2][1] = "message" /\ F[3][2] = F[2][2] + 1
                                    \/ F[2][1] \in Openers /\ F[3][2] = 1
      BY <1>6a, <3>3 DEF Follows
    <3> QED
      BY <1>5, <1>6a, <3>3, <3>4 DEF Openers
  <2> QED
    BY <2>1, <2>2 DEF Ordered
<1>11. ASSUME Whole(F, base, n) PROVE Whole(G, b, n)
  <2>1. ASSUME n > b PROVE \E i \in 1..Len(G) : G[i] = <<"message", n, 2>>
    <3>1. n > base
      BY <2>1
    <3>2. PICK i \in 1..Len(F) : F[i] = <<"message", n, 2>>
      BY <1>11, <3>1 DEF Whole
    <3>3. F[i][1] = "message" /\ F[i][2] = n
      BY <3>2
    <3>4. i # 1 /\ i # 2
      BY <1>5, <1>6a, <2>1, <3>3
    <3>5. i - 2 \in 1..Len(G) /\ (i - 2) + 2 = i
      BY <1>1, <3>4
    <3> QED
      BY <1>1, <3>2, <3>5
  <2>2. ASSUME G # <<>>
        PROVE  /\ G[Len(G)][3] = 2
               /\ G[Len(G)][1] = "message" => G[Len(G)][2] = n
               /\ G[Len(G)][1] \in Openers => n = 0
    <3>1. Len(G) # 0
      BY <2>2, EmptySeq
    <3>2. Len(G) \in 1..Len(G)
      BY <1>1, <3>1
    <3>3. G[Len(G)] = F[Len(F)]
      BY <1>1, <3>2
    <3> QED
      BY <1>2, <1>11, <3>3 DEF Whole
  <2> QED
    BY <2>1, <2>2 DEF Whole
<1> HIDE DEF b
<1>12. \E c \in Nat : /\ c = b /\ Ordered(G, c, TRUE) /\ Below(G, s, n)
                      /\ Whole(F, base, n) => Whole(G, c, n)
  BY <1>8, <1>9, <1>10, <1>11
<1> QED
  BY <1>4, <1>5, <1>7, <1>12 DEF b, Arrives
-----------------------------------------------------------------------------
(***************************************************************************)
(* The link.                                                               *)
(***************************************************************************)
Channels ==
  [descriptor : BOOLEAN, failure : BOOLEAN, write_failure : BOOLEAN, eof : BOOLEAN,
   out : Seq(Pieces), incoming : Seq(Pieces)]
Links ==
  [end : [Sides -> Channels], wire : [Sides -> Seq(Pieces)], reset : [Sides -> BOOLEAN]]

Open(l, s) == l.end[s].descriptor

\* The end of s: what it holds is bounded, it fails only after its peer has
\* closed, by then all that was sent has been read, a frame cut in two is a
\* failure, and nothing is kept for an end that is closed.
Half(l, s) ==
  /\ Len(l.end[s].out) <= QueueLimit /\ Len(l.end[s].incoming) <= 2
  /\ Len(l.wire[s]) <= WireLimit
  /\ (l.reset[s] \/ l.end[s].eof \/ l.end[s].failure \/ l.end[s].write_failure) => ~Open(l, Other(s))
  /\ ~Open(l, s) => /\ l.end[s].out = <<>> /\ l.end[s].incoming = <<>>
                    /\ l.wire[Other(s)] = <<>>
  /\ (l.end[s].eof \/ l.end[s].failure) => /\ l.wire[Other(s)] = <<>>
                                           /\ Len(l.end[s].incoming) < 2
  /\ (l.end[s].eof /\ ~l.end[s].failure) => l.end[s].incoming = <<>>
Sound(l) == l \in Links /\ \A s \in Sides : Half(l, s)

\* What progress on the end of s does to the link: all that is on its way stays
\* on its way, unless nobody is there to read it, and the end fails only on a
\* reset or in the middle of a frame.
Moves(l, m, s) ==
  /\ Sound(m)
  /\ m.end[Other(s)] = l.end[Other(s)] /\ m.reset[Other(s)] = l.reset[Other(s)]
  /\ Open(m, s) = Open(l, s)
  /\ Flow(m, Other(s)) = Flow(l, Other(s))
  /\ Open(l, Other(s)) => Flow(m, s) = Flow(l, s)
  /\ m.reset[s] => l.reset[s]
  /\ m.end[s].failure => l.end[s].failure \/ l.reset[s] \/ Len(Flow(l, Other(s))) = 1

\* There are two sides, each the other of the other.
LEMMA TwoSides ==
  ASSUME NEW s \in Sides
  PROVE  /\ Other(s) \in Sides /\ Other(s) # s /\ Other(Other(s)) = s
         /\ \A x \in Sides : x = s \/ x = Other(s)
BY DEF Sides, Other

\* The parts of a link.
LinkParts(l, s) ==
  /\ l.end[s] \in Channels /\ l.end[s].out \in Seq(Pieces) /\ l.end[s].incoming \in Seq(Pieces)
  /\ l.wire[s] \in Seq(Pieces) /\ l.reset[s] \in BOOLEAN /\ Open(l, s) \in BOOLEAN
  /\ Len(l.end[s].out) \in Nat /\ Len(l.end[s].incoming) \in Nat /\ Len(l.wire[s]) \in Nat

\* What a link is made of.
LEMMA Parts ==
  ASSUME NEW l \in Links, NEW s \in Sides
  PROVE  LinkParts(l, s)
<1>1. /\ l.end[s] \in Channels /\ l.wire[s] \in Seq(Pieces) /\ l.reset[s] \in BOOLEAN
  BY DEF Links
<1>2. /\ l.end[s].out \in Seq(Pieces) /\ l.end[s].incoming \in Seq(Pieces)
      /\ Open(l, s) \in BOOLEAN
  BY <1>1 DEF Channels, Open
<1> QED
  BY <1>1, <1>2 DEF LinkParts

\* Two turns of progress are one.
LEMMA MovesOn ==
  ASSUME NEW s \in Sides, NEW l, NEW m, NEW k, Moves(l, m, s), Moves(m, k, s)
  PROVE  Moves(l, k, s)
BY DEF Moves, Open

\* No progress is progress too.
LEMMA Stays ==
  ASSUME NEW s \in Sides, NEW l, Sound(l)
  PROVE  Moves(l, l, s)
BY DEF Moves

\* The end of s has read k pieces.
Reads(l, m, s, k) ==
  /\ k = Smaller(2 - Len(l.end[s].incoming), Len(l.wire[Other(s)]))
  /\ m.end[Other(s)] = l.end[Other(s)] /\ m.reset[Other(s)] = l.reset[Other(s)]
  /\ m.wire[s] = l.wire[s] /\ m.end[s].out = l.end[s].out /\ Open(m, s) = Open(l, s)
  /\ m.end[s].write_failure = l.end[s].write_failure
  /\ m.end[s].incoming = l.end[s].incoming \o SubSeq(l.wire[Other(s)], 1, k)
  /\ m.wire[Other(s)] = SubSeq(l.wire[Other(s)], k + 1, Len(l.wire[Other(s)]))
  /\ m.reset[s] => l.reset[s]
  /\ m.end[s].eof => l.end[s].eof \/ (~Open(l, Other(s)) /\ Len(m.end[s].incoming) < 2)
  /\ m.end[s].failure => \/ l.end[s].failure
                         \/ /\ ~Open(l, Other(s)) /\ Len(m.end[s].incoming) < 2
                            /\ l.reset[s] \/ Len(m.end[s].incoming) = 1
  /\ (m.end[s].eof /\ ~m.end[s].failure /\ m.end[s].incoming # <<>>) =>
       l.end[s].eof /\ ~l.end[s].failure

\* How many pieces are read, and written.
LEMMA ReadCount ==
  ASSUME NEW i \in Nat, i <= 2, NEW a \in Nat, NEW k, k = Smaller(2 - i, a)
  PROVE  k \in Nat /\ k <= a /\ i + k <= 2 /\ (i + k < 2 => k = a)
BY DEF Smaller

\* No more is written than waits, nor than the socket takes.
LEMMA WriteCount ==
  ASSUME NEW o \in Nat, NEW w \in Nat, w <= WireLimit, NEW k, k = Smaller(o, WireLimit - w)
  PROVE  k \in 0..o /\ w + k <= WireLimit
BY BoundsAssumption DEF Smaller

\* Reading up to one frame loses nothing of what is on its way.
LEMMA ReadsMove ==
  ASSUME NEW s \in Sides, NEW l, Sound(l), NEW m \in Links, NEW k, Reads(l, m, s, k)
  PROVE  Moves(l, m, s)
<1> DEFINE a == l.end[s].incoming
           b == l.wire[Other(s)]
           c == a \o SubSeq(b, 1, k)
           d == SubSeq(b, k + 1, Len(b))
<1>1. /\ Other(s) \in Sides /\ Other(s) # s /\ Other(Other(s)) = s
      /\ \A x \in Sides : x = s \/ x = Other(s)
  BY TwoSides
<1>2. l \in Links /\ Half(l, s) /\ Half(l, Other(s))
  BY <1>1 DEF Sound
<1>3. LinkParts(l, s) /\ LinkParts(l, Other(s)) /\ LinkParts(m, s) /\ LinkParts(m, Other(s))
  BY <1>1, <1>2, Parts
<1>4. a \in Seq(Pieces) /\ b \in Seq(Pieces) /\ Len(a) \in Nat /\ Len(b) \in Nat /\ Len(a) <= 2
  BY <1>2, <1>3 DEF LinkParts, Half
<1>5. k \in 0..Len(b) /\ Len(a) + k <= 2 /\ (Len(a) + k < 2 => k = Len(b))
  <2>1. k = Smaller(2 - Len(a), Len(b))
    BY DEF Reads
  <2> HIDE DEF a, b
  <2> QED
    BY ONLY <1>4, <2>1 DEF Smaller
<1>6. Move(a, b, k, Pieces)
  BY <1>4, <1>5, Moved
<1>7. Len(c) = Len(a) + k /\ Len(d) = Len(b) - k /\ c \o d = a \o b /\ d \in Seq(Pieces)
  BY <1>6 DEF Move
<1>8. m.end[s].incoming = c /\ m.wire[Other(s)] = d
  BY DEF Reads
<1> HIDE DEF c, d
<1>9. Len(c) <= 2 /\ Len(d) <= Len(b) /\ (Len(c) < 2 => d = <<>>) /\ (b = <<>> => d = <<>> /\ Len(c) = Len(a))
  <2> HIDE DEF a, b
  <2>1. Len(c) <= 2 /\ Len(d) <= Len(b) /\ (Len(c) < 2 => Len(d) = 0)
    BY ONLY <1>4, <1>5, <1>7
  <2>2. b = <<>> => Len(b) = 0
    BY ONLY <1>4
  <2>3. b = <<>> => Len(d) = 0 /\ Len(c) = Len(a)
    BY ONLY <1>4, <1>5, <1>7, <2>2
  <2>4. Len(d) = 0 => d = <<>>
    BY ONLY <1>7, EmptySeq
  <2> QED
    BY ONLY <2>1, <2>3, <2>4
<1>10. Flow(m, Other(s)) = Flow(l, Other(s)) /\ Flow(m, s) = Flow(l, s)
  BY <1>1, <1>7, <1>8 DEF Flow, Reads
<1>11. Half(m, s)
  <2>1. /\ Len(m.end[s].out) <= QueueLimit /\ Len(m.end[s].incoming) <= 2
        /\ Len(m.wire[s]) <= WireLimit
    BY <1>2, <1>8, <1>9 DEF Half, Reads
  <2>2. (m.reset[s] \/ m.end[s].eof \/ m.end[s].failure \/ m.end[s].write_failure) => ~Open(m, Other(s))
    BY <1>2 DEF Half, Open, Reads
  <2>3. ~Open(m, s) => /\ m.end[s].out = <<>> /\ m.end[s].incoming = <<>>
                       /\ m.wire[Other(s)] = <<>>
    <3> SUFFICES ASSUME ~Open(m, s)
                 PROVE  /\ m.end[s].out = <<>> /\ m.end[s].incoming = <<>>
                        /\ m.wire[Other(s)] = <<>>
      OBVIOUS
    <3>1. l.end[s].out = <<>> /\ a = <<>> /\ b = <<>> /\ m.end[s].out = l.end[s].out
      BY <1>2 DEF Half, Reads
    <3>2. d = <<>> /\ Len(c) = 0
      BY <1>9, <3>1
    <3>3. c \in Seq(Pieces)
      BY <1>3, <1>8 DEF LinkParts
    <3> QED
      BY <1>8, <3>1, <3>2, <3>3, EmptySeq
  <2>4. (m.end[s].eof \/ m.end[s].failure) => /\ m.wire[Other(s)] = <<>>
                                              /\ Len(m.end[s].incoming) < 2
    <3>1. CASE l.end[s].eof \/ l.end[s].failure
      <4>1. b = <<>> /\ Len(a) < 2
        BY <1>2, <3>1 DEF Half
      <4> QED
        BY <1>8, <1>9, <4>1
    <3>2. CASE ~(l.end[s].eof \/ l.end[s].failure)
      BY <1>8, <1>9, <3>2 DEF Reads
    <3> QED
      BY <3>1, <3>2
  <2>5. ASSUME m.end[s].eof, ~m.end[s].failure
        PROVE  m.end[s].incoming = <<>>
    <3>1. CASE l.end[s].eof /\ ~l.end[s].failure
      <4>1. a = <<>> /\ b = <<>>
        BY <1>2, <3>1 DEF Half
      <4>2. Len(c) = 0
        BY <1>9, <4>1
      <4>3. c \in Seq(Pieces)
        BY <1>3, <1>8 DEF LinkParts
      <4> QED
        BY <1>8, <4>2, <4>3, EmptySeq
    <3> QED
      BY <2>5, <3>1 DEF Reads
  <2> QED
    BY <2>1, <2>2, <2>3, <2>4, <2>5 DEF Half
<1>12. Half(m, Other(s))
  <2>1. Len(d) <= WireLimit
    <3>1. Len(b) <= WireLimit
      BY <1>2 DEF Half
    <3> HIDE DEF a, b
    <3> QED
      BY ONLY <1>4, <1>5, <1>7, <3>1, BoundsAssumption
  <2> QED
    BY <1>1, <1>2, <1>8, <2>1 DEF Half, Open, Reads
<1>13. ASSUME m.end[s].failure, ~l.end[s].failure, ~l.reset[s]
       PROVE  Len(Flow(l, Other(s))) = 1
  <2>1. ~Open(l, Other(s)) /\ Len(c) = 1
    BY <1>8, <1>13 DEF Reads
  <2>2. l.end[Other(s)].out = <<>> /\ d = <<>>
    BY <1>2, <1>9, <2>1 DEF Half
  <2>3. c \in Seq(Pieces)
    BY <1>3, <1>8 DEF LinkParts
  <2>4. Flow(m, Other(s)) = (c \o <<>>) \o <<>>
    BY <1>1, <1>8, <2>2 DEF Flow, Reads
  <2> QED
    BY <1>10, <2>1, <2>3, <2>4
<1> QED
  BY <1>1, <1>10, <1>11, <1>12, <1>13 DEF Moves, Sound, Reads

\* read_pending: reads, and then meets a reset or the end of the stream.
LEMMA ReadPendingMoves ==
  ASSUME NEW s \in Sides, NEW l, Sound(l)
  PROVE  Moves(l, read_pending(l, s), s)
<1>0. PICK held, arriving : held = l.end[s].incoming /\ arriving = l.wire[Other(s)]
  OBVIOUS
<1>0a. PICK k : k = Smaller(2 - Len(held), Len(arriving))
  OBVIOUS
<1>0b. PICK incoming, rest : /\ incoming = held \o SubSeq(arriving, 1, k)
                             /\ rest = SubSeq(arriving, k + 1, Len(arriving))
  OBVIOUS
<1>0c. PICK read : read = [l EXCEPT !.end[s].incoming = incoming, !.wire[Other(s)] = rest]
  OBVIOUS
<1>0d. PICK m : m = read_pending(l, s)
  OBVIOUS
<1>0e. m = IF l.end[s].eof \/ complete(l.end[s]) \/ Len(incoming) = 2 THEN read
           ELSE IF l.reset[s]
           THEN [read EXCEPT !.end[s].failure = TRUE, !.reset[s] = FALSE]
           ELSE IF l.end[Other(s)].descriptor THEN read
           ELSE [read EXCEPT !.end[s].eof = TRUE, !.end[s].failure = incoming # <<>>]
  BY <1>0, <1>0a, <1>0b, <1>0c, <1>0d DEF read_pending
<1>1. /\ Other(s) \in Sides /\ Other(s) # s /\ Other(Other(s)) = s
      /\ \A x \in Sides : x = s \/ x = Other(s)
  BY TwoSides
<1>2. l \in Links /\ Half(l, s) /\ LinkParts(l, s) /\ LinkParts(l, Other(s))
  BY <1>1, Parts DEF Sound
<1>3. /\ held \in Seq(Pieces) /\ arriving \in Seq(Pieces)
      /\ Len(held) \in Nat /\ Len(arriving) \in Nat /\ Len(held) <= 2
  BY <1>0, <1>2 DEF Half, LinkParts
<1>3a. k \in 0..Len(arriving) /\ Len(held) + k <= 2
  BY <1>0a, <1>3 DEF Smaller
<1>4. incoming \in Seq(Pieces) /\ rest \in Seq(Pieces) /\ Len(incoming) = Len(held) + k
  BY <1>0b, <1>3, <1>3a, Moved DEF Move
<1>4a. /\ Len(incoming) # 2 => Len(incoming) < 2
       /\ (Len(incoming) # 2 /\ Len(incoming) # 0) => Len(incoming) = 1
  BY <1>3, <1>3a, <1>4
<1>5. /\ [l.end[s] EXCEPT !.incoming = incoming] \in Channels
      /\ read.end = [l.end EXCEPT ![s] = [l.end[s] EXCEPT !.incoming = incoming]]
      /\ read.wire = [l.wire EXCEPT ![Other(s)] = rest]
  BY <1>0c, <1>2, <1>4 DEF Links, Channels
<1>5a. read \in Links
  BY <1>0c, <1>1, <1>2, <1>4, <1>5 DEF Links
<1>5b. /\ read.end[Other(s)] = l.end[Other(s)] /\ read.reset = l.reset
       /\ read.wire[s] = l.wire[s] /\ read.end[s].out = l.end[s].out /\ Open(read, s) = Open(l, s)
       /\ read.end[s].write_failure = l.end[s].write_failure
       /\ read.end[s].failure = l.end[s].failure /\ read.end[s].eof = l.end[s].eof
       /\ read.end[s].incoming = incoming /\ read.wire[Other(s)] = rest
  BY <1>0c, <1>1, <1>2, <1>5 DEF Links, Channels, Open
<1>6. CASE m = read
  <2>1. Reads(l, m, s, k)
    BY <1>0, <1>0a, <1>0b, <1>5b, <1>6 DEF Reads
  <2> QED
    BY <1>0d, <1>5a, <1>6, <2>1, ReadsMove
<1>7. CASE /\ l.reset[s] /\ Len(incoming) # 2
           /\ m = [read EXCEPT !.end[s].failure = TRUE, !.reset[s] = FALSE]
  <2>1. /\ [read.end[s] EXCEPT !.failure = TRUE] \in Channels
        /\ m.end = [read.end EXCEPT ![s] = [read.end[s] EXCEPT !.failure = TRUE]]
        /\ m.reset \in [Sides -> BOOLEAN]
    BY <1>5a, <1>7 DEF Links, Channels
  <2>2. m \in Links
    BY <1>5a, <1>7, <2>1 DEF Links
  <2>3. /\ m.end[Other(s)] = read.end[Other(s)] /\ m.reset[Other(s)] = read.reset[Other(s)]
        /\ m.wire = read.wire /\ m.end[s].out = read.end[s].out /\ Open(m, s) = Open(read, s)
        /\ m.end[s].write_failure = read.end[s].write_failure
        /\ m.end[s].eof = read.end[s].eof /\ m.end[s].incoming = read.end[s].incoming
        /\ ~m.reset[s] /\ m.end[s].failure
    BY <1>1, <1>5a, <1>7 DEF Links, Channels, Open
  <2>4. ~Open(l, Other(s)) /\ Len(incoming) < 2
    BY <1>2, <1>4a, <1>7 DEF Half
  <2>5. Reads(l, m, s, k)
    BY <1>0, <1>0a, <1>0b, <1>5b, <1>7, <2>3, <2>4 DEF Reads
  <2> QED
    BY <1>0d, <2>2, <2>5, ReadsMove
<1>8. CASE /\ ~Open(l, Other(s)) /\ Len(incoming) # 2
           /\ m = [read EXCEPT !.end[s].eof = TRUE, !.end[s].failure = incoming # <<>>]
  <2>0. PICK torn \in BOOLEAN : torn <=> incoming # <<>>
    OBVIOUS
  <2>1. m = [read EXCEPT !.end[s].eof = TRUE, !.end[s].failure = torn]
    BY <1>8, <2>0
  <2>2. /\ [read.end[s] EXCEPT !.eof = TRUE, !.failure = torn] \in Channels
        /\ m.end = [read.end EXCEPT ![s] = [read.end[s] EXCEPT !.eof = TRUE, !.failure = torn]]
    BY <1>5a, <2>1 DEF Links, Channels
  <2>3. m \in Links
    BY <1>5a, <2>1, <2>2 DEF Links
  <2>4. /\ m.end[Other(s)] = read.end[Other(s)] /\ m.reset = read.reset
        /\ m.wire = read.wire /\ m.end[s].out = read.end[s].out /\ Open(m, s) = Open(read, s)
        /\ m.end[s].write_failure = read.end[s].write_failure
        /\ m.end[s].incoming = read.end[s].incoming
        /\ m.end[s].failure = torn
    BY <1>1, <1>5a, <2>1 DEF Links, Channels, Open
  <2>5. Len(incoming) < 2 /\ (torn => Len(incoming) = 1)
    <3>1. torn => Len(incoming) # 0
      BY <1>4, <2>0, EmptySeq
    <3> QED
      BY <1>4a, <1>8, <3>1
  <2>5a. ~m.end[s].failure => m.end[s].incoming = <<>>
    BY <1>5b, <2>0, <2>4
  <2>5b. /\ m.end[s].eof => l.end[s].eof \/ (~Open(l, Other(s)) /\ Len(m.end[s].incoming) < 2)
         /\ m.end[s].failure => ~Open(l, Other(s)) /\ Len(m.end[s].incoming) < 2
         /\ m.end[s].failure => Len(m.end[s].incoming) = 1
    BY <1>5b, <1>8, <2>4, <2>5
  <2>6. Reads(l, m, s, k)
    BY <1>0, <1>0a, <1>0b, <1>5b, <2>4, <2>5a, <2>5b DEF Reads
  <2> QED
    BY <1>0d, <2>3, <2>6, ReadsMove
<1> QED
  BY <1>0e, <1>6, <1>7, <1>8 DEF Open

\* A link m that differs from l in what s has written.
LEMMA WritesMove ==
  ASSUME NEW s \in Sides, NEW l, Sound(l), NEW k \in 0..Len(l.end[s].out),
         Len(l.wire[s]) + k <= WireLimit, Open(l, s), Open(l, Other(s)),
         NEW m, m = [l EXCEPT !.end[s].out = SubSeq(@, k + 1, Len(@)),
                              !.wire[s] = @ \o SubSeq(l.end[s].out, 1, k)]
  PROVE  Moves(l, m, s)
<1>0. PICK a, w, b : a = l.end[Other(s)].incoming /\ w = l.wire[s] /\ b = l.end[s].out
  OBVIOUS
<1>0a. PICK c, d : c = SubSeq(b, 1, k) /\ d = SubSeq(b, k + 1, Len(b))
  OBVIOUS
<1>0b. m = [l EXCEPT !.end[s].out = d, !.wire[s] = w \o c]
  BY <1>0, <1>0a
<1>1. /\ Other(s) \in Sides /\ Other(s) # s /\ Other(Other(s)) = s
      /\ \A x \in Sides : x = s \/ x = Other(s)
  BY TwoSides
<1>2. l \in Links /\ Half(l, s) /\ Half(l, Other(s)) /\ LinkParts(l, s) /\ LinkParts(l, Other(s))
  BY <1>1, Parts DEF Sound
<1>3. a \in Seq(Pieces) /\ w \in Seq(Pieces) /\ b \in Seq(Pieces) /\ k \in 0..Len(b)
  BY <1>0, <1>2 DEF LinkParts
<1>4. /\ w \o c \in Seq(Pieces) /\ Len(w \o c) = Len(w) + k
      /\ d \in Seq(Pieces) /\ Len(d) = Len(b) - k
  <2>1. Move(w, b, k, Pieces)
    BY <1>3, Moved
  <2> QED
    BY <1>0a, <2>1 DEF Move
<1>5. c \in Seq(Pieces) /\ a \o w \in Seq(Pieces) /\ ((a \o w) \o c) \o d = (a \o w) \o b
  <2>1. a \o w \in Seq(Pieces)
    BY <1>3, ConcatProperties
  <2>2. c \in Seq(Pieces)
    <3>1. Len(b) \in Nat /\ \A i \in 1..k : b[i] \in Pieces
      BY <1>3
    <3> QED
      BY <1>0a, <1>3, <3>1, SubSeqProperties
  <2>3. Move(a \o w, b, k, Pieces)
    BY <1>3, <2>1, Moved
  <2> QED
    BY <1>0a, <2>1, <2>2, <2>3 DEF Move
<1>6. (a \o w) \o c = a \o (w \o c)
  BY ONLY <1>3, <1>5
<1>6z. PICK z : z = w \o c
  OBVIOUS
<1>6y. m = [l EXCEPT !.end[s].out = d, !.wire[s] = z] /\ z \in Seq(Pieces) /\ d \in Seq(Pieces)
       /\ l \in Links /\ s \in Sides
  BY <1>0b, <1>2, <1>4, <1>6z
<1>6a. /\ [l.end[s] EXCEPT !.out = d] \in Channels
       /\ m.end = [l.end EXCEPT ![s] = [l.end[s] EXCEPT !.out = d]]
       /\ m.wire = [l.wire EXCEPT ![s] = z]
  BY ONLY <1>6y DEF Links, Channels
<1>6b. m \in Links
  BY ONLY <1>6y, <1>6a DEF Links
<1>7. /\ m.end[Other(s)] = l.end[Other(s)] /\ m.reset = l.reset /\ Open(m, s) = Open(l, s)
      /\ m.wire[Other(s)] = l.wire[Other(s)] /\ m.wire[s] = z /\ m.end[s].out = d
      /\ m.end[s].incoming = l.end[s].incoming /\ m.end[s].failure = l.end[s].failure
      /\ m.end[s].eof = l.end[s].eof /\ m.end[s].write_failure = l.end[s].write_failure
  BY ONLY <1>1, <1>6y, <1>6a DEF Links, Channels, Open
<1>8. Flow(m, Other(s)) = Flow(l, Other(s)) /\ Flow(m, s) = Flow(l, s)
  BY <1>0, <1>1, <1>5, <1>6, <1>6z, <1>7 DEF Flow
<1>9. Len(d) <= QueueLimit
  <2>1. Len(b) <= QueueLimit /\ Len(b) \in Nat
    BY <1>0, <1>2 DEF Half, LinkParts
  <2> QED
    BY <1>3, <1>4, <2>1, BoundsAssumption
<1>10. Half(m, s)
  BY <1>0, <1>1, <1>2, <1>4, <1>6z, <1>7, <1>9 DEF Half, Open
<1>11. Half(m, Other(s))
  BY <1>1, <1>2, <1>7 DEF Half, Open
<1> QED
  BY <1>1, <1>6b, <1>7, <1>8, <1>10, <1>11 DEF Moves, Sound

\* fail_write drops only what nobody is there to read.
LEMMA FailWriteMoves ==
  ASSUME NEW s \in Sides, NEW l, Sound(l), ~Open(l, Other(s))
  PROVE  Moves(l, fail_write(l, s), s)
<1> DEFINE m == fail_write(l, s)
<1>1. /\ Other(s) \in Sides /\ Other(s) # s /\ Other(Other(s)) = s
      /\ \A x \in Sides : x = s \/ x = Other(s)
  BY TwoSides
<1>2. l \in Links /\ Half(l, s) /\ Half(l, Other(s)) /\ LinkParts(l, s) /\ LinkParts(l, Other(s))
  BY <1>1, Parts DEF Sound
<1>3. <<>> \in Seq(Pieces) /\ Len(<<>>) = 0
  OBVIOUS
<1>3a. /\ [l.end[s] EXCEPT !.write_failure = TRUE, !.out = <<>>] \in Channels
       /\ m.end = [l.end EXCEPT ![s] = [l.end[s] EXCEPT !.write_failure = TRUE, !.out = <<>>]]
  BY <1>2, <1>3 DEF Links, Channels, fail_write
<1>3b. m \in Links
  BY <1>2, <1>3a DEF Links, fail_write
<1>4. /\ m.end[Other(s)] = l.end[Other(s)] /\ m.reset = l.reset /\ Open(m, s) = Open(l, s)
      /\ m.wire = l.wire /\ m.end[s].out = <<>>
      /\ m.end[s].incoming = l.end[s].incoming /\ m.end[s].failure = l.end[s].failure
      /\ m.end[s].eof = l.end[s].eof
  BY <1>1, <1>2, <1>3 DEF Links, Channels, Open, fail_write
<1> HIDE DEF m
<1>5. Flow(m, Other(s)) = Flow(l, Other(s))
  BY <1>1, <1>4 DEF Flow
<1>6. Half(m, s)
  BY <1>1, <1>2, <1>3, <1>4, BoundsAssumption DEF Half, Open
<1>7. Half(m, Other(s))
  BY <1>1, <1>2, <1>4 DEF Half, Open
<1> QED
  BY <1>1, <1>3b, <1>4, <1>5, <1>6, <1>7 DEF Moves, Sound, m

\* What progress does after it has read.
LEMMA AfterReadMoves ==
  ASSUME NEW s \in Sides, NEW l, Sound(l), Open(l, s)
  PROVE  Moves(l, afterRead(l, s), s)
<1>1. Other(s) \in Sides /\ l \in Links /\ Half(l, s) /\ LinkParts(l, s)
  BY TwoSides, Parts DEF Sound
<1>2. CASE l.end[s].failure
  BY <1>2, Stays DEF afterRead
<1>3. CASE ~l.end[s].failure /\ l.end[s].eof
  <2>1. ~Open(l, Other(s))
    BY <1>1, <1>3 DEF Half
  <2> QED
    BY <1>3, <2>1, Stays, FailWriteMoves DEF afterRead
<1>4. CASE ~l.end[s].failure /\ ~l.end[s].eof /\ (l.end[s].write_failure \/ l.end[s].out = <<>>)
  BY <1>4, Stays DEF afterRead, write_pending
<1>5. CASE ~l.end[s].failure /\ ~l.end[s].eof /\ ~l.end[s].write_failure /\ l.end[s].out # <<>>
  <2>1. CASE ~Open(l, Other(s))
    <3>1. afterRead(l, s) = fail_write(l, s)
      BY <1>5, <2>1 DEF afterRead, write_pending, Open
    <3> QED
      BY <2>1, <3>1, FailWriteMoves
  <2>2. CASE Open(l, Other(s))
    <3> DEFINE k == Smaller(Len(l.end[s].out), WireLimit - Len(l.wire[s]))
    <3>1. k \in 0..Len(l.end[s].out) /\ Len(l.wire[s]) + k <= WireLimit
      <4>1. /\ Len(l.end[s].out) \in Nat /\ Len(l.wire[s]) \in Nat
            /\ Len(l.wire[s]) <= WireLimit
        BY <1>1 DEF Half, LinkParts
      <4> QED
        BY <4>1, WriteCount
    <3>2. afterRead(l, s) = [l EXCEPT !.end[s].out = SubSeq(@, k + 1, Len(@)),
                                      !.wire[s] = @ \o SubSeq(l.end[s].out, 1, k)]
      BY <1>5, <2>2 DEF afterRead, write_pending, Open
    <3> HIDE DEF k
    <3> QED
      BY <1>5, <2>2, <3>1, <3>2, WritesMove
  <2> QED
    BY <2>1, <2>2
<1> QED
  BY <1>2, <1>3, <1>4, <1>5

\* progress as a whole loses nothing of what is on its way.
LEMMA ProgressMoves ==
  ASSUME NEW s \in Sides, NEW l, Sound(l)
  PROVE  Moves(l, progress(l, s), s)
<1>1. CASE ~Open(l, s) \/ l.end[s].failure
  BY <1>1, Stays DEF progress, Open
<1>2. CASE Open(l, s) /\ ~l.end[s].failure
  <2>1. progress(l, s) = afterRead(read_pending(l, s), s)
    BY <1>2 DEF progress, Open
  <2>2. Moves(l, read_pending(l, s), s)
    BY ReadPendingMoves
  <2>3. Moves(read_pending(l, s), afterRead(read_pending(l, s), s), s)
    BY <1>2, <2>2, AfterReadMoves DEF Moves
  <2> QED
    BY <2>1, <2>2, <2>3, MovesOn
<1> QED
  BY <1>1, <1>2

\* A flow is a sequence of pieces.
LEMMA FlowParts ==
  ASSUME NEW l \in Links, NEW s \in Sides
  PROVE  Flow(l, s) \in Seq(Pieces)
<1>1. Other(s) \in Sides
  BY TwoSides
<1>2. PICK a, w, b : a = l.end[Other(s)].incoming /\ w = l.wire[s] /\ b = l.end[s].out
  OBVIOUS
<1>3. a \in Seq(Pieces) /\ w \in Seq(Pieces) /\ b \in Seq(Pieces)
  BY <1>1, <1>2, Parts DEF LinkParts
<1>4. (a \o w) \o b \in Seq(Pieces)
  BY <1>3, ConcatProperties
<1> QED
  BY <1>2, <1>4 DEF Flow

\* A frame is taken from the end of s.
Takes(l, m, s) ==
  /\ Sound(m)
  /\ m.end[Other(s)] = l.end[Other(s)] /\ m.reset = l.reset
  /\ Open(m, s) = Open(l, s) /\ m.end[s].eof = l.end[s].eof /\ m.end[s].failure = l.end[s].failure
  /\ Flow(m, s) = Flow(l, s)
  /\ Dropped(Flow(l, Other(s)), Flow(m, Other(s)))
  /\ Flow(l, Other(s))[1] = l.end[s].incoming[1]

\* consume takes the one complete frame.
LEMMA ConsumeTakes ==
  ASSUME NEW s \in Sides, NEW l, Sound(l), complete(l.end[s])
  PROVE  Takes(l, consume(l, s), s)
<1>0. PICK m : m = consume(l, s)
  OBVIOUS
<1>1. /\ Other(s) \in Sides /\ Other(s) # s /\ Other(Other(s)) = s
      /\ \A x \in Sides : x = s \/ x = Other(s)
  BY TwoSides
<1>2. l \in Links /\ Half(l, s) /\ Half(l, Other(s)) /\ LinkParts(l, s) /\ LinkParts(l, Other(s))
  BY <1>1, Parts DEF Sound
<1>3. <<>> \in Seq(Pieces) /\ Len(<<>>) = 0
  OBVIOUS
<1>4. /\ [l.end[s] EXCEPT !.incoming = <<>>] \in Channels
      /\ m.end = [l.end EXCEPT ![s] = [l.end[s] EXCEPT !.incoming = <<>>]]
  BY <1>0, <1>2, <1>3 DEF Links, Channels, consume
<1>5. m \in Links
  BY <1>0, <1>2, <1>4 DEF Links, consume
<1>6. /\ m.end[Other(s)] = l.end[Other(s)] /\ m.reset = l.reset /\ Open(m, s) = Open(l, s)
      /\ m.wire = l.wire /\ m.end[s].out = l.end[s].out
      /\ m.end[s].incoming = <<>> /\ m.end[s].failure = l.end[s].failure
      /\ m.end[s].eof = l.end[s].eof /\ m.end[s].write_failure = l.end[s].write_failure
  BY <1>0, <1>1, <1>2, <1>3 DEF Links, Channels, Open, consume
<1>7. Half(m, s)
  BY <1>1, <1>2, <1>3, <1>6 DEF Half, Open
<1>8. Half(m, Other(s))
  BY <1>1, <1>2, <1>6 DEF Half, Open
<1>9. Flow(m, s) = Flow(l, s)
  BY <1>1, <1>6 DEF Flow
<1>10. PICK a, w, b : /\ a = l.end[s].incoming /\ w = l.wire[Other(s)]
                      /\ b = l.end[Other(s)].out
  OBVIOUS
<1>11. a \in Seq(Pieces) /\ w \in Seq(Pieces) /\ b \in Seq(Pieces) /\ Len(a) = 2
  BY <1>2, <1>10 DEF LinkParts, complete
<1>12. PICK e : e = w \o b
  OBVIOUS
<1>13. e \in Seq(Pieces) /\ (a \o w) \o b = a \o e
  <2>1. e \in Seq(Pieces)
    BY <1>11, <1>12, ConcatProperties
  <2>2. (a \o w) \o b = a \o (w \o b)
    BY ONLY <1>11
  <2> QED
    BY <1>12, <2>1, <2>2
<1>14. Joins(a, e, a \o e, Pieces)
  BY <1>11, <1>13, Joined
<1>15. Flow(l, Other(s)) = a \o e
  BY <1>1, <1>10, <1>13 DEF Flow
<1>16. Flow(m, Other(s)) = e
  <2>1. <<>> \o w = w
    BY ONLY <1>11
  <2> QED
    BY <1>1, <1>6, <1>10, <1>12, <2>1 DEF Flow
<1>17. Dropped(a \o e, e) /\ (a \o e)[1] = a[1]
  <2>1. /\ Len(a \o e) = 2 + Len(e) /\ Len(e) \in Nat
        /\ (\A i \in 1..Len(a) : (a \o e)[i] = a[i])
        /\ \A i \in 1..Len(e) : (a \o e)[2 + i] = e[i]
    BY <1>11, <1>14 DEF Joins
  <2>2. 1 \in 1..Len(a)
    BY <1>11
  <2>3. \A i \in 1..Len(e) : 2 + i = i + 2
    BY <2>1
  <2>4. \A i \in 1..Len(e) : e[i] = (a \o e)[i + 2]
    BY <2>1, <2>3
  <2>5. Len(a \o e) = Len(e) + 2
    BY <2>1
  <2> QED
    BY <2>1, <2>2, <2>4, <2>5 DEF Dropped
<1> QED
  BY <1>0, <1>1, <1>5, <1>6, <1>7, <1>8, <1>9, <1>10, <1>15, <1>16, <1>17 DEF Takes, Sound

\* The end of s is closed.
Shuts(l, m, s) ==
  /\ Sound(m)
  /\ m.end[Other(s)] = l.end[Other(s)] /\ ~Open(m, s)
  /\ m.reset[s] = l.reset[s] /\ (m.reset[Other(s)] => l.reset[Other(s)] \/ Unread(l, s))
  /\ Cut(Flow(l, s), Flow(m, s))
  /\ l.end[s].out = <<>> => Flow(m, s) = Flow(l, s)

\* close: the peer loses only what had not left, and is reset over unread data.
LEMMA CloseShuts ==
  ASSUME NEW s \in Sides, NEW l, Sound(l)
  PROVE  Shuts(l, close(l, s), s)
<1>0. PICK m : m = close(l, s)
  OBVIOUS
<1>0a. PICK r \in BOOLEAN : r <=> (l.reset[Other(s)] \/ Unread(l, s))
  OBVIOUS
<1>1. /\ Other(s) \in Sides /\ Other(s) # s /\ Other(Other(s)) = s
      /\ \A x \in Sides : x = s \/ x = Other(s)
  BY TwoSides
<1>2. l \in Links /\ Half(l, s) /\ Half(l, Other(s)) /\ LinkParts(l, s) /\ LinkParts(l, Other(s))
  BY <1>1, Parts DEF Sound
<1>2a. (l.reset[Other(s)] \/ Unread(l, s)) = r
  BY <1>0a, <1>2 DEF LinkParts
<1>2b. m = [l EXCEPT !.end[s].descriptor = FALSE, !.end[s].out = <<>>, !.end[s].incoming = <<>>,
                     !.wire[Other(s)] = <<>>, !.reset[Other(s)] = r]
  BY <1>0, <1>2, <1>2a DEF close, Links
<1>3. <<>> \in Seq(Pieces) /\ Len(<<>>) = 0
  OBVIOUS
<1>4. PICK c : c = [l.end[s] EXCEPT !.descriptor = FALSE, !.out = <<>>, !.incoming = <<>>]
  OBVIOUS
<1>5. /\ c \in Channels /\ ~c.descriptor /\ c.out = <<>> /\ c.incoming = <<>>
      /\ c.failure = l.end[s].failure /\ c.eof = l.end[s].eof
      /\ c.write_failure = l.end[s].write_failure
  BY <1>2, <1>3, <1>4 DEF Links, Channels
<1>6. /\ m.end = [l.end EXCEPT ![s] = c]
      /\ m.wire = [l.wire EXCEPT ![Other(s)] = <<>>]
      /\ m.reset = [l.reset EXCEPT ![Other(s)] = r]
  BY <1>2, <1>2b, <1>4 DEF Links
<1>7. m \in Links
  <2>1. m.end \in [Sides -> Channels] /\ m.wire \in [Sides -> Seq(Pieces)]
    BY <1>1, <1>2, <1>3, <1>5, <1>6 DEF Links
  <2>2. m.reset \in [Sides -> BOOLEAN]
    BY <1>1, <1>2, <1>6 DEF Links
  <2> QED
    BY <1>2, <1>2b, <2>1, <2>2 DEF Links
<1>8. /\ m.end[Other(s)] = l.end[Other(s)] /\ m.end[s] = c
      /\ m.wire[s] = l.wire[s] /\ m.wire[Other(s)] = <<>>
      /\ m.reset[s] = l.reset[s] /\ m.reset[Other(s)] = r
  BY <1>1, <1>2, <1>6 DEF Links
<1>9. Half(m, s)
  BY <1>1, <1>2, <1>3, <1>5, <1>8, BoundsAssumption DEF Half, Open
<1>10. Half(m, Other(s))
  BY <1>1, <1>2, <1>3, <1>5, <1>8, BoundsAssumption DEF Half, Open
<1>11. PICK a, b : a = l.end[Other(s)].incoming \o l.wire[s] /\ b = l.end[s].out
  OBVIOUS
<1>12. a \in Seq(Pieces) /\ b \in Seq(Pieces)
  BY <1>2, <1>11, ConcatProperties DEF LinkParts
<1>13. Flow(l, s) = a \o b /\ Flow(m, s) = a
  <2>1. a \o <<>> = a
    BY ONLY <1>12
  <2> QED
    BY <1>5, <1>8, <1>11, <2>1 DEF Flow
<1>14. Cut(a \o b, a)
  <2>1. Joins(a, b, a \o b, Pieces)
    BY <1>12, Joined
  <2> QED
    BY <2>1 DEF Joins, Cut
<1>15. b = <<>> => a \o b = a
  <2>1. a \o <<>> = a
    BY ONLY <1>12
  <2> QED
    BY <2>1
<1>16. m.reset[Other(s)] => l.reset[Other(s)] \/ Unread(l, s)
  BY <1>0a, <1>8
<1>17. ~Open(m, s)
  BY <1>5, <1>8 DEF Open
<1> QED
  BY <1>0, <1>1, <1>7, <1>8, <1>9, <1>10, <1>11, <1>13, <1>14, <1>15, <1>16, <1>17 DEF Shuts, Sound

\* A frame is sent from the end of s.
Sends(l, m, s, kind, value) ==
  /\ Sound(m)
  /\ m.end[Other(s)] = l.end[Other(s)] /\ m.reset[Other(s)] = l.reset[Other(s)]
  /\ Open(m, s) = Open(l, s)
  /\ Flow(m, Other(s)) = Flow(l, Other(s))
  /\ Open(l, Other(s)) => Sent(Flow(l, s), Flow(m, s), kind, value)
  /\ m.reset[s] => l.reset[s]
  /\ m.end[s].failure => l.end[s].failure \/ l.reset[s] \/ Len(Flow(l, Other(s))) = 1

\* send puts one frame at the end of the flow, unless it refuses.
LEMMA SendSends ==
  ASSUME NEW s \in Sides, NEW l, Sound(l), NEW kind \in Kinds(s), NEW value \in Nat,
         ~refuses(l, s)
  PROVE  Sends(l, send(l, s, kind, value), s, kind, value)
<1>0. PICK o : o = l.end[s].out \o pieces(kind, value)
  OBVIOUS
<1>0a. PICK m : m = [l EXCEPT !.end[s].out = o]
  OBVIOUS
<1>0b. send(l, s, kind, value) = progress(m, s)
  BY <1>0, <1>0a DEF send
<1>1. /\ Other(s) \in Sides /\ Other(s) # s /\ Other(Other(s)) = s
      /\ \A x \in Sides : x = s \/ x = Other(s)
  BY TwoSides
<1>2. l \in Links /\ Half(l, s) /\ Half(l, Other(s)) /\ LinkParts(l, s) /\ LinkParts(l, Other(s))
  BY <1>1, Parts DEF Sound
<1>3. PICK p : p = pieces(kind, value)
  OBVIOUS
<1>4. p \in Seq(Pieces) /\ Len(p) = 2
  BY <1>3 DEF pieces, Pieces, Kinds
<1>5. PICK b : b = l.end[s].out
  OBVIOUS
<1>6. b \in Seq(Pieces) /\ o = b \o p
  BY <1>0, <1>2, <1>3, <1>5 DEF LinkParts
<1>7. o \in Seq(Pieces) /\ Len(o) <= QueueLimit
  <2>1. Len(b) + 2 <= QueueLimit
    <3>1. ~(Len(b) + 2 > QueueLimit)
      BY <1>5 DEF refuses
    <3> QED
      BY <1>6, <3>1, BoundsAssumption
  <2>2. o \in Seq(Pieces) /\ Len(o) = Len(b) + 2
    <3>1. Joins(b, p, o, Pieces)
      BY <1>4, <1>6, Joined
    <3> QED
      BY <1>4, <3>1 DEF Joins
  <2> QED
    BY <2>1, <2>2
<1>8. Open(l, s) /\ ~l.end[s].eof /\ ~l.end[s].failure
  BY DEF refuses, closed, Open
<1>9. /\ [l.end[s] EXCEPT !.out = o] \in Channels
      /\ m.end = [l.end EXCEPT ![s] = [l.end[s] EXCEPT !.out = o]]
  BY <1>0a, <1>2, <1>7 DEF Links, Channels
<1>10. m \in Links
  BY <1>0a, <1>2, <1>9 DEF Links
<1>11. /\ m.end[Other(s)] = l.end[Other(s)] /\ m.reset = l.reset /\ Open(m, s) = Open(l, s)
       /\ m.wire = l.wire /\ m.end[s].out = o
       /\ m.end[s].incoming = l.end[s].incoming /\ m.end[s].failure = l.end[s].failure
       /\ m.end[s].eof = l.end[s].eof /\ m.end[s].write_failure = l.end[s].write_failure
  BY <1>0a, <1>1, <1>2, <1>7 DEF Links, Channels, Open
<1>12. Half(m, s) /\ Half(m, Other(s))
  BY <1>1, <1>2, <1>7, <1>8, <1>11 DEF Half, Open
<1>13. Sound(m)
  BY <1>1, <1>10, <1>12 DEF Sound
<1>14. Flow(m, Other(s)) = Flow(l, Other(s))
  BY <1>1, <1>11 DEF Flow
<1>15. Flow(m, s) = Flow(l, s) \o p
  <2>1. PICK a : a = l.end[Other(s)].incoming \o l.wire[s]
    OBVIOUS
  <2>2. a \in Seq(Pieces)
    BY <1>2, <2>1, ConcatProperties DEF LinkParts
  <2>3. (a \o b) \o p = a \o (b \o p)
    BY ONLY <1>4, <1>6, <2>2
  <2> QED
    BY <1>5, <1>6, <1>11, <2>1, <2>3 DEF Flow
<1>16. Sent(Flow(l, s), Flow(m, s), kind, value)
  BY <1>2, <1>3, <1>15, FlowParts, Framed
<1>17. Moves(m, send(l, s, kind, value), s)
  BY <1>0b, <1>13, ProgressMoves
<1> QED
  BY <1>11, <1>14, <1>16, <1>17 DEF Moves, Sends, Open
-----------------------------------------------------------------------------
(***************************************************************************)
(* The inductive invariant.                                                *)
(***************************************************************************)
Phases == {"starting", "running", "completing", "raising", "exiting", "dead"}
Ports ==
  [started : BOOLEAN, referenced : BOOLEAN, closing : BOOLEAN, closed : BOOLEAN,
   close_emitted : BOOLEAN, exited : BOOLEAN, online : BOOLEAN,
   peer_closed : BOOLEAN, terminating : BOOLEAN]
Happenings == {"online", "message", "error", "exit"} \X Nat
Typed ==
  /\ Sound(link) /\ port \in [Sides -> Ports]
  /\ process \in [phase : Phases, code : {0, 1}]
  /\ loop \in {"running", "ended", "failed", "gone"} /\ handled \in BOOLEAN
  /\ posted \in [Sides -> Nat] /\ seen \in Seq(Happenings) /\ taken \in Seq(Nat)
  /\ flushed \in {"no", "clean", "failed"} /\ unread \in BOOLEAN

Begun == process.phase # "starting"
Online == port["parent"].online
Ending == process.phase \in {"exiting", "dead"}
Doomed ==
  /\ process.phase \notin {"starting", "running"}
  /\ process.phase = "completing" => process.code = 1
Has(l, kind) == \E i \in 1..Len(Flow(l, "child")) : Flow(l, "child")[i][1] = kind

\* What is on its way to the child, of which base messages are taken and n posted.
Down(l, base, begun, n) ==
  Open(l, "child") =>
    /\ Ordered(Flow(l, "parent"), base, begun) /\ Below(Flow(l, "parent"), "parent", n)
    /\ Open(l, "parent") => /\ Whole(Flow(l, "parent"), base, n)
                            /\ begun \/ Flow(l, "parent") # <<>>

\* What is on its way to the parent: all of it, once the child has flushed.
Up(l, base, begun, n, all) ==
  Open(l, "parent") =>
    /\ Ordered(Flow(l, "child"), base, begun) /\ Below(Flow(l, "child"), "child", n)
    /\ (Open(l, "child") \/ all) => Whole(Flow(l, "child"), base, n)

ToChild ==
  /\ Down(link, Len(taken), Begun, posted["parent"])
  /\ taken = Upto(Len(taken)) /\ Len(taken) <= posted["parent"]

ToParent ==
  /\ Up(link, Received, Online, posted["child"], flushed # "no")
  /\ Received <= posted["child"]
  /\ ~Begun => /\ ~Online /\ posted["child"] = 0
               /\ Open(link, "parent") => Flow(link, "child") = <<>>
  /\ (Running /\ Open(link, "child") /\ Open(link, "parent")) => Online \/ Flow(link, "child") # <<>>

\* After these two nothing else is posted.
LastWords ==
  Open(link, "parent") =>
    /\ (Open(link, "child") /\ Has(link, "closed")) => port["child"].closing
    /\ Has(link, "failure") => Doomed /\ flushed # "clean"

\* Who closes an end, and when.
Ends ==
  /\ ~Open(link, "child") => Ending \/ ~Open(link, "parent")
  /\ Ending => ~Open(link, "child")
  /\ ~Open(link, "parent") => loop = "gone" \/ (Dead(process) /\ port["parent"].closed)
  /\ port["parent"].closed => Ending
  /\ port["parent"].exited => port["parent"].closed
  /\ flushed # "no" => Ending

\* The events q of a Worker that is online, or has exited, if so.
EventsWell(q, online, exited) ==
  /\ online => q # <<>> /\ q[1][1] = "online"
  /\ \A i \in 1..Len(q) :
       /\ q[i][1] = "online" => i = 1 /\ online
       /\ q[i][1] = "message" => online /\ q[i][2] = Messages(q, i)
       /\ q[i][1] = "exit" => i = Len(q) /\ exited
SeenWell ==
  /\ (~Online /\ ~port["parent"].closed) => seen = <<>> /\ loop # "failed"
  /\ EventsWell(seen, Online, port["parent"].exited)

\* The parent's end is broken, or will be.
Faulty(l) == l.reset["parent"] \/ l.end["parent"].failure

\* An error is seen only when the child failed or was reset.
Errors(q) == \E i \in 1..Len(q) : q[i][1] = "error"
Wrong == loop = "failed" \/ Errors(seen)
Faults ==
  /\ Wrong => Doomed /\ (flushed = "clean" => unread)
  /\ (Open(link, "parent") /\ flushed = "clean" /\ Faulty(link)) => unread

Delivered == (flushed # "no" /\ port["parent"].closed) => Received = posted["child"]

Inv ==
  Typed /\ ToChild /\ ToParent /\ LastWords /\ Ends /\ SeenWell /\ Faults /\ Delivered
-----------------------------------------------------------------------------
(***************************************************************************)
(* What the invariant says of a link, when the link changes.               *)
(***************************************************************************)

\* The same is on its way.
Alike(l, m) ==
  /\ Sound(m)
  /\ Open(m, "parent") = Open(l, "parent") /\ Open(m, "child") = Open(l, "child")
  /\ Open(l, "child") => Flow(m, "parent") = Flow(l, "parent")
  /\ Open(l, "parent") => Flow(m, "child") = Flow(l, "child")

\* The two sides by their names.
LEMMA TheSides == /\ "parent" \in Sides /\ "child" \in Sides
                  /\ Other("parent") = "child" /\ Other("child") = "parent"
BY DEF Sides, Other

\* Progress on either end leaves the same on its way.
LEMMA MovesAlike ==
  ASSUME NEW s \in Sides, NEW l, NEW m, Moves(l, m, s)
  PROVE  Alike(l, m)
<1>1. CASE s = "parent"
  BY <1>1, TheSides DEF Moves, Alike, Open
<1>2. CASE s = "child"
  BY <1>2, TheSides DEF Moves, Alike, Open
<1> QED
  BY <1>1, <1>2 DEF Sides

\* Where the same is on its way, the invariant says the same of it.
LEMMA AlikeKeeps ==
  ASSUME NEW l, NEW m, Alike(l, m)
  PROVE  /\ \A base, begun, n : Down(l, base, begun, n) => Down(m, base, begun, n)
         /\ \A base, begun, n, all : Up(l, base, begun, n, all) => Up(m, base, begun, n, all)
BY DEF Alike, Down, Up

\* All that is sent is made of frames.
LEMMA NotOne ==
  ASSUME NEW F \in Seq(Pieces), NEW base, NEW begun, NEW n,
         Ordered(F, base, begun), Whole(F, base, n)
  PROVE  Len(F) # 1
<1> SUFFICES ASSUME Len(F) = 1 PROVE FALSE
  OBVIOUS
<1>1. F # <<>>
  BY EmptySeq
<1>2. F[1][3] = 1 /\ F[Len(F)][3] = 2
  BY <1>1 DEF Ordered, Whole
<1> QED
  BY <1>2

\* The parent's end has failed or met the end of the stream, and the child had
\* flushed: the parent has it all.
LEMMA AllRead ==
  ASSUME NEW l, Sound(l), Open(l, "parent"), l.end["parent"].eof \/ l.end["parent"].failure,
         NEW base \in Nat, NEW n \in Nat, NEW begun, Up(l, base, begun, n, TRUE), base <= n
  PROVE  base = n
<1>1. l \in Links /\ Half(l, "parent") /\ Half(l, "child") /\ LinkParts(l, "parent")
  BY TheSides, Parts DEF Sound
<1>2. PICK F, a : F = Flow(l, "child") /\ a = l.end["parent"].incoming
  OBVIOUS
<1>3. F \in Seq(Pieces)
  BY <1>1, <1>2, TheSides, FlowParts
<1>4. ~Open(l, "child") /\ l.wire["child"] = <<>> /\ Len(a) < 2 /\ a \in Seq(Pieces)
  BY <1>1, <1>2, TheSides DEF Half, LinkParts
<1>5. l.end["child"].out = <<>>
  BY <1>1, <1>4 DEF Half
<1>6. F = a
  <2>1. (a \o <<>>) \o <<>> = a
    BY ONLY <1>4
  <2> QED
    BY <1>2, <1>4, <1>5, <2>1, TheSides DEF Flow
<1>7. Ordered(F, base, begun) /\ Whole(F, base, n)
  BY <1>2 DEF Up
<1>8. Len(F) = 0
  <2>1. Len(F) # 1
    BY <1>3, <1>7, NotOne
  <2>2. PICK k : k = Len(F)
    OBVIOUS
  <2>3. k \in Nat /\ k < 2 /\ k # 1
    BY <1>3, <1>4, <1>6, <2>1, <2>2
  <2>4. k = 0
    BY <2>3
  <2> QED
    BY <2>2, <2>4
<1>9. ~(n > base)
  BY <1>3, <1>7, <1>8 DEF Whole
<1> QED
  BY <1>9

\* The parent's end fails only when it was reset.
LEMMA MovesFault ==
  ASSUME NEW s \in Sides, NEW l, Sound(l), NEW m, Moves(l, m, s), Open(l, "parent"),
         NEW base, NEW begun, NEW n, Up(l, base, begun, n, TRUE), Faulty(m)
  PROVE  Faulty(l)
<1>1. CASE s = "child"
  BY <1>1, TheSides DEF Moves, Faulty
<1>2. CASE s = "parent"
  <2>1. Flow(l, "child") \in Seq(Pieces)
    BY TheSides, FlowParts DEF Sound
  <2>2. Len(Flow(l, "child")) # 1
    BY <2>1, NotOne DEF Up
  <2> QED
    BY <1>2, <2>2, TheSides DEF Moves, Faulty
<1> QED
  BY <1>1, <1>2 DEF Sides

\* The child takes a frame: the initialization first, then messages.
ChildTook(l, m, value, base, begun, n) ==
  /\ Takes(l, m, "child")
  /\ ~begun => Down(m, base, TRUE, n)
  /\ begun => value = base + 1 /\ base + 1 <= n /\ Down(m, base + 1, TRUE, n)

\* The first frame the child takes is the initialization, each later one the next message.
LEMMA ChildTakes ==
  ASSUME NEW l, Sound(l), complete(l.end["child"]), NEW base \in Nat, NEW begun \in BOOLEAN,
         NEW n \in Nat, Down(l, base, begun, n)
  PROVE  ChildTook(l, consume(l, "child"), l.end["child"].incoming[1][2], base, begun, n)
<1> DEFINE value == l.end["child"].incoming[1][2]
<1>0. PICK m : m = consume(l, "child")
  OBVIOUS
<1>1. Takes(l, m, "child")
  BY <1>0, ConsumeTakes, TheSides
<1>2. l \in Links /\ Half(l, "child") /\ m \in Links
  BY <1>1, TheSides DEF Sound, Takes
<1>3. Open(l, "child")
  <2>1. l.end["child"].incoming # <<>>
    <3>1. PICK a : a = l.end["child"].incoming
      OBVIOUS
    <3>2. Len(a) = 2 /\ a \in Seq(Pieces)
      BY <1>2, <3>1, Parts, TheSides DEF complete, LinkParts
    <3> QED
      BY <3>1, <3>2, EmptySeq
  <2> QED
    BY <1>2, <2>1 DEF Half
<1>4. PICK F, G : F = Flow(l, "parent") /\ G = Flow(m, "parent")
  OBVIOUS
<1>5. F \in Seq(Pieces) /\ G \in Seq(Pieces)
  BY <1>2, <1>4, FlowParts, TheSides
<1>6. Dropped(F, G) /\ F[1] = l.end["child"].incoming[1] /\ Open(m, "child")
      /\ Open(m, "parent") = Open(l, "parent")
  BY <1>1, <1>3, <1>4, TheSides DEF Takes, Open
<1>7. Ordered(F, base, begun) /\ Below(F, "parent", n) /\ (Open(l, "parent") => Whole(F, base, n))
  BY <1>3, <1>4 DEF Down
<1>7a. Arrives(F, G, "parent", base, begun, n)
  BY <1>5, <1>6, <1>7, DroppedKeeps
<1>8. /\ F[1][1] \in Kinds("parent")
      /\ F[1][1] \in Openers => ~begun
      /\ F[1][1] \notin Openers => begun
      /\ F[1][1] = "message" => F[1][2] = base + 1 /\ base + 1 <= n
  BY <1>7a DEF Arrives
<1>9. PICK b \in Nat : /\ b = IF F[1][1] = "message" THEN base + 1 ELSE base
                       /\ Ordered(G, b, TRUE) /\ Below(G, "parent", n)
                       /\ Whole(F, base, n) => Whole(G, b, n)
  BY <1>7a DEF Arrives
<1>10. Down(m, b, TRUE, n)
  BY <1>4, <1>6, <1>7, <1>9 DEF Down
<1>11. ~begun => b = base
  BY <1>8, <1>9 DEF Openers
<1>12. begun => F[1][1] = "message"
  BY <1>8 DEF Openers, Kinds
<1>13. begun => value = base + 1 /\ base + 1 <= n /\ b = base + 1
  BY <1>6, <1>8, <1>9, <1>12
<1> QED
  BY <1>0, <1>1, <1>10, <1>11, <1>13 DEF ChildTook
-----------------------------------------------------------------------------
(***************************************************************************)
(* The events, when one is added.                                          *)
(***************************************************************************)
Adds(q, r, e) ==
  /\ Len(q) \in Nat /\ Messages(q, Len(q)) \in Nat
  /\ r \in Seq(Happenings) /\ Len(r) = Len(q) + 1 /\ r[Len(q) + 1] = e
  /\ \A i \in 1..Len(q) : r[i] = q[i] /\ Messages(r, i) = Messages(q, i)
  /\ Messages(r, Len(r)) = Messages(q, Len(q)) + (IF e[1] = "message" THEN 1 ELSE 0)

\* Appending an event adds it and changes no earlier one.
LEMMA EventAdded ==
  ASSUME NEW q \in Seq(Happenings), NEW e \in Happenings
  PROVE  Adds(q, Append(q, e), e)
<1> DEFINE S(x, n) == {i \in 1..n : x[i][1] = "message"}
<1>0. PICK r : r = Append(q, e)
  OBVIOUS
<1>0a. PICK k : k = Len(q)
  OBVIOUS
<1>1. /\ k \in Nat /\ r \in Seq(Happenings) /\ Len(r) = k + 1 /\ r[k + 1] = e
      /\ \A i \in 1..k : r[i] = q[i]
  BY <1>0, <1>0a, AppendProperties
<1>2. \A i \in 1..k : S(r, i) = S(q, i)
  <2> TAKE i \in 1..k
  <2>1. \A j \in 1..i : j \in 1..k
    BY <1>1
  <2> QED
    BY <1>1, <2>1
<1>2a. S(r, k) = S(q, k)
  BY <1>1
<1>3. IsFiniteSet(1..k)
  BY <1>1, FS_Interval
<1>4. IsFiniteSet(S(q, k)) /\ Cardinality(S(q, k)) \in Nat
  BY <1>3, FS_Subset, FS_CardinalityType
<1>5. k + 1 \notin S(q, k)
  BY <1>1
<1>6. CASE e[1] = "message"
  <2>1. S(r, k + 1) = S(q, k) \cup {k + 1}
    BY <1>1, <1>6
  <2>2. Cardinality(S(q, k) \cup {k + 1}) = Cardinality(S(q, k)) + 1
    BY <1>4, <1>5, FS_AddElement
  <2>3. Messages(r, Len(r)) = Messages(q, k) + 1
    BY <1>1, <2>1, <2>2 DEF Messages
  <2> QED
    BY <1>0, <1>0a, <1>1, <1>2, <1>4, <1>6, <2>3 DEF Adds, Messages
<1>7. CASE e[1] # "message"
  <2>1. S(r, k + 1) = S(q, k)
    BY <1>1, <1>7
  <2>2. Messages(r, Len(r)) = Messages(q, k) + 0
    <3>1. PICK c \in Nat : c = Cardinality(S(q, k))
      BY <1>4
    <3>2. Messages(r, Len(r)) = c /\ Messages(q, k) = c
      BY <1>1, <2>1, <3>1 DEF Messages
    <3>3. c = c + 0
      OBVIOUS
    <3> QED
      BY <3>2, <3>3
  <2> QED
    BY <1>0, <1>0a, <1>1, <1>2, <1>4, <1>7, <2>2 DEF Adds, Messages
<1> QED
  BY <1>6, <1>7

\* The event e may follow those of q.
Fits(q, e, r, online, on, exited) ==
  /\ Adds(q, r, e) /\ EventsWell(q, online, FALSE) /\ (on <=> (online \/ e[1] = "online"))
  /\ e[1] = "online" => q = <<>>
  /\ e[1] = "message" => online /\ e[2] = Messages(q, Len(q)) + 1
  /\ e[1] = "exit" => exited

\* A fitting event keeps the events well.
LEMMA EventKeeps ==
  ASSUME NEW q \in Seq(Happenings), NEW e \in Happenings, NEW r, NEW online \in BOOLEAN,
         NEW on \in BOOLEAN, NEW exited \in BOOLEAN, Fits(q, e, r, online, on, exited)
  PROVE  EventsWell(r, on, exited)
<1> USE DEF Fits
<1>0. PICK k : k = Len(q)
  OBVIOUS
<1>1. /\ k \in Nat /\ Len(r) = k + 1 /\ r[k + 1] = e /\ r \in Seq(Happenings)
      /\ \A i \in 1..k : r[i] = q[i] /\ Messages(r, i) = Messages(q, i)
  BY <1>0 DEF Adds
<1>2. e[1] = "message" => e[2] = Messages(r, k + 1)
  BY <1>0, <1>1 DEF Adds
<1>3. r # <<>>
  BY <1>1, EmptySeq
<1>4. ASSUME on PROVE r[1][1] = "online"
  <2>1. CASE online
    <3>1. q # <<>> /\ q[1][1] = "online"
      BY <2>1 DEF EventsWell
    <3>2. k # 0
      BY <1>0, <3>1, EmptySeq
    <3>3. 1 \in 1..k
      BY <1>1, <3>2
    <3> QED
      BY <1>1, <3>1, <3>3
  <2>2. CASE ~online
    <3>1. q = <<>> /\ e[1] = "online"
      BY <1>4, <2>2
    <3>2. k = 0
      BY <1>0, <3>1
    <3> QED
      BY <1>1, <3>1, <3>2
  <2> QED
    BY <2>1, <2>2
<1>5. ASSUME NEW i \in 1..Len(r)
      PROVE  /\ r[i][1] = "online" => i = 1 /\ on
             /\ r[i][1] = "message" => on /\ r[i][2] = Messages(r, i)
             /\ r[i][1] = "exit" => i = Len(r) /\ exited
  <2>1. CASE i \in 1..k
    BY <1>0, <1>1, <2>1 DEF EventsWell
  <2>2. CASE i = k + 1
    <3>1. e[1] = "online" => k = 0
      BY <1>0
    <3> QED
      BY <1>1, <1>2, <2>2, <3>1
  <2> QED
    BY <1>1, <1>5, <2>1, <2>2
<1> QED
  BY <1>3, <1>4, <1>5 DEF EventsWell

\* An error among the events is an old one or the one added.
LEMMA ErrorAdded ==
  ASSUME NEW q, NEW e, NEW r, Adds(q, r, e), Errors(r)
  PROVE  Errors(q) \/ e[1] = "error"
<1>1. PICK i \in 1..Len(r) : r[i][1] = "error"
  BY DEF Errors
<1>2. i \in 1..Len(q) \/ i = Len(q) + 1
  BY DEF Adds
<1> QED
  BY <1>1, <1>2 DEF Adds, Errors
-----------------------------------------------------------------------------
(***************************************************************************)
(* Frames sent and ends closed, in the terms of the invariant.             *)
(***************************************************************************)
\* The parent sends its initialization, or its next message.
LEMMA DownSends ==
  ASSUME NEW l, NEW m, NEW kind \in Kinds("parent"), NEW value \in Nat, Sound(l),
         Sends(l, m, "parent", kind, value), Open(l, "parent"),
         NEW base \in Nat, NEW begun \in BOOLEAN, NEW n \in Nat, NEW k \in Nat, base <= n,
         kind = "message" => /\ value = n + 1 /\ k = n + 1 /\ Down(l, base, begun, n),
         kind = "initialize" => /\ k = n /\ n = 0 /\ ~begun /\ Flow(l, "parent") = <<>>
  PROVE  Down(m, base, begun, k)
<1> SUFFICES ASSUME Open(m, "child") PROVE Down(m, base, begun, k)
  BY DEF Down
<1>1. PICK F, G : F = Flow(l, "parent") /\ G = Flow(m, "parent")
  OBVIOUS
<1>2. F \in Seq(Pieces) /\ G \in Seq(Pieces)
  BY <1>1, FlowParts, TheSides DEF Sends, Sound
<1>3. Open(l, "child") /\ Sent(F, G, kind, value)
  BY <1>1, TheSides DEF Sends, Open
<1>4. CASE kind = "message"
  <2>1. /\ Ordered(F, base, begun) /\ Below(F, "parent", n) /\ Whole(F, base, n)
        /\ begun \/ F # <<>>
    BY <1>1, <1>3, <1>4 DEF Down
  <2>2. \A i \in 1..Len(F) : F[i][1] \in {"message"} \cup Openers
    BY <2>1 DEF Below, Kinds, Openers
  <2>3. kind \notin Openers
    BY <1>4 DEF Openers
  <2>4. Ordered(G, base, begun) /\ Below(G, "parent", k) /\ Whole(G, base, k)
    BY <1>2, <1>3, <1>4, <2>1, <2>2, <2>3, SentKeeps
  <2>5. G # <<>>
    BY <1>2, <1>3 DEF Sent
  <2> QED
    BY <1>1, <2>4, <2>5 DEF Down
<1>5. CASE kind = "initialize"
  <2>1. F = <<>> /\ base = 0
    BY <1>1, <1>5
  <2>2. Ordered(F, base, begun) /\ Below(F, "parent", n) /\ Whole(F, base, n)
    BY <1>5, <2>1 DEF Ordered, Below, Whole
  <2>3. kind \in Openers /\ kind # "message"
    BY <1>5 DEF Openers
  <2>3a. k = n /\ n = 0 /\ ~begun
    BY <1>5
  <2>4. Ordered(G, base, begun) /\ Below(G, "parent", k) /\ Whole(G, base, k)
    <3>1. /\ kind = "message" => /\ value = n + 1 /\ k = n + 1 /\ (F = <<>> => begun)
                                 /\ \A i \in 1..Len(F) : F[i][1] \in {"message"} \cup Openers
          /\ kind # "message" => k = n
          /\ kind \in Openers => F = <<>> /\ ~begun /\ n = 0
          /\ kind \notin Openers => begun \/ F # <<>>
      BY <2>1, <2>3, <2>3a
    <3> QED
      BY <1>2, <1>3, <2>2, <3>1, SentKeeps
  <2>5. G # <<>>
    BY <1>2, <1>3 DEF Sent
  <2> QED
    BY <1>1, <2>4, <2>5 DEF Down
<1> QED
  BY <1>4, <1>5 DEF Kinds

UpSent(l, m, kind, base, begun, k, all) ==
  /\ Up(m, base, begun, k, all)
  /\ Open(l, "parent") => /\ Flow(m, "child") # <<>>
                          /\ \A x : Has(m, x) => Has(l, x) \/ x = kind

\* The child says that it is online, sends its next message, or its last words.
LEMMA UpSends ==
  ASSUME NEW l, NEW m, NEW kind \in Kinds("child"), NEW value \in Nat, Sound(l),
         Sends(l, m, "child", kind, value), Open(l, "child"), NEW all,
         NEW base \in Nat, NEW begun \in BOOLEAN, NEW n \in Nat, NEW k \in Nat, base <= n,
         Up(l, base, begun, n, all),
         kind = "message" => /\ value = n + 1 /\ k = n + 1
                             /\ Open(l, "parent") => ~Has(l, "closed") /\ ~Has(l, "failure"),
         kind # "message" => k = n,
         kind = "online" => /\ n = 0 /\ ~begun
                            /\ Open(l, "parent") => Flow(l, "child") = <<>>,
         (kind # "online" /\ Open(l, "parent")) => begun \/ Flow(l, "child") # <<>>
  PROVE  UpSent(l, m, kind, base, begun, k, all)
<1> SUFFICES ASSUME Open(l, "parent")
             PROVE  /\ Up(m, base, begun, k, all) /\ Flow(m, "child") # <<>>
                    /\ \A x : Has(m, x) => Has(l, x) \/ x = kind
  BY TheSides DEF Up, Sends, Open, UpSent
<1>1. PICK F, G : F = Flow(l, "child") /\ G = Flow(m, "child")
  OBVIOUS
<1>2. F \in Seq(Pieces) /\ G \in Seq(Pieces)
  BY <1>1, FlowParts, TheSides DEF Sends, Sound
<1>3. Sent(F, G, kind, value)
  BY <1>1, TheSides DEF Sends
<1>4. Ordered(F, base, begun) /\ Below(F, "child", n) /\ Whole(F, base, n)
  BY <1>1 DEF Up
<1>5. kind = "message" => \A i \in 1..Len(F) : F[i][1] \in {"message"} \cup Openers
  BY <1>1, <1>4 DEF Below, Kinds, Openers, Has
<1>6. /\ kind \in Openers <=> kind = "online"
      /\ kind = "message" => kind # "online"
  BY DEF Kinds, Openers
<1>7. /\ kind = "message" => (F = <<>> => begun)
      /\ kind \in Openers => F = <<>> /\ ~begun /\ n = 0
      /\ kind \notin Openers => begun \/ F # <<>>
  BY <1>1, <1>6
<1>8. Ordered(G, base, begun) /\ Below(G, "child", k) /\ Whole(G, base, k)
  BY <1>2, <1>3, <1>4, <1>5, <1>7, SentKeeps
<1>9. G # <<>>
  BY <1>2, <1>3 DEF Sent
<1>10. ASSUME NEW x, Has(m, x) PROVE Has(l, x) \/ x = kind
  <2>1. PICK i \in 1..Len(G) : G[i][1] = x
    BY <1>1, <1>10 DEF Has
  <2>2. i \in 1..Len(F) \/ i = Len(F) + 1 \/ i = Len(F) + 2
    BY <1>2, <1>3 DEF Sent
  <2>3. G[Len(F) + 1][1] = kind /\ G[Len(F) + 2][1] = kind
    BY <1>3 DEF Sent
  <2> QED
    BY <1>1, <1>3, <2>1, <2>2, <2>3 DEF Has, Sent
<1> QED
  BY <1>1, <1>8, <1>9, <1>10 DEF Up

\* The child's end is closed.
UpShut(l, m, base, begun, n, more) ==
  /\ Up(m, base, begun, n, more) /\ Open(m, "parent") = Open(l, "parent")
  /\ \A x : Has(m, x) => Has(l, x)

\* Once the child's end is closed its parent can still read all that had left.
LEMMA UpShuts ==
  ASSUME NEW l, NEW m, Sound(l), Shuts(l, m, "child"), NEW base, NEW begun, NEW n, NEW all,
         NEW more, Up(l, base, begun, n, all),
         (Open(l, "parent") /\ more) => l.end["child"].out = <<>> /\ (Open(l, "child") \/ all)
  PROVE  UpShut(l, m, base, begun, n, more)
<1>1. PICK F, G : F = Flow(l, "child") /\ G = Flow(m, "child")
  OBVIOUS
<1>2. F \in Seq(Pieces) /\ G \in Seq(Pieces)
  BY <1>1, FlowParts, TheSides DEF Shuts, Sound
<1>3. Cut(F, G) /\ (l.end["child"].out = <<>> => G = F) /\ ~Open(m, "child")
      /\ Open(m, "parent") = Open(l, "parent")
  BY <1>1, TheSides DEF Shuts, Open
<1>4. ASSUME Open(l, "parent")
      PROVE  Ordered(G, base, begun) /\ Below(G, "child", n)
  <2>1. Ordered(F, base, begun) /\ Below(F, "child", n)
    BY <1>1, <1>4 DEF Up
  <2> QED
    BY <1>2, <1>3, <2>1, CutKeeps
<1>5. ASSUME Open(l, "parent"), more PROVE Whole(G, base, n)
  BY <1>1, <1>3, <1>5 DEF Up
<1>6. Up(m, base, begun, n, more)
  BY <1>1, <1>3, <1>4, <1>5 DEF Up
<1>7. \A x : Has(m, x) => Has(l, x)
  <2>1. \A i \in 1..Len(G) : i \in 1..Len(F)
    BY <1>2, <1>3 DEF Cut
  <2> QED
    BY <1>1, <1>3, <2>1 DEF Has, Cut
<1> QED
  BY <1>3, <1>6, <1>7 DEF UpShut

\* The parent's end is closed.
LEMMA DownShuts ==
  ASSUME NEW l, NEW m, Sound(l), Shuts(l, m, "parent"), NEW base, NEW begun, NEW n,
         Down(l, base, begun, n)
  PROVE  Down(m, base, begun, n)
<1> SUFFICES ASSUME Open(m, "child") PROVE Down(m, base, begun, n)
  BY DEF Down
<1>1. PICK F, G : F = Flow(l, "parent") /\ G = Flow(m, "parent")
  OBVIOUS
<1>2. F \in Seq(Pieces) /\ G \in Seq(Pieces)
  BY <1>1, FlowParts, TheSides DEF Shuts, Sound
<1>3. Cut(F, G) /\ ~Open(m, "parent") /\ Open(l, "child")
  BY <1>1, TheSides DEF Shuts, Open
<1>4. Ordered(F, base, begun) /\ Below(F, "parent", n)
  BY <1>1, <1>3 DEF Down
<1>5. Ordered(G, base, begun) /\ Below(G, "parent", n)
  BY <1>2, <1>3, <1>4, CutKeeps
<1> QED
  BY <1>1, <1>3, <1>5 DEF Down
-----------------------------------------------------------------------------
(***************************************************************************)
(* The steps.                                                              *)
(***************************************************************************)

\* What the invariant says of the types, in the form the steps use.
Kinded ==
  /\ Sound(link) /\ port["parent"] \in Ports /\ port["child"] \in Ports
  /\ Online \in BOOLEAN /\ port["parent"].closed \in BOOLEAN /\ port["parent"].exited \in BOOLEAN
  /\ Begun \in BOOLEAN /\ process.phase \in Phases /\ process.code \in {0, 1}
  /\ posted["parent"] \in Nat /\ posted["child"] \in Nat
  /\ seen \in Seq(Happenings) /\ taken \in Seq(Nat) /\ Len(taken) \in Nat /\ Received \in Nat

\* The type invariant gives the types of its parts.
LEMMA TypesKnown == Typed => Kinded
<1> SUFFICES ASSUME Typed PROVE Kinded
  OBVIOUS
<1>1. /\ Sound(link) /\ port["parent"] \in Ports /\ port["child"] \in Ports
      /\ process.phase \in Phases /\ process.code \in {0, 1}
      /\ posted["parent"] \in Nat /\ posted["child"] \in Nat
      /\ seen \in Seq(Happenings) /\ taken \in Seq(Nat) /\ Len(taken) \in Nat
  BY TheSides DEF Typed
<1>2. Online \in BOOLEAN /\ port["parent"].closed \in BOOLEAN /\ port["parent"].exited \in BOOLEAN
  BY <1>1 DEF Ports, Online
<1>3. Begun \in BOOLEAN
  BY DEF Begun
<1>4. Received \in Nat
  <2>1. PICK k : k = Len(seen)
    OBVIOUS
  <2>2. k \in Nat
    BY <1>1, <2>1
  <2>3. IsFiniteSet(1..k)
    BY <2>2, FS_Interval
  <2>4. Cardinality({i \in 1..k : seen[i][1] = "message"}) \in Nat
    BY <2>3, FS_Subset, FS_CardinalityType
  <2> QED
    BY <2>1, <2>4 DEF Received, Messages
<1> QED
  BY <1>1, <1>2, <1>3, <1>4 DEF Kinded

\* A step after which the same is on its way, and of which the parent's program
\* sees nothing.
CalmPort ==
  /\ port' \in [Sides -> Ports]
  /\ port'["parent"].online = port["parent"].online
  /\ port'["parent"].closed = port["parent"].closed
  /\ port'["parent"].exited = port["parent"].exited
  /\ port["child"].closing => port'["child"].closing
\* The child's process goes on, and is no nearer to its end.
CalmProcess ==
  /\ process' \in [phase : Phases, code : {0, 1}]
  /\ Begun' = Begun /\ Ending' = Ending /\ (Dead(process))' = Dead(process)
  /\ Running' => Running
  /\ Doomed => Doomed'
Calm ==
  /\ CalmPort
  /\ UNCHANGED <<process, handled, loop, posted, seen, taken, flushed, unread>>

\* A calm step keeps the invariant.
LEMMA TurnKeeps ==
  ASSUME Inv, CalmPort, CalmProcess,
         UNCHANGED <<handled, loop, posted, seen, taken, flushed, unread>>,
         NEW s \in Sides, Moves(link, link', s)
  PROVE  Inv'
<1>1. Kinded
  BY TypesKnown DEF Inv
<1>2. Alike(link, link') /\ Sound(link')
  BY MovesAlike DEF Moves
<1>3. /\ Begun' = Begun /\ Online' = Online /\ Ending' = Ending /\ (Doomed => Doomed')
      /\ (Running' => Running) /\ Dead(process)' = Dead(process)
      /\ Received' = Received /\ Wrong' = Wrong
  BY DEF CalmPort, CalmProcess, Online, Received, Messages, Wrong, Errors
<1>4. Typed'
  BY <1>2 DEF Inv, Typed, CalmProcess, CalmPort
<1>5. ToChild'
  <2>1. Down(link', Len(taken), Begun, posted["parent"])
    BY <1>2, AlikeKeeps DEF Inv, ToChild
  <2>2. Down(link, Len(taken), Begun, posted["parent"])'
    BY <1>3, <2>1 DEF CalmPort
  <2> QED
    BY <2>2 DEF Inv, ToChild, CalmPort, Upto
<1>6. ToParent'
  <2>1. Up(link', Received, Online, posted["child"], flushed # "no")
    BY <1>2, AlikeKeeps DEF Inv, ToParent
  <2>2. Up(link, Received, Online, posted["child"], flushed # "no")'
    BY <1>3, <2>1 DEF CalmPort
  <2> QED
    BY <1>2, <1>3, <2>2 DEF Inv, ToParent, CalmPort, Alike
<1>7. LastWords'
  BY <1>2, <1>3 DEF Inv, LastWords, CalmPort, Alike, Has
<1>8. Ends'
  BY <1>2, <1>3 DEF Inv, Ends, CalmPort, Alike
<1>9. SeenWell'
  BY <1>3 DEF Inv, SeenWell, CalmPort, EventsWell, Messages
<1>10. Faults'
  <2>1. ASSUME Open(link', "parent"), flushed = "clean", Faulty(link') PROVE unread
    <3>1. Open(link, "parent")
      BY <1>2, <2>1 DEF Alike
    <3>2. Up(link, Received, Online, posted["child"], TRUE)
      BY <2>1 DEF Inv, ToParent
    <3>3. Faulty(link)
      BY <1>1, <2>1, <3>1, <3>2, MovesFault DEF Kinded
    <3> QED
      BY <2>1, <3>1, <3>3 DEF Inv, Faults
  <2> QED
    BY <1>3, <2>1 DEF Inv, Faults, CalmPort
<1>11. Delivered'
  BY <1>3 DEF Inv, Delivered, CalmPort
<1> QED
  BY <1>4, <1>5, <1>6, <1>7, <1>8, <1>9, <1>10, <1>11 DEF Inv

\* So does one that only moves what is on its way.
LEMMA CalmKeeps ==
  ASSUME Inv, Calm, NEW s \in Sides, Moves(link, link', s)
  PROVE  Inv'
<1>1. CalmProcess
  BY DEF Inv, Typed, Calm, CalmProcess, Begun, Ending, Dead, Running, Doomed
<1> QED
  BY <1>1, TurnKeeps DEF Calm

\* One port is changed, in fields that do not matter here.
LEMMA PortChanged ==
  ASSUME port \in [Sides -> Ports], NEW s \in Sides, NEW p \in Ports,
         p.online = port[s].online, s = "parent" => p.closed = port[s].closed,
         p.exited = port[s].exited, port[s].closing => p.closing,
         port' = [port EXCEPT ![s] = p]
  PROVE  CalmPort
<1>1. port' \in [Sides -> Ports]
  OBVIOUS
<1>2. CASE s = "parent"
  BY <1>1, <1>2, TheSides DEF CalmPort
<1>3. CASE s = "child"
  BY <1>1, <1>3, TheSides DEF CalmPort
<1> QED
  BY <1>2, <1>3 DEF Sides

\* ref, unref, the listeners and start change nothing that matters here.
LEMMA QuietKeeps ==
  ASSUME Inv, link' = link,
         UNCHANGED <<process, handled, loop, posted, seen, taken, flushed, unread>>,
         \/ ParentRefs \/ ChildRefs \/ ChildListens \/ off_callable \/ start
  PROVE  Inv'
<1>1. port \in [Sides -> Ports] /\ port["parent"] \in Ports /\ port["child"] \in Ports
  BY TheSides DEF Inv, Typed
<1>2. \A s \in Sides : ref_chain(s) \/ unref_chain(s) => CalmPort
  <2> SUFFICES ASSUME NEW s \in Sides, NEW v \in BOOLEAN,
                      port' = [port EXCEPT ![s].referenced = v]
               PROVE  CalmPort
    BY DEF ref_chain, unref_chain
  <2>1. PICK p : p = [port[s] EXCEPT !.referenced = v]
    OBVIOUS
  <2>2. /\ p \in Ports /\ p.online = port[s].online /\ p.closed = port[s].closed
        /\ p.exited = port[s].exited /\ p.closing = port[s].closing
    BY <1>1, <2>1 DEF Ports
  <2>3. port' = [port EXCEPT ![s] = p]
    BY <2>1
  <2> QED
    BY <1>1, <2>2, <2>3, PortChanged
<1>3. ChildListens => CalmPort
  <2> SUFFICES ASSUME ChildListens PROVE CalmPort
    OBVIOUS
  <2>0. PICK b \in BOOLEAN : b = (port["child"].started \/ ~port["child"].closed)
    BY <1>1 DEF Ports
  <2>1. PICK p : p = [port["child"] EXCEPT !.started = b, !.referenced = TRUE]
    OBVIOUS
  <2>2. /\ p \in Ports /\ p.online = port["child"].online
        /\ p.exited = port["child"].exited /\ p.closing = port["child"].closing
    BY <1>1, <2>1 DEF Ports
  <2>3. port' = [port EXCEPT !["child"] = p]
    BY <1>1, <2>0, <2>1, TheSides DEF ChildListens
  <2> QED
    BY <1>1, <2>2, <2>3, PortChanged, TheSides
<1>4. start => CalmPort
  <2> SUFFICES ASSUME start PROVE CalmPort
    OBVIOUS
  <2>1. PICK p : p = [port["child"] EXCEPT !.started = TRUE]
    OBVIOUS
  <2>2. /\ p \in Ports /\ p.online = port["child"].online
        /\ p.exited = port["child"].exited /\ p.closing = port["child"].closing
    BY <1>1, <2>1 DEF Ports
  <2>3. port' = [port EXCEPT !["child"] = p]
    BY <2>1 DEF start
  <2> QED
    BY <1>1, <2>2, <2>3, PortChanged, TheSides
<1>5. Calm
  BY <1>2, <1>3, <1>4, TheSides DEF Calm, ParentRefs, ChildRefs, off_callable
<1>6. Moves(link, link', "child")
  BY Stays, TheSides DEF Inv, Typed
<1> QED
  BY <1>5, <1>6, CalmKeeps, TheSides

\* The child takes a message.
LEMMA TakeKeeps ==
  ASSUME Inv, Begun, NEW m, Moves(link, m, "child"), complete(m.end["child"]),
         link' = consume(m, "child"),
         taken' = Append(taken, m.end["child"].incoming[1][2]),
         CalmPort, UNCHANGED <<process, handled, loop, posted, seen, flushed, unread>>
  PROVE  Inv'
<1>1. Kinded
  BY TypesKnown DEF Inv
<1>2. Alike(link, m) /\ Sound(m)
  BY MovesAlike, TheSides DEF Moves
<1>3. Down(m, Len(taken), Begun, posted["parent"])
  BY <1>2, AlikeKeeps DEF Inv, ToChild
<1>4. PICK value : value = m.end["child"].incoming[1][2]
  OBVIOUS
<1>5. PICK k \in Nat : k = Len(taken)
  BY <1>1 DEF Kinded
<1>5a. ChildTook(m, link', value, k, Begun, posted["parent"])
  BY <1>1, <1>2, <1>3, <1>4, <1>5, ChildTakes DEF Kinded
<1>6. /\ Takes(m, link', "child") /\ value = k + 1 /\ k + 1 <= posted["parent"]
      /\ Down(link', k + 1, TRUE, posted["parent"])
  BY <1>5a DEF ChildTook
<1>7. /\ Sound(link') /\ Open(link', "child") = Open(link, "child")
      /\ Open(link', "parent") = Open(link, "parent")
      /\ Open(link, "parent") => Flow(link', "child") = Flow(link, "child")
      /\ Faulty(link') = Faulty(m)
  BY <1>2, <1>6, TheSides DEF Takes, Alike, Open, Faulty
<1>8. taken' \in Seq(Nat) /\ Len(taken') = k + 1 /\ taken' = Upto(k + 1)
  <2>1. taken = Upto(k) /\ taken \in Seq(Nat)
    BY <1>1, <1>5 DEF Inv, ToChild, Kinded
  <2>2. taken' = Append(taken, k + 1)
    BY <1>4, <1>6
  <2>3. taken' \in Seq(Nat) /\ Len(taken') = k + 1
    BY <1>5, <2>1, <2>2, AppendProperties
  <2>4. \A i \in 1..(k + 1) : taken'[i] = i
    BY <1>5, <2>1, <2>2, AppendProperties DEF Upto
  <2>5. /\ Upto(k + 1) \in Seq(Nat) /\ Len(Upto(k + 1)) = k + 1
        /\ \A i \in 1..(k + 1) : Upto(k + 1)[i] = i
    BY DEF Upto
  <2> QED
    BY <2>3, <2>4, <2>5, SeqEqual
<1>9. /\ Begun' = Begun /\ Online' = Online /\ Ending' = Ending /\ Doomed' = Doomed
      /\ Running' = Running /\ Dead(process)' = Dead(process)
      /\ Received' = Received /\ Wrong' = Wrong
  BY DEF CalmPort, Begun, Online, Ending, Doomed, Running, Dead, Received, Messages, Wrong, Errors
<1>10. Typed'
  BY <1>7, <1>8 DEF Inv, Typed, CalmPort
<1>11. ToChild'
  BY <1>6, <1>8, <1>9 DEF ToChild, Upto, Begun
<1>12. ToParent'
  BY <1>7, <1>9 DEF Inv, ToParent, Up
<1>13. LastWords'
  BY <1>7, <1>9 DEF Inv, LastWords, CalmPort, Has
<1>14. Ends'
  BY <1>7, <1>9 DEF Inv, Ends, CalmPort
<1>15. SeenWell'
  BY <1>9 DEF Inv, SeenWell, CalmPort, EventsWell, Messages
<1>16. Faults'
  <2>1. ASSUME Open(link', "parent"), flushed = "clean", Faulty(link') PROVE unread
    <3>1. Open(link, "parent")
      BY <1>7, <2>1
    <3>2. Up(link, Received, Online, posted["child"], TRUE)
      BY <2>1 DEF Inv, ToParent
    <3>3. Faulty(link)
      BY <1>1, <1>7, <2>1, <3>1, <3>2, MovesFault, TheSides DEF Kinded
    <3> QED
      BY <2>1, <3>1, <3>3 DEF Inv, Faults
  <2> QED
    BY <1>9, <2>1 DEF Inv, Faults
<1>17. Delivered'
  BY <1>9 DEF Inv, Delivered, CalmPort
<1> QED
  BY <1>10, <1>11, <1>12, <1>13, <1>14, <1>15, <1>16, <1>17 DEF Inv

\* The events stay well when none is added.
LEMMA SeenKeeps ==
  ASSUME SeenWell, CalmPort, seen' = seen, loop' = loop
  PROVE  SeenWell'
<1>1. Online' = Online /\ port'["parent"].exited = port["parent"].exited
  BY DEF CalmPort, Online
<1>2. EventsWell(seen', Online', port'["parent"].exited)
  BY <1>1 DEF SeenWell
<1> QED
  BY <1>1, <1>2 DEF SeenWell, CalmPort

\* The child sends a message, a closed or a failure frame.
LEMMA ChildSent ==
  ASSUME Inv, Running, ~refuses(link, "child"),
         NEW kind \in {"message", "closed", "failure"}, NEW value \in Nat,
         link' = send(link, "child", kind, value),
         posted' = IF kind = "message" THEN [posted EXCEPT !["child"] = value] ELSE posted,
         kind = "message" => ~port["child"].closing /\ value = posted["child"] + 1,
         CalmPort,
         (kind = "closed" /\ Open(link', "parent")) => port'["child"].closing,
         process' \in [phase : {"running", "completing", "raising"}, code : {0, 1}],
         kind = "failure" => Doomed', kind # "failure" => process' = process,
         UNCHANGED <<handled, loop, seen, taken, flushed, unread>>
  PROVE  Inv'
<1>1. Kinded
  BY TypesKnown DEF Inv
<1>2. /\ Begun /\ ~Ending /\ ~Doomed /\ flushed = "no" /\ ~Wrong
      /\ ~port["parent"].closed /\ ~port["parent"].exited
  BY DEF Inv, Ends, Faults, Running, Begun, Ending, Doomed
<1>3. Begun' /\ ~Ending' /\ (Doomed' => kind = "failure") /\ ~Dead(process)'
  BY <1>2 DEF Begun, Ending, Doomed, Dead
<1>4. Sends(link, link', "child", kind, value)
  BY <1>1, SendSends, TheSides DEF Kinded, Kinds
<1>5. Open(link, "child")
  BY DEF refuses, closed, Open
<1>6. /\ Sound(link') /\ Open(link', "child") /\ Open(link', "parent") = Open(link, "parent")
      /\ Flow(link', "parent") = Flow(link, "parent")
  BY <1>4, <1>5, TheSides DEF Sends, Open
<1>7. PICK n \in Nat, k \in Nat : n = posted["child"] /\ k = posted'["child"]
  <2>1. posted'["child"] \in Nat
    BY <1>1, TheSides DEF Inv, Typed, Kinded
  <2> QED
    BY <1>1, <2>1 DEF Kinded
<1>7a. /\ posted' \in [Sides -> Nat] /\ posted'["parent"] = posted["parent"]
       /\ kind = "message" => value = n + 1 /\ k = n + 1
       /\ kind # "message" => k = n
  BY <1>1, <1>7, TheSides DEF Inv, Typed, Kinded
<1>8. /\ Up(link, Received, Online, n, FALSE) /\ Received <= n
      /\ Open(link, "parent") => Online \/ Flow(link, "child") # <<>>
  BY <1>2, <1>5, <1>7 DEF Inv, ToParent
<1>9. Open(link, "parent") => /\ Has(link, "closed") => port["child"].closing
                              /\ ~Has(link, "failure")
  BY <1>2, <1>5 DEF Inv, LastWords
<1>10. /\ Up(link', Received, Online, k, FALSE)
       /\ Open(link, "parent") => /\ Flow(link', "child") # <<>>
                                  /\ \A x : Has(link', x) => Has(link, x) \/ x = kind
  <2>1. kind \in Kinds("child") /\ kind # "online"
    BY DEF Kinds
  <2>2. kind = "message" => /\ value = n + 1 /\ k = n + 1
                            /\ Open(link, "parent") => ~Has(link, "closed") /\ ~Has(link, "failure")
    BY <1>7a, <1>9
  <2>3. Sound(link) /\ Online \in BOOLEAN /\ Received \in Nat
    BY <1>1 DEF Kinded
  <2>4. (kind # "online" /\ Open(link, "parent")) => Online \/ Flow(link, "child") # <<>>
    BY <1>8
  <2>5. UpSent(link, link', kind, Received, Online, k, FALSE)
    <3>0. PICK all \in BOOLEAN : ~all
      OBVIOUS
    <3>1. PICK l, m, base, begun : l = link /\ m = link' /\ base = Received /\ begun = Online
      OBVIOUS
    <3>2. /\ Sound(l) /\ Sends(l, m, "child", kind, value) /\ Open(l, "child")
          /\ base \in Nat /\ begun \in BOOLEAN /\ base <= n /\ Up(l, base, begun, n, all)
      BY <1>4, <1>5, <1>8, <2>3, <3>0, <3>1 DEF Up
    <3>3. /\ kind = "message" => /\ value = n + 1 /\ k = n + 1
                                 /\ Open(l, "parent") => ~Has(l, "closed") /\ ~Has(l, "failure")
          /\ kind # "message" => k = n
          /\ kind = "online" => /\ n = 0 /\ ~begun
                                /\ Open(l, "parent") => Flow(l, "child") = <<>>
          /\ (kind # "online" /\ Open(l, "parent")) => begun \/ Flow(l, "child") # <<>>
      BY <1>7a, <2>1, <2>2, <2>4, <3>1
    <3>4. UpSent(l, m, kind, base, begun, k, all)
      BY <2>1, <3>2, <3>3, UpSends
    <3> QED
      BY <3>0, <3>1, <3>4 DEF UpSent, Up
  <2> QED
    BY <2>5 DEF UpSent
<1>11. /\ Online' = Online /\ Received' = Received /\ Wrong' = Wrong
  BY DEF CalmPort, Online, Received, Messages, Wrong, Errors
<1>12. Typed'
  BY <1>6, <1>7a DEF Inv, Typed, CalmPort, Phases
<1>13. ToChild'
  <2>1. Down(link', Len(taken), Begun, posted["parent"])
    BY <1>5, <1>6 DEF Inv, ToChild, Down
  <2>2. Down(link, Len(taken), Begun, posted["parent"])'
    BY <1>2, <1>3, <1>7a, <2>1
  <2> QED
    BY <1>7a, <2>2 DEF Inv, ToChild, Upto
<1>14. ToParent'
  <2>1. Received <= k
    BY <1>1, <1>7, <1>7a, <1>8 DEF Kinded
  <2>2. Up(link, Received, Online, posted["child"], flushed # "no")'
    BY <1>2, <1>7, <1>10, <1>11
  <2>3. Open(link', "parent") => Flow(link', "child") # <<>>
    BY <1>6, <1>10
  <2> QED
    BY <1>3, <1>7, <1>11, <2>1, <2>2, <2>3 DEF ToParent
<1>15. LastWords'
  BY <1>2, <1>6, <1>9, <1>10 DEF LastWords, CalmPort, Has
<1>16. Ends'
  BY <1>2, <1>3, <1>6 DEF Inv, Ends, CalmPort
<1>17. SeenWell'
  BY SeenKeeps DEF Inv
<1>18. Faults'
  BY <1>2, <1>11 DEF Faults
<1>19. Delivered'
  BY <1>2 DEF Delivered
<1> QED
  BY <1>12, <1>13, <1>14, <1>15, <1>16, <1>17, <1>18, <1>19 DEF Inv

\* Nothing changes but what does not matter.
LEMMA SameKeeps ==
  ASSUME Inv, link' = link, CalmPort,
         UNCHANGED <<process, handled, loop, posted, seen, taken, flushed, unread>>
  PROVE  Inv'
<1>1. Moves(link, link', "child")
  BY Stays, TheSides DEF Inv, Typed
<1> QED
  BY <1>1, CalmKeeps, TheSides DEF Calm

\* An unchanged port is calm.
LEMMA PortsSame ==
  ASSUME Inv, port' = port
  PROVE  CalmPort
BY DEF Inv, Typed, CalmPort

\* post_message of the child.
LEMMA ChildPostsKeeps == Inv /\ ChildPosts => Inv'
<1> SUFFICES ASSUME Inv, ChildPosts PROVE Inv'
  OBVIOUS
<1>1. CalmPort /\ Kinded
  BY PortsSame, TypesKnown DEF ChildPosts, Inv
<1>2. CASE refuses(link, "child")
  <2>1. link' = link /\ posted' = posted
    BY <1>2 DEF ChildPosts, post_message, send
  <2> QED
    BY <1>1, <2>1, SameKeeps DEF ChildPosts
<1>3. CASE ~refuses(link, "child")
  <2>1. PICK value \in Nat : value = posted["child"] + 1
    BY <1>1 DEF Kinded
  <2>2. /\ Running /\ link' = send(link, "child", "message", value)
        /\ posted' = [posted EXCEPT !["child"] = value]
        /\ ~port["child"].closing
        /\ UNCHANGED <<process, handled, loop, seen, taken, flushed, unread>>
    BY <1>3, <2>1 DEF ChildPosts, post_message
  <2>3. process' \in [phase : {"running", "completing", "raising"}, code : {0, 1}]
    BY <2>2 DEF Running, Inv, Typed
  <2> QED
    BY <1>1, <1>3, <2>1, <2>2, <2>3, ChildSent
<1> QED
  BY <1>2, <1>3

\* close of the child, told to the parent or raising.
LEMMA ChildClosesKeeps == Inv /\ ChildCloses => Inv'
<1> SUFFICES ASSUME Inv, ChildCloses PROVE Inv'
  OBVIOUS
<1>1. Kinded /\ Sound(link)
  BY TypesKnown DEF Inv, Kinded
<1>2. CalmPort
  <2>1. CASE port' = port
    BY <2>1, PortsSame
  <2>2. CASE port' = [port EXCEPT !["child"].closing = TRUE, !["child"].closed = TRUE]
    <3>1. PICK p : p = [port["child"] EXCEPT !.closing = TRUE, !.closed = TRUE]
      OBVIOUS
    <3>2. /\ p \in Ports /\ p.online = port["child"].online
          /\ p.exited = port["child"].exited /\ p.closing
      BY <1>1, <3>1 DEF Ports, Kinded
    <3>3. port' = [port EXCEPT !["child"] = p] /\ port \in [Sides -> Ports]
      BY <2>2, <3>1, TheSides DEF Inv, Typed
    <3> QED
      BY <3>2, <3>3, PortChanged, TheSides
  <2> QED
    BY <2>1, <2>2 DEF ChildCloses
<1>3. CASE closed(link, "child") \/ refuses(link, "child")
  <2>1. link' = link
    BY <1>3 DEF ChildCloses, send, refuses
  <2> QED
    BY <1>2, <2>1, SameKeeps DEF ChildCloses
<1>4. CASE ~closed(link, "child") /\ ~refuses(link, "child")
  <2>1. /\ link' = send(link, "child", "closed", 0) /\ Running
        /\ UNCHANGED <<process, handled, loop, posted, seen, taken, flushed, unread>>
    BY <1>4 DEF ChildCloses
  <2>2. process' \in [phase : {"running", "completing", "raising"}, code : {0, 1}]
    BY <2>1 DEF Running, Inv, Typed
  <2>3. ASSUME Open(link', "parent") PROVE port'["child"].closing
    <3>1. Sends(link, link', "child", "closed", 0)
      BY <1>1, <1>4, <2>1, SendSends, TheSides DEF Kinds
    <3>2. ~link'.end["child"].failure /\ ~link'.end["child"].write_failure
      BY <2>3, <3>1, TheSides DEF Sends, Sound, Half
    <3>3. ~sendRaises(link, "child", "closed", 0)
      BY <1>4, <2>1, <3>2 DEF sendRaises
    <3>4. port' = [port EXCEPT !["child"].closing = TRUE, !["child"].closed = TRUE]
      BY <3>3 DEF ChildCloses
    <3> QED
      BY <3>4, TheSides DEF Inv, Typed, Ports
  <2> QED
    BY <1>2, <1>4, <2>1, <2>2, <2>3, ChildSent
<1> QED
  BY <1>3, <1>4

\* The child's failure frame is the last it sends.
LEMMA ChildRaisesKeeps == Inv /\ ChildRaises => Inv'
<1> SUFFICES ASSUME Inv, ChildRaises PROVE Inv'
  OBVIOUS
<1>1. CalmPort /\ Kinded
  BY PortsSame, TypesKnown DEF ChildRaises, Inv
<1>2. /\ process' \in [phase : {"completing", "raising"}, code : {1}] /\ Running
      /\ link' = send(link, "child", "failure", 0)
      /\ UNCHANGED <<handled, loop, posted, seen, taken, flushed, unread>>
  BY DEF ChildRaises
<1>3. Doomed'
  BY <1>2 DEF Doomed
<1>4. CASE ~refuses(link, "child")
  <2>1. process' \in [phase : {"running", "completing", "raising"}, code : {0, 1}]
    BY <1>2
  <2> QED
    BY <1>1, <1>2, <1>3, <1>4, <2>1, ChildSent
<1>5. CASE refuses(link, "child")
  <2>1. Moves(link, link', "child")
    BY <1>1, <1>2, <1>5, Stays, TheSides DEF send, Kinded
  <2>2. CalmProcess
    BY <1>2, <1>3 DEF CalmProcess, Phases, Begun, Ending, Dead, Running
  <2> QED
    BY <1>1, <1>2, <2>1, <2>2, TurnKeeps, TheSides
<1> QED
  BY <1>4, <1>5

\* post_message of the parent.
LEMMA ParentPostsKeeps == Inv /\ ParentPosts => Inv'
<1> SUFFICES ASSUME Inv, ParentPosts PROVE Inv'
  OBVIOUS
<1>1. CalmPort /\ Kinded
  BY PortsSame, TypesKnown DEF ParentPosts, Inv
<1>2. CASE refuses(link, "parent")
  <2>1. link' = link /\ posted' = posted
    BY <1>2 DEF ParentPosts, post_message, send
  <2> QED
    BY <1>1, <2>1, SameKeeps DEF ParentPosts
<1>3. CASE ~refuses(link, "parent")
  <2>1. PICK n \in Nat, value \in Nat : n = posted["parent"] /\ value = n + 1
    BY <1>1 DEF Kinded
  <2>2. /\ link' = send(link, "parent", "message", value)
        /\ posted' = [posted EXCEPT !["parent"] = value]
        /\ UNCHANGED <<port, process, handled, loop, seen, taken, flushed, unread>>
    BY <1>3, <2>1 DEF ParentPosts, post_message
  <2>3. Sends(link, link', "parent", "message", value)
    BY <1>1, <1>3, <2>2, SendSends, TheSides DEF Kinded, Kinds
  <2>4. Open(link, "parent")
    BY <1>3 DEF refuses, closed, Open
  <2>5. /\ Sound(link') /\ Open(link', "parent") /\ Open(link', "child") = Open(link, "child")
        /\ Flow(link', "child") = Flow(link, "child")
    BY <2>3, <2>4, TheSides DEF Sends, Open
  <2>6. posted' \in [Sides -> Nat] /\ posted'["parent"] = n + 1 /\ posted'["child"] = posted["child"]
    BY <2>1, <2>2, TheSides DEF Inv, Typed
  <2>7. Down(link', Len(taken), Begun, value)
    <3>1. PICK l, m, base, begun : l = link /\ m = link' /\ base = Len(taken) /\ begun = Begun
      OBVIOUS
    <3>2. /\ Sound(l) /\ Sends(l, m, "parent", "message", value) /\ Open(l, "parent")
          /\ base \in Nat /\ begun \in BOOLEAN /\ base <= n /\ Down(l, base, begun, n)
      BY <1>1, <2>1, <2>3, <2>4, <3>1 DEF Kinded, Inv, ToChild
    <3>3. "message" \in Kinds("parent") /\ "message" # "initialize"
      BY DEF Kinds
    <3>4. Down(m, base, begun, value)
      BY <2>1, <3>2, <3>3, DownSends
    <3> QED
      BY <3>1, <3>4
  <2>8. /\ Begun' = Begun /\ Online' = Online /\ Ending' = Ending /\ Doomed' = Doomed
        /\ Running' = Running /\ Dead(process)' = Dead(process)
        /\ Received' = Received /\ Wrong' = Wrong
    BY <2>2 DEF Begun, Online, Ending, Doomed, Running, Dead, Received, Messages, Wrong, Errors
  <2>9. Typed'
    BY <1>1, <2>2, <2>5, <2>6 DEF Inv, Typed, CalmPort
  <2>10. ToChild'
    <3>1. Down(link, Len(taken), Begun, posted["parent"])'
      BY <2>1, <2>2, <2>6, <2>7, <2>8
    <3>2. Len(taken) <= n /\ Len(taken) \in Nat /\ Len(taken) <= n + 1
      BY <1>1, <2>1 DEF Inv, ToChild, Kinded
    <3> QED
      BY <2>2, <2>6, <3>1, <3>2 DEF Inv, ToChild, Upto
  <2>11. ToParent'
    <3>1. Up(link, Received, Online, posted["child"], flushed # "no")'
      BY <2>2, <2>4, <2>5, <2>6, <2>8 DEF Inv, ToParent, Up
    <3> QED
      BY <2>2, <2>4, <2>5, <2>6, <2>8, <3>1 DEF Inv, ToParent
  <2>12. LastWords'
    BY <2>2, <2>4, <2>5, <2>8 DEF Inv, LastWords, Has
  <2>13. Ends'
    BY <2>2, <2>4, <2>5, <2>8 DEF Inv, Ends
  <2>14. SeenWell'
    BY <1>1, <2>2, SeenKeeps DEF Inv
  <2>15. Faults'
    <3>1. ASSUME flushed = "clean", Faulty(link') PROVE unread
      <4>1. ~Open(link, "child")
        BY <3>1 DEF Inv, Ends
      <4>2. Up(link, Received, Online, posted["child"], TRUE)
        BY <3>1 DEF Inv, ToParent
      <4>3. Len(Flow(link, "child")) # 1
        <5>1. Flow(link, "child") \in Seq(Pieces)
          BY <1>1, FlowParts, TheSides DEF Kinded, Sound
        <5> QED
          BY <2>4, <4>2, <5>1, NotOne DEF Up
      <4>4. Faulty(link)
        BY <3>1, <2>3, <4>3, TheSides DEF Sends, Faulty
      <4> QED
        BY <2>4, <3>1, <4>4 DEF Inv, Faults
    <3> QED
      BY <2>2, <2>8, <3>1 DEF Inv, Faults
  <2>16. Delivered'
    BY <2>2, <2>6, <2>8 DEF Inv, Delivered
  <2> QED
    BY <2>9, <2>10, <2>11, <2>12, <2>13, <2>14, <2>15, <2>16 DEF Inv
<1> QED
  BY <1>2, <1>3

\* receive_message_on_port takes the next message or none.
LEMMA receive_message_on_portKeeps == Inv /\ receive_message_on_port => Inv'
<1> SUFFICES ASSUME Inv, receive_message_on_port PROVE Inv'
  OBVIOUS
<1>1. CalmPort
  BY PortsSame DEF receive_message_on_port
<1>2. PICK read : read = progress(link, "child")
  OBVIOUS
<1>3. Moves(link, read, "child")
  BY <1>2, ProgressMoves, TheSides DEF Inv, Typed
<1>4. CASE ~broken(read, "child") /\ complete(read.end["child"])
  <2>1. /\ link' = consume(read, "child")
        /\ taken' = Append(taken, read.end["child"].incoming[1][2]) /\ Begun
        /\ UNCHANGED <<process, handled, loop, posted, seen, flushed, unread>>
    BY <1>2, <1>4 DEF receive_message_on_port, Running, Begun
  <2> QED
    BY <1>1, <1>3, <1>4, <2>1, TakeKeeps
<1>5. CASE ~(~broken(read, "child") /\ complete(read.end["child"]))
  <2>1. link' = read /\ Calm
    BY <1>1, <1>2, <1>5 DEF receive_message_on_port, Calm
  <2> QED
    BY <1>3, <2>1, CalmKeeps, TheSides
<1> QED
  BY <1>4, <1>5

\* The child gives up a link on which nobody is left to talk to.
LEMMA BrokenKeeps ==
  ASSUME Inv, Running, NEW m, Moves(link, m, "child"), broken(m, "child"),
         link' = close(m, "child"), CalmPort,
         UNCHANGED <<process, handled, loop, posted, seen, taken, flushed, unread>>
  PROVE  Inv'
<1>1. Alike(link, m) /\ Sound(m)
  BY MovesAlike, TheSides DEF Moves
<1>2. ~Open(link, "parent")
  <2>1. CASE ~Open(m, "child")
    BY <1>1, <2>1 DEF Alike, Inv, Ends, Ending, Running
  <2>2. CASE m.end["child"].failure
    BY <1>1, <2>2, TheSides DEF Alike, Sound, Half
  <2> QED
    BY <2>1, <2>2 DEF broken, Open
<1>3. Shuts(m, link', "child")
  BY <1>1, CloseShuts, TheSides
<1>4. Sound(link') /\ ~Open(link', "child") /\ ~Open(link', "parent")
  BY <1>1, <1>2, <1>3, TheSides DEF Shuts, Alike, Open
<1>5. /\ Begun' = Begun /\ Online' = Online /\ Ending' = Ending /\ Doomed' = Doomed
      /\ Running' = Running /\ Dead(process)' = Dead(process)
      /\ Received' = Received /\ Wrong' = Wrong
  BY DEF CalmPort, Begun, Online, Ending, Doomed, Running, Dead, Received, Messages, Wrong, Errors
<1>6. Typed'
  BY <1>4 DEF Inv, Typed, CalmPort
<1>7. ToChild' /\ ToParent'
  <2>1. Down(link, Len(taken), Begun, posted["parent"])'
    BY <1>4 DEF Down
  <2>2. Up(link, Received, Online, posted["child"], flushed # "no")'
    BY <1>4 DEF Up
  <2> QED
    BY <1>4, <1>5, <2>1, <2>2 DEF Inv, ToChild, ToParent, Upto
<1>8. LastWords' /\ Ends'
  BY <1>2, <1>4, <1>5 DEF Inv, LastWords, Ends, CalmPort
<1>9. SeenWell'
  BY SeenKeeps DEF Inv
<1>10. Faults' /\ Delivered'
  BY <1>4, <1>5 DEF Inv, Faults, Delivered, CalmPort
<1> QED
  BY <1>6, <1>7, <1>8, <1>9, <1>10 DEF Inv

\* A turn of the child's loop: it takes a message, gives the link up, or neither.
LEMMA ChildPollsKeeps == Inv /\ ChildPolls => Inv'
<1> SUFFICES ASSUME Inv, ChildPolls PROVE Inv'
  OBVIOUS
<1>1. Kinded
  BY TypesKnown DEF Inv
<1> DEFINE
  Turns(last, got, second, over, left, emits) ==
       /\ link' = last
       /\ taken' = IF got THEN Append(taken, second.end["child"].incoming[1][2]) ELSE taken
       /\ listening' = IF emits THEN "no" ELSE left
       /\ port' = [port EXCEPT !["child"].closed = over, !["child"].close_emitted = @ \/ emits,
                               !["child"].referenced = @ /\ (got => left # "no")]
  Told(p, second, fails, got, last, over, left) ==
     \E emits \in {over /\ ~p.close_emitted /\ (p.closed \/ ~fails)} :
       Turns(last, got, second, over, left, emits)
  Closed(p, second, fails, got, last) ==
     \E over \in {p.closed \/ fails \/ closed(last, "child")},
        left \in {IF got /\ listening = "once" THEN "no" ELSE listening} :
       Told(p, second, fails, got, last, over, left)
  Left(p, second, fails, got) ==
     \E last \in {IF fails THEN close(second, "child")
                  ELSE IF got THEN consume(second, "child") ELSE second} :
       Closed(p, second, fails, got, last)
  Got(p, second, fails) ==
     \E got \in {p.started /\ ~p.closed /\ ~fails /\ complete(second.end["child"])} :
       Left(p, second, fails, got)
  Failed(p, second) ==
     \E fails \in {(~p.closed \/ pending(link, "child")) /\ broken(second, "child")} :
       Got(p, second, fails)
  Read(p, first) ==
     \E second \in {IF p.started /\ ~p.closed THEN progress(first, "child") ELSE first} :
       Failed(p, second)
  Polled(p) ==
     \E first \in {IF p.closed /\ ~pending(link, "child") THEN link ELSE progress(link, "child")} :
       Read(p, first)
<1>0. \E p \in {port["child"]} : Polled(p)
  BY DEF ChildPolls
<1> HIDE DEF Polled, Read, Failed, Got, Left, Closed, Told, Turns
<1>2. PICK p : p = port["child"] /\ Polled(p)
  BY <1>0
<1>3. PICK first : first = (IF p.closed /\ ~pending(link, "child") THEN link
                            ELSE progress(link, "child")) /\ Read(p, first)
  BY <1>2 DEF Polled
<1>4. PICK second : second = (IF p.started /\ ~p.closed THEN progress(first, "child")
                              ELSE first) /\ Failed(p, second)
  BY <1>3 DEF Read
<1>5. PICK fails : /\ fails = ((~p.closed \/ pending(link, "child")) /\ broken(second, "child"))
                   /\ Got(p, second, fails)
  BY <1>4 DEF Failed
<1>6. PICK got : /\ got = (p.started /\ ~p.closed /\ ~fails /\ complete(second.end["child"]))
                 /\ Left(p, second, fails, got)
  BY <1>5 DEF Got
<1>7. PICK last : /\ last = IF fails THEN close(second, "child")
                            ELSE IF got THEN consume(second, "child") ELSE second
                  /\ Closed(p, second, fails, got, last)
  BY <1>6 DEF Left
<1>8. PICK over, left : /\ over = (p.closed \/ fails \/ closed(last, "child"))
                        /\ Told(p, second, fails, got, last, over, left)
  BY <1>7 DEF Closed
<1>8a. PICK emits : /\ emits = (over /\ ~p.close_emitted /\ (p.closed \/ ~fails))
                    /\ Turns(last, got, second, over, left, emits)
  BY <1>8 DEF Told
<1>8b. /\ link' = last
       /\ taken' = IF got THEN Append(taken, second.end["child"].incoming[1][2]) ELSE taken
       /\ port' = [port EXCEPT !["child"].closed = over, !["child"].close_emitted = @ \/ emits,
                               !["child"].referenced = @ /\ (got => left # "no")]
  BY <1>8a DEF Turns
<1>9. Running /\ Begun /\ UNCHANGED <<process, handled, loop, posted, seen, flushed, unread>>
  BY DEF ChildPolls, Running, Begun
<1>10. Moves(link, second, "child")
  <2>1. Moves(link, first, "child")
    BY <1>1, <1>3, ProgressMoves, Stays, TheSides DEF Kinded
  <2>2. Moves(first, second, "child")
    BY <1>4, <2>1, ProgressMoves, Stays, TheSides DEF Moves
  <2> QED
    BY <2>1, <2>2, MovesOn, TheSides
<1>11. CalmPort
  <2>1. PICK o \in BOOLEAN, e \in BOOLEAN, r \in BOOLEAN :
          /\ o = over /\ e = (p.close_emitted \/ emits)
          /\ r = (p.referenced /\ (got => left # "no"))
    <3>1. /\ over \in BOOLEAN /\ (p.close_emitted \/ emits) \in BOOLEAN
          /\ (p.referenced /\ (got => left # "no")) \in BOOLEAN
      BY <1>8, <1>8a
    <3> QED
      BY <3>1
  <2>2. PICK q : q = [p EXCEPT !.closed = o, !.close_emitted = e, !.referenced = r]
    OBVIOUS
  <2>3. /\ q \in Ports /\ q.online = port["child"].online
        /\ q.exited = port["child"].exited /\ q.closing = port["child"].closing
    <3>1. p \in Ports /\ p = port["child"]
      BY <1>1, <1>2 DEF Kinded
    <3>1a. o \in BOOLEAN /\ e \in BOOLEAN /\ r \in BOOLEAN
      OBVIOUS
    <3>1b. PICK q1 : q1 = [p EXCEPT !.closed = o]
      OBVIOUS
    <3>1c. PICK q2 : q2 = [q1 EXCEPT !.close_emitted = e]
      OBVIOUS
    <3>1d. q1 \in Ports
      BY ONLY <3>1, <3>1a, <3>1b DEF Ports
    <3>1e. q2 \in Ports
      BY ONLY <3>1a, <3>1c, <3>1d DEF Ports
    <3>1f. q = [q2 EXCEPT !.referenced = r]
      BY <2>2, <3>1b, <3>1c
    <3>2. q \in Ports
      BY ONLY <3>1a, <3>1e, <3>1f DEF Ports
    <3>3. q.online = p.online /\ q.exited = p.exited /\ q.closing = p.closing
      BY ONLY <2>2, <3>1 DEF Ports
    <3> QED
      BY <3>1, <3>2, <3>3
  <2>4. port' = [port EXCEPT !["child"] = q] /\ port \in [Sides -> Ports]
    BY <1>2, <1>8b, <2>1, <2>2, TheSides DEF Inv, Typed
  <2> QED
    BY <2>3, <2>4, PortChanged, TheSides
<1>12. CASE fails
  <2>1. link' = close(second, "child") /\ broken(second, "child") /\ taken' = taken
    BY <1>5, <1>6, <1>7, <1>8b, <1>12
  <2> QED
    BY <1>9, <1>10, <1>11, <2>1, BrokenKeeps
<1>13. CASE ~fails /\ got
  <2>1. /\ link' = consume(second, "child") /\ complete(second.end["child"])
        /\ taken' = Append(taken, second.end["child"].incoming[1][2])
    BY <1>6, <1>7, <1>8b, <1>13
  <2> QED
    BY <1>9, <1>10, <1>11, <2>1, TakeKeeps
<1>14. CASE ~fails /\ ~got
  <2>1. link' = second /\ taken' = taken
    BY <1>7, <1>8b, <1>14
  <2> QED
    BY <1>9, <1>10, <1>11, <2>1, CalmKeeps, TheSides DEF Calm
<1> QED
  BY <1>12, <1>13, <1>14

\* source_module_entry takes the initialization and says that it is online.
LEMMA source_module_entryKeeps == Inv /\ source_module_entry => Inv'
<1> SUFFICES ASSUME Inv, source_module_entry PROVE Inv'
  OBVIOUS
<1>1. CalmPort /\ Kinded
  BY PortsSame, TypesKnown DEF source_module_entry, Inv
<1>2. PICK read, c : read = progress(link, "child") /\ c = consume(read, "child")
  OBVIOUS
<1>3. /\ complete(read.end["child"]) /\ link' = send(c, "child", "online", 0)
      /\ process' = IF sendRaises(c, "child", "online", 0)
                    THEN [phase |-> "raising", code |-> 1] ELSE [process EXCEPT !.phase = "running"]
      /\ UNCHANGED <<port, handled, loop, posted, seen, taken, flushed, unread>>
      /\ process.phase = "starting"
  BY <1>2 DEF source_module_entry
<1>4. Moves(link, read, "child")
  BY <1>1, <1>2, ProgressMoves, TheSides DEF Kinded
<1>5. Alike(link, read) /\ Sound(read)
  BY <1>4, MovesAlike, TheSides DEF Moves
<1>6. /\ ~Begun /\ ~Ending /\ flushed = "no" /\ ~Wrong /\ ~port["parent"].closed
      /\ ~port["parent"].exited /\ ~Running /\ ~Dead(process)
  BY <1>3 DEF Inv, Ends, Faults, Running, Begun, Ending, Doomed, Dead
<1>7. /\ process' \in [phase : {"running", "raising"}, code : {0, 1}]
      /\ Begun' /\ ~Ending' /\ ~Dead(process)'
      /\ Running' => ~sendRaises(c, "child", "online", 0)
  BY <1>3 DEF Inv, Typed, Begun, Ending, Dead, Running
<1>8. PICK k \in Nat, n \in Nat : k = Len(taken) /\ n = posted["parent"]
  BY <1>1 DEF Kinded
<1>9. Down(read, k, Begun, n)
  <2>1. Down(link, k, Begun, n)
    BY <1>8 DEF Inv, ToChild
  <2> QED
    BY <1>5, <2>1, AlikeKeeps
<1>10. Takes(read, c, "child") /\ Down(c, k, TRUE, n)
  <2>1. ChildTook(read, c, read.end["child"].incoming[1][2], k, Begun, n)
    BY <1>1, <1>2, <1>3, <1>5, <1>8, <1>9, ChildTakes DEF Kinded
  <2> QED
    BY <1>6, <2>1 DEF ChildTook
<1>11. /\ Sound(c) /\ Open(c, "child") = Open(link, "child")
       /\ Open(c, "parent") = Open(link, "parent")
       /\ Open(link, "parent") => Flow(c, "child") = Flow(link, "child")
  BY <1>5, <1>10, TheSides DEF Takes, Alike, Open
<1>12. /\ ~Online /\ posted["child"] = 0 /\ Received = 0
       /\ Open(link, "parent") => Flow(link, "child") = <<>>
  BY <1>1, <1>6 DEF Inv, ToParent, Kinded
<1>13. Up(c, 0, Online, 0, FALSE)
  <2>1. Up(link, 0, Online, 0, FALSE)
    BY <1>6, <1>12 DEF Inv, ToParent
  <2> QED
    BY <1>11, <2>1 DEF Up
<1>14. /\ Sound(link') /\ Open(link', "child") = Open(link, "child")
       /\ Open(link', "parent") = Open(link, "parent")
       /\ Flow(link', "parent") = Flow(c, "parent")
       /\ Up(link', 0, Online, 0, FALSE)
       /\ Open(link, "parent") => ~Has(link', "closed") /\ ~Has(link', "failure")
       /\ (Open(link, "parent") /\ Running') => Flow(link', "child") # <<>>
  <2>0. Open(link, "parent") => ~Has(c, "closed") /\ ~Has(c, "failure")
    <3>1. Open(link, "parent") => Len(Flow(c, "child")) = 0
      BY <1>11, <1>12
    <3> QED
      BY <3>1 DEF Has
  <2>1. CASE refuses(c, "child")
    <3>1. link' = c /\ ~Running'
      BY <1>3, <1>7, <2>1 DEF send, sendRaises
    <3> QED
      BY <1>11, <1>13, <2>0, <3>1
  <2>2. CASE ~refuses(c, "child")
    <3>1. Sends(c, link', "child", "online", 0)
      BY <1>3, <1>11, <2>2, SendSends, TheSides DEF Kinds
    <3>2. Open(c, "child")
      BY <2>2 DEF refuses, closed, Open
    <3>3a. PICK all \in BOOLEAN : ~all
      OBVIOUS
    <3>3b. PICK l, m, begun : l = c /\ m = link' /\ begun = Online
      OBVIOUS
    <3>3. l = c /\ m = link' /\ begun = Online /\ ~all
      BY <3>3a, <3>3b
    <3>4. /\ Sound(l) /\ Sends(l, m, "child", "online", 0) /\ Open(l, "child")
          /\ begun \in BOOLEAN /\ ~begun /\ Up(l, 0, begun, 0, all)
          /\ Open(l, "parent") => Flow(l, "child") = <<>>
      BY <1>1, <1>11, <1>12, <1>13, <3>1, <3>2, <3>3 DEF Up, Kinded
    <3>5. "online" \in Kinds("child") /\ "online" # "message" /\ 0 \in Nat
      BY DEF Kinds
    <3>6. UpSent(l, m, "online", 0, begun, 0, all)
      BY <3>4, <3>5, UpSends
    <3>7. Up(link', 0, Online, 0, FALSE)
      BY <3>3, <3>6 DEF UpSent, Up
    <3>8. Open(c, "parent") => /\ Flow(link', "child") # <<>>
                               /\ \A x : Has(link', x) => Has(c, x) \/ x = "online"
      BY <3>3, <3>6 DEF UpSent
    <3>9. /\ Sound(link') /\ Open(link', "child") = Open(c, "child")
          /\ Open(link', "parent") = Open(c, "parent") /\ Flow(link', "parent") = Flow(c, "parent")
      BY <3>1, TheSides DEF Sends, Open
    <3>10. Open(c, "parent") => ~Has(link', "closed") /\ ~Has(link', "failure")
      BY <1>11, <2>0, <3>8
    <3> QED
      BY <1>11, <3>7, <3>8, <3>9, <3>10
  <2> QED
    BY <2>1, <2>2
<1>15. /\ Online' = Online /\ Received' = Received /\ Wrong' = Wrong
  BY <1>3 DEF Online, Received, Messages, Wrong, Errors
<1>16. Typed'
  BY <1>3, <1>7, <1>14 DEF Inv, Typed, Phases
<1>17. ToChild'
  <2>1. Down(link', k, TRUE, n)
    BY <1>10, <1>11, <1>14 DEF Down
  <2>2. Down(link, Len(taken), Begun, posted["parent"])'
    BY <1>3, <1>7, <1>8, <2>1
  <2> QED
    BY <1>3, <2>2 DEF Inv, ToChild, Upto
<1>18. ToParent'
  <2>1. Up(link, Received, Online, posted["child"], flushed # "no")'
    BY <1>3, <1>6, <1>12, <1>14, <1>15
  <2> QED
    BY <1>3, <1>7, <1>12, <1>14, <1>15, <2>1 DEF ToParent
<1>19. LastWords'
  BY <1>14 DEF LastWords, Has
<1>20. Ends'
  BY <1>3, <1>6, <1>7, <1>14 DEF Inv, Ends
<1>21. SeenWell'
  BY <1>1, <1>3, SeenKeeps DEF Inv
<1>22. Faults' /\ Delivered'
  BY <1>3, <1>6, <1>15 DEF Faults, Delivered
<1> QED
  BY <1>16, <1>17, <1>18, <1>19, <1>20, <1>21, <1>22 DEF Inv

\* The child's process ends, and its end is closed for it.
LEMMA ChildDies ==
  ASSUME Inv, ~Dead(process), link' = close(link, "child"),
         NEW code \in {0, 1}, process' = [phase |-> "dead", code |-> code],
         unread' \in BOOLEAN, (unread \/ Unread(link, "child")) => unread',
         CalmPort, UNCHANGED <<handled, loop, posted, seen, taken, flushed>>
  PROVE  Inv'
<1>1. Kinded
  BY TypesKnown DEF Inv
<1>2. Shuts(link, link', "child")
  BY <1>1, CloseShuts, TheSides DEF Kinded
<1>3. Begun' /\ Ending' /\ Dead(process)' /\ Doomed' /\ ~Running'
  BY DEF Begun, Ending, Dead, Doomed, Running
<1>4. /\ Online' = Online /\ Received' = Received /\ Wrong' = Wrong
  BY DEF CalmPort, Online, Received, Messages, Wrong, Errors
<1>5. /\ Sound(link') /\ ~Open(link', "child") /\ Open(link', "parent") = Open(link, "parent")
      /\ Faulty(link') => Faulty(link) \/ Unread(link, "child")
  BY <1>2, TheSides DEF Shuts, Open, Faulty
<1>6. /\ Up(link', Received, Online, posted["child"], flushed # "no")
      /\ \A x : Has(link', x) => Has(link, x)
  <2>1a. PICK all \in BOOLEAN : all <=> flushed # "no"
    OBVIOUS
  <2>1b. PICK l, m, base, begun, n : /\ l = link /\ m = link' /\ base = Received
                                    /\ begun = Online /\ n = posted["child"]
    OBVIOUS
  <2>1. /\ l = link /\ m = link' /\ base = Received /\ begun = Online /\ n = posted["child"]
        /\ all <=> flushed # "no"
    BY <2>1a, <2>1b
  <2>2. Sound(l) /\ Shuts(l, m, "child") /\ Up(l, base, begun, n, all)
    BY <1>1, <1>2, <2>1 DEF Inv, ToParent, Kinded, Up
  <2>3. all => l.end["child"].out = <<>>
    <3>1. flushed # "no" => ~Open(link, "child")
      BY DEF Inv, Ends
    <3> QED
      BY <1>1, <2>1, <3>1, TheSides DEF Kinded, Sound, Half
  <2>4. UpShut(l, m, base, begun, n, all)
    BY <2>2, <2>3, UpShuts
  <2> QED
    BY <2>1, <2>4 DEF UpShut, Up
<1>7. Typed'
  BY <1>5 DEF Inv, Typed, CalmPort, Phases
<1>8. ToChild'
  <2>1. Down(link, Len(taken), Begun, posted["parent"])'
    BY <1>5 DEF Down
  <2> QED
    BY <2>1 DEF Inv, ToChild, Upto
<1>9. ToParent'
  <2>1. Up(link, Received, Online, posted["child"], flushed # "no")'
    BY <1>4, <1>6
  <2> QED
    BY <1>3, <1>4, <2>1 DEF Inv, ToParent
<1>10. LastWords'
  BY <1>3, <1>5, <1>6 DEF Inv, LastWords, Has
<1>11. Ends'
  BY <1>3, <1>5 DEF Inv, Ends, CalmPort
<1>12. SeenWell'
  BY SeenKeeps DEF Inv
<1>13. Faults'
  BY <1>3, <1>4, <1>5 DEF Inv, Faults
<1>14. Delivered'
  BY <1>4 DEF Inv, Delivered, CalmPort
<1> QED
  BY <1>7, <1>8, <1>9, <1>10, <1>11, <1>12, <1>13, <1>14 DEF Inv

\* The child exits, or is killed, at any moment.
LEMMA EndsKeeps == Inv /\ (ChildExits \/ ChildCrashes) => Inv'
<1> SUFFICES ASSUME Inv, ChildExits \/ ChildCrashes PROVE Inv'
  OBVIOUS
<1>1. ~Dead(process)
  BY DEF ChildExits, ChildCrashes, Dead
<1>2. PICK code \in {0, 1} : ends(code)
  BY TypesKnown DEF ChildExits, ChildCrashes, Inv, Kinded
<1>3. /\ link' = close(link, "child") /\ process' = [phase |-> "dead", code |-> code]
      /\ UNCHANGED <<port, handled, loop, posted, seen, taken, flushed>>
  BY <1>1, <1>2 DEF ends, dies
<1>4. unread' \in BOOLEAN /\ ((unread \/ Unread(link, "child")) => unread')
  BY <1>2 DEF ends
<1>5. CalmPort
  BY <1>3, PortsSame
<1> QED
  BY <1>1, <1>3, <1>4, <1>5, ChildDies

\* terminate kills a child that still runs.
LEMMA terminateKeeps == Inv /\ terminate => Inv'
<1> SUFFICES ASSUME Inv, terminate PROVE Inv'
  OBVIOUS
<1>1. CalmPort
  <2>1. PICK p : p = [port["parent"] EXCEPT !.terminating = TRUE]
    OBVIOUS
  <2>2. /\ p \in Ports /\ p.online = port["parent"].online /\ p.closed = port["parent"].closed
        /\ p.exited = port["parent"].exited /\ p.closing = port["parent"].closing
    BY <2>1, TypesKnown DEF Inv, Kinded, Ports
  <2>3. port' = [port EXCEPT !["parent"] = p] /\ port \in [Sides -> Ports]
    BY <2>1 DEF terminate, Inv, Typed
  <2> QED
    BY <2>2, <2>3, PortChanged, TheSides
<1>2. /\ unread' = (unread \/ (~Dead(process) /\ Unread(link, "child")))
      /\ link' = dies(link, process, 1)[1] /\ process' = dies(link, process, 1)[2]
      /\ UNCHANGED <<handled, loop, posted, seen, taken, flushed>>
  BY DEF terminate
<1>3. CASE Dead(process)
  <2>1. link' = link /\ process' = process
    BY <1>2, <1>3 DEF dies
  <2>2. unread' = unread
    BY <1>2, <1>3 DEF Inv, Typed
  <2> QED
    BY <1>1, <1>2, <2>1, <2>2, SameKeeps
<1>4. CASE ~Dead(process)
  <2>1. link' = close(link, "child") /\ process' = [phase |-> "dead", code |-> 1]
    BY <1>2, <1>4 DEF dies
  <2>2. unread' \in BOOLEAN /\ ((unread \/ Unread(link, "child")) => unread')
    BY <1>2, <1>4
  <2> QED
    BY <1>1, <1>2, <1>4, <2>1, <2>2, ChildDies
<1> QED
  BY <1>3, <1>4

\* The parent's loop ends.
LEMMA ParentLoopEndsKeeps == Inv /\ ParentLoopEnds => Inv'
<1> SUFFICES ASSUME Inv, ParentLoopEnds PROVE Inv'
  OBVIOUS
<1>1. /\ loop = "running" /\ loop' = "ended"
      /\ UNCHANGED <<link, port, process, handled, posted, seen, taken, flushed, unread>>
  BY DEF ParentLoopEnds
<1>2. /\ Begun' = Begun /\ Online' = Online /\ Ending' = Ending /\ Doomed' = Doomed
      /\ Running' = Running /\ Dead(process)' = Dead(process)
      /\ Received' = Received /\ (Wrong' => Wrong)
  BY <1>1 DEF Begun, Online, Ending, Doomed, Running, Dead, Received, Messages, Wrong, Errors
<1>3. Typed'
  BY <1>1 DEF Inv, Typed
<1>4. ToChild' /\ ToParent'
  <2>1. Down(link, Len(taken), Begun, posted["parent"])'
    BY <1>1, <1>2 DEF Inv, ToChild
  <2>2. Up(link, Received, Online, posted["child"], flushed # "no")'
    BY <1>1, <1>2 DEF Inv, ToParent
  <2> QED
    BY <1>1, <1>2, <2>1, <2>2 DEF Inv, ToChild, ToParent, Upto
<1>5. LastWords' /\ Ends' /\ Faults' /\ Delivered'
  BY <1>1, <1>2 DEF Inv, LastWords, Ends, Faults, Delivered, Has
<1>6. SeenWell'
  <2>1. EventsWell(seen', Online', port'["parent"].exited)
    BY <1>1, <1>2 DEF Inv, SeenWell
  <2> QED
    BY <1>1, <1>2, <2>1 DEF Inv, SeenWell
<1> QED
  BY <1>3, <1>4, <1>5, <1>6 DEF Inv

\* The parent is gone: the kernel closes its end.
LEMMA ParentExitsKeeps == Inv /\ ParentExits => Inv'
<1> SUFFICES ASSUME Inv, ParentExits PROVE Inv'
  OBVIOUS
<1>1. /\ link' = close(link, "parent") /\ loop' = "gone"
      /\ UNCHANGED <<port, process, handled, posted, seen, taken, flushed, unread>>
  BY DEF ParentExits
<1>2. Kinded
  BY TypesKnown DEF Inv
<1>3. Shuts(link, link', "parent")
  BY <1>1, <1>2, CloseShuts, TheSides DEF Kinded
<1>4. /\ Begun' = Begun /\ Online' = Online /\ Ending' = Ending /\ Doomed' = Doomed
      /\ Running' = Running /\ Dead(process)' = Dead(process)
      /\ Received' = Received /\ (Wrong' => Wrong)
  BY <1>1 DEF Begun, Online, Ending, Doomed, Running, Dead, Received, Messages, Wrong, Errors
<1>5. Sound(link') /\ ~Open(link', "parent") /\ Open(link', "child") = Open(link, "child")
  BY <1>3, TheSides DEF Shuts, Open
<1>6. Typed'
  BY <1>1, <1>5 DEF Inv, Typed
<1>7. ToChild'
  <2>1. Down(link', Len(taken), Begun, posted["parent"])
    BY <1>2, <1>3, DownShuts DEF Inv, ToChild, Kinded
  <2>2. Down(link, Len(taken), Begun, posted["parent"])'
    BY <1>1, <1>4, <2>1
  <2> QED
    BY <1>1, <2>2 DEF Inv, ToChild, Upto
<1>8. ToParent'
  <2>1. Up(link, Received, Online, posted["child"], flushed # "no")'
    BY <1>5 DEF Up
  <2> QED
    BY <1>1, <1>4, <1>5, <2>1 DEF Inv, ToParent
<1>9. LastWords' /\ Ends' /\ Faults' /\ Delivered'
  BY <1>1, <1>4, <1>5 DEF Inv, LastWords, Ends, Faults, Delivered
<1>10. SeenWell'
  <2>1. EventsWell(seen', Online', port'["parent"].exited)
    BY <1>1, <1>4 DEF Inv, SeenWell
  <2> QED
    BY <1>1, <1>4, <2>1 DEF Inv, SeenWell
<1> QED
  BY <1>6, <1>7, <1>8, <1>9, <1>10 DEF Inv

\* The child's loop ends.
LEMMA ChildLoopEndsKeeps == Inv /\ ChildLoopEnds => Inv'
<1> SUFFICES ASSUME Inv, ChildLoopEnds PROVE Inv'
  OBVIOUS
<1>1. /\ process' = [phase |-> "completing", code |-> 0] /\ Running
      /\ UNCHANGED <<link, port, handled, loop, posted, seen, taken, flushed, unread>>
  BY DEF ChildLoopEnds
<1>2. CalmProcess
  BY <1>1 DEF CalmProcess, Phases, Begun, Ending, Dead, Running, Doomed
<1>3. CalmPort /\ Moves(link, link', "child")
  BY <1>1, PortsSame, Stays, TheSides DEF Inv, Typed
<1> QED
  BY <1>1, <1>2, <1>3, TurnKeeps, TheSides

\* The child flushes; once nothing waits all it sent has left, and its end is closed.
LEMMA ChildFlushesKeeps == Inv /\ ChildFlushes => Inv'
<1> SUFFICES ASSUME Inv, ChildFlushes PROVE Inv'
  OBVIOUS
<1> DEFINE
  Done(turn, failing, done) ==
       /\ link' = IF done THEN close(turn, "child") ELSE turn
       /\ process' = [process EXCEPT !.phase = IF failing THEN "raising"
                                               ELSE IF done THEN "exiting" ELSE @]
       /\ flushed' = IF ~done THEN flushed ELSE IF process.code = 0 THEN "clean" ELSE "failed"
       /\ unread' = (unread \/ (done /\ Unread(turn, "child")))
  Failing(turn, failing) ==
     \E done \in {~failing /\ ~pending(turn, "child")} : Done(turn, failing, done)
  Turned(turn) ==
     \E failing \in {turn.end["child"].write_failure
                    \/ (pending(link, "child") /\ broken(turn, "child"))} : Failing(turn, failing)
<1>0. \E turn \in {IF pending(link, "child") THEN progress(link, "child") ELSE link} : Turned(turn)
  BY DEF ChildFlushes
<1> HIDE DEF Done, Failing, Turned
<1>1. PICK turn : /\ turn = IF pending(link, "child") THEN progress(link, "child") ELSE link
                  /\ Turned(turn)
  BY <1>0
<1>2. PICK failing : Failing(turn, failing)
  BY <1>1 DEF Turned
<1>3. PICK done : done = (~failing /\ ~pending(turn, "child")) /\ Done(turn, failing, done)
  BY <1>2 DEF Failing
<1>4. /\ process.phase = "completing" /\ Kinded /\ CalmPort
      /\ UNCHANGED <<port, handled, loop, posted, seen, taken>>
  BY PortsSame, TypesKnown DEF ChildFlushes, Inv
<1>5. Moves(link, turn, "child")
  BY <1>1, <1>4, ProgressMoves, Stays, TheSides DEF Kinded
<1>6. CASE ~done
  <2>1. /\ link' = turn /\ flushed' = flushed /\ unread' = unread
        /\ process' = [process EXCEPT !.phase = IF failing THEN "raising" ELSE "completing"]
    BY <1>3, <1>4, <1>6 DEF Done, Inv, Typed
  <2>2. CalmProcess
    <3>1. /\ process' \in [phase : Phases, code : {0, 1}] /\ process'.code = process.code
          /\ process'.phase \in {"raising", "completing"}
      BY <2>1 DEF Inv, Typed, Phases
    <3> QED
      BY <1>4, <3>1 DEF CalmProcess, Begun, Ending, Dead, Running, Doomed
  <2> QED
    BY <1>4, <1>5, <2>1, <2>2, TurnKeeps, TheSides
<1>7. CASE done
  <2>1. /\ link' = close(turn, "child") /\ ~pending(turn, "child")
        /\ process' = [process EXCEPT !.phase = "exiting"]
        /\ flushed' = (IF process.code = 0 THEN "clean" ELSE "failed")
        /\ unread' = (unread \/ Unread(turn, "child"))
    BY <1>3, <1>7 DEF Done
  <2>2. /\ process' \in [phase : Phases, code : {0, 1}] /\ process'.phase = "exiting"
    BY <2>1 DEF Inv, Typed, Phases
  <2>3. /\ Begun' /\ Ending' /\ Doomed' /\ ~Running' /\ ~Dead(process)' /\ ~Dead(process)
        /\ Begun /\ ~Ending /\ flushed = "no" /\ ~port["parent"].closed
    BY <1>4, <2>2 DEF Begun, Ending, Doomed, Running, Dead, Inv, Ends
  <2>4. /\ Online' = Online /\ Received' = Received /\ Wrong' = Wrong
    BY <1>4 DEF Online, Received, Messages, Wrong, Errors
  <2>5. flushed' = "clean" => ~Doomed
    BY <1>4, <2>1 DEF Doomed
  <2>6. Alike(link, turn) /\ Sound(turn)
    BY <1>5, MovesAlike, TheSides DEF Moves
  <2>7. Shuts(turn, link', "child")
    BY <2>1, <2>6, CloseShuts, TheSides
  <2>8. Open(link, "child") \/ ~Open(link, "parent")
    BY <2>3 DEF Inv, Ends
  <2>9. /\ Sound(link') /\ ~Open(link', "child") /\ Open(link', "parent") = Open(link, "parent")
        /\ Faulty(link') => Faulty(turn) \/ Unread(turn, "child")
    BY <2>6, <2>7, TheSides DEF Shuts, Alike, Open, Faulty
  <2>10. /\ Up(link', Received, Online, posted["child"], TRUE)
         /\ \A x : Has(link', x) => Has(turn, x)
    <3>0. PICK all \in BOOLEAN, more \in BOOLEAN : ~all /\ more
      OBVIOUS
    <3>1. PICK l, m, base, begun, n : /\ l = turn /\ m = link' /\ base = Received
                                      /\ begun = Online /\ n = posted["child"]
      OBVIOUS
    <3>2. Up(link, Received, Online, posted["child"], FALSE)
      BY <2>3 DEF Inv, ToParent
    <3>3. Up(l, base, begun, n, all)
      BY <2>6, <3>0, <3>1, <3>2 DEF Up, Alike
    <3>4. l.end["child"].out = <<>> /\ (Open(l, "parent") => Open(l, "child"))
      BY <2>1, <2>6, <2>8, <3>1 DEF pending, Alike
    <3>5. Sound(l) /\ Shuts(l, m, "child")
      BY <2>6, <2>7, <3>1
    <3>6. UpShut(l, m, base, begun, n, more)
      BY <3>3, <3>4, <3>5, UpShuts
    <3> QED
      BY <3>0, <3>1, <3>6 DEF UpShut, Up
  <2>11. Open(link, "parent") => \A x : Has(link', x) => Has(link, x)
    BY <2>6, <2>10 DEF Alike, Has
  <2>12. Typed'
    BY <1>4, <2>1, <2>2, <2>9 DEF Inv, Typed
  <2>13. ToChild'
    <3>1. Down(link, Len(taken), Begun, posted["parent"])'
      BY <2>9 DEF Down
    <3> QED
      BY <1>4, <3>1 DEF Inv, ToChild, Upto
  <2>14. ToParent'
    <3>1. Up(link, Received, Online, posted["child"], flushed # "no")'
      BY <1>4, <2>4, <2>10 DEF Up
    <3> QED
      BY <1>4, <2>3, <2>4, <3>1 DEF Inv, ToParent
  <2>15. LastWords'
    BY <2>3, <2>5, <2>9, <2>11 DEF Inv, LastWords
  <2>16. Ends'
    BY <1>4, <2>3, <2>9 DEF Inv, Ends
  <2>17. SeenWell'
    BY <1>4, SeenKeeps DEF Inv
  <2>18. Faults'
    <3>1. ASSUME Open(link', "parent"), Faulty(link') PROVE unread'
      <4>1. Open(turn, "child")
        BY <2>6, <2>8, <2>9, <3>1 DEF Alike
      <4>2. ~Faulty(turn)
        BY <2>6, <4>1, TheSides DEF Sound, Half, Faulty
      <4> QED
        BY <2>1, <2>9, <3>1, <4>2
    <3> QED
      BY <2>3, <2>4, <2>5, <3>1 DEF Inv, Faults
  <2>19. Delivered'
    BY <1>4, <2>3 DEF Delivered
  <2> QED
    BY <2>12, <2>13, <2>14, <2>15, <2>16, <2>17, <2>18, <2>19 DEF Inv
<1> QED
  BY <1>6, <1>7

\* A Worker begins with its initialization on its way.
LEMMA InitInv == Init => Inv
<1> SUFFICES ASSUME Init PROVE Inv
  OBVIOUS
<1>1. link = send(emptyLink, "parent", "initialize", 0)
  BY DEF Init
<1>2. <<>> \in Seq(Pieces) /\ Len(<<>>) = 0 /\ <<>> \in Seq(Happenings) /\ <<>> \in Seq(Nat)
  OBVIOUS
<1>3. PICK l : l = emptyLink
  OBVIOUS
<1>4. /\ l \in Links
      /\ \A s \in Sides : /\ l.end[s].out = <<>> /\ l.end[s].incoming = <<>> /\ l.wire[s] = <<>>
                          /\ Open(l, s) /\ ~l.reset[s] /\ ~l.end[s].eof /\ ~l.end[s].failure
                          /\ ~l.end[s].write_failure
  <2>1. emptyChannel \in Channels
    BY <1>2 DEF emptyChannel, Channels
  <2>2. emptyLink \in Links
    BY <1>2, <2>1 DEF emptyLink, Links
  <2>3. \A s \in Sides : l.end[s] = emptyChannel /\ l.wire[s] = <<>> /\ ~l.reset[s]
    BY <1>3 DEF emptyLink
  <2> QED
    BY <1>3, <2>2, <2>3 DEF emptyChannel, Open
<1>5. Sound(l)
  <2>1. \A s \in Sides : Half(l, s)
    <3> TAKE s \in Sides
    <3>1. Other(s) \in Sides
      BY TwoSides
    <3> QED
      BY <1>2, <1>4, <3>1, BoundsAssumption DEF Half
  <2> QED
    BY <1>4, <2>1 DEF Sound
<1>6. \A s \in Sides : Flow(l, s) = <<>>
  <2> TAKE s \in Sides
  <2>1. Other(s) \in Sides
    BY TwoSides
  <2>2. (<<>> \o <<>>) \o <<>> = <<>>
    BY ONLY <1>2
  <2> QED
    BY <1>4, <2>1, <2>2 DEF Flow
<1>7. ~refuses(l, "parent")
  BY <1>2, <1>4, TheSides, BoundsAssumption DEF refuses, closed, Open
<1>8. Sends(l, link, "parent", "initialize", 0)
  BY <1>1, <1>3, <1>5, <1>7, SendSends, TheSides DEF Kinds
<1>9. /\ Sound(link) /\ Open(link, "parent") /\ Open(link, "child")
      /\ Flow(link, "child") = <<>>
  BY <1>4, <1>6, <1>8, TheSides DEF Sends, Open
<1>10. Down(link, 0, FALSE, 0)
  <2>1. PICK begun \in BOOLEAN : ~begun
    OBVIOUS
  <2>2. PICK m : m = link
    OBVIOUS
  <2>3. "initialize" \in Kinds("parent") /\ "initialize" # "message" /\ 0 \in Nat
    BY DEF Kinds
  <2>4. Sends(l, m, "parent", "initialize", 0) /\ Open(l, "parent") /\ Flow(l, "parent") = <<>>
    BY <1>4, <1>6, <1>8, <2>2, TheSides
  <2>5a. PICK z \in Nat : z = 0
    OBVIOUS
  <2>5b. PICK kind : kind = "initialize"
    OBVIOUS
  <2>5. z = 0 /\ kind = "initialize"
    BY <2>5a, <2>5b
  <2>6. Down(m, z, begun, z)
    <3>1. /\ Sound(l) /\ Sends(l, m, "parent", kind, z) /\ Open(l, "parent") /\ z <= z
          /\ kind \in Kinds("parent")
      BY <1>5, <2>3, <2>4, <2>5
    <3>2. kind = "message" => z = z + 1 /\ z = z + 1 /\ Down(l, z, begun, z)
      BY <2>5
    <3>3. kind = "initialize" => z = z /\ z = 0 /\ ~begun /\ Flow(l, "parent") = <<>>
      BY <2>1, <2>4, <2>5
    <3> QED
      BY <2>1, <3>1, <3>2, <3>3, DownSends
  <2> QED
    BY <2>1, <2>2, <2>5, <2>6 DEF Down, Ordered
<1>11. Ordered(<<>>, 0, FALSE) /\ Below(<<>>, "child", 0) /\ Whole(<<>>, 0, 0)
  BY <1>2 DEF Ordered, Below, Whole
<1>12. /\ port = [s \in Sides |-> newPort(s = "parent")] /\ process = [phase |-> "starting", code |-> 0]
       /\ listening = "no" /\ handled \in BOOLEAN /\ loop = "running"
       /\ posted = [s \in Sides |-> 0] /\ seen = <<>> /\ taken = <<>>
       /\ flushed = "no" /\ unread = FALSE
  BY DEF Init
<1>13. port \in [Sides -> Ports]
  <2>1. \A b \in BOOLEAN : newPort(b) \in Ports
    BY DEF newPort, Ports
  <2> QED
    BY <1>12, <2>1
<1>14. /\ ~Online /\ ~port["parent"].closed /\ ~port["parent"].exited
  BY <1>12, TheSides DEF newPort, Online
<1>15. /\ ~Begun /\ ~Ending /\ ~Running /\ ~Dead(process) /\ ~Wrong
  BY <1>2, <1>12 DEF Begun, Ending, Running, Dead, Wrong, Errors
<1>16. Received = 0
  <2>1. {i \in 1..0 : seen[i][1] = "message"} = {}
    OBVIOUS
  <2> QED
    BY <1>2, <1>12, <2>1, FS_EmptySet DEF Received, Messages
<1>17. Typed
  BY <1>2, <1>9, <1>12, <1>13 DEF Typed, Phases
<1>18. ToChild
  <2>1. Upto(0) = <<>>
    BY DEF Upto
  <2>2. Len(taken) = 0 /\ posted["parent"] = 0
    BY <1>2, <1>12, TheSides
  <2>3. Down(link, Len(taken), Begun, posted["parent"])
    BY <1>10, <1>15, <2>2 DEF Down, Ordered
  <2> QED
    BY <1>12, <2>1, <2>2, <2>3 DEF ToChild
<1>19. ToParent
  <2>1. posted["child"] = 0
    BY <1>12, TheSides
  <2>2. Up(link, Received, Online, posted["child"], flushed # "no")
    BY <1>9, <1>11, <1>14, <1>16, <2>1 DEF Up, Ordered
  <2> QED
    BY <1>9, <1>14, <1>15, <1>16, <2>1, <2>2 DEF ToParent
<1>20. LastWords
  <2>1. Len(Flow(link, "child")) = 0
    BY <1>2, <1>9
  <2> QED
    BY <2>1 DEF LastWords, Has
<1>21. Ends /\ Delivered
  BY <1>9, <1>12, <1>14, <1>15 DEF Ends, Delivered
<1>22. SeenWell
  BY <1>2, <1>12, <1>14 DEF SeenWell, EventsWell
<1>23. Faults
  BY <1>12, <1>15 DEF Faults
<1> QED
  BY <1>17, <1>18, <1>19, <1>20, <1>21, <1>22, <1>23 DEF Inv
-----------------------------------------------------------------------------
(***************************************************************************)
(* A turn of the parent's loop.                                            *)
(***************************************************************************)

\* The parent takes a frame: the one that says the child is online first.
ParentTook(l, m, kind, value, base, begun, n, all) ==
  /\ Takes(l, m, "parent") /\ Open(l, "parent")
  /\ kind \in Kinds("child") /\ value \in Nat /\ (kind = "online" <=> ~begun)
  /\ kind = "message" => value = base + 1 /\ base + 1 <= n
  /\ Up(m, IF kind = "message" THEN base + 1 ELSE base, TRUE, n, all)
  /\ Has(l, kind) /\ Flow(l, "child") # <<>> /\ \A x : Has(m, x) => Has(l, x)

\* The first frame the parent takes says online, and each message is the next one.
LEMMA ParentTakes ==
  ASSUME NEW l, Sound(l), complete(l.end["parent"]), NEW base \in Nat, NEW begun \in BOOLEAN,
         NEW n \in Nat, NEW all \in BOOLEAN, Up(l, base, begun, n, all)
  PROVE  ParentTook(l, consume(l, "parent"), l.end["parent"].incoming[1][1],
                    l.end["parent"].incoming[1][2], base, begun, n, all)
<1>0. PICK m : m = consume(l, "parent")
  OBVIOUS
<1>1. Takes(l, m, "parent")
  BY <1>0, ConsumeTakes, TheSides
<1>2. l \in Links /\ Half(l, "parent") /\ m \in Links
  BY <1>1, TheSides DEF Sound, Takes
<1>3. Open(l, "parent")
  <2>1. l.end["parent"].incoming # <<>>
    <3>1. PICK a : a = l.end["parent"].incoming
      OBVIOUS
    <3>2. Len(a) = 2 /\ a \in Seq(Pieces)
      BY <1>2, <3>1, Parts, TheSides DEF complete, LinkParts
    <3>3. a # <<>>
      BY ONLY <3>2, EmptySeq
    <3> QED
      BY <3>1, <3>3
  <2> QED
    BY <1>2, <2>1 DEF Half
<1>4. PICK F, G : F = Flow(l, "child") /\ G = Flow(m, "child")
  OBVIOUS
<1>5. F \in Seq(Pieces) /\ G \in Seq(Pieces)
  BY <1>2, <1>4, FlowParts, TheSides
<1>6. Dropped(F, G) /\ F[1] = l.end["parent"].incoming[1] /\ Open(m, "parent")
      /\ Open(m, "child") = Open(l, "child")
  BY <1>1, <1>3, <1>4, TheSides DEF Takes, Open
<1>7. /\ Ordered(F, base, begun) /\ Below(F, "child", n)
      /\ Open(l, "child") \/ all => Whole(F, base, n)
  BY <1>3, <1>4 DEF Up
<1>7a. Arrives(F, G, "child", base, begun, n)
  BY <1>5, <1>6, <1>7, DroppedKeeps
<1>8. PICK kind, value : kind = F[1][1] /\ value = F[1][2]
  OBVIOUS
<1>9. /\ kind \in Kinds("child") /\ value \in Nat
      /\ kind \in Openers => ~begun
      /\ kind \notin Openers => begun
      /\ kind = "message" => value = base + 1 /\ base + 1 <= n
  BY <1>7a, <1>8 DEF Arrives
<1>10. PICK b \in Nat : /\ b = IF kind = "message" THEN base + 1 ELSE base
                        /\ Ordered(G, b, TRUE) /\ Below(G, "child", n)
                        /\ Whole(F, base, n) => Whole(G, b, n)
  BY <1>7a, <1>8 DEF Arrives
<1>11. Up(m, b, TRUE, n, all)
  BY <1>4, <1>6, <1>7, <1>10 DEF Up
<1>12. kind = "online" <=> ~begun
  BY <1>9 DEF Openers, Kinds
<1>13. Len(F) \in Nat /\ Len(G) \in Nat /\ Len(F) = Len(G) + 2 /\ F # <<>>
  BY <1>5, <1>6 DEF Dropped
<1>14. Has(l, kind)
  <2>1. 1 \in 1..Len(F)
    BY <1>13
  <2> QED
    BY <1>4, <1>8, <2>1 DEF Has
<1>15. \A x : Has(m, x) => Has(l, x)
  <2>1. \A i \in 1..Len(G) : i + 2 \in 1..Len(F) /\ G[i] = F[i + 2]
    BY <1>6, <1>13 DEF Dropped
  <2> QED
    BY <1>4, <2>1 DEF Has
<1>16. ParentTook(l, m, kind, value, base, begun, n, all)
  BY <1>1, <1>3, <1>4, <1>9, <1>10, <1>11, <1>12, <1>13, <1>14, <1>15 DEF ParentTook
<1> QED
  BY <1>0, <1>6, <1>8, <1>16

\* What the turn does to the parent's port.
PortTurns(online, isClosed, isExited) ==
  /\ port' \in [Sides -> Ports] /\ port'["child"] = port["child"]
  /\ port'["parent"].online = online /\ port'["parent"].closed = isClosed
  /\ port'["parent"].exited = isExited

\* Nothing arrives: the port is closed at the end of the stream, and the exit
\* told once the process is dead.
LEMMA ExitKeeps ==
  ASSUME Inv, loop = "running", Moves(link, link', "parent"),
         UNCHANGED <<process, handled, loop, posted, taken, flushed, unread>>,
         NEW c \in BOOLEAN, c = (port["parent"].closed \/ closed(link', "parent")),
         NEW t \in BOOLEAN, t = (c /\ Dead(process) /\ ~port["parent"].exited),
         PortTurns(port["parent"].online, c, port["parent"].exited \/ t),
         seen' = IF t THEN Append(seen, <<"exit", process.code>>) ELSE seen
  PROVE  Inv'
<1>1. Kinded
  BY TypesKnown DEF Inv
<1>2. Alike(link, link') /\ Sound(link')
  BY MovesAlike, TheSides DEF Moves
<1>3. c => Ending
  <2>1. CASE port["parent"].closed
    BY <2>1 DEF Inv, Ends
  <2>2. CASE ~port["parent"].closed /\ closed(link', "parent")
    <3>1. Open(link, "parent")
      BY <2>2 DEF Inv, Ends
    <3>2. link'.end["parent"].eof
      BY <1>2, <2>2, <3>1 DEF closed, Alike, Open
    <3>3. ~Open(link', "child")
      BY <1>2, <3>2, TheSides DEF Sound, Half
    <3> QED
      BY <1>2, <3>1, <3>3 DEF Inv, Ends, Alike
  <2> QED
    BY <2>1, <2>2
<1>4. (flushed # "no" /\ c) => Received = posted["child"]
  <2>1. CASE port["parent"].closed
    BY <2>1 DEF Inv, Delivered
  <2>2. CASE ~port["parent"].closed /\ closed(link', "parent") /\ flushed # "no"
    <3>1. Open(link, "parent")
      BY <2>2 DEF Inv, Ends
    <3>2. Open(link', "parent") /\ link'.end["parent"].eof
      BY <1>2, <2>2, <3>1 DEF closed, Alike, Open
    <3>3. PICK l, base, begun, n : /\ l = link' /\ base = Received /\ begun = Online
                                   /\ n = posted["child"]
      OBVIOUS
    <3>4. Up(link', Received, Online, posted["child"], flushed # "no")
      BY <1>2, AlikeKeeps DEF Inv, ToParent
    <3>5. Up(l, base, begun, n, TRUE)
      BY <2>2, <3>3, <3>4 DEF Up
    <3>6. base \in Nat /\ n \in Nat /\ base <= n /\ Sound(l)
      BY <1>1, <1>2, <3>3 DEF Kinded, Inv, ToParent
    <3>7. base = n
      BY <3>2, <3>3, <3>5, <3>6, AllRead
    <3> QED
      BY <3>3, <3>7
  <2> QED
    BY <2>1, <2>2
<1>5. PICK e : e = <<"exit", process.code>>
  OBVIOUS
<1>6. e \in Happenings /\ e[1] = "exit"
  BY <1>1, <1>5 DEF Kinded, Happenings
<1>7. PICK q, r : q = seen /\ r = seen'
  OBVIOUS
<1>8. q \in Seq(Happenings) /\ (t => Adds(q, r, e)) /\ (~t => r = q)
  BY <1>1, <1>5, <1>6, <1>7, EventAdded DEF Kinded
<1>9. r \in Seq(Happenings) /\ Messages(r, Len(r)) = Messages(q, Len(q))
  BY <1>6, <1>8 DEF Adds
<1>10. Errors(r) => Errors(q)
  BY <1>6, <1>8, ErrorAdded
<1>11. /\ Received' = Received /\ (Wrong' => Wrong)
  BY <1>7, <1>9, <1>10 DEF Received, Wrong, Errors, Messages
<1>12. /\ Begun' = Begun /\ Online' = Online /\ Ending' = Ending /\ Doomed' = Doomed
       /\ Running' = Running /\ Dead(process)' = Dead(process)
  BY DEF PortTurns, Begun, Online, Ending, Doomed, Running, Dead
<1>13. Typed'
  BY <1>2, <1>7, <1>9 DEF Inv, Typed, PortTurns
<1>14. ToChild'
  <2>1. Down(link', Len(taken), Begun, posted["parent"])
    BY <1>2, AlikeKeeps DEF Inv, ToChild
  <2>2. Down(link, Len(taken), Begun, posted["parent"])'
    BY <1>12, <2>1
  <2> QED
    BY <2>2 DEF Inv, ToChild, Upto
<1>15. ToParent'
  <2>1. Up(link', Received, Online, posted["child"], flushed # "no")
    BY <1>2, AlikeKeeps DEF Inv, ToParent
  <2>2. Up(link, Received, Online, posted["child"], flushed # "no")'
    BY <1>11, <1>12, <2>1
  <2> QED
    BY <1>2, <1>11, <1>12, <2>2 DEF Inv, ToParent, Alike
<1>16. LastWords'
  BY <1>2, <1>12 DEF Inv, LastWords, PortTurns, Alike, Has
<1>17. Ends'
  BY <1>2, <1>3, <1>12 DEF Inv, Ends, PortTurns, Alike
<1>18. SeenWell'
  <2>1. PICK online, exited : online = Online /\ exited = port["parent"].exited
    OBVIOUS
  <2>2. EventsWell(q, online, exited) /\ online \in BOOLEAN /\ exited \in BOOLEAN
    BY <1>1, <1>7, <2>1 DEF Inv, SeenWell, Kinded
  <2>3. t => EventsWell(q, online, FALSE)
    BY <2>1, <2>2 DEF EventsWell
  <2>4. t => EventsWell(r, online, TRUE)
    <3> SUFFICES ASSUME t PROVE EventsWell(r, online, TRUE)
      OBVIOUS
    <3>1. PICK told \in BOOLEAN : told
      OBVIOUS
    <3>2. Fits(q, e, r, online, online, told)
      BY <1>6, <1>8, <2>3, <3>1 DEF Fits
    <3>3. EventsWell(r, online, told)
      BY <1>6, <1>8, <2>2, <3>2, EventKeeps
    <3> QED
      BY <3>1, <3>3 DEF EventsWell
  <2>5. ~t => EventsWell(r, online, exited)
    BY <1>8, <2>2
  <2>6. EventsWell(r, online, exited \/ t)
    BY <2>2, <2>4, <2>5 DEF EventsWell
  <2>7. EventsWell(seen', Online', port'["parent"].exited)
    BY <1>7, <1>12, <2>1, <2>6 DEF PortTurns, EventsWell
  <2>8. (~Online' /\ ~port'["parent"].closed) => seen' = <<>> /\ loop' # "failed"
    BY <1>12 DEF Inv, SeenWell, PortTurns
  <2> QED
    BY <2>7, <2>8 DEF SeenWell
<1>19. Faults'
  <2>1. ASSUME Open(link', "parent"), flushed = "clean", Faulty(link') PROVE unread
    <3>1. Open(link, "parent")
      BY <1>2, <2>1 DEF Alike
    <3>2. Up(link, Received, Online, posted["child"], TRUE)
      BY <2>1 DEF Inv, ToParent
    <3>3. Faulty(link)
      BY <1>1, <2>1, <3>1, <3>2, MovesFault, TheSides DEF Kinded
    <3> QED
      BY <2>1, <3>1, <3>3 DEF Inv, Faults
  <2> QED
    BY <1>11, <1>12, <2>1 DEF Inv, Faults
<1>20. Delivered'
  BY <1>4, <1>11 DEF Delivered, PortTurns
<1> QED
  BY <1>13, <1>14, <1>15, <1>16, <1>17, <1>18, <1>19, <1>20 DEF Inv

\* The parent's end broke: it is closed, and the process killed.
LEMMA FailKeeps ==
  ASSUME Inv, loop = "running", ~port["parent"].closed,
         NEW x, Moves(link, x, "parent"), broken(x, "parent"),
         link' = dies(close(x, "parent"), process, 1)[1],
         process' = dies(close(x, "parent"), process, 1)[2],
         unread' \in BOOLEAN, unread => unread',
         UNCHANGED <<handled, posted, taken, flushed>>,
         PortTurns(port["parent"].online, TRUE, port["parent"].exited),
         \/ seen' = seen /\ loop' \in {loop, "failed"}
         \/ seen' = Append(seen, <<"error", 0>>) /\ loop' = loop
  PROVE  Inv'
<1>1. Kinded
  BY TypesKnown DEF Inv
<1>2. Alike(link, x) /\ Sound(x) /\ Open(link, "parent")
  BY MovesAlike, TheSides DEF Moves, Inv, Ends
<1>3. x.end["parent"].failure /\ Open(x, "parent")
  BY <1>2 DEF broken, Alike, Open
<1>4. ~Open(x, "child") /\ Ending
  BY <1>2, <1>3, TheSides DEF Sound, Half, Alike, Inv, Ends
<1>5. Sound(link') /\ ~Open(link', "parent") /\ ~Open(link', "child")
  <2>1. PICK y : y = close(x, "parent")
    OBVIOUS
  <2>2. Shuts(x, y, "parent")
    BY <1>2, <2>1, CloseShuts, TheSides
  <2>3. Sound(y) /\ ~Open(y, "parent") /\ ~Open(y, "child")
    BY <1>4, <2>2, TheSides DEF Shuts, Open
  <2>4. CASE Dead(process)
    BY <2>1, <2>3, <2>4 DEF dies
  <2>5. CASE ~Dead(process)
    <3>1. Shuts(y, link', "child")
      BY <2>1, <2>3, <2>5, CloseShuts, TheSides DEF dies
    <3> QED
      BY <2>3, <3>1, TheSides DEF Shuts, Open
  <2> QED
    BY <2>4, <2>5
<1>6. process' \in [phase : {"dead"}, code : {0, 1}]
  BY <1>1 DEF dies, Dead, Inv, Typed
<1>7. Begun' /\ Ending' /\ Dead(process)' /\ Doomed' /\ ~Running'
  BY <1>6 DEF Begun, Ending, Dead, Doomed, Running
<1>8. PICK all \in BOOLEAN : all <=> flushed # "no"
  OBVIOUS
<1>9. PICK base, begun, n : base = Received /\ begun = Online /\ n = posted["child"]
  OBVIOUS
<1>10. base \in Nat /\ n \in Nat /\ base <= n
  BY <1>1, <1>9 DEF Kinded, Inv, ToParent
<1>11. Up(link, base, begun, n, all) /\ Up(x, base, begun, n, all)
  <2>1. Up(link, base, begun, n, all)
    BY <1>8, <1>9 DEF Inv, ToParent, Up
  <2> QED
    BY <1>2, <2>1, AlikeKeeps
<1>12. all => Received = posted["child"]
  <2>1. all => Up(x, base, begun, n, TRUE)
    BY <1>11 DEF Up
  <2>2. all => base = n
    BY <1>2, <1>3, <1>10, <2>1, AllRead
  <2> QED
    BY <1>9, <2>2
<1>13. flushed = "clean" => unread
  <2> SUFFICES ASSUME flushed = "clean" PROVE unread
    OBVIOUS
  <2>1. Up(link, base, begun, n, TRUE) /\ Faulty(x)
    BY <1>3, <1>8, <1>11 DEF Up, Faulty
  <2>2. Faulty(link)
    BY <1>1, <1>2, <2>1, MovesFault, TheSides DEF Kinded
  <2> QED
    BY <1>2, <2>2 DEF Inv, Faults
<1>14. PICK e : e = <<"error", 0>>
  OBVIOUS
<1>15. e \in Happenings /\ e[1] = "error"
  BY <1>14 DEF Happenings
<1>16. PICK q, r : q = seen /\ r = seen'
  OBVIOUS
<1>17. q \in Seq(Happenings) /\ (Adds(q, r, e) \/ r = q)
  BY <1>1, <1>14, <1>15, <1>16, EventAdded DEF Kinded
<1>18. r \in Seq(Happenings) /\ Messages(r, Len(r)) = Messages(q, Len(q))
  BY <1>15, <1>17 DEF Adds
<1>19. Received' = Received
  BY <1>16, <1>18 DEF Received, Messages
<1>20. Online' = Online
  BY DEF PortTurns, Online
<1>21. Typed'
  BY <1>5, <1>6, <1>16, <1>18 DEF Inv, Typed, PortTurns, Phases
<1>22. ToChild' /\ ToParent'
  <2>1. Down(link, Len(taken), Begun, posted["parent"])'
    BY <1>5 DEF Down
  <2>2. Up(link, Received, Online, posted["child"], flushed # "no")'
    BY <1>5 DEF Up
  <2> QED
    BY <1>5, <1>7, <1>19, <2>1, <2>2 DEF Inv, ToChild, ToParent, Upto
<1>23. LastWords' /\ Ends' /\ Delivered'
  BY <1>5, <1>7, <1>8, <1>12, <1>19 DEF LastWords, Ends, Delivered, PortTurns
<1>24. SeenWell'
  <2>1. PICK online, told : online = Online /\ told = port["parent"].exited
    OBVIOUS
  <2>2. EventsWell(q, online, told) /\ online \in BOOLEAN /\ told \in BOOLEAN /\ ~told
    BY <1>1, <1>16, <2>1 DEF Inv, SeenWell, Kinded, Ends
  <2>3. Adds(q, r, e) => EventsWell(r, online, told)
    <3> SUFFICES ASSUME Adds(q, r, e) PROVE EventsWell(r, online, told)
      OBVIOUS
    <3>1. EventsWell(q, online, FALSE)
      BY <2>2 DEF EventsWell
    <3>2. Fits(q, e, r, online, online, told)
      BY <1>15, <3>1 DEF Fits
    <3> QED
      BY <1>15, <1>17, <2>2, <3>2, EventKeeps
  <2>4. EventsWell(r, online, told)
    BY <1>17, <2>2, <2>3
  <2>5. EventsWell(seen', Online', port'["parent"].exited)
    BY <1>16, <1>20, <2>1, <2>4 DEF PortTurns
  <2> QED
    BY <2>5 DEF SeenWell, PortTurns
<1>25. Faults'
  BY <1>5, <1>7, <1>13 DEF Faults
<1> QED
  BY <1>21, <1>22, <1>23, <1>24, <1>25 DEF Inv

\* What the parent does with a frame.
Handles(kind, value) ==
  \/ kind = "message" /\ seen' = Append(seen, <<"message", value>>) /\ loop' = loop
  \/ kind = "online" /\ seen' = Append(seen, <<"online", 0>>) /\ loop' = loop
  \/ kind = "closed" /\ seen' = seen /\ loop' = loop
  \/ kind = "failure" /\ seen' = seen /\ loop' = "failed"
  \/ kind = "failure" /\ seen' = Append(seen, <<"error", 0>>) /\ loop' = loop

\* A frame is told to the program as it arrives.
LEMMA FrameKeeps ==
  ASSUME Inv, loop = "running", ~port["parent"].closed,
         NEW m, Moves(link, m, "parent"), NEW kind, NEW value,
         ParentTook(m, link', kind, value, Received, Online, posted["child"], flushed # "no"),
         UNCHANGED <<process, handled, posted, taken, flushed, unread>>,
         PortTurns(TRUE, FALSE, port["parent"].exited), Handles(kind, value)
  PROVE  Inv'
<1>1. Kinded
  BY TypesKnown DEF Inv
<1>2. Alike(link, m) /\ Sound(m)
  BY MovesAlike, TheSides DEF Moves
<1>3. /\ Takes(m, link', "parent") /\ Open(m, "parent")
      /\ kind \in Kinds("child") /\ value \in Nat /\ (kind = "online" <=> ~Online)
      /\ kind = "message" => value = Received + 1 /\ Received + 1 <= posted["child"]
      /\ Up(link', IF kind = "message" THEN Received + 1 ELSE Received, TRUE, posted["child"],
            flushed # "no")
      /\ Has(m, kind) /\ Flow(m, "child") # <<>> /\ \A x : Has(link', x) => Has(m, x)
  BY DEF ParentTook
<1>4. /\ Sound(link') /\ Open(link, "parent") /\ Open(link', "parent")
      /\ Open(link', "child") = Open(link, "child")
      /\ Flow(link', "parent") = Flow(m, "parent") /\ Faulty(link') = Faulty(m)
      /\ Flow(m, "child") = Flow(link, "child")
  BY <1>2, <1>3, TheSides DEF Takes, Alike, Open, Faulty
<1>5. Has(link, kind) /\ (\A x : Has(link', x) => Has(link, x))
  BY <1>3, <1>4 DEF Has
<1>6. Begun
  BY <1>3, <1>4 DEF Inv, ToParent
<1>7. Online' /\ port'["child"] = port["child"]
  BY DEF PortTurns, Online
<1>8. /\ Begun' = Begun /\ Ending' = Ending /\ Doomed' = Doomed
      /\ Running' = Running /\ Dead(process)' = Dead(process)
  BY DEF Begun, Ending, Doomed, Running, Dead
<1>9. PICK e : e = (IF kind = "message" THEN <<"message", value>>
                    ELSE IF kind = "online" THEN <<"online", 0>> ELSE <<"error", 0>>)
  OBVIOUS
<1>10. e \in Happenings /\ e[1] # "exit" /\ (e[1] = "message" <=> kind = "message")
       /\ (e[1] = "online" <=> kind = "online") /\ (kind = "message" => e[2] = value)
  BY <1>3, <1>9 DEF Happenings
<1>10a. e[1] = "error" <=> kind \in {"closed", "failure"}
  BY <1>3, <1>9 DEF Kinds
<1>11. PICK q, r : q = seen /\ r = seen'
  OBVIOUS
<1>12. \/ Append(q, e) = r /\ kind # "closed" /\ loop' = loop
       \/ r = q /\ kind \in {"closed", "failure"} /\ (loop' # loop => kind = "failure")
  BY <1>9, <1>11 DEF Handles
<1>13. q \in Seq(Happenings) /\ (r # q => Adds(q, r, e))
  BY <1>1, <1>10, <1>11, <1>12, EventAdded DEF Kinded
<1>14. r = q => kind \in {"closed", "failure"}
  <2>1. Adds(q, Append(q, e), e)
    BY <1>10, <1>13, EventAdded
  <2>2. Append(q, e) # q
    BY <2>1 DEF Adds
  <2> QED
    BY <1>12, <2>2
<1>15. PICK k \in Nat : k = Received
  BY <1>1 DEF Kinded
<1>16. /\ r \in Seq(Happenings)
       /\ Received' = IF kind = "message" THEN Received + 1 ELSE Received
  <2>1. Messages(q, Len(q)) = k
    BY <1>11, <1>15 DEF Received
  <2>2. r \in Seq(Happenings) /\ Messages(r, Len(r)) = IF kind = "message" THEN k + 1 ELSE k
    <3>1. CASE r = q
      BY <1>13, <1>14, <2>1, <3>1
    <3>2. CASE r # q
      BY <1>10, <1>13, <1>15, <2>1, <3>2 DEF Adds
    <3> QED
      BY <3>1, <3>2
  <2>3. Received' = Messages(r, Len(r))
    BY <1>11 DEF Received, Messages
  <2> QED
    BY <1>15, <2>2, <2>3
<1>17. Wrong' => Wrong \/ kind = "failure"
  <2>1. Errors(r) => Errors(q) \/ kind = "failure"
    <3>1. CASE r = q
      BY <3>1
    <3>2. CASE r # q
      BY <1>10a, <1>12, <1>13, <3>2, ErrorAdded
    <3> QED
      BY <3>1, <3>2
  <2>2. loop' = "failed" => loop = "failed" \/ kind = "failure"
    BY <1>12
  <2> QED
    BY <1>11, <2>1, <2>2 DEF Wrong, Errors
<1>18. Typed'
  BY <1>4, <1>11, <1>12, <1>16 DEF Inv, Typed, PortTurns, Handles
<1>19. ToChild'
  <2>1. Down(link, Len(taken), Begun, posted["parent"])
    BY DEF Inv, ToChild
  <2>2. Down(m, Len(taken), Begun, posted["parent"])
    BY <1>2, <2>1, AlikeKeeps
  <2>3. Down(link', Len(taken), Begun, posted["parent"])
    BY <1>2, <1>3, <1>4, <2>2 DEF Down, Alike
  <2>4. Down(link, Len(taken), Begun, posted["parent"])'
    BY <1>8, <2>3
  <2> QED
    BY <2>4 DEF Inv, ToChild, Upto
<1>20. ToParent'
  <2>1. Up(link', Received', TRUE, posted["child"], flushed # "no")
    BY <1>3, <1>16
  <2>2. Up(link, Received, Online, posted["child"], flushed # "no")'
    BY <1>7, <2>1 DEF Up, Ordered
  <2>3. Received' <= posted["child"]
    BY <1>3, <1>16 DEF Inv, ToParent
  <2> QED
    BY <1>6, <1>7, <1>8, <2>2, <2>3 DEF ToParent
<1>21. LastWords'
  BY <1>4, <1>5, <1>7, <1>8 DEF Inv, LastWords
<1>22. Ends'
  BY <1>4, <1>8 DEF Inv, Ends, PortTurns
<1>23. SeenWell'
  <2>1. PICK online, told : online = Online /\ told = port["parent"].exited
    OBVIOUS
  <2>2. EventsWell(q, online, told) /\ online \in BOOLEAN /\ told \in BOOLEAN /\ ~told
    BY <1>1, <1>11, <2>1 DEF Inv, SeenWell, Kinded, Ends
  <2>3. PICK on \in BOOLEAN : on
    OBVIOUS
  <2>4. EventsWell(r, on, told)
    <3>1. CASE r = q
      <4>1. online
        BY <1>3, <1>14, <2>1, <3>1
      <4> QED
        BY <2>2, <2>3, <3>1, <4>1 DEF EventsWell
    <3>2. CASE r # q
      <4>1. Adds(q, r, e) /\ EventsWell(q, online, FALSE)
        BY <1>13, <2>2, <3>2 DEF EventsWell
      <4>2. e[1] = "online" <=> ~online
        BY <1>3, <1>10, <2>1
      <4>3. e[1] = "online" => q = <<>>
        BY <1>11, <2>1, <4>2 DEF Inv, SeenWell
      <4>4. e[1] = "message" => online /\ e[2] = Messages(q, Len(q)) + 1
        BY <1>3, <1>10, <1>11, <2>1 DEF Received
      <4>5. Fits(q, e, r, online, on, told)
        BY <1>10, <2>3, <4>1, <4>2, <4>3, <4>4 DEF Fits
      <4> QED
        BY <1>10, <1>13, <2>2, <2>3, <4>5, EventKeeps
    <3> QED
      BY <3>1, <3>2
  <2>5. EventsWell(seen', Online', port'["parent"].exited)
    BY <1>7, <1>11, <2>1, <2>3, <2>4 DEF PortTurns, EventsWell
  <2> QED
    BY <1>7, <2>5 DEF SeenWell
<1>24. Faults'
  <2>1. kind = "failure" => Doomed /\ flushed # "clean"
    BY <1>4, <1>5 DEF Inv, LastWords
  <2>2. ASSUME flushed = "clean", Faulty(link') PROVE unread
    <3>1. Up(link, Received, Online, posted["child"], TRUE)
      BY <2>2 DEF Inv, ToParent
    <3>2. Faulty(link)
      BY <1>1, <1>4, <2>2, <3>1, MovesFault, TheSides DEF Kinded
    <3> QED
      BY <1>4, <2>2, <3>2 DEF Inv, Faults
  <2> QED
    BY <1>8, <1>17, <2>1, <2>2 DEF Inv, Faults
<1>25. Delivered'
  BY DEF Delivered, PortTurns
<1> QED
  BY <1>18, <1>19, <1>20, <1>21, <1>22, <1>23, <1>24, <1>25 DEF Inv

\* The turn's record, and what each part of the turn makes of it.
Turn(w, p, l, c, q) ==
  /\ DOMAIN w = {"port", "link", "process", "seen", "raised", "returned"}
  /\ w.port = p /\ w.link = l /\ w.process = c /\ w.seen = q
GoesOn(w) == ~w.raised /\ ~w.returned

\* Only the link is replaced.
LEMMA TurnLink ==
  ASSUME NEW w, NEW p, NEW l, NEW c, NEW q, Turn(w, p, l, c, q), GoesOn(w), NEW m,
         NEW x, x = [w EXCEPT !.link = m]
  PROVE  Turn(x, p, m, c, q) /\ GoesOn(x)
BY DEF Turn, GoesOn

\* closes sets the port closed at the end of the stream.
LEMMA TurnCloses ==
  ASSUME NEW w, NEW p, NEW l, NEW c, NEW q, Turn(w, p, l, c, q), GoesOn(w),
         NEW x, x = closes(w)
  PROVE  Turn(x, [p EXCEPT !.closed = @ \/ closed(l, "parent")], l, c, q) /\ GoesOn(x)
<1>1. x = [w EXCEPT !.port.closed = @ \/ closed(l, "parent")]
  BY DEF closes, Turn, GoesOn
<1> QED
  BY <1>1 DEF Turn, GoesOn

\* workerExits tells the exit of a dead process over a closed port.
LEMMA TurnExits ==
  ASSUME NEW w, NEW p, NEW l, NEW c, NEW q, Turn(w, p, l, c, q), GoesOn(w),
         p.closed, Dead(c), ~p.exited, NEW x, x = workerExits(w)
  PROVE  Turn(x, [p EXCEPT !.exited = TRUE], l, c, Append(q, <<"exit", c.code>>)) /\ GoesOn(x)
<1>1. x = [w EXCEPT !.port.exited = TRUE, !.seen = Append(@, <<"exit", c.code>>)]
  BY DEF workerExits, Turn, GoesOn
<1> QED
  BY <1>1 DEF Turn, GoesOn

Reported(w, p, l, c, q) ==
  \/ ~w.raised /\ Turn(w, p, l, c, Append(q, <<"error", 0>>))
  \/ w.raised /\ Turn(w, p, l, c, q)

\* reports emits the error, or raises it out of the loop.
LEMMA TurnReports ==
  ASSUME NEW w, NEW p, NEW l, NEW c, NEW q, Turn(w, p, l, c, q), ~w.raised,
         NEW x, x = reports(w)
  PROVE  Reported(x, p, l, c, q) /\ (x.returned <=> w.returned)
<1>1. CASE handled
  <2>1. x = [w EXCEPT !.seen = Append(@, <<"error", 0>>)]
    BY <1>1 DEF reports
  <2> QED
    BY <2>1 DEF Turn, Reported
<1>2. CASE ~handled
  <2>1. x = [w EXCEPT !.raised = TRUE]
    BY <1>2 DEF reports
  <2> QED
    BY <2>1 DEF Turn, Reported
<1> QED
  BY <1>1, <1>2

\* workerFails closes the end, kills the process and reports, or is silent.
LEMMA TurnFails ==
  ASSUME NEW w, NEW p, NEW l, NEW c, NEW q, Turn(w, p, l, c, q), GoesOn(w),
         NEW k, k = dies(close(l, "parent"), c, 1), NEW x, x = workerFails(w),
         NEW z, z = [p EXCEPT !.closed = TRUE]
  PROVE  /\ \/ Reported(x, z, k[1], k[2], q)
            \/ p.terminating /\ ~x.raised /\ Turn(x, z, k[1], k[2], q)
         /\ x.returned
<1>1. PICK d : d = [w EXCEPT !.port.closed = TRUE, !.link = k[1], !.process = k[2],
                             !.returned = TRUE]
  OBVIOUS
<1>2. Turn(d, z, k[1], k[2], q) /\ d.returned /\ ~d.raised
  BY <1>1 DEF Turn, GoesOn
<1>3. x = IF p.terminating THEN d ELSE reports(d)
  BY <1>1 DEF workerFails, Turn
<1> QED
  BY <1>2, <1>3, TurnReports

TurnReceived(x, p, m, c, q, kind, value) ==
  /\ ~x.returned
  /\ \/ kind = "message" /\ ~x.raised /\ Turn(x, p, m, c, Append(q, <<"message", value>>))
     \/ /\ kind = "online" /\ ~x.raised
        /\ Turn(x, [p EXCEPT !.online = TRUE], m, c, Append(q, <<"online", 0>>))
     \/ kind = "closed" /\ ~x.raised /\ Turn(x, [p EXCEPT !.peer_closed = TRUE], m, c, q)
     \/ kind = "failure" /\ Reported(x, p, m, c, q)

\* receives dispatches on the kind of frame, of which none is unknown.
LEMMA TurnReceives ==
  ASSUME NEW w, NEW p, NEW l, NEW c, NEW q, Turn(w, p, l, c, q), GoesOn(w),
         NEW kind, NEW value,
         kind = l.end["parent"].incoming[1][1], value = l.end["parent"].incoming[1][2],
         kind \in Kinds("child"), kind = "online" => ~p.online,
         NEW m, m = consume(l, "parent"), NEW x, x = receives(w)
  PROVE  TurnReceived(x, p, m, c, q, kind, value)
<1>1. PICK f : f = l.end["parent"].incoming[1]
  OBVIOUS
<1>2. kind = f[1] /\ value = f[2]
  BY <1>1
<1>3. PICK d : d = [w EXCEPT !.link = m]
  OBVIOUS
<1>4. Turn(d, p, m, c, q) /\ GoesOn(d)
  BY <1>3, TurnLink
<1>5. /\ w.link.end["parent"].incoming[1] = f /\ consume(w.link, "parent") = m
      /\ w.port.online = p.online
  BY <1>1 DEF Turn
<1>6. CASE kind = "message"
  <2>1. x = [d EXCEPT !.seen = Append(@, <<"message", value>>)]
    BY <1>2, <1>3, <1>5, <1>6 DEF receives
  <2> QED
    BY <1>4, <1>6, <2>1 DEF Turn, GoesOn, TurnReceived
<1>7. CASE kind = "online"
  <2>1. x = [d EXCEPT !.port.online = TRUE, !.seen = Append(@, <<"online", 0>>)]
    BY <1>2, <1>3, <1>5, <1>7 DEF receives
  <2> QED
    BY <1>4, <1>7, <2>1 DEF Turn, GoesOn, TurnReceived
<1>8. CASE kind = "closed"
  <2>1. x = [d EXCEPT !.port.peer_closed = TRUE]
    BY <1>2, <1>3, <1>5, <1>8 DEF receives
  <2> QED
    BY <1>4, <1>8, <2>1 DEF Turn, GoesOn, TurnReceived
<1>9. CASE kind = "failure"
  <2>1. x = reports(d)
    BY <1>2, <1>3, <1>5, <1>9 DEF receives
  <2>2. Reported(x, p, m, c, q) /\ (x.returned <=> d.returned)
    BY <1>4, <2>1, TurnReports DEF GoesOn
  <2> QED
    BY <1>4, <1>9, <2>2 DEF GoesOn, TurnReceived
<1> QED
  BY <1>6, <1>7, <1>8, <1>9 DEF Kinds

\* The values that one turn of the parent's loop goes through.
Polled(w, first, second, read, over) ==
  /\ loop = "running" /\ UNCHANGED <<listening, handled, posted, taken, flushed>>
  /\ w = [port |-> port["parent"], link |-> link, process |-> process, seen |-> seen,
          raised |-> FALSE, returned |-> FALSE]
  /\ first = progress(link, "parent") /\ second = progress(first, "parent")
  /\ read = workerReads(w, first, second) /\ over = workerExits(closes(read))
  /\ port' = [port EXCEPT !["parent"] = over.port]
  /\ link' = over.link /\ process' = over.process /\ seen' = over.seen
  /\ loop' = (IF over.raised THEN "failed" ELSE loop)
  /\ unread' = (unread \/ (~Dead(process) /\ Dead(over.process) /\ Unread(link, "child")))

\* A turn goes through such values.
LEMMA PollParts ==
  ASSUME ParentPolls
  PROVE  \E w, first, second, read, over : Polled(w, first, second, read, over)
<1> DEFINE
  start0 == [port |-> port["parent"], link |-> link, process |-> process, seen |-> seen,
             raised |-> FALSE, returned |-> FALSE]
  Over(over) ==
       /\ port' = [port EXCEPT !["parent"] = over.port]
       /\ link' = over.link /\ process' = over.process /\ seen' = over.seen
       /\ loop' = IF over.raised THEN "failed" ELSE loop
       /\ unread' = (unread \/ (~Dead(process) /\ Dead(over.process) /\ Unread(link, "child")))
  Read(read) == \E over \in {workerExits(closes(read))} : Over(over)
  Second(w, first, second) == \E read \in {workerReads(w, first, second)} : Read(read)
  First(w, first) == \E second \in {progress(first, "parent")} : Second(w, first, second)
<1>0. /\ loop = "running" /\ UNCHANGED <<listening, handled, posted, taken, flushed>>
      /\ \E w \in {start0}, first \in {progress(link, "parent")} : First(w, first)
  BY DEF ParentPolls
<1> HIDE DEF Over, Read, Second, First
<1>1. PICK w, first : w = start0 /\ first = progress(link, "parent") /\ First(w, first)
  BY <1>0
<1>2. PICK second : second = progress(first, "parent") /\ Second(w, first, second)
  BY <1>1 DEF First
<1>3. PICK read : read = workerReads(w, first, second) /\ Read(read)
  BY <1>2 DEF Second
<1>4. PICK over : over = workerExits(closes(read)) /\ Over(over)
  BY <1>3 DEF Read
<1>5. Polled(w, first, second, read, over)
  BY <1>0, <1>1, <1>2, <1>3, <1>4 DEF Over, Polled
<1> QED
  BY <1>5

\* A turn of the parent's loop.
LEMMA ParentPollsKeeps == Inv /\ ParentPolls => Inv'
<1> SUFFICES ASSUME Inv, ParentPolls PROVE Inv'
  OBVIOUS
<1>1. PICK w, first, second, read, over : Polled(w, first, second, read, over)
  BY PollParts
<1>2. /\ loop = "running" /\ UNCHANGED <<listening, handled, posted, taken, flushed>>
      /\ first = progress(link, "parent") /\ second = progress(first, "parent")
  BY <1>1 DEF Polled
<1>3. read = workerReads(w, first, second)
  BY <1>1 DEF Polled
<1>4. over = workerExits(closes(read))
  BY <1>1 DEF Polled
<1>5. /\ port' = [port EXCEPT !["parent"] = over.port]
      /\ link' = over.link /\ process' = over.process /\ seen' = over.seen
      /\ loop' = (IF over.raised THEN "failed" ELSE loop)
      /\ unread' = (unread \/ (~Dead(process) /\ Dead(over.process) /\ Unread(link, "child")))
  BY <1>1 DEF Polled
<1>6. Kinded
  BY TypesKnown DEF Inv
<1>7. Moves(link, first, "parent") /\ Moves(link, second, "parent")
  <2>1. Moves(link, first, "parent")
    BY <1>2, <1>6, ProgressMoves, TheSides DEF Kinded
  <2>2. Moves(first, second, "parent")
    BY <1>2, <2>1, ProgressMoves, TheSides DEF Moves
  <2> QED
    BY <2>1, <2>2, MovesOn, TheSides
<1>8. PICK p : p = port["parent"]
  OBVIOUS
<1>9. p \in Ports /\ port \in [Sides -> Ports]
  BY <1>6, <1>8 DEF Inv, Typed, Kinded
<1>10. ASSUME NEW q \in Ports, over.port = q, NEW on, NEW c, NEW t,
              q.online = on, q.closed = c, q.exited = t
       PROVE  PortTurns(on, c, t)
  BY <1>5, <1>9, <1>10, TheSides DEF PortTurns
<1>11. unread' \in BOOLEAN /\ (unread => unread')
  BY <1>5
<1>11a. Turn(w, p, link, process, seen) /\ GoesOn(w)
  BY <1>1, <1>8 DEF Polled, Turn, GoesOn
\* Nothing has arrived.
<1>12. ASSUME NEW l, Moves(link, l, "parent"), Turn(read, p, l, process, seen), GoesOn(read)
       PROVE  Inv'
  <2>1. PICK c \in BOOLEAN : c = (p.closed \/ closed(l, "parent"))
    <3>1. (p.closed \/ closed(l, "parent")) \in BOOLEAN
      BY <1>9 DEF Ports
    <3> QED
      BY <3>1
  <2>2. PICK q : q = [p EXCEPT !.closed = @ \/ closed(l, "parent")]
    OBVIOUS
  <2>3. q \in Ports /\ q.online = p.online /\ q.closed = c /\ q.exited = p.exited
    BY <1>9, <2>1, <2>2 DEF Ports
  <2>4. PICK x : x = closes(read)
    OBVIOUS
  <2>5. Turn(x, q, l, process, seen) /\ GoesOn(x)
    BY <1>12, <2>2, <2>4, TurnCloses
  <2>6. PICK t \in BOOLEAN : t = (c /\ Dead(process) /\ ~p.exited)
    BY DEF Dead
  <2>7. PICK z : z = IF t THEN [q EXCEPT !.exited = TRUE] ELSE q
    OBVIOUS
  <2>8. z \in Ports /\ z.online = p.online /\ z.closed = c /\ z.exited = (p.exited \/ t)
    BY <1>9, <2>3, <2>7 DEF Ports
  <2>9. PICK events : events = IF t THEN Append(seen, <<"exit", process.code>>) ELSE seen
    OBVIOUS
  <2>10. Turn(over, z, l, process, events) /\ GoesOn(over)
    <3>1. over = workerExits(x)
      BY <1>4, <2>4
    <3>2. CASE t
      <4>1. q.closed /\ Dead(process) /\ ~q.exited
        BY <2>3, <2>6, <3>2
      <4>2. z = [q EXCEPT !.exited = TRUE] /\ events = Append(seen, <<"exit", process.code>>)
        BY <2>7, <2>9, <3>2
      <4> QED
        BY <2>5, <3>1, <4>1, <4>2, TurnExits
    <3>3. CASE ~t
      <4>1. q.exited \/ ~q.closed \/ ~Dead(process)
        BY <2>3, <2>6, <3>3
      <4>2. x.port = q /\ x.process = process
        BY <2>5 DEF Turn
      <4>3. over = x
        BY <3>1, <4>1, <4>2 DEF workerExits
      <4> QED
        BY <2>5, <2>7, <2>9, <3>3, <4>3
    <3> QED
      BY <3>2, <3>3
  <2>11. PortTurns(p.online, c, p.exited \/ t)
    BY <1>10, <2>8, <2>10 DEF Turn
  <2>12. /\ link' = l /\ process' = process /\ loop' = loop /\ seen' = events
         /\ over.process = process
    BY <1>5, <2>10 DEF Turn, GoesOn
  <2>13. unread' = unread
    BY <1>5, <2>12 DEF Inv, Typed
  <2> QED
    BY <1>2, <1>8, <1>12, <2>1, <2>6, <2>9, <2>11, <2>12, <2>13, ExitKeeps
\* The end is broken.
<1>13. ASSUME NEW l, Moves(link, l, "parent"), broken(l, "parent"), ~p.closed,
              read = workerFails([w EXCEPT !.link = l])
       PROVE  Inv'
  <2>1. PICK k : k = dies(close(l, "parent"), process, 1)
    OBVIOUS
  <2>2. PICK q : q = [p EXCEPT !.closed = TRUE]
    OBVIOUS
  <2>3. q \in Ports /\ q.online = p.online /\ q.closed = TRUE /\ q.exited = p.exited
    BY <1>9, <2>2 DEF Ports
  <2>4. PICK v : v = [w EXCEPT !.link = l]
    OBVIOUS
  <2>5. Turn(v, p, l, process, seen) /\ GoesOn(v)
    BY <1>11a, <2>4, TurnLink
  <2>6. /\ Reported(read, q, k[1], k[2], seen) \/ (~read.raised /\ Turn(read, q, k[1], k[2], seen))
        /\ read.returned
    BY <1>13, <2>1, <2>2, <2>4, <2>5, TurnFails
  <2>7. over = read
    BY <1>4, <2>6 DEF workerExits, closes
  <2>8. /\ over.port = q /\ over.link = k[1] /\ over.process = k[2]
        /\ \/ over.seen = seen
           \/ over.seen = Append(seen, <<"error", 0>>) /\ ~over.raised
    BY <2>6, <2>7 DEF Reported, Turn
  <2>9. PortTurns(p.online, TRUE, p.exited)
    BY <1>10, <2>3, <2>8
  <2>10. /\ link' = k[1] /\ process' = k[2]
         /\ \/ seen' = seen /\ loop' \in {loop, "failed"}
            \/ seen' = Append(seen, <<"error", 0>>) /\ loop' = loop
    BY <1>5, <2>8
  <2> QED
    BY <1>2, <1>8, <1>11, <1>13, <2>1, <2>9, <2>10, FailKeeps
\* A frame has arrived.
<1>14. ASSUME ~p.closed, ~broken(second, "parent"), complete(second.end["parent"]),
              read = receives([w EXCEPT !.link = second])
       PROVE  Inv'
  <2>1. PICK l : l = consume(second, "parent")
    OBVIOUS
  <2>2. PICK kind, value : /\ kind = second.end["parent"].incoming[1][1]
                           /\ value = second.end["parent"].incoming[1][2]
    OBVIOUS
  <2>3. Alike(link, second) /\ Sound(second)
    BY <1>7, MovesAlike, TheSides DEF Moves
  <2>4. ParentTook(second, l, kind, value, Received, Online, posted["child"], flushed # "no")
    <3>1. PICK all \in BOOLEAN : all <=> flushed # "no"
      OBVIOUS
    <3>2. PICK base, begun, n : base = Received /\ begun = Online /\ n = posted["child"]
      OBVIOUS
    <3>3. base \in Nat /\ begun \in BOOLEAN /\ n \in Nat
      BY <1>6, <3>2 DEF Kinded
    <3>4. Up(second, base, begun, n, all)
      <4>1. Up(second, Received, Online, posted["child"], flushed # "no")
        BY <2>3, AlikeKeeps DEF Inv, ToParent
      <4> QED
        BY <3>1, <3>2, <4>1 DEF Up
    <3>5. ParentTook(second, l, kind, value, base, begun, n, all)
      BY <1>14, <2>1, <2>2, <2>3, <3>3, <3>4, ParentTakes
    <3> QED
      BY <3>1, <3>2, <3>5 DEF ParentTook, Up
  <2>5. kind \in Kinds("child") /\ (kind = "online" <=> ~p.online)
    BY <1>8, <2>4 DEF ParentTook, Online
  <2>6. ~closed(l, "parent")
    <3>1. Takes(second, l, "parent") /\ Open(second, "parent")
      BY <2>4 DEF ParentTook
    <3>2. ~second.end["parent"].eof
      BY <1>14, <2>3, TheSides DEF Sound, Half, complete
    <3> QED
      BY <3>1, <3>2 DEF Takes, closed, Open
  <2>7. p.online \in BOOLEAN /\ p.closed = FALSE
    BY <1>9, <1>14 DEF Ports
  <2>8. PICK q : q = IF kind = "online" THEN [p EXCEPT !.online = TRUE]
                     ELSE IF kind = "closed" THEN [p EXCEPT !.peer_closed = TRUE] ELSE p
    OBVIOUS
  <2>9. q \in Ports /\ q.online = TRUE /\ q.closed = FALSE /\ q.exited = p.exited
    BY <1>9, <2>5, <2>7, <2>8 DEF Ports
  <2>10. TurnReceived(read, p, l, process, seen, kind, value)
    <3>1. PICK v : v = [w EXCEPT !.link = second]
      OBVIOUS
    <3>2. Turn(v, p, second, process, seen) /\ GoesOn(v) /\ read = receives(v)
      BY <1>11a, <1>14, <3>1, TurnLink
    <3> QED
      BY <2>1, <2>2, <2>5, <3>2, TurnReceives
  <2>11. PICK s : Turn(read, q, l, process, s) /\ ~read.returned
           /\ \/ kind = "message" /\ s = Append(seen, <<"message", value>>) /\ ~read.raised
              \/ kind = "online" /\ s = Append(seen, <<"online", 0>>) /\ ~read.raised
              \/ kind = "closed" /\ s = seen /\ ~read.raised
              \/ kind = "failure" /\ s = seen /\ read.raised
              \/ kind = "failure" /\ s = Append(seen, <<"error", 0>>) /\ ~read.raised
    BY <2>8, <2>10 DEF TurnReceived, Reported
  <2>12. over.raised = read.raised /\ over.seen = s /\ over.port = q /\ over.link = l
         /\ over.process = process
    <3>1. CASE read.raised
      <4>1. over = read
        BY <1>4, <3>1 DEF workerExits, closes
      <4> QED
        BY <2>11, <4>1 DEF Turn
    <3>2. CASE ~read.raised
      <4>1. PICK x : x = closes(read)
        OBVIOUS
      <4>2. x.port = [q EXCEPT !.closed = @ \/ closed(l, "parent")] /\ x.link = l
            /\ x.process = process /\ x.seen = s /\ x.raised = read.raised
        <5>1. x = [read EXCEPT !.port.closed = @ \/ closed(l, "parent")]
          BY <2>11, <3>2, <4>1 DEF closes, Turn
        <5> QED
          BY <2>11, <5>1 DEF Turn
      <4>3. (q.closed \/ closed(l, "parent")) = FALSE
        BY <2>6, <2>9
      <4>4. [q EXCEPT !.closed = @ \/ closed(l, "parent")] = q
        <5>1. [q EXCEPT !.closed = @ \/ closed(l, "parent")] = [q EXCEPT !.closed = FALSE]
          BY <4>3
        <5>2. [q EXCEPT !.closed = FALSE] = q
          BY <2>9 DEF Ports
        <5> QED
          BY <5>1, <5>2
      <4>5. over = x
        BY <1>4, <2>9, <4>1, <4>2, <4>4 DEF workerExits
      <4> QED
        BY <4>2, <4>4, <4>5
    <3> QED
      BY <3>1, <3>2
  <2>13. PortTurns(TRUE, FALSE, p.exited)
    BY <1>10, <2>9, <2>12
  <2>14. link' = l /\ process' = process /\ Handles(kind, value)
    BY <1>5, <2>11, <2>12 DEF Handles
  <2>15. unread' = unread
    BY <1>5, <2>12 DEF Inv, Typed
  <2> QED
    BY <1>2, <1>7, <1>8, <1>14, <2>4, <2>13, <2>14, <2>15, FrameKeeps
<1>15. PICK v : v = [w EXCEPT !.link = second]
  OBVIOUS
<1>16. /\ w.port.closed = p.closed /\ Turn(v, p, second, process, seen) /\ GoesOn(v)
  BY <1>11a, <1>15, TurnLink DEF Turn
<1>17. CASE p.closed
  <2>1. read = w
    BY <1>3, <1>16, <1>17 DEF workerReads
  <2>2. Moves(link, link, "parent")
    BY <1>6, Stays, TheSides DEF Kinded
  <2> QED
    BY <1>11a, <1>12, <2>1, <2>2
<1>18. CASE ~p.closed
  <2>1. CASE broken(first, "parent")
    BY <1>3, <1>7, <1>13, <1>16, <1>18, <2>1 DEF workerReads
  <2>2. CASE ~broken(first, "parent") /\ broken(second, "parent")
    BY <1>3, <1>7, <1>13, <1>16, <1>18, <2>2 DEF workerReads
  <2>3. CASE ~broken(first, "parent") /\ ~broken(second, "parent") /\ complete(second.end["parent"])
    BY <1>3, <1>14, <1>16, <1>18, <2>3 DEF workerReads
  <2>4. CASE ~broken(first, "parent") /\ ~broken(second, "parent") /\ ~complete(second.end["parent"])
    <3>1. read = v
      BY <1>3, <1>15, <1>16, <1>18, <2>4 DEF workerReads
    <3> QED
      BY <1>7, <1>12, <1>16, <3>1
  <2> QED
    BY <2>1, <2>2, <2>3, <2>4
<1> QED
  BY <1>17, <1>18
-----------------------------------------------------------------------------
(***************************************************************************)
(* The theorems.                                                           *)
(***************************************************************************)

\* Every step keeps the invariant.
LEMMA Step == Inv /\ [Next]_vars => Inv'
<1> SUFFICES ASSUME Inv, [Next]_vars PROVE Inv'
  OBVIOUS
<1>1. CASE ParentPosts
  BY <1>1, ParentPostsKeeps
<1>2. CASE ParentRefs
  BY <1>2, QuietKeeps DEF ParentRefs
<1>3. CASE terminate
  BY <1>3, terminateKeeps
<1>4. CASE ParentPolls
  BY <1>4, ParentPollsKeeps
<1>5. CASE ParentLoopEnds
  BY <1>5, ParentLoopEndsKeeps
<1>6. CASE ParentExits
  BY <1>6, ParentExitsKeeps
<1>7. CASE source_module_entry
  BY <1>7, source_module_entryKeeps
<1>8. CASE ChildPosts
  BY <1>8, ChildPostsKeeps
<1>9. CASE ChildListens
  <2>1. link' = link /\ UNCHANGED <<process, handled, loop, posted, seen, taken, flushed, unread>>
    BY <1>9 DEF ChildListens
  <2> QED
    BY <1>9, <2>1, QuietKeeps
<1>10. CASE off_callable
  <2>1. link' = link /\ UNCHANGED <<process, handled, loop, posted, seen, taken, flushed, unread>>
    BY <1>10 DEF off_callable
  <2> QED
    BY <1>10, <2>1, QuietKeeps
<1>11. CASE ChildRefs
  <2>1. link' = link /\ UNCHANGED <<process, handled, loop, posted, seen, taken, flushed, unread>>
    BY <1>11 DEF ChildRefs
  <2> QED
    BY <1>11, <2>1, QuietKeeps
<1>12. CASE start
  <2>1. link' = link /\ UNCHANGED <<process, handled, loop, posted, seen, taken, flushed, unread>>
    BY <1>12 DEF start
  <2> QED
    BY <1>12, <2>1, QuietKeeps
<1>13. CASE ChildCloses
  BY <1>13, ChildClosesKeeps
<1>14. CASE receive_message_on_port
  BY <1>14, receive_message_on_portKeeps
<1>15. CASE ChildPolls
  BY <1>15, ChildPollsKeeps
<1>16. CASE ChildLoopEnds
  BY <1>16, ChildLoopEndsKeeps
<1>17. CASE ChildRaises
  BY <1>17, ChildRaisesKeeps
<1>18. CASE ChildFlushes
  BY <1>18, ChildFlushesKeeps
<1>19. CASE ChildExits \/ ChildCrashes
  BY <1>19, EndsKeeps
<1>20. CASE UNCHANGED vars
  <2>1. UNCHANGED <<link, port, process, handled, loop, posted, seen, taken, flushed, unread>>
    BY <1>20 DEF vars
  <2> QED
    BY <2>1, PortsSame, SameKeeps
<1> QED
  BY <1>1, <1>2, <1>3, <1>4, <1>5, <1>6, <1>7, <1>8, <1>9, <1>10, <1>11, <1>12, <1>13, <1>14,
     <1>15, <1>16, <1>17, <1>18, <1>19, <1>20 DEF Next

\* What is on its way, who may close, and what the Worker has told of it.
THEOREM Inductive == Spec => []Inv
BY InitInv, Step, PTL DEF Spec

\* What MessagesInOrder says follows from the invariant.
LEMMA InvMessagesInOrder == Inv => MessagesInOrder
<1> SUFFICES ASSUME Inv PROVE MessagesInOrder
  OBVIOUS
<1>1. \A s \in Sides : Len(link.end[s].out) <= QueueLimit /\ Len(link.end[s].incoming) <= 2
  BY DEF Inv, Typed, Sound, Half
<1>2. Received <= posted["child"] /\ Len(taken) <= posted["parent"] /\ taken = Upto(Len(taken))
  BY DEF Inv, ToParent, ToChild
<1>3. PICK online, exited : EventsWell(seen, online, exited)
  BY DEF Inv, SeenWell
<1>4. seen \in Seq(Happenings)
  BY DEF Inv, Typed
<1>5. \A i \in DOMAIN seen : /\ seen[i][1] = "online" => i = 1
                             /\ seen[i][1] = "message" => /\ seen[1][1] = "online"
                                                           /\ seen[i][2] = Messages(seen, i)
                             /\ seen[i][1] = "exit" => i = Len(seen)
  BY <1>3, <1>4 DEF EventsWell
<1> QED
  BY <1>1, <1>2, <1>5 DEF MessagesInOrder

\* Messages arrive in the order they were posted, each once, and no more than
\* were posted; online is the first event and exit the last.
THEOREM InOrder == Spec => []MessagesInOrder
BY Inductive, InvMessagesInOrder, PTL

\* All that a child posted before it completed has arrived when its exit is told.
THEOREM AllDelivered == Spec => []NothingLost
<1>1. Inv => NothingLost
  BY DEF Inv, Ends, Delivered, NothingLost
<1> QED
  BY <1>1, Inductive, PTL

\* The pieces that a dead child left are its flow.
Left(l) == Len(l.end["parent"].incoming) + Len(l.wire["child"])
LeftIs(l) == Left(l) \in Nat /\ Len(Flow(l, "child")) = Left(l)
LEMMA LeftFlows ==
  ASSUME NEW l, Sound(l), ~Open(l, "child")
  PROVE  LeftIs(l)
<1>1. LinkParts(l, "parent") /\ LinkParts(l, "child") /\ l.end["child"].out = <<>>
  BY Parts, TheSides DEF Sound, Half
<1>2. PICK a, w : a = l.end["parent"].incoming /\ w = l.wire["child"]
  OBVIOUS
<1>3. a \in Seq(Pieces) /\ w \in Seq(Pieces)
  BY <1>1, <1>2 DEF LinkParts
<1>4. Flow(l, "child") = (a \o w) \o <<>>
  <2>1. Flow(l, "child") = (l.end["parent"].incoming \o l.wire["child"]) \o l.end["child"].out
    BY TheSides DEF Flow
  <2> QED
    BY <1>1, <1>2, <2>1
<1>5. Len((a \o w) \o <<>>) = Len(a) + Len(w) /\ Len(a) + Len(w) \in Nat
  BY ONLY <1>3
<1>6. Left(l) = Len(a) + Len(w)
  BY <1>2 DEF Left
<1>7. Len(Flow(l, "child")) = Len(a) + Len(w)
  BY <1>4, <1>5
<1> QED
  BY <1>5, <1>6, <1>7 DEF LeftIs

\* A torn frame stays where nothing but whole frames is taken and the port is
\* left open.
LEMMA TornStays ==
  ASSUME Inv, Inv', Torn, UNCHANGED process, port'["parent"].closed = FALSE,
         \/ Flow(link', "child") = Flow(link, "child")
         \/ Dropped(Flow(link, "child"), Flow(link', "child"))
  PROVE  Torn'
<1>1. Dead(process) /\ Dead(process') /\ Ending /\ Ending'
  BY DEF Torn, Dead, Ending
<1>2. Sound(link) /\ ~Open(link, "child") /\ Sound(link') /\ ~Open(link', "child")
  BY <1>1 DEF Inv, Typed, Ends
<1>3. LeftIs(link) /\ LeftIs(link')
  BY <1>2, LeftFlows
<1>4. /\ Left(link) \in Nat /\ Left(link') \in Nat
      /\ Left(link) = Left(link') \/ Left(link) = Left(link') + 2
  BY <1>3 DEF LeftIs, Dropped
<1>5. Left(link) % 2 = 1
  BY DEF Torn, Left
<1>6. Left(link') % 2 = 1
  BY ONLY <1>4, <1>5
<1> QED
  BY <1>1, <1>6 DEF Torn, Left

\* An error that the Worker did not ask for itself is told, or ends the loop.
LEMMA FailureTold ==
  ASSUME NEW w, NEW first, NEW second, NEW read, NEW over, Polled(w, first, second, read, over),
         ~port["parent"].terminating, NEW v, NEW l, read = workerFails(v),
         Turn(v, port["parent"], l, process, seen), GoesOn(v)
  PROVE  seen' = Append(seen, <<"error", 0>>) \/ loop' = "failed"
<1>1. PICK p, k, z : /\ p = port["parent"] /\ k = dies(close(l, "parent"), process, 1)
                     /\ z = [p EXCEPT !.closed = TRUE]
  OBVIOUS
<1>2. Reported(read, z, k[1], k[2], seen) /\ read.returned
  BY <1>1, TurnFails
<1>3. over = read
  BY <1>2 DEF Polled, workerExits, closes
<1> QED
  BY <1>2, <1>3 DEF Polled, Reported, Turn

\* A turn of the parent's loop that meets the cut tells it.
LEMMA PollReports == Inv /\ Inv' /\ ParentPolls => TornReported
<1> SUFFICES ASSUME Inv, Inv', ParentPolls, Torn, ~Torn', ~port["parent"].terminating,
                    loop' # "failed"
             PROVE  seen' = Append(seen, <<"error", 0>>)
  BY DEF TornReported
<1>1. PICK w, first, second, read, over : Polled(w, first, second, read, over)
  BY PollParts
<1>2. PICK p : p = port["parent"]
  OBVIOUS
<1>3. p \in Ports /\ port \in [Sides -> Ports] /\ p.closed = FALSE /\ Sound(link)
  BY <1>2, TheSides DEF Inv, Typed, Torn, Ports
<1>4. Turn(w, p, link, process, seen) /\ GoesOn(w)
  BY <1>1, <1>2 DEF Polled, Turn, GoesOn
<1>5. Moves(link, second, "parent")
  <2>1. Moves(link, first, "parent")
    BY <1>1, <1>3, ProgressMoves, TheSides DEF Polled
  <2>2. Moves(first, second, "parent")
    BY <1>1, <2>1, ProgressMoves, TheSides DEF Polled, Moves
  <2> QED
    BY <2>1, <2>2, MovesOn, TheSides
<1>6. Flow(second, "child") = Flow(link, "child") /\ Sound(second)
  BY <1>5, TheSides DEF Moves
<1>7. ASSUME NEW v, NEW l, read = workerFails(v), Turn(v, p, l, process, seen), GoesOn(v)
      PROVE  seen' = Append(seen, <<"error", 0>>)
  BY <1>1, <1>2, <1>7, FailureTold
<1>8. ASSUME NEW l, /\ read.link = l /\ read.process = process /\ read.port.closed = FALSE
                    /\ DOMAIN read = DOMAIN w /\ DOMAIN read.port = DOMAIN p /\ ~read.returned,
             ~closed(l, "parent"),
             \/ Flow(l, "child") = Flow(link, "child")
             \/ Dropped(Flow(link, "child"), Flow(l, "child"))
      PROVE  FALSE
  <2>1. ~read.raised
    BY <1>1, <1>8 DEF Polled, closes, workerExits
  <2>2. PICK x : x = closes(read)
    OBVIOUS
  <2>3. x = [read EXCEPT !.port.closed = @ \/ closed(l, "parent")]
    BY <1>8, <2>1, <2>2 DEF closes
  <2>4. x.port.closed = FALSE /\ x.link = l /\ x.process = process
    BY <1>3, <1>4, <1>8, <2>3 DEF Turn, Ports
  <2>5. over = x
    BY <1>1, <2>2, <2>4 DEF Polled, workerExits
  <2>6. port'["parent"].closed = FALSE /\ link' = l /\ process' = process
    BY <1>1, <1>3, <2>4, <2>5, TheSides DEF Polled
  <2> QED
    BY <1>8, <2>6, TornStays
<1>9. PICK v : v = [w EXCEPT !.link = second]
  OBVIOUS
<1>10. Turn(v, p, second, process, seen) /\ GoesOn(v)
  BY <1>4, <1>9, TurnLink
<1>11. w.port.closed = FALSE
  BY <1>3, <1>4 DEF Turn
<1>12. CASE broken(first, "parent")
  <2>1. PICK u : u = [w EXCEPT !.link = first]
    OBVIOUS
  <2>2. Turn(u, p, first, process, seen) /\ GoesOn(u)
    BY <1>4, <2>1, TurnLink
  <2>3. read = workerFails(u)
    BY <1>1, <1>11, <1>12, <2>1 DEF Polled, workerReads
  <2> QED
    BY <1>7, <2>2, <2>3
<1>13. CASE ~broken(first, "parent") /\ broken(second, "parent")
  <2>1. read = workerFails(v)
    BY <1>1, <1>9, <1>11, <1>13 DEF Polled, workerReads
  <2> QED
    BY <1>7, <1>10, <2>1
\* A frame has arrived.
<1>14. CASE ~broken(first, "parent") /\ ~broken(second, "parent") /\ complete(second.end["parent"])
  <2>1. read = receives(v)
    BY <1>1, <1>9, <1>11, <1>14 DEF Polled, workerReads
  <2>2. PICK l : l = consume(second, "parent")
    OBVIOUS
  <2>3. Takes(second, l, "parent")
    BY <1>6, <1>14, <2>2, ConsumeTakes, TheSides
  <2>4. Dropped(Flow(link, "child"), Flow(l, "child"))
    BY <1>6, <2>3, TheSides DEF Takes
  <2>5. ~closed(l, "parent")
    <3>1. ~second.end["parent"].eof /\ Open(second, "parent")
      BY <1>6, <1>14, TheSides DEF Sound, Half, complete, broken, Open
    <3> QED
      BY <2>3, <3>1 DEF Takes, closed, Open
  <2>6. PICK f, d : f = v.link.end["parent"].incoming[1] /\ d = [v EXCEPT !.link = l]
    OBVIOUS
  <2>7. Turn(d, p, l, process, seen) /\ GoesOn(d)
    BY <1>10, <2>6, TurnLink
  <2>8. consume(v.link, "parent") = l
    BY <1>10, <2>2 DEF Turn
  <2>9. read = CASE f[1] = "message" -> [d EXCEPT !.seen = Append(@, <<"message", f[2]>>)]
                 [] f[1] = "online" /\ ~v.port.online ->
                      [d EXCEPT !.port.online = TRUE, !.seen = Append(@, <<"online", 0>>)]
                 [] f[1] = "closed" -> [d EXCEPT !.port.peer_closed = TRUE]
                 [] f[1] = "failure" -> reports(d)
                 [] OTHER -> workerFails(d)
    BY <2>1, <2>6, <2>8 DEF receives
  <2>10. CASE read = workerFails(d)
    BY <1>7, <2>7, <2>10
  <2>11. CASE read # workerFails(d)
    <3>1. \/ read = [d EXCEPT !.seen = Append(@, <<"message", f[2]>>)]
          \/ read = [d EXCEPT !.port.online = TRUE, !.seen = Append(@, <<"online", 0>>)]
          \/ read = [d EXCEPT !.port.peer_closed = TRUE]
          \/ read = [d EXCEPT !.seen = Append(@, <<"error", 0>>)]
          \/ read = [d EXCEPT !.raised = TRUE]
      BY <2>9, <2>11 DEF reports
    <3>1a. /\ DOMAIN d = DOMAIN w /\ d.port = p /\ d.link = l /\ d.process = process /\ ~d.returned
           /\ {"port", "link", "process", "returned"} \subseteq DOMAIN d
      BY <1>4, <2>7 DEF Turn, GoesOn
    <3>1b. /\ DOMAIN read = DOMAIN d /\ read.link = d.link /\ read.process = d.process
           /\ read.returned = d.returned
           /\ \/ read.port = d.port \/ read.port = [d.port EXCEPT !.online = TRUE]
              \/ read.port = [d.port EXCEPT !.peer_closed = TRUE]
      BY <3>1, <3>1a
    <3>1c. DOMAIN read.port = DOMAIN p /\ read.port.closed = FALSE
      BY <1>3, <3>1a, <3>1b DEF Ports
    <3>2. /\ read.link = l /\ read.process = process /\ read.port.closed = FALSE
          /\ DOMAIN read = DOMAIN w /\ DOMAIN read.port = DOMAIN p /\ ~read.returned
      BY <3>1a, <3>1b, <3>1c
    <3> QED
      BY <1>8, <2>4, <2>5, <3>2
  <2> QED
    BY <2>10, <2>11
\* Nothing has arrived, and the end of the stream not within a frame.
<1>15. CASE ~broken(first, "parent") /\ ~broken(second, "parent") /\ ~complete(second.end["parent"])
  <2>1. read = v
    BY <1>1, <1>9, <1>11, <1>15 DEF Polled, workerReads
  <2>2. ASSUME second.end["parent"].eof
        PROVE  FALSE
    <3>1. second.end["parent"].incoming = <<>> /\ second.wire["child"] = <<>>
      BY <1>6, <1>15, <2>2, TheSides DEF Sound, Half, broken
    <3>2. LeftIs(link) /\ LeftIs(second)
      BY <1>3, <1>5, <1>6, LeftFlows, TheSides DEF Moves, Open, Inv, Ends, Torn, Dead, Ending
    <3>3. Left(second) = 0
      BY <3>1 DEF Left
    <3>4. Left(link) = 0
      BY <1>6, <3>2, <3>3 DEF LeftIs
    <3>5. Left(link) % 2 = 1
      BY DEF Torn, Left
    <3> QED
      BY ONLY <3>4, <3>5
  <2>3. ~closed(second, "parent")
    BY <1>15, <2>2 DEF closed, broken
  <2>4. /\ read.link = second /\ read.process = process /\ read.port.closed = FALSE
        /\ DOMAIN read = DOMAIN w /\ DOMAIN read.port = DOMAIN p /\ ~read.returned
    BY <1>3, <1>4, <1>10, <2>1 DEF Turn, GoesOn
  <2> QED
    BY <1>6, <1>8, <2>3, <2>4
<1> QED
  BY <1>12, <1>13, <1>14, <1>15

\* No step of the program or of a dead child touches the pieces that are left.
LEMMA StepReports == Inv /\ Inv' /\ [Next]_vars => TornReported
<1> SUFFICES ASSUME Inv, Inv', [Next]_vars, Torn, ~Torn'
             PROVE  TornReported
  BY DEF TornReported
<1>1. Dead(process) /\ process.phase = "dead"
  BY DEF Torn, Dead
<1>2. /\ port \in [Sides -> Ports] /\ port["parent"] \in Ports /\ Sound(link)
      /\ port["parent"].closed = FALSE
  BY TheSides DEF Inv, Typed, Torn, Ports
<1>3. CASE ParentPolls
  BY <1>3, PollReports
<1>4. CASE ParentExits
  BY <1>4 DEF ParentExits, TornReported
<1>5. CASE ParentPosts
  <2>1. process' = process /\ port' = port
    BY <1>5 DEF ParentPosts
  <2>2. CASE refuses(link, "parent")
    <3>1. link' = link
      BY <1>5, <2>2 DEF ParentPosts, post_message, send
    <3> QED
      BY <2>1, <3>1 DEF Torn, Dead
  <2>3. CASE ~refuses(link, "parent")
    <3>1. PICK value \in Nat : link' = send(link, "parent", "message", value)
      <4>1. posted["parent"] + 1 \in Nat
        BY TheSides DEF Inv, Typed
      <4> QED
        BY <1>5, <4>1 DEF ParentPosts, post_message
    <3>2. Sends(link, link', "parent", "message", value)
      BY <1>2, <2>3, <3>1, SendSends, TheSides DEF Kinds
    <3>3. Flow(link', "child") = Flow(link, "child")
      BY <3>2, TheSides DEF Sends
    <3> QED
      BY <1>2, <2>1, <3>3, TornStays
  <2> QED
    BY <2>2, <2>3
<1>6. CASE terminate
  <2>1. link' = link /\ process' = process
    BY <1>1, <1>6 DEF terminate, dies
  <2>2. port'["parent"].closed = port["parent"].closed
    BY <1>2, <1>6, TheSides DEF terminate, Ports
  <2> QED
    BY <2>1, <2>2 DEF Torn, Dead
<1>7. CASE ParentRefs
  <2>1. link' = link /\ process' = process
    BY <1>7 DEF ParentRefs
  <2>2. port'["parent"].closed = port["parent"].closed
    BY <1>2, <1>7, TheSides DEF ParentRefs, ref_chain, unref_chain, Ports
  <2> QED
    BY <2>1, <2>2 DEF Torn, Dead
<1>8. CASE ParentLoopEnds \/ UNCHANGED vars
  <2>1. link' = link /\ process' = process /\ port' = port
    BY <1>8 DEF ParentLoopEnds, vars
  <2> QED
    BY <2>1 DEF Torn, Dead
\* The steps of a child that lives.
<1>9. ~(source_module_entry \/ ChildPosts \/ ChildListens \/ off_callable \/ ChildRefs \/ start)
  BY <1>1 DEF source_module_entry, ChildPosts, ChildListens, off_callable, ChildRefs, start, Running
<1>10. ~(ChildCloses \/ receive_message_on_port \/ ChildPolls \/ ChildLoopEnds \/ ChildRaises)
  BY <1>1 DEF ChildCloses, receive_message_on_port, ChildPolls, ChildLoopEnds, ChildRaises, Running
<1>11. ~(ChildFlushes \/ ChildExits \/ ChildCrashes)
  BY <1>1 DEF ChildFlushes, ChildExits, ChildCrashes
<1> QED
  BY <1>3, <1>4, <1>5, <1>6, <1>7, <1>8, <1>9, <1>10, <1>11 DEF Next

\* The parent tells a clean end from a broken one: a child that completed without
\* an error, and read all it was sent, causes none, and one that died within a
\* frame does, unless the parent terminated it or is over.
THEOREM CleanExitTold == Spec => CleanExit
<1>1. Inv => QuietEnd
  <2> SUFFICES ASSUME Inv, flushed = "clean", ~unread
               PROVE  loop # "failed" /\ \A i \in DOMAIN seen : seen[i][1] # "error"
    BY DEF QuietEnd
  <2>1. ~Wrong
    BY DEF Inv, Faults
  <2>2. seen \in Seq(Happenings)
    BY DEF Inv, Typed
  <2> QED
    BY <2>1, <2>2 DEF Wrong, Errors
<1>2. Inv /\ Inv' /\ [Next]_vars => [TornReported]_vars
  BY StepReports
<1> QED
  BY <1>1, <1>2, Inductive, PTL DEF Spec, CleanExit
=============================================================================
