---------------------- MODULE WritableStreamOrderProofs ----------------------
(***************************************************************************)
(* What user code is told by a Writable, for any chunk sizes, high-water   *)
(* mark, capacity and number of calls: in which order (OrderSeen), how     *)
(* often (CalledOnce), that it is true of what the descriptor took         *)
(* (ReportsTrue), and that a writer who was told to wait is told to go on  *)
(* (DrainNotLost).                                                         *)
(*                                                                         *)
(* The notifications of a stream form one line: those told, then the batch *)
(* that a poll has taken, then the pending ones, and behind them the       *)
(* callbacks of chunks and ends not yet completed.  The invariant says     *)
(* which notification may stand before which (Before), which facts about   *)
(* the stream a notification in the line stands for (Recorded), and that   *)
(* chunks and ends come in call order (Stocked).  A stream that has an     *)
(* error, was destroyed or has closed is dead: it may still be asked to    *)
(* write and reports so, but it tells neither finish nor drain any more.   *)
(***************************************************************************)
EXTENDS WritableStreamProofs

\* Everything queued, in the order in which it will be called.
Line(x) == x.queue.batch \o x.queue.pending

\* Nothing but failures is told from now on.
Dead(x) == x.error \/ x.cancelled \/ x.closeEmitted

\* The notification m may be called before n: callbacks come in call order, no
\* event but drain comes twice, and while the stream is alive no write callback
\* comes after finish or its internal event, and no finish after close.
Before(m, n, dead) ==
  /\ m[1] = n[1] /\ n[1] \in {"write", "end"} => m[2] < n[2]
  /\ m = n /\ n[1] = "event" => n = Event("drain")
  /\ ~dead /\ n[1] = "write" => m # Event("complete") /\ m # Event("finish")
  /\ ~dead /\ n = Event("finish") => m # Event("close")

\* The list s is in order behind the notifications T.
Row(T, s, dead) ==
  /\ \A m \in T, j \in 1..Len(s) : Before(m, s[j], dead)
  /\ \A i, j \in 1..Len(s) : i < j => Before(s[i], s[j], dead)

\* Numbers of calls in call order, the last of them at most c.
Rising(s, c) ==
  /\ \A i \in 1..Len(s) : s[i] \in 1..c
  /\ \A i, j \in 1..Len(s) : i < j => s[i] < s[j]

\* What a notification that is queued or told says of the stream.
Recorded(n, x, c) ==
  /\ n[1] \in {"write", "end"} => n[2] <= c
  /\ n[1] = "write" =>
       /\ \A i \in 1..Len(x.chunks) : n[2] < x.chunks[i].id
       /\ n[3] <=> n[2] \notin ToSet(x.sink)
  /\ n[1] = "end" =>
       /\ \A i \in 1..Len(x.endCompletions) : n[2] < x.endCompletions[i]
       /\ n[3] \/ x.finished
  /\ n = Event("error") => x.error
  /\ n = Event("complete") => x.finishScheduled /\ ~x.finished
  /\ n = Event("finish") => x.finished
  /\ n = Event("close") => x.closeQueued

\* What the stream has accepted: the descriptor took the first of it, and the
\* chunks are the rest unless they were given up.
Stocked(x, c) ==
  /\ x.sink \in Seq(Nat) /\ x.accepted \in Seq(Nat)
  /\ Rising(x.accepted, c) /\ Rising(x.endCompletions, c)
  /\ Len(x.sink) <= Len(x.accepted)
  /\ \A i \in 1..Len(x.sink) : x.sink[i] = x.accepted[i]
  /\ ~x.failed /\ ~x.cancelled =>
       /\ Len(x.accepted) = Len(x.sink) + Len(x.chunks)
       /\ \A i \in 1..Len(x.chunks) : x.accepted[Len(x.sink) + i] = x.chunks[i].id
  /\ x.finished => x.finishScheduled /\ Len(x.sink) = Len(x.accepted)

\* After the close event: it came at an end, and no finish is left in line.
Over(x, T) ==
  /\ Event("close") \in T => x.closeEmitted
  /\ x.closeEmitted => x.finished \/ x.error \/ x.cancelled
  /\ x.closeEmitted /\ ~x.error /\ ~x.cancelled => Event("finish") \notin ToSet(Line(x))

\* The line of the stream x when T was told and c calls were made.
Hist(x, T, c, dead) ==
  /\ Row(T, Line(x), dead)
  /\ \A n \in T \cup ToSet(Line(x)) : n \in Notes /\ Recorded(n, x, c)
  /\ Stocked(x, c)
  /\ Over(x, T)

\* A drain that is scheduled is in line.
Due(x) == x.drainScheduled => x.starved \/ Event("drain") \in ToSet(Line(x))

\* What is buffered, what was taken, and how deep the stream is corked.
Sums(x) == x.corked \in Nat /\ x.sink \in Seq(Nat) /\ x.buffered = Bytes(x.chunks)

\* When a writer still waits.
Waits(x) == x.needDrain => x.corked > 0 \/ x.descriptor = "none" \/ x.failed

\* A stream whose descriptor was given up has ended.
Shut(x) == x.closed => x.ended \/ x.failed \/ x.cancelled

\* All of this: a stream that an operation leaves behind.
Even(x) == Sums(x) /\ Waits(x) /\ Shut(x)

\* The inductive invariant, beside that of WritableStreamProofs.
HInv == Hist(stream, told, calls, Dead(stream)) /\ Due(stream) /\ Even(stream)
-----------------------------------------------------------------------------
(***************************************************************************)
(* Lines of notifications.                                                 *)
(***************************************************************************)

\* The members of a list, and how they grow and shrink with it.
LEMMA Members ==
  ASSUME NEW s \in Seq(Notes)
  PROVE  /\ \A n : n \in ToSet(s) <=> \E i \in 1..Len(s) : s[i] = n
         /\ \A i \in 1..Len(s) : s[i] \in ToSet(s)
         /\ ToSet(s) \subseteq Notes
<1>1. DOMAIN s = 1..Len(s) /\ \A i \in 1..Len(s) : s[i] \in Notes
  BY LenProperties
<1> QED
  BY <1>1 DEF ToSet

\* One notification behind a list.
LEMMA MembersAppend ==
  ASSUME NEW s \in Seq(Notes), NEW n \in Notes
  PROVE  Append(s, n) \in Seq(Notes) /\ ToSet(Append(s, n)) = ToSet(s) \cup {n}
<1> DEFINE t == Append(s, n)
<1>1. /\ t \in Seq(Notes) /\ Len(t) = Len(s) + 1 /\ Len(s) \in Nat
      /\ \A i \in 1..Len(s) : t[i] = s[i]
      /\ t[Len(s) + 1] = n
  BY AppendProperties
<1> HIDE DEF t
<1>2. \A i \in 1..Len(t) : i \in 1..Len(s) \/ i = Len(s) + 1
  BY <1>1
<1>3. \A i \in 1..Len(s) : i \in 1..Len(t)
  BY <1>1
<1>4. Len(s) + 1 \in 1..Len(t)
  BY <1>1
<1>5. \A m : m \in ToSet(t) <=> m \in ToSet(s) \/ m = n
  BY <1>1, <1>2, <1>3, <1>4, Members
<1> QED
  BY <1>1, <1>5 DEF t

\* Two lists, one behind the other.
LEMMA MembersJoin ==
  ASSUME NEW s \in Seq(Notes), NEW t \in Seq(Notes)
  PROVE  s \o t \in Seq(Notes) /\ ToSet(s \o t) = ToSet(s) \cup ToSet(t)
<1> DEFINE u == s \o t
<1>1. /\ u \in Seq(Notes) /\ Len(u) = Len(s) + Len(t) /\ Len(s) \in Nat /\ Len(t) \in Nat
      /\ \A i \in 1..Len(s) : u[i] = s[i]
      /\ \A i \in (Len(s) + 1)..Len(u) : u[i] = t[i - Len(s)] /\ i - Len(s) \in 1..Len(t)
      /\ \A i \in 1..Len(t) : i + Len(s) \in 1..Len(u) /\ u[i + Len(s)] = t[i]
  BY ConcatProperties
<1> HIDE DEF u
<1>2. \A i \in 1..Len(u) : i \in 1..Len(s) \/ i \in (Len(s) + 1)..Len(u)
  BY <1>1
<1>3. \A i \in 1..Len(s) : i \in 1..Len(u)
  BY <1>1
<1>4. \A m : m \in ToSet(u) <=> m \in ToSet(s) \/ m \in ToSet(t)
  <2>1. ASSUME NEW i \in 1..Len(u) PROVE u[i] \in ToSet(s) \/ u[i] \in ToSet(t)
    BY <1>1, <1>2, Members
  <2>2. ASSUME NEW i \in 1..Len(s) PROVE s[i] \in ToSet(u)
    BY <1>1, <1>3, Members
  <2>3. ASSUME NEW i \in 1..Len(t) PROVE t[i] \in ToSet(u)
    BY <1>1, Members
  <2>4. /\ \A m : m \in ToSet(u) <=> \E i \in 1..Len(u) : u[i] = m
        /\ \A m : m \in ToSet(s) <=> \E i \in 1..Len(s) : s[i] = m
        /\ \A m : m \in ToSet(t) <=> \E i \in 1..Len(t) : t[i] = m
    BY <1>1, Members
  <2> QED
    BY <2>1, <2>2, <2>3, <2>4
<1> QED
  BY <1>1, <1>4 DEF u

\* The order does not depend on more being allowed.
LEMMA RowDead ==
  ASSUME NEW T, NEW s, NEW d \in BOOLEAN, Row(T, s, d)
  PROVE  Row(T, s, TRUE)
BY DEF Row, Before

\* One notification takes its place behind a line.
LEMMA RowAppend ==
  ASSUME NEW T, NEW s \in Seq(Notes), NEW n \in Notes, NEW d \in BOOLEAN, Row(T, s, d),
         \A m \in T \cup ToSet(s) : Before(m, n, d)
  PROVE  Row(T, Append(s, n), d)
<1> DEFINE t == Append(s, n)
<1>1. /\ Len(t) = Len(s) + 1 /\ Len(s) \in Nat
      /\ \A i \in 1..Len(s) : t[i] = s[i]
      /\ t[Len(s) + 1] = n
  BY AppendProperties
<1> HIDE DEF t
<1>2. \A i \in 1..Len(t) : i \in 1..Len(s) \/ i = Len(s) + 1
  BY <1>1
<1>3. ASSUME NEW m \in T, NEW j \in 1..Len(t) PROVE Before(m, t[j], d)
  BY <1>1, <1>2 DEF Row
<1>4. ASSUME NEW i \in 1..Len(t), NEW j \in 1..Len(t), i < j PROVE Before(t[i], t[j], d)
  <2>1. i \in 1..Len(s) /\ t[i] = s[i] /\ s[i] \in ToSet(s)
    BY <1>1, <1>4, Members
  <2>2. CASE j \in 1..Len(s)
    BY <1>1, <1>4, <2>1, <2>2 DEF Row
  <2>3. CASE j = Len(s) + 1
    BY <1>1, <2>1, <2>3
  <2> QED
    BY <1>2, <2>2, <2>3
<1> QED
  BY <1>3, <1>4 DEF Row, t

\* A line takes its place behind another.
LEMMA RowJoin ==
  ASSUME NEW T, NEW s \in Seq(Notes), NEW t \in Seq(Notes), NEW d \in BOOLEAN,
         Row(T, s, d), Row(T \cup ToSet(s), t, d)
  PROVE  Row(T, s \o t, d)
<1> DEFINE u == s \o t
<1>1. /\ Len(u) = Len(s) + Len(t) /\ Len(s) \in Nat /\ Len(t) \in Nat
      /\ \A i \in 1..Len(s) : u[i] = s[i]
      /\ \A i \in (Len(s) + 1)..Len(u) : u[i] = t[i - Len(s)] /\ i - Len(s) \in 1..Len(t)
  BY ConcatProperties
<1> HIDE DEF u
<1>2. \A i \in 1..Len(u) : i \in 1..Len(s) \/ i \in (Len(s) + 1)..Len(u)
  BY <1>1
<1>3. ASSUME NEW m \in T, NEW j \in 1..Len(u) PROVE Before(m, u[j], d)
  BY <1>1, <1>2 DEF Row
<1>4. ASSUME NEW i \in 1..Len(u), NEW j \in 1..Len(u), i < j PROVE Before(u[i], u[j], d)
  <2>1. CASE j \in 1..Len(s)
    <3>1. i \in 1..Len(s)
      BY <1>1, <1>4, <2>1
    <3> QED
      BY <1>1, <1>4, <2>1, <3>1 DEF Row
  <2>2. CASE i \in 1..Len(s) /\ j \in (Len(s) + 1)..Len(u)
    <3>1. u[i] \in ToSet(s)
      BY <1>1, <2>2, Members
    <3> QED
      BY <1>1, <2>2, <3>1 DEF Row
  <2>3. CASE i \in (Len(s) + 1)..Len(u) /\ j \in (Len(s) + 1)..Len(u)
    <3>1. i - Len(s) < j - Len(s)
      BY <1>1, <1>4, <2>3
    <3> QED
      BY <1>1, <2>3, <3>1 DEF Row
  <2> QED
    BY <1>2, <2>1, <2>2, <2>3
<1> QED
  BY <1>3, <1>4 DEF Row, u

\* The list s begins with h, and t is the rest of it.
Begins(s, h, t) == s \in Seq(Notes) /\ s # <<>> /\ h = Head(s) /\ t = Tail(s)

\* The rest t of the line s is in order when its first, h, is told and when not.
Behead(T, s, h, t, d) ==
  /\ Row(T, t, d) /\ Row(T \cup {h}, t, d)
  /\ ToSet(s) = {h} \cup ToSet(t)
  /\ \A m \in T : Before(m, h, d)
  /\ \A m \in ToSet(t) : Before(h, m, d)

\* The first of a line is told.
LEMMA RowTail ==
  ASSUME NEW T, NEW s, NEW h, NEW t, NEW d \in BOOLEAN, Begins(s, h, t), Row(T, s, d)
  PROVE  Behead(T, s, h, t, d)
<1>1. /\ t \in Seq(Notes) /\ Len(t) = Len(s) - 1 /\ Len(s) \in Nat \ {0}
      /\ \A i \in 1..Len(t) : t[i] = s[i + 1] /\ i + 1 \in 1..Len(s) /\ i \in Nat
      /\ h = s[1] /\ 1 \in 1..Len(s)
      /\ s \in Seq(Notes)
  BY HeadTailProperties DEF Begins
<1>2. \A i \in 1..Len(s) : i = 1 \/ (i - 1 \in 1..Len(t) /\ (i - 1) + 1 = i)
  BY <1>1
<1>3. \A m : m \in ToSet(s) <=> m = h \/ m \in ToSet(t)
  <2>1. ASSUME NEW i \in 1..Len(s) PROVE s[i] = h \/ s[i] \in ToSet(t)
    <3>1. CASE i = 1
      BY <1>1, <3>1
    <3>2. CASE i - 1 \in 1..Len(t) /\ (i - 1) + 1 = i
      <4>1. t[i - 1] = s[i]
        BY <1>1, <3>2
      <4> QED
        BY <1>1, <3>2, <4>1, Members
    <3> QED
      BY <1>2, <3>1, <3>2
  <2>2. ASSUME NEW i \in 1..Len(t) PROVE t[i] \in ToSet(s)
    BY <1>1, Members
  <2>3. h \in ToSet(s)
    BY <1>1, Members
  <2> QED
    BY <1>1, <2>1, <2>2, <2>3, Members
<1>4. ASSUME NEW m \in T PROVE Before(m, h, d) /\ \A j \in 1..Len(t) : Before(m, t[j], d)
  BY <1>1 DEF Row
<1>5. ASSUME NEW j \in 1..Len(t) PROVE Before(h, t[j], d)
  <2>1. 1 < j + 1
    BY <1>1
  <2> QED
    BY <1>1, <2>1 DEF Row
<1>6. ASSUME NEW i \in 1..Len(t), NEW j \in 1..Len(t), i < j PROVE Before(t[i], t[j], d)
  <2>1. i + 1 < j + 1
    BY <1>1, <1>6
  <2> QED
    BY <1>1, <2>1 DEF Row
<1>7. ASSUME NEW m \in ToSet(t) PROVE Before(h, m, d)
  BY <1>1, <1>5, Members
<1> QED
  BY <1>1, <1>3, <1>4, <1>5, <1>6, <1>7 DEF Row, Behead

\* The notifications of callbacks.
Callbacks(kind, ids, failed) == [i \in DOMAIN ids |-> <<kind, ids[i], failed>>]

\* The numbers ids come in call order behind the callbacks of their kind in U.
Follows(ids, kind, U) ==
  /\ \A i, j \in 1..Len(ids) : i < j => ids[i] < ids[j]
  /\ \A n \in U, i \in 1..Len(ids) : n[1] = kind => n[2] < ids[i]

\* Callbacks in call order make a line of their own.
LEMMA RowCallbacks ==
  ASSUME NEW U, NEW ids \in Seq(Nat), NEW kind \in {"write", "end"}, NEW failed \in BOOLEAN,
         NEW d \in BOOLEAN, Follows(ids, kind, U),
         kind = "write" /\ ~d /\ Len(ids) > 0 =>
           Event("complete") \notin U /\ Event("finish") \notin U
  PROVE  /\ Callbacks(kind, ids, failed) \in Seq(Notes)
         /\ \A n : n \in ToSet(Callbacks(kind, ids, failed)) <=>
                    \E i \in 1..Len(ids) : n = <<kind, ids[i], failed>>
         /\ Row(U, Callbacks(kind, ids, failed), d)
<1> DEFINE c == Callbacks(kind, ids, failed)
<1>1. ids \in [1..Len(ids) -> Nat] /\ Len(ids) \in Nat /\ DOMAIN ids = 1..Len(ids)
  BY LenProperties
<1>2. \A i \in 1..Len(ids) : /\ c[i] = <<kind, ids[i], failed>> /\ ids[i] \in Nat
                             /\ c[i] \in Notes /\ \A e : c[i] # Event(e)
  BY <1>1, EventNotes DEF Callbacks
<1>3. c \in [1..Len(ids) -> Notes]
  BY <1>1, <1>2 DEF Callbacks
<1> HIDE DEF c
<1>4. c \in Seq(Notes) /\ Len(c) = Len(ids)
  BY <1>1, <1>3
<1>5. ASSUME NEW i \in 1..Len(ids) PROVE c[i][1] = kind /\ c[i][2] = ids[i]
  BY <1>2
<1>6. ASSUME NEW m \in U, NEW j \in 1..Len(ids) PROVE Before(m, c[j], d)
  <2>1. (m[1] = kind => m[2] < ids[j]) /\ Len(ids) > 0
    BY <1>1 DEF Follows
  <2> QED
    BY <1>2, <1>5, <2>1 DEF Before
<1>7. ASSUME NEW i \in 1..Len(ids), NEW j \in 1..Len(ids), i < j PROVE Before(c[i], c[j], d)
  <2>1. ids[i] < ids[j]
    BY <1>7 DEF Follows
  <2> QED
    BY <1>2, <1>5, <2>1 DEF Before
<1>8. \A n : n \in ToSet(c) <=> \E i \in 1..Len(ids) : n = <<kind, ids[i], failed>>
  <2>1. \A n : n \in ToSet(c) <=> \E i \in 1..Len(c) : c[i] = n
    BY <1>4, Members
  <2>2. \A i \in 1..Len(ids) : c[i] = <<kind, ids[i], failed>>
    BY <1>2
  <2> QED
    BY <1>4, <2>1, <2>2
<1> QED
  BY <1>4, <1>6, <1>7, <1>8 DEF Row, c
-----------------------------------------------------------------------------
(***************************************************************************)
(* What the operations of the queue make of a line.                        *)
(***************************************************************************)

\* The line of a stream is a list of notifications.
LEMMA LineTyped ==
  ASSUME NEW x, Typed(x)
  PROVE  /\ Line(x) \in Seq(Notes) /\ ToSet(Line(x)) \subseteq Notes
         /\ x.queue.batch \in Seq(Notes) /\ x.queue.pending \in Seq(Notes)
         /\ ToSet(Line(x)) = ToSet(x.queue.batch) \cup ToSet(x.queue.pending)
<1>1. x.queue.batch \in Seq(Notes) /\ x.queue.pending \in Seq(Notes)
  BY QueueFields DEF Typed
<1>2. Line(x) \in Seq(Notes) /\ ToSet(Line(x)) = ToSet(x.queue.batch) \cup ToSet(x.queue.pending)
  BY <1>1, MembersJoin DEF Line
<1> QED
  BY <1>1, <1>2, Members

\* Counting reservations leaves the line alone.
LEMMA Counted ==
  ASSUME NEW q \in Queues, NEW n
  PROVE  /\ ReservedAll(q, n).batch = q.batch /\ ReservedAll(q, n).pending = q.pending
         /\ ReleasedAll(q, n).batch = q.batch /\ ReleasedAll(q, n).pending = q.pending
         /\ Reserved(q).batch = q.batch /\ Reserved(q).pending = q.pending
         /\ Released(q).batch = q.batch /\ Released(q).pending = q.pending
BY QueueFields DEF ReservedAll, ReleasedAll, Reserved, Released

\* What is committed takes its place behind the line.
LEMMA Behind ==
  ASSUME NEW q \in Queues, NEW ns \in Seq(Notes), NEW n \in Notes
  PROVE  /\ LET r == CommittedAll(q, ns)
            IN  r.batch \o r.pending = (q.batch \o q.pending) \o ns
         /\ LET r == Committed(q, n)
            IN  r.batch \o r.pending = Append(q.batch \o q.pending, n)
<1>0. ASSUME NEW a \in Seq(Notes), NEW b \in Seq(Notes), NEW e \in Seq(Notes)
      PROVE  a \o (b \o e) = (a \o b) \o e
  <2>1. (a \o b) \o e = a \o (b \o e)
    BY ONLY a \in Seq(Notes), b \in Seq(Notes), e \in Seq(Notes), ConcatAssociative
  <2> QED
    BY ONLY <2>1
<1>1. q.batch \in Seq(Notes) /\ q.pending \in Seq(Notes)
  BY QueueFields
<1>2. CommittedAll(q, ns).batch = q.batch /\ CommittedAll(q, ns).pending = q.pending \o ns
  BY QueueFields DEF CommittedAll
<1>3. Committed(q, n).batch = q.batch /\ Committed(q, n).pending = Append(q.pending, n)
  BY QueueFields DEF Committed
<1>4. q.batch \o (q.pending \o ns) = (q.batch \o q.pending) \o ns
  BY <1>0, <1>1
<1>5. q.batch \o Append(q.pending, n) = Append(q.batch \o q.pending, n)
  <2>1. <<n>> \in Seq(Notes) /\ q.batch \o q.pending \in Seq(Notes)
    BY <1>1
  <2>2. /\ Append(q.pending, n) = q.pending \o <<n>>
        /\ Append(q.batch \o q.pending, n) = (q.batch \o q.pending) \o <<n>>
    BY <1>1, <2>1, AppendIsConcat
  <2>3. q.batch \o (q.pending \o <<n>>) = (q.batch \o q.pending) \o <<n>>
    BY <1>0, <1>1, <2>1
  <2> QED
    BY <2>2, <2>3
<1> QED
  BY <1>2, <1>3, <1>4, <1>5

\* WriteEvents.discard
LEMMA DiscardedLine ==
  ASSUME NEW x, Typed(x), NEW E, NEW y, y = Discarded(x, E)
  PROVE  Differs(x, y, {"reservations", "queue"}) /\ Typed(y) /\ Line(y) = Line(x)
<1>1. Moves(x, y, {}, {})
  BY DiscardedMoves
<1>2. Typed(y) /\ Differs(x, y, {"reservations", "queue"})
  BY <1>1, MovesTyped DEF Moves, Differs
<1>3. y.queue = ReleasedAll(x.queue, Cardinality(x.reservations \cap E))
  BY DEF Typed, Discarded, Fields
<1>4. y.queue.batch = x.queue.batch /\ y.queue.pending = x.queue.pending
  BY <1>3, Counted DEF Typed
<1> QED
  BY <1>2, <1>4 DEF Line

\* WriteEvents.queue: the event is behind the line, or the stream is starved.
QueuedTo(x, y, e) ==
  /\ Differs(x, y, {"reservations", "queue", "starved"}) /\ Typed(y)
  /\ x.starved => y.starved
  /\ Line(y) = Append(Line(x), Event(e)) \/ (y.starved /\ Line(y) = Line(x))

\* WriteEvents.queue does that.
LEMMA QueuedLine ==
  ASSUME NEW x, Typed(x), NEW e \in Events, NEW y, y = Queued(x, e)
  PROVE  QueuedTo(x, y, e)
<1>1. CASE e \in x.reservations
  <2>1. Moves(x, y, {}, {e})
    BY <1>1, QueuedMoves
  <2>2. Typed(y) /\ Differs(x, y, {"reservations", "queue"})
    BY <2>1, MovesTyped DEF Moves, Differs
  <2>3. y.queue = Committed(x.queue, Event(e))
    BY <1>1 DEF Typed, Queued, Fields
  <2>4. Line(y) = Append(Line(x), Event(e))
    BY <2>3, Behind, EventNotes, LineTyped DEF Typed, Line
  <2>5. y.starved = x.starved
    BY <2>2 DEF Differs, Fields
  <2>6. Differs(x, y, {"reservations", "queue", "starved"})
    BY <2>2 DEF Differs
  <2> QED
    BY <2>2, <2>4, <2>5, <2>6 DEF QueuedTo
<1>2. CASE e \notin x.reservations
  <2>1. y = [x EXCEPT !.starved = TRUE]
    BY <1>2 DEF Queued
  <2>2. /\ Differs(x, y, {"reservations", "queue", "starved"}) /\ y.starved = TRUE
        /\ y.queue = x.queue /\ y.chunks = x.chunks /\ y.reservations = x.reservations
        /\ y.endCompletions = x.endCompletions /\ DOMAIN y = Fields
    BY <2>1 DEF Typed, Differs, Fields
  <2> QED
    BY <2>2 DEF QueuedTo, Typed, Line
<1> QED
  BY <1>1, <1>2

\* WriteEvents.prepare
LEMMA PreparedLine ==
  ASSUME NEW x, Typed(x), NEW y, y = Prepared(x)
  PROVE  Differs(x, y, {"reservations", "queue"}) /\ Line(y) = Line(x)
<1>1. CASE x.closeEmitted
  BY <1>1 DEF Prepared, Typed, Differs
<1>2. CASE ~x.closeEmitted
  <2>1. /\ Differs(x, y, {"reservations", "queue"})
        /\ y.queue = ReservedAll(x.queue, Cardinality(Wanted(x)))
    BY <1>2 DEF Prepared, Typed, Differs, Fields
  <2>2. y.queue.batch = x.queue.batch /\ y.queue.pending = x.queue.pending
    BY <2>1, Counted DEF Typed
  <2> QED
    BY <2>1, <2>2 DEF Line
<1> QED
  BY <1>1, <1>2

\* StreamCompletion.complete of callbacks.
LEMMA CompletedLine ==
  ASSUME NEW x, Typed(x), NEW ids \in Seq(Nat), NEW kind \in {"write", "end"},
         NEW failed \in BOOLEAN, NEW y, y = Completed(x, kind, ids, failed)
  PROVE  /\ Differs(x, y, {"queue"}) /\ Typed(y)
         /\ Line(y) = Line(x) \o Callbacks(kind, ids, failed)
<1> DEFINE ns == [i \in DOMAIN ids |-> <<kind, ids[i], failed>>]
<1>1. /\ Differs(x, y, {"queue"}) /\ y.queue = CommittedAll(x.queue, ns)
      /\ y.chunks = x.chunks /\ y.reservations = x.reservations
      /\ y.endCompletions = x.endCompletions /\ DOMAIN y = Fields
  BY DEF Typed, Differs, Completed, Fields
<1>2. ids \in [1..Len(ids) -> Nat] /\ Len(ids) \in Nat /\ DOMAIN ids = 1..Len(ids)
  BY LenProperties
<1>3. ns \in [1..Len(ids) -> Notes]
  BY <1>2, EventNotes
<1>4. ns \in Seq(Notes)
  BY <1>2, <1>3
<1>5. Adds(x.queue, y.queue, {})
  BY <1>1, CommitCallbacks DEF Typed
<1>6. Typed(y)
  BY <1>1, <1>5 DEF Typed, Adds
<1> HIDE DEF ns
<1>7. \A n \in Notes : y.queue.batch \o y.queue.pending = (x.queue.batch \o x.queue.pending) \o ns
  BY <1>1, <1>4, Behind DEF Typed
<1>8. Event("error") \in Notes
  BY EventNotes DEF Events
<1>9. Line(y) = Line(x) \o ns
  BY <1>7, <1>8 DEF Line
<1> QED
  BY <1>1, <1>6, <1>9 DEF ns, Callbacks
-----------------------------------------------------------------------------
(***************************************************************************)
(* WriteEvents.  Whatever they do keeps the history of a line, and a drain *)
(* that is due.                                                            *)
(***************************************************************************)

\* The writer who waits is told to go on, or that there is nothing to go on with.
Announced(x) ==
  \/ x.starved \/ x.finishScheduled \/ x.error \/ x.cancelled
  \/ Event("drain") \in ToSet(Line(x))

\* What is queued stays queued, and who waits either waits on or is told.
Passes(x, y) ==
  /\ ToSet(Line(x)) \subseteq ToSet(Line(y))
  /\ x.starved => y.starved
  /\ x.finishScheduled => y.finishScheduled
  /\ x.error => y.error
  /\ x.cancelled => y.cancelled
  /\ Due(x) => Due(y) /\ (x.needDrain /\ ~y.needDrain => Announced(y))

\* y is what a method that keeps the line's history makes of x.
Step(x, y) ==
  /\ Typed(y) /\ Passes(x, y)
  /\ \A T : \A c \in Nat, d \in BOOLEAN : Hist(x, T, c, d) => Hist(y, T, c, d)

\* One after another.
LEMMA PassesTwice ==
  ASSUME NEW x, NEW y, NEW z, Passes(x, y), Passes(y, z)
  PROVE  Passes(x, z)
BY DEF Passes, Announced

\* Steps one after another.
LEMMA StepTwice ==
  ASSUME NEW x, NEW y, NEW z, Step(x, y), Step(y, z)
  PROVE  Step(x, z)
BY PassesTwice DEF Step

\* Nothing changes that the line depends on.
SameStock(x, y) ==
  /\ y.chunks = x.chunks /\ y.endCompletions = x.endCompletions
  /\ y.sink = x.sink /\ y.accepted = x.accepted
  /\ (y.finished <=> x.finished) /\ (y.closeEmitted <=> x.closeEmitted)

\* Time goes on in the stream's life.
Older(x, y) ==
  /\ x.error => y.error
  /\ x.cancelled => y.cancelled
  /\ x.failed => y.failed
  /\ x.finishScheduled => y.finishScheduled
  /\ x.closeQueued => y.closeQueued

\* The event e is news to x and true of y.
Fresh(e, x, y) ==
  /\ e \in Events \ {"finish"}
  /\ e = "error" => ~x.error /\ y.error
  /\ e = "complete" => ~x.finishScheduled /\ y.finishScheduled
  /\ e = "close" => ~x.closeQueued /\ y.closeQueued

\* An event takes its place in a line, or none does.
Extended(x, y, e) ==
  Line(y) = Line(x) \/ (Fresh(e, x, y) /\ Line(y) = Append(Line(x), Event(e)))

\* The history goes on with the event.
LEMMA EventHist ==
  ASSUME NEW x, Typed(x), NEW y, SameStock(x, y), Older(x, y),
         NEW e \in Events, Extended(x, y, e),
         NEW T, NEW c, NEW d \in BOOLEAN, Hist(x, T, c, d)
  PROVE  Hist(y, T, c, d)
<1>1. /\ Line(x) \in Seq(Notes) /\ Event(e) \in Notes
      /\ \A n \in T \cup ToSet(Line(x)) : n \in Notes /\ Recorded(n, x, c)
      /\ Row(T, Line(x), d)
  BY LineTyped, EventNotes DEF Hist
<1>2. ASSUME NEW n, Recorded(n, x, c) PROVE Recorded(n, y, c)
  BY <1>2 DEF Recorded, SameStock, Older
<1>3. Stocked(y, c)
  <2>1. Stocked(x, c)
    BY DEF Hist
  <2> QED
    BY <2>1 DEF Stocked, SameStock, Older
<1>4. Over(x, T)
  BY DEF Hist
<1>5. CASE Line(y) = Line(x)
  <2>1. Over(y, T)
    BY <1>4, <1>5 DEF Over, SameStock, Older
  <2> QED
    BY <1>1, <1>2, <1>3, <1>5, <2>1 DEF Hist
<1>6. CASE Fresh(e, x, y) /\ Line(y) = Append(Line(x), Event(e))
  <2>1. ToSet(Line(y)) = ToSet(Line(x)) \cup {Event(e)}
    BY <1>1, <1>6, MembersAppend
  <2>2. e # "finish" /\ Event(e) # Event("finish") /\ \A f : Event(e) = Event(f) => e = f
    BY <1>6, EventNotes DEF Fresh
  <2>3. Event(e)[1] = "event"
    BY DEF Event
  <2>4. ASSUME NEW m \in T \cup ToSet(Line(x)) PROVE Before(m, Event(e), d)
    <3>1. Recorded(m, x, c)
      BY <1>1
    <3>2. m = Event(e) => e \notin {"error", "complete", "close"}
      BY <1>6, <3>1 DEF Fresh, Recorded
    <3>3. m = Event(e) => e = "drain"
      BY <2>2, <3>2 DEF Events
    <3> QED
      BY <2>2, <2>3, <3>3 DEF Before
  <2>5. Row(T, Line(y), d)
    BY <1>1, <1>6, <2>4, RowAppend
  <2>6. Recorded(Event(e), y, c)
    <3>1. /\ e = "error" => y.error
          /\ e = "close" => y.closeQueued
          /\ e = "complete" => y.finishScheduled /\ ~y.finished
      <4>1. x.finished => x.finishScheduled
        BY DEF Hist, Stocked
      <4> QED
        BY <1>6, <4>1 DEF Fresh, SameStock
    <3> QED
      BY <2>2, <2>3, <3>1 DEF Recorded
  <2>7. Over(y, T)
    BY <1>4, <2>1, <2>2 DEF Over, SameStock, Older
  <2> QED
    BY <1>1, <1>2, <1>3, <2>1, <2>5, <2>6, <2>7 DEF Hist
<1> QED
  BY <1>5, <1>6 DEF Extended

\* The flags a WriteEvents method sets, and what it may change besides.
Flags ==
  {"error", "finishScheduled", "drainScheduled", "closeScheduled", "closeQueued", "cancelled"}
Internal == {"reservations", "queue", "starved"}

\* y is x with the flags S set.
Sets(x, y, S) ==
  /\ Typed(y) /\ Differs(x, y, S \cup Internal)
  /\ \A f \in S : y[f] = TRUE
  /\ x.starved => y.starved

\* A WriteEvents method is a step.
LEMMA EventStep ==
  ASSUME NEW x, Typed(x), NEW S \in SUBSET Flags, NEW y, Sets(x, y, S),
         NEW e \in Events, Extended(x, y, e),
         "drainScheduled" \in S => y.starved \/ Event("drain") \in ToSet(Line(y))
  PROVE  Step(x, y)
<1>1. SameStock(x, y) /\ y.needDrain = x.needDrain
  BY DEF Sets, Differs, Fields, Flags, Internal, SameStock
<1>2. \A f \in Flags \cup {"failed"} : y[f] = x[f] \/ y[f] = TRUE
  <2>1. ASSUME NEW f \in Flags \cup {"failed"} PROVE y[f] = x[f] \/ y[f] = TRUE
    <3>1. CASE f \in S
      BY <3>1 DEF Sets
    <3>2. CASE f \notin S
      <4>1. f \in Fields \ (S \cup Internal)
        BY <3>2 DEF Flags, Fields, Internal
      <4> QED
        BY <4>1 DEF Sets, Differs
    <3> QED
      BY <3>1, <3>2
  <2> QED
    BY <2>1
<1>3. Older(x, y)
  BY <1>2 DEF Older, Flags
<1>4. ToSet(Line(x)) \subseteq ToSet(Line(y))
  <2>1. Line(x) \in Seq(Notes) /\ Event(e) \in Notes
    BY LineTyped, EventNotes
  <2> QED
    BY <2>1, MembersAppend DEF Extended
<1>5. Due(x) => Due(y)
  <2>1. CASE "drainScheduled" \in S
    BY <2>1 DEF Due
  <2>2. CASE "drainScheduled" \notin S
    <3>1. y.drainScheduled = x.drainScheduled
      BY <2>2 DEF Sets, Differs, Fields, Internal
    <3> QED
      BY <1>4, <3>1 DEF Due, Sets
  <2> QED
    BY <2>1, <2>2
<1>6. Passes(x, y)
  BY <1>1, <1>3, <1>4, <1>5 DEF Passes, Older, Sets
<1>7. \A T : \A c \in Nat, d \in BOOLEAN : Hist(x, T, c, d) => Hist(y, T, c, d)
  BY <1>1, <1>3, EventHist
<1> QED
  BY <1>6, <1>7 DEF Step, Sets

\* a is x with the flags S set, and y is a with the event e queued, once reservations
\* may have been given up.
Marks(x, a, S) == Differs(x, a, S) /\ \A f \in S : a[f] = TRUE
QueuesNext(a, y, e) == y = Queued(a, e) \/ \E D : y = Queued(Discarded(a, D), e)
Marked(x, y, S, e) ==
  /\ Sets(x, y, S)
  /\ Line(y) = Append(Line(x), Event(e)) \/ (y.starved /\ Line(y) = Line(x))

\* A flag is set, reservations may be given up, and an event is queued.
LEMMA FlagsThenEvent ==
  ASSUME NEW x, Typed(x), NEW S \in SUBSET Flags, NEW a, Marks(x, a, S),
         NEW e \in Events, NEW y, QueuesNext(a, y, e)
  PROVE  Marked(x, y, S, e)
<1>0. Differs(x, a, S) /\ \A f \in S : a[f] = TRUE
  BY DEF Marks
<1>1. Typed(a) /\ Line(a) = Line(x) /\ a.starved = x.starved
  BY <1>0 DEF Typed, Differs, Fields, Flags, Line
<1>2. PICK b : /\ b = a \/ \E D : b = Discarded(a, D)
               /\ y = Queued(b, e)
  BY DEF QueuesNext
<1>3. Typed(b) /\ Differs(a, b, {"reservations", "queue"}) /\ Line(b) = Line(a)
  <2>1. CASE b = a
    BY <1>1, <2>1 DEF Typed, Differs
  <2>2. CASE \E D : b = Discarded(a, D)
    BY <1>1, <2>2, DiscardedLine
  <2> QED
    BY <1>2, <2>1, <2>2
<1>4. QueuedTo(b, y, e)
  BY <1>2, <1>3, QueuedLine
<1>5. Differs(x, y, S \cup Internal)
  BY <1>0, <1>3, <1>4 DEF QueuedTo, Differs, Internal
<1>6. ASSUME NEW f \in S PROVE y[f] = TRUE
  <2>1. f \in Fields \ Internal
    BY DEF Flags, Fields, Internal
  <2>2. b[f] = a[f] /\ y[f] = b[f]
    BY <1>3, <1>4, <2>1 DEF QueuedTo, Differs, Internal
  <2> QED
    BY <1>0, <2>2
<1>7. x.starved => y.starved
  BY <1>1, <1>3, <1>4 DEF QueuedTo, Differs, Fields
<1>8. Line(y) = Append(Line(x), Event(e)) \/ (y.starved /\ Line(y) = Line(x))
  BY <1>1, <1>3, <1>4 DEF QueuedTo
<1> QED
  BY <1>4, <1>5, <1>6, <1>7, <1>8 DEF Sets, QueuedTo, Marked

\* A method that does nothing is a step.
LEMMA NoStep ==
  ASSUME NEW x, Typed(x), NEW S
  PROVE  Step(x, x) /\ Differs(x, x, S)
BY DEF Step, Passes, Typed, Differs

\* WriteEvents.fail
LEMMA FailStep ==
  ASSUME NEW x, Typed(x), NEW y, y = EventsFailed(x)
  PROVE  /\ Step(x, y) /\ Differs(x, y, {"error"} \cup Internal)
         /\ y.error \/ y.closeEmitted
<1>1. CASE x.error \/ x.closeEmitted
  <2>1. y = x
    BY <1>1 DEF EventsFailed
  <2> QED
    BY <1>1, <2>1, NoStep
<1>2. CASE ~(x.error \/ x.closeEmitted)
  <2> DEFINE a == [x EXCEPT !.error = TRUE]
             S == {"error"}
  <2>1. y = Queued(Discarded(a, {"complete", "finish", "drain"}), "error")
    BY <1>2 DEF EventsFailed
  <2>2. Differs(x, a, S) /\ \A f \in S : a[f] = TRUE
    BY DEF Typed, Differs, Fields
  <2>3. S \in SUBSET Flags /\ "error" \in Events /\ "drainScheduled" \notin S
    BY DEF Flags, Events
  <2> HIDE DEF a, S
  <2>4. /\ Sets(x, y, S)
        /\ Line(y) = Append(Line(x), Event("error")) \/ (y.starved /\ Line(y) = Line(x))
    <3>1. Marks(x, a, S) /\ QueuesNext(a, y, "error")
      BY <2>1, <2>2 DEF Marks, QueuesNext
    <3>2. Marked(x, y, S, "error")
      BY <2>3, <3>1, FlagsThenEvent
    <3> QED
      BY <3>2 DEF Marked
  <2>5. y.error = TRUE
    BY <2>4 DEF Sets, S
  <2>6. Extended(x, y, "error")
    BY <1>2, <2>3, <2>4, <2>5 DEF Extended, Fresh
  <2>7. Step(x, y)
    BY <2>3, <2>4, <2>6, EventStep
  <2> QED
    BY <2>4, <2>5, <2>7 DEF Sets, S
<1> QED
  BY <1>1, <1>2

\* WriteEvents.finish
LEMMA FinishStep ==
  ASSUME NEW x, Typed(x), NEW y, y = EventsFinished(x)
  PROVE  Step(x, y) /\ Differs(x, y, {"finishScheduled"} \cup Internal)
<1>1. CASE x.finishScheduled \/ x.error \/ x.cancelled
  <2>1. y = x
    BY <1>1 DEF EventsFinished
  <2> QED
    BY <2>1, NoStep
<1>2. CASE ~(x.finishScheduled \/ x.error \/ x.cancelled)
  <2> DEFINE a == [x EXCEPT !.finishScheduled = TRUE]
             S == {"finishScheduled"}
  <2>1. y = Queued(Discarded(a, {"drain"}), "complete")
    BY <1>2 DEF EventsFinished
  <2>2. Differs(x, a, S) /\ \A f \in S : a[f] = TRUE
    BY DEF Typed, Differs, Fields
  <2>3. S \in SUBSET Flags /\ "complete" \in Events /\ "drainScheduled" \notin S
    BY DEF Flags, Events
  <2> HIDE DEF a, S
  <2>4. /\ Sets(x, y, S)
        /\ Line(y) = Append(Line(x), Event("complete")) \/ (y.starved /\ Line(y) = Line(x))
    <3>1. Marks(x, a, S) /\ QueuesNext(a, y, "complete")
      BY <2>1, <2>2 DEF Marks, QueuesNext
    <3>2. Marked(x, y, S, "complete")
      BY <2>3, <3>1, FlagsThenEvent
    <3> QED
      BY <3>2 DEF Marked
  <2>5. y.finishScheduled = TRUE
    BY <2>4 DEF Sets, S
  <2>6. Extended(x, y, "complete")
    BY <1>2, <2>3, <2>4, <2>5 DEF Extended, Fresh
  <2>7. Step(x, y)
    BY <2>3, <2>4, <2>6, EventStep
  <2> QED
    BY <2>4, <2>7 DEF Sets, S
<1> QED
  BY <1>1, <1>2

\* WriteEvents.drain
LEMMA DrainStep ==
  ASSUME NEW x, Typed(x), NEW y, y = EventsDrained(x)
  PROVE  /\ Step(x, y) /\ Differs(x, y, {"drainScheduled"} \cup Internal)
         /\ Due(x) => Announced(y)
<1>1. CASE x.drainScheduled \/ x.finishScheduled \/ x.error \/ x.cancelled
  <2>1. y = x
    BY <1>1 DEF EventsDrained
  <2>2. Due(x) => Announced(y)
    BY <1>1, <2>1 DEF Due, Announced
  <2> QED
    BY <2>1, <2>2, NoStep
<1>2. CASE ~(x.drainScheduled \/ x.finishScheduled \/ x.error \/ x.cancelled)
  <2> DEFINE a == [x EXCEPT !.drainScheduled = TRUE]
             S == {"drainScheduled"}
  <2>1. y = Queued(a, "drain")
    BY <1>2 DEF EventsDrained
  <2>2. Differs(x, a, S) /\ \A f \in S : a[f] = TRUE
    BY DEF Typed, Differs, Fields
  <2>3. S \in SUBSET Flags /\ "drain" \in Events
    BY DEF Flags, Events
  <2> HIDE DEF a, S
  <2>4. /\ Sets(x, y, S)
        /\ Line(y) = Append(Line(x), Event("drain")) \/ (y.starved /\ Line(y) = Line(x))
    <3>1. Marks(x, a, S) /\ QueuesNext(a, y, "drain")
      BY <2>1, <2>2 DEF Marks, QueuesNext
    <3>2. Marked(x, y, S, "drain")
      BY <2>3, <3>1, FlagsThenEvent
    <3> QED
      BY <3>2 DEF Marked
  <2>5. Line(x) \in Seq(Notes) /\ Event("drain") \in Notes
    BY <2>3, LineTyped, EventNotes
  <2>6. y.starved \/ Event("drain") \in ToSet(Line(y))
    BY <2>4, <2>5, MembersAppend
  <2>7. Extended(x, y, "drain")
    BY <2>3, <2>4 DEF Extended, Fresh
  <2>8. Step(x, y)
    BY <2>3, <2>4, <2>6, <2>7, EventStep
  <2> QED
    BY <2>4, <2>6, <2>8 DEF Sets, S, Announced
<1> QED
  BY <1>1, <1>2

\* WriteEvents.queue_close, when close_scheduled is set.
LEMMA QueueCloseStep ==
  ASSUME NEW x, Typed(x), NEW a, a = x \/ a = [x EXCEPT !.closeScheduled = TRUE],
         NEW y, y = CloseQueued(a) \/ y = a
  PROVE  Step(x, y) /\ Differs(x, y, {"closeScheduled", "closeQueued"} \cup Internal)
<1> DEFINE S == IF a = x THEN {} ELSE {"closeScheduled"}
           R == S \cup {"closeQueued"}
           b == [a EXCEPT !.closeQueued = TRUE]
<1>1. Differs(x, a, S) /\ (\A f \in S : a[f] = TRUE) /\ a.closeQueued = x.closeQueued
  BY DEF Typed, Differs, Fields
<1>2. /\ S \in SUBSET {"closeScheduled"} /\ R \in SUBSET {"closeScheduled", "closeQueued"}
      /\ R \in SUBSET Flags /\ S \in SUBSET Flags /\ "drainScheduled" \notin R /\ "drainScheduled" \notin S
      /\ R = S \cup {"closeQueued"}
  BY DEF Flags
<1> HIDE DEF S, R
<1>3. Typed(a) /\ Line(a) = Line(x) /\ a.starved = x.starved
  BY <1>1, <1>2 DEF Typed, Differs, Fields, Flags, Line
<1>4. CASE y = a
  <2>1. Sets(x, y, S)
    BY <1>1, <1>3, <1>4 DEF Sets, Differs
  <2>2. Extended(x, y, "close") /\ "close" \in Events
    BY <1>3, <1>4 DEF Extended, Events
  <2>3. Step(x, y)
    BY <1>2, <2>1, <2>2, EventStep
  <2> QED
    BY <1>2, <2>1, <2>3 DEF Sets, Differs
<1>5. CASE y = CloseQueued(a) /\ y # a
  <2>1. ~a.closeQueued /\ y = Queued(b, "close")
    BY <1>5 DEF CloseQueued
  <2>2. Differs(x, b, R) /\ \A f \in R : b[f] = TRUE
    <3>1. Differs(a, b, {"closeQueued"}) /\ b.closeQueued = TRUE
      BY <1>3 DEF Typed, Differs, Fields
    <3>2. ASSUME NEW f \in S PROVE b[f] = TRUE
      <4>1. f \in Fields \ {"closeQueued"}
        BY <1>2 DEF Fields
      <4> QED
        BY <1>1, <3>1, <4>1 DEF Differs
    <3>3. Differs(x, b, R)
      BY <1>1, <1>2, <3>1 DEF Differs
    <3> HIDE DEF b
    <3> QED
      BY <1>2, <3>1, <3>2, <3>3
  <2>3. "close" \in Events
    BY DEF Events
  <2> HIDE DEF b
  <2>4. /\ Sets(x, y, R)
        /\ Line(y) = Append(Line(x), Event("close")) \/ (y.starved /\ Line(y) = Line(x))
    <3>1. Marks(x, b, R) /\ QueuesNext(b, y, "close")
      BY <2>1, <2>2 DEF Marks, QueuesNext
    <3>2. Marked(x, y, R, "close")
      BY <1>2, <2>3, <3>1, FlagsThenEvent
    <3> QED
      BY <3>2 DEF Marked
  <2>5. y.closeQueued = TRUE
    BY <1>2, <2>4 DEF Sets
  <2>6. Extended(x, y, "close")
    BY <1>1, <2>1, <2>3, <2>4, <2>5 DEF Extended, Fresh
  <2>7. Step(x, y)
    BY <1>2, <2>3, <2>4, <2>6, EventStep
  <2> QED
    BY <1>2, <2>4, <2>7 DEF Sets, Differs
<1> QED
  BY <1>4, <1>5

\* WriteEvents.close
LEMMA CloseStep ==
  ASSUME NEW x, Typed(x), NEW y, y = EventsClosed(x)
  PROVE  Step(x, y) /\ Differs(x, y, {"closeScheduled", "closeQueued"} \cup Internal)
<1> DEFINE a == [x EXCEPT !.closeScheduled = TRUE]
<1>1. y = CloseQueued(a) \/ y = a
  BY DEF EventsClosed
<1> HIDE DEF a
<1>2. a = [x EXCEPT !.closeScheduled = TRUE]
  BY DEF a
<1> QED
  BY <1>1, <1>2, QueueCloseStep

\* WriteEvents.cancel
LEMMA CancelStep ==
  ASSUME NEW x, Typed(x), NEW y, y = EventsCancelled(x)
  PROVE  /\ Step(x, y) /\ Differs(x, y, {"cancelled"} \cup Internal)
         /\ y.cancelled = TRUE
<1> DEFINE a == [x EXCEPT !.cancelled = TRUE]
           S == {"cancelled"}
<1>1. y = Discarded(a, {"complete", "finish", "drain"})
  BY DEF EventsCancelled
<1>2. Differs(x, a, S) /\ a.cancelled = TRUE
  BY DEF Typed, Differs, Fields
<1>3. Typed(a) /\ Line(a) = Line(x)
  BY DEF Typed, Fields, Line
<1> HIDE DEF a
<1>4. Differs(a, y, {"reservations", "queue"}) /\ Typed(y) /\ Line(y) = Line(a)
  BY <1>1, <1>3, DiscardedLine
<1>5. y.cancelled = TRUE /\ y.starved = x.starved /\ Differs(x, y, S \cup Internal)
  BY <1>2, <1>4 DEF Differs, Fields, Internal
<1>6. S \in SUBSET Flags /\ "drainScheduled" \notin S /\ \A f \in S : y[f] = TRUE
  BY <1>5 DEF Flags
<1>7. Sets(x, y, S)
  BY <1>4, <1>5, <1>6 DEF Sets
<1>8. Extended(x, y, "close") /\ "close" \in Events
  BY <1>3, <1>4 DEF Extended, Events
<1> HIDE DEF S
<1>9. Step(x, y)
  BY <1>6, <1>7, <1>8, EventStep
<1> QED
  BY <1>5, <1>9 DEF S
-----------------------------------------------------------------------------
(***************************************************************************)
(* Callbacks and chunks.                                                   *)
(***************************************************************************)

\* Chunks in call order.
InOrder(chunks) == \A i, j \in 1..Len(chunks) : i < j => chunks[i].id < chunks[j].id

\* The callbacks of chunks in call order are in call order.
LEMMA IdsOrdered ==
  ASSUME NEW ch \in Seq(Chunk), InOrder(ch)
  PROVE  /\ Ids(ch) \in Seq(Nat)
         /\ \A k \in 1..Len(Ids(ch)) : \E i \in 1..Len(ch) : Ids(ch)[k] = ch[i].id
         /\ \A k, l \in 1..Len(Ids(ch)) : k < l => Ids(ch)[k] < Ids(ch)[l]
<1> DEFINE S == Called(ch)
           m == Cardinality(S)
           F(k) == CHOOSE i \in S : Rank(S, i) = k
<1>1. Len(ch) \in Nat /\ DOMAIN ch = 1..Len(ch)
  BY LenProperties
<1>2. S \in SUBSET (1..Len(ch))
  BY <1>1 DEF Called
<1>3. Ids(ch) \in Seq(Nat) /\ Len(Ids(ch)) = m /\ IsFiniteSet(S) /\ m \in Nat
  BY IdsTyped
<1>4. Ids(ch) = [k \in 1..m |-> ch[F(k)].id]
  BY DEF Ids
<1> HIDE DEF S
<1>5. \A k \in 1..m : \E i \in S : Rank(S, i) = k
  BY <1>1, <1>2, RankOnto
<1> HIDE DEF m
<1>6. ASSUME NEW k \in 1..m PROVE F(k) \in S /\ Rank(S, F(k)) = k
  BY <1>5
<1> HIDE DEF F
<1>7. ASSUME NEW k \in 1..m, NEW l \in 1..m, k < l PROVE F(k) < F(l)
  <2>1. PICK a \in S : a = F(k) /\ Rank(S, a) = k
    BY <1>6
  <2>2. PICK b \in S : b = F(l) /\ Rank(S, b) = l
    BY <1>6
  <2>3. S \subseteq Int
    BY <1>2
  <2>4. SUFFICES ASSUME b <= a PROVE FALSE
    BY <2>1, <2>2, <2>3
  <2>5. {j \in S : j <= b} \subseteq {j \in S : j <= a} /\ IsFiniteSet({j \in S : j <= a})
    <3>1. \A j \in S : j <= b => j <= a
      BY <2>3, <2>4
    <3>2. IsFiniteSet({j \in S : j <= a})
      BY <1>3, FS_Subset
    <3> QED
      BY <3>1, <3>2
  <2>6. Cardinality({j \in S : j <= b}) <= Cardinality({j \in S : j <= a})
    BY <2>5, FS_Subset
  <2>7. l <= k
    BY <2>1, <2>2, <2>6 DEF Rank
  <2> QED
    BY <1>3, <1>7, <2>7
<1>8. ASSUME NEW k \in 1..m PROVE Ids(ch)[k] = ch[F(k)].id /\ F(k) \in 1..Len(ch)
  BY <1>2, <1>4, <1>6
<1>9. \A k \in 1..Len(Ids(ch)) : \E i \in 1..Len(ch) : Ids(ch)[k] = ch[i].id
  BY <1>3, <1>8
<1>10. \A k, l \in 1..Len(Ids(ch)) : k < l => Ids(ch)[k] < Ids(ch)[l]
  BY <1>3, <1>7, <1>8 DEF InOrder
<1> QED
  BY <1>3, <1>9, <1>10

\* A stream that failed or was destroyed has given up its chunks; one that has
\* scheduled finish has none left.
Loaded(x) == x.finishScheduled \/ x.failed \/ x.cancelled => x.chunks = <<>>

\* The chunks come in call order behind what the descriptor took.
LEMMA ChunksInOrder ==
  ASSUME NEW x, Typed(x), Loaded(x), NEW c, Stocked(x, c)
  PROVE  /\ InOrder(x.chunks)
         /\ \A i \in 1..Len(x.chunks) : x.chunks[i].id \in 1..c /\ x.chunks[i].id \in Nat
         /\ \A i \in 1..Len(x.chunks), j \in 1..Len(x.sink) : x.sink[j] < x.chunks[i].id
<1>1. /\ x.chunks \in Seq(Chunk) /\ Len(x.chunks) \in Nat
      /\ \A i \in 1..Len(x.chunks) : x.chunks[i] \in Chunk
  BY LenProperties DEF Typed
<1>2. Len(x.sink) \in Nat /\ Len(x.accepted) \in Nat /\ Rising(x.accepted, c)
  BY DEF Stocked
<1>3. CASE x.failed \/ x.cancelled
  <2>1. Len(x.chunks) = 0
    BY <1>3, IdsEmpty DEF Loaded
  <2> QED
    BY <2>1 DEF InOrder
<1>4. CASE ~x.failed /\ ~x.cancelled
  <2> DEFINE k == Len(x.sink)
  <2>1. /\ Len(x.accepted) = k + Len(x.chunks)
        /\ \A i \in 1..Len(x.chunks) : x.accepted[k + i] = x.chunks[i].id
        /\ \A i \in 1..k : x.sink[i] = x.accepted[i]
    BY <1>4 DEF Stocked
  <2> HIDE DEF k
  <2>0. ASSUME NEW a \in Nat, NEW b \in Nat
        PROVE  /\ \A i \in 1..b : a + i \in 1..(a + b) /\ a + i > a /\ i \in Int
               /\ \A i \in 1..a : i \in 1..(a + b) /\ i <= a
    OBVIOUS
  <2>2. \A i \in 1..Len(x.chunks) : k + i \in 1..Len(x.accepted) /\ k + i > k /\ i \in Int
    BY <1>1, <1>2, <2>0, <2>1 DEF k
  <2>3. \A i \in 1..k : i \in 1..Len(x.accepted) /\ i <= k
    BY <1>1, <1>2, <2>0, <2>1 DEF k
  <2>4. ASSUME NEW i \in 1..Len(x.chunks), NEW j \in 1..Len(x.chunks), i < j
        PROVE  x.chunks[i].id < x.chunks[j].id
    <3>1. k + i < k + j
      BY <1>2, <2>2, <2>4 DEF k
    <3> QED
      BY <1>2, <2>1, <2>2, <3>1 DEF Rising
  <2>5. ASSUME NEW i \in 1..Len(x.chunks), NEW j \in 1..k PROVE x.sink[j] < x.chunks[i].id
    <3>1. j < k + i
      BY <1>2, <2>2, <2>3 DEF k
    <3> QED
      BY <1>2, <2>1, <2>2, <2>3, <3>1 DEF Rising
  <2>6. ASSUME NEW i \in 1..Len(x.chunks) PROVE x.chunks[i].id \in 1..c /\ x.chunks[i].id \in Nat
    <3>1. x.chunks[i].id \in 1..c
      BY <1>2, <2>1, <2>2 DEF Rising
    <3>2. x.chunks[i].id \in Nat
      <4>1. ASSUME NEW v \in Chunk PROVE v.id \in Nat
        BY DEF Chunk
      <4> QED
        BY <1>1, <4>1
    <3> QED
      BY <3>1, <3>2
  <2> QED
    BY <2>4, <2>5, <2>6 DEF InOrder, k
<1> QED
  BY <1>3, <1>4

\* What becomes of the line when callbacks are completed.
CallbacksFit(x, kind, ids, failed, T, c, d) ==
  /\ Follows(ids, kind, T \cup ToSet(Line(x)))
  /\ \A i \in 1..Len(ids) : Recorded(<<kind, ids[i], failed>>, x, c)
  /\ kind = "write" /\ ~d /\ Len(ids) > 0 => ~x.finishScheduled

\* y is x with callbacks completed; it may differ from x in what the history does
\* not depend on.
Completes(x, y, kind, ids, failed) ==
  /\ ids \in Seq(Nat) /\ kind \in {"write", "end"} /\ failed \in BOOLEAN
  /\ SameStock(x, y) /\ Older(x, y)
  /\ Line(y) = Line(x) \o Callbacks(kind, ids, failed)

\* The history goes on with callbacks that fit.
LEMMA CallbacksHist ==
  ASSUME NEW x, Typed(x), NEW y, NEW kind, NEW ids, NEW failed,
         Completes(x, y, kind, ids, failed),
         NEW T, NEW c, NEW d \in BOOLEAN, Hist(x, T, c, d),
         CallbacksFit(x, kind, ids, failed, T, c, d)
  PROVE  Hist(y, T, c, d)
<1>0. /\ ids \in Seq(Nat) /\ kind \in {"write", "end"} /\ failed \in BOOLEAN
      /\ SameStock(x, y) /\ Older(x, y)
      /\ Line(y) = Line(x) \o Callbacks(kind, ids, failed)
  BY DEF Completes
<1> DEFINE cs == Callbacks(kind, ids, failed)
           U == T \cup ToSet(Line(x))
<1>1. /\ Line(x) \in Seq(Notes)
      /\ \A n \in U : n \in Notes /\ Recorded(n, x, c)
      /\ Row(T, Line(x), d)
  BY LineTyped DEF Hist
<1>2. kind = "write" /\ ~d /\ Len(ids) > 0 => Event("complete") \notin U /\ Event("finish") \notin U
  <2>1. x.finished => x.finishScheduled
    BY DEF Hist, Stocked
  <2> HIDE DEF U
  <2>2. ~x.finishScheduled => Event("complete") \notin U /\ Event("finish") \notin U
    BY <1>1, <2>1 DEF Recorded
  <2> QED
    BY <2>2 DEF CallbacksFit
<1>3. Follows(ids, kind, U)
  BY DEF CallbacksFit
<1> HIDE DEF U
<1>4. /\ cs \in Seq(Notes) /\ Row(U, cs, d)
      /\ \A n : n \in ToSet(cs) <=> \E i \in 1..Len(ids) : n = <<kind, ids[i], failed>>
  BY <1>0, <1>2, <1>3, RowCallbacks
<1>5. ids \in [1..Len(ids) -> Nat]
  BY <1>0, LenProperties
<1>6. ASSUME NEW n \in ToSet(cs) PROVE n \in Notes /\ Recorded(n, x, c) /\ \A e : n # Event(e)
  <2>1. PICK i \in 1..Len(ids) : n = <<kind, ids[i], failed>>
    BY <1>4
  <2>2. ids[i] \in Nat
    BY <1>5
  <2> QED
    BY <1>0, <2>1, <2>2, EventNotes DEF CallbacksFit
<1> HIDE DEF cs
<1>7. Row(T, Line(y), d)
  BY <1>0, <1>1, <1>4, RowJoin DEF U, cs
<1>8. ToSet(Line(y)) = ToSet(Line(x)) \cup ToSet(cs)
  BY <1>0, <1>1, <1>4, MembersJoin DEF cs
<1>9. ASSUME NEW n, Recorded(n, x, c) PROVE Recorded(n, y, c)
  BY <1>0, <1>9 DEF Recorded, SameStock, Older
<1>10. Stocked(y, c)
  <2>1. Stocked(x, c)
    BY DEF Hist
  <2> QED
    BY <1>0, <2>1 DEF Stocked, SameStock, Older
<1>11. Over(y, T)
  <2>1. Over(x, T)
    BY DEF Hist
  <2> QED
    BY <1>0, <1>6, <1>8, <2>1 DEF Over, SameStock, Older
<1> QED
  BY <1>1, <1>6, <1>7, <1>8, <1>9, <1>10, <1>11 DEF Hist, U

\* Dead is a truth value.
LEMMA DeadBoolean == \A x : Dead(x) \in BOOLEAN
BY DEF Dead

\* Time only makes the order less strict, and leaves room for more calls.
LEMMA HistLater ==
  ASSUME NEW x, NEW T, NEW c \in Nat, NEW e \in Nat, c <= e, NEW d \in BOOLEAN,
         NEW f \in BOOLEAN, d => f, Typed(x), Hist(x, T, c, d)
  PROVE  Hist(x, T, e, f)
<1>1. Row(T, Line(x), f)
  <2>1. f = d \/ f = TRUE
    OBVIOUS
  <2> QED
    BY <2>1, RowDead DEF Hist
<1>2. ASSUME NEW n \in Notes, Recorded(n, x, c) PROVE Recorded(n, x, e)
  <2>1. n[1] \in {"write", "end"} => n[2] \in Nat
    <3>1. CASE n \in {"write", "end"} \X Nat \X BOOLEAN
      BY <3>1
    <3>2. CASE n \in {"event"} \X Events
      BY <3>2
    <3> QED
      BY <3>1, <3>2 DEF Notes
  <2>2. n[1] \in {"write", "end"} => n[2] <= e
    BY <1>2, <2>1 DEF Recorded
  <2> QED
    BY <1>2, <2>2 DEF Recorded
<1>3. ASSUME NEW s, Rising(s, c) PROVE Rising(s, e)
  <2>1. \A v \in 1..c : v \in 1..e
    OBVIOUS
  <2> QED
    BY <1>3, <2>1 DEF Rising
<1>4. Stocked(x, e)
  <2>1. Stocked(x, c)
    BY DEF Hist
  <2> QED
    BY <1>3, <2>1 DEF Stocked
<1> QED
  BY <1>1, <1>2, <1>4 DEF Hist

\* WriteEvents.complete_end, with success when the stream has finished.
LEMMA EndCompletedStep ==
  ASSUME NEW x, Typed(x), NEW failed \in BOOLEAN, failed \/ x.finished,
         NEW y, y = EndCompleted(x, failed)
  PROVE  /\ Step(x, y) /\ Differs(x, y, {"endCompletions", "queue"})
         /\ Line(y) = Line(x) \o Callbacks("end", x.endCompletions, failed)
<1>a. PICK a : a = [x EXCEPT !.endCompletions = <<>>]
  OBVIOUS
<1>i. PICK ids : ids = x.endCompletions
  OBVIOUS
<1>1. y = Completed(a, "end", ids, failed)
  BY <1>a, <1>i DEF EndCompleted
<1>2. /\ Differs(x, a, {"endCompletions"}) /\ a.endCompletions = <<>> /\ ids \in Seq(Nat)
      /\ DOMAIN a = Fields /\ a.queue = x.queue /\ a.chunks = x.chunks
      /\ a.reservations = x.reservations
  BY <1>a, <1>i DEF Typed, Differs, Fields
<1>3. Typed(a) /\ Line(a) = Line(x) /\ Len(a.endCompletions) = 0
  <2>1. <<>> \in Seq(Nat) /\ Len(<<>>) = 0
    OBVIOUS
  <2>2. Typed(a) /\ Line(a) = Line(x)
    BY <1>2, <2>1 DEF Typed, Line
  <2> QED
    BY <1>2, <2>1, <2>2
<1>4. /\ a.sink = x.sink /\ a.accepted = x.accepted /\ a.error = x.error
      /\ a.finished = x.finished /\ a.closeEmitted = x.closeEmitted
      /\ a.cancelled = x.cancelled /\ a.failed = x.failed /\ a.starved = x.starved
      /\ a.finishScheduled = x.finishScheduled /\ a.closeQueued = x.closeQueued
      /\ a.drainScheduled = x.drainScheduled /\ a.needDrain = x.needDrain
  BY <1>2 DEF Differs, Fields
<1>5. /\ Differs(a, y, {"queue"}) /\ Typed(y)
      /\ Line(y) = Line(a) \o Callbacks("end", ids, failed)
  BY <1>1, <1>2, <1>3, CompletedLine
<1>6. Differs(x, y, {"endCompletions", "queue"})
  BY <1>2, <1>5 DEF Differs
<1>7. SameStock(a, y) /\ Older(a, y)
  BY <1>5 DEF Differs, Fields, SameStock, Older
<1>8. ASSUME NEW T, NEW c \in Nat, NEW d \in BOOLEAN, Hist(x, T, c, d)
      PROVE  Hist(y, T, c, d)
  <2>1. Stocked(x, c) /\ Rising(ids, c) /\ Over(x, T) /\ Row(T, Line(x), d)
    BY <1>8, <1>i DEF Hist, Stocked
  <2>2. ASSUME NEW n, Recorded(n, x, c) PROVE Recorded(n, a, c)
    BY <1>2, <1>3, <1>4, <2>2 DEF Recorded
  <2>3. Rising(a.endCompletions, c)
    BY <1>3 DEF Rising
  <2>4. Stocked(a, c)
    <3>1. a.chunks = x.chunks
      BY <1>2
    <3>2. a.sink \in Seq(Nat) /\ a.accepted \in Seq(Nat) /\ Rising(a.accepted, c) /\ Len(a.sink) <= Len(a.accepted)
      BY <1>4, <2>1, <3>1 DEF Stocked
    <3>3. \A i \in 1..Len(a.sink) : a.sink[i] = a.accepted[i]
      BY <1>4, <2>1, <3>1 DEF Stocked
    <3>4. a.finished => a.finishScheduled /\ Len(a.sink) = Len(a.accepted)
      BY <1>4, <2>1, <3>1 DEF Stocked
    <3>5. ~a.failed /\ ~a.cancelled =>
       /\ Len(a.accepted) = Len(a.sink) + Len(a.chunks)
       /\ \A i \in 1..Len(a.chunks) : a.accepted[Len(a.sink) + i] = a.chunks[i].id
      BY <1>4, <2>1, <3>1 DEF Stocked
    <3> QED
      BY <2>3, <3>2, <3>3, <3>4, <3>5 DEF Stocked
  <2>5. Over(a, T)
    BY <1>3, <1>4, <2>1 DEF Over
  <2>6. \A n \in T \cup ToSet(Line(x)) : n \in Notes /\ Recorded(n, x, c)
    BY <1>8 DEF Hist
  <2>7. Hist(a, T, c, d)
    BY <1>3, <2>1, <2>2, <2>4, <2>5, <2>6 DEF Hist
  <2>8. Follows(ids, "end", T \cup ToSet(Line(a)))
    <3>1. \A n \in T \cup ToSet(Line(x)), i \in 1..Len(ids) : n[1] = "end" => n[2] < ids[i]
      BY <1>i, <2>6 DEF Recorded
    <3> QED
      BY <1>3, <2>1, <3>1 DEF Follows, Rising
  <2>9. ASSUME NEW i \in 1..Len(ids) PROVE Recorded(<<"end", ids[i], failed>>, a, c)
    <3>1. ids[i] \in 1..c /\ ids[i] \in Nat
      BY <1>2, <2>1 DEF Rising
    <3>2. ids[i] <= c
      BY <3>1
    <3>3. \A e : <<"end", ids[i], failed>> # Event(e)
      BY <3>1, EventNotes
    <3> QED
      BY <1>3, <1>4, <3>2, <3>3 DEF Recorded
  <2>10. CallbacksFit(a, "end", ids, failed, T, c, d)
    BY <2>8, <2>9 DEF CallbacksFit
  <2>11. Completes(a, y, "end", ids, failed)
    BY <1>2, <1>5, <1>7 DEF Completes
  <2> QED
    BY <1>3, <2>7, <2>10, <2>11, CallbacksHist
<1>9. Passes(x, y)
  <2>1. ToSet(Line(x)) \subseteq ToSet(Line(y))
    <3>1. ids \in [1..Len(ids) -> Nat] /\ DOMAIN ids = 1..Len(ids)
      BY <1>2, LenProperties
    <3>2. Callbacks("end", ids, failed) \in [1..Len(ids) -> Notes]
      BY <3>1, EventNotes DEF Callbacks
    <3>3. Callbacks("end", ids, failed) \in Seq(Notes) /\ Line(a) \in Seq(Notes)
      BY <1>2, <1>3, <3>2, LineTyped
    <3> QED
      BY <1>3, <1>5, <3>3, MembersJoin
  <2>2. /\ y.starved = x.starved /\ y.finishScheduled = x.finishScheduled
        /\ y.error = x.error /\ y.cancelled = x.cancelled /\ y.needDrain = x.needDrain
        /\ y.drainScheduled = x.drainScheduled
    BY <1>4, <1>5 DEF Differs, Fields
  <2> QED
    BY <2>1, <2>2 DEF Passes, Due
<1> QED
  BY <1>3, <1>5, <1>6, <1>8, <1>9, <1>i DEF Step

\* Callbacks of the chunks lo..hi: numbers in call order, each one a chunk's.
Drawn(ids, lo, hi, chunks) ==
  /\ ids \in Seq(Nat)
  /\ \A k \in 1..Len(ids) : \E i \in lo..hi : ids[k] = chunks[i].id
  /\ \A k, l \in 1..Len(ids) : k < l => ids[k] < ids[l]

\* The callbacks of the first chunks and those of the rest.
LEMMA PartsDrawn ==
  ASSUME NEW ch \in Seq(Chunk), InOrder(ch), NEW n \in 0..Len(ch)
  PROVE  /\ Drawn(Ids(SubSeq(ch, 1, n)), 1, n, ch)
         /\ Drawn(Ids(SubSeq(ch, n + 1, Len(ch))), n + 1, Len(ch), ch)
<1>1. PICK a, b : /\ a = SubSeq(ch, 1, n) /\ b = SubSeq(ch, n + 1, Len(ch))
                  /\ ChunkParts(ch, n, a, b)
  BY ChunksSplit
<1>2. /\ a \in Seq(Chunk) /\ Len(a) = n /\ \A i \in 1..n : a[i] = ch[i]
      /\ b \in Seq(Chunk) /\ Len(b) = Len(ch) - n
      /\ \A i \in 1..(Len(ch) - n) : b[i] = ch[n + i]
  BY <1>1 DEF ChunkParts
<1>3. Len(ch) \in Nat /\ n \in Nat /\ n <= Len(ch)
  BY LenProperties
<1>4. \A i \in 1..n : i \in 1..Len(ch)
  BY <1>3
<1>5. \A i \in 1..(Len(ch) - n) : n + i \in (n + 1)..Len(ch) /\ n + i \in 1..Len(ch) /\ i \in Int
  <2>1. ASSUME NEW l \in Nat, n <= l, NEW i \in 1..(l - n)
        PROVE  n + i \in (n + 1)..l /\ n + i \in 1..l /\ i \in Int
    BY <1>3, <2>1
  <2> QED
    BY <1>3, <2>1
<1>6. InOrder(a)
  BY <1>2, <1>4 DEF InOrder
<1>7. InOrder(b)
  <2>1. ASSUME NEW i \in 1..(Len(ch) - n), NEW j \in 1..(Len(ch) - n), i < j
        PROVE  b[i].id < b[j].id
    <3>1. n + i < n + j
      BY <1>3, <1>5, <2>1
    <3>2. ch[n + i].id < ch[n + j].id
      BY <1>5, <3>1 DEF InOrder
    <3> QED
      BY <1>2, <3>2
  <2>2. Len(b) = Len(ch) - n
    BY <1>2
  <2> QED
    BY <2>1, <2>2 DEF InOrder
<1>8. /\ Ids(a) \in Seq(Nat)
      /\ \A k \in 1..Len(Ids(a)) : \E i \in 1..Len(a) : Ids(a)[k] = a[i].id
      /\ \A k, l \in 1..Len(Ids(a)) : k < l => Ids(a)[k] < Ids(a)[l]
  BY <1>2, <1>6, IdsOrdered
<1>9. /\ Ids(b) \in Seq(Nat)
      /\ \A k \in 1..Len(Ids(b)) : \E i \in 1..Len(b) : Ids(b)[k] = b[i].id
      /\ \A k, l \in 1..Len(Ids(b)) : k < l => Ids(b)[k] < Ids(b)[l]
  BY <1>2, <1>7, IdsOrdered
<1>10. Drawn(Ids(a), 1, n, ch)
  BY <1>2, <1>8 DEF Drawn
<1>11. Drawn(Ids(b), n + 1, Len(ch), ch)
  <2>1. \A i \in 1..Len(b) : b[i].id = ch[n + i].id /\ n + i \in (n + 1)..Len(ch)
    BY <1>2, <1>5
  <2> QED
    BY <1>9, <2>1 DEF Drawn
<1> QED
  BY <1>1, <1>10, <1>11

\* The descriptor took the first n chunks of x behind what it had.
Takes(x, sink, n) ==
  sink = x.sink \o [i \in 1..n |-> x.chunks[i].id]

\* What the descriptor has then.
Took(x, sink, n) ==
  /\ sink \in Seq(Nat) /\ Len(sink) = Len(x.sink) + n
  /\ \A i \in 1..Len(sink) :
        \/ i \in 1..Len(x.sink) /\ sink[i] = x.sink[i]
        \/ i - Len(x.sink) \in 1..n /\ sink[i] = x.chunks[i - Len(x.sink)].id
  /\ \A v : v \in ToSet(sink) <=> v \in ToSet(x.sink) \/ \E i \in 1..n : v = x.chunks[i].id

\* It has the numbers of those chunks behind the others.
LEMMA Taking ==
  ASSUME NEW x, Typed(x), x.sink \in Seq(Nat), NEW n \in 0..Len(x.chunks),
         NEW sink, Takes(x, sink, n)
  PROVE  Took(x, sink, n)
<1>1. PICK t : t = [i \in 1..n |-> x.chunks[i].id]
  OBVIOUS
<1>2. /\ Len(x.chunks) \in Nat /\ n \in Nat
      /\ \A i \in 1..Len(x.chunks) : x.chunks[i] \in Chunk
  BY LenProperties DEF Typed
<1>3. \A i \in 1..n : x.chunks[i].id \in Nat
  <2>1. ASSUME NEW v \in Chunk PROVE v.id \in Nat
    BY DEF Chunk
  <2> QED
    BY <1>2, <2>1
<1>4. t \in [1..n -> Nat]
  BY <1>1, <1>3
<1>5. t \in Seq(Nat) /\ Len(t) = n /\ DOMAIN t = 1..n
  BY <1>2, <1>4
<1>6. PICK s : s = x.sink /\ s \in Seq(Nat)
  OBVIOUS
<1>7. sink = s \o t
  BY <1>1, <1>6 DEF Takes
<1>8. /\ sink \in Seq(Nat) /\ Len(sink) = Len(s) + n /\ Len(s) \in Nat
      /\ \A i \in 1..Len(s) : sink[i] = s[i]
      /\ \A i \in (Len(s) + 1)..Len(sink) : sink[i] = t[i - Len(s)] /\ i - Len(s) \in 1..n
      /\ \A i \in 1..n : i + Len(s) \in 1..Len(sink) /\ sink[i + Len(s)] = t[i]
  <2>1. /\ sink \in Seq(Nat) /\ Len(sink) = Len(s) + Len(t) /\ Len(s) \in Nat
        /\ \A i \in 1..Len(s) : sink[i] = s[i]
        /\ \A i \in (Len(s) + 1)..(Len(s) + Len(t)) : sink[i] = t[i - Len(s)]
    <3>1. t \in Seq(Nat)
      BY <1>5
    <3>2. s \in Seq(Nat)
      BY <1>6
    <3> QED
      BY <1>7, <3>1, <3>2, ConcatProperties
  <2>2. ASSUME NEW a \in Nat
        PROVE  /\ \A i \in (a + 1)..(a + n) : i - a \in 1..n
               /\ \A i \in 1..n : i + a \in (a + 1)..(a + n) /\ i + a \in 1..(a + n) /\ (i + a) - a = i
    BY <1>2
  <2>3. \A i \in (Len(s) + 1)..Len(sink) : sink[i] = t[i - Len(s)] /\ i - Len(s) \in 1..n
    BY <1>5, <2>1, <2>2
  <2>4. \A i \in 1..n : i + Len(s) \in 1..Len(sink) /\ sink[i + Len(s)] = t[i]
    BY <1>5, <2>1, <2>2
  <2> QED
    BY <1>5, <2>1, <2>3, <2>4
<1>9. \A i \in 1..Len(sink) : i \in 1..Len(s) \/ i \in (Len(s) + 1)..Len(sink)
  BY <1>8
<1>10. \A i \in 1..Len(s) : i \in 1..Len(sink)
  BY <1>2, <1>8
<1>11. \A i \in 1..n : t[i] = x.chunks[i].id
  BY <1>1
<1>12. \A i \in 1..Len(sink) :
               \/ i \in 1..Len(s) /\ sink[i] = s[i]
               \/ i - Len(s) \in 1..n /\ sink[i] = x.chunks[i - Len(s)].id
  BY <1>8, <1>9, <1>11
<1>13. /\ ToSet(sink) = {sink[i] : i \in 1..Len(sink)}
       /\ ToSet(s) = {s[i] : i \in 1..Len(s)}
  BY <1>6, <1>8, LenProperties DEF ToSet
<1>14. \A v : v \in ToSet(sink) <=> v \in ToSet(s) \/ \E i \in 1..n : v = x.chunks[i].id
  <2>1. ASSUME NEW i \in 1..Len(sink)
        PROVE  sink[i] \in ToSet(s) \/ \E k \in 1..n : sink[i] = x.chunks[k].id
    BY <1>12, <1>13
  <2>2. ASSUME NEW i \in 1..Len(s) PROVE s[i] \in ToSet(sink)
    BY <1>8, <1>10, <1>13
  <2>3. ASSUME NEW i \in 1..n PROVE x.chunks[i].id \in ToSet(sink)
    BY <1>8, <1>11, <1>13
  <2> QED
    BY <1>13, <2>1, <2>2, <2>3
<1> QED
  BY <1>6, <1>8, <1>12, <1>14 DEF Took

\* y is x without its chunks, the first n of which the descriptor took; the others
\* are given up.
Given(x, y, n) ==
  /\ y.chunks = <<>> /\ Takes(x, y.sink, n)
  /\ y.endCompletions = x.endCompletions /\ y.accepted = x.accepted
  /\ (y.finished <=> x.finished) /\ (y.closeEmitted <=> x.closeEmitted)
  /\ Older(x, y) /\ (y.finishScheduled => x.finishScheduled)
  /\ y.failed \/ y.cancelled \/ n = Len(x.chunks)

\* What is in line stays true of the stream then.
LEMMA GivenHist ==
  ASSUME NEW x, Typed(x), Loaded(x), NEW n \in 0..Len(x.chunks),
         NEW y, Given(x, y, n), Line(y) = Line(x),
         NEW T, NEW c \in Nat, NEW d \in BOOLEAN, Hist(x, T, c, d)
  PROVE  Hist(y, T, c, d)
<1>1. Stocked(x, c) /\ Over(x, T) /\ Row(T, Line(x), d)
  BY DEF Hist
<1>2. \A m \in T \cup ToSet(Line(x)) : m \in Notes /\ Recorded(m, x, c)
  BY DEF Hist
<1>3. /\ x.sink \in Seq(Nat) /\ x.accepted \in Seq(Nat)
      /\ Len(x.sink) \in Nat /\ Len(x.accepted) \in Nat /\ Len(x.chunks) \in Nat /\ n \in Nat
      /\ n <= Len(x.chunks)
  BY <1>1 DEF Stocked, Typed
<1>4. /\ y.sink \in Seq(Nat) /\ Len(y.sink) = Len(x.sink) + n
      /\ \A i \in 1..Len(y.sink) :
            \/ i \in 1..Len(x.sink) /\ y.sink[i] = x.sink[i]
            \/ i - Len(x.sink) \in 1..n /\ y.sink[i] = x.chunks[i - Len(x.sink)].id
      /\ \A v : v \in ToSet(y.sink) <=> v \in ToSet(x.sink) \/ \E i \in 1..n : v = x.chunks[i].id
  <2>1. Takes(x, y.sink, n)
    BY DEF Given
  <2>2. Took(x, y.sink, n)
    BY <1>3, <2>1, Taking
  <2> QED
    BY <2>2 DEF Took
<1>5. Len(y.chunks) = 0
  BY IdsEmpty DEF Given
<1>6. ASSUME NEW m \in Notes, Recorded(m, x, c) PROVE Recorded(m, y, c)
  <2>1. m[1] = "write" => (m[3] <=> m[2] \notin ToSet(y.sink))
    <3>1. SUFFICES ASSUME m[1] = "write" PROVE m[3] <=> m[2] \notin ToSet(y.sink)
      OBVIOUS
    <3>2. m[2] \in Nat
      <4>1. m \notin {"event"} \X Events
        BY <3>1
      <4> QED
        BY <4>1 DEF Notes
    <3>3. ASSUME NEW i \in 1..n PROVE m[2] # x.chunks[i].id
      <4>1. i \in 1..Len(x.chunks)
        BY <1>3
      <4>2. m[2] < x.chunks[i].id
        BY <1>6, <3>1, <4>1 DEF Recorded
      <4> QED
        BY <3>2, <4>2
    <3>4. m[3] <=> m[2] \notin ToSet(x.sink)
      BY <1>6, <3>1 DEF Recorded
    <3> QED
      BY <1>4, <3>3, <3>4
  <2>2. \A i \in 1..Len(y.chunks) : m[2] < y.chunks[i].id
    BY <1>5
  <2>3. y.endCompletions = x.endCompletions /\ (y.finished <=> x.finished) /\ Older(x, y)
    BY DEF Given
  <2> QED
    BY <1>6, <2>1, <2>2, <2>3 DEF Recorded, Older
<1>7. Len(y.sink) <= Len(x.accepted) /\ (y.failed \/ y.cancelled \/ Len(y.sink) = Len(x.accepted))
  <2>1. CASE x.failed \/ x.cancelled
    <3>1. Len(x.chunks) = 0
      BY <2>1, IdsEmpty DEF Loaded
    <3>2. n = 0
      BY <1>3, <3>1
    <3>3. Len(x.sink) <= Len(x.accepted)
      BY <1>1 DEF Stocked
    <3>4. y.failed \/ y.cancelled
      BY <2>1 DEF Given, Older
    <3> QED
      BY <1>3, <1>4, <3>2, <3>3, <3>4
  <2>2. CASE ~x.failed /\ ~x.cancelled
    <3>1. Len(x.accepted) = Len(x.sink) + Len(x.chunks)
      BY <1>1, <2>2 DEF Stocked
    <3>2. y.failed \/ y.cancelled \/ n = Len(x.chunks)
      BY DEF Given
    <3>3. Len(y.sink) = Len(x.sink) + n
      BY <1>4
    <3>4. Len(y.sink) <= Len(x.accepted)
      BY <1>3, <3>1, <3>3
    <3>5. n = Len(x.chunks) => Len(y.sink) = Len(x.accepted)
      BY <3>1, <3>3
    <3> QED
      BY <3>2, <3>4, <3>5
  <2> QED
    BY <2>1, <2>2
<1>8. \A i \in 1..Len(y.sink) : y.sink[i] = x.accepted[i]
  <2>1. CASE x.failed \/ x.cancelled
    <3>1. Len(x.chunks) = 0
      BY <2>1, IdsEmpty DEF Loaded
    <3>2. \A i \in 1..Len(y.sink) : i \in 1..Len(x.sink) /\ y.sink[i] = x.sink[i]
      BY <1>3, <1>4, <3>1
    <3> QED
      BY <1>1, <3>2 DEF Stocked
  <2>2. CASE ~x.failed /\ ~x.cancelled
    <3>1. /\ \A i \in 1..Len(x.chunks) : x.accepted[Len(x.sink) + i] = x.chunks[i].id
          /\ \A i \in 1..Len(x.sink) : x.sink[i] = x.accepted[i]
      BY <1>1, <2>2 DEF Stocked
    <3>2. ASSUME NEW i \in 1..Len(y.sink), i - Len(x.sink) \in 1..n
          PROVE  x.chunks[i - Len(x.sink)].id = x.accepted[i]
      <4>1. i - Len(x.sink) \in 1..Len(x.chunks) /\ Len(x.sink) + (i - Len(x.sink)) = i
        BY <1>3, <3>2
      <4>2. x.accepted[Len(x.sink) + (i - Len(x.sink))] = x.chunks[i - Len(x.sink)].id
        BY <3>1, <4>1
      <4> QED
        BY <4>1, <4>2
    <3> QED
      BY <1>4, <3>1, <3>2
  <2> QED
    BY <2>1, <2>2
<1>9. y.finished => y.finishScheduled /\ Len(y.sink) = Len(y.accepted)
  <2>1. SUFFICES ASSUME y.finished PROVE y.finishScheduled /\ Len(y.sink) = Len(y.accepted)
    OBVIOUS
  <2>2. x.finishScheduled /\ Len(x.sink) = Len(x.accepted) /\ y.accepted = x.accepted
    BY <1>1, <2>1 DEF Given, Stocked
  <2>3. Len(x.chunks) = 0
    BY <2>2, IdsEmpty DEF Loaded
  <2>4. n = 0
    BY <1>3, <2>3
  <2> QED
    BY <1>3, <1>4, <2>2, <2>4 DEF Given, Older
<1>10. Stocked(y, c)
  <2>1. y.accepted = x.accepted /\ y.endCompletions = x.endCompletions
    BY DEF Given
  <2>2. ~y.failed /\ ~y.cancelled =>
          /\ Len(y.accepted) = Len(y.sink) + Len(y.chunks)
          /\ \A i \in 1..Len(y.chunks) : y.accepted[Len(y.sink) + i] = y.chunks[i].id
    BY <1>3, <1>4, <1>5, <1>7, <2>1
  <2>3. Rising(y.accepted, c) /\ Rising(y.endCompletions, c)
    BY <1>1, <2>1 DEF Stocked
  <2>4. y.sink \in Seq(Nat) /\ y.accepted \in Seq(Nat) /\ Len(y.sink) <= Len(y.accepted)
    BY <1>3, <1>4, <1>7, <2>1
  <2>5. \A i \in 1..Len(y.sink) : y.sink[i] = y.accepted[i]
    BY <1>8, <2>1
  <2> QED
    BY <1>9, <2>2, <2>3, <2>4, <2>5 DEF Stocked
<1>11. Over(y, T)
  BY <1>1 DEF Over, Given, Older
<1> QED
  BY <1>1, <1>2, <1>6, <1>10, <1>11 DEF Hist

\* The callbacks of the first n chunks are told of success, then the others of failure.
Reports(x, y, n) ==
  Line(y) = (Line(x) \o Callbacks("write", Ids(SubSeq(x.chunks, 1, n)), FALSE))
              \o Callbacks("write", Ids(SubSeq(x.chunks, n + 1, Len(x.chunks))), TRUE)

\* The history goes on when the chunks are taken or given up and their callbacks told.
LEMMA ReportsHist ==
  ASSUME NEW x, Typed(x), Loaded(x), NEW n \in 0..Len(x.chunks),
         NEW y, Typed(y), Given(x, y, n), Reports(x, y, n),
         NEW T, NEW c \in Nat, NEW d \in BOOLEAN, Hist(x, T, c, d)
  PROVE  Hist(y, T, c, d)
<1>1. PICK ch : ch = x.chunks
  OBVIOUS
<1>2. PICK f, r : f = Ids(SubSeq(ch, 1, n)) /\ r = Ids(SubSeq(ch, n + 1, Len(ch)))
  OBVIOUS
<1>3. Stocked(x, c)
  BY DEF Hist
<1>4. ch \in Seq(Chunk) /\ InOrder(ch) /\ Len(ch) \in Nat
  BY <1>1, <1>3, ChunksInOrder DEF Typed
<1>5. /\ \A i \in 1..Len(ch) : ch[i].id \in 1..c /\ ch[i].id \in Nat
      /\ \A i \in 1..Len(ch), j \in 1..Len(x.sink) : x.sink[j] < ch[i].id
  BY <1>1, <1>3, ChunksInOrder
<1>6. Drawn(f, 1, n, ch) /\ Drawn(r, n + 1, Len(ch), ch)
  BY <1>1, <1>2, <1>4, PartsDrawn
<1>7. f \in Seq(Nat) /\ r \in Seq(Nat) /\ Len(f) \in Nat /\ Len(r) \in Nat
  BY <1>6 DEF Drawn
<1>8. ASSUME NEW k \in 1..Len(f) PROVE \E i \in 1..n : f[k] = ch[i].id /\ i \in 1..Len(ch)
  <2>1. \A i \in 1..n : i \in 1..Len(ch)
    BY <1>1, <1>4
  <2> QED
    BY <1>6, <2>1 DEF Drawn
<1>9. ASSUME NEW k \in 1..Len(r)
      PROVE  \E i \in 1..Len(ch) : r[k] = ch[i].id /\ \A j \in 1..n : j \in 1..Len(ch) /\ ch[j].id < ch[i].id
  <2>1. PICK i \in (n + 1)..Len(ch) : r[k] = ch[i].id
    BY <1>6 DEF Drawn
  <2>2. n \in Nat /\ n <= Len(ch)
    BY <1>1, <1>4
  <2>3. i \in 1..Len(ch) /\ \A j \in 1..n : j \in 1..Len(ch) /\ j < i
    BY <1>4, <2>2
  <2> QED
    BY <1>4, <2>1, <2>3 DEF InOrder
<1>10. PICK a : a = [y EXCEPT !.queue = x.queue]
  OBVIOUS
<1>11. Differs(y, a, {"queue"}) /\ Line(a) = Line(x) /\ Typed(a)
  BY <1>10 DEF Typed, Differs, Fields, Line
<1>12. Given(x, a, n)
  <2>1. /\ a.chunks = y.chunks /\ a.sink = y.sink /\ a.endCompletions = y.endCompletions
        /\ a.accepted = y.accepted /\ a.finished = y.finished /\ a.closeEmitted = y.closeEmitted
        /\ a.error = y.error /\ a.cancelled = y.cancelled /\ a.failed = y.failed
        /\ a.finishScheduled = y.finishScheduled /\ a.closeQueued = y.closeQueued
    BY <1>11 DEF Differs, Fields
  <2> QED
    BY <2>1 DEF Given, Older
<1>13. Hist(a, T, c, d)
  BY <1>11, <1>12, GivenHist
<1>14. Took(x, a.sink, n)
  BY <1>3, <1>12, Taking DEF Stocked, Given
<1>15. /\ Len(a.chunks) = 0 /\ (a.finishScheduled => x.finishScheduled)
       /\ \A v : v \in ToSet(a.sink) <=> v \in ToSet(x.sink) \/ \E i \in 1..n : v = ch[i].id
  <2>1. Len(a.chunks) = 0
    BY <1>12, IdsEmpty DEF Given
  <2> QED
    BY <1>1, <1>12, <1>14, <2>1 DEF Given, Took
<1>16. ~a.finishScheduled \/ Len(ch) = 0
  BY <1>1, <1>15, IdsEmpty DEF Loaded
<1>17. ASSUME NEW i \in 1..Len(ch), NEW m \in T \cup ToSet(Line(x)), m[1] = "write"
       PROVE  m[2] < ch[i].id
  BY <1>1, <1>17 DEF Hist, Recorded
<1>18. PICK b : b = Completed(a, "write", f, FALSE)
  OBVIOUS
<1>19. /\ Differs(a, b, {"queue"}) /\ Typed(b)
       /\ Line(b) = Line(a) \o Callbacks("write", f, FALSE)
  BY <1>7, <1>11, <1>18, CompletedLine
<1>20. /\ b.chunks = a.chunks /\ b.sink = a.sink /\ b.endCompletions = a.endCompletions
       /\ b.finished = a.finished /\ b.finishScheduled = a.finishScheduled
  BY <1>19 DEF Differs, Fields
<1>21. CallbacksFit(a, "write", f, FALSE, T, c, d)
  <2>1. Follows(f, "write", T \cup ToSet(Line(a)))
    <3>1. \A m \in T \cup ToSet(Line(a)), k \in 1..Len(f) : m[1] = "write" => m[2] < f[k]
      BY <1>8, <1>11, <1>17
    <3> QED
      BY <1>6, <3>1 DEF Follows, Drawn
  <2>2. ASSUME NEW k \in 1..Len(f) PROVE Recorded(<<"write", f[k], FALSE>>, a, c)
    <3>1. PICK i \in 1..n : f[k] = ch[i].id /\ i \in 1..Len(ch)
      BY <1>8
    <3>2. f[k] <= c /\ f[k] \in Nat
      BY <1>5, <3>1
    <3>3. f[k] \in ToSet(a.sink)
      BY <1>15, <3>1
    <3>4. \A e : <<"write", f[k], FALSE>> # Event(e)
      BY <3>2, EventNotes
    <3>5. \A i1 \in 1..Len(a.chunks) : f[k] < a.chunks[i1].id
      BY <1>15
    <3> QED
      BY <3>2, <3>3, <3>4, <3>5 DEF Recorded
  <2>3. Len(f) > 0 => Len(ch) # 0
    BY <1>4, <1>8
  <2> QED
    BY <1>16, <2>1, <2>2, <2>3 DEF CallbacksFit
<1>22. Hist(b, T, c, d)
  <2>1. SameStock(a, b) /\ Older(a, b)
    BY <1>19 DEF Differs, Fields, SameStock, Older
  <2>2. Completes(a, b, "write", f, FALSE)
    BY <1>7, <1>19, <2>1 DEF Completes
  <2>3. PICK no : no = FALSE
    OBVIOUS
  <2>4. Completes(a, b, "write", f, no) /\ CallbacksFit(a, "write", f, no, T, c, d)
    BY <1>21, <2>2, <2>3
  <2> QED
    BY <1>11, <1>13, <2>4, CallbacksHist
<1>23. \A m \in ToSet(Line(b)) :
          m \in ToSet(Line(x)) \/ \E k \in 1..Len(f) : m = <<"write", f[k], FALSE>>
  <2>1. f \in [1..Len(f) -> Nat] /\ DOMAIN f = 1..Len(f)
    BY <1>7, LenProperties
  <2>2. PICK cs : cs = Callbacks("write", f, FALSE)
    OBVIOUS
  <2>3. cs \in [1..Len(f) -> Notes] /\ \A i \in 1..Len(f) : cs[i] = <<"write", f[i], FALSE>>
    BY <2>1, <2>2, EventNotes DEF Callbacks
  <2>4. cs \in Seq(Notes) /\ Len(cs) = Len(f)
    <3>1. PICK l \in Nat : l = Len(f) /\ cs \in [1..l -> Notes]
      BY <1>7, <2>3
    <3>2. cs \in Seq(Notes) /\ Len(cs) = l
      BY <3>1
    <3> QED
      BY <3>1, <3>2
  <2>5. Line(a) \in Seq(Notes)
    BY <1>11, LineTyped
  <2>6. ToSet(Line(b)) = ToSet(Line(a)) \cup ToSet(cs)
    BY <1>19, <2>2, <2>4, <2>5, MembersJoin
  <2>7. \A m : m \in ToSet(cs) <=> \E i \in 1..Len(f) : cs[i] = m
    BY <2>4, Members
  <2> QED
    BY <1>11, <2>3, <2>6, <2>7
<1>24. CallbacksFit(b, "write", r, TRUE, T, c, d)
  <2>1. ASSUME NEW m \in T \cup ToSet(Line(b)), NEW k \in 1..Len(r), m[1] = "write"
        PROVE  m[2] < r[k]
    <3>1. PICK i \in 1..Len(ch) : r[k] = ch[i].id /\ \A j \in 1..n : ch[j].id < ch[i].id
      BY <1>9
    <3>2. CASE m \in T \cup ToSet(Line(x))
      BY <1>17, <2>1, <3>1, <3>2
    <3>3. CASE \E l \in 1..Len(f) : m = <<"write", f[l], FALSE>>
      <4>1. PICK l \in 1..Len(f) : m = <<"write", f[l], FALSE>>
        BY <3>3
      <4>2. PICK j \in 1..n : f[l] = ch[j].id
        BY <1>8
      <4> QED
        BY <3>1, <4>1, <4>2
    <3> QED
      BY <1>23, <3>2, <3>3
  <2>2. Follows(r, "write", T \cup ToSet(Line(b)))
    BY <1>6, <2>1 DEF Follows, Drawn
  <2>3. ASSUME NEW k \in 1..Len(r) PROVE Recorded(<<"write", r[k], TRUE>>, b, c)
    <3>1. PICK i \in 1..Len(ch) : r[k] = ch[i].id /\ \A j \in 1..n : j \in 1..Len(ch) /\ ch[j].id < ch[i].id
      BY <1>9
    <3>2. r[k] <= c /\ r[k] \in Nat
      BY <1>5, <3>1
    <3>3. r[k] \notin ToSet(x.sink)
      <4>0. \A j \in 1..Len(x.sink) : x.sink[j] \in Nat
        <5>1. x.sink \in Seq(Nat)
          BY <1>3 DEF Stocked
        <5> QED
          BY <5>1, LenProperties
      <4>1. \A j \in 1..Len(x.sink) : x.sink[j] < r[k] /\ x.sink[j] \in Nat
        BY <1>5, <3>1, <4>0
      <4>2. \A j \in 1..Len(x.sink) : x.sink[j] # r[k]
        BY <3>2, <4>1
      <4>3. DOMAIN x.sink = 1..Len(x.sink)
        BY <1>3, LenProperties DEF Stocked
      <4> QED
        BY <4>2, <4>3 DEF ToSet
    <3>4. \A j \in 1..n : ch[j].id # r[k]
      BY <1>5, <3>1, <3>2
    <3>5. r[k] \notin ToSet(b.sink)
      BY <1>15, <1>20, <3>3, <3>4
    <3>6. \A e : <<"write", r[k], TRUE>> # Event(e)
      BY <3>2, EventNotes
    <3>7. \A i1 \in 1..Len(b.chunks) : r[k] < b.chunks[i1].id
      BY <1>15, <1>20
    <3> QED
      BY <3>2, <3>5, <3>6, <3>7 DEF Recorded
  <2>4. Len(r) > 0 => Len(ch) # 0
    BY <1>4, <1>9
  <2> QED
    BY <1>16, <1>20, <2>2, <2>3, <2>4 DEF CallbacksFit
<1>25. Completes(b, y, "write", r, TRUE)
  <2>1. Line(y) = Line(b) \o Callbacks("write", r, TRUE)
    BY <1>1, <1>2, <1>11, <1>19 DEF Reports
  <2>2. SameStock(b, y) /\ Older(b, y)
    BY <1>11, <1>19 DEF Differs, Fields, SameStock, Older
  <2> QED
    BY <1>7, <2>1, <2>2 DEF Completes
<1>26. PICK yes : yes = TRUE
  OBVIOUS
<1>27. Completes(b, y, "write", r, yes) /\ CallbacksFit(b, "write", r, yes, T, c, d)
  BY <1>24, <1>25, <1>26
<1> QED
  BY <1>19, <1>22, <1>27, CallbacksHist
-----------------------------------------------------------------------------
(***************************************************************************)
(* The private methods of Writable.                                        *)
(***************************************************************************)

\* Callbacks only lengthen a line.
LEMMA LineGrows ==
  ASSUME NEW x, Typed(x), NEW ids \in Seq(Nat), NEW kind \in {"write", "end"},
         NEW failed \in BOOLEAN, NEW y, Line(y) = Line(x) \o Callbacks(kind, ids, failed)
  PROVE  ToSet(Line(x)) \subseteq ToSet(Line(y))
<1>1. ids \in [1..Len(ids) -> Nat] /\ DOMAIN ids = 1..Len(ids)
  BY LenProperties
<1>2. PICK cs : cs = Callbacks(kind, ids, failed)
  OBVIOUS
<1>3. PICK l \in Nat : l = Len(ids)
  OBVIOUS
<1>4. cs \in [1..l -> Notes]
  BY <1>1, <1>2, <1>3, EventNotes DEF Callbacks
<1>5. cs \in Seq(Notes) /\ Line(x) \in Seq(Notes)
  BY <1>4, LineTyped
<1> QED
  BY <1>2, <1>5, MembersJoin

\* The fields that say what is due, and who waits.
Waiting == {"starved", "finishScheduled", "error", "cancelled", "drainScheduled", "needDrain"}

\* A longer line passes everything on.
LEMMA PassesOn ==
  ASSUME NEW x, NEW S, S \cap Waiting = {}, NEW y, Differs(x, y, S),
         ToSet(Line(x)) \subseteq ToSet(Line(y))
  PROVE  Passes(x, y)
<1>1. \A f \in Waiting : y[f] = x[f]
  BY DEF Differs, Waiting, Fields
<1>2. /\ y.starved = x.starved /\ y.finishScheduled = x.finishScheduled
      /\ y.error = x.error /\ y.cancelled = x.cancelled /\ y.needDrain = x.needDrain
      /\ y.drainScheduled = x.drainScheduled
  BY <1>1 DEF Waiting
<1> QED
  BY <1>2 DEF Passes, Due

\* The fields of a stream that its line does not depend on.
Others == {"closed", "descriptor", "corked", "ended", "buffered"}

\* Changing them is a step.
LEMMA OtherStep ==
  ASSUME NEW x, Typed(x), NEW y, Differs(x, y, Others)
  PROVE  Step(x, y)
<1>1. /\ SameStock(x, y) /\ Older(x, y) /\ y.queue = x.queue
      /\ y.chunks = x.chunks /\ y.endCompletions = x.endCompletions
      /\ y.reservations = x.reservations /\ DOMAIN y = Fields
  BY DEF Differs, Fields, Others, SameStock, Older
<1>2. Typed(y) /\ Line(y) = Line(x)
  BY <1>1 DEF Typed, Line
<1>3. Passes(x, y)
  <2>1. Others \cap Waiting = {}
    BY DEF Others, Waiting
  <2> QED
    BY <1>2, <2>1, PassesOn
<1>4. Extended(x, y, "close") /\ "close" \in Events
  BY <1>2 DEF Extended, Events
<1>5. \A T : \A c \in Nat, d \in BOOLEAN : Hist(x, T, c, d) => Hist(y, T, c, d)
  BY <1>1, <1>4, EventHist
<1> QED
  BY <1>2, <1>3, <1>5 DEF Step

\* w is x of which the first n chunks were written, though still buffered.
TookTo(x, w, n) ==
  /\ Typed(w) /\ Differs(x, w, {"queue", "sink", "buffered"}) /\ Takes(x, w.sink, n)
  /\ Line(w) = Line(x) \o Callbacks("write", Ids(SubSeq(x.chunks, 1, n)), FALSE)

\* y is x after a failure: dead, with nothing buffered, and nothing forgotten.
FailedBy(x, y) ==
  /\ Typed(y) /\ Passes(x, y) /\ Dead(y)
  /\ y.failed = TRUE /\ y.chunks = <<>> /\ y.buffered = 0 /\ y.corked = x.corked
  /\ x.sink \in Seq(Nat) => y.sink \in Seq(Nat)
  /\ \A T : \A c \in Nat, d \in BOOLEAN : Hist(x, T, c, d) => Hist(y, T, c, TRUE)

\* _fail
LEMMA FailedTurn ==
  ASSUME NEW x, Typed(x), Loaded(x), NEW n \in 0..Len(x.chunks),
         NEW w, TookTo(x, w, n), NEW y, y = Failed(w, n)
  PROVE  FailedBy(x, y)
<1>1. PICK f, r : /\ f = Ids(SubSeq(x.chunks, 1, n))
                  /\ r = Ids(SubSeq(x.chunks, n + 1, Len(x.chunks)))
  OBVIOUS
<1>2. f \in Seq(Nat) /\ r \in Seq(Nat)
  <2>1. SubSeq(x.chunks, 1, n) \in Seq(Chunk) /\ SubSeq(x.chunks, n + 1, Len(x.chunks)) \in Seq(Chunk)
    BY IdsSplit DEF Typed
  <2> QED
    BY <1>1, <2>1, IdsTyped
<1>3. PICK a : a = [w EXCEPT !.failed = TRUE, !.chunks = <<>>, !.buffered = 0]
  OBVIOUS
<1>4. PICK p : p = Completed(a, "write", r, TRUE)
  OBVIOUS
<1>5. PICK q : q = EndCompleted(p, TRUE)
  OBVIOUS
<1>6. PICK g : g = EventsFailed(q)
  OBVIOUS
<1>7. PICK h : h = [g EXCEPT !.closed = TRUE, !.descriptor = "none"]
  OBVIOUS
<1>8. Typed(w) /\ Differs(x, w, {"queue", "sink", "buffered"}) /\ w.chunks = x.chunks
  BY DEF TookTo, Differs, Fields
<1>9. y = IF w.autoClose THEN EventsClosed(h) ELSE g
  BY <1>1, <1>3, <1>4, <1>5, <1>6, <1>7, <1>8 DEF Failed
<1>10. /\ Differs(w, a, {"failed", "chunks", "buffered"})
       /\ a.failed = TRUE /\ a.chunks = <<>> /\ a.buffered = 0
  BY <1>3, <1>8 DEF Typed, Differs, Fields
<1>11. /\ Typed(a) /\ Line(a) = Line(w) /\ a.queue = w.queue
  <2>1. /\ a.queue = w.queue /\ a.endCompletions = w.endCompletions
        /\ a.reservations = w.reservations /\ DOMAIN a = Fields
    BY <1>10 DEF Differs, Fields
  <2> QED
    BY <1>8, <1>10, <2>1, IdsEmpty DEF Typed, Line
<1>12. /\ Differs(a, p, {"queue"}) /\ Typed(p)
       /\ Line(p) = Line(a) \o Callbacks("write", r, TRUE)
  BY <1>2, <1>4, <1>11, CompletedLine
<1>13. /\ p.failed = TRUE /\ p.chunks = <<>> /\ p.buffered = 0 /\ p.corked = x.corked
       /\ p.sink = w.sink /\ p.autoClose = w.autoClose
       /\ Differs(x, p, {"queue", "sink", "buffered", "failed", "chunks"})
  BY <1>8, <1>10, <1>12 DEF Differs, Fields
<1>14. Given(x, p, n)
  <2>1. /\ p.endCompletions = x.endCompletions /\ p.accepted = x.accepted
        /\ p.finished = x.finished /\ p.closeEmitted = x.closeEmitted
        /\ p.error = x.error /\ p.cancelled = x.cancelled
        /\ p.finishScheduled = x.finishScheduled /\ p.closeQueued = x.closeQueued
    BY <1>13 DEF Differs, Fields
  <2>2. Takes(x, p.sink, n)
    BY <1>13 DEF TookTo
  <2> QED
    BY <1>13, <2>1, <2>2 DEF Given, Older
<1>15. Line(w) = Line(x) \o Callbacks("write", f, FALSE)
  BY <1>1 DEF TookTo
<1>16. Reports(x, p, n)
  BY <1>1, <1>11, <1>12, <1>15 DEF Reports
<1>17. Passes(x, p)
  <2>1. ToSet(Line(x)) \subseteq ToSet(Line(w))
    BY <1>2, <1>15, LineGrows
  <2>2. ToSet(Line(a)) \subseteq ToSet(Line(p))
    BY <1>2, <1>11, <1>12, LineGrows
  <2>3. ToSet(Line(x)) \subseteq ToSet(Line(p))
    BY <1>11, <2>1, <2>2
  <2>4. {"queue", "sink", "buffered", "failed", "chunks"} \cap Waiting = {}
    BY DEF Waiting
  <2> QED
    BY <1>13, <2>3, <2>4, PassesOn
<1>18. Step(p, q) /\ Differs(p, q, {"endCompletions", "queue"})
  BY <1>5, <1>12, EndCompletedStep
<1>19. Step(q, g) /\ Differs(q, g, {"error"} \cup Internal) /\ (g.error \/ g.closeEmitted)
  BY <1>6, <1>18, FailStep DEF Step
<1>20. Step(g, h) /\ Differs(g, h, {"closed", "descriptor"})
  <2>1. Differs(g, h, {"closed", "descriptor"})
    BY <1>7, <1>19 DEF Step, Typed, Differs, Fields
  <2>2. Differs(g, h, Others)
    BY <2>1 DEF Differs, Others
  <2> QED
    BY <1>19, <2>1, <2>2, OtherStep DEF Step
<1>21. PICK k : k = EventsClosed(h)
  OBVIOUS
<1>22. Step(h, k) /\ Differs(h, k, {"closeScheduled", "closeQueued"} \cup Internal)
  BY <1>20, <1>21, CloseStep DEF Step
<1>23. Step(p, g)
  BY <1>18, <1>19, StepTwice
<1>24. Step(p, k)
  BY <1>20, <1>22, <1>23, StepTwice
<1>25. y = g \/ y = k
  BY <1>9, <1>21
<1>26. /\ Step(p, y) /\ Dead(y)
       /\ y.failed = p.failed /\ y.chunks = p.chunks /\ y.buffered = p.buffered
       /\ y.corked = p.corked /\ y.sink = p.sink
  <2>1. /\ g.failed = p.failed /\ g.chunks = p.chunks /\ g.buffered = p.buffered
        /\ g.corked = p.corked /\ g.sink = p.sink
    BY <1>18, <1>19 DEF Differs, Fields, Internal
  <2>2. /\ k.failed = g.failed /\ k.chunks = g.chunks /\ k.buffered = g.buffered
        /\ k.corked = g.corked /\ k.sink = g.sink /\ k.error = g.error /\ k.closeEmitted = g.closeEmitted
    BY <1>20, <1>22 DEF Differs, Fields, Internal
  <2> QED
    BY <1>19, <1>23, <1>24, <1>25, <2>1, <2>2 DEF Dead
<1>27. ASSUME NEW T, NEW c \in Nat, NEW d \in BOOLEAN, Hist(x, T, c, d)
       PROVE  Hist(y, T, c, TRUE)
  <2>1. Hist(p, T, c, d)
    BY <1>12, <1>14, <1>16, <1>27, ReportsHist
  <2>2. Hist(y, T, c, d) /\ Typed(y)
    BY <1>26, <2>1 DEF Step
  <2>3. PICK e \in BOOLEAN : e = TRUE
    OBVIOUS
  <2>4. d => e
    BY <2>3
  <2>5. Hist(y, T, c, e)
    BY <2>2, <2>4, HistLater
  <2> QED
    BY <2>3, <2>5
<1>28. Passes(x, y) /\ Typed(y)
  BY <1>17, <1>26, PassesTwice DEF Step
<1>29. x.sink \in Seq(Nat) => y.sink \in Seq(Nat)
  BY <1>14, <1>26, Taking DEF Given, Took
<1> QED
  BY <1>13, <1>26, <1>27, <1>28, <1>29 DEF FailedBy

\* The bytes of the chunk i, numbered.
ChunkBytes(chunks, i) == {i} \X (1..chunks[i].size)

\* B is the set of the bytes of all chunks.
AllBytes(chunks, B) ==
  /\ Bytes(chunks) = Cardinality(B) /\ IsFiniteSet(B)
  /\ \A b \in B : \E i \in 1..Len(chunks) : b \in ChunkBytes(chunks, i)
  /\ \A i \in 1..Len(chunks) :
        /\ ChunkBytes(chunks, i) \subseteq B /\ IsFiniteSet(ChunkBytes(chunks, i))
        /\ Cardinality(ChunkBytes(chunks, i)) = chunks[i].size

\* Bytes counts them.
LEMMA BytesCounted ==
  ASSUME NEW ch \in Seq(Chunk), NEW B, B = UNION {ChunkBytes(ch, i) : i \in 1..Len(ch)}
  PROVE  AllBytes(ch, B)
<1>1. Len(ch) \in Nat /\ DOMAIN ch = 1..Len(ch) /\ \A i \in 1..Len(ch) : ch[i] \in Chunk
  BY LenProperties
<1> DEFINE P == {ChunkBytes(ch, i) : i \in 1..Len(ch)}
<1>2. ASSUME NEW i \in 1..Len(ch)
      PROVE  IsFiniteSet(ChunkBytes(ch, i)) /\ Cardinality(ChunkBytes(ch, i)) = ch[i].size
  <2>1. PICK n \in Nat : n = ch[i].size
    <3>1. ASSUME NEW v \in Chunk PROVE v.size \in Nat
      BY DEF Chunk
    <3> QED
      BY <1>1, <3>1
  <2>2. IsFiniteSet(1..n) /\ Cardinality(1..n) = n
    <3>1. IsFiniteSet(1..n) /\ Cardinality(1..n) = IF 1 > n THEN 0 ELSE n - 1 + 1
      BY FS_Interval
    <3> QED
      BY <3>1
  <2>3. IsFiniteSet({i}) /\ Cardinality({i}) = 1
    BY FS_Singleton
  <2>4. IsFiniteSet({i} \X (1..n)) /\ Cardinality({i} \X (1..n)) = 1 * n
    BY <2>2, <2>3, FS_Product
  <2> QED
    BY <2>1, <2>4 DEF ChunkBytes
<1>3. IsFiniteSet(P)
  <2> DEFINE f == [i \in 1..Len(ch) |-> ChunkBytes(ch, i)]
  <2>1. f \in Surjection(1..Len(ch), P)
    BY DEF Surjection
  <2>2. IsFiniteSet(1..Len(ch))
    BY <1>1, FS_Interval
  <2> QED
    BY <2>1, <2>2, FS_Surjection
<1>4. \A p \in P : IsFiniteSet(p)
  BY <1>2
<1>5. B = UNION P /\ IsFiniteSet(B)
  BY <1>3, <1>4, FS_UNION
<1>6. Bytes(ch) = Cardinality(B)
  BY <1>1 DEF Bytes, ChunkBytes
<1> QED
  BY <1>2, <1>5, <1>6 DEF AllBytes

\* No chunks, no bytes.
LEMMA BytesEmpty == Bytes(<<>>) = 0
<1>1. PICK B : B = UNION {ChunkBytes(<<>>, i) : i \in 1..Len(<<>>)}
  OBVIOUS
<1>2. <<>> \in Seq(Chunk) /\ Len(<<>>) = 0
  OBVIOUS
<1>0. AllBytes(<<>>, B)
  BY <1>1, <1>2, BytesCounted
<1>3. /\ Bytes(<<>>) = Cardinality(B)
      /\ \A b \in B : \E i \in 1..Len(<<>>) : b \in ChunkBytes(<<>>, i)
  BY <1>0 DEF AllBytes
<1>4. B = {}
  BY <1>2, <1>3
<1> QED
  BY <1>3, <1>4, FS_EmptySet

\* A chunk more, its bytes more.
LEMMA BytesAppend ==
  ASSUME NEW ch \in Seq(Chunk), NEW d \in Chunk
  PROVE  Bytes(Append(ch, d)) = Bytes(ch) + d.size
<1>1. PICK t : t = Append(ch, d)
  OBVIOUS
<1>2. /\ t \in Seq(Chunk) /\ Len(t) = Len(ch) + 1 /\ Len(ch) \in Nat
      /\ \A i \in 1..Len(ch) : t[i] = ch[i]
      /\ t[Len(ch) + 1] = d
  BY <1>1, AppendProperties
<1>3. PICK l \in Nat : l = Len(ch)
  BY <1>2
<1>4. PICK A, B, D : /\ A = UNION {ChunkBytes(ch, i) : i \in 1..Len(ch)}
                     /\ B = UNION {ChunkBytes(t, i) : i \in 1..Len(t)}
                     /\ D = ChunkBytes(t, l + 1)
  OBVIOUS
<1>5. /\ Bytes(ch) = Cardinality(A) /\ IsFiniteSet(A)
      /\ \A b \in A : \E i \in 1..l : b \in ChunkBytes(ch, i)
      /\ \A i \in 1..l : ChunkBytes(ch, i) \subseteq A
  <2>1. AllBytes(ch, A)
    BY <1>4, BytesCounted
  <2> QED
    BY <1>3, <2>1 DEF AllBytes
<1>6. /\ Bytes(t) = Cardinality(B)
      /\ \A b \in B : \E i \in 1..(l + 1) : b \in ChunkBytes(t, i)
      /\ \A i \in 1..(l + 1) : /\ ChunkBytes(t, i) \subseteq B
                               /\ IsFiniteSet(ChunkBytes(t, i))
                               /\ Cardinality(ChunkBytes(t, i)) = t[i].size
  <2>1. AllBytes(t, B)
    BY <1>2, <1>4, BytesCounted
  <2> QED
    BY <1>2, <1>3, <2>1 DEF AllBytes
<1>7. \A i \in 1..(l + 1) : i \in 1..l \/ i = l + 1
  OBVIOUS
<1>8. l + 1 \in 1..(l + 1) /\ (\A i \in 1..l : i \in 1..(l + 1)) /\ l + 1 \notin 1..l
  OBVIOUS
<1>9. \A i \in 1..l : ChunkBytes(t, i) = ChunkBytes(ch, i)
  BY <1>2, <1>3 DEF ChunkBytes
<1>10. B = A \cup D
  <2>1. B \subseteq A \cup D
    BY <1>4, <1>5, <1>6, <1>7, <1>9
  <2>2. A \cup D \subseteq B
    BY <1>4, <1>5, <1>6, <1>8, <1>9
  <2> QED
    BY <2>1, <2>2
<1>11. A \cap D = {}
  <2>1. \A b \in D : b[1] = l + 1
    BY <1>4 DEF ChunkBytes
  <2>2. \A b \in A : b[1] \in 1..l
    BY <1>5 DEF ChunkBytes
  <2> QED
    BY <1>8, <2>1, <2>2
<1>12. IsFiniteSet(D) /\ Cardinality(D) = d.size
  BY <1>2, <1>3, <1>4, <1>6, <1>8
<1>13. Cardinality(B) = Cardinality(A) + Cardinality(D) - Cardinality({})
  <2>1. IsFiniteSet(A) /\ IsFiniteSet(D)
    BY <1>5, <1>12
  <2>2. Cardinality(A \cup D) = Cardinality(A) + Cardinality(D) - Cardinality(A \cap D)
    BY <2>1, FS_Union
  <2> QED
    BY <1>10, <1>11, <2>2
<1>14. Cardinality({}) = 0 /\ Cardinality(A) \in Nat /\ d.size \in Nat
  BY <1>5, FS_EmptySet, FS_CardinalityType DEF Chunk
<1> QED
  BY <1>1, <1>5, <1>6, <1>12, <1>13, <1>14

\* y is what a part of an operation makes of x, with all of the invariant but Waits.
Turns(x, y) ==
  /\ Typed(y) /\ Passes(x, y)
  /\ \A T : \A c \in Nat : Hist(x, T, c, Dead(x)) => Hist(y, T, c, Dead(y))
  /\ Sums(x) => Sums(y)
  /\ Shut(x) => Shut(y)

\* One part after another.
LEMMA TurnsTwice ==
  ASSUME NEW x, NEW y, NEW z, Turns(x, y), Turns(y, z)
  PROVE  Turns(x, z)
BY PassesTwice DEF Turns

\* What the rest of the invariant depends on.
Frame ==
  {"corked", "buffered", "chunks", "closed", "ended", "failed", "closeEmitted", "needDrain",
   "descriptor", "sink"}

\* A step that leaves it alone.
LEMMA StepTurns ==
  ASSUME NEW x, Typed(x), NEW y, Step(x, y), NEW S, Differs(x, y, S), S \cap Frame = {}
  PROVE  Turns(x, y) /\ (Waits(x) => Waits(y))
<1>1. \A f \in Frame : y[f] = x[f]
  BY DEF Differs, Frame, Fields
<1>2. /\ y.corked = x.corked /\ y.buffered = x.buffered /\ y.chunks = x.chunks
      /\ y.closed = x.closed /\ y.ended = x.ended /\ y.failed = x.failed
      /\ y.closeEmitted = x.closeEmitted /\ y.needDrain = x.needDrain
      /\ y.descriptor = x.descriptor /\ y.sink = x.sink
  BY <1>1 DEF Frame
<1>3. Typed(y) /\ Passes(x, y)
  BY DEF Step
<1>4. Dead(x) => Dead(y)
  BY <1>2, <1>3 DEF Dead, Passes
<1>5. ASSUME NEW T, NEW c \in Nat, Hist(x, T, c, Dead(x)) PROVE Hist(y, T, c, Dead(y))
  <2>1. PICK d \in BOOLEAN, e \in BOOLEAN : d = Dead(x) /\ e = Dead(y)
    BY DeadBoolean
  <2>2. Hist(y, T, c, d) /\ (d => e)
    BY <1>4, <1>5, <2>1 DEF Step
  <2>3. Hist(y, T, c, e)
    BY <1>3, <2>2, HistLater
  <2> QED
    BY <2>1, <2>3
<1>6. (Sums(x) => Sums(y)) /\ (Waits(x) => Waits(y))
  BY <1>2 DEF Sums, Waits
<1>7. Shut(x) => Shut(y)
  BY <1>2, <1>3 DEF Shut, Passes
<1> QED
  BY <1>3, <1>5, <1>6, <1>7 DEF Turns

\* A failure, as a part of an operation.
LEMMA FailedTurns ==
  ASSUME NEW x, NEW y, FailedBy(x, y)
  PROVE  Turns(x, y) /\ Waits(y)
<1>1. /\ Typed(y) /\ Passes(x, y) /\ Dead(y) /\ y.failed = TRUE
      /\ y.chunks = <<>> /\ y.buffered = 0 /\ y.corked = x.corked
      /\ (x.sink \in Seq(Nat) => y.sink \in Seq(Nat))
  BY DEF FailedBy
<1>2. ASSUME NEW T, NEW c \in Nat, Hist(x, T, c, Dead(x)) PROVE Hist(y, T, c, Dead(y))
  <2>1. PICK d \in BOOLEAN : d = Dead(x)
    BY DeadBoolean
  <2>2. Hist(y, T, c, TRUE)
    BY <1>2, <2>1 DEF FailedBy
  <2>3. Dead(y) = TRUE
    BY <1>1, DeadBoolean
  <2> QED
    BY <2>2, <2>3
<1>3. Sums(x) => Sums(y)
  BY <1>1, BytesEmpty DEF Sums
<1>4. Shut(y) /\ Waits(y)
  BY <1>1 DEF Shut, Waits
<1> QED
  BY <1>1, <1>2, <1>3, <1>4 DEF Turns

\* The loop of _flush took the first n chunks; with none it changed nothing.
LEMMA WrittenTook ==
  ASSUME NEW x, Typed(x), NEW n \in 0..Len(x.chunks), NEW w, w = Written(x, n)
  PROVE  /\ TookTo(x, w, n)
         /\ w.buffered = x.buffered - Bytes(SubSeq(x.chunks, 1, n))
<1>1. PICK f : f = Ids(SubSeq(x.chunks, 1, n))
  OBVIOUS
<1>2. PICK a : a = Completed(x, "write", f, FALSE)
  OBVIOUS
<1>3. f \in Seq(Nat)
  <2>1. SubSeq(x.chunks, 1, n) \in Seq(Chunk)
    BY IdsSplit DEF Typed
  <2> QED
    BY <1>1, <2>1, IdsTyped
<1>4. /\ Differs(x, a, {"queue"}) /\ Typed(a)
      /\ Line(a) = Line(x) \o Callbacks("write", f, FALSE)
  BY <1>2, <1>3, CompletedLine
<1>5. a.buffered = x.buffered /\ a.sink = x.sink
  BY <1>4 DEF Differs, Fields
<1>6. w = [a EXCEPT !.buffered = @ - Bytes(SubSeq(x.chunks, 1, n)),
                    !.sink = @ \o [i \in 1..n |-> x.chunks[i].id]]
  BY <1>1, <1>2 DEF Written
<1>7. /\ Differs(a, w, {"buffered", "sink"})
      /\ w.buffered = a.buffered - Bytes(SubSeq(x.chunks, 1, n))
      /\ w.sink = a.sink \o [i \in 1..n |-> x.chunks[i].id]
  BY <1>4, <1>6 DEF Typed, Differs, Fields
<1>8. /\ w.queue = a.queue /\ w.chunks = a.chunks /\ w.endCompletions = a.endCompletions
      /\ w.reservations = a.reservations /\ DOMAIN w = Fields
  BY <1>7 DEF Differs, Fields
<1>9. Typed(w) /\ Line(w) = Line(a)
  BY <1>4, <1>8 DEF Typed, Line
<1>10. Differs(x, w, {"queue", "sink", "buffered"})
  BY <1>4, <1>7 DEF Differs
<1> QED
  BY <1>1, <1>4, <1>5, <1>7, <1>9, <1>10 DEF TookTo, Takes

\* No chunks have no callbacks.
LEMMA NoCallbacks == Ids(<<>>) = <<>> /\ \A kind, failed : Callbacks(kind, <<>>, failed) = <<>>
<1>1. <<>> \in Seq(Chunk) /\ Len(Ids(<<>>)) = 0
  BY IdsEmpty
<1>2. Ids(<<>>) \in Seq(Nat)
  BY <1>1, IdsTyped
<1>3. Ids(<<>>) = <<>>
  BY <1>1, <1>2, EmptySeq
<1>4. ASSUME NEW kind, NEW failed PROVE Callbacks(kind, <<>>, failed) = <<>>
  BY DEF Callbacks
<1> QED
  BY <1>3, <1>4

\* A method that fails at once took no chunk.
LEMMA TookNone ==
  ASSUME NEW x, Typed(x), x.sink \in Seq(Nat)
  PROVE  TookTo(x, x, 0) /\ 0 \in 0..Len(x.chunks)
<1>1. SubSeq(x.chunks, 1, 0) = <<>>
  BY SubSeqEmpty
<1>2. PICK f : f = Ids(<<>>)
  OBVIOUS
<1>3. f = <<>> /\ Callbacks("write", f, FALSE) = <<>>
  BY <1>2, NoCallbacks
<1>4. Line(x) \in Seq(Notes) /\ Line(x) = Line(x) \o <<>>
  BY LineTyped, ConcatEmptySeq
<1>5. [i \in 1..0 |-> x.chunks[i].id] = <<>>
  OBVIOUS
<1>6. Takes(x, x.sink, 0)
  BY <1>5, ConcatEmptySeq DEF Takes
<1>7. Differs(x, x, {"queue", "sink", "buffered"})
  BY DEF Typed, Differs
<1>8. 0 \in 0..Len(x.chunks)
  BY LenProperties DEF Typed
<1> QED
  BY <1>1, <1>2, <1>3, <1>4, <1>6, <1>7, <1>8 DEF TookTo

\* y is what _flush makes of x: whoever still waits is told otherwise.
FlushedBy(x, y) ==
  /\ Turns(x, y) /\ Waits(y) /\ y.corked = x.corked
  /\ Sums(x) => y.descriptor = "none" \/ y.failed \/ y.buffered = 0

\* _flush that wrote everything.
LEMMA FlushAllTurn ==
  ASSUME NEW x, Typed(x), Loaded(x), NEW n \in 0..Len(x.chunks), n = Len(x.chunks),
         NEW y, y = FlushEnd(x, n)
  PROVE  FlushedBy(x, y)
<1>1. PICK w : w = Written(x, n)
  OBVIOUS
<1>2. PICK a : a = [w EXCEPT !.chunks = <<>>, !.needDrain = FALSE]
  OBVIOUS
<1>3. y = IF x.needDrain THEN EventsDrained(a) ELSE a
  <2>1. ~(n < Len(x.chunks))
    BY LenProperties DEF Typed
  <2> QED
    BY <1>1, <1>2, <2>1 DEF FlushEnd
<1>4. TookTo(x, w, n) /\ w.buffered = x.buffered - Bytes(SubSeq(x.chunks, 1, n))
  BY <1>1, WrittenTook
<1>5. Typed(w) /\ Differs(x, w, {"queue", "sink", "buffered"}) /\ Takes(x, w.sink, n)
  BY <1>4 DEF TookTo
<1>6. /\ Differs(w, a, {"chunks", "needDrain"}) /\ a.chunks = <<>> /\ a.needDrain = FALSE
  BY <1>2, <1>5 DEF Typed, Differs, Fields
<1>7. Typed(a) /\ Line(a) = Line(w) /\ a.sink = w.sink /\ a.buffered = w.buffered
  <2>1. /\ a.queue = w.queue /\ a.endCompletions = w.endCompletions /\ a.sink = w.sink
        /\ a.reservations = w.reservations /\ DOMAIN a = Fields /\ a.buffered = w.buffered
    BY <1>6 DEF Differs, Fields
  <2> QED
    BY <1>5, <1>6, <2>1, IdsEmpty DEF Typed, Line
<1>8. Differs(x, a, {"queue", "sink", "buffered", "chunks", "needDrain"})
  BY <1>5, <1>6 DEF Differs
<1>9. /\ a.endCompletions = x.endCompletions /\ a.accepted = x.accepted
      /\ a.finished = x.finished /\ a.closeEmitted = x.closeEmitted
      /\ a.error = x.error /\ a.cancelled = x.cancelled /\ a.failed = x.failed
      /\ a.finishScheduled = x.finishScheduled /\ a.closeQueued = x.closeQueued
      /\ a.starved = x.starved /\ a.drainScheduled = x.drainScheduled
      /\ a.corked = x.corked /\ a.closed = x.closed /\ a.ended = x.ended
  BY <1>8 DEF Differs, Fields
<1>10. Given(x, a, n)
  BY <1>5, <1>6, <1>7, <1>9 DEF Given, Older
<1>11. PICK f : f = Ids(SubSeq(x.chunks, 1, n))
  OBVIOUS
<1>12. Line(w) = Line(x) \o Callbacks("write", f, FALSE)
  BY <1>4, <1>11 DEF TookTo
<1>13. f \in Seq(Nat)
  <2>1. SubSeq(x.chunks, 1, n) \in Seq(Chunk)
    BY IdsSplit DEF Typed
  <2> QED
    BY <1>11, <2>1, IdsTyped
<1>14. Reports(x, a, n)
  <2>1. SubSeq(x.chunks, n + 1, Len(x.chunks)) = <<>>
    <3>1. Len(x.chunks) \in Nat
      BY LenProperties DEF Typed
    <3> QED
      BY <3>1, SubSeqEmpty
  <2>2. PICK t : t = Callbacks("write", Ids(SubSeq(x.chunks, n + 1, Len(x.chunks))), TRUE)
    OBVIOUS
  <2>3. t = <<>>
    BY <2>1, <2>2, NoCallbacks
  <2>4. Line(w) \in Seq(Notes)
    BY <1>5, LineTyped
  <2>5. Line(w) = Line(w) \o t
    BY <2>3, <2>4, ConcatEmptySeq
  <2> QED
    BY <1>7, <1>11, <1>12, <2>2, <2>5 DEF Reports
<1>15. \A T : \A c \in Nat, d \in BOOLEAN : Hist(x, T, c, d) => Hist(a, T, c, d)
  BY <1>7, <1>10, <1>14, ReportsHist
<1>16. ToSet(Line(x)) \subseteq ToSet(Line(a))
  BY <1>7, <1>12, <1>13, LineGrows
<1>17. Due(x) => Due(a)
  BY <1>9, <1>16 DEF Due
<1>18. Dead(a) = Dead(x)
  BY <1>9 DEF Dead
<1>19. Sums(x) => Sums(a) /\ a.buffered = 0
  <2>1. SubSeq(x.chunks, 1, n) = x.chunks
    BY SubSeqFull DEF Typed
  <2>2. Bytes(x.chunks) \in Nat
    <3>1. PICK B : B = UNION {ChunkBytes(x.chunks, i) : i \in 1..Len(x.chunks)}
      OBVIOUS
    <3>2. AllBytes(x.chunks, B)
      BY <3>1, BytesCounted DEF Typed
    <3> QED
      BY <3>2, FS_CardinalityType DEF AllBytes
  <2>3. a.buffered = x.buffered - Bytes(x.chunks)
    BY <1>4, <1>7, <2>1
  <2>4. Sums(x) => a.buffered = 0
    BY <2>2, <2>3 DEF Sums
  <2>5. Bytes(a.chunks) = 0 /\ a.corked = x.corked
    BY <1>6, <1>9, BytesEmpty
  <2>6. x.sink \in Seq(Nat) => a.sink \in Seq(Nat)
    BY <1>10, Taking DEF Given, Took
  <2> QED
    BY <2>4, <2>5, <2>6 DEF Sums
<1>20. Shut(x) => Shut(a)
  BY <1>9 DEF Shut
<1>21. CASE ~x.needDrain
  <2>1. y = a
    BY <1>3, <1>21
  <2>2. Passes(x, y)
    BY <1>9, <1>16, <1>17, <1>21, <2>1 DEF Passes
  <2>3. \A T : \A c \in Nat : Hist(x, T, c, Dead(x)) => Hist(y, T, c, Dead(y))
    BY <1>15, <1>18, <2>1, DeadBoolean
  <2>4. Turns(x, y)
    BY <1>7, <1>19, <1>20, <2>1, <2>2, <2>3 DEF Turns
  <2> QED
    BY <1>6, <1>9, <1>19, <2>1, <2>4 DEF FlushedBy, Waits
<1>22. CASE x.needDrain
  <2>1. y = EventsDrained(a)
    BY <1>3, <1>22
  <2>2. /\ Step(a, y) /\ Differs(a, y, {"drainScheduled"} \cup Internal)
        /\ Due(a) => Announced(y)
    BY <1>7, <2>1, DrainStep
  <2>3. PICK S : S = {"drainScheduled"} \cup Internal
    OBVIOUS
  <2>4. S \cap Frame = {} /\ Differs(a, y, S)
    BY <2>2, <2>3 DEF Internal, Frame
  <2>5. Turns(a, y) /\ (Waits(a) => Waits(y))
    BY <1>7, <2>2, <2>4, StepTurns
  <2>6. Passes(a, y)
    BY <2>5 DEF Turns
  <2>7. Passes(x, y)
    BY <1>9, <1>16, <1>17, <2>2, <2>6 DEF Passes
  <2>8. ASSUME NEW T, NEW c \in Nat, Hist(x, T, c, Dead(x)) PROVE Hist(y, T, c, Dead(y))
    <3>1. Hist(a, T, c, Dead(a))
      BY <1>15, <1>18, <2>8, DeadBoolean
    <3> QED
      BY <2>5, <3>1 DEF Turns
  <2>9. Turns(x, y)
    BY <1>19, <1>20, <2>5, <2>7, <2>8 DEF Turns
  <2>10. Waits(y)
    BY <1>6, <2>5 DEF Waits
  <2>11. y.corked = x.corked /\ y.buffered = a.buffered
    BY <1>9, <2>2 DEF Differs, Fields, Internal
  <2> QED
    BY <1>19, <2>9, <2>10, <2>11 DEF FlushedBy
<1> QED
  BY <1>21, <1>22

\* _flush
LEMMA FlushTurn ==
  ASSUME NEW x, Typed(x), Loaded(x), NEW y \in Flushed(x)
  PROVE  FlushedBy(x, y)
<1>1. CASE x.descriptor = "none" \/ x.failed
  <2>1. y = x
    BY <1>1 DEF Flushed
  <2>2. PICK S : S = {}
    OBVIOUS
  <2>3. Step(x, x) /\ Differs(x, x, S) /\ S \cap Frame = {}
    BY <2>2, NoStep
  <2>4. Turns(x, x)
    BY <2>3, StepTurns
  <2> QED
    BY <1>1, <2>1, <2>4 DEF FlushedBy, Waits
<1>2. CASE ~(x.descriptor = "none" \/ x.failed)
  <2>1. PICK n \in 0..Len(x.chunks) : y = FlushEnd(x, n)
    <3>1. Len(x.chunks) \in Nat
      BY LenProperties DEF Typed
    <3> QED
      BY <1>2, <3>1 DEF Flushed, Accepts
  <2>2. CASE n < Len(x.chunks)
    <3>1. PICK w : w = Written(x, n)
      OBVIOUS
    <3>2. TookTo(x, w, n) /\ y = Failed(w, n)
      BY <2>1, <2>2, <3>1, WrittenTook DEF FlushEnd
    <3>3. FailedBy(x, y)
      BY <3>2, FailedTurn
    <3> QED
      BY <3>3, FailedTurns DEF FlushedBy, FailedBy
  <2>3. CASE ~(n < Len(x.chunks))
    <3>1. n = Len(x.chunks)
      <4>1. Len(x.chunks) \in Nat
        BY LenProperties DEF Typed
      <4> QED
        BY <2>3, <4>1
    <3> QED
      BY <2>1, <3>1, FlushAllTurn
  <2> QED
    BY <2>2, <2>3
<1> QED
  BY <1>1, <1>2

\* No write of x or of those told is as late as the call id.
NewWrite(x, T, id) ==
  /\ \A m \in T \cup ToSet(Line(x)) : m[1] = "write" => m[2] < id
  /\ \A i \in 1..Len(x.accepted) : x.accepted[i] < id

\* y is what _write makes of x for the call id.
WroteBy(x, y, id) ==
  /\ Typed(y) /\ Passes(x, y) /\ Even(y)
  /\ \A T : \A c \in Nat :
        Hist(x, T, c, Dead(x)) /\ NewWrite(x, T, id) /\ id \in 1..c => Hist(y, T, c, Dead(y))

\* The callback of a refused write tells of a failure.
LEMMA RefusedFits ==
  ASSUME NEW x, Typed(x), x.chunks = <<>>, NEW T, NEW c \in Nat, NEW id \in 1..c,
         NewWrite(x, T, id), Stocked(x, c), NEW ids, ids = <<id>>
  PROVE  CallbacksFit(x, "write", ids, TRUE, T, c, TRUE)
<1>1. Len(ids) = 1 /\ ids[1] = id /\ \A i \in 1..1 : i = 1
  OBVIOUS
<1>2. Len(x.chunks) = 0
  OBVIOUS
<1>3. /\ x.sink \in Seq(Nat) /\ Len(x.sink) \in Nat /\ Len(x.accepted) \in Nat
      /\ Len(x.sink) <= Len(x.accepted)
      /\ \A i \in 1..Len(x.sink) : x.sink[i] = x.accepted[i]
  BY LenProperties DEF Stocked
<1>4. id \notin ToSet(x.sink)
  <2>1. ToSet(x.sink) = {x.sink[i] : i \in 1..Len(x.sink)}
    BY <1>3, LenProperties DEF ToSet
  <2>2. ASSUME NEW i \in 1..Len(x.sink) PROVE x.sink[i] # id
    <3>1. i \in 1..Len(x.accepted)
      BY <1>3
    <3>2. x.accepted[i] < id /\ x.sink[i] = x.accepted[i]
      BY <1>3, <3>1 DEF NewWrite
    <3> QED
      BY <3>2
  <2> QED
    BY <2>1, <2>2
<1>5. Follows(ids, "write", T \cup ToSet(Line(x)))
  BY <1>1 DEF Follows, NewWrite
<1>6. PICK n : n = <<"write", id, TRUE>>
  OBVIOUS
<1>7. n[1] = "write" /\ n[2] = id /\ n[3] = TRUE /\ \A e : n # Event(e)
  <2>1. id \in Nat
    OBVIOUS
  <2>2. \A e : n # Event(e)
    BY <1>6, <2>1, EventNotes
  <2> QED
    BY <1>6, <2>2
<1>8. Recorded(n, x, c)
  <2>1. id <= c
    OBVIOUS
  <2> QED
    BY <1>2, <1>4, <1>7, <2>1 DEF Recorded
<1> QED
  BY <1>1, <1>5, <1>6, <1>8 DEF CallbacksFit

\* A stream that takes no data has no chunks.
LEMMA RefusesEmpty ==
  ASSUME NEW x, Sound(x), Shut(x), ~IsWritable(x)
  PROVE  x.chunks = <<>> /\ Typed(x) /\ Loaded(x)
BY DEF Sound, Able, Settled, Ends, Shut, IsWritable, Loaded

\* _write of a stream that takes no data.
LEMMA RefusedTurn ==
  ASSUME NEW x, Sound(x), Even(x), NEW chunk \in Chunk, ~IsWritable(x),
         NEW y \in Wrote(x, chunk)
  PROVE  WroteBy(x, y, chunk.id)
<1>0. /\ x.chunks = <<>> /\ Typed(x) /\ Loaded(x)
      /\ chunk.id \in Nat /\ chunk.callback \in BOOLEAN
  BY RefusesEmpty DEF Even, Chunk
<1>1. PICK id \in Nat : id = chunk.id
  BY <1>0
<1>2. PICK ids : ids = <<id>>
  OBVIOUS
<1>3. PICK w : w = IF chunk.callback THEN Completed(x, "write", ids, TRUE) ELSE x
  OBVIOUS
<1>4. y = IF Destroyed(x) THEN w ELSE Failed(w, 0)
  BY <1>1, <1>2, <1>3 DEF Wrote
<1>5. ids \in Seq(Nat)
  BY <1>2
<1>6. /\ Typed(w) /\ Differs(x, w, {"queue"}) /\ ToSet(Line(x)) \subseteq ToSet(Line(w))
      /\ w = x \/ Line(w) = Line(x) \o Callbacks("write", ids, TRUE)
  <2>1. CASE chunk.callback
    <3>1. /\ Differs(x, w, {"queue"}) /\ Typed(w)
          /\ Line(w) = Line(x) \o Callbacks("write", ids, TRUE)
      BY <1>0, <1>3, <1>5, <2>1, CompletedLine
    <3> QED
      BY <1>0, <1>5, <3>1, LineGrows
  <2>2. CASE ~chunk.callback
    <3>1. w = x
      BY <1>3, <2>2
    <3> QED
      BY <1>0, <3>1 DEF Differs, Typed
  <2> QED
    BY <2>1, <2>2
<1>7. /\ w.chunks = x.chunks /\ w.endCompletions = x.endCompletions /\ w.sink = x.sink
      /\ w.accepted = x.accepted /\ w.finished = x.finished
      /\ w.closeEmitted = x.closeEmitted /\ w.error = x.error /\ w.cancelled = x.cancelled
      /\ w.failed = x.failed /\ w.finishScheduled = x.finishScheduled
      /\ w.closeQueued = x.closeQueued /\ w.corked = x.corked /\ w.buffered = x.buffered
      /\ w.needDrain = x.needDrain /\ w.descriptor = x.descriptor
      /\ w.closed = x.closed /\ w.ended = x.ended
  BY <1>6 DEF Differs, Fields
<1>8. Passes(x, w)
  <2>1. {"queue"} \cap Waiting = {}
    BY DEF Waiting
  <2> QED
    BY <1>6, <2>1, PassesOn
<1>9. Even(w) /\ Loaded(w)
  BY <1>0, <1>7 DEF Even, Sums, Waits, Shut, Loaded
<1>10. ASSUME NEW T, NEW c \in Nat, Hist(x, T, c, Dead(x)), NewWrite(x, T, id), id \in 1..c
       PROVE  Hist(w, T, c, TRUE)
  <2>1. PICK d \in BOOLEAN : d = Dead(x)
    BY DeadBoolean
  <2>2. Hist(x, T, c, TRUE)
    <3>1. PICK f \in BOOLEAN : f = TRUE
      OBVIOUS
    <3>2. c <= c /\ Hist(x, T, c, d) /\ (d => f)
      BY <1>10, <2>1, <3>1
    <3>3. Hist(x, T, c, f)
      BY <1>0, <3>2, HistLater
    <3> QED
      BY <3>1, <3>3
  <2>3. CASE w = x
    BY <2>2, <2>3
  <2>4. CASE Line(w) = Line(x) \o Callbacks("write", ids, TRUE)
    <3>1. SameStock(x, w) /\ Older(x, w)
      BY <1>7 DEF SameStock, Older
    <3>2. Completes(x, w, "write", ids, TRUE)
      BY <1>5, <2>4, <3>1 DEF Completes
    <3>3. Stocked(x, c)
      BY <2>2 DEF Hist
    <3>4. CallbacksFit(x, "write", ids, TRUE, T, c, TRUE)
      BY <1>0, <1>2, <1>10, <3>3, RefusedFits
    <3>5. PICK yes, kind : yes = TRUE /\ kind = "write"
      OBVIOUS
    <3>6. /\ Completes(x, w, kind, ids, yes) /\ CallbacksFit(x, kind, ids, yes, T, c, yes)
          /\ Hist(x, T, c, yes) /\ yes \in BOOLEAN
      BY <2>2, <3>2, <3>4, <3>5
    <3>7. Hist(w, T, c, yes)
      BY <1>0, <3>6, CallbacksHist
    <3> QED
      BY <3>5, <3>7
  <2> QED
    BY <1>6, <2>3, <2>4
<1>11. CASE Destroyed(x)
  <2>1. y = w /\ Dead(w)
    BY <1>4, <1>7, <1>11 DEF Destroyed, Dead
  <2>2. Dead(w) = TRUE
    BY <2>1, DeadBoolean
  <2> QED
    BY <1>1, <1>6, <1>8, <1>9, <1>10, <2>1, <2>2 DEF WroteBy
<1>12. CASE ~Destroyed(x)
  <2>1. y = Failed(w, 0)
    BY <1>4, <1>12
  <2>2. w.sink \in Seq(Nat)
    BY <1>9 DEF Even, Sums
  <2>3. TookTo(w, w, 0) /\ 0 \in 0..Len(w.chunks)
    BY <1>6, <2>2, TookNone
  <2>4. FailedBy(w, y)
    BY <1>6, <1>9, <2>1, <2>3, FailedTurn
  <2>5. Turns(w, y) /\ Waits(y)
    BY <2>4, FailedTurns
  <2>6. Typed(y) /\ Even(y) /\ Passes(w, y)
    BY <1>9, <2>5 DEF Turns, Even
  <2>7. Passes(x, y)
    BY <1>8, <2>6, PassesTwice
  <2>8. Dead(y) = TRUE
    BY <2>4, DeadBoolean DEF FailedBy
  <2>9. \A T : \A c \in Nat : Hist(w, T, c, TRUE) => Hist(y, T, c, TRUE)
    BY <2>4 DEF FailedBy
  <2> QED
    BY <1>1, <1>10, <2>6, <2>7, <2>8, <2>9 DEF WroteBy
<1> QED
  BY <1>11, <1>12

\* w is x that has accepted the chunk and buffers it.
Buffers(x, w, chunk) ==
  /\ Typed(w) /\ Differs(x, w, {"chunks", "buffered", "accepted"}) /\ Line(w) = Line(x)
  /\ w.chunks = Append(x.chunks, chunk) /\ w.accepted = Append(x.accepted, chunk.id)
  /\ w.buffered = x.buffered + chunk.size

\* It comes behind all that the stream had.
LEMMA BufferedHist ==
  ASSUME NEW x, Typed(x), ~x.finished, NEW chunk \in Chunk, NEW w, Buffers(x, w, chunk),
         NEW T, NEW c \in Nat, NEW d \in BOOLEAN, Hist(x, T, c, d),
         NewWrite(x, T, chunk.id), chunk.id \in 1..c
  PROVE  Hist(w, T, c, d)
<1>1. PICK id \in 1..c : id = chunk.id
  OBVIOUS
<1>2. /\ w.endCompletions = x.endCompletions /\ w.sink = x.sink
      /\ w.finished = x.finished /\ w.closeEmitted = x.closeEmitted
      /\ w.error = x.error /\ w.cancelled = x.cancelled /\ w.failed = x.failed
      /\ w.finishScheduled = x.finishScheduled /\ w.closeQueued = x.closeQueued
      /\ Line(w) = Line(x)
  BY DEF Buffers, Differs, Fields
<1>3. Stocked(x, c) /\ Over(x, T) /\ Row(T, Line(x), d)
  BY DEF Hist
<1>4. /\ x.accepted \in Seq(Nat) /\ Len(x.accepted) \in Nat
      /\ x.sink \in Seq(Nat) /\ Len(x.sink) \in Nat /\ Len(x.chunks) \in Nat
  BY <1>3, LenProperties DEF Stocked, Typed
<1>5. PICK l \in Nat, k \in Nat, s \in Nat : l = Len(x.chunks) /\ k = Len(x.accepted) /\ s = Len(x.sink)
  BY <1>4
<1>6. /\ Len(w.chunks) = l + 1 /\ w.chunks[l + 1] = chunk
      /\ \A i \in 1..l : w.chunks[i] = x.chunks[i]
  BY <1>5, AppendProperties DEF Typed, Buffers
<1>7. /\ w.accepted \in Seq(Nat) /\ Len(w.accepted) = k + 1 /\ w.accepted[k + 1] = id
      /\ \A i \in 1..k : w.accepted[i] = x.accepted[i]
  BY <1>1, <1>4, <1>5, AppendProperties DEF Buffers
<1>8. /\ \A i \in 1..(l + 1) : i \in 1..l \/ i = l + 1
      /\ \A i \in 1..(k + 1) : i \in 1..k \/ i = k + 1
  OBVIOUS
<1>9. \A i \in 1..k : x.accepted[i] < id /\ x.accepted[i] \in 1..c
  BY <1>1, <1>3, <1>5 DEF NewWrite, Stocked, Rising
<1>10. ASSUME NEW n \in T \cup ToSet(Line(x)) PROVE n \in Notes /\ Recorded(n, w, c)
  <2>1. n \in Notes /\ Recorded(n, x, c)
    BY DEF Hist
  <2>2. n[1] = "write" => \A i \in 1..Len(w.chunks) : n[2] < w.chunks[i].id
    <3>1. n[1] = "write" => n[2] < id /\ \A i \in 1..l : n[2] < x.chunks[i].id
      BY <1>1, <1>5, <2>1 DEF NewWrite, Recorded
    <3> QED
      BY <1>1, <1>6, <1>8, <3>1
  <2> QED
    BY <1>2, <2>1, <2>2 DEF Recorded
<1>11. Rising(w.accepted, c)
  <2>1. ASSUME NEW i \in 1..(k + 1) PROVE w.accepted[i] \in 1..c
    BY <1>7, <1>8, <1>9
  <2>2. ASSUME NEW i \in 1..(k + 1), NEW j \in 1..(k + 1), i < j
        PROVE  w.accepted[i] < w.accepted[j]
    <3>1. i \in 1..k
      BY <2>2
    <3>2. CASE j \in 1..k
      <4>1. x.accepted[i] < x.accepted[j]
        BY <1>3, <1>5, <2>2, <3>1, <3>2 DEF Stocked, Rising
      <4> QED
        BY <1>7, <3>1, <3>2, <4>1
    <3>3. CASE j = k + 1
      BY <1>7, <1>9, <3>1, <3>3
    <3> QED
      BY <1>8, <3>2, <3>3
  <2> QED
    BY <1>7, <2>1, <2>2 DEF Rising
<1>12. s <= k /\ \A i \in 1..s : x.sink[i] = x.accepted[i] /\ i \in 1..k
  <2>1. s <= k /\ \A i \in 1..s : x.sink[i] = x.accepted[i]
    BY <1>3, <1>5 DEF Stocked
  <2> QED
    BY <2>1
<1>13. ASSUME ~x.failed, ~x.cancelled
       PROVE  /\ k + 1 = s + (l + 1)
              /\ \A i \in 1..(l + 1) : w.accepted[s + i] = w.chunks[i].id
  <2>1. k = s + l /\ \A i \in 1..l : x.accepted[s + i] = x.chunks[i].id
    BY <1>3, <1>5, <1>13 DEF Stocked
  <2>2. \A i \in 1..l : s + i \in 1..k
    BY <2>1
  <2>3. k + 1 = s + (l + 1)
    BY <2>1
  <2>4. \A i \in 1..l : w.accepted[s + i] = w.chunks[i].id
    BY <1>6, <1>7, <2>1, <2>2
  <2>5. w.accepted[s + (l + 1)] = w.chunks[l + 1].id
    BY <1>1, <1>6, <1>7, <2>3
  <2> QED
    BY <1>8, <2>3, <2>4, <2>5
<1>14. Stocked(w, c)
  <2>1. Rising(w.endCompletions, c)
    BY <1>2, <1>3 DEF Stocked
  <2>2. s <= k + 1 /\ \A i \in 1..s : w.sink[i] = w.accepted[i]
    BY <1>2, <1>7, <1>12
  <2>3. Len(w.sink) = s /\ Len(w.accepted) = k + 1 /\ Len(w.chunks) = l + 1
    BY <1>2, <1>5, <1>6, <1>7
  <2>4. ~w.finished
    BY <1>2
  <2>5. w.sink \in Seq(Nat) /\ w.accepted \in Seq(Nat)
    BY <1>2, <1>4, <1>7
  <2> QED
    BY <1>2, <1>11, <1>13, <2>1, <2>2, <2>3, <2>4, <2>5 DEF Stocked
<1>15. Over(w, T)
  BY <1>2, <1>3 DEF Over
<1> QED
  BY <1>2, <1>3, <1>10, <1>14, <1>15 DEF Hist

\* y is z with more need of a drain.
NeedsMore(z, y) ==
  /\ Differs(z, y, {"needDrain"}) /\ (z.needDrain => y.needDrain)

\* That changes nothing but who waits.
LEMMA NeedTurn ==
  ASSUME NEW z, Typed(z), NEW y, NeedsMore(z, y)
  PROVE  Turns(z, y)
<1>1. /\ y.queue = z.queue /\ y.chunks = z.chunks /\ y.endCompletions = z.endCompletions
      /\ y.reservations = z.reservations /\ DOMAIN y = Fields
      /\ y.sink = z.sink /\ y.accepted = z.accepted /\ y.finished = z.finished
      /\ y.closeEmitted = z.closeEmitted /\ y.error = z.error /\ y.cancelled = z.cancelled
      /\ y.failed = z.failed /\ y.finishScheduled = z.finishScheduled
      /\ y.closeQueued = z.closeQueued /\ y.corked = z.corked /\ y.buffered = z.buffered
      /\ y.closed = z.closed /\ y.ended = z.ended /\ y.starved = z.starved
      /\ y.drainScheduled = z.drainScheduled
  BY DEF NeedsMore, Differs, Fields
<1>2. Typed(y) /\ Line(y) = Line(z) /\ Dead(y) = Dead(z)
  BY <1>1 DEF Typed, Line, Dead
<1>3. Passes(z, y)
  BY <1>1, <1>2 DEF Passes, Due, NeedsMore
<1>4. ASSUME NEW T, NEW c \in Nat, Hist(z, T, c, Dead(z)) PROVE Hist(y, T, c, Dead(y))
  <2>1. PICK d \in BOOLEAN : d = Dead(z)
    BY DeadBoolean
  <2>2. SameStock(z, y) /\ Older(z, y) /\ Extended(z, y, "close") /\ "close" \in Events
    BY <1>1, <1>2 DEF SameStock, Older, Extended, Events
  <2>3. Hist(y, T, c, d)
    BY <1>4, <2>1, <2>2, EventHist
  <2> QED
    BY <1>2, <2>1, <2>3
<1>5. (Sums(z) => Sums(y)) /\ (Shut(z) => Shut(y))
  BY <1>1 DEF Sums, Shut
<1> QED
  BY <1>2, <1>3, <1>4, <1>5 DEF Turns

\* _write of a stream that takes data.
LEMMA AcceptedTurn ==
  ASSUME NEW x, Sound(x), Even(x), NEW chunk \in Chunk, IsWritable(x),
         NEW y \in Wrote(x, chunk)
  PROVE  WroteBy(x, y, chunk.id)
<1>0. /\ Typed(x) /\ ~x.finishScheduled /\ ~x.finished /\ ~x.failed /\ ~x.cancelled
      /\ chunk.id \in Nat /\ chunk.size \in Nat
  BY DEF Sound, Able, Life, IsWritable, Chunk
<1>1. PICK w : w = [x EXCEPT !.chunks = Append(@, chunk), !.buffered = @ + chunk.size,
                             !.accepted = Append(@, chunk.id)]
  OBVIOUS
<1>2. PICK z \in (IF x.corked = 0 THEN Flushed(w) ELSE {w}) :
         y = [z EXCEPT !.needDrain = @ \/ ~(z.buffered < HighWaterMark \/ z.buffered = 0)]
  BY <1>1 DEF Wrote
<1>3. /\ Differs(x, w, {"chunks", "buffered", "accepted"})
      /\ w.chunks = Append(x.chunks, chunk) /\ w.accepted = Append(x.accepted, chunk.id)
      /\ w.buffered = x.buffered + chunk.size
  BY <1>0, <1>1 DEF Typed, Differs, Fields
<1>4. /\ w.queue = x.queue /\ w.endCompletions = x.endCompletions
      /\ w.reservations = x.reservations /\ DOMAIN w = Fields /\ w.sink = x.sink
      /\ w.corked = x.corked /\ w.failed = x.failed /\ w.cancelled = x.cancelled
      /\ w.closed = x.closed /\ w.ended = x.ended /\ w.finishScheduled = x.finishScheduled
      /\ w.error = x.error /\ w.closeEmitted = x.closeEmitted
  BY <1>3 DEF Differs, Fields
<1>5. Typed(w) /\ Line(w) = Line(x) /\ Dead(w) = Dead(x)
  <2>1. w.chunks \in Seq(Chunk)
    BY <1>0, <1>3, AppendProperties DEF Typed
  <2> QED
    BY <1>0, <1>4, <2>1 DEF Typed, Line, Dead
<1>6. Buffers(x, w, chunk) /\ Loaded(w)
  BY <1>0, <1>3, <1>4, <1>5 DEF Buffers, Loaded
<1>7. Passes(x, w)
  <2>1. {"chunks", "buffered", "accepted"} \cap Waiting = {}
    BY DEF Waiting
  <2> QED
    BY <1>3, <1>5, <2>1, PassesOn
<1>8. Sums(w) /\ Shut(w)
  <2>1. Bytes(w.chunks) = Bytes(x.chunks) + chunk.size
    BY <1>0, <1>3, BytesAppend DEF Typed
  <2> QED
    BY <1>3, <1>4, <2>1 DEF Even, Sums, Shut
<1>9. /\ Turns(w, z) /\ z.corked = x.corked
      /\ z.needDrain => z.corked > 0 \/ z.descriptor = "none" \/ z.failed
      /\ z.corked > 0 \/ z.descriptor = "none" \/ z.failed \/ z.buffered = 0
  <2>1. CASE x.corked = 0
    <3>1. z \in Flushed(w)
      BY <1>2, <2>1
    <3>2. FlushedBy(w, z)
      BY <1>5, <1>6, <3>1, FlushTurn
    <3> QED
      BY <1>4, <1>8, <3>2 DEF FlushedBy, Waits
  <2>2. CASE x.corked # 0
    <3>1. z = w
      BY <1>2, <2>2
    <3>2. x.corked > 0
      BY <2>2 DEF Even, Sums
    <3>3. PICK S : S = {}
      OBVIOUS
    <3>4. Step(w, w) /\ Differs(w, w, S) /\ S \cap Frame = {}
      BY <1>5, <3>3, NoStep
    <3>5. Turns(w, w)
      BY <1>5, <3>4, StepTurns
    <3> QED
      BY <1>4, <3>1, <3>2, <3>5
  <2> QED
    BY <2>1, <2>2
<1>10. Typed(z)
  BY <1>9 DEF Turns
<1>11. /\ Differs(z, y, {"needDrain"})
       /\ y.needDrain = (z.needDrain \/ ~(z.buffered < HighWaterMark \/ z.buffered = 0))
       /\ y.corked = z.corked /\ y.descriptor = z.descriptor /\ y.failed = z.failed
  BY <1>2, <1>10 DEF Typed, Differs, Fields
<1>12. NeedsMore(z, y)
  BY <1>11 DEF NeedsMore
<1>13. Turns(z, y)
  BY <1>10, <1>12, NeedTurn
<1>14. Turns(w, y)
  BY <1>9, <1>13, TurnsTwice
<1>15. Waits(y)
  BY <1>9, <1>11 DEF Waits
<1>16. Typed(y) /\ Passes(w, y) /\ Even(y)
  BY <1>8, <1>14, <1>15 DEF Turns, Even
<1>17. Passes(x, y)
  BY <1>7, <1>16, PassesTwice
<1>18. ASSUME NEW T, NEW c \in Nat, Hist(x, T, c, Dead(x)), NewWrite(x, T, chunk.id),
              chunk.id \in 1..c
       PROVE  Hist(y, T, c, Dead(y))
  <2>1. PICK d \in BOOLEAN : d = Dead(x)
    BY DeadBoolean
  <2>2. Hist(w, T, c, d)
    BY <1>0, <1>6, <1>18, <2>1, BufferedHist
  <2>3. Hist(w, T, c, Dead(w))
    BY <1>5, <2>1, <2>2
  <2> QED
    BY <1>14, <2>3 DEF Turns
<1> QED
  BY <1>16, <1>17, <1>18 DEF WroteBy

\* _write
LEMMA WroteTurn ==
  ASSUME NEW x, Sound(x), Even(x), NEW chunk \in Chunk, NEW y \in Wrote(x, chunk)
  PROVE  WroteBy(x, y, chunk.id)
BY RefusedTurn, AcceptedTurn

\* A method that only counts places keeps the line and all the rest.
LEMMA PlacesTurn ==
  ASSUME NEW x, Typed(x), NEW y, Typed(y), Differs(x, y, {"reservations", "queue"}),
         Line(y) = Line(x)
  PROVE  Turns(x, y) /\ (Waits(x) => Waits(y)) /\ (Even(x) => Even(y))
<1>1. PICK S : S = {"reservations", "queue"}
  OBVIOUS
<1>2. /\ y.chunks = x.chunks /\ y.endCompletions = x.endCompletions
      /\ y.sink = x.sink /\ y.accepted = x.accepted /\ y.finished = x.finished
      /\ y.closeEmitted = x.closeEmitted /\ y.error = x.error /\ y.cancelled = x.cancelled
      /\ y.failed = x.failed /\ y.finishScheduled = x.finishScheduled
      /\ y.closeQueued = x.closeQueued
  BY DEF Differs, Fields
<1>3. SameStock(x, y) /\ Older(x, y) /\ Extended(x, y, "close") /\ "close" \in Events
  BY <1>2 DEF SameStock, Older, Extended, Events
<1>4. \A T : \A c \in Nat, d \in BOOLEAN : Hist(x, T, c, d) => Hist(y, T, c, d)
  BY <1>3, EventHist
<1>5. Passes(x, y)
  <2>1. S \cap Waiting = {} /\ Differs(x, y, S)
    BY <1>1 DEF Waiting
  <2> QED
    BY <2>1, PassesOn
<1>6. Step(x, y) /\ Differs(x, y, S) /\ S \cap Frame = {}
  BY <1>1, <1>4, <1>5 DEF Step, Frame
<1>7. Turns(x, y) /\ (Waits(x) => Waits(y))
  BY <1>6, StepTurns
<1> QED
  BY <1>7 DEF Turns, Even

\* The calls made so far are before the next.
LEMMA NextWrite ==
  ASSUME NEW x, Typed(x), NEW T, NEW c \in Nat, NEW d, Hist(x, T, c, d)
  PROVE  NewWrite(x, T, c + 1)
<1>1. ASSUME NEW m \in T \cup ToSet(Line(x)), m[1] = "write" PROVE m[2] < c + 1
  <2>1. m \in Notes /\ Recorded(m, x, c)
    BY DEF Hist
  <2>2. m[2] \in Nat
    <3>1. m \notin {"event"} \X Events
      BY <1>1
    <3>2. m \in {"write", "end"} \X Nat \X BOOLEAN
      BY <2>1, <3>1 DEF Notes
    <3> QED
      BY <3>2
  <2>3. m[2] <= c
    BY <1>1, <2>1 DEF Recorded
  <2> QED
    BY <2>2, <2>3
<1>2. ASSUME NEW i \in 1..Len(x.accepted) PROVE x.accepted[i] < c + 1
  <2>1. x.accepted[i] \in 1..c
    BY DEF Hist, Stocked, Rising
  <2> QED
    BY <2>1
<1> QED
  BY <1>1, <1>2 DEF NewWrite

\* y is what retain_end makes of x for the call c + 1.
RetainedBy(x, y, c) ==
  /\ Typed(y) /\ Passes(x, y) /\ (Even(x) => Even(y))
  /\ \A T : Hist(x, T, c, Dead(x)) => Hist(y, T, c + 1, Dead(y)) /\ NewWrite(y, T, c + 1)

\* The end callback of a stream whose end is decided.
LEMMA LateEnd ==
  ASSUME NEW x, Typed(x), x.endCompletions = <<>>, NEW c \in Nat, NEW ids, ids = <<c + 1>>,
         NEW T, NEW d \in BOOLEAN, Hist(x, T, c, d)
  PROVE  CallbacksFit(x, "end", ids, TRUE, T, c + 1, d)
<1>1. /\ Len(ids) = 1 /\ ids[1] = c + 1 /\ \A i \in 1..1 : i = 1
      /\ Len(x.endCompletions) = 0
  OBVIOUS
<1>2. ASSUME NEW m \in T \cup ToSet(Line(x)), m[1] = "end" PROVE m[2] < c + 1
  <2>1. m \in Notes /\ Recorded(m, x, c)
    BY DEF Hist
  <2>2. m[2] \in Nat
    <3>1. m \notin {"event"} \X Events
      BY <1>2
    <3>2. m \in {"write", "end"} \X Nat \X BOOLEAN
      BY <2>1, <3>1 DEF Notes
    <3> QED
      BY <3>2
  <2>3. m[2] <= c
    BY <1>2, <2>1 DEF Recorded
  <2> QED
    BY <2>2, <2>3
<1>3. Follows(ids, "end", T \cup ToSet(Line(x)))
  BY <1>1, <1>2 DEF Follows
<1>4. PICK n : n = <<"end", c + 1, TRUE>>
  OBVIOUS
<1>5. n[1] = "end" /\ n[2] = c + 1 /\ n[3] = TRUE /\ \A e : n # Event(e)
  <2>1. c + 1 \in Nat
    OBVIOUS
  <2>2. \A e : n # Event(e)
    BY <1>4, <2>1, EventNotes
  <2> QED
    BY <1>4, <2>2
<1>6. Recorded(n, x, c + 1)
  BY <1>1, <1>5 DEF Recorded
<1> QED
  BY <1>1, <1>3, <1>4, <1>6 DEF CallbacksFit

\* The end callback of a stream whose end is open waits behind the others.
LEMMA OpenEnd ==
  ASSUME NEW x, Typed(x), NEW c \in Nat, NEW y, Line(y) = Line(x),
         Differs(x, y, {"endCompletions", "queue"}),
         y.endCompletions = Append(x.endCompletions, c + 1),
         NEW T, NEW d \in BOOLEAN, Hist(x, T, c, d)
  PROVE  Hist(y, T, c + 1, d)
<1>1. /\ y.chunks = x.chunks /\ y.sink = x.sink /\ y.accepted = x.accepted
      /\ y.finished = x.finished /\ y.closeEmitted = x.closeEmitted /\ y.error = x.error
      /\ y.cancelled = x.cancelled /\ y.failed = x.failed
      /\ y.finishScheduled = x.finishScheduled /\ y.closeQueued = x.closeQueued
  BY DEF Differs, Fields
<1>2. Hist(x, T, c + 1, d) /\ Stocked(x, c)
  <2>1. c + 1 \in Nat /\ c <= c + 1
    OBVIOUS
  <2>2. \A e \in Nat : c <= e => Hist(x, T, e, d)
    BY HistLater
  <2> QED
    BY <2>1, <2>2 DEF Hist
<1>3. PICK k \in Nat : k = Len(x.endCompletions)
  BY LenProperties DEF Typed
<1>4. /\ Len(y.endCompletions) = k + 1 /\ y.endCompletions[k + 1] = c + 1
      /\ \A i \in 1..k : y.endCompletions[i] = x.endCompletions[i]
      /\ \A i \in 1..(k + 1) : i \in 1..k \/ i = k + 1
  BY <1>3, AppendProperties DEF Typed
<1>5. Rising(y.endCompletions, c + 1)
  <2>1. /\ \A i \in 1..k : x.endCompletions[i] \in 1..c
        /\ \A i, j \in 1..k : i < j => x.endCompletions[i] < x.endCompletions[j]
    BY <1>2, <1>3 DEF Stocked, Rising
  <2>2. ASSUME NEW i \in 1..(k + 1) PROVE y.endCompletions[i] \in 1..(c + 1)
    BY <1>4, <2>1
  <2>3. ASSUME NEW i \in 1..(k + 1), NEW j \in 1..(k + 1), i < j
        PROVE  y.endCompletions[i] < y.endCompletions[j]
    <3>1. i \in 1..k
      BY <2>3
    <3>2. CASE j \in 1..k
      BY <1>4, <2>1, <2>3, <3>1, <3>2
    <3>3. CASE j = k + 1
      BY <1>4, <2>1, <3>1, <3>3
    <3> QED
      BY <1>4, <3>2, <3>3
  <2> QED
    BY <1>4, <2>2, <2>3 DEF Rising
<1>6. Stocked(y, c + 1)
  <2>1. Stocked(x, c + 1)
    BY <1>2 DEF Hist
  <2> QED
    BY <1>1, <1>5, <2>1 DEF Stocked
<1>7. ASSUME NEW n \in T \cup ToSet(Line(x)) PROVE n \in Notes /\ Recorded(n, y, c + 1)
  <2>1. n \in Notes /\ Recorded(n, x, c + 1) /\ Recorded(n, x, c)
    BY <1>2 DEF Hist
  <2>2. n[1] = "end" => n[2] < c + 1 /\ \A i \in 1..k : n[2] < x.endCompletions[i]
    <3>1. ASSUME n[1] = "end" PROVE n[2] \in Nat /\ n[2] <= c
      <4>1. n \notin {"event"} \X Events
        BY <3>1
      <4>2. n \in {"write", "end"} \X Nat \X BOOLEAN
        BY <2>1, <4>1 DEF Notes
      <4>3. n[2] <= c
        BY <2>1, <3>1 DEF Recorded
      <4> QED
        BY <4>2, <4>3
    <3> QED
      BY <1>3, <2>1, <3>1 DEF Recorded
  <2>3. n[1] = "end" => \A i \in 1..(k + 1) : n[2] < y.endCompletions[i]
    BY <1>4, <2>2
  <2> QED
    BY <1>1, <1>4, <2>1, <2>3 DEF Recorded
<1>8. Over(y, T) /\ Row(T, Line(y), d)
  <2>1. Over(x, T) /\ Row(T, Line(x), d)
    BY DEF Hist
  <2> QED
    BY <1>1, <2>1 DEF Over
<1> QED
  BY <1>6, <1>7, <1>8 DEF Hist

\* WriteEvents.retain_end
LEMMA RetainTurn ==
  ASSUME NEW x, Sound(x), NEW c \in Nat, NEW y, y = EndRetained(x, c + 1)
  PROVE  RetainedBy(x, y, c)
<1>0. Typed(x) /\ c + 1 \in Nat
  BY DEF Sound, Able
<1>1. PICK a : a = [x EXCEPT !.queue = Reserved(@)]
  OBVIOUS
<1>2. PICK ids : ids = <<c + 1>>
  OBVIOUS
<1>3. \/ /\ x.error \/ x.cancelled \/ x.closeEmitted \/ x.finished
         /\ y = Completed(a, "end", ids, TRUE)
      \/ y = [a EXCEPT !.endCompletions = Append(@, c + 1)]
  BY <1>1, <1>2 DEF EndRetained
<1>4. /\ Typed(a) /\ Line(a) = Line(x) /\ Differs(x, a, {"queue"})
      /\ a.endCompletions = x.endCompletions /\ Dead(a) = Dead(x) /\ a.accepted = x.accepted
      /\ Even(x) => Even(a)
  <2>1. /\ Differs(x, a, {"queue"}) /\ a.queue = Reserved(x.queue)
        /\ a.chunks = x.chunks /\ a.endCompletions = x.endCompletions
        /\ a.reservations = x.reservations /\ DOMAIN a = Fields
        /\ a.error = x.error /\ a.cancelled = x.cancelled /\ a.closeEmitted = x.closeEmitted
        /\ a.accepted = x.accepted /\ a.corked = x.corked /\ a.sink = x.sink
        /\ a.buffered = x.buffered /\ a.needDrain = x.needDrain /\ a.closed = x.closed
        /\ a.descriptor = x.descriptor /\ a.failed = x.failed /\ a.ended = x.ended
    BY <1>0, <1>1 DEF Typed, Differs, Fields
  <2>2. /\ a.queue.batch = x.queue.batch /\ a.queue.pending = x.queue.pending
        /\ a.queue \in Queues
    BY <1>0, <2>1, Counted, CountReserved DEF Typed, Adds
  <2>3. Typed(a) /\ Line(a) = Line(x) /\ Dead(a) = Dead(x)
    BY <1>0, <2>1, <2>2 DEF Typed, Line, Dead
  <2> QED
    BY <2>1, <2>3 DEF Even, Sums, Waits, Shut
<1>5. Turns(x, a)
  <2>1. Differs(x, a, {"reservations", "queue"})
    BY <1>4 DEF Differs
  <2> QED
    BY <1>0, <1>4, <2>1, PlacesTurn
<1>6. CASE /\ x.error \/ x.cancelled \/ x.closeEmitted \/ x.finished
           /\ y = Completed(a, "end", ids, TRUE)
  <2>1. a.endCompletions = <<>>
    <3>1. x.finished \/ x.failed \/ x.cancelled
      BY <1>6 DEF Sound, Able, Life, Settled
    <3> QED
      BY <1>4, <3>1 DEF Sound, Settled
  <2>2. ids \in Seq(Nat)
    BY <1>0, <1>2
  <2>3. PICK yes \in BOOLEAN, kind \in {"write", "end"} : yes = TRUE /\ kind = "end"
    OBVIOUS
  <2>4. y = Completed(a, kind, ids, yes)
    BY <1>6, <2>3
  <2>5. /\ Differs(a, y, {"queue"}) /\ Typed(y)
        /\ Line(y) = Line(a) \o Callbacks(kind, ids, yes)
    BY <1>4, <2>2, <2>4, CompletedLine
  <2>6. /\ SameStock(a, y) /\ Older(a, y) /\ Dead(y) = Dead(a) /\ y.accepted = a.accepted
        /\ Even(a) => Even(y)
    <3>1. /\ y.chunks = a.chunks /\ y.endCompletions = a.endCompletions /\ y.sink = a.sink
          /\ y.accepted = a.accepted /\ y.finished = a.finished
          /\ y.closeEmitted = a.closeEmitted /\ y.error = a.error
          /\ y.cancelled = a.cancelled /\ y.failed = a.failed
          /\ y.finishScheduled = a.finishScheduled /\ y.closeQueued = a.closeQueued
          /\ y.corked = a.corked /\ y.buffered = a.buffered /\ y.needDrain = a.needDrain
          /\ y.closed = a.closed /\ y.descriptor = a.descriptor /\ y.ended = a.ended
      BY <2>5 DEF Differs, Fields
    <3> QED
      BY <3>1 DEF SameStock, Older, Dead, Even, Sums, Waits, Shut
  <2>7. Completes(a, y, kind, ids, yes)
    BY <2>2, <2>3, <2>5, <2>6 DEF Completes
  <2>8. ToSet(Line(a)) \subseteq ToSet(Line(y))
    <3>1. Typed(a)
      BY <1>4
    <3>2. Line(y) = Line(a) \o Callbacks(kind, ids, yes)
      BY <2>5
    <3>3. ASSUME NEW k \in {"write", "end"}, NEW b \in BOOLEAN, NEW v,
                 Line(v) = Line(a) \o Callbacks(k, ids, b)
          PROVE  ToSet(Line(a)) \subseteq ToSet(Line(v))
      BY <2>2, <3>1, <3>3, LineGrows
    <3> QED
      BY <3>2, <3>3
  <2>9. Passes(x, y)
    <3>1. {"queue"} \cap Waiting = {}
      BY DEF Waiting
    <3>2. Passes(a, y)
      BY <2>5, <2>8, <3>1, PassesOn
    <3> QED
      BY <1>5, <3>2, PassesTwice DEF Turns
  <2>10. \A n \in ToSet(Line(y)) : n \in ToSet(Line(a)) \/ n[1] = "end"
    <3>1. PICK cs : cs = Callbacks(kind, ids, yes)
      OBVIOUS
    <3>2. ids \in [1..1 -> Nat] /\ DOMAIN ids = 1..1
      BY <1>0, <1>2
    <3>3. \A i \in 1..1 : <<kind, ids[i], yes>> \in Notes /\ <<kind, ids[i], yes>>[1] = kind
      BY <3>2, EventNotes
    <3>4. cs \in [1..1 -> Notes] /\ \A i \in 1..1 : cs[i][1] = "end"
      BY <2>3, <3>1, <3>2, <3>3 DEF Callbacks
    <3>5. PICK l \in Nat : l = 1
      OBVIOUS
    <3>6. cs \in [1..l -> Notes]
      BY <3>4, <3>5
    <3>7. cs \in Seq(Notes) /\ Len(cs) = l
      BY <3>6
    <3>8. \A n \in ToSet(cs) : \E i \in 1..Len(cs) : cs[i] = n
      BY <3>7, Members
    <3>9. \A n \in ToSet(cs) : n[1] = "end"
      BY <3>4, <3>5, <3>7, <3>8
    <3>10. Line(a) \in Seq(Notes) /\ Line(y) = Line(a) \o cs
      BY <1>4, <2>5, <3>1, LineTyped
    <3>11. ToSet(Line(y)) = ToSet(Line(a)) \cup ToSet(cs)
      BY <3>7, <3>10, MembersJoin
    <3> QED
      BY <3>9, <3>11
  <2>11. ASSUME NEW T, Hist(x, T, c, Dead(x))
         PROVE  Hist(y, T, c + 1, Dead(y)) /\ NewWrite(y, T, c + 1)
    <3>1. PICK d \in BOOLEAN : d = Dead(a)
      BY DeadBoolean
    <3>2. Hist(a, T, c, d)
      BY <1>5, <2>11, <3>1 DEF Turns
    <3>3. Hist(a, T, c + 1, d)
      <4>1. c <= c + 1 /\ (d => d)
        OBVIOUS
      <4>2. \A e \in Nat : c <= e => Hist(a, T, e, d)
        BY <1>4, <3>2, HistLater
      <4> QED
        BY <1>0, <4>1, <4>2
    <3>4. CallbacksFit(a, "end", ids, TRUE, T, c + 1, d)
      BY <1>2, <1>4, <2>1, <3>2, LateEnd
    <3>5. CallbacksFit(a, kind, ids, yes, T, c + 1, d)
      BY <2>3, <3>4
    <3>6. Hist(y, T, c + 1, d)
      BY <1>4, <2>7, <3>3, <3>5, CallbacksHist
    <3>7. NewWrite(a, T, c + 1)
      BY <1>4, <3>2, NextWrite
    <3>8. NewWrite(y, T, c + 1)
      BY <2>6, <2>10, <3>7 DEF NewWrite
    <3> QED
      BY <2>6, <3>1, <3>6, <3>8
  <2> QED
    BY <1>4, <2>5, <2>6, <2>9, <2>11 DEF RetainedBy
<1>7. CASE y = [a EXCEPT !.endCompletions = Append(@, c + 1)]
  <2>1. /\ Differs(a, y, {"endCompletions"})
        /\ y.endCompletions = Append(x.endCompletions, c + 1)
    BY <1>4, <1>7 DEF Typed, Differs, Fields
  <2>2. /\ y.queue = a.queue /\ y.chunks = a.chunks /\ y.reservations = a.reservations
        /\ DOMAIN y = Fields /\ y.accepted = a.accepted
        /\ y.error = a.error /\ y.cancelled = a.cancelled /\ y.closeEmitted = a.closeEmitted
        /\ y.corked = a.corked /\ y.sink = a.sink
        /\ y.buffered = a.buffered /\ y.needDrain = a.needDrain /\ y.closed = a.closed
        /\ y.descriptor = a.descriptor /\ y.failed = a.failed /\ y.ended = a.ended
    BY <2>1 DEF Differs, Fields
  <2>3. Typed(y) /\ Line(y) = Line(x) /\ Dead(y) = Dead(x) /\ (Even(a) => Even(y))
    <3>1. y.endCompletions \in Seq(Nat)
      <4>1. x.endCompletions \in Seq(Nat)
        BY <1>0 DEF Typed
      <4>2. PICK v \in Nat : v = c + 1
        BY <1>0
      <4> QED
        BY <2>1, <4>1, <4>2, AppendProperties
    <3>2. Typed(y)
      BY <1>4, <2>2, <3>1 DEF Typed
    <3>3. Line(y) = Line(x) /\ Dead(y) = Dead(x)
      BY <1>4, <2>2 DEF Line, Dead
    <3> QED
      BY <2>2, <3>2, <3>3 DEF Even, Sums, Waits, Shut
  <2>4. Differs(x, y, {"endCompletions", "queue"})
    BY <1>4, <2>1 DEF Differs
  <2>5. Passes(x, y)
    <3>1. {"endCompletions", "queue"} \cap Waiting = {}
      BY DEF Waiting
    <3> QED
      BY <2>3, <2>4, <3>1, PassesOn
  <2>6. ASSUME NEW T, Hist(x, T, c, Dead(x))
        PROVE  Hist(y, T, c + 1, Dead(y)) /\ NewWrite(y, T, c + 1)
    <3>1. PICK d \in BOOLEAN : d = Dead(x)
      BY DeadBoolean
    <3>2. Hist(x, T, c, d)
      BY <2>6, <3>1
    <3>3. Hist(y, T, c + 1, d)
      BY <1>0, <2>1, <2>3, <2>4, <3>2, OpenEnd
    <3>4. NewWrite(x, T, c + 1)
      BY <1>0, <3>2, NextWrite
    <3>5. NewWrite(y, T, c + 1)
      BY <1>4, <2>2, <2>3, <3>4 DEF NewWrite
    <3> QED
      BY <2>3, <3>1, <3>3, <3>5
  <2> QED
    BY <1>4, <2>3, <2>5, <2>6 DEF RetainedBy
<1> QED
  BY <1>3, <1>6, <1>7

\* y is what a part of an operation makes of x, with the whole invariant.
Flows(x, y) == Turns(x, y) /\ (Even(x) => Even(y))

\* Parts of an operation one after another.
LEMMA FlowsTwice ==
  ASSUME NEW x, NEW y, NEW z, Flows(x, y), Flows(y, z)
  PROVE  Flows(x, z)
BY TurnsTwice DEF Flows

\* A step that leaves the frame alone.
LEMMA StepFlows ==
  ASSUME NEW x, Typed(x), NEW y, Step(x, y), NEW S, Differs(x, y, S), S \cap Frame = {}
  PROVE  Flows(x, y)
<1>1. Turns(x, y) /\ (Waits(x) => Waits(y))
  BY StepTurns
<1> QED
  BY <1>1 DEF Flows, Turns, Even

\* Nothing.
LEMMA NoFlow ==
  ASSUME NEW x, Typed(x)
  PROVE  Flows(x, x)
<1>1. PICK S : S = {}
  OBVIOUS
<1>2. Step(x, x) /\ Differs(x, x, S) /\ S \cap Frame = {}
  BY <1>1, NoStep
<1> QED
  BY <1>2, StepFlows

\* WriteEvents.fail, finish and close.
LEMMA EventFlows ==
  ASSUME NEW x, Typed(x), NEW y,
         y = EventsFailed(x) \/ y = EventsFinished(x) \/ y = EventsClosed(x)
  PROVE  Flows(x, y)
<1>1. PICK S : S = {"error", "finishScheduled", "closeScheduled", "closeQueued"} \cup Internal
  OBVIOUS
<1>2. S \cap Frame = {}
  BY <1>1 DEF Frame, Internal
<1>3. CASE y = EventsFailed(x)
  <2>1. Step(x, y) /\ Differs(x, y, {"error"} \cup Internal)
    BY <1>3, FailStep
  <2>2. Differs(x, y, S)
    BY <1>1, <2>1 DEF Differs
  <2> QED
    BY <1>2, <2>1, <2>2, StepFlows
<1>4. CASE y = EventsFinished(x)
  <2>1. Step(x, y) /\ Differs(x, y, {"finishScheduled"} \cup Internal)
    BY <1>4, FinishStep
  <2>2. Differs(x, y, S)
    BY <1>1, <2>1 DEF Differs
  <2> QED
    BY <1>2, <2>1, <2>2, StepFlows
<1>5. CASE y = EventsClosed(x)
  <2>1. Step(x, y) /\ Differs(x, y, {"closeScheduled", "closeQueued"} \cup Internal)
    BY <1>5, CloseStep
  <2>2. Differs(x, y, S)
    BY <1>1, <2>1 DEF Differs
  <2> QED
    BY <1>2, <2>1, <2>2, StepFlows
<1> QED
  BY <1>3, <1>4, <1>5

\* _close_descriptor of a stream that has ended, one way or the other.
LEMMA DescriptorFlows ==
  ASSUME NEW x, Typed(x), x.ended \/ x.failed \/ x.cancelled, NEW y, y = DescriptorClosed(x)
  PROVE  Flows(x, y)
<1>1. /\ Differs(x, y, {"closed", "descriptor"})
      /\ x.descriptor = "none" => y.descriptor = "none"
  BY DEF DescriptorClosed, Typed, Differs, Fields
<1>2. /\ y.corked = x.corked /\ y.buffered = x.buffered /\ y.chunks = x.chunks
      /\ y.ended = x.ended /\ y.failed = x.failed /\ y.cancelled = x.cancelled
      /\ y.error = x.error /\ y.closeEmitted = x.closeEmitted
      /\ y.needDrain = x.needDrain /\ y.sink = x.sink
  BY <1>1 DEF Differs, Fields
<1>3. Step(x, y)
  <2>1. Differs(x, y, Others)
    BY <1>1 DEF Differs, Others
  <2> QED
    BY <2>1, OtherStep
<1>4. \A T : \A c \in Nat : Hist(x, T, c, Dead(x)) => Hist(y, T, c, Dead(y))
  <2>1. PICK d \in BOOLEAN : d = Dead(x) /\ d = Dead(y)
    <3>1. Dead(y) = Dead(x)
      BY <1>2 DEF Dead
    <3> QED
      BY <3>1, DeadBoolean
  <2> QED
    BY <1>3, <2>1 DEF Step
<1>5. (Sums(x) => Sums(y)) /\ Shut(y) /\ (Waits(x) => Waits(y))
  BY <1>1, <1>2 DEF Sums, Shut, Waits
<1> QED
  BY <1>3, <1>4, <1>5 DEF Flows, Turns, Step, Even

\* A method that fails before it writes.
LEMMA FailedFlows ==
  ASSUME NEW x, Typed(x), Loaded(x), Sums(x), NEW y, y = Failed(x, 0)
  PROVE  Flows(x, y)
<1>1. TookTo(x, x, 0) /\ 0 \in 0..Len(x.chunks)
  BY TookNone DEF Sums
<1>2. FailedBy(x, y)
  BY <1>1, FailedTurn
<1>3. Turns(x, y) /\ Waits(y)
  BY <1>2, FailedTurns
<1> QED
  BY <1>3 DEF Flows, Turns, Even

\* _finish after its flush.
LEMMA FinishedFromFlows ==
  ASSUME NEW x, Typed(x), Loaded(x), Sums(x), x.ended, NEW y \in FinishedFrom(x)
  PROVE  Flows(x, y)
<1>1. PICK done : done = IF x.autoClose THEN DescriptorClosed(x) ELSE x
  OBVIOUS
<1>2. PICK f : f = EventsFinished(done)
  OBVIOUS
<1>3. \/ y = x \/ y = Failed(x, 0)
      \/ y = EventsClosed(f) \/ y = f \/ (x.autoClose /\ y = Failed(done, 0))
  BY <1>1, <1>2 DEF FinishedFrom
<1>4. Flows(x, done) /\ Typed(done) /\ Loaded(done) /\ Sums(done)
  <2>1. CASE x.autoClose
    <3>1. done = DescriptorClosed(x)
      BY <1>1, <2>1
    <3>2. Flows(x, done)
      BY <3>1, DescriptorFlows
    <3>3. /\ done.finishScheduled = x.finishScheduled /\ done.failed = x.failed
          /\ done.cancelled = x.cancelled /\ done.chunks = x.chunks
      BY <3>1 DEF DescriptorClosed, Typed, Fields
    <3>4. Typed(done) /\ Sums(done)
      BY <3>2 DEF Flows, Turns
    <3> QED
      BY <3>2, <3>3, <3>4 DEF Loaded
  <2>2. CASE ~x.autoClose
    <3>1. done = x
      BY <1>1, <2>2
    <3> QED
      BY <3>1, NoFlow
  <2> QED
    BY <2>1, <2>2
<1>5. Flows(done, f) /\ Typed(f)
  BY <1>2, <1>4, EventFlows DEF Flows, Turns
<1>6. CASE y = x
  BY <1>6, NoFlow
<1>7. CASE y = Failed(x, 0)
  BY <1>7, FailedFlows
<1>8. CASE y = EventsClosed(f)
  <2>1. Flows(f, y)
    BY <1>5, <1>8, EventFlows
  <2> QED
    BY <1>4, <1>5, <2>1, FlowsTwice
<1>9. CASE y = f
  BY <1>4, <1>5, <1>9, FlowsTwice
<1>10. CASE y = Failed(done, 0)
  <2>1. Flows(done, y)
    BY <1>4, <1>10, FailedFlows
  <2> QED
    BY <1>4, <2>1, FlowsTwice
<1> QED
  BY <1>3, <1>6, <1>7, <1>8, <1>9, <1>10

\* _finish
LEMMA FinishesFlows ==
  ASSUME NEW x, Sound(x), Even(x), NEW y \in Finishes(x)
  PROVE  Flows(x, y)
<1>0. Typed(x) /\ Able(x) /\ Settled(x)
  BY DEF Sound, Able
<1>1. CASE x.failed \/ Destroyed(x) \/ x.ended
  <2>1. y = x
    BY <1>1 DEF Finishes
  <2> QED
    BY <1>0, <2>1, NoFlow
<1>2. CASE ~(x.failed \/ Destroyed(x) \/ x.ended)
  <2>1. PICK w : w = [x EXCEPT !.ended = TRUE, !.corked = 0]
    OBVIOUS
  <2>2. PICK z \in Flushed(w) : y \in FinishedFrom(z)
    BY <1>2, <2>1 DEF Finishes
  <2>3. PICK S : S = {"ended", "corked"}
    OBVIOUS
  <2>4. /\ Differs(x, w, S) /\ w.chunks = x.chunks
        /\ w.endCompletions = x.endCompletions
        /\ w.ended = TRUE /\ w.cancelled = x.cancelled /\ w.closeEmitted = x.closeEmitted
        /\ w.finishScheduled = x.finishScheduled /\ w.finished = x.finished
        /\ w.closed = x.closed /\ w.failed = x.failed
        /\ w.error = x.error /\ w.closeQueued = x.closeQueued
        /\ w.corked = 0 /\ w.buffered = x.buffered /\ w.sink = x.sink
    BY <1>0, <2>1, <2>3 DEF Typed, Differs, Fields
  <2>5. Able(w) /\ Settled(w) /\ Typed(w) /\ Loaded(w)
    <3>1. S \cap (Deciding \cup {"reservations", "queue"}) = {}
      BY <2>3 DEF Deciding
    <3>2. /\ w.chunks \in Seq(Chunk) /\ w.endCompletions \in Seq(Nat)
          /\ (x.closed => w.closed) /\ (x.ended => w.ended) /\ Differs(x, w, S)
      BY <1>0, <2>4 DEF Typed
    <3>3. Able(w)
      BY <1>0, <3>1, <3>2, OthersSet
    <3>4. Settled(w)
      BY <1>0, <2>4 DEF Settled
    <3> QED
      BY <3>3, <3>4 DEF Able, Settled, Loaded
  <2>6. Turns(x, w) /\ Sums(w)
    <3>1. Step(x, w)
      <4>1. Differs(x, w, Others)
        BY <2>3, <2>4 DEF Differs, Others
      <4> QED
        BY <1>0, <4>1, OtherStep
    <3>2. \A T : \A c \in Nat : Hist(x, T, c, Dead(x)) => Hist(w, T, c, Dead(w))
      <4>1. PICK d \in BOOLEAN : d = Dead(x) /\ d = Dead(w)
        <5>1. Dead(w) = Dead(x)
          BY <2>4 DEF Dead
        <5> QED
          BY <5>1, DeadBoolean
      <4> QED
        BY <3>1, <4>1 DEF Step
    <3>3. Sums(w) /\ Shut(w)
      BY <2>4 DEF Even, Sums, Shut
    <3> QED
      BY <3>1, <3>2, <3>3 DEF Turns, Step
  <2>7. FlushedBy(w, z)
    BY <2>2, <2>5, FlushTurn
  <2>8. FlushedTo(w, z)
    <3>1. ~w.closeEmitted
      BY <1>2, <2>4 DEF Destroyed
    <3> QED
      BY <2>2, <2>5, <3>1, FlushedKeeps
  <2>9. Typed(z) /\ Loaded(z) /\ z.ended
    BY <2>4, <2>8 DEF FlushedTo, Able, Settled, Loaded
  <2>10. Turns(x, z) /\ Even(z)
    <3>1. Turns(x, z)
      BY <2>6, <2>7, TurnsTwice DEF FlushedBy
    <3> QED
      BY <2>6, <2>7, <3>1 DEF FlushedBy, Turns, Even
  <2>11. Flows(z, y)
    BY <2>2, <2>9, <2>10, FinishedFromFlows DEF Even
  <2>12. Turns(x, y) /\ Even(y)
    BY <2>10, <2>11, TurnsTwice DEF Flows
  <2> QED
    BY <2>12 DEF Flows
<1> QED
  BY <1>1, <1>2
-----------------------------------------------------------------------------
(***************************************************************************)
(* The operations.                                                         *)
(***************************************************************************)

\* An operation keeps the invariant, and passes on what is queued and due.
Onward == HInv' /\ Passes(stream, stream')

\* The invariant after an operation that is no call.
LEMMA FlowOnward ==
  ASSUME IInv, HInv, Flows(stream, stream'), told' = told, calls' = calls
  PROVE  Onward
<1>1. Turns(stream, stream') /\ Even(stream')
  BY DEF Flows, HInv
<1>2. Hist(stream, told, calls, Dead(stream)) /\ Due(stream) /\ calls \in Nat
  BY DEF HInv, IInv
<1>3. Hist(stream', told, calls, Dead(stream'))
  BY <1>1, <1>2 DEF Turns
<1>4. Passes(stream, stream') /\ Due(stream')
  BY <1>1, <1>2 DEF Turns, Passes
<1> QED
  BY <1>1, <1>3, <1>4 DEF Onward, HInv

\* The invariant after a call.
LEMMA CallOnward ==
  ASSUME IInv, HInv, told' = told, calls' = calls + 1, Passes(stream, stream'), Even(stream'),
         Hist(stream', told, calls + 1, Dead(stream'))
  PROVE  Onward
<1>1. Due(stream')
  BY DEF HInv, Passes
<1> QED
  BY <1>1 DEF Onward, HInv

\* WriteEvents.prepare
LEMMA PreparedFlows ==
  ASSUME NEW x, Kept(x), NEW y, y = Prepared(x)
  PROVE  Flows(x, y) /\ Sound(y) /\ Typed(y)
<1>1. MadeOf(x, y)
  BY PreparedKeeps
<1>2. Sound(y) /\ Typed(y) /\ Typed(x)
  BY <1>1 DEF MadeOf, Sound, Able, Kept
<1>3. Differs(x, y, {"reservations", "queue"}) /\ Line(y) = Line(x)
  BY <1>2, PreparedLine
<1>4. Turns(x, y) /\ (Even(x) => Even(y))
  BY <1>2, <1>3, PlacesTurn
<1> QED
  BY <1>2, <1>4 DEF Flows

\* A place of the queue is taken or given back.
LEMMA PlaceFlows ==
  ASSUME NEW x, Kept(x), NEW y, NEW r, r = Reserved(x.queue) \/ r = Released(x.queue),
         y = [x EXCEPT !.queue = r]
  PROVE  Flows(x, y) /\ Kept(y) /\ (Ready(x) => Ready(y))
<1>1. Kept(y) /\ (Ready(x) => Ready(y))
  BY PlaceKept
<1>2. Typed(x) /\ Typed(y)
  BY <1>1 DEF Kept
<1>3. Differs(x, y, {"reservations", "queue"}) /\ y.queue = r
  BY <1>2 DEF Typed, Differs, Fields
<1>4. r.batch = x.queue.batch /\ r.pending = x.queue.pending
  BY <1>2, Counted DEF Typed
<1>5. Line(y) = Line(x)
  BY <1>3, <1>4 DEF Line
<1>6. Turns(x, y) /\ (Even(x) => Even(y))
  BY <1>2, <1>3, <1>5, PlacesTurn
<1> QED
  BY <1>1, <1>6 DEF Flows

\* A call that raises for want of room leaves what prepare made.
LEMMA RaisedOnward ==
  ASSUME IInv, HInv, told' = told, calls' = calls + 1, Typed(stream'), Flows(stream, stream')
  PROVE  Onward
<1>1. Turns(stream, stream') /\ Even(stream')
  BY DEF Flows, HInv
<1>2. calls \in Nat /\ Hist(stream, told, calls, Dead(stream))
  BY DEF HInv, IInv
<1>3. Hist(stream', told, calls, Dead(stream')) /\ Passes(stream, stream')
  BY <1>1, <1>2 DEF Turns
<1>4. PICK d \in BOOLEAN : d = Dead(stream')
  BY DeadBoolean
<1>5. PICK e \in Nat : e = calls + 1 /\ calls <= e
  BY <1>2
<1>6. Hist(stream', told, e, d)
  <2>1. Hist(stream', told, calls, d) /\ (d => d)
    BY <1>3, <1>4
  <2> QED
    BY <1>2, <1>5, <2>1, HistLater
<1>7. Hist(stream', told, calls + 1, Dead(stream'))
  BY <1>4, <1>5, <1>6
<1> QED
  BY <1>1, <1>3, <1>7, CallOnward

\* write
LEMMA WriteOnward ==
  ASSUME IInv, HInv, NEW size \in Sizes, NEW callback \in BOOLEAN, Write(size, callback)
  PROVE  Onward
<1>1. PICK x : x = Prepared(stream)
  OBVIOUS
<1>2. PICK id : id = calls + 1
  OBVIOUS
<1>3. PICK chunk : chunk = [id |-> id, size |-> size, callback |-> callback]
  OBVIOUS
<1>4. PICK w : w = IF callback THEN [x EXCEPT !.queue = Reserved(@)] ELSE x
  OBVIOUS
<1>5. /\ stream' = x \/ stream' \in Wrote(w, chunk)
      /\ calls' = calls + 1 /\ told' = told
  BY <1>1, <1>2, <1>3, <1>4 DEF Write
<1>6. calls \in Nat /\ id \in 1..id /\ id \in Nat
  BY <1>2 DEF IInv
<1>7. chunk \in Chunk /\ chunk.id = id
  BY <1>3, <1>6, BoundsAssumption DEF Chunk
<1>8. Flows(stream, x) /\ Sound(x) /\ Typed(x) /\ Kept(x)
  BY <1>1, PreparedFlows, SoundKept DEF IInv
<1>9. Flows(stream, w) /\ Sound(w)
  <2>1. CASE callback
    <3>1. w = [x EXCEPT !.queue = Reserved(x.queue)]
      BY <1>4, <2>1
    <3>2. Flows(x, w) /\ Kept(w) /\ (Ready(x) => Ready(w))
      BY <1>8, <3>1, PlaceFlows
    <3>3. Sound(w)
      BY <1>8, <3>2 DEF Sound, Kept, Able
    <3> QED
      BY <1>8, <3>2, <3>3, FlowsTwice
  <2>2. CASE ~callback
    BY <1>4, <1>8, <2>2
  <2> QED
    BY <2>1, <2>2
<1>10. CASE stream' = x
  BY <1>5, <1>8, <1>10, RaisedOnward
<1>11. CASE stream' \in Wrote(w, chunk)
  <2>1. Turns(stream, w) /\ Even(w) /\ Typed(w)
    BY <1>9 DEF Flows, Turns, HInv
  <2>2. WroteBy(w, stream', id)
    BY <1>7, <1>9, <1>11, <2>1, WroteTurn
  <2>3. Hist(w, told, calls, Dead(w))
    BY <1>6, <2>1 DEF HInv, Turns
  <2>4. PICK d \in BOOLEAN : d = Dead(w)
    BY DeadBoolean
  <2>5. Hist(w, told, calls, d)
    BY <2>3, <2>4
  <2>6. NewWrite(w, told, id)
    BY <1>2, <1>6, <2>1, <2>5, NextWrite
  <2>7. Hist(w, told, id, d)
    <3>1. calls <= id /\ (d => d)
      BY <1>2, <1>6
    <3> QED
      BY <1>6, <2>1, <2>5, <3>1, HistLater
  <2>8. Hist(stream', told, id, Dead(stream')) /\ Even(stream') /\ Passes(w, stream')
    BY <1>6, <2>2, <2>4, <2>6, <2>7 DEF WroteBy
  <2>9. Passes(stream, stream')
    BY <2>1, <2>8, PassesTwice DEF Turns
  <2> QED
    BY <1>2, <1>5, <2>8, <2>9, CallOnward
<1> QED
  BY <1>5, <1>10, <1>11

\* What _end has before it finishes: the end retained, the last chunk written.
EndedTo(z, id) ==
  /\ Sound(z) /\ Typed(z) /\ Even(z) /\ Passes(stream, z)
  /\ Hist(z, told, id, Dead(z))

\* end
LEMMA EndOnward ==
  ASSUME IInv, HInv, NEW chunk \in {<<>>} \cup {<<n>> : n \in Sizes}, NEW callback \in BOOLEAN,
         End(chunk, callback)
  PROVE  Onward
<1>1. PICK x : x = Prepared(stream)
  OBVIOUS
<1>2. PICK id : id = calls + 1
  OBVIOUS
<1>3. PICK k : k = [id |-> id, size |-> chunk[1], callback |-> FALSE]
  OBVIOUS
<1>4. PICK w : w = IF callback THEN EndRetained(x, id) ELSE x
  OBVIOUS
<1>5. /\ \/ stream' = x
         \/ \E z \in IF chunk = <<>> THEN {w} ELSE Wrote(w, k) : stream' \in Finishes(z)
      /\ calls' = calls + 1 /\ told' = told
  BY <1>1, <1>2, <1>3, <1>4 DEF End
<1>6. calls \in Nat /\ id \in 1..id /\ id \in Nat
  BY <1>2 DEF IInv
<1>7. chunk # <<>> => k \in Chunk /\ k.id = id
  BY <1>3, <1>6, BoundsAssumption DEF Chunk
<1>8. Flows(stream, x) /\ Sound(x) /\ Typed(x)
  BY <1>1, PreparedFlows DEF IInv
<1>9. Turns(stream, x) /\ Even(x) /\ Passes(stream, x) /\ Hist(x, told, calls, Dead(x))
  BY <1>6, <1>8 DEF Flows, Turns, HInv
<1>10. EndedTo(w, id) /\ NewWrite(w, told, id)
  <2>1. CASE callback
    <3>1. w = EndRetained(x, id)
      BY <1>4, <2>1
    <3>2. RetainedBy(x, w, calls)
      BY <1>2, <1>6, <1>8, <3>1, RetainTurn
    <3>3. Sound(w)
      BY <1>6, <1>8, <3>1, EndRetainedMade DEF MadeOf
    <3>4. Typed(w) /\ Even(w) /\ Passes(x, w)
      BY <1>9, <3>2 DEF RetainedBy
    <3>5. Hist(w, told, id, Dead(w)) /\ NewWrite(w, told, id)
      BY <1>2, <1>9, <3>2 DEF RetainedBy
    <3>6. Passes(stream, w)
      BY <1>9, <3>4, PassesTwice
    <3> QED
      BY <3>3, <3>4, <3>5, <3>6 DEF EndedTo
  <2>2. CASE ~callback
    <3>1. w = x
      BY <1>4, <2>2
    <3>2. PICK d \in BOOLEAN : d = Dead(x)
      BY DeadBoolean
    <3>3. Hist(x, told, calls, d)
      BY <1>9, <3>2
    <3>4. Hist(x, told, id, d)
      <4>1. calls <= id /\ (d => d)
        BY <1>2, <1>6
      <4> QED
        BY <1>6, <1>8, <3>3, <4>1, HistLater
    <3>5. NewWrite(x, told, id)
      BY <1>2, <1>6, <1>8, <3>3, NextWrite
    <3> QED
      BY <1>8, <1>9, <3>1, <3>2, <3>4, <3>5 DEF EndedTo
  <2> QED
    BY <2>1, <2>2
<1>11. CASE stream' = x
  BY <1>5, <1>8, <1>11, RaisedOnward
<1>12. ASSUME NEW z \in IF chunk = <<>> THEN {w} ELSE Wrote(w, k), stream' \in Finishes(z)
       PROVE  Onward
  <2>1. EndedTo(z, id)
    <3>1. CASE chunk = <<>>
      BY <1>10, <3>1
    <3>2. CASE chunk # <<>>
      <4>1. z \in Wrote(w, k) /\ k \in Chunk /\ k.id = id
        BY <1>7, <3>2
      <4>2. /\ Sound(w) /\ Even(w) /\ Passes(stream, w)
            /\ Hist(w, told, id, Dead(w)) /\ NewWrite(w, told, id)
        BY <1>10 DEF EndedTo
      <4>3. WroteBy(w, z, id)
        BY <4>1, <4>2, WroteTurn
      <4>4. Sound(z)
        <5>1. WrittenTo(w, z, IF k.callback THEN 1 ELSE 0)
          BY <4>1, <4>2, RefusedKeeps, AcceptedKeeps
        <5> QED
          BY <5>1 DEF WrittenTo
      <4>5. Hist(z, told, id, Dead(z)) /\ Even(z) /\ Passes(w, z) /\ Typed(z)
        BY <1>6, <4>2, <4>3 DEF WroteBy
      <4>6. Passes(stream, z)
        BY <4>2, <4>5, PassesTwice
      <4> QED
        BY <4>4, <4>5, <4>6 DEF EndedTo
    <3> QED
      BY <3>1, <3>2
  <2>2. Flows(z, stream')
    BY <1>12, <2>1, FinishesFlows DEF EndedTo
  <2>3. Turns(z, stream') /\ Even(stream')
    BY <2>1, <2>2 DEF EndedTo, Flows
  <2>4. Hist(stream', told, id, Dead(stream')) /\ Passes(z, stream')
    BY <1>6, <2>1, <2>3 DEF EndedTo, Turns
  <2>5. Passes(stream, stream')
    BY <2>1, <2>4, PassesTwice DEF EndedTo
  <2> QED
    BY <1>2, <1>5, <2>3, <2>4, <2>5, CallOnward
<1> QED
  BY <1>5, <1>11, <1>12

\* close
LEMMA CloseOnward ==
  ASSUME IInv, HInv, Close
  PROVE  Onward
<1>1. PICK x : x = Prepared(stream)
  OBVIOUS
<1>2. PICK y \in Finishes(x) :
         \/ y.closed /\ stream' = EventsClosed(y)
         \/ ~y.closed /\ stream' = EventsClosed(DescriptorClosed(y))
         \/ ~y.closed /\ y.descriptor = "open" /\ stream' = DescriptorClosed(y)
  BY <1>1 DEF Close
<1>3. calls' = calls /\ told' = told
  BY DEF Close
<1>4. Flows(stream, x) /\ Sound(x)
  BY <1>1, PreparedFlows DEF IInv
<1>5. Even(x)
  BY <1>4 DEF Flows, HInv
<1>6. Flows(x, y)
  BY <1>2, <1>4, <1>5, FinishesFlows
<1>7. Flows(stream, y) /\ Typed(y)
  BY <1>4, <1>6, FlowsTwice DEF Flows, Turns
<1>8. CASE y.closed /\ stream' = EventsClosed(y)
  <2>1. Flows(y, stream')
    BY <1>7, <1>8, EventFlows
  <2>2. Flows(stream, stream')
    BY <1>7, <2>1, FlowsTwice
  <2> QED
    BY <1>3, <2>2, FlowOnward
<1>9. CASE ~y.closed /\ (stream' = EventsClosed(DescriptorClosed(y))
                          \/ stream' = DescriptorClosed(y))
  <2>1. PICK d : d = DescriptorClosed(y)
    OBVIOUS
  <2>2. y.ended \/ y.failed \/ y.cancelled
    <3>1. Sound(y) /\ (y.failed \/ y.cancelled \/ y.closeEmitted \/ y.ended)
      BY <1>2, <1>4, FinishesKeeps DEF MadeOf
    <3> QED
      BY <1>9, <3>1 DEF Sound, Able, Life
  <2>3. Flows(y, d)
    BY <1>7, <2>1, <2>2, DescriptorFlows
  <2>4. Flows(stream, d) /\ Typed(d)
    BY <1>7, <2>3, FlowsTwice DEF Flows, Turns
  <2>5. CASE stream' = d
    BY <1>3, <2>4, <2>5, FlowOnward
  <2>6. CASE stream' = EventsClosed(d)
    <3>1. Flows(d, stream')
      BY <2>4, <2>6, EventFlows
    <3>2. Flows(stream, stream')
      BY <2>4, <3>1, FlowsTwice
    <3> QED
      BY <1>3, <3>2, FlowOnward
  <2> QED
    BY <1>9, <2>1, <2>5, <2>6
<1> QED
  BY <1>2, <1>8, <1>9

\* A change of the corks alone.
LEMMA CorkedTurn ==
  ASSUME NEW x, Typed(x), NEW k \in Nat, NEW y, y = [x EXCEPT !.corked = k]
  PROVE  /\ Turns(x, y) /\ y.corked = k /\ y.needDrain = x.needDrain
         /\ y.descriptor = x.descriptor /\ y.failed = x.failed
<1>1. Differs(x, y, {"corked"}) /\ y.corked = k
  BY DEF Typed, Differs, Fields
<1>2. /\ y.needDrain = x.needDrain /\ y.descriptor = x.descriptor /\ y.failed = x.failed
      /\ y.error = x.error /\ y.cancelled = x.cancelled /\ y.closeEmitted = x.closeEmitted
      /\ y.sink = x.sink /\ y.buffered = x.buffered /\ y.chunks = x.chunks
      /\ y.closed = x.closed /\ y.ended = x.ended
  BY <1>1 DEF Differs, Fields
<1>3. Step(x, y)
  <2>1. Differs(x, y, Others)
    BY <1>1 DEF Differs, Others
  <2> QED
    BY <2>1, OtherStep
<1>4. \A T : \A c \in Nat : Hist(x, T, c, Dead(x)) => Hist(y, T, c, Dead(y))
  <2>1. PICK d \in BOOLEAN : d = Dead(x) /\ d = Dead(y)
    <3>1. Dead(y) = Dead(x)
      BY <1>2 DEF Dead
    <3> QED
      BY <3>1, DeadBoolean
  <2> QED
    BY <1>3, <2>1 DEF Step
<1>5. (Sums(x) => Sums(y)) /\ (Shut(x) => Shut(y))
  BY <1>1, <1>2 DEF Sums, Shut
<1> QED
  BY <1>1, <1>2, <1>3, <1>4, <1>5 DEF Turns, Step

\* cork
LEMMA CorkOnward ==
  ASSUME IInv, HInv, Cork
  PROVE  Onward
<1>1. Typed(stream) /\ stream.corked \in Nat /\ calls' = calls /\ told' = told
  BY DEF IInv, Kept, HInv, Even, Sums, Cork
<1>2. PICK k \in Nat : k = stream.corked + 1 /\ k > 0
  BY <1>1
<1>3. stream' = [stream EXCEPT !.corked = k]
  BY <1>2 DEF Cork
<1>4. Turns(stream, stream') /\ stream'.corked = k
  BY <1>1, <1>3, CorkedTurn
<1>5. Flows(stream, stream')
  BY <1>2, <1>4 DEF Flows, Turns, Even, Waits
<1> QED
  BY <1>1, <1>5, FlowOnward

\* uncork
LEMMA UncorkOnward ==
  ASSUME IInv, HInv, Uncork
  PROVE  Onward
<1>1. PICK x : x = Prepared(stream)
  OBVIOUS
<1>2. calls' = calls /\ told' = told
  BY DEF Uncork
<1>3. Flows(stream, x) /\ Sound(x) /\ Typed(x)
  BY <1>1, PreparedFlows DEF IInv
<1>4. Even(x)
  BY <1>3 DEF Flows, HInv
<1>5. x.corked \in Nat
  BY <1>4 DEF Even, Sums
<1>6. PICK k \in Nat : k = IF x.corked > 0 THEN x.corked - 1 ELSE 0
  BY <1>5
<1>7. PICK y : y = [x EXCEPT !.corked = k]
  OBVIOUS
<1>8. stream' \in IF x.corked = 1 THEN Flushed(y) ELSE {y}
  BY <1>1, <1>6, <1>7 DEF Uncork
<1>9. /\ Turns(x, y) /\ y.corked = k /\ y.needDrain = x.needDrain
      /\ y.descriptor = x.descriptor /\ y.failed = x.failed
  BY <1>3, <1>7, CorkedTurn
<1>10. Turns(x, stream') /\ Waits(stream')
  <2>1. CASE x.corked = 1
    <3>1. Typed(y) /\ Loaded(y)
      <4>1. /\ y.chunks = x.chunks /\ y.finishScheduled = x.finishScheduled
            /\ y.failed = x.failed /\ y.cancelled = x.cancelled
        BY <1>3, <1>7 DEF Typed, Fields
      <4> QED
        BY <1>3, <1>9, <4>1 DEF Turns, Sound, Settled, Loaded
    <3>2. FlushedBy(y, stream')
      BY <1>8, <2>1, <3>1, FlushTurn
    <3> QED
      BY <1>9, <3>2, TurnsTwice DEF FlushedBy
  <2>2. CASE x.corked # 1
    <3>1. stream' = y
      BY <1>8, <2>2
    <3>2. k > 0 \/ k = x.corked
      BY <1>5, <1>6, <2>2
    <3> QED
      BY <1>4, <1>9, <3>1, <3>2 DEF Even, Waits
  <2> QED
    BY <2>1, <2>2
<1>11. Flows(x, stream')
  BY <1>10 DEF Flows, Turns, Even
<1>12. Flows(stream, stream')
  BY <1>3, <1>11, FlowsTwice
<1> QED
  BY <1>2, <1>12, FlowOnward

\* Other streams on the queue.
LEMMA ForeignOnward ==
  ASSUME IInv, HInv, Foreign
  PROVE  Onward
<1>1. PICK r : /\ r = Reserved(stream.queue) \/ r = Released(stream.queue)
               /\ stream' = [stream EXCEPT !.queue = r]
  BY DEF Foreign
<1>2. Flows(stream, stream')
  BY <1>1, PlaceFlows DEF IInv
<1>3. calls' = calls /\ told' = told
  BY DEF Foreign
<1> QED
  BY <1>2, <1>3, FlowOnward

\* y is what destroy makes of p when it has given up the chunks and told so.
GaveUp(p, y) ==
  /\ Typed(y) /\ y.cancelled = TRUE /\ y.chunks = <<>> /\ y.buffered = 0
  /\ y.needDrain = FALSE /\ y.corked = 0
  /\ Differs(p, y, {"cancelled", "chunks", "buffered", "needDrain", "corked"} \cup Internal)
  /\ p.starved => y.starved
  /\ Line(y) = Line(p) \o Callbacks("write", Ids(p.chunks), TRUE)

\* destroy cancels the events, then the callbacks of all chunks report the failure.
LEMMA GiveUp ==
  ASSUME NEW p, Typed(p), NEW x, x = EventsCancelled(p),
         NEW u, u = Completed(x, "write", Ids(x.chunks), TRUE),
         NEW y, y = [u EXCEPT !.chunks = <<>>, !.buffered = 0, !.needDrain = FALSE, !.corked = 0]
  PROVE  GaveUp(p, y)
<1>1. PICK a : a = [p EXCEPT !.cancelled = TRUE]
  OBVIOUS
<1>2. PICK D : D = {"complete", "finish", "drain"}
  OBVIOUS
<1>3. x = Discarded(a, D)
  BY <1>1, <1>2 DEF EventsCancelled
<1>4. Differs(p, a, {"cancelled"}) /\ a.cancelled = TRUE /\ Typed(a) /\ Line(a) = Line(p)
  BY <1>1 DEF Typed, Differs, Fields, Line
<1>5. Differs(a, x, {"reservations", "queue"}) /\ Typed(x) /\ Line(x) = Line(a)
  BY <1>3, <1>4, DiscardedLine
<1>6. PICK ids : ids = Ids(x.chunks)
  OBVIOUS
<1>7. ids \in Seq(Nat) /\ x.chunks = p.chunks
  <2>1. x.chunks = p.chunks
    BY <1>4, <1>5 DEF Differs, Fields
  <2> QED
    BY <1>5, <1>6, <2>1, IdsTyped DEF Typed
<1>8. /\ Differs(x, u, {"queue"}) /\ Typed(u)
      /\ Line(u) = Line(x) \o Callbacks("write", ids, TRUE)
  BY <1>5, <1>6, <1>7, CompletedLine
<1>9. /\ Differs(u, y, {"chunks", "buffered", "needDrain", "corked"}) /\ y.chunks = <<>>
      /\ y.buffered = 0 /\ y.needDrain = FALSE /\ y.corked = 0
  BY <1>8 DEF Typed, Differs, Fields
<1>10. /\ y.queue = u.queue /\ y.reservations = u.reservations
       /\ y.endCompletions = u.endCompletions /\ DOMAIN y = Fields
       /\ y.cancelled = TRUE /\ y.starved = p.starved
  <2>1. /\ y.queue = u.queue /\ y.reservations = u.reservations
        /\ y.endCompletions = u.endCompletions /\ DOMAIN y = Fields
        /\ y.cancelled = u.cancelled /\ y.starved = u.starved
    BY <1>9 DEF Differs, Fields
  <2>2. u.cancelled = x.cancelled /\ u.starved = x.starved
    BY <1>8 DEF Differs, Fields
  <2>3. x.cancelled = a.cancelled /\ x.starved = a.starved
    BY <1>5 DEF Differs, Fields
  <2>4. a.starved = p.starved
    BY <1>4 DEF Differs, Fields
  <2> QED
    BY <1>4, <2>1, <2>2, <2>3, <2>4
<1>11. Typed(y) /\ Line(y) = Line(u)
  BY <1>8, <1>9, <1>10, IdsEmpty DEF Typed, Line
<1>12. Differs(p, y, {"cancelled", "chunks", "buffered", "needDrain", "corked"} \cup Internal)
  BY <1>4, <1>5, <1>8, <1>9 DEF Differs, Internal
<1>13. Line(y) = Line(p) \o Callbacks("write", Ids(p.chunks), TRUE)
  BY <1>4, <1>5, <1>6, <1>7, <1>8, <1>11
<1> QED
  BY <1>9, <1>10, <1>11, <1>12, <1>13 DEF GaveUp

\* The chunks a destroyed stream gives up are reported as failed.
LEMMA GiveUpFlows ==
  ASSUME NEW p, Typed(p), Loaded(p), Sums(p), NEW y, GaveUp(p, y)
  PROVE  Flows(p, y)
<1>1. /\ Typed(y) /\ y.cancelled = TRUE /\ y.chunks = <<>> /\ y.buffered = 0
      /\ y.needDrain = FALSE /\ y.corked = 0 /\ (p.starved => y.starved)
  BY DEF GaveUp
<1>2. /\ y.sink = p.sink /\ y.accepted = p.accepted /\ y.endCompletions = p.endCompletions
      /\ y.finished = p.finished /\ y.closeEmitted = p.closeEmitted
      /\ y.error = p.error /\ y.failed = p.failed /\ y.finishScheduled = p.finishScheduled
      /\ y.closeQueued = p.closeQueued /\ y.drainScheduled = p.drainScheduled
  BY DEF GaveUp, Differs, Fields, Internal
<1>3. PICK n \in 0..Len(p.chunks) : n = 0 /\ Takes(p, p.sink, n) /\ TookTo(p, p, n)
  <2>1. TookTo(p, p, 0) /\ 0 \in 0..Len(p.chunks)
    BY TookNone DEF Sums
  <2> QED
    BY <2>1 DEF TookTo
<1>4. Given(p, y, n)
  BY <1>1, <1>2, <1>3 DEF Given, Takes, Older
<1>5. Reports(p, y, n)
  <2>1. SubSeq(p.chunks, n + 1, Len(p.chunks)) = p.chunks
    <3>1. n + 1 = 1
      BY <1>3
    <3> QED
      BY <3>1, SubSeqFull DEF Typed
  <2>2. PICK f, r : /\ f = Callbacks("write", Ids(SubSeq(p.chunks, 1, n)), FALSE)
                    /\ r = Callbacks("write", Ids(SubSeq(p.chunks, n + 1, Len(p.chunks))), TRUE)
    OBVIOUS
  <2>3. Line(p) = Line(p) \o f
    BY <1>3, <2>2 DEF TookTo
  <2>4. r = Callbacks("write", Ids(p.chunks), TRUE)
    BY <2>1, <2>2
  <2>5. Line(y) = Line(p) \o r
    BY <2>4 DEF GaveUp
  <2> QED
    BY <2>2, <2>3, <2>5 DEF Reports
<1>6. ASSUME NEW T, NEW c \in Nat, Hist(p, T, c, Dead(p)) PROVE Hist(y, T, c, Dead(y))
  <2>1. PICK d \in BOOLEAN : d = Dead(p)
    BY DeadBoolean
  <2>2. Hist(p, T, c, d)
    BY <1>6, <2>1
  <2>3. Hist(y, T, c, d)
    BY <1>1, <1>3, <1>4, <1>5, <2>2, ReportsHist
  <2>4. PICK e \in BOOLEAN : e = Dead(y) /\ e = TRUE
    <3>1. Dead(y)
      BY <1>1 DEF Dead
    <3> QED
      BY <3>1, DeadBoolean
  <2>5. c <= c /\ (d => e)
    BY <2>4
  <2>6. Hist(y, T, c, e)
    BY <1>1, <2>3, <2>5, HistLater
  <2> QED
    BY <2>4, <2>6
<1>7. Passes(p, y)
  <2>1. Ids(p.chunks) \in Seq(Nat)
    BY IdsTyped DEF Typed
  <2>2. PICK ids : ids = Ids(p.chunks)
    OBVIOUS
  <2>3. ids \in Seq(Nat) /\ Line(y) = Line(p) \o Callbacks("write", ids, TRUE)
    BY <2>1, <2>2 DEF GaveUp
  <2>4. ToSet(Line(p)) \subseteq ToSet(Line(y))
    BY <2>3, LineGrows
  <2>5. Due(p) => Due(y)
    BY <1>1, <1>2, <2>4 DEF Due
  <2> QED
    BY <1>1, <1>2, <2>4, <2>5 DEF Passes, Announced
<1>8. Sums(y) /\ Waits(y) /\ Shut(y)
  BY <1>1, <1>2, BytesEmpty DEF Sums, Waits, Shut
<1> QED
  BY <1>1, <1>6, <1>7, <1>8 DEF Flows, Turns, Even

\* destroy
LEMMA DestroyOnward ==
  ASSUME IInv, HInv, NEW error \in BOOLEAN, Destroy(error)
  PROVE  Onward
<1>1. PICK p, x, u, y, z, f, d :
         /\ p = Prepared(stream)
         /\ x = EventsCancelled(p)
         /\ u = Completed(x, "write", Ids(x.chunks), TRUE)
         /\ y = [u EXCEPT !.chunks = <<>>, !.buffered = 0, !.needDrain = FALSE, !.corked = 0]
         /\ z = EndCompleted(y, TRUE)
         /\ f = IF error THEN EventsFailed(z) ELSE z
         /\ d = DescriptorClosed(f)
  OBVIOUS
<1>2. /\ stream' = EventsClosed(d) \/ stream' = EventsClosed(EventsFailed(d))
      /\ calls' = calls /\ told' = told
  BY <1>1 DEF Destroy
<1>3. Flows(stream, p) /\ Sound(p) /\ Typed(p)
  BY <1>1, PreparedFlows DEF IInv
<1>4. Loaded(p) /\ Sums(p)
  BY <1>3 DEF Sound, Settled, Loaded, Flows, HInv, Even
<1>5. GaveUp(p, y)
  BY <1>1, <1>3, GiveUp
<1>6. Flows(p, y) /\ Typed(y) /\ y.cancelled
  BY <1>3, <1>4, <1>5, GiveUpFlows DEF GaveUp
<1>7. Flows(y, z)
  <2>1. PICK no \in BOOLEAN : no = TRUE
    OBVIOUS
  <2>2. z = EndCompleted(y, no) /\ (no \/ y.finished)
    BY <1>1, <2>1
  <2>3. Step(y, z) /\ Differs(y, z, {"endCompletions", "queue"})
    BY <1>6, <2>2, EndCompletedStep
  <2>4. PICK S : S = {"endCompletions", "queue"}
    OBVIOUS
  <2>5. S \cap Frame = {} /\ Differs(y, z, S)
    BY <2>3, <2>4 DEF Frame
  <2> QED
    BY <1>6, <2>3, <2>5, StepFlows
<1>8. Flows(stream, z) /\ Typed(z) /\ z.cancelled
  <2>1. Flows(stream, z)
    BY <1>3, <1>6, <1>7, FlowsTwice
  <2> QED
    BY <1>6, <1>7, <2>1 DEF Flows, Turns, Passes
<1>9. Flows(z, f)
  <2>1. f = z \/ f = EventsFailed(z)
    BY <1>1
  <2> QED
    BY <1>8, <2>1, NoFlow, EventFlows
<1>10. Flows(stream, f) /\ Typed(f) /\ f.cancelled
  <2>1. Flows(stream, f)
    BY <1>8, <1>9, FlowsTwice
  <2> QED
    BY <1>8, <1>9, <2>1 DEF Flows, Turns, Passes
<1>11. Flows(f, d)
  BY <1>1, <1>10, DescriptorFlows
<1>12. Flows(stream, d) /\ Typed(d)
  <2>1. Flows(stream, d)
    BY <1>10, <1>11, FlowsTwice
  <2> QED
    BY <1>11, <2>1 DEF Flows, Turns
<1>13. ASSUME NEW v, Flows(stream, v), Typed(v), stream' = EventsClosed(v) PROVE Onward
  <2>1. Flows(v, stream')
    BY <1>13, EventFlows
  <2>2. Flows(stream, stream')
    BY <1>13, <2>1, FlowsTwice
  <2> QED
    BY <1>2, <2>2, FlowOnward
<1>14. CASE stream' = EventsClosed(d)
  BY <1>12, <1>13, <1>14
<1>15. CASE stream' = EventsClosed(EventsFailed(d))
  <2>1. PICK v : v = EventsFailed(d)
    OBVIOUS
  <2>2. Flows(d, v)
    BY <1>12, <2>1, EventFlows
  <2>3. Flows(stream, v) /\ Typed(v)
    <3>1. Flows(stream, v)
      BY <1>12, <2>2, FlowsTwice
    <3> QED
      BY <2>2, <3>1 DEF Flows, Turns
  <2> QED
    BY <1>13, <1>15, <2>1, <2>3
<1> QED
  BY <1>2, <1>14, <1>15
-----------------------------------------------------------------------------
(***************************************************************************)
(* The poll.                                                               *)
(***************************************************************************)

\* y is x without the first notification n of its line.
Popped(x, y, n) ==
  /\ Typed(x) /\ Kept(y) /\ Typed(y) /\ Differs(x, y, {"queue"})
  /\ Begins(Line(x), n, Line(y))

\* The first of the batch is the first of the line.
LEMMA PoppedLine ==
  ASSUME NEW x, Kept(x), x.queue.batch # <<>>, NEW y, y = [x EXCEPT !.queue = Dispatched(@)],
         NEW n, n = Head(x.queue.batch)
  PROVE  Popped(x, y, n) /\ n \in Notes
<1>1. TakenTo(x, y)
  BY Taken
<1>2. Typed(x) /\ Kept(y) /\ Typed(y) /\ Differs(x, y, {"queue"}) /\ n \in Notes
  BY <1>1 DEF TakenTo, Turned, Kept
<1>3. x.queue.batch \in Seq(Notes) /\ x.queue.pending \in Seq(Notes)
  BY <1>2, LineTyped
<1>4. y.queue.batch = Tail(x.queue.batch) /\ y.queue.pending = x.queue.pending
  <2>1. y.queue = Dispatched(x.queue)
    BY <1>2 DEF Typed, Fields
  <2> QED
    BY <1>2, <2>1, QueueFields DEF Typed, Dispatched
<1>5. ASSUME NEW s \in Seq(Notes), NEW t \in Seq(Notes), s # <<>>
      PROVE  s \o t # <<>> /\ Head(s \o t) = Head(s) /\ Tail(s \o t) = Tail(s) \o t
  BY <1>5
<1>6. Line(x) # <<>> /\ n = Head(Line(x)) /\ Line(y) = Tail(Line(x))
  BY <1>3, <1>4, <1>5 DEF Line
<1>7. Line(x) \in Seq(Notes)
  BY <1>2, LineTyped
<1> QED
  BY <1>2, <1>6, <1>7 DEF Popped, Begins

\* What follows from the order for the first of a line.
LEMMA PoppedRow ==
  ASSUME NEW x, NEW y, NEW n, Popped(x, y, n), NEW T, NEW d \in BOOLEAN, Row(T, Line(x), d)
  PROVE  Behead(T, Line(x), n, Line(y), d)
<1>1. PICK s, t : s = Line(x) /\ t = Line(y)
  OBVIOUS
<1>2. Begins(s, n, t) /\ Row(T, s, d)
  BY <1>1 DEF Popped
<1>3. Behead(T, s, n, t, d)
  BY <1>2, RowTail
<1> QED
  BY <1>1, <1>3

\* Whether n is told or not, the history goes on; for close, see CloseHist.
LEMMA PoppedHist ==
  ASSUME NEW x, NEW y, NEW n, Popped(x, y, n), NEW T, NEW c, NEW d \in BOOLEAN,
         Hist(x, T, c, d), NEW U, U = T \/ (U = T \cup {n} /\ n # Event("close"))
  PROVE  Hist(y, U, c, d)
<1>1. /\ Row(T, Line(y), d) /\ Row(T \cup {n}, Line(y), d)
      /\ ToSet(Line(x)) = {n} \cup ToSet(Line(y))
  BY PoppedRow DEF Hist, Behead
<1>2. /\ \A m \in T \cup ToSet(Line(x)) : m \in Notes /\ Recorded(m, x, c)
      /\ Stocked(x, c) /\ Over(x, T)
  BY DEF Hist
<1>3. SameStock(x, y) /\ Older(x, y) /\ y.error = x.error /\ y.cancelled = x.cancelled
  BY DEF Popped, Differs, Fields, SameStock, Older
<1>4. ASSUME NEW m, Recorded(m, x, c) PROVE Recorded(m, y, c)
  BY <1>3, <1>4 DEF Recorded, SameStock, Older
<1>5. \A m \in U \cup ToSet(Line(y)) : m \in Notes /\ Recorded(m, y, c)
  BY <1>1, <1>2, <1>4
<1>6. Stocked(y, c)
  BY <1>2, <1>3 DEF Stocked, SameStock, Older
<1>7. Over(y, U)
  BY <1>1, <1>2, <1>3 DEF Over, SameStock
<1> QED
  BY <1>1, <1>5, <1>6, <1>7 DEF Hist

\* What the poll does not change for the rest of the invariant.
LEMMA EvenOn ==
  ASSUME NEW x, NEW y, NEW S, Differs(x, y, S), S \cap (Frame \ {"closeEmitted"}) = {},
         x.cancelled => y.cancelled
  PROVE  /\ Even(x) => Even(y)
         /\ y.needDrain = x.needDrain
<1>1. \A f \in Frame \ {"closeEmitted"} : y[f] = x[f]
  BY DEF Differs, Frame, Fields
<1>2. /\ y.corked = x.corked /\ y.buffered = x.buffered /\ y.chunks = x.chunks
      /\ y.closed = x.closed /\ y.ended = x.ended /\ y.failed = x.failed
      /\ y.needDrain = x.needDrain /\ y.descriptor = x.descriptor /\ y.sink = x.sink
  BY <1>1 DEF Frame
<1> QED
  BY <1>2 DEF Even, Sums, Waits, Shut

\* Finish takes its place behind a line that has neither finish nor close.
LEMMA FinishHist ==
  ASSUME NEW x, Typed(x), x.finished, ~x.closeEmitted, NEW y, y = Queued(x, "finish"),
         NEW T, NEW c, NEW d \in BOOLEAN, Hist(x, T, c, d),
         {Event("finish"), Event("close")} \cap (T \cup ToSet(Line(x))) = {}
  PROVE  /\ Hist(y, T, c, d) /\ Typed(y) /\ Differs(x, y, {"reservations", "queue", "starved"})
         /\ (x.starved => y.starved) /\ ToSet(Line(x)) \subseteq ToSet(Line(y))
<1>0. "finish" \in Events
  BY DEF Events
<1>1. QueuedTo(x, y, "finish")
  BY <1>0, QueuedLine
<1>2. PICK n \in Notes : n = Event("finish")
  BY <1>0, EventNotes
<1>3. /\ Differs(x, y, {"reservations", "queue", "starved"}) /\ Typed(y)
      /\ x.starved => y.starved
      /\ Line(y) = Append(Line(x), n) \/ Line(y) = Line(x)
  BY <1>1, <1>2 DEF QueuedTo
<1>4. SameStock(x, y) /\ Older(x, y) /\ y.finished = x.finished /\ y.closeEmitted = x.closeEmitted
  BY <1>3 DEF Differs, Fields, SameStock, Older
<1>5. /\ \A m \in T \cup ToSet(Line(x)) : m \in Notes /\ Recorded(m, x, c)
      /\ Stocked(x, c) /\ Over(x, T) /\ Row(T, Line(x), d) /\ Line(x) \in Seq(Notes)
  BY LineTyped DEF Hist
<1>6. ASSUME NEW m, Recorded(m, x, c) PROVE Recorded(m, y, c)
  BY <1>4, <1>6 DEF Recorded, SameStock, Older
<1>7. Stocked(y, c)
  BY <1>4, <1>5 DEF Stocked, SameStock, Older
<1>8. Over(y, T)
  BY <1>4, <1>5 DEF Over
<1>9. CASE Line(y) = Line(x)
  BY <1>3, <1>5, <1>6, <1>7, <1>8, <1>9 DEF Hist
<1>10. CASE Line(y) = Append(Line(x), n)
  <2>1. ToSet(Line(y)) = ToSet(Line(x)) \cup {n}
    BY <1>5, <1>10, MembersAppend
  <2>2. n[1] = "event" /\ n # Event("error") /\ n # Event("complete") /\ n # Event("close")
    BY <1>2 DEF Event
  <2>3. ASSUME NEW m \in T \cup ToSet(Line(x)) PROVE Before(m, n, d)
    BY <1>2, <2>2 DEF Before
  <2>4. Row(T, Line(y), d)
    BY <1>5, <1>10, <2>3, RowAppend
  <2>5. Recorded(n, y, c)
    BY <1>4, <2>2 DEF Recorded
  <2> QED
    BY <1>3, <1>5, <1>6, <1>7, <1>8, <2>1, <2>4, <2>5 DEF Hist
<1> QED
  BY <1>3, <1>9, <1>10

\* _WriteEvent.invoke of "complete" while the stream is alive.
LEMMA CompleteHist ==
  ASSUME NEW x, Kept(x), ~Dead(x), x.finishScheduled, ~x.finished, NEW y, y = CompleteInvoked(x),
         NEW T, NEW c \in Nat, Hist(x, T, c, FALSE),
         Event("complete") \notin T \cup ToSet(Line(x))
  PROVE  /\ Hist(y, T, c, FALSE) /\ ~Dead(y)
         /\ Even(x) => Even(y)
         /\ Due(x) => Due(y)
         /\ y.needDrain = x.needDrain
<1>1. PICK no, a, b, z : /\ no = FALSE /\ a = [x EXCEPT !.finished = TRUE]
                         /\ b = EndCompleted(a, no) /\ z = Queued(b, "finish")
  OBVIOUS
<1>0. no \in BOOLEAN
  BY <1>1
<1>2. y = CloseQueued(z)
  BY <1>1 DEF CompleteInvoked, Dead
<1>3. Typed(x) /\ ~x.failed /\ ~x.cancelled /\ x.chunks = <<>> /\ ~x.closeQueued /\ ~x.closeEmitted
  BY DEF Kept, Settled, Dead
<1>4. Differs(x, a, {"finished"}) /\ a.finished = TRUE
  BY <1>1, <1>3 DEF Typed, Differs, Fields
<1>5. /\ a.chunks = x.chunks /\ a.endCompletions = x.endCompletions /\ a.queue = x.queue
      /\ a.reservations = x.reservations /\ a.sink = x.sink /\ a.accepted = x.accepted
      /\ a.error = x.error /\ a.cancelled = x.cancelled /\ a.closeEmitted = x.closeEmitted
      /\ a.failed = x.failed /\ a.finishScheduled = x.finishScheduled
      /\ a.closeQueued = x.closeQueued /\ a.drainScheduled = x.drainScheduled
      /\ a.starved = x.starved /\ DOMAIN a = Fields
  BY <1>4 DEF Differs, Fields
<1>6. Typed(a) /\ Line(a) = Line(x)
  BY <1>3, <1>5 DEF Typed, Line
<1>7. /\ \A m \in T \cup ToSet(Line(x)) : m \in Notes /\ Recorded(m, x, c)
      /\ Stocked(x, c) /\ Over(x, T)
  BY DEF Hist
<1>8. Hist(a, T, c, no)
  <2>1. ASSUME NEW m \in T \cup ToSet(Line(x)) PROVE m \in Notes /\ Recorded(m, a, c)
    <3>1. m # Event("complete") /\ m \in Notes /\ Recorded(m, x, c)
      BY <1>7
    <3> QED
      BY <1>4, <1>5, <3>1 DEF Recorded
  <2>2. Len(x.chunks) = 0
    BY <1>3
  <2>3. Len(a.sink) = Len(a.accepted)
    <3>1. Len(x.accepted) = Len(x.sink) + Len(x.chunks) /\ Len(x.sink) \in Nat
      BY <1>3, <1>7 DEF Stocked
    <3> QED
      BY <1>5, <2>2, <3>1
  <2>4. Stocked(a, c)
    <3>1. a.sink \in Seq(Nat) /\ a.accepted \in Seq(Nat) /\ Rising(a.accepted, c)
          /\ Rising(a.endCompletions, c) /\ Len(a.sink) <= Len(a.accepted)
      BY <1>5, <1>7 DEF Stocked
    <3>2. \A i \in 1..Len(a.sink) : a.sink[i] = a.accepted[i]
      BY <1>5, <1>7 DEF Stocked
    <3>3. a.finished => a.finishScheduled /\ Len(a.sink) = Len(a.accepted)
      BY <1>5, <2>3
    <3>4. ~a.failed /\ ~a.cancelled =>
            /\ Len(a.accepted) = Len(a.sink) + Len(a.chunks)
            /\ \A i \in 1..Len(a.chunks) : a.accepted[Len(a.sink) + i] = a.chunks[i].id
      BY <1>5, <1>7 DEF Stocked
    <3> QED
      BY <3>1, <3>2, <3>3, <3>4 DEF Stocked
  <2>5. Over(a, T)
    BY <1>3, <1>5, <1>7 DEF Over
  <2>6. Row(T, Line(x), no)
    BY <1>1 DEF Hist
  <2> QED
    BY <1>6, <2>1, <2>4, <2>5, <2>6 DEF Hist
<1>9. /\ Step(a, b) /\ Differs(a, b, {"endCompletions", "queue"})
      /\ Line(b) = Line(a) \o Callbacks("end", a.endCompletions, no)
  BY <1>0, <1>1, <1>4, <1>6, EndCompletedStep
<1>10. Hist(b, T, c, no) /\ Typed(b) /\ Passes(a, b)
  BY <1>0, <1>8, <1>9 DEF Step
<1>11. {Event("finish"), Event("close")} \cap (T \cup ToSet(Line(b))) = {}
  <2>1. Event("finish") \notin T \cup ToSet(Line(x)) /\ Event("close") \notin T \cup ToSet(Line(x))
    <3>1. ~Recorded(Event("finish"), x, c) /\ ~Recorded(Event("close"), x, c)
      BY <1>3 DEF Recorded
    <3> QED
      BY <1>7, <3>1
  <2>2. PICK ids, cs : ids = a.endCompletions /\ cs = Callbacks("end", ids, no)
    OBVIOUS
  <2>9. ids \in Seq(Nat)
    BY <1>6, <2>2 DEF Typed
  <2>3. ids \in [1..Len(ids) -> Nat] /\ DOMAIN ids = 1..Len(ids)
    BY <2>9, LenProperties
  <2>8. PICK l \in Nat : l = Len(ids)
    BY <2>9, LenProperties
  <2>4. /\ cs \in [1..l -> Notes]
        /\ \A i \in 1..l : \A e : cs[i] # Event(e)
    BY <1>0, <2>2, <2>9, <2>3, <2>8, EventNotes DEF Callbacks
  <2>5. cs \in Seq(Notes) /\ Line(a) \in Seq(Notes) /\ Len(cs) = l
    <3>1. cs \in Seq(Notes) /\ Len(cs) = l
      BY <2>8, <2>4
    <3> QED
      BY <1>6, <3>1, LineTyped
  <2>6. ToSet(Line(b)) = ToSet(Line(x)) \cup ToSet(cs)
    BY <1>6, <1>9, <2>2, <2>9, <2>5, MembersJoin
  <2>7. \A e : Event(e) \notin ToSet(cs)
    BY <2>4, <2>5, Members
  <2> QED
    BY <2>1, <2>6, <2>7
<1>12. b.finished /\ ~b.closeEmitted /\ b.needDrain = a.needDrain /\ b.starved = a.starved
       /\ b.drainScheduled = a.drainScheduled
  BY <1>3, <1>4, <1>5, <1>9 DEF Differs, Fields
<1>13. /\ Hist(z, T, c, no) /\ Typed(z) /\ Differs(b, z, {"reservations", "queue", "starved"})
       /\ (b.starved => z.starved) /\ ToSet(Line(b)) \subseteq ToSet(Line(z))
  BY <1>1, <1>10, <1>11, <1>12, FinishHist
<1>14. Step(z, y) /\ Differs(z, y, {"closeScheduled", "closeQueued"} \cup Internal)
  BY <1>2, <1>13, QueueCloseStep
<1>15. PICK S : S = {"finished", "endCompletions", "closeScheduled", "closeQueued"} \cup Internal
  OBVIOUS
<1>16. Differs(x, y, S) /\ S \cap (Frame \ {"closeEmitted"}) = {}
  <2>1. Differs(x, b, S)
    BY <1>4, <1>9, <1>15 DEF Differs, Internal
  <2>2. Differs(x, z, S)
    BY <1>13, <1>15, <2>1 DEF Differs, Internal
  <2>3. Differs(x, y, S)
    BY <1>14, <1>15, <2>2 DEF Differs
  <2>4. S \cap (Frame \ {"closeEmitted"}) = {}
    BY <1>15 DEF Frame, Internal
  <2> QED
    BY <2>3, <2>4
<1>17. y.error = x.error /\ y.cancelled = x.cancelled /\ y.closeEmitted = x.closeEmitted
  BY <1>15, <1>16 DEF Differs, Fields, Internal
<1>18. ~Dead(y)
  BY <1>17 DEF Dead
<1>19. Hist(y, T, c, no)
  BY <1>0, <1>13, <1>14 DEF Step
<1>20. Due(x) => Due(y)
  <2>1. Due(x) => Due(a)
    BY <1>5, <1>6 DEF Due
  <2>2. z.drainScheduled = b.drainScheduled
    BY <1>13 DEF Differs, Fields
  <2>3. Due(b) => Due(z)
    BY <1>13, <2>2 DEF Due
  <2> QED
    BY <1>10, <1>14, <2>1, <2>3 DEF Passes, Step
<1>21. (Even(x) => Even(y)) /\ y.needDrain = x.needDrain
  BY <1>16, <1>17, EvenOn
<1> QED
  BY <1>1, <1>18, <1>19, <1>20, <1>21

\* _WriteEvent.invoke of "close", the last event but failures of late calls.
LEMMA CloseHist ==
  ASSUME NEW x, NEW y, Popped(x, y, Event("close")), y.closeQueued, NEW z, z = CloseInvoked(y),
         NEW T, NEW c \in Nat, NEW d \in BOOLEAN, d => Dead(x), Hist(x, T, c, d)
  PROVE  Hist(z, T \cup {Event("close")}, c, Dead(z))
<1>1. PICK a : a = Discarded(y, Events)
  OBVIOUS
<1>2. Kept(y) /\ Typed(y) /\ Typed(x) /\ Differs(x, y, {"queue"})
  BY DEF Popped
<1>3. Differs(y, a, {"reservations", "queue"}) /\ Typed(a) /\ Line(a) = Line(y)
  BY <1>1, <1>2, DiscardedLine
<1>4. /\ Differs(a, z, {"closeEmitted"}) /\ z.closeEmitted = TRUE /\ Line(z) = Line(a)
  <2>1. z = [a EXCEPT !.closeEmitted = TRUE]
    BY <1>1 DEF CloseInvoked
  <2> QED
    BY <1>3, <2>1 DEF Typed, Differs, Fields, Line
<1>5. /\ z.chunks = x.chunks /\ z.endCompletions = x.endCompletions
      /\ z.sink = x.sink /\ z.accepted = x.accepted /\ z.finished = x.finished
      /\ z.error = x.error /\ z.cancelled = x.cancelled /\ z.failed = x.failed
      /\ z.finishScheduled = x.finishScheduled /\ z.closeQueued = x.closeQueued
  BY <1>2, <1>3, <1>4 DEF Differs, Fields
<1>6. /\ \A m \in T \cup ToSet(Line(x)) : m \in Notes /\ Recorded(m, x, c)
      /\ Stocked(x, c) /\ Over(x, T) /\ Row(T, Line(x), d)
  BY DEF Hist
<1>7. PICK n : n = Event("close")
  OBVIOUS
<1>8. /\ Row(T \cup {n}, Line(y), d)
      /\ ToSet(Line(x)) = {n} \cup ToSet(Line(y))
      /\ \A m \in ToSet(Line(y)) : Before(n, m, d)
  <2>1. Popped(x, y, n) /\ Row(T, Line(x), d)
    BY <1>6, <1>7
  <2> QED
    BY <2>1, PoppedRow DEF Behead
<1>9. Row(T \cup {n}, Line(z), TRUE)
  BY <1>3, <1>4, <1>8, RowDead
<1>10. ASSUME NEW m, Recorded(m, x, c) PROVE Recorded(m, z, c)
  BY <1>5, <1>10 DEF Recorded
<1>11. \A m \in (T \cup {n}) \cup ToSet(Line(z)) : m \in Notes /\ Recorded(m, z, c)
  BY <1>3, <1>4, <1>6, <1>8, <1>10
<1>12. Stocked(z, c)
  <2>1. z.sink \in Seq(Nat) /\ z.accepted \in Seq(Nat) /\ Rising(z.accepted, c)
        /\ Rising(z.endCompletions, c) /\ Len(z.sink) <= Len(z.accepted)
    BY <1>5, <1>6 DEF Stocked
  <2>2. \A i \in 1..Len(z.sink) : z.sink[i] = z.accepted[i]
    BY <1>5, <1>6 DEF Stocked
  <2>3. z.finished => z.finishScheduled /\ Len(z.sink) = Len(z.accepted)
    BY <1>5, <1>6 DEF Stocked
  <2>4. ~z.failed /\ ~z.cancelled =>
          /\ Len(z.accepted) = Len(z.sink) + Len(z.chunks)
          /\ \A i \in 1..Len(z.chunks) : z.accepted[Len(z.sink) + i] = z.chunks[i].id
    <3>1. ~x.failed /\ ~x.cancelled =>
            /\ Len(x.accepted) = Len(x.sink) + Len(x.chunks)
            /\ \A i \in 1..Len(x.chunks) : x.accepted[Len(x.sink) + i] = x.chunks[i].id
      BY <1>6 DEF Stocked
    <3>2. /\ z.chunks = x.chunks /\ z.accepted = x.accepted /\ z.sink = x.sink
          /\ z.failed = x.failed /\ z.cancelled = x.cancelled
      BY <1>5
    <3> QED
      BY <3>1, <3>2, Zenon
  <2> QED
    BY <2>1, <2>2, <2>3, <2>4 DEF Stocked
<1>13. Over(z, T \cup {n})
  <2>1. y.finished = x.finished /\ y.failed = x.failed /\ y.cancelled = x.cancelled
        /\ y.closeEmitted = x.closeEmitted /\ y.error = x.error
    BY <1>2 DEF Differs, Fields
  <2>2. z.finished \/ z.error \/ z.cancelled
    <3>1. x.finished \/ x.failed \/ x.cancelled
      BY <1>2, <2>1 DEF Kept, Settled
    <3>2. x.failed => x.error \/ x.closeEmitted
      BY <1>2, <2>1 DEF Kept, Settled
    <3> QED
      BY <1>5, <1>6, <3>1, <3>2 DEF Over
  <2>3. ~z.error /\ ~z.cancelled => Event("finish") \notin ToSet(Line(z))
    <3>1. CASE x.closeEmitted
      BY <1>3, <1>4, <1>5, <1>6, <1>8, <3>1 DEF Over
    <3>2. CASE ~x.closeEmitted
      <4>1. ~z.error /\ ~z.cancelled => ~d
        BY <1>5, <3>2 DEF Dead
      <4>2. ~d => ~Before(n, Event("finish"), d)
        BY <1>7 DEF Before
      <4> QED
        BY <1>3, <1>4, <1>8, <4>1, <4>2
    <3> QED
      BY <3>1, <3>2
  <2> QED
    BY <1>4, <2>2, <2>3 DEF Over
<1>14. Hist(z, T \cup {n}, c, TRUE)
  BY <1>9, <1>11, <1>12, <1>13 DEF Hist
<1>15. Dead(z) = TRUE
  BY <1>4 DEF Dead
<1> QED
  BY <1>7, <1>14, <1>15

\* What user code heard of the stream x that became y, if it heard n.
Heard(n, x, y) ==
  /\ n \in {Event("finish"), Event("drain")} => ~x.error /\ ~x.cancelled
  /\ n = Event("drain") => ~x.finishScheduled
  /\ n = Event("finish") => ~y.error /\ ~y.cancelled /\ y.closeEmitted = x.closeEmitted

\* The poll calls the next notification of x.
Tells(x) ==
  /\ Hist(stream', told', calls, Dead(stream')) /\ Due(stream') /\ Even(stream')
  /\ stream'.needDrain = x.needDrain
  /\ told' = told \/ \E n \in ToSet(Line(x)) : told' = told \cup {n} /\ Heard(n, x, stream')

\* The invariant as far as the poll uses it, at the stream x.
At(x) == Kept(x) /\ Hist(x, told, calls, Dead(x)) /\ Due(x) /\ Even(x) /\ calls \in Nat

\* A notification that changes nothing that is in line: callbacks, error, finish
\* and drain.
LEMMA PlainTells ==
  ASSUME NEW x, At(x), NEW y, NEW n, Popped(x, y, n), n # Event("close"),
         stream' = y \/ stream' = [y EXCEPT !.drainScheduled = FALSE]
           \/ (y.finished /\ stream' = [y EXCEPT !.finished = TRUE]),
         n = Event("drain") => ~stream'.drainScheduled,
         told' = told \/ (told' = told \cup {n} /\ Heard(n, x, stream'))
  PROVE  Tells(x)
<1>1. /\ Typed(y) /\ Differs(x, y, {"queue"})
      /\ Differs(y, stream', {"drainScheduled", "finished"})
      /\ stream'.finished <=> y.finished
  BY DEF Popped, Typed, Differs, Fields
<1>2. PICK d \in BOOLEAN : d = Dead(x)
  BY DeadBoolean
<1>3. Hist(y, told', calls, d)
  BY <1>2, PoppedHist DEF At
<1>4. Typed(stream') /\ Line(stream') = Line(y)
  <2>1. /\ stream'.queue = y.queue /\ stream'.chunks = y.chunks
        /\ stream'.endCompletions = y.endCompletions
        /\ stream'.reservations = y.reservations /\ DOMAIN stream' = Fields
    BY <1>1 DEF Differs, Fields
  <2> QED
    BY <1>1, <2>1 DEF Typed, Line
<1>5. SameStock(y, stream') /\ Older(y, stream') /\ Extended(y, stream', "close")
  BY <1>1, <1>4 DEF Differs, Fields, SameStock, Older, Extended
<1>6. Hist(stream', told', calls, d)
  <2>1. "close" \in Events
    BY DEF Events
  <2> QED
    BY <1>1, <1>3, <1>5, <2>1, EventHist
<1>7. stream'.error = x.error /\ stream'.cancelled = x.cancelled
      /\ stream'.closeEmitted = x.closeEmitted /\ stream'.starved = x.starved
      /\ (stream'.drainScheduled => x.drainScheduled)
  BY <1>1 DEF Differs, Fields, Popped, Typed
<1>8. Dead(stream') = d
  BY <1>2, <1>7 DEF Dead
<1>9. n \in ToSet(Line(x)) /\ ToSet(Line(x)) = {n} \cup ToSet(Line(y))
  <2>1. d \in BOOLEAN /\ Row(told, Line(x), d)
    BY <1>2 DEF At, Hist
  <2>2. Behead(told, Line(x), n, Line(y), d)
    BY <2>1, PoppedRow
  <2> QED
    BY <2>2 DEF Behead
<1>10. Due(stream')
  <2>1. stream'.drainScheduled => n # Event("drain")
    OBVIOUS
  <2> QED
    BY <1>4, <1>7, <1>9, <2>1 DEF At, Due
<1>11. Even(stream') /\ stream'.needDrain = x.needDrain
  <2>1. PICK S : S = {"queue", "drainScheduled", "finished"}
    OBVIOUS
  <2>2. Differs(x, stream', S) /\ S \cap (Frame \ {"closeEmitted"}) = {}
    BY <1>1, <2>1 DEF Differs, Frame
  <2> QED
    BY <1>7, <2>2, EvenOn DEF At
<1> QED
  BY <1>6, <1>8, <1>9, <1>10, <1>11 DEF Tells

\* The notification n of x's line is an event, and the poll invokes it.
LEMMA EventTells ==
  ASSUME NEW x, At(x), NEW y, NEW n, Popped(x, y, n), NEW e \in Events, n = Event(e),
         stream' = InvokedEvent(y, e), running' \in ModesOf(y, e),
         told' = IF running' = "silent" THEN told ELSE told \cup {n}
  PROVE  Tells(x)
<1>1. PICK d \in BOOLEAN : d = Dead(x)
  BY DeadBoolean
<1>2. /\ Kept(x) /\ Hist(x, told, calls, d) /\ Due(x) /\ Even(x) /\ calls \in Nat
      /\ Row(told, Line(x), d)
  BY <1>1 DEF At, Hist
<1>3. /\ ToSet(Line(x)) = {n} \cup ToSet(Line(y))
      /\ \A m \in told : Before(m, n, d)
      /\ \A m \in ToSet(Line(y)) : Before(n, m, d)
  <2>1. d \in BOOLEAN /\ Row(told, Line(x), d)
    BY <1>1, <1>2
  <2>2. Behead(told, Line(x), n, Line(y), d)
    BY <2>1, PoppedRow
  <2> QED
    BY <2>2 DEF Behead
<1>4. Recorded(n, x, calls)
  BY <1>2, <1>3 DEF Hist
<1>5. /\ y.error = x.error /\ y.cancelled = x.cancelled /\ y.closeEmitted = x.closeEmitted
      /\ y.finished = x.finished /\ y.finishScheduled = x.finishScheduled
      /\ y.closeQueued = x.closeQueued /\ y.drainScheduled = x.drainScheduled
      /\ y.needDrain = x.needDrain
      /\ Kept(y) /\ Typed(y)
  BY DEF Popped, Differs, Fields
<1>6. \A f : n = Event(f) => f = e
  BY EventNotes
<1>7. CASE e = "complete"
  <2>1. told' = told /\ stream' = CompleteInvoked(y)
    BY <1>7 DEF ModesOf, InvokedEvent
  <2>2. n = Event("complete") /\ n # Event("drain") /\ n # Event("close")
    BY <1>6, <1>7
  <2>3. Dead(y) = d
    BY <1>1, <1>5 DEF Dead
  <2>4. CASE Dead(y)
    <3>1. stream' = y
      BY <2>1, <2>4 DEF CompleteInvoked, Dead
    <3> QED
      BY <2>1, <2>2, <3>1, PlainTells
  <2>5. CASE ~Dead(y)
    <3>1. y.finishScheduled /\ ~y.finished
      BY <1>4, <1>5, <2>2 DEF Recorded
    <3>2. Event("complete") \notin told \cup ToSet(Line(y))
      <4>1. ASSUME NEW m \in told \cup ToSet(Line(y)), m = n PROVE FALSE
        <5>1. n[1] = "event"
          BY DEF Event
        <5> QED
          BY <1>3, <2>2, <4>1, <5>1 DEF Before
      <4> QED
        BY <2>2, <4>1
    <3>3. Hist(y, told, calls, FALSE)
      <4>1. Hist(y, told, calls, d)
        BY <1>1, <1>2, PoppedHist
      <4> QED
        BY <1>1, <2>3, <2>5, <4>1
    <3>4. /\ Hist(stream', told, calls, FALSE) /\ ~Dead(stream')
          /\ Even(y) => Even(stream')
          /\ Due(y) => Due(stream')
          /\ stream'.needDrain = y.needDrain
      BY <1>2, <1>5, <2>1, <2>5, <3>1, <3>2, <3>3, CompleteHist
    <3>5. Due(y)
      <4>1. y.starved = x.starved
        BY DEF Popped, Differs, Fields
      <4> QED
        BY <1>2, <1>3, <1>5, <2>2, <4>1 DEF Due
    <3>6. Even(y)
      <4>1. PICK S : S = {"queue"}
        OBVIOUS
      <4>2. Differs(x, y, S) /\ S \cap (Frame \ {"closeEmitted"}) = {}
        BY <4>1 DEF Popped, Frame
      <4> QED
        BY <1>2, <1>5, <4>2, EvenOn
    <3>7. Dead(stream') = FALSE
      BY <3>4 DEF Dead
    <3> QED
      BY <1>5, <2>1, <3>4, <3>5, <3>6, <3>7 DEF Tells
  <2> QED
    BY <2>4, <2>5
<1>8. CASE e = "close"
  <2>1. told' = told \cup {n} /\ stream' = CloseInvoked(y)
    BY <1>8 DEF ModesOf, InvokedEvent
  <2>2. n = Event("close") /\ n # Event("drain") /\ n # Event("finish")
    BY <1>6, <1>8
  <2>3. y.closeQueued
    BY <1>4, <1>5, <2>2 DEF Recorded
  <2>4. Hist(stream', told', calls, Dead(stream'))
    <3>1. Popped(x, y, Event("close")) /\ told' = told \cup {Event("close")}
      BY <2>1, <2>2
    <3>2. d \in BOOLEAN /\ (d => Dead(x)) /\ calls \in Nat /\ Hist(x, told, calls, d)
      BY <1>1, <1>2
    <3>3. Hist(stream', told \cup {Event("close")}, calls, Dead(stream'))
      BY <2>1, <2>3, <3>1, <3>2, CloseHist
    <3> QED
      BY <3>1, <3>3
  <2>5. Differs(y, stream', {"reservations", "queue", "closeEmitted"}) /\ Line(stream') = Line(y)
    <3>1. PICK a : a = Discarded(y, Events)
      OBVIOUS
    <3>2. Differs(y, a, {"reservations", "queue"}) /\ Typed(a) /\ Line(a) = Line(y)
      BY <1>5, <3>1, DiscardedLine
    <3>3. stream' = [a EXCEPT !.closeEmitted = TRUE]
      BY <2>1, <3>1 DEF CloseInvoked
    <3> QED
      BY <3>2, <3>3 DEF Typed, Differs, Fields, Line
  <2>6. PICK S : S = {"reservations", "queue", "closeEmitted"}
    OBVIOUS
  <2>7. Differs(x, stream', S)
    BY <2>5, <2>6 DEF Popped, Differs
  <2>8. stream'.cancelled = x.cancelled /\ stream'.drainScheduled = x.drainScheduled
        /\ stream'.starved = x.starved
    BY <2>6, <2>7 DEF Differs, Fields
  <2>9. Even(stream') /\ stream'.needDrain = x.needDrain
    <3>1. S \cap (Frame \ {"closeEmitted"}) = {}
      BY <2>6 DEF Frame
    <3> QED
      BY <1>2, <2>7, <2>8, <3>1, EvenOn
  <2>10. Due(stream')
    BY <1>2, <1>3, <2>2, <2>5, <2>8 DEF Due
  <2>11. Heard(n, x, stream')
    BY <2>2 DEF Heard
  <2> QED
    BY <1>3, <2>1, <2>4, <2>9, <2>10, <2>11 DEF Tells
<1>9. CASE e = "error"
  <2>1. told' = told \cup {n} /\ stream' = y
    BY <1>9 DEF ModesOf, InvokedEvent
  <2>2. n # Event("drain") /\ n # Event("close") /\ n # Event("finish")
    BY <1>6, <1>9
  <2>3. Heard(n, x, stream')
    BY <2>2 DEF Heard
  <2> QED
    BY <2>1, <2>2, <2>3, PlainTells
<1>10. CASE e = "drain"
  <2>1. stream' = [y EXCEPT !.drainScheduled = FALSE]
    BY <1>10 DEF InvokedEvent
  <2>2. ~stream'.drainScheduled
    BY <1>5, <2>1 DEF Typed, Fields
  <2>3. n # Event("close") /\ n # Event("finish")
    BY <1>6, <1>10
  <2>4. told' = told \/ (told' = told \cup {n} /\ Heard(n, x, stream'))
    <3>1. CASE x.error \/ x.finishScheduled \/ x.cancelled
      BY <1>5, <1>10, <3>1 DEF ModesOf
    <3>2. CASE ~(x.error \/ x.finishScheduled \/ x.cancelled)
      BY <1>5, <1>10, <2>3, <3>2 DEF ModesOf, Heard
    <3> QED
      BY <3>1, <3>2
  <2> QED
    BY <2>1, <2>2, <2>3, <2>4, PlainTells
<1>11. CASE e = "finish"
  <2>1. /\ n = Event("finish") /\ n # Event("close") /\ n # Event("drain")
    BY <1>6, <1>11
  <2>2. y.finished = x.finished /\ x.finished
    BY <1>4, <1>5, <2>1 DEF Recorded
  <2>3. CASE x.error \/ x.cancelled
    <3>1. stream' = y /\ told' = told
      BY <1>5, <1>11, <2>3 DEF InvokedEvent, ModesOf
    <3> QED
      BY <2>1, <3>1, PlainTells
  <2>4. CASE ~(x.error \/ x.cancelled)
    <3>1. stream' = [y EXCEPT !.finished = TRUE] /\ told' = told \cup {n}
      BY <1>5, <1>11, <2>4 DEF InvokedEvent, ModesOf
    <3>2. /\ stream'.error = x.error /\ stream'.cancelled = x.cancelled
          /\ stream'.closeEmitted = x.closeEmitted
      BY <1>5, <3>1 DEF Typed, Fields
    <3>3. Heard(n, x, stream')
      BY <2>1, <2>4, <3>2 DEF Heard
    <3> QED
      BY <2>1, <2>2, <3>1, <3>3, PlainTells
  <2> QED
    BY <2>3, <2>4
<1> QED
  BY <1>7, <1>8, <1>9, <1>10, <1>11 DEF Events

\* _poll_batch calls the next notification.
LEMMA CallTells ==
  ASSUME NEW x, At(x), x.queue.batch # <<>>, CallNext(x)
  PROVE  Tells(x)
<1>1. PICK n, y : n = Head(x.queue.batch) /\ y = [x EXCEPT !.queue = Dispatched(@)]
  OBVIOUS
<1>2. Popped(x, y, n) /\ n \in Notes
  BY <1>1, PoppedLine DEF At
<1>3. /\ IF n[1] = "event"
           THEN stream' = InvokedEvent(y, n[2]) /\ running' \in ModesOf(y, n[2])
           ELSE stream' = y /\ running' = "user"
      /\ told' = IF running' = "silent" THEN told ELSE told \cup {n}
  BY <1>1 DEF CallNext
<1>4. CASE n[1] = "event"
  <2>1. PICK e \in Events : n = Event(e)
    BY <1>2, <1>4, EventNotes
  <2>2. n[2] = e
    BY <2>1 DEF Event
  <2>3. stream' = InvokedEvent(y, e) /\ running' \in ModesOf(y, e)
    BY <1>3, <1>4, <2>2
  <2> QED
    BY <1>2, <1>3, <2>1, <2>3, EventTells
<1>5. CASE n[1] # "event"
  <2>1. stream' = y /\ told' = told \cup {n}
    BY <1>3, <1>5
  <2>2. n # Event("close") /\ n # Event("drain") /\ n # Event("finish")
    BY <1>5 DEF Event
  <2>3. Heard(n, x, stream')
    BY <2>2 DEF Heard
  <2> QED
    BY <1>2, <2>1, <2>2, <2>3, PlainTells
<1> QED
  BY <1>4, <1>5

\* A step goes on with the history, and tells what is in line at most.
Advances ==
  /\ HInv'
  /\ stream.needDrain /\ ~stream'.needDrain => Announced(stream')
  /\ \/ told' = told
     \/ \E n \in ToSet(Line(stream)) : told' = told \cup {n} /\ Heard(n, stream, stream')

\* An operation tells nothing.
LEMMA OnwardAdvances ==
  ASSUME HInv, Onward, told' = told
  PROVE  Advances
BY DEF HInv, Onward, Passes, Advances

\* Moving the line to the batch, or back, keeps it.
LEMMA MovedFlows ==
  ASSUME NEW x, Kept(x), NEW y, Kept(y), Differs(x, y, {"queue"}), Line(y) = Line(x)
  PROVE  Flows(x, y)
<1>1. Typed(x) /\ Typed(y) /\ Differs(x, y, {"reservations", "queue"})
  BY DEF Kept, Differs
<1>2. Turns(x, y) /\ (Even(x) => Even(y))
  BY <1>1, PlacesTurn
<1> QED
  BY <1>2 DEF Flows

\* poll_streams starts.
LEMMA PollAdvances ==
  ASSUME IInv, HInv, Poll
  PROVE  Advances
<1>1. PICK x : x = [stream EXCEPT !.queue = Started(@)]
  OBVIOUS
<1>2. /\ CallNext(x) /\ calls' = calls
      /\ stream.queue.batch = <<>> /\ stream.queue.pending # <<>>
  BY <1>1 DEF Poll, CanPoll, IInv
<1>3. Kept(stream) /\ Kept(x) /\ Differs(stream, x, {"queue"}) /\ x.queue = Started(stream.queue)
  BY <1>1, <1>2, StartedKeeps DEF IInv, Turned
<1>4. PICK s \in Seq(Notes) : s = stream.queue.pending
  BY <1>3, QueueFields DEF Kept, Typed
<1>5. x.queue.batch = s /\ x.queue.pending = <<>> /\ s # <<>>
  BY <1>2, <1>3, <1>4, QueueFields DEF Kept, Typed, Started
<1>6. Line(x) = Line(stream)
  <2>1. Line(x) = s \o <<>> /\ Line(stream) = <<>> \o s
    BY <1>2, <1>4, <1>5 DEF Line
  <2>2. s \o <<>> = s /\ <<>> \o s = s
    BY <1>4, ConcatEmptySeq
  <2> QED
    BY <2>1, <2>2
<1>7. Flows(stream, x)
  BY <1>3, <1>6, MovedFlows
<1>8. At(x)
  BY <1>3, <1>7 DEF At, Flows, Turns, Passes, HInv, IInv
<1>9. Tells(x)
  BY <1>5, <1>2, <1>8, CallTells
<1>10. /\ x.error = stream.error /\ x.cancelled = stream.cancelled
       /\ x.finishScheduled = stream.finishScheduled /\ x.closeEmitted = stream.closeEmitted
       /\ x.needDrain = stream.needDrain
  BY <1>3 DEF Differs, Fields
<1>11. HInv'
  BY <1>2, <1>9 DEF Tells, HInv
<1>12. \A n : Heard(n, x, stream') => Heard(n, stream, stream')
  BY <1>10 DEF Heard
<1> QED
  BY <1>6, <1>9, <1>10, <1>11, <1>12 DEF Tells, Advances

\* The batch is left: at its end, or when a notification raises.
LEMMA LeftAdvances ==
  ASSUME IInv, HInv, NEW r, r = Retained(stream.queue) \/ (r = Finished(stream.queue)
                                                             /\ stream.queue.batch = <<>>),
         stream' = [stream EXCEPT !.queue = r], calls' = calls, foreign' = foreign, told' = told
  PROVE  Advances
<1>1. Kept(stream) /\ Kept(stream')
  BY LeftKeeps DEF IInv
<1>2. Differs(stream, stream', {"queue"}) /\ stream'.queue = r /\ stream.queue \in Queues
  BY <1>1 DEF Kept, Typed, Differs, Fields
<1>3. PICK s \in Seq(Notes), t \in Seq(Notes) : s = stream.queue.batch /\ t = stream.queue.pending
  BY <1>2, QueueFields
<1>4. Line(stream') = Line(stream)
  <2>1. CASE r = Retained(stream.queue)
    <3>1. r.batch = <<>> /\ r.pending = s \o t
      BY <1>2, <1>3, <2>1, QueueFields DEF Retained
    <3>2. <<>> \o (s \o t) = s \o t
      BY <1>3, ConcatEmptySeq
    <3> QED
      BY <1>2, <1>3, <3>1, <3>2 DEF Line
  <2>2. CASE r = Finished(stream.queue)
    <3>1. r.batch = s /\ r.pending = t
      BY <1>2, <1>3, <2>2, QueueFields DEF Finished
    <3> QED
      BY <1>2, <1>3, <3>1 DEF Line
  <2> QED
    BY <2>1, <2>2
<1>5. Flows(stream, stream')
  BY <1>1, <1>2, <1>4, MovedFlows
<1> QED
  BY <1>5, FlowOnward, OnwardAdvances

\* A notification returns.
LEMMA ReturnAdvances ==
  ASSUME IInv, HInv, Return
  PROVE  Advances
<1>1. calls' = calls /\ foreign' = foreign
  BY DEF Return
<1>2. CASE stream.queue.batch # <<>> /\ CallNext(stream)
  <2>1. At(stream)
    BY DEF At, HInv, IInv
  <2>2. Tells(stream)
    BY <1>2, <2>1, CallTells
  <2> QED
    BY <1>1, <2>2 DEF Tells, Advances, HInv
<1>3. CASE /\ stream.queue.batch = <<>> /\ stream' = [stream EXCEPT !.queue = Finished(@)]
           /\ told' = told
  BY <1>1, <1>3, LeftAdvances
<1> QED
  BY <1>2, <1>3 DEF Return

\* A notification raises.
LEMMA RaiseAdvances ==
  ASSUME IInv, HInv, Raise
  PROVE  Advances
<1>1. /\ stream' = [stream EXCEPT !.queue = Retained(@)] /\ calls' = calls
      /\ foreign' = foreign /\ told' = told
  BY DEF Raise
<1> QED
  BY <1>1, LeftAdvances

\* A new stream has told nothing and queued nothing.
LEMMA InitHistory ==
  ASSUME Init
  PROVE  HInv
<1>1. PICK e, a, f : stream = NewStream(e, a, f)
  BY DEF Init
<1>2. /\ stream.chunks = <<>> /\ stream.endCompletions = <<>>
      /\ stream.sink = <<>> /\ stream.accepted = <<>>
      /\ stream.cancelled = FALSE /\ stream.closeEmitted = FALSE
      /\ stream.finishScheduled = FALSE /\ stream.finished = FALSE
      /\ stream.closed = FALSE /\ stream.failed = FALSE /\ stream.needDrain = FALSE
      /\ stream.error = FALSE /\ stream.drainScheduled = FALSE
      /\ stream.corked = 0 /\ stream.buffered = 0
      /\ stream.queue = EmptyQueue
  BY <1>1 DEF NewStream
<1>3. EmptyQueue.batch = <<>> /\ EmptyQueue.pending = <<>>
  BY DEF EmptyQueue
<1>4. <<>> \in Seq(Notes) /\ <<>> \in Seq(Nat) /\ Len(<<>>) = 0 /\ <<>> \o <<>> = <<>>
  OBVIOUS
<1>5. Line(stream) = <<>>
  BY <1>2, <1>3, <1>4 DEF Line
<1>6. ToSet(Line(stream)) = {} /\ told = {} /\ Len(Line(stream)) = 0
  <2>1. ToSet(<<>>) = {}
    BY DEF ToSet
  <2> QED
    BY <1>4, <1>5, <2>1 DEF Init
<1>7. Row(told, Line(stream), Dead(stream)) /\ Over(stream, told)
  BY <1>2, <1>6 DEF Row, Over
<1>8. Stocked(stream, calls)
  BY <1>2, <1>4 DEF Stocked, Rising
<1>9. Hist(stream, told, calls, Dead(stream))
  BY <1>6, <1>7, <1>8 DEF Hist
<1>10. Due(stream) /\ Waits(stream) /\ Shut(stream)
  BY <1>2 DEF Due, Waits, Shut
<1>11. Sums(stream)
  BY <1>2, <1>4, BytesEmpty DEF Sums
<1> QED
  BY <1>9, <1>10, <1>11 DEF HInv, Even

\* Every action goes on with the history.
LEMMA NextAdvances ==
  ASSUME IInv, HInv, [Next]_vars
  PROVE  Advances
<1>1. CASE UNCHANGED vars
  <2>1. stream' = stream /\ told' = told /\ calls' = calls
    BY <1>1 DEF vars
  <2>2. HInv'
    BY <2>1 DEF HInv
  <2> QED
    BY <2>1, <2>2 DEF Advances
<1>2. ASSUME NEW size \in Sizes, NEW callback \in BOOLEAN, Write(size, callback) PROVE Advances
  <2>1. Onward
    BY <1>2, WriteOnward
  <2> QED
    BY <1>2, <2>1, OnwardAdvances DEF Write
<1>3. ASSUME NEW chunk \in {<<>>} \cup {<<n>> : n \in Sizes}, NEW callback \in BOOLEAN,
             End(chunk, callback)
      PROVE  Advances
  <2>1. Onward
    BY <1>3, EndOnward
  <2> QED
    BY <1>3, <2>1, OnwardAdvances DEF End
<1>4. CASE Close
  BY <1>4, CloseOnward, OnwardAdvances DEF Close
<1>5. ASSUME NEW error \in BOOLEAN, Destroy(error) PROVE Advances
  <2>1. Onward
    BY <1>5, DestroyOnward
  <2> QED
    BY <1>5, <2>1, OnwardAdvances DEF Destroy
<1>6. CASE Cork
  BY <1>6, CorkOnward, OnwardAdvances DEF Cork
<1>7. CASE Uncork
  BY <1>7, UncorkOnward, OnwardAdvances DEF Uncork
<1>8. CASE Foreign
  BY <1>8, ForeignOnward, OnwardAdvances DEF Foreign
<1> QED
  BY <1>1, <1>2, <1>3, <1>4, <1>5, <1>6, <1>7, <1>8, PollAdvances, ReturnAdvances,
     RaiseAdvances DEF Next
-----------------------------------------------------------------------------
\* For every chunk size, high-water mark, capacity and bound of the model: what was
\* told, is queued and is still to come is in order and true of the stream, a drain
\* that is scheduled is in line, and the chunks and bytes add up.
THEOREM History == Spec => []HInv
<1>1. Init => IInv /\ HInv
  BY InitKeeps, InitHistory
<1>2. IInv /\ HInv /\ [Next]_vars => IInv' /\ HInv'
  BY NextKeeps, NextAdvances DEF Advances
<1> QED
  BY <1>1, <1>2, PTL DEF Spec

\* The release of backpressure is never lost: where _flush takes the last chunk and
\* resets need_drain, the drain event is in line behind it, or the end or failure of
\* the stream is, in every interleaving of operations, polls and raising listeners.
THEOREM DrainKept == Spec => DrainNotLost
<1>1. ASSUME IInv, HInv, [Next]_vars
      PROVE  /\ stream'.needDrain =>
                  stream'.corked > 0 \/ stream'.descriptor = "none" \/ stream'.failed
             /\ stream.needDrain /\ ~stream'.needDrain =>
                  \/ Event("drain") \in InQueue'
                  \/ stream'.finishScheduled \/ stream'.error \/ stream'.cancelled
  <2>1. Advances /\ ~stream'.starved
    BY <1>1, NextAdvances, NextKeeps DEF IInv, Kept, Promised
  <2>2. Waits(stream')
    BY <2>1 DEF Advances, HInv, Even
  <2>3. InQueue' = ToSet(Line(stream'))
    BY DEF InQueue, Line
  <2>4. stream.needDrain /\ ~stream'.needDrain => Announced(stream')
    BY <2>1 DEF Advances
  <2> QED
    BY <2>1, <2>2, <2>3, <2>4 DEF Waits, Announced
<1>2. IInv /\ HInv /\ [Next]_vars =>
        [/\ stream'.needDrain =>
              stream'.corked > 0 \/ stream'.descriptor = "none" \/ stream'.failed
         /\ stream.needDrain /\ ~stream'.needDrain =>
              \/ Event("drain") \in InQueue'
              \/ stream'.finishScheduled \/ stream'.error \/ stream'.cancelled]_vars
  BY <1>1
<1> QED
  BY <1>2, Inductive, History, PTL DEF Spec, DrainNotLost

\* No notification is called twice: a callback leaves the line when it is called and
\* no later call repeats its number, and error, finish and close are queued once.
THEOREM ToldOnce == Spec => CalledOnce
<1>1. ASSUME IInv, HInv, [Next]_vars, NEW n \in Notifications,
             n # Event("drain"), n \in told
      PROVE  n \notin InQueue'
  <2>1. Advances /\ IInv'
    BY <1>1, NextAdvances, NextKeeps
  <2>2. n \in told'
    BY <1>1, <2>1 DEF Advances
  <2>3. PICK d : d = Dead(stream')
    OBVIOUS
  <2>4. Row(told', Line(stream'), d) /\ Line(stream') \in Seq(Notes)
    BY <2>1, <2>3, LineTyped DEF Advances, HInv, Hist, IInv, Kept
  <2>5. InQueue' = ToSet(Line(stream'))
    BY DEF InQueue, Line
  <2>6. ASSUME n \in ToSet(Line(stream')) PROVE FALSE
    <3>1. Before(n, n, d)
      BY <2>2, <2>4, <2>6, Members DEF Row
    <3>2. CASE n \in {"event"} \X Events
      BY <1>1, <3>1, <3>2 DEF Before
    <3>3. CASE n \in {"write", "end"} \X (1..MaxCalls) \X BOOLEAN
      <4>1. n[1] \in {"write", "end"} /\ n[2] \in Int
        BY <3>3
      <4> QED
        BY <3>1, <4>1 DEF Before
    <3> QED
      BY <3>2, <3>3 DEF Notifications
  <2> QED
    BY <2>5, <2>6
<1>2. IInv /\ HInv /\ [Next]_vars =>
        [\A n \in Notifications : n # Event("drain") /\ n \in told => n \notin InQueue']_vars
  BY <1>1
<1> QED
  BY <1>2, Inductive, History, PTL DEF Spec, CalledOnce

\* The order user code sees: write callbacks in call order, finish when no write
\* callback is left to call, and neither finish nor drain after error or close.
THEOREM ToldInOrder == Spec => OrderSeen
<1>1. ASSUME IInv, HInv, [Next]_vars, NEW n \in told' \ told
      PROVE  /\ n[1] = "write" => \A m \in told : m[1] = "write" => m[2] < n[2]
             /\ n[1] = "event" /\ n[2] \in {"finish", "drain"} =>
                  told \cap {Event("error"), Event("close")} = {}
             /\ n = Event("finish") => \A m \in InQueue' : m[1] # "write"
  <2>1. Advances /\ IInv'
    BY <1>1, NextAdvances, NextKeeps
  <2>2. /\ n \in ToSet(Line(stream)) /\ told' = told \cup {n}
        /\ Heard(n, stream, stream')
    BY <1>1, <2>1 DEF Advances
  <2>3. PICK d : d = Dead(stream)
    OBVIOUS
  <2>4. /\ Row(told, Line(stream), d) /\ Line(stream) \in Seq(Notes) /\ Typed(stream)
        /\ \A m \in told \cup ToSet(Line(stream)) : m \in Notes /\ Recorded(m, stream, calls)
        /\ Over(stream, told) /\ (stream.finished => stream.finishScheduled)
    BY <1>1, <2>3, LineTyped DEF HInv, Hist, Stocked, IInv, Kept
  <2>5. \A m \in told : Before(m, n, d)
    BY <2>2, <2>4, Members DEF Row
  <2>6. n[1] = "write" => \A m \in told : m[1] = "write" => m[2] < n[2]
    BY <2>5 DEF Before
  <2>7. ASSUME n \in {Event("finish"), Event("drain")}
        PROVE  told \cap {Event("error"), Event("close")} = {}
    <3>1. ~stream.error /\ ~stream.cancelled
      BY <2>2, <2>7 DEF Heard
    <3>2. Event("error") \notin told
      <4>1. Event("error") \in told => Recorded(Event("error"), stream, calls)
        BY <2>4
      <4> QED
        BY <3>1, <4>1 DEF Recorded
    <3>3. Event("close") \notin told
      <4>1. CASE n = Event("finish")
        BY <2>2, <2>4, <3>1, <4>1 DEF Over
      <4>2. CASE n = Event("drain")
        BY <2>2, <2>4, <3>1, <4>2 DEF Over, Heard
      <4> QED
        BY <2>7, <4>1, <4>2
    <3> QED
      BY <3>2, <3>3
  <2>8. n[1] = "event" /\ n[2] \in {"finish", "drain"} => n \in {Event("finish"), Event("drain")}
    <3>1. n \in Notes
      BY <2>2, <2>4
    <3>2. ASSUME n[1] = "event", n[2] \in {"finish", "drain"}
          PROVE  n \in {Event("finish"), Event("drain")}
      <4>1. PICK e \in Events : n = Event(e)
        BY <3>1, <3>2, EventNotes
      <4>2. e = n[2]
        BY <4>1 DEF Event
      <4> QED
        BY <3>2, <4>1, <4>2
    <3> QED
      BY <3>2
  <2>9. ASSUME n = Event("finish"), NEW m \in ToSet(Line(stream')) PROVE m[1] # "write"
    <3>1. ~Dead(stream')
      BY <2>2, <2>4, <2>9 DEF Heard, Over, Dead
    <3>2. PICK f : f = Dead(stream')
      OBVIOUS
    <3>3. Row(told', Line(stream'), f) /\ Line(stream') \in Seq(Notes)
      BY <2>1, <3>2, LineTyped DEF Advances, HInv, Hist, IInv, Kept
    <3>4. Before(n, m, f)
      BY <2>2, <2>9, <3>3, Members DEF Row
    <3> QED
      BY <2>9, <3>1, <3>2, <3>4 DEF Before
  <2>10. InQueue' = ToSet(Line(stream'))
    BY DEF InQueue, Line
  <2> QED
    BY <2>6, <2>7, <2>8, <2>9, <2>10
<1>2. IInv /\ HInv /\ [Next]_vars =>
        [\A n \in told' \ told :
           /\ n[1] = "write" => \A m \in told : m[1] = "write" => m[2] < n[2]
           /\ n[1] = "event" /\ n[2] \in {"finish", "drain"} =>
                told \cap {Event("error"), Event("close")} = {}
           /\ n = Event("finish") => \A m \in InQueue' : m[1] # "write"]_vars
  BY <1>1
<1> QED
  BY <1>2, Inductive, History, PTL DEF Spec, OrderSeen

\* Two lists of numbers, the first a prefix of the second.
LEMMA Prefix ==
  ASSUME NEW s \in Seq(Nat), NEW t \in Seq(Nat), Len(s) <= Len(t),
         \A i \in 1..Len(s) : s[i] = t[i]
  PROVE  IsPrefix(s, t) /\ (Len(s) = Len(t) => s = t)
<1>1. PICK m \in Nat : m = Len(s)
  OBVIOUS
<1>2. PICK a, b : a = SubSeq(s, 1, m) /\ b = SubSeq(t, 1, m)
  OBVIOUS
<1>3. (\A i \in 1..m : s[i] \in Nat) /\ (\A i \in 1..m : t[i] \in Nat) /\ m \in Int /\ 1 \in Int
  BY <1>1
<1>4. /\ a \in Seq(Nat) /\ Len(a) = IF 1 <= m THEN m - 1 + 1 ELSE 0
      /\ \A i \in 1..(m - 1 + 1) : a[i] = s[1 + i - 1]
  BY <1>2, <1>3, SubSeqProperties
<1>5. /\ b \in Seq(Nat) /\ Len(b) = IF 1 <= m THEN m - 1 + 1 ELSE 0
      /\ \A i \in 1..(m - 1 + 1) : b[i] = t[1 + i - 1]
  BY <1>2, <1>3, SubSeqProperties
<1>6. Len(a) = m /\ Len(b) = m /\ \A i \in 1..m : a[i] = s[i] /\ b[i] = t[i]
  BY <1>1, <1>4, <1>5
<1>7. a = b
  BY <1>1, <1>4, <1>5, <1>6, SeqEqual
<1>8. Len(s) = Len(t) => s = t
  BY SeqEqual
<1> QED
  BY <1>1, <1>2, <1>7, <1>8 DEF IsPrefix

\* A list of numbers that is made of two.
LEMMA Joined ==
  ASSUME NEW s \in Seq(Nat), NEW t \in Seq(Nat), NEW u \in Seq(Nat),
         Len(u) = Len(s) + Len(t), \A i \in 1..Len(s) : u[i] = s[i],
         \A i \in 1..Len(t) : u[Len(s) + i] = t[i]
  PROVE  u = s \o t
<1>1. PICK v \in Seq(Nat) : v = s \o t
  BY ConcatProperties
<1>2. PICK m \in Nat, l \in Nat : m = Len(s) /\ l = Len(t)
  OBVIOUS
<1>3. /\ Len(v) = m + l
      /\ \A i \in 1..(m + l) : v[i] = IF i <= m THEN s[i] ELSE t[i - m]
  BY <1>1, <1>2, ConcatProperties
<1>4. ASSUME NEW i \in 1..(m + l) PROVE u[i] = v[i]
  <2>1. CASE i <= m
    BY <1>2, <1>3, <2>1
  <2>2. CASE ~(i <= m)
    <3>1. i - m \in 1..l /\ m + (i - m) = i
      BY <1>2, <2>2
    <3>2. u[m + (i - m)] = t[i - m]
      BY <1>2, <3>1
    <3> QED
      BY <1>3, <2>2, <3>1, <3>2
  <2> QED
    BY <2>1, <2>2
<1>5. Len(u) = m + l /\ \A i \in 1..Len(u) : u[i] = v[i]
  BY <1>2, <1>4
<1>6. u = v
  BY <1>1, <1>3, <1>5, SeqEqual
<1> QED
  BY <1>1, <1>6

\* What is reported is true: the descriptor took the accepted chunks in call order,
\* without gap or repetition, buffered_bytes is what it did not take, a write
\* callback reports success exactly for a chunk it took, and the success of end, like
\* finish, means that it took them all.
THEOREM ToldTrue == Spec => []ReportsTrue
<1>1. ASSUME IInv, HInv PROVE ReportsTrue
  <2>1. PICK sink \in Seq(Nat), accepted \in Seq(Nat), chunks \in Seq(Chunk) :
          sink = stream.sink /\ accepted = stream.accepted /\ chunks = stream.chunks
    BY <1>1 DEF HInv, Hist, Stocked, IInv, Kept, Typed
  <2>2. /\ Stocked(stream, calls) /\ Sums(stream) /\ Line(stream) \in Seq(Notes)
        /\ \A n \in told \cup ToSet(Line(stream)) : n \in Notes /\ Recorded(n, stream, calls)
    BY <1>1, LineTyped DEF HInv, Hist, Even, IInv, Kept
  <2>3. Len(sink) <= Len(accepted) /\ \A i \in 1..Len(sink) : sink[i] = accepted[i]
    BY <2>1, <2>2 DEF Stocked
  <2>4. IsPrefix(sink, accepted) /\ (Len(sink) = Len(accepted) => sink = accepted)
    BY <2>1, <2>3, Prefix
  <2>5. stream.finished => sink = accepted
    BY <2>1, <2>2, <2>4 DEF Stocked
  <2>6. ASSUME ~stream.failed, ~stream.cancelled
        PROVE  accepted = sink \o [i \in DOMAIN chunks |-> chunks[i].id]
    <3>1. PICK l \in Nat : l = Len(chunks)
      BY <2>1, LenProperties
    <3>2. DOMAIN chunks = 1..l /\ \A i \in 1..l : chunks[i] \in Chunk
      BY <2>1, <3>1, LenProperties
    <3>3. \A i \in 1..l : chunks[i].id \in Nat
      BY <3>2 DEF Chunk
    <3>4. PICK ids \in [1..l -> Nat] : ids = [i \in DOMAIN chunks |-> chunks[i].id]
      BY <3>2, <3>3
    <3>5. ids \in Seq(Nat) /\ Len(ids) = l /\ \A i \in 1..l : ids[i] = chunks[i].id
      BY <3>1, <3>2, <3>4
    <3>6. Len(accepted) = Len(sink) + l /\ \A i \in 1..l : accepted[Len(sink) + i] = ids[i]
      BY <2>1, <2>2, <2>6, <3>1, <3>5 DEF Stocked
    <3>7. accepted = sink \o ids
      BY <2>1, <2>3, <3>5, <3>6, Joined
    <3> QED
      BY <3>4, <3>7
  <2>7. ASSUME NEW n \in InQueue \cup told
        PROVE  /\ n[1] = "write" => (n[3] <=> n[2] \notin ToSet(stream.sink))
               /\ n[1] = "end" /\ ~n[3] => stream.sink = stream.accepted
               /\ n = Event("finish") => stream.sink = stream.accepted
    <3>1. Recorded(n, stream, calls)
      BY <2>2 DEF InQueue, Line
    <3> QED
      BY <2>1, <2>5, <3>1 DEF Recorded
  <2> QED
    BY <2>1, <2>2, <2>4, <2>6, <2>7 DEF ReportsTrue, Sums
<1> QED
  BY <1>1, Inductive, History, PTL
=============================================================================
