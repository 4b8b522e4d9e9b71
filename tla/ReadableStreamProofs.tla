------------------------ MODULE ReadableStreamProofs ------------------------
(***************************************************************************)
(* What a Readable promises whatever it is asked to do: its data leaves it *)
(* in order (ReadInOrder), its lifecycle events have their places in the   *)
(* shared queue (NeverStarved), the event loop does not forget it while it *)
(* flows (KeptByLoop), and its destinations get what they are due          *)
(* (PipesComplete); for any amount of data, any destinations, listeners    *)
(* and capacity.                                                           *)
(*                                                                         *)
(* NeverStarved is not inductive.  An abort inside a poll prepares again,  *)
(* when the queue may be full: it finds its places because a stream that   *)
(* was activated once keeps, for each event, the place or the mark that    *)
(* the event is queued (Primed), up to its close event.  That a poll meets *)
(* no other stream rests on KeptByLoop and on what activates a stream      *)
(* (Placed).  A prepare that has nothing to reserve passes because the     *)
(* counters never exceed the limit (Queues).                               *)
(*                                                                         *)
(* The methods are functions of a stream value, and there is one lemma for *)
(* each of them.                                                           *)
(***************************************************************************)
EXTENDS ReadableStream, FiniteSetTheorems, SequenceTheorems, TLAPS

\* The fields of a stream value.
Fields ==
  {"descriptor", "autoClose", "ranged", "chunkSize", "buffer", "got", "paused", "flowing",
   "ended", "closed", "failed", "eof", "asynchronous", "native", "pipes", "registered",
   "resumePending", "readablePending", "onData", "onReadable", "error", "endQueued",
   "endTold", "closeQueued", "closeTold", "reservations", "queue", "others", "starved"}

\* y is a stream value that differs from x in the fields S at most.
Differs(x, y, S) == DOMAIN y = Fields /\ \A f \in Fields \ S : y[f] = x[f]

Notes == ({"event"} \X Events) \cup ({"pipe"} \X Sinks)

\* A queue that holds no more than it may.
Queues ==
  {q \in [pending : Seq(Notes), batch : Seq(Notes), committed : Int, reserved : Int,
          polling : BOOLEAN] : q.committed + q.reserved <= Limit}

\* The notifications in the queue: the close event, an end for a destination.
Members(q) == ToSet(q.batch) \cup ToSet(q.pending)
Closing == <<"event", "close">>
HasClose(q) == Closing \in Members(q)
HasPipe(q) == \E d \in Sinks : <<"pipe", d>> \in Members(q)
-----------------------------------------------------------------------------
(***************************************************************************)
(* The queue.                                                              *)
(***************************************************************************)

\* What is in a list behind another, or left of a list.
LEMMA ListsIn ==
  ASSUME NEW s \in Seq(Notes)
  PROVE  /\ \A n \in Notes : /\ Append(s, n) \in Seq(Notes)
                             /\ ToSet(Append(s, n)) \subseteq ToSet(s) \cup {n}
         /\ \A t \in Seq(Notes) : /\ s \o t \in Seq(Notes)
                                  /\ ToSet(s \o t) \subseteq ToSet(s) \cup ToSet(t)
         /\ s # <<>> =>
              /\ Tail(s) \in Seq(Notes) /\ ToSet(Tail(s)) \subseteq ToSet(s)
              /\ Head(s) \in Notes /\ Head(s) \in ToSet(s)
<1>0. \A u \in Seq(Notes) : ToSet(u) = {u[i] : i \in 1..Len(u)}
  BY LenProperties DEF ToSet
<1>1. ASSUME NEW n \in Notes
      PROVE  Append(s, n) \in Seq(Notes) /\ ToSet(Append(s, n)) \subseteq ToSet(s) \cup {n}
  <2> DEFINE t == Append(s, n)
  <2>1. /\ t \in Seq(Notes) /\ Len(t) = Len(s) + 1 /\ Len(s) \in Nat
        /\ \A i \in 1..Len(s) : t[i] = s[i]
        /\ t[Len(s) + 1] = n
    BY AppendProperties
  <2> HIDE DEF t
  <2>2. ToSet(t) \subseteq ToSet(s) \cup {n}
    BY <1>0, <2>1
  <2> QED
    BY <2>1, <2>2 DEF t
<1>2. ASSUME NEW t \in Seq(Notes)
      PROVE  s \o t \in Seq(Notes) /\ ToSet(s \o t) \subseteq ToSet(s) \cup ToSet(t)
  <2> DEFINE u == s \o t
  <2>1. /\ u \in Seq(Notes) /\ Len(u) = Len(s) + Len(t) /\ Len(s) \in Nat /\ Len(t) \in Nat
        /\ \A i \in 1..Len(s) : u[i] = s[i]
        /\ \A i \in (Len(s) + 1)..Len(u) : u[i] = t[i - Len(s)] /\ i - Len(s) \in 1..Len(t)
    BY ConcatProperties
  <2> HIDE DEF u
  <2>2. \A i \in 1..Len(u) : i \in 1..Len(s) \/ i \in (Len(s) + 1)..Len(u)
    BY <2>1
  <2>3. ToSet(u) \subseteq ToSet(s) \cup ToSet(t)
    BY <1>0, <2>1, <2>2
  <2> QED
    BY <2>1, <2>3 DEF u
<1>3. ASSUME s # <<>>
      PROVE  /\ Tail(s) \in Seq(Notes) /\ ToSet(Tail(s)) \subseteq ToSet(s)
             /\ Head(s) \in Notes /\ Head(s) \in ToSet(s)
  <2> DEFINE t == Tail(s)
  <2>1. /\ t \in Seq(Notes) /\ Len(t) = Len(s) - 1 /\ Len(s) \in Nat \ {0} /\ Head(s) \in Notes
        /\ \A i \in 1..Len(t) : t[i] = s[i + 1]
        /\ Head(s) = s[1]
    BY <1>3, HeadTailProperties
  <2> HIDE DEF t
  <2>2. \A i \in 1..Len(t) : i + 1 \in 1..Len(s)
    BY <2>1
  <2>3. 1 \in 1..Len(s)
    BY <2>1
  <2>4. ToSet(t) \subseteq ToSet(s) /\ Head(s) \in ToSet(s)
    BY <1>0, <2>1, <2>2, <2>3
  <2> QED
    BY <2>1, <2>4 DEF t
<1> QED
  BY <1>1, <1>2, <1>3

\* A queue value is made of its fields.
LEMMA QueueFields ==
  ASSUME NEW q \in Queues
  PROVE  /\ q.pending \in Seq(Notes) /\ q.batch \in Seq(Notes) /\ q.committed \in Int
         /\ q.reserved \in Int /\ q.polling \in BOOLEAN
         /\ DOMAIN q = {"pending", "batch", "committed", "reserved", "polling"}
         /\ q.committed + q.reserved <= Limit
BY DEF Queues

\* A value with these fields is a queue.
LEMMA QueueMade ==
  ASSUME NEW r, r = [f \in DOMAIN r |-> r[f]],
         DOMAIN r = {"pending", "batch", "committed", "reserved", "polling"},
         r.pending \in Seq(Notes), r.batch \in Seq(Notes), r.committed \in Int,
         r.reserved \in Int, r.polling \in BOOLEAN, r.committed + r.reserved <= Limit
  PROVE  r \in Queues
BY DEF Queues

\* r is a queue with no notification that q has not.
After(q, r) == r \in Queues /\ Members(r) \subseteq Members(q)

\* Places are taken and given back.
LEMMA PlacesAfter ==
  ASSUME NEW q \in Queues, NEW n \in Nat
  PROVE  /\ HasRoomFor(q, n) => After(q, ReservedAll(q, n))
         /\ After(q, ReleasedAll(q, n))
         /\ HasCapacity(q) => After(q, Reserved(q)) /\ Reserved(q).committed = q.committed
                              /\ Reserved(q).reserved = q.reserved + 1
         /\ After(q, Released(q))
<1>1. ASSUME NEW m \in Int, q.committed + m <= Limit, NEW r, r = [q EXCEPT !.reserved = m]
      PROVE  After(q, r)
  <2>1. /\ DOMAIN r = DOMAIN q /\ r = [f \in DOMAIN r |-> r[f]]
        /\ r.pending = q.pending /\ r.batch = q.batch /\ r.committed = q.committed
        /\ r.reserved = m /\ r.polling = q.polling
    BY <1>1, QueueFields
  <2>2. r \in Queues
    BY <1>1, <2>1, QueueFields, QueueMade
  <2> QED
    BY <2>1, <2>2 DEF After, Members
<1>2. /\ q.committed \in Int /\ q.reserved \in Int /\ q.committed + q.reserved <= Limit
      /\ Limit \in Int
  BY QueueFields, LimitAssumption
<1>3. HasRoomFor(q, n) => After(q, ReservedAll(q, n))
  BY <1>1, <1>2 DEF HasRoomFor, ReservedAll
<1>4. After(q, ReleasedAll(q, n))
  BY <1>1, <1>2 DEF ReleasedAll
<1>5. HasCapacity(q) => After(q, Reserved(q))
  BY <1>1, <1>2 DEF HasCapacity, Reserved
<1>6. Reserved(q).committed = q.committed /\ Reserved(q).reserved = q.reserved + 1
  BY QueueFields DEF Reserved
<1>7. After(q, Released(q))
  BY <1>1, <1>2 DEF Released
<1> QED
  BY <1>3, <1>4, <1>5, <1>6, <1>7

\* A notification is committed.
LEMMA CommitAfter ==
  ASSUME NEW q \in Queues, NEW n \in Notes
  PROVE  /\ Committed(q, n) \in Queues
         /\ Members(Committed(q, n)) \subseteq Members(q) \cup {n}
<1> DEFINE r == Committed(q, n)
<1>1. /\ DOMAIN r = DOMAIN q /\ r = [f \in DOMAIN r |-> r[f]]
      /\ r.pending = Append(q.pending, n) /\ r.batch = q.batch
      /\ r.committed = q.committed + 1 /\ r.reserved = q.reserved - 1
      /\ r.polling = q.polling
  BY QueueFields DEF Committed
<1>2. Append(q.pending, n) \in Seq(Notes) /\ ToSet(Append(q.pending, n)) \subseteq ToSet(q.pending) \cup {n}
  BY QueueFields, ListsIn
<1> HIDE DEF r
<1>3. r.committed + r.reserved <= Limit /\ r.committed \in Int /\ r.reserved \in Int
  BY <1>1, QueueFields, LimitAssumption
<1>4. r \in Queues
  BY <1>1, <1>2, <1>3, QueueFields, QueueMade
<1> QED
  BY <1>1, <1>2, <1>4 DEF Members, r

\* The steps of a poll.
LEMMA PollAfter ==
  ASSUME NEW q \in Queues
  PROVE  /\ After(q, Started(q)) /\ Started(q).batch = q.pending
         /\ q.batch # <<>> =>
              /\ After(q, Dispatched(q))
              /\ Head(q.batch) \in Notes /\ Head(q.batch) \in Members(q)
         /\ After(q, Finished(q)) /\ After(q, Retained(q))
<1>1. /\ q.committed \in Int /\ q.reserved \in Int /\ q.committed + q.reserved <= Limit
      /\ Limit \in Int
  BY QueueFields, LimitAssumption
<1>2. ToSet(<<>>) = {} /\ <<>> \in Seq(Notes)
  BY DEF ToSet
<1>3. After(q, Started(q)) /\ Started(q).batch = q.pending
  <2> DEFINE r == Started(q)
  <2>1. /\ DOMAIN r = DOMAIN q /\ r = [f \in DOMAIN r |-> r[f]]
        /\ r.pending = <<>> /\ r.batch = q.pending /\ r.committed = q.committed
        /\ r.reserved = q.reserved /\ r.polling = TRUE
    BY QueueFields DEF Started
  <2> HIDE DEF r
  <2>2. r \in Queues
    BY <1>1, <1>2, <2>1, QueueFields, QueueMade
  <2> QED
    BY <1>2, <2>1, <2>2 DEF After, Members, r
<1>4. ASSUME q.batch # <<>>
      PROVE  /\ After(q, Dispatched(q))
             /\ Head(q.batch) \in Notes /\ Head(q.batch) \in Members(q)
  <2> DEFINE r == Dispatched(q)
             s == q.batch
  <2>1. /\ DOMAIN r = DOMAIN q /\ r = [f \in DOMAIN r |-> r[f]]
        /\ r.pending = q.pending /\ r.batch = Tail(s) /\ r.committed = q.committed - 1
        /\ r.reserved = q.reserved /\ r.polling = q.polling
    BY QueueFields DEF Dispatched
  <2>2. s \in Seq(Notes) /\ s # <<>>
    BY <1>4, QueueFields
  <2>3. /\ Tail(s) \in Seq(Notes) /\ ToSet(Tail(s)) \subseteq ToSet(s)
        /\ Head(s) \in Notes /\ Head(s) \in ToSet(s)
    BY <2>2, ListsIn
  <2> HIDE DEF r
  <2>4. r.committed \in Int /\ r.committed + r.reserved <= Limit
    BY <1>1, <2>1
  <2>5. r \in Queues
    BY <2>1, <2>3, <2>4, QueueFields, QueueMade
  <2> QED
    BY <2>1, <2>3, <2>5 DEF After, Members, r
<1>5. After(q, Finished(q))
  <2> DEFINE r == Finished(q)
  <2>1. /\ DOMAIN r = DOMAIN q /\ r = [f \in DOMAIN r |-> r[f]]
        /\ r.pending = q.pending /\ r.batch = q.batch /\ r.committed = q.committed
        /\ r.reserved = q.reserved /\ r.polling = FALSE
    BY QueueFields DEF Finished
  <2> HIDE DEF r
  <2>2. r \in Queues
    BY <1>1, <2>1, QueueFields, QueueMade
  <2> QED
    BY <2>1, <2>2 DEF After, Members, r
<1>6. After(q, Retained(q))
  <2> DEFINE r == Retained(q)
             s == q.batch
             t == q.pending
  <2>1. /\ DOMAIN r = DOMAIN q /\ r = [f \in DOMAIN r |-> r[f]]
        /\ r.pending = s \o t /\ r.batch = <<>> /\ r.committed = q.committed
        /\ r.reserved = q.reserved /\ r.polling = FALSE
    BY QueueFields DEF Retained
  <2>2. s \in Seq(Notes) /\ t \in Seq(Notes)
    BY QueueFields
  <2>3. s \o t \in Seq(Notes) /\ ToSet(s \o t) \subseteq ToSet(s) \cup ToSet(t)
    BY <2>2, ListsIn
  <2> HIDE DEF r
  <2>4. r \in Queues
    BY <1>1, <1>2, <2>1, <2>3, QueueFields, QueueMade
  <2> QED
    BY <1>2, <2>1, <2>3, <2>4 DEF After, Members, r
<1> QED
  BY <1>3, <1>4, <1>5, <1>6
-----------------------------------------------------------------------------
(***************************************************************************)
(* What is true of a stream value x, when r is what was read from it.      *)
(***************************************************************************)

\* A native read: none, under way, or its result.
Natives == {"none", "pending", "unit", "eof", "error"}

Typed(x) ==
  /\ DOMAIN x = Fields
  /\ x.queue \in Queues
  /\ x.buffer \in Seq(Nat) /\ x.got \in Nat
  /\ x.reservations \in SUBSET Events
  /\ x.native \in Natives

\* Every event that can still happen has its place.
Primed(x) ==
  \/ x.closeTold
  \/ /\ x.endQueued \/ "end" \in x.reservations
     /\ x.error \/ "error" \in x.reservations
     /\ x.closeQueued \/ "close" \in x.reservations

\* A stream that the loop polls was activated, and one that was activated is
\* primed.
Placed(x) ==
  /\ ~x.starved
  /\ x.closeTold => x.closeQueued
  /\ HasClose(x.queue) => x.closeQueued
  /\ x.asynchronous => Primed(x)
  /\ x.registered \/ x.onData \/ x.onReadable \/ x.pipes # {} \/ x.native # "none"
       => x.asynchronous

\* KeptByLoop, of x.
Looped(x) ==
  x.flowing /\ ~x.paused /\ ~x.ended /\ ~x.closed /\ ~x.failed => x.registered

\* ReadInOrder, of x and r.
Ordered(x, r) ==
  /\ r \in Seq(Nat) /\ Len(r) <= x.got
  /\ \A i \in 1..Len(r) : r[i] = i
  /\ ~x.closed /\ ~x.failed => r \o x.buffer = UpTo(x.got)

\* What the descriptor gave, and what a native read may still give.
Sourced(x) ==
  /\ x.got <= Total
  /\ x.eof => x.got = Total
  /\ x.native = "unit" => x.got < Total
  /\ x.native = "eof" => x.got = Total

\* The end is queued when all was read, and destinations that come after it
\* was told are ended on their own.
Ending(x, r) ==
  /\ Sourced(x)
  /\ x.endQueued => Len(r) = Total
  /\ HasPipe(x.queue) => x.endTold

Good(x, r) == Typed(x) /\ Placed(x) /\ Looped(x) /\ Ordered(x, r) /\ Ending(x, r)

\* A stream on which an operation or a poll works.
Able(x, r) == Good(x, r) /\ Primed(x)

\* The destinations, and what they are told, are the same.
Same(x, y) == y.pipes = x.pipes /\ y.endTold = x.endTold

\* The fields that none of this looks at.
Free ==
  {"descriptor", "autoClose", "ranged", "chunkSize", "resumePending", "readablePending",
   "others"}

\* A change of those.
LEMMA FreeKeeps ==
  ASSUME NEW x, NEW r, Good(x, r), NEW y, Differs(x, y, Free)
  PROVE  Good(y, r) /\ (Primed(x) => Primed(y)) /\ Same(x, y)
<1>1. /\ y.buffer = x.buffer /\ y.got = x.got /\ y.paused = x.paused
      /\ y.flowing = x.flowing /\ y.ended = x.ended /\ y.closed = x.closed
      /\ y.failed = x.failed /\ y.asynchronous = x.asynchronous /\ y.pipes = x.pipes
      /\ y.registered = x.registered /\ y.onData = x.onData
      /\ y.onReadable = x.onReadable /\ y.error = x.error /\ y.endQueued = x.endQueued
      /\ y.closeQueued = x.closeQueued /\ y.closeTold = x.closeTold
      /\ y.reservations = x.reservations /\ y.queue = x.queue /\ y.starved = x.starved
      /\ y.eof = x.eof /\ y.native = x.native /\ y.endTold = x.endTold /\ DOMAIN y = Fields
  BY DEF Differs, Fields, Free
<1>2. Typed(y)
  BY <1>1 DEF Good, Typed
<1>3. Primed(x) <=> Primed(y)
  BY <1>1 DEF Primed
<1>4. Placed(y)
  BY <1>1, <1>3 DEF Good, Placed
<1>5. Looped(y) /\ Ordered(y, r) /\ Ending(y, r)
  BY <1>1 DEF Good, Looped, Ordered, Ending, Sourced
<1> QED
  BY <1>1, <1>2, <1>3, <1>4, <1>5 DEF Good, Same

\* The descriptor or a native read reports something, or the end is told.
LEMMA SourceKeeps ==
  ASSUME NEW x, NEW r, Good(x, r), NEW y,
         Differs(x, y, {"eof", "native", "readablePending", "endTold"}),
         y.native \in Natives, y.native # "none" => x.asynchronous,
         Sourced(y), x.endTold => y.endTold
  PROVE  Good(y, r) /\ (Primed(x) => Primed(y)) /\ y.closed = x.closed /\ y.pipes = x.pipes
<1>1. /\ y.buffer = x.buffer /\ y.got = x.got /\ y.paused = x.paused
      /\ y.flowing = x.flowing /\ y.ended = x.ended /\ y.closed = x.closed
      /\ y.failed = x.failed /\ y.asynchronous = x.asynchronous /\ y.pipes = x.pipes
      /\ y.registered = x.registered /\ y.onData = x.onData
      /\ y.onReadable = x.onReadable /\ y.error = x.error /\ y.endQueued = x.endQueued
      /\ y.closeQueued = x.closeQueued /\ y.closeTold = x.closeTold
      /\ y.reservations = x.reservations /\ y.queue = x.queue /\ y.starved = x.starved
      /\ DOMAIN y = Fields
  BY DEF Differs, Fields
<1>2. Typed(y)
  BY <1>1 DEF Good, Typed
<1>3. Primed(x) <=> Primed(y)
  BY <1>1 DEF Primed
<1>4. Placed(y)
  BY <1>1, <1>3 DEF Good, Placed
<1>5. Looped(y) /\ Ordered(y, r) /\ Ending(y, r)
  BY <1>1 DEF Good, Looped, Ordered, Ending
<1> QED
  BY <1>1, <1>2, <1>3, <1>4, <1>5 DEF Good

\* A stream that fails or is closed.
LEMMA OverKeeps ==
  ASSUME NEW x, NEW r, Good(x, r), NEW y,
         Differs(x, y, Free \cup {"closed", "failed", "buffer", "native"}),
         y.closed \/ y.failed, y.buffer \in Seq(Nat), y.native = "none"
  PROVE  Good(y, r) /\ (Primed(x) => Primed(y)) /\ Same(x, y)
<1>1. /\ y.got = x.got /\ y.asynchronous = x.asynchronous /\ y.pipes = x.pipes
      /\ y.registered = x.registered /\ y.onData = x.onData
      /\ y.onReadable = x.onReadable /\ y.error = x.error /\ y.endQueued = x.endQueued
      /\ y.closeQueued = x.closeQueued /\ y.closeTold = x.closeTold
      /\ y.reservations = x.reservations /\ y.queue = x.queue /\ y.starved = x.starved
      /\ y.eof = x.eof /\ y.endTold = x.endTold /\ DOMAIN y = Fields
  BY DEF Differs, Fields, Free
<1>2. Typed(y)
  BY <1>1 DEF Good, Typed, Natives
<1>3. Primed(x) <=> Primed(y)
  BY <1>1 DEF Primed
<1>4. Placed(y)
  BY <1>1, <1>3 DEF Good, Placed
<1>5. Looped(y) /\ Ordered(y, r) /\ Ending(y, r)
  BY <1>1 DEF Good, Looped, Ordered, Ending, Sourced
<1> QED
  BY <1>1, <1>2, <1>3, <1>4, <1>5 DEF Good, Same

\* Places and the queue change, with a flag that says which event was queued.
LEMMA PlacesKeep ==
  ASSUME NEW x, NEW r, Good(x, r), NEW y,
         Differs(x, y, {"reservations", "queue", "endQueued", "error", "closeQueued", "closeTold"}),
         y.reservations \in SUBSET Events, y.queue \in Queues,
         HasClose(y.queue) => y.closeQueued, y.closeTold => y.closeQueued,
         x.asynchronous => Primed(y),
         HasPipe(y.queue) => x.endTold, y.endQueued => x.endQueued \/ Len(r) = Total
  PROVE  Good(y, r) /\ Same(x, y)
<1>1. /\ y.buffer = x.buffer /\ y.got = x.got /\ y.paused = x.paused
      /\ y.flowing = x.flowing /\ y.ended = x.ended /\ y.closed = x.closed
      /\ y.failed = x.failed /\ y.asynchronous = x.asynchronous /\ y.pipes = x.pipes
      /\ y.registered = x.registered /\ y.onData = x.onData
      /\ y.onReadable = x.onReadable /\ y.native = x.native /\ y.starved = x.starved
      /\ y.eof = x.eof /\ y.endTold = x.endTold /\ DOMAIN y = Fields
  BY DEF Differs, Fields
<1>2. Typed(y)
  BY <1>1 DEF Good, Typed
<1>3. Placed(y)
  BY <1>1 DEF Good, Placed
<1>4. Looped(y) /\ Ordered(y, r) /\ Ending(y, r)
  BY <1>1 DEF Good, Looped, Ordered, Ending, Sourced
<1> QED
  BY <1>1, <1>2, <1>3, <1>4 DEF Good, Same

\* A stream that is primed passes prepare, however full the queue is.
LEMMA PrimedPasses ==
  ASSUME NEW x, Typed(x), Primed(x)
  PROVE  CanPrepare(x)
<1>1. CASE x.closeTold
  BY <1>1 DEF CanPrepare
<1>2. CASE ~x.closeTold
  <2>1. Wanted(x) = {}
    BY <1>2 DEF Primed, Wanted, Events
  <2>2. Cardinality(Wanted(x)) = 0
    BY <2>1, FS_EmptySet
  <2>3. HasRoomFor(x.queue, 0)
    BY QueueFields DEF Typed, HasRoomFor
  <2> QED
    BY <2>2, <2>3 DEF CanPrepare
<1> QED
  BY <1>1, <1>2

\* The events are finitely many.
LEMMA EventsFinite ==
  ASSUME NEW E \in SUBSET Events
  PROVE  IsFiniteSet(E) /\ Cardinality(E) \in Nat
<1>1. IsFiniteSet({"end"})
  BY FS_Singleton
<1>2. IsFiniteSet({"end"} \cup {"error"})
  BY <1>1, FS_AddElement
<1>3. IsFiniteSet(({"end"} \cup {"error"}) \cup {"close"})
  BY <1>2, FS_AddElement
<1>4. Events = ({"end"} \cup {"error"}) \cup {"close"}
  BY DEF Events
<1>5. IsFiniteSet(E)
  BY <1>3, <1>4, FS_Subset
<1> QED
  BY <1>5, FS_CardinalityType

\* ReadEvents.prepare
LEMMA PreparedKeeps ==
  ASSUME NEW x, NEW r, Good(x, r), CanPrepare(x), NEW y, y = Prepared(x)
  PROVE  Able(y, r) /\ Differs(x, y, {"reservations", "queue"}) /\ Same(x, y)
<1>1. CASE x.closeTold
  <2>1. y = x
    BY <1>1 DEF Prepared
  <2> QED
    BY <1>1, <2>1 DEF Good, Able, Typed, Differs, Primed, Same
<1>2. CASE ~x.closeTold
  <2> DEFINE n == Cardinality(Wanted(x))
             q == ReservedAll(x.queue, n)
  <2>1. y = [x EXCEPT !.reservations = @ \cup Wanted(x), !.queue = ReservedAll(@, n)]
    BY <1>2 DEF Prepared
  <2>2. n \in Nat /\ Wanted(x) \in SUBSET Events
    BY EventsFinite DEF Wanted
  <2>3. HasRoomFor(x.queue, n)
    BY <1>2 DEF CanPrepare
  <2> HIDE DEF n
  <2>4. After(x.queue, q)
    BY <2>2, <2>3, PlacesAfter DEF Good, Typed
  <2>5. /\ Differs(x, y, {"reservations", "queue"}) /\ y.queue = q
        /\ y.reservations = x.reservations \cup Wanted(x)
        /\ y.closeTold = x.closeTold /\ y.closeQueued = x.closeQueued
        /\ y.endQueued = x.endQueued /\ y.error = x.error
    BY <2>1 DEF Good, Typed, Differs, Fields
  <2> HIDE DEF q
  <2>6. Primed(y)
    BY <2>5 DEF Primed, Wanted, Events
  <2>7. Differs(x, y, {"reservations", "queue", "endQueued", "error", "closeQueued", "closeTold"})
    BY <2>5 DEF Differs
  <2>8. y.reservations \in SUBSET Events /\ y.queue \in Queues
        /\ (HasClose(y.queue) => y.closeQueued) /\ (y.closeTold => y.closeQueued)
        /\ (HasPipe(y.queue) => x.endTold)
    BY <2>2, <2>4, <2>5 DEF Good, Typed, Placed, After, HasClose, HasPipe, Ending
  <2>9. Good(y, r) /\ Same(x, y)
    BY <2>5, <2>6, <2>7, <2>8, PlacesKeep
  <2> QED
    BY <2>5, <2>6, <2>9 DEF Able
<1> QED
  BY <1>1, <1>2

\* ReadEvents.queue of an event that has its place.
LEMMA QueuedKeeps ==
  ASSUME NEW x, Typed(x), NEW e \in x.reservations, NEW y, y = Queued(x, e)
  PROVE  /\ Differs(x, y, {"reservations", "queue"}) /\ y.reservations = x.reservations \ {e}
         /\ y.queue \in Queues /\ (HasClose(y.queue) => HasClose(x.queue) \/ e = "close")
         /\ HasPipe(y.queue) => HasPipe(x.queue)
<1>1. /\ Differs(x, y, {"reservations", "queue"}) /\ y.reservations = x.reservations \ {e}
      /\ y.queue = Committed(x.queue, <<"event", e>>)
  BY DEF Typed, Differs, Fields, Queued
<1>2. <<"event", e>> \in Notes /\ (<<"event", e>> = Closing => e = "close") /\ x.queue \in Queues
      /\ \A d \in Sinks : <<"pipe", d>> # <<"event", e>>
  BY DEF Typed, Notes, Closing
<1>3. y.queue \in Queues /\ Members(y.queue) \subseteq Members(x.queue) \cup {<<"event", e>>}
  BY <1>1, <1>2, CommitAfter
<1>4. HasClose(y.queue) => HasClose(x.queue) \/ e = "close"
  BY <1>2, <1>3 DEF HasClose
<1>5. HasPipe(y.queue) => HasPipe(x.queue)
  BY <1>2, <1>3 DEF HasPipe
<1> QED
  BY <1>1, <1>3, <1>4, <1>5

\* ReadEvents.end, ReadEvents.close and ReadEvents.fail
LEMMA EventsKeep ==
  ASSUME NEW x, NEW r, Able(x, r)
  PROVE  /\ Len(r) = Total => Able(EventsEnded(x), r) /\ Same(x, EventsEnded(x))
         /\ Differs(x, EventsEnded(x), {"reservations", "queue", "endQueued"})
         /\ Able(EventsClosed(x), r) /\ Same(x, EventsClosed(x))
         /\ Differs(x, EventsClosed(x), {"reservations", "queue", "closeQueued"})
         /\ Able(EventsFailed(x), r) /\ Same(x, EventsFailed(x))
         /\ Differs(x, EventsFailed(x), {"reservations", "queue", "error"})
<1> DEFINE S == {"reservations", "queue", "endQueued", "error", "closeQueued", "closeTold"}
<1>0. /\ Typed(x) /\ Primed(x) /\ Good(x, r) /\ Differs(x, x, {}) /\ DOMAIN x = Fields
      /\ (x.closeTold => x.closeQueued) /\ (HasClose(x.queue) => x.closeQueued)
      /\ x.reservations \in SUBSET Events /\ (HasPipe(x.queue) => x.endTold)
  BY DEF Able, Good, Typed, Differs, Placed, Ending
<1>1. /\ Len(r) = Total => Able(EventsEnded(x), r) /\ Same(x, EventsEnded(x))
      /\ Differs(x, EventsEnded(x), {"reservations", "queue", "endQueued"})
  <2> DEFINE a == Queued(x, "end")
             y == [a EXCEPT !.endQueued = TRUE]
  <2>1. CASE x.endQueued \/ x.closeQueued \/ x.error
    <3>1. EventsEnded(x) = x
      BY <2>1 DEF EventsEnded
    <3> QED
      BY <1>0, <3>1 DEF Differs, Same
  <2>2. CASE ~(x.endQueued \/ x.closeQueued \/ x.error)
    <3>1. EventsEnded(x) = y
      BY <2>2 DEF EventsEnded
    <3>2. "end" \in x.reservations
      BY <1>0, <2>2 DEF Primed
    <3>3. /\ Differs(x, a, {"reservations", "queue"})
          /\ a.reservations = x.reservations \ {"end"} /\ a.queue \in Queues
          /\ (HasClose(a.queue) => HasClose(x.queue) \/ "end" = "close")
          /\ HasPipe(a.queue) => HasPipe(x.queue)
      BY <1>0, <3>2, QueuedKeeps
    <3> HIDE DEF a
    <3>4. /\ Differs(x, y, {"reservations", "queue", "endQueued"}) /\ y.endQueued = TRUE
          /\ y.reservations = a.reservations /\ y.queue = a.queue
          /\ y.closeTold = x.closeTold /\ y.closeQueued = x.closeQueued
          /\ y.error = x.error
      BY <3>3 DEF Differs, Fields
    <3> HIDE DEF y
    <3>5. Primed(y)
      BY <1>0, <3>3, <3>4 DEF Primed
    <3>6. Differs(x, y, S)
      BY <3>4 DEF Differs
    <3>7. Len(r) = Total => Good(y, r) /\ Same(x, y)
      BY <1>0, <3>3, <3>4, <3>5, <3>6, PlacesKeep
    <3> QED
      BY <3>1, <3>4, <3>5, <3>7 DEF Able
  <2> QED
    BY <2>1, <2>2
<1>2. /\ Able(EventsClosed(x), r) /\ Same(x, EventsClosed(x))
      /\ Differs(x, EventsClosed(x), {"reservations", "queue", "closeQueued"})
  <2> DEFINE a == Queued(x, "close")
             y == [a EXCEPT !.closeQueued = TRUE]
  <2>1. CASE x.closeQueued
    <3>1. EventsClosed(x) = x
      BY <2>1 DEF EventsClosed
    <3> QED
      BY <1>0, <3>1 DEF Differs, Same
  <2>2. CASE ~x.closeQueued
    <3>1. EventsClosed(x) = y
      BY <2>2 DEF EventsClosed
    <3>2. "close" \in x.reservations
      BY <1>0, <2>2 DEF Primed
    <3>3. /\ Differs(x, a, {"reservations", "queue"})
          /\ a.reservations = x.reservations \ {"close"} /\ a.queue \in Queues
          /\ HasPipe(a.queue) => HasPipe(x.queue)
      BY <1>0, <3>2, QueuedKeeps
    <3> HIDE DEF a
    <3>4. /\ Differs(x, y, {"reservations", "queue", "closeQueued"}) /\ y.closeQueued = TRUE
          /\ y.reservations = a.reservations /\ y.queue = a.queue
          /\ y.closeTold = x.closeTold /\ y.endQueued = x.endQueued
          /\ y.error = x.error
      BY <3>3 DEF Differs, Fields
    <3> HIDE DEF y
    <3>5. Primed(y)
      BY <1>0, <3>3, <3>4 DEF Primed
    <3>6. Differs(x, y, S)
      BY <3>4 DEF Differs
    <3>7. Good(y, r) /\ Same(x, y)
      BY <1>0, <3>3, <3>4, <3>5, <3>6, PlacesKeep
    <3> QED
      BY <3>1, <3>4, <3>5, <3>7 DEF Able
  <2> QED
    BY <2>1, <2>2
<1>3. /\ Able(EventsFailed(x), r) /\ Same(x, EventsFailed(x))
      /\ Differs(x, EventsFailed(x), {"reservations", "queue", "error"})
  <2> DEFINE a == [x EXCEPT !.error = TRUE]
             y == Queued(a, "error")
  <2>1. CASE x.error \/ x.closeTold
    <3>1. EventsFailed(x) = x
      BY <2>1 DEF EventsFailed
    <3> QED
      BY <1>0, <3>1 DEF Differs, Same
  <2>2. CASE ~(x.error \/ x.closeTold)
    <3>1. EventsFailed(x) = y
      BY <2>2 DEF EventsFailed
    <3>2. /\ Differs(x, a, {"error"}) /\ a.error = TRUE
          /\ a.reservations = x.reservations /\ a.queue = x.queue
      BY <1>0 DEF Differs, Fields
    <3> HIDE DEF a
    <3>3. Typed(a) /\ "error" \in a.reservations
      BY <1>0, <2>2, <3>2 DEF Primed, Typed, Differs, Fields
    <3>4. /\ Differs(a, y, {"reservations", "queue"})
          /\ y.reservations = a.reservations \ {"error"} /\ y.queue \in Queues
          /\ (HasClose(y.queue) => HasClose(a.queue) \/ "error" = "close")
          /\ HasPipe(y.queue) => HasPipe(a.queue)
      BY <3>3, QueuedKeeps
    <3> HIDE DEF y
    <3>5. /\ Differs(x, y, {"reservations", "queue", "error"}) /\ y.error = TRUE
          /\ y.closeTold = x.closeTold /\ y.endQueued = x.endQueued
          /\ y.closeQueued = x.closeQueued
      BY <3>2, <3>4 DEF Differs, Fields
    <3>6. Primed(y)
      BY <1>0, <3>2, <3>4, <3>5 DEF Primed
    <3>7. Differs(x, y, S)
      BY <3>5 DEF Differs
    <3>8. Good(y, r) /\ Same(x, y)
      BY <1>0, <3>2, <3>4, <3>5, <3>6, <3>7, PlacesKeep
    <3> QED
      BY <3>1, <3>5, <3>6, <3>8 DEF Able
  <2> QED
    BY <2>1, <2>2
<1> QED
  BY <1>1, <1>2, <1>3
-----------------------------------------------------------------------------
(***************************************************************************)
(* Data.                                                                   *)
(***************************************************************************)

\* The first units of the descriptor.
LEMMA UpToProperties ==
  ASSUME NEW n \in Nat
  PROVE  /\ UpTo(n) \in Seq(Nat) /\ Len(UpTo(n)) = n
         /\ \A i \in 1..n : UpTo(n)[i] = i
BY DEF UpTo

\* Concatenation is associative.
LEMMA Grouped ==
  ASSUME NEW s \in Seq(Nat), NEW t \in Seq(Nat), NEW u \in Seq(Nat)
  PROVE  (s \o t) \o u = s \o (t \o u)
OBVIOUS

\* One more unit is read into the buffer b.
LEMMA UnitRead ==
  ASSUME NEW r \in Seq(Nat), NEW b \in Seq(Nat), NEW n \in Nat, r \o b = UpTo(n)
  PROVE  Append(b, n + 1) \in Seq(Nat) /\ r \o Append(b, n + 1) = UpTo(n + 1)
<1>1. n + 1 \in Nat /\ <<n + 1>> \in Seq(Nat)
  OBVIOUS
<1>2. Append(b, n + 1) = b \o <<n + 1>> /\ Append(b, n + 1) \in Seq(Nat)
  BY <1>1, AppendIsConcat, AppendProperties
<1>3. r \o (b \o <<n + 1>>) = (r \o b) \o <<n + 1>>
  BY <1>1, Grouped, Zenon
<1>4. (r \o b) \o <<n + 1>> = Append(UpTo(n), n + 1)
  BY <1>1, UpToProperties, AppendIsConcat
<1>5. Append(UpTo(n), n + 1) = UpTo(n + 1)
  <2> DEFINE s == UpTo(n)
             t == UpTo(n + 1)
             u == Append(s, n + 1)
  <2>1. /\ s \in Seq(Nat) /\ Len(s) = n /\ (\A i \in 1..n : s[i] = i)
        /\ t \in Seq(Nat) /\ Len(t) = n + 1 /\ (\A i \in 1..(n + 1) : t[i] = i)
    BY <1>1, UpToProperties
  <2> HIDE DEF s, t
  <2>2. /\ u \in Seq(Nat) /\ Len(u) = n + 1 /\ (\A i \in 1..n : u[i] = s[i])
        /\ u[n + 1] = n + 1
    BY <1>1, <2>1, AppendProperties
  <2> HIDE DEF u
  <2>3. \A i \in 1..(n + 1) : u[i] = t[i]
    <3>1. \A i \in 1..(n + 1) : i \in 1..n \/ i = n + 1
      OBVIOUS
    <3> QED
      BY <2>1, <2>2, <3>1
  <2>4. u = t
    BY <2>1, <2>2, <2>3, SeqEqual
  <2> QED
    BY <2>4 DEF s, t, u
<1> QED
  BY <1>2, <1>3, <1>4, <1>5

\* What is read of consecutive units is the first of them.
LEMMA ReadFirst ==
  ASSUME NEW r \in Seq(Nat), NEW b \in Seq(Nat), NEW n \in Nat, r \o b = UpTo(n)
  PROVE  Len(r) <= n /\ \A i \in 1..Len(r) : r[i] = i
<1>1. /\ Len(r \o b) = Len(r) + Len(b) /\ Len(r) \in Nat /\ Len(b) \in Nat
      /\ \A i \in 1..Len(r) : (r \o b)[i] = r[i]
  BY ConcatProperties
<1>2. Len(UpTo(n)) = n /\ \A i \in 1..n : UpTo(n)[i] = i
  BY UpToProperties
<1> QED
  BY <1>1, <1>2

\* n units move from the buffer to what was read.
LEMMA UnitsMove ==
  ASSUME NEW r \in Seq(Nat), NEW b \in Seq(Nat), NEW n \in 0..Len(b)
  PROVE  /\ SubSeq(b, 1, n) \in Seq(Nat) /\ SubSeq(b, n + 1, Len(b)) \in Seq(Nat)
         /\ r \o SubSeq(b, 1, n) \in Seq(Nat)
         /\ (r \o SubSeq(b, 1, n)) \o SubSeq(b, n + 1, Len(b)) = r \o b
<1>1. /\ Len(b) \in Nat /\ n \in Int /\ n + 1 \in Int /\ 1 \in 1..Len(b) + 1
      /\ n \in 1 - 1..Len(b) /\ Len(b) \in n..Len(b)
  OBVIOUS
<1>2. \A i \in 1..Len(b) : b[i] \in Nat
  OBVIOUS
<1>3. SubSeq(b, 1, n) \in Seq(Nat) /\ SubSeq(b, n + 1, Len(b)) \in Seq(Nat)
  <2>1. \A i \in 1..n : b[i] \in Nat
    BY <1>1, <1>2
  <2>2. \A i \in (n + 1)..Len(b) : b[i] \in Nat
    BY <1>1, <1>2
  <2> QED
    BY <1>1, <2>1, <2>2, SubSeqProperties
<1>4. SubSeq(b, 1, n) \o SubSeq(b, n + 1, Len(b)) = SubSeq(b, 1, Len(b))
  BY <1>1, ConcatAdjacentSubSeq
<1>5. SubSeq(b, 1, Len(b)) = b
  BY SubSeqFull
<1>6. (r \o SubSeq(b, 1, n)) \o SubSeq(b, n + 1, Len(b))
        = r \o (SubSeq(b, 1, n) \o SubSeq(b, n + 1, Len(b)))
  BY <1>3, Grouped, Zenon
<1>7. r \o SubSeq(b, 1, n) \in Seq(Nat)
  BY <1>3, ConcatProperties
<1> QED
  BY <1>3, <1>4, <1>5, <1>6, <1>7
-----------------------------------------------------------------------------
(***************************************************************************)
(* The methods of Readable.                                                *)
(***************************************************************************)

\* _abort
LEMMA AbortedKeeps ==
  ASSUME NEW x, NEW r, Able(x, r), NEW y, y = Aborted(x)
  PROVE  Able(y, r) /\ y.closed = x.closed /\ Same(x, y)
<1> DEFINE p == Prepared(x)
           a == [p EXCEPT !.failed = TRUE, !.native = "none", !.buffer = <<>>,
                          !.descriptor = IF x.autoClose THEN "none" ELSE @]
           f == EventsFailed(a)
<1>1. y = EventsClosed(f)
  BY DEF Aborted
<1>2. CanPrepare(x)
  BY PrimedPasses DEF Able, Good
<1>3. Able(p, r) /\ Differs(x, p, {"reservations", "queue"}) /\ Same(x, p)
  BY <1>2, PreparedKeeps DEF Able
<1>4. p.closed = x.closed /\ DOMAIN p = Fields
  BY <1>3 DEF Differs, Fields
<1> HIDE DEF p
<1>5. /\ Differs(p, a, Free \cup {"closed", "failed", "buffer", "native"}) /\ a.failed = TRUE
      /\ a.buffer = <<>> /\ a.native = "none" /\ a.closed = p.closed
  BY <1>4 DEF Differs, Fields, Free
<1> HIDE DEF a
<1>6. Good(a, r) /\ Primed(a) /\ Same(p, a)
  <2>1. a.buffer \in Seq(Nat)
    BY <1>5
  <2> QED
    BY <1>3, <1>5, <2>1, OverKeeps DEF Able
<1>7. Able(f, r) /\ Same(a, f) /\ Differs(a, f, {"reservations", "queue", "error"})
  BY <1>6, EventsKeep DEF Able
<1> HIDE DEF f
<1>8. Able(y, r) /\ Same(f, y) /\ Differs(f, y, {"reservations", "queue", "closeQueued"})
  BY <1>1, <1>7, EventsKeep
<1>9. f.closed = a.closed /\ y.closed = f.closed
  BY <1>7, <1>8 DEF Differs, Fields
<1> QED
  BY <1>3, <1>4, <1>5, <1>6, <1>7, <1>8, <1>9 DEF Same

\* _accept_read
LEMMA AcceptedKeeps ==
  ASSUME NEW x, NEW r, Able(x, r), NEW result \in {"unit", "eof", "error"},
         x.native \in {"none", "pending"}, result = "unit" => x.got < Total,
         result = "eof" => x.got = Total, NEW y, y = Accepted(x, result)
  PROVE  Able(y, r) /\ y.closed = x.closed /\ Same(x, y)
<1>1. CASE result = "unit"
  <2>1. y = [x EXCEPT !.got = @ + 1, !.buffer = Append(@, x.got + 1), !.readablePending = TRUE]
    BY <1>1 DEF Accepted
  <2>2. /\ y.buffer = Append(x.buffer, x.got + 1) /\ y.got = x.got + 1
        /\ y.paused = x.paused /\ y.native = x.native
        /\ y.flowing = x.flowing /\ y.ended = x.ended /\ y.closed = x.closed
        /\ y.failed = x.failed /\ y.asynchronous = x.asynchronous /\ y.pipes = x.pipes
        /\ y.registered = x.registered /\ y.onData = x.onData
        /\ y.onReadable = x.onReadable /\ y.error = x.error /\ y.endQueued = x.endQueued
        /\ y.closeQueued = x.closeQueued /\ y.closeTold = x.closeTold
        /\ y.reservations = x.reservations /\ y.queue = x.queue /\ y.starved = x.starved
        /\ y.eof = x.eof /\ y.endTold = x.endTold /\ DOMAIN y = Fields
    BY <2>1 DEF Able, Good, Typed, Fields
  <2>3. /\ x.got \in Nat /\ x.got + 1 \in Nat /\ x.buffer \in Seq(Nat) /\ r \in Seq(Nat)
        /\ Append(x.buffer, x.got + 1) \in Seq(Nat) /\ Len(r) \in Nat
    BY AppendProperties DEF Able, Good, Typed, Ordered
  <2>4. Typed(y)
    BY <2>2, <2>3 DEF Able, Good, Typed
  <2>5. Primed(y)
    BY <2>2 DEF Able, Primed
  <2>6. Placed(y)
    BY <2>2, <2>5 DEF Able, Good, Placed
  <2>7. Looped(y)
    BY <2>2 DEF Able, Good, Looped
  <2>8. Ordered(y, r)
    <3>1. ~x.closed /\ ~x.failed => r \o Append(x.buffer, x.got + 1) = UpTo(x.got + 1)
      BY <2>3, UnitRead DEF Able, Good, Ordered
    <3>2. Len(r) <= x.got /\ (\A i \in 1..Len(r) : r[i] = i)
      BY DEF Able, Good, Ordered
    <3>3. Len(r) <= x.got + 1
      BY <2>3, <3>2
    <3> QED
      BY <2>2, <2>3, <3>1, <3>2, <3>3 DEF Ordered
  <2>9. Ending(y, r)
    <3>1. x.got < Total /\ Total \in Nat
      BY <1>1, ReadableAssumption
    <3>2. x.got + 1 <= Total /\ x.got # Total
      BY <2>3, <3>1
    <3>3. ~x.eof
      BY <3>2 DEF Able, Good, Ending, Sourced
    <3> QED
      BY <2>2, <3>2, <3>3 DEF Able, Good, Ending, Sourced
  <2> QED
    BY <2>2, <2>4, <2>5, <2>6, <2>7, <2>8, <2>9 DEF Able, Good, Same
<1>2. CASE result = "eof"
  <2>1. y = [x EXCEPT !.eof = TRUE, !.readablePending = TRUE]
    BY <1>2 DEF Accepted
  <2>2. /\ Differs(x, y, {"eof", "native", "readablePending", "endTold"})
        /\ y.native = x.native /\ y.got = x.got /\ y.endTold = x.endTold
    BY <2>1 DEF Able, Good, Typed, Differs, Fields
  <2>3. Sourced(y)
    BY <1>2, <2>2 DEF Able, Good, Ending, Sourced
  <2> QED
    BY <2>2, <2>3, SourceKeeps DEF Able, Good, Typed, Placed, Same
<1>3. CASE result = "error"
  BY <1>3, AbortedKeeps DEF Accepted
<1> QED
  BY <1>1, <1>2, <1>3

\* _fill
LEMMA FilledKeeps ==
  ASSUME NEW x, NEW r, Able(x, r), NEW y \in Filled(x)
  PROVE  Able(y, r) /\ y.closed = x.closed /\ Same(x, y)
<1>1. /\ ReadResults(x) \subseteq {"unit", "eof", "error"}
      /\ "unit" \in ReadResults(x) => x.got < Total
      /\ "eof" \in ReadResults(x) => x.got = Total
  <2>1. x.got <= Total /\ x.got \in Nat /\ Total \in Nat
    BY ReadableAssumption DEF Able, Good, Typed, Ending, Sourced
  <2> QED
    BY <2>1 DEF ReadResults
<1>2. ASSUME NEW z, \/ z = [x EXCEPT !.native = "none"]
                    \/ z = [x EXCEPT !.native = "pending"] /\ x.asynchronous
                    \/ z = [x EXCEPT !.eof = TRUE] /\ x.got = Total
      PROVE  /\ Able(z, r) /\ z.closed = x.closed /\ Same(x, z) /\ z.got = x.got
             /\ z.native \in {"none", "pending", x.native}
  <2>1. /\ Differs(x, z, {"eof", "native", "readablePending", "endTold"})
        /\ z.got = x.got /\ z.endTold = x.endTold
        /\ z.native \in {"none", x.native} \/ (z.native = "pending" /\ x.asynchronous)
        /\ z.eof = x.eof \/ x.got = Total
    BY <1>2 DEF Able, Good, Typed, Differs, Fields
  <2>2. z.native \in Natives /\ (z.native # "none" => x.asynchronous)
    BY <2>1 DEF Able, Good, Typed, Natives, Placed
  <2>3. Sourced(z)
    BY <2>1 DEF Able, Good, Ending, Sourced
  <2> QED
    BY <2>1, <2>2, <2>3, SourceKeeps DEF Able, Same
<1>3. CASE x.asynchronous /\ x.native # "none"
  <2> DEFINE z == [x EXCEPT !.native = "none"]
  <2>1. \/ y = x
        \/ \E result \in ReadResults(x) : y = Accepted(z, result)
        \/ x.native # "pending" /\ y = Accepted(z, x.native)
    BY <1>3 DEF Filled
  <2>2. /\ Able(z, r) /\ z.closed = x.closed /\ Same(x, z) /\ z.got = x.got
        /\ z.native = "none"
    BY <1>2 DEF Able, Good, Typed, Fields
  <2>3. /\ x.native # "pending" => x.native \in {"unit", "eof", "error"}
        /\ x.native = "unit" => x.got < Total
        /\ x.native = "eof" => x.got = Total
    BY <1>3 DEF Able, Good, Typed, Natives, Ending, Sourced
  <2> HIDE DEF z
  <2>4. ASSUME NEW result \in {"unit", "eof", "error"}, y = Accepted(z, result),
               result = "unit" => x.got < Total, result = "eof" => x.got = Total
        PROVE  Able(y, r) /\ y.closed = z.closed /\ Same(z, y)
    BY <2>2, <2>4, AcceptedKeeps
  <2>5. Same(x, x)
    BY DEF Same
  <2> QED
    BY <1>1, <2>1, <2>2, <2>3, <2>4, <2>5 DEF Same
<1>4. CASE ~(x.asynchronous /\ x.native # "none") /\ NothingToRead(x)
  <2>1. y = SizeRequested(x)
    BY <1>4 DEF Filled
  <2>2. y = x \/ (y = [x EXCEPT !.eof = TRUE] /\ x.got = Total)
    BY <2>1 DEF SizeRequested
  <2> QED
    BY <1>2, <2>2 DEF Same
<1>5. CASE ~(x.asynchronous /\ x.native # "none") /\ ~NothingToRead(x) /\ x.asynchronous
  <2>1. y = [x EXCEPT !.native = "pending"] \/ y = Aborted(x)
    BY <1>5 DEF Filled
  <2> QED
    BY <1>2, <1>5, <2>1, AbortedKeeps
<1>6. CASE ~(x.asynchronous /\ x.native # "none") /\ ~NothingToRead(x) /\ ~x.asynchronous
  <2>1. \E result \in ReadResults(x) : y = Accepted(x, result)
    BY <1>6 DEF Filled
  <2>2. x.native = "none"
    BY <1>6 DEF Able, Good, Placed
  <2> QED
    BY <1>1, <2>1, <2>2, AcceptedKeeps
<1> QED
  BY <1>3, <1>4, <1>5, <1>6

\* The loop of _read_sized.
LEMMA FilledToKeeps ==
  ASSUME NEW x, NEW r, Able(x, r), NEW minimum, NEW y \in FilledTo(x, minimum)
  PROVE  Able(y, r) /\ y.closed = x.closed /\ Same(x, y)
<1>1. ASSUME NEW z, Able(z, r), NEW t \in Turn(z, minimum)
      PROVE  Able(t, r) /\ t.closed = z.closed /\ Same(z, t)
  <2>1. t = z \/ t \in Filled(z)
    BY DEF Turn
  <2> QED
    BY <1>1, <2>1, FilledKeeps DEF Same
<1>2. PICK a \in Filled(x) :
         \E b \in Turn(a, minimum) : y = b \/ y \in Turn(b, minimum)
  BY DEF FilledTo
<1>3. PICK b \in Turn(a, minimum) : y = b \/ y \in Turn(b, minimum)
  BY <1>2
<1>4. Able(a, r) /\ a.closed = x.closed /\ Same(x, a)
  BY FilledKeeps
<1>5. Able(b, r) /\ b.closed = a.closed /\ Same(a, b)
  BY <1>1, <1>4
<1> QED
  BY <1>1, <1>3, <1>4, <1>5 DEF Same

\* close
LEMMA ClosesKeep ==
  ASSUME NEW x, NEW r, Good(x, r), CanPrepare(x), NEW y \in Closes(x)
  PROVE  Good(y, r) /\ (Primed(x) => Primed(y)) /\ Same(x, y)
<1>1. CASE x.closed
  <2>1. y = x
    BY <1>1 DEF Closes
  <2> QED
    BY <2>1 DEF Same
<1>2. CASE ~x.closed
  <2> DEFINE p == Prepared(x)
             a == [p EXCEPT !.closed = TRUE, !.native = "none", !.buffer = <<>>,
                            !.descriptor = IF @ = "open" THEN "closed" ELSE @]
  <2>1. y = EventsClosed(a) \/ y = EventsClosed(EventsFailed(a))
    BY <1>2 DEF Closes
  <2>2. Able(p, r) /\ Same(x, p)
    BY PreparedKeeps
  <2> HIDE DEF p
  <2>3. /\ Differs(p, a, Free \cup {"closed", "failed", "buffer", "native"}) /\ a.closed = TRUE
        /\ a.buffer = <<>> /\ a.native = "none"
    BY <2>2 DEF Able, Good, Typed, Differs, Fields, Free
  <2> HIDE DEF a
  <2>4. Able(a, r) /\ Same(p, a)
    <3>1. a.buffer \in Seq(Nat)
      BY <2>3
    <3> QED
      BY <2>2, <2>3, <3>1, OverKeeps DEF Able
  <2>5. Able(EventsFailed(a), r) /\ Same(a, EventsFailed(a))
    BY <2>4, EventsKeep
  <2> QED
    BY <2>1, <2>2, <2>4, <2>5, EventsKeep DEF Able, Same
<1> QED
  BY <1>1, <1>2

\* The state around the data: who listens, whether it flows, who polls it.
LEMMA StateKeeps ==
  ASSUME NEW x, NEW r, Good(x, r), NEW y,
         Differs(x, y, Free \cup {"ended", "paused", "flowing", "onData", "onReadable",
                                  "registered", "asynchronous", "pipes"}),
         Looped(y),
         y.registered \/ y.onData \/ y.onReadable \/ y.pipes # {} \/ y.native # "none"
           => y.asynchronous,
         y.asynchronous => Primed(x)
  PROVE  Good(y, r) /\ (Primed(x) => Primed(y)) /\ y.closed = x.closed /\ y.endTold = x.endTold
<1>1. /\ y.buffer = x.buffer /\ y.got = x.got /\ y.closed = x.closed
      /\ y.failed = x.failed /\ y.error = x.error /\ y.endQueued = x.endQueued
      /\ y.closeQueued = x.closeQueued /\ y.closeTold = x.closeTold
      /\ y.reservations = x.reservations /\ y.queue = x.queue /\ y.starved = x.starved
      /\ y.eof = x.eof /\ y.native = x.native /\ y.endTold = x.endTold /\ DOMAIN y = Fields
  BY DEF Differs, Fields, Free
<1>2. Typed(y)
  BY <1>1 DEF Good, Typed
<1>3. Primed(x) <=> Primed(y)
  BY <1>1 DEF Primed
<1>4. Placed(y)
  BY <1>1, <1>3 DEF Good, Placed
<1>5. Ordered(y, r) /\ Ending(y, r)
  BY <1>1 DEF Good, Ordered, Ending, Sourced
<1> QED
  BY <1>1, <1>2, <1>3, <1>4, <1>5 DEF Good

\* _activate and resume.
LEMMA ActivatedKeeps ==
  ASSUME NEW x, NEW r, Good(x, r), CanPrepare(x)
  PROVE  /\ Able(Activated(x), r) /\ Activated(x).registered = TRUE
         /\ Activated(x).asynchronous = TRUE
         /\ Able(Resumed(x), r) /\ Same(x, Activated(x)) /\ Same(x, Resumed(x))
<1> DEFINE p == Prepared(x)
           a == Activated(x)
           y == Resumed(x)
<1>1. Able(p, r) /\ Same(x, p)
  BY PreparedKeeps
<1>2. Good(p, r) /\ Primed(p) /\ DOMAIN p = Fields /\ p.native \in Natives
  BY <1>1 DEF Able, Good, Typed
<1>3. a = [p EXCEPT !.registered = TRUE, !.asynchronous = TRUE]
  BY DEF Activated
<1>4. y = [a EXCEPT !.resumePending = @ \/ x.paused \/ ~x.flowing,
                    !.paused = FALSE, !.flowing = TRUE]
  BY DEF Resumed
<1> HIDE DEF p, a, y
<1>5. /\ Differs(p, a, Free \cup {"ended", "paused", "flowing", "onData", "onReadable",
                                  "registered", "asynchronous", "pipes"})
      /\ a.registered = TRUE /\ a.asynchronous = TRUE /\ a.native = p.native /\ a.pipes = p.pipes
  BY <1>2, <1>3 DEF Differs, Fields, Free
<1>6. DOMAIN a = Fields
  BY <1>5 DEF Differs
<1>7. Good(a, r) /\ Primed(a) /\ Same(p, a)
  BY <1>2, <1>5, StateKeeps DEF Looped, Same
<1>8. /\ Differs(a, y, Free \cup {"ended", "paused", "flowing", "onData", "onReadable",
                                  "registered", "asynchronous", "pipes"})
      /\ y.registered = TRUE /\ y.asynchronous = TRUE /\ y.native = a.native /\ y.pipes = a.pipes
  BY <1>4, <1>5, <1>6 DEF Differs, Fields, Free
<1>9. Good(y, r) /\ Primed(y) /\ Same(a, y)
  BY <1>2, <1>5, <1>7, <1>8, StateKeeps DEF Looped, Same
<1> QED
  BY <1>1, <1>5, <1>7, <1>9 DEF Able, a, y, Same

\* _prune_sinks
LEMMA SinksPrunedKeeps ==
  ASSUME NEW x, NEW r, Good(x, r), NEW all \in BOOLEAN
  PROVE  /\ Good(SinksPruned(x, all), r)
         /\ SinksPruned(x, all).registered = x.registered
         /\ SinksPruned(x, all).pipes \subseteq x.pipes
         /\ SinksPruned(x, all).endTold = x.endTold
<1> DEFINE y == SinksPruned(x, all)
<1>1. DOMAIN x = Fields /\ x.native \in Natives
  BY DEF Good, Typed
<1>2. PICK R \in SUBSET x.pipes :
        y = [x EXCEPT !.pipes = R, !.flowing = @ /\ ~(x.pipes # {} /\ R = {} /\ ~x.onData)]
  <2>1. {d \in x.pipes : sink[d].writable} \in SUBSET x.pipes /\ {} \in SUBSET x.pipes
    OBVIOUS
  <2> QED
    BY <2>1 DEF SinksPruned
<1> HIDE DEF y
<1>3. /\ Differs(x, y, Free \cup {"ended", "paused", "flowing", "onData", "onReadable",
                                  "registered", "asynchronous", "pipes"})
      /\ y.native = x.native /\ y.registered = x.registered /\ y.onData = x.onData
      /\ y.onReadable = x.onReadable /\ y.asynchronous = x.asynchronous /\ y.pipes = R
      /\ y.paused = x.paused /\ y.ended = x.ended /\ y.closed = x.closed
      /\ y.failed = x.failed /\ (y.flowing => x.flowing) /\ y.endTold = x.endTold
  BY <1>1, <1>2 DEF Differs, Fields, Free
<1>4. R # {} => x.pipes # {}
  OBVIOUS
<1>5. Looped(y)
  BY <1>3 DEF Good, Looped
<1> QED
  BY <1>1, <1>3, <1>4, <1>5, StateKeeps DEF Good, Placed, y

\* _prune_readables keeps a stream that flows.
LEMMA PrunedKeeps ==
  ASSUME NEW x, NEW r, Good(x, r)
  PROVE  /\ Good(Pruned(x), r)
         /\ Pruned(x).pipes \subseteq x.pipes /\ Pruned(x).endTold = x.endTold
<1>1. CASE ~x.registered
  BY <1>1 DEF Pruned
<1>2. CASE x.registered
  <2> DEFINE y == SinksPruned(x, FALSE)
             z == Pruned(x)
  <2>1. /\ Good(y, r) /\ y.registered = x.registered
        /\ y.pipes \subseteq x.pipes /\ y.endTold = x.endTold
    BY SinksPrunedKeeps
  <2>2. PICK kept \in BOOLEAN :
          /\ z = [y EXCEPT !.registered = kept]
          /\ ~y.paused /\ y.flowing /\ ~y.closed /\ ~y.failed /\ ~y.ended => kept = TRUE
    BY <1>2 DEF Pruned
  <2>3. DOMAIN y = Fields /\ y.native \in Natives /\ y.asynchronous /\ Primed(y)
    BY <1>2, <2>1 DEF Good, Typed, Placed
  <2> HIDE DEF y, z
  <2>4. /\ Differs(y, z, Free \cup {"ended", "paused", "flowing", "onData", "onReadable",
                                    "registered", "asynchronous", "pipes"})
        /\ z.native = y.native /\ z.registered = kept /\ z.asynchronous = y.asynchronous
        /\ z.paused = y.paused /\ z.flowing = y.flowing /\ z.ended = y.ended
        /\ z.closed = y.closed /\ z.failed = y.failed /\ z.pipes = y.pipes
    BY <2>2, <2>3 DEF Differs, Fields, Free
  <2>5. Looped(z)
    BY <2>2, <2>4 DEF Looped
  <2> QED
    BY <2>1, <2>3, <2>4, <2>5, StateKeeps DEF z
<1> QED
  BY <1>1, <1>2

\* What read takes: n units of x, of a stream that is neither closed nor failed.
Takeable(x, n, r) ==
  /\ Good(x, r)
  /\ n \in 0..Len(x.buffer)
  /\ n > 0 => ~x.closed /\ ~x.failed

\* The sizes of read, and of read_sized.
SizeSet == {<<>>} \cup {<<n>> : n \in Sizes}

\* The end is reached.
LEMMA EndReadKeeps ==
  ASSUME NEW x, NEW r, Able(x, r), ~x.closed, ~x.failed, Len(x.buffer) = 0, x.eof,
         NEW t \in EndRead(x)
  PROVE  Takeable(t[1], t[2], r) /\ Same(x, t[1])
<1> DEFINE a == [x EXCEPT !.ended = TRUE]
           y == EventsEnded(a)
<1>1. /\ Good(x, r) /\ Primed(x) /\ DOMAIN x = Fields /\ x.native \in Natives /\ Placed(x)
  BY DEF Able, Good, Typed
<1>2. /\ Differs(x, a, Free \cup {"ended", "paused", "flowing", "onData", "onReadable",
                                  "registered", "asynchronous", "pipes"})
      /\ a.ended = TRUE /\ a.native = x.native /\ a.registered = x.registered
      /\ a.onData = x.onData /\ a.onReadable = x.onReadable /\ a.pipes = x.pipes
      /\ a.asynchronous = x.asynchronous
  BY <1>1 DEF Differs, Fields, Free
<1>3. PICK z : z \in (IF x.autoClose THEN Closes(y) ELSE {y}) /\ t = <<z, 0>>
  BY DEF EndRead
<1> HIDE DEF a
<1>9. Len(r) = Total
  <2>1. /\ x.got = Total /\ r \o x.buffer = UpTo(x.got) /\ x.got \in Nat
        /\ r \in Seq(Nat) /\ x.buffer \in Seq(Nat)
    BY <1>1 DEF Good, Typed, Ordered, Ending, Sourced
  <2>2. Len(r \o x.buffer) = Len(r) + Len(x.buffer) /\ Len(r) \in Nat
    BY <2>1, ConcatProperties
  <2> QED
    BY <2>1, <2>2, UpToProperties
<1>4. Good(a, r) /\ Primed(a) /\ Same(x, a)
  <2>1. Looped(a)
    BY <1>2 DEF Looped
  <2>2. /\ a.registered \/ a.onData \/ a.onReadable \/ a.pipes # {} \/ a.native # "none"
             => a.asynchronous
        /\ a.asynchronous => Primed(x)
    BY <1>1, <1>2 DEF Placed
  <2>3. Good(a, r) /\ (Primed(x) => Primed(a)) /\ a.endTold = x.endTold
    BY <1>1, <1>2, <2>1, <2>2, StateKeeps
  <2> QED
    BY <1>1, <1>2, <2>3 DEF Same
<1>5. Able(y, r) /\ Same(a, y)
  BY <1>4, <1>9, EventsKeep DEF Able
<1> HIDE DEF y
<1>6. CanPrepare(y) /\ Good(y, r)
  BY <1>5, PrimedPasses DEF Able, Good
<1>7. Good(z, r) /\ Same(y, z)
  BY <1>3, <1>6, ClosesKeep DEF Same
<1>8. 0 \in 0..Len(z.buffer)
  BY <1>7, LenProperties DEF Good, Typed
<1> QED
  BY <1>3, <1>4, <1>5, <1>7, <1>8 DEF Takeable, Same

\* _read_sized, once it has filled the buffer.
LEMMA TakesKeep ==
  ASSUME NEW x, NEW r, Able(x, r), ~x.closed, NEW size \in SizeSet, NEW t \in Takes(x, size)
  PROVE  Takeable(t[1], t[2], r) /\ Same(x, t[1])
<1>1. Good(x, r) /\ Len(x.buffer) \in Nat
  BY LenProperties DEF Able, Good, Typed
<1>2. ASSUME size # <<>>
      PROVE  size[1] \in Nat
  <2>1. PICK n \in Sizes : size = <<n>>
    BY <1>2, Zenon DEF SizeSet
  <2>2. size[1] = n
    BY <2>1
  <2>3. n \in {0, 1, 2}
    BY <2>1, Zenon, ReadableAssumption
  <2> QED
    BY <2>2, <2>3
<1>3. CASE ~x.failed /\ Len(x.buffer) = 0 /\ x.eof
  <2>1. t \in EndRead(x)
    BY <1>3 DEF Takes
  <2> QED
    BY <1>3, <2>1, EndReadKeeps
<1>4. CASE ~(~x.failed /\ Len(x.buffer) = 0 /\ x.eof)
  <2>1. PICK n \in 0..Len(x.buffer) : t = <<x, n>> /\ (n > 0 => ~x.failed)
    BY <1>1, <1>2, <1>4 DEF Takes
  <2> QED
    BY <1>1, <2>1 DEF Takeable, Same
<1> QED
  BY <1>3, <1>4

\* The threshold grows.
LEMMA GrownKeeps ==
  ASSUME NEW x, NEW r, Good(x, r), NEW size
  PROVE  /\ Good(Grown(x, size), r) /\ Grown(x, size).closed = x.closed
         /\ Same(x, Grown(x, size))
         /\ CanPrepare(x) => CanPrepare(Grown(x, size))
<1> DEFINE g == Grown(x, size)
<1>1. /\ Differs(x, g, Free) /\ g.native = x.native /\ g.closed = x.closed
      /\ g.closeTold = x.closeTold /\ g.reservations = x.reservations /\ g.queue = x.queue
      /\ g.endQueued = x.endQueued /\ g.error = x.error /\ g.closeQueued = x.closeQueued
  BY DEF Grown, Good, Typed, Differs, Fields, Free
<1> HIDE DEF g
<1>2. Good(g, r) /\ Same(x, g)
  BY <1>1, FreeKeeps
<1>3. Wanted(g) = Wanted(x)
  BY <1>1 DEF Wanted, Events
<1>4. CanPrepare(x) => CanPrepare(g)
  BY <1>1, <1>3 DEF CanPrepare
<1> QED
  BY <1>1, <1>2, <1>4 DEF g

\* read and read_sized, up to what they take.
LEMMA ReadSizedKeeps ==
  ASSUME NEW x, NEW r, Good(x, r), CanPrepare(x), NEW size \in SizeSet,
         NEW t \in ReadSized(x, size)
  PROVE  Takeable(t[1], t[2], r) /\ Same(x, t[1])
<1> DEFINE g == Grown(x, size)
           p == Prepared(g)
           y == [p EXCEPT !.readablePending = FALSE]
           minimum == IF size = <<>> THEN 1 ELSE size[1]
<1>1. CASE x.closed \/ x.failed
  <2>1. t = <<g, 0>>
    BY <1>1 DEF ReadSized
  <2>2. Good(g, r) /\ Same(x, g)
    BY GrownKeeps
  <2>3. 0 \in 0..Len(g.buffer)
    BY <2>2, LenProperties DEF Good, Typed
  <2> QED
    BY <2>1, <2>2, <2>3 DEF Takeable
<1>2. CASE ~(x.closed \/ x.failed)
  <2>1. Good(g, r) /\ CanPrepare(g) /\ g.closed = x.closed /\ Same(x, g)
    BY GrownKeeps
  <2>2. PICK z : (z = y \/ z \in FilledTo(y, minimum)) /\ t \in Takes(z, size)
    BY <1>2 DEF ReadSized
  <2>3. Able(p, r) /\ Differs(g, p, {"reservations", "queue"}) /\ Same(g, p)
    BY <2>1, PreparedKeeps
  <2>4. p.closed = g.closed /\ DOMAIN p = Fields
    BY <2>3 DEF Differs, Fields
  <2> HIDE DEF g, p
  <2>5. Differs(p, y, Free) /\ y.native = p.native /\ y.closed = p.closed
    BY <2>4 DEF Differs, Fields, Free
  <2> HIDE DEF y, minimum
  <2>6. Able(y, r) /\ Same(p, y)
    BY <2>3, <2>5, FreeKeeps DEF Able
  <2>7. Able(z, r) /\ z.closed = y.closed /\ Same(y, z)
    BY <2>2, <2>6, FilledToKeeps DEF Same
  <2>8. ~z.closed
    BY <1>2, <2>1, <2>4, <2>5, <2>7
  <2>9. Takeable(t[1], t[2], r) /\ Same(z, t[1])
    BY <2>2, <2>7, <2>8, TakesKeep
  <2> QED
    BY <2>1, <2>3, <2>6, <2>7, <2>9 DEF Same
<1> QED
  BY <1>1, <1>2

\* The units leave the buffer.
LEMMA WithoutKeeps ==
  ASSUME NEW x, NEW r, NEW n, Takeable(x, n, r)
  PROVE  Good(Without(x, n), r \o Units(x, n)) /\ Same(x, Without(x, n))
<1> DEFINE y == Without(x, n)
           s == r \o Units(x, n)
<1>1. /\ Good(x, r) /\ r \in Seq(Nat) /\ x.buffer \in Seq(Nat) /\ n \in 0..Len(x.buffer)
      /\ x.got \in Nat /\ DOMAIN x = Fields /\ (n > 0 => ~x.closed /\ ~x.failed)
  BY DEF Takeable, Good, Typed, Ordered
<1>2. /\ Units(x, n) \in Seq(Nat) /\ SubSeq(x.buffer, n + 1, Len(x.buffer)) \in Seq(Nat)
      /\ s \in Seq(Nat) /\ s \o SubSeq(x.buffer, n + 1, Len(x.buffer)) = r \o x.buffer
  BY <1>1, UnitsMove DEF Units
<1>3. /\ y.buffer = SubSeq(x.buffer, n + 1, Len(x.buffer)) /\ y.got = x.got
      /\ y.paused = x.paused /\ y.native = x.native
      /\ y.flowing = x.flowing /\ y.ended = x.ended /\ y.closed = x.closed
      /\ y.failed = x.failed /\ y.asynchronous = x.asynchronous /\ y.pipes = x.pipes
      /\ y.registered = x.registered /\ y.onData = x.onData
      /\ y.onReadable = x.onReadable /\ y.error = x.error /\ y.endQueued = x.endQueued
      /\ y.closeQueued = x.closeQueued /\ y.closeTold = x.closeTold
      /\ y.reservations = x.reservations /\ y.queue = x.queue /\ y.starved = x.starved
      /\ y.eof = x.eof /\ y.endTold = x.endTold /\ DOMAIN y = Fields
  BY <1>1 DEF Without, Fields
<1>4. n = 0 => s = r
  BY <1>1 DEF Units
<1> HIDE DEF y, s
<1>5. Typed(y)
  BY <1>2, <1>3 DEF Takeable, Good, Typed
<1>6. Primed(x) <=> Primed(y)
  BY <1>3 DEF Primed
<1>7. Placed(y) /\ Looped(y)
  BY <1>1, <1>3, <1>6 DEF Good, Placed, Looped
<1>8. Ordered(y, s)
  <2>1. ~x.closed /\ ~x.failed => s \o y.buffer = UpTo(x.got)
    BY <1>1, <1>2, <1>3 DEF Good, Ordered
  <2>2. CASE n = 0
    BY <1>1, <1>3, <1>4, <2>1, <2>2 DEF Good, Ordered
  <2>3. CASE n # 0
    <3>1. ~x.closed /\ ~x.failed
      BY <1>1, <2>3
    <3>2. Len(s) <= x.got /\ \A i \in 1..Len(s) : s[i] = i
      BY <1>1, <1>2, <1>3, <2>1, <3>1, ReadFirst
    <3> QED
      BY <1>2, <1>3, <2>1, <3>2 DEF Ordered
  <2> QED
    BY <2>2, <2>3
<1>9. Ending(y, s)
  <2>1. x.endQueued => Len(s) = Total
    <3>1. /\ Len(s) <= x.got /\ x.got <= Total /\ (x.endQueued => Len(r) = Total)
          /\ Total \in Nat
      BY <1>1, <1>3, <1>8, ReadableAssumption DEF Good, Ordered, Ending, Sourced
    <3>2. /\ Len(s) = Len(r) + Len(Units(x, n)) /\ Len(s) \in Nat /\ Len(r) \in Nat
          /\ Len(Units(x, n)) \in Nat
      BY <1>1, <1>2, ConcatProperties DEF s
    <3> QED
      BY <1>1, <3>1, <3>2
  <2> QED
    BY <1>1, <1>3, <2>1 DEF Good, Ending, Sourced
<1> QED
  BY <1>3, <1>5, <1>7, <1>8, <1>9 DEF Good, y, s, Same
-----------------------------------------------------------------------------
(***************************************************************************)
(* The inductive invariant, and one lemma for each action or group.        *)
(***************************************************************************)

IInv == Good(stream, read)

\* The first stream.
LEMMA Initially == Init => IInv
<1> SUFFICES ASSUME Init PROVE IInv
  OBVIOUS
<1>1. PICK a \in BOOLEAN, ranged \in BOOLEAN : stream = NewStream(a, ranged)
  BY DEF Init
<1>2. read = <<>>
  BY DEF Init
<1>3. EmptyQueue \in Queues /\ ~HasClose(EmptyQueue) /\ ~HasPipe(EmptyQueue)
  BY LimitAssumption DEF EmptyQueue, Queues, HasClose, HasPipe, Members, ToSet
<1>4. /\ DOMAIN stream = Fields /\ stream.queue = EmptyQueue /\ stream.buffer = <<>>
      /\ stream.got = 0 /\ stream.reservations = {} /\ stream.native = "none"
      /\ stream.starved = FALSE /\ stream.closeTold = FALSE /\ stream.asynchronous = FALSE
      /\ stream.registered = FALSE /\ stream.onData = FALSE /\ stream.onReadable = FALSE
      /\ stream.pipes = {} /\ stream.flowing = FALSE /\ stream.eof = FALSE
      /\ stream.endQueued = FALSE
  BY <1>1 DEF NewStream, Fields
<1>5. Typed(stream)
  BY <1>3, <1>4 DEF Typed, Natives
<1>6. Placed(stream) /\ Looped(stream)
  BY <1>3, <1>4 DEF Placed, Looped
<1>7. UpTo(0) = <<>>
  BY UpToProperties, EmptySeq
<1>8. Ordered(stream, read)
  BY <1>2, <1>4, <1>7 DEF Ordered
<1>9. Ending(stream, read)
  BY <1>3, <1>4, ReadableAssumption DEF Ending, Sourced
<1> QED
  BY <1>5, <1>6, <1>8, <1>9 DEF IInv, Good

\* A stream that was activated passes prepare.
LEMMA ActivePasses ==
  ASSUME NEW x, NEW r, Good(x, r),
         x.registered \/ x.onData \/ x.onReadable \/ x.pipes # {} \/ x.native # "none"
  PROVE  Able(x, r) /\ CanPrepare(x)
BY PrimedPasses DEF Able, Good, Placed

\* What read takes leaves the stream.
LEMMA EmitStep ==
  ASSUME NEW x, NEW n, Takeable(x, n, read), NEW to, NEW after, Emit(x, n, to, after)
  PROVE  IInv'
<1>1. stream' = Without(x, n) /\ read' = read \o Units(x, n)
  BY DEF Emit
<1> QED
  BY <1>1, WithoutKeeps DEF IInv

\* read and read_sized
LEMMA ReadStep ==
  ASSUME IInv, NEW size \in SizeSet, Read(size)
  PROVE  IInv'
<1>1. ASSUME CanPrepare(stream), NEW taken \in ReadSized(stream, size),
             Emit(taken[1], taken[2], sink, loop)
      PROVE  IInv'
  <2>1. Takeable(taken[1], taken[2], read)
    BY <1>1, ReadSizedKeeps DEF IInv
  <2> QED
    BY <1>1, <2>1, EmitStep
<1>2. CASE stream' = Grown(stream, size) /\ UNCHANGED read
  BY <1>2, GrownKeeps DEF IInv
<1> QED
  BY <1>1, <1>2 DEF Read

\* Operations that change who listens and whether the stream flows.
LEMMA StateSteps ==
  ASSUME IInv, Pause \/ OffData \/ OffReadable
  PROVE  IInv'
<1> DEFINE S == Free \cup {"ended", "paused", "flowing", "onData", "onReadable",
                           "registered", "asynchronous", "pipes"}
<1>1. /\ Good(stream, read) /\ DOMAIN stream = Fields /\ stream.native \in Natives
      /\ Looped(stream) /\ Placed(stream)
  BY DEF IInv, Good, Typed
<1>2. read' = read
  BY DEF Pause, OffData, OffReadable
<1>3. CASE Pause
  <2>1. stream' = [stream EXCEPT !.paused = TRUE, !.flowing = FALSE]
    BY <1>3 DEF Pause
  <2> DEFINE y == [stream EXCEPT !.paused = TRUE, !.flowing = FALSE]
  <2>2. /\ Differs(stream, y, S) /\ y.paused = TRUE /\ y.native = stream.native
        /\ y.registered = stream.registered /\ y.onData = stream.onData
        /\ y.onReadable = stream.onReadable /\ y.pipes = stream.pipes
        /\ y.asynchronous = stream.asynchronous
    BY <1>1 DEF Differs, Fields, Free
  <2> HIDE DEF y
  <2>3. Good(y, read)
    BY <1>1, <2>2, StateKeeps DEF Looped, Placed
  <2> QED
    BY <1>2, <2>1, <2>3 DEF IInv, y
<1>4. CASE OffData
  <2>1. stream' = [stream EXCEPT !.onData = FALSE]
    BY <1>4 DEF OffData
  <2> DEFINE y == [stream EXCEPT !.onData = FALSE]
  <2>2. /\ Differs(stream, y, S) /\ y.onData = FALSE /\ y.native = stream.native
        /\ y.registered = stream.registered /\ y.onReadable = stream.onReadable
        /\ y.pipes = stream.pipes /\ y.asynchronous = stream.asynchronous
        /\ y.flowing = stream.flowing /\ y.paused = stream.paused
        /\ y.ended = stream.ended /\ y.closed = stream.closed /\ y.failed = stream.failed
    BY <1>1 DEF Differs, Fields, Free
  <2> HIDE DEF y
  <2>3. Good(y, read)
    BY <1>1, <2>2, StateKeeps DEF Looped, Placed
  <2> QED
    BY <1>2, <2>1, <2>3 DEF IInv, y
<1>5. CASE OffReadable
  <2> DEFINE y == [stream EXCEPT !.onReadable = FALSE]
  <2>1. stream' = IF HasDataListeners(y) /\ ~y.paused THEN Resumed(y) ELSE y
    BY <1>5 DEF OffReadable
  <2>2. /\ Differs(stream, y, S) /\ y.onReadable = FALSE /\ y.native = stream.native
        /\ y.registered = stream.registered /\ y.onData = stream.onData
        /\ y.pipes = stream.pipes /\ y.asynchronous = stream.asynchronous
        /\ y.flowing = stream.flowing /\ y.paused = stream.paused
        /\ y.ended = stream.ended /\ y.closed = stream.closed /\ y.failed = stream.failed
    BY <1>1 DEF Differs, Fields, Free
  <2> HIDE DEF y
  <2>3. Good(y, read)
    BY <1>1, <2>2, StateKeeps DEF Looped, Placed
  <2>4. HasDataListeners(y) => Good(Resumed(y), read)
    BY <2>3, ActivePasses, ActivatedKeeps DEF HasDataListeners, Able
  <2> QED
    BY <1>2, <2>1, <2>3, <2>4 DEF IInv
<1> QED
  BY <1>3, <1>4, <1>5

\* close and resume
LEMMA CloseStep ==
  ASSUME IInv, Close \/ Resume
  PROVE  IInv'
BY ClosesKeep, ActivatedKeeps DEF IInv, Close, Resume, Operation, Able

\* The listeners of data and readable.
LEMMA ListenSteps ==
  ASSUME IInv, OnData \/ OnReadable
  PROVE  IInv'
<1> DEFINE S == Free \cup {"ended", "paused", "flowing", "onData", "onReadable",
                           "registered", "asynchronous", "pipes"}
           a == Activated(stream)
<1>1. Good(stream, read) /\ CanPrepare(stream) /\ read' = read
  BY DEF IInv, OnData, OnReadable, Operation
<1>2. Able(a, read) /\ a.registered = TRUE /\ a.asynchronous = TRUE
  BY <1>1, ActivatedKeeps
<1>3. Good(a, read) /\ Primed(a) /\ DOMAIN a = Fields /\ a.native \in Natives
  BY <1>2 DEF Able, Good, Typed
<1>4. CASE OnData
  <2> DEFINE y == [a EXCEPT !.onData = TRUE]
  <2>1. stream' = IF y.paused THEN y ELSE Resumed(y)
    BY <1>4 DEF OnData
  <2> HIDE DEF a
  <2>2. /\ Differs(a, y, S) /\ y.registered = TRUE /\ y.asynchronous = TRUE
        /\ y.native = a.native
    BY <1>2, <1>3 DEF Differs, Fields, Free
  <2> HIDE DEF y
  <2>3. Good(y, read)
    BY <1>3, <2>2, StateKeeps DEF Looped
  <2>4. Good(Resumed(y), read)
    BY <2>2, <2>3, ActivePasses, ActivatedKeeps DEF Able
  <2> QED
    BY <1>1, <2>1, <2>3, <2>4 DEF IInv
<1>5. CASE OnReadable
  <2> DEFINE y == [a EXCEPT !.onReadable = TRUE, !.flowing = FALSE,
                            !.readablePending = stream.buffer # <<>> \/ stream.eof]
  <2>1. stream' = y
    BY <1>5 DEF OnReadable
  <2> HIDE DEF a
  <2>2. /\ Differs(a, y, S) /\ y.registered = TRUE /\ y.asynchronous = TRUE
        /\ y.native = a.native
    BY <1>2, <1>3 DEF Differs, Fields, Free
  <2> HIDE DEF y
  <2>3. Good(y, read)
    BY <1>3, <2>2, StateKeeps DEF Looped
  <2> QED
    BY <1>1, <2>1, <2>3 DEF IInv
<1> QED
  BY <1>4, <1>5

\* The queue changes, and gains no close event.
LEMMA QueueKeeps ==
  ASSUME NEW x, NEW r, Good(x, r), NEW y, Differs(x, y, {"queue"}), y.queue \in Queues,
         HasClose(y.queue) => HasClose(x.queue), HasPipe(y.queue) => x.endTold
  PROVE  Good(y, r) /\ Same(x, y)
<1>1. /\ Differs(x, y, {"reservations", "queue", "endQueued", "error", "closeQueued", "closeTold"})
      /\ y.reservations = x.reservations /\ y.endQueued = x.endQueued /\ y.error = x.error
      /\ y.closeQueued = x.closeQueued /\ y.closeTold = x.closeTold
  BY DEF Differs, Fields
<1>2. Primed(x) <=> Primed(y)
  BY <1>1 DEF Primed
<1> QED
  BY <1>1, <1>2, PlacesKeep DEF Good, Typed, Placed

\* pipe_to and pipe_to_response
LEMMA PipeStep ==
  ASSUME IInv, NEW d \in Sinks, Pipe(d)
  PROVE  IInv'
<1>1. Good(stream, read) /\ read' = read
  BY DEF IInv, Pipe
<1>2. CASE /\ stream.endTold /\ HasCapacity(stream.queue)
           /\ stream' = [stream EXCEPT !.queue = Committed(Reserved(@), <<"pipe", d>>)]
  <2> DEFINE q == Reserved(stream.queue)
             c == Committed(q, <<"pipe", d>>)
             y == [stream EXCEPT !.queue = c]
  <2>1. After(stream.queue, q)
    BY <1>1, <1>2, PlacesAfter DEF Good, Typed
  <2>2. <<"pipe", d>> \in Notes /\ <<"pipe", d>> # Closing
    BY DEF Notes, Closing
  <2> HIDE DEF q
  <2>3. c \in Queues /\ (HasClose(c) => HasClose(stream.queue))
    BY <2>1, <2>2, CommitAfter DEF After, HasClose
  <2> HIDE DEF c
  <2>4. /\ Differs(stream, y, {"queue"}) /\ y.queue = c
    BY <1>1 DEF Good, Typed, Differs, Fields
  <2>5. Good(y, read)
    BY <1>1, <1>2, <2>3, <2>4, QueueKeeps
  <2> QED
    BY <1>1, <1>2, <2>5 DEF IInv, c, q
<1>3. CASE /\ CanPrepare(stream)
           /\ stream' = Resumed([Activated(stream) EXCEPT !.pipes = @ \cup {d}])
  <2> DEFINE S == Free \cup {"ended", "paused", "flowing", "onData", "onReadable",
                             "registered", "asynchronous", "pipes"}
             a == Activated(stream)
             y == [a EXCEPT !.pipes = @ \cup {d}]
  <2>1. Able(a, read) /\ a.registered = TRUE /\ a.asynchronous = TRUE
    BY <1>1, <1>3, ActivatedKeeps
  <2>2. Good(a, read) /\ Primed(a) /\ DOMAIN a = Fields /\ a.native \in Natives
    BY <2>1 DEF Able, Good, Typed
  <2>3. stream' = Resumed(y)
    BY <1>3
  <2> HIDE DEF a
  <2>4. /\ Differs(a, y, S) /\ y.registered = TRUE /\ y.asynchronous = TRUE
        /\ y.native = a.native
    BY <2>1, <2>2 DEF Differs, Fields, Free
  <2> HIDE DEF y
  <2>5. Good(y, read)
    BY <2>2, <2>4, StateKeeps DEF Looped
  <2>6. Good(Resumed(y), read)
    BY <2>4, <2>5, ActivePasses, ActivatedKeeps DEF Able
  <2> QED
    BY <1>1, <2>3, <2>6 DEF IInv
<1> QED
  BY <1>2, <1>3 DEF Pipe

\* The native read, other streams of the queue, and the destinations.
LEMMA EnvironmentStep ==
  ASSUME IInv, NativeCompletes \/ Others \/ \E d \in Sinks : Drain(d) \/ SinkFails(d)
  PROVE  IInv'
<1>1. Good(stream, read) /\ read' = read /\ DOMAIN stream = Fields
  BY DEF IInv, Good, Typed, NativeCompletes, Others, Drain, SinkFails
<1>2. CASE NativeCompletes
  <2>1. PICK result \in ReadResults(stream) : stream' = [stream EXCEPT !.native = result]
    BY <1>2 DEF NativeCompletes
  <2> DEFINE y == [stream EXCEPT !.native = result]
  <2>2. /\ result \in Natives /\ stream.asynchronous
        /\ result = "unit" => stream.got < Total
        /\ result = "eof" => ~(stream.got < Total)
    BY <1>1, <1>2 DEF ReadResults, Natives, NativeCompletes, Good, Placed
  <2>3. /\ Differs(stream, y, {"eof", "native", "readablePending", "endTold"})
        /\ y.native = result /\ y.got = stream.got /\ y.eof = stream.eof
        /\ y.endTold = stream.endTold
    BY <1>1 DEF Differs, Fields
  <2>5. Sourced(y)
    <3>1. stream.got <= Total /\ stream.got \in Nat /\ Total \in Nat
      BY <1>1, ReadableAssumption DEF Good, Typed, Ending, Sourced
    <3>2. ~(stream.got < Total) => stream.got = Total
      BY <3>1
    <3> QED
      BY <1>1, <2>2, <2>3, <3>1, <3>2 DEF Good, Ending, Sourced
  <2> HIDE DEF y
  <2>4. Good(y, read)
    BY <1>1, <2>2, <2>3, <2>5, SourceKeeps
  <2> QED
    BY <1>1, <2>1, <2>4 DEF IInv, y
<1>3. CASE Others
  <2> DEFINE q == IF stream.others THEN Released(stream.queue) ELSE Reserved(stream.queue)
             a == [stream EXCEPT !.queue = q]
             y == [a EXCEPT !.others = ~@]
  <2>1. After(stream.queue, q)
    BY <1>1, <1>3, PlacesAfter DEF Good, Typed, Others
  <2>2. stream' = [stream EXCEPT !.others = ~@, !.queue = q]
    BY <1>3 DEF Others
  <2> HIDE DEF q
  <2>3. Differs(stream, a, {"queue"}) /\ a.queue = q
    BY <1>1 DEF Differs, Fields
  <2>4. stream' = y
    BY <1>1, <2>2 DEF Fields
  <2> HIDE DEF a
  <2>5. Good(a, read)
    BY <1>1, <2>1, <2>3, QueueKeeps DEF After, HasClose, HasPipe, Good, Ending
  <2>6. Differs(a, y, Free) /\ y.native = a.native
    BY <2>3 DEF Differs, Fields, Free
  <2> HIDE DEF y
  <2>7. Good(y, read)
    BY <2>5, <2>6, FreeKeeps DEF Good, Typed, Placed
  <2> QED
    BY <1>1, <2>4, <2>7 DEF IInv
<1>4. CASE \E d \in Sinks : Drain(d) \/ SinkFails(d)
  <2>1. stream' = stream
    BY <1>4 DEF Drain, SinkFails
  <2> QED
    BY <1>1, <2>1 DEF IInv
<1> QED
  BY <1>2, <1>3, <1>4

\* The rest of a poll that emits no data.
LEMMA PollRestStep ==
  ASSUME NEW x, Good(x, read), NEW blocked, PollRest(x, blocked)
  PROVE  IInv'
<1>1. read' = read
  BY DEF PollRest
<1>2. x.native # "none" \/ x.onReadable => Able(x, read)
  BY ActivePasses
<1>3. ASSUME NEW y, stream' = Pruned(y),
             y = x \/ ((x.native # "none" \/ x.onReadable) /\ y \in Filled(x))
      PROVE  IInv'
  <2>1. Good(y, read)
    BY <1>2, <1>3, FilledKeeps DEF Able
  <2> QED
    BY <1>1, <1>3, <2>1, PrunedKeeps DEF IInv
<1>4. ASSUME x.onReadable, NEW y, y = x \/ y \in Filled(x),
             stream' = [y EXCEPT !.readablePending = FALSE]
      PROVE  IInv'
  <2> DEFINE z == [y EXCEPT !.readablePending = FALSE]
  <2>1. Good(y, read)
    BY <1>2, <1>4, FilledKeeps DEF Able
  <2>2. Differs(y, z, Free) /\ z.native = y.native
    BY <2>1 DEF Good, Typed, Differs, Fields, Free
  <2> HIDE DEF z
  <2>3. Good(z, read)
    BY <2>1, <2>2, FreeKeeps DEF Good, Typed, Placed
  <2> QED
    BY <1>1, <1>4, <2>3 DEF IInv, z
<1>5. \/ \E y : /\ stream' = Pruned(y)
                /\ y = x \/ ((x.native # "none" \/ x.onReadable) /\ y \in Filled(x))
      \/ \E y : /\ x.onReadable /\ (y = x \/ y \in Filled(x))
                /\ stream' = [y EXCEPT !.readablePending = FALSE]
  BY DEF PollRest
<1> QED
  BY <1>3, <1>4, <1>5

\* The rest of a poll that reads and emits data.
LEMMA PollDataStep ==
  ASSUME NEW x, Good(x, read), NEW blocked, NEW to, PollData(x, blocked, to)
  PROVE  IInv'
<1>1. x.registered
  BY DEF PollData, Good, Looped
<1>2. Able(x, read)
  BY <1>1, ActivePasses
<1>3. PICK y \in (IF x.buffer = <<>> \/ x.native # "none" THEN Filled(x) ELSE {x}) :
        \E taken \in ReadSized(y, <<>>) :
          \/ Emit(taken[1], taken[2], to, At("listener"))
          \/ stream' = Pruned(taken[1]) /\ UNCHANGED read
  BY DEF PollData
<1>4. PICK taken \in ReadSized(y, <<>>) :
          \/ Emit(taken[1], taken[2], to, At("listener"))
          \/ stream' = Pruned(taken[1]) /\ UNCHANGED read
  BY <1>3
<1>5. Able(y, read)
  BY <1>2, FilledKeeps
<1>6. Good(y, read) /\ CanPrepare(y) /\ <<>> \in SizeSet
  BY <1>5, PrimedPasses DEF Able, Good, SizeSet
<1>7. Takeable(taken[1], taken[2], read)
  BY <1>6, ReadSizedKeeps
<1>8. CASE Emit(taken[1], taken[2], to, At("listener"))
  BY <1>7, <1>8, EmitStep
<1>9. CASE stream' = Pruned(taken[1]) /\ UNCHANGED read
  BY <1>7, <1>9, PrunedKeeps DEF Takeable, IInv
<1> QED
  BY <1>4, <1>8, <1>9

\* poll_readables and has_active_readables
LEMMA PollStep ==
  ASSUME IInv, Polls \/ TestActive
  PROVE  IInv'
<1>1. Good(stream, read)
  BY DEF IInv
<1>2. CASE PollOver
  <2>1. Good(SinksPruned(stream, TRUE), read)
    BY <1>1, SinksPrunedKeeps
  <2> QED
    BY <1>2, <2>1, PrunedKeeps DEF PollOver, IInv
<1>3. CASE PollReady
  <2> DEFINE x == SinksPruned(stream, FALSE)
             asked == [d \in Sinks |-> IF d \in x.pipes THEN Ready(sink[d]) ELSE sink[d]]
             blocked == \E d \in x.pipes : asked[d].waiting
             y == [x EXCEPT !.resumePending = FALSE]
  <2>1. Good(x, read)
    BY <1>1, SinksPrunedKeeps
  <2>2. \/ stream' = y /\ UNCHANGED read
        \/ PollRest(x, blocked)
        \/ PollData(x, blocked, asked)
    BY <1>3 DEF PollReady
  <2> HIDE DEF x
  <2>3. Differs(x, y, Free) /\ y.native = x.native
    BY <2>1 DEF Good, Typed, Differs, Fields, Free
  <2> HIDE DEF asked, blocked, y
  <2>4. Good(y, read)
    BY <2>1, <2>3, FreeKeeps DEF Good, Typed, Placed
  <2> QED
    BY <2>1, <2>2, <2>4, PollRestStep, PollDataStep DEF IInv
<1>4. CASE ResumeReturns
  BY <1>1, <1>4, PollRestStep, PollDataStep DEF ResumeReturns
<1>5. CASE ListenerDone \/ TestActive
  BY <1>1, <1>5, PrunedKeeps DEF ListenerDone, TestActive, IInv
<1>6. CASE DataListenerDone
  BY <1>6 DEF DataListenerDone, IInv
<1> QED
  BY <1>2, <1>3, <1>4, <1>5, <1>6 DEF Polls

\* A notification is called.
LEMMA CallStep ==
  ASSUME NEW x, Good(x, read), x.queue.batch # <<>>, CallNext(x)
  PROVE  IInv'
<1> DEFINE q == Dispatched(x.queue)
           y == [x EXCEPT !.queue = q]
           n == Head(x.queue.batch)
<1>1. After(x.queue, q) /\ (n = Closing => HasClose(x.queue))
  BY PollAfter DEF Good, Typed, HasClose
<1>2. read' = read /\ Invoked(y, n)
  BY DEF CallNext
<1> HIDE DEF q, n
<1>3. Differs(x, y, {"queue"}) /\ y.queue = q
  BY DEF Good, Typed, Differs, Fields
<1> HIDE DEF y
<1>4. Good(y, read) /\ DOMAIN y = Fields
  BY <1>1, <1>3, QueueKeeps DEF After, Good, Typed, Ending, HasClose, HasPipe
<1>5. CASE stream' = y
  BY <1>2, <1>4, <1>5 DEF IInv
<1>6. CASE stream' = [y EXCEPT !.endTold = TRUE]
  <2> DEFINE z == [y EXCEPT !.endTold = TRUE]
  <2>1. /\ Differs(y, z, {"eof", "native", "readablePending", "endTold"})
        /\ z.native = y.native /\ z.eof = y.eof /\ z.got = y.got /\ z.endTold = TRUE
    BY <1>4 DEF Differs, Fields
  <2> HIDE DEF z
  <2>2. Good(z, read)
    BY <1>4, <2>1, SourceKeeps DEF Good, Typed, Placed, Ending, Sourced
  <2> QED
    BY <1>2, <1>6, <2>2 DEF IInv, z
<1>7. CASE /\ n = Closing
           /\ stream' = [y EXCEPT !.closeTold = TRUE, !.reservations = {},
                            !.queue = ReleasedAll(@, Cardinality(y.reservations))]
  <2> DEFINE c == Cardinality(y.reservations)
             p == ReleasedAll(y.queue, c)
             z == [y EXCEPT !.closeTold = TRUE, !.reservations = {}, !.queue = p]
  <2>1. stream' = z
    BY <1>7
  <2>2. y.closeQueued
    BY <1>1, <1>3, <1>7 DEF Good, Placed, Differs, Fields
  <2>3. c \in Nat
    BY <1>4, EventsFinite DEF Good, Typed
  <2> HIDE DEF c
  <2>4. After(y.queue, p)
    BY <1>4, <2>3, PlacesAfter DEF Good, Typed
  <2> HIDE DEF p
  <2>5. /\ Differs(y, z, {"reservations", "queue", "endQueued", "error", "closeQueued", "closeTold"})
        /\ z.closeTold = TRUE /\ z.reservations = {} /\ z.queue = p
        /\ z.closeQueued = y.closeQueued /\ z.endQueued = y.endQueued
    BY <1>4 DEF Differs, Fields
  <2> HIDE DEF z
  <2>6. Good(z, read)
    BY <1>4, <2>2, <2>4, <2>5, PlacesKeep DEF After, Primed, HasClose, HasPipe, Good, Placed, Ending
  <2> QED
    BY <1>2, <2>1, <2>6 DEF IInv
<1> QED
  BY <1>2, <1>5, <1>6, <1>7 DEF Invoked, Closing

\* poll_streams
LEMMA NotifyStep ==
  ASSUME IInv, Notifies
  PROVE  IInv'
<1>1. Good(stream, read) /\ stream.queue \in Queues
  BY DEF IInv, Good, Typed
<1>2. ASSUME NEW q, After(stream.queue, q), NEW y, y = [stream EXCEPT !.queue = q]
      PROVE  Good(y, read) /\ y.queue = q /\ Same(stream, y)
  <2>1. Differs(stream, y, {"queue"}) /\ y.queue = q
    BY <1>1, <1>2 DEF Good, Typed, Differs, Fields
  <2> QED
    BY <1>1, <1>2, <2>1, QueueKeeps DEF After, Good, Ending, HasClose, HasPipe
<1>3. CASE PollQueue
  <2> DEFINE q == Started(stream.queue)
             y == [stream EXCEPT !.queue = q]
  <2>1. After(stream.queue, q) /\ q.batch = stream.queue.pending
    BY <1>1, PollAfter
  <2>2. stream.queue.pending # <<>> /\ CallNext(y)
    BY <1>3 DEF PollQueue, CanPoll
  <2> HIDE DEF q
  <2>3. Good(y, read) /\ y.queue = q
    BY <1>2, <2>1
  <2> HIDE DEF y
  <2> QED
    BY <2>1, <2>2, <2>3, CallStep
<1>4. CASE NotificationReturns
  <2>1. CASE stream.queue.batch # <<>> /\ CallNext(stream)
    BY <1>1, <2>1, CallStep
  <2>2. CASE stream' = [stream EXCEPT !.queue = Finished(@)] /\ UNCHANGED read
    <3>1. After(stream.queue, Finished(stream.queue))
      BY <1>1, PollAfter
    <3>2. Good(stream', read)
      BY <1>2, <2>2, <3>1
    <3> QED
      BY <2>2, <3>2 DEF IInv
  <2> QED
    BY <1>4, <2>1, <2>2 DEF NotificationReturns
<1>5. CASE NotificationRaises
  <2>1. stream' = [stream EXCEPT !.queue = Retained(@)] /\ read' = read
    BY <1>5 DEF NotificationRaises
  <2>2. After(stream.queue, Retained(stream.queue))
    BY <1>1, PollAfter
  <2>3. Good(stream', read)
    BY <1>2, <2>1, <2>2
  <2> QED
    BY <2>1, <2>3 DEF IInv
<1> QED
  BY <1>3, <1>4, <1>5 DEF Notifies
-----------------------------------------------------------------------------
(***************************************************************************)
(* Destinations.  R units were read, u says what user listeners upset.     *)
(*                                                                         *)
(* PipesComplete is not inductive.  What it says of a destination of the   *)
(* stream holds up to the chunk that a data listener of the user holds     *)
(* back (Coming), which no destination has yet and which is the last that  *)
(* was read unless the listener read on (Behind).                          *)
(***************************************************************************)

\* What was read since the destination s joined, and what of it s missed.
Later(s, R) == s.piped..R
Missed(s, R, u) == {v \in Later(s, R) : v \notin u.units /\ v \notin ToSet(s.got)}

\* What s received: units read since it joined, none twice, and in their order,
\* without gap, as long as no data listener reads.
InSequence(s, R, u) ==
  /\ \A i, j \in DOMAIN s.got : i < j => s.got[i] < s.got[j]
  /\ \A w \in ToSet(s.got), v \in Later(s, R) :
        v < w /\ v \notin u.units => v \in ToSet(s.got)
Fed(s, R, u) ==
  /\ DOMAIN s = {"writable", "full", "waiting", "piped", "got", "ends"}
  /\ s.piped \in 0..(R + 1) /\ s.got \in Seq(Nat) /\ s.writable \in BOOLEAN
  /\ IsInjective(s.got)
  /\ ToSet(s.got) \subseteq Later(s, R)
  /\ s.piped = 0 => s.got = <<>>
  /\ u.order \/ InSequence(s, R, u)

\* s is ended once, for the end of the stream, and then takes nothing.
Ended(s, told) == s.ends = 0 \/ (s.ends = 1 /\ ~s.writable /\ told)

\* What the data listener of the user holds back from d.
Coming(d) == IF loop.pc = "data" /\ d \in loop.to THEN ToSet(loop.due) ELSE {}

\* n units after the first a.
Chunk(a, n) == [i \in 1..n |-> a + i]

Behind ==
  loop.pc = "data" =>
    /\ loop.back # "data"
    /\ loop.to \subseteq stream.pipes
    /\ \E a, n \in Nat :
         /\ loop.due = Chunk(a, n) /\ a + n <= Len(read)
         /\ upset.order \/ a + n = Len(read)
         /\ \A d \in loop.to : sink[d].piped <= a + 1
    /\ \A d \in loop.to : ToSet(sink[d].got) \cap ToSet(loop.due) = {}

\* A destination of the stream has all that was read since, up to that.
Served(d) ==
  /\ sink[d].piped > 0
  /\ sink[d].writable => Missed(sink[d], Len(read), upset) \subseteq Coming(d)

PInv ==
  /\ DOMAIN sink = Sinks /\ stream.pipes \subseteq Sinks
  /\ DOMAIN loop = {"pc", "blocked", "due", "to", "back"}
  /\ DOMAIN upset = {"units", "end", "order"} /\ upset.order \in BOOLEAN
  /\ \A d \in Sinks : Fed(sink[d], Len(read), upset) /\ Ended(sink[d], stream.endTold)
  /\ \A d \in stream.pipes : Served(d)
  /\ Behind

\* What is in a chunk, and behind one.
LEMMA ChunkMembers ==
  ASSUME NEW a \in Nat, NEW n \in Nat
  PROVE  Chunk(a, n) \in Seq(Nat) /\ Len(Chunk(a, n)) = n /\ ToSet(Chunk(a, n)) = (a + 1)..(a + n)
<1> DEFINE c == Chunk(a, n)
<1>1. /\ c \in Seq(Nat) /\ Len(c) = n /\ DOMAIN c = 1..n
      /\ \A i \in 1..n : c[i] = a + i
  BY DEF Chunk
<1> HIDE DEF c
<1>2. ToSet(c) \subseteq (a + 1)..(a + n)
  BY <1>1 DEF ToSet
<1>3. ASSUME NEW v \in (a + 1)..(a + n) PROVE v \in ToSet(c)
  <2>1. v - a \in 1..n /\ a + (v - a) = v
    OBVIOUS
  <2>2. c[v - a] = v
    BY <1>1, <2>1
  <2> QED
    BY <1>1, <2>1, <2>2 DEF ToSet
<1> QED
  BY <1>1, <1>2, <1>3 DEF c

\* A list behind another.
LEMMA Joined ==
  ASSUME NEW s \in Seq(Nat), NEW t \in Seq(Nat), NEW u, u = s \o t
  PROVE  /\ u \in Seq(Nat) /\ Len(u) = Len(s) + Len(t)
         /\ \A i \in 1..Len(s) : u[i] = s[i]
         /\ \A i \in (Len(s) + 1)..Len(u) : u[i] = t[i - Len(s)] /\ i - Len(s) \in 1..Len(t)
BY ConcatProperties

\* More is read, more is upset.
LEMMA FedLater ==
  ASSUME NEW s, NEW R \in Nat, NEW u, u.order \in BOOLEAN, Fed(s, R, u), NEW Q \in Nat, R <= Q,
         NEW w, w.order \in BOOLEAN, u.units \subseteq w.units, u.order => w.order
  PROVE  /\ Fed(s, Q, w)
         /\ Missed(s, Q, w) \subseteq Missed(s, R, u) \cup (R + 1)..Q
<1>1. s.piped \in 0..(R + 1) /\ ToSet(s.got) \subseteq Later(s, R)
  BY DEF Fed
<1>2. s.piped \in 0..(Q + 1) /\ ToSet(s.got) \subseteq Later(s, Q)
  BY <1>1 DEF Later
<1>3. ASSUME InSequence(s, R, u)
      PROVE  InSequence(s, Q, w)
  <2>1. ASSUME NEW g \in ToSet(s.got), NEW v \in Later(s, Q), v < g, v \notin w.units
        PROVE  v \in ToSet(s.got)
    <3>1. v \in Later(s, R)
      BY <1>1, <2>1 DEF Later
    <3> QED
      BY <1>3, <2>1, <3>1 DEF InSequence
  <2> QED
    BY <1>3, <2>1 DEF InSequence
<1>4. Fed(s, Q, w)
  BY <1>2, <1>3 DEF Fed
<1>5. Missed(s, Q, w) \subseteq Missed(s, R, u) \cup (R + 1)..Q
  <2>1. \A v \in Later(s, Q) : v \in Later(s, R) \/ v \in (R + 1)..Q
    BY <1>1 DEF Later
  <2> QED
    BY <2>1 DEF Missed
<1> QED
  BY <1>4, <1>5

\* PipeSink.write of the units after a: they come behind what s received, unless
\* a data listener read, and nothing before them is missing then.
LEMMA WriteFeeds ==
  ASSUME NEW s, NEW R \in Nat, NEW u, u.order \in BOOLEAN, Fed(s, R, u), s.piped > 0,
         NEW a \in Nat, NEW n \in Nat, a + n <= R, s.piped <= a + 1,
         ToSet(s.got) \cap ToSet(Chunk(a, n)) = {},
         \/ u.order
         \/ a + n = R /\ (s.writable => Missed(s, R, u) \subseteq ToSet(Chunk(a, n))),
         NEW full, NEW t, t = WriteTo(s, Chunk(a, n), full)
  PROVE  /\ Fed(t, R, u) /\ t.piped = s.piped /\ t.ends = s.ends /\ t.writable = s.writable
         /\ ToSet(t.got) \subseteq ToSet(s.got) \cup ToSet(Chunk(a, n))
         /\ t.writable => Missed(t, R, u) \subseteq Missed(s, R, u) \ ToSet(Chunk(a, n))
<1> DEFINE c == Chunk(a, n)
           U == ToSet(c)
<1>1. CASE ~s.writable
  BY <1>1 DEF WriteTo, Fed
<1>2. CASE s.writable
  <2>1. t = [s EXCEPT !.got = @ \o c, !.full = @ \/ full, !.waiting = s.full \/ full]
    BY <1>2 DEF WriteTo
  <2>2. /\ DOMAIN t = {"writable", "full", "waiting", "piped", "got", "ends"}
        /\ t.writable = s.writable /\ t.piped = s.piped /\ t.ends = s.ends
        /\ t.got = s.got \o c
    BY <2>1 DEF Fed
  <2>3. /\ s.got \in Seq(Nat) /\ s.piped \in 0..(R + 1) /\ IsInjective(s.got)
        /\ ToSet(s.got) \subseteq Later(s, R) /\ (u.order \/ InSequence(s, R, u))
    BY DEF Fed
  <2>4. c \in Seq(Nat) /\ Len(c) = n /\ U = (a + 1)..(a + n)
    BY ChunkMembers
  <2>5. ToSet(s.got) \cap U = {} /\ (u.order \/ (a + n = R /\ Missed(s, R, u) \subseteq U))
    BY <1>2
  <2>6. \A i \in 1..n : c[i] = a + i /\ c[i] \in U
    BY <2>4 DEF Chunk
  <2> HIDE DEF c, U
  <2>7. PICK g, m : g = s.got /\ m = Len(g)
    OBVIOUS
  <2>8. g \in Seq(Nat) /\ m \in Nat /\ DOMAIN g = 1..m /\ \A i \in 1..m : g[i] \in ToSet(g)
    BY <2>3, <2>7, LenProperties DEF ToSet
  <2>9. PICK h : h = g \o c
    OBVIOUS
  <2>10. /\ h \in Seq(Nat) /\ Len(h) = m + n /\ DOMAIN h = 1..(m + n)
         /\ \A i \in 1..m : h[i] = g[i]
         /\ \A i \in (m + 1)..(m + n) : i - m \in 1..n /\ h[i] = c[i - m]
    <3>1. /\ h \in Seq(Nat) /\ Len(h) = Len(g) + Len(c)
          /\ \A i \in 1..Len(g) : h[i] = g[i]
          /\ \A i \in (Len(g) + 1)..Len(h) : h[i] = c[i - Len(g)] /\ i - Len(g) \in 1..Len(c)
      <4>1. g \in Seq(Nat) /\ c \in Seq(Nat) /\ h = g \o c
        BY <2>4, <2>8, <2>9
      <4> QED
        BY ONLY <4>1, Joined
    <3>2. Len(h) = m + n /\ Len(c) = n /\ Len(g) = m
      BY <2>4, <2>7, <3>1
    <3>3. DOMAIN h = 1..Len(h)
      BY <3>1, LenProperties
    <3> QED
      BY <3>1, <3>2, <3>3
  <2>19. \A i \in (m + 1)..(m + n) : h[i] = a + (i - m) /\ h[i] \in U
    BY <2>6, <2>10
  <2>11. \A i \in 1..(m + n) : i \in 1..m \/ i \in (m + 1)..(m + n)
    BY <2>8
  <2>12. ToSet(h) = ToSet(g) \cup U
    <3>1. ToSet(h) \subseteq ToSet(g) \cup U
      BY <2>6, <2>8, <2>10, <2>11 DEF ToSet
    <3>2. ToSet(g) \subseteq ToSet(h)
      <4>1. \A i \in 1..m : i \in 1..(m + n) /\ g[i] = h[i]
        BY <2>8, <2>10
      <4> QED
        BY <2>8, <2>10, <4>1 DEF ToSet
    <3>3. ASSUME NEW v \in U PROVE v \in ToSet(h)
      <4>1. v - a \in 1..n /\ a + (v - a) = v
        BY <2>4
      <4>2. PICK k : k = m + (v - a)
        OBVIOUS
      <4>4. k \in (m + 1)..(m + n) /\ k \in 1..(m + n) /\ a + (k - m) = v
        BY <2>8, <4>1, <4>2
      <4>3. h[k] = v
        BY <2>19, <4>4
      <4> QED
        BY <2>10, <4>4, <4>3 DEF ToSet
    <3> QED
      BY <3>1, <3>2, <3>3
  <2>13. ASSUME NEW i \in 1..m, NEW j \in (m + 1)..(m + n)
         PROVE  h[i] \in ToSet(g) /\ h[j] \in U /\ h[i] # h[j]
    <3>1. h[i] \in ToSet(g) /\ h[j] \in U
      BY <2>8, <2>10, <2>19
    <3> QED
      BY <2>5, <2>7, <3>1
  <2>14. IsInjective(h)
    <3>1. \A i, j \in 1..m : h[i] = h[j] => i = j
      <4>1. \A i, j \in 1..m : g[i] = g[j] => i = j
        BY <2>3, <2>7, <2>8 DEF IsInjective
      <4> QED
        BY <2>10, <4>1
    <3>2. ASSUME NEW i \in (m + 1)..(m + n), NEW j \in (m + 1)..(m + n), h[i] = h[j]
          PROVE  i = j
      <4>1. a + (i - m) = a + (j - m)
        BY <2>19, <3>2
      <4> QED
        BY <2>8, <4>1
    <3> QED
      BY <2>10, <2>11, <2>13, <3>1, <3>2 DEF IsInjective
  <2>15. ToSet(h) \subseteq Later(t, R)
    <3>1. U \subseteq Later(t, R)
      BY <2>2, <2>3, <2>4 DEF Later
    <3> QED
      BY <2>2, <2>3, <2>7, <2>12, <3>1 DEF Later
  <2>16. u.order \/ InSequence(t, R, u)
    <3> SUFFICES ASSUME ~u.order PROVE InSequence(t, R, u)
      OBVIOUS
    <3>1. a + n = R /\ Missed(s, R, u) \subseteq U /\ InSequence(s, R, u)
      BY <2>3, <2>5
    <3>2. \A v \in ToSet(g) : v \in Nat /\ v <= a
      BY <2>3, <2>4, <2>5, <2>7, <3>1 DEF Later
    <3>3. ASSUME NEW i \in DOMAIN h, NEW j \in DOMAIN h, i < j
          PROVE  h[i] < h[j]
      <4>1. CASE i \in 1..m /\ j \in 1..m
        BY <2>7, <2>8, <2>10, <3>1, <3>3, <4>1 DEF InSequence
      <4>2. CASE i \in 1..m /\ j \in (m + 1)..(m + n)
        <5>1. h[i] \in ToSet(g) /\ h[j] \in (a + 1)..(a + n)
          BY <2>4, <2>13, <4>2
        <5> QED
          BY <3>2, <5>1
      <4>3. CASE i \in (m + 1)..(m + n) /\ j \in (m + 1)..(m + n)
        <5>1. h[i] = a + (i - m) /\ h[j] = a + (j - m)
          BY <2>19, <4>3
        <5> QED
          BY <2>8, <3>3, <4>3, <5>1
      <4>4. ~(i \in (m + 1)..(m + n) /\ j \in 1..m)
        BY <2>8, <3>3
      <4> QED
        BY <2>10, <2>11, <4>1, <4>2, <4>3, <4>4
    <3>4. ASSUME NEW w \in ToSet(h), NEW v \in Later(t, R), v < w, v \notin u.units
          PROVE  v \in ToSet(h)
      <4>1. v \in Later(s, R)
        BY <2>2 DEF Later
      <4>2. v \in ToSet(g) \/ v \in Missed(s, R, u)
        BY <2>7, <3>4, <4>1 DEF Missed
      <4> QED
        BY <2>12, <3>1, <4>2
    <3> QED
      BY <2>2, <2>7, <2>9, <3>3, <3>4 DEF InSequence
  <2>17. Fed(t, R, u)
    BY <2>2, <2>3, <2>7, <2>9, <2>10, <2>14, <2>15, <2>16 DEF Fed
  <2>18. Missed(t, R, u) \subseteq Missed(s, R, u) \ U
    BY <2>2, <2>7, <2>9, <2>12 DEF Missed, Later
  <2> QED
    BY <2>2, <2>7, <2>9, <2>12, <2>17, <2>18 DEF U, c
<1> QED
  BY <1>1, <1>2 DEF Fed

\* The units that leave the buffer are the next ones.
LEMMA UnitsNext ==
  ASSUME NEW x, NEW r, NEW n, Takeable(x, n, r)
  PROVE  /\ n \in Nat /\ Len(r) \in Nat /\ Units(x, n) = Chunk(Len(r), n)
         /\ Len(r \o Units(x, n)) = Len(r) + n
<1> DEFINE b == x.buffer
<1>1. /\ r \in Seq(Nat) /\ b \in Seq(Nat) /\ n \in 0..Len(b) /\ x.got \in Nat
      /\ n > 0 => r \o b = UpTo(x.got)
  BY DEF Takeable, Good, Typed, Ordered
<1>2. n \in Nat /\ Len(r) \in Nat /\ Len(b) \in Nat
  BY <1>1
<1>3. Units(x, n) = [i \in 1..n |-> b[i]]
  BY <1>1, <1>2 DEF Units
<1> HIDE DEF b
<1>4. \A i \in 1..n : b[i] = Len(r) + i
  <2> SUFFICES ASSUME NEW i \in 1..n PROVE b[i] = Len(r) + i
    OBVIOUS
  <2>1. PICK u : u = r \o b
    OBVIOUS
  <2>2. /\ Len(u) = Len(r) + Len(b)
        /\ \A k \in (Len(r) + 1)..Len(u) : u[k] = b[k - Len(r)]
    BY <1>1, <2>1, Joined
  <2>3. PICK k : k = Len(r) + i
    OBVIOUS
  <2>4. k \in (Len(r) + 1)..Len(u) /\ k - Len(r) = i /\ n > 0
    BY <1>1, <1>2, <2>2, <2>3
  <2>5. u[k] = b[i]
    BY <2>2, <2>4
  <2>6. u = UpTo(x.got) /\ Len(u) = x.got
    BY <1>1, <2>1, <2>4, UpToProperties
  <2>7. k \in 1..x.got
    BY <1>2, <2>4, <2>6
  <2>8. u[k] = k
    BY <1>1, <2>6, <2>7, UpToProperties
  <2> QED
    BY <2>3, <2>5, <2>8
<1>5. Units(x, n) = Chunk(Len(r), n)
  BY <1>3, <1>4 DEF Chunk
<1>6. Len(r \o Units(x, n)) = Len(r) + n
  <2>1. Chunk(Len(r), n) \in Seq(Nat) /\ Len(Chunk(Len(r), n)) = n
    BY <1>2, ChunkMembers
  <2>2. PICK u : u = r \o Units(x, n)
    OBVIOUS
  <2>3. Units(x, n) \in Seq(Nat) /\ Len(Units(x, n)) = n
    BY <1>5, <2>1
  <2>4. Len(u) = Len(r) + Len(Units(x, n))
    BY <1>1, <2>2, <2>3, Joined
  <2> QED
    BY <2>2, <2>3, <2>4
<1> QED
  BY <1>2, <1>5, <1>6

\* t has what s has, and takes no more than s.
Alike(s, t) ==
  /\ DOMAIN t = DOMAIN s /\ t.piped = s.piped /\ t.got = s.got
  /\ t.writable \in BOOLEAN /\ (t.writable => s.writable)

\* A step that moves no data.
LEMMA QuietStep ==
  ASSUME PInv, read' = read, DOMAIN upset' = DOMAIN upset, upset'.units = upset.units,
         upset'.order = upset.order, DOMAIN sink' = Sinks,
         \A d \in Sinks : Alike(sink[d], sink'[d]) /\ Ended(sink'[d], stream'.endTold),
         loop' = loop \/ (loop.pc # "data" /\ loop'.pc # "data"), DOMAIN loop' = DOMAIN loop,
         stream'.pipes \subseteq stream.pipes,
         loop.pc = "data" => stream'.pipes = stream.pipes
  PROVE  PInv'
<1>1. ASSUME NEW d \in Sinks
      PROVE  Fed(sink'[d], Len(read'), upset')
  <2>1. Fed(sink[d], Len(read), upset) /\ Alike(sink[d], sink'[d])
    BY DEF PInv
  <2>2. InSequence(sink[d], Len(read), upset) => InSequence(sink'[d], Len(read'), upset')
    BY <2>1 DEF Alike, InSequence, Later
  <2> QED
    BY <2>1, <2>2 DEF Alike, Fed, Later
<1>2. ASSUME NEW d \in stream'.pipes
      PROVE  Served(d)'
  <2>1. d \in Sinks /\ Served(d) /\ Alike(sink[d], sink'[d])
    BY DEF PInv
  <2>2. Missed(sink'[d], Len(read'), upset') = Missed(sink[d], Len(read), upset)
    BY <2>1 DEF Alike, Missed, Later
  <2>3. Coming(d)' = Coming(d)
    BY DEF Coming
  <2> QED
    BY <2>1, <2>2, <2>3 DEF Alike, Served
<1>3. Behind'
  <2> SUFFICES ASSUME loop'.pc = "data" PROVE Behind'
    BY DEF Behind
  <2>1. loop' = loop /\ loop.pc = "data" /\ stream'.pipes = stream.pipes
    OBVIOUS
  <2>2. /\ loop.back # "data" /\ loop.to \subseteq stream.pipes
        /\ \A d \in loop.to : ToSet(sink[d].got) \cap ToSet(loop.due) = {}
    BY <2>1 DEF PInv, Behind
  <2>3. PICK a \in Nat, n \in Nat :
           /\ loop.due = Chunk(a, n) /\ a + n <= Len(read)
           /\ upset.order \/ a + n = Len(read)
           /\ \A d \in loop.to : sink[d].piped <= a + 1
    BY <2>1 DEF PInv, Behind
  <2>4. \A d \in loop.to : Alike(sink[d], sink'[d])
    BY <2>2 DEF PInv
  <2>5. \A d \in loop.to : sink'[d].piped <= a + 1 /\ ToSet(sink'[d].got) \cap ToSet(loop.due) = {}
    BY <2>2, <2>3, <2>4 DEF Alike
  <2> QED
    BY <2>1, <2>2, <2>3, <2>5 DEF Behind
<1> QED
  BY <1>1, <1>2, <1>3 DEF PInv

\* The chunk c, the n units after a, is written to the destinations ds among
\* to, which become new, when R units were read and u becomes w; what that
\* takes of the destination d.
Delivery(R, u, w, a, n, c, to, ds, new, d) ==
  /\ R \in Nat /\ a \in Nat /\ n \in Nat /\ a + n <= R /\ c = Chunk(a, n)
  /\ u.order \in BOOLEAN /\ w.order \in BOOLEAN
  /\ u.units \subseteq w.units /\ (u.order => w.order)
  /\ DOMAIN to = Sinks /\ ds \in SUBSET Sinks /\ new \in Written(c, ds, to)
  /\ d \in Sinks /\ Fed(to[d], R, u)
  /\ d \in ds =>
       /\ to[d].piped > 0 /\ to[d].piped <= a + 1 /\ ToSet(to[d].got) \cap ToSet(c) = {}
       /\ w.order \/ (a + n = R /\ (to[d].writable => Missed(to[d], R, u) \subseteq ToSet(c)))

\* A chunk reaches the destinations ds: each receives it, or has it no more.
LEMMA WrittenFeeds ==
  ASSUME NEW R, NEW u, NEW w, NEW a, NEW n, NEW c, NEW to, NEW ds, NEW new, NEW d,
         Delivery(R, u, w, a, n, c, to, ds, new, d)
  PROVE  /\ DOMAIN new = Sinks /\ Fed(new[d], R, w)
         /\ new[d].piped = to[d].piped /\ new[d].ends = to[d].ends
         /\ new[d].writable = to[d].writable
         /\ ToSet(new[d].got) \subseteq ToSet(to[d].got) \cup (IF d \in ds THEN ToSet(c) ELSE {})
         /\ new[d].writable => Missed(new[d], R, w) \subseteq
                                 Missed(to[d], R, u) \ (IF d \in ds THEN ToSet(c) ELSE {})
<1> USE DEF Delivery
<1>1. PICK full \in [ds -> BOOLEAN] :
         new = [e \in Sinks |-> IF e \in ds THEN WriteTo(to[e], c, full[e]) ELSE to[e]]
  BY DEF Written
<1>2. DOMAIN new = Sinks /\ new[d] = IF d \in ds THEN WriteTo(to[d], c, full[d]) ELSE to[d]
  BY <1>1
<1>3. Fed(to[d], R, w) /\ Missed(to[d], R, w) \subseteq Missed(to[d], R, u)
  <2>1. (R + 1)..R = {} /\ R <= R
    OBVIOUS
  <2>2. PICK s : s = to[d]
    OBVIOUS
  <2>3. Fed(s, R, w) /\ Missed(s, R, w) \subseteq Missed(s, R, u) \cup (R + 1)..R
    <3>1. /\ R \in Nat /\ R <= R /\ u.order \in BOOLEAN /\ w.order \in BOOLEAN /\ Fed(s, R, u)
          /\ u.units \subseteq w.units /\ (u.order => w.order)
      BY <2>1, <2>2
    <3> QED
      BY ONLY <3>1, FedLater
  <2> QED
    BY <2>1, <2>2, <2>3
<1>4. CASE d \notin ds
  BY <1>2, <1>3, <1>4
<1>5. CASE d \in ds
  <2>1. PICK s, t, f : s = to[d] /\ t = new[d] /\ f = full[d]
    OBVIOUS
  <2>2. t = WriteTo(s, c, f)
    BY <1>2, <1>5, <2>1
  <2>3. /\ Fed(s, R, w) /\ s.piped > 0 /\ s.piped <= a + 1
        /\ ToSet(s.got) \cap ToSet(Chunk(a, n)) = {}
        /\ \/ w.order
           \/ a + n = R /\ (s.writable => Missed(s, R, w) \subseteq ToSet(Chunk(a, n)))
    BY <1>3, <1>5, <2>1
  <2>4. /\ Fed(t, R, w) /\ t.piped = s.piped /\ t.ends = s.ends /\ t.writable = s.writable
        /\ ToSet(t.got) \subseteq ToSet(s.got) \cup ToSet(Chunk(a, n))
        /\ t.writable => Missed(t, R, w) \subseteq Missed(s, R, w) \ ToSet(Chunk(a, n))
    BY <2>2, <2>3, WriteFeeds
  <2> QED
    BY <1>2, <1>3, <1>5, <2>1, <2>4
<1> QED
  BY <1>4, <1>5

\* t is s, up to what it says of draining.
Unmoved(s, t) == Alike(s, t) /\ t.ends = s.ends /\ t.writable = s.writable

\* The data event: n units of x reach the destinations, some of them, or are
\* held back.
LEMMA EmitFeeds ==
  ASSUME PInv, NEW x, NEW n, Takeable(x, n, read), x.pipes \subseteq stream.pipes,
         loop.pc = "data" => x.pipes = stream.pipes, x.endTold = stream.endTold,
         NEW to, DOMAIN to = Sinks, \A d \in Sinks : Unmoved(sink[d], to[d]),
         NEW after, DOMAIN after = DOMAIN loop,
         after = loop \/ (loop.pc # "data" /\ after.pc # "data"), Emit(x, n, to, after)
  PROVE  PInv'
<1> DEFINE c == Units(x, n)
<1>1. PICK R, Q : R = Len(read) /\ Q = R + n
  OBVIOUS
<1>2. /\ n \in Nat /\ R \in Nat /\ c = Chunk(R, n) /\ Len(read \o c) = Q
      /\ Q \in Nat /\ R <= Q
  BY <1>1, UnitsNext
<1>3. /\ stream'.pipes = x.pipes /\ stream'.endTold = stream.endTold
      /\ read' = read \o c /\ x.pipes \subseteq Sinks
  <2>1. Same(x, Without(x, n))
    BY WithoutKeeps
  <2> QED
    BY <2>1 DEF Emit, Same, PInv
<1>4. Len(read') = Q /\ c \in Seq(Nat) /\ ToSet(c) = (R + 1)..Q
  BY <1>1, <1>2, <1>3, ChunkMembers
<1> HIDE DEF c
<1>5. ASSUME NEW d \in Sinks
      PROVE  /\ Fed(to[d], R, upset) /\ Ended(to[d], stream.endTold)
             /\ Missed(to[d], R, upset) = Missed(sink[d], R, upset)
             /\ to[d].piped = sink[d].piped /\ to[d].writable = sink[d].writable
             /\ to[d].got = sink[d].got
             /\ ToSet(to[d].got) \cap ToSet(c) = {} /\ to[d].piped <= R + 1
  <2>1. /\ Fed(sink[d], R, upset) /\ Ended(sink[d], stream.endTold) /\ Unmoved(sink[d], to[d])
    BY <1>1 DEF PInv
  <2>2. InSequence(sink[d], R, upset) => InSequence(to[d], R, upset)
    BY <2>1 DEF Unmoved, Alike, InSequence, Later
  <2>3. Fed(to[d], R, upset)
    BY <2>1, <2>2 DEF Unmoved, Alike, Fed, Later
  <2>4. Ended(to[d], stream.endTold) /\ Missed(to[d], R, upset) = Missed(sink[d], R, upset)
    BY <2>1 DEF Unmoved, Alike, Ended, Missed, Later
  <2>5. ToSet(to[d].got) \subseteq to[d].piped..R /\ to[d].piped \in 0..(R + 1)
    BY <2>3 DEF Fed, Later
  <2>6. ToSet(to[d].got) \cap ToSet(c) = {} /\ to[d].piped <= R + 1
    BY <1>2, <1>4, <2>5
  <2> QED
    BY <2>1, <2>3, <2>4, <2>6 DEF Unmoved, Alike
<1>6. ASSUME NEW d \in x.pipes
      PROVE  /\ d \in Sinks /\ to[d].piped > 0
             /\ to[d].writable => Missed(to[d], R, upset) \subseteq Coming(d)
  <2>1. d \in Sinks /\ Served(d)
    BY DEF PInv
  <2> QED
    BY <1>1, <1>5, <2>1 DEF Served
<1>7. upset.order \in BOOLEAN /\ DOMAIN upset = {"units", "end", "order"}
  BY DEF PInv
<1>8. ASSUME NEW d \in Sinks
      PROVE  /\ Fed(to[d], Q, upset)
             /\ Missed(to[d], Q, upset) \subseteq Missed(to[d], R, upset) \cup ToSet(c)
  <2>1. PICK s : s = to[d]
    OBVIOUS
  <2>2. Fed(s, Q, upset) /\ Missed(s, Q, upset) \subseteq Missed(s, R, upset) \cup (R + 1)..Q
    <3>1. Fed(s, R, upset) /\ upset.order \in BOOLEAN
      BY <1>5, <1>7, <2>1
    <3>2. R \in Nat /\ Q \in Nat /\ R <= Q
      BY <1>2
    <3> QED
      BY ONLY <3>1, <3>2, FedLater
  <2> QED
    BY <1>4, <2>1, <2>2
\* no data
<1>9. CASE n = 0 /\ sink' = to /\ loop' = after /\ UNCHANGED upset
  <2>1. Q = R /\ read' = read
    <3>1. c = <<>>
      BY <1>2, <1>9 DEF Chunk
    <3>2. read \in Seq(Nat)
      BY DEF Takeable, Good, Ordered
    <3> QED
      BY <1>1, <1>3, <1>9, <3>1, <3>2
  <2>2. \A d \in Sinks : Alike(sink[d], sink'[d]) /\ Ended(sink'[d], stream'.endTold)
    BY <1>3, <1>5, <1>9 DEF Unmoved
  <2>3. loop' = loop \/ (loop.pc # "data" /\ loop'.pc # "data")
    BY <1>9
  <2>4. loop.pc = "data" => stream'.pipes = stream.pipes
    BY <1>3
  <2> QED
    BY <1>3, <1>9, <2>1, <2>2, <2>3, <2>4, QuietStep
\* It reaches the destinations reached; a listener raised before the others.
<1>10. ASSUME loop.pc # "data", n > 0, NEW reached \in SUBSET x.pipes,
              sink' \in Written(c, reached, to), KeptFrom(c, x.pipes \ reached), loop' = after
       PROVE  PInv'
  <2>1. after.pc # "data"
    BY <1>10
  <2>2. /\ DOMAIN upset' = DOMAIN upset /\ upset'.order = upset.order
        /\ upset.units \subseteq upset'.units
        /\ x.pipes \ reached # {} => ToSet(c) \subseteq upset'.units
    BY <1>7, <1>10 DEF KeptFrom
  <2>3. ASSUME NEW d \in Sinks
        PROVE  /\ DOMAIN sink' = Sinks /\ Fed(sink'[d], Q, upset')
               /\ sink'[d].piped = to[d].piped /\ sink'[d].ends = to[d].ends
               /\ sink'[d].writable = to[d].writable
               /\ sink'[d].writable => Missed(sink'[d], Q, upset') \subseteq
                    Missed(to[d], Q, upset) \ (IF d \in reached THEN ToSet(c) ELSE {})
    <3>1. d \in reached => /\ to[d].piped > 0 /\ to[d].piped <= R + 1
                           /\ ToSet(to[d].got) \cap ToSet(c) = {}
                           /\ to[d].writable => Missed(to[d], Q, upset) \subseteq ToSet(c)
      BY <1>5, <1>6, <1>8, <1>10 DEF Coming
    <3>2. Fed(to[d], Q, upset) /\ R + n = Q /\ R + n <= Q /\ reached \in SUBSET Sinks
      BY <1>1, <1>2, <1>3, <1>8
    <3>3. Delivery(Q, upset, upset', R, n, c, to, reached, sink', d)
      BY <1>2, <1>5, <1>7, <1>10, <2>2, <3>1, <3>2 DEF Delivery
    <3> QED
      BY <3>3, WrittenFeeds
  <2>4. ASSUME NEW d \in x.pipes
        PROVE  Served(d)'
    <3>1. d \in Sinks /\ sink'[d].piped > 0
      BY <1>6, <2>3
    <3>2. ASSUME sink'[d].writable
          PROVE  Missed(sink'[d], Q, upset') = {}
      <4>1. Missed(sink'[d], Q, upset') \subseteq ToSet(c)
        BY <1>6, <1>8, <1>10, <2>3, <3>2 DEF Coming
      <4>2. CASE d \in reached
        BY <2>3, <3>1, <3>2, <4>1, <4>2
      <4>3. CASE d \notin reached
        BY <2>2, <4>1, <4>3 DEF Missed
      <4> QED
        BY <4>2, <4>3
    <3> QED
      BY <1>4, <3>1, <3>2 DEF Served
  <2>5. Behind'
    BY <1>10, <2>1 DEF Behind
  <2>6. \A d \in Sinks : Ended(sink'[d], stream'.endTold)
    BY <1>3, <1>5, <2>3 DEF Ended
  <2>7. DOMAIN sink' = Sinks
    BY <1>10 DEF Written
  <2> QED
    BY <1>3, <1>4, <1>7, <1>10, <2>2, <2>3, <2>4, <2>5, <2>6, <2>7 DEF PInv
\* A listener of the user runs first.
<1>11. CASE /\ loop.pc # "data"
            /\ loop' = [after EXCEPT !.pc = "data", !.due = c, !.to = x.pipes, !.back = after.pc]
            /\ sink' = to
            /\ UNCHANGED upset
  <2>1. /\ DOMAIN loop' = DOMAIN loop /\ loop'.pc = "data" /\ loop'.due = c
        /\ loop'.to = x.pipes /\ loop'.back # "data"
    BY <1>11 DEF PInv
  <2>2. ASSUME NEW d \in x.pipes
        PROVE  Served(d)'
    <3>1. Coming(d)' = ToSet(c)
      BY <2>1 DEF Coming
    <3>2. to[d].writable => Missed(to[d], Q, upset) \subseteq ToSet(c)
      BY <1>6, <1>8, <1>11 DEF Coming
    <3> QED
      BY <1>4, <1>6, <1>11, <3>1, <3>2 DEF Served
  <2>3. Behind'
    <3>1. \A d \in x.pipes : to[d].piped <= R + 1 /\ ToSet(to[d].got) \cap ToSet(c) = {}
      BY <1>3, <1>5
    <3>2. c = Chunk(R, n) /\ R + n = Q /\ R + n <= Q /\ R \in Nat /\ n \in Nat
      BY <1>1, <1>2
    <3> QED
      BY <1>3, <1>4, <1>11, <2>1, <3>1, <3>2 DEF Behind
  <2>4. \A d \in Sinks : Fed(sink'[d], Q, upset') /\ Ended(sink'[d], stream'.endTold)
    BY <1>3, <1>5, <1>7, <1>8, <1>11
  <2> QED
    BY <1>3, <1>4, <1>7, <1>11, <2>1, <2>2, <2>3, <2>4 DEF PInv
\* It overtakes the chunk that is held back.
<1>12. CASE /\ loop.pc = "data" /\ loop' = after
            /\ sink' \in Written(c, x.pipes, to)
            /\ upset' = [upset EXCEPT !.order = TRUE]
  <2>1. loop' = loop /\ x.pipes = stream.pipes
    BY <1>12
  <2>2. /\ DOMAIN upset' = DOMAIN upset /\ upset'.order = TRUE /\ upset'.units = upset.units
    BY <1>7, <1>12
  <2>3. ASSUME NEW d \in Sinks
        PROVE  /\ Fed(sink'[d], Q, upset')
               /\ sink'[d].piped = to[d].piped /\ sink'[d].ends = to[d].ends
               /\ sink'[d].writable = to[d].writable
               /\ ToSet(sink'[d].got) \subseteq ToSet(to[d].got) \cup ToSet(c)
               /\ sink'[d].writable => Missed(sink'[d], Q, upset') \subseteq
                    Missed(to[d], Q, upset) \ (IF d \in x.pipes THEN ToSet(c) ELSE {})
    <3>1. d \in x.pipes => /\ to[d].piped > 0 /\ to[d].piped <= R + 1
                           /\ ToSet(to[d].got) \cap ToSet(c) = {}
      BY <1>5, <1>6
    <3>2. Fed(to[d], Q, upset) /\ R + n <= Q /\ x.pipes \in SUBSET Sinks
      BY <1>1, <1>2, <1>3, <1>8
    <3>3. /\ Fed(sink'[d], Q, upset')
          /\ sink'[d].piped = to[d].piped /\ sink'[d].ends = to[d].ends
          /\ sink'[d].writable = to[d].writable
          /\ ToSet(sink'[d].got) \subseteq
                ToSet(to[d].got) \cup (IF d \in x.pipes THEN ToSet(c) ELSE {})
          /\ sink'[d].writable => Missed(sink'[d], Q, upset') \subseteq
                    Missed(to[d], Q, upset) \ (IF d \in x.pipes THEN ToSet(c) ELSE {})
      <4>3. Delivery(Q, upset, upset', R, n, c, to, x.pipes, sink', d)
        BY <1>2, <1>5, <1>7, <1>12, <2>2, <3>1, <3>2 DEF Delivery
      <4> QED
        BY <4>3, WrittenFeeds
    <3> QED
      BY <3>3
  <2>4. ASSUME NEW d \in x.pipes
        PROVE  Served(d)'
    <3>1. Coming(d)' = Coming(d)
      BY <2>1 DEF Coming
    <3>2. d \in Sinks /\ sink'[d].piped > 0
      BY <1>6, <2>3
    <3>3. sink'[d].writable => Missed(sink'[d], Q, upset') \subseteq Coming(d)
      BY <1>6, <1>8, <2>3, <3>2
    <3> QED
      BY <1>4, <3>1, <3>2, <3>3 DEF Served
  <2>5. Behind'
    <3>1. /\ loop.back # "data" /\ loop.to \subseteq stream.pipes
          /\ \A d \in loop.to : ToSet(sink[d].got) \cap ToSet(loop.due) = {}
      BY <1>12 DEF PInv, Behind
    <3>2. PICK a \in Nat, m \in Nat :
             /\ loop.due = Chunk(a, m) /\ a + m <= R
             /\ \A d \in loop.to : sink[d].piped <= a + 1
      BY <1>1, <1>12 DEF PInv, Behind
    <3>3. ToSet(loop.due) \cap ToSet(c) = {} /\ a + m <= Q
      <4>1. ToSet(loop.due) = (a + 1)..(a + m)
        BY <3>2, ChunkMembers
      <4> QED
        BY <1>2, <1>4, <3>2, <4>1
    <3>4. ASSUME NEW d \in loop.to
          PROVE  sink'[d].piped <= a + 1 /\ ToSet(sink'[d].got) \cap ToSet(loop.due) = {}
      <4>1. d \in Sinks
        BY <3>1 DEF PInv
      <4>2. sink'[d].piped = sink[d].piped /\ ToSet(sink'[d].got) \subseteq ToSet(sink[d].got) \cup ToSet(c)
        BY <1>5, <2>3, <4>1
      <4> QED
        BY <3>1, <3>2, <3>3, <4>2
    <3> QED
      BY <1>3, <1>4, <2>1, <2>2, <3>1, <3>2, <3>3, <3>4 DEF Behind
  <2>6. \A d \in Sinks : Ended(sink'[d], stream'.endTold)
    BY <1>3, <1>5, <2>3 DEF Ended
  <2>7. DOMAIN sink' = Sinks
    BY <1>12 DEF Written
  <2> QED
    BY <1>3, <1>4, <1>7, <2>1, <2>2, <2>3, <2>4, <2>6, <2>7, <2>5, <1>12 DEF PInv
<1> QED
  BY <1>9, <1>10, <1>11, <1>12 DEF Emit, c

\* The data listener of the user that ran first returns or raises.
LEMMA DataDoneFeeds ==
  ASSUME PInv, DataListenerDone
  PROVE  PInv'
<1>1. PICK reached \in SUBSET loop.to :
        sink' \in Written(loop.due, reached, sink) /\ KeptFrom(loop.due, loop.to \ reached)
  BY DEF DataListenerDone
<1>2. /\ loop.pc = "data" /\ loop' = [At(loop.back) EXCEPT !.blocked = loop.blocked]
      /\ stream' = stream /\ read' = read
  BY DEF DataListenerDone
<1>3. /\ loop.back # "data" /\ loop.to \subseteq stream.pipes
      /\ \A d \in loop.to : ToSet(sink[d].got) \cap ToSet(loop.due) = {}
  BY <1>2 DEF PInv, Behind
<1>4. PICK a \in Nat, n \in Nat :
         /\ loop.due = Chunk(a, n) /\ a + n <= Len(read)
         /\ upset.order \/ a + n = Len(read)
         /\ \A d \in loop.to : sink[d].piped <= a + 1
  BY <1>2 DEF PInv, Behind
<1>5. loop'.pc # "data" /\ DOMAIN loop' = {"pc", "blocked", "due", "to", "back"}
  BY <1>2, <1>3 DEF At
<1>6. PICK c, R : c = loop.due /\ R = Len(read)
  OBVIOUS
<1>7. /\ upset.order \in BOOLEAN /\ DOMAIN upset = {"units", "end", "order"}
      /\ DOMAIN sink = Sinks /\ stream.pipes \subseteq Sinks /\ R \in Nat
  <2>1. R \in Nat
    BY <1>4, <1>6
  <2> QED
    BY <2>1 DEF PInv
<1>8. /\ DOMAIN upset' = DOMAIN upset /\ upset'.order = upset.order
      /\ upset.units \subseteq upset'.units
      /\ loop.to \ reached # {} => ToSet(c) \subseteq upset'.units
  BY <1>1, <1>6, <1>7 DEF KeptFrom
<1>9. ASSUME NEW d \in stream.pipes
      PROVE  /\ d \in Sinks /\ sink[d].piped > 0
             /\ sink[d].writable =>
                  Missed(sink[d], R, upset) \subseteq (IF d \in loop.to THEN ToSet(c) ELSE {})
  <2>1. Served(d) /\ d \in Sinks
    BY DEF PInv
  <2> QED
    BY <1>2, <1>6, <2>1 DEF Served, Coming
<1>10. ASSUME NEW d \in Sinks
       PROVE  /\ Fed(sink'[d], R, upset')
              /\ sink'[d].piped = sink[d].piped /\ sink'[d].ends = sink[d].ends
              /\ sink'[d].writable = sink[d].writable
              /\ sink'[d].writable => Missed(sink'[d], R, upset') \subseteq
                   Missed(sink[d], R, upset) \ (IF d \in reached THEN ToSet(c) ELSE {})
  <2>1. d \in reached => /\ sink[d].piped > 0 /\ sink[d].piped <= a + 1
                         /\ ToSet(sink[d].got) \cap ToSet(c) = {}
                         /\ sink[d].writable => Missed(sink[d], R, upset) \subseteq ToSet(c)
    BY <1>1, <1>3, <1>4, <1>6, <1>9
  <2>2. Fed(sink[d], R, upset)
    BY <1>6 DEF PInv
  <2>3. reached \in SUBSET Sinks
    BY <1>3, <1>7
  <2>4. Delivery(R, upset, upset', a, n, c, sink, reached, sink', d)
    BY <1>1, <1>4, <1>6, <1>7, <1>8, <2>1, <2>2, <2>3 DEF Delivery
  <2> QED
    BY <2>4, WrittenFeeds
<1>11. ASSUME NEW d \in stream.pipes
       PROVE  Served(d)'
  <2>1. Coming(d)' = {}
    BY <1>5 DEF Coming
  <2>2. sink'[d].piped > 0
    BY <1>9, <1>10
  <2>3. ASSUME sink'[d].writable
        PROVE  Missed(sink'[d], R, upset') = {}
    <3>1. CASE d \notin loop.to
      BY <1>9, <1>10, <2>3, <3>1
    <3>2. CASE d \in reached
      BY <1>1, <1>9, <1>10, <2>3, <3>2
    <3>3. CASE d \in loop.to \ reached
      <4>1. Missed(sink'[d], R, upset') \subseteq ToSet(c) /\ ToSet(c) \subseteq upset'.units
        BY <1>8, <1>9, <1>10, <2>3, <3>3
      <4> QED
        BY <4>1 DEF Missed
    <3> QED
      BY <3>1, <3>2, <3>3
  <2> QED
    BY <1>2, <1>6, <2>1, <2>2, <2>3 DEF Served
<1>12. Behind'
  BY <1>5 DEF Behind
<1>13. \A d \in Sinks : Ended(sink'[d], stream'.endTold)
  <2>1. \A d \in Sinks : Ended(sink[d], stream.endTold)
    BY DEF PInv
  <2> QED
    BY <1>2, <1>10, <2>1 DEF Ended
<1>14. DOMAIN sink' = Sinks
  BY <1>1 DEF Written
<1> QED
  BY <1>2, <1>5, <1>6, <1>7, <1>8, <1>10, <1>11, <1>12, <1>13, <1>14 DEF PInv

\* A step that touches no destination but for what it says of draining.
LEMMA StillStep ==
  ASSUME PInv, UNCHANGED <<read, upset>>, DOMAIN sink' = Sinks,
         \A d \in Sinks : Unmoved(sink[d], sink'[d]),
         loop' = loop \/ (loop.pc # "data" /\ loop'.pc # "data"), DOMAIN loop' = DOMAIN loop,
         stream'.pipes \subseteq stream.pipes,
         loop.pc = "data" => stream'.pipes = stream.pipes,
         stream.endTold => stream'.endTold
  PROVE  PInv'
<1>1. ASSUME NEW d \in Sinks
      PROVE  Alike(sink[d], sink'[d]) /\ Ended(sink'[d], stream'.endTold)
  <2>1. Ended(sink[d], stream.endTold)
    BY DEF PInv
  <2> QED
    BY <2>1 DEF Unmoved, Ended
<1> QED
  BY <1>1, QuietStep

\* Destinations that do not change at all.
LEMMA SinksStill ==
  ASSUME PInv, sink' = sink
  PROVE  DOMAIN sink' = Sinks /\ \A d \in Sinks : Unmoved(sink[d], sink'[d])
<1>1. \A d \in Sinks : sink[d].writable \in BOOLEAN
  BY DEF PInv, Fed
<1> QED
  BY <1>1 DEF PInv, Unmoved, Alike

\* The first destinations.
LEMMA InitiallyFed == Init => PInv
<1> SUFFICES ASSUME Init PROVE PInv
  OBVIOUS
<1>1. /\ stream.pipes = {} /\ sink = [d \in Sinks |-> NewSink] /\ loop = At("idle")
      /\ read = <<>> /\ upset = [units |-> {}, end |-> FALSE, order |-> FALSE]
  BY DEF Init, NewStream
<1>2. Len(read) = 0 /\ loop.pc # "data"
  BY <1>1 DEF At
<1>3. Fed(NewSink, 0, upset) /\ Ended(NewSink, stream.endTold)
  <2>1. ToSet(NewSink.got) = {} /\ DOMAIN NewSink.got = {}
    BY DEF NewSink, ToSet
  <2>2. /\ DOMAIN NewSink = {"writable", "full", "waiting", "piped", "got", "ends"}
        /\ NewSink.writable = TRUE /\ NewSink.piped = 0 /\ NewSink.got = <<>> /\ NewSink.ends = 0
    BY DEF NewSink
  <2>3. <<>> \in Seq(Nat) /\ 0 \in 0..(0 + 1)
    OBVIOUS
  <2>4. InSequence(NewSink, 0, upset) /\ IsInjective(NewSink.got)
    BY <2>1 DEF InSequence, IsInjective
  <2>5. ToSet(NewSink.got) \subseteq Later(NewSink, 0)
    BY <2>1
  <2> HIDE DEF NewSink
  <2> QED
    BY <2>2, <2>3, <2>4, <2>5 DEF Fed, Ended
<1>4. /\ DOMAIN loop = {"pc", "blocked", "due", "to", "back"} /\ DOMAIN sink = Sinks
      /\ DOMAIN upset = {"units", "end", "order"} /\ upset.order \in BOOLEAN
  BY <1>1 DEF At
<1>5. \A d \in Sinks : sink[d] = NewSink
  BY <1>1
<1>6. Behind
  BY <1>2 DEF Behind
<1>7. \A d \in stream.pipes : Served(d)
  BY <1>1
<1> QED
  BY <1>1, <1>2, <1>3, <1>4, <1>5, <1>6, <1>7 DEF PInv
\* A step that changes neither the destinations of the stream nor what they are
\* told.
LEMMA UntouchedStep ==
  ASSUME PInv, UNCHANGED <<sink, read, upset>>,
         loop' = loop \/ (loop.pc # "data" /\ loop'.pc # "data"), DOMAIN loop' = DOMAIN loop,
         stream'.pipes \subseteq stream.pipes,
         loop.pc = "data" => stream'.pipes = stream.pipes,
         stream.endTold => stream'.endTold
  PROVE  PInv'
<1>1. DOMAIN sink' = Sinks /\ \A d \in Sinks : Unmoved(sink[d], sink'[d])
  BY SinksStill
<1> QED
  BY <1>1, StillStep

\* _activate and resume leave the destinations alone.
LEMMA ResumedSame ==
  ASSUME NEW x, DOMAIN x = Fields
  PROVE  /\ DOMAIN Activated(x) = Fields /\ Same(x, Activated(x))
         /\ DOMAIN Resumed(x) = Fields /\ Same(x, Resumed(x))
<1>1. DOMAIN Prepared(x) = Fields /\ Same(x, Prepared(x))
  BY DEF Prepared, Same, Fields
<1>2. DOMAIN Activated(x) = Fields /\ Same(x, Activated(x))
  BY <1>1 DEF Activated, Same, Fields
<1> QED
  BY <1>2 DEF Resumed, Same, Fields

\* close, pause, resume and the listeners.
LEMMA OperationFeeds ==
  ASSUME IInv, PInv, \/ Close \/ Pause \/ Resume
                     \/ OnData \/ OffData \/ OnReadable \/ OffReadable
  PROVE  PInv'
<1>1. UNCHANGED <<sink, loop, read, upset>>
  BY DEF Close, Pause, Resume, OnData, OffData, OnReadable, OffReadable
<1>2. Good(stream, read) /\ DOMAIN stream = Fields
  BY DEF IInv, Good, Typed
<1>3. Same(stream, stream')
  <2>1. CASE Close
    BY <1>2, <2>1, ClosesKeep DEF Close, Operation
  <2>2. CASE Pause \/ OffData
    BY <1>2, <2>2 DEF Pause, OffData, Same, Fields
  <2>3. CASE Resume
    BY <1>2, <2>3, ResumedSame DEF Resume
  <2>4. CASE OnData
    <3> DEFINE a == Activated(stream)
               x == [a EXCEPT !.onData = TRUE]
    <3>1. DOMAIN a = Fields /\ Same(stream, a)
      BY <1>2, ResumedSame
    <3>2. stream' = x \/ stream' = Resumed(x)
      BY <2>4 DEF OnData
    <3> HIDE DEF a
    <3>3. DOMAIN x = Fields /\ Same(stream, x)
      BY <3>1 DEF Same, Fields
    <3> HIDE DEF x
    <3> QED
      BY <3>2, <3>3, ResumedSame DEF Same
  <2>5. CASE OnReadable
    <3>1. DOMAIN Activated(stream) = Fields /\ Same(stream, Activated(stream))
      BY <1>2, ResumedSame
    <3> QED
      BY <2>5, <3>1 DEF OnReadable, Same, Fields
  <2>6. CASE OffReadable
    <3> DEFINE x == [stream EXCEPT !.onReadable = FALSE]
    <3>1. stream' = x \/ stream' = Resumed(x)
      BY <2>6 DEF OffReadable
    <3>2. DOMAIN x = Fields /\ Same(stream, x)
      BY <1>2 DEF Same, Fields
    <3> HIDE DEF x
    <3> QED
      BY <3>1, <3>2, ResumedSame DEF Same
  <2> QED
    BY <2>1, <2>2, <2>3, <2>4, <2>5, <2>6
<1> QED
  BY <1>1, <1>3, UntouchedStep DEF Same

\* read and read_sized
LEMMA ReadFeeds ==
  ASSUME IInv, PInv, NEW size \in SizeSet, Read(size)
  PROVE  PInv'
<1>1. Good(stream, read) /\ DOMAIN sink = Sinks
  BY DEF IInv, PInv
<1>2. ASSUME CanPrepare(stream), NEW taken \in ReadSized(stream, size),
             Emit(taken[1], taken[2], sink, loop)
      PROVE  PInv'
  <2>1. PICK x, n : x = taken[1] /\ n = taken[2]
    OBVIOUS
  <2>2. Takeable(x, n, read) /\ Same(stream, x)
    BY <1>1, <1>2, <2>1, ReadSizedKeeps
  <2>3. \A d \in Sinks : Unmoved(sink[d], sink[d])
    <3>1. \A d \in Sinks : sink[d].writable \in BOOLEAN
      BY DEF PInv, Fed
    <3> QED
      BY <3>1 DEF Unmoved, Alike
  <2>4. x.pipes = stream.pipes /\ x.endTold = stream.endTold /\ Emit(x, n, sink, loop)
    BY <1>2, <2>1, <2>2 DEF Same
  <2> QED
    BY <1>1, <2>2, <2>3, <2>4, EmitFeeds
<1>3. CASE stream' = Grown(stream, size) /\ UNCHANGED <<sink, loop, read, upset>>
  <2>1. Same(stream, Grown(stream, size))
    BY <1>1, GrownKeeps
  <2> QED
    BY <1>3, <2>1, UntouchedStep DEF Same
<1> QED
  BY <1>2, <1>3 DEF Read

\* pipe_to and pipe_to_response: a destination that joins has missed nothing,
\* and no chunk is held back from it.
LEMMA PipeFeeds ==
  ASSUME IInv, PInv, NEW d \in Sinks, Pipe(d)
  PROVE  PInv'
<1>1. /\ UNCHANGED <<loop, read, upset>> /\ sink[d].piped = 0
      /\ sink' = [sink EXCEPT ![d].piped = Len(read) + 1]
  BY DEF Pipe
<1>2. PICK R : R = Len(read)
  OBVIOUS
<1>3. R \in Nat /\ DOMAIN stream = Fields /\ DOMAIN sink = Sinks
  BY <1>2, LenProperties DEF IInv, Good, Typed, Ordered, PInv
<1>4. /\ stream.pipes \subseteq stream'.pipes /\ stream'.pipes \subseteq stream.pipes \cup {d}
      /\ stream'.endTold = stream.endTold
  <2>1. CASE stream' = [stream EXCEPT !.queue = Committed(Reserved(@), <<"pipe", d>>)]
    BY <1>3, <2>1 DEF Fields
  <2>2. CASE stream' = Resumed([Activated(stream) EXCEPT !.pipes = @ \cup {d}])
    <3> DEFINE a == Activated(stream)
               x == [a EXCEPT !.pipes = @ \cup {d}]
    <3>1. DOMAIN a = Fields /\ Same(stream, a)
      BY <1>3, ResumedSame
    <3>2. stream' = Resumed(x)
      BY <2>2
    <3> HIDE DEF a
    <3>3. DOMAIN x = Fields /\ x.pipes = a.pipes \cup {d} /\ x.endTold = a.endTold
      BY <3>1 DEF Fields
    <3> HIDE DEF x
    <3>4. Same(x, Resumed(x))
      BY <3>3, ResumedSame
    <3> QED
      BY <3>1, <3>2, <3>3, <3>4 DEF Same
  <2> QED
    BY <2>1, <2>2 DEF Pipe
<1>5. /\ DOMAIN sink' = Sinks /\ \A e \in Sinks \ {d} : sink'[e] = sink[e]
      /\ sink'[d] = [sink[d] EXCEPT !.piped = R + 1]
  BY <1>1, <1>2, <1>3
<1>6. /\ Fed(sink[d], R, upset) /\ Ended(sink[d], stream.endTold)
  BY <1>2 DEF PInv
<1>7. /\ DOMAIN sink'[d] = DOMAIN sink[d] /\ sink'[d].piped = R + 1 /\ sink'[d].got = <<>>
      /\ sink'[d].writable = sink[d].writable /\ sink'[d].ends = sink[d].ends
  BY <1>1, <1>5, <1>6 DEF Fed
<1>8. Later(sink'[d], R) = {}
  BY <1>3, <1>7 DEF Later
<1>9. Fed(sink'[d], R, upset) /\ Ended(sink'[d], stream.endTold)
  <2>1. ToSet(<<>>) = {} /\ <<>> \in Seq(Nat) /\ DOMAIN <<>> = {}
    BY DEF ToSet
  <2>2. InSequence(sink'[d], R, upset) /\ IsInjective(sink'[d].got)
    BY <1>7, <2>1 DEF InSequence, IsInjective
  <2>3. R + 1 \in 0..(R + 1) /\ R + 1 # 0
    BY <1>3
  <2> QED
    BY <1>6, <1>7, <1>8, <2>1, <2>2, <2>3 DEF Fed, Ended
<1>10. \A e \in Sinks : Fed(sink'[e], Len(read'), upset') /\ Ended(sink'[e], stream'.endTold)
  BY <1>1, <1>2, <1>4, <1>5, <1>9 DEF PInv
<1>11. ASSUME NEW e \in stream'.pipes
       PROVE  Served(e)'
  <2>1. CASE e = d
    <3>1. Missed(sink'[d], R, upset) = {}
      BY <1>8 DEF Missed
    <3> QED
      BY <1>1, <1>2, <1>3, <1>7, <2>1, <3>1 DEF Served
  <2>2. CASE e # d
    <3>1. e \in stream.pipes /\ sink'[e] = sink[e]
      BY <1>4, <1>5, <2>2 DEF PInv
    <3>2. Served(e) /\ Coming(e)' = Coming(e)
      BY <1>1, <3>1 DEF PInv, Coming
    <3> QED
      BY <1>1, <3>1, <3>2 DEF Served
  <2> QED
    BY <2>1, <2>2
<1>12. Behind'
  <2> SUFFICES ASSUME loop'.pc = "data" PROVE Behind'
    BY DEF Behind
  <2>1. loop.pc = "data"
    BY <1>1
  <2>2. /\ loop.back # "data" /\ loop.to \subseteq stream.pipes
        /\ \A e \in loop.to : ToSet(sink[e].got) \cap ToSet(loop.due) = {}
    BY <2>1 DEF PInv, Behind
  <2>3. PICK a \in Nat, n \in Nat :
           /\ loop.due = Chunk(a, n) /\ a + n <= Len(read)
           /\ upset.order \/ a + n = Len(read)
           /\ \A e \in loop.to : sink[e].piped <= a + 1
    BY <2>1 DEF PInv, Behind
  <2>4. \A e \in loop.to : e \in Sinks \ {d}
    <3>1. \A e \in stream.pipes : e \in Sinks /\ sink[e].piped > 0
      BY DEF PInv, Served
    <3> QED
      BY <1>1, <2>2, <3>1
  <2>5. \A e \in loop.to : sink'[e] = sink[e]
    BY <1>5, <2>4
  <2> QED
    BY <1>1, <1>4, <2>2, <2>3, <2>5 DEF Behind
<1>13. stream'.pipes \subseteq Sinks
  BY <1>4 DEF PInv
<1> QED
  BY <1>1, <1>5, <1>10, <1>11, <1>12, <1>13 DEF PInv

\* The native read and other streams of the queue.
LEMMA OthersFeed ==
  ASSUME IInv, PInv, NativeCompletes \/ Others
  PROVE  PInv'
<1>1. UNCHANGED <<sink, loop, read, upset>> /\ DOMAIN stream = Fields
  BY DEF NativeCompletes, Others, IInv, Good, Typed
<1>2. Same(stream, stream')
  BY <1>1 DEF NativeCompletes, Others, Same, Fields
<1> QED
  BY <1>1, <1>2, UntouchedStep DEF Same

\* A destination takes what it accepted, or fails.
LEMMA SinkFeeds ==
  ASSUME PInv, NEW d \in Sinks, Drain(d) \/ SinkFails(d)
  PROVE  PInv'
<1>1. /\ UNCHANGED <<stream, loop, read, upset>> /\ DOMAIN sink = Sinks
      /\ \A e \in Sinks : /\ Fed(sink[e], Len(read), upset)
                          /\ Ended(sink[e], stream.endTold)
  BY DEF Drain, SinkFails, PInv
<1>2. DOMAIN sink' = Sinks /\ \A e \in Sinks \ {d} : sink'[e] = sink[e]
  BY <1>1 DEF Drain, SinkFails
<1>3. \/ sink'[d] = [sink[d] EXCEPT !.full = FALSE]
      \/ sink'[d] = [sink[d] EXCEPT !.writable = FALSE, !.full = FALSE]
  BY <1>1 DEF Drain, SinkFails
<1>4. Alike(sink[d], sink'[d]) /\ Ended(sink'[d], stream'.endTold)
  BY <1>1, <1>3 DEF Alike, Ended, Fed
<1>5. \A e \in Sinks : Alike(sink[e], sink'[e]) /\ Ended(sink'[e], stream'.endTold)
  BY <1>1, <1>2, <1>4 DEF Alike, Fed
<1> QED
  BY <1>1, <1>2, <1>5, QuietStep

\* The rest of a poll that emits no data.
LEMMA PollRestSame ==
  ASSUME NEW x, Good(x, read), NEW blocked, PollRest(x, blocked)
  PROVE  /\ UNCHANGED <<read, upset>>
         /\ loop'.pc # "data" /\ DOMAIN loop' = {"pc", "blocked", "due", "to", "back"}
         /\ stream'.pipes \subseteq x.pipes /\ stream'.endTold = x.endTold
<1>1. /\ UNCHANGED <<read, upset>>
      /\ loop'.pc # "data" /\ DOMAIN loop' = {"pc", "blocked", "due", "to", "back"}
  <2>1. UNCHANGED <<read, upset>> /\ (Goes("idle") \/ Goes("listener"))
    BY DEF PollRest
  <2> QED
    BY <2>1 DEF Goes, At
<1>2. x.native # "none" \/ x.onReadable => Able(x, read)
  BY ActivePasses
<1>3. PICK y : /\ y = x \/ ((x.native # "none" \/ x.onReadable) /\ y \in Filled(x))
               /\ stream' = Pruned(y) \/ stream' = [y EXCEPT !.readablePending = FALSE]
  BY DEF PollRest
<1>4. Good(y, read) /\ Same(x, y)
  BY <1>2, <1>3, FilledKeeps DEF Able, Same
<1>5. DOMAIN y = Fields
  BY <1>4 DEF Good, Typed
<1>6. stream'.pipes \subseteq y.pipes /\ stream'.endTold = y.endTold
  <2>1. CASE stream' = Pruned(y)
    BY <1>4, <2>1, PrunedKeeps
  <2>2. CASE stream' = [y EXCEPT !.readablePending = FALSE]
    BY <1>5, <2>2 DEF Fields
  <2> QED
    BY <1>3, <2>1, <2>2
<1> QED
  BY <1>1, <1>4, <1>6 DEF Same

\* The rest of a poll that reads and emits data.
LEMMA PollDataFeeds ==
  ASSUME PInv, loop.pc # "data", NEW x, Good(x, read), NEW blocked,
         x.pipes \subseteq stream.pipes, x.endTold = stream.endTold,
         NEW to, DOMAIN to = Sinks, \A d \in Sinks : Unmoved(sink[d], to[d]),
         PollData(x, blocked, to)
  PROVE  PInv'
<1>1. x.registered
  BY DEF PollData, Good, Looped
<1>2. Able(x, read)
  BY <1>1, ActivePasses
<1> DEFINE Done(t) ==
      IF t[2] > 0 THEN Emit(t[1], t[2], to, At("listener"))
      ELSE /\ stream' = Pruned(t[1])
           /\ sink' = to
           /\ Goes("idle")
           /\ UNCHANGED <<read, upset>>
<1>3. PICK y \in (IF x.buffer = <<>> \/ x.native # "none" THEN Filled(x) ELSE {x}) :
        \E taken \in ReadSized(y, <<>>) : Done(taken)
  BY DEF PollData
<1>4. PICK taken \in ReadSized(y, <<>>) : Done(taken)
  BY <1>3
<1>5. Able(y, read) /\ Same(x, y)
  BY <1>2, <1>3, FilledKeeps DEF Same
<1>6. Good(y, read) /\ CanPrepare(y) /\ <<>> \in SizeSet
  BY <1>5, PrimedPasses DEF Able, Good, SizeSet
<1>7. PICK z, n : z = taken[1] /\ n = taken[2]
  OBVIOUS
<1>8. Takeable(z, n, read) /\ Same(y, z)
  BY <1>6, <1>7, ReadSizedKeeps
<1>9. z.pipes \subseteq stream.pipes /\ z.endTold = stream.endTold
  BY <1>5, <1>8 DEF Same
<1>10. DOMAIN loop = {"pc", "blocked", "due", "to", "back"}
  BY DEF PInv
<1>11. CASE n > 0
  <2>1. Emit(z, n, to, At("listener"))
    BY <1>4, <1>7, <1>11
  <2>2. PICK after : after = At("listener")
    OBVIOUS
  <2>3. DOMAIN after = DOMAIN loop /\ after.pc # "data"
    BY <1>10, <2>2 DEF At
  <2> QED
    BY <1>8, <1>9, <2>1, <2>2, <2>3, EmitFeeds
<1>12. CASE ~(n > 0)
  <2>1. stream' = Pruned(z) /\ sink' = to /\ Goes("idle") /\ UNCHANGED <<read, upset>>
    BY <1>4, <1>7, <1>12
  <2>2. stream'.pipes \subseteq z.pipes /\ stream'.endTold = z.endTold
    BY <1>8, <2>1, PrunedKeeps DEF Takeable
  <2>3. loop'.pc # "data" /\ DOMAIN loop' = DOMAIN loop
    BY <1>10, <2>1 DEF Goes, At
  <2>4. stream'.pipes \subseteq stream.pipes
    BY <1>9, <2>2
  <2> QED
    BY <1>9, <2>1, <2>2, <2>3, <2>4, StillStep
<1> QED
  BY <1>11, <1>12

\* poll_readables and has_active_readables
LEMMA PollFeeds ==
  ASSUME IInv, PInv, Polls \/ TestActive
  PROVE  PInv'
<1>1. /\ Good(stream, read) /\ DOMAIN sink = Sinks
      /\ DOMAIN loop = {"pc", "blocked", "due", "to", "back"}
      /\ \A d \in Sinks : sink[d].writable \in BOOLEAN
  BY DEF IInv, PInv, Fed
<1>2. CASE PollOver
  <2> DEFINE x == SinksPruned(stream, TRUE)
  <2>1. Good(x, read) /\ x.pipes \subseteq stream.pipes /\ x.endTold = stream.endTold
    BY <1>1, SinksPrunedKeeps
  <2>2. stream' = Pruned(x) /\ UNCHANGED <<sink, loop, read, upset>> /\ loop.pc # "data"
    BY <1>2 DEF PollOver
  <2> HIDE DEF x
  <2>3. stream'.pipes \subseteq x.pipes /\ stream'.endTold = x.endTold
    BY <2>1, <2>2, PrunedKeeps
  <2> QED
    BY <2>1, <2>2, <2>3, UntouchedStep
<1>3. CASE PollReady
  <2> DEFINE x == SinksPruned(stream, FALSE)
             asked == [d \in Sinks |-> IF d \in x.pipes THEN Ready(sink[d]) ELSE sink[d]]
             blocked == \E d \in x.pipes : asked[d].waiting
             y == [x EXCEPT !.resumePending = FALSE]
  <2>1. Good(x, read) /\ x.pipes \subseteq stream.pipes /\ x.endTold = stream.endTold
    BY <1>1, SinksPrunedKeeps
  <2>2. /\ loop.pc # "data"
        /\ \/ /\ stream' = y /\ sink' = asked
              /\ loop' = [At("resumed") EXCEPT !.blocked = blocked]
              /\ UNCHANGED <<read, upset>>
           \/ PollRest(x, blocked) /\ sink' = asked
           \/ PollData(x, blocked, asked)
    BY <1>3 DEF PollReady
  <2> HIDE DEF x
  <2>3. DOMAIN x = Fields
    BY <2>1 DEF Good, Typed
  <2>4. y.pipes = x.pipes /\ y.endTold = x.endTold
    BY <2>3 DEF Fields
  <2>5. DOMAIN asked = Sinks /\ \A d \in Sinks : Unmoved(sink[d], asked[d])
    <3>1. ASSUME NEW d \in Sinks PROVE Unmoved(sink[d], asked[d])
      <4>1. \/ asked[d] = sink[d]
            \/ asked[d] = [sink[d] EXCEPT !.waiting = sink[d].full]
        BY DEF Ready
      <4>2. DOMAIN sink[d] = {"writable", "full", "waiting", "piped", "got", "ends"}
        BY DEF PInv, Fed
      <4> QED
        BY <1>1, <4>1, <4>2 DEF Unmoved, Alike
    <3> QED
      BY <3>1
  <2> HIDE DEF asked, blocked, y
  <2>6. CASE /\ stream' = y /\ sink' = asked
             /\ loop' = [At("resumed") EXCEPT !.blocked = blocked]
             /\ UNCHANGED <<read, upset>>
    <3>1. loop'.pc # "data" /\ DOMAIN loop' = DOMAIN loop
      BY <1>1, <2>6 DEF At
    <3>2. stream'.pipes \subseteq stream.pipes /\ stream'.endTold = stream.endTold
      BY <2>1, <2>4, <2>6
    <3> QED
      BY <2>2, <2>5, <2>6, <3>1, <3>2, StillStep
  <2>7. CASE PollRest(x, blocked) /\ sink' = asked
    <3>1. /\ UNCHANGED <<read, upset>>
          /\ loop'.pc # "data" /\ DOMAIN loop' = DOMAIN loop
          /\ stream'.pipes \subseteq x.pipes /\ stream'.endTold = x.endTold
      BY <1>1, <2>1, <2>7, PollRestSame
    <3>2. stream'.pipes \subseteq stream.pipes /\ stream'.endTold = stream.endTold
      BY <2>1, <3>1
    <3> QED
      BY <2>2, <2>5, <2>7, <3>1, <3>2, StillStep
  <2>8. CASE PollData(x, blocked, asked)
    BY <2>1, <2>2, <2>5, <2>8, PollDataFeeds
  <2> QED
    BY <2>2, <2>6, <2>7, <2>8
<1>4. CASE ResumeReturns
  <2>1. CASE PollRest(stream, loop.blocked) /\ UNCHANGED sink
    <3>1. /\ UNCHANGED <<read, upset>>
          /\ loop'.pc # "data" /\ DOMAIN loop' = DOMAIN loop
          /\ stream'.pipes \subseteq stream.pipes /\ stream'.endTold = stream.endTold
      BY <1>1, <2>1, PollRestSame
    <3>2. loop.pc # "data"
      BY <1>4 DEF ResumeReturns
    <3> QED
      BY <2>1, <3>1, <3>2, UntouchedStep
  <2>2. CASE PollData(stream, loop.blocked, sink)
    <3>1. \A d \in Sinks : Unmoved(sink[d], sink[d])
      BY <1>1 DEF Unmoved, Alike
    <3>2. loop.pc # "data"
      BY <1>4 DEF ResumeReturns
    <3> QED
      BY <1>1, <2>2, <3>1, <3>2, PollDataFeeds
  <2> QED
    BY <1>4, <2>1, <2>2 DEF ResumeReturns
<1>5. CASE ListenerDone \/ TestActive
  <2>1. /\ UNCHANGED <<sink, read, upset>> /\ stream' = Pruned(stream)
        /\ loop.pc # "data" /\ loop'.pc # "data" /\ DOMAIN loop' = DOMAIN loop
    BY <1>1, <1>5 DEF ListenerDone, TestActive, Goes, At
  <2>2. stream'.pipes \subseteq stream.pipes /\ stream'.endTold = stream.endTold
    BY <1>1, <2>1, PrunedKeeps
  <2> QED
    BY <2>1, <2>2, UntouchedStep
<1>6. CASE DataListenerDone
  BY <1>6, DataDoneFeeds
<1> QED
  BY <1>2, <1>3, <1>4, <1>5, <1>6 DEF Polls

\* PipeSink.end of the destinations ds, once the end of the stream was told.
LEMMA EndedOnce ==
  ASSUME PInv, NEW ds, NEW told, told = TRUE
  PROVE  /\ DOMAIN SinksEnded(ds) = Sinks
         /\ \A d \in Sinks : Alike(sink[d], SinksEnded(ds)[d]) /\ Ended(SinksEnded(ds)[d], told)
<1>1. DOMAIN SinksEnded(ds) = Sinks
  BY DEF SinksEnded
<1>2. ASSUME NEW d \in Sinks
      PROVE  Alike(sink[d], SinksEnded(ds)[d]) /\ Ended(SinksEnded(ds)[d], told)
  <2>1. /\ DOMAIN sink[d] = {"writable", "full", "waiting", "piped", "got", "ends"}
        /\ sink[d].writable \in BOOLEAN /\ Ended(sink[d], stream.endTold)
    BY DEF PInv, Fed
  <2>2. PICK s : s = sink[d]
    OBVIOUS
  <2>3. PICK t : t = SinksEnded(ds)[d]
    OBVIOUS
  <2>4. t = s \/ (s.writable /\ t = [s EXCEPT !.ends = @ + 1, !.writable = FALSE, !.full = FALSE])
    BY <2>2, <2>3 DEF SinksEnded, SinkEnded
  <2>5. CASE t = s
    BY <2>1, <2>2, <2>3, <2>5 DEF Alike, Ended
  <2>6. CASE s.writable /\ t = [s EXCEPT !.ends = @ + 1, !.writable = FALSE, !.full = FALSE]
    <3>1. s.ends = 0
      BY <2>1, <2>2, <2>6 DEF Ended
    <3>2. /\ DOMAIN t = DOMAIN s /\ t.piped = s.piped /\ t.got = s.got
          /\ t.writable = FALSE /\ t.ends = 1
      BY <2>1, <2>2, <2>6, <3>1
    <3> QED
      BY <2>2, <2>3, <2>6, <3>2 DEF Alike, Ended
  <2> QED
    BY <2>4, <2>5, <2>6
<1> QED
  BY <1>1, <1>2

\* A notification is called: the destinations are ended by the end event, or
\* by a notification of their own after it.
LEMMA CallFeeds ==
  ASSUME PInv, loop.pc # "data", NEW x, Good(x, read), Same(stream, x),
         x.queue.batch # <<>>, CallNext(x)
  PROVE  PInv'
<1> DEFINE y == [x EXCEPT !.queue = Dispatched(@)]
           n == Head(x.queue.batch)
<1>1. /\ DOMAIN x = Fields /\ x.queue.batch \in Seq(Notes)
      /\ DOMAIN loop = {"pc", "blocked", "due", "to", "back"}
      /\ DOMAIN upset = {"units", "end", "order"}
  BY DEF Good, Typed, Queues, PInv
<1>2. n \in Notes /\ n \in Members(x.queue)
  BY <1>1, ListsIn DEF Members
<1>3. read' = read /\ Invoked(y, n)
  BY DEF CallNext
<1>4. DOMAIN y = Fields /\ y.pipes = stream.pipes /\ y.endTold = stream.endTold
  BY <1>1 DEF Same, Fields
<1>5. ASSUME NEW d \in Sinks, n = <<"pipe", d>>
      PROVE  stream.endTold
  BY <1>2, <1>5 DEF HasPipe, Good, Ending, Same
<1> HIDE DEF y, n
<1>6. loop'.pc # "data" /\ DOMAIN loop' = DOMAIN loop
  <2>1. Goes("notified") \/ Goes("raising")
    BY <1>3 DEF Invoked
  <2> QED
    BY <1>1, <2>1 DEF Goes, At
<1>7. CASE /\ stream'.pipes = y.pipes /\ stream'.endTold = y.endTold
           /\ UNCHANGED <<sink, upset>>
  BY <1>3, <1>4, <1>6, <1>7, UntouchedStep
<1>8. CASE n = <<"event", "end">> /\ stream' = [y EXCEPT !.endTold = TRUE]
  <2>1. stream'.pipes = stream.pipes /\ stream'.endTold = TRUE
    BY <1>4, <1>8 DEF Fields
  <2>2. CASE UNCHANGED upset /\ sink' = SinksEnded(y.pipes)
    <3>1. /\ DOMAIN sink' = Sinks
          /\ \A d \in Sinks : Alike(sink[d], sink'[d]) /\ Ended(sink'[d], stream'.endTold)
      BY <2>1, <2>2, EndedOnce
    <3> QED
      BY <1>3, <1>6, <2>1, <2>2, <3>1, QuietStep
  <2>3. CASE upset' = [upset EXCEPT !.end = TRUE] /\ UNCHANGED sink
    <3>1. \A d \in Sinks : Alike(sink[d], sink'[d]) /\ Ended(sink'[d], stream'.endTold)
      BY <2>1, <2>3 DEF PInv, Fed, Alike, Ended
    <3>2. /\ DOMAIN sink' = Sinks /\ DOMAIN upset' = DOMAIN upset
          /\ upset'.units = upset.units /\ upset'.order = upset.order
      BY <1>1, <2>3 DEF PInv
    <3> QED
      BY <1>3, <1>6, <2>1, <3>1, <3>2, QuietStep
  <2>4. CASE UNCHANGED <<sink, upset>>
    <3>1. stream.endTold => stream'.endTold
      BY <2>1
    <3> QED
      BY <1>3, <1>6, <2>1, <2>4, <3>1, UntouchedStep
  <2> QED
    BY <1>3, <1>8, <2>2, <2>3, <2>4 DEF Invoked
<1>9. ASSUME NEW d \in Sinks, n = <<"pipe", d>>, stream' = y, sink' = SinksEnded({n[2]}),
             UNCHANGED upset
      PROVE  PInv'
  <2>1. stream'.pipes = stream.pipes /\ stream'.endTold = stream.endTold
    BY <1>4, <1>9
  <2>2. stream.endTold = TRUE
    BY <1>5, <1>9
  <2>3. /\ DOMAIN sink' = Sinks
        /\ \A e \in Sinks : Alike(sink[e], sink'[e]) /\ Ended(sink'[e], stream'.endTold)
    BY <1>9, <2>1, <2>2, EndedOnce
  <2> QED
    BY <1>3, <1>6, <1>9, <2>1, <2>3, QuietStep
<1>10. CASE n = <<"event", "end">>
  <2>1. \/ stream' = y /\ UNCHANGED <<sink, upset>>
        \/ stream' = [y EXCEPT !.endTold = TRUE]
    BY <1>3, <1>10 DEF Invoked
  <2> QED
    BY <1>7, <1>8, <1>10, <2>1
<1>11. CASE n = <<"event", "error">>
  <2>1. stream' = y /\ UNCHANGED <<sink, upset>>
    BY <1>3, <1>11 DEF Invoked
  <2> QED
    BY <1>7, <2>1
<1>12. CASE n = <<"event", "close">>
  <2>1. /\ stream' = [y EXCEPT !.closeTold = TRUE, !.reservations = {},
                         !.queue = ReleasedAll(@, Cardinality(y.reservations))]
        /\ UNCHANGED <<sink, upset>>
    BY <1>3, <1>12 DEF Invoked
  <2>2. stream'.pipes = y.pipes /\ stream'.endTold = y.endTold
    BY <1>4, <2>1 DEF Fields
  <2> QED
    BY <1>7, <2>1, <2>2
<1>13. ASSUME NEW d \in Sinks, n = <<"pipe", d>>
       PROVE  PInv'
  <2>1. stream' = y /\ sink' = SinksEnded({n[2]}) /\ UNCHANGED upset
    BY <1>3, <1>13 DEF Invoked
  <2> QED
    BY <1>9, <1>13, <2>1
<1> QED
  BY <1>2, <1>10, <1>11, <1>12, <1>13 DEF Notes, Events

\* poll_streams
LEMMA NotifyFeeds ==
  ASSUME IInv, PInv, Notifies
  PROVE  PInv'
<1>1. /\ Good(stream, read) /\ stream.queue \in Queues /\ DOMAIN stream = Fields
      /\ DOMAIN loop = {"pc", "blocked", "due", "to", "back"}
  BY DEF IInv, PInv, Good, Typed
<1>2. loop.pc # "data"
  BY DEF Notifies, PollQueue, NotificationReturns, NotificationRaises
<1>3. ASSUME NEW q, stream' = [stream EXCEPT !.queue = q], UNCHANGED <<sink, read, upset>>,
             Goes("idle")
      PROVE  PInv'
  <2>1. stream'.pipes = stream.pipes /\ stream'.endTold = stream.endTold
    BY <1>1, <1>3 DEF Fields
  <2>2. loop'.pc # "data" /\ DOMAIN loop' = DOMAIN loop
    BY <1>1, <1>3 DEF Goes, At
  <2> QED
    BY <1>2, <1>3, <2>1, <2>2, UntouchedStep
<1>4. CASE PollQueue
  <2> DEFINE q == Started(stream.queue)
             y == [stream EXCEPT !.queue = q]
  <2>1. After(stream.queue, q) /\ q.batch = stream.queue.pending
    BY <1>1, PollAfter
  <2>2. stream.queue.pending # <<>> /\ CallNext(y)
    BY <1>4 DEF PollQueue, CanPoll
  <2> HIDE DEF q
  <2>3. Differs(stream, y, {"queue"}) /\ y.queue = q
    BY <1>1 DEF Differs, Fields
  <2> HIDE DEF y
  <2>4. Good(y, read) /\ Same(stream, y)
    BY <1>1, <2>1, <2>3, QueueKeeps DEF After, Good, Ending, HasClose, HasPipe
  <2> QED
    BY <1>2, <2>1, <2>2, <2>3, <2>4, CallFeeds
<1>5. CASE NotificationReturns
  <2>1. CASE stream.queue.batch # <<>> /\ CallNext(stream)
    BY <1>1, <1>2, <2>1, CallFeeds DEF Same
  <2>2. CASE /\ stream' = [stream EXCEPT !.queue = Finished(@)]
             /\ Goes("idle") /\ UNCHANGED <<sink, read, upset>>
    BY <1>3, <2>2
  <2> QED
    BY <1>5, <2>1, <2>2 DEF NotificationReturns
<1>6. CASE NotificationRaises
  BY <1>3, <1>6 DEF NotificationRaises
<1> QED
  BY <1>4, <1>5, <1>6 DEF Notifies

\* Every step keeps what the destinations have.
LEMMA StepwiseFed == IInv /\ PInv /\ [Next]_vars => PInv'
<1> SUFFICES ASSUME IInv, PInv, [Next]_vars PROVE PInv'
  OBVIOUS
<1>1. CASE \E size \in SizeSet : Read(size)
  BY <1>1, ReadFeeds
<1>2. CASE Close \/ Pause \/ Resume \/ OnData \/ OffData \/ OnReadable \/ OffReadable
  BY <1>2, OperationFeeds
<1>3. CASE \E d \in Sinks : Pipe(d)
  BY <1>3, PipeFeeds
<1>4. CASE \E d \in Sinks : Drain(d) \/ SinkFails(d)
  BY <1>4, SinkFeeds
<1>5. CASE NativeCompletes \/ Others
  BY <1>5, OthersFeed
<1>6. CASE Polls \/ TestActive
  BY <1>6, PollFeeds
<1>7. CASE Notifies
  BY <1>7, NotifyFeeds
<1>8. CASE UNCHANGED vars
  <2>1. UNCHANGED <<sink, read, upset, loop, stream>>
    BY <1>8 DEF vars
  <2> QED
    BY <2>1, UntouchedStep
<1> QED
  BY <1>1, <1>2, <1>3, <1>4, <1>5, <1>6, <1>7, <1>8 DEF Next, SizeSet

-----------------------------------------------------------------------------
(***************************************************************************)
(* The theorems.                                                           *)
(***************************************************************************)

\* Every step keeps the invariant.
LEMMA Stepwise == IInv /\ [Next]_vars => IInv'
<1> SUFFICES ASSUME IInv, [Next]_vars PROVE IInv'
  OBVIOUS
<1>1. CASE \E size \in SizeSet : Read(size)
  BY <1>1, ReadStep
<1>2. CASE Close \/ Resume
  BY <1>2, CloseStep
<1>3. CASE Pause \/ OffData \/ OffReadable
  BY <1>3, StateSteps
<1>4. CASE OnData \/ OnReadable
  BY <1>4, ListenSteps
<1>5. CASE \E d \in Sinks : Pipe(d)
  BY <1>5, PipeStep
<1>6. CASE NativeCompletes \/ Others \/ \E d \in Sinks : Drain(d) \/ SinkFails(d)
  BY <1>6, EnvironmentStep
<1>7. CASE Polls \/ TestActive
  BY <1>7, PollStep
<1>8. CASE Notifies
  BY <1>8, NotifyStep
<1>9. CASE UNCHANGED vars
  BY <1>9 DEF vars, IInv
<1> QED
  BY <1>1, <1>2, <1>3, <1>4, <1>5, <1>6, <1>7, <1>8, <1>9 DEF Next, SizeSet

\* The fields have their types, an activated stream has the places of its
\* events, a flowing one is polled, and the data is in order, always.
THEOREM Inductive == Spec => []IInv
<1> QED
  BY Initially, Stepwise, PTL DEF Spec

\* end, error and close find the places that prepare reserved for them, in an
\* operation, in a poll and in an abort, however full the queue is.
THEOREM Unstarved == Spec => []NeverStarved
<1>1. IInv => NeverStarved
  BY DEF IInv, Good, Placed, NeverStarved
<1> QED
  BY <1>1, Inductive, PTL

\* A stream that flows stays on the list of poll_readables, whatever was
\* paused, piped, listened to and pruned before.
THEOREM Flowing == Spec => []KeptByLoop
<1>1. IInv => KeptByLoop
  BY DEF IInv, Good, Looped, KeptByLoop
<1> QED
  BY <1>1, Inductive, PTL

\* Units leave the stream in order, none twice and none skipped, and what is
\* read and what is buffered is all that came from the descriptor.
THEOREM InOrder == Spec => []ReadInOrder
<1>1. ASSUME IInv PROVE ReadInOrder
  <2> DEFINE g == stream.got
             u == UpTo(g)
  <2>1. /\ g \in Nat /\ read \in Seq(Nat) /\ Len(read) <= g
        /\ \A i \in 1..Len(read) : read[i] = i
        /\ ~stream.closed /\ ~stream.failed => read \o stream.buffer = u
    BY <1>1 DEF IInv, Good, Typed, Ordered
  <2>2. u \in Seq(Nat) /\ Len(u) = g /\ \A i \in 1..g : u[i] = i
    BY <2>1, UpToProperties
  <2> HIDE DEF u
  <2>3. Len(read) \in Nat /\ \A i \in 1..Len(read) : i \in 1..g
    BY <2>1
  <2>4. SubSeq(read, 1, Len(read)) = SubSeq(u, 1, Len(read))
    <3>1. SubSeq(read, 1, Len(read)) = [i \in 1..Len(read) |-> read[i]]
      BY <2>1, <2>3
    <3>2. SubSeq(u, 1, Len(read)) = [i \in 1..Len(read) |-> u[i]]
      BY <2>2, <2>3
    <3>3. \A i \in 1..Len(read) : read[i] = u[i]
      BY <2>1, <2>2, <2>3
    <3> QED
      BY <3>1, <3>2, <3>3
  <2>5. IsPrefix(read, u)
    BY <2>1, <2>2, <2>4 DEF IsPrefix
  <2> QED
    BY <2>1, <2>5 DEF ReadInOrder, u
<1> QED
  BY <1>1, Inductive, PTL

\* What the destinations received and missed, were ended for and are held back
\* from, whatever listeners read, raise, pause and pipe, is in order, always.
THEOREM Feeding == Spec => []PInv
<1>1. IInv /\ PInv /\ [Next]_vars => PInv'
  BY StepwiseFed
<1> QED
  BY <1>1, InitiallyFed, Inductive, PTL DEF Spec

\* A destination receives what is read after it joined, once, in order and
\* without gap but for chunks that a raising listener cut short; it is ended
\* once, for the end of the source, which is queued when all was read.
THEOREM PipesRight == Spec => []PipesComplete
<1>1. ASSUME IInv, PInv PROVE PipesComplete
  <2>1. PICK R : R = Len(read)
    OBVIOUS
  <2>2. /\ read \in Seq(Nat) /\ R \in Nat /\ Len(read) = R /\ (\A i \in 1..R : read[i] = i)
        /\ stream.endQueued => R = Total
    BY <1>1, <2>1 DEF IInv, Good, Ordered, Ending
  <2>3. stream.endQueued => read = UpTo(Total)
    <3> SUFFICES ASSUME stream.endQueued PROVE read = UpTo(Total)
      OBVIOUS
    <3>1. R = Total
      BY <2>2
    <3>2. read = [i \in 1..R |-> read[i]]
      BY <2>2
    <3> QED
      BY <2>2, <3>1, <3>2 DEF UpTo
  <2>4. \A d \in Sinks : sink[d].ends = 0 \/ (sink[d].ends = 1 /\ stream.endTold)
    BY <1>1 DEF PInv, Ended
  <2>5. ASSUME NEW d \in Sinks, sink[d].piped > 0
        PROVE  LET got == sink[d].got
                   later == ToSet(SubSeq(read, sink[d].piped, Len(read)))
                   due == later \ upset.units
               IN  /\ IsInjective(got)
                   /\ ToSet(got) \subseteq later
                   /\ upset.order \/
                         /\ \A i, j \in DOMAIN got : i < j => got[i] < got[j]
                         /\ \A u \in ToSet(got), v \in due : v < u => v \in ToSet(got)
                   /\ d \in stream.pipes /\ sink[d].writable /\ loop.pc # "data"
                         => due \subseteq ToSet(got)
    <3>1. PICK p, later : p = sink[d].piped /\ later = ToSet(SubSeq(read, p, R))
      OBVIOUS
    <3>2. Fed(sink[d], R, upset) /\ p \in 0..(R + 1) /\ p > 0
      BY <1>1, <2>1, <2>5, <3>1 DEF PInv, Fed
    <3>3. later = Later(sink[d], R)
      <4>1. PICK c : c = SubSeq(read, p, R)
        OBVIOUS
      <4>2. c = [i \in 1..(R - p + 1) |-> read[p + i - 1]] /\ R - p + 1 \in Nat
        BY <2>2, <3>2, <4>1
      <4>3. /\ DOMAIN c = 1..(R - p + 1)
            /\ \A i \in 1..(R - p + 1) : c[i] = p + i - 1
        BY <2>2, <3>2, <4>2
      <4>4. ToSet(c) \subseteq p..R
        BY <2>2, <3>2, <4>3 DEF ToSet
      <4>5. ASSUME NEW v \in p..R PROVE v \in ToSet(c)
        <5>1. v - p + 1 \in 1..(R - p + 1) /\ p + (v - p + 1) - 1 = v
          BY <2>2, <3>2
        <5>2. c[v - p + 1] = v
          BY <4>3, <5>1
        <5> QED
          BY <4>3, <5>1, <5>2 DEF ToSet
      <4> QED
        BY <3>1, <4>1, <4>4, <4>5 DEF Later
    <3>4. upset.order \/ InSequence(sink[d], R, upset)
      BY <3>2 DEF Fed
    <3>5. ASSUME d \in stream.pipes, sink[d].writable, loop.pc # "data"
          PROVE  later \ upset.units \subseteq ToSet(sink[d].got)
      <4>1. Missed(sink[d], R, upset) \subseteq Coming(d)
        BY <1>1, <2>1, <3>5 DEF PInv, Served
      <4>2. Coming(d) = {}
        BY <3>5 DEF Coming
      <4> QED
        BY <3>3, <4>1, <4>2 DEF Missed
    <3> QED
      BY <2>1, <3>1, <3>2, <3>3, <3>4, <3>5 DEF Fed, InSequence
  <2> QED
    BY <2>3, <2>4, <2>5 DEF PipesComplete
<1> QED
  BY <1>1, Inductive, Feeding, PTL
=============================================================================
