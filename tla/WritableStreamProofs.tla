------------------------ MODULE WritableStreamProofs ------------------------
(***************************************************************************)
(* What a Writable promises about the places of the shared queue, for any  *)
(* chunk sizes, high-water mark, capacity and number of calls: an event    *)
(* that happens has a place (NeverStarved), and every reserved place has   *)
(* an owner (PlacesOwned).                                                 *)
(*                                                                         *)
(* Neither is inductive.  That prepare, at the start of an operation,      *)
(* suffices for its end rests on the order of the flags (Life): it         *)
(* reserves for what the flags say can still happen, so that a flag may    *)
(* not be set behind its back.  Between operations the places it reserved  *)
(* may be used up, but not those of events that user code was promised:    *)
(* the close that was scheduled, and the finish that the internal event    *)
(* "complete" will queue (Promised).  The owners account for every place   *)
(* only if no method that ends leaves chunks or ends behind which nothing  *)
(* will report (Settled), if an end that succeeds schedules finish (Ends)  *)
(* and if no drain is due once the stream has closed (Quiet).              *)
(*                                                                         *)
(* The methods are functions of a stream value, and there is one lemma for *)
(* each: what it does to the flags, to the queue and to the places.        *)
(***************************************************************************)
EXTENDS WritableStream, FiniteSetTheorems, SequenceTheorems, TLAPS

\* The fields of a stream value.
Fields ==
  {"descriptor", "autoClose", "flush", "chunks", "corked", "ended", "closed", "failed",
   "buffered", "needDrain", "error", "finishScheduled", "finished", "closeScheduled",
   "closeQueued", "closeEmitted", "drainScheduled", "cancelled", "reservations",
   "endCompletions", "queue", "accepted", "sink", "starved"}

\* y is a stream value that differs from x in the fields S at most.
Differs(x, y, S) == DOMAIN y = Fields /\ \A f \in Fields \ S : y[f] = x[f]

\* What may stand in the queue.
Notes == ({"write", "end"} \X Nat \X BOOLEAN) \cup ({"event"} \X Events)

Queues == [pending : Seq(Notes), batch : Seq(Notes), committed : Int, reserved : Int,
           polling : BOOLEAN]

Chunk == [id : Nat, size : Nat, callback : BOOLEAN]

Typed(x) ==
  /\ DOMAIN x = Fields
  /\ x.queue \in Queues
  /\ x.chunks \in Seq(Chunk)
  /\ x.endCompletions \in Seq(Nat)
  /\ x.reservations \in SUBSET Events

\* An event in a list, and among all that is queued.
In(list, event) == \E i \in 1..Len(list) : list[i] = Event(event)
Occurs(q, event) == In(q.batch, event) \/ In(q.pending, event)

\* The internal event "complete" is queued once at most.
Once(list) ==
  \A i, j \in 1..Len(list) :
     list[i] = Event("complete") /\ list[j] = Event("complete") => i = j
OneComplete(q) ==
  /\ Once(q.batch) /\ Once(q.pending)
  /\ ~(In(q.batch, "complete") /\ In(q.pending, "complete"))

\* The queue r has the events E behind those of q, in the pending list.
Adds(q, r, E) ==
  /\ r \in Queues
  /\ r.batch = q.batch
  /\ \A f : Occurs(r, f) <=> Occurs(q, f) \/ f \in E
  /\ OneComplete(q) /\ ("complete" \in E => ~Occurs(q, "complete")) => OneComplete(r)
-----------------------------------------------------------------------------
(***************************************************************************)
(* Lists of notifications.                                                 *)
(***************************************************************************)

\* An event is a notification that no callback is.
LEMMA EventNotes ==
  /\ \A e \in Events : Event(e) \in Notes
  /\ \A n \in Notes : n[1] = "event" => \E e \in Events : n = Event(e)
  /\ \A i \in Nat, b \in BOOLEAN, k \in {"write", "end"} :
        <<k, i, b>> \in Notes /\ \A e : <<k, i, b>> # Event(e)
  /\ \A e, f : Event(e) = Event(f) => e = f
<1>1. \A e \in Events : Event(e) \in Notes
  BY DEF Event, Notes
<1>2. ASSUME NEW n \in Notes, n[1] = "event" PROVE \E e \in Events : n = Event(e)
  <2>1. n \notin {"write", "end"} \X Nat \X BOOLEAN
    BY <1>2
  <2>2. n \in {"event"} \X Events
    BY <2>1 DEF Notes
  <2> QED
    BY <2>2 DEF Event
<1>3. ASSUME NEW i \in Nat, NEW b \in BOOLEAN, NEW k \in {"write", "end"}
      PROVE  <<k, i, b>> \in Notes /\ \A e : <<k, i, b>> # Event(e)
  BY DEF Event, Notes
<1>4. \A e, f : Event(e) = Event(f) => e = f
  BY DEF Event
<1> QED
  BY <1>1, <1>2, <1>3, <1>4

\* One event behind a list.
LEMMA AppendEvent ==
  ASSUME NEW s \in Seq(Notes), NEW e \in Events
  PROVE  /\ Append(s, Event(e)) \in Seq(Notes)
         /\ \A f : In(Append(s, Event(e)), f) <=> In(s, f) \/ f = e
         /\ Once(s) /\ (e = "complete" => ~In(s, "complete")) => Once(Append(s, Event(e)))
<1> DEFINE t == Append(s, Event(e))
<1>1. Event(e) \in Notes /\ Len(s) \in Nat
  BY EventNotes
<1>2. /\ t \in Seq(Notes) /\ Len(t) = Len(s) + 1
      /\ \A i \in 1..Len(s) : t[i] = s[i]
      /\ t[Len(s) + 1] = Event(e)
  BY <1>1, AppendProperties
<1> HIDE DEF t
<1>3. ASSUME NEW f PROVE In(t, f) <=> In(s, f) \/ f = e
  BY <1>1, <1>2, EventNotes DEF In
<1>4. ASSUME Once(s), e = "complete" => ~In(s, "complete") PROVE Once(t)
  <2>1. CASE e = "complete"
    BY <1>1, <1>2, <1>4, <2>1 DEF Once, In
  <2>2. CASE e # "complete"
    <3>1. Event(e) # Event("complete")
      BY <2>2, EventNotes
    <3> QED
      BY <1>1, <1>2, <1>4, <3>1 DEF Once
  <2> QED
    BY <2>1, <2>2
<1> QED
  BY <1>2, <1>3, <1>4 DEF t

\* Two lists, one behind the other.
LEMMA JoinEvents ==
  ASSUME NEW s \in Seq(Notes), NEW t \in Seq(Notes)
  PROVE  /\ s \o t \in Seq(Notes)
         /\ \A f : In(s \o t, f) <=> In(s, f) \/ In(t, f)
         /\ Once(s) /\ Once(t) /\ ~(In(s, "complete") /\ In(t, "complete")) => Once(s \o t)
<1> DEFINE u == s \o t
<1>1. /\ u \in Seq(Notes) /\ Len(u) = Len(s) + Len(t) /\ Len(s) \in Nat /\ Len(t) \in Nat
      /\ \A i \in 1..Len(s) : u[i] = s[i]
      /\ \A i \in (Len(s) + 1)..Len(u) : u[i] = t[i - Len(s)] /\ i - Len(s) \in 1..Len(t)
      /\ \A i \in 1..Len(t) : i + Len(s) \in 1..Len(u) /\ u[i + Len(s)] = t[i]
  BY ConcatProperties
<1> HIDE DEF u
<1>2. \A i \in 1..Len(u) : i \in 1..Len(s) \/ i \in (Len(s) + 1)..Len(u)
  BY <1>1
<1>3. \A i \in 1..Len(s) : i \in 1..Len(u)
  BY <1>1
<1>4. ASSUME NEW f PROVE In(u, f) <=> In(s, f) \/ In(t, f)
  BY <1>1, <1>2, <1>3 DEF In
<1>5. ASSUME Once(s), Once(t), ~(In(s, "complete") /\ In(t, "complete")),
             NEW i \in 1..Len(u), NEW j \in 1..Len(u),
             u[i] = Event("complete"), u[j] = Event("complete")
      PROVE  i = j
  <2>1. CASE i \in 1..Len(s) /\ j \in 1..Len(s)
    BY <1>1, <1>5, <2>1 DEF Once
  <2>2. CASE i \in (Len(s) + 1)..Len(u) /\ j \in (Len(s) + 1)..Len(u)
    <3>1. i - Len(s) = j - Len(s)
      BY <1>1, <1>5, <2>2 DEF Once
    <3> QED
      BY <1>1, <3>1
  <2>3. CASE \/ i \in 1..Len(s) /\ j \in (Len(s) + 1)..Len(u)
             \/ j \in 1..Len(s) /\ i \in (Len(s) + 1)..Len(u)
    BY <1>1, <1>5, <2>3 DEF In
  <2> QED
    BY <1>2, <2>1, <2>2, <2>3
<1>6. Once(s) /\ Once(t) /\ ~(In(s, "complete") /\ In(t, "complete")) => Once(u)
  BY <1>5 DEF Once
<1> QED
  BY <1>1, <1>4, <1>6 DEF u

\* Callbacks behind a list.
LEMMA AppendCallbacks ==
  ASSUME NEW s \in Seq(Notes), NEW ids \in Seq(Nat), NEW kind \in {"write", "end"},
         NEW failed \in BOOLEAN
  PROVE  LET ns == [i \in DOMAIN ids |-> <<kind, ids[i], failed>>]
         IN  /\ s \o ns \in Seq(Notes) /\ Len(ns) = Len(ids)
             /\ \A f : In(s \o ns, f) <=> In(s, f)
             /\ Once(s) => Once(s \o ns)
<1> DEFINE ns == [i \in DOMAIN ids |-> <<kind, ids[i], failed>>]
<1>1. ids \in [1..Len(ids) -> Nat] /\ Len(ids) \in Nat /\ DOMAIN ids = 1..Len(ids)
  BY LenProperties
<1>2. \A i \in 1..Len(ids) : ns[i] \in Notes /\ \A e : ns[i] # Event(e)
  BY <1>1, EventNotes
<1>3. ns \in [1..Len(ids) -> Notes]
  BY <1>1, <1>2
<1>4. ns \in Seq(Notes) /\ Len(ns) = Len(ids)
  BY <1>1, <1>3
<1> HIDE DEF ns
<1>5. Once(ns) /\ \A f : ~In(ns, f)
  BY <1>2, <1>4 DEF In, Once
<1>6. /\ s \o ns \in Seq(Notes)
      /\ \A f : In(s \o ns, f) <=> In(s, f)
      /\ Once(s) => Once(s \o ns)
  BY <1>4, <1>5, JoinEvents
<1> QED
  BY <1>4, <1>6 DEF ns

\* The first of a list is called.
LEMMA TailEvents ==
  ASSUME NEW s \in Seq(Notes), s # <<>>
  PROVE  /\ Head(s) \in Notes /\ Tail(s) \in Seq(Notes)
         /\ \A f : In(s, f) <=> In(Tail(s), f) \/ Head(s) = Event(f)
         /\ Once(s) => Once(Tail(s))
         /\ Once(s) /\ Head(s) = Event("complete") => ~In(Tail(s), "complete")
<1> DEFINE t == Tail(s)
<1>1. /\ t \in Seq(Notes) /\ Len(t) = Len(s) - 1 /\ Len(s) \in Nat \ {0} /\ Head(s) \in Notes
      /\ \A i \in 1..Len(t) : t[i] = s[i + 1]
      /\ Head(s) = s[1]
  BY HeadTailProperties
<1> HIDE DEF t
<1>2. ASSUME NEW f PROVE In(s, f) <=> In(t, f) \/ Head(s) = Event(f)
  <2>1. ASSUME NEW i \in 1..Len(s), s[i] = Event(f) PROVE In(t, f) \/ Head(s) = Event(f)
    <3>1. CASE i = 1
      BY <1>1, <2>1, <3>1
    <3>2. CASE i # 1
      <4>1. i - 1 \in 1..Len(t) /\ t[i - 1] = s[(i - 1) + 1] /\ (i - 1) + 1 = i
        BY <1>1, <3>2
      <4> QED
        BY <2>1, <4>1 DEF In
    <3> QED
      BY <3>1, <3>2
  <2>2. ASSUME NEW i \in 1..Len(t), t[i] = Event(f) PROVE In(s, f)
    <3>1. i + 1 \in 1..Len(s)
      BY <1>1
    <3> QED
      BY <1>1, <2>2, <3>1 DEF In
  <2>3. Head(s) = Event(f) => In(s, f)
    BY <1>1 DEF In
  <2> QED
    BY <2>1, <2>2, <2>3 DEF In
<1>3. Once(s) => Once(t)
  <2>1. \A i \in 1..Len(t) : i + 1 \in 1..Len(s) /\ i \in Int
    BY <1>1
  <2> QED
    BY <1>1, <2>1 DEF Once
<1>4. ASSUME Once(s), Head(s) = Event("complete"), In(t, "complete") PROVE FALSE
  <2>1. PICK i \in 1..Len(t) : t[i] = Event("complete")
    BY <1>4 DEF In
  <2>2. i + 1 \in 1..Len(s) /\ 1 \in 1..Len(s) /\ i + 1 # 1
    BY <1>1
  <2> QED
    BY <1>1, <1>4, <2>1, <2>2 DEF Once
<1> QED
  BY <1>1, <1>2, <1>3, <1>4 DEF t
-----------------------------------------------------------------------------
(***************************************************************************)
(* The queue.                                                              *)
(***************************************************************************)

\* A queue value is made of its fields.
LEMMA QueueFields ==
  ASSUME NEW q \in Queues
  PROVE  /\ q.pending \in Seq(Notes) /\ q.batch \in Seq(Notes) /\ q.committed \in Int
         /\ q.reserved \in Int /\ q.polling \in BOOLEAN
         /\ DOMAIN q = {"pending", "batch", "committed", "reserved", "polling"}
         /\ q = [pending |-> q.pending, batch |-> q.batch, committed |-> q.committed,
                 reserved |-> q.reserved, polling |-> q.polling]
BY DEF Queues

\* A value with these fields is a queue.
LEMMA QueueMade ==
  ASSUME NEW r, r = [f \in DOMAIN r |-> r[f]],
         DOMAIN r = {"pending", "batch", "committed", "reserved", "polling"},
         r.pending \in Seq(Notes), r.batch \in Seq(Notes), r.committed \in Int,
         r.reserved \in Int, r.polling \in BOOLEAN
  PROVE  r \in Queues
BY DEF Queues

\* Counting reservations leaves the lists alone.
LEMMA CountReserved ==
  ASSUME NEW q \in Queues, NEW n \in Int
  PROVE  /\ Adds(q, ReservedAll(q, n), {}) /\ ReservedAll(q, n).reserved = q.reserved + n
         /\ Adds(q, ReleasedAll(q, n), {}) /\ ReleasedAll(q, n).reserved = q.reserved - n
         /\ Adds(q, Reserved(q), {}) /\ Reserved(q).reserved = q.reserved + 1
         /\ Adds(q, Released(q), {}) /\ Released(q).reserved = q.reserved - 1
<1>1. ASSUME NEW m \in Int, NEW r, r = [q EXCEPT !.reserved = m]
      PROVE  Adds(q, r, {}) /\ r.reserved = m
  <2>1. r = [pending |-> q.pending, batch |-> q.batch, committed |-> q.committed,
             reserved |-> m, polling |-> q.polling]
    BY <1>1, QueueFields
  <2>2. r \in Queues
    BY <2>1, QueueFields DEF Queues
  <2>3. r.batch = q.batch /\ r.pending = q.pending /\ r.reserved = m
    BY <2>1
  <2> QED
    BY <2>2, <2>3 DEF Adds, Occurs, OneComplete
<1>2. q.reserved \in Int /\ q.reserved + n \in Int /\ q.reserved - n \in Int
      /\ q.reserved + 1 \in Int /\ q.reserved - 1 \in Int
  BY QueueFields
<1> QED
  BY <1>1, <1>2 DEF ReservedAll, ReleasedAll, Reserved, Released

\* An event is committed.
LEMMA CommitEvent ==
  ASSUME NEW q \in Queues, NEW e \in Events
  PROVE  /\ Adds(q, Committed(q, Event(e)), {e})
         /\ Committed(q, Event(e)).reserved = q.reserved - 1
<1> DEFINE r == Committed(q, Event(e))
           new == Append(q.pending, Event(e))
<1>1. /\ DOMAIN r = DOMAIN q /\ r = [f \in DOMAIN r |-> r[f]]
      /\ r.pending = new /\ r.batch = q.batch /\ r.committed = q.committed + 1
      /\ r.reserved = q.reserved - 1 /\ r.polling = q.polling
  BY QueueFields DEF Committed
<1>2. /\ new \in Seq(Notes)
      /\ \A f : In(new, f) <=> In(q.pending, f) \/ f = e
      /\ Once(q.pending) /\ (e = "complete" => ~In(q.pending, "complete")) => Once(new)
  BY QueueFields, AppendEvent
<1> HIDE DEF new
<1>3. r \in Queues
  <2>1. /\ r.pending \in Seq(Notes) /\ r.batch \in Seq(Notes) /\ r.committed \in Int
        /\ r.reserved \in Int /\ r.polling \in BOOLEAN
    BY <1>1, <1>2, QueueFields
  <2>2. /\ DOMAIN r = {"pending", "batch", "committed", "reserved", "polling"}
        /\ r = [f \in DOMAIN r |-> r[f]]
    BY <1>1, <1>2, QueueFields
  <2> HIDE DEF r
  <2> QED
    BY <2>1, <2>2, QueueMade
<1>4. r.batch = q.batch /\ r.pending = new /\ r.reserved = q.reserved - 1
  BY <1>1
<1> HIDE DEF r
<1>5. \A f : Occurs(r, f) <=> Occurs(q, f) \/ f \in {e}
  BY <1>2, <1>4 DEF Occurs
<1>6. OneComplete(q) /\ ("complete" \in {e} => ~Occurs(q, "complete")) => OneComplete(r)
  BY <1>2, <1>4 DEF OneComplete, Occurs
<1> QED
  BY <1>3, <1>4, <1>5, <1>6 DEF Adds, r

\* Callbacks are committed.
LEMMA CommitCallbacks ==
  ASSUME NEW q \in Queues, NEW ids \in Seq(Nat), NEW kind \in {"write", "end"},
         NEW failed \in BOOLEAN
  PROVE  LET r == CommittedAll(q, [i \in DOMAIN ids |-> <<kind, ids[i], failed>>])
         IN  Adds(q, r, {}) /\ r.reserved = q.reserved - Len(ids)
<1> DEFINE ns == [i \in DOMAIN ids |-> <<kind, ids[i], failed>>]
           r == CommittedAll(q, ns)
           new == q.pending \o ns
<1>1. /\ new \in Seq(Notes) /\ Len(ns) = Len(ids)
      /\ \A f : In(new, f) <=> In(q.pending, f)
      /\ Once(q.pending) => Once(new)
  BY QueueFields, AppendCallbacks
<1> HIDE DEF ns
<1>2. /\ DOMAIN r = DOMAIN q /\ r = [f \in DOMAIN r |-> r[f]]
      /\ r.pending = new /\ r.batch = q.batch /\ r.committed = q.committed + Len(ns)
      /\ r.reserved = q.reserved - Len(ns) /\ r.polling = q.polling
  BY QueueFields DEF CommittedAll
<1> HIDE DEF new
<1>3. Len(ids) \in Nat
  OBVIOUS
<1>4. r \in Queues
  <2>1. /\ r.pending \in Seq(Notes) /\ r.batch \in Seq(Notes) /\ r.committed \in Int
        /\ r.reserved \in Int /\ r.polling \in BOOLEAN
    BY <1>1, <1>2, <1>3, QueueFields
  <2>2. /\ DOMAIN r = {"pending", "batch", "committed", "reserved", "polling"}
        /\ r = [f \in DOMAIN r |-> r[f]]
    BY <1>1, <1>2, QueueFields
  <2> HIDE DEF r
  <2> QED
    BY <2>1, <2>2, QueueMade
<1>5. r.batch = q.batch /\ r.pending = new /\ r.reserved = q.reserved - Len(ids)
  BY <1>1, <1>2
<1> HIDE DEF r
<1>6. \A f : Occurs(r, f) <=> Occurs(q, f) \/ f \in {}
  BY <1>1, <1>5 DEF Occurs
<1>7. OneComplete(q) => OneComplete(r)
  BY <1>1, <1>5 DEF OneComplete, Occurs
<1> QED
  BY <1>4, <1>5, <1>6, <1>7 DEF Adds, r, ns

\* A poll takes the pending list as its batch.
LEMMA QueueStarted ==
  ASSUME NEW q \in Queues, q.batch = <<>>
  PROVE  /\ Started(q) \in Queues /\ Started(q).batch = q.pending
         /\ \A f : Occurs(Started(q), f) <=> Occurs(q, f)
         /\ OneComplete(q) => OneComplete(Started(q))
         /\ Started(q).reserved = q.reserved
<1> DEFINE r == Started(q)
<1>1. /\ DOMAIN r = DOMAIN q /\ r = [f \in DOMAIN r |-> r[f]]
      /\ r.pending = <<>> /\ r.batch = q.pending /\ r.committed = q.committed
      /\ r.reserved = q.reserved /\ r.polling = TRUE
  BY QueueFields DEF Started
<1>2. <<>> \in Seq(Notes) /\ Len(<<>>) = 0
  OBVIOUS
<1>3. r \in Queues
  <2>1. /\ r.pending \in Seq(Notes) /\ r.batch \in Seq(Notes) /\ r.committed \in Int
        /\ r.reserved \in Int /\ r.polling \in BOOLEAN
    BY <1>1, <1>2, QueueFields
  <2>2. /\ DOMAIN r = {"pending", "batch", "committed", "reserved", "polling"}
        /\ r = [f \in DOMAIN r |-> r[f]]
    BY <1>1, <1>2, QueueFields
  <2> HIDE DEF r
  <2> QED
    BY <2>1, <2>2, QueueMade
<1>4. r.batch = q.pending /\ r.pending = <<>> /\ r.reserved = q.reserved
  BY <1>1
<1> HIDE DEF r
<1>5. Once(<<>>) /\ \A f : ~In(<<>>, f)
  BY <1>2 DEF Once, In
<1>6. \A f : Occurs(r, f) <=> Occurs(q, f)
  BY <1>4, <1>5 DEF Occurs
<1>7. OneComplete(q) => OneComplete(r)
  BY <1>4, <1>5 DEF OneComplete
<1> QED
  BY <1>3, <1>4, <1>6, <1>7 DEF r

\* The next notification of the batch leaves the queue.
LEMMA QueueDispatched ==
  ASSUME NEW q \in Queues, q.batch # <<>>
  PROVE  /\ Dispatched(q) \in Queues /\ Head(q.batch) \in Notes
         /\ \A f : Occurs(Dispatched(q), f) => Occurs(q, f)
         /\ \A f : Head(q.batch) = Event(f) => Occurs(q, f)
         /\ OneComplete(q) => OneComplete(Dispatched(q))
         /\ OneComplete(q) /\ Head(q.batch) = Event("complete")
              => ~Occurs(Dispatched(q), "complete")
         /\ Dispatched(q).reserved = q.reserved
<1> DEFINE r == Dispatched(q)
<1>1. /\ DOMAIN r = DOMAIN q /\ r = [f \in DOMAIN r |-> r[f]]
      /\ r.pending = q.pending /\ r.batch = Tail(q.batch) /\ r.committed = q.committed - 1
      /\ r.reserved = q.reserved /\ r.polling = q.polling
  BY QueueFields DEF Dispatched
<1>2. /\ Head(q.batch) \in Notes /\ Tail(q.batch) \in Seq(Notes)
      /\ \A f : In(q.batch, f) <=> In(Tail(q.batch), f) \/ Head(q.batch) = Event(f)
      /\ Once(q.batch) => Once(Tail(q.batch))
      /\ Once(q.batch) /\ Head(q.batch) = Event("complete") => ~In(Tail(q.batch), "complete")
  BY QueueFields, TailEvents
<1>3. r \in Queues
  <2>1. /\ r.pending \in Seq(Notes) /\ r.batch \in Seq(Notes) /\ r.committed \in Int
        /\ r.reserved \in Int /\ r.polling \in BOOLEAN
    BY <1>1, <1>2, QueueFields
  <2>2. /\ DOMAIN r = {"pending", "batch", "committed", "reserved", "polling"}
        /\ r = [f \in DOMAIN r |-> r[f]]
    BY <1>1, <1>2, QueueFields
  <2> HIDE DEF r
  <2> QED
    BY <2>1, <2>2, QueueMade
<1>4. r.batch = Tail(q.batch) /\ r.pending = q.pending /\ r.reserved = q.reserved
  BY <1>1
<1> HIDE DEF r
<1>5. \A f : /\ Occurs(r, f) => Occurs(q, f)
             /\ Head(q.batch) = Event(f) => Occurs(q, f)
  BY <1>2, <1>4 DEF Occurs
<1>6. OneComplete(q) => OneComplete(r)
  BY <1>2, <1>4 DEF OneComplete
<1>7. OneComplete(q) /\ Head(q.batch) = Event("complete") => ~Occurs(r, "complete")
  BY <1>2, <1>4 DEF OneComplete, Occurs
<1> QED
  BY <1>2, <1>3, <1>4, <1>5, <1>6, <1>7 DEF r

\* A poll ends, by itself or because a notification raised.
LEMMA QueueLeft ==
  ASSUME NEW q \in Queues, NEW r, r = Retained(q) \/ (r = Finished(q) /\ q.batch = <<>>)
  PROVE  /\ r \in Queues /\ r.batch = <<>>
         /\ \A f : Occurs(r, f) <=> Occurs(q, f)
         /\ OneComplete(q) => OneComplete(r)
         /\ r.reserved = q.reserved
<1>1. CASE r = Finished(q) /\ q.batch = <<>>
  <2>1. r = [pending |-> q.pending, batch |-> q.batch, committed |-> q.committed,
             reserved |-> q.reserved, polling |-> FALSE]
    BY <1>1, QueueFields DEF Finished
  <2>2. r \in Queues
    BY <2>1, QueueFields DEF Queues
  <2>3. r.batch = q.batch /\ r.pending = q.pending /\ r.reserved = q.reserved
    BY <2>1
  <2> QED
    BY <1>1, <2>2, <2>3 DEF Occurs, OneComplete
<1>2. CASE r = Retained(q)
  <2> DEFINE new == q.batch \o q.pending
  <2>1. r = [pending |-> new, batch |-> <<>>, committed |-> q.committed,
             reserved |-> q.reserved, polling |-> FALSE]
    BY <1>2, QueueFields DEF Retained
  <2>2. /\ new \in Seq(Notes)
        /\ \A f : In(new, f) <=> In(q.batch, f) \/ In(q.pending, f)
        /\ OneComplete(q) => Once(new)
    BY QueueFields, JoinEvents DEF OneComplete
  <2> HIDE DEF new
  <2>3. <<>> \in Seq(Notes) /\ Len(<<>>) = 0
    OBVIOUS
  <2>4. r \in Queues
    BY <2>1, <2>2, <2>3, QueueFields DEF Queues
  <2>5. r.batch = <<>> /\ r.pending = new /\ r.reserved = q.reserved
    BY <2>1
  <2>6. Once(<<>>) /\ \A f : ~In(<<>>, f)
    BY <2>3 DEF Once, In
  <2>7. \A f : Occurs(r, f) <=> Occurs(q, f)
    BY <2>2, <2>5, <2>6 DEF Occurs
  <2>8. OneComplete(q) => OneComplete(r)
    BY <2>2, <2>5, <2>6 DEF OneComplete
  <2> QED
    BY <2>4, <2>5, <2>7, <2>8
<1> QED
  BY <1>1, <1>2
-----------------------------------------------------------------------------
(***************************************************************************)
(* The callbacks of buffered chunks.                                       *)
(***************************************************************************)

\* Every place in the order of the chunks with a callback is one chunk's.
LEMMA RankOnto ==
  ASSUME NEW n \in Nat, NEW S \in SUBSET (1..n)
  PROVE  /\ IsFiniteSet(S) /\ Cardinality(S) \in Nat
         /\ \A k \in 1..Cardinality(S) : \E i \in S : Rank(S, i) = k
<1>0. IsFiniteSet(1..n)
  BY FS_Interval
<1>1. IsFiniteSet(S) /\ Cardinality(S) \in Nat
  BY <1>0, FS_Subset, FS_CardinalityType
<1> DEFINE Below(i) == {j \in S : j <= i}
           m == Cardinality(S)
           f == [i \in S |-> Rank(S, i)]
<1>2. ASSUME NEW i \in S
      PROVE  IsFiniteSet(Below(i)) /\ Cardinality(Below(i)) \in 1..m
  <2>1. Below(i) \in SUBSET S /\ i \in Below(i)
    OBVIOUS
  <2>2. IsFiniteSet(Below(i)) /\ Cardinality(Below(i)) <= m /\ Cardinality(Below(i)) \in Nat
    BY <1>1, <2>1, FS_Subset, FS_CardinalityType
  <2>3. Cardinality(Below(i)) # 0
    BY <2>1, <2>2, FS_EmptySet
  <2> QED
    BY <1>1, <2>2, <2>3
<1>3. f \in [S -> 1..m]
  BY <1>2 DEF Rank
<1>4. ASSUME NEW i \in S, NEW j \in S, i < j PROVE f[i] # f[j]
  <2>1. Below(i) \in SUBSET Below(j) /\ j \in Below(j) /\ j \notin Below(i)
    <3>1. i \in Int /\ j \in Int /\ S \subseteq Int
      OBVIOUS
    <3>2. \A k \in S : k <= i => k <= j
      BY <1>4, <3>1
    <3>3. Below(i) \in SUBSET Below(j)
      BY <3>2
    <3>4. j <= j /\ ~(j <= i)
      BY <1>4, <3>1
    <3> QED
      BY <3>3, <3>4
  <2>2. Cardinality(Below(j)) # Cardinality(Below(i))
    BY <1>2, <2>1, FS_Subset
  <2> QED
    BY <2>2 DEF Rank
<1>5. f \in Injection(S, 1..m)
  <2>1. ASSUME NEW i \in S, NEW j \in S, f[i] = f[j] PROVE i = j
    <3>1. i < j \/ j < i \/ i = j
      OBVIOUS
    <3> HIDE DEF f
    <3> QED
      BY <1>4, <2>1, <3>1
  <2> HIDE DEF f
  <2> QED
    BY <1>3, <2>1 DEF Injection, IsInjective
<1>6. IsFiniteSet(1..m) /\ Cardinality(1..m) = m
  BY <1>1, FS_Interval
<1>7. f \in Surjection(S, 1..m)
  <2> HIDE DEF f, m
  <2> QED
    BY <1>5, <1>6, FS_Injection DEF m
<1>8. \A k \in 1..m : \E i \in S : f[i] = k
  <2> HIDE DEF f
  <2> QED
    BY <1>7 DEF Surjection
<1> QED
  BY <1>1, <1>8

\* Ids gives one number for each chunk with a callback.
LEMMA IdsTyped ==
  ASSUME NEW c \in Seq(Chunk)
  PROVE  /\ Ids(c) \in Seq(Nat)
         /\ Len(Ids(c)) = Cardinality(Called(c))
         /\ IsFiniteSet(Called(c)) /\ Cardinality(Called(c)) \in Nat
<1> DEFINE S == Called(c)
           m == Cardinality(S)
<1>1. Len(c) \in Nat /\ DOMAIN c = 1..Len(c) /\ \A i \in 1..Len(c) : c[i] \in Chunk
  BY LenProperties
<1>2. S \in SUBSET (1..Len(c))
  BY <1>1 DEF Called
<1>3. /\ IsFiniteSet(S) /\ m \in Nat
      /\ \A k \in 1..m : \E i \in S : Rank(S, i) = k
  BY <1>1, <1>2, RankOnto
<1> HIDE DEF S
<1>4. ASSUME NEW k \in 1..m PROVE c[CHOOSE i \in S : Rank(S, i) = k].id \in Nat
  <2>1. (CHOOSE i \in S : Rank(S, i) = k) \in S
    BY <1>3
  <2>2. ASSUME NEW d \in Chunk PROVE d.id \in Nat
    BY DEF Chunk
  <2> QED
    BY <1>1, <1>2, <2>1, <2>2
<1> HIDE DEF m
<1>5. Ids(c) = [k \in 1..m |-> c[CHOOSE i \in S : Rank(S, i) = k].id]
  BY DEF Ids, S, m
<1>6. Ids(c) \in [1..m -> Nat]
  BY <1>4, <1>5
<1>7. Ids(c) \in Seq(Nat) /\ Len(Ids(c)) = m
  BY <1>3, <1>6
<1> QED
  BY <1>3, <1>7 DEF S, m

\* A chunk behind the others.
LEMMA IdsAppend ==
  ASSUME NEW c \in Seq(Chunk), NEW d \in Chunk
  PROVE  /\ Append(c, d) \in Seq(Chunk)
         /\ Len(Ids(Append(c, d))) = Len(Ids(c)) + (IF d.callback THEN 1 ELSE 0)
<1> DEFINE t == Append(c, d)
<1>1. /\ t \in Seq(Chunk) /\ Len(c) \in Nat /\ Len(t) = Len(c) + 1
      /\ \A i \in 1..Len(c) : t[i] = c[i]
      /\ t[Len(c) + 1] = d
      /\ DOMAIN c = 1..Len(c) /\ DOMAIN t = 1..Len(t)
  BY AppendProperties
<1>2. /\ Len(Ids(c)) = Cardinality(Called(c)) /\ Len(Ids(t)) = Cardinality(Called(t))
      /\ IsFiniteSet(Called(c))
  BY <1>1, IdsTyped
<1> HIDE DEF t
<1>3. CASE d.callback
  <2>1. Called(t) = Called(c) \cup {Len(c) + 1} /\ Len(c) + 1 \notin Called(c)
    BY <1>1, <1>3 DEF Called
  <2>2. Cardinality(Called(t)) = Cardinality(Called(c)) + 1
    BY <1>2, <2>1, FS_AddElement, Zenon
  <2> QED
    BY <1>1, <1>2, <1>3, <2>2 DEF t
<1>4. CASE ~d.callback
  <2>1. Called(t) = Called(c)
    BY <1>1, <1>4 DEF Called
  <2>2. Cardinality(Called(c)) \in Nat
    BY IdsTyped
  <2> QED
    BY <1>1, <1>2, <1>4, <2>1, <2>2 DEF t
<1> QED
  BY <1>3, <1>4

\* The first chunks and the rest.
ChunkParts(c, n, a, b) ==
  /\ a \in Seq(Chunk) /\ Len(a) = n /\ DOMAIN a = 1..n
  /\ \A i \in 1..n : a[i] = c[i]
  /\ b \in Seq(Chunk) /\ Len(b) = Len(c) - n /\ DOMAIN b = 1..(Len(c) - n)
  /\ \A i \in 1..(Len(c) - n) : b[i] = c[n + i]

\* SubSeq makes them.
LEMMA ChunksSplit ==
  ASSUME NEW c \in Seq(Chunk), NEW n \in 0..Len(c)
  PROVE  ChunkParts(c, n, SubSeq(c, 1, n), SubSeq(c, n + 1, Len(c)))
<1> DEFINE a == SubSeq(c, 1, n)
           b == SubSeq(c, n + 1, Len(c))
<1>1. Len(c) \in Nat /\ DOMAIN c = 1..Len(c) /\ \A i \in 1..Len(c) : c[i] \in Chunk
  BY LenProperties
<1>2. /\ a \in Seq(Chunk) /\ Len(a) = n /\ \A i \in 1..n : a[i] = c[i]
      /\ DOMAIN a = 1..n
  BY <1>1, SubSeqProperties
<1>3. /\ b \in Seq(Chunk) /\ Len(b) = Len(c) - n
      /\ \A i \in 1..(Len(c) - n) : b[i] = c[n + i]
      /\ DOMAIN b = 1..(Len(c) - n)
  <2>1. n + 1 \in Int /\ \A i \in (n + 1)..Len(c) : c[i] \in Chunk
    BY <1>1
  <2>2. /\ b \in Seq(Chunk)
        /\ Len(b) = IF n + 1 <= Len(c) THEN Len(c) - (n + 1) + 1 ELSE 0
        /\ \A i \in 1..(Len(c) - (n + 1) + 1) : b[i] = c[(n + 1) + i - 1]
    BY <1>1, <2>1, SubSeqProperties
  <2> HIDE DEF b
  <2>3. Len(b) = Len(c) - n /\ Len(c) - (n + 1) + 1 = Len(c) - n
    <3>1. n \in Nat /\ n <= Len(c) /\ Len(c) \in Nat
      BY <1>1
    <3>2. ASSUME NEW l \in Nat, n <= l
          PROVE  /\ l - (n + 1) + 1 = l - n
                 /\ (IF n + 1 <= l THEN l - (n + 1) + 1 ELSE 0) = l - n
      BY <3>1, <3>2
    <3> QED
      BY <2>2, <3>1, <3>2
  <2>4. \A i \in 1..(Len(c) - n) : (n + 1) + i - 1 = n + i
    BY <1>1
  <2> QED
    BY <2>2, <2>3, <2>4
<1> QED
  BY <1>2, <1>3 DEF ChunkParts

\* The callbacks of the first chunks and those of the rest.
LEMMA IdsSplit ==
  ASSUME NEW c \in Seq(Chunk), NEW n \in 0..Len(c)
  PROVE  /\ SubSeq(c, 1, n) \in Seq(Chunk) /\ SubSeq(c, n + 1, Len(c)) \in Seq(Chunk)
         /\ Len(Ids(c)) = Len(Ids(SubSeq(c, 1, n))) + Len(Ids(SubSeq(c, n + 1, Len(c))))
<1> DEFINE a == SubSeq(c, 1, n)
           b == SubSeq(c, n + 1, Len(c))
<1>0. ChunkParts(c, n, a, b)
  BY ChunksSplit
<1> HIDE DEF a, b
<1>1. Len(c) \in Nat /\ DOMAIN c = 1..Len(c) /\ \A i \in 1..Len(c) : c[i] \in Chunk
  BY LenProperties
<1>2. /\ a \in Seq(Chunk) /\ Len(a) = n /\ \A i \in 1..n : a[i] = c[i]
      /\ DOMAIN a = 1..n
  BY <1>0 DEF ChunkParts
<1>3. /\ b \in Seq(Chunk) /\ Len(b) = Len(c) - n
      /\ \A i \in 1..(Len(c) - n) : b[i] = c[n + i]
      /\ DOMAIN b = 1..(Len(c) - n)
  BY <1>0 DEF ChunkParts
<1> DEFINE R == {i \in Called(c) : i > n}
<1>4. /\ Called(a) = {i \in Called(c) : i <= n}
      /\ Called(c) = Called(a) \cup R /\ Called(a) \cap R = {}
  BY <1>1, <1>2 DEF Called
<1>5. /\ IsFiniteSet(Called(a)) /\ IsFiniteSet(Called(b)) /\ IsFiniteSet(Called(c))
      /\ Len(Ids(a)) = Cardinality(Called(a)) /\ Len(Ids(b)) = Cardinality(Called(b))
      /\ Len(Ids(c)) = Cardinality(Called(c))
      /\ Cardinality(Called(a)) \in Nat /\ Cardinality(Called(b)) \in Nat
  BY <1>2, <1>3, IdsTyped
<1>6. Cardinality(R) = Cardinality(Called(b)) /\ IsFiniteSet(R)
  <2> DEFINE f == [i \in Called(b) |-> n + i]
  <2>1. /\ \A i \in Called(b) : n + i \in R
        /\ \A j \in R : j - n \in Called(b) /\ n + (j - n) = j
        /\ \A i \in Called(b) : i \in Int
    BY <1>1, <1>3 DEF Called
  <2>2. f \in [Called(b) -> R]
    BY <2>1
  <2>3. ASSUME NEW i \in Called(b), NEW j \in Called(b), f[i] = f[j] PROVE i = j
    BY <2>1, <2>3
  <2>4. ASSUME NEW j \in R PROVE \E i \in Called(b) : f[i] = j
    BY <2>1
  <2> HIDE DEF f
  <2>5. f \in Injection(Called(b), R) /\ f \in Surjection(Called(b), R)
    BY <2>2, <2>3, <2>4 DEF Injection, Surjection, IsInjective
  <2>6. ExistsBijection(Called(b), R)
    BY <2>5 DEF Bijection, ExistsBijection
  <2> QED
    BY <1>5, <2>6, FS_Bijection
<1> HIDE DEF R
<1>7. Cardinality(Called(c)) = Cardinality(Called(a)) + Cardinality(R) - Cardinality({})
  BY <1>4, <1>5, <1>6, FS_Union, Zenon
<1>8. Cardinality({}) = 0
  BY FS_EmptySet
<1> QED
  BY <1>2, <1>3, <1>5, <1>6, <1>7, <1>8 DEF a, b

\* No chunks, no callbacks; one chunk at a time.
LEMMA IdsEmpty == <<>> \in Seq(Chunk) /\ Len(Ids(<<>>)) = 0
<1>1. <<>> \in Seq(Chunk) /\ DOMAIN <<>> = {}
  OBVIOUS
<1>2. Called(<<>>) = {}
  BY <1>1 DEF Called
<1> QED
  BY <1>1, <1>2, IdsTyped, FS_EmptySet
-----------------------------------------------------------------------------
(***************************************************************************)
(* WriteEvents.                                                            *)
(***************************************************************************)

\* y comes from x by changing the fields S, giving up reservations and queueing
\* the events E; a place given up or used is no longer reserved.
Moves(x, y, S, E) ==
  /\ Differs(x, y, S \cup {"reservations", "queue"})
  /\ y.reservations \in SUBSET x.reservations
  /\ Adds(x.queue, y.queue, E)
  /\ y.queue.reserved - Cardinality(y.reservations) =
       x.queue.reserved - Cardinality(x.reservations)

\* The reservations are finitely many.
LEMMA ReservationsFinite ==
  ASSUME NEW R \in SUBSET Events
  PROVE  IsFiniteSet(R) /\ Cardinality(R) \in Nat
<1>1. IsFiniteSet({"error", "complete", "finish", "drain", "close"})
  <2>1. IsFiniteSet({"error"})
    BY FS_Singleton
  <2>2. IsFiniteSet({"error"} \cup {"complete"})
    BY <2>1, FS_AddElement
  <2>3. IsFiniteSet(({"error"} \cup {"complete"}) \cup {"finish"})
    BY <2>2, FS_AddElement
  <2>4. IsFiniteSet((({"error"} \cup {"complete"}) \cup {"finish"}) \cup {"drain"})
    BY <2>3, FS_AddElement
  <2>5. IsFiniteSet(((({"error"} \cup {"complete"}) \cup {"finish"}) \cup {"drain"})
                      \cup {"close"})
    BY <2>4, FS_AddElement
  <2>6. {"error", "complete", "finish", "drain", "close"} =
          (((({"error"} \cup {"complete"}) \cup {"finish"}) \cup {"drain"}) \cup {"close"})
    OBVIOUS
  <2> QED
    BY <2>5, <2>6
<1>2. IsFiniteSet(R)
  BY <1>1, FS_Subset DEF Events
<1> QED
  BY <1>2, FS_CardinalityType

\* What is typed stays typed.
LEMMA MovesTyped ==
  ASSUME NEW x, NEW y, NEW S, NEW E, Typed(x), Moves(x, y, S, E),
         "chunks" \notin S, "endCompletions" \notin S
  PROVE  Typed(y)
<1>1. y.chunks = x.chunks /\ y.endCompletions = x.endCompletions
  BY DEF Moves, Differs, Fields
<1>2. DOMAIN y = Fields /\ y.queue \in Queues /\ y.reservations \in SUBSET Events
  BY DEF Moves, Differs, Adds, Typed
<1> QED
  BY <1>1, <1>2 DEF Typed

\* One move after another.
LEMMA MovesTwice ==
  ASSUME NEW x, NEW y, NEW z, NEW S, NEW T, NEW E, NEW F, NEW ST, NEW EF,
         Moves(x, y, S, E), Moves(y, z, T, F),
         ST = S \cup T, EF = E \cup F, ~("complete" \in E /\ "complete" \in F)
  PROVE  Moves(x, z, ST, EF)
<1>1. Differs(x, z, ST \cup {"reservations", "queue"})
  BY DEF Moves, Differs
<1>2. z.reservations \in SUBSET x.reservations
  BY DEF Moves
<1>3. Adds(x.queue, z.queue, EF)
  <2> DEFINE q == x.queue
             r == y.queue
             s == z.queue
  <2>1. Adds(q, r, E) /\ Adds(r, s, F)
    BY DEF Moves
  <2> HIDE DEF q, r, s
  <2>2. s \in Queues /\ s.batch = q.batch
    BY <2>1 DEF Adds
  <2>3. \A f : Occurs(s, f) <=> Occurs(q, f) \/ f \in EF
    BY <2>1 DEF Adds
  <2>4. OneComplete(q) /\ ("complete" \in EF => ~Occurs(q, "complete")) => OneComplete(s)
    BY <2>1 DEF Adds
  <2> QED
    BY <2>2, <2>3, <2>4 DEF Adds, q, s
<1>4. z.queue.reserved - Cardinality(z.reservations) =
        x.queue.reserved - Cardinality(x.reservations)
  BY DEF Moves
<1> QED
  BY <1>1, <1>2, <1>3, <1>4 DEF Moves

\* Changing other fields moves nothing.
LEMMA FlagsMove ==
  ASSUME NEW x, NEW y, NEW S, Typed(x), Differs(x, y, S),
         "reservations" \notin S, "queue" \notin S
  PROVE  Moves(x, y, S, {})
<1>1. y.queue = x.queue /\ y.reservations = x.reservations
  BY DEF Differs, Fields
<1>2. Adds(x.queue, x.queue, {})
  BY DEF Adds, Typed
<1> QED
  BY <1>1, <1>2 DEF Moves, Differs

\* WriteEvents.discard
LEMMA DiscardedMoves ==
  ASSUME NEW x, Typed(x), NEW E
  PROVE  /\ Moves(x, Discarded(x, E), {}, {})
         /\ Discarded(x, E).reservations = x.reservations \ E
<1> DEFINE y == Discarded(x, E)
           c == Cardinality(x.reservations \cap E)
<1>1. /\ Differs(x, y, {"reservations", "queue"})
      /\ y.reservations = x.reservations \ E
      /\ y.queue = ReleasedAll(x.queue, c)
  BY DEF Typed, Differs, Discarded, Fields
<1> HIDE DEF y
<1>2. /\ IsFiniteSet(x.reservations)
      /\ Cardinality(x.reservations) \in Nat /\ c \in Nat
      /\ x.queue \in Queues /\ x.queue.reserved \in Int
  <2>1. x.reservations \in SUBSET Events /\ x.reservations \cap E \in SUBSET Events
    BY DEF Typed
  <2> QED
    BY <2>1, ReservationsFinite, QueueFields DEF Typed
<1>3. Cardinality(y.reservations) = Cardinality(x.reservations) - c
  BY <1>1, <1>2, FS_Difference
<1> HIDE DEF c
<1>4. Adds(x.queue, y.queue, {}) /\ y.queue.reserved = x.queue.reserved - c
  BY <1>1, <1>2, CountReserved
<1>5. y.queue.reserved - Cardinality(y.reservations) =
        x.queue.reserved - Cardinality(x.reservations)
  BY <1>2, <1>3, <1>4
<1>6. Differs(x, y, {} \cup {"reservations", "queue"})
  BY <1>1
<1> QED
  BY <1>1, <1>4, <1>5, <1>6 DEF Moves, y

\* WriteEvents.queue of a reserved event.
LEMMA QueuedMoves ==
  ASSUME NEW x, Typed(x), NEW e \in x.reservations
  PROVE  /\ Moves(x, Queued(x, e), {}, {e})
         /\ Queued(x, e).reservations = x.reservations \ {e}
<1> DEFINE y == Queued(x, e)
<1>1. /\ Differs(x, y, {"reservations", "queue"})
      /\ y.reservations = x.reservations \ {e}
      /\ y.queue = Committed(x.queue, Event(e))
  BY DEF Typed, Differs, Queued, Fields
<1> HIDE DEF y
<1>2. /\ IsFiniteSet(x.reservations) /\ Cardinality(x.reservations) \in Nat
      /\ x.queue \in Queues /\ x.queue.reserved \in Int /\ e \in Events
  BY ReservationsFinite, QueueFields DEF Typed
<1>3. Cardinality(y.reservations) = Cardinality(x.reservations) - 1
  BY <1>1, <1>2, FS_RemoveElement
<1>4. Adds(x.queue, y.queue, {e}) /\ y.queue.reserved = x.queue.reserved - 1
  BY <1>1, <1>2, CommitEvent
<1>5. y.queue.reserved - Cardinality(y.reservations) =
        x.queue.reserved - Cardinality(x.reservations)
  BY <1>2, <1>3, <1>4
<1>6. Differs(x, y, {} \cup {"reservations", "queue"})
  BY <1>1
<1> QED
  BY <1>1, <1>4, <1>5, <1>6 DEF Moves, y
-----------------------------------------------------------------------------
\* What listeners were promised and an operation can no longer refuse has its
\* place: the close that was scheduled, and the finish after a completion.
Promised(x) ==
  /\ ~x.starved
  /\ x.closeScheduled /\ ~x.closeQueued => "close" \in x.reservations
  /\ OneComplete(x.queue)
  /\ Occurs(x.queue, "complete") =>
       /\ x.finishScheduled
       /\ x.error \/ x.cancelled \/ x.closeEmitted \/ "finish" \in x.reservations

\* The order of the flags in a stream's life.
Life(x) ==
  /\ x.closeEmitted => x.closeQueued /\ x.reservations = {}
  /\ x.closeQueued => x.closeScheduled
  /\ x.closeScheduled => x.closed
  /\ Occurs(x.queue, "close") => x.closeQueued
  /\ x.finishScheduled => x.ended
  /\ x.finished => x.finishScheduled
  /\ Occurs(x.queue, "finish") => x.finished

\* Within an operation, once prepare has passed: every event the operation may
\* queue has its place.
Ready(x) ==
  /\ x.closeEmitted \/ x.error \/ "error" \in x.reservations
  /\ x.closeScheduled \/ "close" \in x.reservations
  /\ \/ x.closeEmitted \/ x.finishScheduled \/ x.error \/ x.cancelled
     \/ "complete" \in x.reservations /\ "finish" \in x.reservations
  /\ \/ x.closeEmitted \/ x.finishScheduled \/ x.error \/ x.cancelled
     \/ x.drainScheduled \/ "drain" \in x.reservations

Able(x) == Typed(x) /\ Promised(x) /\ Life(x) /\ Ready(x)

\* y differs from x in the fields S, in its reservations and in what it queued
\* at most; the batch under way is the same.
Near(x, y, S) ==
  Differs(x, y, S \cup {"reservations", "queue"}) /\ y.queue.batch = x.queue.batch

\* The places reserved for others than the retained events.
Owed(x) == x.queue.reserved - Cardinality(x.reservations)

\* The fields that decide about events.
Deciding ==
  {"starved", "closeScheduled", "closeQueued", "closeEmitted", "finishScheduled",
   "finished", "error", "cancelled", "drainScheduled"}

\* A change of the other fields, or callbacks in the queue, decide nothing.
LEMMA OthersKeep ==
  ASSUME NEW x, NEW y, NEW S, Able(x), Typed(y),
         Differs(x, y, S), S \cap (Deciding \cup {"reservations"}) = {},
         Adds(x.queue, y.queue, {}),
         x.closed => y.closed, x.ended => y.ended
  PROVE  Able(y)
<1>1. /\ y.starved = x.starved /\ y.closeScheduled = x.closeScheduled
      /\ y.closeQueued = x.closeQueued /\ y.closeEmitted = x.closeEmitted
      /\ y.finishScheduled = x.finishScheduled /\ y.finished = x.finished
      /\ y.error = x.error /\ y.cancelled = x.cancelled
      /\ y.drainScheduled = x.drainScheduled /\ y.reservations = x.reservations
  BY DEF Differs, Fields, Deciding
<1>2. /\ OneComplete(x.queue) => OneComplete(y.queue)
      /\ \A f : Occurs(y.queue, f) <=> Occurs(x.queue, f)
  BY DEF Adds
<1>3. Promised(y)
  BY <1>1, <1>2 DEF Able, Promised
<1>4. Life(y)
  BY <1>1, <1>2 DEF Able, Life
<1>5. Ready(y)
  BY <1>1 DEF Able, Ready
<1> QED
  BY <1>3, <1>4, <1>5 DEF Able

\* StreamCompletion.complete of callbacks.
LEMMA CompletedKeeps ==
  ASSUME NEW x, Able(x), NEW ids \in Seq(Nat), NEW kind \in {"write", "end"},
         NEW failed \in BOOLEAN
  PROVE  LET y == Completed(x, kind, ids, failed)
         IN  /\ Able(y) /\ Differs(x, y, {"queue"}) /\ y.queue.batch = x.queue.batch
             /\ Owed(y) = Owed(x) - Len(ids)
<1> DEFINE y == Completed(x, kind, ids, failed)
<1>0. DOMAIN x = Fields /\ x.queue \in Queues /\ x.reservations \in SUBSET Events
  BY DEF Able, Typed
<1>1. /\ Differs(x, y, {"queue"})
      /\ y.queue = CommittedAll(x.queue, [i \in DOMAIN ids |-> <<kind, ids[i], failed>>])
  BY <1>0 DEF Differs, Completed, Fields
<1> HIDE DEF y
<1>2. Adds(x.queue, y.queue, {}) /\ y.queue.reserved = x.queue.reserved - Len(ids)
  BY <1>0, <1>1, CommitCallbacks
<1>3. /\ y.reservations = x.reservations /\ y.chunks = x.chunks /\ y.closed = x.closed
      /\ y.endCompletions = x.endCompletions /\ y.ended = x.ended
  BY <1>1 DEF Differs, Fields
<1>4. Typed(y)
  BY <1>1, <1>2, <1>3 DEF Able, Typed, Differs, Adds
<1>5. Able(y)
  BY <1>1, <1>2, <1>3, <1>4, OthersKeep DEF Deciding
<1>6. Owed(y) = Owed(x) - Len(ids)
  <2>1. /\ Len(ids) \in Int /\ x.queue.reserved \in Int
        /\ Cardinality(x.reservations) \in Int
    BY <1>0, QueueFields, ReservationsFinite
  <2> QED
    BY <1>2, <1>3, <2>1 DEF Owed
<1> QED
  BY <1>1, <1>2, <1>5, <1>6 DEF Adds, y

\* A move keeps what is owed, and the batch.
LEMMA MovesNear ==
  ASSUME NEW x, NEW y, NEW S, NEW E, Moves(x, y, S, E)
  PROVE  Near(x, y, S) /\ Owed(y) = Owed(x)
BY DEF Moves, Near, Owed, Adds

\* y is x after the flags S of a, without the reservations D and with e queued.
FlagThenEvent(x, a, y, S, D, e) ==
  /\ Moves(x, y, S, {e}) /\ Typed(y)
  /\ y.reservations = (x.reservations \ D) \ {e}
  /\ \A f \in S \cap Fields : y[f] = a[f]

\* A flag is set, reservations may be given up, and a reserved event is queued.
LEMMA FlagAndEvent ==
  ASSUME NEW x, Typed(x), NEW a, NEW S, Differs(x, a, S),
         S \cap {"reservations", "queue", "chunks", "endCompletions"} = {},
         NEW D, NEW e \in x.reservations, e \notin D, NEW y,
         y = Queued(Discarded(a, D), e) \/ (D = {} /\ y = Queued(a, e))
  PROVE  FlagThenEvent(x, a, y, S, D, e)
<1>1. Moves(x, a, S, {}) /\ Typed(a)
  BY FlagsMove, MovesTyped
<1>2. a.reservations = x.reservations
  BY DEF Differs, Fields
<1>3. CASE y = Queued(Discarded(a, D), e)
  <2> DEFINE b == Discarded(a, D)
  <2>1. Moves(a, b, {}, {}) /\ Typed(b) /\ b.reservations = x.reservations \ D
    BY <1>1, <1>2, DiscardedMoves, MovesTyped
  <2> HIDE DEF b
  <2>2. Moves(b, y, {}, {e}) /\ Typed(y) /\ y.reservations = (x.reservations \ D) \ {e}
    BY <1>3, <2>1, QueuedMoves, MovesTyped DEF b
  <2>3. Moves(x, b, S, {})
    BY <1>1, <2>1, MovesTwice
  <2>4. Moves(x, y, S, {e})
    BY <2>2, <2>3, MovesTwice
  <2>5. ASSUME NEW f \in S \cap Fields PROVE y[f] = a[f]
    <3>1. f \in Fields \ ({} \cup {"reservations", "queue"})
      BY <2>5
    <3>2. b[f] = a[f] /\ y[f] = b[f]
      BY <2>1, <2>2, <3>1 DEF Moves, Differs
    <3> QED
      BY <3>2
  <2> QED
    BY <2>2, <2>4, <2>5 DEF FlagThenEvent
<1>4. CASE D = {} /\ y = Queued(a, e)
  <2>1. Moves(a, y, {}, {e}) /\ Typed(y) /\ y.reservations = (x.reservations \ D) \ {e}
    BY <1>1, <1>2, <1>4, QueuedMoves, MovesTyped
  <2>2. Moves(x, y, S, {e})
    BY <1>1, <2>1, MovesTwice
  <2>3. ASSUME NEW f \in S \cap Fields PROVE y[f] = a[f]
    <3>1. f \in Fields \ ({} \cup {"reservations", "queue"})
      BY <2>3
    <3> QED
      BY <2>1, <3>1 DEF Moves, Differs
  <2> QED
    BY <2>1, <2>2, <2>3 DEF FlagThenEvent
<1> QED
  BY <1>3, <1>4

\* WriteEvents.fail
LEMMA EventsFailedKeeps ==
  ASSUME NEW x, Able(x)
  PROVE  LET y == EventsFailed(x)
         IN  /\ Able(y) /\ Near(x, y, {"error"}) /\ Owed(y) = Owed(x)
             /\ y.error \/ y.closeEmitted
<1> DEFINE y == EventsFailed(x)
<1>1. CASE x.error \/ x.closeEmitted
  <2>1. y = x
    BY <1>1 DEF EventsFailed
  <2> QED
    BY <1>1, <2>1 DEF Able, Typed, Near, Differs
<1>2. CASE ~(x.error \/ x.closeEmitted)
  <2> DEFINE a == [x EXCEPT !.error = TRUE]
  <2>1. y = Queued(Discarded(a, {"complete", "finish", "drain"}), "error")
    BY <1>2 DEF EventsFailed
  <2>2. Differs(x, a, {"error"}) /\ a.error = TRUE
    BY DEF Able, Typed, Differs, Fields
  <2> HIDE DEF a, y
  <2>3. "error" \in x.reservations
    BY <1>2 DEF Able, Ready, Promised
  <2>4. /\ Moves(x, y, {"error"}, {"error"}) /\ Typed(y)
        /\ y.reservations = (x.reservations \ {"complete", "finish", "drain"}) \ {"error"}
        /\ \A f \in {"error"} \cap Fields : y[f] = a[f]
    <3>1. {"error"} \cap {"reservations", "queue", "chunks", "endCompletions"} = {} /\ "error" \notin {"complete", "finish", "drain"}
      OBVIOUS
    <3>2. FlagThenEvent(x, a, y, {"error"}, {"complete", "finish", "drain"}, "error")
      BY <2>1, <2>2, <2>3, <3>1, FlagAndEvent DEF Able
    <3> QED
      BY <3>2 DEF FlagThenEvent
  <2>5. /\ y.starved = x.starved /\ y.closeScheduled = x.closeScheduled
        /\ y.closeQueued = x.closeQueued /\ y.closeEmitted = x.closeEmitted
        /\ y.finishScheduled = x.finishScheduled /\ y.finished = x.finished
        /\ y.cancelled = x.cancelled /\ y.drainScheduled = x.drainScheduled
        /\ y.closed = x.closed /\ y.ended = x.ended
    BY <2>4 DEF Moves, Differs, Fields
  <2>6. y.error = TRUE
    BY <2>2, <2>4 DEF Fields
  <2>7. /\ OneComplete(x.queue) /\ ("complete" = "error" => ~Occurs(x.queue, "complete"))
            => OneComplete(y.queue)
        /\ \A f : Occurs(y.queue, f) <=> Occurs(x.queue, f) \/ f = "error"
    BY <2>4 DEF Moves, Adds
  <2>8. Promised(y)
    BY <1>2, <2>4, <2>5, <2>6, <2>7 DEF Able, Promised, Ready
  <2>9. Life(y)
    BY <1>2, <2>4, <2>5, <2>6, <2>7 DEF Able, Life
  <2>10. Ready(y)
    BY <1>2, <2>4, <2>5, <2>6 DEF Able, Ready, Life
  <2>11. Near(x, y, {"error"}) /\ Owed(y) = Owed(x)
    BY <2>4, MovesNear
  <2> QED
    BY <2>4, <2>5, <2>6, <2>8, <2>9, <2>10, <2>11 DEF Able, y
<1> QED
  BY <1>1, <1>2

\* WriteEvents.finish, before the close event.
LEMMA EventsFinishedKeeps ==
  ASSUME NEW x, Able(x), ~x.closeEmitted, x.ended
  PROVE  LET y == EventsFinished(x)
         IN  /\ Able(y) /\ Near(x, y, {"finishScheduled"}) /\ Owed(y) = Owed(x)
             /\ y.finishScheduled \/ y.error \/ y.cancelled
<1> DEFINE y == EventsFinished(x)
<1>1. CASE x.finishScheduled \/ x.error \/ x.cancelled
  <2>1. y = x
    BY <1>1 DEF EventsFinished
  <2> QED
    BY <1>1, <2>1 DEF Able, Typed, Near, Differs
<1>2. CASE ~(x.finishScheduled \/ x.error \/ x.cancelled)
  <2> DEFINE a == [x EXCEPT !.finishScheduled = TRUE]
  <2>1. y = Queued(Discarded(a, {"drain"}), "complete")
    BY <1>2 DEF EventsFinished
  <2>2. Differs(x, a, {"finishScheduled"}) /\ a.finishScheduled = TRUE
    BY DEF Able, Typed, Differs, Fields
  <2> HIDE DEF a, y
  <2>3. "complete" \in x.reservations
    BY <1>2 DEF Able, Ready, Promised
  <2>4. /\ Moves(x, y, {"finishScheduled"}, {"complete"}) /\ Typed(y)
        /\ y.reservations = (x.reservations \ {"drain"}) \ {"complete"}
        /\ \A f \in {"finishScheduled"} \cap Fields : y[f] = a[f]
    <3>1. {"finishScheduled"} \cap {"reservations", "queue", "chunks", "endCompletions"} = {} /\ "complete" \notin {"drain"}
      OBVIOUS
    <3>2. FlagThenEvent(x, a, y, {"finishScheduled"}, {"drain"}, "complete")
      BY <2>1, <2>2, <2>3, <3>1, FlagAndEvent DEF Able
    <3> QED
      BY <3>2 DEF FlagThenEvent
  <2>5. /\ y.starved = x.starved /\ y.closeScheduled = x.closeScheduled
        /\ y.closeQueued = x.closeQueued /\ y.closeEmitted = x.closeEmitted
        /\ y.finished = x.finished /\ y.error = x.error
        /\ y.cancelled = x.cancelled /\ y.drainScheduled = x.drainScheduled
        /\ y.closed = x.closed /\ y.ended = x.ended
    BY <2>4 DEF Moves, Differs, Fields
  <2>6. y.finishScheduled = TRUE
    BY <2>2, <2>4 DEF Fields
  <2>7. /\ OneComplete(x.queue) /\ ("complete" = "complete" => ~Occurs(x.queue, "complete"))
            => OneComplete(y.queue)
        /\ \A f : Occurs(y.queue, f) <=> Occurs(x.queue, f) \/ f = "complete"
    BY <2>4 DEF Moves, Adds
  <2>8. Promised(y)
    BY <1>2, <2>4, <2>5, <2>6, <2>7 DEF Able, Promised, Ready
  <2>9. Life(y)
    BY <1>2, <2>4, <2>5, <2>6, <2>7 DEF Able, Life
  <2>10. Ready(y)
    BY <1>2, <2>4, <2>5, <2>6 DEF Able, Ready, Life
  <2>11. Near(x, y, {"finishScheduled"}) /\ Owed(y) = Owed(x)
    BY <2>4, MovesNear
  <2> QED
    BY <2>4, <2>5, <2>6, <2>8, <2>9, <2>10, <2>11 DEF Able, y
<1> QED
  BY <1>1, <1>2

\* WriteEvents.drain, before the close event.
LEMMA EventsDrainedKeeps ==
  ASSUME NEW x, Able(x), ~x.closeEmitted
  PROVE  LET y == EventsDrained(x)
         IN  /\ Able(y) /\ Near(x, y, {"drainScheduled"}) /\ Owed(y) = Owed(x)
             /\ x.closed = y.closed
<1> DEFINE y == EventsDrained(x)
<1>1. CASE x.drainScheduled \/ x.finishScheduled \/ x.error \/ x.cancelled
  <2>1. y = x
    BY <1>1 DEF EventsDrained
  <2> QED
    BY <1>1, <2>1 DEF Able, Typed, Near, Differs
<1>2. CASE ~(x.drainScheduled \/ x.finishScheduled \/ x.error \/ x.cancelled)
  <2> DEFINE a == [x EXCEPT !.drainScheduled = TRUE]
  <2>1. y = Queued(a, "drain")
    BY <1>2 DEF EventsDrained
  <2>2. Differs(x, a, {"drainScheduled"}) /\ a.drainScheduled = TRUE
    BY DEF Able, Typed, Differs, Fields
  <2> HIDE DEF a, y
  <2>3. "drain" \in x.reservations
    BY <1>2 DEF Able, Ready, Promised
  <2>4. /\ Moves(x, y, {"drainScheduled"}, {"drain"}) /\ Typed(y)
        /\ y.reservations = (x.reservations \ {}) \ {"drain"}
        /\ \A f \in {"drainScheduled"} \cap Fields : y[f] = a[f]
    <3>1. {"drainScheduled"} \cap {"reservations", "queue", "chunks", "endCompletions"} = {} /\ "drain" \notin {}
      OBVIOUS
    <3>2. FlagThenEvent(x, a, y, {"drainScheduled"}, {}, "drain")
      BY <2>1, <2>2, <2>3, <3>1, FlagAndEvent DEF Able
    <3> QED
      BY <3>2 DEF FlagThenEvent
  <2>5. /\ y.starved = x.starved /\ y.closeScheduled = x.closeScheduled
        /\ y.closeQueued = x.closeQueued /\ y.closeEmitted = x.closeEmitted
        /\ y.finishScheduled = x.finishScheduled /\ y.finished = x.finished
        /\ y.error = x.error /\ y.cancelled = x.cancelled
        /\ y.closed = x.closed /\ y.ended = x.ended
    BY <2>4 DEF Moves, Differs, Fields
  <2>6. y.drainScheduled = TRUE
    BY <2>2, <2>4 DEF Fields
  <2>7. /\ OneComplete(x.queue) /\ ("complete" = "drain" => ~Occurs(x.queue, "complete"))
            => OneComplete(y.queue)
        /\ \A f : Occurs(y.queue, f) <=> Occurs(x.queue, f) \/ f = "drain"
    BY <2>4 DEF Moves, Adds
  <2>8. Promised(y)
    BY <1>2, <2>4, <2>5, <2>6, <2>7 DEF Able, Promised, Ready
  <2>9. Life(y)
    BY <1>2, <2>4, <2>5, <2>6, <2>7 DEF Able, Life
  <2>10. Ready(y)
    BY <1>2, <2>4, <2>5, <2>6 DEF Able, Ready, Life
  <2>11. Near(x, y, {"drainScheduled"}) /\ Owed(y) = Owed(x)
    BY <2>4, MovesNear
  <2> QED
    BY <2>4, <2>5, <2>6, <2>8, <2>9, <2>10, <2>11 DEF Able, y
<1> QED
  BY <1>1, <1>2

\* WriteEvents.queue_close
LEMMA CloseQueuedKeeps ==
  ASSUME NEW x, Able(x)
  PROVE  LET y == CloseQueued(x)
         IN  /\ Able(y) /\ Near(x, y, {"closeQueued"}) /\ Owed(y) = Owed(x)
             /\ x.closeScheduled => y.closeQueued
<1> DEFINE y == CloseQueued(x)
<1>1. CASE ~x.closeScheduled \/ x.closeQueued
  <2>1. y = x
    BY <1>1 DEF CloseQueued
  <2> QED
    BY <1>1, <2>1 DEF Able, Typed, Near, Differs
<1>2. CASE ~(~x.closeScheduled \/ x.closeQueued)
  <2> DEFINE a == [x EXCEPT !.closeQueued = TRUE]
  <2>1. y = Queued(a, "close")
    BY <1>2 DEF CloseQueued
  <2>2. Differs(x, a, {"closeQueued"}) /\ a.closeQueued = TRUE
    BY DEF Able, Typed, Differs, Fields
  <2> HIDE DEF a, y
  <2>3. "close" \in x.reservations
    BY <1>2 DEF Able, Ready, Promised
  <2>4. /\ Moves(x, y, {"closeQueued"}, {"close"}) /\ Typed(y)
        /\ y.reservations = (x.reservations \ {}) \ {"close"}
        /\ \A f \in {"closeQueued"} \cap Fields : y[f] = a[f]
    <3>1. {"closeQueued"} \cap {"reservations", "queue", "chunks", "endCompletions"} = {} /\ "close" \notin {}
      OBVIOUS
    <3>2. FlagThenEvent(x, a, y, {"closeQueued"}, {}, "close")
      BY <2>1, <2>2, <2>3, <3>1, FlagAndEvent DEF Able
    <3> QED
      BY <3>2 DEF FlagThenEvent
  <2>5. /\ y.starved = x.starved /\ y.closeScheduled = x.closeScheduled
        /\ y.closeEmitted = x.closeEmitted /\ y.finishScheduled = x.finishScheduled
        /\ y.finished = x.finished /\ y.error = x.error
        /\ y.cancelled = x.cancelled /\ y.drainScheduled = x.drainScheduled
        /\ y.closed = x.closed /\ y.ended = x.ended
    BY <2>4 DEF Moves, Differs, Fields
  <2>6. y.closeQueued = TRUE
    BY <2>2, <2>4 DEF Fields
  <2>7. /\ OneComplete(x.queue) /\ ("complete" = "close" => ~Occurs(x.queue, "complete"))
            => OneComplete(y.queue)
        /\ \A f : Occurs(y.queue, f) <=> Occurs(x.queue, f) \/ f = "close"
    BY <2>4 DEF Moves, Adds
  <2>8. Promised(y)
    BY <1>2, <2>4, <2>5, <2>6, <2>7 DEF Able, Promised, Ready
  <2>9. Life(y)
    BY <1>2, <2>4, <2>5, <2>6, <2>7 DEF Able, Life
  <2>10. Ready(y)
    BY <1>2, <2>4, <2>5, <2>6 DEF Able, Ready, Life
  <2>11. Near(x, y, {"closeQueued"}) /\ Owed(y) = Owed(x)
    BY <2>4, MovesNear
  <2> QED
    BY <2>4, <2>5, <2>6, <2>8, <2>9, <2>10, <2>11 DEF Able, y
<1> QED
  BY <1>1, <1>2

\* One change after another.
LEMMA NearTwice ==
  ASSUME NEW x, NEW y, NEW z, NEW S, NEW T, NEW ST,
         Near(x, y, S), Near(y, z, T), S \subseteq ST, T \subseteq ST
  PROVE  Near(x, z, ST)
BY DEF Near, Differs

\* WriteEvents.close of a stream whose descriptor is closed.
LEMMA EventsClosedKeeps ==
  ASSUME NEW x, Able(x), x.closed
  PROVE  LET y == EventsClosed(x)
         IN  /\ Able(y) /\ Near(x, y, {"closeScheduled", "closeQueued"}) /\ Owed(y) = Owed(x)
             /\ y.closeQueued =>
                  x.closeQueued \/ ~x.finishScheduled \/ x.finished \/ x.error \/ x.cancelled
<1> DEFINE y == EventsClosed(x)
           a == [x EXCEPT !.closeScheduled = TRUE]
<1>1. Differs(x, a, {"closeScheduled"}) /\ a.closeScheduled = TRUE
  BY DEF Able, Typed, Differs, Fields
<1>2. \/ y = a
      \/ /\ y = CloseQueued(a)
         /\ ~x.finishScheduled \/ x.finished \/ x.error \/ x.cancelled
  BY DEF EventsClosed
<1> HIDE DEF a, y
<1>3. /\ a.starved = x.starved /\ a.closeQueued = x.closeQueued
      /\ a.closeEmitted = x.closeEmitted /\ a.finishScheduled = x.finishScheduled
      /\ a.finished = x.finished /\ a.error = x.error
      /\ a.cancelled = x.cancelled /\ a.drainScheduled = x.drainScheduled
      /\ a.closed = x.closed /\ a.ended = x.ended
      /\ a.reservations = x.reservations /\ a.queue = x.queue
  BY <1>1 DEF Differs, Fields
<1>4. Typed(a) /\ Near(x, a, {"closeScheduled"}) /\ Owed(a) = Owed(x)
  BY <1>1, FlagsMove, MovesTyped, MovesNear DEF Able
<1>5. Promised(a)
  BY <1>1, <1>3 DEF Able, Promised, Ready
<1>6. Life(a)
  BY <1>1, <1>3 DEF Able, Life
<1>7. Ready(a)
  BY <1>1, <1>3 DEF Able, Ready
<1>8. Able(a)
  BY <1>4, <1>5, <1>6, <1>7 DEF Able
<1>9. CASE y = a
  <2>1. Near(x, a, {"closeScheduled", "closeQueued"})
    BY <1>4 DEF Near, Differs
  <2> QED
    BY <1>3, <1>4, <1>8, <1>9, <2>1 DEF y
<1>10. CASE /\ y = CloseQueued(a)
            /\ ~x.finishScheduled \/ x.finished \/ x.error \/ x.cancelled
  <2>1. Able(y) /\ Near(a, y, {"closeQueued"}) /\ Owed(y) = Owed(a)
    BY <1>8, <1>10, CloseQueuedKeeps
  <2>2. Near(x, y, {"closeScheduled", "closeQueued"})
    BY <1>4, <2>1, NearTwice
  <2> QED
    BY <1>4, <1>10, <2>1, <2>2 DEF y
<1> QED
  BY <1>2, <1>9, <1>10

\* WriteEvents.cancel
LEMMA EventsCancelledKeeps ==
  ASSUME NEW x, Able(x)
  PROVE  LET y == EventsCancelled(x)
         IN  Able(y) /\ Near(x, y, {"cancelled"}) /\ Owed(y) = Owed(x) /\ y.cancelled = TRUE
<1> DEFINE y == EventsCancelled(x)
           a == [x EXCEPT !.cancelled = TRUE]
           D == {"complete", "finish", "drain"}
<1>1. Differs(x, a, {"cancelled"}) /\ a.cancelled = TRUE /\ a.reservations = x.reservations
  BY DEF Able, Typed, Differs, Fields
<1>2. y = Discarded(a, D)
  BY DEF EventsCancelled
<1> HIDE DEF a, y
<1>3. Moves(x, a, {"cancelled"}, {}) /\ Typed(a)
  BY <1>1, FlagsMove, MovesTyped DEF Able
<1>4. Moves(a, y, {}, {}) /\ Typed(y) /\ y.reservations = x.reservations \ D
  BY <1>1, <1>2, <1>3, DiscardedMoves, MovesTyped
<1>5. Moves(x, y, {"cancelled"}, {})
  BY <1>3, <1>4, MovesTwice
<1>6. /\ y.starved = x.starved /\ y.closeScheduled = x.closeScheduled
      /\ y.closeQueued = x.closeQueued /\ y.closeEmitted = x.closeEmitted
      /\ y.finishScheduled = x.finishScheduled /\ y.finished = x.finished
      /\ y.error = x.error /\ y.drainScheduled = x.drainScheduled
      /\ y.closed = x.closed /\ y.ended = x.ended
  BY <1>5 DEF Moves, Differs, Fields
<1>7. y.cancelled = TRUE
  BY <1>1, <1>4 DEF Moves, Differs, Fields
<1>8. /\ OneComplete(x.queue) => OneComplete(y.queue)
      /\ \A f : Occurs(y.queue, f) <=> Occurs(x.queue, f)
  BY <1>5 DEF Moves, Adds
<1>9. Promised(y)
  BY <1>4, <1>6, <1>7, <1>8 DEF Able, Promised
<1>10. Life(y)
  BY <1>4, <1>6, <1>7, <1>8 DEF Able, Life
<1>11. Ready(y)
  BY <1>4, <1>6, <1>7 DEF Able, Ready
<1> QED
  BY <1>4, <1>5, <1>7, <1>9, <1>10, <1>11, MovesNear DEF Able, y

\* WriteEvents.complete_end
LEMMA EndCompletedKeeps ==
  ASSUME NEW x, Able(x), NEW failed \in BOOLEAN
  PROVE  LET y == EndCompleted(x, failed)
         IN  /\ Able(y) /\ Near(x, y, {"endCompletions"}) /\ y.endCompletions = <<>>
             /\ Owed(y) = Owed(x) - Len(x.endCompletions)
<1> DEFINE y == EndCompleted(x, failed)
           a == [x EXCEPT !.endCompletions = <<>>]
<1>1. /\ Differs(x, a, {"endCompletions"}) /\ a.endCompletions = <<>>
      /\ a.chunks = x.chunks /\ a.queue = x.queue /\ a.reservations = x.reservations
      /\ a.closed = x.closed /\ a.ended = x.ended
  BY DEF Able, Typed, Differs, Fields
<1>2. y = Completed(a, "end", x.endCompletions, failed)
  BY DEF EndCompleted
<1> HIDE DEF a, y
<1>3. Typed(a) /\ x.endCompletions \in Seq(Nat) /\ x.queue \in Queues
  BY <1>1 DEF Able, Typed, Differs
<1>4. Adds(x.queue, a.queue, {}) /\ Owed(a) = Owed(x)
  BY <1>1, <1>3 DEF Adds, Owed
<1>5. Able(a)
  BY <1>1, <1>3, <1>4, OthersKeep DEF Deciding
<1>6. /\ Able(y) /\ Differs(a, y, {"queue"}) /\ y.queue.batch = a.queue.batch
      /\ Owed(y) = Owed(a) - Len(x.endCompletions)
  BY <1>2, <1>3, <1>5, CompletedKeeps
<1>7. Near(x, y, {"endCompletions"}) /\ y.endCompletions = <<>>
  BY <1>1, <1>6 DEF Near, Differs, Fields
<1> QED
  BY <1>4, <1>6, <1>7 DEF y

\* WriteEvents.retain_end
LEMMA EndRetainedKeeps ==
  ASSUME NEW x, Able(x), NEW id \in Nat
  PROVE  LET y == EndRetained(x, id)
         IN  /\ Able(y) /\ Near(x, y, {"endCompletions"})
             /\ Owed(y) - Len(y.endCompletions) = Owed(x) - Len(x.endCompletions)
             /\ x.error \/ x.cancelled \/ x.closeEmitted \/ x.finished =>
                  y.endCompletions = x.endCompletions
<1> DEFINE y == EndRetained(x, id)
           a == [x EXCEPT !.queue = Reserved(@)]
<1>0. /\ DOMAIN x = Fields /\ x.queue \in Queues /\ x.reservations \in SUBSET Events
      /\ x.endCompletions \in Seq(Nat) /\ x.queue.reserved \in Int
      /\ Cardinality(x.reservations) \in Int /\ Len(x.endCompletions) \in Int
  BY QueueFields, ReservationsFinite DEF Able, Typed
<1>1. /\ Differs(x, a, {"queue"}) /\ a.queue = Reserved(x.queue)
      /\ a.chunks = x.chunks /\ a.endCompletions = x.endCompletions
      /\ a.reservations = x.reservations /\ a.closed = x.closed /\ a.ended = x.ended
  BY <1>0 DEF Differs, Fields
<1>2. \/ /\ x.error \/ x.cancelled \/ x.closeEmitted \/ x.finished
         /\ y = Completed(a, "end", <<id>>, TRUE)
      \/ /\ ~(x.error \/ x.cancelled \/ x.closeEmitted \/ x.finished)
         /\ y = [a EXCEPT !.endCompletions = Append(@, id)]
  BY DEF EndRetained
<1> HIDE DEF a, y
<1>3. Adds(x.queue, a.queue, {}) /\ a.queue.reserved = x.queue.reserved + 1
  BY <1>0, <1>1, CountReserved
<1>4. Typed(a)
  BY <1>1, <1>3 DEF Able, Typed, Adds, Differs
<1>5. Able(a)
  BY <1>1, <1>3, <1>4, OthersKeep DEF Deciding
<1>6. Owed(a) = Owed(x) + 1 /\ Owed(x) \in Int
  BY <1>0, <1>1, <1>3 DEF Owed
<1>7. CASE /\ x.error \/ x.cancelled \/ x.closeEmitted \/ x.finished
           /\ y = Completed(a, "end", <<id>>, TRUE)
  <2>1. <<id>> \in Seq(Nat) /\ Len(<<id>>) = 1
    OBVIOUS
  <2>2. /\ Able(y) /\ Differs(a, y, {"queue"}) /\ y.queue.batch = a.queue.batch
        /\ Owed(y) = Owed(a) - Len(<<id>>)
    BY <1>5, <1>7, <2>1, CompletedKeeps
  <2>3. Near(x, y, {"endCompletions"}) /\ y.endCompletions = x.endCompletions
    BY <1>1, <1>3, <2>2 DEF Near, Differs, Fields, Adds
  <2>4. Owed(y) = Owed(x)
    BY <1>6, <2>1, <2>2
  <2> QED
    BY <2>2, <2>3, <2>4 DEF y
<1>8. CASE /\ ~(x.error \/ x.cancelled \/ x.closeEmitted \/ x.finished)
           /\ y = [a EXCEPT !.endCompletions = Append(@, id)]
  <2>1. /\ Differs(a, y, {"endCompletions"}) /\ y.queue = a.queue
        /\ y.endCompletions = Append(x.endCompletions, id)
        /\ y.reservations = a.reservations /\ y.chunks = a.chunks
        /\ y.closed = a.closed /\ y.ended = a.ended
    BY <1>1, <1>4, <1>8 DEF Typed, Differs, Fields
  <2>2. /\ y.endCompletions \in Seq(Nat)
        /\ Len(y.endCompletions) = Len(x.endCompletions) + 1
    BY <1>0, <2>1
  <2>3. Typed(y) /\ Adds(a.queue, y.queue, {})
    BY <1>4, <2>1, <2>2 DEF Typed, Differs, Adds
  <2>4. Able(y)
    BY <1>5, <2>1, <2>3, OthersKeep DEF Deciding
  <2>5. Near(x, y, {"endCompletions"})
    BY <1>1, <1>3, <2>1 DEF Near, Differs, Adds
  <2>6. Owed(y) = Owed(a)
    BY <2>1 DEF Owed
  <2> QED
    BY <1>0, <1>6, <1>8, <2>2, <2>4, <2>5, <2>6 DEF y
<1> QED
  BY <1>2, <1>7, <1>8

\* WriteEvents.prepare: what an operation starts from.
LEMMA PreparedAble ==
  ASSUME NEW x, Typed(x), Promised(x), Life(x)
  PROVE  LET y == Prepared(x)
         IN  Able(y) /\ Near(x, y, {}) /\ Owed(y) = Owed(x)
<1> DEFINE y == Prepared(x)
<1>1. CASE x.closeEmitted
  <2>1. y = x
    BY <1>1 DEF Prepared
  <2>2. Ready(x)
    BY <1>1 DEF Ready, Life
  <2> QED
    BY <2>1, <2>2 DEF Able, Typed, Near, Differs
<1>2. CASE ~x.closeEmitted
  <2> DEFINE W == Wanted(x)
             n == Cardinality(W)
  <2>1. /\ Differs(x, y, {"reservations", "queue"})
        /\ y.reservations = x.reservations \cup W
        /\ y.queue = ReservedAll(x.queue, n)
    BY <1>2 DEF Prepared, Typed, Differs, Fields
  <2> HIDE DEF y
  <2>2. W \in SUBSET Events /\ W \cap x.reservations = {}
    BY DEF Wanted, Events
  <2>3. /\ IsFiniteSet(W) /\ n \in Nat /\ IsFiniteSet(x.reservations)
        /\ Cardinality(x.reservations) \in Nat /\ x.queue.reserved \in Int
        /\ x.queue \in Queues /\ x.reservations \in SUBSET Events
    BY <2>2, ReservationsFinite, QueueFields DEF Typed
  <2>4. Adds(x.queue, y.queue, {}) /\ y.queue.reserved = x.queue.reserved + n
    BY <2>1, <2>3, CountReserved
  <2>5. Cardinality(y.reservations) = Cardinality(x.reservations) + n
    <3>1. x.reservations \cap W = {}
      BY <2>2
    <3>2. Cardinality(x.reservations \cup W) =
            Cardinality(x.reservations) + Cardinality(W) - Cardinality({})
      BY <2>3, <3>1, FS_Union, Zenon
    <3> HIDE DEF W
    <3> QED
      BY <2>1, <2>3, <3>2, FS_EmptySet
  <2>6. Owed(y) = Owed(x)
    <3> HIDE DEF n
    <3> QED
      BY <2>3, <2>4, <2>5 DEF Owed
  <2>7. /\ y.starved = x.starved /\ y.closeScheduled = x.closeScheduled
        /\ y.closeQueued = x.closeQueued /\ y.closeEmitted = x.closeEmitted
        /\ y.finishScheduled = x.finishScheduled /\ y.finished = x.finished
        /\ y.error = x.error /\ y.cancelled = x.cancelled
        /\ y.drainScheduled = x.drainScheduled /\ y.closed = x.closed
        /\ y.ended = x.ended /\ y.chunks = x.chunks
        /\ y.endCompletions = x.endCompletions
    BY <2>1 DEF Differs, Fields
  <2>8. /\ OneComplete(x.queue) => OneComplete(y.queue)
        /\ \A f : Occurs(y.queue, f) <=> Occurs(x.queue, f)
    BY <2>4 DEF Adds
  <2>9. Typed(y)
    <3>1. y.queue \in Queues /\ DOMAIN y = Fields
      BY <2>1, <2>4 DEF Adds, Differs
    <3>2. y.reservations \in SUBSET Events
      BY <2>1, <2>2, <2>3
    <3> QED
      BY <2>7, <3>1, <3>2 DEF Typed
  <2>10. Promised(y)
    BY <2>1, <2>7, <2>8 DEF Promised
  <2>11. Life(y)
    BY <1>2, <2>7, <2>8 DEF Life
  <2>12. Ready(y)
    BY <1>2, <2>1, <2>7 DEF Ready, Wanted
  <2>13. Near(x, y, {})
    BY <2>1, <2>4 DEF Near, Adds
  <2> QED
    BY <2>6, <2>9, <2>10, <2>11, <2>12, <2>13 DEF Able, y
<1> QED
  BY <1>1, <1>2
-----------------------------------------------------------------------------
(***************************************************************************)
(* The private methods of Writable.                                        *)
(***************************************************************************)

\* How the flags go with what is left to do, when a method has ended.
Settled(x) ==
  /\ x.error => x.failed \/ x.cancelled
  /\ x.failed => x.error \/ x.closeEmitted
  /\ x.finishScheduled \/ x.failed \/ x.cancelled => x.chunks = <<>>
  /\ x.finished \/ x.failed \/ x.cancelled => x.endCompletions = <<>>
  /\ x.closeQueued => x.finished \/ x.failed \/ x.cancelled

\* An end that succeeds schedules finish.
Ends(x) == x.ended /\ ~x.failed /\ ~x.cancelled => x.finishScheduled

\* A stream that takes no more data waits for no drain.
Quiet(x) ==
  (x.ended \/ x.closed \/ x.cancelled) /\ ~x.failed /\ x.descriptor # "none" => ~x.needDrain

\* The places reserved for none of the stream's events and callbacks.
Rest(x) == Owed(x) - Len(Ids(x.chunks)) - Len(x.endCompletions)

\* What _fail may change.
OfFailure ==
  {"failed", "chunks", "buffered", "endCompletions", "error", "closed", "descriptor",
   "closeScheduled", "closeQueued"}

\* Numbers that are used all the time.
LEMMA Counts ==
  ASSUME NEW x, Typed(x)
  PROVE  /\ Owed(x) \in Int /\ Len(x.endCompletions) \in Nat /\ Len(Ids(x.chunks)) \in Nat
         /\ Ids(x.chunks) \in Seq(Nat)
         /\ x.queue.reserved = Cardinality(x.reservations) + Owed(x)
<1>1. /\ x.queue.reserved \in Int /\ Cardinality(x.reservations) \in Nat
      /\ x.endCompletions \in Seq(Nat) /\ x.chunks \in Seq(Chunk)
  BY QueueFields, ReservationsFinite DEF Typed
<1>2. Ids(x.chunks) \in Seq(Nat)
  BY <1>1, IdsTyped
<1> QED
  BY <1>1, <1>2 DEF Owed

\* _fail
LEMMA FailedKeeps ==
  ASSUME NEW x, Able(x), NEW n \in 0..Len(x.chunks)
  PROVE  LET y == Failed(x, n)
         IN  /\ Able(y) /\ Settled(y) /\ y.failed = TRUE /\ Near(x, y, OfFailure)
             /\ y.chunks = <<>> /\ y.endCompletions = <<>>
             /\ Owed(y) = Owed(x) - Len(Ids(SubSeq(x.chunks, n + 1, Len(x.chunks))))
                            - Len(x.endCompletions)
<1> DEFINE y == Failed(x, n)
           ids == Ids(SubSeq(x.chunks, n + 1, Len(x.chunks)))
           a == [x EXCEPT !.failed = TRUE, !.chunks = <<>>, !.buffered = 0]
           b == Completed(a, "write", ids, TRUE)
           c == EndCompleted(b, TRUE)
           d == EventsFailed(c)
           e == [d EXCEPT !.closed = TRUE, !.descriptor = "none"]
<1>1. y = IF x.autoClose THEN EventsClosed(e) ELSE d
  BY DEF Failed
<1>2. /\ Differs(x, a, {"failed", "chunks", "buffered"}) /\ a.failed = TRUE
      /\ a.chunks = <<>> /\ a.queue = x.queue /\ a.reservations = x.reservations
      /\ a.endCompletions = x.endCompletions /\ a.closed = x.closed /\ a.ended = x.ended
  BY DEF Able, Typed, Differs, Fields
<1>3. ids \in Seq(Nat)
  BY IdsSplit, IdsTyped DEF Able, Typed
<1> HIDE DEF a, ids
<1>4. Typed(a) /\ Adds(x.queue, a.queue, {}) /\ Owed(a) = Owed(x)
  BY <1>2, IdsEmpty DEF Able, Typed, Differs, Adds, Owed
<1>5. Able(a)
  BY <1>2, <1>4, OthersKeep DEF Deciding
<1>6. /\ Able(b) /\ Differs(a, b, {"queue"}) /\ b.queue.batch = a.queue.batch
      /\ Owed(b) = Owed(a) - Len(ids)
  BY <1>3, <1>5, CompletedKeeps
<1> HIDE DEF b
<1>7. /\ Able(c) /\ Near(b, c, {"endCompletions"}) /\ c.endCompletions = <<>>
      /\ Owed(c) = Owed(b) - Len(b.endCompletions)
  BY <1>6, EndCompletedKeeps
<1> HIDE DEF c
<1>8. /\ Able(d) /\ Near(c, d, {"error"}) /\ Owed(d) = Owed(c)
      /\ d.error \/ d.closeEmitted
  BY <1>7, EventsFailedKeeps
<1> HIDE DEF d
<1>9. b.endCompletions = x.endCompletions /\ b.failed = TRUE /\ b.chunks = <<>>
  BY <1>2, <1>6 DEF Differs, Fields
<1>10. c.failed = TRUE /\ c.chunks = <<>>
  BY <1>7, <1>9 DEF Near, Differs, Fields
<1>11. d.failed = TRUE /\ d.chunks = <<>> /\ d.endCompletions = <<>>
  BY <1>7, <1>8, <1>10 DEF Near, Differs, Fields
<1>12. Near(x, d, OfFailure)
  <2>1. Near(x, a, OfFailure)
    BY <1>2 DEF Near, Differs, OfFailure
  <2>2. Near(a, b, {}) /\ {} \subseteq OfFailure /\ {"error"} \subseteq OfFailure
        /\ {"endCompletions"} \subseteq OfFailure
    BY <1>6 DEF Near, Differs, OfFailure
  <2>3. Near(x, b, OfFailure)
    BY <2>1, <2>2, NearTwice
  <2>4. Near(x, c, OfFailure)
    BY <1>7, <2>2, <2>3, NearTwice
  <2> QED
    BY <1>8, <2>2, <2>4, NearTwice
<1>13. Owed(d) = Owed(x) - Len(ids) - Len(x.endCompletions)
  BY <1>4, <1>6, <1>7, <1>8, <1>9
<1>14. Settled(d)
  BY <1>8, <1>11 DEF Settled
<1>15. CASE ~x.autoClose
  BY <1>1, <1>8, <1>11, <1>12, <1>13, <1>14, <1>15 DEF ids
<1>16. CASE x.autoClose
  <2>1. /\ Differs(d, e, {"closed", "descriptor"}) /\ e.closed = TRUE
        /\ e.queue = d.queue /\ e.reservations = d.reservations /\ e.chunks = d.chunks
        /\ e.endCompletions = d.endCompletions /\ e.ended = d.ended
        /\ e.failed = d.failed /\ e.error = d.error /\ e.closeEmitted = d.closeEmitted
    BY <1>8 DEF Able, Typed, Differs, Fields
  <2> HIDE DEF e
  <2>2. Typed(e) /\ Adds(d.queue, e.queue, {}) /\ Owed(e) = Owed(d)
    BY <1>8, <2>1 DEF Able, Typed, Differs, Adds, Owed
  <2>3. Able(e)
    BY <1>8, <2>1, <2>2, OthersKeep DEF Deciding
  <2>4. /\ Able(y) /\ Near(e, y, {"closeScheduled", "closeQueued"}) /\ Owed(y) = Owed(e)
    BY <1>1, <1>16, <2>1, <2>3, EventsClosedKeeps
  <2> HIDE DEF y
  <2>5. /\ y.failed = TRUE /\ y.chunks = <<>> /\ y.endCompletions = <<>>
        /\ y.error = d.error /\ y.closeEmitted = d.closeEmitted
    BY <1>11, <2>1, <2>4 DEF Near, Differs, Fields
  <2>6. Settled(y)
    BY <1>8, <2>5 DEF Settled
  <2>7. Near(x, y, OfFailure)
    <3>1. Near(d, e, {"closed", "descriptor"})
      BY <2>1 DEF Near, Differs
    <3>2. {"closed", "descriptor"} \subseteq OfFailure
          /\ {"closeScheduled", "closeQueued"} \subseteq OfFailure
      BY DEF OfFailure
    <3>3. Near(x, e, OfFailure)
      BY <1>12, <3>1, <3>2, NearTwice
    <3> QED
      BY <2>4, <3>2, <3>3, NearTwice
  <2>8. Owed(y) = Owed(x) - Len(ids) - Len(x.endCompletions)
    BY <1>13, <2>2, <2>4
  <2> QED
    BY <2>4, <2>5, <2>6, <2>7, <2>8 DEF y, ids
<1> QED
  BY <1>15, <1>16

\* The chunks that _flush wrote are reported.
LEMMA WrittenKeeps ==
  ASSUME NEW x, Able(x), NEW n \in 0..Len(x.chunks)
  PROVE  LET y == Written(x, n)
         IN  /\ Able(y) /\ Near(x, y, {"buffered", "sink"})
             /\ Owed(y) = Owed(x) - Len(Ids(SubSeq(x.chunks, 1, n)))
<1> DEFINE y == Written(x, n)
           first == SubSeq(x.chunks, 1, n)
           ids == Ids(first)
           a == Completed(x, "write", ids, FALSE)
<1>1. ids \in Seq(Nat)
  BY IdsSplit, IdsTyped DEF Able, Typed
<1>2. y = [a EXCEPT !.buffered = @ - Bytes(first),
                    !.sink = @ \o [i \in 1..n |-> x.chunks[i].id]]
  BY DEF Written
<1> HIDE DEF y, ids
<1>3. /\ Able(a) /\ Differs(x, a, {"queue"}) /\ a.queue.batch = x.queue.batch
      /\ Owed(a) = Owed(x) - Len(ids)
  BY <1>1, CompletedKeeps
<1> HIDE DEF a, first
<1>4. /\ Differs(a, y, {"buffered", "sink"})
      /\ y.queue = a.queue /\ y.reservations = a.reservations /\ y.chunks = a.chunks
      /\ y.endCompletions = a.endCompletions /\ y.ended = a.ended /\ y.closed = a.closed
  BY <1>2, <1>3 DEF Able, Typed, Differs, Fields
<1>5. Typed(y) /\ Adds(a.queue, y.queue, {}) /\ Owed(y) = Owed(a)
  BY <1>3, <1>4 DEF Able, Typed, Differs, Adds, Owed
<1>6. Able(y)
  BY <1>3, <1>4, <1>5, OthersKeep DEF Deciding
<1>7. Near(x, y, {"buffered", "sink"})
  BY <1>3, <1>4 DEF Near, Differs
<1> QED
  BY <1>3, <1>5, <1>6, <1>7 DEF y, ids, first

\* y is what _flush makes of x.
FlushedTo(x, y) ==
  /\ Able(y) /\ Settled(y) /\ Quiet(y)
  /\ y.ended = x.ended /\ y.cancelled = x.cancelled /\ y.closeEmitted = x.closeEmitted
  /\ y.finishScheduled = x.finishScheduled /\ y.finished = x.finished
  /\ y.queue.batch = x.queue.batch
  /\ Rest(y) = Rest(x)
  /\ ~y.failed => ~x.failed /\ y.closed = x.closed /\ y.descriptor = x.descriptor

\* y is what _fail makes of x after n chunks were written: nothing of it is left to do.
FailsTo(x, n, y) ==
  /\ Able(y) /\ Settled(y) /\ Quiet(y) /\ y.failed = TRUE
  /\ y.ended = x.ended /\ y.cancelled = x.cancelled /\ y.closeEmitted = x.closeEmitted
  /\ y.finishScheduled = x.finishScheduled /\ y.finished = x.finished
  /\ y.queue.batch = x.queue.batch
  /\ Rest(y) = Owed(x) - Len(Ids(SubSeq(x.chunks, n + 1, Len(x.chunks))))
                 - Len(x.endCompletions)

\* _fail as a result.
LEMMA FailedTo ==
  ASSUME NEW x, Able(x), NEW n \in 0..Len(x.chunks), NEW y, y = Failed(x, n)
  PROVE  FailsTo(x, n, y)
<1>1. /\ Able(y) /\ Settled(y) /\ y.failed = TRUE /\ Near(x, y, OfFailure)
      /\ y.chunks = <<>> /\ y.endCompletions = <<>>
      /\ Owed(y) = Owed(x) - Len(Ids(SubSeq(x.chunks, n + 1, Len(x.chunks))))
                     - Len(x.endCompletions)
  BY FailedKeeps
<1>2. Quiet(y)
  BY <1>1 DEF Quiet
<1>3. /\ y.ended = x.ended /\ y.cancelled = x.cancelled /\ y.closeEmitted = x.closeEmitted
      /\ y.finishScheduled = x.finishScheduled /\ y.finished = x.finished
      /\ y.queue.batch = x.queue.batch
  BY <1>1 DEF Near, Differs, Fields, OfFailure
<1>4. Rest(y) = Owed(y)
  <2>1. Owed(y) \in Int /\ Len(<<>>) = 0
    BY <1>1, Counts DEF Able
  <2> QED
    BY <1>1, <2>1, IdsEmpty DEF Rest
<1> QED
  BY <1>1, <1>2, <1>3, <1>4 DEF FailsTo

\* A failure that completes the callbacks of all chunks leaves nothing over.
LEMMA FailedAll ==
  ASSUME NEW x, Able(x), NEW y, y = Failed(x, 0)
  PROVE  /\ FlushedTo(x, y) /\ y.failed = TRUE
<1>1. 0 \in 0..Len(x.chunks) /\ x.chunks \in Seq(Chunk) /\ 0 + 1 = 1
  BY DEF Able, Typed
<1>2. SubSeq(x.chunks, 0 + 1, Len(x.chunks)) = x.chunks
  BY <1>1, SubSeqFull
<1>3. /\ Able(y) /\ Settled(y) /\ Quiet(y) /\ y.failed = TRUE
      /\ y.ended = x.ended /\ y.cancelled = x.cancelled /\ y.closeEmitted = x.closeEmitted
      /\ y.finishScheduled = x.finishScheduled /\ y.finished = x.finished
      /\ y.queue.batch = x.queue.batch
      /\ Rest(y) = Owed(x) - Len(Ids(SubSeq(x.chunks, 0 + 1, Len(x.chunks))))
                     - Len(x.endCompletions)
  BY <1>1, FailedTo DEF FailsTo
<1> QED
  BY <1>2, <1>3 DEF FlushedTo, Rest

\* _flush that wrote n chunks.
LEMMA FlushEndKeeps ==
  ASSUME NEW x, Able(x), Settled(x), x.descriptor # "none", ~x.failed,
         NEW n \in 0..Len(x.chunks), x.closeEmitted => ~x.needDrain
  PROVE  FlushedTo(x, FlushEnd(x, n))
<1> DEFINE w == Written(x, n)
           y == FlushEnd(x, n)
<1>1. /\ Able(w) /\ Near(x, w, {"buffered", "sink"})
      /\ Owed(w) = Owed(x) - Len(Ids(SubSeq(x.chunks, 1, n)))
  BY WrittenKeeps
<1>2. /\ w.chunks = x.chunks /\ w.endCompletions = x.endCompletions
      /\ w.ended = x.ended /\ w.cancelled = x.cancelled /\ w.closeEmitted = x.closeEmitted
      /\ w.finishScheduled = x.finishScheduled /\ w.finished = x.finished
      /\ w.queue.batch = x.queue.batch /\ w.closed = x.closed /\ w.failed = x.failed
      /\ w.descriptor = x.descriptor /\ w.error = x.error /\ w.closeQueued = x.closeQueued
  BY <1>1 DEF Near, Differs, Fields
<1>3. x.chunks \in Seq(Chunk) /\ Len(x.chunks) \in Nat /\ Typed(x)
  BY DEF Able, Typed
<1>4. /\ SubSeq(x.chunks, 1, n) \in Seq(Chunk)
      /\ SubSeq(x.chunks, n + 1, Len(x.chunks)) \in Seq(Chunk)
      /\ Len(Ids(x.chunks)) = Len(Ids(SubSeq(x.chunks, 1, n)))
                                + Len(Ids(SubSeq(x.chunks, n + 1, Len(x.chunks))))
  BY <1>3, IdsSplit
<1>5. /\ Len(Ids(SubSeq(x.chunks, 1, n))) \in Nat
      /\ Len(Ids(SubSeq(x.chunks, n + 1, Len(x.chunks)))) \in Nat
      /\ Owed(x) \in Int /\ Len(x.endCompletions) \in Nat /\ Len(Ids(x.chunks)) \in Nat
  BY <1>3, <1>4, IdsTyped, Counts
<1>6. CASE n < Len(x.chunks)
  <2>1. y = Failed(w, n)
    BY <1>6 DEF FlushEnd
  <2> HIDE DEF w, y
  <2>2. n \in 0..Len(w.chunks)
    BY <1>2
  <2>3. FailsTo(w, n, y)
    BY <1>1, <2>1, <2>2, FailedTo
  <2>4. Rest(y) = Rest(x)
    BY <1>1, <1>2, <1>4, <1>5, <2>3 DEF Rest, FailsTo
  <2> QED
    BY <1>2, <2>3, <2>4 DEF FlushedTo, FailsTo, y
<1>7. CASE ~(n < Len(x.chunks))
  <2> DEFINE a == [w EXCEPT !.chunks = <<>>, !.needDrain = FALSE]
  <2>1. y = IF x.needDrain THEN EventsDrained(a) ELSE a
    BY <1>7 DEF FlushEnd
  <2>2. n = Len(x.chunks) /\ SubSeq(x.chunks, 1, n) = x.chunks
    BY <1>3, <1>7, SubSeqFull
  <2> HIDE DEF w, y
  <2>3. /\ Differs(w, a, {"chunks", "needDrain"}) /\ a.chunks = <<>> /\ a.needDrain = FALSE
        /\ a.queue = w.queue /\ a.reservations = w.reservations
        /\ a.endCompletions = w.endCompletions /\ a.ended = w.ended /\ a.closed = w.closed
        /\ a.cancelled = w.cancelled /\ a.closeEmitted = w.closeEmitted
        /\ a.finishScheduled = w.finishScheduled /\ a.finished = w.finished
        /\ a.failed = w.failed /\ a.descriptor = w.descriptor /\ a.error = w.error
        /\ a.closeQueued = w.closeQueued
    BY <1>1 DEF Able, Typed, Differs, Fields
  <2> HIDE DEF a
  <2>4. Typed(a) /\ Adds(w.queue, a.queue, {}) /\ Owed(a) = Owed(w)
    BY <1>1, <2>3, IdsEmpty DEF Able, Typed, Differs, Adds, Owed
  <2>5. Able(a)
    BY <1>1, <2>3, <2>4, OthersKeep DEF Deciding
  <2>6. Settled(a)
    BY <1>2, <2>3 DEF Settled
  <2>7. Quiet(a)
    BY <2>3 DEF Quiet
  <2>8. Rest(a) = Rest(x)
    <3>1. Len(Ids(a.chunks)) = 0
      BY <2>3, IdsEmpty
    <3>2. Len(a.endCompletions) = Len(x.endCompletions)
      BY <1>2, <2>3
    <3>3. Owed(a) = Owed(x) - Len(Ids(x.chunks))
      BY <1>1, <2>2, <2>4
    <3> QED
      BY <1>5, <3>1, <3>2, <3>3 DEF Rest
  <2>9. FlushedTo(x, a)
    BY <1>2, <2>3, <2>5, <2>6, <2>7, <2>8 DEF FlushedTo
  <2>10. CASE ~x.needDrain
    BY <2>1, <2>9, <2>10 DEF y
  <2>11. CASE x.needDrain
    <3>1. ~a.closeEmitted
      BY <1>2, <2>3, <2>11
    <3>2. Able(y) /\ Near(a, y, {"drainScheduled"}) /\ Owed(y) = Owed(a)
      BY <2>1, <2>5, <2>11, <3>1, EventsDrainedKeeps
    <3>3. /\ y.chunks = a.chunks /\ y.endCompletions = a.endCompletions
          /\ y.ended = a.ended /\ y.closed = a.closed
          /\ y.cancelled = a.cancelled /\ y.closeEmitted = a.closeEmitted
          /\ y.finishScheduled = a.finishScheduled /\ y.finished = a.finished
          /\ y.failed = a.failed /\ y.descriptor = a.descriptor /\ y.error = a.error
          /\ y.closeQueued = a.closeQueued /\ y.needDrain = a.needDrain
          /\ y.queue.batch = a.queue.batch
      BY <3>2 DEF Near, Differs, Fields
    <3>4. Settled(y) /\ Quiet(y) /\ Rest(y) = Rest(a)
      BY <2>6, <2>7, <3>2, <3>3 DEF Settled, Quiet, Rest
    <3> QED
      BY <2>9, <3>2, <3>3, <3>4 DEF FlushedTo, y
  <2> QED
    BY <2>10, <2>11
<1> QED
  BY <1>6, <1>7

\* _flush
LEMMA FlushedKeeps ==
  ASSUME NEW x, Able(x), Settled(x),
         x.closeEmitted /\ ~x.failed /\ x.descriptor # "none" => ~x.needDrain,
         NEW y \in Flushed(x)
  PROVE  FlushedTo(x, y)
<1>1. CASE x.descriptor = "none" \/ x.failed
  <2>1. y = x
    BY <1>1 DEF Flushed
  <2>2. Quiet(x)
    BY <1>1 DEF Quiet
  <2> QED
    BY <2>1, <2>2 DEF FlushedTo
<1>2. CASE ~(x.descriptor = "none" \/ x.failed)
  <2>1. PICK n \in Accepts(x) : y = FlushEnd(x, n)
    BY <1>2 DEF Flushed
  <2>2. n \in 0..Len(x.chunks)
    <3>1. Len(x.chunks) \in Nat
      BY DEF Able, Typed
    <3> QED
      BY <3>1 DEF Accepts
  <2> QED
    BY <1>2, <2>1, <2>2, FlushEndKeeps
<1> QED
  BY <1>1, <1>2

\* What is true of a stream between two methods.
Sound(x) == Able(x) /\ Settled(x) /\ Quiet(x) /\ Ends(x)

\* A change of fields that decide nothing about events.
LEMMA OthersSet ==
  ASSUME NEW x, NEW y, NEW S, Able(x), Differs(x, y, S),
         S \cap (Deciding \cup {"reservations", "queue"}) = {},
         y.chunks \in Seq(Chunk), y.endCompletions \in Seq(Nat),
         x.closed => y.closed, x.ended => y.ended
  PROVE  Able(y) /\ Owed(y) = Owed(x) /\ y.queue.batch = x.queue.batch
<1>1. y.queue = x.queue /\ y.reservations = x.reservations /\ DOMAIN y = Fields
  BY DEF Differs, Fields
<1>2. Typed(y) /\ Adds(x.queue, y.queue, {})
  BY <1>1 DEF Able, Typed, Adds
<1>3. S \cap (Deciding \cup {"reservations"}) = {}
  OBVIOUS
<1>4. Able(y)
  BY <1>2, <1>3, OthersKeep
<1> QED
  BY <1>1, <1>4 DEF Owed

\* y is what _write makes of x, which held a place for the callback: cost is 1
\* with a callback and 0 without.
WrittenTo(x, y, cost) ==
  Sound(y) /\ y.queue.batch = x.queue.batch /\ Rest(y) = Rest(x) - cost

\* _write of a stream that takes no data: the callback is told.
LEMMA RefusedKeeps ==
  ASSUME NEW x, Sound(x), NEW chunk \in Chunk, ~IsWritable(x), NEW y \in Wrote(x, chunk)
  PROVE  WrittenTo(x, y, IF chunk.callback THEN 1 ELSE 0)
<1> DEFINE cost == IF chunk.callback THEN 1 ELSE 0
           w == IF chunk.callback THEN Completed(x, "write", <<chunk.id>>, TRUE) ELSE x
<1>1. y = IF Destroyed(x) THEN w ELSE Failed(w, 0)
  BY DEF Wrote
<1>2. chunk.id \in Nat /\ chunk.callback \in BOOLEAN /\ <<chunk.id>> \in Seq(Nat)
      /\ Len(<<chunk.id>>) = 1 /\ cost \in Int
  BY DEF Chunk
<1>3. Able(w) /\ Differs(x, w, {"queue"}) /\ w.queue.batch = x.queue.batch
      /\ Owed(w) = Owed(x) - cost
  <2>1. CASE chunk.callback
    <3>1. w = Completed(x, "write", <<chunk.id>>, TRUE) /\ cost = 1
      BY <2>1
    <3> QED
      BY <1>2, <3>1, CompletedKeeps DEF Sound
  <2>2. CASE ~chunk.callback
    <3>1. w = x /\ cost = 0
      BY <2>2
    <3>2. Owed(x) \in Int
      BY Counts DEF Sound, Able
    <3>3. Able(x) /\ Differs(x, x, {"queue"}) /\ Owed(x) = Owed(x) - 0
      BY <3>2 DEF Sound, Able, Typed, Differs
    <3> HIDE DEF w, cost
    <3> QED
      BY <3>1, <3>3
  <2> QED
    BY <2>1, <2>2
<1> HIDE DEF w, cost
<1>4. /\ w.chunks = x.chunks /\ w.endCompletions = x.endCompletions
      /\ w.ended = x.ended /\ w.cancelled = x.cancelled /\ w.closeEmitted = x.closeEmitted
      /\ w.finishScheduled = x.finishScheduled /\ w.finished = x.finished
      /\ w.closed = x.closed /\ w.failed = x.failed
      /\ w.descriptor = x.descriptor /\ w.error = x.error /\ w.closeQueued = x.closeQueued
      /\ w.needDrain = x.needDrain
  BY <1>3 DEF Differs, Fields
<1>5. Sound(w)
  BY <1>3, <1>4 DEF Sound, Settled, Quiet, Ends
<1>6. Rest(w) = Rest(x) - cost
  <2>1. /\ Owed(x) \in Int /\ Len(x.endCompletions) \in Int /\ Len(Ids(x.chunks)) \in Int
    BY Counts DEF Sound, Able
  <2> QED
    BY <1>2, <1>3, <1>4, <2>1 DEF Rest
<1>7. CASE Destroyed(x)
  BY <1>1, <1>3, <1>5, <1>6, <1>7 DEF WrittenTo, cost
<1>8. CASE ~Destroyed(x)
  <2>1. y = Failed(w, 0)
    BY <1>1, <1>8
  <2>2. FlushedTo(w, y) /\ y.failed = TRUE
    BY <1>3, <2>1, FailedAll
  <2> QED
    BY <1>3, <1>6, <2>2 DEF FlushedTo, WrittenTo, Sound, Ends, cost
<1> QED
  BY <1>7, <1>8

\* _write of a stream that takes data: the callback is told with its chunk.
LEMMA AcceptedKeeps ==
  ASSUME NEW x, Sound(x), NEW chunk \in Chunk, IsWritable(x), NEW y \in Wrote(x, chunk)
  PROVE  WrittenTo(x, y, IF chunk.callback THEN 1 ELSE 0)
<1> DEFINE cost == IF chunk.callback THEN 1 ELSE 0
           w == [x EXCEPT !.chunks = Append(@, chunk), !.buffered = @ + chunk.size,
                          !.accepted = Append(@, chunk.id)]
<1>1. PICK z \in (IF x.corked = 0 THEN Flushed(w) ELSE {w}) :
         y = [z EXCEPT !.needDrain = @ \/ ~(z.buffered < HighWaterMark \/ z.buffered = 0)]
  BY DEF Wrote
<1>2. ~x.ended /\ ~x.closed /\ ~x.failed /\ ~x.cancelled
  BY DEF IsWritable
<1>3. /\ Differs(x, w, {"chunks", "buffered", "accepted"})
      /\ w.chunks = Append(x.chunks, chunk)
      /\ w.endCompletions = x.endCompletions
      /\ w.ended = x.ended /\ w.cancelled = x.cancelled /\ w.closeEmitted = x.closeEmitted
      /\ w.finishScheduled = x.finishScheduled /\ w.finished = x.finished
      /\ w.closed = x.closed /\ w.failed = x.failed
      /\ w.descriptor = x.descriptor /\ w.error = x.error /\ w.closeQueued = x.closeQueued
  BY DEF Sound, Able, Typed, Differs, Fields
<1> HIDE DEF w
<1>4. /\ x.chunks \in Seq(Chunk) /\ x.endCompletions \in Seq(Nat)
      /\ w.chunks \in Seq(Chunk) /\ Len(Ids(w.chunks)) = Len(Ids(x.chunks)) + cost
  BY <1>3, IdsAppend DEF Sound, Able, Typed
<1>5. cost \in Int
  OBVIOUS
<1> HIDE DEF cost
<1>6. Able(w) /\ Owed(w) = Owed(x) /\ w.queue.batch = x.queue.batch
  <2> DEFINE S == {"chunks", "buffered", "accepted"}
  <2>1. S \cap (Deciding \cup {"reservations", "queue"}) = {}
    BY DEF Deciding
  <2>2. w.endCompletions \in Seq(Nat) /\ Able(x) /\ (x.closed => w.closed) /\ (x.ended => w.ended)
    BY <1>3, <1>4 DEF Sound
  <2>3. w.chunks \in Seq(Chunk) /\ Differs(x, w, S)
    BY <1>3, <1>4
  <2> HIDE DEF S
  <2> QED
    BY <2>1, <2>2, <2>3, OthersSet
<1>7. Rest(w) = Rest(x) - cost
  <2>1. /\ Owed(x) \in Int /\ Len(x.endCompletions) \in Int /\ Len(Ids(x.chunks)) \in Int
    BY Counts DEF Sound, Able
  <2> QED
    BY <1>3, <1>4, <1>5, <1>6, <2>1 DEF Rest
<1>8. ~x.finishScheduled /\ ~x.closeEmitted /\ ~x.finished /\ ~x.error /\ ~x.closeQueued
  BY <1>2 DEF Sound, Able, Life, Settled
<1>9. Settled(w) /\ Quiet(w)
  BY <1>2, <1>3, <1>8 DEF Settled, Quiet
<1>10. FlushedTo(w, z)
  <2>1. CASE x.corked = 0
    BY <1>1, <1>3, <1>6, <1>8, <1>9, <2>1, FlushedKeeps
  <2>2. CASE x.corked # 0
    <3>1. z = w
      BY <1>1, <2>2
    <3> QED
      BY <1>6, <1>9, <3>1 DEF FlushedTo
  <2> QED
    BY <2>1, <2>2
<1>11. Able(z) /\ Settled(z) /\ ~z.ended /\ ~z.cancelled /\ (z.closed => z.failed)
       /\ z.queue.batch = x.queue.batch /\ Rest(z) = Rest(x) - cost
  BY <1>2, <1>3, <1>6, <1>7, <1>10 DEF FlushedTo
<1>12. /\ Differs(z, y, {"needDrain"}) /\ y.chunks = z.chunks
       /\ y.endCompletions = z.endCompletions
       /\ y.ended = z.ended /\ y.cancelled = z.cancelled /\ y.closeEmitted = z.closeEmitted
       /\ y.finishScheduled = z.finishScheduled /\ y.finished = z.finished
       /\ y.closed = z.closed /\ y.failed = z.failed
       /\ y.descriptor = z.descriptor /\ y.error = z.error /\ y.closeQueued = z.closeQueued
  BY <1>1, <1>11 DEF Able, Typed, Differs, Fields
<1>13. Able(y) /\ Owed(y) = Owed(z) /\ y.queue.batch = z.queue.batch
  <2>1. {"needDrain"} \cap (Deciding \cup {"reservations", "queue"}) = {}
    BY DEF Deciding
  <2>2. z.chunks \in Seq(Chunk) /\ z.endCompletions \in Seq(Nat)
    BY <1>11 DEF Able, Typed
  <2> QED
    BY <1>11, <1>12, <2>1, <2>2, OthersSet
<1>14. Rest(y) = Rest(z)
  BY <1>12, <1>13 DEF Rest
<1>15. Settled(y) /\ Quiet(y) /\ Ends(y)
  BY <1>11, <1>12 DEF Settled, Quiet, Ends
<1> QED
  BY <1>11, <1>13, <1>14, <1>15 DEF WrittenTo, Sound, cost

\* y is what a part of an operation makes of x: sound, and it neither took nor
\* gave a place that is not accounted for.
MadeOf(x, y) == Sound(y) /\ y.queue.batch = x.queue.batch /\ Rest(y) = Rest(x)

\* y has ended as x has, and was not destroyed meanwhile.
SameEnd(x, y) ==
  y.ended = x.ended /\ y.cancelled = x.cancelled /\ y.closeEmitted = x.closeEmitted

\* y is what _close_descriptor makes of x.
ClosedTo(x, y) ==
  /\ Able(y) /\ Settled(y) /\ Differs(x, y, {"closed", "descriptor"})
  /\ Rest(y) = Rest(x) /\ y.queue.batch = x.queue.batch /\ Owed(y) = Owed(x)
  /\ y.closed = TRUE
  /\ y.descriptor = "none" <=> x.descriptor = "none"

\* _close_descriptor
LEMMA DescriptorClosedKeeps ==
  ASSUME NEW x, Able(x), Settled(x), NEW y, y = DescriptorClosed(x)
  PROVE  ClosedTo(x, y)
<1> DEFINE S == {"closed", "descriptor"}
<1>1. /\ Differs(x, y, S) /\ y.chunks = x.chunks
      /\ y.endCompletions = x.endCompletions
      /\ y.ended = x.ended /\ y.cancelled = x.cancelled /\ y.closeEmitted = x.closeEmitted
      /\ y.finishScheduled = x.finishScheduled /\ y.finished = x.finished
      /\ y.closed = TRUE /\ y.failed = x.failed
      /\ y.error = x.error /\ y.closeQueued = x.closeQueued
  BY DEF DescriptorClosed, Able, Typed, Differs, Fields
<1>2. y.descriptor = "none" <=> x.descriptor = "none"
  <2>1. y.descriptor = IF x.descriptor = "open" THEN "closed" ELSE x.descriptor
    BY DEF DescriptorClosed, Able, Typed, Fields
  <2> QED
    BY <2>1
<1>3. S \cap (Deciding \cup {"reservations", "queue"}) = {}
  BY DEF Deciding
<1>4. /\ y.chunks \in Seq(Chunk) /\ y.endCompletions \in Seq(Nat)
      /\ (x.closed => y.closed) /\ (x.ended => y.ended) /\ Differs(x, y, S)
  BY <1>1 DEF Able, Typed
<1> HIDE DEF S
<1>5. Able(y) /\ Owed(y) = Owed(x) /\ y.queue.batch = x.queue.batch
  BY <1>3, <1>4, OthersSet
<1>6. Settled(y) /\ Rest(y) = Rest(x)
  BY <1>1, <1>5 DEF Settled, Rest
<1> QED
  BY <1>1, <1>2, <1>5, <1>6 DEF ClosedTo, S

\* WriteEvents.close of a stream that has ended, one way or the other.
LEMMA ClosingKeeps ==
  ASSUME NEW x, Sound(x), x.closed,
         x.finishScheduled \/ x.failed \/ x.cancelled \/ x.closeQueued,
         NEW y, y = EventsClosed(x)
  PROVE  MadeOf(x, y) /\ SameEnd(x, y) /\ y.failed = x.failed
<1>1. /\ Able(y) /\ Near(x, y, {"closeScheduled", "closeQueued"}) /\ Owed(y) = Owed(x)
      /\ y.closeQueued =>
           x.closeQueued \/ ~x.finishScheduled \/ x.finished \/ x.error \/ x.cancelled
  BY EventsClosedKeeps DEF Sound
<1>2. /\ y.chunks = x.chunks /\ y.endCompletions = x.endCompletions
      /\ y.ended = x.ended /\ y.cancelled = x.cancelled /\ y.closeEmitted = x.closeEmitted
      /\ y.finishScheduled = x.finishScheduled /\ y.finished = x.finished
      /\ y.closed = x.closed /\ y.failed = x.failed /\ y.needDrain = x.needDrain
      /\ y.error = x.error /\ y.descriptor = x.descriptor /\ y.queue.batch = x.queue.batch
  BY <1>1 DEF Near, Differs, Fields
<1>3. Settled(y)
  BY <1>1, <1>2 DEF Settled, Sound
<1>4. Quiet(y) /\ Ends(y)
  BY <1>2 DEF Quiet, Ends, Sound
<1>5. Rest(y) = Rest(x)
  BY <1>1, <1>2 DEF Rest
<1> QED
  BY <1>1, <1>2, <1>3, <1>4, <1>5 DEF MadeOf, SameEnd, Sound

\* A stream that has ended and is not yet told so.
Ending(x) ==
  /\ Able(x) /\ Settled(x) /\ Quiet(x) /\ x.ended /\ ~x.closeEmitted /\ ~x.cancelled

\* A failure is an end.
LEMMA FailedMade ==
  ASSUME NEW x, Able(x), NEW y, y = Failed(x, 0)
  PROVE  MadeOf(x, y) /\ SameEnd(x, y) /\ y.failed = TRUE
<1>1. FlushedTo(x, y) /\ y.failed = TRUE
  BY FailedAll
<1> QED
  BY <1>1 DEF FlushedTo, MadeOf, SameEnd, Sound, Ends

\* WriteEvents.finish, and the close event of a stream that closed itself.
LEMMA FinishedKeeps ==
  ASSUME NEW x, Ending(x), ~x.failed, x.chunks = <<>>,
         NEW y, y = IF x.closed THEN EventsClosed(EventsFinished(x)) ELSE EventsFinished(x)
  PROVE  MadeOf(x, y) /\ SameEnd(x, y)
<1> DEFINE w == EventsFinished(x)
<1>1. /\ Able(w) /\ Near(x, w, {"finishScheduled"}) /\ Owed(w) = Owed(x)
      /\ w.finishScheduled \/ w.error \/ w.cancelled
  BY EventsFinishedKeeps DEF Ending
<1> HIDE DEF w
<1>2. /\ w.chunks = x.chunks /\ w.endCompletions = x.endCompletions
      /\ w.ended = x.ended /\ w.cancelled = x.cancelled /\ w.closeEmitted = x.closeEmitted
      /\ w.finished = x.finished /\ w.closeQueued = x.closeQueued
      /\ w.closed = x.closed /\ w.failed = x.failed /\ w.needDrain = x.needDrain
      /\ w.error = x.error /\ w.descriptor = x.descriptor /\ w.queue.batch = x.queue.batch
  BY <1>1 DEF Near, Differs, Fields
<1>3. ~w.error /\ ~w.cancelled /\ ~w.failed /\ w.finishScheduled
  BY <1>1, <1>2 DEF Ending, Settled
<1>4. Settled(w) /\ Quiet(w) /\ Ends(w)
  BY <1>2, <1>3 DEF Ending, Settled, Quiet, Ends
<1>5. Rest(w) = Rest(x)
  BY <1>1, <1>2 DEF Rest
<1>6. MadeOf(x, w) /\ SameEnd(x, w) /\ Sound(w)
  BY <1>1, <1>2, <1>4, <1>5 DEF MadeOf, SameEnd, Sound
<1>7. CASE x.closed
  <2>1. y = EventsClosed(w) /\ w.closed
    BY <1>2, <1>7 DEF w
  <2>2. MadeOf(w, y) /\ SameEnd(w, y)
    BY <1>3, <1>6, <2>1, ClosingKeeps
  <2> QED
    BY <1>6, <2>2 DEF MadeOf, SameEnd
<1>8. CASE ~x.closed
  BY <1>6, <1>8 DEF w
<1> QED
  BY <1>7, <1>8

\* _finish after its flush.
LEMMA FinishedFromKeeps ==
  ASSUME NEW x, Ending(x), NEW y \in FinishedFrom(x)
  PROVE  MadeOf(x, y) /\ SameEnd(x, y)
<1>1. CASE x.failed
  <2>1. y = x
    BY <1>1 DEF FinishedFrom
  <2> QED
    BY <1>1, <2>1 DEF MadeOf, SameEnd, Ending, Sound, Ends
<1>2. CASE ~x.failed /\ x.chunks # <<>>
  <2>1. y = Failed(x, 0)
    BY <1>2 DEF FinishedFrom
  <2> QED
    BY <2>1, FailedMade DEF Ending
<1>3. CASE ~x.failed /\ x.chunks = <<>>
  <2> DEFINE d == DescriptorClosed(x)
             done == IF x.autoClose THEN d ELSE x
  <2>1. \/ y = IF done.closed THEN EventsClosed(EventsFinished(done)) ELSE EventsFinished(done)
        \/ y = Failed(x, 0)
        \/ x.autoClose /\ y = Failed(done, 0)
    BY <1>3 DEF FinishedFrom
  <2>2. ClosedTo(x, d)
    BY DescriptorClosedKeeps DEF Ending
  <2> HIDE DEF d
  <2>3. /\ Able(d) /\ Settled(d) /\ d.ended = x.ended /\ d.closeEmitted = x.closeEmitted
        /\ d.cancelled = x.cancelled /\ d.needDrain = x.needDrain /\ d.failed = x.failed
        /\ d.chunks = x.chunks /\ (d.descriptor = "none" <=> x.descriptor = "none")
        /\ Rest(d) = Rest(x) /\ d.queue.batch = x.queue.batch
    BY <2>2 DEF ClosedTo, Differs, Fields
  <2>4. Quiet(d)
    BY <2>3 DEF Quiet, Ending
  <2>5. Ending(d)
    BY <2>3, <2>4 DEF Ending
  <2>6. /\ Ending(done) /\ ~done.failed /\ done.chunks = <<>> /\ SameEnd(x, done)
        /\ Rest(done) = Rest(x) /\ done.queue.batch = x.queue.batch
    <3>1. CASE x.autoClose
      <4>1. done = d
        BY <3>1
      <4> HIDE DEF done
      <4> QED
        BY <1>3, <2>3, <2>5, <4>1 DEF SameEnd
    <3>2. CASE ~x.autoClose
      <4>1. done = x
        BY <3>2
      <4> HIDE DEF done
      <4> QED
        BY <1>3, <4>1 DEF SameEnd
    <3> QED
      BY <3>1, <3>2
  <2> HIDE DEF done
  <2>7. CASE y = Failed(x, 0)
    BY <2>7, FailedMade DEF Ending
  <2>8. CASE y = Failed(done, 0)
    <3>1. MadeOf(done, y) /\ SameEnd(done, y)
      BY <2>6, <2>8, FailedMade DEF Ending
    <3> QED
      BY <2>6, <3>1 DEF MadeOf, SameEnd
  <2>9. CASE y = IF done.closed THEN EventsClosed(EventsFinished(done)) ELSE EventsFinished(done)
    <3>1. MadeOf(done, y) /\ SameEnd(done, y)
      BY <2>6, <2>9, FinishedKeeps
    <3> QED
      BY <2>6, <3>1 DEF MadeOf, SameEnd
  <2> QED
    BY <2>1, <2>7, <2>8, <2>9
<1> QED
  BY <1>1, <1>2, <1>3

\* _finish
LEMMA FinishesKeeps ==
  ASSUME NEW x, Sound(x), NEW y \in Finishes(x)
  PROVE  MadeOf(x, y) /\ (y.failed \/ y.cancelled \/ y.closeEmitted \/ y.ended)
<1>1. CASE x.failed \/ Destroyed(x) \/ x.ended
  <2>1. y = x
    BY <1>1 DEF Finishes
  <2> QED
    BY <1>1, <2>1 DEF MadeOf, Destroyed
<1>2. CASE ~(x.failed \/ Destroyed(x) \/ x.ended)
  <2> DEFINE w == [x EXCEPT !.ended = TRUE, !.corked = 0]
             S == {"ended", "corked"}
  <2>1. PICK z \in Flushed(w) : y \in FinishedFrom(z)
    BY <1>2 DEF Finishes
  <2>2. /\ Differs(x, w, S) /\ w.chunks = x.chunks
        /\ w.endCompletions = x.endCompletions
        /\ w.ended = TRUE /\ w.cancelled = x.cancelled /\ w.closeEmitted = x.closeEmitted
        /\ w.finishScheduled = x.finishScheduled /\ w.finished = x.finished
        /\ w.closed = x.closed /\ w.failed = x.failed
        /\ w.error = x.error /\ w.closeQueued = x.closeQueued
    BY DEF Sound, Able, Typed, Differs, Fields
  <2>3. S \cap (Deciding \cup {"reservations", "queue"}) = {}
    BY DEF Deciding
  <2> HIDE DEF w, S
  <2>4. /\ w.chunks \in Seq(Chunk) /\ w.endCompletions \in Seq(Nat)
        /\ (x.closed => w.closed) /\ (x.ended => w.ended) /\ Differs(x, w, S) /\ Able(x)
    BY <2>2 DEF Sound, Able, Typed
  <2>5. Able(w) /\ Owed(w) = Owed(x) /\ w.queue.batch = x.queue.batch
    BY <2>3, <2>4, OthersSet
  <2>6. Settled(w) /\ Rest(w) = Rest(x)
    BY <2>2, <2>5 DEF Sound, Settled, Rest
  <2>7. ~w.closeEmitted /\ ~w.cancelled
    BY <1>2, <2>2 DEF Destroyed
  <2>8. FlushedTo(w, z)
    BY <2>1, <2>5, <2>6, <2>7, FlushedKeeps
  <2>9. Ending(z) /\ Rest(z) = Rest(x) /\ z.queue.batch = x.queue.batch
    BY <2>2, <2>5, <2>6, <2>7, <2>8 DEF FlushedTo, Ending
  <2>10. MadeOf(z, y) /\ SameEnd(z, y)
    BY <2>1, <2>9, FinishedFromKeeps
  <2> QED
    BY <2>9, <2>10 DEF MadeOf, SameEnd, Ending
<1> QED
  BY <1>1, <1>2
-----------------------------------------------------------------------------
(***************************************************************************)
(* The operations and the poll.                                            *)
(***************************************************************************)

\* What is true of a stream between two operations, when the places that
\* prepare reserved may have been used.  A stream that finishes needs no
\* prepare: it keeps the places for its error and its close.
Kept(x) ==
  /\ Typed(x) /\ Promised(x) /\ Life(x) /\ Settled(x) /\ Quiet(x) /\ Ends(x)
  /\ x.finishScheduled => Ready(x)

\* An operation leaves a sound stream.
LEMMA SoundKept == \A x : Sound(x) => Kept(x)
BY DEF Sound, Kept, Able

\* WriteEvents.prepare
LEMMA PreparedKeeps ==
  ASSUME NEW x, Kept(x), NEW y, y = Prepared(x)
  PROVE  MadeOf(x, y)
<1>1. Able(y) /\ Near(x, y, {}) /\ Owed(y) = Owed(x)
  BY PreparedAble DEF Kept
<1>2. /\ y.chunks = x.chunks /\ y.endCompletions = x.endCompletions
      /\ y.ended = x.ended /\ y.cancelled = x.cancelled /\ y.closeEmitted = x.closeEmitted
      /\ y.finishScheduled = x.finishScheduled /\ y.finished = x.finished
      /\ y.closed = x.closed /\ y.failed = x.failed /\ y.needDrain = x.needDrain
      /\ y.error = x.error /\ y.descriptor = x.descriptor /\ y.queue.batch = x.queue.batch
      /\ y.closeQueued = x.closeQueued
  BY <1>1 DEF Near, Differs, Fields
<1>3. Settled(y) /\ Quiet(y) /\ Ends(y)
  BY <1>2 DEF Kept, Settled, Quiet, Ends
<1>4. Rest(y) = Rest(x)
  BY <1>1, <1>2 DEF Rest
<1> QED
  BY <1>1, <1>2, <1>3, <1>4 DEF MadeOf, Sound

\* y is x with the queue r, in which no event is new, and perhaps other corks.
LEMMA QueueKept ==
  ASSUME NEW x, Kept(x), NEW y, NEW r \in Queues,
         \A f : Occurs(r, f) => Occurs(x.queue, f), OneComplete(r),
         Differs(x, y, {"queue", "corked"}), y.queue = r
  PROVE  /\ Kept(y) /\ (Ready(x) => Ready(y))
         /\ Rest(y) = Rest(x) + (r.reserved - x.queue.reserved)
<1>1. /\ y.chunks = x.chunks /\ y.endCompletions = x.endCompletions
      /\ y.ended = x.ended /\ y.cancelled = x.cancelled /\ y.closeEmitted = x.closeEmitted
      /\ y.finishScheduled = x.finishScheduled /\ y.finished = x.finished
      /\ y.closed = x.closed /\ y.failed = x.failed /\ y.needDrain = x.needDrain
      /\ y.error = x.error /\ y.descriptor = x.descriptor /\ y.starved = x.starved
      /\ y.closeQueued = x.closeQueued /\ y.closeScheduled = x.closeScheduled
      /\ y.drainScheduled = x.drainScheduled /\ y.reservations = x.reservations
      /\ DOMAIN y = Fields
  BY DEF Differs, Fields
<1>2. Typed(y)
  BY <1>1 DEF Kept, Typed
<1>3. Promised(y)
  BY <1>1 DEF Kept, Promised
<1>4. Life(y)
  BY <1>1 DEF Kept, Life
<1>5. Settled(y) /\ Quiet(y) /\ Ends(y)
  BY <1>1 DEF Kept, Settled, Quiet, Ends
<1>6. Ready(x) => Ready(y)
  BY <1>1 DEF Ready
<1>7. Kept(y)
  BY <1>1, <1>2, <1>3, <1>4, <1>5, <1>6 DEF Kept
<1>8. Rest(y) = Rest(x) + (r.reserved - x.queue.reserved)
  <2>1. /\ x.queue.reserved \in Int /\ r.reserved \in Int
        /\ Cardinality(x.reservations) \in Int
        /\ Len(Ids(x.chunks)) \in Int /\ Len(x.endCompletions) \in Int
    BY QueueFields, Counts, ReservationsFinite DEF Kept, Typed
  <2> QED
    BY <1>1, <2>1 DEF Rest, Owed
<1> QED
  BY <1>6, <1>7, <1>8

\* A place of the queue is taken or given back.
LEMMA PlaceKept ==
  ASSUME NEW x, Kept(x), NEW y, NEW r, r = Reserved(x.queue) \/ r = Released(x.queue),
         y = [x EXCEPT !.queue = r]
  PROVE  /\ Kept(y) /\ (Ready(x) => Ready(y)) /\ y.queue.batch = x.queue.batch
         /\ r = Reserved(x.queue) => Rest(y) = Rest(x) + 1
         /\ r = Released(x.queue) => Rest(y) = Rest(x) - 1
<1>1. x.queue \in Queues /\ x.queue.reserved \in Int
  BY QueueFields DEF Kept, Typed
<1>2. /\ Adds(x.queue, r, {})
      /\ r = Reserved(x.queue) => r.reserved = x.queue.reserved + 1
      /\ r = Released(x.queue) => r.reserved = x.queue.reserved - 1
  BY <1>1, CountReserved
<1>3. /\ r \in Queues /\ (\A f : Occurs(r, f) => Occurs(x.queue, f)) /\ OneComplete(r)
      /\ r.batch = x.queue.batch
  BY <1>2 DEF Adds, Kept, Promised
<1>4. Differs(x, y, {"queue", "corked"}) /\ y.queue = r
  BY DEF Kept, Typed, Differs, Fields
<1>5. /\ Kept(y) /\ (Ready(x) => Ready(y))
      /\ Rest(y) = Rest(x) + (r.reserved - x.queue.reserved)
  BY <1>3, <1>4, QueueKept
<1>6. Rest(x) \in Int
  BY Counts DEF Kept, Rest
<1>7. /\ r = Reserved(x.queue) => Rest(y) = Rest(x) + 1
      /\ r = Released(x.queue) => Rest(y) = Rest(x) - 1
  BY <1>1, <1>2, <1>5, <1>6
<1> QED
  BY <1>3, <1>4, <1>5, <1>7

\* The inductive invariant.
IInv ==
  /\ Kept(stream)
  /\ Rest(stream) = foreign
  /\ foreign \in Nat /\ calls \in Nat
  /\ running = "idle" => stream.queue.batch = <<>>

\* write
LEMMA WriteKeeps ==
  ASSUME IInv, NEW size \in Sizes, NEW callback \in BOOLEAN, Write(size, callback)
  PROVE  IInv'
<1> DEFINE x == Prepared(stream)
           chunk == [id |-> calls + 1, size |-> size, callback |-> callback]
           w == IF callback THEN [x EXCEPT !.queue = Reserved(@)] ELSE x
           cost == IF callback THEN 1 ELSE 0
<1>1. /\ stream' = x \/ stream' \in Wrote(w, chunk)
      /\ calls' = calls + 1 /\ running' = running /\ foreign' = foreign
  BY DEF Write
<1>2. chunk \in Chunk /\ chunk.callback = callback
  BY BoundsAssumption DEF IInv, Chunk
<1>3. MadeOf(stream, x)
  BY PreparedKeeps DEF IInv
<1> HIDE DEF x, chunk
<1>4. Sound(x) /\ Kept(x) /\ Rest(x) \in Int
  BY <1>3, SoundKept, Counts DEF MadeOf, Rest, Kept
<1>5. Sound(w) /\ w.queue.batch = x.queue.batch /\ Rest(w) = Rest(x) + cost
  <2>1. CASE callback
    <3>1. w = [x EXCEPT !.queue = Reserved(x.queue)] /\ cost = 1
      BY <2>1
    <3> HIDE DEF w, cost
    <3>2. /\ Kept(w) /\ (Ready(x) => Ready(w)) /\ w.queue.batch = x.queue.batch
          /\ Rest(w) = Rest(x) + 1
      BY <1>4, <3>1, PlaceKept
    <3> QED
      BY <1>4, <3>1, <3>2 DEF Sound, Kept, Able
  <2>2. CASE ~callback
    <3>1. w = x /\ cost = 0
      BY <2>2
    <3> HIDE DEF w, cost
    <3> QED
      BY <1>4, <3>1
  <2> QED
    BY <2>1, <2>2
<1>6. cost \in Int
  OBVIOUS
<1> HIDE DEF w
<1>7. MadeOf(stream, stream')
  <2>1. CASE stream' = x
    BY <1>3, <2>1
  <2>2. CASE stream' \in Wrote(w, chunk)
    <3>1. WrittenTo(w, stream', IF chunk.callback THEN 1 ELSE 0)
      BY <1>2, <1>5, <2>2, RefusedKeeps, AcceptedKeeps
    <3>2. WrittenTo(w, stream', cost)
      BY <1>2, <3>1
    <3> HIDE DEF cost
    <3> QED
      BY <1>3, <1>4, <1>5, <1>6, <3>2 DEF WrittenTo, MadeOf
  <2> QED
    BY <1>1, <2>1, <2>2
<1> QED
  BY <1>1, <1>7, SoundKept DEF IInv, MadeOf

\* WriteEvents.retain_end, as a part of an operation.
LEMMA EndRetainedMade ==
  ASSUME NEW x, Sound(x), NEW id \in Nat, NEW y, y = EndRetained(x, id)
  PROVE  MadeOf(x, y)
<1>1. Able(x)
  BY DEF Sound
<1>2. /\ Able(y) /\ Near(x, y, {"endCompletions"})
      /\ Owed(y) - Len(y.endCompletions) = Owed(x) - Len(x.endCompletions)
      /\ x.error \/ x.cancelled \/ x.closeEmitted \/ x.finished =>
           y.endCompletions = x.endCompletions
  BY <1>1, EndRetainedKeeps
<1>3. /\ y.chunks = x.chunks
      /\ y.ended = x.ended /\ y.cancelled = x.cancelled
      /\ y.closeEmitted = x.closeEmitted
      /\ y.finishScheduled = x.finishScheduled /\ y.finished = x.finished
      /\ y.closed = x.closed /\ y.failed = x.failed /\ y.needDrain = x.needDrain
      /\ y.error = x.error /\ y.descriptor = x.descriptor
      /\ y.queue.batch = x.queue.batch /\ y.closeQueued = x.closeQueued
  BY <1>2 DEF Near, Differs, Fields
<1>4. Settled(y) /\ Quiet(y) /\ Ends(y)
  BY <1>2, <1>3 DEF Sound, Settled, Quiet, Ends
<1>5. Rest(y) = Rest(x)
  <2>1. PICK a \in Int, b \in Int, n \in Int, m \in Int, l \in Int :
          /\ a = Owed(x) /\ b = Owed(y) /\ l = Len(Ids(x.chunks))
          /\ n = Len(x.endCompletions) /\ m = Len(y.endCompletions)
    <3>1. /\ Owed(x) \in Int /\ Len(x.endCompletions) \in Int
          /\ Len(Ids(x.chunks)) \in Int /\ Owed(y) \in Int
          /\ Len(y.endCompletions) \in Int
      BY <1>1, <1>2, Counts DEF Able
    <3> QED
      BY <3>1
  <2>2. b - m = a - n
    BY <1>2, <2>1
  <2>3. b - l - m = a - l - n
    BY <2>2
  <2>4. Rest(y) = b - l - m
    BY <1>3, <2>1 DEF Rest
  <2>5. Rest(x) = a - l - n
    BY <2>1 DEF Rest
  <2> QED
    BY <2>3, <2>4, <2>5
<1> QED
  BY <1>2, <1>3, <1>4, <1>5 DEF MadeOf, Sound

\* end
LEMMA EndKeeps ==
  ASSUME IInv, NEW chunk \in {<<>>} \cup {<<n>> : n \in Sizes}, NEW callback \in BOOLEAN,
         End(chunk, callback)
  PROVE  IInv'
<1> DEFINE x == Prepared(stream)
           w == IF callback THEN EndRetained(x, calls + 1) ELSE x
           c == [id |-> calls + 1, size |-> chunk[1], callback |-> FALSE]
<1>1. /\ \/ stream' = x
         \/ \E z \in IF chunk = <<>> THEN {w} ELSE Wrote(w, c) : stream' \in Finishes(z)
      /\ calls' = calls + 1 /\ running' = running /\ foreign' = foreign
  BY DEF End
<1>2. MadeOf(stream, x)
  BY PreparedKeeps DEF IInv
<1>3. chunk # <<>> => c \in Chunk /\ c.callback = FALSE
  BY BoundsAssumption DEF IInv, Chunk
<1> HIDE DEF x, c
<1>4. MadeOf(stream, w)
  <2>1. CASE callback
    <3>1. calls + 1 \in Nat /\ Sound(x) /\ w = EndRetained(x, calls + 1)
      BY <1>2, <2>1 DEF IInv, MadeOf
    <3>2. MadeOf(x, w)
      BY <3>1, EndRetainedMade
    <3> QED
      BY <1>2, <3>2 DEF MadeOf
  <2>2. CASE ~callback
    BY <1>2, <2>2
  <2> QED
    BY <2>1, <2>2
<1> HIDE DEF w
<1>5. MadeOf(stream, stream')
  <2>1. CASE stream' = x
    BY <1>2, <2>1
  <2>2. ASSUME NEW z \in IF chunk = <<>> THEN {w} ELSE Wrote(w, c), stream' \in Finishes(z)
        PROVE  MadeOf(stream, stream')
    <3>1. MadeOf(stream, z)
      <4>1. CASE chunk = <<>>
        BY <1>4, <4>1
      <4>2. CASE chunk # <<>>
        <5>1. WrittenTo(w, z, IF c.callback THEN 1 ELSE 0)
          BY <1>3, <1>4, <4>2, RefusedKeeps, AcceptedKeeps DEF MadeOf
        <5>2. WrittenTo(w, z, 0)
          BY <1>3, <4>2, <5>1
        <5>3. Rest(w) \in Int
          BY <1>4, Counts DEF MadeOf, Sound, Able, Rest
        <5> QED
          BY <1>4, <5>2, <5>3 DEF WrittenTo, MadeOf
      <4> QED
        BY <4>1, <4>2
    <3>2. MadeOf(z, stream')
      BY <2>2, <3>1, FinishesKeeps DEF MadeOf
    <3> QED
      BY <3>1, <3>2 DEF MadeOf
  <2> QED
    BY <1>1, <2>1, <2>2
<1> QED
  BY <1>1, <1>5, SoundKept DEF IInv, MadeOf

\* close
LEMMA CloseKeeps ==
  ASSUME IInv, Close
  PROVE  IInv'
<1> DEFINE x == Prepared(stream)
<1>1. PICK y \in Finishes(x) :
         \/ y.closed /\ stream' = EventsClosed(y)
         \/ ~y.closed /\ stream' = EventsClosed(DescriptorClosed(y))
         \/ ~y.closed /\ y.descriptor = "open" /\ stream' = DescriptorClosed(y)
  BY DEF Close
<1>2. MadeOf(stream, x)
  BY PreparedKeeps DEF IInv
<1> HIDE DEF x
<1>3. MadeOf(x, y) /\ (y.failed \/ y.cancelled \/ y.closeEmitted \/ y.ended)
  BY <1>1, <1>2, FinishesKeeps DEF MadeOf
<1>4. MadeOf(stream, y) /\ Sound(y)
  BY <1>2, <1>3 DEF MadeOf
<1>5. y.finishScheduled \/ y.failed \/ y.cancelled \/ y.closeQueued
  BY <1>3, <1>4 DEF Sound, Able, Life, Ends
<1>6. MadeOf(stream, stream')
  <2>1. CASE y.closed /\ stream' = EventsClosed(y)
    <3>1. MadeOf(y, stream')
      BY <1>4, <1>5, <2>1, ClosingKeeps
    <3> QED
      BY <1>4, <3>1 DEF MadeOf
  <2>2. CASE ~y.closed /\ (stream' = EventsClosed(DescriptorClosed(y))
                            \/ stream' = DescriptorClosed(y))
    <3> DEFINE d == DescriptorClosed(y)
    <3>1. ClosedTo(y, d)
      BY <1>4, DescriptorClosedKeeps DEF Sound
    <3> HIDE DEF d
    <3>2. /\ Able(d) /\ Settled(d) /\ d.ended = y.ended /\ d.closeEmitted = y.closeEmitted
          /\ d.cancelled = y.cancelled /\ d.needDrain = y.needDrain /\ d.failed = y.failed
          /\ d.finishScheduled = y.finishScheduled /\ d.closeQueued = y.closeQueued
          /\ (d.descriptor = "none" <=> y.descriptor = "none") /\ d.closed = TRUE
          /\ Rest(d) = Rest(y) /\ d.queue.batch = y.queue.batch
      BY <3>1 DEF ClosedTo, Differs, Fields
    <3>3. ~y.closeEmitted
      BY <1>4, <2>2 DEF Sound, Able, Life
    <3>4. Quiet(d) /\ Ends(d)
      BY <1>3, <1>4, <3>2, <3>3 DEF Sound, Quiet, Ends
    <3>5. Sound(d) /\ MadeOf(stream, d)
      BY <1>4, <3>2, <3>4 DEF Sound, MadeOf
    <3>6. stream' = d \/ MadeOf(d, stream')
      BY <1>5, <2>2, <3>2, <3>5, ClosingKeeps DEF d
    <3> QED
      BY <3>5, <3>6 DEF MadeOf
  <2> QED
    BY <1>1, <2>1, <2>2
<1>7. calls' = calls /\ running' = running /\ foreign' = foreign
  BY DEF Close
<1> QED
  BY <1>6, <1>7, SoundKept DEF IInv, MadeOf

\* A stream that was destroyed: nothing of it is left to do but its events.
Gone(x) ==
  /\ Able(x) /\ x.cancelled = TRUE /\ x.chunks = <<>> /\ x.endCompletions = <<>>
  /\ x.needDrain = FALSE
  /\ x.failed => x.error \/ x.closeEmitted

\* Such a stream is sound.
LEMMA GoneSound ==
  ASSUME NEW x, Gone(x)
  PROVE  Sound(x) /\ Rest(x) = Owed(x)
<1>1. Settled(x) /\ Quiet(x) /\ Ends(x)
  BY DEF Gone, Settled, Quiet, Ends
<1>2. Owed(x) \in Int /\ Len(<<>>) = 0
  BY Counts DEF Gone, Able
<1> QED
  BY <1>1, <1>2, IdsEmpty DEF Gone, Sound, Rest

\* WriteEvents.fail of a stream that was destroyed.
LEMMA GoneFails ==
  ASSUME NEW x, Gone(x), NEW y, y = EventsFailed(x)
  PROVE  Gone(y) /\ Owed(y) = Owed(x) /\ y.queue.batch = x.queue.batch /\ y.closed = x.closed
<1>1. /\ Able(y) /\ Near(x, y, {"error"}) /\ Owed(y) = Owed(x)
      /\ y.error \/ y.closeEmitted
  BY EventsFailedKeeps DEF Gone
<1>2. /\ y.chunks = x.chunks /\ y.endCompletions = x.endCompletions
      /\ y.cancelled = x.cancelled /\ y.needDrain = x.needDrain /\ y.closed = x.closed
      /\ y.queue.batch = x.queue.batch
  BY <1>1 DEF Near, Differs, Fields
<1> QED
  BY <1>1, <1>2 DEF Gone

\* destroy
LEMMA DestroyKeeps ==
  ASSUME IInv, NEW error \in BOOLEAN, Destroy(error)
  PROVE  IInv'
<1> DEFINE p == Prepared(stream)
           x == EventsCancelled(p)
           u == Completed(x, "write", Ids(x.chunks), TRUE)
           y == [u EXCEPT !.chunks = <<>>, !.buffered = 0, !.needDrain = FALSE, !.corked = 0]
           z == EndCompleted(y, TRUE)
           f == IF error THEN EventsFailed(z) ELSE z
           d == DescriptorClosed(f)
           S == {"chunks", "buffered", "needDrain", "corked"}
<1>1. /\ stream' = EventsClosed(d) \/ stream' = EventsClosed(EventsFailed(d))
      /\ calls' = calls /\ running' = running /\ foreign' = foreign
  BY DEF Destroy
<1>2. MadeOf(stream, p)
  BY PreparedKeeps DEF IInv
<1> HIDE DEF p
<1>3. Able(x) /\ Near(p, x, {"cancelled"}) /\ Owed(x) = Owed(p) /\ x.cancelled = TRUE
  BY <1>2, EventsCancelledKeeps DEF MadeOf, Sound
<1> HIDE DEF x
<1>4. /\ x.chunks = p.chunks /\ x.endCompletions = p.endCompletions
      /\ x.failed = p.failed /\ x.error = p.error /\ x.closeEmitted = p.closeEmitted
      /\ x.queue.batch = p.queue.batch /\ (x.failed => x.error \/ x.closeEmitted)
  BY <1>2, <1>3 DEF Near, Differs, Fields, MadeOf, Sound, Settled
<1>5. Ids(x.chunks) \in Seq(Nat)
  BY <1>3, Counts DEF Able
<1>6. /\ Able(u) /\ Differs(x, u, {"queue"}) /\ u.queue.batch = x.queue.batch
      /\ Owed(u) = Owed(x) - Len(Ids(x.chunks))
  BY <1>3, <1>5, CompletedKeeps
<1> HIDE DEF u
<1>7. /\ Differs(u, y, S) /\ y.chunks = <<>> /\ y.needDrain = FALSE
      /\ y.endCompletions = u.endCompletions /\ y.cancelled = u.cancelled
      /\ y.failed = u.failed /\ y.error = u.error /\ y.closeEmitted = u.closeEmitted
      /\ y.closed = u.closed /\ y.ended = u.ended
  BY <1>6 DEF Able, Typed, Differs, Fields
<1>8. S \cap (Deciding \cup {"reservations", "queue"}) = {}
  BY DEF Deciding
<1> HIDE DEF y, S
<1>9. y.chunks \in Seq(Chunk) /\ y.endCompletions \in Seq(Nat)
  BY <1>6, <1>7, IdsEmpty DEF Able, Typed
<1>10. Able(y) /\ Owed(y) = Owed(u) /\ y.queue.batch = u.queue.batch
  BY <1>6, <1>7, <1>8, <1>9, OthersSet
<1>11. /\ u.endCompletions = x.endCompletions /\ u.cancelled = x.cancelled
       /\ u.failed = x.failed /\ u.error = x.error /\ u.closeEmitted = x.closeEmitted
  BY <1>6 DEF Differs, Fields
<1>12. /\ Able(z) /\ Near(y, z, {"endCompletions"}) /\ z.endCompletions = <<>>
       /\ Owed(z) = Owed(y) - Len(y.endCompletions)
  BY <1>10, EndCompletedKeeps
<1> HIDE DEF z
<1>13. /\ z.chunks = <<>> /\ z.needDrain = FALSE /\ z.cancelled = TRUE
       /\ (z.failed => z.error \/ z.closeEmitted) /\ z.queue.batch = y.queue.batch
  BY <1>3, <1>4, <1>7, <1>11, <1>12 DEF Near, Differs, Fields
<1>14. Gone(z)
  BY <1>12, <1>13 DEF Gone
<1>15. Owed(z) = Rest(p) /\ z.queue.batch = p.queue.batch
  <2>1. Owed(p) \in Int /\ Len(Ids(p.chunks)) \in Int /\ Len(p.endCompletions) \in Int
    BY <1>2, Counts DEF MadeOf, Sound, Able
  <2>2. Owed(z) = Owed(x) - Len(Ids(x.chunks)) - Len(x.endCompletions)
    BY <1>6, <1>7, <1>10, <1>11, <1>12
  <2>3. z.queue.batch = p.queue.batch
    BY <1>4, <1>6, <1>10, <1>13
  <2> QED
    BY <1>3, <1>4, <2>1, <2>2, <2>3 DEF Rest
<1>16. Gone(f) /\ Owed(f) = Owed(z) /\ f.queue.batch = z.queue.batch
  BY <1>14, GoneFails
<1> HIDE DEF f
<1>17. ClosedTo(f, d)
  BY <1>16, GoneSound, DescriptorClosedKeeps DEF Sound
<1> HIDE DEF d
<1>18. /\ d.chunks = f.chunks /\ d.endCompletions = f.endCompletions
       /\ d.cancelled = f.cancelled /\ d.needDrain = f.needDrain
       /\ d.failed = f.failed /\ d.error = f.error /\ d.closeEmitted = f.closeEmitted
       /\ d.closed = TRUE /\ d.queue.batch = f.queue.batch /\ Owed(d) = Owed(f) /\ Able(d)
  BY <1>17 DEF ClosedTo, Differs, Fields
<1>19. Gone(d)
  BY <1>16, <1>18 DEF Gone
<1>20. ASSUME NEW v, Gone(v), v.closed, Owed(v) = Owed(d), v.queue.batch = d.queue.batch,
              stream' = EventsClosed(v)
       PROVE  MadeOf(stream, stream')
  <2>1. Sound(v) /\ Rest(v) = Owed(v)
    BY <1>20, GoneSound
  <2>2. MadeOf(v, stream')
    BY <1>20, <2>1, ClosingKeeps DEF Gone
  <2>3. MadeOf(stream, v)
    BY <1>2, <1>15, <1>16, <1>18, <1>20, <2>1 DEF MadeOf
  <2> QED
    BY <2>2, <2>3 DEF MadeOf
<1>21. MadeOf(stream, stream')
  <2>1. CASE stream' = EventsClosed(d)
    BY <1>18, <1>19, <1>20, <2>1
  <2>2. CASE stream' = EventsClosed(EventsFailed(d))
    <3> DEFINE v == EventsFailed(d)
    <3>1. Gone(v) /\ Owed(v) = Owed(d) /\ v.queue.batch = d.queue.batch /\ v.closed
      BY <1>18, <1>19, GoneFails
    <3> HIDE DEF v
    <3>2. stream' = EventsClosed(v)
      BY <2>2 DEF v
    <3> QED
      BY <1>20, <3>1, <3>2
  <2> QED
    BY <1>1, <2>1, <2>2
<1> QED
  BY <1>1, <1>21, SoundKept DEF IInv, MadeOf

\* cork
LEMMA CorkKeeps ==
  ASSUME IInv, Cork
  PROVE  IInv'
<1>1. /\ stream' = [stream EXCEPT !.corked = @ + 1]
      /\ calls' = calls /\ running' = running /\ foreign' = foreign
  BY DEF Cork
<1>2. /\ stream.queue \in Queues /\ OneComplete(stream.queue)
      /\ stream.queue.reserved \in Int /\ Rest(stream) \in Int
  BY QueueFields, Counts DEF IInv, Kept, Typed, Promised, Rest
<1>3. Differs(stream, stream', {"queue", "corked"}) /\ stream'.queue = stream.queue
  BY <1>1 DEF IInv, Kept, Typed, Differs, Fields
<1>4. /\ Kept(stream')
      /\ Rest(stream') = Rest(stream) + (stream.queue.reserved - stream.queue.reserved)
  BY <1>2, <1>3, QueueKept DEF IInv
<1>5. Rest(stream') = Rest(stream)
  BY <1>2, <1>4
<1> QED
  BY <1>1, <1>3, <1>4, <1>5 DEF IInv

\* uncork
LEMMA UncorkKeeps ==
  ASSUME IInv, Uncork
  PROVE  IInv'
<1> DEFINE x == Prepared(stream)
           y == [x EXCEPT !.corked = IF @ > 0 THEN @ - 1 ELSE 0]
           S == {"corked"}
<1>1. /\ stream' = y \/ stream' \in Flushed(y)
      /\ calls' = calls /\ running' = running /\ foreign' = foreign
  BY DEF Uncork
<1>2. MadeOf(stream, x)
  BY PreparedKeeps DEF IInv
<1> HIDE DEF x
<1>3. /\ Differs(x, y, S) /\ y.chunks = x.chunks /\ y.endCompletions = x.endCompletions
      /\ y.ended = x.ended /\ y.cancelled = x.cancelled /\ y.closeEmitted = x.closeEmitted
      /\ y.finishScheduled = x.finishScheduled /\ y.finished = x.finished
      /\ y.closed = x.closed /\ y.failed = x.failed /\ y.needDrain = x.needDrain
      /\ y.error = x.error /\ y.descriptor = x.descriptor
      /\ y.closeQueued = x.closeQueued
  BY <1>2 DEF MadeOf, Sound, Able, Typed, Differs, Fields
<1>4. S \cap (Deciding \cup {"reservations", "queue"}) = {}
  BY DEF Deciding
<1> HIDE DEF y, S
<1>5. y.chunks \in Seq(Chunk) /\ y.endCompletions \in Seq(Nat) /\ Able(x)
  BY <1>2, <1>3 DEF MadeOf, Sound, Able, Typed
<1>6. Able(y) /\ Owed(y) = Owed(x) /\ y.queue.batch = x.queue.batch
  BY <1>3, <1>4, <1>5, OthersSet
<1>7. Sound(y) /\ Rest(y) = Rest(x)
  BY <1>2, <1>3, <1>6 DEF MadeOf, Sound, Settled, Quiet, Ends, Rest
<1>8. MadeOf(stream, y)
  BY <1>2, <1>6, <1>7 DEF MadeOf
<1>9. CASE stream' = y
  BY <1>1, <1>8, <1>9, SoundKept DEF IInv, MadeOf
<1>10. CASE stream' \in Flushed(y)
  <2>1. y.closeEmitted => y.closed
    BY <1>6 DEF Able, Life
  <2>2. y.closeEmitted /\ ~y.failed /\ y.descriptor # "none" => ~y.needDrain
    BY <1>7, <2>1 DEF Sound, Quiet
  <2>3. FlushedTo(y, stream')
    BY <1>7, <1>10, <2>2, FlushedKeeps DEF Sound
  <2>4. Ends(stream')
    BY <1>7, <2>3 DEF FlushedTo, Sound, Ends
  <2> QED
    BY <1>1, <1>8, <2>3, <2>4, SoundKept DEF IInv, MadeOf, FlushedTo, Sound
<1> QED
  BY <1>1, <1>9, <1>10

\* Other streams on the queue.
LEMMA ForeignKeeps ==
  ASSUME IInv, Foreign
  PROVE  IInv'
<1>1. calls' = calls /\ running' = running
  BY DEF Foreign
<1>2. CASE foreign' = foreign + 1 /\ stream' = [stream EXCEPT !.queue = Reserved(@)]
  <2>1. Kept(stream') /\ stream'.queue.batch = stream.queue.batch
        /\ Rest(stream') = Rest(stream) + 1
    BY <1>2, PlaceKept DEF IInv
  <2> QED
    BY <1>1, <1>2, <2>1 DEF IInv
<1>3. CASE foreign > 0 /\ foreign' = foreign - 1 /\ stream' = [stream EXCEPT !.queue = Released(@)]
  <2>1. Kept(stream') /\ stream'.queue.batch = stream.queue.batch
        /\ Rest(stream') = Rest(stream) - 1
    BY <1>3, PlaceKept DEF IInv
  <2> QED
    BY <1>1, <1>3, <2>1 DEF IInv
<1> QED
  BY <1>2, <1>3 DEF Foreign

\* y is what the poll makes of x.
Turned(x, y) == Kept(y) /\ Rest(y) = Rest(x)

\* y is x without the first notification of its batch.
TakenTo(x, y) ==
  /\ Turned(x, y) /\ Differs(x, y, {"queue"})
  /\ Head(x.queue.batch) \in Notes
  /\ \A f : Head(x.queue.batch) = Event(f) => Occurs(x.queue, f)
  /\ Head(x.queue.batch) = Event("complete") => ~Occurs(y.queue, "complete")

\* The next notification is taken from the batch.
LEMMA Taken ==
  ASSUME NEW x, Kept(x), x.queue.batch # <<>>, NEW y, y = [x EXCEPT !.queue = Dispatched(@)]
  PROVE  TakenTo(x, y)
<1> DEFINE r == Dispatched(x.queue)
<1>0. Typed(x) /\ Promised(x)
  BY DEF Kept
<1>1. x.queue \in Queues /\ OneComplete(x.queue) /\ x.queue.reserved \in Int /\ Rest(x) \in Int
  <2>1. x.queue \in Queues /\ OneComplete(x.queue)
    BY <1>0 DEF Typed, Promised
  <2>2. x.queue.reserved \in Int
    BY <2>1, QueueFields
  <2>3. Rest(x) \in Int
    BY <1>0, Counts DEF Rest
  <2> QED
    BY <2>1, <2>2, <2>3
<1>2. Differs(x, y, {"queue"}) /\ y.queue = r
  BY <1>0 DEF Typed, Differs, Fields
<1>3. /\ r \in Queues /\ Head(x.queue.batch) \in Notes
      /\ \A f : Occurs(r, f) => Occurs(x.queue, f)
      /\ \A f : Head(x.queue.batch) = Event(f) => Occurs(x.queue, f)
      /\ OneComplete(r)
      /\ Head(x.queue.batch) = Event("complete") => ~Occurs(r, "complete")
      /\ r.reserved = x.queue.reserved
  BY <1>1, QueueDispatched
<1> HIDE DEF r
<1>4. Differs(x, y, {"queue", "corked"})
  BY <1>2 DEF Differs
<1>5. Kept(y) /\ Rest(y) = Rest(x) + (r.reserved - x.queue.reserved)
  BY <1>2, <1>3, <1>4, QueueKept
<1>6. Rest(y) = Rest(x)
  BY <1>1, <1>3, <1>5
<1> QED
  BY <1>2, <1>3, <1>5, <1>6 DEF TakenTo, Turned

\* The internal event "complete" is invoked: the ends are told, finish takes the
\* place that was kept for it, and a close that waited for it is queued.
LEMMA CompleteKept ==
  ASSUME NEW y, Kept(y), ~Occurs(y.queue, "complete"), y.finishScheduled,
         y.error \/ y.cancelled \/ y.closeEmitted \/ "finish" \in y.reservations
  PROVE  Turned(y, CompleteInvoked(y))
<1> DEFINE a == [y EXCEPT !.finished = TRUE]
           b == EndCompleted(a, FALSE)
           c == Queued(b, "finish")
           d == CloseQueued(c)
<1>1. CASE y.error \/ y.closeEmitted \/ y.cancelled
  <2>1. CompleteInvoked(y) = y
    BY <1>1 DEF CompleteInvoked
  <2> QED
    BY <2>1 DEF Turned
<1>2. CASE ~(y.error \/ y.closeEmitted \/ y.cancelled)
  <2>1. CompleteInvoked(y) = d
    BY <1>2 DEF CompleteInvoked
  <2>2. ~y.failed /\ "finish" \in y.reservations /\ Ready(y) /\ y.chunks = <<>> /\ y.ended
    BY <1>2 DEF Kept, Settled, Life
  <2>3. /\ Differs(y, a, {"finished"}) /\ a.finished = TRUE
        /\ a.chunks = y.chunks /\ a.endCompletions = y.endCompletions
        /\ a.ended = y.ended /\ a.cancelled = y.cancelled /\ a.closeEmitted = y.closeEmitted
        /\ a.finishScheduled = y.finishScheduled
        /\ a.closed = y.closed /\ a.failed = y.failed /\ a.needDrain = y.needDrain
        /\ a.error = y.error /\ a.descriptor = y.descriptor /\ a.starved = y.starved
        /\ a.closeQueued = y.closeQueued /\ a.closeScheduled = y.closeScheduled
        /\ a.drainScheduled = y.drainScheduled /\ a.reservations = y.reservations
        /\ a.queue = y.queue /\ DOMAIN a = Fields
    BY DEF Kept, Typed, Differs, Fields
  <2> HIDE DEF a
  <2>4. Able(a)
    <3>1. Typed(a) /\ Promised(a)
      BY <2>3 DEF Kept, Typed, Promised
    <3>2. Life(a)
      BY <2>3 DEF Kept, Life
    <3>3. Ready(a)
      BY <2>2, <2>3 DEF Ready
    <3> QED
      BY <3>1, <3>2, <3>3 DEF Able
  <2>5. /\ Able(b) /\ Near(a, b, {"endCompletions"}) /\ b.endCompletions = <<>>
        /\ Owed(b) = Owed(a) - Len(a.endCompletions)
    BY <2>4, EndCompletedKeeps
  <2>6. b.reservations = a.reservations /\ ~Occurs(b.queue, "complete")
    <3> DEFINE ids == a.endCompletions
               r == CommittedAll(a.queue, [i \in DOMAIN ids |-> <<"end", ids[i], FALSE>>])
    <3>1. b.reservations = a.reservations /\ b.queue = r
      BY <2>3 DEF EndCompleted, Completed, Fields
    <3>2. ids \in Seq(Nat) /\ a.queue \in Queues
      BY <2>4 DEF Able, Typed
    <3>3. Adds(a.queue, r, {})
      BY <3>2, CommitCallbacks
    <3> HIDE DEF r, ids
    <3>4. ~Occurs(r, "complete")
      BY <2>3, <3>3 DEF Adds
    <3> QED
      BY <3>1, <3>4
  <2> HIDE DEF b
  <2>7. /\ b.chunks = a.chunks /\ b.finished = a.finished
        /\ b.ended = a.ended /\ b.cancelled = a.cancelled /\ b.closeEmitted = a.closeEmitted
        /\ b.finishScheduled = a.finishScheduled
        /\ b.closed = a.closed /\ b.failed = a.failed /\ b.needDrain = a.needDrain
        /\ b.error = a.error /\ b.descriptor = a.descriptor
        /\ b.closeQueued = a.closeQueued
    BY <2>5 DEF Near, Differs, Fields
  <2>8. "finish" \in b.reservations /\ Typed(b)
    BY <2>2, <2>3, <2>5, <2>6 DEF Able
  <2>9. Moves(b, c, {}, {"finish"}) /\ c.reservations = b.reservations \ {"finish"}
    BY <2>8, QueuedMoves
  <2> HIDE DEF c
  <2>10. /\ Typed(c) /\ Near(b, c, {}) /\ Owed(c) = Owed(b)
         /\ Adds(b.queue, c.queue, {"finish"})
    BY <2>8, <2>9, MovesTyped, MovesNear DEF Moves
  <2>11. /\ c.chunks = b.chunks /\ c.endCompletions = b.endCompletions
         /\ c.ended = b.ended /\ c.cancelled = b.cancelled /\ c.closeEmitted = b.closeEmitted
         /\ c.finishScheduled = b.finishScheduled /\ c.finished = b.finished
         /\ c.closed = b.closed /\ c.failed = b.failed /\ c.needDrain = b.needDrain
         /\ c.error = b.error /\ c.descriptor = b.descriptor /\ c.starved = b.starved
         /\ c.closeQueued = b.closeQueued /\ c.closeScheduled = b.closeScheduled
    BY <2>10 DEF Near, Differs, Fields
  <2>12. Able(c)
    <3>1. /\ ~Occurs(c.queue, "complete") /\ OneComplete(c.queue)
          /\ (Occurs(c.queue, "close") => Occurs(b.queue, "close"))
      BY <2>5, <2>6, <2>10 DEF Adds, Able, Promised
    <3>2. Promised(c)
      BY <2>5, <2>9, <2>11, <3>1 DEF Able, Promised
    <3>3. Life(c)
      BY <2>3, <2>5, <2>7, <2>9, <2>11, <3>1 DEF Able, Life
    <3>4. Ready(c)
      BY <2>3, <2>5, <2>7, <2>9, <2>11 DEF Able, Ready
    <3> QED
      BY <2>10, <3>2, <3>3, <3>4 DEF Able
  <2>13. Able(d) /\ Near(c, d, {"closeQueued"}) /\ Owed(d) = Owed(c)
    BY <2>12, CloseQueuedKeeps
  <2> HIDE DEF d
  <2>14. /\ d.chunks = c.chunks /\ d.endCompletions = c.endCompletions
         /\ d.ended = c.ended /\ d.cancelled = c.cancelled /\ d.closeEmitted = c.closeEmitted
         /\ d.finishScheduled = c.finishScheduled /\ d.finished = c.finished
         /\ d.closed = c.closed /\ d.failed = c.failed /\ d.needDrain = c.needDrain
         /\ d.error = c.error /\ d.descriptor = c.descriptor
    BY <2>13 DEF Near, Differs, Fields
  <2>15. Settled(d)
    BY <1>2, <2>2, <2>3, <2>5, <2>7, <2>11, <2>14 DEF Settled
  <2>16. Quiet(d) /\ Ends(d)
    BY <2>3, <2>7, <2>11, <2>14 DEF Kept, Quiet, Ends
  <2>17. Rest(d) = Rest(y)
    <3>1. /\ Owed(y) \in Int /\ Len(y.endCompletions) \in Int /\ Len(Ids(y.chunks)) \in Int
      BY Counts DEF Kept
    <3>2. Owed(a) = Owed(y)
      BY <2>3 DEF Owed
    <3>3. Owed(d) = Owed(y) - Len(y.endCompletions)
      BY <2>3, <2>5, <2>10, <2>13, <3>2
    <3>4. d.chunks = y.chunks /\ Len(d.endCompletions) = 0
      BY <2>3, <2>5, <2>7, <2>11, <2>14
    <3> QED
      BY <3>1, <3>3, <3>4 DEF Rest
  <2> QED
    BY <2>1, <2>13, <2>15, <2>16, <2>17 DEF Turned, Kept, Able
<1> QED
  BY <1>1, <1>2

\* The event "close" is invoked: the stream gives up every place it kept.
LEMMA CloseKept ==
  ASSUME NEW y, Kept(y), y.closeQueued
  PROVE  Turned(y, CloseInvoked(y))
<1> DEFINE a == Discarded(y, Events)
           c == [a EXCEPT !.closeEmitted = TRUE]
<1>1. CloseInvoked(y) = c
  BY DEF CloseInvoked
<1>2. Moves(y, a, {}, {}) /\ a.reservations = y.reservations \ Events
  BY DiscardedMoves DEF Kept
<1> HIDE DEF a
<1>3. a.reservations = {} /\ Typed(a) /\ Adds(y.queue, a.queue, {}) /\ Owed(a) = Owed(y)
  BY <1>2, MovesTyped, MovesNear DEF Kept, Typed, Moves
<1>4. /\ c.chunks = y.chunks /\ c.endCompletions = y.endCompletions
      /\ c.ended = y.ended /\ c.cancelled = y.cancelled /\ c.closeEmitted = TRUE
      /\ c.finishScheduled = y.finishScheduled /\ c.finished = y.finished
      /\ c.closed = y.closed /\ c.failed = y.failed /\ c.needDrain = y.needDrain
      /\ c.error = y.error /\ c.descriptor = y.descriptor /\ c.starved = y.starved
      /\ c.closeQueued = y.closeQueued /\ c.closeScheduled = y.closeScheduled
  BY <1>2 DEF Moves, Differs, Fields
<1>5. c.queue = a.queue /\ c.reservations = a.reservations /\ DOMAIN c = Fields
  BY <1>2 DEF Moves, Differs, Fields
<1> HIDE DEF c
<1>6. Typed(c)
  BY <1>3, <1>4, <1>5 DEF Kept, Typed
<1>7. Promised(c)
  BY <1>3, <1>4, <1>5 DEF Kept, Promised, Adds
<1>8. Life(c)
  BY <1>3, <1>4, <1>5 DEF Kept, Life, Adds
<1>9. Ready(c)
  BY <1>4 DEF Kept, Life, Ready
<1>10. Settled(c) /\ Quiet(c) /\ Ends(c)
  BY <1>4 DEF Kept, Settled, Quiet, Ends
<1>11. Rest(c) = Rest(y)
  BY <1>3, <1>4, <1>5 DEF Rest, Owed
<1> QED
  BY <1>1, <1>6, <1>7, <1>8, <1>9, <1>10, <1>11 DEF Turned, Kept

\* The flags that "drain" and "finish" change were decided before.
LEMMA FlagKept ==
  ASSUME NEW y, Kept(y), NEW z,
         \/ z = [y EXCEPT !.drainScheduled = FALSE]
         \/ y.finished /\ z = [y EXCEPT !.finished = TRUE]
  PROVE  Turned(y, z)
<1>1. /\ z.chunks = y.chunks /\ z.endCompletions = y.endCompletions
      /\ z.ended = y.ended /\ z.cancelled = y.cancelled /\ z.closeEmitted = y.closeEmitted
      /\ z.finishScheduled = y.finishScheduled /\ (z.finished <=> y.finished)
      /\ z.closed = y.closed /\ z.failed = y.failed /\ z.needDrain = y.needDrain
      /\ z.error = y.error /\ z.descriptor = y.descriptor /\ z.starved = y.starved
      /\ z.closeQueued = y.closeQueued /\ z.closeScheduled = y.closeScheduled
      /\ z.queue = y.queue /\ z.reservations = y.reservations /\ DOMAIN z = Fields
  BY DEF Kept, Typed, Fields
<1>2. Typed(z) /\ Promised(z) /\ Rest(z) = Rest(y)
  BY <1>1 DEF Kept, Typed, Promised, Rest, Owed
<1>3. Life(z)
  BY <1>1 DEF Kept, Life
<1>4. Settled(z) /\ Quiet(z) /\ Ends(z)
  BY <1>1 DEF Kept, Settled, Quiet, Ends
<1>5. z.finishScheduled => Ready(z)
  BY <1>1 DEF Kept, Ready
<1> QED
  BY <1>2, <1>3, <1>4, <1>5 DEF Turned, Kept

\* _WriteEvent.invoke of any event.
LEMMA InvokedKept ==
  ASSUME NEW x, Kept(x), NEW y, TakenTo(x, y), NEW e \in Events,
         Head(x.queue.batch) = Event(e)
  PROVE  Turned(y, InvokedEvent(y, e))
<1>1. Occurs(x.queue, e) /\ Kept(y)
  BY DEF TakenTo, Turned
<1>2. /\ y.finished = x.finished /\ y.closeQueued = x.closeQueued
      /\ y.finishScheduled = x.finishScheduled /\ y.error = x.error
      /\ y.cancelled = x.cancelled /\ y.closeEmitted = x.closeEmitted
      /\ y.reservations = x.reservations
  BY DEF TakenTo, Differs, Fields
<1>3. CASE e = "complete"
  <2>1. InvokedEvent(y, e) = CompleteInvoked(y)
    BY <1>3 DEF InvokedEvent
  <2>2. /\ ~Occurs(y.queue, "complete") /\ y.finishScheduled
        /\ y.error \/ y.cancelled \/ y.closeEmitted \/ "finish" \in y.reservations
    BY <1>1, <1>2, <1>3 DEF Kept, Promised, TakenTo
  <2> QED
    BY <1>1, <2>1, <2>2, CompleteKept
<1>4. CASE e = "error"
  <2>1. InvokedEvent(y, e) = y
    BY <1>4 DEF InvokedEvent
  <2> QED
    BY <1>1, <2>1 DEF Turned
<1>5. CASE e = "drain"
  <2>1. InvokedEvent(y, e) = [y EXCEPT !.drainScheduled = FALSE]
    BY <1>5 DEF InvokedEvent
  <2> QED
    BY <1>1, <2>1, FlagKept
<1>6. CASE e = "finish"
  <2>1. InvokedEvent(y, e) = y \/ InvokedEvent(y, e) = [y EXCEPT !.finished = TRUE]
    BY <1>6 DEF InvokedEvent
  <2>2. y.finished
    BY <1>1, <1>2, <1>6 DEF Kept, Life
  <2>3. Turned(y, y)
    BY <1>1 DEF Turned
  <2> QED
    BY <1>1, <2>1, <2>2, <2>3, FlagKept
<1>7. CASE e = "close"
  <2>1. InvokedEvent(y, e) = CloseInvoked(y)
    BY <1>7 DEF InvokedEvent
  <2>2. y.closeQueued
    BY <1>1, <1>2, <1>7 DEF Kept, Life
  <2> QED
    BY <1>1, <2>1, <2>2, CloseKept
<1> QED
  BY <1>3, <1>4, <1>5, <1>6, <1>7 DEF Events

\* The next notification of a batch is called.
LEMMA CallKeeps ==
  ASSUME NEW x, Kept(x), x.queue.batch # <<>>, CallNext(x)
  PROVE  Turned(x, stream') /\ running' # "idle"
<1> DEFINE n == Head(x.queue.batch)
           y == [x EXCEPT !.queue = Dispatched(@)]
<1>1. TakenTo(x, y)
  BY Taken
<1>2. IF n[1] = "event"
        THEN stream' = InvokedEvent(y, n[2]) /\ running' \in ModesOf(y, n[2])
        ELSE stream' = y /\ running' = "user"
  BY DEF CallNext
<1> HIDE DEF y
<1>3. CASE n[1] = "event"
  <2>1. PICK e \in Events : n = Event(e)
    BY <1>1, <1>3, EventNotes DEF TakenTo
  <2>2. n[2] = e
    BY <2>1 DEF Event
  <2> HIDE DEF n
  <2>3. stream' = InvokedEvent(y, e) /\ running' \in ModesOf(y, e)
    BY <1>2, <1>3, <2>2
  <2>4. Turned(y, stream')
    BY <1>1, <2>1, <2>3, InvokedKept DEF n
  <2>5. running' # "idle"
    BY <2>3 DEF ModesOf, Events
  <2> QED
    BY <1>1, <2>4, <2>5 DEF TakenTo, Turned
<1>4. CASE n[1] # "event"
  BY <1>1, <1>2, <1>4 DEF TakenTo
<1> QED
  BY <1>3, <1>4

\* A poll takes the pending notifications as its batch.
LEMMA StartedKeeps ==
  ASSUME NEW x, Kept(x), x.queue.batch = <<>>, NEW y, y = [x EXCEPT !.queue = Started(@)]
  PROVE  Turned(x, y) /\ Differs(x, y, {"queue"}) /\ y.queue = Started(x.queue)
<1> DEFINE r == Started(x.queue)
<1>1. x.queue \in Queues /\ OneComplete(x.queue) /\ x.queue.reserved \in Int /\ Rest(x) \in Int
  BY QueueFields, Counts DEF Kept, Typed, Promised, Rest
<1>2. /\ r \in Queues /\ \A f : Occurs(r, f) <=> Occurs(x.queue, f)
      /\ OneComplete(r) /\ r.reserved = x.queue.reserved
  BY <1>1, QueueStarted
<1>3. Differs(x, y, {"queue"}) /\ y.queue = r
  BY DEF Kept, Typed, Differs, Fields
<1> HIDE DEF r
<1>4. Differs(x, y, {"queue", "corked"})
  BY <1>3 DEF Differs
<1>5. Kept(y) /\ Rest(y) = Rest(x) + (r.reserved - x.queue.reserved)
  BY <1>2, <1>3, <1>4, QueueKept
<1>6. Rest(y) = Rest(x)
  BY <1>1, <1>2, <1>5
<1> QED
  BY <1>3, <1>5, <1>6 DEF Turned, r

\* poll_streams starts.
LEMMA PollKeeps ==
  ASSUME IInv, Poll
  PROVE  IInv'
<1>1. PICK x : x = [stream EXCEPT !.queue = Started(@)]
  OBVIOUS
<1>2. /\ CallNext(x) /\ calls' = calls /\ foreign' = foreign
      /\ stream.queue.batch = <<>> /\ stream.queue.pending # <<>>
  BY <1>1 DEF Poll, CanPoll, IInv
<1>3. Turned(stream, x) /\ x.queue = Started(stream.queue)
  BY <1>1, <1>2, StartedKeeps DEF IInv
<1>4. x.queue.batch = stream.queue.pending
  BY <1>2, <1>3, QueueStarted DEF IInv, Kept, Typed
<1>5. Turned(x, stream') /\ running' # "idle"
  BY <1>2, <1>3, <1>4, CallKeeps DEF Turned
<1> QED
  BY <1>2, <1>3, <1>5 DEF IInv, Turned

\* The batch is left: at its end, or when a notification raises.
LEMMA LeftKeeps ==
  ASSUME IInv, NEW r, r = Retained(stream.queue) \/ (r = Finished(stream.queue)
                                                       /\ stream.queue.batch = <<>>),
         stream' = [stream EXCEPT !.queue = r], calls' = calls, foreign' = foreign
  PROVE  IInv'
<1>1. /\ stream.queue \in Queues /\ OneComplete(stream.queue)
      /\ stream.queue.reserved \in Int /\ Rest(stream) \in Int
  BY QueueFields, Counts DEF IInv, Kept, Typed, Promised, Rest
<1>2. /\ r \in Queues /\ r.batch = <<>> /\ \A f : Occurs(r, f) <=> Occurs(stream.queue, f)
      /\ OneComplete(r) /\ r.reserved = stream.queue.reserved
  BY <1>1, QueueLeft
<1>3. Differs(stream, stream', {"queue", "corked"}) /\ stream'.queue = r
  BY DEF IInv, Kept, Typed, Differs, Fields
<1>4. Kept(stream') /\ Rest(stream') = Rest(stream) + (r.reserved - stream.queue.reserved)
  BY <1>2, <1>3, QueueKept DEF IInv
<1>5. Rest(stream') = Rest(stream)
  BY <1>1, <1>2, <1>4
<1> QED
  BY <1>2, <1>3, <1>4, <1>5 DEF IInv

\* A notification returns.
LEMMA ReturnKeeps ==
  ASSUME IInv, Return
  PROVE  IInv'
<1>1. calls' = calls /\ foreign' = foreign
  BY DEF Return
<1>2. CASE stream.queue.batch # <<>> /\ CallNext(stream)
  <2>1. Turned(stream, stream') /\ running' # "idle"
    BY <1>2, CallKeeps DEF IInv
  <2> QED
    BY <1>1, <2>1 DEF IInv, Turned
<1>3. CASE stream.queue.batch = <<>> /\ stream' = [stream EXCEPT !.queue = Finished(@)]
  BY <1>1, <1>3, LeftKeeps
<1> QED
  BY <1>2, <1>3 DEF Return

\* A notification raises.
LEMMA RaiseKeeps ==
  ASSUME IInv, Raise
  PROVE  IInv'
<1>1. stream' = [stream EXCEPT !.queue = Retained(@)] /\ calls' = calls /\ foreign' = foreign
  BY DEF Raise
<1> QED
  BY <1>1, LeftKeeps

\* A new stream owes nothing and is promised nothing.
LEMMA InitKeeps ==
  ASSUME Init
  PROVE  IInv
<1>1. PICK d \in {"open", "none"}, a \in BOOLEAN, f \in BOOLEAN : stream = NewStream(d, a, f)
  BY DEF Init
<1>2. /\ stream.chunks = <<>> /\ stream.endCompletions = <<>>
      /\ stream.ended = FALSE /\ stream.cancelled = FALSE /\ stream.closeEmitted = FALSE
      /\ stream.finishScheduled = FALSE /\ stream.finished = FALSE
      /\ stream.closed = FALSE /\ stream.failed = FALSE /\ stream.needDrain = FALSE
      /\ stream.error = FALSE /\ stream.starved = FALSE
      /\ stream.closeQueued = FALSE /\ stream.closeScheduled = FALSE
      /\ stream.queue = EmptyQueue /\ stream.reservations = {} /\ DOMAIN stream = Fields
  BY <1>1 DEF NewStream, Fields
<1>3. /\ EmptyQueue \in Queues /\ EmptyQueue.batch = <<>> /\ EmptyQueue.pending = <<>>
      /\ EmptyQueue.reserved = 0
  BY DEF EmptyQueue, Queues
<1>4. OneComplete(stream.queue) /\ \A e : ~Occurs(stream.queue, e)
  <2>1. Len(<<>>) = 0
    OBVIOUS
  <2> QED
    BY <1>2, <1>3, <2>1 DEF OneComplete, Occurs, In, Once
<1>5. Typed(stream)
  BY <1>2, <1>3, IdsEmpty DEF Typed
<1>6. Promised(stream) /\ Life(stream)
  BY <1>2, <1>4 DEF Promised, Life
<1>7. Settled(stream) /\ Quiet(stream) /\ Ends(stream)
  BY <1>2 DEF Settled, Quiet, Ends
<1>8. Rest(stream) = 0
  <2>1. Owed(stream) = 0
    BY <1>2, <1>3, FS_EmptySet DEF Owed
  <2>2. Len(<<>>) = 0
    OBVIOUS
  <2> QED
    BY <1>2, <2>1, <2>2, IdsEmpty DEF Rest
<1>9. foreign = 0 /\ calls = 0
  BY DEF Init
<1> QED
  BY <1>2, <1>3, <1>5, <1>6, <1>7, <1>8, <1>9 DEF IInv, Kept

\* Every action keeps the invariant.
LEMMA NextKeeps ==
  ASSUME IInv, [Next]_vars
  PROVE  IInv'
<1>1. CASE UNCHANGED vars
  BY <1>1 DEF IInv, vars, Kept, Rest, Owed
<1>2. CASE \E size \in Sizes, callback \in BOOLEAN : Write(size, callback)
  BY <1>2, WriteKeeps
<1>3. CASE \E chunk \in {<<>>} \cup {<<n>> : n \in Sizes}, callback \in BOOLEAN :
              End(chunk, callback)
  BY <1>3, EndKeeps
<1>4. CASE \E error \in BOOLEAN : Destroy(error)
  BY <1>4, DestroyKeeps
<1> QED
  BY <1>1, <1>2, <1>3, <1>4, CloseKeeps, CorkKeeps, UncorkKeeps, ForeignKeeps, PollKeeps,
     ReturnKeeps, RaiseKeeps DEF Next
-----------------------------------------------------------------------------
\* For every chunk size, high-water mark, capacity and bound of the model, the
\* inductive invariant holds throughout: what was promised has its place, the
\* flags come in their order, and the places that neither an event nor a callback
\* of this stream accounts for are those of the other streams.
THEOREM Inductive == Spec => []IInv
<1>1. Init => IInv
  BY InitKeeps
<1>2. IInv /\ [Next]_vars => IInv'
  BY NextKeeps
<1> QED
  BY <1>1, <1>2, PTL DEF Spec

\* WriteEvents.reserve never raises in the middle of an operation: whatever the
\* order of the operations, prepare has reserved for each event that can happen.
THEOREM Unstarved == Spec => []NeverStarved
<1>1. IInv => NeverStarved
  BY DEF IInv, Kept, Promised, NeverStarved
<1> QED
  BY <1>1, Inductive, PTL

\* No operation leaks a place of the shared queue, failed operations included,
\* and a stream whose close event was emitted holds none.
THEOREM Owned == Spec => []PlacesOwned
<1>1. ASSUME IInv PROVE PlacesOwned
  <2>1. /\ Owed(stream) \in Int /\ Len(stream.endCompletions) \in Int
        /\ Len(Ids(stream.chunks)) \in Int
        /\ stream.queue.reserved = Cardinality(stream.reservations) + Owed(stream)
        /\ Cardinality(stream.reservations) \in Int
    BY <1>1, Counts, ReservationsFinite DEF IInv, Kept, Typed
  <2>2. foreign = Owed(stream) - Len(Ids(stream.chunks)) - Len(stream.endCompletions)
        /\ foreign \in Int
    BY <1>1 DEF IInv, Rest
  <2>3. stream.queue.reserved =
          Cardinality(stream.reservations) + Len(Ids(stream.chunks))
              + Len(stream.endCompletions) + foreign
    BY <2>1, <2>2
  <2>4. stream.closeEmitted =>
          stream.reservations = {} /\ stream.chunks = <<>> /\ stream.endCompletions = <<>>
    BY <1>1 DEF IInv, Kept, Life, Settled
  <2> QED
    BY <2>3, <2>4 DEF PlacesOwned
<1> QED
  BY <1>1, Inductive, PTL
=============================================================================
