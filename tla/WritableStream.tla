---------------------------- MODULE WritableStream ----------------------------
(***************************************************************************)
(* One Writable: stream/writable.mojo with its WriteEvents                 *)
(* (stream/write_events.mojo), its completions (stream/completion.mojo)    *)
(* and its descriptor (stream/descriptor.mojo), on the queue of            *)
(* NotificationQueue that all streams share.                               *)
(*                                                                         *)
(* An operation of the stream runs to its end before anything else does,   *)
(* so it is one action.  It may be called by the program between two polls *)
(* or by user code inside a notification.  The descriptor is the           *)
(* environment: each chunk, the fsync and the close may succeed or fail.   *)
(*                                                                         *)
(* Callbacks are numbered by the calls that carry them.  A notification is *)
(*   <<"write", i, failed>> or <<"end", i, failed>>   a callback of call i *)
(*   <<"event", name>>                                a _WriteEvent        *)
(***************************************************************************)
EXTENDS NotificationQueue, FiniteSets, SequencesExt

CONSTANTS Sizes,           \* the chunk lengths to try
          HighWaterMark,   \* the stream's high_water_mark
          MaxCalls,        \* bound: calls of write and end
          MaxCorked,       \* bound: nesting of cork
          MaxForeign       \* bound: places of the queue others may hold

ASSUME BoundsAssumption ==
    /\ Sizes \subseteq Nat
    /\ {HighWaterMark, MaxCalls, MaxCorked, MaxForeign} \subseteq Nat

VARIABLES stream,     \* _WritableState, _WriteEventState and the queue
          running,    \* what the queue's poll is doing, see Modes
          calls,      \* how many calls of write and end were made
          foreign,    \* places of the queue that other streams hold
          told        \* the notifications that reached user code

vars == <<stream, running, calls, foreign, told>>

\* "idle": no poll.  "user": user code runs inside a notification.
\* "silent": the notification calls no user code.  "raise": it raises.
Modes == {"idle", "user", "silent", "raise"}

\* The notification of a _WriteEvent.
Event(name) == <<"event", name>>

Events == {"error", "complete", "finish", "drain", "close"}

\* A Writable on a descriptor, or on none, with its two options.
NewStream(descriptor, autoClose, flush) ==
    [descriptor |-> descriptor, autoClose |-> autoClose, flush |-> flush,
     chunks |-> <<>>, corked |-> 0, ended |-> FALSE, closed |-> FALSE,
     failed |-> FALSE, buffered |-> 0, needDrain |-> FALSE,
     error |-> FALSE, finishScheduled |-> FALSE, finished |-> FALSE,
     closeScheduled |-> FALSE, closeQueued |-> FALSE, closeEmitted |-> FALSE,
     drainScheduled |-> FALSE, cancelled |-> FALSE,
     reservations |-> {}, endCompletions |-> <<>>,
     queue |-> EmptyQueue,
     accepted |-> <<>>,      \* calls whose chunk was accepted
     sink |-> <<>>,          \* calls whose chunk the descriptor took
     starved |-> FALSE]      \* WriteEvents.reserve raised

Init ==
    /\ \E d \in {"open", "none"}, a, f \in BOOLEAN :
          /\ d = "none" => ~a /\ ~f
          /\ stream = NewStream(d, a, f)
    /\ running = "idle"
    /\ calls = 0
    /\ foreign = 0
    /\ told = {}

Destroyed(x) == x.closeEmitted \/ x.cancelled

IsWritable(x) == ~x.ended /\ ~x.closed /\ ~x.failed /\ ~x.cancelled
-----------------------------------------------------------------------------
(***************************************************************************)
(* WriteEvents, as functions of the stream value x.                        *)
(***************************************************************************)

\* What prepare has still to reserve.  error_scheduled is set where error is.
Wanted(x) ==
    ((IF x.error THEN {} ELSE {"error"})
     \cup (IF x.finishScheduled \/ x.error \/ x.cancelled
             THEN {}
             ELSE {"complete", "finish"}
                  \cup (IF x.drainScheduled THEN {} ELSE {"drain"}))
     \cup (IF x.closeScheduled THEN {} ELSE {"close"})) \ x.reservations

\* WriteEvents.prepare does not raise; it reserves all it wants or nothing.
CanPrepare(x) == x.closeEmitted \/ HasRoomFor(x.queue, Cardinality(Wanted(x)))

Prepared(x) ==
    IF x.closeEmitted THEN x
    ELSE [x EXCEPT !.reservations = @ \cup Wanted(x),
                   !.queue = ReservedAll(@, Cardinality(Wanted(x)))]

\* WriteEvents.discard
Discarded(x, events) ==
    [x EXCEPT !.reservations = @ \ events,
              !.queue = ReleasedAll(@, Cardinality(x.reservations \cap events))]

\* WriteEvents.queue of WriteEvents.reserve, which raises without capacity.
Queued(x, event) ==
    IF event \in x.reservations
      THEN [x EXCEPT !.reservations = @ \ {event},
                     !.queue = Committed(@, Event(event))]
      ELSE [x EXCEPT !.starved = TRUE]

\* StreamCompletion.complete of the callbacks of a list of calls, in order.
Completed(x, kind, ids, failed) ==
    [x EXCEPT !.queue =
        CommittedAll(@, [i \in DOMAIN ids |-> <<kind, ids[i], failed>>])]

\* WriteEvents.complete_end
EndCompletedMutant(x, failed) ==
    Completed(x, "end", x.endCompletions, failed)
EndCompleted(x, failed) ==
    Completed([x EXCEPT !.endCompletions = <<>>], "end", x.endCompletions, failed)

\* WriteEvents.retain_end
EndRetained(x, id) ==
    LET y == [x EXCEPT !.queue = Reserved(@)] IN
    IF x.error \/ x.cancelled \/ x.closeEmitted \/ x.finished
      THEN Completed(y, "end", <<id>>, TRUE)
      ELSE [y EXCEPT !.endCompletions = Append(@, id)]

\* WriteEvents.fail
EventsFailedMutant(x) ==
    IF x.error \/ x.closeEmitted THEN x
    ELSE Queued(Discarded([x EXCEPT !.error = TRUE], Events \ {"error"}), "error")
EventsFailed(x) ==
    IF x.error \/ x.closeEmitted THEN x
    ELSE Queued(Discarded([x EXCEPT !.error = TRUE], {"complete", "finish", "drain"}),
                "error")

\* WriteEvents.finish
EventsFinished(x) ==
    IF x.finishScheduled \/ x.error \/ x.cancelled THEN x
    ELSE Queued(Discarded([x EXCEPT !.finishScheduled = TRUE], {"drain"}), "complete")

\* WriteEvents.queue_close
CloseQueued(x) ==
    IF ~x.closeScheduled \/ x.closeQueued THEN x
    ELSE Queued([x EXCEPT !.closeQueued = TRUE], "close")

\* WriteEvents.close
EventsClosedMutant(x) == CloseQueued([x EXCEPT !.closeScheduled = TRUE])
EventsClosedLostMutant(x) ==
    LET y == [x EXCEPT !.closeScheduled = TRUE] IN
    IF ~x.finishScheduled \/ x.finished \/ x.cancelled THEN CloseQueued(y) ELSE y
EventsClosed(x) ==
    LET y == [x EXCEPT !.closeScheduled = TRUE] IN
    IF ~x.finishScheduled \/ x.finished \/ x.error \/ x.cancelled
      THEN CloseQueued(y)
      ELSE y

\* WriteEvents.drain
EventsDrained(x) ==
    IF x.drainScheduled \/ x.finishScheduled \/ x.error \/ x.cancelled THEN x
    ELSE Queued([x EXCEPT !.drainScheduled = TRUE], "drain")

\* WriteEvents.cancel
EventsCancelled(x) ==
    Discarded([x EXCEPT !.cancelled = TRUE], {"complete", "finish", "drain"})
-----------------------------------------------------------------------------
(***************************************************************************)
(* The private methods of Writable.  Those that use the descriptor return  *)
(* the set of streams they may leave behind.                               *)
(***************************************************************************)

\* The calls that wait for a callback among the buffered ones, in call order.
Called(chunks) == {i \in DOMAIN chunks : chunks[i].callback}
Rank(called, i) == Cardinality({j \in called : j <= i})
Ids(chunks) ==
    [k \in 1..Cardinality(Called(chunks)) |->
        chunks[CHOOSE i \in Called(chunks) : Rank(Called(chunks), i) = k].id]

\* The bytes of all chunks, counted.
Bytes(chunks) ==
    Cardinality(UNION {{i} \X (1..chunks[i].size) : i \in DOMAIN chunks})

\* _fail, after the first n chunks were written.
FailedMutant(x, n) ==
    LET cleared == [x EXCEPT !.failed = TRUE, !.chunks = <<>>, !.buffered = 0]
        y == EventsFailed(EndCompleted(Completed(cleared, "write", Ids(x.chunks), TRUE), TRUE))
    IN  IF x.autoClose
          THEN EventsClosed([y EXCEPT !.closed = TRUE, !.descriptor = "none"])
          ELSE y
FailedSilentMutant(x, n) ==
    LET rest == SubSeq(x.chunks, n + 1, Len(x.chunks))
        cleared == [x EXCEPT !.failed = TRUE, !.chunks = <<>>, !.buffered = 0]
        y == EventsFailed(Completed(cleared, "write", Ids(rest), TRUE))
    IN  IF x.autoClose
          THEN EventsClosed([y EXCEPT !.closed = TRUE, !.descriptor = "none"])
          ELSE y
Failed(x, n) ==
    LET rest == SubSeq(x.chunks, n + 1, Len(x.chunks))
        cleared == [x EXCEPT !.failed = TRUE, !.chunks = <<>>, !.buffered = 0]
        y == EventsFailed(EndCompleted(Completed(cleared, "write", Ids(rest), TRUE), TRUE))
    IN  IF x.autoClose
          THEN EventsClosed([y EXCEPT !.closed = TRUE, !.descriptor = "none"])
          ELSE y

\* The loop of _flush has written the first n chunks, in order.
Written(x, n) ==
    LET first == SubSeq(x.chunks, 1, n)
    IN  [Completed(x, "write", Ids(first), FALSE) EXCEPT
            !.buffered = @ - Bytes(first),
            !.sink = @ \o [i \in 1..n |-> x.chunks[i].id]]

\* How many chunks the descriptor may take before it fails.
Accepts(x) == IF x.descriptor = "open" THEN 0..Len(x.chunks) ELSE {0}

\* _flush
FlushEndMutant(x, n) ==
    IF n < Len(x.chunks) THEN Failed(Written(x, n), n)
    ELSE [Written(x, n) EXCEPT !.chunks = <<>>, !.needDrain = FALSE]
FlushEnd(x, n) ==
    IF n < Len(x.chunks) THEN Failed(Written(x, n), n)
    ELSE LET y == [Written(x, n) EXCEPT !.chunks = <<>>, !.needDrain = FALSE]
         IN  IF x.needDrain THEN EventsDrained(y) ELSE y
Flushed(x) ==
    IF x.descriptor = "none" \/ x.failed THEN {x}
    ELSE {FlushEnd(x, n) : n \in Accepts(x)}

\* _close_descriptor: closing an open descriptor may fail, after the fact.
DescriptorClosed(x) ==
    [x EXCEPT !.closed = TRUE,
              !.descriptor = IF @ = "open" THEN "closed" ELSE @]

\* _write, its reservations and its completion made.
Wrote(x, chunk) ==
    IF ~IsWritable(x)
      THEN LET y == IF chunk.callback
                      THEN Completed(x, "write", <<chunk.id>>, TRUE) ELSE x
           IN  {IF Destroyed(x) THEN y ELSE Failed(y, 0)}
      ELSE LET y == [x EXCEPT !.chunks = Append(@, chunk),
                              !.buffered = @ + chunk.size,
                              !.accepted = Append(@, chunk.id)]
           IN  {[z EXCEPT !.needDrain =
                    @ \/ ~(z.buffered < HighWaterMark \/ z.buffered = 0)] :
                  z \in IF x.corked = 0 THEN Flushed(y) ELSE {y}}

\* _finish
FinishedFrom(y) ==
    IF y.failed THEN {y}
    ELSE IF y.chunks # <<>> THEN {Failed(y, 0)}
    ELSE LET done == IF y.autoClose THEN DescriptorClosed(y) ELSE y
             finished == EventsFinished(done)
         IN  {IF done.closed THEN EventsClosed(finished) ELSE finished}
             \cup (IF y.flush /\ y.descriptor = "open" THEN {Failed(y, 0)} ELSE {})
             \cup (IF y.autoClose /\ y.descriptor = "open" THEN {Failed(done, 0)} ELSE {})
Finishes(x) ==
    IF x.failed \/ Destroyed(x) \/ x.ended THEN {x}
    ELSE UNION {FinishedFrom(y) :
                  y \in Flushed([x EXCEPT !.ended = TRUE, !.corked = 0])}
-----------------------------------------------------------------------------
(***************************************************************************)
(* The operations a program calls.                                         *)
(***************************************************************************)

\* User code runs between two polls or inside a notification.
UserTurn == running \in {"idle", "user"}

\* An operation whose prepare passes.  One whose prepare raises does nothing.
Operation == UserTurn /\ CanPrepare(stream)

\* write: write_buffer and its variants, with or without a callback.
Write(size, callback) ==
    /\ Operation
    /\ calls < MaxCalls
    /\ calls' = calls + 1
    /\ LET x == Prepared(stream)
           chunk == [id |-> calls + 1, size |-> size, callback |-> callback]
       IN  \/ callback /\ ~HasCapacity(x.queue) /\ stream' = x
           \/ /\ callback => HasCapacity(x.queue)
              /\ stream' \in Wrote(IF callback THEN [x EXCEPT !.queue = Reserved(@)]
                                   ELSE x, chunk)
    /\ UNCHANGED <<running, foreign, told>>

\* end: _end, or _end_chunk with the chunk that is passed.
End(chunk, callback) ==
    /\ Operation
    /\ calls < MaxCalls
    /\ calls' = calls + 1
    /\ LET x == Prepared(stream)
           y == IF callback THEN EndRetained(x, calls + 1) ELSE x
       IN  \/ callback /\ ~HasCapacity(x.queue) /\ stream' = x
           \/ /\ callback => HasCapacity(x.queue)
              /\ \E z \in IF chunk = <<>> THEN {y}
                          ELSE Wrote(y, [id |-> calls + 1, size |-> chunk[1],
                                         callback |-> FALSE]) :
                    stream' \in Finishes(z)
    /\ UNCHANGED <<running, foreign, told>>

\* close: its finally clause closes the descriptor unless end did; when that
\* raises, the close event is not scheduled.
Close ==
    /\ Operation
    /\ \E y \in Finishes(Prepared(stream)) :
          \/ y.closed /\ stream' = EventsClosed(y)
          \/ ~y.closed /\ stream' = EventsClosed(DescriptorClosed(y))
          \/ ~y.closed /\ y.descriptor = "open" /\ stream' = DescriptorClosed(y)
    /\ UNCHANGED <<running, calls, foreign, told>>

\* destroy, with or without an error.
Destroy(error) ==
    /\ Operation
    /\ ~Destroyed(stream)
    /\ LET x == EventsCancelled(Prepared(stream))
           y == [Completed(x, "write", Ids(x.chunks), TRUE) EXCEPT
                    !.chunks = <<>>, !.buffered = 0, !.needDrain = FALSE, !.corked = 0]
           z == EndCompleted(y, TRUE)
           d == DescriptorClosed(IF error THEN EventsFailed(z) ELSE z)
       IN  \/ stream' = EventsClosed(d)
           \/ x.descriptor = "open" /\ stream' = EventsClosed(EventsFailed(d))
    /\ UNCHANGED <<running, calls, foreign, told>>

Cork ==
    /\ UserTurn
    /\ stream.corked < MaxCorked
    /\ stream' = [stream EXCEPT !.corked = @ + 1]
    /\ UNCHANGED <<running, calls, foreign, told>>

Uncork ==
    /\ Operation
    /\ LET x == Prepared(stream)
           y == [x EXCEPT !.corked = IF @ > 0 THEN @ - 1 ELSE 0]
       IN  stream' \in IF x.corked = 1 THEN Flushed(y) ELSE {y}
    /\ UNCHANGED <<running, calls, foreign, told>>

\* Another stream takes a place of the shared queue, or gives one back.
Foreign ==
    /\ UserTurn
    /\ \/ /\ foreign < MaxForeign /\ HasCapacity(stream.queue)
          /\ foreign' = foreign + 1
          /\ stream' = [stream EXCEPT !.queue = Reserved(@)]
       \/ /\ foreign > 0
          /\ foreign' = foreign - 1
          /\ stream' = [stream EXCEPT !.queue = Released(@)]
    /\ UNCHANGED <<running, calls, told>>
-----------------------------------------------------------------------------
(***************************************************************************)
(* poll_streams: the queue's poll and the notifications it calls.          *)
(***************************************************************************)

\* _WriteEvent.invoke of "complete" and of "close".
CompleteInvoked(x) ==
    IF x.error \/ x.closeEmitted \/ x.cancelled THEN x
    ELSE CloseQueued(Queued(EndCompleted([x EXCEPT !.finished = TRUE], FALSE), "finish"))
CloseInvoked(x) == [Discarded(x, Events) EXCEPT !.closeEmitted = TRUE]

\* _WriteEvent.invoke up to the call of the listeners, on a queue from which
\* the event was taken.
InvokedEvent(x, event) ==
    CASE event = "complete" -> CompleteInvoked(x)
      [] event = "error" -> x
      [] event = "drain" -> [x EXCEPT !.drainScheduled = FALSE]
      [] event = "finish" ->
            IF x.error \/ x.cancelled THEN x ELSE [x EXCEPT !.finished = TRUE]
      [] event = "close" -> CloseInvoked(x)

\* How that invocation goes on: the listeners, a plain return or, for an
\* error without listener, a raise.
ModesOf(x, event) ==
    CASE event = "complete" -> {"silent"}
      [] event = "error" -> {"user", "raise"}
      [] event = "drain" ->
            IF x.error \/ x.finishScheduled \/ x.cancelled THEN {"silent"} ELSE {"user"}
      [] event = "finish" -> IF x.error \/ x.cancelled THEN {"silent"} ELSE {"user"}
      [] event = "close" -> {"user"}

\* The next notification of the batch in x's queue is called.
CallNext(x) ==
    LET n == Head(x.queue.batch)
        y == [x EXCEPT !.queue = Dispatched(@)]
    IN  /\ IF n[1] = "event"
             THEN /\ stream' = InvokedEvent(y, n[2])
                  /\ running' \in ModesOf(y, n[2])
             ELSE /\ stream' = y
                  /\ running' = "user"
        /\ told' = IF running' = "silent" THEN told ELSE told \cup {n}

Poll ==
    /\ running = "idle"
    /\ CanPoll(stream.queue)
    /\ CallNext([stream EXCEPT !.queue = Started(@)])
    /\ UNCHANGED <<calls, foreign>>

Return ==
    /\ running \in {"user", "silent"}
    /\ \/ stream.queue.batch # <<>> /\ CallNext(stream)
       \/ /\ stream.queue.batch = <<>>
          /\ stream' = [stream EXCEPT !.queue = Finished(@)]
          /\ running' = "idle"
          /\ UNCHANGED told
    /\ UNCHANGED <<calls, foreign>>

Raise ==
    /\ running \in {"user", "raise"}
    /\ stream' = [stream EXCEPT !.queue = Retained(@)]
    /\ running' = "idle"
    /\ UNCHANGED <<calls, foreign, told>>

Next ==
    \/ \E size \in Sizes, callback \in BOOLEAN : Write(size, callback)
    \/ \E chunk \in {<<>>} \cup {<<n>> : n \in Sizes}, callback \in BOOLEAN :
          End(chunk, callback)
    \/ Close
    \/ \E error \in BOOLEAN : Destroy(error)
    \/ Cork
    \/ Uncork
    \/ Foreign
    \/ Poll
    \/ Return
    \/ Raise

Spec == Init /\ [][Next]_vars

(***************************************************************************)
(* The event loop polls while notifications are pending, and user code     *)
(* ends.  Nothing obliges the program to call an operation of the stream.  *)
(***************************************************************************)
FairSpec == Spec /\ WF_vars(Poll) /\ WF_vars(Return \/ Raise)
-----------------------------------------------------------------------------
Notifications ==
    ({"write", "end"} \X (1..MaxCalls) \X BOOLEAN) \cup ({"event"} \X Events)

\* Everything queued, in the order in which it will be called.
InQueue == ToSet(stream.queue.batch \o stream.queue.pending)

\* A lifecycle event never finds itself without room in the queue: whatever
\* the order of operations, prepare has reserved for each event that can
\* still happen.  Otherwise WriteEvents.reserve raises in the middle of an
\* operation that has already changed the stream.
NeverStarved == ~stream.starved

\* Every place of the queue that is reserved has an owner: a retained event,
\* the callback of a buffered chunk or of an unfinished end, or another
\* stream.  No operation, failed ones included, leaks capacity, and after the
\* close event the stream holds none.
PlacesOwned ==
    /\ stream.queue.reserved =
          Cardinality(stream.reservations) + Len(Ids(stream.chunks))
              + Len(stream.endCompletions) + foreign
    /\ stream.closeEmitted =>
          stream.reservations = {} /\ stream.chunks = <<>> /\ stream.endCompletions = <<>>

\* The descriptor received the accepted chunks in call order, without gap or
\* repetition; buffered_bytes is what it has not received.  A write callback
\* reports success exactly for a chunk that the descriptor took, and success
\* of end, like the finish event, means that it took all.
ReportsTrue ==
    /\ IsPrefix(stream.sink, stream.accepted)
    /\ stream.buffered = Bytes(stream.chunks)
    /\ ~stream.failed /\ ~stream.cancelled =>
          stream.accepted = stream.sink \o [i \in DOMAIN stream.chunks |-> stream.chunks[i].id]
    /\ \A n \in InQueue \cup told :
          /\ n[1] = "write" => (n[3] <=> n[2] \notin ToSet(stream.sink))
          /\ n[1] = "end" /\ ~n[3] => stream.sink = stream.accepted
          /\ n = Event("finish") => stream.sink = stream.accepted

\* The release of backpressure is never lost.  need_drain stays set only while
\* a later operation will flush or none ever can, and where it is reset a
\* drain event is queued, unless the stream's end or failure is.
DrainNotLost ==
    [][/\ stream'.needDrain =>
             stream'.corked > 0 \/ stream'.descriptor = "none" \/ stream'.failed
       /\ stream.needDrain /\ ~stream'.needDrain =>
             \/ Event("drain") \in InQueue'
             \/ stream'.finishScheduled \/ stream'.error \/ stream'.cancelled]_vars

\* No notification is called twice: callbacks are called once, and the
\* error, finish and close events are emitted once.
CalledOnce ==
    [][\A n \in Notifications :
          n # Event("drain") /\ n \in told => n \notin InQueue']_vars

\* The order user code sees.  Write callbacks come in call order, finish comes
\* when no write callback is left to call, and neither finish nor drain comes
\* after error or close, whatever was queued before the stream failed.
OrderSeen ==
    [][\A n \in told' \ told :
          /\ n[1] = "write" => \A m \in told : m[1] = "write" => m[2] < n[2]
          /\ n[1] = "event" /\ n[2] \in {"finish", "drain"} =>
                told \cap {Event("error"), Event("close")} = {}
          /\ n = Event("finish") => \A m \in InQueue' : m[1] # "write"]_vars

\* The close event is the last event: tests/filesystem/stream_completion_test
\* registers the error listener "must-not-error-after-close" and writes to a
\* stream after its close.
NoErrorAfterClose ==
    [][Event("error") \in told' \ told => Event("close") \notin told]_vars

\* Every end callback is eventually called, with or without an error.
EndReported ==
    \A i \in 1..MaxCalls :
        (\E k \in DOMAIN stream.endCompletions : stream.endCompletions[k] = i)
            ~> (\E f \in BOOLEAN : <<"end", i, f>> \in told)

\* A stream that closes itself, or that is destroyed, eventually emits close.
CloseReported ==
    stream.closeScheduled /\ (stream.autoClose \/ stream.cancelled) ~> stream.closeEmitted
=============================================================================
