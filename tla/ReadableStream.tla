---------------------------- MODULE ReadableStream ----------------------------
(***************************************************************************)
(* One Readable on a descriptor, and its pipes: stream/readable.mojo with  *)
(* ReadEvents (stream/read_events.mojo), its buffer (read_buffer.mojo,     *)
(* byte_queue.mojo) and PipeSink (stream/pipe_sink.mojo), on the queue of  *)
(* NotificationQueue that all streams share.                               *)
(*                                                                         *)
(* The descriptor holds the units 1..Total; a read returns the next one,   *)
(* the end or an error.  A destination of a pipe is modelled by what       *)
(* PipeSink asks of it: whether it is writable and whether it must drain.  *)
(*                                                                         *)
(* An operation of the stream is one action.  The program calls it between *)
(* two polls, or user code inside a listener does.  poll_readables is cut  *)
(* where it calls the listeners of resume, readable and data; read results *)
(* and drains arrive at any moment.                                        *)
(***************************************************************************)
EXTENDS NotificationQueue, FiniteSets, SequencesExt

CONSTANTS Total,    \* units the descriptor holds
          Sizes,    \* the sizes passed to read
          Listens,  \* the events the program listens to, of data and readable
          Sinks,    \* destinations to pipe to; each is piped to at most once
          Foreign   \* whether another stream uses the queue as well

ASSUME ReadableAssumption ==
    /\ Total \in Nat
    /\ Sizes \subseteq {0, 1, 2}
    /\ Listens \subseteq {"data", "readable"}
    /\ Foreign \in BOOLEAN

VARIABLES stream,   \* _ReadableState, _ReadEventState and the queue
          sink,     \* the destinations, with the PipeSink of each
          loop,     \* what the event-loop thread is doing
          read,     \* the units that left the stream, in order
          upset     \* what user listeners kept from the pipes or reordered

vars == <<stream, sink, loop, read, upset>>

Events == {"end", "error", "close"}

NewStream(autoClose, ranged) ==
    [descriptor |-> "open", autoClose |-> autoClose,
     ranged |-> ranged,          \* the option end names the last unit
     chunkSize |-> 1, buffer |-> <<>>, got |-> 0, paused |-> FALSE, flowing |-> FALSE,
     ended |-> FALSE, closed |-> FALSE, failed |-> FALSE, eof |-> FALSE,
     asynchronous |-> FALSE, native |-> "none", pipes |-> {},
     registered |-> FALSE, resumePending |-> FALSE, readablePending |-> FALSE,
     onData |-> FALSE, onReadable |-> FALSE,
     error |-> FALSE, endQueued |-> FALSE, endTold |-> FALSE,
     closeQueued |-> FALSE, closeTold |-> FALSE,
     reservations |-> {}, queue |-> EmptyQueue,
     others |-> FALSE,           \* another stream holds a place in the queue
     starved |-> FALSE]          \* an event found no place in the queue

NewSink == [writable |-> TRUE, full |-> FALSE, waiting |-> FALSE,
            piped |-> 0, got |-> <<>>, ends |-> 0]

\* "idle": the program, or another part of the runtime.  "resumed": inside a
\* resume listener of the poll, which has computed blocked.  "listener": inside
\* a listener the poll ends with.  "data": inside a data listener that runs
\* before those of the pipes, which are due a chunk when it returns; back is where
\* the emission then goes on.  "notified", "raising": inside a notification.
At(pc) == [pc |-> pc, blocked |-> FALSE, due |-> <<>>, to |-> {}, back |-> "idle"]

Init ==
    /\ \E a, ranged \in BOOLEAN : stream = NewStream(a, ranged)
    /\ sink = [d \in Sinks |-> NewSink]
    /\ loop = At("idle")
    /\ read = <<>>
    /\ upset = [units |-> {}, end |-> FALSE, order |-> FALSE]
-----------------------------------------------------------------------------
(***************************************************************************)
(* ReadEvents, as functions of the stream value x.                         *)
(***************************************************************************)

Wanted(x) ==
    {e \in Events \ x.reservations :
        ~CASE e = "end" -> x.endQueued
           [] e = "error" -> x.error
           [] e = "close" -> x.closeQueued}

\* ReadEvents.prepare does not raise.
CanPrepare(x) == x.closeTold \/ HasRoomFor(x.queue, Cardinality(Wanted(x)))

PreparedMutant(x) ==
    IF x.closeTold THEN x
    ELSE IF ~CanPrepare(x) THEN [x EXCEPT !.starved = TRUE]
    ELSE [x EXCEPT !.reservations = @ \cup (Wanted(x) \ {"error"}),
                   !.queue = ReservedAll(@, Cardinality(Wanted(x) \ {"error"}))]
Prepared(x) ==
    IF x.closeTold THEN x
    ELSE IF ~CanPrepare(x) THEN [x EXCEPT !.starved = TRUE]
    ELSE [x EXCEPT !.reservations = @ \cup Wanted(x),
                   !.queue = ReservedAll(@, Cardinality(Wanted(x)))]

\* ReadEvents.queue, which raises without a reservation.
Queued(x, event) ==
    IF event \in x.reservations
      THEN [x EXCEPT !.reservations = @ \ {event},
                     !.queue = Committed(@, <<"event", event>>)]
      ELSE [x EXCEPT !.starved = TRUE]

\* ReadEvents.end, ReadEvents.close and ReadEvents.fail
EventsEnded(x) ==
    IF x.endQueued \/ x.closeQueued \/ x.error THEN x
    ELSE [Queued(x, "end") EXCEPT !.endQueued = TRUE]

EventsClosed(x) ==
    IF x.closeQueued THEN x ELSE [Queued(x, "close") EXCEPT !.closeQueued = TRUE]

EventsFailed(x) ==
    IF x.error \/ x.closeTold THEN x ELSE Queued([x EXCEPT !.error = TRUE], "error")
-----------------------------------------------------------------------------
(***************************************************************************)
(* The methods of Readable.  Those that use the descriptor return the set  *)
(* of streams they may leave behind.                                       *)
(***************************************************************************)

\* _abort
Aborted(x) ==
    EventsClosed(EventsFailed(
        [Prepared(x) EXCEPT !.failed = TRUE, !.native = "none", !.buffer = <<>>,
                            !.descriptor = IF x.autoClose THEN "none" ELSE @]))

\* _accept_read; an error raises instead, and _fill aborts.
Accepted(x, result) ==
    CASE result = "unit" -> [x EXCEPT !.got = @ + 1,
                                      !.buffer = Append(@, x.got + 1),
                                      !.readablePending = TRUE]
      [] result = "eof" -> [x EXCEPT !.eof = TRUE, !.readablePending = TRUE]
      [] result = "error" -> Aborted(x)

\* What a read of the descriptor may return.
ReadResults(x) == {IF x.got < Total THEN "unit" ELSE "eof", "error"}

\* _request_size: nothing is to be requested, and the state it leaves then.
NothingToRead(x) ==
    x.eof \/ x.descriptor = "none" \/ (x.ranged /\ x.got = Total)
SizeRequested(x) ==
    IF ~x.eof /\ x.descriptor # "none" /\ x.ranged /\ x.got = Total
      THEN [x EXCEPT !.eof = TRUE] ELSE x

\* _fill: _poll_descriptor of an activated stream, else _read_descriptor.
Filled(x) ==
    IF x.asynchronous /\ x.native # "none"
      THEN LET y == [x EXCEPT !.native = "none"]
           IN  IF x.native = "pending"
                 THEN {x} \cup {Accepted(y, result) : result \in ReadResults(x)}
                 ELSE {Accepted(y, x.native)}
    ELSE IF NothingToRead(x) THEN {SizeRequested(x)}
    ELSE IF x.asynchronous THEN {[x EXCEPT !.native = "pending"], Aborted(x)}
    ELSE {Accepted(x, result) : result \in ReadResults(x)}

\* _fill and then the loop of _read_sized, which stops at a turn that adds
\* nothing.  For minimum at most 2 it makes no more than two turns.
Turn(x, minimum) ==
    IF x.descriptor # "none" /\ ~x.eof /\ Len(x.buffer) < minimum
      THEN Filled(x) ELSE {x}
FilledTo(x, minimum) ==
    UNION {UNION {IF b.got = a.got THEN {b} ELSE Turn(b, minimum) :
                    b \in Turn(a, minimum)} : a \in Filled(x)}

\* close: closing the descriptor may fail, after the fact.
Closes(x) ==
    IF x.closed THEN {x}
    ELSE LET y == [Prepared(x) EXCEPT !.closed = TRUE, !.native = "none", !.buffer = <<>>,
                                      !.descriptor = IF @ = "open" THEN "closed" ELSE @]
         IN  {EventsClosed(y)}
             \cup (IF x.descriptor = "open" THEN {EventsClosed(EventsFailed(y))} ELSE {})

\* _read_sized up to what it takes: pairs of a stream and a number of units.
\* size is <<>> for read() and <<n>> for read(n).
EndRead(x) ==
    LET y == EventsEnded([x EXCEPT !.ended = TRUE])
    IN  {<<z, 0>> : z \in IF x.autoClose THEN Closes(y) ELSE {y}}
Takes(x, size) ==
    LET available == Len(x.buffer) IN
    IF x.failed THEN {<<x, 0>>}
    ELSE IF available = 0 /\ x.eof THEN EndRead(x)
    ELSE IF size = <<>> THEN {<<x, available>>}
    ELSE IF available < size[1] /\ ~x.eof THEN {<<x, 0>>}
    ELSE {<<x, IF size[1] < available THEN size[1] ELSE available>>}
Grown(x, size) ==
    IF size # <<>> /\ size[1] > x.chunkSize THEN [x EXCEPT !.chunkSize = size[1]] ELSE x
ReadSized(x, size) ==
    LET grown == Grown(x, size)
        y == [Prepared(grown) EXCEPT !.readablePending = FALSE]
        desired == IF size = <<>> THEN y.chunkSize ELSE size[1]
        minimum == IF size = <<>> THEN 1 ELSE size[1]
        filled == IF Len(y.buffer) < desired \/ Len(y.buffer) = 0
                    THEN FilledTo(y, minimum) ELSE {y}
    IN  IF x.closed \/ x.failed THEN {<<grown, 0>>}
        ELSE UNION {Takes(z, size) : z \in filled}

\* The units that n more take from the buffer, and the stream without them.
Units(x, n) == SubSeq(x.buffer, 1, n)
WithoutMutant(x, n) == [x EXCEPT !.buffer = <<>>]
Without(x, n) == [x EXCEPT !.buffer = SubSeq(@, n + 1, Len(@))]

\* _activate and resume.
Activated(x) == [Prepared(x) EXCEPT !.registered = TRUE, !.asynchronous = TRUE]
ResumedMutant(x) ==
    [Prepared(x) EXCEPT !.resumePending = @ \/ x.paused \/ ~x.flowing,
                        !.paused = FALSE, !.flowing = TRUE, !.asynchronous = TRUE]
Resumed(x) ==
    [Activated(x) EXCEPT !.resumePending = @ \/ x.paused \/ ~x.flowing,
                         !.paused = FALSE, !.flowing = TRUE]

\* The data listeners include those of the pipes.
HasDataListeners(x) == x.onData \/ x.pipes # {}

\* _prune_sinks
SinksPruned(x, all) ==
    LET terminal == \/ all \/ x.failed \/ x.endTold \/ x.closeTold
                    \/ (x.closed /\ ~x.ended)
        retained == IF terminal THEN {} ELSE {d \in x.pipes : sink[d].writable}
    IN  [x EXCEPT !.pipes = retained,
                  !.flowing = @ /\ ~(x.pipes # {} /\ retained = {} /\ ~x.onData)]

\* _prune_readables, as far as this stream goes.
Pruned(x) ==
    LET y == SinksPruned(x, FALSE)
        needed == y.native # "none" \/ y.resumePending \/ y.onReadable
                      \/ (~y.paused /\ y.flowing)
        pipeEnds == /\ y.pipes # {} /\ y.ended /\ ~y.endTold
                    /\ ~y.closeTold /\ ~y.failed
    IN  IF ~x.registered THEN x
        ELSE [y EXCEPT !.registered =
                  pipeEnds \/ (needed /\ ~y.closed /\ ~y.failed /\ ~y.ended)]
-----------------------------------------------------------------------------
(***************************************************************************)
(* The data listeners: PipeSink.write of every pipe, and user code.        *)
(***************************************************************************)

\* PipeSink.write of a chunk: the destination says whether it must drain.
WriteToMutant(s, units, full) ==
    IF ~s.writable \/ s.waiting THEN s
    ELSE [s EXCEPT !.got = @ \o units, !.full = @ \/ full, !.waiting = s.full \/ full]
WriteTo(s, units, full) ==
    IF ~s.writable THEN s
    ELSE [s EXCEPT !.got = @ \o units, !.full = @ \/ full, !.waiting = s.full \/ full]

Written(units, ds, to) ==
    {[d \in Sinks |-> IF d \in ds THEN WriteTo(to[d], units, full[d]) ELSE to[d]] :
        full \in [ds -> BOOLEAN]}

\* A listener raised, or a destination's write did, before these destinations
\* received the units.
KeptFrom(units, ds) ==
    upset' = IF ds = {} THEN upset ELSE [upset EXCEPT !.units = @ \cup ToSet(units)]

\* The data event for n units of x, before loop goes on at after.  A listener
\* of the user may run before those of the pipes; one that reads then has its
\* chunk reach the pipes first.
Emit(x, n, to, after) ==
    LET units == Units(x, n)
        nested == loop.pc = "data"
    IN  /\ stream' = Without(x, n)
        /\ read' = read \o units
        /\ \/ /\ n = 0
              /\ sink' = to /\ loop' = after
              /\ UNCHANGED upset
           \/ /\ n > 0 /\ ~nested
              /\ \E reached \in SUBSET x.pipes :
                    sink' \in Written(units, reached, to) /\ KeptFrom(units, x.pipes \ reached)
              /\ loop' = after
           \/ /\ n > 0 /\ ~nested /\ x.onData /\ x.pipes # {}
              /\ loop' = [after EXCEPT !.pc = "data", !.due = units, !.to = x.pipes,
                                       !.back = after.pc]
              /\ sink' = to
              /\ UNCHANGED upset
           \/ /\ n > 0 /\ nested
              /\ sink' \in Written(units, x.pipes, to)
              /\ upset' = [upset EXCEPT !.order = TRUE]
              /\ loop' = after

\* The user listener that ran first returns or raises.
DataListenerDone ==
    /\ loop.pc = "data"
    /\ \E reached \in SUBSET loop.to :
          sink' \in Written(loop.due, reached, sink) /\ KeptFrom(loop.due, loop.to \ reached)
    /\ loop' = [At(loop.back) EXCEPT !.blocked = loop.blocked]
    /\ UNCHANGED <<stream, read>>
-----------------------------------------------------------------------------
(***************************************************************************)
(* The operations a program calls.                                         *)
(***************************************************************************)

UserTurn == loop.pc # "raising"

\* An operation that begins with prepare; it raises without room.
Operation == UserTurn /\ CanPrepare(stream)

\* read and read_sized; a prepare that raises comes after the threshold grew.
Read(size) ==
    /\ UserTurn
    /\ \/ /\ CanPrepare(stream)
          /\ \E taken \in ReadSized(stream, size) : Emit(taken[1], taken[2], sink, loop)
       \/ /\ ~CanPrepare(stream)
          /\ stream' = Grown(stream, size)
          /\ UNCHANGED <<sink, loop, read, upset>>

Close ==
    /\ Operation
    /\ stream' \in Closes(stream)
    /\ UNCHANGED <<sink, loop, read, upset>>

\* The pause listeners are user code like the caller.
Pause ==
    /\ UserTurn
    /\ stream' = [stream EXCEPT !.paused = TRUE, !.flowing = FALSE]
    /\ UNCHANGED <<sink, loop, read, upset>>

Resume ==
    /\ Operation
    /\ stream' = Resumed(stream)
    /\ UNCHANGED <<sink, loop, read, upset>>

OnData ==
    /\ Operation
    /\ "data" \in Listens /\ ~stream.onData
    /\ LET x == [Activated(stream) EXCEPT !.onData = TRUE]
       IN  stream' = IF x.paused THEN x ELSE Resumed(x)
    /\ UNCHANGED <<sink, loop, read, upset>>

OffData ==
    /\ UserTurn
    /\ stream.onData
    /\ stream' = [stream EXCEPT !.onData = FALSE]
    /\ UNCHANGED <<sink, loop, read, upset>>

OnReadable ==
    /\ Operation
    /\ "readable" \in Listens /\ ~stream.onReadable
    /\ stream' = [Activated(stream) EXCEPT !.onReadable = TRUE, !.flowing = FALSE,
                     !.readablePending = stream.buffer # <<>> \/ stream.eof]
    /\ UNCHANGED <<sink, loop, read, upset>>

OffReadable ==
    /\ UserTurn
    /\ stream.onReadable
    /\ LET x == [stream EXCEPT !.onReadable = FALSE]
       IN  stream' = IF HasDataListeners(x) /\ ~x.paused THEN Resumed(x) ELSE x
    /\ UNCHANGED <<sink, loop, read, upset>>

\* pipe_to and pipe_to_response: _add_pipe.  piped is where in read the
\* destination joins, plus one.
Pipe(d) ==
    /\ UserTurn
    /\ sink[d].piped = 0
    /\ \/ /\ stream.endTold
          /\ HasCapacity(stream.queue)
          /\ stream' = [stream EXCEPT !.queue = Committed(Reserved(@), <<"pipe", d>>)]
       \/ /\ ~stream.endTold /\ ~stream.closed /\ ~stream.failed
          /\ CanPrepare(stream)
          /\ stream' = Resumed([Activated(stream) EXCEPT !.pipes = @ \cup {d}])
    /\ sink' = [sink EXCEPT ![d].piped = Len(read) + 1]
    /\ UNCHANGED <<loop, read, upset>>
-----------------------------------------------------------------------------
(***************************************************************************)
(* The environment.                                                        *)
(***************************************************************************)

\* The native read completes.
NativeCompletes ==
    /\ stream.native = "pending"
    /\ \E result \in ReadResults(stream) : stream' = [stream EXCEPT !.native = result]
    /\ UNCHANGED <<sink, loop, read, upset>>

\* Another stream takes a place in the shared queue, or gives it back.
Others ==
    /\ Foreign
    /\ stream.others \/ HasCapacity(stream.queue)
    /\ stream' = [stream EXCEPT !.others = ~@,
                     !.queue = IF stream.others THEN Released(@) ELSE Reserved(@)]
    /\ UNCHANGED <<sink, loop, read, upset>>

\* The destination takes what it had accepted.
Drain(d) ==
    /\ sink[d].full
    /\ sink' = [sink EXCEPT ![d].full = FALSE]
    /\ UNCHANGED <<stream, loop, read, upset>>

\* The destination fails, is destroyed, or is ended by someone else.
SinkFails(d) ==
    /\ sink[d].writable
    /\ sink' = [sink EXCEPT ![d].writable = FALSE, ![d].full = FALSE]
    /\ UNCHANGED <<stream, loop, read, upset>>
-----------------------------------------------------------------------------
(***************************************************************************)
(* poll_readables for this stream: _poll and _poll_ready.                  *)
(***************************************************************************)

Goes(pc) == loop' = At(pc)

\* _poll of a stream that is over.
PollOver ==
    /\ loop.pc = "idle"
    /\ stream.registered
    /\ stream.failed \/ (stream.closed /\ ~stream.ended)
    /\ stream' = Pruned(SinksPruned(stream, TRUE))
    /\ UNCHANGED <<sink, loop, read, upset>>

\* The rest of _poll_ready in a stream x and destinations that may block it:
\* nothing to do, input only, the readable event, or data.
PollRest(x, blocked) ==
    LET over == blocked \/ x.ended \/ x.closed \/ x.failed
        idle == ~x.onReadable /\ (x.paused \/ ~x.flowing)
        input == IF x.buffer = <<>> \/ x.native # "none" THEN Filled(x) ELSE {x}
    IN  \/ /\ over \/ idle
           /\ stream' \in {Pruned(y) : y \in IF ~over /\ x.native # "none"
                                               THEN Filled(x) ELSE {x}}
           /\ Goes("idle")
           /\ UNCHANGED <<read, upset>>
        \/ /\ ~over /\ ~idle /\ x.onReadable
           /\ \E y \in input :
                 IF y.readablePending
                   THEN stream' = [y EXCEPT !.readablePending = FALSE] /\ Goes("listener")
                   ELSE stream' = Pruned(y) /\ Goes("idle")
           /\ UNCHANGED <<read, upset>>
PollData(x, blocked, to) ==
    /\ ~blocked /\ ~x.ended /\ ~x.closed /\ ~x.failed
    /\ ~x.onReadable /\ ~x.paused /\ x.flowing
    /\ \E y \in IF x.buffer = <<>> \/ x.native # "none" THEN Filled(x) ELSE {x} :
          \E taken \in ReadSized(y, <<>>) :
             IF taken[2] > 0 THEN Emit(taken[1], taken[2], to, At("listener"))
             ELSE /\ stream' = Pruned(taken[1])
                  /\ sink' = to
                  /\ Goes("idle")
                  /\ UNCHANGED <<read, upset>>

\* _poll_ready: prune, ask the destinations, and emit resume if it is due.
ReadyMutant(s) == s
Ready(s) == IF s.waiting THEN [s EXCEPT !.waiting = s.full] ELSE s

PollReady ==
    /\ loop.pc = "idle"
    /\ stream.registered
    /\ ~stream.failed /\ (stream.closed => stream.ended)
    /\ LET x == SinksPruned(stream, FALSE)
           asked == [d \in Sinks |-> IF d \in x.pipes THEN Ready(sink[d]) ELSE sink[d]]
           blocked == \E d \in x.pipes : asked[d].waiting
       IN  \/ /\ x.resumePending
              /\ stream' = [x EXCEPT !.resumePending = FALSE]
              /\ sink' = asked
              /\ loop' = [At("resumed") EXCEPT !.blocked = blocked]
              /\ UNCHANGED <<read, upset>>
           \/ /\ ~x.resumePending
              /\ PollRest(x, blocked)
              /\ sink' = asked
           \/ /\ ~x.resumePending
              /\ PollData(x, blocked, asked)

\* The resume listeners return; blocked is what it was before.
ResumeReturns ==
    /\ loop.pc = "resumed"
    /\ \/ PollRest(stream, loop.blocked) /\ UNCHANGED sink
       \/ PollData(stream, loop.blocked, sink)

\* A data or readable listener returns or raises, or a resume listener raises:
\* either way the poll is over and poll_readables prunes.
ListenerDone ==
    /\ loop.pc \in {"listener", "resumed"}
    /\ stream' = Pruned(stream)
    /\ Goes("idle")
    /\ UNCHANGED <<sink, read, upset>>

\* has_active_readables, in the condition of run_event_loop.
TestActive ==
    /\ loop.pc = "idle"
    /\ stream' = Pruned(stream)
    /\ UNCHANGED <<sink, loop, read, upset>>
-----------------------------------------------------------------------------
(***************************************************************************)
(* poll_streams: the notifications of this stream.                         *)
(***************************************************************************)

\* PipeSink.end of some destinations.
SinkEnded(s) == IF s.writable THEN [s EXCEPT !.ends = @ + 1, !.writable = FALSE, !.full = FALSE]
                ELSE s
SinksEnded(ds) == [d \in Sinks |-> IF d \in ds THEN SinkEnded(sink[d]) ELSE sink[d]]

\* _ReadEvent.invoke of a notification taken from the queue of x.  An end
\* listener that raises may keep the end from the pipes.
Invoked(x, n) ==
    CASE n = <<"event", "end">> ->
            IF x.error THEN stream' = x /\ Goes("notified") /\ UNCHANGED <<sink, upset>>
            ELSE /\ stream' = [x EXCEPT !.endTold = TRUE]
                 /\ \/ sink' = SinksEnded(x.pipes) /\ Goes("notified") /\ UNCHANGED upset
                    \/ Goes("raising") /\ upset' = [upset EXCEPT !.end = TRUE] /\ UNCHANGED sink
      [] n = <<"event", "error">> ->
            /\ stream' = x
            /\ (Goes("notified") \/ Goes("raising"))
            /\ UNCHANGED <<sink, upset>>
      [] n = <<"event", "close">> ->
            /\ stream' = [x EXCEPT !.closeTold = TRUE, !.reservations = {},
                             !.queue = ReleasedAll(@, Cardinality(x.reservations))]
            /\ Goes("notified")
            /\ UNCHANGED <<sink, upset>>
      [] OTHER -> stream' = x /\ sink' = SinksEnded({n[2]}) /\ Goes("notified") /\ UNCHANGED upset

CallNext(x) ==
    /\ Invoked([x EXCEPT !.queue = Dispatched(@)], Head(x.queue.batch))
    /\ UNCHANGED read

PollQueue ==
    /\ loop.pc = "idle"
    /\ CanPoll(stream.queue)
    /\ CallNext([stream EXCEPT !.queue = Started(@)])

NotificationReturns ==
    /\ loop.pc = "notified"
    /\ \/ stream.queue.batch # <<>> /\ CallNext(stream)
       \/ /\ stream.queue.batch = <<>>
          /\ stream' = [stream EXCEPT !.queue = Finished(@)]
          /\ Goes("idle")
          /\ UNCHANGED <<sink, read, upset>>

NotificationRaises ==
    /\ loop.pc \in {"notified", "raising"}
    /\ stream' = [stream EXCEPT !.queue = Retained(@)]
    /\ Goes("idle")
    /\ UNCHANGED <<sink, read, upset>>

Polls == PollOver \/ PollReady \/ ResumeReturns \/ ListenerDone \/ DataListenerDone
Notifies == PollQueue \/ NotificationReturns \/ NotificationRaises

Next ==
    \/ \E size \in {<<>>} \cup {<<n>> : n \in Sizes} : Read(size)
    \/ Close \/ Pause \/ Resume \/ OnData \/ OffData \/ OnReadable \/ OffReadable
    \/ \E d \in Sinks : Pipe(d) \/ Drain(d) \/ SinkFails(d)
    \/ NativeCompletes \/ Others
    \/ Polls
    \/ TestActive
    \/ Notifies

Spec == Init /\ [][Next]_vars

(***************************************************************************)
(* The event loop polls the streams of its list and the queue, listeners   *)
(* end, reads of the descriptor complete and destinations drain.           *)
(***************************************************************************)
FairSpec ==
    /\ Spec
    /\ WF_vars(Polls) /\ WF_vars(Notifies) /\ WF_vars(NativeCompletes)
    /\ \A d \in Sinks : WF_vars(Drain(d))
-----------------------------------------------------------------------------
UpTo(n) == [i \in 1..n |-> i]

\* The units leave the stream in order, without gap or repetition, through
\* sized reads, pauses and both ways of reading.
ReadInOrder ==
    /\ IsPrefix(read, UpTo(stream.got))
    /\ ~stream.closed /\ ~stream.failed => read \o stream.buffer = UpTo(stream.got)

\* docs/streams/piping.md: "Both destinations receive each accepted source
\* chunk" and "an accepted write is never retried": a destination receives
\* what is read after it was added, once, until it is detached, except for a
\* chunk whose listeners were cut short by one that raised.  The order is kept
\* as long as no data listener reads.  "Early source close does not fabricate
\* successful EOF": the end event is queued only when every unit was read, and
\* a destination is ended only for it, once.
PipesComplete ==
    /\ stream.endQueued => read = UpTo(Total)
    /\ \A d \in Sinks : sink[d].ends = 0 \/ (sink[d].ends = 1 /\ stream.endTold)
    /\ \A d \in {e \in Sinks : sink[e].piped > 0} :
           LET got == sink[d].got
               later == ToSet(SubSeq(read, sink[d].piped, Len(read)))
               due == later \ upset.units
           IN  /\ IsInjective(got)
               /\ ToSet(got) \subseteq later
               /\ upset.order \/
                     /\ \A i, j \in DOMAIN got : i < j => got[i] < got[j]
                     /\ \A u \in ToSet(got), v \in due : v < u => v \in ToSet(got)
               /\ d \in stream.pipes /\ sink[d].writable /\ loop.pc # "data"
                     => due \subseteq ToSet(got)

\* A lifecycle event always finds the place that prepare reserved for it.
NeverStarved == ~stream.starved

\* A stream that flows stays on the list the event loop polls: no order of
\* pauses, listeners, pipes and prunings leaves it behind.
KeptByLoop ==
    stream.flowing /\ ~stream.paused /\ ~stream.ended /\ ~stream.closed /\ ~stream.failed
        => stream.registered

\* A pipe comes to its end: the destination is ended, unless it stops being
\* writable, the source is paused, listened to with readable, fails or is
\* closed early, or a raising end listener intervenes.
PipeEnds ==
    \A d \in Sinks :
        d \in stream.pipes ~>
            \/ ~sink[d].writable \/ stream.paused \/ stream.onReadable
            \/ stream.failed \/ stream.error \/ (stream.closed /\ ~stream.ended)
            \/ upset.end
=============================================================================
