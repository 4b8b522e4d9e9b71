------------------------- MODULE NotificationQueue -------------------------
(***************************************************************************)
(* The operations of internal/callback_queue.mojo as functions of a queue  *)
(* value.  Every runtime feature that delivers callbacks (streams, DNS,    *)
(* compression, readline, sockets) keeps its own copy of this structure,   *)
(* so the specifications of those features use these operators on a        *)
(* variable of their own.                                                  *)
(*                                                                         *)
(* A queue value is _QueueState plus the local list of _poll_batch:        *)
(*   pending    committed notifications, in commit order                   *)
(*   batch      what the running _poll_batch has still to call             *)
(*   committed  the counter of notifications not yet called                *)
(*   reserved   the counter of reservations not yet committed or dropped   *)
(*   polling    a poll is in progress                                      *)
(* Operators named ...Mutant are deliberately wrong variants.              *)
(***************************************************************************)
EXTENDS Integers, Sequences

CONSTANT Limit   \* the queue's finite capacity (1 << 20 in the runtime)

ASSUME LimitAssumption == Limit \in Nat

\* CallbackQueue.__init__
EmptyQueue ==
    [pending |-> <<>>, batch |-> <<>>, committed |-> 0, reserved |-> 0,
     polling |-> FALSE]

\* CallbackQueue.require_capacity does not raise.
HasCapacityMutant(q) == q.committed < Limit
HasCapacity(q) == q.committed + q.reserved < Limit

\* CallbackQueue.reserve, once require_capacity has passed.
Reserved(q) == [q EXCEPT !.reserved = @ + 1]

\* _ReservationState.__deinit__ of a reservation that is still active.
Released(q) == [q EXCEPT !.reserved = @ - 1]

\* CallbackReservation.commit of a reservation that is still active.
CommittedMutant(q, n) ==
    [q EXCEPT !.committed = @ + 1, !.pending = Append(@, n)]
Committed(q, n) ==
    [q EXCEPT !.reserved = @ - 1,
              !.committed = @ + 1,
              !.pending = Append(@, n)]

\* Several reservations, then several commits, in a row.
HasRoomFor(q, n) == q.committed + q.reserved + n <= Limit
ReservedAll(q, n) == [q EXCEPT !.reserved = @ + n]
ReleasedAll(q, n) == [q EXCEPT !.reserved = @ - n]
CommittedAll(q, ns) ==
    [q EXCEPT !.reserved = @ - Len(ns),
              !.committed = @ + Len(ns),
              !.pending = @ \o ns]

\* CallbackQueue.poll does not return early.
CanPoll(q) == ~q.polling /\ q.pending # <<>>

\* poll sets polling and _poll_batch swaps the pending list out.
Started(q) ==
    [q EXCEPT !.polling = TRUE, !.batch = q.pending, !.pending = <<>>]

\* _poll_batch takes the next notification of its list, uncounting it first.
DispatchedMutant(q) == [q EXCEPT !.batch = Tail(@)]
Dispatched(q) == [q EXCEPT !.committed = @ - 1, !.batch = Tail(@)]

\* _poll_batch has called its last notification; poll's finally clause.
Finished(q) == [q EXCEPT !.polling = FALSE]

\* A notification raised: _poll_batch puts what it has not called yet ahead
\* of what was committed meanwhile; then poll's finally clause.
RetainedMutant(q) ==
    [q EXCEPT !.pending = @ \o q.batch, !.batch = <<>>, !.polling = FALSE]
RetainedStuckMutant(q) ==
    [q EXCEPT !.pending = q.batch \o @, !.batch = <<>>]
Retained(q) ==
    [q EXCEPT !.pending = q.batch \o @, !.batch = <<>>, !.polling = FALSE]
=============================================================================
