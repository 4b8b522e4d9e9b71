---------------------------- MODULE CallbackQueue ----------------------------
(***************************************************************************)
(* internal/callback_queue.mojo as a state machine: one queue, the code    *)
(* that reserves room in it and commits notifications to it, and the poll  *)
(* that calls them.  All of it runs on the event-loop thread, so the only  *)
(* interleaving is reentrancy: while a notification runs, the user code in *)
(* it may call every operation of the queue, poll included.                *)
(***************************************************************************)
EXTENDS NotificationQueue, FiniteSets

CONSTANTS Callbacks,      \* the notifications; each is committed at most once
          Reservations,   \* the CallbackReservation objects
          None            \* no notification is running

ASSUME NoneAssumption == None \notin Callbacks
ASSUME ReservationsAssumption == IsFiniteSet(Reservations)

VARIABLES q,             \* the queue, see NotificationQueue
          reservation,   \* the _ReservationState of each reservation
          running,       \* the notification being called, or None
          accepted,      \* every notification committed so far, in order
          delivered      \* every notification called so far, in order

vars == <<q, reservation, running, accepted, delivered>>

Fresh(n) == \A i \in DOMAIN accepted : accepted[i] # n

Active == {r \in Reservations : reservation[r] = "active"}

Init ==
    /\ q = EmptyQueue
    /\ reservation = [r \in Reservations |-> "unborn"]
    /\ running = None
    /\ accepted = <<>>
    /\ delivered = <<>>

\* CallbackQueue.reserve.  When it raises, nothing changes.
Reserve(r) ==
    /\ reservation[r] = "unborn"
    /\ HasCapacity(q)
    /\ q' = Reserved(q)
    /\ reservation' = [reservation EXCEPT ![r] = "active"]
    /\ UNCHANGED <<running, accepted, delivered>>

\* The last alias of an uncommitted reservation is destroyed.
Drop(r) ==
    /\ reservation[r] = "active"
    /\ q' = Released(q)
    /\ reservation' = [reservation EXCEPT ![r] = "gone"]
    /\ UNCHANGED <<running, accepted, delivered>>

\* CallbackReservation.commit, and defer, which wraps a callback and its
\* arguments and commits the result.  A second commit through another alias
\* raises and changes nothing.
CommitMutant(r, n) ==
    /\ reservation[r] = "active"
    /\ Fresh(n)
    /\ q' = Committed(q, n)
    /\ accepted' = Append(accepted, n)
    /\ UNCHANGED <<reservation, running, delivered>>
Commit(r, n) ==
    /\ reservation[r] = "active"
    /\ Fresh(n)
    /\ q' = Committed(q, n)
    /\ reservation' = [reservation EXCEPT ![r] = "gone"]
    /\ accepted' = Append(accepted, n)
    /\ UNCHANGED <<running, delivered>>

\* CallbackQueue.push, and CallbackQueue.defer: reserve and commit at once.
Push(n) ==
    /\ Fresh(n)
    /\ HasCapacity(q)
    /\ q' = Committed(Reserved(q), n)
    /\ accepted' = Append(accepted, n)
    /\ UNCHANGED <<reservation, running, delivered>>

\* The poll loop goes on to the next notification of the batch of p.
CallNext(p) ==
    /\ running' = Head(p.batch)
    /\ delivered' = Append(delivered, Head(p.batch))
    /\ q' = Dispatched(p)

\* CallbackQueue.poll up to its first call.  A poll inside a notification,
\* or with nothing pending, returns False and changes nothing.
Poll ==
    /\ CanPoll(q)
    /\ CallNext(Started(q))
    /\ UNCHANGED <<reservation, accepted>>

\* The running notification returns: the next of the batch, or end of poll.
Return ==
    /\ running # None
    /\ \/ q.batch # <<>> /\ CallNext(q)
       \/ /\ q.batch = <<>>
          /\ q' = Finished(q)
          /\ running' = None
          /\ UNCHANGED delivered
    /\ UNCHANGED <<reservation, accepted>>

\* The running notification raises, and so does poll.
Raise ==
    /\ running # None
    /\ q' = Retained(q)
    /\ running' = None
    /\ UNCHANGED <<reservation, accepted, delivered>>

Next ==
    \/ \E r \in Reservations : Reserve(r) \/ Drop(r)
    \/ \E r \in Reservations, n \in Callbacks : Commit(r, n)
    \/ \E n \in Callbacks : Push(n)
    \/ Poll
    \/ Return
    \/ Raise

Spec == Init /\ [][Next]_vars

(***************************************************************************)
(* The event loop polls as long as something is pending (event_loop.mojo)  *)
(* and user callbacks end, one way or the other.  An application whose     *)
(* callback raised is assumed to enter the loop again.                     *)
(***************************************************************************)
FairSpec == Spec /\ WF_vars(Poll) /\ WF_vars(Return \/ Raise)
-----------------------------------------------------------------------------
\* The shape of the state.
TypeOK ==
    /\ q \in [pending : Seq(Callbacks), batch : Seq(Callbacks),
              committed : Nat, reserved : Nat, polling : BOOLEAN]
    /\ reservation \in [Reservations -> {"unborn", "active", "gone"}]
    /\ running \in Callbacks \cup {None}
    /\ accepted \in Seq(Callbacks)
    /\ delivered \in Seq(Callbacks)

\* The two counters that require_capacity adds up are exact in every state,
\* in the middle of a batch, after a failed batch and after an abandoned
\* reservation alike: committed counts the notifications not yet called, and
\* reserved the reservations still outstanding.
CountersExact ==
    /\ q.committed = Len(q.pending) + Len(q.batch)
    /\ q.reserved = Cardinality(Active)

\* The finite limit holds for what really is outstanding, not only for the
\* counters: notifications waiting anywhere plus live reservations.
WithinLimit == Len(q.pending) + Len(q.batch) + Cardinality(Active) <= Limit

\* Nothing is lost, duplicated or overtaken: what was called, then the rest
\* of the running batch, then the pending list spell out the commit order.
\* This is README.md's "later queued completions are retained ahead of
\* callbacks enqueued during that invocation".
CommitOrder == accepted = delivered \o (q.batch \o q.pending)

\* poll's reentrancy guard is set exactly while a notification runs, and
\* outside a poll no batch is left behind.
GuardMatchesPoll ==
    /\ q.polling <=> running # None
    /\ running = None => q.batch = <<>>

\* Every committed notification is eventually called, whatever fails.
EventuallyCalled ==
    \A n \in Callbacks :
        (\E i \in DOMAIN accepted : accepted[i] = n)
            ~> (\E i \in DOMAIN delivered : delivered[i] = n)

\* The queue implements the bounded FIFO its users rely on: batches, the
\* reinsertion after a failure and the counters are invisible outside.
Fifo == INSTANCE BoundedFifo
            WITH queue <- q.batch \o q.pending,
                 promised <- Cardinality(Active),
                 called <- delivered

ImplementsFifo == Fifo!FifoSpec
=============================================================================
