----------------------------- MODULE BoundedFifo -----------------------------
(***************************************************************************)
(* What a callback queue promises its users, with nothing of how batches,  *)
(* failures and reentrancy are handled: a first-in first-out queue with    *)
(* room for Limit notifications, in which room can be promised ahead of    *)
(* the notification that will use it.                                      *)
(***************************************************************************)
EXTENDS Naturals, Sequences

CONSTANTS Callbacks,   \* the notifications
          Limit        \* how many may be queued or promised room at once

VARIABLES queue,       \* accepted, not yet called
          promised,    \* how many places are promised and unused
          called       \* in the order they were called

fifoVars == <<queue, promised, called>>

Room == Len(queue) + promised < Limit

FifoInit == queue = <<>> /\ promised = 0 /\ called = <<>>

\* Room for one notification is promised.
Promise ==
    /\ Room
    /\ promised' = promised + 1
    /\ UNCHANGED <<queue, called>>

\* A promise is given back.
Cancel ==
    /\ promised > 0
    /\ promised' = promised - 1
    /\ UNCHANGED <<queue, called>>

\* A promise is used: this never fails for want of room.
Redeem(n) ==
    /\ promised > 0
    /\ promised' = promised - 1
    /\ queue' = Append(queue, n)
    /\ UNCHANGED called

\* A notification is accepted without an earlier promise.
Put(n) ==
    /\ Room
    /\ queue' = Append(queue, n)
    /\ UNCHANGED <<promised, called>>

\* The oldest notification is called, once.
Take ==
    /\ queue # <<>>
    /\ queue' = Tail(queue)
    /\ called' = Append(called, Head(queue))
    /\ UNCHANGED promised

FifoNext ==
    \/ Promise
    \/ Cancel
    \/ Take
    \/ \E n \in Callbacks : Redeem(n) \/ Put(n)

FifoSpec == FifoInit /\ [][FifoNext]_fifoVars
=============================================================================
