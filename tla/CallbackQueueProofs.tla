------------------------- MODULE CallbackQueueProofs -------------------------
(***************************************************************************)
(* Proofs about CallbackQueue for every limit, every set of notifications  *)
(* and every finite set of reservations.                                   *)
(*                                                                         *)
(* The inductive invariant is the conjunction of the invariants TLC checks,*)
(* with the limit stated for the counters.  The parts need each other:     *)
(* TypeOK needs CountersExact, since a counter is a natural number only    *)
(* because a place is released no more often than it was taken;            *)
(* CommitOrder needs GuardMatchesPoll, since the swap of a new batch would *)
(* lose an old one that was still in progress; and WithinLimit needs       *)
(* CountersExact, since require_capacity compares the counters only.       *)
(***************************************************************************)
EXTENDS CallbackQueue, FiniteSetTheorems, SequenceTheorems, TLAPS

\* What require_capacity really compares with the limit: the counters.
CountersWithin == q.committed + q.reserved <= Limit

IInv ==
    /\ TypeOK
    /\ CountersExact
    /\ CountersWithin
    /\ CommitOrder
    /\ GuardMatchesPoll

\* The outstanding reservations are finitely many, so their number, which the
\* reserved counter stands for, is a natural number.
LEMMA ActiveFinite ==
    ASSUME TRUE
    PROVE  IsFiniteSet(Active) /\ Cardinality(Active) \in Nat
<1>1. Active \in SUBSET Reservations
    BY DEF Active
<1>2. IsFiniteSet(Active)
    BY <1>1, ReservationsAssumption, FS_Subset
<1>. QED
    BY <1>2, FS_CardinalityType

\* A reservation that CallbackQueue.reserve creates adds one to the
\* outstanding ones.
LEMMA ActiveBorn ==
    ASSUME TypeOK, NEW r \in Reservations, reservation[r] = "unborn",
           reservation' = [reservation EXCEPT ![r] = "active"]
    PROVE  Cardinality(Active') = Cardinality(Active) + 1
<1>1. Active' = Active \cup {r} /\ r \notin Active
    BY DEF Active, TypeOK
<1>. QED
    BY <1>1, ActiveFinite, FS_AddElement, Zenon

\* A reservation that is committed or destroyed takes one from the
\* outstanding ones, of which there was at least that one.
LEMMA ActiveGone ==
    ASSUME TypeOK, NEW r \in Reservations, reservation[r] = "active",
           reservation' = [reservation EXCEPT ![r] = "gone"]
    PROVE  Cardinality(Active') = Cardinality(Active) - 1 /\ Cardinality(Active) >= 1
<1>1. Active' = Active \ {r} /\ r \in Active
    BY DEF Active, TypeOK
<1>2. Cardinality(Active') = Cardinality(Active) - 1
    BY <1>1, ActiveFinite, FS_RemoveElement, Zenon
<1>3. IsFiniteSet(Active')
    BY <1>1, ActiveFinite, FS_RemoveElement, Zenon
<1>4. Cardinality(Active') \in Nat
    BY <1>3, FS_CardinalityType, Zenon
<1>. QED
    BY <1>2, <1>4, ActiveFinite

\* A commit at the end of the pending list is a commit at the end of
\* everything that is still to be called.
LEMMA AppendAtEnd ==
    ASSUME NEW d \in Seq(Callbacks), NEW b \in Seq(Callbacks),
           NEW p \in Seq(Callbacks), NEW n \in Callbacks
    PROVE  Append(d \o (b \o p), n) = d \o (b \o Append(p, n))
<1>1. <<n>> \in Seq(Callbacks) /\ b \o p \in Seq(Callbacks) /\ p \o <<n>> \in Seq(Callbacks)
    BY ConcatProperties
<1>2. Append(p, n) = p \o <<n>> /\ Append(b \o p, n) = (b \o p) \o <<n>>
    BY <1>1, AppendIsConcat
<1>3. (b \o p) \o <<n>> = b \o (p \o <<n>>)
    BY <1>1, ConcatAssociative
<1>4. d \o (b \o p) \in Seq(Callbacks)
    BY <1>1, ConcatProperties
<1>5. Append(d \o (b \o p), n) = (d \o (b \o p)) \o <<n>>
    BY <1>4, AppendIsConcat
<1>6. (d \o (b \o p)) \o <<n>> = d \o ((b \o p) \o <<n>>)
    BY <1>1, ConcatAssociative
<1>. QED
    BY <1>2, <1>3, <1>5, <1>6

\* A non-empty batch is its head followed by its tail.
LEMMA SplitHead ==
    ASSUME NEW b \in Seq(Callbacks), b # <<>>
    PROVE  /\ Head(b) \in Callbacks
           /\ Tail(b) \in Seq(Callbacks)
           /\ Len(Tail(b)) = Len(b) - 1
           /\ <<Head(b)>> \in Seq(Callbacks)
           /\ b = <<Head(b)>> \o Tail(b)
<1>1. Head(b) \in Callbacks /\ Tail(b) \in Seq(Callbacks) /\ Len(Tail(b)) = Len(b) - 1
    BY HeadTailProperties
<1>2. <<Head(b)>> \in Seq(Callbacks) /\ b = <<Head(b)>> \o Tail(b)
    BY <1>1
<1>. QED
    BY <1>1, <1>2

\* What is still to be called, batch before pending, begins with the head of
\* the batch.
LEMMA HeadFirst ==
    ASSUME NEW b \in Seq(Callbacks), NEW p \in Seq(Callbacks), b # <<>>
    PROVE  b \o p = <<Head(b)>> \o (Tail(b) \o p) /\ Tail(b) \o p \in Seq(Callbacks)
BY SplitHead, ConcatAssociative, ConcatProperties

\* Calling the head of a batch moves it from the front of what is to be
\* called to the end of what was called.
LEMMA MoveHead ==
    ASSUME NEW d \in Seq(Callbacks), NEW b \in Seq(Callbacks),
           NEW p \in Seq(Callbacks), b # <<>>
    PROVE  d \o (b \o p) = Append(d, Head(b)) \o (Tail(b) \o p)
<1> DEFINE h == <<Head(b)>>
           u == Tail(b) \o p
<1>1. h \in Seq(Callbacks) /\ u \in Seq(Callbacks) /\ b \o p = h \o u
    BY SplitHead, HeadFirst
<1>2. Append(d, Head(b)) = d \o h
    BY SplitHead, AppendIsConcat
<1> HIDE DEF h, u
<1>3. (d \o h) \o u = d \o (h \o u)
    BY <1>1, ConcatAssociative
<1>4. d \o (b \o p) = Append(d, Head(b)) \o u
    BY <1>1, <1>2, <1>3
<1>. QED
    BY <1>4 DEF u
-----------------------------------------------------------------------------
\* The poll loop's step to the next notification of a non-empty batch keeps
\* every part of the invariant, whatever the batch it starts from: p is the
\* queue of the step before, or the one with the pending list just swapped in.
LEMMA CallNextPreserves ==
    ASSUME TypeOK,
           NEW p \in [pending : Seq(Callbacks), batch : Seq(Callbacks),
                      committed : Nat, reserved : Nat, polling : BOOLEAN],
           p.batch # <<>>,
           p.polling,
           p.committed = Len(p.pending) + Len(p.batch),
           p.reserved = Cardinality(Active),
           p.committed + p.reserved <= Limit,
           accepted = delivered \o (p.batch \o p.pending),
           CallNext(p),
           UNCHANGED <<reservation, accepted>>
    PROVE  IInv'
<1>1. /\ q' = [p EXCEPT !.committed = @ - 1, !.batch = Tail(@)]
      /\ running' = Head(p.batch)
      /\ delivered' = Append(delivered, Head(p.batch))
    BY DEF CallNext, Dispatched
<1>2. /\ Head(p.batch) \in Callbacks
      /\ Tail(p.batch) \in Seq(Callbacks)
      /\ Len(Tail(p.batch)) = Len(p.batch) - 1
      /\ Append(delivered, Head(p.batch)) \in Seq(Callbacks)
      /\ delivered \o (p.batch \o p.pending)
            = Append(delivered, Head(p.batch)) \o (Tail(p.batch) \o p.pending)
    <2>1. p.batch \in Seq(Callbacks) /\ p.pending \in Seq(Callbacks)
        OBVIOUS
    <2>2. delivered \in Seq(Callbacks)
        BY DEF TypeOK
    <2> DEFINE b == p.batch
               e == p.pending
    <2>3. b \in Seq(Callbacks) /\ e \in Seq(Callbacks) /\ b # <<>>
        BY <2>1
    <2> HIDE DEF b, e
    <2>4. /\ Head(b) \in Callbacks
          /\ Tail(b) \in Seq(Callbacks)
          /\ Len(Tail(b)) = Len(b) - 1
        BY <2>3, SplitHead
    <2>5. Append(delivered, Head(b)) \in Seq(Callbacks)
        BY <2>2, <2>4
    <2>6. delivered \o (b \o e) = Append(delivered, Head(b)) \o (Tail(b) \o e)
        BY <2>2, <2>3, MoveHead, Zenon
    <2>. QED
        BY <2>4, <2>5, <2>6, Zenon DEF b, e
<1>3. Len(p.batch) \in Nat /\ Len(p.pending) \in Nat /\ Len(p.batch) >= 1
    BY LenProperties, EmptySeq
<1>4. /\ q'.pending = p.pending
      /\ q'.batch = Tail(p.batch)
      /\ q'.committed = p.committed - 1
      /\ q'.reserved = p.reserved
      /\ q'.polling = p.polling
    BY <1>1
<1>5. q' \in [pending : Seq(Callbacks), batch : Seq(Callbacks),
               committed : Nat, reserved : Nat, polling : BOOLEAN]
    <2>1. p.committed - 1 \in Nat
        BY <1>3
    <2> DEFINE t == Tail(p.batch)
               c == p.committed - 1
    <2>2. t \in Seq(Callbacks) /\ c \in Nat /\ q' = [p EXCEPT !.committed = c, !.batch = t]
        BY <2>1, <1>1, <1>2
    <2> HIDE DEF t, c
    <2>. QED
        BY <2>2
<1>6. TypeOK'
    BY <1>1, <1>2, <1>5 DEF TypeOK
<1>7. Active' = Active
    BY DEF Active
<1>8. CountersExact'
    BY <1>2, <1>3, <1>4, <1>7 DEF CountersExact
<1>9. CountersWithin'
    BY <1>3, <1>4, ActiveFinite, LimitAssumption DEF CountersWithin
<1>10. CommitOrder'
    BY <1>1, <1>2, <1>4 DEF CommitOrder
<1>11. GuardMatchesPoll'
    BY <1>1, <1>2, <1>4, NoneAssumption DEF GuardMatchesPoll
<1>. QED
    BY <1>6, <1>8, <1>9, <1>10, <1>11 DEF IInv

\* reserve adds a place to the counter and an object to the outstanding
\* ones, within the limit because require_capacity passed.
LEMMA ReservePreserves ==
    ASSUME IInv, NEW r \in Reservations, Reserve(r)
    PROVE  IInv'
<1>1. /\ q' = [q EXCEPT !.reserved = @ + 1]
      /\ q.committed + q.reserved < Limit
      /\ UNCHANGED <<running, accepted, delivered>>
    BY DEF Reserve, Reserved, HasCapacity
<1>2. Cardinality(Active') = Cardinality(Active) + 1
    BY ActiveBorn DEF IInv, Reserve
<1>3. /\ q'.pending = q.pending /\ q'.batch = q.batch /\ q'.polling = q.polling
      /\ q'.committed = q.committed /\ q'.reserved = q.reserved + 1
    BY <1>1 DEF IInv, TypeOK
<1>4. TypeOK'
    <2> DEFINE c == q.reserved + 1
    <2>1. c \in Nat /\ q' = [q EXCEPT !.reserved = c]
        BY <1>1 DEF IInv, TypeOK
    <2> HIDE DEF c
    <2>2. q' \in [pending : Seq(Callbacks), batch : Seq(Callbacks),
                  committed : Nat, reserved : Nat, polling : BOOLEAN]
        BY <2>1 DEF IInv, TypeOK
    <2>. QED
        BY <1>1, <2>2 DEF IInv, TypeOK, Reserve
<1>5. CountersExact'
    BY <1>2, <1>3 DEF IInv, CountersExact
<1>6. CountersWithin'
    BY <1>1, <1>3, LimitAssumption DEF IInv, CountersWithin, TypeOK
<1>7. CommitOrder' /\ GuardMatchesPoll'
    BY <1>1, <1>3 DEF IInv, CommitOrder, GuardMatchesPoll
<1>. QED
    BY <1>4, <1>5, <1>6, <1>7 DEF IInv

\* Destroying an unused reservation gives its place back, once.
LEMMA DropPreserves ==
    ASSUME IInv, NEW r \in Reservations, Drop(r)
    PROVE  IInv'
<1>1. /\ q' = [q EXCEPT !.reserved = @ - 1]
      /\ UNCHANGED <<running, accepted, delivered>>
    BY DEF Drop, Released
<1>2. Cardinality(Active') = Cardinality(Active) - 1 /\ Cardinality(Active) >= 1
    BY ActiveGone DEF IInv, Drop
<1>3. /\ q'.pending = q.pending /\ q'.batch = q.batch /\ q'.polling = q.polling
      /\ q'.committed = q.committed /\ q'.reserved = q.reserved - 1
    BY <1>1 DEF IInv, TypeOK
<1>4. q.reserved - 1 \in Nat
    BY <1>2 DEF IInv, CountersExact, TypeOK
<1>5. TypeOK'
    <2> DEFINE c == q.reserved - 1
    <2>1. c \in Nat /\ q' = [q EXCEPT !.reserved = c]
        BY <1>1, <1>4
    <2> HIDE DEF c
    <2>2. q' \in [pending : Seq(Callbacks), batch : Seq(Callbacks),
                  committed : Nat, reserved : Nat, polling : BOOLEAN]
        BY <2>1 DEF IInv, TypeOK
    <2>. QED
        BY <1>1, <2>2 DEF IInv, TypeOK, Drop
<1>6. CountersExact'
    BY <1>2, <1>3 DEF IInv, CountersExact
<1>7. CountersWithin'
    BY <1>3, LimitAssumption DEF IInv, CountersWithin, TypeOK
<1>8. CommitOrder' /\ GuardMatchesPoll'
    BY <1>1, <1>3 DEF IInv, CommitOrder, GuardMatchesPoll
<1>. QED
    BY <1>5, <1>6, <1>7, <1>8 DEF IInv

\* What commit does to the lists, common to commit through a reservation and
\* to push: the commit order is extended at its end.
LEMMA AppendKeepsOrder ==
    ASSUME IInv, NEW n \in Callbacks,
           q'.pending = Append(q.pending, n), q'.batch = q.batch,
           accepted' = Append(accepted, n), UNCHANGED delivered
    PROVE  /\ CommitOrder'
           /\ q'.pending \in Seq(Callbacks)
           /\ accepted' \in Seq(Callbacks)
           /\ Len(q'.pending) = Len(q.pending) + 1
<1>1. /\ q.pending \in Seq(Callbacks) /\ q.batch \in Seq(Callbacks)
      /\ delivered \in Seq(Callbacks) /\ accepted \in Seq(Callbacks)
    BY DEF IInv, TypeOK
<1> DEFINE b == q.batch
           e == q.pending
           d == delivered
<1>2. b \in Seq(Callbacks) /\ e \in Seq(Callbacks) /\ d \in Seq(Callbacks)
    BY <1>1
<1>3. accepted = d \o (b \o e)
    BY DEF IInv, CommitOrder
<1> HIDE DEF b, e, d
<1>4. Append(d \o (b \o e), n) = d \o (b \o Append(e, n))
    BY <1>2, AppendAtEnd
<1>5. accepted' = delivered' \o (q'.batch \o q'.pending)
    BY <1>3, <1>4, Zenon DEF b, e, d
<1>. QED
    BY <1>1, <1>5, AppendProperties DEF CommitOrder

\* commit turns an outstanding reservation into a pending notification: the
\* two counters change together, so there is always room.
LEMMA CommitPreserves ==
    ASSUME IInv, NEW r \in Reservations, NEW n \in Callbacks, Commit(r, n)
    PROVE  IInv'
<1>1. /\ q' = [q EXCEPT !.reserved = @ - 1, !.committed = @ + 1,
                        !.pending = Append(@, n)]
      /\ accepted' = Append(accepted, n)
      /\ UNCHANGED <<running, delivered>>
    BY DEF Commit, Committed
<1>2. Cardinality(Active') = Cardinality(Active) - 1 /\ Cardinality(Active) >= 1
    BY ActiveGone DEF IInv, Commit
<1>3. /\ q'.pending = Append(q.pending, n) /\ q'.batch = q.batch
      /\ q'.committed = q.committed + 1 /\ q'.reserved = q.reserved - 1
      /\ q'.polling = q.polling
    BY <1>1 DEF IInv, TypeOK
<1>4. /\ CommitOrder' /\ q'.pending \in Seq(Callbacks) /\ accepted' \in Seq(Callbacks)
      /\ Len(q'.pending) = Len(q.pending) + 1
    BY <1>1, <1>3, AppendKeepsOrder
<1>5. q.reserved - 1 \in Nat /\ q.committed + 1 \in Nat
    BY <1>2 DEF IInv, CountersExact, TypeOK
<1>6. TypeOK'
    <2> DEFINE c == q.committed + 1
               d == q.reserved - 1
               e == Append(q.pending, n)
    <2>1. /\ c \in Nat /\ d \in Nat /\ e \in Seq(Callbacks)
          /\ q' = [q EXCEPT !.reserved = d, !.committed = c, !.pending = e]
        BY <1>1, <1>3, <1>4, <1>5
    <2> HIDE DEF c, d, e
    <2>2. q' \in [pending : Seq(Callbacks), batch : Seq(Callbacks),
                  committed : Nat, reserved : Nat, polling : BOOLEAN]
        BY <2>1 DEF IInv, TypeOK
    <2>. QED
        BY <1>1, <1>4, <2>2 DEF IInv, TypeOK, Commit
<1>7. CountersExact'
    <2>1. Len(q.pending) \in Nat /\ Len(q.batch) \in Nat
        BY LenProperties DEF IInv, TypeOK
    <2>2. q.committed = Len(q.pending) + Len(q.batch) /\ q.reserved = Cardinality(Active)
        BY DEF IInv, CountersExact
    <2>3. /\ q'.committed = q.committed + 1 /\ q'.reserved = q.reserved - 1
          /\ Len(q'.pending) = Len(q.pending) + 1 /\ Len(q'.batch) = Len(q.batch)
        BY <1>3, <1>4
    <2> DEFINE x == Len(q.pending)
               y == Len(q.batch)
               z == Len(q'.pending)
    <2>4. /\ x \in Nat /\ y \in Nat /\ z = x + 1 /\ q.committed = x + y
          /\ q'.committed = q.committed + 1
        BY <2>1, <2>2, <2>3
    <2> HIDE DEF x, y, z
    <2>5. q'.committed = z + y
        BY <2>4
    <2>6. q'.committed = Len(q'.pending) + Len(q'.batch)
        BY <2>3, <2>5, Zenon DEF y, z
    <2>7. q'.reserved = Cardinality(Active')
        BY <2>2, <2>3, <1>2
    <2>. QED
        BY <2>6, <2>7, Zenon DEF CountersExact
<1>8. CountersWithin'
    BY <1>3, LimitAssumption DEF IInv, CountersWithin, TypeOK
<1>9. GuardMatchesPoll'
    BY <1>1, <1>3 DEF IInv, GuardMatchesPoll
<1>. QED
    BY <1>4, <1>6, <1>7, <1>8, <1>9 DEF IInv

\* push is reserve and commit in one step.
LEMMA PushPreserves ==
    ASSUME IInv, NEW n \in Callbacks, Push(n)
    PROVE  IInv'
<1>1. /\ q' = [[q EXCEPT !.reserved = @ + 1]
                  EXCEPT !.reserved = @ - 1, !.committed = @ + 1,
                         !.pending = Append(@, n)]
      /\ q.committed + q.reserved < Limit
      /\ accepted' = Append(accepted, n)
      /\ UNCHANGED <<reservation, running, delivered>>
    BY DEF Push, Committed, Reserved, HasCapacity
<1>2. /\ q'.pending = Append(q.pending, n) /\ q'.batch = q.batch
      /\ q'.committed = q.committed + 1 /\ q'.reserved = (q.reserved + 1) - 1
      /\ q'.polling = q.polling
    BY <1>1 DEF IInv, TypeOK
<1>3. q.reserved \in Nat /\ (q.reserved + 1) - 1 = q.reserved /\ q.committed + 1 \in Nat
    BY DEF IInv, TypeOK
<1>4. /\ CommitOrder' /\ q'.pending \in Seq(Callbacks) /\ accepted' \in Seq(Callbacks)
      /\ Len(q'.pending) = Len(q.pending) + 1
    BY <1>1, <1>2, AppendKeepsOrder
<1>5. TypeOK'
    <2> DEFINE c == q.committed + 1
               d == (q.reserved + 1) - 1
               e == Append(q.pending, n)
    <2>1. /\ c \in Nat /\ d \in Nat /\ e \in Seq(Callbacks)
          /\ q' = [q EXCEPT !.reserved = d, !.committed = c, !.pending = e]
        BY <1>1, <1>2, <1>3, <1>4 DEF IInv, TypeOK
    <2> HIDE DEF c, d, e
    <2>2. q' \in [pending : Seq(Callbacks), batch : Seq(Callbacks),
                  committed : Nat, reserved : Nat, polling : BOOLEAN]
        BY <2>1 DEF IInv, TypeOK
    <2>. QED
        BY <1>1, <1>4, <2>2 DEF IInv, TypeOK
<1>6. Active' = Active
    BY <1>1 DEF Active
<1>7. CountersExact'
    <2>1. Len(q.pending) \in Nat /\ Len(q.batch) \in Nat
        BY LenProperties DEF IInv, TypeOK
    <2>2. q.committed = Len(q.pending) + Len(q.batch) /\ q.reserved = Cardinality(Active)
        BY DEF IInv, CountersExact
    <2>3. /\ q'.committed = q.committed + 1 /\ q'.reserved = q.reserved
          /\ Len(q'.pending) = Len(q.pending) + 1 /\ Len(q'.batch) = Len(q.batch)
        BY <1>2, <1>3, <1>4
    <2> DEFINE x == Len(q.pending)
               y == Len(q.batch)
               z == Len(q'.pending)
    <2>4. /\ x \in Nat /\ y \in Nat /\ z = x + 1 /\ q.committed = x + y
          /\ q'.committed = q.committed + 1
        BY <2>1, <2>2, <2>3
    <2> HIDE DEF x, y, z
    <2>5. q'.committed = z + y
        BY <2>4
    <2>6. q'.committed = Len(q'.pending) + Len(q'.batch)
        BY <2>3, <2>5, Zenon DEF y, z
    <2>7. q'.reserved = Cardinality(Active')
        BY <2>2, <2>3, <1>6
    <2>. QED
        BY <2>6, <2>7, Zenon DEF CountersExact
<1>8. CountersWithin'
    BY <1>1, <1>2, <1>3, LimitAssumption DEF IInv, CountersWithin, TypeOK
<1>9. GuardMatchesPoll'
    BY <1>1, <1>2 DEF IInv, GuardMatchesPoll
<1>. QED
    BY <1>4, <1>5, <1>7, <1>8, <1>9 DEF IInv

\* poll starts a batch only when none is in progress, so the swap loses
\* nothing.
LEMMA PollPreserves ==
    ASSUME IInv, Poll
    PROVE  IInv'
<1> DEFINE p == Started(q)
<1>1. /\ ~q.polling /\ q.pending # <<>> /\ CallNext(p)
      /\ UNCHANGED <<reservation, accepted>>
    BY DEF Poll, CanPoll
<1>2. q.batch = <<>>
    BY <1>1 DEF IInv, GuardMatchesPoll
<1>3. /\ p \in [pending : Seq(Callbacks), batch : Seq(Callbacks),
                committed : Nat, reserved : Nat, polling : BOOLEAN]
      /\ p.pending = <<>> /\ p.batch = q.pending /\ p.polling = TRUE
      /\ p.committed = q.committed /\ p.reserved = q.reserved
    <2> DEFINE z == <<>>
               e == q.pending
    <2>1. /\ z \in Seq(Callbacks) /\ e \in Seq(Callbacks)
          /\ p = [q EXCEPT !.polling = TRUE, !.batch = e, !.pending = z]
        BY DEF Started, IInv, TypeOK
    <2> HIDE DEF z, e, p
    <2>2. p \in [pending : Seq(Callbacks), batch : Seq(Callbacks),
                 committed : Nat, reserved : Nat, polling : BOOLEAN]
        BY <2>1 DEF IInv, TypeOK
    <2>3. /\ p.pending = z /\ p.batch = e /\ p.polling = TRUE
          /\ p.committed = q.committed /\ p.reserved = q.reserved
        BY <2>1 DEF IInv, TypeOK
    <2>. QED
        BY <2>2, <2>3 DEF z, e
<1> HIDE DEF p
<1>4. Len(p.pending) = 0 /\ Len(q.batch) = 0 /\ Len(q.pending) \in Nat
    BY <1>2, <1>3, LenProperties DEF IInv, TypeOK
<1>5. p.committed = Len(p.pending) + Len(p.batch) /\ p.reserved = Cardinality(Active)
    BY <1>3, <1>4 DEF IInv, CountersExact
<1>6. p.committed + p.reserved <= Limit
    BY <1>3 DEF IInv, CountersWithin
<1>7. accepted = delivered \o (p.batch \o p.pending)
    <2> DEFINE e == q.pending
    <2>1. e \in Seq(Callbacks) /\ accepted = delivered \o (<<>> \o e)
        BY <1>2 DEF IInv, CommitOrder, TypeOK
    <2> HIDE DEF e
    <2>2. <<>> \o e = e /\ e \o <<>> = e
        BY <2>1, ConcatEmptySeq
    <2>3. accepted = delivered \o (e \o <<>>)
        BY <2>1, <2>2
    <2>. QED
        BY <2>3, <1>3, Zenon DEF e
<1>. QED
    BY <1>1, <1>3, <1>5, <1>6, <1>7, CallNextPreserves DEF IInv

\* When a notification returns, the poll goes on with its batch or ends.
LEMMA ReturnPreserves ==
    ASSUME IInv, Return
    PROVE  IInv'
<1>1. running # None /\ UNCHANGED <<reservation, accepted>>
    BY DEF Return
<1>2. CASE q.batch # <<>> /\ CallNext(q)
    <2>1. /\ q \in [pending : Seq(Callbacks), batch : Seq(Callbacks),
                    committed : Nat, reserved : Nat, polling : BOOLEAN]
          /\ q.polling
          /\ q.committed = Len(q.pending) + Len(q.batch)
          /\ q.reserved = Cardinality(Active)
          /\ q.committed + q.reserved <= Limit
          /\ accepted = delivered \o (q.batch \o q.pending)
        BY <1>1 DEF IInv, TypeOK, GuardMatchesPoll, CountersExact, CountersWithin, CommitOrder
    <2>2. TypeOK
        BY DEF IInv
    <2>. QED
        BY <1>1, <1>2, <2>1, <2>2, CallNextPreserves
<1>3. CASE /\ q.batch = <<>>
           /\ q' = Finished(q)
           /\ running' = None
           /\ UNCHANGED delivered
    <2>1. /\ q' \in [pending : Seq(Callbacks), batch : Seq(Callbacks),
                     committed : Nat, reserved : Nat, polling : BOOLEAN]
          /\ q'.pending = q.pending /\ q'.batch = q.batch /\ q'.polling = FALSE
          /\ q'.committed = q.committed /\ q'.reserved = q.reserved
        BY <1>3 DEF Finished, IInv, TypeOK
    <2>2. TypeOK'
        BY <1>1, <1>3, <2>1 DEF IInv, TypeOK
    <2>3. CountersExact' /\ CountersWithin'
        BY <1>1, <2>1 DEF IInv, CountersExact, CountersWithin, Active
    <2>4. CommitOrder' /\ GuardMatchesPoll'
        BY <1>1, <1>3, <2>1 DEF IInv, CommitOrder, GuardMatchesPoll
    <2>. QED
        BY <2>2, <2>3, <2>4 DEF IInv
<1>. QED
    BY <1>2, <1>3 DEF Return

\* When a notification raises, the rest of the batch goes back in front of
\* what was committed during the poll, so the commit order is kept.
LEMMA RaisePreserves ==
    ASSUME IInv, Raise
    PROVE  IInv'
<1>1. /\ q' = [q EXCEPT !.pending = q.batch \o @, !.batch = <<>>, !.polling = FALSE]
      /\ running' = None
      /\ UNCHANGED <<reservation, accepted, delivered>>
    BY DEF Raise, Retained
<1> DEFINE b == q.batch
           e == q.pending
           m == b \o e
<1>2. b \in Seq(Callbacks) /\ e \in Seq(Callbacks) /\ accepted = delivered \o (b \o e)
    BY DEF IInv, TypeOK, CommitOrder
<1>3. /\ q'.pending = m /\ q'.batch = <<>> /\ q'.polling = FALSE
      /\ q'.committed = q.committed /\ q'.reserved = q.reserved
    BY <1>1 DEF IInv, TypeOK
<1>4. q.committed = Len(e) + Len(b)
    BY DEF IInv, CountersExact
<1>5. q' = [q EXCEPT !.pending = m, !.batch = <<>>, !.polling = FALSE]
    BY <1>1
<1> HIDE DEF b, e
<1>6. m \in Seq(Callbacks) /\ Len(m) = Len(b) + Len(e) /\ <<>> \o m = m
    BY <1>2, ConcatProperties, ConcatEmptySeq
<1>7. Len(b) \in Nat /\ Len(e) \in Nat
    BY <1>2, LenProperties
<1>8. accepted = delivered \o m
    BY <1>2
<1> HIDE DEF m
<1>9. q' \in [pending : Seq(Callbacks), batch : Seq(Callbacks),
              committed : Nat, reserved : Nat, polling : BOOLEAN]
    <2> DEFINE z == <<>>
    <2>1. z \in Seq(Callbacks) /\ q' = [q EXCEPT !.pending = m, !.batch = z, !.polling = FALSE]
        BY <1>5
    <2> HIDE DEF z
    <2>. QED
        BY <2>1, <1>6 DEF IInv, TypeOK
<1>10. TypeOK'
    BY <1>1, <1>9 DEF IInv, TypeOK
<1>11. CountersExact'
    <2>1. q'.committed = Len(m) + 0 /\ Len(q'.batch) = 0
        BY <1>3, <1>4, <1>6, <1>7
    <2>2. q'.committed = Len(q'.pending) + Len(q'.batch)
        BY <2>1, <1>3, Zenon
    <2>. QED
        BY <2>2, <1>1, <1>3 DEF IInv, CountersExact, Active
<1>12. CountersWithin'
    BY <1>3 DEF IInv, CountersWithin
<1>13. CommitOrder'
    BY <1>1, <1>3, <1>6, <1>8 DEF CommitOrder
<1>14. GuardMatchesPoll'
    BY <1>1, <1>3 DEF GuardMatchesPoll
<1>. QED
    BY <1>10, <1>11, <1>12, <1>13, <1>14 DEF IInv
-----------------------------------------------------------------------------
\* The inductive invariant holds of every behaviour of the queue.
THEOREM Inductive == Spec => []IInv
<1>1. Init => IInv
    <2> SUFFICES ASSUME Init PROVE IInv
        OBVIOUS
    <2>1. Active = {}
        BY DEF Init, Active
    <2>2. Cardinality(Active) = 0
        BY <2>1, FS_EmptySet
    <2>3. TypeOK
        BY DEF Init, EmptyQueue, TypeOK
    <2>4. CountersExact /\ CountersWithin
        BY <2>2, LimitAssumption DEF Init, EmptyQueue, CountersExact, CountersWithin
    <2>5. CommitOrder /\ GuardMatchesPoll
        BY DEF Init, EmptyQueue, CommitOrder, GuardMatchesPoll
    <2>. QED
        BY <2>3, <2>4, <2>5 DEF IInv
<1>2. IInv /\ [Next]_vars => IInv'
    <2> SUFFICES ASSUME IInv, [Next]_vars PROVE IInv'
        OBVIOUS
    <2>1. CASE UNCHANGED vars
        BY <2>1 DEF vars, IInv, TypeOK, CountersExact, CountersWithin, CommitOrder,
                    GuardMatchesPoll, Active
    <2>2. ASSUME NEW r \in Reservations, Reserve(r) \/ Drop(r) PROVE IInv'
        BY <2>2, ReservePreserves, DropPreserves
    <2>3. ASSUME NEW r \in Reservations, NEW n \in Callbacks, Commit(r, n) PROVE IInv'
        BY <2>3, CommitPreserves
    <2>4. ASSUME NEW n \in Callbacks, Push(n) PROVE IInv'
        BY <2>4, PushPreserves
    <2>5. CASE Poll
        BY <2>5, PollPreserves
    <2>6. CASE Return
        BY <2>6, ReturnPreserves
    <2>7. CASE Raise
        BY <2>7, RaisePreserves
    <2>. QED
        BY <2>1, <2>2, <2>3, <2>4, <2>5, <2>6, <2>7 DEF Next
<1>. QED
    BY <1>1, <1>2, PTL DEF Spec

\* Type correctness: in particular neither counter ever goes below zero.
THEOREM TypeCorrect == Spec => []TypeOK
BY Inductive, PTL DEF IInv

\* The counters that require_capacity compares with the limit always are the
\* numbers of notifications and of reservations that exist.
THEOREM CountersCorrect == Spec => []CountersExact
BY Inductive, PTL DEF IInv

\* The finite limit bounds what really is outstanding.
THEOREM LimitHolds == Spec => []WithinLimit
<1>1. IInv => WithinLimit
    <2> SUFFICES ASSUME IInv PROVE WithinLimit
        OBVIOUS
    <2>1. /\ q.committed = Len(q.pending) + Len(q.batch)
          /\ q.reserved = Cardinality(Active)
          /\ q.committed + q.reserved <= Limit
        BY DEF IInv, CountersExact, CountersWithin
    <2>2. (Len(q.pending) + Len(q.batch)) + Cardinality(Active) <= Limit
        BY <2>1, Zenon
    <2>. QED
        BY <2>2, Zenon DEF WithinLimit
<1>. QED
    BY <1>1, Inductive, PTL

\* Notifications are called in the order of their commits, each once, and
\* none is lost when one of them raises.
THEOREM OrderKept == Spec => []CommitOrder
BY Inductive, PTL DEF IInv

\* The reentrancy guard of poll is set exactly while a notification runs.
THEOREM GuardCorrect == Spec => []GuardMatchesPoll
BY Inductive, PTL DEF IInv
-----------------------------------------------------------------------------
(***************************************************************************)
(* The queue implements the bounded FIFO: what waits there is the rest of  *)
(* the batch followed by the pending list, and a promise is an outstanding *)
(* reservation.                                                            *)
(***************************************************************************)
Waiting == q.batch \o q.pending

\* What waits, and how much room the counters say is left.
LEMMA WaitingTyped ==
    ASSUME IInv
    PROVE  /\ q.batch \in Seq(Callbacks) /\ q.pending \in Seq(Callbacks)
           /\ Waiting \in Seq(Callbacks)
           /\ Len(Waiting) = q.committed /\ q.committed \in Nat
           /\ Cardinality(Active) = q.reserved /\ q.reserved \in Nat
<1> DEFINE b == q.batch
           e == q.pending
<1>1. /\ b \in Seq(Callbacks) /\ e \in Seq(Callbacks)
      /\ q.committed = Len(e) + Len(b) /\ q.committed \in Nat
      /\ Cardinality(Active) = q.reserved /\ q.reserved \in Nat
    BY DEF IInv, TypeOK, CountersExact
<1> HIDE DEF b, e
<1>2. b \o e \in Seq(Callbacks) /\ Len(b \o e) = Len(b) + Len(e)
    BY <1>1, ConcatProperties
<1>3. Len(b) \in Nat /\ Len(e) \in Nat
    BY <1>1, LenProperties
<1>4. Len(b \o e) = q.committed
    BY <1>1, <1>2, <1>3
<1>. QED
    BY <1>1, <1>2, <1>4 DEF Waiting, b, e

\* A notification accepted at the end of the pending list is last of all.
LEMMA WaitingGrows ==
    ASSUME IInv, NEW n \in Callbacks,
           q'.pending = Append(q.pending, n), q'.batch = q.batch
    PROVE  Waiting' = Append(Waiting, n)
<1> DEFINE b == q.batch
           e == q.pending
           z == <<>>
<1>1. b \in Seq(Callbacks) /\ e \in Seq(Callbacks) /\ z \in Seq(Callbacks)
    BY DEF IInv, TypeOK
<1> HIDE DEF b, e
<1>2. Append(z \o (b \o e), n) = z \o (b \o Append(e, n))
    BY <1>1, AppendAtEnd
<1>3. b \o e \in Seq(Callbacks) /\ b \o Append(e, n) \in Seq(Callbacks)
    BY <1>1, ConcatProperties, AppendProperties
<1>4. Append(b \o e, n) = b \o Append(e, n)
    BY <1>2, <1>3, ConcatEmptySeq
<1>. QED
    BY <1>4, Zenon DEF Waiting, b, e

\* The poll loop calls the oldest of what waits.
LEMMA CallsOldest ==
    ASSUME NEW p, p.batch \in Seq(Callbacks), p.pending \in Seq(Callbacks), p.batch # <<>>,
           DOMAIN p = {"pending", "batch", "committed", "reserved", "polling"},
           CallNext(p), UNCHANGED reservation,
           Waiting = p.batch \o p.pending
    PROVE  Fifo!Take
<1> DEFINE b == p.batch
           e == p.pending
<1>1. b \in Seq(Callbacks) /\ e \in Seq(Callbacks) /\ b # <<>>
    OBVIOUS
<1>2. q' = Dispatched(p) /\ delivered' = Append(delivered, Head(b))
    BY DEF CallNext
<1>3. q'.batch = Tail(b) /\ q'.pending = e
    BY <1>2 DEF Dispatched
<1>4. Waiting = b \o e /\ Waiting' = Tail(b) \o e
    BY <1>3 DEF Waiting
<1> HIDE DEF b, e
<1>5. b \o e = <<Head(b)>> \o (Tail(b) \o e) /\ Tail(b) \o e \in Seq(Callbacks)
    BY <1>1, HeadFirst
<1>6. Head(b) \in Callbacks
    BY <1>1, SplitHead
<1> DEFINE h == Head(b)
           u == Tail(b) \o e
<1>7. h \in Callbacks /\ u \in Seq(Callbacks) /\ Waiting = <<h>> \o u /\ Waiting' = u
    BY <1>4, <1>5, <1>6
<1> HIDE DEF h, u
<1>8. <<h>> \o u # <<>> /\ Head(<<h>> \o u) = h /\ Tail(<<h>> \o u) = u
    BY <1>7
<1>9. Waiting # <<>> /\ Waiting' = Tail(Waiting) /\ delivered' = Append(delivered, Head(Waiting))
    BY <1>2, <1>7, <1>8 DEF h
<1>10. Active' = Active
    BY DEF Active
<1>. QED
    BY <1>9, <1>10, Zenon DEF Fifo!Take, Waiting

\* Every operation of the queue is one of the FIFO, or invisible there.
LEMMA StepRefines ==
    ASSUME IInv, [Next]_vars
    PROVE  [Fifo!FifoNext]_(Fifo!fifoVars)
<1>1. ASSUME NEW r \in Reservations, Reserve(r) PROVE Fifo!Promise
    <2>1. /\ q' = [q EXCEPT !.reserved = @ + 1] /\ q.committed + q.reserved < Limit
          /\ UNCHANGED delivered
        BY <1>1 DEF Reserve, Reserved, HasCapacity
    <2>2. Waiting' = Waiting
        BY <2>1 DEF Waiting, IInv, TypeOK
    <2>3. Cardinality(Active') = Cardinality(Active) + 1
        BY <1>1, ActiveBorn DEF IInv, Reserve
    <2>4. Len(Waiting) + Cardinality(Active) < Limit
        BY <2>1, WaitingTyped
    <2>. QED
        BY <2>1, <2>2, <2>3, <2>4, Zenon DEF Fifo!Promise, Fifo!Room, Waiting
<1>2. ASSUME NEW r \in Reservations, Drop(r) PROVE Fifo!Cancel
    <2>1. q' = [q EXCEPT !.reserved = @ - 1] /\ UNCHANGED delivered
        BY <1>2 DEF Drop, Released
    <2>2. Waiting' = Waiting
        BY <2>1 DEF Waiting, IInv, TypeOK
    <2>3. Cardinality(Active') = Cardinality(Active) - 1 /\ Cardinality(Active) >= 1
        BY <1>2, ActiveGone DEF IInv, Drop
    <2>4. Cardinality(Active) > 0
        BY <2>3, ActiveFinite
    <2>. QED
        BY <2>1, <2>2, <2>3, <2>4, Zenon DEF Fifo!Cancel, Waiting
<1>3. ASSUME NEW r \in Reservations, NEW n \in Callbacks, Commit(r, n) PROVE Fifo!Redeem(n)
    <2>1. /\ q' = [q EXCEPT !.reserved = @ - 1, !.committed = @ + 1, !.pending = Append(@, n)]
          /\ UNCHANGED delivered
        BY <1>3 DEF Commit, Committed
    <2>2. q'.pending = Append(q.pending, n) /\ q'.batch = q.batch
        BY <2>1 DEF IInv, TypeOK
    <2>3. Waiting' = Append(Waiting, n)
        BY <2>2, WaitingGrows
    <2>4. Cardinality(Active') = Cardinality(Active) - 1 /\ Cardinality(Active) >= 1
        BY <1>3, ActiveGone DEF IInv, Commit
    <2>5. Cardinality(Active) > 0
        BY <2>4, ActiveFinite
    <2>. QED
        BY <2>1, <2>3, <2>4, <2>5, Zenon DEF Fifo!Redeem, Waiting
<1>4. ASSUME NEW n \in Callbacks, Push(n) PROVE Fifo!Put(n)
    <2>1. /\ q' = [[q EXCEPT !.reserved = @ + 1]
                      EXCEPT !.reserved = @ - 1, !.committed = @ + 1, !.pending = Append(@, n)]
          /\ q.committed + q.reserved < Limit
          /\ UNCHANGED <<delivered, reservation>>
        BY <1>4 DEF Push, Committed, Reserved, HasCapacity
    <2>2. q'.pending = Append(q.pending, n) /\ q'.batch = q.batch
        BY <2>1 DEF IInv, TypeOK
    <2>3. Waiting' = Append(Waiting, n)
        BY <2>2, WaitingGrows
    <2>4. Active' = Active
        BY <2>1 DEF Active
    <2>5. Len(Waiting) + Cardinality(Active) < Limit
        BY <2>1, WaitingTyped
    <2>. QED
        BY <2>1, <2>3, <2>4, <2>5, Zenon DEF Fifo!Put, Fifo!Room, Waiting
<1>5. ASSUME Poll PROVE Fifo!Take
    <2> DEFINE p == Started(q)
    <2>1. /\ ~q.polling /\ q.pending # <<>> /\ CallNext(p) /\ UNCHANGED reservation
        BY <1>5 DEF Poll, CanPoll
    <2>2. q.batch = <<>> /\ q.pending \in Seq(Callbacks)
        BY <2>1 DEF IInv, GuardMatchesPoll, TypeOK
    <2>3. /\ p.batch = q.pending /\ p.pending = <<>>
          /\ DOMAIN p = {"pending", "batch", "committed", "reserved", "polling"}
        BY DEF Started, IInv, TypeOK
    <2>4. <<>> \o q.pending = q.pending /\ q.pending \o <<>> = q.pending
        <3> DEFINE e == q.pending
        <3>1. e \in Seq(Callbacks)
            BY <2>2
        <3> HIDE DEF e
        <3>2. <<>> \o e = e /\ e \o <<>> = e
            BY <3>1, ConcatEmptySeq
        <3>. QED
            BY <3>2 DEF e
    <2>5. Waiting = p.batch \o p.pending
        BY <2>2, <2>3, <2>4, Zenon DEF Waiting
    <2>6. p.batch \in Seq(Callbacks) /\ p.pending \in Seq(Callbacks) /\ p.batch # <<>>
        BY <2>1, <2>2, <2>3
    <2> HIDE DEF p
    <2>. QED
        BY <2>1, <2>3, <2>5, <2>6, CallsOldest
<1>6. ASSUME Return PROVE Fifo!Take \/ UNCHANGED Fifo!fifoVars
    <2>1. UNCHANGED reservation
        BY <1>6 DEF Return
    <2>2. CASE q.batch # <<>> /\ CallNext(q)
        <3>1. /\ q.batch \in Seq(Callbacks) /\ q.pending \in Seq(Callbacks)
              /\ DOMAIN q = {"pending", "batch", "committed", "reserved", "polling"}
            BY DEF IInv, TypeOK
        <3>. QED
            BY <2>1, <2>2, <3>1, CallsOldest DEF Waiting
    <2>3. CASE q' = Finished(q) /\ UNCHANGED delivered
        <3>1. q'.batch = q.batch /\ q'.pending = q.pending /\ Active' = Active
            BY <2>1, <2>3 DEF Finished, Active, IInv, TypeOK
        <3>. QED
            BY <2>3, <3>1 DEF Fifo!fifoVars
    <2>. QED
        BY <1>6, <2>2, <2>3 DEF Return
<1>7. ASSUME Raise PROVE UNCHANGED Fifo!fifoVars
    <2>1. /\ q' = [q EXCEPT !.pending = q.batch \o @, !.batch = <<>>, !.polling = FALSE]
          /\ UNCHANGED <<reservation, delivered>>
        BY <1>7 DEF Raise, Retained
    <2>2. q'.batch = <<>> /\ q'.pending = Waiting
        BY <2>1 DEF IInv, TypeOK, Waiting
    <2>3. <<>> \o Waiting = Waiting
        BY WaitingTyped, ConcatEmptySeq
    <2>4. Waiting' = Waiting /\ Active' = Active
        BY <2>1, <2>2, <2>3 DEF Waiting, Active
    <2>. QED
        BY <2>1, <2>4, Zenon DEF Fifo!fifoVars, Waiting
<1>8. ASSUME UNCHANGED vars PROVE UNCHANGED Fifo!fifoVars
    BY <1>8 DEF vars, Fifo!fifoVars, Active
<1>. QED
    BY <1>1, <1>2, <1>3, <1>4, <1>5, <1>6, <1>7, <1>8 DEF Next, Fifo!FifoNext

\* The queue is a bounded FIFO to its users: batches, the return of a batch
\* after a failure and the counters are invisible outside.
THEOREM Refinement == Spec => ImplementsFifo
<1>1. Init => Fifo!FifoInit
    <2> SUFFICES ASSUME Init PROVE Fifo!FifoInit
        OBVIOUS
    <2>1. Active = {}
        BY DEF Init, Active
    <2>2. Cardinality(Active) = 0
        BY <2>1, FS_EmptySet
    <2>3. q.batch = <<>> /\ q.pending = <<>> /\ delivered = <<>>
        BY DEF Init, EmptyQueue
    <2>. QED
        BY <2>2, <2>3 DEF Fifo!FifoInit
<1>2. IInv /\ [Next]_vars => [Fifo!FifoNext]_(Fifo!fifoVars)
    BY StepRefines
<1>. QED
    BY <1>1, <1>2, Inductive, PTL DEF Spec, ImplementsFifo, Fifo!FifoSpec
=============================================================================
