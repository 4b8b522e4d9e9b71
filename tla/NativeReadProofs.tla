--------------------------- MODULE NativeReadProofs ---------------------------
(***************************************************************************)
(* Proofs about NativeRead: the counters stay within their limits, a       *)
(* request is freed once and by its last owner, no completion is lost to   *)
(* the event loop and a published result never changes.                    *)
(*                                                                         *)
(* The properties are not inductive by themselves.  A request is not freed *)
(* early because its reference count is the number of its owners           *)
(* (Referenced), and who owns it depends on how far the worker or the pool *)
(* has come (Served, Resulted).  The counters stay natural numbers because *)
(* each is the cardinality of a set of requests or of buffer bytes         *)
(* (CountsExact).  A wakeup is not lost because the generation counts      *)
(* exactly the completions that were published (Counted).                  *)
(***************************************************************************)
EXTENDS NativeRead, FiniteSetTheorems, TLAPS

\* The fields of every variable.
Request == [references : 0..2, ready : BOOLEAN, cancelled : BOOLEAN,
            descriptor : {"none", "open", "closed"},
            size : Sizes \cup {0}, result : Results, freed : BOOLEAN]

Loop == [pc : {"outside", "top", "polling", "wait", "blocked"}, epoch : Nat,
         listed : SUBSET Reads, unpolled : SUBSET Reads, passed : SUBSET Reads,
         worked : BOOLEAN]

\* A read whose stream is on the loop's list has a handle.
Shape ==
    /\ request \in [Reads -> Request]
    /\ worker \in [Reads -> {"none", "begin", "check", "read", "leave", "publish",
                             "count", "send", "release", "gone"}]
    /\ pool \in [Reads -> {"none", "queued", "executing", "done", "gone"}]
    /\ held \subseteq Reads
    /\ live \in [reads : Nat, bytes : Nat, workers : Nat]
    /\ completed \in Nat
    /\ signal \in BOOLEAN
    /\ loop \in Loop /\ loop.listed \subseteq held /\ loop.unpolled \subseteq loop.listed

Born(r) == request[r].descriptor # "none"

\* The reads whose completion was counted.
Counted == {r \in Reads : worker[r] \in {"send", "release", "gone"} \/ pool[r] = "gone"}

\* A read that was not started has no owner; a started one is served by a
\* worker thread or by the pool, never by both.
Served(r) ==
    /\ ~Born(r) => request[r] = Unborn /\ r \notin held
    /\ ~Born(r) <=> worker[r] = "none" /\ pool[r] = "none"
    /\ worker[r] = "none" \/ pool[r] = "none"

\* The references are those of the handle and of the completion.
Referenced(r) ==
    /\ request[r].references = (IF r \in held THEN 1 ELSE 0) + (IF Completing(r) THEN 1 ELSE 0)
    /\ request[r].freed <=> Born(r) /\ request[r].references = 0
    /\ request[r].cancelled <=> Born(r) /\ r \notin held

\* The result is there before ready is, and ready is set by the completion only.
Resulted(r) ==
    /\ request[r].ready <=> worker[r] \in {"count", "send", "release", "gone"} \/ pool[r] = "gone"
    /\ request[r].ready => request[r].descriptor = "closed"
    /\ worker[r] \in {"leave", "publish"} \/ pool[r] = "done" \/ request[r].ready
          => request[r].result # "none"
    /\ request[r].result = "cancelled" => r \notin held

OwnedBy(r) == Served(r) /\ Referenced(r) /\ Resulted(r)

Owned == \A r \in Reads : OwnedBy(r)

\* The counters are exact and within their limits.
CountsExact ==
    /\ live.reads = Cardinality(InMemory) /\ live.reads <= ReadLimit
    /\ IsFiniteSet(Buffers(request, InMemory))
    /\ live.bytes = Cardinality(Buffers(request, InMemory)) /\ live.bytes <= ByteLimit
    /\ live.workers = Cardinality(Waiting) /\ live.workers <= WorkerLimit
    /\ completed = Cardinality(Counted)

IInv == Shape /\ Owned /\ CountsExact /\ NoLostWakeup
-----------------------------------------------------------------------------
\* The sets the counters stand for are finite.
LEMMA CountedFinite ==
    /\ IsFiniteSet(InMemory) /\ IsFiniteSet(Waiting) /\ IsFiniteSet(Counted)
    /\ Cardinality(Counted) \in 0..Cardinality(Reads)
<1>1. InMemory \in SUBSET Reads /\ Waiting \in SUBSET Reads /\ Counted \in SUBSET Reads
    BY DEF InMemory, Waiting, Counted
<1>2. IsFiniteSet(Reads)
    BY ReadLimitsAssumption
<1>3. IsFiniteSet(InMemory) /\ IsFiniteSet(Waiting) /\ IsFiniteSet(Counted)
    BY <1>1, <1>2, FS_Subset
<1>4. Cardinality(Counted) <= Cardinality(Reads)
    BY <1>1, <1>2, FS_Subset
<1>5. Cardinality(Counted) \in Nat /\ Cardinality(Reads) \in Nat
    BY <1>2, <1>3, FS_CardinalityType
<1>. QED
    BY <1>3, <1>4, <1>5

\* The invariant gives the properties.
LEMMA Implied == IInv => TypeOK /\ FreedByLastOwner /\ NoLostWakeup
<1> SUFFICES ASSUME IInv PROVE TypeOK /\ FreedByLastOwner
    BY DEF IInv
<1>1. TypeOK
    BY CountedFinite DEF IInv, Shape, Request, Loop, CountsExact, TypeOK
<1>2. FreedByLastOwner
    BY DEF IInv, Shape, Request, Owned, OwnedBy, Served, Referenced, Resulted, Born, Completing,
           FreedByLastOwner
<1>. QED
    BY <1>1, <1>2

\* Nothing was started: no request has an owner and all counters are zero.
LEMMA InitKeeps == Init => IInv
<1> SUFFICES ASSUME Init PROVE IInv
    OBVIOUS
<1>1. Shape
    <2>1. Unborn \in Request
        BY DEF Unborn, Request, Results
    <2>. QED
        BY <2>1 DEF Init, Shape, Loop
<1>2. Owned
    BY DEF Init, Owned, OwnedBy, Served, Referenced, Resulted, Born, Completing, Unborn
<1>3. InMemory = {} /\ Waiting = {} /\ Counted = {}
    BY DEF Init, InMemory, Waiting, Counted, Unborn
<1>4. Buffers(request, {}) = {}
    BY DEF Buffers
<1>5. CountsExact
    BY <1>3, <1>4, FS_EmptySet, ReadLimitsAssumption DEF Init, CountsExact
<1>6. NoLostWakeup
    BY DEF Init, NoLostWakeup
<1>. QED
    BY <1>1, <1>2, <1>5, <1>6 DEF IInv

\* A step that changes none of the sets the counters stand for.
LEMMA CountsKept ==
    ASSUME IInv, InMemory' = InMemory, Waiting' = Waiting, Counted' = Counted,
           \A r \in Reads : request'[r].size = request[r].size,
           live' = live, completed' = completed
    PROVE  CountsExact'
<1>1. Buffers(request', InMemory') = Buffers(request, InMemory)
    BY DEF Buffers, InMemory
<1>. QED
    BY <1>1 DEF IInv, CountsExact

\* release_read, drop and the end of finish_read, on one request.
Released(q) == [q EXCEPT !.references = @ - 1, !.freed = (q.references = 1)]
Cancelled(q, e) == [q EXCEPT !.cancelled = TRUE, !.result = e]
Publication(q) == [q EXCEPT !.descriptor = "closed", !.ready = TRUE]

\* release_read takes one reference and frees the request with the last one;
\* it touches nothing else of it.
LEMMA ReleasedFields ==
    ASSUME NEW q \in Request, q.references # 0
    PROVE  /\ Released(q) \in Request
           /\ Released(q).references = q.references - 1
           /\ Released(q).freed <=> q.references = 1
           /\ Released(q).ready = q.ready /\ Released(q).cancelled = q.cancelled
           /\ Released(q).descriptor = q.descriptor /\ Released(q).size = q.size
           /\ Released(q).result = q.result
<1>1. ASSUME NEW n \in 0..2, NEW f \in BOOLEAN,
             Released(q) = [q EXCEPT !.references = n, !.freed = f]
      PROVE  /\ Released(q) \in Request /\ Released(q).references = n /\ Released(q).freed = f
             /\ Released(q).ready = q.ready /\ Released(q).cancelled = q.cancelled
             /\ Released(q).descriptor = q.descriptor /\ Released(q).size = q.size
             /\ Released(q).result = q.result
    BY <1>1 DEF Request
<1>2. CASE q.references = 1
    <2>1. (q.references = 1) = TRUE /\ q.references - 1 = 0
        BY <1>2
    <2>2. Released(q) = [q EXCEPT !.references = 0, !.freed = TRUE]
        BY <2>1, Zenon DEF Released
    <2>3. 0 \in 0..2
        OBVIOUS
    <2>. QED
        BY <1>1, <1>2, <2>1, <2>2, <2>3
<1>3. CASE q.references = 2
    <2>1. (q.references = 1) = FALSE /\ q.references - 1 = 1
        BY <1>3
    <2>2. Released(q) = [q EXCEPT !.references = 1, !.freed = FALSE]
        BY <2>1, Zenon DEF Released
    <2>3. 1 \in 0..2
        OBVIOUS
    <2>. QED
        BY <1>1, <1>3, <2>1, <2>2, <2>3
<1>. QED
    BY <1>2, <1>3 DEF Request

\* A drop marks the request cancelled and may give it the result cancelled.
LEMMA CancelledFields ==
    ASSUME NEW q \in Request, NEW e \in Results
    PROVE  /\ Cancelled(q, e) \in Request
           /\ Cancelled(q, e).cancelled = TRUE
           /\ Cancelled(q, e).result = e
           /\ Cancelled(q, e).ready = q.ready /\ Cancelled(q, e).references = q.references
           /\ Cancelled(q, e).descriptor = q.descriptor /\ Cancelled(q, e).size = q.size
           /\ Cancelled(q, e).freed = q.freed
BY DEF Request, Cancelled

\* finish_read closes the descriptor and sets ready.
LEMMA PublicationFields ==
    ASSUME NEW q \in Request
    PROVE  /\ Publication(q) \in Request
           /\ Publication(q).ready = TRUE /\ Publication(q).descriptor = "closed"
           /\ Publication(q).cancelled = q.cancelled
           /\ Publication(q).result = q.result
           /\ Publication(q).references = q.references
           /\ Publication(q).size = q.size
           /\ Publication(q).freed = q.freed
BY DEF Request, Publication

\* A step that does not touch a read, its threads and its handle.
LEMMA OtherKept ==
    ASSUME NEW s \in Reads, OwnedBy(s), request'[s] = request[s], worker'[s] = worker[s],
           pool'[s] = pool[s], s \in held' <=> s \in held
    PROVE  OwnedBy(s)'
BY DEF OwnedBy, Served, Referenced, Resulted, Born, Completing

\* A step of the worker of r up to leave changes at most the result.
LEMMA WorkerServes ==
    ASSUME IInv, NEW r \in Reads,
           WorkerRejects(r) \/ WorkerBegins(r) \/ WorkerChecks(r) \/ WorkerReads(r)
    PROVE  IInv'
<1>1. PICK result \in Results, pc \in {"check", "read", "leave"} :
          /\ worker[r] \in {"begin", "check", "read"}
          /\ request' = [request EXCEPT ![r].result = result]
          /\ worker' = [worker EXCEPT ![r] = pc]
          /\ pc = "leave" => result # "none"
          /\ result = "cancelled" => request[r].cancelled \/ result = request[r].result
          /\ UNCHANGED <<pool, held, live, completed, signal, loop>>
    <2>1. request = [request EXCEPT ![r].result = request[r].result] /\ request[r].result \in Results
        BY DEF IInv, Shape, Request
    <2>2. CASE WorkerRejects(r)
        BY <2>2 DEF WorkerRejects, WorkerGoes, Results
    <2>3. CASE WorkerBegins(r)
        BY <2>1, <2>3 DEF WorkerBegins, WorkerGoes
    <2>4. CASE WorkerChecks(r)
        BY <2>1, <2>4 DEF WorkerChecks, WorkerGoes, Results
    <2>5. CASE WorkerReads(r)
        BY <2>1, <2>5 DEF WorkerReads, WorkerGoes, Results
    <2>. QED
        BY <2>2, <2>3, <2>4, <2>5
<1>2. Shape'
    <2>1. [request[r] EXCEPT !.result = result] \in Request
        BY DEF IInv, Shape, Request
    <2>. QED
        BY <1>1, <2>1 DEF IInv, Shape
<1>3. Owned'
    <2> SUFFICES ASSUME NEW s \in Reads PROVE OwnedBy(s)'
        BY DEF Owned
    <2>1. OwnedBy(s)
        BY DEF IInv, Owned
    <2>2. CASE s = r
        BY <1>1, <2>1, <2>2 DEF IInv, Shape, Request, OwnedBy, Served, Referenced, Resulted, Born, Completing
    <2>3. CASE s # r
        BY <1>1, <2>1, <2>3, OtherKept DEF IInv, Shape
    <2>. QED
        BY <2>2, <2>3
<1>4. CountsExact'
    <2>1. InMemory' = InMemory
        BY <1>1 DEF IInv, Shape, InMemory
    <2>2. Waiting' = Waiting /\ Counted' = Counted
        BY <1>1 DEF IInv, Shape, Waiting, Counted
    <2>3. \A s \in Reads : request'[s].size = request[s].size
        BY <1>1 DEF IInv, Shape
    <2>. QED
        BY <1>1, <2>1, <2>2, <2>3, CountsKept
<1>5. NoLostWakeup'
    BY <1>1 DEF IInv, Shape, NoLostWakeup, Done
<1>. QED
    BY <1>2, <1>3, <1>4, <1>5 DEF IInv

\* The bytes of a set of buffers depend on the sizes alone.
LEMMA BuffersSame ==
    ASSUME NEW f, NEW g, NEW S, \A r \in S : f[r].size = g[r].size
    PROVE  Buffers(f, S) = Buffers(g, S)
BY DEF Buffers

\* No byte belongs to two buffers.
LEMMA BuffersMinus ==
    ASSUME NEW f, NEW S, NEW T, T \subseteq S
    PROVE  /\ Buffers(f, S \ T) = Buffers(f, S) \ Buffers(f, T)
           /\ Buffers(f, T) \subseteq Buffers(f, S)
BY DEF Buffers

\* What is left of a finite set when a part of it leaves.
LEMMA PartLeaves ==
    ASSUME NEW S, NEW T, IsFiniteSet(S), T \subseteq S
    PROVE  /\ IsFiniteSet(S \ T)
           /\ Cardinality(S \ T) = Cardinality(S) - Cardinality(T)
           /\ {Cardinality(S), Cardinality(T), Cardinality(S \ T)} \subseteq Nat
<1>1. S \cap T = T /\ T \in SUBSET S
    OBVIOUS
<1>2. IsFiniteSet(S \ T) /\ Cardinality(S \ T) = Cardinality(S) - Cardinality(T)
    BY <1>1, FS_Difference, Zenon
<1>3. IsFiniteSet(T)
    BY <1>1, FS_Subset, Zenon
<1>. QED
    BY <1>2, <1>3, FS_CardinalityType

\* The last release gives back what the requests that left memory counted for.
LEMMA LiveExact ==
    ASSUME IInv, request' \in [Reads -> Request], Owned', live' = LiveAfter(request'),
           \A r \in Reads : request'[r].size = request[r].size,
           \A r \in Reads : Born(r)' <=> Born(r),
           \A r \in Reads : request'[r].references <= request[r].references,
           Waiting' = Waiting, completed' = Cardinality(Counted')
    PROVE  live' \in [reads : Nat, bytes : Nat, workers : Nat] /\ CountsExact'
<1> DEFINE last == {r \in Reads : request'[r].freed /\ ~request[r].freed}
           all == Buffers(request, InMemory)
           gone == Buffers(request, last)
<1>1. ASSUME NEW r \in Reads
      PROVE  /\ r \in last <=> r \in InMemory /\ r \notin InMemory'
             /\ r \in InMemory' => r \in InMemory
    <2>1. OwnedBy(r) /\ OwnedBy(r)' /\ request[r] \in Request /\ request'[r] \in Request
        BY <1>1 DEF IInv, Owned, Shape
    <2>2. request[r].references \in 0..2 /\ request'[r].references \in 0..2
        BY <2>1 DEF Request
    <2>3. request[r].references # 0 => Born(r)
        BY <2>1 DEF OwnedBy, Served, Unborn
    <2>4. /\ request[r].freed <=> Born(r) /\ request[r].references = 0
          /\ request'[r].freed <=> Born(r)' /\ request'[r].references = 0
        BY <2>1 DEF OwnedBy, Referenced
    <2>. QED
        BY <2>2, <2>3, <2>4 DEF InMemory
<1>2. InMemory' = InMemory \ last /\ last \subseteq InMemory
    BY <1>1 DEF InMemory
<1>3. IsFiniteSet(InMemory) /\ IsFiniteSet(all) /\ live.bytes = Cardinality(all)
    BY CountedFinite DEF IInv, CountsExact
<1>4. /\ Cardinality(InMemory') = Cardinality(InMemory) - Cardinality(last)
      /\ {Cardinality(InMemory), Cardinality(InMemory'), Cardinality(last)} \subseteq Nat
    BY <1>2, <1>3, PartLeaves
<1>5. Buffers(request', last) = gone
    BY BuffersSame
<1>6. Buffers(request', InMemory') = Buffers(request, InMemory \ last)
    <2>1. \A r \in InMemory \ last : request'[r].size = request[r].size
        BY DEF InMemory
    <2>. QED
        BY <1>2, <2>1, BuffersSame
<1>7. Buffers(request', InMemory') = all \ gone /\ gone \subseteq all
    <2>1. last \subseteq InMemory
        BY <1>2
    <2> HIDE DEF last
    <2>2. /\ Buffers(request, InMemory \ last) = all \ gone
          /\ gone \subseteq all
        BY <2>1, BuffersMinus
    <2>. QED
        BY <1>6, <2>2
<1>8. /\ IsFiniteSet(all \ gone)
      /\ Cardinality(all \ gone) = Cardinality(all) - Cardinality(gone)
      /\ {Cardinality(all), Cardinality(all \ gone), Cardinality(gone)} \subseteq Nat
    BY <1>3, <1>7, PartLeaves
<1>9. live' = [live EXCEPT !.reads = @ - Cardinality(last), !.bytes = @ - Cardinality(gone)]
    BY <1>5 DEF LiveAfter
<1>10. /\ live.reads = Cardinality(InMemory) /\ live.reads <= ReadLimit /\ live.bytes <= ByteLimit
       /\ live \in [reads : Nat, bytes : Nat, workers : Nat]
       /\ live.workers = Cardinality(Waiting) /\ live.workers <= WorkerLimit
    BY DEF IInv, CountsExact, Shape
<1> HIDE DEF last, all, gone
<1>11. /\ live'.reads = live.reads - Cardinality(last)
       /\ live'.bytes = live.bytes - Cardinality(gone)
       /\ live'.workers = live.workers
       /\ live' = [reads |-> live'.reads, bytes |-> live'.bytes, workers |-> live'.workers]
    BY <1>9, <1>10
<1>12. /\ live'.reads \in Nat /\ live'.reads = Cardinality(InMemory') /\ live'.reads <= ReadLimit
       /\ live'.bytes \in Nat /\ live'.bytes = Cardinality(all \ gone) /\ live'.bytes <= ByteLimit
       /\ live'.workers \in Nat
    BY <1>3, <1>4, <1>8, <1>10, <1>11, ReadLimitsAssumption
<1>13. live' \in [reads : Nat, bytes : Nat, workers : Nat]
    BY <1>11, <1>12
<1>. QED
    BY <1>7, <1>8, <1>10, <1>11, <1>12, <1>13 DEF CountsExact

\* decrement of waiting_workers.
LEMMA WorkerLeavesKeeps == ASSUME IInv, NEW r \in Reads, WorkerLeaves(r) PROVE IInv'
<1>1. Waiting' = Waiting \ {r} /\ r \in Waiting /\ Counted' = Counted
    BY DEF IInv, Shape, WorkerLeaves, WorkerGoes, Waiting, Counted
<1>2. Cardinality(Waiting') = Cardinality(Waiting) - 1 /\ IsFiniteSet(Waiting')
    BY <1>1, CountedFinite, FS_RemoveElement, Zenon
<1>3. Cardinality(Waiting') \in Nat
    BY <1>2, FS_CardinalityType, Zenon
<1>4. /\ live' = [live EXCEPT !.workers = @ - 1]
      /\ live \in [reads : Nat, bytes : Nat, workers : Nat]
      /\ live.workers = Cardinality(Waiting) /\ live.workers <= WorkerLimit
    BY DEF IInv, WorkerLeaves, Shape, CountsExact
<1>5. /\ live' \in [reads : Nat, bytes : Nat, workers : Nat]
      /\ live'.workers = Cardinality(Waiting') /\ live'.workers <= WorkerLimit
      /\ live'.reads = live.reads /\ live'.bytes = live.bytes
    BY <1>2, <1>3, <1>4, ReadLimitsAssumption
<1>6. Shape'
    BY <1>5 DEF IInv, Shape, WorkerLeaves, WorkerGoes
<1>7. Owned'
    <2> SUFFICES ASSUME NEW s \in Reads PROVE OwnedBy(s)'
        BY DEF Owned
    <2>1. OwnedBy(s) /\ WorkerLeaves(r)
        BY DEF IInv, Owned
    <2>2. CASE s = r
        BY <2>1, <2>2 DEF IInv, Shape, OwnedBy, Served, Referenced, Resulted, Born, Completing, WorkerLeaves, WorkerGoes
    <2>3. CASE s # r
        BY <2>1, <2>3, OtherKept DEF IInv, Shape, WorkerLeaves, WorkerGoes
    <2>. QED
        BY <2>2, <2>3
<1>8. CountsExact'
    BY <1>1, <1>5 DEF IInv, CountsExact, WorkerLeaves, InMemory, Buffers
<1>9. NoLostWakeup'
    BY DEF IInv, Shape, NoLostWakeup, Done, WorkerLeaves, WorkerGoes
<1>. QED
    BY <1>6, <1>7, <1>8, <1>9 DEF IInv

\* The worker publishes its result: ready is set, the owners stay the same.
LEMMA WorkerPublishesKeeps == ASSUME IInv, NEW r \in Reads, WorkerPublishes(r) PROVE IInv'
<1>1. /\ worker[r] = "publish" /\ worker' = [worker EXCEPT ![r] = "count"]
      /\ request' = [request EXCEPT ![r].descriptor = "closed", ![r].ready = TRUE]
      /\ UNCHANGED <<pool, held, live, completed, signal, loop>>
    BY DEF IInv, Shape, Request, WorkerPublishes, WorkerGoes, Published
<1>2. Shape'
    <2>1. request[r] \in Request
        BY DEF IInv, Shape
    <2>2. [request[r] EXCEPT !.descriptor = "closed", !.ready = TRUE] \in Request
        BY <2>1 DEF Request
    <2>. QED
        BY <1>1, <2>2 DEF IInv, Shape
<1>3. Owned'
    <2> SUFFICES ASSUME NEW s \in Reads PROVE OwnedBy(s)'
        BY DEF Owned
    <2>1. OwnedBy(s)
        BY DEF IInv, Owned
    <2>2. CASE s = r
        BY <1>1, <2>1, <2>2 DEF IInv, Shape, Request, OwnedBy, Served, Referenced, Resulted, Born, Completing
    <2>3. CASE s # r
        BY <1>1, <2>1, <2>3, OtherKept DEF IInv, Shape
    <2>. QED
        BY <2>2, <2>3
<1>4. CountsExact'
    <2>1. InMemory' = InMemory
        BY <1>1 DEF IInv, Shape, Request, InMemory
    <2>2. Waiting' = Waiting /\ Counted' = Counted
        BY <1>1 DEF IInv, Shape, Waiting, Counted
    <2>3. \A s \in Reads : request'[s].size = request[s].size
        BY <1>1 DEF IInv, Shape, Request
    <2>. QED
        BY <1>1, <2>1, <2>2, <2>3, CountsKept
<1>5. NoLostWakeup'
    BY <1>1 DEF IInv, Shape, NoLostWakeup, Done
<1>. QED
    BY <1>2, <1>3, <1>4, <1>5 DEF IInv

\* The worker counts its completion, after which the loop must not sleep.
LEMMA WorkerCountsKeeps == ASSUME IInv, NEW r \in Reads, WorkerCounts(r) PROVE IInv'
<1>1. /\ worker[r] = "count" /\ worker' = [worker EXCEPT ![r] = "send"]
      /\ completed' = completed + 1
      /\ UNCHANGED <<request, pool, held, live, signal, loop>>
    BY DEF WorkerCounts, WorkerGoes
<1>2. Shape'
    BY <1>1 DEF IInv, Shape
<1>3. Owned'
    <2> SUFFICES ASSUME NEW s \in Reads PROVE OwnedBy(s)'
        BY DEF Owned
    <2>1. OwnedBy(s)
        BY DEF IInv, Owned
    <2>2. CASE s = r
        BY <1>1, <2>1, <2>2 DEF IInv, Shape, OwnedBy, Served, Referenced, Resulted, Born, Completing
    <2>3. CASE s # r
        BY <1>1, <2>1, <2>3, OtherKept DEF IInv, Shape
    <2>. QED
        BY <2>2, <2>3
<1>4. CountsExact'
    <2>1. InMemory' = InMemory /\ Buffers(request, InMemory)' = Buffers(request, InMemory)
        BY <1>1 DEF InMemory, Buffers
    <2>2. Waiting' = Waiting /\ Counted' = Counted \cup {r}
        BY <1>1 DEF IInv, Shape, Waiting, Counted
    <2>3. r \notin Counted
        BY <1>1 DEF IInv, Shape, Owned, OwnedBy, Served, Counted
    <2>4. Cardinality(Counted') = Cardinality(Counted) + 1
        BY <2>2, <2>3, CountedFinite, FS_AddElement, Zenon
    <2>. QED
        BY <1>1, <2>1, <2>2, <2>4 DEF IInv, CountsExact
<1>5. NoLostWakeup'
    BY <1>1 DEF IInv, Shape, NoLostWakeup, Done
<1>. QED
    BY <1>2, <1>3, <1>4, <1>5 DEF IInv

\* The worker wakes the loop: the signal stands for all that was counted.
LEMMA WorkerSendsKeeps == ASSUME IInv, NEW r \in Reads, WorkerSends(r) PROVE IInv'
<1>1. /\ worker[r] = "send" /\ worker' = [worker EXCEPT ![r] = "release"]
      /\ signal' = TRUE
      /\ UNCHANGED <<request, pool, held, live, completed, loop>>
    BY DEF WorkerSends, WorkerGoes
<1>2. Shape'
    BY <1>1 DEF IInv, Shape
<1>3. Owned'
    <2> SUFFICES ASSUME NEW s \in Reads PROVE OwnedBy(s)'
        BY DEF Owned
    <2>1. OwnedBy(s)
        BY DEF IInv, Owned
    <2>2. CASE s = r
        BY <1>1, <2>1, <2>2 DEF IInv, Shape, OwnedBy, Served, Referenced, Resulted, Born, Completing
    <2>3. CASE s # r
        BY <1>1, <2>1, <2>3, OtherKept DEF IInv, Shape
    <2>. QED
        BY <2>2, <2>3
<1>4. CountsExact'
    <2>1. InMemory' = InMemory
        BY <1>1 DEF InMemory
    <2>2. Waiting' = Waiting /\ Counted' = Counted
        BY <1>1 DEF IInv, Shape, Waiting, Counted
    <2>. QED
        BY <1>1, <2>1, <2>2, CountsKept
<1>5. NoLostWakeup'
    BY <1>1 DEF NoLostWakeup
<1>. QED
    BY <1>2, <1>3, <1>4, <1>5 DEF IInv

\* release_read by the worker.
LEMMA WorkerReleasesKeeps == ASSUME IInv, NEW r \in Reads, WorkerReleases(r) PROVE IInv'
<1> DEFINE new == Released(request[r])
<1>1. /\ worker[r] = "release" /\ worker' = [worker EXCEPT ![r] = "gone"]
      /\ request' = [request EXCEPT ![r] = new]
      /\ live' = LiveAfter(request')
      /\ UNCHANGED <<pool, held, completed, signal, loop>>
    BY DEF WorkerReleases, WorkerGoes, ReleasedRead, Released, IInv, Shape
<1>2. OwnedBy(r) /\ request[r] \in Request /\ Completing(r)
    BY <1>1 DEF IInv, Owned, Shape, Completing
<1>3. request[r].references \in 1..2 /\ new \in Request
    <2>1. request[r].references \in 1..2
        BY <1>2 DEF OwnedBy, Referenced, Request
    <2>. QED
        BY <1>2, <2>1, ReleasedFields
<1>4. Owned'
    <2> SUFFICES ASSUME NEW s \in Reads PROVE OwnedBy(s)'
        BY DEF Owned
    <2>1. OwnedBy(s)
        BY DEF IInv, Owned
    <2>2. CASE s = r
        BY <1>1, <1>2, <1>3, <2>1, <2>2, ReleasedFields DEF IInv, Shape, Request, OwnedBy, Served, Referenced, Resulted, Born, Completing
    <2>3. CASE s # r
        BY <1>1, <2>1, <2>3, OtherKept DEF IInv, Shape
    <2>. QED
        BY <2>2, <2>3
<1>5. Waiting' = Waiting /\ Counted' = Counted
    BY <1>1 DEF IInv, Shape, Waiting, Counted
<1>6. /\ \A s \in Reads : request'[s].size = request[s].size
      /\ \A s \in Reads : Born(s)' <=> Born(s)
      /\ \A s \in Reads : request'[s].references <= request[s].references
    BY <1>1, <1>2, <1>3, ReleasedFields DEF IInv, Shape, Request, Born
<1>7. request' \in [Reads -> Request] /\ completed' = Cardinality(Counted')
    BY <1>1, <1>3, <1>5 DEF IInv, Shape, CountsExact
<1>8. live' \in [reads : Nat, bytes : Nat, workers : Nat] /\ CountsExact'
    BY <1>1, <1>4, <1>5, <1>6, <1>7, LiveExact
<1>9. Shape'
    BY <1>1, <1>7, <1>8 DEF IInv, Shape
<1>10. NoLostWakeup'
    BY <1>1 DEF IInv, Shape, NoLostWakeup, Done
<1>. QED
    BY <1>4, <1>8, <1>9, <1>10 DEF IInv

\* A pool thread takes a read, or finishes it and signals the loop.
LEMMA PoolKeeps ==
    ASSUME IInv, NEW r \in Reads, PoolTakes(r) \/ PoolFinishes(r)
    PROVE  IInv'
<1>1. PICK result \in Results, pc \in {"executing", "done"} :
          /\ pool[r] \in {"queued", "executing"}
          /\ request' = [request EXCEPT ![r].result = result]
          /\ pool' = [pool EXCEPT ![r] = pc]
          /\ pc = "done" => result # "none" /\ signal'
          /\ result = "cancelled" => result = request[r].result
          /\ signal' = signal \/ signal' = TRUE
          /\ UNCHANGED <<worker, held, live, completed, loop>>
    <2>1. request = [request EXCEPT ![r].result = request[r].result] /\ request[r].result \in Results
        BY DEF IInv, Shape, Request
    <2>2. CASE PoolTakes(r)
        BY <2>1, <2>2 DEF PoolTakes
    <2>3. CASE PoolFinishes(r)
        BY <2>3 DEF PoolFinishes, Results
    <2>. QED
        BY <2>2, <2>3
<1>2. Shape'
    <2>1. [request[r] EXCEPT !.result = result] \in Request
        BY DEF IInv, Shape, Request
    <2>. QED
        BY <1>1, <2>1 DEF IInv, Shape
<1>3. Owned'
    <2> SUFFICES ASSUME NEW s \in Reads PROVE OwnedBy(s)'
        BY DEF Owned
    <2>1. OwnedBy(s)
        BY DEF IInv, Owned
    <2>2. CASE s = r
        BY <1>1, <2>1, <2>2 DEF IInv, Shape, Request, OwnedBy, Served, Referenced, Resulted, Born, Completing
    <2>3. CASE s # r
        BY <1>1, <2>1, <2>3, OtherKept DEF IInv, Shape
    <2>. QED
        BY <2>2, <2>3
<1>4. CountsExact'
    <2>1. InMemory' = InMemory
        BY <1>1 DEF IInv, Shape, Request, InMemory
    <2>2. Waiting' = Waiting /\ Counted' = Counted
        BY <1>1 DEF IInv, Shape, Waiting, Counted
    <2>3. \A s \in Reads : request'[s].size = request[s].size
        BY <1>1 DEF IInv, Shape, Request
    <2>. QED
        BY <1>1, <2>1, <2>2, <2>3, CountsKept
<1>5. NoLostWakeup'
    BY <1>1 DEF IInv, Shape, NoLostWakeup, Done
<1>. QED
    BY <1>2, <1>3, <1>4, <1>5 DEF IInv

\* The end of a turn discards its locals and keeps the list.
LEMMA TurnEndsFields ==
    ASSUME loop \in Loop, NEW pc \in {"outside", "top"}, TurnEnds(pc)
    PROVE  /\ loop' \in Loop /\ loop'.pc = pc
           /\ loop'.listed = loop.listed /\ loop'.unpolled = {}
BY DEF TurnEnds, Loop

\* A step of the event-loop thread on its own, and a step of nobody.
LEMMA LoopKeeps ==
    ASSUME IInv,
           \/ Enter \/ Return \/ Raise \/ Capture \/ EndPoll \/ Timeout
           \/ UNCHANGED vars \/ \E r \in Reads : Register(r) \/ PassOver(r)
    PROVE  IInv'
<1> DEFINE Good == /\ UNCHANGED <<request, worker, pool, held, live, completed, signal>>
                   /\ loop' = loop \/ loop'.pc # "blocked"
                   /\ loop' \in Loop /\ loop'.listed \subseteq held
                   /\ loop'.unpolled \subseteq loop'.listed
<1>1. Good
    <2>1. /\ completed \in Nat /\ loop \in Loop
          /\ loop.listed \subseteq held /\ loop.unpolled \subseteq loop.listed
        BY DEF IInv, Shape
    <2>2. CASE Capture
        BY <2>1, <2>2 DEF Capture, Loop
    <2>3. CASE EndPoll
        <3>1. CASE TurnEnds("top")
            BY <2>1, <2>3, <3>1, TurnEndsFields DEF EndPoll
        <3>2. CASE loop' = [loop EXCEPT !.pc = "wait"]
            BY <2>1, <2>3, <3>2 DEF EndPoll, Loop
        <3>. QED
            BY <2>3, <3>1, <3>2 DEF EndPoll
    <2>4. CASE Timeout
        BY <2>1, <2>4, TurnEndsFields DEF Timeout
    <2>5. CASE Raise
        BY <2>1, <2>5, TurnEndsFields DEF Raise
    <2>6. CASE Enter
        BY <2>1, <2>6 DEF Enter, Loop
    <2>7. CASE Return
        BY <2>1, <2>7 DEF Return, Loop
    <2>8. ASSUME NEW r \in Reads, Register(r) PROVE Good
        <3>1. Worked \in BOOLEAN /\ loop.pc # "blocked"
            BY <2>8 DEF Register, InUse, Worked
        <3>2. loop' = [loop EXCEPT !.listed = @ \cup {r}, !.worked = Worked] /\ r \in held
            BY <2>8 DEF Register
        <3>3. loop.listed \cup {r} \in SUBSET Reads
            BY <2>1 DEF Loop
        <3>4. /\ loop' \in Loop /\ loop'.pc = loop.pc
              /\ loop'.listed = loop.listed \cup {r} /\ loop'.unpolled = loop.unpolled
            BY <2>1, <3>1, <3>2, <3>3 DEF Loop
        <3>. QED
            BY <2>1, <2>8, <3>1, <3>2, <3>4 DEF Register
    <2>9. ASSUME NEW r \in Reads, PassOver(r) PROVE Good
        <3>1. loop' \in Loop /\ loop'.listed = loop.listed /\ loop'.unpolled = loop.unpolled \ {r}
            BY <2>1, <2>9 DEF PassOver, Loop
        <3>2. loop'.pc # "blocked"
            BY <2>1, <2>9 DEF PassOver, Loop
        <3>. QED
            BY <2>1, <2>9, <3>1, <3>2 DEF PassOver
    <2>10. CASE UNCHANGED vars
        BY <2>1, <2>10 DEF vars
    <2>. QED
        BY <2>2, <2>3, <2>4, <2>5, <2>6, <2>7, <2>8, <2>9, <2>10
<1>2. Shape'
    BY <1>1 DEF IInv, Shape
<1>3. Owned'
    BY <1>1 DEF IInv, Owned, OwnedBy, Served, Referenced, Resulted, Born, Completing
<1>4. CountsExact'
    BY <1>1 DEF IInv, CountsExact, InMemory, Waiting, Counted
<1>5. NoLostWakeup'
    BY <1>1 DEF IInv, NoLostWakeup, Done
<1>. QED
    BY <1>2, <1>3, <1>4, <1>5 DEF IInv

\* A new request of size bytes adds its buffer to those in memory.
LEMMA BuffersPlus ==
    ASSUME NEW f, NEW S, NEW r, r \notin S, f[r].size \in Nat, IsFiniteSet(Buffers(f, S))
    PROVE  /\ IsFiniteSet(Buffers(f, S \cup {r}))
           /\ Cardinality(Buffers(f, S \cup {r})) = Cardinality(Buffers(f, S)) + f[r].size
<1> DEFINE old == Buffers(f, S)
           new == {r} \X (1..f[r].size)
<1>1. Buffers(f, S \cup {r}) = old \cup new /\ old \cap new = {}
    BY DEF Buffers
<1>2. IsFiniteSet(1..f[r].size) /\ Cardinality(1..f[r].size) = f[r].size
    <2>1. ASSUME NEW n \in Nat PROVE IsFiniteSet(1..n) /\ Cardinality(1..n) = n
        <3>1. 1 \in Int /\ n \in Int
            OBVIOUS
        <3>2. IsFiniteSet(1..n) /\ Cardinality(1..n) = IF 1 > n THEN 0 ELSE n - 1 + 1
            BY <3>1, FS_Interval, Zenon
        <3>. QED
            BY <3>2
    <2>. QED
        BY <2>1
<1>3. IsFiniteSet({r}) /\ Cardinality({r}) = 1
    BY FS_Singleton
<1>4. IsFiniteSet(new) /\ Cardinality(new) = Cardinality({r}) * Cardinality(1..f[r].size)
    BY <1>2, <1>3, FS_Product
<1>5. Cardinality(new) = f[r].size
    BY <1>2, <1>3, <1>4
<1>6. /\ IsFiniteSet(old \cup new)
      /\ Cardinality(old \cup new) = Cardinality(old) + Cardinality(new) - Cardinality({})
    BY <1>1, <1>4, FS_Union
<1>7. Cardinality(old) \in Nat /\ Cardinality({}) = 0
    BY FS_CardinalityType, FS_EmptySet
<1> HIDE DEF old, new
<1>. QED
    <2>1. Cardinality(old \cup new) = Cardinality(old) + f[r].size
        BY <1>5, <1>6, <1>7
    <2>. QED
        BY <1>1, <1>6, <2>1 DEF old

\* A started read has two owners and is counted once in each limit.
LEMMA StartKeeps ==
    ASSUME IInv, NEW r \in Reads, NEW size \in Sizes, NEW kind \in {"worker", "pool"},
           Start(r, size, kind)
    PROVE  IInv'
<1> DEFINE new == [Unborn EXCEPT !.references = 2, !.descriptor = "open", !.size = size]
<1>1. /\ request[r] = Unborn
      /\ request' = [request EXCEPT ![r] = new]
      /\ worker' = [worker EXCEPT ![r] = IF kind = "worker" THEN "begin" ELSE @]
      /\ pool' = [pool EXCEPT ![r] = IF kind = "pool" THEN "queued" ELSE @]
      /\ held' = held \cup {r}
      /\ UNCHANGED <<completed, signal>>
    BY DEF Start
<1>2. /\ live.reads < ReadLimit /\ live.bytes <= ByteLimit - size
      /\ kind = "worker" => live.workers < WorkerLimit
      /\ live' = [reads |-> live.reads + 1, bytes |-> live.bytes + size,
                  workers |-> live.workers + IF kind = "worker" THEN 1 ELSE 0]
      /\ live \in [reads : Nat, bytes : Nat, workers : Nat] /\ size \in Nat
    BY ReadLimitsAssumption DEF Start, IInv, Shape
<1>3. OwnedBy(r) /\ ~Born(r) /\ worker[r] = "none" /\ pool[r] = "none"
    BY <1>1 DEF IInv, Owned, OwnedBy, Served, Born, Unborn
<1>4. /\ new.references = 2 /\ new.ready = FALSE /\ new.cancelled = FALSE
      /\ new.descriptor = "open" /\ new.size = size /\ new.result = "none" /\ new.freed = FALSE
      /\ new \in Request
    <2>1. Unborn \in Request
        BY DEF Unborn, Request, Results
    <2>2. ASSUME NEW q \in Request, NEW p,
                 p = [q EXCEPT !.references = 2, !.descriptor = "open", !.size = size]
          PROVE  /\ p.references = 2 /\ p.descriptor = "open" /\ p.size = size
                 /\ p.ready = q.ready /\ p.cancelled = q.cancelled
                 /\ p.result = q.result /\ p.freed = q.freed
                 /\ p \in Request
        <3>1. /\ p.references = 2 /\ p.descriptor = "open" /\ p.size = size
              /\ p.ready = q.ready /\ p.cancelled = q.cancelled
              /\ p.result = q.result /\ p.freed = q.freed
            BY <2>2 DEF Request
        <3>2. p \in Request
            <4>1. size \in Sizes \cup {0} /\ 2 \in 0..2
                OBVIOUS
            <4>2. ASSUME NEW z \in Sizes \cup {0}, NEW n \in 0..2,
                         p = [q EXCEPT !.references = n, !.descriptor = "open", !.size = z]
                  PROVE  p \in Request
                BY <4>2 DEF Request
            <4>. QED
                BY <2>2, <4>1, <4>2
        <3>. QED
            BY <3>1, <3>2
    <2>3. /\ Unborn.ready = FALSE /\ Unborn.cancelled = FALSE /\ Unborn.result = "none"
          /\ Unborn.freed = FALSE
        BY DEF Unborn
    <2>. QED
        BY <2>1, <2>2, <2>3
<1>5. Shape'
    <2>1. /\ loop' \in Loop /\ loop'.listed \subseteq held'
          /\ loop'.unpolled \subseteq loop'.listed
        <3>1. PICK listed \in {{}, {r}} :
                  loop' = [loop EXCEPT !.listed = @ \cup listed, !.worked = Worked]
            BY DEF Start
        <3>2. Worked \in BOOLEAN /\ listed \subseteq {r} /\ loop \in Loop
              /\ loop.listed \subseteq held /\ loop.unpolled \subseteq loop.listed
            BY DEF Worked, IInv, Shape
        <3>. QED
            BY <1>1, <3>1, <3>2 DEF Loop
    <2>2. live' \in [reads : Nat, bytes : Nat, workers : Nat]
        BY <1>2
    <2> HIDE DEF new
    <2>. QED
        BY <1>1, <1>4, <2>1, <2>2 DEF IInv, Shape
<1> HIDE DEF new
<1>6. Owned'
    <2> SUFFICES ASSUME NEW s \in Reads PROVE OwnedBy(s)'
        BY DEF Owned
    <2>1. OwnedBy(s)
        BY DEF IInv, Owned
    <2>2. CASE s = r
        BY <1>1, <1>3, <1>4, <2>2 DEF IInv, Shape, Request, OwnedBy, Served, Referenced, Resulted, Born, Completing
    <2>3. CASE s # r
        BY <1>1, <2>1, <2>3, OtherKept DEF IInv, Shape
    <2>. QED
        BY <2>2, <2>3
<1>7. CountsExact'
    <2>1. r \notin InMemory /\ InMemory' = InMemory \cup {r}
        BY <1>1, <1>4 DEF IInv, Shape, InMemory, Unborn
    <2>2. Cardinality(InMemory') = Cardinality(InMemory) + 1
        BY <2>1, CountedFinite, FS_AddElement, Zenon
    <2>3. Buffers(request', InMemory) = Buffers(request, InMemory)
        <3>1. \A s \in InMemory : request'[s].size = request[s].size
            BY <1>1, <2>1 DEF IInv, Shape, InMemory
        <3>. QED
            BY <3>1, BuffersSame
    <2>4. request'[r].size = size
        BY <1>1, <1>4 DEF IInv, Shape
    <2>5. /\ IsFiniteSet(Buffers(request, InMemory)')
          /\ Cardinality(Buffers(request, InMemory)') = Cardinality(Buffers(request, InMemory)) + size
        <3>1. IsFiniteSet(Buffers(request', InMemory))
            BY <2>3 DEF IInv, CountsExact
        <3>. QED
            BY <1>2, <2>1, <2>3, <2>4, <3>1, BuffersPlus
    <2>6. ASSUME kind = "worker" PROVE Cardinality(Waiting') = Cardinality(Waiting) + 1
        <3>1. r \notin Waiting /\ Waiting' = Waiting \cup {r}
            BY <1>1, <1>3, <2>6 DEF IInv, Shape, Waiting
        <3>. QED
            BY <3>1, CountedFinite, FS_AddElement, Zenon
    <2>7. ASSUME kind # "worker" PROVE Waiting' = Waiting
        BY <1>1, <1>3, <2>7 DEF IInv, Shape, Waiting
    <2>8. Cardinality(Waiting') = Cardinality(Waiting) + IF kind = "worker" THEN 1 ELSE 0
        <3>1. Cardinality(Waiting) \in Nat
            BY CountedFinite, FS_CardinalityType
        <3>. QED
            BY <2>6, <2>7, <3>1
    <2>9. Counted' = Counted
        BY <1>1, <1>3 DEF IInv, Shape, Counted
    <2>. QED
        BY <1>1, <1>2, <2>2, <2>5, <2>8, <2>9, ReadLimitsAssumption DEF IInv, CountsExact
<1>8. NoLostWakeup'
    <2>1. loop.pc # "blocked" /\ loop'.pc = loop.pc
        BY DEF Start, InUse, IInv, Shape, Loop
    <2>. QED
        BY <2>1 DEF NoLostWakeup
<1>. QED
    BY <1>5, <1>6, <1>7, <1>8 DEF IInv

\* tsonic_node_stream_read_drop.
LEMMA AbandonKeeps == ASSUME IInv, NEW r \in Reads, Abandon(r) PROVE IInv'
<1> DEFINE cancels == pool[r] = "queued"
           result == IF cancels THEN "cancelled" ELSE request[r].result
           new == Released(Cancelled(request[r], result))
<1>1. /\ r \in held /\ held' = held \ {r}
      /\ request' = [request EXCEPT ![r] = new]
      /\ pool' = IF cancels THEN [pool EXCEPT ![r] = "done"] ELSE pool
      /\ signal' = (signal \/ cancels)
      /\ live' = LiveAfter(request')
      /\ loop.pc # "blocked"
      /\ loop' = [loop EXCEPT !.listed = @ \ {r}, !.unpolled = @ \ {r}]
      /\ UNCHANGED <<worker, completed>>
    <2>1. [request EXCEPT ![r].cancelled = TRUE, ![r].result = IF cancels THEN "cancelled" ELSE @]
              = [request EXCEPT ![r] = Cancelled(request[r], result)]
        BY DEF Cancelled, IInv, Shape
    <2>2. ReleasedRead([request EXCEPT ![r] = Cancelled(request[r], result)], r)
              = [request EXCEPT ![r] = new]
        BY DEF ReleasedRead, Released, IInv, Shape
    <2> HIDE DEF new
    <2>. QED
        BY <2>1, <2>2 DEF Abandon, Drop, InUse
<1>2. OwnedBy(r) /\ request[r] \in Request /\ result \in Results
    BY DEF IInv, Owned, Shape, Request, Results
<1>3. request[r].references \in 1..2
    BY <1>1, <1>2 DEF OwnedBy, Referenced, Request
<1> HIDE DEF result
<1>4. /\ new \in Request
      /\ new.references = request[r].references - 1
      /\ new.freed <=> request[r].references = 1
      /\ new.ready = request[r].ready /\ new.cancelled = TRUE
      /\ new.descriptor = request[r].descriptor /\ new.size = request[r].size
      /\ new.result = result
    <2> DEFINE mid == Cancelled(request[r], result)
    <2>1. /\ mid \in Request /\ mid.cancelled = TRUE /\ mid.result = result
          /\ mid.ready = request[r].ready /\ mid.references = request[r].references
          /\ mid.descriptor = request[r].descriptor /\ mid.size = request[r].size
        BY <1>2, CancelledFields
    <2> HIDE DEF mid
    <2>2. new = Released(mid) /\ mid.references # 0
        BY <1>3, <2>1 DEF mid
    <2> HIDE DEF new
    <2>. QED
        BY <2>1, <2>2, ReleasedFields
<1> USE DEF result
<1> HIDE DEF new
<1>6. Owned'
    <2> SUFFICES ASSUME NEW s \in Reads PROVE OwnedBy(s)'
        BY DEF Owned
    <2>1. OwnedBy(s)
        BY DEF IInv, Owned
    <2>2. CASE s = r
        <3>1. /\ request'[r] = new /\ worker'[r] = worker[r] /\ r \in held /\ r \notin held'
              /\ pool'[r] = IF cancels THEN "done" ELSE pool[r]
            BY <1>1 DEF IInv, Shape
        <3>2. /\ request[r].descriptor # "none" /\ request[r].descriptor \in {"none", "open", "closed"}
              /\ Completing(r)' <=> Completing(r)
            BY <1>2, <3>1 DEF OwnedBy, Served, Born, Completing, Request
        <3>3. Served(r)'
            BY <1>2, <1>4, <3>1, <3>2 DEF OwnedBy, Served, Born
        <3>4. Referenced(r)'
            BY <1>2, <1>3, <1>4, <3>1, <3>2 DEF OwnedBy, Referenced, Born
        <3>5. Resulted(r)'
            BY <1>2, <1>4, <3>1, <3>2 DEF OwnedBy, Resulted, Served, Born
        <3>. QED
            BY <2>2, <3>3, <3>4, <3>5 DEF OwnedBy
    <2>3. CASE s # r
        BY <1>1, <2>1, <2>3, OtherKept DEF IInv, Shape
    <2>. QED
        BY <2>2, <2>3
<1>7. Waiting' = Waiting /\ Counted' = Counted
    BY <1>1 DEF IInv, Shape, Waiting, Counted
<1>8. /\ \A s \in Reads : request'[s].size = request[s].size
      /\ \A s \in Reads : Born(s)' <=> Born(s)
      /\ \A s \in Reads : request'[s].references <= request[s].references
    <2>1. \A s \in Reads : request[s].references \in 0..2
        BY DEF IInv, Shape, Request
    <2>2. ASSUME NEW s \in Reads
          PROVE  /\ request'[s].size = request[s].size
                 /\ request'[s].descriptor = request[s].descriptor
                 /\ request'[s].references <= request[s].references
        <3>1. CASE s = r
            BY <1>1, <1>3, <1>4, <3>1 DEF IInv, Shape
        <3>2. CASE s # r
            BY <1>1, <2>1, <3>2 DEF IInv, Shape
        <3>. QED
            BY <3>1, <3>2
    <2>. QED
        BY <2>2 DEF Born
<1>9. request' \in [Reads -> Request] /\ completed' = Cardinality(Counted')
    BY <1>1, <1>4, <1>7 DEF IInv, Shape, CountsExact
<1>10. live' \in [reads : Nat, bytes : Nat, workers : Nat] /\ CountsExact'
    BY <1>1, <1>6, <1>7, <1>8, <1>9, LiveExact
<1>5. /\ loop' \in Loop /\ loop'.pc = loop.pc
      /\ loop'.listed \subseteq held' /\ loop'.unpolled \subseteq loop'.listed
    <2>1. loop \in Loop /\ loop.listed \subseteq held /\ loop.unpolled \subseteq loop.listed
        BY DEF IInv, Shape
    <2>. QED
        BY <1>1, <2>1 DEF Loop
<1>11. Shape'
    BY <1>1, <1>5, <1>9, <1>10 DEF IInv, Shape
<1>12. NoLostWakeup'
    BY <1>1, <1>5 DEF NoLostWakeup
<1>. QED
    BY <1>6, <1>10, <1>11, <1>12 DEF IInv

\* uv_run completes exactly the reads the pool has finished: complete_read
\* publishes and then releases them.
LEMMA CompletionOf ==
    ASSUME IInv, NEW r \in Reads, NEW q, q = CompletedReads(request)[r]
    PROVE  /\ q \in Request
           /\ pool[r] # "done" => q = request[r]
           /\ pool[r] = "done" => q.references = request[r].references - 1
           /\ pool[r] = "done" => (q.freed <=> request[r].references = 1)
           /\ pool[r] = "done" => q.ready /\ q.descriptor = "closed"
           /\ pool[r] = "done" => q.cancelled = request[r].cancelled
           /\ pool[r] = "done" => q.size = request[r].size /\ q.result = request[r].result
           /\ pool[r] = "done" => request[r].references \in 1..2
<1>1. request \in [Reads -> Request] /\ request[r] \in Request /\ OwnedBy(r)
    BY DEF IInv, Shape, Owned
<1>2. CASE pool[r] # "done"
    BY <1>1, <1>2 DEF CompletedReads, Done
<1>3. CASE pool[r] = "done"
    <2>1. Published(request, r, request[r].result)
              = [request EXCEPT ![r] = Publication(request[r])]
        BY <1>1 DEF Published, Publication, Request
    <2>2. q = Released(Publication(request[r]))
        BY <1>1, <1>3, <2>1 DEF CompletedReads, Done, ReleasedRead, Released
    <2>3. request[r].references \in 1..2
        BY <1>1, <1>3 DEF OwnedBy, Referenced, Completing, Request
    <2> DEFINE mid == Publication(request[r])
    <2>4. /\ mid \in Request /\ mid.ready = TRUE /\ mid.descriptor = "closed"
          /\ mid.cancelled = request[r].cancelled /\ mid.result = request[r].result
          /\ mid.references = request[r].references /\ mid.size = request[r].size
        BY <1>1, PublicationFields
    <2>5. q = Released(mid)
        BY <2>2
    <2> HIDE DEF mid
    <2>. QED
        BY <1>3, <2>3, <2>4, <2>5, ReleasedFields
<1>. QED
    BY <1>2, <1>3

\* uv_run counts the reads it completes, each for the first time.
LEMMA RanCounts ==
    ASSUME IInv, Ran, worker' = worker
    PROVE  /\ completed' = Cardinality(Counted') /\ completed' \in Nat
           /\ Waiting' = Waiting /\ Done' = {} /\ signal' \in BOOLEAN
           /\ pool' \in [Reads -> {"none", "queued", "executing", "done", "gone"}]
           /\ \A r \in Reads : pool'[r] = IF pool[r] = "done" THEN "gone" ELSE pool[r]
<1>1. /\ pool' \in [Reads -> {"none", "queued", "executing", "done", "gone"}]
      /\ \A r \in Reads : pool'[r] = IF pool[r] = "done" THEN "gone" ELSE pool[r]
    BY DEF Ran, IInv, Shape, Done
<1>2. Waiting' = Waiting /\ Done' = {} /\ signal' \in BOOLEAN
    BY <1>1 DEF Ran, Waiting, Done
<1>3. Counted' = Counted \cup Done
    BY <1>1 DEF Counted, Done
<1>4. Counted \cap Done = {}
    BY DEF IInv, Owned, OwnedBy, Served, Counted, Done
<1>5. Done \in SUBSET Reads
    BY DEF Done
<1>6. IsFiniteSet(Done)
    BY <1>5, FS_Subset, ReadLimitsAssumption
<1>7. Cardinality(Counted') = Cardinality(Counted) + Cardinality(Done) - Cardinality({})
    BY <1>3, <1>4, <1>6, CountedFinite, FS_Union
<1>8. Cardinality(Counted) \in Nat /\ Cardinality(Done) \in Nat /\ Cardinality({}) = 0
    BY <1>6, CountedFinite, FS_CardinalityType, FS_EmptySet
<1>9. completed' = completed + Cardinality(Done) /\ completed = Cardinality(Counted)
    BY DEF Ran, IInv, CountsExact
<1>. QED
    BY <1>1, <1>2, <1>7, <1>8, <1>9

\* A completion gives up the reference of the completion only.
LEMMA RanOwns ==
    ASSUME IInv, Ran, worker' = worker, NEW s \in Reads,
           request'[s] = CompletedReads(request)[s], s \in held' <=> s \in held
    PROVE  OwnedBy(s)'
<1>1. OwnedBy(s) /\ pool'[s] = IF pool[s] = "done" THEN "gone" ELSE pool[s]
    BY RanCounts DEF IInv, Owned
<1>2. CASE pool[s] # "done"
    <2>1. request'[s] = request[s] /\ pool'[s] = pool[s] /\ worker'[s] = worker[s]
        BY <1>1, <1>2, CompletionOf
    <2>. QED
        BY <1>1, <2>1, OtherKept
<1>3. CASE pool[s] = "done"
    <2>1. /\ request'[s].references = request[s].references - 1
          /\ request'[s].freed <=> request[s].references = 1
          /\ request'[s].ready = TRUE /\ request'[s].cancelled = request[s].cancelled
          /\ request'[s].descriptor = "closed" /\ request'[s].result = request[s].result
          /\ request[s].references \in 1..2
        BY <1>3, CompletionOf
    <2>2. /\ pool'[s] = "gone" /\ worker'[s] = "none" /\ worker[s] = "none"
          /\ Completing(s) /\ ~Completing(s)' /\ Born(s) /\ Born(s)'
        BY <1>1, <1>3, <2>1 DEF OwnedBy, Served, Completing, Born
    <2>3. Served(s)'
        BY <2>2 DEF Served
    <2>4. Referenced(s)'
        BY <1>1, <2>1, <2>2 DEF OwnedBy, Referenced
    <2>5. Resulted(s)'
        BY <1>1, <1>3, <2>1, <2>2 DEF OwnedBy, Resulted
    <2>. QED
        BY <2>3, <2>4, <2>5 DEF OwnedBy
<1>. QED
    BY <1>2, <1>3

\* What completions, and a drop with them, leave alone.
LEMMA RanFields ==
    ASSUME IInv, NEW s \in Reads, NEW q, q = CompletedReads(request)[s]
    PROVE  /\ q.size = request[s].size
           /\ q.descriptor # "none" <=> Born(s)
           /\ q.references <= request[s].references
           /\ q \in Request
<1>1. request[s] \in Request /\ OwnedBy(s)
    BY DEF IInv, Shape, Owned
<1>2. q \in Request /\ request[s].references \in 0..2
    BY <1>1, CompletionOf DEF Request
<1>3. CASE pool[s] = "done"
    <2>1. /\ q.references = request[s].references - 1
          /\ q.descriptor = "closed" /\ q.size = request[s].size
        BY <1>3, CompletionOf
    <2>2. Born(s)
        BY <1>1, <1>3 DEF OwnedBy, Served
    <2>. QED
        BY <1>2, <2>1, <2>2
<1>4. CASE pool[s] # "done"
    <2>1. q = request[s]
        BY <1>4, CompletionOf
    <2>. QED
        BY <1>2, <2>1 DEF Born
<1>. QED
    BY <1>3, <1>4

\* tsonic_node_stream_read_wait: a completion before the comparison of the
\* generations keeps the loop from blocking, one after it signals.
LEMMA WaitKeeps == ASSUME IInv, Wait \/ Wake PROVE IInv'
<1>1. /\ Ran /\ request' = CompletedReads(request) /\ live' = LiveAfter(request')
      /\ worker' = worker /\ held' = held
      /\ \/ TurnEnds("top")
         \/ loop' = [loop EXCEPT !.pc = "blocked"] /\ completed' = loop.epoch
    BY DEF Wait, Wake
<1>2. Owned'
    <2> SUFFICES ASSUME NEW s \in Reads PROVE OwnedBy(s)'
        BY DEF Owned
    <2>1. request'[s] = CompletedReads(request)[s] /\ (s \in held' <=> s \in held)
        BY <1>1
    <2>. QED
        BY <1>1, <2>1, RanOwns
<1>3. request' \in [Reads -> Request]
    <2>1. \A s \in Reads : CompletedReads(request)[s] \in Request
        BY RanFields
    <2>2. DOMAIN CompletedReads(request) = Reads
        BY DEF CompletedReads
    <2>3. CompletedReads(request) = [s \in Reads |-> CompletedReads(request)[s]]
        BY DEF CompletedReads
    <2>. QED
        BY <1>1, <2>1, <2>2, <2>3
<1>4. /\ \A s \in Reads : request'[s].size = request[s].size
      /\ \A s \in Reads : Born(s)' <=> Born(s)
      /\ \A s \in Reads : request'[s].references <= request[s].references
    BY <1>1, RanFields DEF Born
<1>5. live' \in [reads : Nat, bytes : Nat, workers : Nat] /\ CountsExact'
    BY <1>1, <1>2, <1>3, <1>4, RanCounts, LiveExact
<1>8. /\ loop' \in Loop /\ loop'.listed = loop.listed /\ loop'.unpolled \subseteq loop.unpolled
      /\ loop'.pc = "blocked" => completed' = loop'.epoch
    <2>1. loop \in Loop
        BY DEF IInv, Shape
    <2>2. CASE TurnEnds("top")
        BY <2>1, <2>2, TurnEndsFields
    <2>3. CASE loop' = [loop EXCEPT !.pc = "blocked"] /\ completed' = loop.epoch
        BY <2>1, <2>3 DEF Loop
    <2>. QED
        BY <1>1, <2>2, <2>3
<1>6. Shape'
    BY <1>1, <1>3, <1>5, <1>8, RanCounts DEF IInv, Shape
<1>7. NoLostWakeup'
    <2>1. Done' = {}
        BY <1>1, RanCounts
    <2>. QED
        BY <1>8, <2>1 DEF NoLostWakeup
<1>. QED
    BY <1>2, <1>5, <1>6, <1>7 DEF IInv

\* NativeRead.ready, and the result and drop that follow when it is true.
LEMMA CheckReadyKeeps == ASSUME IInv, NEW r \in Reads, CheckReady(r) PROVE IInv'
<1> DEFINE ran == CompletedReads(request)
           new == Released(Cancelled(ran[r], ran[r].result))
<1>1. Ran /\ worker' = worker /\ r \in held /\ live' = LiveAfter(request') /\ loop.pc # "blocked"
    BY DEF CheckReady, InUse
<1>2. \A s \in Reads : ran[s] \in Request
    BY RanFields
<1>3. ran = [s \in Reads |-> ran[s]]
    BY DEF CompletedReads
<1>4. ran \in [Reads -> Request]
    BY <1>2, <1>3
<1>5. /\ loop' \in Loop /\ loop'.pc = loop.pc
      /\ loop'.listed \subseteq held' /\ loop'.unpolled \subseteq loop'.listed
    <2>1. loop \in Loop /\ loop.listed \subseteq held /\ loop.unpolled \subseteq loop.listed
        BY DEF IInv, Shape
    <2>2. CASE ran[r].ready
        <3>1. /\ held' = held \ {r}
              /\ loop' = [loop EXCEPT !.listed = @ \ {r}, !.unpolled = @ \ {r}, !.worked = Worked]
            BY <2>2 DEF CheckReady
        <3>2. Worked \in BOOLEAN
            BY DEF Worked
        <3>. QED
            BY <2>1, <3>1, <3>2 DEF Loop
    <2>3. CASE ~ran[r].ready
        <3>1. held' = held /\ loop' = [loop EXCEPT !.unpolled = @ \ {r}]
            BY <2>3 DEF CheckReady
        <3>. QED
            BY <2>1, <3>1 DEF Loop
    <2>. QED
        BY <2>2, <2>3
<1>6. NoLostWakeup'
    BY <1>1, <1>5 DEF NoLostWakeup
<1>7. ASSUME request' \in [Reads -> Request], Owned', held' \subseteq Reads,
             \A s \in Reads : request'[s].size = request[s].size,
             \A s \in Reads : Born(s)' <=> Born(s),
             \A s \in Reads : request'[s].references <= request[s].references
      PROVE  IInv'
    <2>1. live' \in [reads : Nat, bytes : Nat, workers : Nat] /\ CountsExact'
        BY <1>1, <1>7, RanCounts, LiveExact
    <2>2. Shape'
        BY <1>1, <1>5, <1>7, <2>1, RanCounts DEF IInv, Shape
    <2>. QED
        BY <1>6, <1>7, <2>1, <2>2 DEF IInv
<1>8. CASE ~ran[r].ready
    <2>1. request' = ran /\ held' = held
        BY <1>8 DEF CheckReady
    <2> HIDE DEF ran
    <2>2. Owned'
        <3> SUFFICES ASSUME NEW s \in Reads PROVE OwnedBy(s)'
            BY DEF Owned
        <3>1. request'[s] = ran[s] /\ (s \in held' <=> s \in held)
            BY <2>1
        <3>. QED
            BY <1>1, <3>1, RanOwns DEF ran
    <2>3. /\ \A s \in Reads : request'[s].size = request[s].size
          /\ \A s \in Reads : Born(s)' <=> Born(s)
          /\ \A s \in Reads : request'[s].references <= request[s].references
        BY <2>1, RanFields DEF Born, ran
    <2>. QED
        BY <1>4, <1>7, <2>1, <2>2, <2>3 DEF IInv, Shape
<1>9. CASE ran[r].ready
    <2>1. request' = [ran EXCEPT ![r] = new] /\ held' = held \ {r}
        <3>1. request' = ReleasedRead([ran EXCEPT ![r].cancelled = TRUE], r) /\ held' = held \ {r}
            BY <1>9 DEF CheckReady
        <3> HIDE DEF ran
        <3>2. [ran EXCEPT ![r].cancelled = TRUE] = [ran EXCEPT ![r] = Cancelled(ran[r], ran[r].result)]
            BY <1>4 DEF Cancelled, Request
        <3>3. ReleasedRead([ran EXCEPT ![r] = Cancelled(ran[r], ran[r].result)], r)
                  = [ran EXCEPT ![r] = new]
            BY <1>4 DEF ReleasedRead, Released
        <3>. QED
            BY <3>1, <3>2, <3>3
    <2>2. /\ OwnedBy(r) /\ request[r] \in Request /\ worker'[r] = worker[r]
          /\ pool'[r] = IF pool[r] = "done" THEN "gone" ELSE pool[r]
        BY <1>1, RanCounts DEF IInv, Shape, Owned
    <2>3. /\ ran[r].references = 1 + (IF Completing(r)' THEN 1 ELSE 0)
          /\ ran[r].result # "none" /\ ran[r].descriptor = "closed"
          /\ worker[r] \in {"count", "send", "release", "gone"} \/ pool'[r] = "gone"
          /\ worker[r] = "none" \/ pool'[r] = "none"
        <3>1. CASE pool[r] = "done"
            <4>1. /\ ran[r].references = request[r].references - 1
                  /\ ran[r].result = request[r].result /\ ran[r].descriptor = "closed"
                BY <3>1, CompletionOf
            <4>2. Completing(r) /\ ~Completing(r)' /\ pool'[r] = "gone" /\ worker[r] = "none"
                BY <2>2, <3>1 DEF Completing, OwnedBy, Served
            <4>. QED
                BY <1>1, <2>2, <3>1, <4>1, <4>2 DEF OwnedBy, Referenced, Resulted
        <3>2. CASE pool[r] # "done"
            <4>1. ran[r] = request[r] /\ pool'[r] = pool[r]
                BY <2>2, <3>2, CompletionOf
            <4>2. Completing(r)' <=> Completing(r)
                BY <2>2, <4>1 DEF Completing
            <4>3. request[r].ready
                BY <1>9, <4>1
            <4>. QED
                BY <1>1, <2>2, <4>1, <4>2, <4>3 DEF OwnedBy, Served, Referenced, Resulted
        <3>. QED
            BY <3>1, <3>2
    <2>4. ran[r] \in Request /\ ran[r].result \in Results /\ ran[r].references \in 1..2
        BY <1>2, <2>3 DEF Request
    <2>5. ran[r].size = request[r].size /\ Born(r) /\ ran[r].references <= request[r].references
        BY <2>3, RanFields
    <2> HIDE DEF ran
    <2>6. /\ new \in Request
          /\ new.references = ran[r].references - 1
          /\ new.freed <=> ran[r].references = 1
          /\ new.ready = ran[r].ready /\ new.cancelled = TRUE /\ new.result = ran[r].result
          /\ new.descriptor = ran[r].descriptor /\ new.size = ran[r].size
        <3> DEFINE mid == Cancelled(ran[r], ran[r].result)
        <3>1. /\ mid \in Request /\ mid.cancelled = TRUE /\ mid.result = ran[r].result
              /\ mid.ready = ran[r].ready /\ mid.references = ran[r].references
              /\ mid.descriptor = ran[r].descriptor /\ mid.size = ran[r].size
            BY <2>4, CancelledFields
        <3>2. new = Released(mid) /\ mid.references # 0
            BY <2>4, <3>1
        <3> HIDE DEF mid, new
        <3>. QED
            BY <3>1, <3>2, ReleasedFields
    <2> HIDE DEF new
    <2>7. request'[r] = new /\ \A s \in Reads \ {r} : request'[s] = ran[s]
        BY <1>4, <2>1
    <2>8. Owned'
        <3> SUFFICES ASSUME NEW s \in Reads PROVE OwnedBy(s)'
            BY DEF Owned
        <3>1. CASE s # r
            <4>1. request'[s] = ran[s] /\ (s \in held' <=> s \in held)
                BY <2>1, <2>7, <3>1
            <4>. QED
                BY <1>1, <4>1, RanOwns DEF ran
        <3>2. CASE s = r
            <4>2. Served(r)'
                BY <2>2, <2>3, <2>6, <2>7 DEF Served, Born
            <4>3. Referenced(r)'
                BY <2>1, <2>3, <2>4, <2>6, <2>7 DEF Referenced, Born
            <4>4. Resulted(r)'
                BY <1>9, <2>1, <2>2, <2>3, <2>6, <2>7 DEF Resulted
            <4>. QED
                BY <3>2, <4>2, <4>3, <4>4 DEF OwnedBy
        <3>. QED
            BY <3>1, <3>2
    <2>9. ASSUME NEW s \in Reads
          PROVE  /\ request'[s].size = request[s].size
                 /\ Born(s)' <=> Born(s)
                 /\ request'[s].references <= request[s].references
        <3>1. CASE s = r
            <4>1. request[r].references \in 0..2
                BY <2>2 DEF Request
            <4>. QED
                BY <2>3, <2>4, <2>5, <2>6, <2>7, <3>1, <4>1 DEF Born
        <3>2. CASE s # r
            BY <2>7, <3>2, RanFields DEF Born, ran
        <3>. QED
            BY <3>1, <3>2
    <2>10. request' \in [Reads -> Request] /\ held' \subseteq Reads
        BY <1>4, <2>1, <2>6 DEF IInv, Shape
    <2>. QED
        BY <1>7, <2>8, <2>9, <2>10
<1>. QED
    BY <1>8, <1>9
-----------------------------------------------------------------------------
\* Every step of every thread keeps the invariant.
LEMMA StepKeeps == IInv /\ [Next]_vars => IInv'
<1> SUFFICES ASSUME IInv, [Next]_vars PROVE IInv'
    OBVIOUS
<1>1. ASSUME NEW r \in Reads, Worker(r) PROVE IInv'
    BY <1>1, WorkerServes, WorkerLeavesKeeps, WorkerPublishesKeeps, WorkerCountsKeeps,
       WorkerSendsKeeps, WorkerReleasesKeeps DEF Worker
<1>2. ASSUME NEW r \in Reads, PoolTakes(r) \/ PoolFinishes(r) \/ Abandon(r) PROVE IInv'
    BY <1>2, PoolKeeps, AbandonKeeps
<1>6. ASSUME NEW r \in Reads, Register(r) \/ PassOver(r) PROVE IInv'
    BY <1>6, LoopKeeps
<1>7. ASSUME NEW r \in Reads, CheckReady(r) PROVE IInv'
    BY <1>7, CheckReadyKeeps
<1>3. ASSUME NEW r \in Reads, NEW size \in Sizes, NEW kind \in {"worker", "pool"},
             Start(r, size, kind)
      PROVE  IInv'
    BY <1>3, StartKeeps
<1>4. CASE Wait \/ Wake
    BY <1>4, WaitKeeps
<1>5. CASE \/ Enter \/ Return \/ Raise \/ Capture \/ EndPoll \/ Timeout
           \/ UNCHANGED vars
    BY <1>5, LoopKeeps
<1>8. loop.unpolled \subseteq Reads
    BY DEF IInv, Shape, Loop
<1>. QED
    BY <1>1, <1>2, <1>3, <1>4, <1>5, <1>6, <1>7, <1>8 DEF Next, LoopStep

\* The invariant holds in every reachable state.
THEOREM Inductive == Spec => []IInv
BY InitKeeps, StepKeeps, PTL DEF Spec

\* The counters of reads, bytes and workers are natural numbers within their
\* limits, whatever the order in which threads start and end (read_start).
THEOREM TypeCorrect == Spec => []TypeOK
BY Inductive, Implied, PTL

\* A request is freed by its last owner, handle or completion, and only then
\* (release_read).
THEOREM FreedCorrectly == Spec => []FreedByLastOwner
BY Inductive, Implied, PTL

\* The loop never sleeps on a completed read without a signal on its way
\* (the generation check before the wait).
THEOREM WakeupKept == Spec => []NoLostWakeup
BY Inductive, Implied, PTL

\* A step of any thread on a request that is ready leaves ready and the result
\* as they are.
LEMMA ReadyStays ==
    ASSUME IInv, [Next]_vars, NEW s \in Reads, request[s].ready
    PROVE  request'[s].ready /\ request'[s].result = request[s].result
<1>1. /\ worker[s] \in {"count", "send", "release", "gone"} \/ pool[s] = "gone"
      /\ worker[s] = "none" \/ pool[s] = "none"
      /\ request \in [Reads -> Request] /\ request[s] \in Request /\ request[s] # Unborn
    BY DEF IInv, Shape, Owned, OwnedBy, Served, Resulted, Unborn
<1>2. ASSUME NEW r \in Reads, WorkerRejects(r) \/ WorkerBegins(r) \/ WorkerChecks(r) \/ WorkerReads(r)
      PROVE  request'[s] = request[s]
    <2>1. worker[r] \in {"begin", "check", "read"} /\ worker[r] # "none"
        BY <1>2 DEF WorkerRejects, WorkerBegins, WorkerChecks, WorkerReads
    <2>2. r # s
        BY <1>1, <2>1
    <2>. QED
        BY <1>1, <1>2, <2>2 DEF WorkerRejects, WorkerBegins, WorkerChecks, WorkerReads
<1>3. ASSUME NEW r \in Reads, WorkerLeaves(r) \/ WorkerCounts(r) \/ WorkerSends(r)
      PROVE  request'[s] = request[s]
    BY <1>3 DEF WorkerLeaves, WorkerCounts, WorkerSends
<1>4. ASSUME NEW r \in Reads, WorkerPublishes(r)
      PROVE  request'[s] = request[s]
    <2>1. r # s
        BY <1>1, <1>4 DEF WorkerPublishes
    <2>. QED
        BY <1>1, <1>4, <2>1 DEF WorkerPublishes, Published
<1>5. ASSUME NEW r \in Reads, WorkerReleases(r)
      PROVE  request'[s].ready = request[s].ready /\ request'[s].result = request[s].result
    BY <1>1, <1>5 DEF WorkerReleases, ReleasedRead, Request
<1>6. ASSUME NEW r \in Reads, PoolTakes(r) \/ PoolFinishes(r)
      PROVE  request'[s] = request[s]
    BY <1>1, <1>6 DEF PoolTakes, PoolFinishes
<1>7. ASSUME NEW r \in Reads, Abandon(r)
      PROVE  request'[s].ready = request[s].ready /\ request'[s].result = request[s].result
    <2>1. pool[s] # "queued"
        BY <1>1
    <2>. QED
        BY <1>1, <1>7, <2>1 DEF Abandon, Drop, ReleasedRead, Request
<1>8. ASSUME NEW r \in Reads, NEW size \in Sizes, NEW kind \in {"worker", "pool"},
             Start(r, size, kind)
      PROVE  request'[s] = request[s]
    BY <1>1, <1>8 DEF Start
<1>9. LET q == CompletedReads(request)[s] IN q.ready /\ q.result = request[s].result
    BY <1>1, CompletionOf
<1>10. ASSUME NEW r \in Reads, CheckReady(r)
       PROVE  request'[s].ready /\ request'[s].result = request[s].result
    <2> DEFINE ran == CompletedReads(request)
    <2>1. ran = [t \in Reads |-> ran[t]] /\ \A t \in Reads : ran[t] \in Request
        BY RanFields DEF CompletedReads
    <2>2. \/ request' = ReleasedRead([ran EXCEPT ![r].cancelled = TRUE], r)
          \/ request' = ran
        BY <1>10 DEF CheckReady
    <2>3. ran[s].ready /\ ran[s].result = request[s].result
        BY <1>9
    <2> HIDE DEF ran
    <2>. QED
        BY <2>1, <2>2, <2>3 DEF ReleasedRead, Request
<1>11. CASE Wait \/ Wake
    BY <1>9, <1>11 DEF Wait, Wake
<1>12. CASE \/ Enter \/ Return \/ Raise \/ Capture \/ EndPoll \/ Timeout
            \/ UNCHANGED vars
    BY <1>12 DEF Enter, Return, Raise, Capture, EndPoll, Timeout, vars
<1>13. ASSUME NEW r \in Reads, Register(r) \/ PassOver(r)
       PROVE  request'[s] = request[s]
    BY <1>13 DEF Register, PassOver
<1>14. loop.unpolled \subseteq Reads
    BY DEF IInv, Shape, Loop
<1>. QED
    BY <1>2, <1>3, <1>4, <1>5, <1>6, <1>7, <1>8, <1>10, <1>11, <1>12, <1>13, <1>14
    DEF Next, Worker, LoopStep

\* The owner of a read may copy the result at any time after it saw ready.
THEOREM ResultsStable == Spec => ResultStable
<1>1. ASSUME IInv, [Next]_vars
      PROVE  [\A r \in Reads : request[r].ready =>
                 request'[r].ready /\ request'[r].result = request[r].result]_vars
    BY <1>1, ReadyStays
<1>. QED
    BY <1>1, Inductive, PTL DEF Spec, ResultStable
=============================================================================
