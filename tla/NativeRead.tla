------------------------------ MODULE NativeRead ------------------------------
(***************************************************************************)
(* Asynchronous reads of stream descriptors:                               *)
(* tsonic_node.native/stream/read.c, its wrapper stream/native_read.mojo   *)
(* and the part of event_loop.mojo that waits for completions.             *)
(*                                                                         *)
(* Three kinds of threads take part.  The event-loop thread starts, polls, *)
(* consumes and drops requests and waits.  A detached worker thread serves *)
(* each request on a pipe, terminal or socket.  The libuv thread pool      *)
(* serves requests on regular files; their completion callback runs inside *)
(* uv_run on the event-loop thread.  A request is freed by whichever of    *)
(* its two owners, the handle and the completion, releases it last.        *)
(*                                                                         *)
(* The steps between two accesses to memory shared with another thread are *)
(* one action.  Starting a request is one action because the counters it   *)
(* compares with the limits are only decreased by other threads; a start   *)
(* that fails undoes its own increments and is not an action.              *)
(* The last release, which counts live_bytes and live_reads down after the *)
(* reference, is one action too: between its decrements the counters are   *)
(* only too high, and nothing else reads them.                             *)
(*                                                                         *)
(* A read belongs to a Readable.  Whether that stream looks at its read    *)
(* when the loop polls it is up to the stream: one on the loop's list is   *)
(* polled, but returns early while a destination of its pipes is blocked;  *)
(* one that is off the list reads only when the program calls it.          *)
(***************************************************************************)
EXTENDS Integers, FiniteSets

CONSTANTS Reads,         \* the requests; each is started at most once
          Sizes,         \* buffer capacities to try
          ReadLimit,     \* STREAM_READ_LIMIT
          ByteLimit,     \* STREAM_READ_BYTES
          WorkerLimit    \* STREAM_WAIT_WORKERS

ASSUME ReadLimitsAssumption ==
    /\ IsFiniteSet(Reads)
    /\ Sizes \subseteq Nat \ {0}
    /\ {ReadLimit, ByteLimit, WorkerLimit} \subseteq Nat

VARIABLES request,     \* the TsonicStreamRead of each read
          worker,      \* where the worker thread of each read is
          pool,        \* where the uv_fs_read of each read is
          held,        \* the reads whose handle a NativeRead owns
          live,        \* live_reads, live_bytes and waiting_workers
          completed,   \* completed_reads, the completion generation
          signal,      \* the loop's backend descriptor is readable
          loop         \* the event-loop thread: where it is, the generation it
                       \* captured, the held reads whose stream is on its list,
                       \* those found not ready and those passed over this turn

vars == <<request, worker, pool, held, live, completed, signal, loop>>

\* "answer" stands for a byte count, EOF or the errno of a failure.
Results == {"none", "answer", "cancelled"}

Unborn ==
    [references |-> 0, ready |-> FALSE, cancelled |-> FALSE,
     descriptor |-> "none", size |-> 0, result |-> "none", freed |-> FALSE]

Init ==
    /\ request = [r \in Reads |-> Unborn]
    /\ worker = [r \in Reads |-> "none"]
    /\ pool = [r \in Reads |-> "none"]
    /\ held = {}
    /\ live = [reads |-> 0, bytes |-> 0, workers |-> 0]
    /\ completed = 0
    /\ signal = FALSE
    /\ loop = [pc |-> "outside", epoch |-> 0, listed |-> {}, unpolled |-> {},
               passed |-> {}, worked |-> FALSE]

\* release_read of one reference: the last one frees the request ...
ReleasedReadMutant(req, r) ==
    [req EXCEPT ![r].references = @ - 1, ![r].freed = TRUE]
ReleasedRead(req, r) ==
    [req EXCEPT ![r].references = @ - 1, ![r].freed = (req[r].references = 1)]

\* The bytes of the buffers of some requests, each byte on its own.
Buffers(req, rs) == UNION {{r} \X (1..req[r].size) : r \in rs}

\* ... and gives back what it counted for, after a step to requests req.
LiveAfterMutant(req) ==
    LET last == {r \in Reads : req[r].freed /\ ~request[r].freed} IN
    [live EXCEPT !.reads = @ - Cardinality(last)]
LiveAfter(req) ==
    LET last == {r \in Reads : req[r].freed /\ ~request[r].freed} IN
    [live EXCEPT !.reads = @ - Cardinality(last),
                 !.bytes = @ - Cardinality(Buffers(req, last))]

\* finish_read up to the store of ready: the result and the descriptor are
\* not looked at by other threads before.
Published(req, r, result) ==
    [req EXCEPT ![r].result = result, ![r].descriptor = "closed", ![r].ready = TRUE]
-----------------------------------------------------------------------------
(***************************************************************************)
(* The worker thread: read_waiting_descriptor and finish_read.             *)
(***************************************************************************)

WorkerGoes(r, pc) == worker' = [worker EXCEPT ![r] = pc]

\* fcntl finds the descriptor unusable.
WorkerRejects(r) ==
    /\ worker[r] = "begin"
    /\ request' = [request EXCEPT ![r].result = "answer"]
    /\ WorkerGoes(r, "leave")
    /\ UNCHANGED <<pool, held, live, completed, signal, loop>>

WorkerBegins(r) ==
    /\ worker[r] = "begin"
    /\ WorkerGoes(r, "check")
    /\ UNCHANGED <<request, pool, held, live, completed, signal, loop>>

\* The loop's first look at cancelled, and then the poll of at most 50 ms, or
\* none for a positioned read: "check" again means no input yet.
WorkerChecksMutant(r) ==
    /\ worker[r] = "check"
    /\ \/ WorkerGoes(r, "check") /\ UNCHANGED request
       \/ WorkerGoes(r, "read") /\ UNCHANGED request
       \/ request' = [request EXCEPT ![r].result = "answer"] /\ WorkerGoes(r, "leave")
    /\ UNCHANGED <<pool, held, live, completed, signal, loop>>
WorkerChecks(r) ==
    /\ worker[r] = "check"
    /\ \/ /\ request[r].cancelled
          /\ request' = [request EXCEPT ![r].result = "cancelled"]
          /\ WorkerGoes(r, "leave")
       \/ /\ ~request[r].cancelled
          /\ \/ WorkerGoes(r, "check") /\ UNCHANGED request
             \/ WorkerGoes(r, "read") /\ UNCHANGED request
             \/ request' = [request EXCEPT ![r].result = "answer"] /\ WorkerGoes(r, "leave")
    /\ UNCHANGED <<pool, held, live, completed, signal, loop>>

\* The second look at cancelled, and the read, which may say EAGAIN or EINTR.
WorkerReads(r) ==
    /\ worker[r] = "read"
    /\ \/ WorkerGoes(r, "check") /\ UNCHANGED request
       \/ /\ ~request[r].cancelled
          /\ request' = [request EXCEPT ![r].result = "answer"]
          /\ WorkerGoes(r, "leave")
    /\ UNCHANGED <<pool, held, live, completed, signal, loop>>

WorkerLeaves(r) ==
    /\ worker[r] = "leave"
    /\ live' = [live EXCEPT !.workers = @ - 1]
    /\ WorkerGoes(r, "publish")
    /\ UNCHANGED <<request, pool, held, completed, signal, loop>>

WorkerPublishes(r) ==
    /\ worker[r] = "publish"
    /\ request' = Published(request, r, request[r].result)
    /\ WorkerGoes(r, "count")
    /\ UNCHANGED <<pool, held, live, completed, signal, loop>>

\* finish_read counts the completion before it wakes the loop.
WorkerCounts(r) ==
    /\ worker[r] = "count"
    /\ completed' = completed + 1
    /\ WorkerGoes(r, "send")
    /\ UNCHANGED <<request, pool, held, live, signal, loop>>

WorkerSendsMutant(r) ==
    /\ worker[r] = "send"
    /\ WorkerGoes(r, "release")
    /\ UNCHANGED <<request, pool, held, live, completed, signal, loop>>
WorkerSends(r) ==
    /\ worker[r] = "send"
    /\ signal' = TRUE
    /\ WorkerGoes(r, "release")
    /\ UNCHANGED <<request, pool, held, live, completed, loop>>

WorkerReleases(r) ==
    /\ worker[r] = "release"
    /\ request' = ReleasedRead(request, r)
    /\ live' = LiveAfter(request')
    /\ WorkerGoes(r, "gone")
    /\ UNCHANGED <<pool, held, completed, signal, loop>>

Worker(r) ==
    \/ WorkerRejects(r) \/ WorkerBegins(r) \/ WorkerChecks(r) \/ WorkerReads(r)
    \/ WorkerLeaves(r) \/ WorkerPublishes(r) \/ WorkerCounts(r)
    \/ WorkerSends(r) \/ WorkerReleases(r)
-----------------------------------------------------------------------------
(***************************************************************************)
(* The libuv thread pool (external): a queued uv_fs_read is executed, and  *)
(* its completion is handed to the loop together with a signal.            *)
(***************************************************************************)

PoolTakes(r) ==
    /\ pool[r] = "queued"
    /\ pool' = [pool EXCEPT ![r] = "executing"]
    /\ UNCHANGED <<request, worker, held, live, completed, signal, loop>>

PoolFinishes(r) ==
    /\ pool[r] = "executing"
    /\ request' = [request EXCEPT ![r].result = "answer"]
    /\ pool' = [pool EXCEPT ![r] = "done"]
    /\ signal' = TRUE
    /\ UNCHANGED <<worker, held, live, completed, loop>>
-----------------------------------------------------------------------------
(***************************************************************************)
(* The event-loop thread.                                                  *)
(***************************************************************************)

Done == {r \in Reads : pool[r] = "done"}

\* complete_read of the finished pool reads, in a state of requests.
CompletedReads(req) ==
    [r \in Reads |->
        IF r \in Done THEN ReleasedRead(Published(req, r, req[r].result), r)[r] ELSE req[r]]

\* uv_run with UV_RUN_NOWAIT.  It takes the signal; the one complete_read
\* sends may be taken as well or be left for the next poll.
Ran ==
    /\ pool' = [r \in Reads |-> IF r \in Done THEN "gone" ELSE pool[r]]
    /\ completed' = completed + Cardinality(Done)
    /\ signal' \in IF Done = {} THEN {FALSE} ELSE BOOLEAN

\* The next turn, or the end of the loop: the locals of this turn are gone.
TurnEnds(pc) == loop' = [loop EXCEPT !.pc = pc, !.epoch = 0, !.unpolled = {}, !.worked = FALSE]

\* The program calls run_event_loop.
Enter ==
    /\ loop.pc = "outside"
    /\ loop' = [loop EXCEPT !.pc = "top"]
    /\ UNCHANGED <<request, worker, pool, held, live, completed, signal>>

\* No source is active.  A stream that holds a read is, if it is listed.
Return ==
    /\ loop.pc = "top"
    /\ loop.listed = {}
    /\ loop' = [loop EXCEPT !.pc = "outside"]
    /\ UNCHANGED <<request, worker, pool, held, live, completed, signal>>

\* User code or a part that is polled raises, or the wait fails.
Raise ==
    /\ loop.pc \in {"polling", "blocked"}
    /\ TurnEnds("outside")
    /\ UNCHANGED <<request, worker, pool, held, live, completed, signal>>

\* run_event_loop captures the generation before it polls anything.
Capture ==
    /\ loop.pc = "top"
    /\ loop' = [loop EXCEPT !.pc = "polling", !.epoch = completed,
                            !.unpolled = loop.listed, !.passed = {}]
    /\ UNCHANGED <<request, worker, pool, held, live, completed, signal>>

\* Streams are used by what the loop polls and calls, and outside of it.
InUse == loop.pc \in {"polling", "outside"}

\* A part that calls user code, or takes a read, reports work to the loop.
Worked == loop.pc = "polling"

\* tsonic_node_stream_read_start: a worker thread for the descriptors that
\* can wait, the thread pool for regular files.
Start(r, size, kind) ==
    /\ InUse
    /\ request[r] = Unborn
    /\ live.reads < ReadLimit
    /\ live.bytes <= ByteLimit - size
    /\ kind = "worker" => live.workers < WorkerLimit
    /\ request' = [request EXCEPT ![r] = [Unborn EXCEPT
                      !.references = 2, !.descriptor = "open", !.size = size]]
    /\ worker' = [worker EXCEPT ![r] = IF kind = "worker" THEN "begin" ELSE @]
    /\ pool' = [pool EXCEPT ![r] = IF kind = "pool" THEN "queued" ELSE @]
    /\ held' = held \cup {r}
    /\ live' = [reads |-> live.reads + 1, bytes |-> live.bytes + size,
                workers |-> live.workers + IF kind = "worker" THEN 1 ELSE 0]
    /\ \E listed \in {{}, {r}} :
          loop' = [loop EXCEPT !.listed = @ \cup listed, !.worked = Worked]
    /\ UNCHANGED <<completed, signal>>

\* A stream that is off the loop's list is put on it again: _activate.
Register(r) ==
    /\ InUse
    /\ r \in held
    /\ loop' = [loop EXCEPT !.listed = @ \cup {r}, !.worked = Worked]
    /\ UNCHANGED <<request, worker, pool, held, live, completed, signal>>

\* tsonic_node_stream_read_drop, by the event-loop thread under the mutex: a
\* pool read that is still queued is cancelled, one that runs is not.
DropMutant(r) ==
    /\ request' = ReleasedRead(
          [request EXCEPT ![r].cancelled = TRUE, ![r].result = "cancelled"], r)
    /\ live' = LiveAfter(request')
    /\ held' = held \ {r}
    /\ UNCHANGED <<pool, signal>>
Drop(r) ==
    /\ LET cancels == pool[r] = "queued" IN
          /\ request' = ReleasedRead(
                [request EXCEPT ![r].cancelled = TRUE,
                                ![r].result = IF cancels THEN "cancelled" ELSE @], r)
          /\ pool' = IF cancels THEN [pool EXCEPT ![r] = "done"] ELSE pool
          /\ signal' = (signal \/ cancels)
    /\ live' = LiveAfter(request')
    /\ held' = held \ {r}

\* NativeRead.ready: tsonic_node_stream_read_poll, then the ready flag; and, if
\* it is set, NativeRead.result, after which the owner drops the request.
CheckReady(r) ==
    /\ InUse
    /\ r \in held
    /\ Ran
    /\ LET ran == CompletedReads(request) IN
          IF ran[r].ready
            THEN /\ request' = ReleasedRead([ran EXCEPT ![r].cancelled = TRUE], r)
                 /\ held' = held \ {r}
                 /\ loop' = [loop EXCEPT !.listed = @ \ {r}, !.unpolled = @ \ {r},
                                         !.worked = Worked]
            ELSE /\ request' = ran
                 /\ loop' = [loop EXCEPT !.unpolled = @ \ {r}]
                 /\ UNCHANGED held
    /\ live' = LiveAfter(request')
    /\ UNCHANGED worker

\* _poll_ready returns before it looks at the stream's read: a destination of
\* its pipes is not ready for more.
PassOver(r) ==
    /\ loop.pc = "polling"
    /\ r \in loop.unpolled
    /\ loop' = [loop EXCEPT !.unpolled = @ \ {r}, !.passed = @ \cup {r}]
    /\ UNCHANGED <<request, worker, pool, held, live, completed, signal>>

\* A stream that is closed or destroyed lets its read go, ready or not.
Abandon(r) ==
    /\ InUse
    /\ r \in held
    /\ Drop(r)
    /\ loop' = [loop EXCEPT !.listed = @ \ {r}, !.unpolled = @ \ {r}]
    /\ UNCHANGED <<worker, completed>>

\* Every stream of the list was polled: again if it or another part progressed,
\* else wait.
EndPoll ==
    /\ loop.pc = "polling"
    /\ loop.unpolled = {}
    /\ \/ TurnEnds("top")
       \/ ~loop.worked /\ loop' = [loop EXCEPT !.pc = "wait"]
    /\ UNCHANGED <<request, worker, pool, held, live, completed, signal>>

\* tsonic_node_stream_read_wait up to its poll: run the loop once more, then
\* compare the generation.
WaitMutant ==
    /\ loop.pc = "wait"
    /\ Ran
    /\ request' = CompletedReads(request)
    /\ live' = LiveAfter(request')
    /\ loop' = [loop EXCEPT !.pc = "blocked"]
    /\ UNCHANGED <<worker, held>>
Wait ==
    /\ loop.pc = "wait"
    /\ Ran
    /\ request' = CompletedReads(request)
    /\ live' = LiveAfter(request')
    /\ IF completed' # loop.epoch THEN TurnEnds("top") ELSE loop' = [loop EXCEPT !.pc = "blocked"]
    /\ UNCHANGED <<worker, held>>

\* The poll of the backend descriptor ends with input.
Wake ==
    /\ loop.pc = "blocked"
    /\ signal
    /\ Ran
    /\ request' = CompletedReads(request)
    /\ live' = LiveAfter(request')
    /\ TurnEnds("top")
    /\ UNCHANGED <<worker, held>>

\* It ends by its timeout, of at most 10 ms, or by a signal handler.
Timeout ==
    /\ loop.pc = "blocked"
    /\ TurnEnds("top")
    /\ UNCHANGED <<request, worker, pool, held, live, completed, signal>>

LoopStep ==
    \/ Return \/ Capture \/ EndPoll \/ Wait \/ Wake
    \/ \E r \in loop.unpolled : CheckReady(r) \/ PassOver(r)

Next ==
    \/ \E r \in Reads : Worker(r) \/ PoolTakes(r) \/ PoolFinishes(r)
    \/ \E r \in Reads : Register(r) \/ CheckReady(r) \/ Abandon(r)
    \/ \E r \in Reads, size \in Sizes, kind \in {"worker", "pool"} : Start(r, size, kind)
    \/ Enter \/ Raise \/ LoopStep \/ Timeout

Spec == Init /\ [][Next]_vars

(***************************************************************************)
(* The scheduler runs every thread.  Nothing promises a worker that input  *)
(* arrives, so a worker that waits for it is fair only once cancelled; and *)
(* nothing is assumed of the timeout of the loop's wait.                   *)
(***************************************************************************)
WorkerRuns(r) == (worker[r] = "check" => request[r].cancelled) /\ Worker(r)

\* A read is served by a worker or by the pool, never by both.
Serves(r) == WorkerRuns(r) \/ PoolTakes(r) \/ PoolFinishes(r)

FairSpec ==
    /\ Spec
    /\ WF_vars(LoopStep)
    /\ \A r \in Reads : WF_vars(Serves(r))
-----------------------------------------------------------------------------
InMemory == {r \in Reads : request[r].references > 0}
Waiting == {r \in Reads : worker[r] \in {"begin", "check", "read", "leave"}}

\* The shape of the state.  The counters the limits are compared with are those
\* of the requests in memory and of the threads that wait, and the limits hold.
TypeOK ==
    /\ request \in [Reads -> [references : 0..2, ready : BOOLEAN, cancelled : BOOLEAN,
                              descriptor : {"none", "open", "closed"},
                              size : Sizes \cup {0}, result : Results, freed : BOOLEAN]]
    /\ worker \in [Reads -> {"none", "begin", "check", "read", "leave", "publish",
                             "count", "send", "release", "gone"}]
    /\ pool \in [Reads -> {"none", "queued", "executing", "done", "gone"}]
    /\ held \subseteq Reads
    /\ completed \in 0..Cardinality(Reads)
    /\ signal \in BOOLEAN
    /\ loop.pc \in {"outside", "top", "polling", "wait", "blocked"}
    /\ loop.listed \subseteq held /\ loop.unpolled \subseteq loop.listed /\ loop.passed \subseteq Reads
    /\ live.reads = Cardinality(InMemory) /\ live.reads <= ReadLimit
    /\ live.bytes = Cardinality(Buffers(request, InMemory)) /\ live.bytes <= ByteLimit
    /\ live.workers = Cardinality(Waiting) /\ live.workers <= WorkerLimit

\* Threads that will still touch the request on behalf of its completion.
Completing(r) == worker[r] \notin {"none", "gone"} \/ pool[r] \notin {"none", "gone"}

\* A request is freed exactly when both owners let go, whichever is last: no
\* thread uses it afterwards, and it is not leaked.  Its duplicated descriptor
\* is closed when the result is published, so a freed request never leaves one
\* open, and only a dropped read is cancelled.
FreedByLastOwner ==
    \A r \in Reads :
        /\ request[r].freed => r \notin held /\ ~Completing(r)
        /\ request[r].references # 0 => (r \in held \/ Completing(r)) /\ ~request[r].freed
        /\ request[r].ready => request[r].descriptor = "closed" /\ request[r].result # "none"
        /\ request[r].freed => request[r].descriptor = "closed"
        /\ r \in held => request[r].result # "cancelled"

\* docs/streams/piping.md: "The completion generation is captured before
\* polling, so a completion just before the wait cannot become a lost
\* wakeup".  The loop blocks only if every completion it has not polled for
\* has signalled or is about to.
NoLostWakeup ==
    loop.pc = "blocked" =>
        \/ signal
        \/ \E r \in Reads : worker[r] = "send"
        \/ completed = loop.epoch /\ Done = {}

\* What the owner reads is final once ready was seen.
ResultStable ==
    [][\A r \in Reads : request[r].ready =>
          request'[r].ready /\ request'[r].result = request[r].result]_vars

\* A completed read of a stream on the loop's list reaches that stream although
\* the timeout may never fire, unless the stream is passed over in turn after
\* turn, as long as its destinations are blocked, or the loop is left by a raise.
ReadyConsumed ==
    \A r \in Reads : r \in loop.listed /\ (request[r].ready \/ pool[r] = "done")
                        ~> r \notin held \/ r \in loop.passed \/ loop.pc = "outside"

\* A dropped read is eventually freed.  Its worker notices the cancellation by
\* itself; a pool read ends with its callback, which needs a loop that goes on
\* to wait for completions, and not one that has returned or never idles.
DroppedFreed ==
    \A r \in Reads :
        /\ request[r].cancelled /\ pool[r] = "none" ~> request[r].freed
        /\ []<>(loop.pc \in {"wait", "blocked"}) => (request[r].cancelled ~> request[r].freed)
=============================================================================
