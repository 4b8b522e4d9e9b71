----------------------------- MODULE WorkerProcess -----------------------------
(***************************************************************************)
(* A Worker and the process it starts: two ports (worker_threads/ports.mojo*)
(* over one socket pair (transport.mojo, native.mojo and the native        *)
(* worker/channel.c), the parent's event loop, and the child's life from   *)
(* source_module_entry to source_module_complete (context.mojo).           *)
(*                                                                         *)
(* A frame travels as two pieces, so that a socket which fills, closes or  *)
(* breaks can do so inside one; payloads are numbered in the order they are*)
(* posted.  A step is one call of the program or one poll of a loop: each  *)
(* side is single threaded.  The kernel's socket and process are external: *)
(* data is read before an error, an error before the end, and an end that  *)
(* is closed over unread data resets its peer.                             *)
(***************************************************************************)
EXTENDS Integers, Sequences, FiniteSets

CONSTANTS
  ParentMax,   \* messages the parent may post
  ChildMax,    \* messages the child may post
  WireLimit,   \* pieces the socket holds in each direction
  QueueLimit   \* pieces a channel holds before it refuses to send

ASSUME BoundsAssumption ==
  /\ ParentMax \in Nat /\ ChildMax \in Nat
  /\ WireLimit \in Nat /\ WireLimit >= 2 /\ QueueLimit \in Nat /\ QueueLimit >= 2

Sides == {"parent", "child"}
Other(s) == IF s = "parent" THEN "child" ELSE "parent"
MaxPosts(s) == IF s = "parent" THEN ParentMax ELSE ChildMax
Smaller(a, b) == IF a < b THEN a ELSE b

VARIABLES
  link,       \* the two channels, the wire between them and its resets
  port,       \* the PortState of each side
  process,    \* the child: its phase and exit code
  listening,  \* the child's listeners for message: "no", "on" or "once"
  handled,    \* the parent listens for error
  loop,       \* the parent's event loop: "running", "ended", "failed", then "gone"
  posted,     \* how many messages each side posted
  seen,       \* the events the Worker emitted, in order
  taken,      \* the messages the child took from its channel, in order
  flushed,    \* the child completed: "no", "clean" or, after an error, "failed"
  unread      \* the child's end was closed over messages still on the wire

vars == <<link, port, process, listening, handled, loop, posted, seen, taken, flushed, unread>>

(***************************************************************************)
(* The channel: worker/channel.c.                                          *)
(***************************************************************************)
pieces(kind, value) == <<<<kind, value, 1>>, <<kind, value, 2>>>>
emptyChannel ==
  [descriptor |-> TRUE, failure |-> FALSE, write_failure |-> FALSE, eof |-> FALSE,
   out |-> <<>>, incoming |-> <<>>]
emptyLink ==
  [end |-> [s \in Sides |-> emptyChannel], wire |-> [s \in Sides |-> <<>>],
   reset |-> [s \in Sides |-> FALSE]]

complete(channel) == Len(channel.incoming) = 2
pending(l, s) == l.end[s].out # <<>>
\* Mutant: the end of the stream does not count.
closedMutant(l, s) == ~l.end[s].descriptor
closed(l, s) == ~l.end[s].descriptor \/ l.end[s].eof

\* Mutant: an end inside a frame is taken for one between frames.
read_pendingMutant(l, s) ==
  LET arriving == l.wire[Other(s)]
      count == Smaller(2 - Len(l.end[s].incoming), Len(arriving))
      read == [l EXCEPT !.end[s].incoming = @ \o SubSeq(arriving, 1, count),
                        !.wire[Other(s)] = SubSeq(@, count + 1, Len(@))]
  IN  IF l.end[s].eof \/ complete(read.end[s]) THEN read
      ELSE IF l.reset[s] THEN [read EXCEPT !.end[s].failure = TRUE, !.reset[s] = FALSE]
      ELSE [read EXCEPT !.end[s].eof = ~l.end[Other(s)].descriptor]
\* One frame at most: what follows a complete frame stays on the wire, the
\* end of the stream included.
read_pending(l, s) ==
  LET channel == l.end[s]
      arriving == l.wire[Other(s)]
      count == Smaller(2 - Len(channel.incoming), Len(arriving))
      incoming == channel.incoming \o SubSeq(arriving, 1, count)
      read == [l EXCEPT !.end[s].incoming = incoming,
                        !.wire[Other(s)] = SubSeq(@, count + 1, Len(@))]
  IN  IF channel.eof \/ complete(channel) \/ Len(incoming) = 2 THEN read
      ELSE IF l.reset[s]
      THEN [read EXCEPT !.end[s].failure = TRUE, !.reset[s] = FALSE]
      ELSE IF l.end[Other(s)].descriptor THEN read
      ELSE [read EXCEPT !.end[s].eof = TRUE, !.end[s].failure = incoming # <<>>]

fail_write(l, s) == [l EXCEPT !.end[s].write_failure = TRUE, !.end[s].out = <<>>]
write_pending(l, s) ==
  LET out == l.end[s].out
      count == Smaller(Len(out), WireLimit - Len(l.wire[s]))
  IN  IF out = <<>> THEN l
      ELSE IF ~l.end[Other(s)].descriptor THEN fail_write(l, s)
      ELSE [l EXCEPT !.end[s].out = SubSeq(@, count + 1, Len(@)),
                     !.wire[s] = @ \o SubSeq(out, 1, count)]

\* progress reads, then writes what the read left it free to write.
afterRead(l, s) ==
  IF l.end[s].failure THEN l
  ELSE IF l.end[s].eof
  THEN IF pending(l, s) THEN fail_write(l, s) ELSE l
  ELSE IF l.end[s].write_failure THEN l
  ELSE write_pending(l, s)
progress(l, s) ==
  IF ~l.end[s].descriptor \/ l.end[s].failure THEN l
  ELSE CHOOSE done \in {afterRead(read, s) : read \in {read_pending(l, s)}} : TRUE
broken(l, s) == ~l.end[s].descriptor \/ l.end[s].failure

\* What a call that sends leaves behind, and whether it raises.
refuses(l, s) ==
  \/ closed(l, s) \/ l.end[s].failure \/ l.end[s].write_failure
  \/ Len(l.end[s].out) + 2 > QueueLimit
send(l, s, kind, value) ==
  IF refuses(l, s) THEN l
  ELSE progress([l EXCEPT !.end[s].out = @ \o pieces(kind, value)], s)
sendRaises(l, s, kind, value) ==
  \/ refuses(l, s)
  \/ send(l, s, kind, value).end[s].failure
  \/ send(l, s, kind, value).end[s].write_failure

\* Mutant: the frame is kept.
consumeMutant(l, s) == l
Unread(l, s) == l.end[s].descriptor /\ l.wire[Other(s)] # <<>>
consume(l, s) == [l EXCEPT !.end[s].incoming = <<>>]
close(l, s) ==
  [l EXCEPT !.end[s].descriptor = FALSE, !.end[s].out = <<>>, !.end[s].incoming = <<>>,
            !.wire[Other(s)] = <<>>,
            !.reset[Other(s)] = @ \/ Unread(l, s)]

(***************************************************************************)
(* The child's process.  Its module's code is the time before its loop's   *)
(* first turn.                                                             *)
(***************************************************************************)
Running == process.phase = "running"
Dead(p) == p.phase = "dead"
dies(l, p, code) ==
  IF Dead(p) THEN <<l, p>> ELSE <<close(l, "child"), [phase |-> "dead", code |-> code]>>

(***************************************************************************)
(* The ports.                                                              *)
(***************************************************************************)
newPort(worker) ==
  [started |-> worker, referenced |-> worker, closing |-> FALSE, closed |-> FALSE,
   close_emitted |-> FALSE, exited |-> FALSE, online |-> FALSE,
   peer_closed |-> FALSE, terminating |-> FALSE]

\* Both answers as one: a port's channel has output to write, its close or
\* exit is still to be told, or it waits for messages.
has_active_worker_threads(s) ==
  LET p == port[s] IN
  \/ pending(link, s)
  \/ s = "child" /\ p.closing /\ ~p.close_emitted
  \/ p.referenced /\ IF s = "parent" THEN ~p.exited ELSE p.started /\ ~p.closed

Init ==
  /\ link = send(emptyLink, "parent", "initialize", 0)
  /\ port = [s \in Sides |-> newPort(s = "parent")]
  /\ process = [phase |-> "starting", code |-> 0]
  /\ listening = "no" /\ handled \in BOOLEAN /\ loop = "running"
  /\ posted = [s \in Sides |-> 0] /\ seen = <<>> /\ taken = <<>>
  /\ flushed = "no" /\ unread = FALSE

(***************************************************************************)
(* The parent's calls on its Worker.                                       *)
(***************************************************************************)
\* post_message of either side: a port that is closed, or knows its peer is,
\* ignores it; a channel that refuses raises to the caller.
post_message(s) ==
  LET p == port[s]
      value == posted[s] + 1
  IN  /\ posted[s] < MaxPosts(s)
      /\ ~p.closing /\ ~p.closed /\ ~p.peer_closed
      /\ link' = send(link, s, "message", value)
      /\ posted' = IF refuses(link, s) THEN posted ELSE [posted EXCEPT ![s] = value]

ParentPosts ==
  /\ loop = "running" /\ post_message("parent")
  /\ UNCHANGED <<port, process, listening, handled, loop, seen, taken, flushed, unread>>

ref_chain(s) == port' = [port EXCEPT ![s].referenced = TRUE]
unref_chain(s) == port' = [port EXCEPT ![s].referenced = FALSE]
ParentRefs ==
  /\ loop = "running" /\ (ref_chain("parent") \/ unref_chain("parent"))
  /\ UNCHANGED <<link, process, listening, handled, loop, posted, seen, taken, flushed, unread>>

\* terminate kills the process; the polls it then waits with are ParentPolls.
terminate ==
  /\ loop = "running" /\ ~port["parent"].terminating
  /\ LET killed == dies(link, process, 1) IN link' = killed[1] /\ process' = killed[2]
  /\ port' = [port EXCEPT !["parent"].terminating = TRUE]
  /\ unread' = (unread \/ (~Dead(process) /\ Unread(link, "child")))
  /\ UNCHANGED <<listening, handled, loop, posted, seen, taken, flushed>>

(***************************************************************************)
(* _poll_state of the Worker, on w: its port, the link, the process, the   *)
(* events emitted and whether an error leaves the loop.                    *)
(***************************************************************************)
reports(w) ==
  IF handled THEN [w EXCEPT !.seen = Append(@, <<"error", 0>>)] ELSE [w EXCEPT !.raised = TRUE]

\* _transport_failure: it closes the channel, kills the process and reports,
\* unless the program asked for the end itself.
workerFails(w) ==
  LET killed == dies(close(w.link, "parent"), w.process, 1)
      down == [w EXCEPT !.port.closed = TRUE, !.link = killed[1], !.process = killed[2],
                        !.returned = TRUE]
  IN  IF w.port.terminating THEN down ELSE reports(down)

receives(w) ==
  LET frame == w.link.end["parent"].incoming[1]
      rest == [w EXCEPT !.link = consume(w.link, "parent")]
  IN  CASE frame[1] = "message" -> [rest EXCEPT !.seen = Append(@, <<"message", frame[2]>>)]
        [] frame[1] = "online" /\ ~w.port.online ->
             [rest EXCEPT !.port.online = TRUE, !.seen = Append(@, <<"online", 0>>)]
        [] frame[1] = "closed" -> [rest EXCEPT !.port.peer_closed = TRUE]
        [] frame[1] = "failure" -> reports(rest)
        [] OTHER -> workerFails(rest)

\* progress (first), then receive, whose own progress (second) may meet what
\* the first left; a closed channel closes the port.
workerReads(w, first, second) ==
  IF w.port.closed THEN w
  ELSE IF broken(first, "parent") THEN workerFails([w EXCEPT !.link = first])
  ELSE IF broken(second, "parent") THEN workerFails([w EXCEPT !.link = second])
  ELSE IF complete(second.end["parent"]) THEN receives([w EXCEPT !.link = second])
  ELSE [w EXCEPT !.link = second]
closes(w) ==
  IF w.returned \/ w.raised THEN w
  ELSE [w EXCEPT !.port.closed = @ \/ closed(w.link, "parent")]

\* Mutant: the exit is told as soon as the process is reaped.
workerExitsMutant(w) ==
  IF w.returned \/ w.raised \/ w.port.exited THEN w
  ELSE IF Dead(w.process)
  THEN [w EXCEPT !.port.exited = TRUE, !.port.closed = TRUE,
                 !.seen = Append(@, <<"exit", w.process.code>>)]
  ELSE w

\* The exit event, last of all: the channel is closed and the process reaped.
workerExits(w) ==
  IF w.returned \/ w.raised \/ w.port.exited \/ ~w.port.closed \/ ~Dead(w.process) THEN w
  ELSE [w EXCEPT !.port.exited = TRUE, !.seen = Append(@, <<"exit", w.process.code>>)]

\* One turn of the parent's loop, which other work may keep going too.  A
\* closed port has nothing pending, so that only its exit is left to tell.
ParentPolls ==
  /\ loop = "running"
  /\ \E w \in {[port |-> port["parent"], link |-> link, process |-> process, seen |-> seen,
                raised |-> FALSE, returned |-> FALSE]},
        first \in {progress(link, "parent")} :
     \E second \in {progress(first, "parent")} :
     \E read \in {workerReads(w, first, second)} :
     \E over \in {workerExits(closes(read))} :
       /\ port' = [port EXCEPT !["parent"] = over.port]
       /\ link' = over.link /\ process' = over.process /\ seen' = over.seen
       /\ loop' = IF over.raised THEN "failed" ELSE loop
       /\ unread' = (unread \/ (~Dead(process) /\ Dead(over.process) /\ Unread(link, "child")))
  /\ UNCHANGED <<listening, handled, posted, taken, flushed>>

ParentLoopEnds ==
  /\ loop = "running" /\ ~has_active_worker_threads("parent")
  /\ loop' = "ended"
  /\ UNCHANGED <<link, port, process, listening, handled, posted, seen, taken, flushed, unread>>

\* The parent's process is over: the kernel closes its end.
ParentExits ==
  /\ loop \in {"ended", "failed"}
  /\ link' = close(link, "parent") /\ loop' = "gone"
  /\ UNCHANGED <<port, process, listening, handled, posted, seen, taken, flushed, unread>>

(***************************************************************************)
(* The child: source_module_entry, its calls on parentPort, its loop, and  *)
(* source_module_complete.                                                 *)
(***************************************************************************)
\* Waits for the initialization, then says that it is online.
source_module_entry ==
  LET read == progress(link, "child") IN
  /\ process.phase = "starting" /\ complete(read.end["child"])
  /\ link' = send(consume(read, "child"), "child", "online", 0)
  /\ process' = IF sendRaises(consume(read, "child"), "child", "online", 0)
                THEN [phase |-> "raising", code |-> 1] ELSE [process EXCEPT !.phase = "running"]
  /\ UNCHANGED <<port, listening, handled, loop, posted, seen, taken, flushed, unread>>

ChildPosts ==
  /\ Running /\ post_message("child")
  /\ UNCHANGED <<port, process, listening, handled, loop, seen, taken, flushed, unread>>

\* on and once of message start the port and refer to it.
ChildListens ==
  /\ Running
  /\ listening' \in {"on", "once"}
  /\ port' = [port EXCEPT !["child"].started = @ \/ ~port["child"].closed,
                          !["child"].referenced = TRUE]
  /\ UNCHANGED <<link, process, handled, loop, posted, seen, taken, flushed, unread>>
off_callable ==
  /\ Running
  /\ listening' = "no"
  /\ unref_chain("child")
  /\ UNCHANGED <<link, process, handled, loop, posted, seen, taken, flushed, unread>>
ChildRefs ==
  /\ Running /\ (ref_chain("child") \/ unref_chain("child"))
  /\ UNCHANGED <<link, process, listening, handled, loop, posted, seen, taken, flushed, unread>>
start ==
  /\ Running /\ ~port["child"].closed
  /\ port' = [port EXCEPT !["child"].started = TRUE]
  /\ UNCHANGED <<link, process, listening, handled, loop, posted, seen, taken, flushed, unread>>

\* close tells the peer; when that raises the port stays open.
ChildCloses ==
  /\ Running /\ ~port["child"].closing /\ ~port["child"].closed
  /\ LET told == ~closed(link, "child") IN
     /\ link' = IF told THEN send(link, "child", "closed", 0) ELSE link
     /\ port' = IF told /\ sendRaises(link, "child", "closed", 0) THEN port
                ELSE [port EXCEPT !["child"].closing = TRUE, !["child"].closed = TRUE]
  /\ UNCHANGED <<process, listening, handled, loop, posted, seen, taken, flushed, unread>>

receive_message_on_port ==
  /\ Running /\ ~port["child"].closed
  /\ LET read == progress(link, "child")
         got == ~broken(read, "child") /\ complete(read.end["child"])
     IN  /\ link' = IF got THEN consume(read, "child") ELSE read
         /\ taken' = IF got THEN Append(taken, read.end["child"].incoming[1][2]) ELSE taken
  /\ UNCHANGED <<port, process, listening, handled, loop, posted, seen, flushed, unread>>

\* _poll_state of parentPort.  A failure of an open port returns before its
\* close is told, which is left to the next turn.
ChildPolls ==
  /\ Running
  /\ \E p \in {port["child"]} :
     \E first \in {IF p.closed /\ ~pending(link, "child") THEN link ELSE progress(link, "child")} :
     \E second \in {IF p.started /\ ~p.closed THEN progress(first, "child") ELSE first} :
     \E fails \in {(~p.closed \/ pending(link, "child")) /\ broken(second, "child")} :
     \E got \in {p.started /\ ~p.closed /\ ~fails /\ complete(second.end["child"])} :
     \E last \in {IF fails THEN close(second, "child")
                  ELSE IF got THEN consume(second, "child") ELSE second} :
     \E over \in {p.closed \/ fails \/ closed(last, "child")},
        left \in {IF got /\ listening = "once" THEN "no" ELSE listening} :
     \E emits \in {over /\ ~p.close_emitted /\ (p.closed \/ ~fails)} :
       /\ link' = last
       /\ taken' = IF got THEN Append(taken, second.end["child"].incoming[1][2]) ELSE taken
       /\ listening' = IF emits THEN "no" ELSE left
       /\ port' = [port EXCEPT !["child"].closed = over, !["child"].close_emitted = @ \/ emits,
                               !["child"].referenced = @ /\ (got => left # "no")]
  /\ UNCHANGED <<process, handled, loop, posted, seen, flushed, unread>>

\* The loop has nothing to wait for, or the module or a listener raised, which
\* source_module_complete first tells the parent.
ChildLoopEnds ==
  /\ Running /\ ~has_active_worker_threads("child")
  /\ process' = [phase |-> "completing", code |-> 0]
  /\ UNCHANGED <<link, port, listening, handled, loop, posted, seen, taken, flushed, unread>>
ChildRaises ==
  /\ Running
  /\ link' = send(link, "child", "failure", 0)
  /\ process' = [phase |-> IF sendRaises(link, "child", "failure", 0) THEN "raising"
                           ELSE "completing", code |-> 1]
  /\ UNCHANGED <<port, listening, handled, loop, posted, seen, taken, flushed, unread>>

\* One turn of flush; once nothing is pending the channel is closed.
ChildFlushes ==
  /\ process.phase = "completing"
  /\ \E turn \in {IF pending(link, "child") THEN progress(link, "child") ELSE link} :
     \E failing \in {turn.end["child"].write_failure
                    \/ (pending(link, "child") /\ broken(turn, "child"))} :
     \E done \in {~failing /\ ~pending(turn, "child")} :
       /\ link' = IF done THEN close(turn, "child") ELSE turn
       /\ process' = [process EXCEPT !.phase = IF failing THEN "raising"
                                               ELSE IF done THEN "exiting" ELSE @]
       /\ flushed' = IF ~done THEN flushed ELSE IF process.code = 0 THEN "clean" ELSE "failed"
       /\ unread' = (unread \/ (done /\ Unread(turn, "child")))
  /\ UNCHANGED <<port, listening, handled, loop, posted, seen, taken>>

\* The process ends: at last, by an error of its own, or at any moment, killed
\* or by process.exit.
ends(code) ==
  /\ link' = dies(link, process, code)[1]
  /\ process' = dies(link, process, code)[2]
  /\ unread' = (unread \/ Unread(link, "child"))
  /\ UNCHANGED <<port, listening, handled, loop, posted, seen, taken, flushed>>
ChildExits == process.phase \in {"exiting", "raising"} /\ ends(process.code)
ChildCrashes == ~Dead(process) /\ ends(1)

Next ==
  \/ ParentPosts \/ ParentRefs \/ terminate \/ ParentPolls \/ ParentLoopEnds \/ ParentExits
  \/ source_module_entry \/ ChildPosts \/ ChildListens \/ off_callable \/ ChildRefs \/ start
  \/ ChildCloses \/ receive_message_on_port \/ ChildPolls \/ ChildLoopEnds
  \/ ChildRaises \/ ChildFlushes \/ ChildExits \/ ChildCrashes

\* Each loop turns while it runs, and the child goes on to its completion and
\* its end: its next step is one of these, whatever the program calls between.
ChildGoesOn == ChildPolls \/ ChildLoopEnds \/ ChildFlushes \/ ChildExits
Fairness == WF_vars(ParentPolls) /\ WF_vars(ChildGoesOn)
Spec == Init /\ [][Next]_vars /\ Fairness

(***************************************************************************)
(* Properties.                                                             *)
(***************************************************************************)
Upto(n) == [i \in 1..n |-> i]
\* How many of the first n events are messages.
Messages(events, n) == Cardinality({i \in 1..n : events[i][1] = "message"})
Received == Messages(seen, Len(seen))

\* Messages arrive in the order they were posted, each once, whatever the
\* socket splits and however the two loops alternate; a Worker is online
\* before its first message, and its exit is the last event and happens once.
\* Neither channel queues more than its limit.
MessagesInOrder ==
  /\ \A s \in Sides : Len(link.end[s].out) <= QueueLimit /\ Len(link.end[s].incoming) <= 2
  /\ Received <= posted["child"]
  /\ Len(taken) <= posted["parent"] /\ taken = Upto(Len(taken))
  /\ \A i \in DOMAIN seen : /\ seen[i][1] = "online" => i = 1
                            /\ seen[i][1] = "message" => /\ seen[1][1] = "online"
                                                          /\ seen[i][2] = Messages(seen, i)
                            /\ seen[i][1] = "exit" => i = Len(seen)

\* A message the child posted before it completed reaches the parent before
\* the exit event, though the end of the stream and the end of the process
\* are noticed apart from the frames, and even when the parent asked for the
\* termination meanwhile.
NothingLost ==
  (port["parent"].exited /\ flushed # "no") => Received = posted["child"]

\* No false alarm: a child that completed without an error is no error to the
\* parent, unless it left messages of the parent unread: then the socket is reset
\* and the Worker reports that, or ends the program when nothing listens for error.
QuietEnd ==
  (flushed = "clean" /\ ~unread) => loop # "failed" /\ \A i \in DOMAIN seen : seen[i][1] # "error"

\* The child died within a frame, of which the Worker's open port has yet to meet
\* the cut: of the pieces that are left, two to a frame, one is odd.
Torn ==
  /\ Dead(process) /\ ~port["parent"].closed
  /\ (Len(link.end["parent"].incoming) + Len(link.wire["child"])) % 2 = 1

\* No missed one: that port neither closes nor drops the piece without an error
\* event, or the error that ends the program, unless the parent terminated the
\* child or is over itself.
TornReported ==
  Torn /\ ~Torn' => \/ seen' = Append(seen, <<"error", 0>>) \/ loop' \in {"failed", "gone"}
                    \/ port["parent"].terminating

\* The parent tells a clean end from a broken one, though it learns of either only
\* by the end of the stream or by a reset, in the middle of its reads.
CleanExit == []QuietEnd /\ [][TornReported]_vars

\* A process that ended is reported by the exit event, unless the parent's loop
\* was over before; a child that completes is never stuck on a full socket, and
\* one whose parent is gone does not wait for it for ever.
WorkersEnd ==
  /\ Dead(process) ~> (port["parent"].exited \/ loop # "running")
  /\ (process.phase = "completing") ~> (Dead(process) \/ loop # "running")
  /\ (loop = "gone" /\ Running) ~> Dead(process)
=============================================================================
