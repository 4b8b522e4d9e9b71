---------------------------- MODULE TypedListeners ----------------------------
(***************************************************************************)
(* TypedListeners (internal/typed_listeners.mojo): the listeners of one    *)
(* event, here a table of them by event.  Streams, sockets, servers and    *)
(* readline interfaces emit through it.                                    *)
(*                                                                         *)
(* A listener may call anything while it runs: listeners are added, removed*)
(* and emitted to again from inside an emit.  The emits under way are a    *)
(* stack; the program's code runs when the stack is empty or its last emit *)
(* is inside a listener.                                                   *)
(***************************************************************************)
EXTENDS Integers, Sequences, SequencesExt

CONSTANTS
  Events,     \* the events listened to
  Callbacks,  \* the callbacks a program registers, by identity
  Limit,      \* registrations that can be made
  MaxDepth    \* emits inside one another

VARIABLES
  entries,        \* the listeners of each event, by registration
  registrations,  \* every registration made: its callback, and whether once
  fired,          \* the once registrations already called
  frames          \* the emits under way

vars == <<entries, registrations, fired, frames>>

CanCall == IF frames = <<>> THEN TRUE ELSE Last(frames).calling
NewIdentity == Len(registrations) + 1
registrationOf(callback, once) == [callback |-> callback, once |-> once]

\* The listeners but for a registration, whose identity none of the others has.
without(listeners, i) == RemoveFirst(listeners, i)

Init ==
  /\ entries = [e \in Events |-> <<>>] /\ registrations = <<>> /\ fired = {} /\ frames = <<>>

add(e, callback, once) ==
  /\ CanCall /\ Len(registrations) < Limit
  /\ registrations' = Append(registrations, registrationOf(callback, once))
  /\ entries' = [entries EXCEPT ![e] = Append(@, NewIdentity)]
  /\ UNCHANGED <<fired, frames>>

\* The last registration of the callback goes.
matches(e, callback) ==
  {i \in DOMAIN entries[e] : registrations[entries[e][i]].callback = callback}
remove(e, callback) ==
  /\ CanCall
  /\ \E found \in matches(e, callback) :
       /\ \A i \in matches(e, callback) : i <= found
       /\ entries' = [entries EXCEPT ![e] = RemoveAt(@, found)]
  /\ UNCHANGED <<registrations, fired, frames>>

\* emit walks a copy of the listeners.
emit(e) ==
  /\ CanCall /\ Len(frames) < MaxDepth /\ entries[e] # <<>>
  /\ frames' = Append(frames, [event |-> e, rest |-> entries[e], calling |-> FALSE])
  /\ UNCHANGED <<entries, registrations, fired>>

frame == Last(frames)
Walking == frames # <<>> /\ ~frame.calling
walk(calling) ==
  frames' = [frames EXCEPT ![Len(frames)].calling = calling,
                           ![Len(frames)].rest = IF calling THEN @ ELSE Tail(@)]

\* A once listener is marked and removed before it is called.
call ==
  /\ Walking /\ frame.rest # <<>>
  /\ LET r == Head(frame.rest) IN
     /\ r \notin fired
     /\ IF registrations[r].once
        THEN /\ fired' = fired \cup {r}
             /\ entries' = [entries EXCEPT ![frame.event] = without(@, r)]
        ELSE UNCHANGED <<fired, entries>>
  /\ walk(TRUE)
  /\ UNCHANGED registrations
skip ==
  /\ Walking /\ frame.rest # <<>> /\ Head(frame.rest) \in fired
  /\ walk(FALSE)
  /\ UNCHANGED <<entries, registrations, fired>>
returned ==
  /\ frames # <<>> /\ frame.calling
  /\ walk(FALSE)
  /\ UNCHANGED <<entries, registrations, fired>>

\* The emit is over: walked to the end, or left by a listener's error, which
\* the listener that emitted may catch or pass on.
finished ==
  /\ frames # <<>> /\ (frame.calling \/ frame.rest = <<>>)
  /\ frames' = Front(frames)
  /\ UNCHANGED <<entries, registrations, fired>>

Next ==
  \/ \E e \in Events, callback \in Callbacks :
       remove(e, callback) \/ \E once \in BOOLEAN : add(e, callback, once)
  \/ \E e \in Events : emit(e)
  \/ call \/ skip \/ returned \/ finished

(***************************************************************************)
(* What the EventEmitter offers besides: listeners put first, and the      *)
(* removal of all those of an event or of every event.                     *)
(***************************************************************************)
prepend(e, callback, once) ==
  /\ CanCall /\ Len(registrations) < Limit
  /\ registrations' = Append(registrations, registrationOf(callback, once))
  /\ entries' = [entries EXCEPT ![e] = <<NewIdentity>> \o @]
  /\ UNCHANGED <<fired, frames>>
removeAll(events) ==
  /\ CanCall
  /\ entries' = [e \in Events |-> IF e \in events THEN <<>> ELSE entries[e]]
  /\ UNCHANGED <<registrations, fired, frames>>
EmitterNext ==
  \/ Next
  \/ \E e \in Events, callback \in Callbacks, once \in BOOLEAN : prepend(e, callback, once)
  \/ removeAll(Events) \/ \E e \in Events : removeAll({e})
=============================================================================
