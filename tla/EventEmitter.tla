----------------------------- MODULE EventEmitter -----------------------------
(***************************************************************************)
(* EventEmitter (events/emitter.mojo, callbacks.mojo): one group of        *)
(* listeners for each event that has any, found by a search of the list of *)
(* groups.  An emit holds the group it found: meanwhile the group may be   *)
(* emptied and pruned, or thrown away, and another made for its event.     *)
(*                                                                         *)
(* Groups and registrations are shared by reference in the code; they are  *)
(* numbered here, and a number stands for the identity of what it counts.  *)
(***************************************************************************)
EXTENDS Integers, Sequences, SequencesExt, FiniteSets

CONSTANTS
  Events,            \* the events listened to
  Callbacks,         \* the callbacks a program registers, by identity
  MaxRegistrations,  \* registrations a program makes
  MaxDepth           \* emits inside one another

VARIABLES
  groups,         \* the list of groups
  made,           \* every group made: its event and its listeners
  registrations,  \* every registration made: its callback, and whether once
  consumed,       \* the once registrations already called
  frames,         \* the emits under way: the group held, the rest of the snapshot
  calls           \* how often each once registration was called

vars == <<groups, made, registrations, consumed, frames, calls>>

CanCall == IF frames = <<>> THEN TRUE ELSE Last(frames).calling
frame == Last(frames)

\* A list after the first place of x was popped from it, if x has one.
without(list, x) == RemoveFirst(list, x)

\* The first group of the event, 0 when there is none.
_find(e) ==
  IF \E i \in DOMAIN groups : made[groups[i]].event = e
  THEN LET i == CHOOSE i \in DOMAIN groups :
                  /\ made[groups[i]].event = e
                  /\ \A j \in 1..(i - 1) : made[groups[j]].event # e
       IN  groups[i]
  ELSE 0

Init ==
  /\ groups = <<>> /\ made = <<>> /\ registrations = <<>> /\ consumed = {}
  /\ frames = <<>> /\ calls = <<>>

_add(e, callback, once, prepend) ==
  LET entry == Len(registrations) + 1
      found == _find(e)
      group == IF found = 0 THEN Len(made) + 1 ELSE found
  IN  /\ CanCall /\ Len(registrations) < MaxRegistrations
      /\ registrations' = Append(registrations, [callback |-> callback, once |-> once])
      /\ calls' = Append(calls, 0)
      /\ groups' = IF found = 0 THEN Append(groups, group) ELSE groups
      /\ made' = IF found = 0 THEN Append(made, [event |-> e, listeners |-> <<entry>>])
                 ELSE [made EXCEPT ![group].listeners =
                         IF prepend THEN <<entry>> \o @ ELSE Append(@, entry)]
      /\ UNCHANGED <<consumed, frames>>

\* A group without listeners leaves the list, if it is still there: the list
\* is searched for this very group.
\* Mutant: an empty group stays.
_pruneMutant(g, listeners) == groups
\* Mutant: the list is searched for the event.
_pruneByEventMutant(g, listeners) ==
  IF listeners # <<>> THEN groups
  ELSE SelectSeq(groups, LAMBDA h : made[h].event # made[g].event)
_prune(g, listeners) == IF listeners # <<>> THEN groups ELSE without(groups, g)

_remove(e, callback) ==
  LET group == _find(e)
      places == {i \in DOMAIN made[group].listeners :
                   registrations[made[group].listeners[i]].callback = callback}
  IN  /\ CanCall /\ group # 0
      /\ \E last \in places :
           /\ \A i \in places : i <= last
           /\ made' = [made EXCEPT ![group].listeners = RemoveAt(@, last)]
           /\ groups' = _prune(group, RemoveAt(made[group].listeners, last))
      /\ UNCHANGED <<registrations, consumed, frames, calls>>

remove_all_listeners ==
  /\ CanCall
  /\ groups' = <<>>
  /\ UNCHANGED <<made, registrations, consumed, frames, calls>>
remove_all_listeners_for(e) ==
  /\ CanCall
  /\ groups' = without(groups, _find(e))
  /\ UNCHANGED <<made, registrations, consumed, frames, calls>>

\* _emit finds the group and copies its listeners.  Without a group it changes
\* nothing: it answers false or, for error, raises.
_emit(e) ==
  /\ CanCall /\ Len(frames) < MaxDepth /\ _find(e) # 0
  /\ frames' = Append(frames, [event |-> e, group |-> _find(e), calling |-> FALSE,
                               rest |-> made[_find(e)].listeners])
  /\ UNCHANGED <<groups, made, registrations, consumed, calls>>

Walking == frames # <<>> /\ ~frame.calling
walk(calling) ==
  frames' = [frames EXCEPT ![Len(frames)].calling = calling,
                           ![Len(frames)].rest = IF calling THEN @ ELSE Tail(@)]

\* Mutant: a once registration is removed but not marked.
callMutant ==
  /\ Walking /\ frame.rest # <<>>
  /\ LET r == Head(frame.rest)
         listeners == without(made[frame.group].listeners, r)
     IN  /\ calls' = IF registrations[r].once THEN [calls EXCEPT ![r] = @ + 1] ELSE calls
         /\ IF registrations[r].once
            THEN /\ made' = [made EXCEPT ![frame.group].listeners = listeners]
                 /\ groups' = _prune(frame.group, listeners)
            ELSE UNCHANGED <<made, groups>>
  /\ walk(TRUE)
  /\ UNCHANGED <<registrations, consumed>>

\* The next listener of the snapshot is called; a once registration is marked
\* and leaves the group that was held before it is.
call ==
  /\ Walking /\ frame.rest # <<>>
  /\ LET r == Head(frame.rest)
         listeners == without(made[frame.group].listeners, r)
     IN  /\ r \notin consumed
         /\ calls' = IF registrations[r].once THEN [calls EXCEPT ![r] = @ + 1] ELSE calls
         /\ IF registrations[r].once
            THEN /\ consumed' = consumed \cup {r}
                 /\ made' = [made EXCEPT ![frame.group].listeners = listeners]
                 /\ groups' = _prune(frame.group, listeners)
            ELSE UNCHANGED <<consumed, made, groups>>
  /\ walk(TRUE)
  /\ UNCHANGED registrations

\* One that another emit has called since is passed over.
skip ==
  /\ Walking /\ frame.rest # <<>> /\ Head(frame.rest) \in consumed
  /\ walk(FALSE)
  /\ UNCHANGED <<groups, made, registrations, consumed, calls>>
returned ==
  /\ frames # <<>> /\ frame.calling
  /\ walk(FALSE)
  /\ UNCHANGED <<groups, made, registrations, consumed, calls>>

\* The emit is over: walked to the end, or left by a listener's error, which
\* the listener that emitted may catch or pass on.
finished ==
  /\ frames # <<>> /\ (frame.calling \/ frame.rest = <<>>)
  /\ frames' = Front(frames)
  /\ UNCHANGED <<groups, made, registrations, consumed, calls>>

Next ==
  \/ \E e \in Events, callback \in Callbacks, once, prepend \in BOOLEAN :
       _add(e, callback, once, prepend)
  \/ \E e \in Events, callback \in Callbacks : _remove(e, callback)
  \/ remove_all_listeners
  \/ \E e \in Events : remove_all_listeners_for(e) \/ _emit(e)
  \/ call \/ skip \/ returned \/ finished

Spec == Init /\ [][Next]_vars

(***************************************************************************)
(* Properties.                                                             *)
(***************************************************************************)
\* What listener_count and event_names rely on: an event has one group at most,
\* no listed group is empty, and none lists a once listener already called,
\* though emits hold groups that were pruned or thrown away meanwhile.
GroupsSound ==
  /\ \A i, j \in DOMAIN groups : made[groups[i]].event = made[groups[j]].event => i = j
  /\ \A i \in DOMAIN groups : /\ made[groups[i]].listeners # <<>>
                              /\ ToSet(made[groups[i]].listeners) \cap consumed = {}

\* A once listener is called once, however emits of its event are nested and
\* however often the snapshots they walk hold it.
CalledOnce == \A r \in DOMAIN calls : registrations[r].once => calls[r] <= 1

Entries == [e \in Events |-> IF _find(e) = 0 THEN <<>> ELSE made[_find(e)].listeners]
TypedFrames ==
  [i \in DOMAIN frames |-> [event |-> frames[i].event, rest |-> frames[i].rest,
                            calling |-> frames[i].calling]]
Typed == INSTANCE TypedListeners WITH
  entries <- Entries, fired <- consumed, frames <- TypedFrames, Limit <- MaxRegistrations

\* The groups are invisible: to its users the emitter is a table of typed
\* listeners, with listeners put first and removal of all as its own additions.
ImplementsTyped == Typed!Init /\ [][Typed!EmitterNext]_(Typed!vars)
=============================================================================
