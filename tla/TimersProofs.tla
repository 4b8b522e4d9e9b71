----------------------------- MODULE TimersProofs -----------------------------
(***************************************************************************)
(* What Timers promises of the list of timers and of the calls a poll      *)
(* makes, for any number of timers, any delays and any limits.             *)
(*                                                                         *)
(* EarlierTimersKept is not inductive.  That the list holds no timer twice *)
(* after a poll rests on what the poll retains being part of what it has   *)
(* looked at; that a timer may be appended rests on the list holding only  *)
(* timers already made; that one still active is not lost when the poll    *)
(* ends rests on the poll looking at no more than the list's length when   *)
(* it began, which no step shortens.  IInv adds these.                     *)
(***************************************************************************)
EXTENDS Timers, TLAPS

Timer == [delay : Nat, left : Int, interval : BOOLEAN, active : BOOLEAN,
          referenced : BOOLEAN, nested : BOOLEAN, born : BOOLEAN]

Poll == [index : Nat, count : Nat, retained : Seq(Ids), worked : BOOLEAN, late : Nat]

Pcs == {"program", "test", "scan", "callback", "others", "sleep", "ended"}

Polling == {"scan", "callback"}

Typed ==
    /\ timer \in [Ids -> Timer]
    /\ list \in Seq(Ids)
    /\ loop \in [pc : Pcs, poll : Poll]
    /\ returned \in SUBSET Ids

\* The list is of timers already made, none of them twice, within its limit.
Listed ==
    /\ \A i, j \in 1..Len(list) : list[i] = list[j] => i = j
    /\ \A i \in 1..Len(list) : timer[list[i]].born
    /\ Len(list) <= MaxTimers

\* A timer is active only once it is made, and a one-shot timer no longer after
\* its callback has returned.
LifeCycle ==
    \A t \in Ids :
        /\ timer[t].active => timer[t].born
        /\ t \in returned => timer[t].born
        /\ t \in returned /\ timer[t].active => timer[t].interval

\* Where a poll is in the list, and that it retains timers it has passed.
Walk ==
    /\ loop.pc \notin Polling => loop.poll.retained = <<>>
    /\ loop.pc \in Polling =>
          /\ loop.poll.index \in 1..(loop.poll.count + 1)
          /\ loop.poll.count <= Len(list)
          /\ Len(loop.poll.retained) < loop.poll.index
    /\ loop.pc = "callback" => loop.poll.index <= loop.poll.count

\* What the poll retains, none of it twice.
Retained ==
    /\ \A i, j \in 1..Len(loop.poll.retained) :
          loop.poll.retained[i] = loop.poll.retained[j] => i = j
    /\ \A i \in 1..Len(loop.poll.retained) :
          \E j \in 1..(loop.poll.index - 1) : loop.poll.retained[i] = list[j]

InList(t) == \E i \in 1..Len(list) : list[i] = t

StillInPoll(t) ==
    \/ \E i \in 1..Len(loop.poll.retained) : loop.poll.retained[i] = t
    \/ \E i \in loop.poll.index..loop.poll.count : list[i] = t

Kept ==
    \A t \in Ids : timer[t].active /\ ~timer[t].nested =>
        InList(t) /\ (loop.pc \in Polling => StillInPoll(t))

IInv == Typed /\ Listed /\ LifeCycle /\ Walk /\ Retained /\ Kept
-----------------------------------------------------------------------------
\* IInv says what EarlierTimersKept does.
LEMMA Implied ==
    ASSUME IInv
    PROVE  EarlierTimersKept
<1>1. list \in Seq(Ids) /\ loop.poll.retained \in Seq(Ids)
  BY DEF IInv, Typed, Poll
<1>2. DOMAIN list = 1..Len(list) /\ DOMAIN loop.poll.retained = 1..Len(loop.poll.retained)
  BY <1>1
<1>3. IsInjective(list) /\ IsInjective(loop.poll.retained)
  BY <1>2 DEF IInv, Listed, Retained, IsInjective
<1>4. Len(list) <= MaxTimers
  BY DEF IInv, Listed
<1>5. ASSUME NEW t \in Ids, timer[t].active, ~timer[t].nested
      PROVE  /\ \E i \in DOMAIN list : list[i] = t
             /\ loop.pc \in {"scan", "callback"} =>
                   \/ \E i \in DOMAIN loop.poll.retained : loop.poll.retained[i] = t
                   \/ \E i \in loop.poll.index..loop.poll.count : list[i] = t
  BY <1>2, <1>5 DEF IInv, Kept, InList, StillInPoll, Polling
<1> QED
  BY <1>3, <1>4, <1>5 DEF EarlierTimersKept

\* No poll is under way.
LEMMA NoPollTyped == NoPoll \in Poll /\ NoPoll.retained = <<>>
BY DEF NoPoll, Poll

\* Before the first timer is made.
LEMMA InitKeeps ==
    ASSUME Init
    PROVE  IInv
<1>1. Unborn \in Timer
  BY DEF Unborn, Timer
<1>3. Typed
  BY <1>1, NoPollTyped DEF Init, Typed, Pcs
<1>4. \A t \in Ids : ~timer[t].active
  BY DEF Init, Unborn
<1>5. loop.poll.retained = <<>> /\ loop.pc = "program"
  BY DEF Init, NoPoll
<1>6. Listed /\ LifeCycle /\ Walk /\ Retained /\ Kept
  BY <1>4, <1>5, TimersAssumption
     DEF Init, Listed, LifeCycle, Walk, Retained, Kept, Polling
<1> QED
  BY <1>3, <1>6 DEF IInv

\* What user code may do to a timer that exists, and what time does: it is not
\* made, not activated, and stays an interval or a one-shot timer.
LEMMA TimersKeep ==
    ASSUME IInv,
           timer' \in [Ids -> Timer],
           \A t \in Ids : timer'[t].born = timer[t].born,
           \A t \in Ids : timer'[t].interval = timer[t].interval,
           \A t \in Ids : timer'[t].nested = timer[t].nested,
           \A t \in Ids : timer'[t].active => timer[t].active,
           loop' \in [pc : Pcs, poll : Poll],
           loop'.pc = loop.pc,
           loop'.poll.index = loop.poll.index,
           loop'.poll.count = loop.poll.count,
           loop'.poll.retained = loop.poll.retained,
           list' = list,
           returned' = returned
    PROVE  IInv'
<1>1. Typed'
  BY DEF IInv, Typed
<1>2. Listed'
  BY DEF IInv, Typed, Listed
<1>3. LifeCycle'
  BY DEF IInv, LifeCycle
<1>4. Walk' /\ Retained'
  BY DEF IInv, Walk, Retained
<1>5. Kept'
  BY DEF IInv, Kept, InList, StillInPoll
<1> QED
  BY <1>1, <1>2, <1>3, <1>4, <1>5 DEF IInv

\* A step of the loop outside a poll changes nothing but where the loop is.
LEMMA OutsideKeeps ==
    ASSUME IInv,
           UNCHANGED <<timer, list, returned>>,
           loop' \in [pc : Pcs, poll : Poll],
           loop'.pc \notin Polling,
           loop'.poll.retained = <<>>
    PROVE  IInv'
<1>1. Typed' /\ Listed' /\ LifeCycle'
  BY DEF IInv, Typed, Listed, LifeCycle
<1>2. Walk' /\ Retained'
  BY DEF IInv, Walk, Retained, Polling
<1>3. Kept'
  BY DEF IInv, Kept, InList
<1> QED
  BY <1>1, <1>2, <1>3 DEF IInv
-----------------------------------------------------------------------------
\* set_timeout and set_interval append a timer that is on the list nowhere yet.
LEMMA ScheduleKeeps ==
    ASSUME IInv, NEW t \in Ids, NEW delay \in Delays, NEW interval \in BOOLEAN,
           Schedule(t, delay, interval)
    PROVE  IInv'
<1> DEFINE d == IF interval /\ delay = 0 THEN 1 ELSE delay
           new == [delay |-> d, left |-> d, interval |-> interval, active |-> TRUE,
                   referenced |-> TRUE, nested |-> loop.pc = "callback", born |-> TRUE]
<1>1. d \in Nat
  BY TimersAssumption
<1>2. new \in Timer
  <2>1. (loop.pc = "callback") \in BOOLEAN
    OBVIOUS
  <2> HIDE DEF d
  <2> QED
    BY <1>1, <2>1 DEF Timer
<1>3. timer' = [timer EXCEPT ![t] = new]
  BY DEF Schedule
<1>4. new.active /\ new.born /\ (loop.pc = "callback" => new.nested)
  OBVIOUS
<1> HIDE DEF d, new
<1>5. timer' \in [Ids -> Timer] /\ timer'[t] = new
  BY <1>2, <1>3 DEF IInv, Typed
<1>6. \A u \in Ids : u # t => timer'[u] = timer[u]
  BY <1>3 DEF IInv, Typed
<1>7. list \in Seq(Ids) /\ list' = Append(list, t) /\ ~timer[t].born
  BY DEF Schedule, IInv, Typed
<1>8. /\ list' \in Seq(Ids) /\ Len(list') = Len(list) + 1
      /\ list'[Len(list) + 1] = t
      /\ \A i \in 1..Len(list) : list'[i] = list[i]
  BY <1>7
<1>9. \A i \in 1..Len(list) : list[i] \in Ids /\ list[i] # t
  BY <1>7 DEF IInv, Listed
<1>10. loop' = loop /\ returned' = returned /\ Len(list) < MaxTimers
  BY DEF Schedule
<1>11. Typed'
  BY <1>5, <1>8, <1>10 DEF IInv, Typed
<1>12. Len(list) \in Nat /\ 1..Len(list') = 1..Len(list) \cup {Len(list) + 1}
  BY <1>7, <1>8
<1>13. Listed'
  <2>1. \A i \in 1..Len(list') : timer'[list'[i]].born
    BY <1>4, <1>5, <1>6, <1>8, <1>9, <1>12 DEF IInv, Listed
  <2>2. \A i, j \in 1..Len(list') : list'[i] = list'[j] => i = j
    BY <1>8, <1>9, <1>12 DEF IInv, Listed
  <2>3. Len(list') <= MaxTimers
    BY <1>8, <1>10, <1>12, TimersAssumption
  <2> QED
    BY <2>1, <2>2, <2>3 DEF Listed
<1>14. LifeCycle'
  BY <1>4, <1>5, <1>6, <1>7, <1>10 DEF IInv, LifeCycle
<1>15. Walk'
  BY <1>8, <1>10, <1>12 DEF IInv, Walk, Typed, Poll
<1>16. Retained'
  <2>1. CASE loop.pc \in Polling
    <3>1. \A j \in 1..(loop.poll.index - 1) : j \in 1..Len(list)
      BY <1>12, <2>1 DEF IInv, Typed, Poll, Walk
    <3>2. \A j \in 1..(loop.poll.index - 1) : list'[j] = list[j]
      BY <1>8, <3>1
    <3> QED
      BY <1>10, <3>2 DEF IInv, Retained
  <2>2. CASE loop.pc \notin Polling
    BY <1>10, <2>2 DEF IInv, Walk, Retained
  <2> QED
    BY <2>1, <2>2
<1>17. Kept'
  <2> SUFFICES ASSUME NEW u \in Ids, timer'[u].active, ~timer'[u].nested
               PROVE  InList(u)' /\ (loop.pc \in Polling => StillInPoll(u)')
    BY <1>10 DEF Kept
  <2>1. CASE u = t
    <3>1. InList(u)'
      BY <1>8, <1>12, <2>1 DEF InList
    <3>2. loop.pc \notin Polling
      BY <1>4, <1>5, <2>1 DEF Schedule, UserTurn, Polling
    <3> QED
      BY <3>1, <3>2
  <2>2. CASE u # t
    <3>1. InList(u) /\ (loop.pc \in Polling => StillInPoll(u))
      BY <1>6, <2>2 DEF IInv, Kept
    <3>2. InList(u)'
      BY <1>8, <1>12, <3>1 DEF InList
    <3>3. ASSUME loop.pc \in Polling
          PROVE  StillInPoll(u)'
      <4>1. \A i \in loop.poll.index..loop.poll.count : i \in 1..Len(list)
        BY <1>12, <3>3 DEF IInv, Typed, Poll, Walk
      <4> QED
        BY <1>8, <1>10, <3>1, <3>3, <4>1 DEF StillInPoll
    <3> QED
      BY <3>2, <3>3
  <2> QED
    BY <2>1, <2>2
<1> QED
  BY <1>11, <1>13, <1>14, <1>15, <1>16, <1>17 DEF IInv

\* Clearing, refreshing and referencing a timer.
LEMMA UserKeeps ==
    ASSUME IInv, NEW t \in Ids, NEW b \in BOOLEAN,
           Clear(t) \/ Refresh(t) \/ SetReferenced(t, b)
    PROVE  IInv'
<1> DEFINE Same(x, y) == /\ x \in Timer
                         /\ x.born = y.born /\ x.interval = y.interval
                         /\ x.nested = y.nested /\ (x.active => y.active)
<1>1. ASSUME NEW y \in Timer
      PROVE  /\ Same([y EXCEPT !.active = FALSE], y)
             /\ Same([y EXCEPT !.left = y.delay], y)
             /\ Same([y EXCEPT !.referenced = b], y)
             /\ Same(y, y)
  <2>1. Same([y EXCEPT !.active = FALSE], y)
    BY DEF Timer
  <2>2. Same([y EXCEPT !.left = y.delay], y)
    BY DEF Timer
  <2>3. Same([y EXCEPT !.referenced = b], y)
    BY DEF Timer
  <2> QED
    BY <2>1, <2>2, <2>3
<1>2. PICK x : Same(x, timer[t]) /\ timer' = [timer EXCEPT ![t] = x]
  <2>1. timer[t] \in Timer /\ timer \in [Ids -> Timer]
    BY DEF IInv, Typed
  <2>2. \/ timer' = [timer EXCEPT ![t] = [timer[t] EXCEPT !.active = FALSE]]
        \/ timer' = [timer EXCEPT ![t] = [timer[t] EXCEPT !.left = timer[t].delay]]
        \/ timer' = [timer EXCEPT ![t] = [timer[t] EXCEPT !.referenced = b]]
    BY <2>1 DEF Clear, Refresh, SetReferenced
  <2> HIDE DEF Same
  <2> QED
    BY <1>1, <2>1, <2>2
<1>3. \A u \in Ids : Same(timer'[u], timer[u])
  <2>1. \A u \in Ids : timer'[u] = IF u = t THEN x ELSE timer[u]
    BY <1>2 DEF IInv, Typed
  <2>2. \A u \in Ids : timer[u] \in Timer
    BY DEF IInv, Typed
  <2> HIDE DEF Same
  <2> QED
    BY <1>1, <1>2, <2>1, <2>2
<1>4. timer' \in [Ids -> Timer]
  BY <1>2 DEF IInv, Typed
<1>5. UNCHANGED <<list, loop, returned>>
  BY DEF Clear, Refresh, SetReferenced
<1> QED
  BY <1>3, <1>4, <1>5, TimersKeep DEF IInv, Typed

\* Time passing makes timers due and a poll late, and nothing else.
LEMMA TickKeeps ==
    ASSUME IInv, Tick
    PROVE  IInv'
<1>1. ASSUME NEW y \in Timer, NEW z \in Int
      PROVE  LET x == [y EXCEPT !.left = z]
             IN  /\ x \in Timer
                 /\ x.born = y.born /\ x.interval = y.interval
                 /\ x.nested = y.nested /\ x.active = y.active
  BY DEF Timer
<1>2. \A u \in Ids : timer[u] \in Timer /\ timer[u].left \in Int
  BY DEF IInv, Typed, Timer
<1>3. ASSUME NEW u \in Ids
      PROVE  \E z \in Int : timer'[u] = [timer[u] EXCEPT !.left = z]
  <2>1. timer'[u] = [timer[u] EXCEPT !.left =
                        IF timer[u].left > -MaxLate THEN timer[u].left - 1 ELSE timer[u].left]
    BY DEF Tick
  <2>2. (IF timer[u].left > -MaxLate THEN timer[u].left - 1 ELSE timer[u].left) \in Int
    BY <1>2
  <2> QED
    BY <2>1, <2>2
<1>4. \A u \in Ids : /\ timer'[u] \in Timer
                     /\ timer'[u].born = timer[u].born
                     /\ timer'[u].interval = timer[u].interval
                     /\ timer'[u].nested = timer[u].nested
                     /\ timer'[u].active = timer[u].active
  <2> SUFFICES ASSUME NEW u \in Ids
               PROVE  /\ timer'[u] \in Timer
                      /\ timer'[u].born = timer[u].born
                      /\ timer'[u].interval = timer[u].interval
                      /\ timer'[u].nested = timer[u].nested
                      /\ timer'[u].active = timer[u].active
    OBVIOUS
  <2>1. PICK z \in Int : timer'[u] = [timer[u] EXCEPT !.left = z]
    BY <1>3
  <2> QED
    BY <1>1, <1>2, <2>1
<1>5. timer' \in [Ids -> Timer]
  BY <1>4 DEF Tick
<1>6. loop' = loop \/ loop' = [loop EXCEPT !.poll.late = loop.poll.late + 1]
  BY DEF Tick
<1>7. loop' \in [pc : Pcs, poll : Poll]
  <2>1. loop \in [pc : Pcs, poll : Poll] /\ loop.poll \in Poll
    BY DEF IInv, Typed
  <2>2. [loop.poll EXCEPT !.late = loop.poll.late + 1] \in Poll
    BY <2>1 DEF Poll
  <2> QED
    BY <1>6, <2>1, <2>2
<1>8. /\ loop'.pc = loop.pc
      /\ loop'.poll.index = loop.poll.index /\ loop'.poll.count = loop.poll.count
      /\ loop'.poll.retained = loop.poll.retained
  BY <1>6 DEF IInv, Typed, Poll
<1>9. UNCHANGED <<list, returned>>
  BY DEF Tick
<1> QED
  BY <1>4, <1>5, <1>7, <1>8, <1>9, TimersKeep
-----------------------------------------------------------------------------
\* The poll passes a timer, called or not: it is retained if it is active.
LEMMA PassKeeps ==
    ASSUME IInv,
           loop.pc \in Polling,
           loop.poll.index <= loop.poll.count,
           timer' \in [Ids -> Timer],
           \A t \in Ids : timer'[t].born = timer[t].born,
           \A t \in Ids : timer'[t].interval = timer[t].interval,
           \A t \in Ids : timer'[t].nested = timer[t].nested,
           \A t \in Ids : timer'[t].active => timer[t].active,
           list' = list,
           returned' \subseteq returned \cup {Current},
           Current \in returned' /\ timer'[Current].active => timer[Current].interval,
           loop' \in [pc : Pcs, poll : Poll],
           loop'.pc = "scan",
           loop'.poll.count = loop.poll.count,
           loop'.poll.index = loop.poll.index + 1,
           loop'.poll.retained = IF timer'[Current].active
                                   THEN Append(loop.poll.retained, Current)
                                   ELSE loop.poll.retained
    PROVE  IInv'
<1> DEFINE index == loop.poll.index
           count == loop.poll.count
           kept == loop.poll.retained
           kept1 == loop'.poll.retained
<1>1. /\ index \in Nat /\ count \in Nat /\ kept \in Seq(Ids)
      /\ list \in Seq(Ids) /\ Len(list) \in Nat
  BY DEF IInv, Typed, Poll
<1>2. index \in 1..count /\ count <= Len(list) /\ Len(kept) < index
  BY <1>1 DEF IInv, Walk
<1>3. index \in 1..Len(list) /\ Current = list[index] /\ Current \in Ids
  BY <1>1, <1>2 DEF Current
<1>4. kept1 = IF timer'[Current].active THEN Append(kept, Current) ELSE kept
  OBVIOUS
<1>5. /\ Len(kept1) <= Len(kept) + 1
      /\ \A i \in 1..Len(kept) : i \in 1..Len(kept1) /\ kept1[i] = kept[i]
      /\ \A i \in 1..Len(kept1) : i \in 1..Len(kept) \/ (i = Len(kept) + 1 /\ kept1[i] = Current)
      /\ timer'[Current].active => Len(kept) + 1 \in 1..Len(kept1) /\ kept1[Len(kept) + 1] = Current
  <2>1. CASE timer'[Current].active
    <3>1. kept1 = Append(kept, Current)
      BY <1>4, <2>1
    <3> HIDE DEF kept, kept1
    <3> QED
      BY <1>1, <1>3, <3>1
  <2>2. CASE ~timer'[Current].active
    <3>1. kept1 = kept
      BY <1>4, <2>2
    <3> HIDE DEF kept, kept1
    <3> QED
      BY <1>1, <2>2, <3>1
  <2> QED
    BY <2>1, <2>2
<1>6. Typed'
  BY <1>3 DEF IInv, Typed
<1>7. Listed'
  <2>1. \A i \in 1..Len(list) : list[i] \in Ids
    BY <1>1
  <2> QED
    BY <2>1 DEF IInv, Listed
<1>8. LifeCycle'
  <2> SUFFICES ASSUME NEW t \in Ids
               PROVE  /\ timer'[t].active => timer'[t].born
                      /\ t \in returned' => timer'[t].born
                      /\ t \in returned' /\ timer'[t].active => timer'[t].interval
    BY DEF LifeCycle
  <2>1. timer[Current].born
    BY <1>3 DEF IInv, Listed
  <2>2. CASE t = Current
    BY <2>1, <2>2 DEF IInv, LifeCycle
  <2>3. CASE t # Current
    BY <2>3 DEF IInv, LifeCycle
  <2> QED
    BY <2>2, <2>3
<1>9. Walk'
  <2>1. loop'.pc \in Polling /\ loop'.pc # "callback"
    BY DEF Polling
  <2>2. Len(kept1) < index + 1
    <3>1. kept1 \in Seq(Ids)
      BY DEF Poll
    <3> HIDE DEF kept, kept1, index
    <3> QED
      BY <1>1, <1>2, <1>5, <3>1
  <2>3. index + 1 \in 1..(count + 1)
    BY <1>1, <1>2
  <2> QED
    BY <1>2, <2>1, <2>2, <2>3 DEF Walk
<1>10. Retained'
  <2>1. \A i \in 1..Len(kept) : \E j \in 1..(index - 1) : kept[i] = list[j]
    BY DEF IInv, Retained
  <2>2. \A j \in 1..(index - 1) : j \in 1..Len(list) /\ j # index /\ j \in 1..index
    BY <1>1, <1>3
  <2>3. \A i \in 1..Len(kept) : kept[i] # Current
    BY <1>3, <2>1, <2>2 DEF IInv, Listed
  <2>4. \A i, j \in 1..Len(kept) : kept[i] = kept[j] => i = j
    BY DEF IInv, Retained
  <2>5. \A i, j \in 1..Len(kept1) : kept1[i] = kept1[j] => i = j
    <3> HIDE DEF kept, kept1, index
    <3> QED
      BY <1>5, <2>3, <2>4
  <2>6. \A i \in 1..Len(kept1) : \E j \in 1..index : kept1[i] = list[j]
    <3>1. index \in 1..index
      BY <1>1, <1>3
    <3> HIDE DEF kept, kept1, index
    <3> QED
      BY <1>3, <1>5, <2>1, <2>2, <3>1
  <2>7. loop'.poll.index - 1 = index
    BY <1>1
  <2>8. \A i \in 1..Len(kept1) : \E j \in 1..(loop'.poll.index - 1) : kept1[i] = list'[j]
    BY <2>6, <2>7
  <2> QED
    BY <2>5, <2>8, Zenon DEF Retained
<1>11. Kept'
  <2> SUFFICES ASSUME NEW t \in Ids, timer'[t].active, ~timer'[t].nested
               PROVE  InList(t)' /\ StillInPoll(t)'
    BY DEF Kept
  <2> DEFINE Again == \/ \E i \in 1..Len(kept1) : kept1[i] = t
                      \/ \E i \in (index + 1)..count : list[i] = t
  <2>1. InList(t) /\ StillInPoll(t)
    BY DEF IInv, Kept
  <2>2. ASSUME \E i \in 1..Len(kept) : kept[i] = t
        PROVE  Again
    <3> HIDE DEF kept, kept1
    <3> QED
      BY <1>5, <2>2
  <2>3. ASSUME t = Current
        PROVE  Again
    <3> HIDE DEF kept, kept1
    <3> QED
      BY <1>5, <2>3
  <2>4. ASSUME t # Current /\ \E i \in index..count : list[i] = t
        PROVE  Again
    <3>1. PICK i \in index..count : list[i] = t
      BY <2>4
    <3>2. i \in (index + 1)..count
      BY <1>1, <1>3, <2>4, <3>1
    <3> QED
      BY <3>1, <3>2
  <2>5. Again
    BY <2>1, <2>2, <2>3, <2>4 DEF StillInPoll
  <2>6. StillInPoll(t)'
    BY <2>5 DEF StillInPoll
  <2> QED
    BY <2>1, <2>6 DEF InList
<1> QED
  BY <1>6, <1>7, <1>8, <1>9, <1>10, <1>11 DEF IInv

\* The loop's record after a step, field by field.
LEMMA LoopFields ==
    ASSUME Typed, NEW r \in Seq(Ids), NEW w \in BOOLEAN,
           loop' = [loop EXCEPT !.pc = "scan", !.poll.worked = w,
                                !.poll.index = loop.poll.index + 1, !.poll.retained = r]
    PROVE  /\ loop' \in [pc : Pcs, poll : Poll]
           /\ loop'.pc = "scan"
           /\ loop'.poll.count = loop.poll.count
           /\ loop'.poll.index = loop.poll.index + 1
           /\ loop'.poll.retained = r
<1>1. ASSUME NEW p \in Poll
      PROVE  LET q == [p EXCEPT !.worked = w, !.index = p.index + 1, !.retained = r]
             IN  /\ q \in Poll
                 /\ q.count = p.count /\ q.index = p.index + 1 /\ q.retained = r
  <2> DEFINE q == [p EXCEPT !.worked = w, !.index = p.index + 1, !.retained = r]
  <2>1. p.index + 1 \in Nat
    BY DEF Poll
  <2>2. q \in Poll
    BY <2>1 DEF Poll
  <2>3. q.count = p.count /\ q.index = p.index + 1 /\ q.retained = r
    BY DEF Poll
  <2> QED
    BY <2>2, <2>3
<1> DEFINE q == [loop.poll EXCEPT !.worked = w, !.index = loop.poll.index + 1, !.retained = r]
<1>2. loop \in [pc : Pcs, poll : Poll] /\ loop.poll \in Poll
  BY DEF Typed
<1>3. /\ q \in Poll
      /\ q.count = loop.poll.count /\ q.index = loop.poll.index + 1 /\ q.retained = r
  BY <1>1, <1>2
<1>4. loop' = [loop EXCEPT !.pc = "scan", !.poll = q]
  BY <1>2
<1> HIDE DEF q
<1> QED
  BY <1>2, <1>3, <1>4 DEF Pcs

\* A poll looks at a timer it does not call.
LEMMA ScanKeeps ==
    ASSUME IInv, Scan
    PROVE  IInv'
<1> DEFINE r == IF timer[Current].active THEN Append(loop.poll.retained, Current)
                                         ELSE loop.poll.retained
<1>1. Typed /\ timer' = timer /\ list' = list /\ returned' = returned
  BY DEF IInv, Scan
<1>2. /\ loop \in [pc : Pcs, poll : Poll] /\ loop.poll \in Poll
      /\ loop.poll.retained \in Seq(Ids) /\ loop.poll.worked \in BOOLEAN
      /\ loop.poll.index \in Nat /\ loop.poll.count \in Nat /\ Len(list) \in Nat
  BY <1>1 DEF Typed, Poll
<1>3. loop.pc = "scan" /\ loop.pc \in Polling /\ loop.poll.index <= loop.poll.count
  BY DEF Scan, Polling
<1>4. Current \in Ids
  BY <1>1, <1>2, <1>3 DEF IInv, Walk, Current, Typed
<1>5. r \in Seq(Ids)
  BY <1>2, <1>4
<1>6. loop' = [loop EXCEPT !.poll.index = loop.poll.index + 1, !.poll.retained = r]
  BY <1>2 DEF Scan
<1> HIDE DEF r
<1>7. loop' = [loop EXCEPT !.pc = "scan", !.poll.worked = loop.poll.worked,
                           !.poll.index = loop.poll.index + 1, !.poll.retained = r]
  BY <1>2, <1>3, <1>6 DEF Poll
<1>8. /\ loop' \in [pc : Pcs, poll : Poll]
      /\ loop'.pc = "scan"
      /\ loop'.poll.count = loop.poll.count
      /\ loop'.poll.index = loop.poll.index + 1
      /\ loop'.poll.retained = r
  BY <1>1, <1>2, <1>5, <1>7, LoopFields
<1>9. Current \in returned /\ timer[Current].active => timer[Current].interval
  BY <1>4 DEF IInv, LifeCycle
<1> QED
  BY <1>1, <1>3, <1>8, <1>9, PassKeeps DEF r, Typed

\* A callback returns: an interval that is still active stays on the list, and
\* any other timer is active no longer.
LEMMA CallbackReturnsKeeps ==
    ASSUME IInv, CallbackReturns
    PROVE  IInv'
<1> DEFINE again == timer[Current].interval /\ timer[Current].active
           r == IF again THEN Append(loop.poll.retained, Current) ELSE loop.poll.retained
           x == IF again THEN [timer[Current] EXCEPT !.left =
                                  timer[Current].delay - loop.poll.late]
                         ELSE [timer[Current] EXCEPT !.active = FALSE]
<1>1. Typed /\ list' = list /\ returned' = returned \cup {Current}
  BY DEF IInv, CallbackReturns
<1>2. /\ loop \in [pc : Pcs, poll : Poll] /\ loop.poll \in Poll
      /\ loop.poll.retained \in Seq(Ids) /\ loop.poll.late \in Nat
      /\ loop.poll.index \in Nat /\ loop.poll.count \in Nat /\ Len(list) \in Nat
  BY <1>1 DEF Typed, Poll
<1>3. loop.pc = "callback" /\ loop.pc \in Polling /\ loop.poll.index <= loop.poll.count
  BY DEF CallbackReturns, Polling, IInv, Walk
<1>4. Current \in Ids /\ timer[Current] \in Timer /\ timer \in [Ids -> Timer]
  BY <1>1, <1>2, <1>3 DEF IInv, Walk, Current, Typed
<1>5. r \in Seq(Ids)
  BY <1>2, <1>4
<1>6. loop' = [loop EXCEPT !.pc = "scan", !.poll.worked = TRUE,
                           !.poll.index = loop.poll.index + 1, !.poll.retained = r]
  BY <1>2 DEF CallbackReturns
<1>7. timer' = [timer EXCEPT ![Current] = x]
  BY <1>4 DEF CallbackReturns
<1>8. ASSUME NEW y \in Timer, NEW z \in Int
      PROVE  /\ [y EXCEPT !.left = z] \in Timer
             /\ [y EXCEPT !.left = z].born = y.born
             /\ [y EXCEPT !.left = z].interval = y.interval
             /\ [y EXCEPT !.left = z].nested = y.nested
             /\ [y EXCEPT !.left = z].active = y.active
  BY <1>8 DEF Timer
<1>9. ASSUME NEW y \in Timer
      PROVE  /\ [y EXCEPT !.active = FALSE] \in Timer
             /\ [y EXCEPT !.active = FALSE].born = y.born
             /\ [y EXCEPT !.active = FALSE].interval = y.interval
             /\ [y EXCEPT !.active = FALSE].nested = y.nested
             /\ ~[y EXCEPT !.active = FALSE].active
  BY <1>9 DEF Timer
<1>10. timer[Current].delay - loop.poll.late \in Int
  BY <1>2, <1>4 DEF Timer
<1>11. /\ x \in Timer
       /\ x.born = timer[Current].born /\ x.interval = timer[Current].interval
       /\ x.nested = timer[Current].nested
       /\ again => x.active = timer[Current].active
       /\ ~again => ~x.active
  <2>1. CASE again
    BY <1>4, <1>8, <1>10, <2>1
  <2>2. CASE ~again
    BY <1>4, <1>9, <2>2
  <2> QED
    BY <2>1, <2>2
<1> HIDE DEF x
<1>12. timer' \in [Ids -> Timer] /\ timer'[Current] = x
       /\ \A t \in Ids : t # Current => timer'[t] = timer[t]
  BY <1>4, <1>7, <1>11
<1>13. /\ \A t \in Ids : timer'[t].born = timer[t].born
       /\ \A t \in Ids : timer'[t].interval = timer[t].interval
       /\ \A t \in Ids : timer'[t].nested = timer[t].nested
       /\ \A t \in Ids : timer'[t].active => timer[t].active
       /\ timer'[Current].active => timer[Current].interval
  BY <1>4, <1>11, <1>12
<1>14. r = IF timer'[Current].active THEN Append(loop.poll.retained, Current)
                                     ELSE loop.poll.retained
  BY <1>11, <1>12
<1> HIDE DEF r
<1>15. /\ loop' \in [pc : Pcs, poll : Poll]
       /\ loop'.pc = "scan"
       /\ loop'.poll.count = loop.poll.count
       /\ loop'.poll.index = loop.poll.index + 1
       /\ loop'.poll.retained = r
  BY <1>1, <1>5, <1>6, LoopFields
<1> HIDE DEF again
<1> QED
  BY <1>1, <1>3, <1>12, <1>13, <1>14, <1>15, PassKeeps

\* A poll begins: everything on the list is still to be looked at.
LEMMA TestLoopKeeps ==
    ASSUME IInv, TestLoop
    PROVE  IInv'
<1>1. Typed /\ loop.pc = "test" /\ UNCHANGED <<timer, list, returned>>
  BY DEF IInv, TestLoop
<1>2. CASE loop' = [loop EXCEPT !.pc = "ended"]
  <2>1. /\ loop' \in [pc : Pcs, poll : Poll] /\ loop'.pc \notin Polling
        /\ loop'.poll = loop.poll
    BY <1>1, <1>2 DEF Typed, Pcs, Polling
  <2>2. loop.poll.retained = <<>>
    BY <1>1 DEF IInv, Walk, Polling
  <2> QED
    BY <1>1, <2>1, <2>2, OutsideKeeps
<1>3. CASE loop' = [pc |-> "scan", poll |-> [NoPoll EXCEPT !.index = 1, !.count = Len(list)]]
  <2>1. Len(list) \in Nat
    BY <1>1 DEF Typed
  <2>2. /\ loop'.pc = "scan" /\ loop'.poll.index = 1 /\ loop'.poll.count = Len(list)
        /\ loop'.poll.retained = <<>>
    BY <1>3 DEF NoPoll
  <2>3. loop' \in [pc : Pcs, poll : Poll]
    <3>1. [NoPoll EXCEPT !.index = 1, !.count = Len(list)] \in Poll
      BY <2>1, NoPollTyped DEF Poll
    <3> QED
      BY <1>3, <3>1 DEF Pcs
  <2>4. Typed' /\ Listed' /\ LifeCycle'
    BY <1>1, <2>3 DEF IInv, Typed, Listed, LifeCycle
  <2>5. Walk' /\ Retained'
    BY <1>1, <2>1, <2>2 DEF Walk, Retained, Polling
  <2>6. Kept'
    BY <1>1, <2>2 DEF IInv, Kept, InList, StillInPoll
  <2> QED
    BY <2>4, <2>5, <2>6 DEF IInv
<1> QED
  BY <1>2, <1>3 DEF TestLoop

\* The callback of a timer is called from the poll.
LEMMA CallKeeps ==
    ASSUME IInv, Call
    PROVE  IInv'
<1>1. /\ Typed /\ loop.pc = "scan" /\ UNCHANGED <<timer, list, returned>>
      /\ loop.poll.index <= loop.poll.count
      /\ loop' = [loop EXCEPT !.pc = "callback"]
  BY DEF IInv, Call
<1>2. /\ loop' \in [pc : Pcs, poll : Poll] /\ loop'.pc = "callback"
      /\ loop'.poll = loop.poll
  BY <1>1 DEF Typed, Pcs
<1>3. Typed' /\ Listed' /\ LifeCycle'
  BY <1>1, <1>2 DEF IInv, Typed, Listed, LifeCycle
<1>4. Walk' /\ Retained'
  BY <1>1, <1>2 DEF IInv, Walk, Retained, Polling
<1>5. Kept'
  BY <1>1, <1>2 DEF IInv, Kept, InList, StillInPoll, Polling
<1> QED
  BY <1>3, <1>4, <1>5 DEF IInv

\* A poll ends: what it retained is the list.
LEMMA EndPollKeeps ==
    ASSUME IInv, EndPoll
    PROVE  IInv'
<1>1. /\ Typed /\ loop.pc = "scan" /\ UNCHANGED <<timer, returned>>
      /\ loop.poll.index > loop.poll.count
      /\ list' = loop.poll.retained
      /\ loop' = [pc |-> "others", poll |-> [NoPoll EXCEPT !.worked = loop.poll.worked]]
  BY DEF IInv, EndPoll
<1>2. /\ loop.poll \in Poll /\ loop.poll.index \in Nat /\ loop.poll.count \in Nat
      /\ loop.poll.retained \in Seq(Ids) /\ loop.poll.worked \in BOOLEAN
      /\ Len(list) \in Nat /\ Len(loop.poll.retained) \in Nat
  BY <1>1 DEF Typed, Poll
<1>3. /\ loop'.pc = "others" /\ loop'.poll.retained = <<>>
      /\ loop' \in [pc : Pcs, poll : Poll]
  <2>1. /\ [NoPoll EXCEPT !.worked = loop.poll.worked] \in Poll
        /\ [NoPoll EXCEPT !.worked = loop.poll.worked].retained = <<>>
    BY <1>2, NoPollTyped DEF Poll
  <2> QED
    BY <1>1, <2>1 DEF Pcs
<1>4. /\ loop.poll.index = loop.poll.count + 1 /\ loop.poll.count <= Len(list)
      /\ Len(loop.poll.retained) < loop.poll.index
  BY <1>1, <1>2 DEF IInv, Walk, Polling
<1>5. Typed'
  BY <1>1, <1>2, <1>3 DEF Typed
<1>6. Listed'
  <2>1. Len(list') <= MaxTimers
    BY <1>1, <1>2, <1>4, TimersAssumption DEF IInv, Listed
  <2>2. \A i, j \in 1..Len(list') : list'[i] = list'[j] => i = j
    BY <1>1 DEF IInv, Retained
  <2>3. \A j \in 1..(loop.poll.index - 1) : j \in 1..Len(list)
    BY <1>2, <1>4
  <2>4. \A i \in 1..Len(list') : timer'[list'[i]].born
    BY <1>1, <2>3 DEF IInv, Retained, Listed
  <2> QED
    BY <2>1, <2>2, <2>4 DEF Listed
<1>7. LifeCycle'
  BY <1>1 DEF IInv, LifeCycle
<1>8. Walk' /\ Retained'
  BY <1>3 DEF Walk, Retained, Polling
<1>9. Kept'
  <2>1. loop.pc \in Polling /\ loop'.pc \notin Polling
    BY <1>1, <1>3 DEF Polling
  <2>2. loop.poll.index..loop.poll.count = {}
    BY <1>2, <1>4
  <2> QED
    BY <1>1, <2>1, <2>2 DEF IInv, Kept, InList, StillInPoll
<1> QED
  BY <1>5, <1>6, <1>7, <1>8, <1>9 DEF IInv

\* The loop is entered or left, waits, or is left by an error: a poll that a
\* callback's error leaves replaces nothing.
LEMMA OtherStepsKeep ==
    ASSUME IInv, RunLoop \/ OtherPolls \/ WakeUp \/ Resume \/ CallbackRaises
    PROVE  IInv'
<1>2. UNCHANGED <<timer, list, returned>>
  BY DEF RunLoop, OtherPolls, WakeUp, Resume, CallbackRaises
<1>3. ASSUME RunLoop \/ WakeUp \/ Resume
      PROVE  /\ loop' \in [pc : Pcs, poll : Poll] /\ loop'.pc \notin Polling
             /\ loop'.poll.retained = <<>>
  BY <1>3 DEF RunLoop, WakeUp, Resume, IInv, Typed, Walk, Pcs, Polling
<1>4. ASSUME OtherPolls \/ CallbackRaises
      PROVE  /\ loop' \in [pc : Pcs, poll : Poll] /\ loop'.pc \notin Polling
             /\ loop'.poll.retained = <<>>
  BY <1>4, NoPollTyped DEF OtherPolls, CallbackRaises, Pcs, Polling
<1> QED
  BY <1>2, <1>3, <1>4, OutsideKeeps
-----------------------------------------------------------------------------
\* Every step of timers.mojo keeps IInv.
LEMMA StepKeeps ==
    ASSUME IInv, [Next]_vars
    PROVE  IInv'
<1>1. ASSUME UNCHANGED vars
      PROVE  IInv'
  BY <1>1 DEF vars, IInv, Typed, Listed, LifeCycle, Walk, Retained, Kept, InList, StillInPoll
<1> QED
  BY <1>1, ScheduleKeeps, UserKeeps, TickKeeps, ScanKeeps, CallbackReturnsKeeps,
     TestLoopKeeps, CallKeeps, EndPollKeeps, OtherStepsKeep
     DEF Next, LoopStep

\* IInv holds in every state of every behaviour of the timers.
THEOREM Inductive == Spec => []IInv
BY InitKeeps, StepKeeps, PTL DEF Spec

\* The list of timers never holds one twice nor more than its limit, and an
\* active timer that no timer callback scheduled is never lost from it: not by
\* a poll that ends, nor by one that a callback's error leaves half way.
THEOREM EarlierKept == Spec => []EarlierTimersKept
BY Inductive, Implied, PTL

\* A poll calls only timers that are active and due, and no one-shot timer whose
\* callback has returned, whatever callbacks before it cleared, refreshed or
\* raised.
THEOREM CallsRight == Spec => CalledRightly
<1>1. ASSUME IInv, Next, loop.pc = "scan", loop'.pc = "callback"
      PROVE  /\ timer[Current].active /\ timer[Current].left <= 0
             /\ timer[Current].interval \/ Current \notin returned
  <2>1. loop \in [pc : Pcs, poll : Poll] /\ timer \in [Ids -> Timer] /\ list \in Seq(Ids)
    BY <1>1 DEF IInv, Typed
  <2>2. Call
    <3>1. ~UserTurn
      BY <1>1 DEF UserTurn
    <3>2. ~Tick /\ ~Scan
      BY <1>1, <2>1 DEF Tick, Scan
    <3>3. ~RunLoop /\ ~TestLoop /\ ~EndPoll /\ ~OtherPolls /\ ~WakeUp /\ ~Resume
          /\ ~CallbackReturns /\ ~CallbackRaises
      BY <1>1 DEF RunLoop, TestLoop, EndPoll, OtherPolls, WakeUp, Resume,
                  CallbackReturns, CallbackRaises
    <3> QED
      BY <1>1, <3>1, <3>2, <3>3
         DEF Next, LoopStep, Schedule, Clear, Refresh, SetReferenced
  <2>3. loop.poll.late \in Nat /\ loop.poll.index \in Nat /\ loop.poll.count \in Nat
        /\ Len(list) \in Nat
    BY <2>1 DEF Poll
  <2>4. Current \in Ids
    BY <1>1, <2>1, <2>2, <2>3 DEF Call, Current, IInv, Walk, Polling
  <2>5. timer[Current].left \in Int
    BY <2>1, <2>4 DEF Timer
  <2>6. timer[Current].active /\ timer[Current].left <= -loop.poll.late
    BY <2>2 DEF Call, Due
  <2>7. timer[Current].left <= 0
    BY <2>3, <2>5, <2>6
  <2> QED
    BY <1>1, <2>4, <2>6, <2>7 DEF IInv, LifeCycle
<1>2. IInv /\ [Next]_vars =>
        [loop.pc = "scan" /\ loop'.pc = "callback" =>
            /\ timer[Current].active /\ timer[Current].left <= 0
            /\ timer[Current].interval \/ Current \notin returned]_vars
  BY <1>1
<1> QED
  BY <1>2, Inductive, PTL DEF Spec, CalledRightly
=============================================================================
