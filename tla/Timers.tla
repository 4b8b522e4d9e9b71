-------------------------------- MODULE Timers --------------------------------
(***************************************************************************)
(* timers.mojo under event_loop.mojo: the list of timers, the operations   *)
(* on a Timeout and the poll that calls back.  One thread; what interleaves*)
(* is the user code inside a timer callback, which may schedule, clear,    *)
(* refresh, ref and unref any timer while the poll walks the list, and     *)
(* time, which passes between the poll's one look at the clock and its     *)
(* calls.                                                                  *)
(*                                                                         *)
(* Times are kept relative to the present: left is due_ns minus the clock, *)
(* cut off at -MaxLate, and late is the clock minus the time the poll      *)
(* read, so due_ns <= now is left <= -late.                                *)
(***************************************************************************)
EXTENDS Integers, Sequences, SequencesExt, FiniteSetsExt

CONSTANTS Ids,          \* the timers; each is scheduled at most once
          Delays,       \* the delays to try
          MaxLate,      \* bound: ticks during one poll
          MaxTimers     \* _max_timers

ASSUME TimersAssumption ==
    /\ Delays \subseteq Nat
    /\ MaxLate \in Nat /\ MaxTimers \in Nat

VARIABLES timer,      \* the TimerState of each timer
          list,       \* _timers
          loop,       \* run_event_loop and the poll inside it
          returned    \* timers whose callback has returned once

vars == <<timer, list, loop, returned>>

Unborn == [delay |-> 0, left |-> 0, interval |-> FALSE, active |-> FALSE,
           referenced |-> FALSE, nested |-> FALSE, born |-> FALSE]

NoPoll == [index |-> 0, count |-> 0, retained |-> <<>>, worked |-> FALSE, late |-> 0]

Init ==
    /\ timer = [t \in Ids |-> Unborn]
    /\ list = <<>>
    /\ loop = [pc |-> "program", poll |-> NoPoll]
    /\ returned = {}

\* Timeout.has_ref
HasRef(t) == timer[t].active /\ timer[t].referenced

\* has_refed_timers
HasRefed == \E i \in DOMAIN list : HasRef(list[i])

\* User code runs outside run_event_loop, in a timer's callback or in one that
\* another poll of the loop calls.
UserTurn == loop.pc \in {"program", "callback", "others"}
-----------------------------------------------------------------------------
\* set_timeout, set_interval and _schedule, when it does not raise.  nested notes
\* that a timer callback called it.
Schedule(t, delay, interval) ==
    /\ UserTurn
    /\ ~timer[t].born
    /\ Len(list) < MaxTimers
    /\ LET d == IF interval /\ delay = 0 THEN 1 ELSE delay IN
          timer' = [timer EXCEPT ![t] =
              [delay |-> d, left |-> d, interval |-> interval, active |-> TRUE,
               referenced |-> TRUE, nested |-> loop.pc = "callback", born |-> TRUE]]
    /\ list' = Append(list, t)
    /\ UNCHANGED <<loop, returned>>

\* clear_timeout, clear_interval, Timeout.close
Clear(t) ==
    /\ UserTurn
    /\ timer[t].active
    /\ timer' = [timer EXCEPT ![t].active = FALSE]
    /\ UNCHANGED <<list, loop, returned>>

\* Timeout.refresh
Refresh(t) ==
    /\ UserTurn
    /\ timer[t].born
    /\ timer' = [timer EXCEPT ![t].left = timer[t].delay]
    /\ UNCHANGED <<list, loop, returned>>

\* Timeout.ref and Timeout.unref
SetReferenced(t, referenced) ==
    /\ UserTurn
    /\ timer[t].born
    /\ timer' = [timer EXCEPT ![t].referenced = referenced]
    /\ UNCHANGED <<list, loop, returned>>

\* Time passes, in a poll at most MaxLate times.
Tick ==
    /\ loop.poll.late < MaxLate
    /\ timer' = [t \in Ids |->
           [timer[t] EXCEPT !.left = IF @ > -MaxLate THEN @ - 1 ELSE @]]
    /\ loop' = IF loop.pc \in {"scan", "callback"}
                 THEN [loop EXCEPT !.poll.late = @ + 1] ELSE loop
    /\ UNCHANGED <<list, returned>>
-----------------------------------------------------------------------------
\* The program calls run_event_loop.
RunLoop ==
    /\ loop.pc = "program"
    /\ loop' = [loop EXCEPT !.pc = "test"]
    /\ UNCHANGED <<timer, list, returned>>

\* The condition of run_event_loop: other parts of the runtime may keep it
\* going without timers.  poll_timers reads the clock and the list's length.
TestLoop ==
    /\ loop.pc = "test"
    /\ \/ loop' = [pc |-> "scan", poll |-> [NoPoll EXCEPT !.index = 1, !.count = Len(list)]]
       \/ ~HasRefed /\ loop' = [loop EXCEPT !.pc = "ended"]
    /\ UNCHANGED <<timer, list, returned>>

Current == list[loop.poll.index]

Due(t) == timer[t].left <= -loop.poll.late

\* One timer of the list that is not to be called.
ScanMutant ==
    /\ loop.pc = "scan"
    /\ loop.poll.index <= loop.poll.count
    /\ ~(timer[Current].active /\ Due(Current))
    /\ loop' = [loop EXCEPT !.poll.index = @ + 1]
    /\ UNCHANGED <<timer, list, returned>>
Scan ==
    /\ loop.pc = "scan"
    /\ loop.poll.index <= loop.poll.count
    /\ ~(timer[Current].active /\ Due(Current))
    /\ loop' = [loop EXCEPT !.poll.index = @ + 1,
                            !.poll.retained = IF timer[Current].active
                                                THEN Append(@, Current) ELSE @]
    /\ UNCHANGED <<timer, list, returned>>

\* One timer of the list that is called.
CallMutant ==
    /\ loop.pc = "scan"
    /\ loop.poll.index <= loop.poll.count
    /\ Due(Current)
    /\ loop' = [loop EXCEPT !.pc = "callback"]
    /\ UNCHANGED <<timer, list, returned>>
Call ==
    /\ loop.pc = "scan"
    /\ loop.poll.index <= loop.poll.count
    /\ timer[Current].active /\ Due(Current)
    /\ loop' = [loop EXCEPT !.pc = "callback"]
    /\ UNCHANGED <<timer, list, returned>>

\* Its callback returns: an interval still active is armed again from the
\* time the poll read, everything else is done.
CallbackReturns ==
    /\ loop.pc = "callback"
    /\ LET again == timer[Current].interval /\ timer[Current].active IN
          /\ timer' = IF again
                        THEN [timer EXCEPT ![Current].left =
                                 timer[Current].delay - loop.poll.late]
                        ELSE [timer EXCEPT ![Current].active = FALSE]
          /\ loop' = [loop EXCEPT !.pc = "scan", !.poll.worked = TRUE, !.poll.index = @ + 1,
                                  !.poll.retained = IF again THEN Append(@, Current) ELSE @]
    /\ returned' = returned \cup {Current}
    /\ UNCHANGED list

\* It raises, and so do poll_timers and run_event_loop: the list is not
\* replaced and the timer stays as it is.
CallbackRaisesMutant ==
    /\ loop.pc = "callback"
    /\ list' = loop.poll.retained
    /\ loop' = [pc |-> "program", poll |-> NoPoll]
    /\ UNCHANGED <<timer, returned>>
CallbackRaises ==
    /\ loop.pc = "callback"
    /\ loop' = [pc |-> "program", poll |-> NoPoll]
    /\ UNCHANGED <<timer, list, returned>>

\* The end of poll_timers: what was retained replaces the list.
EndPoll ==
    /\ loop.pc = "scan"
    /\ loop.poll.index > loop.poll.count
    /\ list' = loop.poll.retained
    /\ loop' = [pc |-> "others", poll |-> [NoPoll EXCEPT !.worked = loop.poll.worked]]
    /\ UNCHANGED <<timer, returned>>

\* The other polls of run_event_loop: one of them raises, or the loop goes on,
\* after a sleep of at most 10 ms unless some poll did work.
OtherPolls ==
    /\ loop.pc = "others"
    /\ \E pc \in {"program", "test"} \cup (IF loop.poll.worked THEN {} ELSE {"sleep"}) :
          loop' = [pc |-> pc, poll |-> NoPoll]
    /\ UNCHANGED <<timer, list, returned>>

\* The wait ends, or fails and raises.
WakeUp ==
    /\ loop.pc = "sleep"
    /\ \E pc \in {"program", "test"} : loop' = [loop EXCEPT !.pc = pc]
    /\ UNCHANGED <<timer, list, returned>>

\* run_event_loop has returned to the program.
Resume ==
    /\ loop.pc = "ended"
    /\ loop' = [loop EXCEPT !.pc = "program"]
    /\ UNCHANGED <<timer, list, returned>>

LoopStep ==
    \/ TestLoop \/ Scan \/ Call \/ EndPoll \/ OtherPolls \/ WakeUp \/ Resume
    \/ CallbackReturns \/ CallbackRaises

Next ==
    \/ \E t \in Ids, d \in Delays, interval \in BOOLEAN : Schedule(t, d, interval)
    \/ \E t \in Ids : Clear(t) \/ Refresh(t) \/ \E b \in BOOLEAN : SetReferenced(t, b)
    \/ Tick
    \/ RunLoop
    \/ LoopStep

Spec == Init /\ [][Next]_vars

(***************************************************************************)
(* Time passes, and the loop and the callbacks in it run.  The program is  *)
(* not obliged to enter the loop.                                          *)
(***************************************************************************)
FairSpec == Spec /\ WF_vars(Tick) /\ WF_vars(LoopStep)
-----------------------------------------------------------------------------
\* A timer that was not scheduled inside a timer callback, so one scheduled by
\* the program or by a callback of another part, stays on the list
\* as long as it is active, and within a poll among what the poll has
\* retained or has still to look at.  The list holds no timer twice, and neither
\* does what a poll retains of it, through every mix of raising callbacks and
\* changes inside callbacks, and it keeps within its limit.
EarlierTimersKept ==
    /\ IsInjective(list) /\ IsInjective(loop.poll.retained) /\ Len(list) <= MaxTimers
    /\ \A t \in Ids : timer[t].active /\ ~timer[t].nested =>
           /\ \E i \in DOMAIN list : list[i] = t
           /\ loop.pc \in {"scan", "callback"} =>
                 \/ \E i \in DOMAIN loop.poll.retained : loop.poll.retained[i] = t
                 \/ \E i \in loop.poll.index..loop.poll.count : list[i] = t

\* A call is made only of an active timer whose time has come, also when an
\* earlier callback of the same poll cleared or refreshed it; and a one-shot
\* timer whose callback returned is not called again, whatever raised.
CalledRightly ==
    [][loop.pc = "scan" /\ loop'.pc = "callback" =>
          /\ timer[Current].active /\ timer[Current].left <= 0
          /\ timer[Current].interval \/ Current \notin returned]_vars

\* Referenced timers that were not scheduled inside a callback are called in
\* time, as long as the loop runs, unless they are cleared or unreferenced or
\* are refreshed over and over again.
TimersCalled ==
    \A t \in Ids :
        \/ []<><<Refresh(t)>>_vars
        \/ HasRef(t) /\ ~timer[t].nested /\ loop.pc # "program"
              ~> loop.pc = "program" \/ t \in returned \/ ~HasRef(t)

\* run_event_loop returns only when no timer has a reference left:
\* tests/timers/timers_test.mojo asserts it of its timer after the loop.
LoopEndsWithoutRefs == loop.pc = "ended" => \A t \in Ids : ~HasRef(t)
=============================================================================
