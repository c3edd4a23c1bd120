-------------------------------- MODULE Bubble --------------------------------
(***************************************************************************)
(* bubble_last_timer at the grain of one loop iteration: each step is one  *)
(* test of "t->target <= (t-1)->target" and the three memcpy calls of a    *)
(* swap.  EventLoop uses the result of the whole loop, BubbleLast; this    *)
(* module shows that the loop computes it, and why the order of the list   *)
(* survives.                                                               *)
(***************************************************************************)
EXTENDS TimerList

CONSTANTS Timers,         \* the timers that create_timer may write
          MaxTimers       \* MAX_TIMERS

ASSUME BubbleAssumption == /\ Timers \subseteq Timer
                           /\ MaxTimers \in Nat

VARIABLES timer_list,     \* timer_list[0 .. timer_count-1]
          i,              \* the loop index, from 1; 0 when no loop runs
          start           \* history: the list when the loop began

vars == <<timer_list, i, start>>

Init == timer_list = <<>> /\ i = 0 /\ start = <<>>

\* Faulty variant: the test for a free slot is forgotten.
WriteUnchecked(t) ==
  /\ i = 0
  /\ Len(timer_list) <= MaxTimers
  /\ timer_list' = Append(timer_list, t)
  /\ start' = timer_list'
  /\ i' = Len(timer_list')

\* create_timer (or the requeue in expire_timers) fills the slot behind the
\* last timer and calls bubble_last_timer.
Write(t) ==
  /\ i = 0
  /\ Len(timer_list) < MaxTimers
  /\ timer_list' = Append(timer_list, t)
  /\ start' = timer_list'
  /\ i' = Len(timer_list')

\* Faulty variants: '<' for '<=', and the operands swapped.
InPlaceStrict == i > 1 => Less(timer_list[i].target, timer_list[i - 1].target)
InPlaceReversed == i > 1 => LessEq(timer_list[i - 1].target, timer_list[i].target)

\* 't' has no predecessor, or expires earlier than (or same time as) 't-1'.
InPlace == i > 1 => LessEq(timer_list[i].target, timer_list[i - 1].target)

\* 't' expires later than 't-1': swap them and repeat.
Swap ==
  /\ i > 0
  /\ ~InPlace
  /\ timer_list' = [timer_list EXCEPT ![i] = timer_list[i - 1],
                                      ![i - 1] = timer_list[i]]
  /\ i' = i - 1
  /\ UNCHANGED start

\* The loop ends: index 0 is reached, or 't' expires earlier or at the same time.
Break == i > 0 /\ InPlace /\ i' = 0 /\ UNCHANGED <<timer_list, start>>

\* The nearest timer leaves the list (expire_timers).
Take ==
  /\ i = 0
  /\ timer_list # <<>>
  /\ timer_list' = WithoutNearest(timer_list)
  /\ start' = timer_list'
  /\ UNCHANGED i

Next == (\E t \in Timers : Write(t)) \/ Swap \/ Break \/ Take

Spec == Init /\ [][Next]_vars

\* Type invariant: the list holds timers, in the slots there are.
TypeOK ==
  /\ timer_list \in Seq(Timers)
  /\ Len(timer_list) <= MaxTimers
  /\ start \in Seq(Timers)
  /\ i \in 0 .. Len(timer_list)

\* Between two calls the list is sorted, whatever was written: each loop stops
\* at the first place where the order holds, and that is the only right one.
SortedAtRest == i = 0 => Sorted(timer_list)

\* When the loop of bubble_last_timer ends, it has made of the list it found
\* what BubbleLast says: the new timer inserted, the others in their old order.
BubbleComputed ==
  [][i > 0 /\ i' = 0 => timer_list' = BubbleLast(start)]_vars

=============================================================================
