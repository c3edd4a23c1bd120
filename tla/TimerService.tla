----------------------------- MODULE TimerService -----------------------------
(***************************************************************************)
(* What setTimeout, setInterval, clearTimeout and clearInterval promise,   *)
(* without the array, the table of callbacks or the stages of the loop: a  *)
(* set of pending timers, of which one that is due, and that no other      *)
(* precedes, is taken at a time and called.                                *)
(***************************************************************************)
EXTENDS TimerList

CONSTANTS Delays,         \* the delays asked for
          MinDelay,       \* the shortest delay there is
          MaxId,          \* bound: timers armed
          MaxClock        \* bound: the clock stops here

VARIABLES pending,        \* the timers waiting
          running,        \* {} or the one whose callback runs
          issued,         \* ids given out: 1 .. issued
          called,         \* ids whose callback was entered
          time

vars == <<pending, running, issued, called, time>>

Init == pending = {} /\ running = {} /\ issued = 0 /\ called = {} /\ time = 0

\* A new id; the timer is due after its delay, or after MinDelay if that is longer.
Arm(d, oneshot) ==
  LET delay == IF Less(d, MinDelay) THEN MinDelay ELSE d
  IN /\ issued < MaxId
     /\ issued' = issued + 1
     /\ pending' = pending \cup
          {[id |-> issued', target |-> Plus(time, delay), delay |-> delay,
            oneshot |-> oneshot, removed |-> FALSE]}
     /\ UNCHANGED <<running, called, time>>

\* The id names one timer, pending or running: it is not called any more.
Cancel(id) ==
  /\ \/ \E t \in pending : t.id = id
     \/ \E t \in running : t.id = id
  /\ pending' = {t \in pending : t.id # id}
  /\ running' = {[t EXCEPT !.removed = (t.removed \/ t.id = id)] : t \in running}
  /\ UNCHANGED <<issued, called, time>>

\* A timer that was due when the clock was read, at r, and that no other precedes.
Fire(t, r) ==
  /\ running = {}
  /\ t \in pending
  /\ ~Less(r, t.target)
  /\ \A u \in pending : ~Less(u.target, t.target)
  /\ pending' = pending \ {t}
  /\ running' = {IF t.oneshot THEN [t EXCEPT !.removed = TRUE]
                              ELSE [t EXCEPT !.target = Plus(r, t.delay)]}
  /\ called' = called \cup {t.id}
  /\ UNCHANGED <<issued, time>>

\* The callback is done: an interval nobody cleared waits again.
Finish ==
  /\ running # {}
  /\ pending' = pending \cup {t \in running : ~t.removed}
  /\ running' = {}
  /\ UNCHANGED <<issued, called, time>>

\* The script died under the callback, or there is no room for the interval.
Abandon == running # {} /\ running' = {} /\ UNCHANGED <<pending, issued, called, time>>

Tick == time < MaxClock /\ time' = time + 1 /\ UNCHANGED <<pending, running, issued, called>>

Next ==
  \/ \E d \in Delays, oneshot \in BOOLEAN : Arm(d, oneshot)
  \/ \E id \in 1 .. issued : Cancel(id)
  \/ \E t \in pending, r \in 0 .. time : Fire(t, r)
  \/ Finish \/ Abandon \/ Tick

Spec == Init /\ [][Next]_vars
=============================================================================
