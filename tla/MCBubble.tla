------------------------------- MODULE MCBubble -------------------------------
(* Instance of Bubble: two timers of each target, so that ties can be seen. *)
EXTENDS Bubble

MCTimers ==
  {[id |-> n, target |-> t, delay |-> 0, oneshot |-> TRUE, removed |-> FALSE] :
     n \in {1, 2}, t \in {NaN, 1, 2, 3}}
=============================================================================
