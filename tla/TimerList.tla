------------------------------ MODULE TimerList ------------------------------
(***************************************************************************)
(* The array of timers of c_eventloop.c as a value.                        *)
(*                                                                         *)
(* timer_list[0 .. timer_count-1] is a sequence of timers whose length is  *)
(* timer_count; the last element is the one that expires first.  Times are *)
(* integers (ticks of a fraction of a millisecond, see EventLoop) or NaN:  *)
(* setTimeout accepts every JavaScript number, NaN included, and the C     *)
(* code carries it into 'delay' and 'target', where every comparison with  *)
(* it is false.                                                            *)
(***************************************************************************)
EXTENDS Integers, Sequences, Functions

NaN == -1                       \* not an instant of the clock, which is >= 0
Time == Nat \cup {NaN}

\* The C operators < , <= and + on doubles.
Less(a, b) == a # NaN /\ b # NaN /\ a < b
LessEq(a, b) == a # NaN /\ b # NaN /\ a <= b
Plus(a, b) == IF a = NaN \/ b = NaN THEN NaN ELSE a + b

\* struct ev_timer, and what memset(.., 0, ..) makes of one.
Timer == [id : Nat, target : Time, delay : Time, oneshot : BOOLEAN, removed : BOOLEAN]

ZeroTimer == [id |-> 0, target |-> 0, delay |-> 0, oneshot |-> FALSE, removed |-> FALSE]

Ids(list) == {t.id : t \in Range(list)}

\* find_nearest_timer: the last timer; only asked of a non-empty list.
Nearest(list) == list[Len(list)]

WithoutNearest(list) == [i \in 1 .. Len(list) - 1 |-> list[i]]

(***************************************************************************)
(* bubble_last_timer swaps the last timer backwards until its predecessor  *)
(* expires no earlier.  A timer stays where it is exactly when some timer  *)
(* between it and the end stops the bubble; the others move up by one, and *)
(* the bubbled timer takes the first place left free.                      *)
(***************************************************************************)
Stays(list, i) ==
  \E j \in i .. Len(list) - 1 : LessEq(Nearest(list).target, list[j].target)

\* Faulty variant: the two timers are copied without the detour over 'tmp'.
BubbleWithoutTmp(list) ==
  [i \in 1 .. Len(list) |-> IF Stays(list, i) THEN list[i] ELSE Nearest(list)]

BubbleLast(list) ==
  [i \in 1 .. Len(list) |->
     IF Stays(list, i) THEN list[i]
     ELSE IF i = 1 \/ Stays(list, i - 1) THEN Nearest(list)
     ELSE list[i - 1]]

\* Faulty variant: the timer is not bubbled.
QueueUnsorted(list, t) == Append(list, t)

\* A timer written at timer_list[timer_count] and bubbled into its place.
Queue(list, t) == BubbleLast(Append(list, t))

\* delete_timer's scan for the first match, and its memmove over it.
FirstIndex(list, id) ==
  CHOOSE i \in DOMAIN list : /\ list[i].id = id
                             /\ \A j \in 1 .. i - 1 : list[j].id # id

\* Faulty variant: the memmove starts one timer too far.
DeleteNext(list, i) ==
  [k \in 1 .. Len(list) - 1 |-> IF k <= i THEN list[k] ELSE list[k + 1]]

Delete(list, i) ==
  [k \in 1 .. Len(list) - 1 |-> IF k < i THEN list[k] ELSE list[k + 1]]

(***************************************************************************)
(* "The list is sorted by 'target', with lowest 'target' (earliest expiry) *)
(* last in the list": no timer stands before one that expires later.       *)
(***************************************************************************)
Sorted(list) ==
  \A i, j \in DOMAIN list : i < j => ~Less(list[i].target, list[j].target)

DistinctIds(list) ==
  \A i, j \in DOMAIN list : list[i].id = list[j].id => i = j
=============================================================================
