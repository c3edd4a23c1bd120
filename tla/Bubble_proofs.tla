----------------------------- MODULE Bubble_proofs -----------------------------
(***************************************************************************)
(* bubble_last_timer computes BubbleLast, for every list and every timer.  *)
(***************************************************************************)
EXTENDS Bubble, TimerList_proofs

\* While the loop runs with index i, the bubbled timer stands at i, those it has
\* passed one place higher than before, and none of them stops the bubble.
LoopInv ==
  LET n == Len(start)
  IN /\ Len(timer_list) = n
     /\ i \in 1 .. n
     /\ \A k \in 1 .. i - 1 : timer_list[k] = start[k]
     /\ timer_list[i] = start[n]
     /\ \A k \in i + 1 .. n : timer_list[k] = start[k - 1]
     /\ \A k \in i .. n - 1 : ~LessEq(start[n].target, start[k].target)
     /\ \A j, k \in 1 .. n - 1 : j < k => ~Less(start[j].target, start[k].target)

Inv == /\ TypeOK
       /\ i = 0 => Sorted(timer_list)
       /\ i > 0 => LoopInv

LEMMA ListTypes ==
  ASSUME TypeOK
  PROVE  /\ timer_list \in Seq(Timer) /\ start \in Seq(Timer)
         /\ Len(timer_list) \in Nat /\ Len(start) \in Nat
         /\ DOMAIN timer_list = 1 .. Len(timer_list)
         /\ DOMAIN start = 1 .. Len(start)
  BY BubbleAssumption, SeqMonotonic, LenProperties DEF TypeOK

\* What Break finds is the result of the loop.
LEMMA LoopResult ==
  ASSUME TypeOK, i > 0, LoopInv, InPlace
  PROVE  timer_list = BubbleLast(start)
<1> DEFINE n == Len(start)
<1>1. /\ n \in Nat /\ start \in Seq(Timer) /\ timer_list \in Seq(Timer)
      /\ Len(timer_list) = n /\ i \in 1 .. n
  BY ListTypes DEF LoopInv
<1>2. BubbleLast(start) \in Seq(Timer) /\ Len(BubbleLast(start)) = n
  BY <1>1, BubbleType
<1>3. \A k \in 1 .. i - 1 : Stays(start, k)
  <2>1. CASE i = 1
    BY <2>1
  <2>2. CASE i > 1
    <3>1. LessEq(start[n].target, start[i - 1].target)
      BY <1>1, <2>2 DEF InPlace, LoopInv
    <3> QED
      BY <1>1, <3>1 DEF Stays, Nearest
  <2> QED
    BY <1>1, <2>1, <2>2
<1>4. \A k \in i .. n : ~Stays(start, k)
  BY <1>1 DEF Stays, Nearest, LoopInv
<1>5. ASSUME NEW k \in 1 .. n PROVE timer_list[k] = BubbleLast(start)[k]
  <2>1. CASE k < i
    BY <1>1, <1>3, <2>1 DEF BubbleLast, LoopInv
  <2>2. CASE k = i
    BY <1>1, <1>3, <1>4, <2>2 DEF BubbleLast, Nearest, LoopInv
  <2>3. CASE k > i
    BY <1>1, <1>4, <2>3 DEF BubbleLast, LoopInv
  <2> QED
    BY <1>1, <2>1, <2>2, <2>3
<1> QED
  BY <1>1, <1>2, <1>5, SeqEqual

LEMMA WriteStep == ASSUME Inv, NEW t \in Timers, Write(t) PROVE Inv'
<1> USE DEF Write
<1>1. /\ Len(timer_list) \in Nat /\ timer_list \in Seq(Timer)
      /\ DOMAIN timer_list = 1 .. Len(timer_list)
  BY ListTypes DEF Inv
<1>2. /\ timer_list' \in Seq(Timers) /\ Len(timer_list') = Len(timer_list) + 1
      /\ \A k \in 1 .. Len(timer_list) : timer_list'[k] = timer_list[k]
  BY AppendProperties DEF Inv, TypeOK
<1>3. TypeOK'
  BY <1>1, <1>2, BubbleAssumption DEF Inv, TypeOK
<1>4. LoopInv'
  BY <1>1, <1>2 DEF Inv, LoopInv, Sorted
<1> QED
  BY <1>1, <1>2, <1>3, <1>4 DEF Inv

LEMMA SwapStep == ASSUME Inv, Swap PROVE Inv'
<1> DEFINE n == Len(start)
<1> USE DEF Swap
<1>1. /\ n \in Nat /\ i \in 1 .. n /\ Len(timer_list) = n /\ timer_list \in Seq(Timers)
  BY ListTypes DEF Inv, LoopInv, TypeOK
<1>2. i > 1 /\ ~LessEq(timer_list[i].target, timer_list[i - 1].target)
  BY DEF InPlace
<1>3. timer_list[i] \in Timers /\ timer_list[i - 1] \in Timers
  BY <1>1, <1>2, ElementOfSeq
<1>4. /\ timer_list' \in Seq(Timers) /\ Len(timer_list') = n
      /\ timer_list'[i] = timer_list[i - 1]
      /\ timer_list'[i - 1] = timer_list[i]
      /\ \A k \in 1 .. n \ {i, i - 1} : timer_list'[k] = timer_list[k]
  <2> DEFINE l1 == [timer_list EXCEPT ![i] = timer_list[i - 1]]
  <2>1. /\ l1 \in Seq(Timers) /\ Len(l1) = n
        /\ \A k \in 1 .. n : l1[k] = IF k = i THEN timer_list[i - 1] ELSE timer_list[k]
    BY <1>1, <1>2, <1>3, ExceptSeq
  <2>2. timer_list' = [l1 EXCEPT ![i - 1] = timer_list[i]]
    OBVIOUS
  <2> HIDE DEF l1
  <2>3. /\ timer_list' \in Seq(Timers) /\ Len(timer_list') = n
        /\ \A k \in 1 .. n : timer_list'[k] = IF k = i - 1 THEN timer_list[i] ELSE l1[k]
    BY <1>1, <1>2, <1>3, <2>1, <2>2, ExceptSeq
  <2> QED
    BY <1>1, <1>2, <2>1, <2>3
<1>5. TypeOK'
  BY <1>1, <1>2, <1>4 DEF Inv, TypeOK
<1>6. LoopInv'
  <2>1. LoopInv
    BY <1>1 DEF Inv
  <2>2. n' = n /\ Len(timer_list') = n /\ i' = i - 1 /\ i' \in 1 .. n /\ start' = start
    BY <1>1, <1>2, <1>4
  <2>3. \A k \in 1 .. i' - 1 : timer_list'[k] = start[k]
    BY <1>1, <1>2, <1>4, <2>1, <2>2 DEF LoopInv
  <2>4. timer_list'[i'] = start[n]
    BY <1>1, <1>2, <1>4, <2>1, <2>2 DEF LoopInv
  <2>5. \A k \in i' + 1 .. n : timer_list'[k] = start[k - 1]
    BY <1>1, <1>2, <1>4, <2>1, <2>2 DEF LoopInv
  <2>6. \A k \in i' .. n - 1 : ~LessEq(start[n].target, start[k].target)
    BY <1>1, <1>2, <2>1, <2>2 DEF LoopInv
  <2> QED
    BY <2>1, <2>2, <2>3, <2>4, <2>5, <2>6 DEF LoopInv
<1> QED
  BY <1>1, <1>2, <1>5, <1>6 DEF Inv

LEMMA BreakStep == ASSUME Inv, Break PROVE Inv'
<1> USE DEF Break
<1>1. timer_list = BubbleLast(start)
  BY LoopResult DEF Inv
<1>2. start \in Seq(Timer) /\ Len(start) \in Nat /\ Len(timer_list) \in Nat
  BY ListTypes DEF Inv
<1>3. Sorted(timer_list)
  <2>1. Len(start) > 0
    BY <1>2 DEF Inv, LoopInv
  <2>2. \A j, k \in 1 .. Len(start) - 1 : j < k => ~Less(start[j].target, start[k].target)
    BY DEF Inv, LoopInv
  <2> QED
    BY <1>1, <1>2, <2>1, <2>2, BubbleSorts
<1> QED
  BY <1>2, <1>3 DEF Inv, TypeOK

LEMMA TakeStep == ASSUME Inv, Take PROVE Inv'
<1> USE DEF Take
<1>1. /\ timer_list \in Seq(Timer) /\ Len(timer_list) \in Nat
      /\ timer_list \in [1 .. Len(timer_list) -> Timers]
  BY ListTypes, LenProperties DEF Inv, TypeOK
<1>2. /\ Len(timer_list') = Len(timer_list) - 1
      /\ Sorted(timer_list')
      /\ Len(timer_list) > 0
  <2>1. /\ Len(timer_list) \in 1 .. Len(timer_list)
        /\ timer_list' = Delete(timer_list, Len(timer_list))
    BY <1>1, WithoutNearestIsDelete
  <2>2. Sorted(timer_list)
    BY DEF Inv
  <2> DEFINE d == Delete(timer_list, Len(timer_list))
  <2>3. Len(d) = Len(timer_list) - 1 /\ (Sorted(timer_list) => Sorted(d))
    BY ONLY <1>1, <2>1, DeleteProperties
  <2> HIDE DEF d
  <2> QED
    BY <1>1, <2>1, <2>2, <2>3 DEF d
<1>3. timer_list' \in Seq(Timers)
  <2>1. timer_list' \in [1 .. Len(timer_list) - 1 -> Timers] /\ Len(timer_list) - 1 \in Nat
    BY <1>1, <1>2 DEF WithoutNearest
  <2> QED
    BY <2>1, FunctionIsSeq
<1> QED
  BY <1>1, <1>2, <1>3, BubbleAssumption DEF Inv, TypeOK

\* The invariant holds throughout.
LEMMA InvHolds == Spec => []Inv
<1>1. Init => Inv
  BY BubbleAssumption, EmptySeq DEF Init, Inv, TypeOK, Sorted
<1>2. Inv /\ [Next]_vars => Inv'
  <2> SUFFICES ASSUME Inv, [Next]_vars PROVE Inv'
    OBVIOUS
  <2>1. CASE UNCHANGED vars
    BY <2>1 DEF vars, Inv, TypeOK, LoopInv
  <2> QED
    BY <2>1, WriteStep, SwapStep, BreakStep, TakeStep DEF Next
<1> QED
  BY <1>1, <1>2, PTL DEF Spec

\* The types of the variables: the loop stays inside the list, and the list inside its
\* slots (c_eventloop.c:65-86).
THEOREM BubbleTypeCorrect == Spec => []TypeOK
<1>1. Inv => TypeOK
  BY DEF Inv
<1> QED
  BY <1>1, InvHolds, PTL

\* The list of bubble_last_timer is sorted between two calls, whatever timers are
\* written and taken.
THEOREM BubbleSortedAtRest == Spec => []SortedAtRest
<1>1. Inv => SortedAtRest
  BY DEF Inv, SortedAtRest
<1> QED
  BY <1>1, InvHolds, PTL

\* The loop of bubble_last_timer makes of every list what BubbleLast says.
THEOREM BubbleIsBubbleLast == Spec => BubbleComputed
<1>1. Inv /\ [Next]_vars => [i > 0 /\ i' = 0 => timer_list' = BubbleLast(start)]_vars
  <2> SUFFICES ASSUME Inv, Next, i > 0, i' = 0 PROVE timer_list' = BubbleLast(start)
    BY DEF vars
  <2>1. CASE Break
    BY <2>1, LoopResult DEF Inv, Break
  <2>2. CASE Swap
    BY <2>2 DEF Swap, InPlace, Inv, TypeOK
  <2> QED
    BY <2>1, <2>2 DEF Next, Write, Take
<1> QED
  BY <1>1, InvHolds, PTL DEF Spec, BubbleComputed
=============================================================================
