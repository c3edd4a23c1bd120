--------------------------- MODULE EventLoop_proofs ---------------------------
(***************************************************************************)
(* Proofs about EventLoop, for every number of slots, every set of delays  *)
(* and every set of faults.                                                *)
(***************************************************************************)
EXTENDS EventLoop, TimerList_proofs

(***************************************************************************)
(* The inductive invariant.  ListSorted and OneTimerPerId are not          *)
(* inductive: a callback may delete the timer that is being expired, or    *)
(* leave a stale one behind when a death cuts the loop short, and a        *)
(* requeue must not bring back what was cleared.  So the invariant says    *)
(* what a timer in the list and the one in timer_expiring may be.          *)
(***************************************************************************)
ListInv ==
  /\ Sorted(timer_list)
  /\ DistinctIds(timer_list)
  /\ \A t \in Range(timer_list) :
       /\ t.id \in 1 .. timer_next_id - 1
       /\ ~t.removed
       /\ t.id \notin cleared
       /\ t.oneshot => t.id \notin called

ExpiringInv ==
  /\ timer_expiring.id \in 0 .. timer_next_id - 1
  /\ pc # "expire" => timer_expiring.id \notin Ids(timer_list)
  /\ pc \in {"callback", "settle"} =>
       /\ timer_expiring.id # 0
       /\ timer_expiring.oneshot => timer_expiring.removed
       /\ timer_expiring.removed \/ timer_expiring.id \notin cleared

IInv == TypeOK /\ ListInv /\ ExpiringInv

-----------------------------------------------------------------------------
(* The list in the states of the loop.                                     *)

LEMMA ListFacts ==
  ASSUME TypeOK
  PROVE  /\ timer_list \in Seq(Timer) /\ Len(timer_list) \in Nat
         /\ DOMAIN timer_list = 1 .. Len(timer_list)
         /\ \A t \in Range(timer_list) : t \in Timer /\ t.id \in Ids(timer_list)
         /\ \A id \in Ids(timer_list) : \E t \in Range(timer_list) : t.id = id
  BY LenProperties DEF TypeOK, Range, Ids

\* The sums and comparisons of C doubles stay in Time.
LEMMA PlusType ==
  ASSUME NEW a \in Time, NEW b \in Time
  PROVE  Plus(a, b) \in Time
  BY DEF Plus, Time, NaN

\* Taking the nearest timer out of the list.
LEMMA TakeNearest ==
  ASSUME TypeOK, ListInv, timer_list # <<>>
  PROVE  /\ WithoutNearest(timer_list) \in Seq(Timer)
         /\ Len(WithoutNearest(timer_list)) = Len(timer_list) - 1
         /\ Sorted(WithoutNearest(timer_list))
         /\ DistinctIds(WithoutNearest(timer_list))
         /\ Nearest(timer_list) \in Timer
         /\ Nearest(timer_list) \in Range(timer_list)
         /\ Range(WithoutNearest(timer_list)) = Range(timer_list) \ {Nearest(timer_list)}
         /\ Ids(WithoutNearest(timer_list)) = Ids(timer_list) \ {Nearest(timer_list).id}
<1> DEFINE n == Len(timer_list)
<1>1. timer_list \in Seq(Timer) /\ Sorted(timer_list) /\ DistinctIds(timer_list)
  BY ListFacts DEF ListInv
<1>2. /\ n \in 1 .. n /\ WithoutNearest(timer_list) = Delete(timer_list, n)
      /\ Nearest(timer_list) \in Timer
  BY ONLY <1>1, timer_list # <<>>, WithoutNearestIsDelete
<1>3. Nearest(timer_list) = timer_list[n]
  BY DEF Nearest
<1>4. timer_list[n] \in Range(timer_list)
  BY <1>1, <1>2, LenProperties DEF Range
<1>5. /\ Delete(timer_list, n) \in Seq(Timer)
      /\ Len(Delete(timer_list, n)) = n - 1
      /\ Sorted(Delete(timer_list, n))
      /\ DistinctIds(Delete(timer_list, n))
      /\ Range(Delete(timer_list, n)) = Range(timer_list) \ {timer_list[n]}
      /\ Ids(Delete(timer_list, n)) = Ids(timer_list) \ {timer_list[n].id}
  BY ONLY <1>1, <1>2, DeleteProperties
<1> QED
  BY <1>2, <1>3, <1>4, <1>5

-----------------------------------------------------------------------------
(* One lemma per group of actions.                                         *)

LEMMA InitInv == Init => IInv
<1> SUFFICES ASSUME Init PROVE IInv
  OBVIOUS
<1> USE DEF Init
<1>1. /\ timer_list \in Seq(Timer) /\ Len(timer_list) = 0
      /\ DOMAIN timer_list = {} /\ Range(timer_list) = {}
  BY EmptySeq DEF Range
<1>2. ZeroTimer \in Timer
  BY DEF Timer, ZeroTimer, Time
<1>3. TypeOK
  <2>1. timer_list \in Seq(Timer) /\ Len(timer_list) <= MaxTimers
    BY <1>1, EventLoopAssumption
  <2>2. timer_expiring \in Timer
    BY <1>2
  <2>3. timer_next_id \in 1 .. MaxId + 1 /\ clock \in 0 .. MaxClock /\ now \in 0 .. clock
    BY EventLoopAssumption
  <2>4. sanity \in 0 .. MaxExpiries
    BY EventLoopAssumption
  <2>5. wake \in Nat \cup {Forever}
    OBVIOUS
  <2>6. /\ eventTimers = {} /\ called = {} /\ cleared = {} /\ aborted = FALSE
        /\ pc = "idle" /\ frame = "timers"
    OBVIOUS
  <2> QED
    BY <2>1, <2>2, <2>3, <2>4, <2>5, <2>6 DEF TypeOK
<1> QED
  BY <1>1, <1>3 DEF IInv, ListInv, ExpiringInv, Sorted, DistinctIds, Ids, ZeroTimer

LEMMA CreateTimerFacts ==
  ASSUME IInv, NEW d \in Delays, NEW oneshot \in BOOLEAN, NEW stored \in BOOLEAN,
         CreateTimer(d, oneshot, stored)
  PROVE  LET delay == IF Less(d, MinDelay) THEN MinDelay ELSE d
             t == [id |-> timer_next_id, target |-> Plus(clock, delay), delay |-> delay,
                   oneshot |-> oneshot, removed |-> FALSE]
         IN /\ t \in Timer
            /\ timer_list' \in Seq(Timer) /\ Len(timer_list') = Len(timer_list) + 1
            /\ Range(timer_list') = Range(timer_list) \cup {t}
            /\ Sorted(timer_list') /\ DistinctIds(timer_list')
            /\ Ids(timer_list') = Ids(timer_list) \cup {timer_next_id}
<1> DEFINE delay == IF Less(d, MinDelay) THEN MinDelay ELSE d
           t == [id |-> timer_next_id, target |-> Plus(clock, delay), delay |-> delay,
                 oneshot |-> oneshot, removed |-> FALSE]
<1>1. timer_list' = Queue(timer_list, t)
  BY DEF CreateTimer, NewId
<1>2. t \in Timer /\ t.id = timer_next_id
  <2>1. clock \in Time /\ delay \in Time /\ timer_next_id \in Nat
    BY EventLoopAssumption DEF IInv, TypeOK, Time
  <2>2. Plus(clock, delay) \in Time
    BY <2>1, PlusType
  <2> HIDE DEF delay
  <2> QED
    BY <2>1, <2>2 DEF Timer
<1> HIDE DEF t
<1>3. timer_list \in Seq(Timer)
  BY ListFacts DEF IInv
<1>4. /\ timer_list' \in Seq(Timer) /\ Len(timer_list') = Len(timer_list) + 1
      /\ Range(timer_list') = Range(timer_list) \cup {t}
  BY <1>1, <1>2, <1>3, QueueType
<1>5. t.id \notin Ids(timer_list)
  BY <1>2 DEF IInv, ListInv, TypeOK, Ids
<1>6. /\ Sorted(timer_list') /\ DistinctIds(timer_list')
      /\ Ids(timer_list') = Ids(timer_list) \cup {t.id}
  BY <1>1, <1>2, <1>3, <1>5, QueueKeeps DEF IInv, ListInv
<1> QED
  BY <1>2, <1>4, <1>6 DEF t

LEMMA CreateTimerInv ==
  ASSUME IInv, NEW d \in Delays, NEW oneshot \in BOOLEAN, NEW stored \in BOOLEAN,
         CreateTimer(d, oneshot, stored)
  PROVE  IInv'
<1>1. /\ timer_next_id' = timer_next_id + 1 /\ timer_next_id <= MaxId
      /\ eventTimers' \subseteq eventTimers \cup {timer_next_id}
      /\ Len(timer_list) < MaxTimers /\ pc \in {"main", "callback"}
      /\ UNCHANGED <<timer_expiring, clock, pc, locals, history>>
  BY DEF CreateTimer, FreeSlot, NewId
<1>2. Len(timer_list) \in Nat
  BY ListFacts DEF IInv
<1>3. PICK t \in Timer :
        /\ t.id = timer_next_id /\ ~t.removed
        /\ Range(timer_list') = Range(timer_list) \cup {t}
  BY CreateTimerFacts
<1>4. /\ timer_list' \in Seq(Timer) /\ Len(timer_list') = Len(timer_list) + 1
      /\ Sorted(timer_list') /\ DistinctIds(timer_list')
      /\ Ids(timer_list') = Ids(timer_list) \cup {timer_next_id}
  BY CreateTimerFacts
<1>5. t.id \notin called /\ t.id \notin cleared
  BY <1>3 DEF IInv, TypeOK
<1>6. TypeOK'
  <2>1. TypeOK /\ timer_next_id' \in 1 .. MaxId + 1 /\ Len(timer_list') <= MaxTimers
    BY <1>1, <1>2, <1>4, EventLoopAssumption DEF IInv, TypeOK
  <2>2. 1 .. timer_next_id - 1 \subseteq 1 .. timer_next_id' - 1
    BY <1>1, <2>1 DEF TypeOK
  <2>3. 0 .. timer_next_id - 1 \subseteq 0 .. timer_next_id' - 1
    BY <1>1, <2>1 DEF TypeOK
  <2>4. eventTimers' \subseteq 1 .. timer_next_id' - 1
    BY <1>1, <2>1 DEF TypeOK
  <2> QED
    BY <1>1, <1>4, <2>1, <2>2, <2>3, <2>4 DEF TypeOK, locals, history
<1>7. ListInv'
  BY <1>1, <1>3, <1>4, <1>5 DEF IInv, ListInv, TypeOK, locals, history
<1>8. ExpiringInv'
  BY <1>1, <1>4 DEF IInv, ExpiringInv, TypeOK, locals, history
<1> QED
  BY <1>6, <1>7, <1>8 DEF IInv

LEMMA MarkExpiringInv ==
  ASSUME IInv, NEW id \in 0 .. timer_next_id - 1, MarkExpiring(id)
  PROVE  IInv'
<1> USE DEF MarkExpiring
<1>1. /\ timer_expiring' \in Timer
      /\ timer_expiring'.id = timer_expiring.id
      /\ timer_expiring'.oneshot = timer_expiring.oneshot
      /\ timer_expiring'.removed
  BY DEF IInv, TypeOK, Timer
<1>2. TypeOK'
  BY <1>1 DEF IInv, TypeOK, locals
<1>3. id \notin Ids(timer_list)
  BY DEF IInv, ExpiringInv
<1>4. ListInv'
  BY <1>3 DEF IInv, ListInv, Ids
<1>5. ExpiringInv'
  BY <1>1 DEF IInv, ExpiringInv
<1> QED
  BY <1>2, <1>4, <1>5 DEF IInv

LEMMA DeleteTimerFacts ==
  ASSUME IInv, NEW id, DeleteTimer(id)
  PROVE  /\ timer_list' \in Seq(Timer)
         /\ Len(timer_list') = Len(timer_list) - 1
         /\ Sorted(timer_list')
         /\ DistinctIds(timer_list')
         /\ Range(timer_list') = {t \in Range(timer_list) : t.id # id}
         /\ Ids(timer_list') = Ids(timer_list) \ {id}
<1> DEFINE k == FirstIndex(timer_list, id)
<1>1. /\ timer_list \in Seq(Timer)
      /\ Sorted(timer_list) /\ DistinctIds(timer_list)
  BY ListFacts DEF IInv, ListInv
<1>2. id \in Ids(timer_list) /\ timer_list' = Delete(timer_list, k)
  BY DEF DeleteTimer
<1>3. k \in 1 .. Len(timer_list) /\ timer_list[k].id = id
  BY <1>1, <1>2, FirstIndexFinds
<1> HIDE DEF k
<1>4. /\ Delete(timer_list, k) \in Seq(Timer)
      /\ Len(Delete(timer_list, k)) = Len(timer_list) - 1
      /\ Sorted(Delete(timer_list, k))
      /\ DistinctIds(Delete(timer_list, k))
      /\ Range(Delete(timer_list, k)) = {t \in Range(timer_list) : t.id # timer_list[k].id}
      /\ Ids(Delete(timer_list, k)) = Ids(timer_list) \ {timer_list[k].id}
  BY ONLY <1>1, <1>3, DeleteProperties
<1> QED
  BY <1>2, <1>3, <1>4

LEMMA DeleteTimerInv ==
  ASSUME IInv, NEW id \in 0 .. timer_next_id - 1, DeleteTimer(id)
  PROVE  IInv'
<1>1. /\ timer_list' \in Seq(Timer)
      /\ Len(timer_list') = Len(timer_list) - 1
      /\ Sorted(timer_list') /\ DistinctIds(timer_list')
      /\ Range(timer_list') = {t \in Range(timer_list) : t.id # id}
      /\ Ids(timer_list') = Ids(timer_list) \ {id}
  BY DeleteTimerFacts
<1>2. Len(timer_list) \in Nat
  BY ListFacts DEF IInv
<1> USE DEF DeleteTimer
<1>3. TypeOK'
  BY <1>1, <1>2, EventLoopAssumption DEF IInv, TypeOK, locals
<1>4. ListInv'
  BY <1>1 DEF IInv, ListInv
<1>5. ExpiringInv'
  BY <1>1 DEF IInv, ExpiringInv
<1> QED
  BY <1>3, <1>4, <1>5 DEF IInv

\* What expire_timers makes of the nearest timer.
LEMMA ExpiredFacts ==
  ASSUME NEW t \in Timer, now \in Nat
  PROVE  /\ Expired(t) \in Timer
         /\ Expired(t).id = t.id /\ Expired(t).oneshot = t.oneshot
         /\ t.oneshot => Expired(t).removed
<1>1. Plus(now, t.delay) \in Time
  BY PlusType DEF Timer, Time
<1> QED
  BY <1>1 DEF Expired, Timer

LEMMA MoveToExpiringInv ==
  ASSUME IInv, CallCallback \/ CallUndefined
  PROVE  IInv'
<1> DEFINE t == Nearest(timer_list)
<1>1. /\ pc = "expire" /\ sanity > 0 /\ timer_list # <<>>
      /\ timer_expiring' = Expired(t)
      /\ timer_list' = WithoutNearest(timer_list)
      /\ sanity' = sanity - 1
      /\ pc' \in {"callback", "settle"} /\ frame' \in {"timers", "error", "value"}
      /\ called' \subseteq called \cup {timer_expiring'.id} /\ called \subseteq called'
      /\ UNCHANGED <<timer_next_id, eventTimers, clock, now, wake, cleared, aborted>>
  BY DEF CallCallback, CallUndefined, MoveToExpiring, RoundGoesOn, IInv, TypeOK
<1>2. /\ t \in Timer /\ t \in Range(timer_list)
      /\ timer_list' \in Seq(Timer) /\ Len(timer_list') = Len(timer_list) - 1
      /\ Sorted(timer_list') /\ DistinctIds(timer_list')
      /\ Range(timer_list') = Range(timer_list) \ {t}
      /\ Ids(timer_list') = Ids(timer_list) \ {t.id}
  BY <1>1, TakeNearest DEF IInv
<1> HIDE DEF t
<1>3. /\ timer_expiring' \in Timer
      /\ timer_expiring'.id = t.id /\ timer_expiring'.oneshot = t.oneshot
      /\ t.oneshot => timer_expiring'.removed
  BY <1>1, <1>2, ExpiredFacts DEF IInv, TypeOK
<1>4. t.id \in 1 .. timer_next_id - 1 /\ t.id \notin cleared
  BY <1>2 DEF IInv, ListInv
<1>5. \A u \in Range(timer_list') : u \in Range(timer_list) /\ u.id # t.id
  BY <1>2 DEF Ids
<1>6. Len(timer_list) \in Nat
  BY ListFacts DEF IInv
<1>7. TypeOK'
  BY <1>1, <1>2, <1>3, <1>4, <1>6, EventLoopAssumption DEF IInv, TypeOK
<1>8. ListInv'
  BY <1>1, <1>2, <1>3, <1>5 DEF IInv, ListInv
<1>9. ExpiringInv'
  BY <1>1, <1>2, <1>3, <1>4 DEF IInv, ExpiringInv, TypeOK
<1> QED
  BY <1>7, <1>8, <1>9 DEF IInv

LEMMA RequeueTimerFacts ==
  ASSUME IInv, RequeueTimer
  PROVE  /\ timer_list' \in Seq(Timer) /\ Len(timer_list') = Len(timer_list) + 1
         /\ Range(timer_list') = Range(timer_list) \cup {timer_expiring}
         /\ Sorted(timer_list') /\ DistinctIds(timer_list')
         /\ Ids(timer_list') = Ids(timer_list) \cup {timer_expiring.id}
<1>1. timer_list \in Seq(Timer) /\ timer_expiring \in Timer
  BY ListFacts DEF IInv, TypeOK
<1>2. timer_expiring.id \notin Ids(timer_list)
  BY DEF RequeueTimer, IInv, ExpiringInv
<1>3. timer_list' = Queue(timer_list, timer_expiring)
  BY DEF RequeueTimer
<1> QED
  BY <1>1, <1>2, <1>3, QueueType, QueueKeeps DEF IInv, ListInv

LEMMA RequeueTimerInv == ASSUME IInv, RequeueTimer PROVE IInv'
<1> USE DEF RequeueTimer, Removed, FreeSlot
<1>1. /\ timer_list' \in Seq(Timer) /\ Len(timer_list') = Len(timer_list) + 1
      /\ Range(timer_list') = Range(timer_list) \cup {timer_expiring}
      /\ Sorted(timer_list') /\ DistinctIds(timer_list')
      /\ Ids(timer_list') = Ids(timer_list) \cup {timer_expiring.id}
  BY RequeueTimerFacts
<1>2. /\ ~timer_expiring.oneshot /\ timer_expiring.id \notin cleared
      /\ timer_expiring.id \in 1 .. timer_next_id - 1
  BY DEF IInv, ExpiringInv, TypeOK
<1>3. TypeOK'
  <2>1. Len(timer_list') <= MaxTimers
    BY <1>1, ListFacts, EventLoopAssumption DEF IInv
  <2> QED
    BY <1>1, <2>1 DEF IInv, TypeOK, locals, history
<1>4. ListInv'
  BY <1>1, <1>2 DEF IInv, ListInv, history
<1>5. ExpiringInv'
  BY DEF IInv, ExpiringInv
<1> QED
  BY <1>3, <1>4, <1>5 DEF IInv

\* The timeout is a number, whatever the nearest target is.
LEMMA WakeType ==
  ASSUME TypeOK, NEW target \in Time, NEW timeout \in PollTimeouts(target)
  PROVE  (IF timeout < 0 THEN Forever ELSE clock + timeout) \in Nat \cup {Forever}
<1>1. ASSUME NEW x \in Int PROVE (x \div Ms) * Ms \in Int
  <2>1. x \div Ms \in Int
    BY EventLoopAssumption
  <2> QED
    BY <2>1, EventLoopAssumption
<1>2. timeout \in Int
  <2>1. CASE target = NaN
    BY <2>1 DEF PollTimeouts, Forever
  <2>2. CASE target # NaN
    <3> DEFINE diff == target - clock
               clamped == IF diff < MinWait THEN MinWait
                          ELSE IF diff > MaxWait THEN MaxWait ELSE diff
    <3>1. clamped \in Int
      BY <2>2, EventLoopAssumption DEF TypeOK, Time
    <3>2. timeout = (clamped \div Ms) * Ms
      BY <2>2 DEF PollTimeouts
    <3> HIDE DEF clamped
    <3> QED
      BY <1>1, <3>1, <3>2
  <2> QED
    BY <2>1, <2>2
<1> QED
  BY <1>2 DEF TypeOK

LEMMA EndRoundInv == ASSUME IInv, LoopEnds \/ Sleep PROVE IInv'
<1>1. /\ pc = "expire" /\ timer_expiring' = ZeroTimer /\ pc' \in {"idle", "poll"}
      /\ now' \in {0, clock} /\ sanity' = 0 /\ frame' = "timers"
      /\ UNCHANGED <<timer_list, timer_next_id, eventTimers, clock, history>>
  BY DEF LoopEnds, Sleep, EndRound, LeaveLoop
<1>2. wake' \in Nat \cup {Forever}
  <2>1. CASE LoopEnds
    BY <2>1 DEF LoopEnds, LeaveLoop
  <2>2. CASE Sleep
    <3>1. Nearest(timer_list).target \in Time
      BY <2>2, TakeNearest DEF Sleep, IInv, Timer
    <3> QED
      BY <2>2, <3>1, WakeType DEF Sleep, IInv
  <2> QED
    BY <2>1, <2>2
<1>3. ZeroTimer \in Timer /\ ZeroTimer.id = 0
  BY DEF ZeroTimer, Timer, Time
<1>4. TypeOK'
  BY <1>1, <1>2, <1>3, EventLoopAssumption DEF IInv, TypeOK, history
<1>5. ListInv'
  BY <1>1 DEF IInv, ListInv, history
<1>6. 0 \notin Ids(timer_list)
  BY DEF IInv, ListInv, Ids
<1>7. ExpiringInv'
  BY <1>1, <1>3, <1>6 DEF IInv, ExpiringInv, TypeOK
<1> QED
  BY <1>4, <1>5, <1>7 DEF IInv

\* Steps that change neither the list nor timer_expiring, and give no callback
\* the floor.
OtherStep ==
  \/ EvalStart \/ EvalRunsLoop \/ EvalDies
  \/ CallbackReturns \/ CallbackThrows \/ CallbackDies
  \/ DropTimer \/ DropThrows \/ RequeueThrows \/ Wake \/ Interrupted \/ Tick

LEMMA OtherStepFacts ==
  ASSUME TypeOK, OtherStep
  PROVE  /\ UNCHANGED <<timer_list, timer_expiring, timer_next_id, called, cleared>>
         /\ pc' \in {"idle", "main", "expire", "settle", "poll"} \/ pc' = pc
         /\ pc' = "settle" => pc \in {"callback", "settle"}
         /\ pc = "expire" => pc' = "expire"
  BY DEF TypeOK, OtherStep, EvalStart, EvalRunsLoop, EvalDies, CallbackReturns,
         CallbackThrows, CallbackDies, DropTimer, DropThrows, RequeueThrows, Wake,
         Interrupted, Tick, Abort, LeaveLoop, StartRound, locals, history

LEMMA OtherStepType == ASSUME TypeOK, OtherStep PROVE TypeOK'
<1> USE DEF OtherStep, EvalStart, EvalRunsLoop, EvalDies, CallbackReturns, CallbackThrows,
            CallbackDies, DropTimer, DropThrows, RequeueThrows, Wake, Interrupted, Tick,
            Abort, LeaveLoop, StartRound, locals, history
<1>1. UNCHANGED <<timer_list, timer_expiring, timer_next_id, called, cleared>>
  BY OtherStepFacts
<1>2. eventTimers' \subseteq eventTimers
  BY DEF TableAfterDrop
<1>3. clock' = clock \/ (clock < MaxClock /\ clock' = clock + 1)
  OBVIOUS
<1>4. /\ now' \in {now, 0, clock} /\ sanity' \in {sanity, 0, MaxExpiries}
      /\ wake' \in {wake, 0}
  OBVIOUS
<1>5. frame' \in {frame, "timers", "error", "value"} /\ aborted' \in {aborted, TRUE}
  OBVIOUS
<1>6. pc' \in {"idle", "main", "expire", "callback", "settle", "poll"}
  BY DEF TypeOK
<1>7. timer_list' \in Seq(Timer) /\ Len(timer_list') <= MaxTimers /\ timer_expiring' \in Timer
  BY ONLY TypeOK, <1>1 DEF TypeOK
<1>8. /\ timer_next_id' \in 1 .. MaxId + 1 /\ eventTimers' \subseteq 1 .. timer_next_id' - 1
      /\ called' \subseteq 1 .. timer_next_id' - 1 /\ cleared' \subseteq 0 .. timer_next_id' - 1
  BY ONLY TypeOK, <1>1, <1>2 DEF TypeOK
<1>9. /\ clock' \in 0 .. MaxClock /\ now' \in 0 .. clock' /\ sanity' \in 0 .. MaxExpiries
      /\ wake' \in Nat \cup {Forever}
  BY ONLY TypeOK, <1>3, <1>4, EventLoopAssumption DEF TypeOK
<1>10. frame' \in {"timers", "error", "value"} /\ aborted' \in BOOLEAN
  BY ONLY TypeOK, <1>5 DEF TypeOK
<1> QED
  BY ONLY <1>6, <1>7, <1>8, <1>9, <1>10 DEF TypeOK

LEMMA OtherStepInv == ASSUME IInv, OtherStep PROVE IInv'
<1>1. TypeOK'
  BY OtherStepType DEF IInv
<1>2. /\ UNCHANGED <<timer_list, timer_expiring, timer_next_id, called, cleared>>
      /\ pc' \in {"callback", "settle"} => pc \in {"callback", "settle"}
      /\ pc' # "expire" => pc # "expire"
  BY OtherStepFacts DEF IInv
<1>3. ListInv'
  BY <1>2 DEF IInv, ListInv
<1>4. ExpiringInv'
  BY <1>2 DEF IInv, ExpiringInv
<1> QED
  BY <1>1, <1>3, <1>4 DEF IInv

\* Every step is one of those above.
LEMMA StepCases ==
  ASSUME Next
  PROVE  \/ \E d \in Delays, oneshot \in BOOLEAN, stored \in BOOLEAN :
              /\ CreateTimer(d, oneshot, stored)
              /\ stored \/ "nomem" \in Faults
         \/ \E id \in 0 .. timer_next_id - 1 : MarkExpiring(id)
         \/ \E id \in 0 .. timer_next_id - 1 : DeleteTimer(id)
         \/ CallCallback
         \/ CallUndefined
         \/ RequeueTimer
         \/ LoopEnds \/ Sleep
         \/ OtherStep
  BY DEF Next, Script, Progress, Failure, OtherStep

LEMMA Invariance == Spec => []IInv
<1>1. IInv /\ [Next]_vars => IInv'
  <2> SUFFICES ASSUME IInv, [Next]_vars PROVE IInv'
    OBVIOUS
  <2>1. CASE UNCHANGED vars
    BY <2>1 DEF vars, IInv, TypeOK, ListInv, ExpiringInv
  <2>2. CASE Next
    BY <2>2, StepCases, CreateTimerInv, MarkExpiringInv, DeleteTimerInv,
       MoveToExpiringInv, RequeueTimerInv, EndRoundInv, OtherStepInv
  <2> QED
    BY <2>1, <2>2
<1> QED
  BY <1>1, InitInv, PTL DEF Spec

-----------------------------------------------------------------------------
(* The theorems.                                                           *)

\* Type correctness: no slot beyond MAX_TIMERS is written, sanity does not run
\* below zero, ids only name timers that were created.
THEOREM TypeCorrect == Spec => []TypeOK
<1>1. IInv => TypeOK
  BY DEF IInv
<1> QED
  BY <1>1, Invariance, PTL

\* The list is sorted at every moment at which JavaScript runs.
THEOREM ListIsSorted == Spec => []ListSorted
<1>1. IInv => ListSorted
  BY DEF IInv, ListInv, ListSorted
<1> QED
  BY <1>1, Invariance, PTL

\* No id names two timers, neither of the list nor of the list and timer_expiring.
THEOREM IdsNameOneTimer == Spec => []OneTimerPerId
<1>1. IInv => OneTimerPerId
  BY DEF IInv, ListInv, ExpiringInv, OneTimerPerId, Pending, Running
<1> QED
  BY <1>1, Invariance, PTL

\* A callback starts only with CallCallback, for the timer that was nearest.
LEMMA CallStartFacts ==
  ASSUME IInv, Next, CallStarts
  PROVE  /\ timer_expiring'.id \notin cleared
         /\ timer_expiring'.oneshot => timer_expiring'.id \notin called
<1>1. CallCallback
  BY StepCases, OtherStepFacts
     DEF CallStarts, CreateTimer, MarkExpiring, DeleteTimer, CallUndefined, RequeueTimer,
         LoopEnds, Sleep, LeaveLoop, IInv
<1>2. timer_list # <<>> /\ timer_expiring' = Expired(Nearest(timer_list))
  BY <1>1 DEF CallCallback, MoveToExpiring, RoundGoesOn
<1>3. Nearest(timer_list) \in Range(timer_list) /\ Nearest(timer_list) \in Timer
  BY <1>2, TakeNearest DEF IInv
<1>4. /\ timer_expiring'.id = Nearest(timer_list).id
      /\ timer_expiring'.oneshot = Nearest(timer_list).oneshot
  BY <1>2, <1>3, ExpiredFacts DEF IInv, TypeOK
<1> QED
  BY <1>3, <1>4 DEF IInv, ListInv

\* What deleteTimer has found is never called again, whatever fails.
THEOREM ClearedStaysSilent == Spec => ClearedIsSilent
<1>1. IInv /\ [Next]_vars => [CallStarts => timer_expiring'.id \notin cleared]_vars
  BY CallStartFacts DEF vars
<1> QED
  BY <1>1, Invariance, PTL DEF Spec, ClearedIsSilent

\* A one-shot is called at most once, whatever fails.
THEOREM OneShotsCalledOnce == Spec => OneShotOnce
<1>1. IInv /\ [Next]_vars =>
        [CallStarts /\ timer_expiring'.oneshot => timer_expiring'.id \notin called]_vars
  BY CallStartFacts DEF vars
<1> QED
  BY <1>1, Invariance, PTL DEF Spec, OneShotOnce

-----------------------------------------------------------------------------
(***************************************************************************)
(* As long as no callback throws and memory does not run out, the loop     *)
(* implements TimerService, and the table of callbacks agrees with the     *)
(* list.  Scripts may die, and slots may run out.                          *)
(***************************************************************************)

\* The assumption of the theorems below.
OnlyDeaths == Faults \subseteq {"die"}

(***************************************************************************)
(* The invariant, next to IInv.  CallbackStored alone is not inductive: it *)
(* needs eventTimers to be where the code looks for it (frame), or the     *)
(* callback of a timer taken out of the list is not found.  NothingLost    *)
(* needs to know that a timer in timer_expiring has been called.           *)
(***************************************************************************)
TableInv ==
  /\ frame = "timers"
  /\ CallbackStored
  /\ CallbackDeleted
  /\ NothingLost
  /\ pc \in {"callback", "settle"} => timer_expiring.id \in called

TInv == IInv /\ TableInv

-----------------------------------------------------------------------------
(* What the assumption rules out.                                          *)

\* A timer that expires finds its callback.
LEMMA Found ==
  ASSUME TInv, MoveToExpiring
  PROVE  CallbackFound
<1>1. Nearest(timer_list) \in Range(timer_list)
  BY TakeNearest DEF TInv, IInv, MoveToExpiring, RoundGoesOn
<1>2. Nearest(timer_list).id \in Pending
  BY <1>1 DEF Pending, Ids
<1> QED
  BY <1>2 DEF TInv, TableInv, CallbackStored, CallbackFound

LEMMA NoThrow ==
  ASSUME OnlyDeaths, TInv
  PROVE  ~CallUndefined /\ ~CallbackThrows /\ ~DropThrows /\ "nomem" \notin Faults
<1>1. ~CallUndefined
  BY Found DEF CallUndefined
<1>2. ~CallbackThrows /\ "nomem" \notin Faults
  BY DEF OnlyDeaths, CallbackThrows
<1>3. ~DropThrows
  BY DEF DropThrows, TInv, TableInv
<1> QED
  BY <1>1, <1>2, <1>3

-----------------------------------------------------------------------------
(* One lemma per action that moves ids between the list, timer_expiring,   *)
(* the table and the history.                                              *)

LEMMA InitTable == Init => TableInv
<1> SUFFICES ASSUME Init PROVE TableInv
  OBVIOUS
<1>1. Pending = {} /\ Running = {}
  BY DEF Init, Pending, Running, Ids, Range
<1>2. 1 .. timer_next_id - 1 = {}
  BY DEF Init
<1> QED
  BY <1>1, <1>2 DEF Init, TableInv, CallbackStored, CallbackDeleted, NothingLost

LEMMA CreateTimerTable ==
  ASSUME TInv, NEW d \in Delays, NEW oneshot \in BOOLEAN, CreateTimer(d, oneshot, TRUE)
  PROVE  TableInv'
<1>1. Ids(timer_list') = Ids(timer_list) \cup {timer_next_id}
  BY CreateTimerFacts DEF TInv
<1>2. /\ eventTimers' = eventTimers \cup {timer_next_id}
      /\ timer_next_id' = timer_next_id + 1
      /\ UNCHANGED <<timer_expiring, pc, frame, called, cleared, aborted>>
  BY DEF CreateTimer, NewId, locals, history
<1>3. 1 .. timer_next_id' - 1 = (1 .. timer_next_id - 1) \cup {timer_next_id}
  BY <1>2 DEF TInv, IInv, TypeOK
<1> QED
  BY <1>1, <1>2, <1>3
     DEF TInv, TableInv, CallbackStored, CallbackDeleted, NothingLost, Pending, Running

LEMMA MarkExpiringTable ==
  ASSUME TInv, NEW id, MarkExpiring(id)
  PROVE  TableInv'
<1>1. timer_expiring'.id = timer_expiring.id
  BY DEF MarkExpiring, TInv, IInv, TypeOK, Timer
<1> QED
  BY <1>1 DEF MarkExpiring, locals, TInv, TableInv, CallbackStored, CallbackDeleted,
              NothingLost, Pending, Running

LEMMA DeleteTimerTable ==
  ASSUME TInv, NEW id, DeleteTimer(id)
  PROVE  TableInv'
<1>1. Ids(timer_list') = Ids(timer_list) \ {id}
  BY DeleteTimerFacts DEF TInv
<1> QED
  BY <1>1 DEF DeleteTimer, locals, TInv, TableInv, CallbackStored, CallbackDeleted,
              NothingLost, Pending, Running

LEMMA CallCallbackTable == ASSUME TInv, CallCallback PROVE TableInv'
<1> DEFINE t == Nearest(timer_list)
<1>1. timer_list # <<>> /\ now \in Nat /\ timer_list' = WithoutNearest(timer_list)
      /\ timer_expiring' = Expired(t) /\ pc = "expire" /\ pc' = "callback"
      /\ called' = called \cup {timer_expiring'.id}
      /\ UNCHANGED <<timer_next_id, eventTimers, frame, cleared, aborted>>
  BY DEF CallCallback, MoveToExpiring, RoundGoesOn, TInv, IInv, TypeOK
<1>2. /\ t \in Timer /\ t \in Range(timer_list)
      /\ Ids(timer_list') = Ids(timer_list) \ {t.id}
  BY <1>1, TakeNearest DEF TInv, IInv
<1>3. t.id \in Pending
  BY <1>2 DEF Pending, Ids
<1>4. timer_expiring'.id = t.id
  BY <1>1, <1>2, ExpiredFacts
<1>5. Pending' = Pending \ {t.id} /\ Running = {} /\ Running' = {t.id}
  BY <1>1, <1>2, <1>4 DEF Pending, Running
<1> HIDE DEF t
<1> QED
  BY <1>1, <1>3, <1>4, <1>5
     DEF TInv, TableInv, CallbackStored, CallbackDeleted, NothingLost

LEMMA DropTimerTable == ASSUME TInv, DropTimer PROVE TableInv'
<1>1. timer_expiring.id \notin Pending
  BY DEF DropTimer, TInv, IInv, ExpiringInv, Pending
<1>2. /\ eventTimers' = eventTimers \ {timer_expiring.id}
      /\ pc = "settle" /\ pc' = "expire"
      /\ UNCHANGED <<timer_list, timer_expiring, timer_next_id, frame, called, cleared,
                     aborted>>
  BY DEF DropTimer, TableAfterDrop, locals, history, TInv, TableInv
<1> QED
  BY <1>1, <1>2 DEF TInv, TableInv, CallbackStored, CallbackDeleted, NothingLost, Pending,
                    Running

LEMMA RequeueTimerTable == ASSUME TInv, RequeueTimer PROVE TableInv'
<1>1. Ids(timer_list') = Ids(timer_list) \cup {timer_expiring.id}
  BY RequeueTimerFacts DEF TInv
<1> QED
  BY <1>1 DEF RequeueTimer, locals, history, TInv, TableInv, CallbackStored,
              CallbackDeleted, NothingLost, Pending, Running

\* A callback that ends early, for the death of a sub or the lack of a slot.
LEMMA AbandonTable == ASSUME TInv, CallbackDies \/ RequeueThrows PROVE TableInv'
  BY DEF CallbackDies, RequeueThrows, Abort, LeaveLoop, TInv, TableInv, CallbackStored,
         CallbackDeleted, NothingLost, Pending, Running

\* Steps that move no id.
PlainStep ==
  \/ EvalStart \/ EvalRunsLoop \/ EvalDies \/ CallbackReturns \/ LoopEnds \/ Sleep
  \/ Wake \/ Interrupted \/ Tick

LEMMA PlainStepFacts ==
  ASSUME TInv, PlainStep
  PROVE  /\ UNCHANGED <<timer_list, timer_next_id, eventTimers, called, cleared>>
         /\ frame' = "timers" /\ aborted' \in {aborted, TRUE}
         /\ \/ pc' \in {"callback", "settle"} /\ pc \in {"callback", "settle"}
               /\ timer_expiring' = timer_expiring
            \/ pc' \notin {"callback", "settle"} /\ pc \notin {"callback", "settle"}
         /\ clock' = clock \/ Tick
  BY DEF PlainStep, EvalStart, EvalRunsLoop, EvalDies, CallbackReturns, LoopEnds, Sleep,
         EndRound, Wake, Interrupted, Tick, Abort, LeaveLoop, StartRound, locals, history,
         TInv, TableInv

LEMMA PlainStepTable == ASSUME TInv, PlainStep PROVE TableInv'
  BY PlainStepFacts DEF TInv, TableInv, CallbackStored, CallbackDeleted, NothingLost,
                        Pending, Running

LEMMA TableStepCases ==
  ASSUME OnlyDeaths, TInv, Next
  PROVE  \/ \E d \in Delays, oneshot \in BOOLEAN : CreateTimer(d, oneshot, TRUE)
         \/ \E id \in 0 .. timer_next_id - 1 : MarkExpiring(id)
         \/ \E id \in 0 .. timer_next_id - 1 : DeleteTimer(id)
         \/ CallCallback
         \/ DropTimer
         \/ RequeueTimer
         \/ CallbackDies \/ RequeueThrows
         \/ PlainStep
  BY NoThrow DEF Next, Script, Progress, Failure, PlainStep

LEMMA TableInvariance == ASSUME OnlyDeaths PROVE Spec => []TInv
<1>1. Init => TInv
  BY InitInv, InitTable DEF TInv
<1>2. TInv /\ [Next]_vars => TableInv'
  <2> SUFFICES ASSUME TInv, [Next]_vars PROVE TableInv'
    OBVIOUS
  <2>1. CASE UNCHANGED vars
    BY <2>1 DEF vars, TInv, TableInv, CallbackStored, CallbackDeleted, NothingLost,
                Pending, Running
  <2>2. CASE Next
    BY <2>2, TableStepCases, CreateTimerTable, MarkExpiringTable, DeleteTimerTable,
       CallCallbackTable, DropTimerTable, RequeueTimerTable, AbandonTable, PlainStepTable
  <2> QED
    BY <2>1, <2>2
<1>3. IInv /\ TableInv <=> TInv
  BY DEF TInv
<1> QED
  BY <1>1, <1>2, <1>3, Invariance, PTL DEF Spec

-----------------------------------------------------------------------------
(* The theorems about the table.                                           *)

\* Whatever is pending or running has its callback.
THEOREM CallbacksAreStored == ASSUME OnlyDeaths PROVE Spec => []CallbackStored
<1>1. TInv => CallbackStored
  BY DEF TInv, TableInv
<1> QED
  BY <1>1, TableInvariance, PTL

\* No callback outlives its timer, unless a death or a lack of slots intervened.
THEOREM CallbacksAreDeleted == ASSUME OnlyDeaths PROVE Spec => []CallbackDeleted
<1>1. TInv => CallbackDeleted
  BY DEF TInv, TableInv
<1> QED
  BY <1>1, TableInvariance, PTL

\* A timer leaves the list only to be called or because it was cleared.
THEOREM NoTimerLost == ASSUME OnlyDeaths PROVE Spec => []NothingLost
<1>1. TInv => NothingLost
  BY DEF TInv, TableInv
<1> QED
  BY <1>1, TableInvariance, PTL

-----------------------------------------------------------------------------
(* The refinement.                                                         *)

(* The variables of TimerService, as EventLoop substitutes them.           *)
APending == Range(timer_list)
ARunning == IF pc \in {"callback", "settle"} THEN {timer_expiring} ELSE {}

\* The operators on times are the same ones on both sides.
LEMMA SameTimes ==
  /\ \A a, b : Promise!Less(a, b) = Less(a, b)
  /\ \A a, b : Promise!Plus(a, b) = Plus(a, b)
  BY DEF Promise!Less, Less, Promise!Plus, Plus, Promise!NaN, NaN

LEMMA InitRefines == Init => Promise!Init
<1> SUFFICES ASSUME Init PROVE Promise!Init
  OBVIOUS
<1>1. Range(timer_list) = {}
  BY DEF Init, Range
<1> QED
  BY <1>1 DEF Init, Promise!Init

LEMMA CreateTimerRefines ==
  ASSUME TInv, NEW d \in Delays, NEW oneshot \in BOOLEAN, CreateTimer(d, oneshot, TRUE)
  PROVE  Promise!Arm(d, oneshot)
<1> DEFINE delay == IF Less(d, MinDelay) THEN MinDelay ELSE d
           t == [id |-> timer_next_id, target |-> Plus(clock, delay), delay |-> delay,
                 oneshot |-> oneshot, removed |-> FALSE]
<1>1. APending' = APending \cup {t}
  BY CreateTimerFacts DEF TInv, APending
<1>2. /\ timer_next_id <= MaxId /\ timer_next_id' = timer_next_id + 1
      /\ UNCHANGED <<pc, timer_expiring, called, clock>>
  BY DEF CreateTimer, locals, history
<1>3. timer_next_id \in Nat
  BY DEF TInv, IInv, TypeOK
<1>4. /\ timer_next_id - 1 < MaxId /\ timer_next_id' - 1 = timer_next_id
      /\ timer_next_id - 1 + 1 = timer_next_id
  BY <1>2, <1>3, EventLoopAssumption
<1> QED
  BY <1>1, <1>2, <1>4, SameTimes DEF Promise!Arm, APending

\* Marking an expiring timer cancels it while its callback runs, and is no step of
\* TimerService otherwise.
LEMMA MarkExpiringRefines ==
  ASSUME TInv, NEW id, MarkExpiring(id)
  PROVE  Promise!Next \/ UNCHANGED Promise!vars
<1>1. /\ timer_expiring' = [timer_expiring EXCEPT !.removed = TRUE]
      /\ UNCHANGED <<timer_list, timer_next_id, clock, pc, called>>
      /\ id = timer_expiring.id
  BY DEF MarkExpiring, locals
<1>2. CASE pc # "callback"
  BY <1>1, <1>2 DEF MarkExpiring, Promise!vars
<1>3. CASE pc = "callback"
  <2>1. id \in 1 .. timer_next_id - 1 /\ id \notin Ids(timer_list)
    BY <1>1, <1>3 DEF TInv, IInv, TypeOK, ExpiringInv
  <2>2. APending' = {t \in APending : t.id # id} /\ UNCHANGED APending
    BY <1>1, <2>1 DEF APending, Ids
  <2>3. ARunning = {timer_expiring} /\ ARunning' = {timer_expiring'}
    BY <1>1, <1>3 DEF ARunning
  <2>4. timer_expiring' = [timer_expiring EXCEPT !.removed = (timer_expiring.removed
                                                              \/ timer_expiring.id = id)]
    BY <1>1 DEF TInv, IInv, TypeOK, Timer
  <2>5. ARunning' = {[t EXCEPT !.removed = (t.removed \/ t.id = id)] : t \in ARunning}
    BY <2>3, <2>4
  <2>6. \E t \in ARunning : t.id = id
    BY <1>1, <2>3
  <2>7. Promise!Cancel(id)
    BY <1>1, <2>2, <2>5, <2>6 DEF Promise!Cancel, APending, ARunning
  <2> QED
    BY <2>1, <2>7 DEF Promise!Next
<1> QED
  BY <1>2, <1>3

LEMMA DeleteTimerRefines ==
  ASSUME TInv, NEW id \in 0 .. timer_next_id - 1, DeleteTimer(id)
  PROVE  Promise!Next
<1>1. APending' = {t \in APending : t.id # id}
  BY DeleteTimerFacts DEF TInv, APending
<1>2. /\ id # timer_expiring.id /\ id \in Ids(timer_list)
      /\ UNCHANGED <<timer_expiring, timer_next_id, clock, pc, called>>
  BY DEF DeleteTimer, locals
<1>3. \E t \in APending : t.id = id
  BY <1>2 DEF APending, Ids
<1>4. id \in 1 .. timer_next_id - 1
  BY <1>3 DEF APending, TInv, IInv, ListInv
<1>5. timer_expiring = [timer_expiring EXCEPT !.removed = (timer_expiring.removed
                                                          \/ timer_expiring.id = id)]
  BY <1>2 DEF TInv, IInv, TypeOK, Timer
<1>6. ARunning' = {[t EXCEPT !.removed = (t.removed \/ t.id = id)] : t \in ARunning}
  BY <1>2, <1>5 DEF ARunning
<1>7. Promise!Cancel(id)
  BY <1>1, <1>2, <1>3, <1>6 DEF Promise!Cancel, APending, ARunning
<1> QED
  BY <1>4, <1>7 DEF Promise!Next

\* The last timer of the list is one that no other precedes: the list is sorted.
LEMMA CallCallbackRefines ==
  ASSUME TInv, CallCallback
  PROVE  Promise!Next
<1> DEFINE t == Nearest(timer_list)
<1>1. /\ timer_list # <<>> /\ ~Less(now, t.target) /\ pc = "expire" /\ pc' = "callback"
      /\ timer_list' = WithoutNearest(timer_list)
      /\ timer_expiring' = Expired(t)
      /\ called' = called \cup {timer_expiring'.id}
      /\ UNCHANGED <<timer_next_id, clock>>
  BY DEF CallCallback, MoveToExpiring, RoundGoesOn
<1>2. /\ t \in Timer /\ t \in APending /\ APending' = APending \ {t}
  BY <1>1, TakeNearest DEF TInv, IInv, APending
<1>3. ARunning = {} /\ ARunning' = {Expired(t)}
  BY <1>1 DEF ARunning
<1>4. now \in 0 .. clock /\ timer_expiring'.id = t.id
  BY <1>1, <1>2, ExpiredFacts DEF TInv, IInv, TypeOK
<1>5. \A u \in APending : ~Less(u.target, t.target)
  <2> SUFFICES ASSUME NEW u \in APending PROVE ~Less(u.target, t.target)
    OBVIOUS
  <2>1. PICK i \in 1 .. Len(timer_list) : u = timer_list[i]
    BY ListFacts DEF APending, Range, TInv, IInv
  <2>2. Len(timer_list) \in DOMAIN timer_list /\ i \in DOMAIN timer_list
        /\ Len(timer_list) \in Nat
    BY <2>1, ListFacts DEF TInv, IInv
  <2>3. CASE i < Len(timer_list)
    BY <2>1, <2>2, <2>3 DEF TInv, IInv, ListInv, Sorted, Nearest
  <2>4. CASE i = Len(timer_list)
    BY <1>2, <2>1, <2>4 DEF Nearest, Less, Timer, Time, NaN
  <2> QED
    BY <2>2, <2>3, <2>4
<1>6. Expired(t) = IF t.oneshot THEN [t EXCEPT !.removed = TRUE]
                                ELSE [t EXCEPT !.target = Plus(now, t.delay)]
  BY DEF Expired
<1> HIDE DEF t
<1>7. Promise!Fire(t, now)
  BY <1>1, <1>2, <1>3, <1>4, <1>5, <1>6, SameTimes DEF Promise!Fire, APending, ARunning
<1> QED
  BY <1>2, <1>4, <1>7 DEF Promise!Next, APending

LEMMA FinishRefines ==
  ASSUME TInv, DropTimer \/ RequeueTimer
  PROVE  Promise!Next
<1>1. /\ pc = "settle" /\ pc' = "expire"
      /\ UNCHANGED <<timer_next_id, clock, called>>
  BY DEF DropTimer, RequeueTimer, locals, history
<1>2. ARunning = {timer_expiring} /\ ARunning' = {}
  BY <1>1 DEF ARunning
<1>3. APending' = APending \cup {t \in ARunning : ~t.removed}
  <2>1. CASE DropTimer
    BY <1>2, <2>1 DEF DropTimer, Removed, APending
  <2>2. CASE RequeueTimer
    BY <1>2, <2>2, RequeueTimerFacts DEF RequeueTimer, Removed, APending, TInv
  <2> QED
    BY <2>1, <2>2
<1>4. Promise!Finish
  BY <1>1, <1>2, <1>3 DEF Promise!Finish, APending, ARunning
<1> QED
  BY <1>4 DEF Promise!Next

LEMMA AbandonRefines ==
  ASSUME TInv, CallbackDies \/ RequeueThrows
  PROVE  Promise!Next
<1>1. Promise!Abandon
  BY DEF CallbackDies, RequeueThrows, Abort, LeaveLoop, Promise!Abandon
<1> QED
  BY <1>1 DEF Promise!Next

LEMMA PlainStepRefines ==
  ASSUME TInv, PlainStep
  PROVE  Promise!Next \/ UNCHANGED Promise!vars
<1>1. UNCHANGED <<APending, ARunning, timer_next_id, called>>
  BY PlainStepFacts DEF APending, ARunning
<1>2. CASE Tick
  BY <1>1, <1>2 DEF Tick, Promise!Tick, Promise!Next, APending, ARunning
<1>3. CASE clock' = clock
  BY <1>1, <1>3 DEF Promise!vars, APending, ARunning
<1> QED
  BY <1>2, <1>3, PlainStepFacts

\* Scripts and loop, whatever dies in them, keep what TimerService promises.
THEOREM LoopKeepsPromise == ASSUME OnlyDeaths PROVE Spec => KeepsPromise
<1>1. TInv /\ [Next]_vars => [Promise!Next]_(Promise!vars)
  <2> SUFFICES ASSUME TInv, [Next]_vars PROVE Promise!Next \/ UNCHANGED Promise!vars
    OBVIOUS
  <2>1. CASE UNCHANGED vars
    BY <2>1 DEF vars, Promise!vars
  <2>2. ASSUME NEW d \in Delays, NEW oneshot \in BOOLEAN, CreateTimer(d, oneshot, TRUE)
        PROVE  Promise!Next
    BY <2>2, CreateTimerRefines DEF Promise!Next
  <2>3. CASE Next
    BY <2>2, <2>3, TableStepCases, MarkExpiringRefines, DeleteTimerRefines,
       CallCallbackRefines, FinishRefines, AbandonRefines, PlainStepRefines
  <2> QED
    BY <2>1, <2>3
<1> QED
  BY <1>1, InitRefines, TableInvariance, PTL DEF Spec, KeepsPromise, Promise!Spec

-----------------------------------------------------------------------------
(* The sleeps fit, as long as no script asks for a delay of NaN.           *)

OnlyNumbers == NaN \notin Delays

\* SleepFits needs to know that no NaN is carried into a target.
SleepInv ==
  /\ \A t \in Range(timer_list) : t.target # NaN /\ t.delay # NaN
  /\ timer_expiring.target # NaN /\ timer_expiring.delay # NaN
  /\ SleepFits

SInv == IInv /\ SleepInv

\* Cutting to whole milliseconds what is one at least.
LEMMA WholeMs ==
  ASSUME NEW c \in Int, Ms <= c
  PROVE  (c \div Ms) * Ms \in Ms .. c
<1>1. Ms \in Nat \ {0}
  BY EventLoopAssumption
<1> QED
  BY <1>1

\* What Sleep gives to poll().
LEMMA TimeoutFits ==
  ASSUME NEW target \in Nat, NEW timeout \in PollTimeouts(target), clock \in Nat
  PROVE  /\ timeout \in 1 .. MaxWait
         /\ clock + timeout <= target \/ timeout <= MinWait
<1> DEFINE diff == target - clock
           clamped == IF diff < MinWait THEN MinWait ELSE IF diff > MaxWait THEN MaxWait ELSE diff
<1>1. timeout = (clamped \div Ms) * Ms
  BY DEF PollTimeouts, NaN
<1>2. /\ clamped \in Int /\ Ms <= clamped /\ clamped <= MaxWait
      /\ clamped <= diff \/ clamped = MinWait
  BY EventLoopAssumption
<1> HIDE DEF clamped
<1>3. timeout \in Ms .. clamped
  BY <1>1, <1>2, WholeMs
<1> QED
  BY <1>2, <1>3, EventLoopAssumption

LEMMA SleepKeeps ==
  ASSUME SInv, Sleep
  PROVE  SleepInv'
<1> DEFINE target == Nearest(timer_list).target
<1>1. /\ timer_list # << >> /\ timer_list' = timer_list /\ timer_expiring' = ZeroTimer
      /\ now' = clock /\ pc' = "poll"
  BY DEF Sleep, EndRound
<1>2. PICK timeout \in PollTimeouts(target) :
        wake' = IF timeout < 0 THEN Forever ELSE clock + timeout
  BY DEF Sleep
<1>3. target \in Nat /\ clock \in Nat
  BY <1>1, TakeNearest DEF SInv, IInv, TypeOK, SleepInv, Timer, Time
<1> HIDE DEF target
<1>4. timeout \in 1 .. MaxWait /\ (clock + timeout <= target \/ timeout <= MinWait)
  BY <1>3, TimeoutFits
<1>5. wake' = clock + timeout
  BY <1>2, <1>4, EventLoopAssumption
<1>6. Nearest(timer_list') = Nearest(timer_list)
  BY <1>1
<1>7. SleepFits'
  BY <1>1, <1>3, <1>4, <1>5, <1>6, EventLoopAssumption DEF SleepFits, target
<1>8. ZeroTimer.target # NaN /\ ZeroTimer.delay # NaN
  BY DEF ZeroTimer, NaN
<1> QED
  BY <1>1, <1>7, <1>8 DEF SInv, SleepInv

LEMMA SleepInvKept ==
  ASSUME OnlyNumbers, SInv, Next
  PROVE  SleepInv'
<1>1. CASE \E d \in Delays, oneshot \in BOOLEAN, stored \in BOOLEAN :
             CreateTimer(d, oneshot, stored)
  <2>1. PICK d \in Delays, oneshot \in BOOLEAN, stored \in BOOLEAN :
          CreateTimer(d, oneshot, stored)
    BY <1>1
  <2> DEFINE delay == IF Less(d, MinDelay) THEN MinDelay ELSE d
             t == [id |-> timer_next_id, target |-> Plus(clock, delay), delay |-> delay,
                   oneshot |-> oneshot, removed |-> FALSE]
  <2>2. Range(timer_list') = Range(timer_list) \cup {t}
    BY <2>1, CreateTimerFacts DEF SInv
  <2>3. delay \in Nat /\ clock \in Nat
    BY EventLoopAssumption DEF SInv, IInv, TypeOK, OnlyNumbers, Time
  <2> HIDE DEF delay
  <2>4. t.target # NaN /\ t.delay # NaN
    BY <2>3 DEF Plus, NaN
  <2>5. /\ pc' \in {"main", "callback"} /\ timer_expiring' = timer_expiring
    BY <2>1 DEF CreateTimer
  <2> QED
    BY <2>2, <2>4, <2>5 DEF SInv, SleepInv, SleepFits
<1>2. CASE \E id \in 0 .. timer_next_id - 1 : MarkExpiring(id)
  <2>1. /\ timer_expiring' = [timer_expiring EXCEPT !.removed = TRUE] /\ timer_expiring \in Timer
        /\ timer_list' = timer_list /\ pc' \in {"main", "callback"}
    BY <1>2 DEF MarkExpiring, SInv, IInv, TypeOK
  <2> QED
    BY <2>1 DEF SInv, SleepInv, SleepFits, Timer
<1>3. CASE \E id \in 0 .. timer_next_id - 1 : DeleteTimer(id)
  <2>1. Range(timer_list') \subseteq Range(timer_list)
    BY <1>3, DeleteTimerFacts DEF SInv
  <2>2. timer_expiring' = timer_expiring /\ pc' \in {"main", "callback"}
    BY <1>3 DEF DeleteTimer
  <2> QED
    BY <2>1, <2>2 DEF SInv, SleepInv, SleepFits
<1>4. CASE CallCallback \/ CallUndefined
  <2> DEFINE t == Nearest(timer_list)
  <2>1. /\ timer_list # << >> /\ timer_expiring' = Expired(t)
        /\ timer_list' = WithoutNearest(timer_list) /\ pc' \in {"callback", "settle"}
    BY <1>4 DEF CallCallback, CallUndefined, MoveToExpiring, RoundGoesOn
  <2>2. t \in Timer /\ t \in Range(timer_list) /\ Range(timer_list') \subseteq Range(timer_list)
    BY <2>1, TakeNearest DEF SInv, IInv
  <2> HIDE DEF t
  <2>3. t.target # NaN /\ t.delay # NaN /\ t.delay \in Nat /\ now \in Nat
    BY <2>2 DEF SInv, SleepInv, IInv, TypeOK, Timer, Time
  <2>4. Expired(t).target # NaN /\ Expired(t).delay # NaN
    BY <2>2, <2>3 DEF Expired, Plus, NaN, Timer
  <2> QED
    BY <2>1, <2>2, <2>4 DEF SInv, SleepInv, SleepFits
<1>5. CASE RequeueTimer
  <2>1. /\ Range(timer_list') = Range(timer_list) \cup {timer_expiring}
        /\ timer_expiring' = timer_expiring /\ pc' = "expire"
    BY <1>5, RequeueTimerFacts DEF SInv, RequeueTimer
  <2> QED
    BY <2>1 DEF SInv, SleepInv, SleepFits
<1>6. CASE LoopEnds
  <2>1. timer_list' = timer_list /\ timer_expiring' = ZeroTimer /\ pc' = "idle"
    BY <1>6 DEF LoopEnds, EndRound, LeaveLoop
  <2>2. ZeroTimer.target # NaN /\ ZeroTimer.delay # NaN
    BY DEF ZeroTimer, NaN
  <2> QED
    BY <2>1, <2>2 DEF SInv, SleepInv, SleepFits
<1>7. CASE OtherStep
  <2>1. timer_list' = timer_list /\ timer_expiring' = timer_expiring
    BY <1>7, OtherStepFacts DEF SInv, IInv
  <2>2. pc' # "poll" \/ (pc' = pc /\ now' = now /\ wake' = wake)
    BY <1>7 DEF OtherStep, EvalStart, EvalRunsLoop, EvalDies, CallbackReturns, CallbackThrows,
       CallbackDies, DropTimer, DropThrows, RequeueThrows, Wake, Interrupted, Tick, Abort,
       LeaveLoop, StartRound, locals
  <2> QED
    BY <2>1, <2>2 DEF SInv, SleepInv, SleepFits
<1> QED
  BY <1>1, <1>2, <1>3, <1>4, <1>5, <1>6, <1>7, StepCases, SleepKeeps

\* The sleep of poll() is one tick at least and MAX_WAIT at most, and outlasts the nearest
\* timer by no more than MIN_WAIT (c_eventloop.c:200-206).
THEOREM SleepsFit == ASSUME OnlyNumbers PROVE Spec => []SleepFits
<1>1. Init => SInv
  <2> SUFFICES ASSUME Init PROVE SleepInv
    BY InitInv DEF SInv
  <2>1. Range(timer_list) = {} /\ timer_expiring = ZeroTimer /\ pc = "idle"
    BY EmptySeq DEF Init, Range
  <2> QED
    BY <2>1 DEF SleepInv, SleepFits, ZeroTimer, NaN
<1>2. IInv /\ IInv' /\ SInv /\ [Next]_vars => SInv'
  <2> SUFFICES ASSUME IInv', SInv, [Next]_vars PROVE SleepInv'
    BY DEF SInv
  <2>1. CASE UNCHANGED vars
    BY <2>1 DEF vars, SInv, SleepInv, SleepFits
  <2> QED
    BY <2>1, SleepInvKept
<1>3. SInv => SleepFits
  BY DEF SInv, SleepInv
<1> QED
  BY <1>1, <1>2, <1>3, Invariance, PTL DEF Spec

-----------------------------------------------------------------------------
(* What deleteTimer finds in timer_expiring.                               *)

\* Only a loop that was cut short leaves a timer there.
NoStale == ~aborted /\ pc \in {"idle", "main", "poll"} => timer_expiring.id = 0

LEMMA NoStaleKept ==
  ASSUME IInv, NoStale, Next
  PROVE  NoStale'
<1>1. CASE \E d \in Delays, oneshot \in BOOLEAN, stored \in BOOLEAN :
             CreateTimer(d, oneshot, stored)
  BY <1>1 DEF CreateTimer, NoStale, history
<1>2. CASE \E id \in 0 .. timer_next_id - 1 : MarkExpiring(id) \/ DeleteTimer(id)
  BY <1>2 DEF MarkExpiring, DeleteTimer, NoStale, IInv, TypeOK, Timer
<1>3. CASE CallCallback \/ CallUndefined \/ RequeueTimer
  BY <1>3 DEF CallCallback, CallUndefined, RequeueTimer, NoStale
<1>4. CASE LoopEnds \/ Sleep
  BY <1>4 DEF LoopEnds, Sleep, EndRound, NoStale, ZeroTimer
<1>5. CASE OtherStep
  BY <1>5 DEF OtherStep, EvalStart, EvalRunsLoop, EvalDies, CallbackReturns, CallbackThrows,
     CallbackDies, DropTimer, DropThrows, RequeueThrows, Wake, Interrupted, Tick, Abort,
     LeaveLoop, StartRound, locals, history, NoStale
<1> QED
  BY <1>1, <1>2, <1>3, <1>4, <1>5, StepCases

\* deleteTimer answers true only for a timer that is pending or being expired, as long as
\* no loop has been cut short (c_eventloop.c:309).
THEOREM TrueAnswersMeanFound == Spec => TrueMeansFound
<1>1. Init => NoStale
  BY DEF Init, NoStale, ZeroTimer
<1>2. IInv /\ NoStale /\ [Next]_vars => NoStale'
  <2> SUFFICES ASSUME IInv, NoStale, [Next]_vars PROVE NoStale'
    OBVIOUS
  <2>1. CASE UNCHANGED vars
    BY <2>1 DEF vars, NoStale
  <2> QED
    BY <2>1, NoStaleKept
<1>3. IInv /\ NoStale /\ [Next]_vars =>
        [(\E id \in 1 .. MaxId : MarkExpiring(id)) => pc = "callback" \/ aborted]_vars
  <2> SUFFICES ASSUME NoStale, NEW id \in 1 .. MaxId, MarkExpiring(id), pc # "callback", ~aborted
               PROVE FALSE
    OBVIOUS
  <2> QED
    BY DEF NoStale, MarkExpiring
<1> QED
  BY <1>1, <1>2, <1>3, Invariance, PTL DEF Spec, TrueMeansFound
=============================================================================
