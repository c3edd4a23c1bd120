------------------------------ MODULE EventLoop ------------------------------
(***************************************************************************)
(* The event loop of c_eventloop.c, as one VM of a process uses it: pl_eval *)
(* runs a script, the script and the timer callbacks create and delete     *)
(* timers, eventloop_run expires them and sleeps in between.  Everything   *)
(* runs in one thread; what interleaves with it is the clock, a signal     *)
(* that ends poll() early, and the ways in which a script can fail.        *)
(*                                                                         *)
(* Time is counted in ticks, Ms of them to a millisecond: gettimeofday     *)
(* gives fractions of a millisecond and poll() takes whole ones.           *)
(***************************************************************************)
EXTENDS TimerList

CONSTANTS
  MaxTimers,      \* MAX_TIMERS: slots of timer_list
  MaxExpiries,    \* MAX_EXPIRIES: callbacks per round of expire_timers
  Ms,             \* ticks per millisecond
  MinDelay,       \* MIN_DELAY, in ticks
  MinWait,        \* MIN_WAIT, in ticks
  MaxWait,        \* MAX_WAIT, in ticks
  Delays,         \* the delays scripts ask for, NaN among them or not
  Faults,         \* what can go wrong: see AllFaults
  MaxId,          \* bound of the model: timers created
  Horizon,        \* bound of the model: no timer is created after it
  MaxClock        \* bound of the model: the clock stops here

(***************************************************************************)
(* "throwError"  a callback throws an Error object                         *)
(* "throwValue"  a callback throws anything else                           *)
(* "die"         a Perl sub called from the script dies and the VM was     *)
(*               made without catch_perl_exceptions: croak() unwinds       *)
(*               every C frame up to the caller of eval                    *)
(* "nomem"       the allocator refuses (max_memory_bytes) to store a       *)
(*               callback once its timer is in the list                    *)
(***************************************************************************)
AllFaults == {"throwError", "throwValue", "die", "nomem"}

ASSUME EventLoopAssumption ==
  /\ MaxTimers \in Nat /\ MaxExpiries \in Nat
  /\ Ms \in Nat \ {0} /\ MinDelay \in Nat \ {0}
  /\ MinWait \in Nat /\ MaxWait \in Nat /\ Ms <= MinWait /\ MinWait <= MaxWait
  /\ Delays \subseteq Time
  /\ Faults \subseteq AllFaults
  /\ MaxId \in Nat /\ Horizon \in Nat /\ MaxClock \in Nat

VARIABLES
  \* Statics of c_eventloop.c.
  timer_list,     \* timer_list[0 .. timer_count-1]
  timer_expiring,
  timer_next_id,
  \* The keys of <global stash>.eventTimers, the table of callbacks.
  eventTimers,
  clock,
  \* Where the thread is, and the C locals of eventloop_run and expire_timers
  \* (they have their initial value while the frame they belong to is gone).
  pc,
  now,            \* the clock as expire_timers, or eventloop_run, read it last
  sanity,         \* callbacks this round may still call
  frame,          \* what stands on the value stack where eventTimers belongs
  wake,           \* when poll() times out
  \* History.
  called,         \* ids of the timers whose callback was entered
  cleared,        \* ids that deleteTimer found
  aborted         \* an error or a death has ended a script or a loop

vars == <<timer_list, timer_expiring, timer_next_id, eventTimers, clock, pc,
          now, sanity, frame, wake, called, cleared, aborted>>
locals == <<now, sanity, frame, wake>>
history == <<called, cleared, aborted>>

Forever == -1     \* poll() with a negative timeout

Init ==
  /\ timer_list = <<>>
  /\ timer_expiring = ZeroTimer
  /\ timer_next_id = 1
  /\ eventTimers = {}
  /\ clock = 0
  /\ pc = "idle"
  /\ now = 0 /\ sanity = 0 /\ frame = "timers" /\ wake = 0
  /\ called = {} /\ cleared = {} /\ aborted = FALSE

-----------------------------------------------------------------------------
(* Leaving and entering the loop.                                          *)

\* Control returns to Perl.  No static is touched.
LeaveLoop == /\ pc' = "idle"
             /\ now' = 0 /\ sanity' = 0 /\ frame' = "timers" /\ wake' = 0

\* It does so by an error that duk_safe_call catches in pl_eval, or by croak().
Abort == /\ LeaveLoop
         /\ aborted' = TRUE
         /\ UNCHANGED <<timer_list, timer_expiring, timer_next_id, eventTimers, clock,
                        called, cleared>>

\* A call of expire_timers: the clock is read once for the whole round.
StartRound == /\ pc' = "expire"
              /\ now' = clock
              /\ sanity' = MaxExpiries
              /\ frame' = "timers"
              /\ wake' = 0

\* pl_eval (or dispatch_function_in_event_loop) starts to run a script.
EvalStart ==
  /\ pc = "idle"
  /\ pc' = "main"
  /\ UNCHANGED <<timer_list, timer_expiring, timer_next_id, eventTimers, clock,
                 locals, history>>

\* The script returned or threw: either way pl_eval goes on to eventloop_run.
EvalRunsLoop ==
  /\ pc = "main"
  /\ StartRound
  /\ UNCHANGED <<timer_list, timer_expiring, timer_next_id, eventTimers, clock, history>>

\* A Perl sub dies under the script: eventloop_run is never reached.
EvalDies ==
  /\ pc = "main" /\ "die" \in Faults
  /\ Abort

-----------------------------------------------------------------------------
(* What scripts do, from the main code or from a callback.                 *)

\* Faulty variant: the test for a free slot lets one timer too many in.
FreeSlotOffByOne == Len(timer_list) <= MaxTimers

\* timer_count < MAX_TIMERS
FreeSlot == Len(timer_list) < MaxTimers

\* Faulty variant: a slot number serves as id.
NewIdByCount == Len(timer_list) + 1

NewId == timer_next_id

\* create_timer.  With no free slot, or with a bad argument, it throws before
\* it changes anything.
CreateTimer(d, oneshot, stored) ==
  LET delay == IF Less(d, MinDelay) THEN MinDelay ELSE d
      t == [id |-> NewId, target |-> Plus(clock, delay), delay |-> delay,
            oneshot |-> oneshot, removed |-> FALSE]
  IN /\ pc \in {"main", "callback"}
     /\ timer_next_id <= MaxId /\ clock <= Horizon
     /\ FreeSlot
     /\ timer_list' = Queue(timer_list, t)
     /\ timer_next_id' = timer_next_id + 1
     /\ eventTimers' = IF stored THEN eventTimers \cup {t.id} ELSE eventTimers
     /\ UNCHANGED <<timer_expiring, clock, pc, locals, history>>

\* delete_timer of the timer being expired: mark it, expire_timers does the rest.
\* The test is on timer_expiring.id alone.
MarkExpiring(id) ==
  /\ pc \in {"main", "callback"}
  /\ id = timer_expiring.id
  /\ timer_expiring' = [timer_expiring EXCEPT !.removed = TRUE]
  /\ cleared' = cleared \cup {id}
  /\ UNCHANGED <<timer_list, timer_next_id, eventTimers, clock, pc, locals, called, aborted>>

\* delete_timer of a timer in the list.  An id that is nowhere changes nothing.
DeleteTimer(id) ==
  /\ pc \in {"main", "callback"}
  /\ id # timer_expiring.id
  /\ id \in Ids(timer_list)
  /\ timer_list' = Delete(timer_list, FirstIndex(timer_list, id))
  /\ eventTimers' = eventTimers \ {id}
  /\ cleared' = cleared \cup {id}
  /\ UNCHANGED <<timer_expiring, timer_next_id, clock, pc, locals, called, aborted>>

Script ==
  \/ \E d \in Delays, oneshot \in BOOLEAN : CreateTimer(d, oneshot, TRUE)
  \/ "nomem" \in Faults /\ \E d \in Delays, oneshot \in BOOLEAN : CreateTimer(d, oneshot, FALSE)
  \/ \E id \in 0 .. timer_next_id - 1 : MarkExpiring(id) \/ DeleteTimer(id)

-----------------------------------------------------------------------------
(* expire_timers.                                                          *)

\* Faulty variant: a timer is expired before it is due.
RoundGoesOnEarly == sanity > 0 /\ timer_list # <<>>

\* Another timer of the list is expired in this round.
RoundGoesOn ==
  /\ sanity > 0
  /\ timer_list # <<>>
  /\ ~Less(now, Nearest(timer_list).target)

\* Faulty variant: a one-shot is not marked.
ExpiredUnmarked(t) == [t EXCEPT !.target = Plus(now, t.delay)]

\* A one-shot is marked as removed, an interval gets its next target.
Expired(t) == IF t.oneshot THEN [t EXCEPT !.removed = TRUE]
                           ELSE [t EXCEPT !.target = Plus(now, t.delay)]

MoveToExpiring ==
  /\ pc = "expire"
  /\ RoundGoesOn
  /\ timer_expiring' = Expired(Nearest(timer_list))
  /\ timer_list' = WithoutNearest(timer_list)
  /\ sanity' = sanity - 1
  /\ UNCHANGED <<timer_next_id, eventTimers, clock, now, wake, cleared, aborted>>

CallbackFound == frame = "timers" /\ Nearest(timer_list).id \in eventTimers

\* duk_pcall of the callback.
CallCallback ==
  /\ MoveToExpiring
  /\ CallbackFound
  /\ pc' = "callback"
  /\ called' = called \cup {timer_expiring'.id}
  /\ UNCHANGED frame

\* duk_get_prop finds no callback, either because there is none or because
\* eventTimers is not where the code looks: "undefined not callable", an Error.
CallUndefined ==
  /\ MoveToExpiring
  /\ ~CallbackFound
  /\ pc' = "settle"
  /\ frame' = "error"
  /\ UNCHANGED called

CallbackReturns ==
  /\ pc = "callback"
  /\ pc' = "settle"
  /\ UNCHANGED <<timer_list, timer_expiring, timer_next_id, eventTimers, clock,
                 locals, history>>

\* The callback throws.  check_duktape_call_for_errors logs the error through
\* duk_console_log, which leaves one value too many on the stack, so that the
\* pop that follows takes that one and the error stays, above eventTimers.
CallbackThrows ==
  /\ pc = "callback"
  /\ pc' = "settle"
  /\ \/ "throwError" \in Faults /\ frame' = "error"
     \/ "throwValue" \in Faults /\ frame' = "value"
  /\ UNCHANGED <<timer_list, timer_expiring, timer_next_id, eventTimers, clock,
                 now, sanity, wake, history>>

\* A Perl sub dies under the callback.
CallbackDies ==
  /\ pc = "callback" /\ "die" \in Faults
  /\ Abort

\* Faulty variant: only one-shots are seen as done with.
RemovedIfOneShot == timer_expiring.oneshot

Removed == timer_expiring.removed

\* Faulty variant: the callback is forgotten.
TableKept == eventTimers

\* duk_del_prop(ctx, -2): on eventTimers, unless an error stands above it.
TableAfterDrop == IF frame = "timers" THEN eventTimers \ {timer_expiring.id}
                                      ELSE eventTimers

\* The timer is done with: its callback is deleted, if the code finds it.
DropTimer ==
  /\ pc = "settle"
  /\ Removed
  /\ eventTimers' = TableAfterDrop
  /\ pc' = "expire"
  /\ UNCHANGED <<timer_list, timer_expiring, timer_next_id, clock, locals, history>>

\* A thrown value was made a string by then, and the id may be an index of it:
\* duk_del_prop throws "not configurable", which ends the loop.
DropThrows ==
  /\ pc = "settle"
  /\ Removed
  /\ frame = "value"
  /\ Abort

\* An interval goes back into the list.
RequeueTimer ==
  /\ pc = "settle"
  /\ ~Removed
  /\ FreeSlot
  /\ timer_list' = Queue(timer_list, timer_expiring)
  /\ pc' = "expire"
  /\ UNCHANGED <<timer_expiring, timer_next_id, eventTimers, clock, locals, history>>

\* "out of timer slots": the callbacks took them all.
RequeueThrows ==
  /\ pc = "settle"
  /\ ~Removed
  /\ ~FreeSlot
  /\ Abort

-----------------------------------------------------------------------------
(* eventloop_run.                                                          *)

\* Faulty variant: the time to the nearest timer as it is.
PollTimeoutsUnclamped(target) ==
  {IF target = NaN THEN 0 ELSE ((target - clock) \div Ms) * Ms}

\* The timeout of poll(), in ticks: the time to the nearest timer, clamped, cut
\* to whole milliseconds.  A NaN passes the clamp, and what (int) makes of it is
\* undefined: INT_MIN on x86-64, 0 on ARM.
PollTimeouts(target) ==
  IF target = NaN THEN {0, Forever}
  ELSE LET diff == target - clock
           clamped == IF diff < MinWait THEN MinWait
                      ELSE IF diff > MaxWait THEN MaxWait ELSE diff
       IN {(clamped \div Ms) * Ms}

\* Faulty variant: the timer that expired last stays.
EndRoundKeeps ==
  /\ pc = "expire"
  /\ ~RoundGoesOn
  /\ UNCHANGED timer_expiring

EndRound ==
  /\ pc = "expire"
  /\ ~RoundGoesOn
  /\ timer_expiring' = ZeroTimer

\* No timer is left: eventloop_run returns.
LoopEnds ==
  /\ EndRound
  /\ timer_list = <<>>
  /\ LeaveLoop
  /\ UNCHANGED <<timer_list, timer_next_id, eventTimers, clock, history>>

Sleep ==
  /\ EndRound
  /\ timer_list # <<>>
  /\ pc' = "poll"
  /\ now' = clock /\ sanity' = 0 /\ frame' = "timers"
  /\ \E timeout \in PollTimeouts(Nearest(timer_list).target) :
       wake' = IF timeout < 0 THEN Forever ELSE clock + timeout
  /\ UNCHANGED <<timer_list, timer_next_id, eventTimers, clock, history>>

\* poll() times out (at the end of the modelled time it is taken to do so).
Wake ==
  /\ pc = "poll"
  /\ wake # Forever
  /\ clock >= wake \/ clock = MaxClock
  /\ StartRound
  /\ UNCHANGED <<timer_list, timer_expiring, timer_next_id, eventTimers, clock, history>>

\* A signal ends poll() early (EINTR), which the loop treats as a timeout.
Interrupted ==
  /\ pc = "poll"
  /\ wake = Forever \/ clock < wake
  /\ StartRound
  /\ UNCHANGED <<timer_list, timer_expiring, timer_next_id, eventTimers, clock, history>>

Tick ==
  /\ clock < MaxClock
  /\ clock' = clock + 1
  /\ UNCHANGED <<timer_list, timer_expiring, timer_next_id, eventTimers, pc, locals,
                 history>>

-----------------------------------------------------------------------------
\* What the thread does of itself, as long as scripts return.
Progress ==
  \/ EvalRunsLoop \/ CallCallback \/ CallUndefined \/ CallbackReturns
  \/ DropTimer \/ RequeueTimer \/ RequeueThrows \/ LoopEnds \/ Sleep \/ Wake

Failure == EvalDies \/ CallbackThrows \/ CallbackDies \/ DropThrows

Next == EvalStart \/ Script \/ Progress \/ Failure \/ Interrupted \/ Tick

Spec == Init /\ [][Next]_vars

\* The thread is scheduled and time passes; no signal and no eval is owed to it.
Fairness == WF_vars(Progress) /\ WF_vars(Tick)

FairSpec == Spec /\ Fairness

-----------------------------------------------------------------------------
(* The loop implements TimerService: the list is the set of pending timers, *)
(* timer_expiring counts only while a callback is being dealt with.        *)

Promise == INSTANCE TimerService WITH
  pending <- Range(timer_list),
  running <- IF pc \in {"callback", "settle"} THEN {timer_expiring} ELSE {},
  issued <- timer_next_id - 1,
  time <- clock

\* Every step of the loop is a step of TimerService or leaves its state alone,
\* even when scripts die and slots run out (not when callbacks throw).
KeepsPromise == Promise!Spec

-----------------------------------------------------------------------------
(* Properties.                                                             *)

Pending == Ids(timer_list)
Running == IF pc \in {"callback", "settle"} THEN {timer_expiring.id} ELSE {}
CallStarts == pc # "callback" /\ pc' = "callback"

\* Type invariant.
TypeOK ==
  /\ timer_list \in Seq(Timer)
  /\ Len(timer_list) <= MaxTimers
  /\ timer_expiring \in Timer
  /\ timer_next_id \in 1 .. MaxId + 1
  /\ eventTimers \subseteq 1 .. timer_next_id - 1
  /\ clock \in 0 .. MaxClock
  /\ pc \in {"idle", "main", "expire", "callback", "settle", "poll"}
  /\ now \in 0 .. clock
  /\ sanity \in 0 .. MaxExpiries
  /\ frame \in {"timers", "error", "value"}
  /\ wake \in Nat \cup {Forever}
  /\ called \subseteq 1 .. timer_next_id - 1
  /\ cleared \subseteq 0 .. timer_next_id - 1
  /\ aborted \in BOOLEAN

\* c_eventloop.c:44: the list is sorted, whatever callbacks created and deleted
\* while one of its timers was out of it, and whatever errors cut in.
ListSorted == Sorted(timer_list)

\* An id names one timer: no two in the list share it, and a timer that is being
\* expired is not in the list as well, so that deleteTimer can find but one.
OneTimerPerId == DistinctIds(timer_list) /\ Pending \cap Running = {}

\* Whatever is pending can be called: its callback is in the table.
CallbackStored == Pending \cup Running \subseteq eventTimers

\* c_eventloop.c:37: a callback is in the table only as long as its timer is, at
\* least until a death, or a lack of slots, has cut a loop short.
CallbackDeleted == aborted \/ eventTimers \subseteq Pending \cup Running

\* A timer that nobody cleared stays in the list until its callback is called.
NothingLost ==
  1 .. timer_next_id - 1 \subseteq Pending \cup Running \cup called \cup cleared

\* Once clearTimeout or clearInterval has found a timer its callback is not called
\* again, be it pending, being expired, or left over from a loop that failed.
ClearedIsSilent == [][CallStarts => timer_expiring'.id \notin cleared]_vars

\* The callback of a one-shot timer is called once.
OneShotOnce ==
  [][CallStarts /\ timer_expiring'.oneshot => timer_expiring'.id \notin called]_vars

\* c_eventloop.c:206: the sleep fits.  It never outlasts the nearest timer by
\* more than the shortest sleep, nor MAX_WAIT, and it is not cut to nothing.
SleepFits ==
  pc = "poll" =>
    /\ wake - now \in 1 .. MaxWait
    /\ wake <= Nearest(timer_list).target \/ wake <= now + MinWait

\* c_eventloop.c:309: deleteTimer answers true for a timer that it found: if it is not in
\* the list then it is being expired.  (Of id 0, of no timer, this is not so, and a loop
\* that was cut short leaves its last timer in timer_expiring.)
TrueMeansFound ==
  [][(\E id \in 1 .. MaxId : MarkExpiring(id)) => pc = "callback" \/ aborted]_vars

\* XS.pm:195, eval runs the script "until all timers have been dispatched": a pending
\* timer is called or cleared some day, or else the loop is cut short.  That is not only
\* what a death does: when callbacks have filled the list, an interval that is to go back
\* finds no slot, and that ends the loop (c_eventloop.c:165), however many are pending.
AllDispatched ==
  \A id \in 1 .. MaxId :
    id \in Pending ~> id \in called \cup cleared \/ (aborted /\ pc = "idle")

=============================================================================
