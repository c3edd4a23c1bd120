------------------------------- MODULE Sessions -------------------------------
(***************************************************************************)
(* Several VMs over the one event loop that a process has: the statics of  *)
(* c_eventloop.c belong to all heaps, the tables of callbacks to one each. *)
(* A Perl sub that JavaScript calls may make, reset or destroy VMs and may *)
(* eval in any of them, the one that called it included, so that loops     *)
(* nest, and all of them work on the same list and on the same             *)
(* timer_expiring.                                                         *)
(*                                                                         *)
(* EventLoop treats one loop in detail.  Here time is abstracted: a timer  *)
(* is put anywhere into the list, and the last one may be due at any time, *)
(* or not be.                                                              *)
(***************************************************************************)
EXTENDS TimerList

CONSTANTS
  MaxTimers,      \* MAX_TIMERS
  Deaths,         \* a Perl sub may die in a VM made without catch_perl_exceptions
  Resets,         \* VMs are made, reset or destroyed after the first ones
  FirstHeaps,     \* VMs that the program makes before anything runs
  MaxHeaps,       \* bound of the model: heaps made
  MaxId,          \* bound of the model: timers created
  MaxDepth        \* bound of the model: evals inside each other

ASSUME SessionsAssumption ==
  /\ MaxTimers \in Nat
  /\ Deaths \in BOOLEAN /\ Resets \in BOOLEAN
  /\ MaxHeaps \in Nat /\ FirstHeaps \in 0 .. MaxHeaps
  /\ MaxId \in Nat /\ MaxDepth \in Nat

VARIABLES
  timer_list,     \* timer_list[0 .. timer_count-1]
  timer_expiring,
  timer_next_id,
  heaps,          \* heaps made so far: 1 .. heaps
  live,           \* those that are not destroyed
  eventTimers,    \* for each heap, the keys of its <global stash>.eventTimers
  frames,         \* the evals in progress, the innermost last
  owner,          \* history: the heap that created a timer
  called,         \* history: ids of the timers whose callback was entered
  cleared         \* history: ids that deleteTimer found

vars == <<timer_list, timer_expiring, timer_next_id, heaps, live, eventTimers, frames,
          owner, called, cleared>>
statics == <<timer_list, timer_expiring, timer_next_id>>
sessions == <<heaps, live>>
history == <<owner, called, cleared>>

\* struct ev_timer without its times; what memset(.., 0, ..) makes of one.
Slot == [id : Nat, oneshot : BOOLEAN, removed : BOOLEAN]
Unused == [id |-> 0, oneshot |-> FALSE, removed |-> FALSE]

\* An eval: its heap, where it is, whether eventTimers is where expire_timers looks
\* for callbacks, and (history) the timer that it took out of the list last.
Frame == [heap : Nat, stage : {"main", "expire", "callback", "settle"},
          table : BOOLEAN, took : Nat]

Init ==
  /\ timer_list = <<>>
  /\ timer_expiring = Unused
  /\ timer_next_id = 1
  /\ heaps = FirstHeaps
  /\ live = 1 .. FirstHeaps
  /\ eventTimers = [h \in 1 .. MaxHeaps |-> {}]
  /\ frames = <<>>
  /\ owner = [id \in 1 .. MaxId |-> 0]
  /\ called = {} /\ cleared = {}

-----------------------------------------------------------------------------
Top == frames[Len(frames)]
At(stages) == frames # <<>> /\ Top.stage \in stages

\* A script runs, or a callback.
JSRuns == At({"main", "callback"})

\* Perl code runs: the program, or a sub that a script or a callback called.
PerlRuns == frames = <<>> \/ JSRuns

Active == {frames[i].heap : i \in DOMAIN frames}

Pop == frames' = [i \in 1 .. Len(frames) - 1 |-> frames[i]]

TopBecomes(f) == frames' = [frames EXCEPT ![Len(frames)] = f]

\* A timer is written behind the last one and bubbled to its place, wherever that is.
Insert(list, p, t) ==
  [i \in 1 .. Len(list) + 1 |-> IF i < p THEN list[i] ELSE IF i = p THEN t ELSE list[i - 1]]

Queued(t) == \E p \in 1 .. Len(timer_list) + 1 : timer_list' = Insert(timer_list, p, t)

-----------------------------------------------------------------------------
(* VMs.                                                                    *)

\* Faulty variant: the ids start anew.
RegisterRestarts ==
  /\ timer_list' = [i \in DOMAIN timer_list |-> Unused]
  /\ timer_expiring' = Unused
  /\ timer_next_id' = 1

\* eventloop_register clears the array and timer_expiring, but not timer_count.
Register ==
  /\ timer_list' = [i \in DOMAIN timer_list |-> Unused]
  /\ timer_expiring' = Unused
  /\ UNCHANGED timer_next_id

\* An eval begins: its script, or its loop, is next.
Begins(h, stage) ==
  /\ Len(frames) < MaxDepth
  /\ frames' = Append(frames, [heap |-> h, stage |-> stage, table |-> TRUE, took |-> 0])

\* new and reset: set_up makes a heap, whose table is empty; reset has destroyed the
\* one of the VM before.  (To reset a VM whose script runs is undefined behaviour.)
\* Then it evals setTimeout and its kin, a script that only defines functions; what
\* follows of that eval, before new or reset returns, is the loop.
SetUp(gone) ==
  /\ PerlRuns /\ Resets
  /\ gone \subseteq live \ Active
  /\ heaps < MaxHeaps
  /\ heaps' = heaps + 1
  /\ live' = (live \ gone) \cup {heaps + 1}
  /\ Register
  /\ Begins(heaps + 1, "expire")
  /\ UNCHANGED <<eventTimers, history>>

New == SetUp({})
Reset(h) == SetUp({h})

\* DESTROY: the heap goes, the timers of its scripts stay in the list.
Destroy(h) ==
  /\ PerlRuns /\ Resets
  /\ h \in live \ Active
  /\ live' = live \ {h}
  /\ UNCHANGED <<statics, heaps, eventTimers, frames, history>>

-----------------------------------------------------------------------------
(* eval.                                                                   *)

Eval(h) ==
  /\ PerlRuns
  /\ h \in live
  /\ Begins(h, "main")
  /\ UNCHANGED <<statics, sessions, eventTimers, history>>

\* The script returned or threw: eventloop_run is next.
EvalRunsLoop ==
  /\ At({"main"})
  /\ TopBecomes([Top EXCEPT !.stage = "expire"])
  /\ UNCHANGED <<statics, sessions, eventTimers, history>>

\* croak() unwinds the evals from the innermost to one whose Perl code catches it, or
\* all of them.  (If that one is an eval of a heap that was unwound, what follows is
\* undefined behaviour.)
Dies ==
  /\ JSRuns /\ Deaths
  /\ \E n \in 0 .. Len(frames) - 1 :
       /\ \A i \in 1 .. n, j \in n + 1 .. Len(frames) : frames[i].heap # frames[j].heap
       /\ frames' = [i \in 1 .. n |-> frames[i]]
  /\ UNCHANGED <<statics, sessions, eventTimers, history>>

-----------------------------------------------------------------------------
(* Scripts.                                                                *)

\* Faulty variant: one timer too many fits.
FreeSlotOffByOne == Len(timer_list) <= MaxTimers

FreeSlot == Len(timer_list) < MaxTimers

\* create_timer
CreateTimer(oneshot) ==
  /\ JSRuns
  /\ FreeSlot /\ timer_next_id <= MaxId
  /\ Queued([id |-> timer_next_id, oneshot |-> oneshot, removed |-> FALSE])
  /\ timer_next_id' = timer_next_id + 1
  /\ eventTimers' = [eventTimers EXCEPT ![Top.heap] = @ \cup {timer_next_id}]
  /\ owner' = [owner EXCEPT ![timer_next_id] = Top.heap]
  /\ UNCHANGED <<timer_expiring, sessions, frames, called, cleared>>

\* delete_timer: the timer that some loop, not necessarily the one around this
\* script, put into timer_expiring last.
MarkExpiring(id) ==
  /\ JSRuns
  /\ id = timer_expiring.id
  /\ timer_expiring' = [timer_expiring EXCEPT !.removed = TRUE]
  /\ cleared' = cleared \cup {id}
  /\ UNCHANGED <<timer_list, timer_next_id, sessions, eventTimers, frames, owner, called>>

\* delete_timer: a timer of the list, whoever created it.
DeleteTimer(id) ==
  /\ JSRuns
  /\ id # timer_expiring.id
  /\ id \in Ids(timer_list)
  /\ timer_list' = Delete(timer_list, FirstIndex(timer_list, id))
  /\ eventTimers' = [eventTimers EXCEPT ![Top.heap] = @ \ {id}]
  /\ cleared' = cleared \cup {id}
  /\ UNCHANGED <<timer_expiring, timer_next_id, sessions, frames, owner, called>>

-----------------------------------------------------------------------------
(* The loop.                                                               *)

\* Faulty variant: a one-shot is not marked.
ExpiredUnmarked(t) == t

Expired(t) == IF t.oneshot THEN [t EXCEPT !.removed = TRUE] ELSE t

\* Faulty variant: timer_count stays as it is.
ListKept == timer_list

ListAfterTake == WithoutNearest(timer_list)

\* The last timer is due.
Take ==
  /\ At({"expire"})
  /\ timer_list # <<>>
  /\ timer_expiring' = Expired(Nearest(timer_list))
  /\ timer_list' = ListAfterTake

\* Its callback is in the table of the heap whose loop it is.
CallbackFound == Top.table /\ Nearest(timer_list).id \in eventTimers[Top.heap]

CallCallback ==
  /\ Take
  /\ CallbackFound
  /\ TopBecomes([Top EXCEPT !.stage = "callback", !.took = Nearest(timer_list).id])
  /\ called' = called \cup {Nearest(timer_list).id}
  /\ UNCHANGED <<timer_next_id, sessions, eventTimers, owner, cleared>>

\* There is none: the call of undefined is an Error, which then hides the table.
CallUndefined ==
  /\ Take
  /\ ~CallbackFound
  /\ TopBecomes([Top EXCEPT !.stage = "settle", !.table = FALSE,
                            !.took = Nearest(timer_list).id])
  /\ UNCHANGED <<timer_next_id, sessions, eventTimers, history>>

CallbackReturns ==
  /\ At({"callback"})
  /\ TopBecomes([Top EXCEPT !.stage = "settle"])
  /\ UNCHANGED <<statics, sessions, eventTimers, history>>

\* Faulty variant: only one-shots are done with.
RemovedIfOneShot == timer_expiring.oneshot

Removed == timer_expiring.removed

\* What is in timer_expiring by now is dropped, or goes back into the list, be it the
\* timer that this loop had taken or not.
DropTimer ==
  /\ At({"settle"})
  /\ Removed
  /\ eventTimers' = IF Top.table
                    THEN [eventTimers EXCEPT ![Top.heap] = @ \ {timer_expiring.id}]
                    ELSE eventTimers
  /\ TopBecomes([Top EXCEPT !.stage = "expire"])
  /\ UNCHANGED <<statics, sessions, history>>

RequeueTimer ==
  /\ At({"settle"})
  /\ ~Removed
  /\ FreeSlot
  /\ Queued(timer_expiring)
  /\ TopBecomes([Top EXCEPT !.stage = "expire"])
  /\ UNCHANGED <<timer_expiring, timer_next_id, sessions, eventTimers, history>>

\* "out of timer slots" ends the loop; pl_eval catches the error.
RequeueThrows ==
  /\ At({"settle"})
  /\ ~Removed
  /\ ~FreeSlot
  /\ Pop
  /\ UNCHANGED <<statics, sessions, eventTimers, history>>

\* The round is over: the next one begins after a sleep.
RoundEnds ==
  /\ At({"expire"})
  /\ timer_list # <<>>
  /\ timer_expiring' = Unused
  /\ TopBecomes([Top EXCEPT !.table = TRUE])
  /\ UNCHANGED <<timer_list, timer_next_id, sessions, eventTimers, history>>

\* No timer is left: the eval returns to the Perl code that called it.
LoopEnds ==
  /\ At({"expire"})
  /\ timer_list = <<>>
  /\ timer_expiring' = Unused
  /\ Pop
  /\ UNCHANGED <<timer_list, timer_next_id, sessions, eventTimers, history>>

-----------------------------------------------------------------------------
Next ==
  \/ New \/ \E h \in live : Reset(h) \/ Destroy(h) \/ Eval(h)
  \/ EvalRunsLoop \/ Dies
  \/ \E oneshot \in BOOLEAN : CreateTimer(oneshot)
  \/ \E id \in 0 .. timer_next_id - 1 : MarkExpiring(id) \/ DeleteTimer(id)
  \/ CallCallback \/ CallUndefined \/ CallbackReturns
  \/ DropTimer \/ RequeueTimer \/ RequeueThrows \/ RoundEnds \/ LoopEnds

Spec == Init /\ [][Next]_vars

-----------------------------------------------------------------------------
(* Properties.                                                             *)

Pending == Ids(timer_list)
CallStarts == At({"expire"}) /\ At({"callback"})' /\ Len(frames') = Len(frames)

\* Type invariant.
TypeOK ==
  /\ timer_list \in Seq(Slot)
  /\ Len(timer_list) <= MaxTimers
  /\ timer_expiring \in Slot
  /\ timer_next_id \in 1 .. MaxId + 1
  /\ heaps \in 0 .. MaxHeaps
  /\ live \subseteq 1 .. heaps
  /\ eventTimers \in [1 .. MaxHeaps -> SUBSET (1 .. timer_next_id - 1)]
  /\ frames \in Seq(Frame)
  /\ Active \subseteq live
  /\ \A i \in 1 .. Len(frames) - 1 : frames[i].stage \in {"main", "callback"}
  /\ owner \in [1 .. MaxId -> 0 .. heaps]
  /\ called \subseteq 1 .. timer_next_id - 1
  /\ cleared \subseteq 0 .. timer_next_id - 1

\* Whichever VM's loop takes a timer out of the shared list, its callback is only run
\* in the heap that created it, and never in the heap that a reset put in its place.
OwnCallbacks ==
  \A i \in DOMAIN frames :
    frames[i].stage = "callback" => owner[frames[i].took] = frames[i].heap

\* Apart from zeroed slots an id names one timer of the list, and what a loop is about
\* to settle is not in the list as well, however loops nest and die: deleteTimer finds
\* but one, and no requeue doubles a timer.
OneTimerPerId ==
  /\ \A i, j \in DOMAIN timer_list :
       timer_list[i].id = timer_list[j].id => i = j \/ timer_list[i].id = 0
  /\ At({"callback", "settle"}) =>
       timer_expiring.id = 0 \/ timer_expiring.id \notin Pending

\* A timer that deleteTimer found is not called again, even if nested loops have put
\* other timers into timer_expiring meanwhile, or taken the outer one's away.
ClearedIsSilent == [][CallStarts => timer_expiring'.id \notin cleared]_vars

\* The callback of a one-shot timer is called once, whichever loop takes it, and though
\* an outer loop may settle what an inner one left in timer_expiring.
OneShotOnce ==
  [][CallStarts /\ timer_expiring'.oneshot => timer_expiring'.id \notin called]_vars

\* c_eventloop.c:43: the list is dense, it has no unused slot (c_eventloop.c:31: the id
\* is zero if unused) before its end.  Such a slot never leaves: it has no callback, is
\* not removed and so goes back into the list each time, and the loop that meets it does
\* not end, be it that of an eval, or of the new or reset that zeroed it (duk.xs:68).
ListDense == 0 \notin Pending
=============================================================================
