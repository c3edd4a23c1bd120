# A formal model of JavaScript::Duktape::XS

JavaScript::Duktape::XS embeds the Duktape engine in Perl. A Perl program makes
VMs, evaluates scripts in them, sets and reads globals, and hands Perl subs to
JavaScript as callbacks. The extension adds to the engine an event loop with
timers, a Node-like `require`, limits on memory and time, a console and
statistics. This directory holds TLA+ specifications of the parts of it that
are hard to get right, the TLC configurations that check them on small
instances, and proofs, checked by TLAPS, of what holds for every instance.

Everything runs in one thread. What makes the code hard is not parallelism but
re-entrancy (JavaScript calls Perl, which evaluates JavaScript), state that
lives longer than a call (statics of C, objects in the stash of a VM), time,
and two ways to fail that undo different things: a JavaScript error, which
`duk_pcall` and `duk_safe_call` catch, and `croak()`, a `longjmp` that passes
every C frame of the extension and of the engine.

## 1. Inventory

| Part | Source | State | Operations | Calls, and is called by |
|---|---|---|---|---|
| Event loop | `c_eventloop.c` | statics `timer_list`, `timer_count`, `timer_expiring`, `timer_next_id`; the table `eventTimers` in the global stash | `create_timer`, `delete_timer`, `expire_timers`, `eventloop_run`, `eventloop_register` | called by scripts through `EventLoop`, by `pl_eval`; calls the callbacks |
| Timer functions | `pl_inlined.c`, `pl_eventloop.c` | none | `setTimeout`, `setInterval`, `clearTimeout`, `clearInterval`; `dispatch_function_in_event_loop` | JavaScript over `EventLoop` |
| Entries of a VM | `pl_duk.c` | value stack of the context | `pl_eval`, get, set, exists, typeof, instanceof, remove, GC | called by Perl through `duk.xs` |
| Calls of Perl subs | `pl_duk.c` | a C function object per sub, with a pointer to it | `pl_call_perl_sv`, `perl_caller` | called by scripts and by the module loader; dies or throws |
| Conversion of values | `pl_duk.c` | static `seen`, static `skip_func_create` | `pl_duk_to_perl`, `pl_perl_to_duk` | every entry and every call of a Perl sub |
| Module loader | `duk_module_node.c`, `pl_module.c` | `requireCache`, `modResolve`, `modLoad` in the stash; module objects | `require`, `delete require.cache[id]` | called by scripts and by sources of modules; calls two Perl handlers |
| Memory limit | `pl_sandbox.c` | `total_allocated_bytes`, a header per block | alloc, realloc, free | called by the engine |
| Time limit | `pl_sandbox.c`, `duk.xs` | `eval_start_us`, `max_timeout_us` | `pl_exec_timeout`, `TIMEOUT_RESET` | polled by the engine; reset by every entry |
| Sessions | `duk.xs` | the `Duk` struct of a VM | `new`, `reset`, `DESTROY` | called by Perl; registers all of the above |
| Error reports | `pl_util.c`, `duk_console.c` | value stack | `check_duktape_call_for_errors`, `duk_console_log` | called after every protected call |
| Console, statistics, native functions | `pl_console.c`, `pl_stats.c`, `pl_native.c` | saved messages, sums of times | log, save, `print` | called by scripts and entries |
| Engine | `duktape.c` | (vendored) | | external: seen through how the rest uses it |

What is hard, and what makes each part correct:

* **Event loop.** Callbacks create and delete timers while the loop holds one
  of them outside its list; a callback may delete the very timer that is being
  expired; errors and deaths cut rounds short and leave statics behind; slots
  run out; delays may be 0, huge or NaN; a round expires at most
  `MAX_EXPIRIES` timers; `poll()` takes whole milliseconds. Correct means: the
  list is sorted, an id names one timer, a cleared timer stays silent, a
  one-shot is called once, no timer is lost, the sleep is neither too long nor
  cut to nothing, and every timer is called in the end, or the loop is cut short.
* **Module loader.** `require` calls out three times, and each callee may
  require, throw, eval or die. Correct means: an id is not loaded twice at a
  time, a cycle finds the object being loaded, a failure takes exactly the
  module that failed out of the cache, a loaded module keeps its object.
* **Sessions.** All VMs of the process share the statics of the event loop.
  Correct means that a VM does not run, lose or resurrect another's timers.
* **Conversion of values.** One static map serves every conversion, and
  conversions nest: a getter or a tied variable runs code that converts again,
  which empties the map under the outer conversion. Correct means: callers get
  complete copies, what is shared stays shared, calls of the program share
  nothing, cycles end, and every conversion returns.
* **Entries of a VM.** Entries push and pop by hand, call out in the middle,
  fail at several points, and are entered again by the Perl subs they call.
  Correct means: an entry leaves what it found on the stack untouched, answers
  with its own value, and leaves nothing behind when it succeeds.
* **Memory limit.** The unsigned sum of the live blocks must not go wrong,
  whatever `realloc` and `malloc` do. Correct means: the total is what the
  engine holds, within the limit, and nothing is refused that fits.
* **Time limit.** Every entry, nested ones too, starts the clock again.

`PROJECT.json` lists each of these hazards at the line where it bites, with the
properties that watch over it, or the reason why none does.

## 2. Modules

| Module | What it is |
|---|---|
| `TimerList` | the array of timers as a value: nearest, insertion (`BubbleLast`), deletion, order; comparison of doubles with NaN |
| `Bubble` | `bubble_last_timer`, one iteration of the C loop per step |
| `TimerService` | the abstract specification: what `setTimeout` and its kin promise, over a set of timers |
| `EventLoop` | `c_eventloop.c` with `pl_eval` around it; `Promise` instantiates `TimerService` with the refinement mapping |
| `ModuleLoader` | `duk__handle_require` and the Perl handlers, over a stack of frames |
| `Sessions` | `new`, `reset`, `DESTROY` and nested `eval`s of several VMs over the one set of statics of `c_eventloop.c` |
| `Sandbox` | the allocator of `pl_sandbox.c`, over memory whose regions are told apart from what the headers say |
| `Marshal` | `pl_duk_to_perl` and `pl_perl_to_duk`: graphs of objects, the map `seen`, a C stack of sources in work |
| `Temporaries` | `Marshal` with objects that accessors make, which are freed in the middle and whose addresses are used again |
| `Entries` | the entries of `pl_duk.c` and `pl_eventloop.c` over the value stacks of the engine, nested in Perl subs |
| `MCBubble`, `MCEventLoop`, `MCModuleLoader`, `MCSessions`, `MCSandbox`, `MCMarshal`, `MCTemporaries`, `MCEntries` | the instances for TLC |
| `TimerList_proofs`, `Bubble_proofs`, `EventLoop_proofs`, `ModuleLoader_proofs`, `Sessions_proofs`, `Sandbox_proofs`, `Marshal_proofs`, `Entries_proofs` | theorems |

`EventLoop`, `Sessions` and `TimerService` extend `TimerList`; so does `Bubble`, which
justifies that `EventLoop` takes the loop of `bubble_last_timer` in one step:
`BubbleComputed` says that the C loop computes `BubbleLast`. In the same way
`Entries` takes a conversion in one step, at which scripts and Perl code may
run; what goes on inside it is `Marshal`.

### How `EventLoop` corresponds to the code

`timer_list` is `timer_list[0 .. timer_count-1]`, the timer that expires first
at its end; `timer_expiring` and `timer_next_id` are the statics of these
names; `eventTimers` is the set of keys of the callback table. `pc` says where
the thread is: `idle` (in Perl), `main` (the script of `pl_eval`), `expire`
(the head of the loop of `expire_timers`), `callback` (in a callback), `settle`
(after it) and `poll`. `now`, `sanity` and `wake` are C locals. `called`,
`cleared` and `aborted` are history.

| Action | Code |
|---|---|
| `EvalStart`, `EvalRunsLoop`, `EvalDies` | `pl_eval`: the script runs, then `eventloop_run`, or croaks |
| `CreateTimer` | `create_timer`, whole: clamp of the delay, slot, id, insertion, callback |
| `MarkExpiring`, `DeleteTimer` | the two branches of `delete_timer` |
| `CallCallback`, `CallUndefined` | `expire_timers` takes the nearest timer out and calls what it finds for it |
| `CallbackReturns`, `CallbackThrows`, `CallbackDies` | the three ways a callback ends |
| `DropTimer`, `DropThrows`, `RequeueTimer`, `RequeueThrows` | what the code does with the timer then |
| `LoopEnds`, `Sleep`, `Wake`, `Interrupted` | `eventloop_run` around `poll()`, the computation of its timeout included |
| `Tick` | the clock, which may advance between any two steps |

`frame` is the one piece of the value stack that matters. `duk_console_log`
pushes two values and pops one; after an `Error` was reported, the error stays
where `expire_timers` expects `eventTimers`, and the code looks callbacks up in
it. `frame` says which of the two stands there, or the string that a thrown
value was made into.

`nomem` is the refusal of the allocator, under `max_memory_bytes`, to store a
callback whose timer is already in the list.

### How `ModuleLoader` corresponds to the code

`requireCache` maps an id to the index of its object, or `None`; `module` is
the objects made so far. `frames` is what the C stack and the engine's call
stack hold: scripts that `pl_eval` runs, and calls of `require` in one of their
stages `resolve` (the resolve handler runs), `load` (the load handler runs) and
`source` (the source runs). `throwing` says that an error is on its way out of
the innermost frame: the code there may catch it (`Catches`), or it leaves.

| Action | Code |
|---|---|
| `Eval`, `EvalReturns` | `pl_eval`, by the program or by a handler |
| `Throws`, `Catches` | the code of a script or of a source, its compilation included |
| `Require`, `ResolveThrows`, `UseCached`, `StartLoading` | `duk__handle_require` up to the call of the load handler |
| `LoadThrows`, `LoadReturns`, `SourceReturns`, `SourceThrows` | the rest of it, with `duk__eval_module_source` |
| `DeleteCached` | a script deletes an entry of `require.cache` |
| `Dies` | `croak()` under any of it |

A handler's result passes through `pl_perl_to_duk`, which makes `null` of
`undef`: the branch of the code for an `undefined` source cannot be reached and
is not in the model; a `null` source is an error (`LoadThrows`).

### How `Sessions` corresponds to the code

`EventLoop` has one VM whose evals do not nest, and time; `Sessions` has several
VMs whose evals nest, those that `new` and `reset` run themselves included, and
abstracts time: a timer is inserted at any place of
the list, and the last timer may be due at any time, or not be. Order, sleeps
and delays are `EventLoop`'s subject, as are errors that callbacks throw.

The statics are as above, without times. `heaps` counts the heaps made, `live`
are those that exist, `eventTimers` has a table for each. `frames` is the stack
of evals in progress, each with its heap and its stage, which are those of
`pc` in `EventLoop`; `table` says whether `expire_timers` still finds
`eventTimers` on its value stack. `owner`, `called`, `cleared` and the `took`
of a frame are history.

| Action | Code |
|---|---|
| `New`, `Reset` | `create_duktape_object` and `reset` of `duk.xs`: `set_up` makes a heap, calls `eventloop_register`, which zeroes the slots and not `timer_count`, and evals `setTimeout` and its kin, so that the loop of an eval is next (`Begins`) |
| `Destroy` | `destroy_duktape_object`: the heap goes, its timers stay in the list |
| `Eval`, `EvalRunsLoop`, `LoopEnds` | `pl_eval`: the script, then `eventloop_run` |
| `Dies` | `croak()` unwinds evals, from the innermost to the one whose Perl code catches it |
| `CreateTimer`, `MarkExpiring`, `DeleteTimer` | `create_timer`, the branches of `delete_timer` |
| `CallCallback`, `CallUndefined`, `CallbackReturns`, `DropTimer`, `RequeueTimer`, `RequeueThrows`, `RoundEnds` | `expire_timers`, and the loop of `eventloop_run` around it |

Perl code can make, reset or destroy VMs and eval in them wherever JavaScript
called a Perl sub. Left out are the cases that are undefined behaviour, without
a definite set of outcomes: to reset or destroy the VM whose script is running,
and to catch a death in an eval of a heap that the death has unwound.

### How `Sandbox` corresponds to the code

`regions` is what `malloc` has given out, `hdr` the sizes in the headers,
`total_allocated_bytes` the sum that the code keeps. The code sees only the
last two; the properties compare them with the first. Sums and differences are
taken modulo `SizeMod`. `last` is the last request and its answer.

| Action | Code |
|---|---|
| `Alloc`, `AllocRefused`, `AllocFails` | `pl_sandbox_alloc`, and `pl_sandbox_realloc` of no block: given, refused by the limit, refused by the system |
| `Realloc`, `ReallocRefused`, `ReallocFails` | `pl_sandbox_realloc` of a block, which may move, also over its own bytes |
| `Free` | `pl_sandbox_free`, and `pl_sandbox_realloc` to no bytes |

### How `Marshal` corresponds to the code

`graph` holds the slots of each source, in the order in which they are read: an
array, hash or object, or what a getter or a tie runs (`Active`), a hole, a
plain value, or a value that the code croaks at (`Bad`). `made` are the targets,
`seen` the static map, `frames` the recursion: the source, its target, the next
slot, and whether the conversion began there. `calls`, `begun`, `disturbed`,
`croaked` and `handed` are history. The two directions differ at holes only:
JavaScript's are read as such, and the loop over a Perl array breaks at the
first, which loses the rest of the array. `Whole` says that every slot is there,
and excepts these arrays (`Holed`), for which it is not so.

| Action | Code |
|---|---|
| `ConvertNew`, `ConvertSeen`, `ConvertOther` | a call of `pl_duk_to_perl` or `pl_perl_to_duk`, by the program or by code that a slot runs, of a source that the map does not know, or does, or of any other value |
| `GetPlain`, `GetSeen`, `GetNew` | one turn of the loops over elements and keys: a plain value, a source in the map, one that is made, remembered, and entered |
| `Return`, `ReturnToCaller` | the end of a loop; of the outermost one, with `hv_clear(seen)` |
| `Croak` | a conversion is cut short: `croak()` at a value that cannot be converted, an accessor that throws and is caught by a script, a tie that dies; frames go, the map stays |

`Temporaries` adds which of the objects that have been at an address is there
(`object`) and of which one each target was made (`origin`). `Reused` is the
`duk_pop` that frees an object no frame works on, and the engine's next
allocation at its address; all else is `Marshal` (`Converts`).

### How `Entries` corresponds to the code

`stacks` are the value stacks: the program's, and one for each call of a Perl
sub, which the engine gives to C functions. A value is what it is, and the call
that it is from. `frames` are the entries and calls of subs on the C stack, each
with the place it is at: Perl code (`perl`), before compiling (`ready`), in a
script (`script`), at a global or a property (`global`, `property`, where
accessors may run), in a conversion to Perl (`convert`) or from it (`fetch`), in
the event loop (`loop`). `deep` counts the arrays and hashes that a conversion
from Perl is in the middle of, each of which is on the stack. `last` is how the
last call ended and what it left, `spoilt` are the calls in whose conversion
another has failed.

| Action | Code |
|---|---|
| `Deeper`, `Shallower` (and `FetchEnds`, `Fetched`) | `pl_perl_to_duk`: an array or hash is pushed before its elements, any other value after the code that it is tied to has run |
| `ConvertCroaks` | `croak()` in `pl_duk_to_perl`, of an answer or an argument: the value stays on the stack, and for each level an element, or an enumerator, a key and a value; an eval does not come to its loop |
| `Eval`, `Compiles`, `CompileFails`, `ScriptReturns`, `ScriptThrows`, `Converts`, `LoopReturns`, `LoopFails` | `pl_eval` with `check_duktape_call_for_errors` and `duk_console_log` |
| `Dispatch`, `Dispatched`, `DispatchFails` | `pl_run_function_in_event_loop` |
| `Find`, `PathFound`, `FoundOne`, `FoundObject`, `FoundToConvert`, `GetConverts`, `NotFound` | exists, typeof, get, instanceof over `find_global_or_property` |
| `SetName`, `SetConverts`, `SetsGlobal`, `SetsProperty`, `SetCroaks`, `SetFails` | `pl_set_global_or_property` |
| `RemoveName`, `RemovesGlobal`, `RemovesProperty`, `RemoveFails` | `pl_del_global_or_property` |
| `NameAborts`, `RemoveAborts` | an error outside of any protected call, of a global that `remove` may not delete among them: `duk_fatal_error_handler` |
| `CallSub`, `SubStarts`, `SubReturns`, `SubAnswers`, `SubThrows`, `SubDies` | `perl_caller` and `pl_call_perl_sv` |

A death unwinds the C stack to the program, and the value stacks stay as they
are; one that a sub of the same VM catches is undefined behaviour and left out.
So is an error of the engine that an entry in a sub meets while a script is
running further out: it unwinds Perl's own frames. Setters that objects just
made inherit from their prototypes are left out as well.

## 3. Runs

| Run | Instance | Shows |
|---|---|---|
| `bubble` | 8 timers (two of each target 1, 2, 3, NaN), 4 slots | the C loop of `bubble_last_timer` sorts, and computes `BubbleLast`, ties and NaN included |
| `loop` | 2 slots, 1 expiry per round, 3 ids, delays below `MIN_DELAY` and beyond `MAX_WAIT`; scripts may die, the list may be full; fairness | implementation of `TimerService`; callbacks kept exactly as long as their timers; no timer lost; sleeps that fit; every pending timer is called or cleared, or the loop is cut short; `deleteTimer` finds a timer outside the list only while a callback runs or after a loop that was cut short |
| `loop_faults` | 2 expiries per round, all faults, NaN delays | what holds whatever fails: order, unique ids, silence of cleared timers, one call per one-shot |
| `modules` | 3 ids, one of them deleted by scripts, 4 objects, 7 frames | no id loaded twice at a time; the cache holds what is loaded, being loaded, or left by a death; the life of an id |
| `sessions` | 2 VMs, of which the second may be made, and the first reset or destroyed, at any time; 2 slots, 3 ids, 3 evals inside each other, deaths | callbacks run in their own heap, ids name one timer, cleared timers stay silent, one-shots are called once, however loops nest |
| `sandbox` | 12 addresses, headers of 2, blocks up to 10, a limit of 7, sums modulo 13 | the total is what is live, within the limit; only what would exceed it is refused |
| `marshal` | all graphs of 2 objects with up to 2 slots, both directions, 2 conversions, getters, and what cuts a conversion short | until then whole copies, and calls apart; where no code runs in the middle sharing kept, and no source twice on the stack; every conversion returns |
| `entries` | 4 entries or calls of subs, nested in all ways, with ties; 2 levels of arrays and hashes; calls find at most 1 value on their stack | what is below an entry is kept, answers are its own, and nothing is left by calls that succeed |
| `lost` | thrown Errors | violated: see below |
| `ghosts` | 1 VM, reset | violated |
| `reused` | 2 objects, of which accessors make the second | violated |
| `stash` | 1 entry | violated |

The last four each refute a statement that the repository makes.

* `lost`: `XS.pm:195` says that eval waits until all timers have been
  dispatched. A callback that throws an `Error` leaves it on the value stack of
  `expire_timers`, and the timers that expire later in the round are dropped
  without a call.
* `ghosts`: `c_eventloop.c:43` says that the list is dense. A VM made or reset
  while timers are pending leaves that many zeroed slots in it. They are due at
  once, have no callback, and go back into the list each time they are taken: a
  loop that meets them does not end. The first to meet them is the loop that
  `new` or `reset` runs itself, so that neither returns. `DenseIfFlat` says when
  the statement is true.
* `reused`: `XS.pm:161` says that nested structures are converted correctly. The
  map knows objects by address and does not keep them alive. What an accessor
  makes for its caller is freed once it is converted; the next one may get its
  address, and is taken for it: both slots get the first one's copy.
* `stash`: `XS.pm:195` says that eval returns the results of the code, and
  `pl_util.c:80` that a thrown value that is no `Error` is made a string. It is,
  but `duk_console_log` leaves the stash of the thread on top of it, which
  `pl_eval` takes for the result: a hash with the address of the VM's structure
  as if it were a scalar.

### What else was met

These have no run of their own. The models have them, or leave them out, as
told.

* Callbacks that create timers may take the slot of the interval that is being
  called: `RequeueThrows` then ends the loop with timers pending, no script
  having failed, although `XS.pm:195` says that eval waits for all of them. The
  next eval goes on with them. `AllDispatched` excepts loops that were cut short,
  by this or by a death; in the run both happen.
* A Perl array with a hole loses all that comes after it (`pl_duk.c:227-230`),
  although `XS.pm:130` says that nested structures are handled correctly.
  `Marshal` has it; `Whole` excepts these arrays.
* NaN as a delay passes the clamp that `c_eventloop.c:206` relies on; the
  conversion to `int` is undefined, and on x86-64 gives a timeout with which
  `poll()` does not return. `EventLoop` has it; `SleepFits` is checked without
  NaN among the `Delays`, and fails with it.
* `deleteTimer(0)` answers true (`c_eventloop.c:308` says it answers whether a
  timer was found): the id is compared with that of `timer_expiring` while none
  is being expired. After a loop that was cut short it answers so for the id of
  the timer that is left there, too. `TrueMeansFound` speaks of ids from 1, and
  of loops that were not cut short.
* A Perl sub that dies in the middle of a `require`, in a VM without
  `catch_perl_exceptions`, leaves the half-loaded module in the cache, and later
  `require`s return it (`duk_module_node.c:97` says it is removed). `ModuleLoader`
  has these orphans.
* A callback that calls a sub that evals: the loop of the inner `eval` clears
  `timer_expiring` (`c_eventloop.c:174`), and the outer loop then puts the cleared
  slot into the list, as nothing says that it is to be dropped. No reset is
  needed; the outer `eval` does not return any more, and if the timer was an
  interval it is lost. `Sessions` has it; with `Resets` false and `MaxDepth` 2
  TLC finds `ListDense` violated after nine steps.
* The loop of one VM takes the timers of another out of the list they share,
  finds no callback and drops the one-shots. `Sessions` has it.
* A conversion that croaks, or in which an accessor throws that a script
  catches, leaves its unfinished copy in `seen`; the next conversion of the same
  structure returns it. `Marshal` has it: `Whole` and `CallsApart` claim nothing
  after it.
* A conversion that croaks leaves on the value stack what it has pushed, for each
  level that it is in: to JavaScript an array or object, to Perl an element, or
  an enumerator, a key and a value. The VM lives on with them. `Entries` has it;
  `Balanced` says what holds.
* A path whose object is null or undefined, an accessor that throws, a class
  that is none, `remove` of a global that cannot be deleted: the engine
  aborts the process, as these are used outside of any protected call
  (`NameAborts`).
* `remove` of a path that fails pops its error first, and then shows, and makes
  text of, whatever another call has left on the stack; with nothing there it
  aborts (`RemoveFails`, `RemoveAborts`).
* `set` of a sub stores a pointer to the caller's scalar: when the caller
  assigns to it, the function calls something else; when the name is set again
  or removed, copies of the function that scripts have point to freed memory.
  Its static flag `skip_func_create` stays set when a tied scalar's `FETCH`
  dies, and the next sub that is converted is not made. Not modelled.

### Bounds, and why they are enough

`MaxId`, `Horizon` and `MaxClock` stop the event loop's state space: timers
created, the last instant at which one is, and the end of time, at which a
sleeping `poll()` is taken to return. Two slots are enough to have the list
full, and full again when an interval wants its place back; three ids let a
slot be used anew; two ticks per millisecond let a wait be no whole number of
milliseconds. The delays are one below `MIN_DELAY` (clamped), one that is odd
and longer than `MAX_WAIT` and, where it matters, NaN. In `loop_faults` the
clock runs long enough for an interval to come due a second time.
`MAX_EXPIRIES` is 1 in `loop`, so that more timers are due than a round may
expire, and 2 in `loop_faults`, so that a round goes on after a failure. In
`loop` three ids and two slots let callbacks take the slot of an interval that
is being called. As time ends there, that intervals starve another timer for
ever could not show; `ListSorted` excludes it, for an interval goes back at
`now` plus its delay, behind all that is due.

`MaxModules` and `MaxDepth` bound objects and frames of the loader: seven frames
hold a script, three nested requires and evals of handlers in between, four
objects a failure, a second attempt and a cycle beside it.

In `Sessions` two VMs, three timers, two slots and three evals inside each
other are enough for a loop to find in `timer_expiring` another's timer, a
timer that a death left, or a zeroed slot, with the list full or not, and for a
VM to be made, which evals, inside an eval inside another. `ghosts` needs two.
The run does not ask for deadlocks: the program may destroy all its VMs and
stop.

In `Sandbox` sizes wrap at 13, just above memory, so that sums that wrap are
near; a limit of 7 with blocks up to 10 makes the limit bite for one block and
for several, and lets blocks of up to 10 be asked for that it must refuse.
Moves go to any free place, over the old one too.

In `Marshal` two objects with two slots each give every cycle, self-reference
and sharing that one map entry can get wrong; two conversions let one run in
the middle of the other, or after it. `MCMarshal` takes of graphs that differ in
the numbers of their objects only some (`Ordered`): the numbers mean nothing.
Four frames are room for the one inside the other. In `Entries` four calls let
an entry call a sub that enters again and calls a sub, or let two entries find
what a third has left; `Ties` lets Perl code run while a value is converted, and
two levels let a conversion fail with more than one array in work (`MaxLevels`).
A conversion that fails two levels deep leaves up to seven values; the run
checks that state, and goes on from those in which a call finds no more than
`MaxBase` values on its stack: one is enough for a call to take what is not its
own.
`reused` needs no more than one conversion and two lives at an address.

All these bounds are parameters, and the theorems hold for all their values.
`marshal`, `entries` and `reused` do not ask for deadlocks: when the bounded
calls are used up, nothing is left to do; an abort ends the process.

### Fairness

`FairSpec` asks for weak fairness of `Progress`, what the thread does of itself,
and of `Tick`. It is one thread that the operating system schedules, and time
passes. No script, no signal and no eval is owed to anybody; that scripts
return is part of `Progress` (`CallbackReturns`, `EvalRunsLoop`), and without it
no event loop can promise anything. A loop that was cut short owes nothing more,
as no eval need follow. In `loop` no callback throws: then the promise is false,
as `lost` shows.

`Marshal`'s `FairSpec` asks for weak fairness of `Step`: the recursion is C code
of one thread. Code that a slot runs returns some day (`Gets` of `Active` is
part of `Step`), and it may convert only `MaxCalls` times: a getter that hands
out new objects for ever is not converted to an end by anything.

## 4. Proofs

The proofs are about the same modules that TLC runs, with all constants free
under the assumptions `EventLoopAssumption`, `BubbleAssumption`,
`ModuleLoaderAssumption`, `SessionsAssumption`, `SandboxAssumption`,
`MarshalAssumption` and `EntriesAssumption`, which TLC evaluates in its runs.

* `TimerList_proofs`: lemmas about `BubbleLast`, `Queue` and `Delete`: they
  keep the list sorted, its ids distinct, and change its set of timers by the
  one timer concerned. With NaN the order is partial; the order survives
  because a bubble never stops at a NaN, so that the timer it stops at is
  comparable with all those that matter.
* `Bubble_proofs`: `BubbleTypeCorrect`, `BubbleSortedAtRest` and
  `BubbleIsBubbleLast`. The invariant says that the list with the moving timer
  taken out is as it was, and that all timers that it passed expire before it.
* `EventLoop_proofs`: `TypeCorrect`, `ListIsSorted`, `IdsNameOneTimer`,
  `ClearedStaysSilent`, `OneShotsCalledOnce`, for every set of faults. None of
  the properties is inductive. `IInv` adds what the timers in the list and the
  one in `timer_expiring` may be: a timer in the list is neither marked nor
  cleared, and has not been called if it is a one-shot; the timer in
  `timer_expiring` is in the list as well only between a requeue and the next
  step of the round, even if it is a stale one that a death left there; while
  its callback is dealt with it is marked if it is a one-shot or was cleared.

  Under `OnlyDeaths` (no callback throws, memory suffices; scripts may die,
  slots may run out), in the same module: `CallbacksAreStored`,
  `CallbacksAreDeleted`, `NoTimerLost`, and `LoopKeepsPromise`, the
  implementation of `TimerService`. `TableInv` adds that `frame` is `timers`:
  without it the callback of a timer that has left the list is not found. That
  the assumption cannot be dropped is what `lost` shows.

  `SleepsFit` is proved under `OnlyNumbers`, that no delay is NaN: NaN passes
  the clamp of `create_timer`, gets into a target, and from there into the
  difference that `eventloop_run` cuts to an `int`. `SleepInv` says that no
  timer then has a NaN; that a positive number of milliseconds is left after
  the cut needs only `MIN_WAIT >= 1`, and that the sleep is not too long needs
  that cutting rounds down. `TrueAnswersMeanFound` needs no assumption: by
  `NoStale`, only a loop that was cut short leaves a timer in `timer_expiring`
  when no callback runs.
* `ModuleLoader_proofs`: `LoaderTypeCorrect`, `LoadingModulesAreCached`,
  `ModulesLoadOnce`, `CacheIsSound`, `LifecycleKept`. `LoadedOnce` follows from
  `LoadingIsCached`: two loads of one id would both be the cached one; `Apart`
  says that two calls never share an object, `Nesting` says who may have called
  whom, so that an error that leaves `require` lands in code that can take it.
* `Sessions_proofs`: `SessionsTypeCorrect`, `CallbacksRunAtHome`,
  `OneTimerPerIdKept`, `ClearedStaysSilentAcrossVMs`,
  `OneShotsCalledOnceAcrossVMs` and `DenseIfFlat`, for any number of VMs, slots, timers and evals
  inside each other. A loop settles whatever it finds in `timer_expiring` when
  its callback has returned, be it its own timer or not. `ExpiringInv` says what
  can be there: only while no script runs may it be in the list as well, and it
  is marked if it was cleared or is a one-shot, no matter which loop put it
  there. `TableInv` ties tables to owners: ids are never reused, not even by
  `reset`, which is why a callback cannot run in the wrong heap. `Least` is the
  least-number principle, which `delete_timer`'s scan for the first match needs
  because zeroed slots share the id 0; it is derived from the well-foundedness
  of strict inclusion, which the library states without an operator parameter.
  `DenseIfFlat` has two assumptions: no VM is made, reset or destroyed after the
  first ones, and (`Flat`) no callback calls a sub that evals. Then every eval
  around another is in its script, and what a loop settles is what it took
  (`DenseInv`: it is not zeroed), also after deaths. TLC shows that neither
  assumption can be dropped.

* `Sandbox_proofs`: `SandboxTypeCorrect`, `TotalIsWhatIsLive`, `LimitIsKept`,
  `RefusalsAreRight`, for any size of memory, header and limit. The regions do
  not overlap, so that the bytes of one can be added to or taken from the number
  of all, and there are fewer of them than `SizeMod`: this is why a difference
  never wraps, and a sum wraps only when memory has no room for the block.
* `Marshal_proofs`: `MarshalTypeCorrect`, `ConversionsAreWhole`,
  `CallsStayApart`, `SharedStaysShared`, `CyclesCutShort`, for structures of any
  shape and any nesting. `MadeInv` has, besides types: `WorkInv`, the target of
  a frame holds the slots before the frame's, and no target has two frames;
  `SlotsInv`, each slot of a target fits that of its source and is of the same
  call; `DoneInv`, a target that no frame works on has all its slots; `SeenInv`,
  the map holds only targets of the call in progress, of the sources it says;
  `OnceInv`, the map has all that the call has made, unless code ran in the
  middle. `DoneInv` and the parts about calls hold until a croak, the rest
  always. A cycle is whole although its targets are returned unfinished: who
  puts one into a slot does so while its frame is still there. `Whole` is about
  all structures but Perl arrays with holes, of which the code copies only the
  beginning; `CallsApart` is about calls of the program, and takes conversions
  that code begins in the middle of one as part of it.

* `Entries_proofs`: `EntriesTypeCorrect`, `AnswersAreOwn`, `CallsBalance`,
  `FoundIsKept`, for any number of calls, nested in any way, and values of any
  depth. `OwnAnswer` and `Balanced` speak of a call that has just ended and say
  nothing of those that go on. The invariant gives for each place in a call how
  many values it has above its base (`Height`) and which of them it will answer
  with (`Held`), also while others run above it: its values end where the next
  call on its stack begins (`Upto`). `Nested` and `Linked` say that calls on
  one stack have their bases in the order in which they began, and that a sub
  has a stack of its own, so that what a call pushes and pops cannot reach
  another's. The exception is `RemoveFails`, which makes text of a value that
  is not its own. It and what other failing calls leave on the stack can only
  hurt a call that is in the middle of `fetch`, where they began; that call is
  `spoilt`, and what it spoils in turn is only the one that it is in the middle
  of. `Held` is therefore claimed of the calls with none that is spoilt above
  them on their stack (`Clean`).

Only model-checked: `AllDispatched` and `Returns`, for the prover does not treat
liveness under fairness or `ENABLED`. The four refuted statements are checked
to be false; `NoTimerLost` and `DenseIfFlat` say when those of `lost` and
`ghosts` are true.

## 5. What is not modelled, and what comes next

* Of the event loop: a clock that goes back, which only delays timers. In
  `Sessions`: time, errors that callbacks throw (`EventLoop` has both, for one
  VM), memory limits, and the undefined behaviours named above.
* In `ModuleLoader`: other writes to `require.cache` than deletions,
  `module.exports`, and `duk_module_node_peval_main`, which nothing calls. A
  death in a script that a handler evaluates, caught by a Perl `eval` in that
  handler, goes on in an engine whose frames are gone; that is undefined
  behaviour without a definite set of outcomes, and left out, here and in
  `Entries`.
* Function references: `set` of a sub, the table `funcref`, and
  `skip_func_create`. What this code does right is to count one reference per
  name; what it does wrong leaves pointers to freed scalars, whose use has no
  definite set of outcomes.
* The time limit: `TIMEOUT_RESET` and `pl_exec_timeout` are a clock that is read
  and set, and when the engine polls it is the engine's matter. Its effect, an
  error at any point of a script, is among the faults of `EventLoop`,
  `ModuleLoader` and `Entries`.
* `global_objects`, `run_gc`, console, statistics and native functions: straight
  lines of pushes, pops, additions to a hash, and output.
* The engine (`duktape.c`, `duktape.h`, `duk_config.h`) and `ppport.h` are
  vendored, and nearly all the lines of the repository; the models see the
  engine as the code of the extension uses it.
* Scalars in `Marshal` are one leaf: how numbers, strings and booleans are
  converted is not a matter of states. A scalar that holds a reference to
  itself is not remembered by the map, and the recursion of `pl_duk.c:203` has
  no end for it.

To come: a condition under which `NotConfused` holds of `Temporaries` (accessors
make nothing that is freed before the conversion ends).
