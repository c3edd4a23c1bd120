-------------------------------- MODULE Entries --------------------------------
(***************************************************************************)
(* The entries of a VM and its value stack: eval, get, set, remove and the *)
(* others of pl_duk.c, dispatch_function_in_event_loop of pl_eventloop.c,  *)
(* and the calls of Perl subs by scripts, in which Perl code may enter the *)
(* VM again.  The engine gives each call of a sub a value stack of its     *)
(* own; an entry works on the one that it finds, counting from its top.    *)
(*                                                                         *)
(* duk_pcall and its kin cut the stack back when a script throws.  What C  *)
(* code pushes and pops by itself is for every path of it to balance, and  *)
(* croak() unwinds C frames without the engine: its stacks stay.           *)
(***************************************************************************)
EXTENDS Integers, Sequences, SequencesExt

CONSTANTS
  MaxCalls,       \* bound of the model: entries, and calls of subs, begun
  MaxLevels,      \* bound of the model: arrays, hashes and objects inside each other
  Ties            \* what is converted to JavaScript may be tied to Perl code

ASSUME EntriesAssumption == MaxCalls \in Nat /\ MaxLevels \in Nat /\ Ties \in BOOLEAN

VARIABLES
  stacks,         \* the value stacks of the engine: the program's, and one for each
                  \* call of a sub that it has not seen end
  frames,         \* the C stack: entries and calls of subs
  begun,          \* history: how many have begun
  last,           \* history: how the last of them ended
  spoilt,         \* history: those that something failed in the middle of, on their
                  \* own stack
  aborted         \* the engine has found no handler for an error, and ended the process

vars == <<stacks, frames, begun, last, spoilt, aborted>>

\* Those over find_global_or_property; typeof does to the stack what exists does.
Finders == {"exists", "get", "instanceof"}

\* A frame: its number, what is called, where it is, whether all went well so far, the
\* stack it works on, with its height then, and how many arrays and hashes are in work.
Frame == [no : 1 .. begun, op : Finders \cup {"class", "eval", "dispatch", "set", "remove", "sub"},
          at : {"perl", "ready", "script", "global", "property", "convert", "fetch", "loop"},
          ok : BOOLEAN, act : 1 .. Len(stacks), base : Nat, deep : 0 .. MaxLevels]

\* A value on a stack, and (history) the call that it is from.  Parts are what conversions
\* push besides the value itself: elements, keys, enumerators, what is inside of it.
Value == [of : 1 .. begun,
          is : {"argument", "answer", "error", "text", "stash", "object", "value", "key", "part"}]

Nothing == [of |-> 0, is |-> "nothing"]

Init ==
  /\ stacks = << << >> >> /\ frames = << >> /\ begun = 0
  /\ last = [no |-> 0, op |-> "none", ok |-> TRUE, got |-> Nothing, left |-> 0]
  /\ spoilt = {} /\ aborted = FALSE

-----------------------------------------------------------------------------
Top == Last(frames)
Stack == Last(stacks)
Own(kind) == [of |-> Top.no, is |-> kind]

\* duk_push..., duk_pop..., and duk_safe_to_string of the top, in its place.
Push(ss, v) == [ss EXCEPT ![Len(ss)] = Append(@, v)]
Pop(ss, n) == [ss EXCEPT ![Len(ss)] = SubSeq(@, 1, Len(@) - n)]
ToText(ss) == [ss EXCEPT ![Len(ss)] = Append(Front(@), [Last(@) EXCEPT !.is = "text"])]

\* The value n places below the top.
Below(n) == Stack[Len(Stack) - n]

At == IF frames = << >> THEN "program" ELSE Top.at
InOp(ops, at) == At = at /\ Top.op \in ops
Goes(f) == frames' = Append(Front(frames), f)
GoesTo(at) == Goes([Top EXCEPT !.at = at])

\* Perl code runs: the program, a sub, or what a value is tied to.
PerlRuns == ~aborted /\ (At \in {"program", "perl"} \/ (Ties /\ At = "fetch"))

\* JavaScript runs: a script, a callback, an accessor.
ScriptRuns == At \in {"script", "global", "property", "convert", "loop"}

Called(op, at, ss) ==
  /\ begun < MaxCalls /\ begun' = begun + 1
  /\ stacks' = ss
  /\ frames' = Append(frames, [no |-> begun', op |-> op, at |-> at, ok |-> TRUE,
                               act |-> Len(ss), base |-> IF op = "sub" THEN 0 ELSE Len(Stack),
                               deep |-> 0])
  /\ UNCHANGED <<last, spoilt, aborted>>

\* The call is over.  It leaves the stacks ss, and got is what it found or answers.
Ends(ok, got, ss) ==
  /\ frames' = Front(frames)
  /\ stacks' = ss
  /\ last' = [no |-> Top.no, op |-> Top.op, ok |-> ok, got |-> got,
              left |-> Len(ss[Top.act]) - Top.base]
  /\ spoilt' = IF Len(frames) > 1 /\ frames[Len(frames) - 1].at = "fetch"
                    /\ (~ok \/ Top.no \in spoilt)
               THEN spoilt \cup {frames[Len(frames) - 1].no} ELSE spoilt
  /\ UNCHANGED <<begun, aborted>>

Moves(ss) == stacks' = ss /\ UNCHANGED <<begun, last, spoilt, aborted>>

\* An error that C code of an entry meets outside of any protected call.
Aborts ==
  /\ \A i \in 1 .. Len(frames) - 1 : frames[i].at \notin {"script", "loop"}
  /\ aborted' = TRUE /\ frames' = << >>
  /\ UNCHANGED <<stacks, begun, last, spoilt>>

-----------------------------------------------------------------------------
(* The conversion of a value to JavaScript, pl_perl_to_duk.  What is in it *)
(* may be tied to Perl code, which runs before anything is pushed for it.  *)

\* An array or hash is pushed; its elements are next.
Deeper ==
  /\ At = "fetch" /\ Top.deep < MaxLevels
  /\ Goes([Top EXCEPT !.deep = @ + 1])
  /\ Moves(Push(stacks, Own(IF Top.deep = 0 THEN "value" ELSE "part")))

\* It is done, and becomes an element of the one around it.
Shallower ==
  /\ At = "fetch" /\ Top.deep > 1
  /\ Goes([Top EXCEPT !.deep = @ - 1])
  /\ Moves(Pop(stacks, 1))

\* The end of the conversion: the outermost array or hash is done, or a value that is
\* neither is pushed.
FetchEnds == At = "fetch" /\ Top.deep <= 1
Fetched == IF Top.deep = 0 THEN Push(stacks, Own("value")) ELSE stacks

-----------------------------------------------------------------------------
(* pl_call_perl_sv: a script calls a sub, on a stack of its own.           *)

\* The arguments are converted, which may run accessors.
CallSub ==
  /\ ScriptRuns
  /\ \E args \in {<< >>, <<[of |-> begun + 1, is |-> "argument"]>>} :
       Called("sub", "convert", Append(stacks, args))

SubStarts ==
  /\ InOp({"sub"}, "convert")
  /\ GoesTo("perl") /\ Moves(stacks)

\* The result is converted, which may run Perl code.
SubReturns ==
  /\ InOp({"sub"}, "perl")
  /\ GoesTo("fetch") /\ Moves(stacks)

\* The engine takes what is on top.
SubAnswers ==
  /\ InOp({"sub"}, "fetch") /\ FetchEnds
  /\ frames' = Front(frames) /\ stacks' = Front(stacks)
  /\ last' = [no |-> Top.no, op |-> "sub", ok |-> TRUE, got |-> Last(Last(Fetched)), left |-> 0]
  /\ UNCHANGED <<begun, spoilt, aborted>>

\* Faulty variant: the stack of the sub stays.
StacksKept == stacks

StacksUnwound == Front(stacks)

\* An accessor throws, or the sub dies: with catch_perl_exceptions that becomes an error
\* of the script.
SubThrows ==
  /\ InOp({"sub"}, "convert") \/ InOp({"sub"}, "perl")
  /\ frames' = Front(frames) /\ Moves(StacksUnwound)

\* Without, croak() goes to the program, with the stash left on the sub's stack.  So it does
\* if the result cannot be converted.  (That an argument cannot be is ConvertCroaks.)
SubDies ==
  /\ InOp({"sub"}, "perl") \/ InOp({"sub"}, "fetch")
  /\ frames' = << >>
  /\ Moves(IF Top.at = "perl" THEN Push(stacks, Own("stash")) ELSE stacks)

-----------------------------------------------------------------------------
(* pl_eval, and pl_run_function_in_event_loop.                             *)

Eval == PerlRuns /\ Called("eval", "ready", stacks)

\* duk_console_log leaves the stash, here as in check_duktape_call_for_errors.
CompileFails ==
  /\ InOp({"eval"}, "ready")
  /\ Ends(FALSE, Nothing, Push(Push(stacks, Own("text")), Own("stash")))

Compiles ==
  /\ InOp({"eval"}, "ready")
  /\ GoesTo("script") /\ Moves(stacks)

ScriptReturns ==
  /\ InOp({"eval"}, "script")
  /\ GoesTo("convert") /\ Moves(Push(stacks, Own("answer")))

\* check_duktape_call_for_errors, of an Error: its stack is pushed and the stash popped;
\* of another value: that becomes text, and the stash stays.
Checked(ss, isError) ==
  IF isError THEN Push(ss, Own("text")) ELSE Push(ToText(ss), Own("stash"))

ScriptThrows(isError) ==
  /\ InOp({"eval"}, "script")
  /\ Goes([Top EXCEPT !.at = "convert", !.ok = FALSE])
  /\ Moves(Checked(Push(stacks, Own("error")), isError))

\* duk_to_perl, of the top.
Converts ==
  /\ InOp({"eval"}, "convert")
  /\ GoesTo("loop")
  /\ last' = [no |-> Top.no, op |-> "eval", ok |-> Top.ok, got |-> Last(Stack), left |-> 0]
  /\ stacks' = Pop(stacks, 1)
  /\ UNCHANGED <<begun, spoilt, aborted>>

\* What a conversion to Perl has pushed: for each array an element, for each object an
\* enumerator, a key and a value.
Parts ==
  {n \in 0 .. 3 * MaxLevels :
     \E a, o \in 0 .. MaxLevels : a + o <= MaxLevels /\ n = a + 3 * o}

WithParts(n) == [stacks EXCEPT ![Len(stacks)] = @ \o [i \in 1 .. n |-> Own("part")]]

\* Something in it cannot be converted: croak() leaves it all, with the value itself.  An
\* eval does not come to its loop; if it is an argument, croak() goes to the program.
ConvertCroaks ==
  \E n \in Parts :
    \/ /\ InOp({"eval", "get"}, "convert") /\ Top.ok
       /\ Ends(FALSE, Nothing, WithParts(n))
    \/ /\ InOp({"sub"}, "convert")
       /\ frames' = << >> /\ Moves(WithParts(n))

LoopReturns ==
  /\ InOp({"eval", "dispatch"}, "loop")
  /\ Ends(Top.ok, Nothing, stacks)

\* One value is popped of what the check leaves.
LoopFails(isError) ==
  /\ InOp({"eval"}, "loop")
  /\ Ends(FALSE, Nothing, Pop(Checked(Push(stacks, Own("error")), isError), 1))

Dispatch == PerlRuns /\ Called("dispatch", "script", stacks)

Dispatched ==
  /\ InOp({"dispatch"}, "script")
  /\ GoesTo("loop") /\ Moves(stacks)

\* croak() shows the error and leaves it, here and when the loop fails.
DispatchFails ==
  /\ InOp({"dispatch"}, "script") \/ InOp({"dispatch"}, "loop")
  /\ Ends(FALSE, Nothing, Push(stacks, Own("text")))

-----------------------------------------------------------------------------
(* exists, typeof, get and instanceof, over find_global_or_property.       *)

\* A name is that of a global, or has a path, which is run as a script.
Find(op) ==
  PerlRuns /\ \E at \in {"global", "script"} : Called(op, at, stacks)

Finding == Finders \cup {"class"}
AtName == InOp(Finding, "global") \/ InOp(Finding, "property")

PathFound ==
  /\ InOp(Finding \cup {"set", "remove"}, "script")
  /\ GoesTo("property") /\ Moves(Push(stacks, Own("object")))

\* Faulty variants: get pops two values in any case; the object is not popped.
WithoutTwo == IF Top.at = "property" \/ Top.op = "get" THEN Pop(stacks, 1) ELSE stacks
WithObject == stacks

\* The object, if there is a path, is popped with the property.
WithoutObject == IF Top.at = "property" THEN Pop(stacks, 1) ELSE stacks

\* The value takes the place of the object.
Found(found) == Push(WithoutObject, found)

\* A name is not found, or its path throws.  instanceof has an object on the stack if
\* it is the class that is missing.
NotFound ==
  /\ AtName \/ InOp(Finding, "script")
  /\ Ends(TRUE, Nothing,
          IF Top.op = "class" THEN Pop(WithoutObject, 1) ELSE WithoutObject)

FoundObject ==
  /\ AtName /\ Top.op = "instanceof"
  /\ \E at \in {"global", "script"} : Goes([Top EXCEPT !.op = "class", !.at = at])
  /\ Moves(Found(Own("value")))

\* The answer is about what is on top; get converts it, which may run accessors.
FoundOne ==
  /\ AtName /\ Top.op \notin {"instanceof", "get"}
  /\ LET found == Found(Own("value"))
         n == IF Top.op = "class" THEN 2 ELSE 1
         answered == Last(found)[Len(Last(found)) + 1 - n]
     IN Ends(TRUE, answered, Pop(found, n))

FoundToConvert ==
  /\ AtName /\ Top.op = "get"
  /\ GoesTo("convert") /\ Moves(Found(Own("value")))

GetConverts ==
  /\ InOp({"get"}, "convert")
  /\ Ends(TRUE, Below(0), Pop(stacks, 1))

\* The path is that of null or undefined, an accessor throws, the class is none, or what
\* is to be removed cannot be.
NameAborts ==
  /\ At \in {"global", "property", "convert"} \/ InOp({"remove"}, "ready")
  /\ Top.op # "sub"
  /\ Aborts

-----------------------------------------------------------------------------
(* pl_set_global_or_property and pl_del_global_or_property.                *)

SetName == PerlRuns /\ Called("set", "fetch", stacks)

\* The value may be tied to code that dies, or be of no type that can be converted: the
\* arrays and hashes in work stay.
SetCroaks ==
  /\ InOp({"set"}, "fetch")
  /\ Ends(FALSE, Nothing, stacks)

SetConverts ==
  /\ InOp({"set"}, "fetch") /\ FetchEnds
  /\ \E at \in {"global", "script"} :
       /\ Goes([Top EXCEPT !.at = at, !.deep = 0])
       /\ Moves(IF at = "global" THEN Fetched ELSE Push(Fetched, Own("key")))

SetsGlobal ==
  /\ InOp({"set"}, "global")
  /\ Ends(TRUE, Below(0), Pop(stacks, 1))

\* Faulty variant: value and object are not swapped.
StoredUnswapped == Below(0)

\* Of value, key and object.
Stored == Below(2)

SetsProperty ==
  /\ InOp({"set"}, "property")
  /\ Ends(TRUE, Stored, Pop(stacks, 3))

\* Of value, key and error, the last two are popped, and the first is shown.
SetFails ==
  /\ InOp({"set"}, "script")
  /\ Ends(FALSE, Nothing, ToText(Pop(stacks, 1)))

RemoveName ==
  PerlRuns /\ \E at \in {"ready", "script"} : Called("remove", at, stacks)

RemovesGlobal ==
  /\ InOp({"remove"}, "ready")
  /\ Ends(TRUE, Nothing, stacks)

RemovesProperty ==
  /\ InOp({"remove"}, "property")
  /\ Ends(TRUE, Nothing, Pop(stacks, 1))

\* The error is popped; what is shown, and made text, is the value of another below it.
RemoveFails ==
  /\ InOp({"remove"}, "script") /\ Stack # << >>
  /\ Ends(FALSE, Nothing, ToText(stacks))

\* There is none.
RemoveAborts ==
  /\ InOp({"remove"}, "script") /\ Stack = << >>
  /\ Aborts

-----------------------------------------------------------------------------
Next ==
  \/ Deeper \/ Shallower
  \/ CallSub \/ SubStarts \/ SubReturns \/ SubAnswers \/ SubThrows \/ SubDies
  \/ Eval \/ CompileFails \/ Compiles \/ ScriptReturns
  \/ \E isError \in BOOLEAN : ScriptThrows(isError) \/ LoopFails(isError)
  \/ Converts \/ ConvertCroaks \/ LoopReturns \/ Dispatch \/ Dispatched \/ DispatchFails
  \/ \E op \in Finders : Find(op)
  \/ PathFound \/ NotFound \/ FoundObject \/ FoundOne \/ FoundToConvert
  \/ GetConverts \/ NameAborts
  \/ SetName \/ SetCroaks \/ SetConverts \/ SetsGlobal \/ SetsProperty \/ SetFails
  \/ RemoveName \/ RemovesGlobal \/ RemovesProperty \/ RemoveFails \/ RemoveAborts

Spec == Init /\ [][Next]_vars

-----------------------------------------------------------------------------
(* Properties.                                                             *)

\* The types of the variables.  The innermost call works on the innermost stack.
TypeOK ==
  /\ stacks \in Seq(Seq(Value)) /\ stacks # << >>
  /\ frames \in Seq(Frame)
  /\ frames # << >> => Top.act = Len(stacks)
  /\ begun \in 0 .. MaxCalls
  /\ last.got \in Value \cup {Nothing} /\ last.left \in Int
  /\ spoilt \subseteq 1 .. begun
  /\ aborted \in BOOLEAN

\* What an entry finds on the stack is still there, untouched, when it goes on or is
\* over, whatever scripts, subs and other entries do meanwhile, and however they end
\* (pl_duk.c:480-500, 587-608).  Only a remove of a path that fails touches what is not
\* its own (pl_duk.c:629-631).
BelowKept ==
  [][~RemoveFails =>
       \A i \in DOMAIN frames \cap DOMAIN frames' :
         LET f == frames[i]
         IN frames'[i].no = f.no =>
              SubSeq(stacks'[f.act], 1, f.base) = SubSeq(stacks[f.act], 1, f.base)]_vars

\* What an entry, or a sub, answers with or stores is its own, and, if it succeeds, its
\* value and not a part of it: nothing that another call has left on the stack takes its
\* place (pl_duk.c:677, 593-608, 448-457).  An eval whose script throws answers with what
\* it has made of the error, or with a stash of the engine (NoStashAnswered).  Nothing is
\* said of a call that has converted a value to JavaScript in the middle of which another
\* call has failed (spoilt): what that one left may be taken for the value.
OwnAnswer ==
  last.no \notin spoilt /\ last.got # Nothing =>
    /\ last.got.of = last.no
    /\ last.ok => last.got.is = IF last.op = "eval" THEN "answer" ELSE "value"

\* Changes:30, "Properly cleanup duktape stack in several cases": no call takes from the
\* stack what was there before it, and one that succeeds leaves nothing there, unless it
\* is spoilt.  One that fails may leave a value or two (pl_duk.c:662, 674, 683,
\* pl_eventloop.c:22, 30), or all that its conversion has pushed (pl_duk.c:156, 308).
Balanced ==
  /\ last.left >= 0
  /\ last.ok /\ last.no \notin spoilt => last.left = 0

\* XS.pm:197, eval will "return the results"; pl_util.c:80: of a script that throws no
\* Error, "coerce safely to string".  The answer is not the stash of the engine's thread.
NoStashAnswered == last.got.is # "stash"
=============================================================================
