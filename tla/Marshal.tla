------------------------------- MODULE Marshal -------------------------------
(***************************************************************************)
(* The conversion of nested structures between Perl and JavaScript, by     *)
(* pl_duk_to_perl and pl_perl_to_duk of pl_duk.c: recursions that remember *)
(* in one static map, seen, what they have made of each array, hash and    *)
(* object, so that cycles end and shared parts stay shared.                *)
(*                                                                         *)
(* The map is cleared when a conversion returns.  A conversion can meet    *)
(* others half way: a getter, or a tied Perl variable, runs code that      *)
(* calls across the languages again; and it can croak.                     *)
(*                                                                         *)
(* The structures are those of one language, in toPerl of JavaScript, else *)
(* of Perl; a reference to a plain scalar counts as that scalar.           *)
(***************************************************************************)
EXTENDS Integers, Sequences

CONSTANTS
  Objects,        \* arrays, hashes and objects to convert: 1 .. Objects
  MaxSlots,       \* bound of the model: slots of each
  MaxCalls,       \* bound of the model: conversions begun
  MaxDepth,       \* frames for which the C stack has room
  Getters,        \* a slot may run code when it is read
  Croaks          \* a slot may hold what cannot be converted, and its code may fail

ASSUME MarshalAssumption ==
  /\ Objects \in Nat /\ MaxSlots \in Nat /\ MaxCalls \in Nat /\ MaxDepth \in Nat
  /\ Getters \in BOOLEAN /\ Croaks \in BOOLEAN

\* What else a slot holds: a value without slots; no value, the hole of an array; code
\* that is run to get the value; a buffer, a glob or the like.
Leaf == 0
Hole == -1
Active == -2
Bad == -3

Sources == 1 .. Objects
Value == Sources \cup {Leaf, Hole} \cup (IF Getters THEN {Active} ELSE {})
                 \cup (IF Croaks THEN {Bad} ELSE {})

VARIABLES
  toPerl,         \* the direction: pl_duk_to_perl, or pl_perl_to_duk
  graph,          \* the slots of each source, in the order in which they are read
  made,           \* the targets made, each with its slots and (history) its source
                  \* and the call of the program that made it
  seen,           \* for sources met, the target made of it
  frames,         \* the C stack: each source in work, its target, the slot it is at,
                  \* and whether a call from outside, root, began there
  calls,          \* history: calls of the program, those of code that it runs aside
  begun,          \* history: conversions begun
  disturbed,      \* history: calls during which code has converted something
  croaked,        \* history: a conversion was cut short
  handed          \* history: the targets that were returned to callers

vars == <<toPerl, graph, made, seen, frames, calls, begun, disturbed, croaked, handed>>

Targets == 1 .. Len(made)

Init ==
  /\ toPerl \in BOOLEAN
  /\ graph \in [Sources -> UNION {[1 .. n -> Value] : n \in 0 .. MaxSlots}]
  /\ made = << >> /\ seen = << >> /\ frames = << >>
  /\ calls = 0 /\ begun = 0 /\ disturbed = {} /\ croaked = FALSE /\ handed = {}

-----------------------------------------------------------------------------
Top == frames[Len(frames)]
Slot == graph[Top.of][Top.next]
Below == SubSeq(frames, 1, Len(frames) - 1)

\* Faulty variant: a hole ends every array.
HasSlotNoHole == Top.next <= Len(graph[Top.of]) /\ Slot # Hole

\* JavaScript leaves holes in arrays, and they are read as such; the loop over a Perl
\* array breaks at the first element that is not there.
HasSlot == Top.next <= Len(graph[Top.of]) /\ (toPerl \/ Slot # Hole)

InSlot == frames # << >> /\ HasSlot
AtEnd == frames # << >> /\ ~HasSlot

\* Code of the program runs, at its top or because a slot was read.
CodeRuns == frames = << >> \/ (InSlot /\ Slot = Active)

\* The value that is got for the slot: what it holds, or what the code returns.
Gets(v) == InSlot /\ (Slot = v \/ (Slot = Active /\ v \in Sources \cup {Leaf}))

\* The target of the frame gets v for its next slot.
Put(m, f, v) == [m EXCEPT ![f.to].slots = Append(@, v)]

Advance(fs) == [fs EXCEPT ![Len(fs)].next = @ + 1]

\* Faulty variants: what is finished, or what is not, is converted again.
KnownInWork(o) == o \in DOMAIN seen /\ \E i \in DOMAIN frames : frames[i].to = seen[o]
KnownIfFinished(o) == o \in DOMAIN seen /\ \A i \in DOMAIN frames : frames[i].to # seen[o]

Known(o) == o \in DOMAIN seen

\* Faulty variant: the target is remembered before it is there.
RememberEarly(o) == [p \in DOMAIN seen \cup {o} |-> IF p = o THEN Len(made) ELSE seen[p]]

Remember(o) == [p \in DOMAIN seen \cup {o} |-> IF p = o THEN Len(made) + 1 ELSE seen[p]]

\* Faulty variant: the map survives the conversion.
SeenKept == seen

SeenAfter == << >>

\* A target is made for o, remembered, and its slots are next.
Enter(o, call, root) ==
  /\ Len(frames) < MaxDepth
  /\ made' = Append(made, [of |-> o, slots |-> << >>, call |-> call])
  /\ seen' = Remember(o)
  /\ frames' = Append(frames, [of |-> o, to |-> Len(made) + 1, next |-> 1, root |-> root])

-----------------------------------------------------------------------------
(* Calls of pl_duk_to_perl and pl_perl_to_duk.                             *)

\* Whoever calls, is the map empty or not.
Called ==
  /\ CodeRuns
  /\ begun < MaxCalls /\ begun' = begun + 1
  /\ calls' = IF frames = << >> THEN calls + 1 ELSE calls
  /\ disturbed' = IF frames = << >> THEN disturbed ELSE disturbed \cup {calls}
  /\ UNCHANGED <<toPerl, graph, croaked>>

\* The value is known: the call returns at once.
ConvertSeen(o) ==
  /\ Called
  /\ Known(o)
  /\ handed' = handed \cup {seen[o]}
  /\ seen' = SeenAfter
  /\ UNCHANGED <<made, frames>>

ConvertNew(o) ==
  /\ Called
  /\ ~Known(o)
  /\ Enter(o, calls', TRUE)
  /\ UNCHANGED handed

\* A value without slots, or one of the other language: all that is left of it is that
\* the map is cleared.  So it is with the arguments and the result of a Perl sub.
ConvertOther ==
  /\ Called
  /\ seen' = SeenAfter
  /\ UNCHANGED <<made, frames, handed>>

-----------------------------------------------------------------------------
(* The loop over the slots of pl_duk_to_perl_impl, and of                  *)
(* pl_perl_to_duk_impl.                                                    *)

history == <<toPerl, graph, calls, begun, disturbed, croaked>>

GetPlain(v) ==
  /\ Gets(v) /\ v \in {Leaf, Hole}
  /\ made' = Put(made, Top, v)
  /\ frames' = Advance(frames)
  /\ UNCHANGED <<history, seen, handed>>

GetSeen(o) ==
  /\ Gets(o) /\ Known(o)
  /\ made' = Put(made, Top, seen[o])
  /\ frames' = Advance(frames)
  /\ UNCHANGED <<history, seen, handed>>

GetNew(o) ==
  /\ Gets(o) /\ ~Known(o)
  /\ Enter(o, calls, FALSE)
  /\ UNCHANGED <<history, handed>>

\* The innermost source is done: its target goes into the slot that it is for.
Return ==
  /\ AtEnd /\ ~Top.root
  /\ made' = Put(made, frames[Len(frames) - 1], Top.to)
  /\ frames' = Advance(Below)
  /\ UNCHANGED <<history, seen, handed>>

\* Or to the caller.
ReturnToCaller ==
  /\ AtEnd /\ Top.root
  /\ frames' = Below
  /\ handed' = handed \cup {Top.to}
  /\ seen' = SeenAfter
  /\ UNCHANGED <<history, made>>

\* A value that cannot be converted, or code that fails: an accessor throws, the engine
\* unwinds to a script that catches it; the code of a tie dies, or the conversion croaks,
\* and Perl unwinds to the program, or to code that catches it.  The map stays as it is.
Croak ==
  /\ Croaks /\ InSlot /\ Slot \in {Bad, Active}
  /\ \E i \in DOMAIN frames : frames[i].root /\ frames' = SubSeq(frames, 1, i - 1)
  /\ croaked' = TRUE
  /\ UNCHANGED <<toPerl, graph, calls, begun, disturbed, made, seen, handed>>

Step ==
  \/ \E v \in {Leaf, Hole} : GetPlain(v)
  \/ \E o \in Sources : GetSeen(o) \/ GetNew(o)
  \/ Return \/ ReturnToCaller \/ Croak

Next ==
  \/ \E o \in Sources : ConvertSeen(o) \/ ConvertNew(o)
  \/ ConvertOther
  \/ Step

Spec == Init /\ [][Next]_vars

\* The recursion is C code of one thread; code that a slot runs returns some day.
FairSpec == Spec /\ WF_vars(Step)

-----------------------------------------------------------------------------
(* Properties.                                                             *)

Frame == [of : Sources, to : Targets, next : 1 .. MaxSlots + 1, root : BOOLEAN]

\* The types of the variables.
TypeOK ==
  /\ toPerl \in BOOLEAN
  /\ graph \in [Sources -> Seq(Value)]
  /\ \A o \in Sources : Len(graph[o]) <= MaxSlots
  /\ made \in Seq([of : Sources, slots : Seq(Targets \cup {Leaf, Hole}), call : 1 .. calls])
  /\ DOMAIN seen \subseteq Sources /\ \A o \in DOMAIN seen : seen[o] \in Targets
  /\ frames \in Seq(Frame)
  /\ calls \in 0 .. begun /\ begun \in 0 .. MaxCalls
  /\ disturbed \subseteq 1 .. calls
  /\ croaked \in BOOLEAN
  /\ handed \subseteq Targets

\* The target v stands for what the slot w held, or its code returned.
Matches(v, w) ==
  CASE w = Active -> TRUE
    [] w \in {Leaf, Hole} -> v = w
    [] OTHER -> v \in Targets /\ made[v].of = w

\* A Perl array with a hole: the loop over it breaks there.
Holed(o) == ~toPerl /\ \E i \in DOMAIN graph[o] : graph[o][i] = Hole

\* The slots of the target are those of its source; all of them are there, unless it is
\* a Perl array with a hole.
Complete(t) ==
  LET o == made[t].of
      slots == made[t].slots
  IN /\ Len(slots) <= Len(graph[o])
     /\ \A i \in DOMAIN slots : Matches(slots[i], graph[o][i])
     /\ ~Holed(o) => Len(slots) = Len(graph[o])

\* XS.pm:130, "freely pass nested structures [...] and they will be handled correctly":
\* when the program has its values, every slot of them, and of all that can be reached
\* from them, holds what was made of the same slot of the source, and no slot is missing.
\* That is not so of Perl arrays with holes, for which only the slots that are there are
\* said to be right: the elements after the first hole are lost (pl_duk.c:227).  Code that
\* runs in the middle of a conversion may convert the same structures, see them
\* unfinished, and empty the map (pl_duk.c:326, 337).  Once a conversion was cut short the
\* map holds what is left half made, and neither this nor CallsApart is so.
Whole ==
  frames = << >> /\ ~croaked =>
    \E whole \in SUBSET Targets :
      /\ handed \subseteq whole
      /\ \A t \in whole :
           /\ Complete(t)
           /\ \A i \in DOMAIN made[t].slots : made[t].slots[i] \in whole \cup {Leaf, Hole}

\* What one call of the program returns shares nothing with what another one returned: no
\* entry of the map outlives the call (pl_duk.c:326, 337).  Conversions that code runs in
\* the middle of a call bear its number, and are not told apart from it.
CallsApart ==
  ~croaked =>
    \A t \in Targets : \A i \in DOMAIN made[t].slots :
      made[t].slots[i] \in Targets => made[made[t].slots[i]].call = made[t].call

\* What is shared in the source is shared in the target: within a call each source is
\* converted once, unless code ran in the middle that converted something
\* (pl_duk.c:73, 115, 212, 248).
SharedOnce ==
  \A t, u \in Targets :
    /\ made[t].call = made[u].call /\ made[t].call \notin disturbed
    /\ made[t].of = made[u].of
    => t = u

\* Changes:99, "Support data structures with cycles, both in Perl and duktape": no source
\* is twice on the C stack, so that the recursion is no deeper than there are sources,
\* unless code ran in the middle.
CyclesEnd ==
  calls \notin disturbed =>
    \A i, j \in DOMAIN frames : frames[i].of = frames[j].of => i = j

\* Every conversion returns, whatever the structure, and however often the map is
\* emptied on the way, if code converts only so often.
Returns == frames # << >> ~> frames = << >>
=============================================================================
