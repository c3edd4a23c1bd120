------------------------------ MODULE Temporaries ------------------------------
(***************************************************************************)
(* Marshal takes the objects that are converted to be there all the time.  *)
(* Those that an accessor makes for its caller are not: pl_duk_to_perl     *)
(* pops the value of a slot when it is converted, the engine frees it if   *)
(* nobody else holds it, and may give its address to the next one.  The    *)
(* map knows objects by their addresses.                                   *)
(***************************************************************************)
EXTENDS Marshal

CONSTANTS
  Temps,          \* addresses of objects that accessors make, among Sources
  MaxLives        \* bound of the model: objects at one address

VARIABLES
  object,         \* which of the objects that have been there is at an address
  origin          \* history: the object of which each target was made

allVars == <<vars, object, origin>>

InitTemps ==
  /\ Init
  /\ toPerl
  /\ \A o \in Sources : \A i \in DOMAIN graph[o] : graph[o][i] \notin Temps
  /\ object = [o \in Sources |-> 1]
  /\ origin = << >>

\* The value is popped and freed, and another object is put there.
Reused(o) ==
  /\ frames # << >>
  /\ \A i \in DOMAIN frames : frames[i].of # o
  /\ object[o] < MaxLives
  /\ object' = [object EXCEPT ![o] = @ + 1]
  /\ UNCHANGED <<vars, origin>>

Converts ==
  /\ Next
  /\ origin' = IF Len(made') = Len(made) THEN origin
               ELSE Append(origin, object[made'[Len(made')].of])
  /\ UNCHANGED object

NextTemps == Converts \/ \E o \in Temps : Reused(o)

SpecTemps == InitTemps /\ [][NextTemps]_allVars

-----------------------------------------------------------------------------
\* XS.pm:161, of what get and eval return, "nested structures [...] will be handled
\* correctly": the target that is put into a slot was made of the object that the slot
\* holds, and not of one that was at its address before (pl_duk.c:69, 100).
NotConfused ==
  [][\A o \in Sources : GetSeen(o) => origin[seen[o]] = object[o]]_allVars
=============================================================================
