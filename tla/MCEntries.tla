------------------------------ MODULE MCEntries ------------------------------
(* The instance of Entries for TLC. *)
EXTENDS Entries

CONSTANT MaxBase     \* bound of the model: values that a call finds on its stack

Small ==
  /\ \A i \in DOMAIN frames : frames[i].base <= MaxBase
  /\ frames = << >> => Len(Last(stacks)) <= MaxBase
=============================================================================
