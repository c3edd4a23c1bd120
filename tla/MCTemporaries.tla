---------------------------- MODULE MCTemporaries ----------------------------
(* The instance of Temporaries for TLC: the second object is one that       *)
(* accessors make.                                                          *)
EXTENDS Temporaries
MCTemps == {2}
=============================================================================
