---------------------------- MODULE MCModuleLoader ----------------------------
(* Instances of ModuleLoader.  Two ids can require each other and are never *)
(* deleted from the cache, a third one is.                                 *)
EXTENDS ModuleLoader

CONSTANTS a, b, c

MCIds == {a, b, c}
MCDeletable == {c}
=============================================================================
