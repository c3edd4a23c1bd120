----------------------------- MODULE ModuleLoader -----------------------------
(***************************************************************************)
(* require() of duk_module_node.c, with the Perl handlers of pl_module.c   *)
(* that resolve an id and load a source, as the scripts of one VM use it.  *)
(*                                                                         *)
(* One thread runs; what makes require hard is that it calls out three     *)
(* times, to the resolve handler, the load handler and the source of the   *)
(* module, and that each of them may require more, throw, or die.  Control *)
(* is a stack of frames: scripts that pl_eval runs, and calls of require   *)
(* in one of their three stages.                                           *)
(***************************************************************************)
EXTENDS Naturals, Sequences

CONSTANTS
  Ids,            \* resolved ids
  Deletable,      \* ids that scripts delete from require.cache
  MaxModules,     \* bound of the model: module objects made
  MaxDepth        \* bound of the model: frames

ASSUME ModuleLoaderAssumption ==
  /\ Deletable \subseteq Ids
  /\ MaxModules \in Nat
  /\ MaxDepth \in Nat

VARIABLES
  requireCache,   \* <global stash>.requireCache: the object of an id, or None
  module,         \* the module objects made so far: .id and .loaded
  frames,         \* what runs, the innermost last
  throwing,       \* an error is on its way out of the innermost frame
  orphans         \* history: objects whose loading a death cut short

vars == <<requireCache, module, frames, throwing, orphans>>

None == 0

\* A script has no module, nor has a require whose id is not resolved yet.
Frame == [kind : {"script", "resolve", "load", "source"}, mod : Nat]

Init ==
  /\ requireCache = [id \in Ids |-> None]
  /\ module = <<>>
  /\ frames = <<>>
  /\ throwing = FALSE
  /\ orphans = {}

-----------------------------------------------------------------------------
Top == frames[Len(frames)]

Running(kinds) == frames # <<>> /\ Top.kind \in kinds

\* Perl code is at work: the program, or a handler.
PerlRuns == frames = <<>> \/ Running({"resolve", "load"})

\* JavaScript is at work: a script, or the source of a module.
JSRuns == Running({"script", "source"}) /\ ~throwing

Pop == frames' = [i \in 1 .. Len(frames) - 1 |-> frames[i]]

Push(kind) ==
  /\ Len(frames) < MaxDepth
  /\ frames' = Append(frames, [kind |-> kind, mod |-> 0])

TopBecomes(kind, m) == frames' = [frames EXCEPT ![Len(frames)] = [kind |-> kind, mod |-> m]]

\* The modules that are being loaded.
Loading == {frames[i].mod : i \in DOMAIN frames} \ {None}

-----------------------------------------------------------------------------
(* Scripts.                                                                *)

\* eval, by the program or by a handler.
Eval ==
  /\ PerlRuns
  /\ Push("script")
  /\ UNCHANGED <<requireCache, module, throwing, orphans>>

\* The script returned or threw: pl_eval catches its error.
EvalReturns ==
  /\ Running({"script"})
  /\ Pop
  /\ throwing' = FALSE
  /\ UNCHANGED <<requireCache, module, orphans>>

\* The code that runs throws, or its compilation fails.
Throws ==
  /\ JSRuns
  /\ throwing' = TRUE
  /\ UNCHANGED <<requireCache, module, frames, orphans>>

\* The code that an error reached catches it.
Catches ==
  /\ Running({"script", "source"})
  /\ throwing
  /\ throwing' = FALSE
  /\ UNCHANGED <<requireCache, module, frames, orphans>>

\* delete require.cache[id]
DeleteCached(id) ==
  /\ JSRuns
  /\ id \in Deletable
  /\ requireCache' = [requireCache EXCEPT ![id] = None]
  /\ UNCHANGED <<module, frames, throwing, orphans>>

\* A Perl sub dies, be it a handler or one that JavaScript called, in a VM made
\* without catch_perl_exceptions; or there is no handler to call.  croak() unwinds
\* every C frame, those of duk__handle_require included.
Dies ==
  /\ frames # <<>> /\ ~throwing
  /\ frames' = <<>>
  /\ orphans' = orphans \cup Loading
  /\ UNCHANGED <<requireCache, module, throwing>>

-----------------------------------------------------------------------------
(* duk__handle_require.                                                    *)

\* Faulty variant: the id is not resolved.
RequireUnresolved ==
  /\ JSRuns
  /\ Push("load")
  /\ UNCHANGED <<requireCache, module, throwing, orphans>>

\* It calls the resolve handler first.
Require ==
  /\ JSRuns
  /\ Push("resolve")
  /\ UNCHANGED <<requireCache, module, throwing, orphans>>

\* The handler throws, or returns no string.
ResolveThrows ==
  /\ Running({"resolve"})
  /\ Pop
  /\ throwing' = TRUE
  /\ UNCHANGED <<requireCache, module, orphans>>

\* Faulty variant: an object that is not loaded yet is not used.
CachedIfLoaded(id) == requireCache[id] # None /\ module[requireCache[id]].loaded

\* duk__get_cached_module
Cached(id) == requireCache[id] # None

\* The exports of the cached module are returned, complete or not.
UseCached(id) ==
  /\ Running({"resolve"})
  /\ Cached(id)
  /\ Pop
  /\ UNCHANGED <<requireCache, module, throwing, orphans>>

\* Faulty variant: the module object is not cached before it is loaded.
CacheUnchanged(id) == requireCache

\* duk__put_cached_module, before anything of the module runs.
CacheWithNew(id) == [requireCache EXCEPT ![id] = Len(module) + 1]

\* A new module object; the load handler is called.
StartLoading(id) ==
  /\ Running({"resolve"})
  /\ ~Cached(id)
  /\ Len(module) < MaxModules
  /\ module' = Append(module, [id |-> id, loaded |-> FALSE])
  /\ requireCache' = CacheWithNew(id)
  /\ TopBecomes("load", Len(module) + 1)
  /\ UNCHANGED <<throwing, orphans>>

\* Faulty variants: the wrong property goes, or the cache as a whole.
CacheWithFailed(id) == requireCache
CacheEmptied(id) == [x \in Ids |-> None]

\* duk__del_cached_module
CacheWithout(id) == [requireCache EXCEPT ![id] = None]

\* What is cached under the id of the module is removed, and the error rethrown.
Fail ==
  /\ requireCache' = CacheWithout(module[Top.mod].id)
  /\ Pop
  /\ throwing' = TRUE
  /\ UNCHANGED <<module, orphans>>

\* The handler throws, or returns no string: undef from Perl comes as null, so the
\* branch of the code for undefined is never taken.
LoadThrows == Running({"load"}) /\ Fail

LoadReturns ==
  /\ Running({"load"})
  /\ TopBecomes("source", Top.mod)
  /\ UNCHANGED <<requireCache, module, throwing, orphans>>

\* Faulty variant: module.loaded is not set.
LoadedForgotten == module

\* module.loaded = true
LoadedSet == [module EXCEPT ![Top.mod].loaded = TRUE]

\* The source ran to its end: its exports are returned.
SourceReturns ==
  /\ JSRuns
  /\ Running({"source"})
  /\ module' = LoadedSet
  /\ Pop
  /\ UNCHANGED <<requireCache, throwing, orphans>>

\* An error leaves the source.
SourceThrows == Running({"source"}) /\ throwing /\ Fail

-----------------------------------------------------------------------------
Next ==
  \/ Eval \/ EvalReturns \/ Throws \/ Catches \/ Dies
  \/ Require \/ ResolveThrows \/ LoadThrows \/ LoadReturns \/ SourceReturns \/ SourceThrows
  \/ \E id \in Ids : DeleteCached(id) \/ UseCached(id) \/ StartLoading(id)

Spec == Init /\ [][Next]_vars

-----------------------------------------------------------------------------
(* Properties.                                                             *)

\* Type invariant.
TypeOK ==
  /\ requireCache \in [Ids -> 0 .. Len(module)]
  /\ module \in Seq([id : Ids, loaded : BOOLEAN])
  /\ Len(module) <= MaxModules
  /\ frames \in Seq(Frame)
  /\ \A i \in DOMAIN frames :
       IF frames[i].kind \in {"load", "source"} THEN frames[i].mod \in DOMAIN module
                                                ELSE frames[i].mod = None
  /\ throwing \in BOOLEAN
  /\ throwing => Running({"script", "source"})
  /\ orphans \subseteq DOMAIN module

\* A cycle of requires, or a handler that evals a script that requires what is being
\* loaded, does not load a module a second time: two calls of require that load the
\* same id are one and the same.
LoadedOnce ==
  \A i, j \in DOMAIN frames :
    /\ frames[i].mod # None /\ frames[j].mod # None
    /\ module[frames[i].mod].id = module[frames[j].mod].id
    /\ module[frames[i].mod].id \notin Deletable
    => i = j

\* duk_module_node.c:97: a failure takes the module that failed out of the cache.
\* The code deletes by id, so the object that is being loaded must be the one cached.
LoadingIsCached ==
  \A m \in Loading : module[m].id \notin Deletable => requireCache[module[m].id] = m

\* What require finds in the cache is loaded, or is being loaded further out (a
\* cycle), or was left over by a death.
CachedIsSound ==
  \A id \in Ids : Cached(id) =>
    LET m == requireCache[id]
    IN /\ module[m].id = id
       /\ module[m].loaded \/ m \in Loading \/ m \in orphans

\* An id goes from absent to loading, and from there to loaded or back to absent;
\* once it is loaded every require of it returns the same object.
Status(id) == IF ~Cached(id) THEN "absent"
              ELSE IF module[requireCache[id]].loaded THEN "loaded" ELSE "loading"

Lifecycle ==
  [][\A id \in Ids \ Deletable :
       \/ requireCache'[id] = requireCache[id] /\ (Status(id) = "loaded" => Status(id)' = "loaded")
       \/ Status(id) = "absent" /\ Status(id)' = "loading"
       \/ Status(id) = "loading" /\ Status(id)' = "absent"]_vars
=============================================================================
