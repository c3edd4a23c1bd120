-------------------------- MODULE ModuleLoader_proofs --------------------------
(***************************************************************************)
(* Proofs about ModuleLoader, for every set of ids, deleted or not, and    *)
(* every bound on objects and frames.                                      *)
(***************************************************************************)
EXTENDS ModuleLoader, SequenceTheorems, TLAPS

(***************************************************************************)
(* The inductive invariant.  LoadedOnce follows from LoadingIsCached: two  *)
(* calls that load one id would both have their object cached under it.    *)
(* That each has an object of its own is Apart; Nesting says who called    *)
(* whom, so that an error that leaves require finds code to land in.       *)
(***************************************************************************)
Apart ==
  \A i, j \in DOMAIN frames :
    frames[i].mod # None /\ frames[i].mod = frames[j].mod => i = j

Nesting ==
  \A i \in DOMAIN frames :
    IF frames[i].kind = "script"
    THEN i > 1 => frames[i - 1].kind \in {"resolve", "load"}
    ELSE i > 1 /\ frames[i - 1].kind \in {"script", "source"}

Unfinished == \A m \in Loading : ~module[m].loaded

FInv == TypeOK /\ Apart /\ Nesting

IInv == FInv /\ Unfinished /\ LoadingIsCached /\ CachedIsSound

-----------------------------------------------------------------------------
(* The stack of frames.                                                    *)

\* The indices of a stack, and the last of them.
LEMMA LastIndex ==
  ASSUME NEW n \in Nat \ {0}
  PROVE  /\ n \in 1 .. n
         /\ \A i \in 1 .. n - 1 : i \in 1 .. n /\ i # n
         /\ 1 .. n = (1 .. n - 1) \cup {n}
  OBVIOUS

\* A function on 1 .. n is a sequence of length n.
LEMMA FunctionIsSequence ==
  ASSUME NEW S, NEW n \in Nat, NEW f \in [1 .. n -> S]
  PROVE  f \in Seq(S) /\ Len(f) = n
<1>1. f \in Seq(S)
  BY SeqDef
<1> QED
  BY <1>1, LenProperties

LEMMA FrameFacts ==
  ASSUME TypeOK
  PROVE  /\ frames \in Seq(Frame) /\ Len(frames) \in Nat
         /\ DOMAIN frames = 1 .. Len(frames)
         /\ \A i \in DOMAIN frames : frames[i] \in Frame
         /\ frames # <<>> => Len(frames) \in DOMAIN frames
         /\ Len(module) \in Nat /\ DOMAIN module = 1 .. Len(module)
         /\ \A m \in DOMAIN module : module[m] \in [id : Ids, loaded : BOOLEAN]
         /\ Loading \subseteq DOMAIN module
<1>1. frames \in Seq(Frame) /\ module \in Seq([id : Ids, loaded : BOOLEAN])
  BY DEF TypeOK
<1>2. /\ Len(frames) \in Nat /\ DOMAIN frames = 1 .. Len(frames)
      /\ Len(module) \in Nat /\ DOMAIN module = 1 .. Len(module)
  BY <1>1, LenProperties
<1>3. /\ \A i \in DOMAIN frames : frames[i] \in Frame
      /\ \A m \in DOMAIN module : module[m] \in [id : Ids, loaded : BOOLEAN]
  BY <1>1, <1>2, ElementOfSeq
<1>4. frames # <<>> => Len(frames) \in DOMAIN frames
  BY <1>1, <1>2, EmptySeq
<1>5. \A i \in DOMAIN frames : frames[i].mod # None => frames[i].mod \in DOMAIN module
  BY DEF TypeOK
<1>6. Loading \subseteq DOMAIN module
  BY <1>5 DEF Loading
<1> QED
  BY <1>1, <1>2, <1>3, <1>4, <1>6

LEMMA PushFacts ==
  ASSUME TypeOK, NEW kind \in {"script", "resolve"}, Push(kind)
  PROVE  /\ frames' \in Seq(Frame) /\ Len(frames') = Len(frames) + 1
         /\ frames'[Len(frames) + 1] = [kind |-> kind, mod |-> None]
         /\ \A i \in 1 .. Len(frames) : frames'[i] = frames[i]
         /\ Loading' = Loading
<1> DEFINE f == [kind |-> kind, mod |-> 0]
<1>1. f \in Frame /\ frames \in Seq(Frame) /\ Len(frames) \in Nat
  BY FrameFacts DEF Frame
<1>2. frames' = Append(frames, f)
  BY DEF Push
<1>3. f.mod = None /\ f = [kind |-> kind, mod |-> None]
  BY DEF None
<1> HIDE DEF f
<1>4. /\ frames' \in Seq(Frame) /\ Len(frames') = Len(frames) + 1
      /\ DOMAIN frames = 1 .. Len(frames) /\ DOMAIN frames' = 1 .. Len(frames) + 1
      /\ \A i \in 1 .. Len(frames) : frames'[i] = frames[i]
      /\ frames'[Len(frames) + 1] = f
  BY <1>1, <1>2
<1>5. 1 .. Len(frames) + 1 = (1 .. Len(frames)) \cup {Len(frames) + 1}
  BY <1>1
<1>6. Loading' = Loading
  BY <1>3, <1>4, <1>5 DEF Loading
<1> QED
  BY <1>3, <1>4, <1>6

LEMMA PopFacts ==
  ASSUME TypeOK, Apart, frames # <<>>, Pop
  PROVE  /\ frames' \in Seq(Frame) /\ Len(frames') = Len(frames) - 1
         /\ \A i \in 1 .. Len(frames) - 1 : frames'[i] = frames[i]
         /\ Loading' = Loading \ {Top.mod}
<1>1. /\ frames \in Seq(Frame) /\ Len(frames) \in Nat \ {0}
      /\ DOMAIN frames = 1 .. Len(frames)
  BY FrameFacts
<1>2. frames' = [i \in 1 .. Len(frames) - 1 |-> frames[i]]
  BY DEF Pop
<1>3. /\ frames' \in Seq(Frame) /\ Len(frames') = Len(frames) - 1
      /\ DOMAIN frames' = 1 .. Len(frames) - 1
      /\ \A i \in 1 .. Len(frames) - 1 : frames'[i] = frames[i]
  BY <1>1, <1>2
<1>4. 1 .. Len(frames) = (1 .. Len(frames) - 1) \cup {Len(frames)}
  BY <1>1
<1>5. \A i \in 1 .. Len(frames) - 1 : frames[i].mod # None => frames[i].mod # Top.mod
  BY <1>1 DEF Apart, Top
<1>6. Loading' = Loading \ {Top.mod}
  BY <1>1, <1>3, <1>4, <1>5 DEF Loading, Top
<1> QED
  BY <1>3, <1>6

LEMMA BecomesFacts ==
  ASSUME TypeOK, frames # <<>>, NEW kind \in {"load", "source"}, NEW m \in Nat \ {None},
         TopBecomes(kind, m), Top.mod \in {None, m}
  PROVE  /\ frames' \in Seq(Frame) /\ Len(frames') = Len(frames)
         /\ frames'[Len(frames)] = [kind |-> kind, mod |-> m]
         /\ \A i \in 1 .. Len(frames) - 1 : frames'[i] = frames[i]
         /\ Loading' = Loading \cup {m}
<1> DEFINE f == [kind |-> kind, mod |-> m]
<1>1. /\ frames \in Seq(Frame) /\ Len(frames) \in Nat \ {0} /\ f \in Frame
      /\ DOMAIN frames = 1 .. Len(frames)
  BY FrameFacts DEF Frame
<1>2. frames' = [frames EXCEPT ![Len(frames)] = f] /\ f.mod = m
  BY DEF TopBecomes
<1> HIDE DEF f
<1>3. /\ Len(frames) \in 1 .. Len(frames)
      /\ \A i \in 1 .. Len(frames) - 1 : i \in 1 .. Len(frames) /\ i # Len(frames)
      /\ 1 .. Len(frames) = (1 .. Len(frames) - 1) \cup {Len(frames)}
  BY <1>1, LastIndex
<1>4. /\ frames' \in Seq(Frame) /\ Len(frames') = Len(frames)
      /\ \A i \in 1 .. Len(frames) : frames'[i] = IF i = Len(frames) THEN f ELSE frames[i]
  BY ONLY <1>1, <1>2, <1>3, ExceptSeq
<1>5. /\ DOMAIN frames' = 1 .. Len(frames) /\ frames'[Len(frames)] = f
      /\ \A i \in 1 .. Len(frames) - 1 : frames'[i] = frames[i]
  <2>1. DOMAIN frames' = 1 .. Len(frames)
    BY <1>4, LenProperties
  <2> QED
    BY <1>3, <1>4, <2>1, Zenon
<1>6. Loading' = ({frames'[i].mod : i \in 1 .. Len(frames) - 1} \ {None}) \cup {m}
  <2>1. Loading' = {frames'[i].mod : i \in (1 .. Len(frames) - 1) \cup {Len(frames)}} \ {None}
    BY <1>3, <1>5 DEF Loading
  <2>2. frames'[Len(frames)].mod = m /\ m # None
    BY <1>2, <1>5
  <2> QED
    BY <2>1, <2>2
<1>7. Loading \cup {m} = ({frames[i].mod : i \in 1 .. Len(frames) - 1} \ {None}) \cup {m}
  <2>1. Loading = {frames[i].mod : i \in (1 .. Len(frames) - 1) \cup {Len(frames)}} \ {None}
    BY <1>1, <1>3 DEF Loading
  <2> QED
    BY <2>1 DEF Top
<1>8. {frames'[i].mod : i \in 1 .. Len(frames) - 1} = {frames[i].mod : i \in 1 .. Len(frames) - 1}
  BY <1>5
<1> QED
  BY <1>4, <1>5, <1>6, <1>7, <1>8 DEF f

-----------------------------------------------------------------------------
(* The stack keeps its shape: one lemma per way to change it.              *)

\* A call: eval, or require.
LEMMA PushInv ==
  ASSUME FInv, NEW kind \in {"script", "resolve"}, Push(kind),
         IF kind = "script" THEN PerlRuns ELSE JSRuns,
         UNCHANGED <<requireCache, module, throwing, orphans>>, ~throwing
  PROVE  FInv'
<1> DEFINE n == Len(frames)
<1>1. /\ frames' \in Seq(Frame) /\ Len(frames') = n + 1
      /\ frames'[n + 1] = [kind |-> kind, mod |-> None]
      /\ \A i \in 1 .. n : frames'[i] = frames[i]
  BY PushFacts DEF FInv
<1>2. n \in Nat /\ DOMAIN frames = 1 .. n /\ DOMAIN frames' = 1 .. n + 1
  BY <1>1, FrameFacts, LenProperties DEF FInv
<1>3. \A i \in 1 .. n + 1 : i \in 1 .. n \/ i = n + 1
  BY <1>2
<1>4. /\ frames'[n + 1].kind = kind /\ frames'[n + 1].mod = None
  BY <1>1
<1>5. \A i \in 1 .. n : i \in DOMAIN frames /\ i - 1 \in 0 .. n
  BY <1>2
<1>6. TypeOK'
  BY <1>1, <1>2, <1>3, <1>4 DEF FInv, TypeOK
<1>7. Apart'
  BY <1>1, <1>2, <1>3, <1>4 DEF FInv, Apart
<1>8. Nesting'
  <2> SUFFICES ASSUME NEW i \in 1 .. n + 1
               PROVE  IF frames'[i].kind = "script"
                      THEN i > 1 => frames'[i - 1].kind \in {"resolve", "load"}
                      ELSE i > 1 /\ frames'[i - 1].kind \in {"script", "source"}
    BY <1>2 DEF Nesting
  <2>1. CASE i \in 1 .. n
    <3>1. i > 1 => i - 1 \in 1 .. n
      BY <1>2, <2>1
    <3>2. i \in DOMAIN frames /\ frames'[i] = frames[i]
      BY <1>1, <1>2, <2>1
    <3>3. i > 1 => frames'[i - 1] = frames[i - 1]
      BY <1>1, <3>1
    <3> QED
      BY <3>2, <3>3 DEF FInv, Nesting
  <2>2. CASE i = n + 1
    <3>1. frames'[i].kind = kind
      BY <1>4, <2>2
    <3>2. frames # <<>> => n \in 1 .. n /\ i - 1 = n /\ frames'[n] = frames[n]
      BY <1>1, <1>2, <2>2, FrameFacts DEF FInv
    <3>3. frames = <<>> => i = 1 /\ kind = "script"
      BY <1>2, <2>2, EmptySeq DEF JSRuns, Running
    <3>4. frames # <<>> => i > 1
      BY <1>2, <2>2, <3>2
    <3> QED
      BY <3>1, <3>2, <3>3, <3>4 DEF PerlRuns, JSRuns, Running, Top
  <2> QED
    BY <1>3, <2>1, <2>2
<1> QED
  BY <1>6, <1>7, <1>8 DEF FInv

\* The frame below the innermost one.
LEMMA BelowTop ==
  ASSUME FInv, frames # <<>>, Top.kind # "script"
  PROVE  /\ Len(frames) > 1
         /\ frames[Len(frames) - 1].kind \in {"script", "source"}
  BY FrameFacts DEF FInv, Nesting, Top

\* Leaving a frame, by a return or by an error that lands in the code below.
LEMMA PopInv ==
  ASSUME FInv, frames # <<>>, Pop,
         requireCache' \in [Ids -> 0 .. Len(module)],
         module' \in Seq([id : Ids, loaded : BOOLEAN]), Len(module') = Len(module),
         UNCHANGED orphans,
         throwing' \in BOOLEAN, throwing' => Top.kind # "script"
  PROVE  FInv'
<1> DEFINE n == Len(frames)
<1>1. /\ frames' \in Seq(Frame) /\ Len(frames') = n - 1
      /\ \A i \in 1 .. n - 1 : frames'[i] = frames[i]
  BY PopFacts DEF FInv
<1>2. n \in Nat \ {0} /\ DOMAIN frames = 1 .. n /\ DOMAIN frames' = 1 .. n - 1
      /\ DOMAIN module' = DOMAIN module
  BY <1>1, FrameFacts, LenProperties DEF FInv
<1>3. \A i \in 1 .. n - 1 : i \in 1 .. n /\ (i > 1 => i - 1 \in 1 .. n - 1)
  BY <1>2
<1>4. throwing' => Running({"script", "source"})'
  <2> SUFFICES ASSUME throwing' PROVE Running({"script", "source"})'
    OBVIOUS
  <2>1. n > 1 /\ frames[n - 1].kind \in {"script", "source"}
    BY BelowTop
  <2>2. n - 1 \in 1 .. n - 1 /\ frames'[n - 1] = frames[n - 1]
    BY <1>1, <1>2, <2>1
  <2>3. frames' # <<>>
    BY <1>1, <1>2, <2>1, EmptySeq
  <2> QED
    BY <1>1, <2>1, <2>2, <2>3 DEF Running, Top
<1>5. TypeOK'
  BY <1>1, <1>2, <1>3, <1>4 DEF FInv, TypeOK
<1>6. Apart'
  BY <1>1, <1>2, <1>3 DEF FInv, Apart
<1>7. Nesting'
  BY <1>1, <1>2, <1>3 DEF FInv, Nesting
<1> QED
  BY <1>5, <1>6, <1>7 DEF FInv

\* A call of require goes on to its next stage.
LEMMA BecomesInv ==
  ASSUME FInv, Running({"resolve", "load"}), NEW kind \in {"load", "source"},
         NEW m \in Nat \ {None}, TopBecomes(kind, m),
         Top.mod \in {None, m}, m = Top.mod \/ m \notin Loading,
         module' \in Seq([id : Ids, loaded : BOOLEAN]), m \in DOMAIN module',
         Len(module') \in Len(module) .. MaxModules,
         requireCache' \in [Ids -> 0 .. Len(module')],
         UNCHANGED <<throwing, orphans>>
  PROVE  FInv'
<1> DEFINE n == Len(frames)
<1>0. frames # <<>> /\ Top.kind \in {"resolve", "load"}
  BY DEF Running
<1>1. /\ frames' \in Seq(Frame) /\ Len(frames') = n
      /\ frames'[n] = [kind |-> kind, mod |-> m]
      /\ \A i \in 1 .. n - 1 : frames'[i] = frames[i]
  BY <1>0, BecomesFacts DEF FInv
<1>2. n \in Nat \ {0} /\ DOMAIN frames = 1 .. n /\ DOMAIN frames' = 1 .. n
      /\ n \in DOMAIN frames
  BY <1>0, <1>1, FrameFacts, LenProperties DEF FInv
<1>3. \A i \in 1 .. n : i \in 1 .. n - 1 \/ i = n
  <2>1. n \in Nat \ {0}
    BY <1>2
  <2> QED
    BY ONLY <2>1
<1>4. frames'[n].kind = kind /\ frames'[n].mod = m
  BY <1>1
<1>5. DOMAIN module \subseteq DOMAIN module'
  BY FrameFacts, LenProperties DEF FInv
<1>6. TypeOK'
  <2>1. ~throwing
    BY <1>0 DEF FInv, TypeOK, Running
  <2>2. \A i \in 1 .. n - 1 : i \in DOMAIN frames
    <3>1. n \in Nat \ {0} /\ DOMAIN frames = 1 .. n
      BY <1>2
    <3> HIDE DEF n
    <3> QED
      BY ONLY <3>1, LastIndex
  <2>3. \A i \in DOMAIN frames' :
          IF frames'[i].kind \in {"load", "source"} THEN frames'[i].mod \in DOMAIN module'
                                                    ELSE frames'[i].mod = None
    <3> SUFFICES ASSUME NEW i \in 1 .. n
                 PROVE  IF frames'[i].kind \in {"load", "source"}
                        THEN frames'[i].mod \in DOMAIN module' ELSE frames'[i].mod = None
      BY <1>2
    <3>1. CASE i = n
      BY ONLY <1>4, <3>1, m \in DOMAIN module', kind \in {"load", "source"}
    <3>2. CASE i \in 1 .. n - 1
      <4>1. i \in DOMAIN frames /\ frames'[i] = frames[i]
        BY <1>1, <2>2, <3>2
      <4> QED
        BY <1>5, <4>1 DEF FInv, TypeOK
    <3> QED
      BY <1>3, <3>1, <3>2
  <2>4. orphans' \subseteq DOMAIN module'
    BY <1>5 DEF FInv, TypeOK
  <2>5. Len(module') <= MaxModules
    <3>1. Len(module) \in Nat
      BY FrameFacts DEF FInv
    <3> QED
      BY ONLY <3>1, ModuleLoaderAssumption, Len(module') \in Len(module) .. MaxModules
  <2>6. throwing' \in BOOLEAN /\ ~throwing'
    BY <2>1 DEF FInv, TypeOK
  <2> QED
    BY ONLY <1>1, <2>3, <2>4, <2>5, <2>6, module' \in Seq([id : Ids, loaded : BOOLEAN]),
            requireCache' \in [Ids -> 0 .. Len(module')] DEF TypeOK
<1>7. Apart'
  <2>1. \A i \in 1 .. n - 1 : i \in DOMAIN frames /\ i # n
    <3>1. n \in Nat \ {0} /\ DOMAIN frames = 1 .. n
      BY <1>2
    <3> HIDE DEF n
    <3> QED
      BY ONLY <3>1, LastIndex
  <2>2. \A i \in 1 .. n - 1 : frames[i].mod # None => frames[i].mod # m
    BY <1>2, <2>1 DEF FInv, Apart, Loading, Top
  <2>3. \A i, j \in 1 .. n - 1 :
          frames[i].mod # None /\ frames[i].mod = frames[j].mod => i = j
    BY <2>1 DEF FInv, Apart
  <2>4. \A i \in 1 .. n : IF i = n THEN frames'[i].mod = m
                                   ELSE i \in 1 .. n - 1 /\ frames'[i].mod = frames[i].mod
    BY ONLY <1>1, <1>3, <1>4
  <2> SUFFICES ASSUME NEW i \in 1 .. n, NEW j \in 1 .. n,
                      frames'[i].mod # None, frames'[i].mod = frames'[j].mod
               PROVE  i = j
    BY <1>2 DEF Apart
  <2> QED
    BY ONLY <2>2, <2>3, <2>4, i \in 1 .. n, j \in 1 .. n,
            frames'[i].mod # None, frames'[i].mod = frames'[j].mod
<1>8. Nesting'
  <2> SUFFICES ASSUME NEW i \in 1 .. n
               PROVE  IF frames'[i].kind = "script"
                      THEN i > 1 => frames'[i - 1].kind \in {"resolve", "load"}
                      ELSE i > 1 /\ frames'[i - 1].kind \in {"script", "source"}
    BY <1>2 DEF Nesting
  <2>0. n \in Nat \ {0}
    BY <1>2
  <2>1. i > 1 => frames'[i - 1] = frames[i - 1]
    <3>1. i > 1 => i - 1 \in 1 .. n - 1
      BY ONLY <2>0, i \in 1 .. n
    <3> QED
      BY <1>1, <3>1
  <2>2. CASE i \in 1 .. n - 1
    <3>1. i \in DOMAIN frames /\ frames'[i] = frames[i]
      BY <1>1, <1>2, <2>2
    <3> QED
      BY <2>1, <3>1 DEF FInv, Nesting
  <2>3. CASE i = n
    <3>1. /\ frames[n].kind \in {"resolve", "load"} /\ n \in DOMAIN frames
          /\ frames'[n].kind = kind
      BY <1>0, <1>2, <1>4 DEF Top
    <3>2. n > 1 /\ frames[n - 1].kind \in {"script", "source"}
      BY <3>1 DEF FInv, Nesting
    <3> QED
      BY <2>1, <2>3, <3>1, <3>2
  <2> QED
    BY <1>3, <2>2, <2>3
<1> QED
  BY <1>6, <1>7, <1>8 DEF FInv

-----------------------------------------------------------------------------
(* One lemma for each way to change the cache and the objects.             *)

\* The initial state.
LEMMA InitInv == Init => IInv
<1> SUFFICES ASSUME Init PROVE IInv
  OBVIOUS
<1>1. frames = <<>> /\ module = <<>> /\ DOMAIN frames = {} /\ Len(module) = 0
  BY DEF Init
<1>2. Loading = {}
  BY <1>1 DEF Loading
<1>3. TypeOK
  <2>1. frames \in Seq(Frame) /\ module \in Seq([id : Ids, loaded : BOOLEAN])
    BY <1>1
  <2>2. Len(module) <= MaxModules
    BY <1>1, ModuleLoaderAssumption
  <2>3. requireCache \in [Ids -> 0 .. Len(module)]
    BY <1>1 DEF Init, None
  <2> QED
    BY <1>1, <2>1, <2>2, <2>3 DEF Init, TypeOK
<1>4. Apart /\ Nesting
  BY <1>1 DEF Apart, Nesting
<1>5. Unfinished /\ LoadingIsCached
  BY <1>2 DEF Unfinished, LoadingIsCached
<1>6. CachedIsSound
  BY DEF Init, CachedIsSound, Cached
<1> QED
  BY <1>3, <1>4, <1>5, <1>6 DEF IInv, FInv

\* A step that leaves alone the cache, the objects and what is being loaded.
LEMMA FramesOnly ==
  ASSUME IInv, FInv', Loading' = Loading, UNCHANGED <<requireCache, module, orphans>>
  PROVE  IInv'
<1>1. Unfinished' /\ LoadingIsCached'
  BY DEF IInv, Unfinished, LoadingIsCached
<1>2. CachedIsSound'
  BY DEF IInv, CachedIsSound, Cached
<1> QED
  BY <1>1, <1>2 DEF IInv

\* What is known of a call of require that loads a module.
LEMMA TopLoads ==
  ASSUME FInv, Running({"load", "source"})
  PROVE  /\ frames # <<>> /\ Top.mod \in Loading /\ Top.mod \in DOMAIN module
         /\ Top.mod \in Nat \ {None} /\ module[Top.mod].id \in Ids
<1>1. frames # <<>> /\ Len(frames) \in DOMAIN frames
  BY FrameFacts DEF FInv, Running
<1>2. Top.mod \in DOMAIN module
  BY <1>1 DEF FInv, TypeOK, Running, Top
<1>3. Top.mod \in Nat \ {None}
  <2>1. Len(module) \in Nat /\ DOMAIN module = 1 .. Len(module)
    BY FrameFacts DEF FInv
  <2> QED
    BY ONLY <1>2, <2>1 DEF None
<1>4. Top.mod \in Loading
  BY <1>1, <1>3 DEF Loading, Top
<1>5. module[Top.mod].id \in Ids
  BY <1>2, FrameFacts DEF FInv
<1> QED
  BY <1>1, <1>2, <1>3, <1>4, <1>5

\* A script, or a require whose id is not resolved yet, has no module.
LEMMA TopHasNone ==
  ASSUME FInv, Running({"script", "resolve"})
  PROVE  frames # <<>> /\ Top.mod = None
<1>1. frames # <<>> /\ Len(frames) \in DOMAIN frames
  BY FrameFacts DEF FInv, Running
<1> QED
  BY <1>1 DEF FInv, TypeOK, Running, Top

\* Eval and Require.
LEMMA PushKeeps ==
  ASSUME IInv, Eval \/ Require
  PROVE  IInv'
<1>1. CASE Eval
  <2>1. ~throwing
    BY <1>1 DEF Eval, PerlRuns, IInv, FInv, TypeOK, Running
  <2>2. FInv'
    BY <1>1, <2>1, PushInv DEF Eval, IInv
  <2> QED
    BY <1>1, <2>2, PushFacts, FramesOnly DEF Eval, IInv, FInv
<1>2. CASE Require
  <2>1. FInv'
    BY <1>2, PushInv DEF Require, JSRuns, IInv
  <2> QED
    BY <1>2, <2>1, PushFacts, FramesOnly DEF Require, IInv, FInv
<1> QED
  BY <1>1, <1>2

\* A script ends, or require does without having made an object.
LEMMA PopKeeps ==
  ASSUME IInv, Running({"script", "resolve"}), Pop,
         UNCHANGED <<requireCache, module, orphans>>,
         throwing' \in BOOLEAN, throwing' => Running({"resolve"})
  PROVE  IInv'
<1>1. frames # <<>> /\ Top.mod = None
  BY TopHasNone DEF IInv
<1>2. FInv'
  <2>1. /\ requireCache' \in [Ids -> 0 .. Len(module)] /\ Len(module') = Len(module)
        /\ module' \in Seq([id : Ids, loaded : BOOLEAN])
    BY DEF IInv, FInv, TypeOK
  <2>2. throwing' => Top.kind # "script"
    BY DEF Running
  <2> QED
    BY <1>1, <2>1, <2>2, PopInv DEF IInv
<1>3. Loading' = Loading
  BY <1>1, PopFacts DEF IInv, FInv, Loading
<1> QED
  BY <1>2, <1>3, FramesOnly

\* An error comes up or is caught.
LEMMA ErrorKeeps ==
  ASSUME IInv, Throws \/ Catches
  PROVE  IInv'
<1>1. /\ UNCHANGED <<requireCache, module, frames, orphans>>
      /\ throwing' \in BOOLEAN /\ Running({"script", "source"})
  BY DEF Throws, Catches, JSRuns
<1>2. TypeOK' /\ Apart' /\ Nesting'
  BY <1>1 DEF IInv, FInv, TypeOK, Apart, Nesting, Running, Top
<1>3. Loading' = Loading
  BY <1>1 DEF Loading
<1> QED
  BY <1>1, <1>2, <1>3, FramesOnly DEF FInv

\* A script deletes an entry of the cache.
LEMMA DeleteKeeps ==
  ASSUME IInv, NEW id \in Ids, DeleteCached(id)
  PROVE  IInv'
<1>1. /\ UNCHANGED <<module, frames, throwing, orphans>> /\ id \in Deletable
      /\ requireCache' = [requireCache EXCEPT ![id] = None]
  BY DEF DeleteCached
<1>2. /\ requireCache \in [Ids -> 0 .. Len(module)]
      /\ requireCache'[id] = None /\ \A x \in Ids \ {id} : requireCache'[x] = requireCache[x]
  BY <1>1 DEF IInv, FInv, TypeOK
<1>3. requireCache' \in [Ids -> 0 .. Len(module)]
  <2>1. None \in 0 .. Len(module)
    BY FrameFacts DEF IInv, FInv, None
  <2> QED
    BY <1>1, <1>2, <2>1
<1>4. FInv' /\ Unfinished'
  BY <1>1, <1>3 DEF IInv, FInv, TypeOK, Apart, Nesting, Unfinished, Loading, Running, Top
<1>5. LoadingIsCached'
  <2> SUFFICES ASSUME NEW m \in Loading, module[m].id \notin Deletable
               PROVE  requireCache'[module[m].id] = m
    BY <1>1 DEF LoadingIsCached, Loading
  <2>1. module[m].id \in Ids \ {id}
    BY <1>1, FrameFacts DEF IInv, FInv
  <2> QED
    BY <1>2, <2>1 DEF IInv, LoadingIsCached
<1>6. CachedIsSound'
  BY <1>1, <1>2 DEF IInv, CachedIsSound, Cached, Loading
<1> QED
  BY <1>4, <1>5, <1>6 DEF IInv

\* What a death leaves in the cache is counted among the orphans.
LEMMA DeathKeeps ==
  ASSUME IInv, Dies
  PROVE  IInv'
<1>1. /\ UNCHANGED <<requireCache, module, throwing>> /\ ~throwing
      /\ frames' = <<>> /\ orphans' = orphans \cup Loading
  BY DEF Dies
<1>2. DOMAIN frames' = {} /\ frames' \in Seq(Frame) /\ Loading' = {}
  BY <1>1 DEF Loading
<1>3. TypeOK'
  BY <1>1, <1>2, FrameFacts DEF IInv, FInv, TypeOK
<1>4. Apart' /\ Nesting' /\ Unfinished' /\ LoadingIsCached'
  BY <1>2 DEF Apart, Nesting, Unfinished, LoadingIsCached
<1>5. CachedIsSound'
  BY <1>1 DEF IInv, CachedIsSound, Cached
<1> QED
  BY <1>3, <1>4, <1>5 DEF IInv, FInv

\* A module object is made, cached, and loaded from then on.
LEMMA StartKeeps ==
  ASSUME IInv, NEW id \in Ids, StartLoading(id)
  PROVE  IInv'
<1> DEFINE m == Len(module) + 1
           o == [id |-> id, loaded |-> FALSE]
<1>1. /\ UNCHANGED <<throwing, orphans>> /\ Running({"resolve"}) /\ ~Cached(id)
      /\ module' = Append(module, o) /\ Len(module) < MaxModules
      /\ requireCache' = [requireCache EXCEPT ![id] = m] /\ TopBecomes("load", m)
  BY DEF StartLoading, CacheWithNew
<1>2. /\ Len(module) \in Nat /\ DOMAIN module = 1 .. Len(module)
      /\ module \in Seq([id : Ids, loaded : BOOLEAN])
      /\ Loading \subseteq DOMAIN module
  BY FrameFacts DEF IInv, FInv, TypeOK
<1>3. m \in Nat \ {None} /\ m \notin DOMAIN module
  BY ONLY <1>2 DEF None
<1>4. /\ module' \in Seq([id : Ids, loaded : BOOLEAN]) /\ Len(module') = m
      /\ DOMAIN module' = 1 .. m
      /\ module'[m] = o /\ \A x \in DOMAIN module : module'[x] = module[x]
  <2>1. o \in [id : Ids, loaded : BOOLEAN]
    OBVIOUS
  <2> HIDE DEF o
  <2> QED
    BY ONLY <1>1, <1>2, <2>1
<1>5. m \in DOMAIN module' /\ m \in Len(module) .. MaxModules
  BY ONLY <1>1, <1>2, <1>4, ModuleLoaderAssumption
<1>6. requireCache \in [Ids -> 0 .. Len(module)]
  BY DEF IInv, FInv, TypeOK
<1>7. requireCache' \in [Ids -> 0 .. Len(module')]
  <2>1. m \in 0 .. m /\ \A x \in 0 .. Len(module) : x \in 0 .. m
    BY ONLY <1>2
  <2> HIDE DEF m
  <2> QED
    BY ONLY <1>1, <1>4, <1>6, <2>1, id \in Ids
<1>8. frames # <<>> /\ Top.mod = None
  BY <1>1, TopHasNone DEF IInv, Running
<1>9. FInv'
  <2>1. Running({"resolve", "load"}) /\ m \notin Loading
    BY <1>1, <1>2, <1>3 DEF Running
  <2> HIDE DEF m
  <2> QED
    BY <1>1, <1>3, <1>4, <1>5, <1>7, <1>8, <2>1, BecomesInv DEF IInv
<1>10. Loading' = Loading \cup {m}
  <2> HIDE DEF m
  <2> QED
    BY <1>1, <1>3, <1>8, BecomesFacts DEF IInv, FInv
<1>11. /\ requireCache'[id] = m /\ \A x \in Ids \ {id} : requireCache'[x] = requireCache[x]
       /\ requireCache[id] = None
  BY <1>1, <1>6 DEF Cached
<1>12. \A x \in Loading : module'[x] = module[x] /\ module[x].id \in Ids
  BY <1>2, <1>4, FrameFacts DEF IInv, FInv
<1>13. o.id = id /\ ~o.loaded
  OBVIOUS
<1> HIDE DEF m, o
<1>14. Unfinished'
  BY <1>4, <1>10, <1>12, <1>13 DEF IInv, Unfinished
<1>15. LoadingIsCached'
  <2> SUFFICES ASSUME NEW x \in Loading', module'[x].id \notin Deletable
               PROVE  requireCache'[module'[x].id] = x
    BY DEF LoadingIsCached
  <2>1. CASE x = m
    BY <1>4, <1>11, <1>13, <2>1
  <2>2. CASE x \in Loading
    <3>1. requireCache[module[x].id] = x /\ x # None /\ module'[x] = module[x]
      BY <1>12, <2>2 DEF IInv, LoadingIsCached, Loading
    <3>2. module[x].id \in Ids \ {id}
      BY <1>11, <1>12, <2>2, <3>1
    <3> QED
      BY <1>11, <3>1, <3>2
  <2> QED
    BY <1>10, <2>1, <2>2
<1>16. CachedIsSound'
  <2> SUFFICES ASSUME NEW x \in Ids, Cached(x)'
               PROVE  /\ module'[requireCache'[x]].id = x
                      /\ \/ module'[requireCache'[x]].loaded
                         \/ requireCache'[x] \in Loading' \/ requireCache'[x] \in orphans'
    BY DEF CachedIsSound
  <2>1. CASE x = id
    BY <1>4, <1>10, <1>11, <1>13, <2>1
  <2>2. CASE x # id
    <3>1. requireCache'[x] = requireCache[x] /\ Cached(x)
      BY <1>11, <2>2 DEF Cached
    <3>2. requireCache[x] \in DOMAIN module
      BY ONLY <1>2, <1>6, <3>1, x \in Ids DEF Cached, None
    <3> QED
      BY <1>1, <1>4, <1>10, <3>1, <3>2 DEF IInv, CachedIsSound
  <2> QED
    BY <2>1, <2>2
<1> QED
  BY <1>9, <1>14, <1>15, <1>16 DEF IInv

\* A require that had started to load ends, and is the innermost frame no more.
LEMMA LoadEnds ==
  ASSUME IInv, Running({"load", "source"}), Pop,
         requireCache' \in [Ids -> 0 .. Len(module)],
         module' \in Seq([id : Ids, loaded : BOOLEAN]), Len(module') = Len(module),
         UNCHANGED orphans, throwing' \in BOOLEAN
  PROVE  FInv' /\ Loading' = Loading \ {Top.mod}
<1>1. frames # <<>> /\ Top.kind # "script"
  BY DEF Running
<1>2. FInv'
  BY <1>1, PopInv DEF IInv
<1> QED
  BY <1>1, <1>2, PopFacts DEF IInv, FInv

\* The load handler or the source throws.
LEMMA FailKeeps ==
  ASSUME IInv, Running({"load", "source"}), Fail
  PROVE  IInv'
<1> DEFINE t == Top.mod
           id == module[t].id
<1>1. /\ UNCHANGED <<module, orphans>> /\ throwing' = TRUE /\ Pop
      /\ requireCache' = [requireCache EXCEPT ![id] = None]
  BY DEF Fail, CacheWithout
<1>2. /\ t \in Loading /\ id \in Ids /\ Loading \subseteq DOMAIN module
      /\ \A m \in DOMAIN module : module[m].id \in Ids
  BY TopLoads, FrameFacts DEF IInv, FInv
<1>3. /\ requireCache \in [Ids -> 0 .. Len(module)]
      /\ None \in 0 .. Len(module)
      /\ module \in Seq([id : Ids, loaded : BOOLEAN])
  BY FrameFacts DEF IInv, FInv, TypeOK, None
<1> HIDE DEF id, t
<1>4. /\ requireCache' \in [Ids -> 0 .. Len(module)] /\ requireCache'[id] = None
      /\ \A x \in Ids \ {id} : requireCache'[x] = requireCache[x]
  BY ONLY <1>1, <1>2, <1>3
<1>5. FInv' /\ Loading' = Loading \ {t}
  <2>1. throwing' \in BOOLEAN
    BY <1>1
  <2> QED
    BY <1>1, <1>3, <1>4, <2>1, LoadEnds DEF t
<1>6. Unfinished'
  BY <1>1, <1>5 DEF IInv, Unfinished
<1>7. LoadingIsCached'
  <2> SUFFICES ASSUME NEW m \in Loading, m # t, module[m].id \notin Deletable
               PROVE  requireCache'[module[m].id] = m
    BY <1>1, <1>5 DEF LoadingIsCached
  <2>1. module[m].id # id
    BY <1>2 DEF IInv, LoadingIsCached, id
  <2> QED
    BY <1>2, <1>4, <2>1 DEF IInv, LoadingIsCached
<1>8. CachedIsSound'
  <2> SUFFICES ASSUME NEW x \in Ids, Cached(x)'
               PROVE  /\ module[requireCache'[x]].id = x
                      /\ \/ module[requireCache'[x]].loaded
                         \/ requireCache'[x] \in Loading \ {t} \/ requireCache'[x] \in orphans
    BY <1>1, <1>5 DEF CachedIsSound
  <2>1. x # id /\ requireCache'[x] = requireCache[x] /\ Cached(x)
    BY <1>4 DEF Cached
  <2>2. module[requireCache[x]].id = x
    BY <2>1 DEF IInv, CachedIsSound
  <2>3. requireCache[x] # t
    BY <2>1, <2>2 DEF id
  <2> QED
    BY <2>1, <2>2, <2>3 DEF IInv, CachedIsSound
<1> QED
  BY <1>5, <1>6, <1>7, <1>8 DEF IInv

\* The source of a module runs next.
LEMMA LoadReturnKeeps ==
  ASSUME IInv, LoadReturns
  PROVE  IInv'
<1>1. /\ Running({"load"}) /\ TopBecomes("source", Top.mod)
      /\ UNCHANGED <<requireCache, module, throwing, orphans>>
  BY DEF LoadReturns
<1>2. /\ frames # <<>> /\ Top.mod \in Loading /\ Top.mod \in DOMAIN module
      /\ Top.mod \in Nat \ {None}
  BY <1>1, TopLoads DEF IInv, Running
<1>3. FInv'
  <2>1. /\ module' \in Seq([id : Ids, loaded : BOOLEAN]) /\ Top.mod \in DOMAIN module'
        /\ requireCache' \in [Ids -> 0 .. Len(module')]
    BY <1>1, <1>2 DEF IInv, FInv, TypeOK
  <2>2. Len(module') \in Len(module) .. MaxModules
    <3>1. Len(module') = Len(module) /\ Len(module) \in Nat /\ Len(module) <= MaxModules
      BY <1>1, FrameFacts DEF IInv, FInv, TypeOK
    <3> QED
      BY ONLY <3>1, ModuleLoaderAssumption
  <2>3. Running({"resolve", "load"})
    BY <1>1 DEF Running
  <2> QED
    BY <1>1, <1>2, <2>1, <2>2, <2>3, BecomesInv DEF IInv
<1>4. Loading' = Loading
  <2>1. Top.mod \in {None, Top.mod} /\ TypeOK
    BY DEF IInv, FInv
  <2>2. Loading' = Loading \cup {Top.mod}
    BY <1>1, <1>2, <2>1, BecomesFacts
  <2> QED
    BY <1>2, <2>2
<1> QED
  BY <1>1, <1>3, <1>4, FramesOnly

\* The source has run.
LEMMA SourceReturnKeeps ==
  ASSUME IInv, SourceReturns
  PROVE  IInv'
<1> DEFINE t == Top.mod
<1>1. /\ UNCHANGED <<requireCache, throwing, orphans>> /\ Pop
      /\ Running({"load", "source"}) /\ module' = [module EXCEPT ![t].loaded = TRUE]
  BY DEF SourceReturns, LoadedSet, Running
<1>2. t \in Loading /\ t \in DOMAIN module /\ Loading \subseteq DOMAIN module
  BY <1>1, TopLoads, FrameFacts DEF IInv, FInv
<1>3. /\ requireCache \in [Ids -> 0 .. Len(module)] /\ throwing \in BOOLEAN
      /\ module \in Seq([id : Ids, loaded : BOOLEAN])
      /\ Len(module) \in Nat /\ DOMAIN module = 1 .. Len(module)
  BY FrameFacts DEF IInv, FInv, TypeOK
<1>4. /\ \A m \in DOMAIN module : module'[m].id = module[m].id
      /\ module'[t].loaded /\ \A m \in DOMAIN module \ {t} : module'[m] = module[m]
  <2>1. \A m \in DOMAIN module : module[m] \in [id : Ids, loaded : BOOLEAN]
    BY <1>3, ElementOfSeq
  <2>2. module' = [module EXCEPT ![t] = [module[t] EXCEPT !.loaded = TRUE]]
    BY <1>1
  <2> HIDE DEF t
  <2>3. module'[t] = [module[t] EXCEPT !.loaded = TRUE]
    BY <1>2, <2>2
  <2>4. module'[t].loaded /\ module'[t].id = module[t].id
    BY <1>2, <2>1, <2>3
  <2>5. \A m \in DOMAIN module \ {t} : module'[m] = module[m]
    BY <2>2
  <2> QED
    BY <2>4, <2>5
<1>5. /\ module' \in Seq([id : Ids, loaded : BOOLEAN]) /\ Len(module') = Len(module)
  <2> DEFINE o == [module[t] EXCEPT !.loaded = TRUE]
  <2>1. module' = [module EXCEPT ![t] = o] /\ t \in 1 .. Len(module)
    BY <1>1, <1>2, <1>3
  <2>2. o \in [id : Ids, loaded : BOOLEAN]
    <3>1. module[t] \in [id : Ids, loaded : BOOLEAN]
      BY <1>2, FrameFacts DEF IInv, FInv
    <3> HIDE DEF t
    <3> QED
      BY <3>1
  <2> HIDE DEF o, t
  <2> QED
    BY ONLY <1>3, <2>1, <2>2, ExceptSeq
<1>6. FInv' /\ Loading' = Loading \ {t}
  BY <1>1, <1>3, <1>5, LoadEnds
<1> HIDE DEF t
<1>7. Unfinished'
  BY <1>2, <1>4, <1>6 DEF IInv, Unfinished
<1>8. LoadingIsCached'
  BY <1>1, <1>2, <1>4, <1>6 DEF IInv, LoadingIsCached
<1>9. CachedIsSound'
  <2> SUFFICES ASSUME NEW x \in Ids, Cached(x)
               PROVE  /\ module'[requireCache[x]].id = x
                      /\ \/ module'[requireCache[x]].loaded
                         \/ requireCache[x] \in Loading \ {t} \/ requireCache[x] \in orphans
    BY <1>1, <1>6 DEF CachedIsSound, Cached
  <2>1. requireCache[x] \in DOMAIN module
    BY ONLY <1>3, x \in Ids, Cached(x) DEF Cached, None
  <2>2. /\ module[requireCache[x]].id = x
        /\ \/ module[requireCache[x]].loaded
           \/ requireCache[x] \in Loading \/ requireCache[x] \in orphans
    BY DEF IInv, CachedIsSound
  <2> QED
    BY <1>4, <2>1, <2>2
<1> QED
  BY <1>6, <1>7, <1>8, <1>9 DEF IInv

-----------------------------------------------------------------------------
(* The invariant holds, and what follows from it.                          *)

\* Every step keeps the invariant.
LEMMA StepInv ==
  ASSUME IInv, Next
  PROVE  IInv'
<1>1. CASE Eval \/ Require
  BY <1>1, PushKeeps
<1>2. CASE EvalReturns
  <2>1. Running({"script", "resolve"}) /\ Pop /\ throwing' = FALSE
        /\ UNCHANGED <<requireCache, module, orphans>>
    BY <1>2 DEF EvalReturns, Running
  <2> QED
    BY <2>1, PopKeeps
<1>3. CASE ResolveThrows
  <2>1. Running({"script", "resolve"}) /\ Running({"resolve"}) /\ Pop /\ throwing' = TRUE
        /\ UNCHANGED <<requireCache, module, orphans>>
    BY <1>3 DEF ResolveThrows, Running
  <2> QED
    BY <2>1, PopKeeps
<1>4. ASSUME NEW id \in Ids, UseCached(id) PROVE IInv'
  <2>1. Running({"script", "resolve"}) /\ Pop
        /\ UNCHANGED <<requireCache, module, throwing, orphans>>
    BY <1>4 DEF UseCached, Running
  <2>2. throwing' \in BOOLEAN /\ ~throwing'
    BY <1>4 DEF UseCached, IInv, FInv, TypeOK, Running
  <2> QED
    BY <2>1, <2>2, PopKeeps
<1>5. CASE Throws \/ Catches
  BY <1>5, ErrorKeeps
<1>6. CASE Dies
  BY <1>6, DeathKeeps
<1>7. ASSUME NEW id \in Ids, DeleteCached(id) PROVE IInv'
  BY <1>7, DeleteKeeps
<1>8. ASSUME NEW id \in Ids, StartLoading(id) PROVE IInv'
  BY <1>8, StartKeeps
<1>9. CASE LoadThrows \/ SourceThrows
  <2>1. Running({"load", "source"}) /\ Fail
    BY <1>9 DEF LoadThrows, SourceThrows, Running
  <2> QED
    BY <2>1, FailKeeps
<1>10. CASE LoadReturns
  BY <1>10, LoadReturnKeeps
<1>11. CASE SourceReturns
  BY <1>11, SourceReturnKeeps
<1> QED
  BY <1>1, <1>2, <1>3, <1>4, <1>5, <1>6, <1>7, <1>8, <1>9, <1>10, <1>11 DEF Next

\* A step that changes nothing keeps it too.
LEMMA StutterInv ==
  ASSUME IInv, UNCHANGED vars
  PROVE  IInv'
<1>1. Loading' = Loading /\ FInv'
  BY DEF vars, IInv, FInv, TypeOK, Apart, Nesting, Loading, Running, Top
<1> QED
  BY <1>1, FramesOnly DEF vars

\* The inductive invariant holds in every state.
THEOREM Invariance == Spec => []IInv
<1>1. Init => IInv
  BY InitInv
<1>2. IInv /\ [Next]_vars => IInv'
  BY StepInv, StutterInv
<1> QED
  BY <1>1, <1>2, PTL DEF Spec

\* The variables keep their types.
THEOREM LoaderTypeCorrect == Spec => []TypeOK
<1>1. IInv => TypeOK
  BY DEF IInv, FInv
<1> QED
  BY <1>1, Invariance, PTL

\* The object that a require is loading is the one cached under its id, whatever the
\* handlers and the sources do meanwhile.
THEOREM LoadingModulesAreCached == Spec => []LoadingIsCached
<1>1. IInv => LoadingIsCached
  BY DEF IInv
<1> QED
  BY <1>1, Invariance, PTL

\* No two requires in progress load the same id.
THEOREM ModulesLoadOnce == Spec => []LoadedOnce
<1>1. IInv => LoadedOnce
  <2> SUFFICES ASSUME IInv, NEW i \in DOMAIN frames, NEW j \in DOMAIN frames,
                      frames[i].mod # None, frames[j].mod # None,
                      module[frames[i].mod].id = module[frames[j].mod].id,
                      module[frames[i].mod].id \notin Deletable
               PROVE  i = j
    BY DEF LoadedOnce
  <2>1. frames[i].mod \in Loading /\ frames[j].mod \in Loading
    BY DEF Loading
  <2>2. frames[i].mod = frames[j].mod
    BY <2>1 DEF IInv, LoadingIsCached
  <2> QED
    BY <2>2 DEF IInv, FInv, Apart
<1> QED
  BY <1>1, Invariance, PTL

\* What require finds in the cache is sound, but for what a death left there.
THEOREM CacheIsSound == Spec => []CachedIsSound
<1>1. IInv => CachedIsSound
  BY DEF IInv
<1> QED
  BY <1>1, Invariance, PTL

-----------------------------------------------------------------------------
(* The life of an id.                                                      *)

\* What one step may do to an id.
Lives(id) ==
  \/ requireCache'[id] = requireCache[id] /\ (Status(id) = "loaded" => Status(id)' = "loaded")
  \/ Status(id) = "absent" /\ Status(id)' = "loading"
  \/ Status(id) = "loading" /\ Status(id)' = "absent"

\* Nothing changes for an id whose entry, and whose object, stay as they are.
LEMMA SameLives ==
  ASSUME NEW id, requireCache'[id] = requireCache[id],
         Cached(id) /\ module[requireCache[id]].loaded => module'[requireCache[id]].loaded
  PROVE  Lives(id)
<1>1. Status(id) = "loaded" => Status(id)' = "loaded"
  BY DEF Status, Cached
<1> QED
  BY <1>1 DEF Lives

\* Absent to loading.
LEMMA StartLives ==
  ASSUME IInv, NEW x \in Ids, StartLoading(x), NEW id \in Ids
  PROVE  Lives(id)
<1> DEFINE m == Len(module) + 1
<1>1. /\ ~Cached(x) /\ module' = Append(module, [id |-> x, loaded |-> FALSE])
      /\ requireCache' = [requireCache EXCEPT ![x] = m]
  BY DEF StartLoading, CacheWithNew
<1>2. /\ Len(module) \in Nat /\ DOMAIN module = 1 .. Len(module)
      /\ module \in Seq([id : Ids, loaded : BOOLEAN])
      /\ requireCache \in [Ids -> 0 .. Len(module)]
  BY FrameFacts DEF IInv, FInv, TypeOK
<1>3. /\ m # None /\ ~module'[m].loaded
      /\ \A i \in DOMAIN module : module'[i] = module[i]
  <2> DEFINE o == [id |-> x, loaded |-> FALSE]
  <2>1. o \in [id : Ids, loaded : BOOLEAN] /\ ~o.loaded /\ module' = Append(module, o)
    BY <1>1
  <2> HIDE DEF o
  <2> QED
    BY ONLY <1>2, <2>1 DEF None
<1> HIDE DEF m
<1>4. CASE id = x
  <2>1. Status(id) = "absent"
    BY <1>1, <1>4 DEF Status
  <2>2. requireCache'[id] = m
    BY <1>1, <1>2, <1>4
  <2>3. Status(id)' = "loading"
    BY <1>3, <2>2 DEF Status, Cached
  <2> QED
    BY <2>1, <2>3 DEF Lives
<1>5. CASE id # x
  <2>1. requireCache'[id] = requireCache[id]
    BY <1>1, <1>2, <1>5
  <2>2. Cached(id) => requireCache[id] \in DOMAIN module
    BY ONLY <1>2, id \in Ids DEF Cached, None
  <2> QED
    BY <1>3, <2>1, <2>2, SameLives
<1> QED
  BY <1>4, <1>5

\* Loading to absent: what goes is the object that failed, which is not loaded.
LEMMA FailLives ==
  ASSUME IInv, Running({"load", "source"}), Fail, NEW id \in Ids \ Deletable
  PROVE  Lives(id)
<1> DEFINE x == module[Top.mod].id
<1>1. module' = module /\ requireCache' = [requireCache EXCEPT ![x] = None]
  BY DEF Fail, CacheWithout
<1>2. Top.mod \in Loading /\ x \in Ids /\ Top.mod # None
  BY TopLoads DEF IInv
<1>3. requireCache \in [Ids -> 0 .. Len(module)]
  BY DEF IInv, FInv, TypeOK
<1>4. CASE id = x
  <2>1. requireCache[id] = Top.mod /\ ~module[Top.mod].loaded
    BY <1>2, <1>4 DEF IInv, LoadingIsCached, Unfinished
  <2>2. requireCache'[id] = None
    BY <1>1, <1>2, <1>3, <1>4
  <2>3. Status(id) = "loading"
    BY <1>2, <2>1 DEF Status, Cached
  <2>4. Status(id)' = "absent"
    BY <2>2 DEF Status, Cached
  <2> QED
    BY <2>3, <2>4 DEF Lives
<1>5. CASE id # x
  <2>1. requireCache'[id] = requireCache[id]
    BY <1>1, <1>3, <1>5
  <2> QED
    BY <1>1, <2>1, SameLives
<1> QED
  BY <1>4, <1>5

\* Loading to loaded.
LEMMA ReturnLives ==
  ASSUME IInv, SourceReturns, NEW id \in Ids
  PROVE  Lives(id)
<1>1. /\ requireCache' = requireCache /\ Running({"load", "source"})
      /\ module' = [module EXCEPT ![Top.mod] = [module[Top.mod] EXCEPT !.loaded = TRUE]]
  BY DEF SourceReturns, LoadedSet, Running
<1>2. Top.mod \in DOMAIN module
  BY <1>1, TopLoads DEF IInv
<1>3. \A m \in DOMAIN module : module[m].loaded => module'[m].loaded
  <2> SUFFICES ASSUME NEW m \in DOMAIN module, module[m].loaded PROVE module'[m].loaded
    OBVIOUS
  <2>1. CASE m = Top.mod
    <3>1. module'[m] = [module[m] EXCEPT !.loaded = TRUE]
      BY <1>1, <1>2, <2>1
    <3>2. module[m] \in [id : Ids, loaded : BOOLEAN]
      BY FrameFacts DEF IInv, FInv
    <3> QED
      BY <3>1, <3>2
  <2>2. CASE m # Top.mod
    BY <1>1, <2>2
  <2> QED
    BY <2>1, <2>2
<1>4. Cached(id) => requireCache[id] \in DOMAIN module
  <2>1. /\ Len(module) \in Nat /\ DOMAIN module = 1 .. Len(module)
        /\ requireCache \in [Ids -> 0 .. Len(module)]
    BY FrameFacts DEF IInv, FInv, TypeOK
  <2> QED
    BY ONLY <2>1, id \in Ids DEF Cached, None
<1> QED
  BY <1>1, <1>3, <1>4, SameLives

\* An id that no script deletes goes from absent to loading and from there to loaded
\* or back; no later require of a loaded id makes another object.
THEOREM LifecycleKept == Spec => Lifecycle
<1>1. IInv /\ [Next]_vars => [\A id \in Ids \ Deletable : Lives(id)]_vars
  <2> SUFFICES ASSUME IInv, Next, NEW id \in Ids \ Deletable PROVE Lives(id)
    OBVIOUS
  <2>1. CASE UNCHANGED <<requireCache, module>>
    BY <2>1, SameLives
  <2>2. ASSUME NEW x \in Ids, DeleteCached(x) PROVE Lives(id)
    <3>1. requireCache'[id] = requireCache[id] /\ module' = module
      BY <2>2 DEF DeleteCached, IInv, FInv, TypeOK
    <3> QED
      BY <3>1, SameLives
  <2>3. ASSUME NEW x \in Ids, StartLoading(x) PROVE Lives(id)
    BY <2>3, StartLives
  <2>4. CASE LoadThrows \/ SourceThrows
    <3>1. Running({"load", "source"}) /\ Fail
      BY <2>4 DEF LoadThrows, SourceThrows, Running
    <3> QED
      BY <3>1, FailLives
  <2>5. CASE SourceReturns
    BY <2>5, ReturnLives
  <2>6. ASSUME NEW x \in Ids, UseCached(x) PROVE Lives(id)
    BY <2>1, <2>6 DEF UseCached
  <2> QED
    BY <2>1, <2>2, <2>3, <2>4, <2>5, <2>6
       DEF Next, Eval, EvalReturns, Throws, Catches, Dies, Require, ResolveThrows, LoadReturns
<1> QED
  BY <1>1, Invariance, PTL DEF Spec, Lifecycle, Lives
=============================================================================
