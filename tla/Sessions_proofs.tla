---------------------------- MODULE Sessions_proofs ----------------------------
(***************************************************************************)
(* Proofs about Sessions, for any number of VMs, slots, timers and evals   *)
(* inside each other, with or without deaths and resets.                   *)
(***************************************************************************)
EXTENDS Sessions, SequenceTheorems, FiniteSetTheorems, TLAPS

(***************************************************************************)
(* The inductive invariant.  An outer loop settles whatever it finds in    *)
(* timer_expiring when its callback has returned.  That this doubles no    *)
(* timer, and brings back none that was cleared, holds because of what may *)
(* ever be in timer_expiring: a timer that is in the list as well only     *)
(* while no script runs, and that is marked if it was cleared or is a      *)
(* one-shot, no matter which loop has put it there.                        *)
(***************************************************************************)
Unique(list) ==
  \A i, j \in DOMAIN list : list[i].id = list[j].id => i = j \/ list[i].id = 0

ListInv ==
  /\ Unique(timer_list)
  /\ \A t \in Range(timer_list) :
       /\ t.id < timer_next_id
       /\ ~t.removed
       /\ t.id = 0 \/ t.id \notin cleared
       /\ t.oneshot => t.id \notin called

ExpiringInv ==
  /\ timer_expiring.id < timer_next_id
  /\ timer_expiring.oneshot => timer_expiring.removed
  /\ timer_expiring.removed \/ timer_expiring.id = 0 \/ timer_expiring.id \notin cleared
  /\ At({"expire"}) \/ timer_expiring.id = 0 \/ timer_expiring.id \notin Pending

TableInv == \A h \in 1 .. MaxHeaps : \A id \in eventTimers[h] : owner[id] = h

\* TypeOK, and OwnCallbacks, in two halves: the frames, and the rest.
FramesOK ==
  /\ frames \in Seq(Frame)
  /\ Active \subseteq live
  /\ \A i \in 1 .. Len(frames) - 1 : frames[i].stage \in {"main", "callback"}
  /\ \A i \in DOMAIN frames :
       frames[i].stage = "callback" =>
         /\ frames[i].took \in 1 .. timer_next_id - 1
         /\ owner[frames[i].took] = frames[i].heap

DataOK ==
  /\ timer_list \in Seq(Slot)
  /\ Len(timer_list) <= MaxTimers
  /\ timer_expiring \in Slot
  /\ timer_next_id \in 1 .. MaxId + 1
  /\ heaps \in 0 .. MaxHeaps
  /\ live \subseteq 1 .. heaps
  /\ eventTimers \in [1 .. MaxHeaps -> SUBSET (1 .. timer_next_id - 1)]
  /\ owner \in [1 .. MaxId -> 0 .. heaps]
  /\ called \subseteq 1 .. timer_next_id - 1
  /\ cleared \subseteq 0 .. timer_next_id - 1

IInv == DataOK /\ FramesOK /\ ListInv /\ ExpiringInv /\ TableInv

-----------------------------------------------------------------------------
(* The list.                                                               *)

\* A function on 1 .. n is a sequence of length n.
LEMMA FunctionIsSequence ==
  ASSUME NEW S, NEW n \in Nat, NEW f \in [1 .. n -> S]
  PROVE  f \in Seq(S) /\ Len(f) = n /\ DOMAIN f = 1 .. n
<1>1. f \in Seq(S)
  BY SeqDef
<1>2. DOMAIN f = 1 .. n
  OBVIOUS
<1> QED
  BY <1>1, <1>2, LenProperties

\* An insertion adds the new slot and keeps the others, each once.
LEMMA InsertKeeps ==
  ASSUME NEW list \in Seq(Slot), NEW p \in 1 .. Len(list) + 1, NEW t \in Slot
  PROVE  /\ Insert(list, p, t) \in Seq(Slot)
         /\ Len(Insert(list, p, t)) = Len(list) + 1
         /\ Range(Insert(list, p, t)) \subseteq Range(list) \cup {t}
         /\ Unique(list) /\ (t.id = 0 \/ t.id \notin Ids(list)) => Unique(Insert(list, p, t))
<1> DEFINE n == Len(list)
           l == Insert(list, p, t)
           Old(i) == IF i < p THEN i ELSE i - 1
<1>1. n \in Nat /\ DOMAIN list = 1 .. n /\ \A i \in 1 .. n : list[i] \in Slot
  BY LenProperties, ElementOfSeq
<1>2. l = [i \in 1 .. n + 1 |-> IF i < p THEN list[i] ELSE IF i = p THEN t ELSE list[i - 1]]
  BY DEF Insert
<1>3. \A i \in 1 .. n + 1 : i # p => Old(i) \in 1 .. n
  BY ONLY <1>1, p \in 1 .. Len(list) + 1
<1>4. \A i, j \in 1 .. n + 1 : i # p /\ j # p /\ Old(i) = Old(j) => i = j
  BY ONLY <1>1, p \in 1 .. Len(list) + 1
<1>5. \A i \in 1 .. n + 1 : IF i = p THEN l[i] = t ELSE l[i] = list[Old(i)]
  BY ONLY <1>1, <1>2, p \in 1 .. Len(list) + 1
<1> HIDE DEF l, Old
<1>6. \A i \in 1 .. n + 1 : l[i] \in Slot
  BY <1>1, <1>3, <1>5
<1>7. n + 1 \in Nat
  BY <1>1
<1>8. l \in [1 .. n + 1 -> Slot]
  BY <1>2, <1>6
<1>9. l \in Seq(Slot) /\ Len(l) = n + 1 /\ DOMAIN l = 1 .. n + 1
  BY ONLY <1>7, <1>8, FunctionIsSequence
<1>10. Range(l) \subseteq Range(list) \cup {t}
  BY <1>1, <1>3, <1>5, <1>9 DEF Range
<1>11. ASSUME Unique(list), t.id = 0 \/ t.id \notin Ids(list) PROVE Unique(l)
  <2>1. \A i \in 1 .. n : list[i].id \in Ids(list)
    BY <1>1 DEF Ids, Range
  <2> SUFFICES ASSUME NEW i \in 1 .. n + 1, NEW j \in 1 .. n + 1, l[i].id = l[j].id
               PROVE  i = j \/ l[i].id = 0
    BY <1>9 DEF Unique
  <2>2. CASE i # p /\ j # p
    <3>1. Old(i) \in DOMAIN list /\ Old(j) \in DOMAIN list
      BY <1>1, <1>3, <2>2
    <3>2. l[i] = list[Old(i)] /\ l[j] = list[Old(j)]
      BY <1>5, <2>2
    <3> QED
      BY <1>4, <1>11, <2>2, <3>1, <3>2 DEF Unique
  <2>3. CASE i = p
    BY <1>3, <1>5, <1>11, <2>1, <2>3
  <2>4. CASE j = p
    BY <1>3, <1>5, <1>11, <2>1, <2>4
  <2> QED
    BY <2>2, <2>3, <2>4
<1> QED
  BY <1>9, <1>10, <1>11 DEF l

\* A deletion keeps all slots but the one deleted.
LEMMA DeleteKeepsOthers ==
  ASSUME NEW list \in Seq(Slot), NEW d \in 1 .. Len(list)
  PROVE  /\ Delete(list, d) \in Seq(Slot)
         /\ Len(Delete(list, d)) = Len(list) - 1
         /\ Range(Delete(list, d)) \subseteq Range(list)
         /\ Unique(list) => /\ Unique(Delete(list, d))
                            /\ list[d].id = 0 \/ list[d].id \notin Ids(Delete(list, d))
<1> DEFINE n == Len(list)
           l == Delete(list, d)
           Old(k) == IF k < d THEN k ELSE k + 1
<1>1. n \in Nat /\ DOMAIN list = 1 .. n /\ \A i \in 1 .. n : list[i] \in Slot
  BY LenProperties, ElementOfSeq
<1>2. l = [k \in 1 .. n - 1 |-> IF k < d THEN list[k] ELSE list[k + 1]]
  BY DEF Delete
<1>3. \A k \in 1 .. n - 1 : Old(k) \in 1 .. n /\ Old(k) # d
  BY ONLY <1>1, d \in 1 .. Len(list)
<1>4. \A i, j \in 1 .. n - 1 : Old(i) = Old(j) => i = j
  BY ONLY <1>1, d \in 1 .. Len(list)
<1>5. \A k \in 1 .. n - 1 : l[k] = list[Old(k)]
  BY ONLY <1>1, <1>2, d \in 1 .. Len(list)
<1> HIDE DEF l, Old
<1>6. \A k \in 1 .. n - 1 : l[k] \in Slot
  BY <1>1, <1>3, <1>5
<1>7. n - 1 \in Nat
  BY ONLY <1>1, d \in 1 .. Len(list)
<1>8. l \in [1 .. n - 1 -> Slot]
  BY <1>2, <1>6
<1>9. l \in Seq(Slot) /\ Len(l) = n - 1 /\ DOMAIN l = 1 .. n - 1
  BY ONLY <1>7, <1>8, FunctionIsSequence
<1>10. Range(l) \subseteq Range(list)
  BY <1>1, <1>3, <1>5, <1>9 DEF Range
<1>11. ASSUME Unique(list)
       PROVE  Unique(l) /\ (list[d].id = 0 \/ list[d].id \notin Ids(l))
  <2>1. \A k \in 1 .. n - 1 : Old(k) \in DOMAIN list /\ d \in DOMAIN list
    BY <1>1, <1>3
  <2>2. Unique(l)
    BY <1>4, <1>5, <1>9, <1>11, <2>1 DEF Unique
  <2>3. ASSUME list[d].id # 0 PROVE list[d].id \notin Ids(l)
    <3>1. \A k \in 1 .. n - 1 : l[k].id # list[d].id
      BY <1>3, <1>5, <1>11, <2>1, <2>3 DEF Unique
    <3> QED
      BY <1>9, <3>1 DEF Ids, Range
  <2> QED
    BY <2>2, <2>3
<1> QED
  BY <1>9, <1>10, <1>11 DEF l

\* Taking the last timer is deleting it.
LEMMA TakeIsDelete ==
  ASSUME NEW list \in Seq(Slot), list # <<>>
  PROVE  /\ Len(list) \in 1 .. Len(list)
         /\ WithoutNearest(list) = Delete(list, Len(list))
         /\ Nearest(list) = list[Len(list)]
         /\ Nearest(list) \in Slot /\ Nearest(list) \in Range(list)
<1>1. Len(list) \in Nat \ {0} /\ DOMAIN list = 1 .. Len(list)
  BY EmptySeq, LenProperties
<1>2. Len(list) \in 1 .. Len(list)
  BY ONLY <1>1
<1>3. WithoutNearest(list) = Delete(list, Len(list))
  BY ONLY <1>1 DEF WithoutNearest, Delete
<1>4. list[Len(list)] \in Slot /\ list[Len(list)] \in Range(list)
  BY <1>1, <1>2, ElementOfSeq DEF Range
<1> QED
  BY <1>2, <1>3, <1>4 DEF Nearest

\* A set of naturals that is not empty has a least element.
LEMMA Least ==
  ASSUME NEW S \in SUBSET Nat, S # {}
  PROVE  \E x \in S : \A y \in S : x <= y
<1> DEFINE T == {0 .. x : x \in S}
           R == StrictSubsetOrdering(Nat)
           F == FiniteSubsetsOf(Nat)
<1>1. IsWellFoundedOn(R, F)
  BY FS_StrictSubsetOrderingWellFounded
<1>2. T \subseteq F
  <2>1. \A x \in S : IsFiniteSet(0 .. x) /\ 0 .. x \in SUBSET Nat
    BY FS_Interval
  <2> QED
    BY <2>1 DEF FiniteSubsetsOf
<1>3. T # {}
  OBVIOUS
<1>4. \A x, y \in S : y < x => <<0 .. y, 0 .. x>> \in R
  <2> TAKE x, y \in S
  <2> HAVE y < x
  <2>1. 0 .. y \subseteq 0 .. x /\ x \in 0 .. x /\ x \notin 0 .. y
    OBVIOUS
  <2>2. 0 .. y \in SUBSET Nat /\ 0 .. x \in SUBSET Nat /\ 0 .. y # 0 .. x
    BY <2>1
  <2> QED
    BY <2>1, <2>2 DEF StrictSubsetOrdering
<1> HIDE DEF R, F
<1>5. \E t \in T : \A u \in T : ~(<<u, t>> \in R)
  <2> HIDE DEF T
  <2> QED
    BY ONLY <1>1, <1>2, <1>3, WFMin
<1>6. PICK x \in S : \A y \in S : ~(<<0 .. y, 0 .. x>> \in R)
  BY <1>5
<1>7. \A y \in S : x <= y
  <2> TAKE y \in S
  <2>1. ~(y < x)
    BY <1>4, <1>6
  <2> QED
    BY ONLY <2>1, x \in S, y \in S, S \in SUBSET Nat
<1> QED
  BY <1>7

\* delete_timer's scan finds an id that is in the list, even if it is there twice.
LEMMA ScanFinds ==
  ASSUME NEW list \in Seq(Slot), NEW id \in Ids(list)
  PROVE  FirstIndex(list, id) \in 1 .. Len(list) /\ list[FirstIndex(list, id)].id = id
<1> DEFINE S == {i \in DOMAIN list : list[i].id = id}
<1>1. Len(list) \in Nat /\ DOMAIN list = 1 .. Len(list)
  BY LenProperties
<1>2. S \in SUBSET Nat /\ S # {}
  BY <1>1 DEF Ids, Range
<1>3. PICK x \in S : \A y \in S : x <= y
  BY <1>2, Least
<1>4. \A j \in 1 .. x - 1 : j \in DOMAIN list /\ ~(x <= j)
  BY <1>1, <1>3
<1>5. \A j \in 1 .. x - 1 : list[j].id # id
  BY <1>3, <1>4
<1> QED
  BY <1>1, <1>3, <1>5 DEF FirstIndex

\* What Queued does to timer_list.
LEMMA QueuedKeeps ==
  ASSUME timer_list \in Seq(Slot), NEW t \in Slot, Queued(t)
  PROVE  /\ timer_list' \in Seq(Slot)
         /\ Len(timer_list') = Len(timer_list) + 1
         /\ Range(timer_list') \subseteq Range(timer_list) \cup {t}
         /\ Pending' \subseteq Pending \cup {t.id}
         /\ Unique(timer_list) /\ (t.id = 0 \/ t.id \notin Pending) => Unique(timer_list')
<1>1. PICK p \in 1 .. Len(timer_list) + 1 : timer_list' = Insert(timer_list, p, t)
  BY DEF Queued
<1>2. /\ timer_list' \in Seq(Slot)
      /\ Len(timer_list') = Len(timer_list) + 1
      /\ Range(timer_list') \subseteq Range(timer_list) \cup {t}
      /\ Unique(timer_list) /\ (t.id = 0 \/ t.id \notin Ids(timer_list)) => Unique(timer_list')
  BY <1>1, InsertKeeps
<1>3. Pending' \subseteq Pending \cup {t.id}
  BY <1>2 DEF Pending, Ids
<1> QED
  BY <1>2, <1>3 DEF Pending

-----------------------------------------------------------------------------
(* The frames.                                                             *)

LEMMA FrameFacts ==
  ASSUME FramesOK
  PROVE  /\ Len(frames) \in Nat /\ DOMAIN frames = 1 .. Len(frames)
         /\ \A i \in DOMAIN frames : frames[i] \in Frame /\ frames[i].heap \in live
         /\ frames # <<>> => /\ Len(frames) # 0 /\ Len(frames) \in DOMAIN frames
                             /\ Top \in Frame /\ Top.heap \in Active /\ Top.heap \in live
<1>1. frames \in Seq(Frame) /\ Active \subseteq live
  BY DEF FramesOK
<1>2. Len(frames) \in Nat /\ DOMAIN frames = 1 .. Len(frames)
  BY <1>1, LenProperties
<1>3. \A i \in DOMAIN frames : frames[i] \in Frame /\ frames[i].heap \in live
  BY <1>1, <1>2, ElementOfSeq DEF Active
<1>4. frames # <<>> => Len(frames) # 0 /\ Len(frames) \in DOMAIN frames
  BY <1>1, <1>2, EmptySeq
<1> QED
  BY <1>2, <1>3, <1>4 DEF Top, Active

LEMMA IntervalGrows ==
  ASSUME NEW a \in Nat, NEW b \in Nat, a <= b
  PROVE  1 .. a - 1 \subseteq 1 .. b - 1
OBVIOUS

\* Nothing happens to the frames.
LEMMA FramesStay ==
  ASSUME FramesOK, frames' = frames, Active \subseteq live',
         timer_next_id \in Nat, timer_next_id' \in Nat, timer_next_id <= timer_next_id',
         \A id \in 1 .. timer_next_id - 1 : owner'[id] = owner[id]
  PROVE  FramesOK'
<1>1. 1 .. timer_next_id - 1 \subseteq 1 .. timer_next_id' - 1
  BY IntervalGrows
<1> QED
  BY <1>1 DEF FramesOK, Active

\* Frames above the n-th are gone: the evals return or die.
LEMMA FramesUnwind ==
  ASSUME FramesOK, frames # <<>>, NEW n \in 0 .. Len(frames) - 1,
         frames' = [i \in 1 .. n |-> frames[i]],
         UNCHANGED <<timer_next_id, owner, live>>
  PROVE  FramesOK'
<1>1. /\ Len(frames) \in Nat \ {0} /\ DOMAIN frames = 1 .. Len(frames)
      /\ \A i \in DOMAIN frames : frames[i] \in Frame
  BY FrameFacts
<1>2. n \in Nat /\ 1 .. n \subseteq 1 .. Len(frames) /\ 1 .. n - 1 \subseteq 1 .. Len(frames) - 1
      /\ 1 .. n - 1 \subseteq 1 .. n
  BY ONLY <1>1, n \in 0 .. Len(frames) - 1
<1>3. frames' \in [1 .. n -> Frame]
  BY <1>1, <1>2
<1>4. frames' \in Seq(Frame) /\ Len(frames') = n /\ DOMAIN frames' = 1 .. n
  BY ONLY <1>2, <1>3, FunctionIsSequence
<1>5. \A i \in 1 .. n : frames'[i] = frames[i]
  OBVIOUS
<1> QED
  BY <1>1, <1>2, <1>4, <1>5 DEF FramesOK, Active

\* The innermost eval goes on to something else.
LEMMA FramesBecome ==
  ASSUME FramesOK, frames # <<>>, NEW f \in Frame, TopBecomes(f), f.heap = Top.heap,
         f.stage = "callback" => /\ f.took \in 1 .. timer_next_id - 1
                                 /\ owner[f.took] = f.heap,
         UNCHANGED <<timer_next_id, owner, live>>
  PROVE  FramesOK' /\ frames' # <<>> /\ Top' = f
<1> DEFINE n == Len(frames)
<1>1. /\ n \in Nat \ {0} /\ DOMAIN frames = 1 .. n /\ frames \in Seq(Frame)
      /\ Top.heap \in live
  BY FrameFacts DEF FramesOK
<1>2. frames' = [frames EXCEPT ![n] = f]
  BY DEF TopBecomes
<1> HIDE DEF n
<1>3. n \in 1 .. n /\ \A i \in 1 .. n - 1 : i \in 1 .. n /\ i # n
  BY ONLY <1>1
<1>4. /\ frames' \in Seq(Frame) /\ Len(frames') = n /\ DOMAIN frames' = 1 .. n
      /\ \A i \in 1 .. n : frames'[i] = IF i = n THEN f ELSE frames[i]
  <2>1. \A i \in DOMAIN frames : frames[i] \in Frame
    BY FrameFacts
  <2>2. frames' \in [1 .. n -> Frame]
    BY ONLY <1>1, <1>2, <2>1, f \in Frame
  <2>3. \A i \in 1 .. n : frames'[i] = IF i = n THEN f ELSE frames[i]
    BY ONLY <1>1, <1>2
  <2> QED
    BY ONLY <1>1, <2>2, <2>3, FunctionIsSequence
<1>5. frames'[n] = f
  BY <1>3, <1>4
<1>6. \A i \in DOMAIN frames' : frames'[i].heap \in live
  <2>1. \A i \in 1 .. n : frames[i].heap \in live
    BY <1>1, FrameFacts
  <2> QED
    BY <1>1, <1>4, <2>1
<1>7. \A i \in 1 .. n - 1 : frames'[i] = frames[i]
  BY <1>3, <1>4
<1>8. FramesOK'
  <2>1. Active' \subseteq live'
    BY <1>6 DEF Active
  <2>2. \A i \in 1 .. n - 1 : frames[i].stage \in {"main", "callback"}
    BY DEF FramesOK, n
  <2>3. \A i \in 1 .. n : frames[i].stage = "callback" =>
          /\ frames[i].took \in 1 .. timer_next_id - 1
          /\ owner[frames[i].took] = frames[i].heap
    BY <1>1 DEF FramesOK
  <2>4. \A i \in 1 .. n : frames'[i].stage = "callback" =>
          /\ frames'[i].took \in 1 .. timer_next_id - 1
          /\ owner[frames'[i].took] = frames'[i].heap
    BY <1>4, <2>3
  <2> QED
    BY <1>4, <1>7, <2>1, <2>2, <2>4 DEF FramesOK
<1>9. frames' # <<>>
  BY <1>1, <1>4, EmptySeq
<1>10. Top' = f
  BY <1>4, <1>5 DEF Top
<1> QED
  BY <1>8, <1>9, <1>10

\* An eval begins.
LEMMA FramesPush ==
  ASSUME FramesOK, NEW f \in Frame, frames' = Append(frames, f),
         f.heap \in live', Active \subseteq live', f.stage # "callback", PerlRuns,
         UNCHANGED <<timer_next_id, owner>>
  PROVE  FramesOK'
<1> DEFINE n == Len(frames)
<1>1. n \in Nat /\ DOMAIN frames = 1 .. n /\ frames \in Seq(Frame)
  BY FrameFacts DEF FramesOK
<1>2. /\ frames' \in Seq(Frame) /\ Len(frames') = n + 1 /\ DOMAIN frames' = 1 .. n + 1
      /\ frames'[n + 1] = f
      /\ \A i \in 1 .. n : frames'[i] = frames[i]
  BY <1>1, AppendProperties, LenProperties
<1>3. \A i \in 1 .. n : frames[i].stage \in {"main", "callback"}
  <2>1. \A i \in 1 .. n - 1 : frames[i].stage \in {"main", "callback"}
    BY DEF FramesOK
  <2>2. frames # <<>> => frames[n].stage \in {"main", "callback"}
    BY DEF PerlRuns, JSRuns, At, Top
  <2>3. n = 0 <=> frames = <<>>
    BY <1>1, EmptySeq
  <2> HIDE DEF n
  <2>4. \A i \in 1 .. n : (i \in 1 .. n - 1 \/ i = n) /\ n # 0
    BY ONLY <1>1
  <2> QED
    BY <2>1, <2>2, <2>3, <2>4
<1>4. \A i \in 1 .. n : frames[i].heap \in live'
  BY <1>1 DEF Active
<1>5. \A i \in 1 .. n : frames[i].stage = "callback" =>
          /\ frames[i].took \in 1 .. timer_next_id - 1
          /\ owner[frames[i].took] = frames[i].heap
  BY <1>1 DEF FramesOK
<1> HIDE DEF n
<1>6. n + 1 - 1 = n /\ \A i \in 1 .. n + 1 : i \in 1 .. n \/ i = n + 1
  BY ONLY <1>1
<1>7. Active' \subseteq live'
  BY <1>2, <1>4, <1>6 DEF Active
<1>8. \A i \in 1 .. n + 1 : frames'[i].stage = "callback" =>
          /\ frames'[i].took \in 1 .. timer_next_id - 1
          /\ owner[frames'[i].took] = frames'[i].heap
  BY <1>2, <1>5, <1>6
<1>9. \A i \in 1 .. Len(frames') - 1 : frames'[i].stage \in {"main", "callback"}
  BY <1>2, <1>3, <1>6
<1> QED
  BY <1>2, <1>7, <1>8, <1>9 DEF FramesOK

-----------------------------------------------------------------------------
(* One lemma per action.                                                   *)

LEMMA InitInv == Init => IInv
<1> SUFFICES ASSUME Init PROVE IInv
  OBVIOUS
<1>1. <<>> \in Seq(Slot) /\ <<>> \in Seq(Frame) /\ Len(<<>>) = 0 /\ DOMAIN <<>> = 1 .. 0
  BY EmptySeq, LenProperties
<1>2. 1 .. 0 = {} /\ Range(timer_list) = {}
  BY <1>1 DEF Init, Range
<1>3. DataOK
  BY <1>1, SessionsAssumption DEF Init, DataOK, Slot, Unused
<1>4. FramesOK
  BY <1>1, <1>2 DEF Init, FramesOK, Active
<1>5. ListInv
  BY <1>1, <1>2 DEF Init, ListInv, Unique
<1>6. ExpiringInv
  BY DEF Init, ExpiringInv, Unused
<1>7. TableInv
  BY DEF Init, TableInv
<1> QED
  BY <1>3, <1>4, <1>5, <1>6, <1>7 DEF IInv

\* A step that only moves the frames, and that no loop that takes a timer makes.
LEMMA QuietInv ==
  ASSUME IInv, FramesOK', ~At({"expire"}),
         UNCHANGED <<statics, sessions, eventTimers, history>>
  PROVE  IInv'
<1> USE DEF statics, sessions, history
<1>1. DataOK'
  BY DEF IInv, DataOK
<1>2. ListInv'
  BY DEF IInv, ListInv, Unique
<1>3. ExpiringInv'
  BY DEF IInv, ExpiringInv, Pending, Ids
<1>4. TableInv'
  BY DEF IInv, TableInv
<1> QED
  BY <1>1, <1>2, <1>3, <1>4 DEF IInv

\* Who runs code is not about to take a timer.
LEMMA StageFacts ==
  /\ PerlRuns => ~At({"expire"})
  /\ JSRuns => ~At({"expire"}) /\ frames # <<>>
  /\ \A stages : At(stages) => frames # <<>> /\ Top.stage \in stages
  /\ At({"callback"}) => ~At({"expire"})
  /\ At({"settle"}) => ~At({"expire"})
BY DEF PerlRuns, JSRuns, At

LEMMA SetUpInv ==
  ASSUME IInv, NEW gone, SetUp(gone)
  PROVE  IInv'
<1> USE DEF SetUp, Register, history
<1>1. Len(timer_list) \in Nat /\ DOMAIN timer_list = 1 .. Len(timer_list)
      /\ Len(timer_list) <= MaxTimers /\ timer_next_id \in 1 .. MaxId + 1
  BY LenProperties DEF IInv, DataOK
<1>2. timer_list' \in Seq(Slot) /\ Len(timer_list') = Len(timer_list)
      /\ DOMAIN timer_list' = DOMAIN timer_list
  <2>1. timer_list' \in [1 .. Len(timer_list) -> Slot]
    BY <1>1 DEF Slot, Unused
  <2> QED
    BY ONLY <1>1, <2>1, FunctionIsSequence
<1>3. \A i \in DOMAIN timer_list' : timer_list'[i] = Unused
  BY <1>2
<1>4. \A t \in Range(timer_list') : t = Unused
  BY <1>3 DEF Range
<1>5. heaps' \in 0 .. MaxHeaps /\ live' \subseteq 1 .. heaps' /\ 0 .. heaps \subseteq 0 .. heaps'
  <2>1. /\ heaps \in 0 .. MaxHeaps /\ heaps < MaxHeaps /\ heaps' = heaps + 1
        /\ live \subseteq 1 .. heaps /\ live' \subseteq live \cup {heaps + 1} /\ MaxHeaps \in Nat
    BY SessionsAssumption DEF IInv, DataOK
  <2> QED
    BY ONLY <2>1
<1>6. DataOK'
  <2>1. Unused \in Slot
    BY DEF Unused, Slot
  <2>2. owner' \in [1 .. MaxId -> 0 .. heaps']
    BY <1>5 DEF IInv, DataOK
  <2> QED
    BY <1>1, <1>2, <1>5, <2>1, <2>2 DEF IInv, DataOK
<1>7. FramesOK'
  <2> DEFINE f == [heap |-> heaps + 1, stage |-> "expire", table |-> TRUE, took |-> 0]
  <2>1. Active \subseteq live' /\ f.heap \in live'
    BY DEF IInv, FramesOK
  <2>2. f \in Frame /\ f.stage # "callback"
    BY SessionsAssumption DEF Frame, IInv, DataOK
  <2>3. frames' = Append(frames, f) /\ PerlRuns /\ UNCHANGED <<timer_next_id, owner>>
    BY DEF Begins
  <2> HIDE DEF f
  <2> QED
    BY <2>1, <2>2, <2>3, FramesPush DEF IInv
<1>8. ListInv'
  <2>1. Unique(timer_list')
    BY <1>3 DEF Unique, Unused
  <2>2. 0 < timer_next_id'
    BY <1>1
  <2>3. Unused.id = 0 /\ ~Unused.oneshot /\ ~Unused.removed
    BY DEF Unused
  <2> QED
    BY <1>4, <2>1, <2>2, <2>3 DEF ListInv
<1>9. ExpiringInv'
  BY <1>1 DEF ExpiringInv, Unused
<1>10. TableInv'
  BY DEF IInv, TableInv
<1> QED
  BY <1>6, <1>7, <1>8, <1>9, <1>10 DEF IInv

LEMMA DestroyInv ==
  ASSUME IInv, NEW h, Destroy(h)
  PROVE  IInv'
<1> USE DEF Destroy, statics, history
<1>1. timer_next_id \in Nat
  BY SessionsAssumption DEF IInv, DataOK
<1>2. DataOK'
  BY DEF IInv, DataOK
<1>3. FramesOK'
  <2>1. Active \subseteq live'
    BY DEF IInv, FramesOK
  <2> QED
    BY <1>1, <2>1, FramesStay DEF IInv
<1>4. ListInv'
  BY DEF IInv, ListInv, Unique
<1>5. ExpiringInv'
  BY StageFacts DEF IInv, ExpiringInv, Pending, Ids
<1>6. TableInv'
  BY DEF IInv, TableInv
<1> QED
  BY <1>2, <1>3, <1>4, <1>5, <1>6 DEF IInv

LEMMA EvalInv ==
  ASSUME IInv, NEW h \in live, Eval(h)
  PROVE  IInv'
<1> DEFINE f == [heap |-> h, stage |-> "main", table |-> TRUE, took |-> 0]
<1>1. f \in Frame /\ f.heap \in live /\ f.stage # "callback"
  BY DEF Frame, IInv, DataOK
<1>2. frames' = Append(frames, f) /\ PerlRuns
      /\ UNCHANGED <<statics, sessions, eventTimers, history>>
  BY DEF Eval, Begins
<1> HIDE DEF f
<1>a. Active \subseteq live'
  BY <1>2 DEF IInv, FramesOK, sessions
<1>3. FramesOK'
  BY <1>1, <1>a, <1>2, FramesPush DEF IInv, statics, sessions, history
<1> QED
  BY <1>2, <1>3, StageFacts, QuietInv

LEMMA EvalRunsLoopInv ==
  ASSUME IInv, EvalRunsLoop
  PROVE  IInv'
<1> DEFINE f == [Top EXCEPT !.stage = "expire"]
<1>1. frames # <<>> /\ Top \in Frame /\ Top.stage = "main" /\ TopBecomes(f)
      /\ UNCHANGED <<statics, sessions, eventTimers, history>>
  BY FrameFacts, StageFacts DEF EvalRunsLoop, IInv
<1>2. f \in Frame /\ f.heap = Top.heap /\ f.stage = "expire"
  BY <1>1 DEF Frame
<1> HIDE DEF f
<1>3. FramesOK'
  BY <1>1, <1>2, FramesBecome DEF IInv, statics, sessions, history
<1>4. ~At({"expire"})
  BY <1>1 DEF At
<1> QED
  BY <1>1, <1>3, <1>4, QuietInv

LEMMA DiesInv ==
  ASSUME IInv, Dies
  PROVE  IInv'
<1>1. PICK n \in 0 .. Len(frames) - 1 : frames' = [i \in 1 .. n |-> frames[i]]
  BY DEF Dies
<1>2. frames # <<>> /\ ~At({"expire"}) /\ UNCHANGED <<statics, sessions, eventTimers, history>>
  BY StageFacts DEF Dies
<1>3. FramesOK'
  BY <1>1, <1>2, FramesUnwind DEF IInv, statics, sessions, history
<1> QED
  BY <1>2, <1>3, QuietInv

LEMMA CreateTimerInv ==
  ASSUME IInv, NEW oneshot \in BOOLEAN, CreateTimer(oneshot)
  PROVE  IInv'
<1> USE DEF sessions
<1> DEFINE id == timer_next_id
           t == [id |-> id, oneshot |-> oneshot, removed |-> FALSE]
<1>1. /\ id \in Nat \ {0} /\ id \in 1 .. MaxId /\ id' = id + 1 /\ id' \in 1 .. MaxId + 1
      /\ 1 .. id' - 1 = 1 .. id /\ 0 .. id' - 1 = 0 .. id
      /\ 1 .. id - 1 \subseteq 1 .. id /\ id \in 1 .. id /\ id \notin 1 .. id - 1
      /\ id \notin 0 .. id - 1 /\ 0 .. id - 1 \subseteq 0 .. id
  <2>1. /\ timer_next_id \in 1 .. MaxId + 1 /\ timer_next_id <= MaxId /\ MaxId \in Nat
        /\ timer_next_id' = timer_next_id + 1
    BY SessionsAssumption DEF CreateTimer, IInv, DataOK
  <2> QED
    BY ONLY <2>1
<1>2. /\ Top.heap \in live /\ Top.heap \in 1 .. heaps /\ Top.heap \in 1 .. MaxHeaps
      /\ Top.heap \in 0 .. heaps
  <2>1. Top.heap \in live /\ live \subseteq 1 .. heaps /\ heaps \in 0 .. MaxHeaps
        /\ MaxHeaps \in Nat
    BY FrameFacts, StageFacts, SessionsAssumption DEF CreateTimer, IInv, DataOK
  <2>2. Top.heap \in 1 .. heaps
    BY ONLY <2>1
  <2>3. 1 .. heaps \subseteq 1 .. MaxHeaps /\ 1 .. heaps \subseteq 0 .. heaps
    BY ONLY <2>1
  <2> QED
    BY ONLY <2>1, <2>2, <2>3
<1>3. t \in Slot /\ t.id = id /\ ~t.removed
  BY <1>1 DEF Slot
<1>4. /\ Queued(t) /\ FreeSlot /\ JSRuns /\ frames' = frames
      /\ UNCHANGED <<timer_expiring, called, cleared, heaps, live>>
      /\ owner' = [owner EXCEPT ![id] = Top.heap]
      /\ eventTimers' = [eventTimers EXCEPT ![Top.heap] = @ \cup {id}]
  BY DEF CreateTimer
<1>5. \A u \in Range(timer_list) : u.id < id /\ u \in Slot
  BY RangeOfSeq DEF IInv, ListInv, DataOK
<1>6. id \notin Pending
  BY <1>1, <1>5 DEF Pending, Ids, Slot
<1> HIDE DEF t
<1>7. /\ timer_list' \in Seq(Slot)
      /\ Len(timer_list') = Len(timer_list) + 1
      /\ Range(timer_list') \subseteq Range(timer_list) \cup {t}
      /\ Pending' \subseteq Pending \cup {id}
      /\ Unique(timer_list')
  BY <1>3, <1>4, <1>6, QueuedKeeps DEF IInv, DataOK, ListInv
<1>8. Len(timer_list') <= MaxTimers
  <2>1. Len(timer_list) \in Nat /\ Len(timer_list) < MaxTimers /\ MaxTimers \in Nat
    BY <1>4, LenProperties, SessionsAssumption DEF FreeSlot, IInv, DataOK
  <2> QED
    BY ONLY <1>7, <2>1
<1>9. owner' \in [1 .. MaxId -> 0 .. heaps] /\ \A i \in 1 .. id - 1 : owner'[i] = owner[i]
  BY <1>1, <1>2, <1>4 DEF IInv, DataOK
<1>10. eventTimers' \in [1 .. MaxHeaps -> SUBSET (1 .. id)]
  BY <1>1, <1>2, <1>4 DEF IInv, DataOK
<1>11. DataOK'
  BY <1>1, <1>4, <1>7, <1>8, <1>9, <1>10 DEF IInv, DataOK
<1>12. FramesOK'
  <2>1. Active \subseteq live'
    BY <1>4 DEF IInv, FramesOK
  <2>2. timer_next_id \in Nat /\ timer_next_id' \in Nat /\ timer_next_id <= timer_next_id'
    BY ONLY <1>1
  <2> QED
    BY <1>4, <1>9, <2>1, <2>2, FramesStay DEF IInv
<1>13. ListInv'
  <2>1. \A u \in Range(timer_list) : u.id < id'
    BY <1>1, <1>5 DEF Slot
  <2>2. t.id < id' /\ t.id \notin cleared /\ t.id \notin called
    BY <1>1, <1>3 DEF IInv, DataOK
  <2> QED
    BY <1>3, <1>4, <1>7, <2>1, <2>2 DEF IInv, ListInv
<1>14. ExpiringInv'
  <2>1. timer_expiring.id < id /\ timer_expiring.id \in Nat
    BY DEF IInv, ExpiringInv, DataOK, Slot
  <2>2. timer_expiring.id < id' /\ timer_expiring.id # id
    BY ONLY <1>1, <2>1
  <2>3. ~At({"expire"})
    BY <1>4, StageFacts
  <2> QED
    BY <1>4, <1>7, <2>2, <2>3 DEF IInv, ExpiringInv
<1>15. TableInv'
  <2>1. \A h \in 1 .. MaxHeaps : eventTimers[h] \subseteq 1 .. id - 1
    BY DEF IInv, DataOK
  <2>2. owner'[id] = Top.heap
    BY <1>1, <1>4 DEF IInv, DataOK
  <2>3. \A h \in 1 .. MaxHeaps :
          eventTimers'[h] = IF h = Top.heap THEN eventTimers[h] \cup {id} ELSE eventTimers[h]
    BY <1>4 DEF IInv, DataOK
  <2>4. \A h \in 1 .. MaxHeaps, i \in 1 .. id - 1 : i \in eventTimers[h] => owner'[i] = h
    BY <1>9 DEF IInv, TableInv
  <2>5. \A h \in 1 .. MaxHeaps : \A i \in eventTimers'[h] : owner'[i] = h
    <3> TAKE h \in 1 .. MaxHeaps
    <3> TAKE i \in eventTimers'[h]
    <3>1. CASE i \in eventTimers[h]
      BY <2>1, <2>4, <3>1
    <3>2. CASE i \notin eventTimers[h]
      BY <2>2, <2>3, <3>2
    <3> QED
      BY <3>1, <3>2
  <2> QED
    BY <2>5 DEF TableInv
<1> QED
  BY <1>11, <1>12, <1>13, <1>14, <1>15 DEF IInv

LEMMA MarkExpiringInv ==
  ASSUME IInv, NEW id \in 0 .. timer_next_id - 1, MarkExpiring(id)
  PROVE  IInv'
<1> USE DEF MarkExpiring, sessions
<1>1. ~At({"expire"}) /\ timer_next_id \in Nat
  BY StageFacts, SessionsAssumption DEF IInv, DataOK
<1>2. /\ timer_expiring \in Slot /\ timer_expiring' \in Slot
      /\ timer_expiring'.id = timer_expiring.id /\ timer_expiring'.removed
  BY DEF IInv, DataOK, Slot
<1>3. DataOK'
  BY <1>2 DEF IInv, DataOK
<1>4. FramesOK'
  <2>1. Active \subseteq live'
    BY DEF IInv, FramesOK
  <2> QED
    BY <1>1, <2>1, FramesStay DEF IInv
<1>5. ListInv'
  <2>1. \A t \in Range(timer_list) : t.id # id \/ id = 0
    BY <1>1 DEF IInv, ExpiringInv, Pending, Ids
  <2> QED
    BY <2>1 DEF IInv, ListInv, Unique
<1>6. ExpiringInv'
  BY <1>1, <1>2 DEF IInv, ExpiringInv, Pending, Ids
<1>7. TableInv'
  BY DEF IInv, TableInv
<1> QED
  BY <1>3, <1>4, <1>5, <1>6, <1>7 DEF IInv

LEMMA DeleteTimerInv ==
  ASSUME IInv, NEW id \in 0 .. timer_next_id - 1, DeleteTimer(id)
  PROVE  IInv'
<1> USE DEF sessions
<1> DEFINE d == FirstIndex(timer_list, id)
<1>1. d \in 1 .. Len(timer_list) /\ timer_list[d].id = id
  BY ScanFinds DEF DeleteTimer, IInv, DataOK
<1>2. /\ timer_list' = Delete(timer_list, d) /\ JSRuns /\ frames' = frames
      /\ eventTimers' = [eventTimers EXCEPT ![Top.heap] = @ \ {id}]
      /\ cleared' = cleared \cup {id} /\ id # timer_expiring.id
      /\ UNCHANGED <<timer_expiring, timer_next_id, heaps, live, owner, called>>
  BY DEF DeleteTimer
<1> HIDE DEF d
<1>3. /\ timer_list' \in Seq(Slot) /\ Len(timer_list') = Len(timer_list) - 1
      /\ Range(timer_list') \subseteq Range(timer_list)
      /\ Unique(timer_list') /\ (id = 0 \/ id \notin Pending')
  BY <1>1, <1>2, DeleteKeepsOthers DEF IInv, DataOK, ListInv, Pending
<1>4. Len(timer_list') <= MaxTimers
  <2>1. Len(timer_list) \in Nat /\ Len(timer_list) <= MaxTimers /\ MaxTimers \in Nat
    BY LenProperties, SessionsAssumption DEF IInv, DataOK
  <2> QED
    BY ONLY <1>3, <2>1
<1>5. timer_next_id \in Nat /\ ~At({"expire"})
  BY <1>2, StageFacts, SessionsAssumption DEF IInv, DataOK
<1>6. DataOK'
  BY <1>2, <1>3, <1>4 DEF IInv, DataOK
<1>7. FramesOK'
  <2>1. Active \subseteq live'
    BY <1>2 DEF IInv, FramesOK
  <2> QED
    BY <1>2, <1>5, <2>1, FramesStay DEF IInv
<1>8. ListInv'
  <2>1. \A t \in Range(timer_list') : t.id = 0 \/ t.id # id
    BY <1>3 DEF Pending, Ids
  <2> QED
    BY <1>2, <1>3, <2>1 DEF IInv, ListInv
<1>9. ExpiringInv'
  <2>1. Pending' \subseteq Pending
    BY <1>3 DEF Pending, Ids
  <2> QED
    BY <1>2, <1>5, <2>1 DEF IInv, ExpiringInv
<1>10. TableInv'
  BY <1>2 DEF IInv, TableInv, DataOK
<1> QED
  BY <1>6, <1>7, <1>8, <1>9, <1>10 DEF IInv

\* What taking a timer does to the list and to timer_expiring.
LEMMA TakeFacts ==
  ASSUME IInv, Take
  PROVE  /\ timer_list' \in Seq(Slot) /\ Len(timer_list') <= MaxTimers
         /\ Range(timer_list') \subseteq Range(timer_list)
         /\ Unique(timer_list')
         /\ Nearest(timer_list) \in Slot /\ Nearest(timer_list) \in Range(timer_list)
         /\ timer_expiring' \in Slot
         /\ timer_expiring'.id = Nearest(timer_list).id
         /\ timer_expiring'.oneshot = Nearest(timer_list).oneshot
         /\ timer_expiring'.oneshot => timer_expiring'.removed
         /\ timer_expiring'.id = 0 \/ timer_expiring'.id \notin Pending'
         /\ frames # <<>> /\ Top.stage = "expire"
<1> DEFINE d == Len(timer_list)
           t == Nearest(timer_list)
<1>1. /\ timer_list \in Seq(Slot) /\ timer_list # <<>> /\ Unique(timer_list)
      /\ d \in Nat /\ d <= MaxTimers /\ MaxTimers \in Nat
  BY LenProperties, SessionsAssumption DEF Take, IInv, DataOK, ListInv
<1>2. /\ timer_list' = Delete(timer_list, d) /\ d \in 1 .. Len(timer_list)
      /\ t = timer_list[d] /\ t \in Slot /\ t \in Range(timer_list)
  BY <1>1, TakeIsDelete DEF Take, ListAfterTake
<1>3. timer_expiring' = IF t.oneshot THEN [t EXCEPT !.removed = TRUE] ELSE t
  BY DEF Take, Expired
<1>4. frames # <<>> /\ Top.stage = "expire"
  BY StageFacts DEF Take
<1> HIDE DEF d, t
<1>5. /\ timer_list' \in Seq(Slot) /\ Len(timer_list') = d - 1
      /\ Range(timer_list') \subseteq Range(timer_list)
      /\ Unique(timer_list') /\ (t.id = 0 \/ t.id \notin Pending')
  BY <1>1, <1>2, DeleteKeepsOthers DEF Pending, d
<1>6. Len(timer_list') <= MaxTimers
  BY ONLY <1>1, <1>5
<1>7. /\ timer_expiring' \in Slot /\ timer_expiring'.id = t.id
      /\ timer_expiring'.oneshot = t.oneshot
      /\ timer_expiring'.oneshot => timer_expiring'.removed
  BY <1>2, <1>3 DEF Slot
<1> QED
  BY <1>2, <1>4, <1>5, <1>6, <1>7 DEF t

\* A timer was taken: its callback is called, or none was found.
LEMMA TakenInv ==
  ASSUME IInv, Take, FramesOK', called' \subseteq called \cup {Nearest(timer_list).id},
         called' = called \/ Nearest(timer_list).id \in 1 .. timer_next_id - 1,
         UNCHANGED <<timer_next_id, sessions, eventTimers, owner, cleared>>
  PROVE  IInv'
<1> USE DEF sessions
<1> DEFINE t == Nearest(timer_list)
<1>1. /\ timer_list' \in Seq(Slot) /\ Len(timer_list') <= MaxTimers
      /\ Range(timer_list') \subseteq Range(timer_list)
      /\ Unique(timer_list')
      /\ t \in Range(timer_list)
      /\ timer_expiring' \in Slot /\ timer_expiring'.id = t.id
      /\ timer_expiring'.oneshot = t.oneshot
      /\ timer_expiring'.oneshot => timer_expiring'.removed
      /\ t.id = 0 \/ t.id \notin Pending'
  BY TakeFacts
<1>2. /\ \A u \in Range(timer_list) :
           /\ u.id < timer_next_id
           /\ ~u.removed
           /\ u.id = 0 \/ u.id \notin cleared
           /\ u.oneshot => u.id \notin called
      /\ called \subseteq 1 .. timer_next_id - 1 /\ timer_next_id \in 1 .. MaxId + 1
  BY DEF IInv, ListInv, DataOK
<1>3. called' \subseteq called \cup {t.id} /\ (called' = called \/ t.id \in 1 .. timer_next_id - 1)
  OBVIOUS
<1> HIDE DEF t
<1>4. called' \subseteq 1 .. timer_next_id - 1
  BY <1>2, <1>3
<1>5. DataOK'
  BY <1>1, <1>4 DEF IInv, DataOK
<1>6. ListInv'
  <2>1. called' = called \/ t.id # 0
    BY <1>2, <1>3, SessionsAssumption
  <2>2. \A u \in Range(timer_list') : u.id \in Pending'
    BY DEF Pending, Ids
  <2>3. \A u \in Range(timer_list') : u.oneshot => u.id \notin called'
    BY <1>1, <1>2, <1>3, <2>1, <2>2
  <2> QED
    BY <1>1, <1>2, <2>3 DEF ListInv
<1>7. ExpiringInv'
  BY <1>1, <1>2 DEF ExpiringInv
<1>8. TableInv'
  BY DEF IInv, TableInv
<1> QED
  BY <1>5, <1>6, <1>7, <1>8 DEF IInv

LEMMA CallCallbackInv ==
  ASSUME IInv, CallCallback
  PROVE  IInv'
<1> DEFINE id == Nearest(timer_list).id
           f == [Top EXCEPT !.stage = "callback", !.took = id]
<1>1. /\ Take /\ frames # <<>> /\ id \in Nat
      /\ Top \in Frame /\ Top.heap \in live /\ id \in eventTimers[Top.heap]
      /\ TopBecomes(f) /\ called' = called \cup {id}
      /\ UNCHANGED <<timer_next_id, sessions, eventTimers, owner, cleared>>
  BY TakeFacts, FrameFacts DEF CallCallback, CallbackFound, IInv, Slot
<1>2. Top.heap \in 1 .. MaxHeaps
  <2>1. Top.heap \in 1 .. heaps
    BY <1>1 DEF IInv, DataOK
  <2>2. 1 .. heaps \subseteq 1 .. MaxHeaps
    BY SessionsAssumption DEF IInv, DataOK
  <2> QED
    BY <2>1, <2>2
<1>3. id \in 1 .. timer_next_id - 1 /\ owner[id] = Top.heap
  BY <1>1, <1>2 DEF IInv, DataOK, TableInv
<1>4. f \in Frame /\ f.heap = Top.heap /\ f.took = id
  BY <1>1 DEF Frame
<1>5. called' \subseteq called \cup {id}
  BY <1>1
<1> HIDE DEF f
<1>6. FramesOK'
  BY <1>1, <1>3, <1>4, FramesBecome DEF IInv, sessions
<1> QED
  BY <1>1, <1>3, <1>5, <1>6, TakenInv

LEMMA CallUndefinedInv ==
  ASSUME IInv, CallUndefined
  PROVE  IInv'
<1> DEFINE id == Nearest(timer_list).id
           f == [Top EXCEPT !.stage = "settle", !.table = FALSE, !.took = id]
<1>1. /\ Take /\ frames # <<>> /\ id \in Nat /\ Top \in Frame
      /\ TopBecomes(f) /\ called' = called
      /\ UNCHANGED <<timer_next_id, sessions, eventTimers, owner, cleared>>
  BY TakeFacts, FrameFacts DEF CallUndefined, IInv, Slot, history
<1>2. f \in Frame /\ f.heap = Top.heap /\ f.stage = "settle"
  BY <1>1 DEF Frame
<1> HIDE DEF f
<1>3. FramesOK'
  BY <1>1, <1>2, FramesBecome DEF IInv, sessions
<1>4. called' \subseteq called \cup {id}
  BY <1>1
<1> QED
  BY <1>1, <1>3, <1>4, TakenInv

LEMMA CallbackReturnsInv ==
  ASSUME IInv, CallbackReturns
  PROVE  IInv'
<1> DEFINE f == [Top EXCEPT !.stage = "settle"]
<1>1. frames # <<>> /\ Top \in Frame /\ ~At({"expire"}) /\ TopBecomes(f)
      /\ UNCHANGED <<statics, sessions, eventTimers, history>>
  BY FrameFacts, StageFacts DEF CallbackReturns, IInv
<1>2. f \in Frame /\ f.heap = Top.heap /\ f.stage = "settle"
  BY <1>1 DEF Frame
<1> HIDE DEF f
<1>3. FramesOK'
  BY <1>1, <1>2, FramesBecome DEF IInv, statics, sessions, history
<1> QED
  BY <1>1, <1>3, QuietInv

\* What a loop is after it has settled a timer.
LEMMA SettledFrames ==
  ASSUME IInv, At({"settle"}), TopBecomes([Top EXCEPT !.stage = "expire"]),
         UNCHANGED <<timer_next_id, owner, live>>
  PROVE  FramesOK' /\ At({"expire"})' /\ ~At({"expire"})
<1> DEFINE f == [Top EXCEPT !.stage = "expire"]
<1>1. frames # <<>> /\ Top \in Frame /\ ~At({"expire"})
  BY FrameFacts, StageFacts DEF IInv
<1>2. f \in Frame /\ f.heap = Top.heap /\ f.stage = "expire" /\ TopBecomes(f)
  BY <1>1 DEF Frame
<1> HIDE DEF f
<1>3. FramesOK' /\ frames' # <<>> /\ Top' = f
  BY <1>1, <1>2, FramesBecome DEF IInv
<1> QED
  BY <1>1, <1>2, <1>3 DEF At

LEMMA DropTimerInv ==
  ASSUME IInv, DropTimer
  PROVE  IInv'
<1> USE DEF statics, sessions, history
<1>1. UNCHANGED <<statics, sessions, history>>
  BY DEF DropTimer
<1>2. FramesOK' /\ ~At({"expire"})
  BY <1>1, SettledFrames DEF DropTimer
<1>3. /\ eventTimers' \in [1 .. MaxHeaps -> SUBSET (1 .. timer_next_id - 1)]
      /\ \A h \in 1 .. MaxHeaps : eventTimers'[h] \subseteq eventTimers[h]
  BY DEF DropTimer, IInv, DataOK
<1>4. DataOK'
  BY <1>1, <1>3 DEF IInv, DataOK
<1>5. ListInv'
  BY <1>1 DEF IInv, ListInv, Unique
<1>6. ExpiringInv'
  BY <1>1, <1>2 DEF IInv, ExpiringInv, Pending, Ids
<1>7. TableInv'
  BY <1>1, <1>3 DEF IInv, TableInv
<1> QED
  BY <1>2, <1>4, <1>5, <1>6, <1>7 DEF IInv

LEMMA RequeueTimerInv ==
  ASSUME IInv, RequeueTimer
  PROVE  IInv'
<1> USE DEF sessions, history
<1> DEFINE t == timer_expiring
<1>1. /\ Queued(t) /\ FreeSlot /\ ~t.removed /\ t \in Slot
      /\ UNCHANGED <<timer_expiring, timer_next_id, sessions, eventTimers, history>>
  BY DEF RequeueTimer, Removed, IInv, DataOK
<1>2. FramesOK' /\ At({"expire"})' /\ ~At({"expire"})
  BY <1>1, SettledFrames DEF RequeueTimer
<1>3. /\ t.id < timer_next_id /\ ~t.oneshot
      /\ t.id = 0 \/ t.id \notin cleared
      /\ t.id = 0 \/ t.id \notin Pending
  BY <1>1, <1>2 DEF IInv, ExpiringInv
<1>4. /\ timer_list' \in Seq(Slot)
      /\ Len(timer_list') = Len(timer_list) + 1
      /\ Range(timer_list') \subseteq Range(timer_list) \cup {t}
      /\ Unique(timer_list')
  BY <1>1, <1>3, QueuedKeeps DEF IInv, DataOK, ListInv
<1>5. Len(timer_list') <= MaxTimers
  <2>1. Len(timer_list) \in Nat /\ Len(timer_list) < MaxTimers /\ MaxTimers \in Nat
    BY <1>1, LenProperties, SessionsAssumption DEF FreeSlot, IInv, DataOK
  <2> QED
    BY ONLY <1>4, <2>1
<1>6. DataOK'
  BY <1>1, <1>4, <1>5 DEF IInv, DataOK
<1>7. ListInv'
  BY <1>1, <1>3, <1>4 DEF IInv, ListInv
<1>8. ExpiringInv'
  BY <1>1, <1>2 DEF IInv, ExpiringInv
<1>9. TableInv'
  BY <1>1 DEF IInv, TableInv
<1> QED
  BY <1>2, <1>6, <1>7, <1>8, <1>9 DEF IInv

\* The innermost eval returns.
LEMMA PopFrames ==
  ASSUME IInv, frames # <<>>, Pop, UNCHANGED <<timer_next_id, owner, live>>
  PROVE  FramesOK'
<1>1. Len(frames) \in Nat /\ Len(frames) # 0
  BY FrameFacts DEF IInv
<1>2. Len(frames) - 1 \in 0 .. Len(frames) - 1
  BY ONLY <1>1
<1> QED
  BY <1>2, FramesUnwind DEF IInv, Pop

LEMMA RequeueThrowsInv ==
  ASSUME IInv, RequeueThrows
  PROVE  IInv'
<1>1. frames # <<>> /\ ~At({"expire"}) /\ Pop
      /\ UNCHANGED <<statics, sessions, eventTimers, history>>
  BY StageFacts DEF RequeueThrows
<1>2. FramesOK'
  BY <1>1, PopFrames DEF statics, sessions, history
<1> QED
  BY <1>1, <1>2, QuietInv

\* timer_expiring is cleared between two rounds, and at the end of a loop.
LEMMA ForgetInv ==
  ASSUME IInv, FramesOK', timer_expiring' = Unused,
         UNCHANGED <<timer_list, timer_next_id, sessions, eventTimers, history>>
  PROVE  IInv'
<1> USE DEF sessions, history
<1>1. Unused \in Slot /\ Unused.id = 0 /\ ~Unused.oneshot
  BY DEF Unused, Slot
<1>2. timer_next_id \in 1 .. MaxId + 1 /\ 0 < timer_next_id
  BY SessionsAssumption DEF IInv, DataOK
<1>3. DataOK'
  BY <1>1 DEF IInv, DataOK
<1>4. ListInv'
  BY DEF IInv, ListInv, Unique
<1>5. ExpiringInv'
  BY <1>1, <1>2 DEF ExpiringInv
<1>6. TableInv'
  BY DEF IInv, TableInv
<1> QED
  BY <1>3, <1>4, <1>5, <1>6 DEF IInv

LEMMA RoundEndsInv ==
  ASSUME IInv, RoundEnds
  PROVE  IInv'
<1> DEFINE f == [Top EXCEPT !.table = TRUE]
<1>1. frames # <<>> /\ Top \in Frame /\ Top.stage = "expire" /\ TopBecomes(f)
      /\ UNCHANGED <<timer_list, timer_next_id, sessions, eventTimers, history>>
      /\ timer_expiring' = Unused
  BY FrameFacts, StageFacts DEF RoundEnds, IInv
<1>2. f \in Frame /\ f.heap = Top.heap /\ f.stage = "expire"
  BY <1>1 DEF Frame
<1> HIDE DEF f
<1>3. FramesOK'
  BY <1>1, <1>2, FramesBecome DEF IInv, sessions, history
<1> QED
  BY <1>1, <1>3, ForgetInv

LEMMA LoopEndsInv ==
  ASSUME IInv, LoopEnds
  PROVE  IInv'
<1>1. frames # <<>> /\ Pop /\ timer_expiring' = Unused
      /\ UNCHANGED <<timer_list, timer_next_id, sessions, eventTimers, history>>
  BY StageFacts DEF LoopEnds
<1>2. FramesOK'
  BY <1>1, PopFrames DEF sessions, history
<1> QED
  BY <1>1, <1>2, ForgetInv

LEMMA StutterInv == IInv /\ UNCHANGED vars => IInv'
<1> SUFFICES ASSUME IInv, UNCHANGED vars PROVE IInv'
  OBVIOUS
<1> USE DEF vars
<1>1. DataOK' /\ TableInv'
  BY DEF IInv, DataOK, TableInv
<1>2. ListInv'
  BY DEF IInv, ListInv, Unique
<1>3. ExpiringInv'
  BY DEF IInv, ExpiringInv, Pending, Ids, At, Top
<1>4. FramesOK'
  BY DEF IInv, FramesOK, Active
<1> QED
  BY <1>1, <1>2, <1>3, <1>4 DEF IInv

LEMMA StepInv == IInv /\ [Next]_vars => IInv'
<1> SUFFICES ASSUME IInv, [Next]_vars PROVE IInv'
  OBVIOUS
<1>1. CASE New
  BY <1>1, SetUpInv DEF New
<1>2. ASSUME NEW h \in live, Reset(h) PROVE IInv'
  BY <1>2, SetUpInv DEF Reset
<1>3. ASSUME NEW h \in live, Destroy(h) PROVE IInv'
  BY <1>3, DestroyInv
<1>4. ASSUME NEW h \in live, Eval(h) PROVE IInv'
  BY <1>4, EvalInv
<1>5. CASE EvalRunsLoop
  BY <1>5, EvalRunsLoopInv
<1>6. CASE Dies
  BY <1>6, DiesInv
<1>7. ASSUME NEW oneshot \in BOOLEAN, CreateTimer(oneshot) PROVE IInv'
  BY <1>7, CreateTimerInv
<1>8. ASSUME NEW id \in 0 .. timer_next_id - 1, MarkExpiring(id) PROVE IInv'
  BY <1>8, MarkExpiringInv
<1>9. ASSUME NEW id \in 0 .. timer_next_id - 1, DeleteTimer(id) PROVE IInv'
  BY <1>9, DeleteTimerInv
<1>10. CASE CallCallback
  BY <1>10, CallCallbackInv
<1>11. CASE CallUndefined
  BY <1>11, CallUndefinedInv
<1>12. CASE CallbackReturns
  BY <1>12, CallbackReturnsInv
<1>13. CASE DropTimer
  BY <1>13, DropTimerInv
<1>14. CASE RequeueTimer
  BY <1>14, RequeueTimerInv
<1>15. CASE RequeueThrows
  BY <1>15, RequeueThrowsInv
<1>16. CASE RoundEnds
  BY <1>16, RoundEndsInv
<1>17. CASE LoopEnds
  BY <1>17, LoopEndsInv
<1>18. CASE UNCHANGED vars
  BY <1>18, StutterInv
<1> QED
  BY <1>1, <1>2, <1>3, <1>4, <1>5, <1>6, <1>7, <1>8, <1>9, <1>10, <1>11, <1>12, <1>13,
     <1>14, <1>15, <1>16, <1>17, <1>18 DEF Next

LEMMA Invariance == Spec => []IInv
<1> QED
  BY InitInv, StepInv, PTL DEF Spec

-----------------------------------------------------------------------------
(* The theorems.                                                           *)

\* Every variable has its type, no more timers are in the list than there are slots,
\* no eval in progress runs in a heap that is gone, and only the innermost is in its
\* loop outside a callback (new, reset, DESTROY and eval of duk.xs, eventloop_run).
THEOREM SessionsTypeCorrect == Spec => []TypeOK
<1>1. IInv => TypeOK
  BY DEF IInv, DataOK, FramesOK, TypeOK
<1> QED
  BY <1>1, Invariance, PTL

\* expire_timers runs a callback only in the heap whose script created the timer,
\* whichever VM's loop took it out of the list that all VMs share.
THEOREM CallbacksRunAtHome == Spec => []OwnCallbacks
<1>1. IInv => OwnCallbacks
  BY DEF IInv, FramesOK, OwnCallbacks
<1> QED
  BY <1>1, Invariance, PTL

\* However evals of several VMs nest, return and die, create_timer and the requeue in
\* expire_timers never put one id into the list twice.
THEOREM OneTimerPerIdKept == Spec => []OneTimerPerId
<1>1. IInv => OneTimerPerId
  <2> SUFFICES ASSUME IInv PROVE OneTimerPerId
    OBVIOUS
  <2>1. Unique(timer_list)
    BY DEF IInv, ListInv
  <2>2. At({"callback", "settle"}) => ~At({"expire"})
    BY DEF At
  <2>3. At({"callback", "settle"}) => timer_expiring.id = 0 \/ timer_expiring.id \notin Pending
    BY <2>2 DEF IInv, ExpiringInv
  <2> QED
    BY <2>1, <2>3 DEF OneTimerPerId, Unique
<1> QED
  BY <1>1, Invariance, PTL

\* The steps of a loop that call nothing do not end inside a callback.
LEMMA NoCallFacts ==
  ASSUME IInv, CallUndefined \/ RoundEnds \/ LoopEnds
  PROVE  ~(At({"callback"})' /\ Len(frames') = Len(frames))
<1>1. frames # <<>> /\ Top \in Frame /\ Top.stage = "expire" /\ FramesOK
  BY FrameFacts, StageFacts DEF CallUndefined, Take, RoundEnds, LoopEnds, IInv
<1>2. CASE CallUndefined
  <2> DEFINE f == [Top EXCEPT !.stage = "settle", !.table = FALSE,
                              !.took = Nearest(timer_list).id]
  <2>1. TopBecomes(f) /\ UNCHANGED <<timer_next_id, sessions, eventTimers, history>>
    BY <1>2 DEF CallUndefined
  <2>2. f \in Frame /\ f.heap = Top.heap /\ f.stage = "settle"
    BY <1>1, <1>2, TakeFacts DEF Frame, CallUndefined, Slot
  <2> HIDE DEF f
  <2>3. Top' = f
    BY <1>1, <2>1, <2>2, FramesBecome DEF sessions, history
  <2> QED
    BY <2>2, <2>3 DEF At
<1>3. CASE RoundEnds
  <2> DEFINE f == [Top EXCEPT !.table = TRUE]
  <2>1. TopBecomes(f) /\ UNCHANGED <<timer_next_id, sessions, eventTimers, history>>
    BY <1>3 DEF RoundEnds
  <2>2. f \in Frame /\ f.heap = Top.heap /\ f.stage = "expire"
    BY <1>1 DEF Frame
  <2> HIDE DEF f
  <2>3. Top' = f
    BY <1>1, <2>1, <2>2, FramesBecome DEF sessions, history
  <2> QED
    BY <2>2, <2>3 DEF At
<1>4. CASE LoopEnds
  <2> DEFINE n == Len(frames)
  <2>1. n \in Nat /\ n # 0 /\ DOMAIN frames = 1 .. n
        /\ \A i \in DOMAIN frames : frames[i] \in Frame
    BY <1>1, FrameFacts
  <2>2. frames' = [i \in 1 .. n - 1 |-> frames[i]]
    BY <1>4 DEF LoopEnds, Pop
  <2> HIDE DEF n
  <2>3. n - 1 \in Nat /\ 1 .. n - 1 \subseteq 1 .. n /\ n - 1 # n
    BY ONLY <2>1
  <2>4. frames' \in [1 .. n - 1 -> Frame]
    BY ONLY <2>1, <2>2, <2>3
  <2>5. Len(frames') = n - 1
    BY ONLY <2>3, <2>4, FunctionIsSequence
  <2> QED
    BY <2>3, <2>5 DEF n
<1> QED
  BY <1>2, <1>3, <1>4

\* Nothing but CallCallback begins a callback.
LEMMA CallStartsFacts ==
  ASSUME IInv, [Next]_vars, CallStarts
  PROVE  CallCallback
<1>1. At({"expire"}) /\ At({"callback"})' /\ Len(frames') = Len(frames)
  BY DEF CallStarts
<1>2. ~PerlRuns /\ ~JSRuns /\ ~At({"main"}) /\ ~At({"callback"}) /\ ~At({"settle"})
  BY <1>1 DEF At, PerlRuns, JSRuns
<1>3. ~(CallUndefined \/ RoundEnds \/ LoopEnds)
  BY <1>1, NoCallFacts
<1>4. ~UNCHANGED vars
  BY <1>1, <1>2 DEF vars, At, Top
<1>5. \A gone : ~SetUp(gone)
  BY <1>2 DEF SetUp
<1>6. \A h : ~Destroy(h) /\ ~Eval(h)
  BY <1>2 DEF Destroy, Eval
<1>7. ~EvalRunsLoop /\ ~Dies /\ ~CallbackReturns /\ ~DropTimer /\ ~RequeueTimer /\ ~RequeueThrows
  BY <1>2 DEF EvalRunsLoop, Dies, CallbackReturns, DropTimer, RequeueTimer, RequeueThrows
<1>8. \A x : ~CreateTimer(x) /\ ~MarkExpiring(x) /\ ~DeleteTimer(x)
  BY <1>2 DEF CreateTimer, MarkExpiring, DeleteTimer
<1> QED
  BY <1>3, <1>4, <1>5, <1>6, <1>7, <1>8 DEF Next, New, Reset

LEMMA CalledTimer ==
  ASSUME IInv, [Next]_vars, CallStarts
  PROVE  /\ timer_expiring'.id \notin cleared
         /\ timer_expiring'.oneshot => timer_expiring'.id \notin called
<1> DEFINE t == Nearest(timer_list)
<1>1. CallCallback
  BY CallStartsFacts
<1>2. /\ t \in Range(timer_list) /\ timer_expiring'.id = t.id
      /\ timer_expiring'.oneshot = t.oneshot
      /\ Top.heap \in live /\ t.id \in eventTimers[Top.heap]
  BY <1>1, TakeFacts, FrameFacts DEF CallCallback, CallbackFound, IInv
<1>3. Top.heap \in 1 .. MaxHeaps
  <2>1. Top.heap \in 1 .. heaps
    BY <1>2 DEF IInv, DataOK
  <2>2. 1 .. heaps \subseteq 1 .. MaxHeaps
    BY SessionsAssumption DEF IInv, DataOK
  <2> QED
    BY <2>1, <2>2
<1>4. t.id \in 1 .. timer_next_id - 1
  BY <1>2, <1>3 DEF IInv, DataOK
<1>5. t.id # 0
  BY <1>4
<1>6. (t.id = 0 \/ t.id \notin cleared) /\ (t.oneshot => t.id \notin called)
  BY <1>2 DEF IInv, ListInv
<1> QED
  BY <1>2, <1>5, <1>6

\* delete_timer silences a timer for good, even if the loop that had taken it has lost
\* it to a nested one: expire_timers does not call its callback again.
THEOREM ClearedStaysSilentAcrossVMs == Spec => ClearedIsSilent
<1>1. IInv /\ [Next]_vars => [CallStarts => timer_expiring'.id \notin cleared]_vars
  BY CalledTimer
<1> QED
  BY <1>1, Invariance, PTL DEF Spec, ClearedIsSilent

\* expire_timers calls the callback of a one-shot timer once.
THEOREM OneShotsCalledOnceAcrossVMs == Spec => OneShotOnce
<1>1. IInv /\ [Next]_vars =>
        [CallStarts /\ timer_expiring'.oneshot => timer_expiring'.id \notin called]_vars
  BY CalledTimer
<1> QED
  BY <1>1, Invariance, PTL DEF Spec, OneShotOnce

-----------------------------------------------------------------------------
(* When the list is dense.                                                 *)

\* No callback calls a sub that evals: an eval inside another is called by its script.
Flat == At({"callback"}) => Len(frames') <= Len(frames)

\* ListDense, what goes back into the list when a callback has returned, and where the
\* evals outside are.
DenseInv ==
  /\ \A i \in 1 .. Len(frames) - 1 : frames[i].stage = "main"
  /\ \A t \in Range(timer_list) : t.id # 0
  /\ At({"callback", "settle"}) => timer_expiring.id # 0

\* The innermost eval goes on.
LEMMA OuterStayMain ==
  ASSUME FramesOK, DenseInv, frames # <<>>, NEW f \in Frame, TopBecomes(f)
  PROVE  /\ \A i \in 1 .. Len(frames') - 1 : frames'[i].stage = "main"
         /\ \A stages : At(stages)' => f.stage \in stages
<1> DEFINE n == Len(frames)
<1>1. n \in Nat \ {0} /\ DOMAIN frames = 1 .. n /\ frames \in [1 .. n -> Frame]
  BY FrameFacts, SeqDef DEF FramesOK
<1>2. frames' = [frames EXCEPT ![n] = f]
  BY DEF TopBecomes
<1>3. \A i \in 1 .. n - 1 : frames[i].stage = "main"
  BY DEF DenseInv
<1> HIDE DEF n
<1>4. frames' \in [1 .. n -> Frame] /\ frames'[n] = f
      /\ \A i \in 1 .. n - 1 : frames'[i] = frames[i]
  BY ONLY <1>1, <1>2, f \in Frame
<1>5. Len(frames') = n
  BY <1>1, <1>4, FunctionIsSequence
<1> QED
  BY <1>3, <1>4, <1>5 DEF At, Top

\* The innermost evals are over.
LEMMA OuterAreMain ==
  ASSUME FramesOK, DenseInv, frames # <<>>,
         NEW n \in 0 .. Len(frames) - 1, frames' = [i \in 1 .. n |-> frames[i]]
  PROVE  /\ \A i \in 1 .. Len(frames') - 1 : frames'[i].stage = "main"
         /\ ~At({"callback", "settle"})'
<1> DEFINE m == Len(frames)
<1>1. m \in Nat \ {0} /\ DOMAIN frames = 1 .. m /\ \A i \in 1 .. m : frames[i] \in Frame
  BY FrameFacts
<1>2. n \in Nat /\ 1 .. n \subseteq 1 .. m - 1 /\ 1 .. n - 1 \subseteq 1 .. n
      /\ 1 .. n \subseteq 1 .. m
  BY ONLY <1>1, n \in 0 .. m - 1
<1>3. \A i \in 1 .. n : frames[i].stage = "main"
  BY <1>2 DEF DenseInv
<1>4. frames' \in [1 .. n -> Frame] /\ \A i \in 1 .. n : frames'[i] = frames[i]
  BY <1>1, <1>2
<1>5. frames' \in Seq(Frame) /\ Len(frames') = n
  BY <1>2, <1>4, FunctionIsSequence
<1>6. frames' # <<>> => n \in 1 .. n
  BY <1>2, <1>5, EmptySeq
<1> QED
  BY <1>2, <1>3, <1>4, <1>5, <1>6 DEF At, Top

\* An eval begins: in the program, or in the script of another.
LEMMA DenseEval ==
  ASSUME Flat, IInv, DenseInv, NEW h \in live, Eval(h)
  PROVE  DenseInv'
<1> DEFINE f == [heap |-> h, stage |-> "main", table |-> TRUE, took |-> 0]
           n == Len(frames)
<1>1. frames' = Append(frames, f) /\ UNCHANGED timer_list /\ PerlRuns
  BY DEF Eval, Begins, statics
<1>2. n \in Nat /\ DOMAIN frames = 1 .. n /\ frames \in Seq(Frame) /\ f \in Frame
  <2>1. n \in Nat /\ DOMAIN frames = 1 .. n /\ frames \in Seq(Frame)
    BY FrameFacts DEF IInv, FramesOK
  <2>2. h \in Nat
    BY DEF IInv, DataOK
  <2> QED
    BY <2>1, <2>2 DEF Frame
<1>3. f.stage = "main"
  OBVIOUS
<1> HIDE DEF f
<1>4. /\ Len(frames') = n + 1 /\ frames'[n + 1] = f
      /\ \A i \in 1 .. n : frames'[i] = frames[i]
  BY <1>1, <1>2, AppendProperties
<1>5. \A i \in 1 .. n : frames[i].stage = "main"
  <2>1. ~At({"callback"})
    BY <1>2, <1>4 DEF Flat
  <2>2. n # 0 => Top.stage = "main"
    BY <1>1, <1>2, <2>1, EmptySeq DEF PerlRuns, JSRuns, At
  <2> QED
    BY <1>2, <2>2 DEF DenseInv, Top
<1>6. ~At({"callback", "settle"})'
  BY <1>3, <1>4, <1>2 DEF At, Top
<1> QED
  BY <1>1, <1>2, <1>4, <1>5, <1>6 DEF DenseInv

\* Steps at whose end the innermost eval, if any, is about to take a timer, or its script
\* runs.
LEMMA DenseRest ==
  ASSUME IInv, DenseInv,
         EvalRunsLoop \/ Dies \/ DropTimer \/ RequeueThrows \/ RoundEnds \/ LoopEnds
  PROVE  DenseInv'
<1>1. frames # <<>> /\ FramesOK /\ UNCHANGED timer_list /\ Top \in Frame
  BY StageFacts, FrameFacts DEF EvalRunsLoop, Dies, DropTimer, RequeueThrows, RoundEnds,
     LoopEnds, IInv, statics
<1>2. CASE EvalRunsLoop \/ DropTimer
  <2> DEFINE f == [Top EXCEPT !.stage = "expire"]
  <2>1. TopBecomes(f) /\ f \in Frame /\ f.stage = "expire"
    BY <1>1, <1>2 DEF EvalRunsLoop, DropTimer, Frame
  <2> HIDE DEF f
  <2>2. f.stage \notin {"callback", "settle"}
    BY <2>1
  <2> QED
    BY <1>1, <2>1, <2>2, OuterStayMain DEF DenseInv
<1>3. CASE RoundEnds
  <2> DEFINE f == [Top EXCEPT !.table = TRUE]
  <2>1. TopBecomes(f) /\ f \in Frame /\ f.stage = "expire"
    BY <1>1, <1>3, StageFacts, ZenonT(30) DEF RoundEnds, Frame
  <2> HIDE DEF f
  <2>2. f.stage \notin {"callback", "settle"}
    BY <2>1
  <2> QED
    BY <1>1, <2>1, <2>2, OuterStayMain DEF DenseInv
<1>4. CASE Dies \/ RequeueThrows \/ LoopEnds
  <2>1. Len(frames) \in Nat \ {0}
    BY <1>1, FrameFacts
  <2>2. Len(frames) - 1 \in 0 .. Len(frames) - 1
    BY ONLY <2>1
  <2>3. PICK n \in 0 .. Len(frames) - 1 : frames' = [i \in 1 .. n |-> frames[i]]
    BY <1>4, <2>2 DEF Dies, RequeueThrows, LoopEnds, Pop
  <2> QED
    BY <1>1, <2>3, OuterAreMain DEF DenseInv
<1> QED
  BY <1>2, <1>3, <1>4

\* A timer is taken out, and the callback is entered or not, or returns.
LEMMA DenseCalls ==
  ASSUME IInv, DenseInv, CallCallback \/ CallUndefined \/ CallbackReturns
  PROVE  DenseInv'
<1>1. frames # <<>> /\ FramesOK /\ Top \in Frame
  BY StageFacts, FrameFacts DEF CallCallback, CallUndefined, CallbackReturns, Take, IInv
<1>2. PICK f \in Frame : TopBecomes(f)
  <2>1. CASE Take
    <3>1. Nearest(timer_list).id \in Nat
      BY <2>1, TakeFacts DEF Slot
    <3> QED
      BY <1>1, <2>1, <3>1 DEF CallCallback, CallUndefined, CallbackReturns, Frame
  <2>2. CASE CallbackReturns
    BY <1>1, <2>2 DEF CallbackReturns, Frame
  <2> QED
    BY <2>1, <2>2 DEF CallCallback, CallUndefined
<1>3. \A i \in 1 .. Len(frames') - 1 : frames'[i].stage = "main"
  BY <1>1, <1>2, OuterStayMain
<1>4. CASE Take
  BY <1>3, <1>4, TakeFacts DEF DenseInv
<1>5. CASE CallbackReturns
  BY <1>3, <1>5, StageFacts DEF CallbackReturns, DenseInv, At, statics
<1> QED
  BY <1>4, <1>5 DEF CallCallback, CallUndefined

\* Timers are put into the list, marked, or deleted.
LEMMA DenseChanges ==
  ASSUME IInv, DenseInv,
         \/ \E oneshot \in BOOLEAN : CreateTimer(oneshot)
         \/ \E id \in 0 .. timer_next_id - 1 : MarkExpiring(id) \/ DeleteTimer(id)
         \/ RequeueTimer
  PROVE  DenseInv'
<1>1. timer_list \in Seq(Slot) /\ timer_expiring \in Slot /\ timer_next_id \in Nat \ {0}
  BY SessionsAssumption DEF IInv, DataOK
<1>2. CASE \E oneshot \in BOOLEAN : CreateTimer(oneshot)
  <2>1. PICK oneshot \in BOOLEAN : CreateTimer(oneshot)
    BY <1>2
  <2> DEFINE t == [id |-> timer_next_id, oneshot |-> oneshot, removed |-> FALSE]
  <2>2. Queued(t) /\ t \in Slot /\ t.id # 0 /\ UNCHANGED <<timer_expiring, frames>>
    BY <1>1, <2>1 DEF CreateTimer, Slot
  <2> HIDE DEF t
  <2>3. Range(timer_list') \subseteq Range(timer_list) \cup {t}
    BY <1>1, <2>2, QueuedKeeps
  <2> QED
    BY <2>2, <2>3 DEF DenseInv, At, Top
<1>3. CASE \E id \in 0 .. timer_next_id - 1 : MarkExpiring(id)
  BY <1>1, <1>3 DEF MarkExpiring, DenseInv, At, Top, Slot
<1>4. CASE \E id \in 0 .. timer_next_id - 1 : DeleteTimer(id)
  <2>1. PICK id \in 0 .. timer_next_id - 1 : DeleteTimer(id)
    BY <1>4
  <2>2. FirstIndex(timer_list, id) \in 1 .. Len(timer_list)
    BY <1>1, <2>1, ScanFinds DEF DeleteTimer
  <2>3. Range(timer_list') \subseteq Range(timer_list)
    BY <1>1, <2>1, <2>2, DeleteKeepsOthers DEF DeleteTimer
  <2> QED
    BY <2>1, <2>3 DEF DeleteTimer, DenseInv, At, Top
<1>5. CASE RequeueTimer
  <2>1. /\ Queued(timer_expiring) /\ frames # <<>> /\ FramesOK
        /\ timer_expiring.id # 0 /\ UNCHANGED timer_expiring
    BY <1>5 DEF RequeueTimer, DenseInv, IInv, At
  <2>2. Range(timer_list') \subseteq Range(timer_list) \cup {timer_expiring}
    BY <1>1, <2>1, QueuedKeeps
  <2>3. Top \in Frame /\ TopBecomes([Top EXCEPT !.stage = "expire"])
    BY <1>5, <2>1, FrameFacts DEF RequeueTimer
  <2>4. [Top EXCEPT !.stage = "expire"] \in Frame
    BY <2>3 DEF Frame
  <2>5. \A i \in 1 .. Len(frames') - 1 : frames'[i].stage = "main"
    BY <2>1, <2>3, <2>4, OuterStayMain
  <2> QED
    BY <2>1, <2>2, <2>5 DEF DenseInv
<1> QED
  BY <1>2, <1>3, <1>4, <1>5

LEMMA DenseKept ==
  ASSUME ~Resets
  PROVE  IInv /\ DenseInv /\ [Next]_vars /\ [Flat]_vars => DenseInv'
<1> SUFFICES ASSUME IInv, DenseInv, [Next]_vars, [Flat]_vars PROVE DenseInv'
  OBVIOUS
<1>1. CASE UNCHANGED vars
  BY <1>1 DEF vars, DenseInv, At, Top
<1>2. CASE Next /\ Flat
  <2>1. \A gone : ~SetUp(gone)
    BY DEF SetUp
  <2>2. \A h : ~Destroy(h)
    BY DEF Destroy
  <2> QED
    BY <1>2, <2>1, <2>2, DenseEval, DenseRest, DenseCalls, DenseChanges DEF Next, New, Reset
<1> QED
  BY <1>1, <1>2

\* As long as no VM is made, reset or destroyed later, and no callback calls a sub that
\* evals, the list is dense as c_eventloop.c:43 says, even if scripts that evals inside
\* each other run die in the middle.  Neither condition can be dropped: each of
\* eventloop_register (c_eventloop.c:381) and a loop inside a callback, which clears
\* timer_expiring (c_eventloop.c:174), lets a zeroed slot into the list.
THEOREM DenseIfFlat == ASSUME ~Resets PROVE Spec /\ [][Flat]_vars => []ListDense
<1>1. Init => DenseInv
  <2> SUFFICES ASSUME Init PROVE DenseInv
    OBVIOUS
  <2>1. Len(frames) = 0 /\ Range(timer_list) = {} /\ frames = <<>>
    BY EmptySeq, LenProperties DEF Init, Range
  <2> QED
    BY <2>1 DEF DenseInv, At
<1>2. IInv /\ DenseInv /\ [Next]_vars /\ [Flat]_vars => DenseInv'
  BY DenseKept
<1>3. DenseInv => ListDense
  BY DEF DenseInv, ListDense, Pending, Ids
<1> QED
  BY <1>1, <1>2, <1>3, Invariance, PTL DEF Spec
=============================================================================
