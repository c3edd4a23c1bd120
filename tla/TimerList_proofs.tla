--------------------------- MODULE TimerList_proofs ---------------------------
(***************************************************************************)
(* What the operations on the timer list return: lemmas for the proofs     *)
(* about Bubble and EventLoop.                                             *)
(***************************************************************************)
EXTENDS TimerList, SequenceTheorems, WellFoundedInduction, TLAPS

\* A function on 1 .. n is a sequence of length n.
LEMMA FunctionIsSeq ==
  ASSUME NEW S, NEW n \in Nat, NEW f \in [1 .. n -> S]
  PROVE  f \in Seq(S) /\ Len(f) = n /\ DOMAIN f = 1 .. n
<1>1. f \in Seq(S)
  BY SeqDef
<1>2. DOMAIN f = 1 .. n
  OBVIOUS
<1>3. Len(f) \in Nat /\ DOMAIN f = 1 .. Len(f)
  BY <1>1, LenProperties
<1> QED
  BY <1>1, <1>2, <1>3

\* Every non-empty set of naturals has a least element.
LEMMA LeastNat ==
  ASSUME NEW T \in SUBSET Nat, T # {}
  PROVE  \E x \in T : \A y \in T : x <= y
<1>1. PICK x \in T : \A y \in T : ~ (<<y, x>> \in OpToRel(<, Nat))
  BY NatLessThanWellFounded, WFMin
<1>2. ASSUME NEW y \in T PROVE x <= y
  <2>1. ~ (y < x)
    BY <1>1 DEF OpToRel
  <2> QED
    BY <2>1
<1> QED
  BY <1>2

-----------------------------------------------------------------------------
(* BubbleLast.                                                             *)

\* The timers that stay in place are a prefix of the list, without the last.
LEMMA StaysPrefix ==
  ASSUME NEW list \in Seq(Timer), NEW i \in 1 .. Len(list), Stays(list, i)
  PROVE  i < Len(list) /\ \A j \in 1 .. i : Stays(list, j)
<1>1. Len(list) \in Nat
  BY LenProperties
<1> QED
  BY <1>1 DEF Stays

\* The bubble has the length of the list, and consists of timers.
LEMMA BubbleType ==
  ASSUME NEW list \in Seq(Timer), Len(list) > 0
  PROVE  /\ BubbleLast(list) \in Seq(Timer)
         /\ Len(BubbleLast(list)) = Len(list)
<1>1. Len(list) \in Nat /\ list \in [1 .. Len(list) -> Timer]
  BY LenProperties
<1>2. BubbleLast(list) \in [1 .. Len(list) -> Timer]
  BY <1>1 DEF BubbleLast, Nearest
<1> QED
  BY <1>1, <1>2, FunctionIsSeq

\* There is one place where the bubble stops: those before it stay, those from
\* it on move up by one.
LEMMA BubblePlace ==
  ASSUME NEW list \in Seq(Timer), Len(list) > 0
  PROVE  \E p \in 1 .. Len(list) :
           /\ \A i \in 1 .. p - 1 : Stays(list, i) /\ BubbleLast(list)[i] = list[i]
           /\ BubbleLast(list)[p] = Nearest(list)
           /\ \A i \in p + 1 .. Len(list) :
                ~Stays(list, i) /\ BubbleLast(list)[i] = list[i - 1]
           /\ ~Stays(list, p)
<1> DEFINE n == Len(list)
           Free == {i \in 1 .. n : ~Stays(list, i)}
<1>1. n \in Nat
  BY LenProperties
<1>2. n \in Free
  BY <1>1 DEF Stays
<1>3. PICK p \in Free : \A y \in Free : p <= y
  <2>1. Free \in SUBSET Nat /\ Free # {}
    BY <1>1, <1>2
  <2> HIDE DEF Free
  <2> QED
    BY <2>1, LeastNat
<1>4. \A i \in 1 .. p - 1 : Stays(list, i)
  BY <1>1, <1>3
<1>5. \A i \in p .. n : ~Stays(list, i)
  BY <1>1, <1>3, StaysPrefix
<1>6. \A i \in 1 .. p - 1 : BubbleLast(list)[i] = list[i]
  BY <1>1, <1>3, <1>4 DEF BubbleLast
<1>7. BubbleLast(list)[p] = Nearest(list)
  BY <1>1, <1>3, <1>4, <1>5 DEF BubbleLast
<1>8. \A i \in p + 1 .. n : BubbleLast(list)[i] = list[i - 1]
  BY <1>1, <1>3, <1>5 DEF BubbleLast
<1> QED
  BY <1>1, <1>3, <1>4, <1>5, <1>6, <1>7, <1>8

\* Bubbling neither loses nor invents a timer.
LEMMA BubbleContents ==
  ASSUME NEW list \in Seq(Timer), Len(list) > 0
  PROVE  /\ \A i \in 1 .. Len(list) : \E j \in 1 .. Len(list) : BubbleLast(list)[i] = list[j]
         /\ \A j \in 1 .. Len(list) : \E i \in 1 .. Len(list) : list[j] = BubbleLast(list)[i]
<1> DEFINE n == Len(list)
           b == BubbleLast(list)
<1>1. n \in Nat
  BY LenProperties
<1>2. PICK p \in 1 .. n :
           /\ \A i \in 1 .. p - 1 : Stays(list, i) /\ b[i] = list[i]
           /\ b[p] = Nearest(list)
           /\ \A i \in p + 1 .. n : ~Stays(list, i) /\ b[i] = list[i - 1]
           /\ ~Stays(list, p)
  BY BubblePlace
<1> HIDE DEF b
<1>3. ASSUME NEW i \in 1 .. n PROVE \E j \in 1 .. n : b[i] = list[j]
  <2>1. CASE i < p
    BY <1>1, <1>2, <2>1
  <2>2. CASE i = p
    BY <1>1, <1>2, <2>2 DEF Nearest
  <2>3. CASE i > p
    <3>1. i - 1 \in 1 .. n /\ b[i] = list[i - 1]
      BY <1>1, <1>2, <2>3
    <3> QED
      BY <3>1
  <2> QED
    BY <1>1, <2>1, <2>2, <2>3
<1>4. ASSUME NEW j \in 1 .. n PROVE \E i \in 1 .. n : b[i] = list[j]
  <2>1. CASE j < p
    BY <1>1, <1>2, <2>1
  <2>2. CASE j = n
    BY <1>1, <1>2, <2>2 DEF Nearest
  <2>3. CASE j >= p /\ j < n
    <3>1. j + 1 \in 1 .. n /\ b[j + 1] = list[j]
      BY <1>1, <1>2, <2>3
    <3> QED
      BY <3>1
  <2> QED
    BY <1>1, <2>1, <2>2, <2>3
<1> QED
  BY <1>3, <1>4 DEF b

\* Bubbling sorts a list that is sorted but for its last timer.
LEMMA BubbleSorts ==
  ASSUME NEW list \in Seq(Timer), Len(list) > 0,
         \A i, j \in 1 .. Len(list) - 1 : i < j => ~Less(list[i].target, list[j].target)
  PROVE  Sorted(BubbleLast(list))
<1> DEFINE n == Len(list)
           b == BubbleLast(list)
<1>1. n \in Nat /\ \A i \in 1 .. n : list[i].target \in Time
  <2>1. n \in Nat /\ list \in [1 .. n -> Timer]
    BY LenProperties
  <2> QED
    BY <2>1 DEF Timer
<1>2. PICK p \in 1 .. n :
           /\ \A i \in 1 .. p - 1 : Stays(list, i) /\ b[i] = list[i]
           /\ b[p] = list[n]
           /\ \A i \in p + 1 .. n : ~Stays(list, i) /\ b[i] = list[i - 1]
           /\ ~Stays(list, p)
  BY BubblePlace DEF Nearest
<1>3. DOMAIN b = 1 .. n
  BY BubbleType, LenProperties
<1> HIDE DEF b
<1>4. \A i \in 1 .. p - 1 : \E j \in i .. n - 1 : LessEq(list[n].target, list[j].target)
  BY <1>2 DEF Stays, Nearest
<1>5. \A j \in p .. n - 1 : ~LessEq(list[n].target, list[j].target)
  BY <1>2 DEF Stays, Nearest
<1>6. ASSUME NEW i \in 1 .. n, NEW j \in 1 .. n, i < j
      PROVE  ~Less(b[i].target, b[j].target)
  <2>1. CASE j < p
    BY <1>1, <1>2, <1>6, <2>1
  <2>2. CASE j = p
    <3>1. i \in 1 .. p - 1 /\ b[i] = list[i] /\ b[j] = list[n]
      BY <1>1, <1>2, <1>6, <2>2
    <3>2. PICK k \in i .. n - 1 : LessEq(list[n].target, list[k].target)
      BY <1>4, <3>1
    <3>3. i = k \/ ~Less(list[i].target, list[k].target)
      BY <1>1, <1>6, <3>2
    <3> QED
      BY <1>1, <3>1, <3>2, <3>3 DEF Less, LessEq, Time, NaN
  <2>3. CASE i < p /\ p < j
    <3>1. b[i] = list[i] /\ b[j] = list[j - 1] /\ (i = j - 1 \/ i < j - 1)
      BY <1>1, <1>2, <1>6, <2>3
    <3> QED
      BY <1>1, <1>6, <2>3, <3>1, SMTT(30) DEF Less, Time, NaN
  <2>4. CASE i = p
    <3>1. b[i] = list[n] /\ b[j] = list[j - 1] /\ j - 1 \in p .. n - 1
      BY <1>1, <1>2, <1>6, <2>4
    <3>2. ~LessEq(list[n].target, list[j - 1].target)
      BY <1>5, <3>1
    <3> QED
      BY <1>1, <3>1, <3>2 DEF Less, LessEq, Time, NaN
  <2>5. CASE p < i
    <3>1. /\ b[i] = list[i - 1] /\ b[j] = list[j - 1]
          /\ i - 1 \in 1 .. n - 1 /\ j - 1 \in 1 .. n - 1 /\ i - 1 < j - 1
      BY <1>1, <1>2, <1>6, <2>5
    <3> QED
      BY <3>1
  <2> QED
    BY <1>1, <1>6, <2>1, <2>2, <2>3, <2>4, <2>5
<1> QED
  BY <1>3, <1>6 DEF Sorted, b

\* Bubbling keeps ids apart.
LEMMA BubbleDistinct ==
  ASSUME NEW list \in Seq(Timer), Len(list) > 0, DistinctIds(list)
  PROVE  DistinctIds(BubbleLast(list))
<1> DEFINE n == Len(list)
           b == BubbleLast(list)
<1>1. n \in Nat /\ DOMAIN list = 1 .. n
  BY LenProperties
<1>2. PICK p \in 1 .. n :
           /\ \A i \in 1 .. p - 1 : Stays(list, i) /\ b[i] = list[i]
           /\ b[p] = list[n]
           /\ \A i \in p + 1 .. n : ~Stays(list, i) /\ b[i] = list[i - 1]
           /\ ~Stays(list, p)
  BY BubblePlace DEF Nearest
<1>3. DOMAIN b = 1 .. n
  BY BubbleType, LenProperties
<1> HIDE DEF b
<1> DEFINE Old(i) == IF i < p THEN i ELSE IF i = p THEN n ELSE i - 1
<1>4. \A i \in 1 .. n : Old(i) \in 1 .. n /\ b[i] = list[Old(i)]
  BY <1>1, <1>2
<1>5. \A i, j \in 1 .. n : Old(i) = Old(j) => i = j
  BY <1>1
<1> HIDE DEF Old
<1>6. ASSUME NEW i \in 1 .. n, NEW j \in 1 .. n, b[i].id = b[j].id PROVE i = j
  <2>1. list[Old(i)].id = list[Old(j)].id
    BY <1>4, <1>6
  <2>2. Old(i) = Old(j)
    BY <1>1, <1>4, <2>1 DEF DistinctIds
  <2> QED
    BY <1>5, <2>2
<1> QED
  BY <1>3, <1>6 DEF DistinctIds, b

-----------------------------------------------------------------------------
(* Queue, WithoutNearest and Delete.                                       *)

\* A queued timer joins those of the list.
LEMMA QueueType ==
  ASSUME NEW list \in Seq(Timer), NEW t \in Timer
  PROVE  /\ Queue(list, t) \in Seq(Timer)
         /\ Len(Queue(list, t)) = Len(list) + 1
         /\ DOMAIN Queue(list, t) = 1 .. Len(list) + 1
         /\ Range(Queue(list, t)) = Range(list) \cup {t}
<1> DEFINE a == Append(list, t)
<1>1. /\ Len(list) \in Nat /\ DOMAIN list = 1 .. Len(list)
      /\ a \in Seq(Timer) /\ Len(a) = Len(list) + 1
      /\ \A i \in 1 .. Len(list) : a[i] = list[i]
      /\ a[Len(list) + 1] = t
  BY LenProperties, AppendProperties
<1> HIDE DEF a
<1>2. BubbleLast(a) \in Seq(Timer) /\ Len(BubbleLast(a)) = Len(a)
  BY <1>1, BubbleType
<1>3. DOMAIN BubbleLast(a) = 1 .. Len(a)
  BY <1>2, LenProperties
<1>4. /\ \A i \in 1 .. Len(a) : \E j \in 1 .. Len(a) : BubbleLast(a)[i] = a[j]
      /\ \A j \in 1 .. Len(a) : \E i \in 1 .. Len(a) : a[j] = BubbleLast(a)[i]
  <2>1. Len(a) > 0
    BY <1>1
  <2> QED
    BY <1>1, <2>1, BubbleContents
<1> DEFINE q == BubbleLast(a)
<1> HIDE DEF q
<1>5. ASSUME NEW i \in DOMAIN q PROVE q[i] \in {list[k] : k \in DOMAIN list} \cup {t}
  <2>1. PICK j \in 1 .. Len(a) : q[i] = a[j]
    BY <1>3, <1>4 DEF q
  <2> QED
    BY <1>1, <2>1
<1>6. ASSUME NEW j \in DOMAIN list PROVE list[j] \in {q[i] : i \in DOMAIN q}
  <2>1. j \in 1 .. Len(a) /\ a[j] = list[j]
    BY <1>1
  <2>2. PICK i \in DOMAIN q : a[j] = q[i]
    BY <1>3, <1>4, <2>1 DEF q
  <2> QED
    BY <2>1, <2>2
<1>7. t \in {q[i] : i \in DOMAIN q}
  <2>1. Len(a) \in 1 .. Len(a) /\ a[Len(a)] = t
    BY <1>1
  <2>2. PICK i \in DOMAIN q : a[Len(a)] = q[i]
    BY <1>3, <1>4, <2>1 DEF q
  <2> QED
    BY <2>1, <2>2
<1>8. {q[i] : i \in DOMAIN q} = {list[k] : k \in DOMAIN list} \cup {t}
  BY <1>5, <1>6, <1>7
<1> QED
  BY <1>1, <1>2, <1>3, <1>8 DEF Queue, Range, a, q

\* The list stays sorted, and its ids distinct if the new one is new.
LEMMA QueueKeeps ==
  ASSUME NEW list \in Seq(Timer), NEW t \in Timer
  PROVE  /\ Sorted(list) => Sorted(Queue(list, t))
         /\ DistinctIds(list) /\ t.id \notin Ids(list) => DistinctIds(Queue(list, t))
         /\ Ids(Queue(list, t)) = Ids(list) \cup {t.id}
<1> DEFINE a == Append(list, t)
<1>1. /\ Len(list) \in Nat /\ DOMAIN list = 1 .. Len(list)
      /\ a \in Seq(Timer) /\ Len(a) = Len(list) + 1 /\ DOMAIN a = 1 .. Len(list) + 1
      /\ \A i \in 1 .. Len(list) : a[i] = list[i]
      /\ a[Len(list) + 1] = t
  BY LenProperties, AppendProperties
<1> HIDE DEF a
<1>2. ASSUME Sorted(list) PROVE Sorted(BubbleLast(a))
  <2>1. \A i, j \in 1 .. Len(a) - 1 : i < j => ~Less(a[i].target, a[j].target)
    BY <1>1, <1>2 DEF Sorted
  <2> QED
    BY <1>1, <2>1, BubbleSorts
<1>3. ASSUME DistinctIds(list), t.id \notin Ids(list) PROVE DistinctIds(BubbleLast(a))
  <2>1. \A i \in 1 .. Len(list) : list[i].id # t.id
    BY <1>1, <1>3 DEF Ids, Range
  <2>2. DistinctIds(a)
    BY <1>1, <1>3, <2>1 DEF DistinctIds
  <2> QED
    BY <1>1, <2>2, BubbleDistinct
<1>4. Ids(Queue(list, t)) = Ids(list) \cup {t.id}
  BY QueueType, ZenonT(30) DEF Ids
<1> QED
  BY <1>2, <1>3, <1>4 DEF Queue, a

\* Deleting a timer takes that one out and leaves the others in their order.
LEMMA DeleteProperties ==
  ASSUME NEW list \in Seq(Timer), NEW i \in 1 .. Len(list)
  PROVE  /\ Delete(list, i) \in Seq(Timer)
         /\ Len(Delete(list, i)) = Len(list) - 1
         /\ Sorted(list) => Sorted(Delete(list, i))
         /\ DistinctIds(list) => /\ DistinctIds(Delete(list, i))
                                 /\ Range(Delete(list, i)) = Range(list) \ {list[i]}
                                 /\ Range(Delete(list, i)) =
                                      {t \in Range(list) : t.id # list[i].id}
                                 /\ Ids(Delete(list, i)) = Ids(list) \ {list[i].id}
<1> DEFINE n == Len(list)
           d == Delete(list, i)
           Old(k) == IF k < i THEN k ELSE k + 1
<1>1. n \in Nat /\ DOMAIN list = 1 .. n /\ list \in [1 .. n -> Timer]
  BY LenProperties
<1>2. d \in [1 .. n - 1 -> Timer]
  BY <1>1 DEF Delete
<1>3. d \in Seq(Timer) /\ Len(d) = n - 1 /\ DOMAIN d = 1 .. n - 1
  <2>1. n - 1 \in Nat
    BY <1>1
  <2> HIDE DEF d, n
  <2> QED
    BY <1>2, <2>1, FunctionIsSeq
<1>4. \A k \in 1 .. n - 1 : Old(k) \in 1 .. n \ {i} /\ d[k] = list[Old(k)]
  BY <1>1 DEF Delete
<1>5. \A k \in 1 .. n \ {i} : \E m \in 1 .. n - 1 : Old(m) = k
  <2> TAKE k \in 1 .. n \ {i}
  <2>1. CASE k < i
    BY <1>1, <2>1
  <2>2. CASE k > i
    <3>1. k - 1 \in 1 .. n - 1 /\ Old(k - 1) = k
      BY <1>1, <2>2
    <3> QED
      BY <3>1
  <2> QED
    BY <1>1, <2>1, <2>2
<1>6. \A k, m \in 1 .. n - 1 : k < m => Old(k) < Old(m)
  BY <1>1
<1> HIDE DEF d, Old
<1>7. {d[k] : k \in DOMAIN d} = {list[k] : k \in DOMAIN list \ {i}}
  <2>1. ASSUME NEW k \in DOMAIN d PROVE d[k] \in {list[m] : m \in DOMAIN list \ {i}}
    BY <1>1, <1>3, <1>4
  <2>2. ASSUME NEW k \in DOMAIN list \ {i} PROVE list[k] \in {d[m] : m \in DOMAIN d}
    <3>1. PICK m \in 1 .. n - 1 : Old(m) = k
      BY <1>1, <1>5
    <3>2. list[k] = d[m]
      BY <1>4, <3>1
    <3> QED
      BY <1>3, <3>2
  <2> QED
    BY <2>1, <2>2
<1>8. ASSUME Sorted(list) PROVE Sorted(d)
  <2> SUFFICES ASSUME NEW k \in 1 .. n - 1, NEW m \in 1 .. n - 1, k < m
               PROVE  ~Less(d[k].target, d[m].target)
    BY <1>3 DEF Sorted
  <2> QED
    BY <1>1, <1>4, <1>6, <1>8 DEF Sorted
<1>9. ASSUME DistinctIds(list)
      PROVE  /\ DistinctIds(d)
             /\ Range(d) = Range(list) \ {list[i]}
             /\ Range(d) = {t \in Range(list) : t.id # list[i].id}
  <2>1. ASSUME NEW k \in 1 .. n - 1, NEW m \in 1 .. n - 1, d[k].id = d[m].id PROVE k = m
    <3>1. Old(k) = Old(m)
      BY <1>1, <1>4, <1>9, <2>1 DEF DistinctIds
    <3> QED
      BY <1>1, <1>4, <1>6, <3>1
  <2>2. DistinctIds(d)
    BY <1>3, <2>1 DEF DistinctIds
  <2>3. Range(d) = {list[k] : k \in DOMAIN list \ {i}}
    BY <1>7 DEF Range
  <2>4. \A k \in DOMAIN list \ {i} : list[k].id # list[i].id
    BY <1>1, <1>9 DEF DistinctIds
  <2>5. Range(list) = {list[k] : k \in DOMAIN list}
    BY DEF Range
  <2>6. Range(d) = Range(list) \ {list[i]}
    BY <2>3, <2>4, <2>5
  <2>7. Range(d) = {t \in Range(list) : t.id # list[i].id}
    BY <2>3, <2>4, <2>5
  <2> QED
    BY <2>2, <2>6, <2>7
<1>10. ASSUME DistinctIds(list) PROVE Ids(d) = Ids(list) \ {list[i].id}
  BY <1>9, <1>10 DEF Ids
<1> QED
  BY <1>3, <1>8, <1>9, <1>10 DEF d

\* Taking the nearest timer is deleting the last one.
LEMMA WithoutNearestIsDelete ==
  ASSUME NEW list \in Seq(Timer), list # <<>>
  PROVE  /\ Len(list) \in 1 .. Len(list)
         /\ WithoutNearest(list) = Delete(list, Len(list))
         /\ Nearest(list) \in Timer
<1>1. Len(list) \in Nat \ {0} /\ list \in [1 .. Len(list) -> Timer]
  BY LenProperties, EmptySeq
<1> QED
  BY <1>1 DEF WithoutNearest, Delete, Nearest

\* In a list with distinct ids delete_timer's scan finds the timer of that id.
LEMMA FirstIndexFinds ==
  ASSUME NEW list \in Seq(Timer), DistinctIds(list), NEW id \in Ids(list)
  PROVE  /\ FirstIndex(list, id) \in 1 .. Len(list)
         /\ list[FirstIndex(list, id)].id = id
<1>1. Len(list) \in Nat /\ DOMAIN list = 1 .. Len(list)
  BY LenProperties
<1>2. PICK i \in DOMAIN list : list[i].id = id
  BY DEF Ids, Range
<1>3. \A j \in 1 .. i - 1 : list[j].id # id
  BY <1>1, <1>2 DEF DistinctIds
<1>4. \E k \in DOMAIN list : list[k].id = id /\ \A j \in 1 .. k - 1 : list[j].id # id
  BY <1>2, <1>3
<1> QED
  BY <1>1, <1>4 DEF FirstIndex
===============================================================================
