---------------------------- MODULE Sandbox_proofs ----------------------------
(***************************************************************************)
(* Proofs about Sandbox, for any memory, limit and width of size_t.        *)
(***************************************************************************)
EXTENDS Sandbox, FiniteSetTheorems, TLAPS

-----------------------------------------------------------------------------
(* Regions, as malloc gives them out, and the bytes in them.               *)

Apart(rs) ==
  \A a, b \in DOMAIN rs : a # b => Span(a, rs[a]) \cap Span(b, rs[b]) = {}

Placed(rs) ==
  /\ rs = [a \in DOMAIN rs |-> rs[a]]
  /\ \A a \in DOMAIN rs :
       /\ a \in 1 .. Memory
       /\ rs[a] \in Header + 1 .. Header + MaxSize
       /\ Span(a, rs[a]) \subseteq 1 .. Memory
  /\ Apart(rs)

Bytes(rs, a) == Span(a + Header, rs[a] - Header)
Live(rs) == UNION {Bytes(rs, a) : a \in DOMAIN rs}

\* A block is as many bytes as its size, all of them in its region.
LEMMA BytesOfBlock ==
  ASSUME NEW rs, Placed(rs), NEW a \in DOMAIN rs
  PROVE  /\ IsFiniteSet(Bytes(rs, a))
         /\ Cardinality(Bytes(rs, a)) = rs[a] - Header
         /\ Bytes(rs, a) \subseteq Span(a, rs[a])
<1>1. a \in Nat /\ rs[a] \in Nat /\ Header \in Nat /\ rs[a] > Header
  BY SandboxAssumption DEF Placed
<1>2. Bytes(rs, a) = a + Header .. a + rs[a] - 1
  BY <1>1 DEF Bytes, Span
<1>3. a + Header \in Int /\ a + rs[a] - 1 \in Int
  BY <1>1
<1>4. /\ IsFiniteSet(a + Header .. a + rs[a] - 1)
      /\ Cardinality(a + Header .. a + rs[a] - 1) = rs[a] - Header
  <2>1. ~(a + Header > a + rs[a] - 1) /\ (a + rs[a] - 1) - (a + Header) + 1 = rs[a] - Header
    BY <1>1
  <2> QED
    BY <1>3, <2>1, FS_Interval
<1>5. a + Header .. a + rs[a] - 1 \subseteq Span(a, rs[a])
  BY <1>1 DEF Span
<1> QED
  BY <1>2, <1>4, <1>5

\* The engine holds no more bytes than there are.
LEMMA LiveFits ==
  ASSUME NEW rs, Placed(rs)
  PROVE  /\ IsFiniteSet(Live(rs))
         /\ Cardinality(Live(rs)) \in 0 .. Memory
<1>1. Live(rs) \subseteq 1 .. Memory
  BY BytesOfBlock DEF Live, Placed
<1>2. IsFiniteSet(1 .. Memory) /\ Cardinality(1 .. Memory) = Memory
  BY FS_Interval, SandboxAssumption
<1> QED
  BY <1>1, <1>2, FS_Subset, FS_CardinalityType, SandboxAssumption

\* A block more: its bytes are added to the live ones.
LEMMA LiveWith ==
  ASSUME NEW rs, Placed(rs), NEW a \in 1 .. Memory, NEW size \in Sizes,
         Room(rs, a, size + Header)
  PROVE  /\ a \notin DOMAIN rs
         /\ Placed(With(rs, a, size + Header))
         /\ Cardinality(Live(With(rs, a, size + Header))) = Cardinality(Live(rs)) + size
<1> DEFINE new == With(rs, a, size + Header)
<1>1. a \in Nat /\ size \in Nat /\ size > 0 /\ Header \in Nat /\ Header > 0 /\ size <= MaxSize
  BY SandboxAssumption DEF Sizes
<1>2. a \in Span(a, size + Header)
  BY <1>1 DEF Span
<1>3. \A b \in DOMAIN rs : b \in Span(b, rs[b])
  BY SandboxAssumption DEF Span, Placed
<1>4. a \notin DOMAIN rs
  BY <1>2, <1>3 DEF Room
<1>5. /\ DOMAIN new = DOMAIN rs \cup {a}
      /\ new[a] = size + Header
      /\ \A b \in DOMAIN rs : new[b] = rs[b]
  BY <1>4 DEF With
<1>6. Apart(new)
  BY <1>5, <1>4 DEF Apart, Room, Placed
<1>7. Placed(new)
  <2>1. new = [b \in DOMAIN new |-> new[b]]
    BY DEF With
  <2>2. size + Header \in Header + 1 .. Header + MaxSize
    BY <1>1, SandboxAssumption
  <2> QED
    BY <2>1, <2>2, <1>5, <1>6 DEF Placed, Room
<1>8. Live(new) = Live(rs) \cup Bytes(new, a)
  BY <1>5 DEF Live, Bytes
<1>9. Live(rs) \cap Bytes(new, a) = {}
  <2>1. \A b \in DOMAIN rs : Bytes(rs, b) \subseteq Span(b, rs[b])
    BY BytesOfBlock
  <2>2. Bytes(new, a) \subseteq Span(a, size + Header)
    BY <1>5, <1>7, BytesOfBlock
  <2> QED
    BY <2>1, <2>2 DEF Live, Room
<1>10. Cardinality(Bytes(new, a)) = size /\ IsFiniteSet(Bytes(new, a))
  BY <1>1, <1>5, <1>7, BytesOfBlock
<1>11. Cardinality(Live(new)) = Cardinality(Live(rs)) + size
  BY <1>1, <1>8, <1>9, <1>10, LiveFits, FS_Union, FS_EmptySet, SandboxAssumption
<1> QED
  BY <1>4, <1>7, <1>11

\* A block less: its bytes are subtracted.
LEMMA LiveWithout ==
  ASSUME NEW rs, Placed(rs), NEW a \in DOMAIN rs
  PROVE  /\ Placed(Without(rs, a))
         /\ Cardinality(Live(Without(rs, a))) = Cardinality(Live(rs)) - (rs[a] - Header)
<1> DEFINE new == Without(rs, a)
<1>1. DOMAIN new = DOMAIN rs \ {a} /\ \A b \in DOMAIN new : new[b] = rs[b]
  BY DEF Without
<1>2. Placed(new)
  <2>1. new = [b \in DOMAIN new |-> new[b]]
    BY DEF Without
  <2> QED
    BY <2>1, <1>1 DEF Placed, Apart
<1>3. Live(rs) \cap Bytes(rs, a) = Bytes(rs, a)
  BY DEF Live
<1>4. Live(new) = Live(rs) \ Bytes(rs, a)
  <2>1. \A b \in DOMAIN rs : Bytes(rs, b) \subseteq Span(b, rs[b])
    BY BytesOfBlock
  <2>2. \A b \in DOMAIN new : Bytes(rs, b) \cap Bytes(rs, a) = {}
    BY <2>1, <1>1 DEF Placed, Apart
  <2>3. \A b \in DOMAIN new : Bytes(new, b) = Bytes(rs, b)
    BY <1>1 DEF Bytes
  <2> QED
    BY <1>1, <2>2, <2>3 DEF Live
<1>5. Cardinality(Live(rs) \ Bytes(rs, a)) = Cardinality(Live(rs)) - Cardinality(Bytes(rs, a))
  BY <1>3, LiveFits, FS_Difference
<1> QED
  BY <1>2, <1>4, <1>5, BytesOfBlock

-----------------------------------------------------------------------------
(* Sums that fit are not changed by the width of size_t.                   *)

LEMMA AddFits ==
  ASSUME NEW m \in Nat, NEW n \in Nat, m + n < SizeMod
  PROVE  Add(m, n) = m + n
BY SandboxAssumption DEF Add

LEMMA SubtractFits ==
  ASSUME NEW m \in Nat, NEW n \in Nat, n <= m, m < SizeMod
  PROVE  Subtract(m, n) = m - n
BY SandboxAssumption DEF Subtract

\* A sum that wraps has become smaller: what exceeds the limit all the same exceeds it
\* in truth.
LEMMA AddSmaller ==
  ASSUME NEW m \in Nat, NEW n \in Nat
  PROVE  Add(m, n) <= m + n
BY SandboxAssumption DEF Add

-----------------------------------------------------------------------------
(* The inductive invariant: headers tell the truth about regions that lie  *)
(* apart, and the total about the bytes in them.                           *)

Headers ==
  /\ DOMAIN hdr = DOMAIN regions
  /\ \A a \in DOMAIN regions : hdr[a] = regions[a] - Header

LastOK == last \in [old : 0 .. MaxSize, size : 0 .. MaxSize,
                    answer : {"none", "block", "freed", "refused", "out of memory"}]

IInv ==
  /\ Placed(regions)
  /\ Headers
  /\ total_allocated_bytes = Cardinality(Live(regions))
  /\ WithinLimit
  /\ LastOK
  /\ RefusedRightly

LEMMA LiveIsLive == LiveBytes = Live(regions) /\ LiveBytes' = Live(regions')
BY DEF LiveBytes, Live, Payload, Bytes

LEMMA IInvTypes ==
  ASSUME IInv
  PROVE  TypeOK /\ TotalIsLive
<1>1. TotalIsLive
  BY LiveIsLive DEF IInv, TotalIsLive
<1>2. total_allocated_bytes \in 0 .. SizeMod - 1
  BY LiveFits, SandboxAssumption DEF IInv
<1>3. DOMAIN regions \subseteq 1 .. Memory
  BY DEF IInv, Placed
<1>4. \A a \in DOMAIN regions : regions[a] \in Header + 1 .. Header + MaxSize
  BY DEF IInv, Placed
<1>5. DOMAIN hdr = DOMAIN regions /\ \A a \in DOMAIN hdr : hdr[a] \in Sizes
  BY <1>4, SandboxAssumption DEF IInv, Headers, Sizes
<1> QED
  BY <1>1, <1>2, <1>3, <1>4, <1>5 DEF TypeOK, IInv, LastOK

LEMMA InitIInv == Init => IInv
<1> SUFFICES ASSUME Init PROVE IInv
  OBVIOUS
<1>1. DOMAIN regions = {} /\ DOMAIN hdr = {} /\ regions = [a \in DOMAIN regions |-> regions[a]]
  BY DEF Init
<1>2. Placed(regions) /\ Headers
  BY <1>1 DEF Placed, Apart, Headers
<1>3. Live(regions) = {}
  BY <1>1 DEF Live
<1>4. Cardinality(Live(regions)) = 0
  BY <1>3, FS_EmptySet
<1>5. LastOK /\ last.answer = "none"
  BY SandboxAssumption DEF Init, LastOK, Request
<1> QED
  BY <1>2, <1>4, <1>5, LiveIsLive, SandboxAssumption
  DEF IInv, Init, WithinLimit, RefusedRightly

-----------------------------------------------------------------------------
(* The steps.                                                              *)

\* What a request that was not refused adds stays within the limit, if the blocks fit
\* into memory: then nothing wrapped.
LEMMA NotExceeded ==
  ASSUME NEW old \in Nat, NEW size \in Nat, Limit > 0,
         total_allocated_bytes \in Nat, total_allocated_bytes < SizeMod,
         old <= total_allocated_bytes,
         total_allocated_bytes - old + size < SizeMod,
         ~Exceeds(old, size)
  PROVE  total_allocated_bytes - old + size <= Limit
<1> DEFINE rest == total_allocated_bytes - old
<1>1. rest \in Nat /\ Subtract(total_allocated_bytes, old) = rest
  BY SubtractFits
<1>2. Add(rest, size) = rest + size
  BY <1>1, AddFits
<1>3. ~(Add(rest, size) > Limit)
  BY <1>1 DEF Exceeds
<1> QED
  BY <1>1, <1>2, <1>3, SandboxAssumption

LEMMA AllocIInv ==
  ASSUME IInv, NEW size \in Sizes, Alloc(size)
  PROVE  IInv'
<1>1. PICK a \in 1 .. Memory :
        /\ Room(regions, a, size + Header)
        /\ regions' = With(regions, a, size + Header)
        /\ hdr' = With(hdr, a, HeaderSize(size))
  BY DEF Alloc
<1> DEFINE live == Cardinality(Live(regions))
<1>2. /\ a \notin DOMAIN regions
      /\ Placed(regions')
      /\ Cardinality(Live(regions')) = live + size
  BY <1>1, LiveWith DEF IInv
<1>3. live \in Nat /\ live + size < SizeMod /\ size \in Nat /\ size <= MaxSize
  BY <1>2, LiveFits, SandboxAssumption DEF IInv, Sizes
<1>4. Headers'
  <2>1. DOMAIN hdr' = DOMAIN regions' /\ regions'[a] = size + Header /\ hdr'[a] = size
    BY <1>1 DEF IInv, Headers, With, HeaderSize
  <2>2. \A b \in DOMAIN regions : regions'[b] = regions[b] /\ hdr'[b] = hdr[b]
    BY <1>1, <1>2 DEF IInv, Headers, With
  <2>3. DOMAIN regions' = DOMAIN regions \cup {a}
    BY <1>1 DEF With
  <2>4. hdr'[a] = regions'[a] - Header
    BY <2>1, <1>3, SandboxAssumption
  <2>5. \A b \in DOMAIN regions : hdr'[b] = regions'[b] - Header
    BY <2>2 DEF IInv, Headers
  <2> QED
    BY <2>1, <2>3, <2>4, <2>5 DEF Headers
<1>5. total_allocated_bytes' = live + size
  BY <1>3, AddFits DEF Alloc, IInv
<1>6. Limit > 0 => live + size <= Limit
  <2> HIDE DEF live
  <2>1. total_allocated_bytes = live
    BY DEF IInv, live
  <2>2. total_allocated_bytes - 0 + size < SizeMod /\ total_allocated_bytes < SizeMod
    BY <1>3, <2>1, SandboxAssumption
  <2>3. ~Exceeds(0, size)
    BY DEF Alloc
  <2>4. Limit > 0 => total_allocated_bytes - 0 + size <= Limit
    BY <2>1, <2>2, <2>3, <1>3, NotExceeded
  <2> QED
    BY <2>1, <2>4, <1>3
<1>7. LastOK' /\ last'.answer = "block"
  BY <1>3, SandboxAssumption DEF Alloc, Request, LastOK
<1> QED
  BY <1>2, <1>4, <1>5, <1>6, <1>7, LiveIsLive DEF IInv, WithinLimit, RefusedRightly

\* What the engine gives to realloc and free has a region and a header.
LEMMA BlockOfPointer ==
  ASSUME IInv, NEW ptr \in Blocks
  PROVE  /\ HeaderOf(ptr) \in DOMAIN regions
         /\ hdr[HeaderOf(ptr)] = regions[HeaderOf(ptr)] - Header
         /\ hdr[HeaderOf(ptr)] \in Sizes
<1>1. PICK a \in DOMAIN regions : ptr = a + Header
  BY DEF Blocks, IInv, Headers
<1>2. a \in Nat /\ Header \in Nat
  BY SandboxAssumption DEF IInv, Placed
<1>3. HeaderOf(ptr) = a
  BY <1>1, <1>2 DEF HeaderOf
<1>4. regions[a] \in Header + 1 .. Header + MaxSize
  BY DEF IInv, Placed
<1> QED
  BY <1>2, <1>3, <1>4, SandboxAssumption DEF IInv, Headers, Sizes

LEMMA ReallocIInv ==
  ASSUME IInv, NEW ptr \in Blocks, NEW size \in Sizes, Realloc(ptr, size)
  PROVE  IInv'
<1> DEFINE a == HeaderOf(ptr)
           old == hdr[a]
           others == Without(regions, a)
           live == Cardinality(Live(regions))
<1>1. a \in DOMAIN regions /\ old = regions[a] - Header /\ old \in Sizes
  BY BlockOfPointer
<1> HIDE DEF a
<1>2. PICK b \in 1 .. Memory :
        /\ Room(others, b, size + Header)
        /\ regions' = With(others, b, size + Header)
        /\ hdr' = With(Without(hdr, a), b, HeaderSize(size))
  BY DEF Realloc, a
<1>3. Placed(others) /\ Cardinality(Live(others)) = live - old
  BY <1>1, LiveWithout DEF IInv
<1>4. /\ b \notin DOMAIN others
      /\ Placed(regions')
      /\ Cardinality(Live(regions')) = Cardinality(Live(others)) + size
  BY <1>2, <1>3, LiveWith
<1>5. /\ live \in Nat /\ live < SizeMod
      /\ old \in Nat /\ size \in Nat /\ old <= MaxSize /\ size <= MaxSize
      /\ old <= live /\ live - old + size < SizeMod
  <2>1. Cardinality(Live(others)) \in 0 .. Memory /\ live \in 0 .. Memory
    BY <1>3, LiveFits DEF IInv
  <2>2. Cardinality(Live(regions')) \in 0 .. Memory
    BY <1>4, LiveFits
  <2> QED
    BY <2>1, <2>2, <1>1, <1>3, <1>4, SandboxAssumption DEF Sizes
<1>6. Headers'
  <2>1. /\ DOMAIN regions' = DOMAIN others \cup {b}
        /\ DOMAIN hdr' = DOMAIN others \cup {b}
        /\ regions'[b] = size + Header /\ hdr'[b] = size
    BY <1>2 DEF IInv, Headers, With, Without, HeaderSize
  <2>2. \A c \in DOMAIN others :
          /\ c \in DOMAIN regions
          /\ regions'[c] = regions[c] /\ hdr'[c] = hdr[c]
    BY <1>2, <1>4 DEF IInv, Headers, With, Without
  <2>3. hdr'[b] = regions'[b] - Header
    BY <2>1, <1>5, SandboxAssumption
  <2>4. \A c \in DOMAIN others : hdr'[c] = regions'[c] - Header
    BY <2>2 DEF IInv, Headers
  <2> QED
    BY <2>1, <2>3, <2>4 DEF Headers
<1>7. total_allocated_bytes' = live - old + size
  <2>1. total_allocated_bytes' = Add(Subtract(live, old), size)
    BY DEF Realloc, TotalAfter, a, IInv
  <2>2. Subtract(live, old) = live - old /\ live - old \in Nat
    BY <1>5, SubtractFits
  <2> QED
    BY <2>1, <2>2, <1>5, AddFits
<1>8. Limit > 0 => live - old + size <= Limit
  <2>1. ~Exceeds(old, size)
    BY DEF Realloc, a
  <2> QED
    BY <2>1, <1>5, NotExceeded DEF IInv
<1>9. LastOK' /\ last'.answer = "block"
  BY <1>1, <1>5, SandboxAssumption DEF Realloc, Request, LastOK, a
<1> QED
  BY <1>3, <1>4, <1>6, <1>7, <1>8, <1>9, LiveIsLive DEF IInv, WithinLimit, RefusedRightly

LEMMA FreeIInv ==
  ASSUME IInv, NEW ptr \in Blocks, Free(ptr)
  PROVE  IInv'
<1> DEFINE a == HeaderOf(ptr)
           old == hdr[a]
           live == Cardinality(Live(regions))
<1>1. a \in DOMAIN regions /\ old = regions[a] - Header /\ old \in Sizes
  BY BlockOfPointer
<1>2. regions' = Without(regions, a) /\ hdr' = Without(hdr, a)
  BY DEF Free
<1>3. Placed(regions') /\ Cardinality(Live(regions')) = live - old
  BY <1>1, <1>2, LiveWithout DEF IInv
<1>4. /\ live \in Nat /\ live < SizeMod
      /\ old \in Nat /\ old <= MaxSize /\ old <= live
  <2>1. Cardinality(Live(regions')) \in 0 .. Memory /\ live \in 0 .. Memory
    BY <1>3, LiveFits DEF IInv
  <2> QED
    BY <2>1, <1>1, <1>3, SandboxAssumption DEF Sizes
<1>5. Headers'
  BY <1>2 DEF IInv, Headers, Without
<1>6. total_allocated_bytes' = live - old
  BY <1>4, SubtractFits DEF Free, IInv
<1>7. Limit > 0 => live - old <= Limit
  <2>1. Limit > 0 => live <= Limit
    BY LiveIsLive DEF IInv, WithinLimit
  <2> QED
    BY <2>1, <1>4, SandboxAssumption
<1>8. LastOK' /\ last'.answer = "freed"
  BY <1>1, <1>4, SandboxAssumption DEF Free, Request, LastOK
<1> QED
  BY <1>3, <1>5, <1>6, <1>7, <1>8, LiveIsLive DEF IInv, WithinLimit, RefusedRightly

\* A request that changes nothing: if it was refused, it would have exceeded the limit,
\* for what was compared with the limit is no more than the truth.
LEMMA UnansweredIInv ==
  ASSUME IInv, NEW old \in 0 .. MaxSize, NEW size \in Sizes,
         old <= Cardinality(Live(regions)),
         Refuse(old, old, size) \/ Fail(old, old, size)
  PROVE  IInv'
<1> DEFINE live == Cardinality(Live(regions))
<1>1. UNCHANGED <<regions, hdr, total_allocated_bytes>>
  BY DEF Refuse, Fail
<1>2. live \in Nat /\ live < SizeMod /\ old \in Nat /\ size \in Nat /\ size <= MaxSize
  BY LiveFits, SandboxAssumption DEF IInv, Sizes
<1>3. Exceeds(old, size) => live - old + size > Limit
  <2>1. Subtract(live, old) = live - old /\ live - old \in Nat
    BY <1>2, SubtractFits
  <2>2. \A m \in Nat : Add(m, size) <= m + size /\ Add(m, size) \in Int
    BY <1>2, AddSmaller, SandboxAssumption DEF Add
  <2>3. Exceeds(old, size) => Add(live - old, size) > Limit
    BY <2>1 DEF Exceeds, IInv
  <2>4. Add(live - old, size) <= live - old + size /\ Add(live - old, size) \in Int
    BY <2>1, <2>2
  <2> HIDE DEF live
  <2> QED
    BY <2>1, <2>3, <2>4, <1>2, SandboxAssumption
<1>4. old \in 0 .. MaxSize /\ size \in 0 .. MaxSize
  BY <1>2, SandboxAssumption
<1>5. /\ WithinLimit'
      /\ Live(regions') = Live(regions)
      /\ LiveBytes' = Live(regions)
  BY <1>1, LiveIsLive DEF IInv, WithinLimit
<1>6. CASE Refuse(old, old, size)
  <2>1. last' = Request(old, size, "refused") /\ Exceeds(old, size)
    BY <1>6 DEF Refuse
  <2>2. LastOK'
    BY <1>4, <2>1 DEF Request, LastOK
  <2>3. RefusedRightly'
    BY <1>3, <1>5, <2>1 DEF RefusedRightly, Request
  <2> QED
    BY <1>1, <1>5, <2>2, <2>3 DEF IInv, Headers
<1>7. CASE Fail(old, old, size)
  <2>1. last' = Request(old, size, "out of memory")
    BY <1>7 DEF Fail
  <2>2. LastOK' /\ RefusedRightly'
    BY <1>4, <2>1 DEF Request, LastOK, RefusedRightly
  <2> QED
    BY <1>1, <1>5, <2>2 DEF IInv, Headers
<1> QED
  BY <1>6, <1>7

\* One block is no more than all of them.
LEMMA BlockIsLive ==
  ASSUME IInv, NEW ptr \in Blocks
  PROVE  hdr[HeaderOf(ptr)] <= Cardinality(Live(regions))
<1> DEFINE a == HeaderOf(ptr)
<1>1. a \in DOMAIN regions /\ hdr[a] = regions[a] - Header /\ hdr[a] \in Sizes
  BY BlockOfPointer
<1>2. Bytes(regions, a) \subseteq Live(regions)
  BY <1>1 DEF Live
<1>3. Cardinality(Bytes(regions, a)) = hdr[a]
  BY <1>1, BytesOfBlock DEF IInv
<1> QED
  BY <1>2, <1>3, LiveFits, FS_Subset DEF IInv

LEMMA NextIInv == IInv /\ [Next]_vars => IInv'
<1> SUFFICES ASSUME IInv, [Next]_vars PROVE IInv'
  OBVIOUS
<1>1. ASSUME NEW size \in Sizes, Alloc(size) PROVE IInv'
  BY <1>1, AllocIInv
<1>2. ASSUME NEW size \in Sizes, AllocRefused(size) \/ AllocFails(size) PROVE IInv'
  <2>1. 0 \in 0 .. MaxSize /\ 0 <= Cardinality(Live(regions))
    BY LiveFits, SandboxAssumption DEF IInv
  <2> QED
    BY <1>2, <2>1, UnansweredIInv DEF AllocRefused, AllocFails
<1>3. ASSUME NEW ptr \in Blocks, NEW size \in Sizes, Realloc(ptr, size) PROVE IInv'
  BY <1>3, ReallocIInv
<1>4. ASSUME NEW ptr \in Blocks, NEW size \in Sizes,
             ReallocRefused(ptr, size) \/ ReallocFails(ptr, size)
      PROVE  IInv'
  <2> DEFINE old == hdr[HeaderOf(ptr)]
  <2>1. old \in 0 .. MaxSize /\ old = regions[HeaderOf(ptr)] - Header
    BY BlockOfPointer, SandboxAssumption DEF Sizes
  <2>2. old <= Cardinality(Live(regions))
    BY BlockIsLive
  <2>3. Refuse(old, old, size) \/ Fail(old, old, size)
    BY <1>4, <2>1 DEF ReallocRefused, ReallocFails
  <2> QED
    BY <2>1, <2>2, <2>3, UnansweredIInv
<1>5. ASSUME NEW ptr \in Blocks, Free(ptr) PROVE IInv'
  BY <1>5, FreeIInv
<1>6. CASE UNCHANGED vars
  BY <1>6 DEF vars, IInv, Headers, LastOK, WithinLimit, RefusedRightly, LiveBytes, Payload
<1> QED
  BY <1>1, <1>2, <1>3, <1>4, <1>5, <1>6 DEF Next

LEMMA SpecIInv == Spec => []IInv
BY InitIInv, NextIInv, PTL DEF Spec

-----------------------------------------------------------------------------
(* Theorems.                                                               *)

\* Every region has its header, and every header the size that was asked for.
THEOREM SandboxTypeCorrect == Spec => []TypeOK
BY SpecIInv, IInvTypes, PTL

\* The total is the number of bytes that the engine holds: it neither drifts nor wraps.
THEOREM TotalIsWhatIsLive == Spec => []TotalIsLive
BY SpecIInv, IInvTypes, PTL

\* The engine never holds more than max_memory_bytes.
THEOREM LimitIsKept == Spec => []WithinLimit
<1>1. IInv => WithinLimit
  BY DEF IInv
<1> QED
  BY <1>1, SpecIInv, PTL

\* Only what would exceed the limit is refused.
THEOREM RefusalsAreRight == Spec => []RefusedRightly
<1>1. IInv => RefusedRightly
  BY DEF IInv
<1> QED
  BY <1>1, SpecIInv, PTL
=============================================================================
