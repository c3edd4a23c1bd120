------------------------------- MODULE Sandbox -------------------------------
(***************************************************************************)
(* The allocator of a VM, pl_sandbox.c: it puts a header with the size in  *)
(* front of every block that malloc gives it, keeps the sum of the sizes,  *)
(* and refuses what would lift the sum beyond max_memory_bytes.  Sizes are *)
(* size_t: sums and differences wrap.                                      *)
(*                                                                         *)
(* What is out there (regions) is told apart from what the allocator       *)
(* believes (the headers and the total): memory is a range of addresses,   *)
(* of which malloc and realloc give any that are free, or none.            *)
(***************************************************************************)
EXTENDS Integers, FiniteSets

CONSTANTS
  SizeMod,        \* SIZE_MAX + 1
  Memory,         \* the addresses that malloc hands out are 1 .. Memory
  Header,         \* sizeof(alloc_hdr)
  MaxSize,        \* largest block that the engine asks for
  Limit           \* max_allocated_bytes, 0 if there is no limit

\* Addresses are no wider than size_t.  The engine bounds its strings, buffers and
\* tables, so that size + sizeof(alloc_hdr) does not wrap.
ASSUME SandboxAssumption ==
  /\ SizeMod \in Nat /\ Memory \in Nat /\ MaxSize \in Nat
  /\ Header \in Nat \ {0} /\ Limit \in 0 .. SizeMod - 1
  /\ Memory < SizeMod
  /\ MaxSize + Header < SizeMod

VARIABLES
  regions,                \* what malloc has given out: first address -> length
  hdr,                    \* hdr->u.sz, by the address of the header
  total_allocated_bytes,
  last                    \* history: the last request, and how it was answered

vars == <<regions, hdr, total_allocated_bytes, last>>

Sizes == 1 .. MaxSize

Add(m, n) == (m + n) % SizeMod
Subtract(m, n) == (m - n) % SizeMod

\* Where realloc and free find the header of the block ptr.
HeaderOf(ptr) == ptr - Header

\* The request wanted size bytes in the place of old.
Request(old, size, answer) == [old |-> old, size |-> size, answer |-> answer]

Init ==
  /\ regions = << >>
  /\ hdr = << >>
  /\ total_allocated_bytes = 0
  /\ last = Request(0, 0, "none")

-----------------------------------------------------------------------------
Span(a, n) == a .. a + n - 1
Without(f, a) == [b \in DOMAIN f \ {a} |-> f[b]]
With(f, a, v) == [b \in DOMAIN f \cup {a} |-> IF b = a THEN v ELSE f[b]]

\* malloc and realloc find room for n bytes at a beside the regions rs.
Room(rs, a, n) ==
  /\ Span(a, n) \subseteq 1 .. Memory
  /\ \A b \in DOMAIN rs : Span(a, n) \cap Span(b, rs[b]) = {}

\* The pointers that the engine holds.
Blocks == {a + Header : a \in DOMAIN hdr}

\* The bytes that the engine holds.
Payload(a) == Span(a + Header, regions[a] - Header)
LiveBytes == UNION {Payload(a) : a \in DOMAIN regions}

\* Faulty variants: what is given back is not subtracted; only the block is compared.
ExceedsWithoutOld(old, size) ==
  /\ Limit > 0
  /\ Add(total_allocated_bytes, size) > Limit
ExceedsAlone(old, size) ==
  /\ Limit > 0
  /\ size > Limit

Exceeds(old, size) ==
  /\ Limit > 0
  /\ Add(Subtract(total_allocated_bytes, old), size) > Limit

\* Faulty variant: the size of the whole region.
HeaderSizeAll(size) == size + Header

HeaderSize(size) == size

\* Faulty variant: the old size stays in the sum.
TotalKeepsOld(old, size) == Add(total_allocated_bytes, size)

TotalAfter(old, size) == Add(Subtract(total_allocated_bytes, old), size)

-----------------------------------------------------------------------------
(* malloc(size + sizeof(alloc_hdr)), by pl_sandbox_alloc, or by             *)
(* pl_sandbox_realloc of NULL.  A request for no bytes changes nothing.     *)

Alloc(size) ==
  /\ ~Exceeds(0, size)
  /\ \E a \in 1 .. Memory :
       /\ Room(regions, a, size + Header)
       /\ regions' = With(regions, a, size + Header)
       /\ hdr' = With(hdr, a, HeaderSize(size))
  /\ total_allocated_bytes' = Add(total_allocated_bytes, size)
  /\ last' = Request(0, size, "block")

\* A block is resized where it is, or moved, also over bytes of its own.
Realloc(ptr, size) ==
  LET a == HeaderOf(ptr)
      old_size == hdr[a]
      others == Without(regions, a)
  IN /\ ~Exceeds(old_size, size)
     /\ \E b \in 1 .. Memory :
          /\ Room(others, b, size + Header)
          /\ regions' = With(others, b, size + Header)
          /\ hdr' = With(Without(hdr, a), b, HeaderSize(size))
     /\ total_allocated_bytes' = TotalAfter(old_size, size)
     /\ last' = Request(regions[a] - Header, size, "block")

\* pl_sandbox_free, and pl_sandbox_realloc to no bytes.
Free(ptr) ==
  LET a == HeaderOf(ptr)
  IN /\ regions' = Without(regions, a)
     /\ hdr' = Without(hdr, a)
     /\ total_allocated_bytes' = Subtract(total_allocated_bytes, hdr[a])
     /\ last' = Request(regions[a] - Header, 0, "freed")

\* The limit refuses the request, for a block more or for another size of a block.
Refuse(old, held, size) ==
  /\ Exceeds(old, size)
  /\ last' = Request(held, size, "refused")
  /\ UNCHANGED <<regions, hdr, total_allocated_bytes>>

AllocRefused(size) == Refuse(0, 0, size)

ReallocRefused(ptr, size) ==
  LET a == HeaderOf(ptr) IN Refuse(hdr[a], regions[a] - Header, size)

\* The system has no memory left, or says so: the old block stays as it is.
Fail(old, held, size) ==
  /\ ~Exceeds(old, size)
  /\ last' = Request(held, size, "out of memory")
  /\ UNCHANGED <<regions, hdr, total_allocated_bytes>>

AllocFails(size) == Fail(0, 0, size)

ReallocFails(ptr, size) ==
  LET a == HeaderOf(ptr) IN Fail(hdr[a], regions[a] - Header, size)

Next ==
  \/ \E size \in Sizes : Alloc(size) \/ AllocRefused(size) \/ AllocFails(size)
  \/ \E ptr \in Blocks, size \in Sizes :
       Realloc(ptr, size) \/ ReallocRefused(ptr, size) \/ ReallocFails(ptr, size)
  \/ \E ptr \in Blocks : Free(ptr)

Spec == Init /\ [][Next]_vars

-----------------------------------------------------------------------------
(* Properties.                                                             *)

\* The types of the variables, and a header for every region, which holds the size
\* that was asked for (pl_sandbox.c:83, 120, 137).
TypeOK ==
  /\ DOMAIN regions \subseteq 1 .. Memory
  /\ \A a \in DOMAIN regions : regions[a] \in Header + 1 .. Header + MaxSize
  /\ DOMAIN hdr = DOMAIN regions
  /\ \A a \in DOMAIN hdr : hdr[a] \in Sizes
  /\ total_allocated_bytes \in 0 .. SizeMod - 1
  /\ last \in [old : 0 .. MaxSize, size : 0 .. MaxSize,
               answer : {"none", "block", "freed", "refused", "out of memory"}]

\* The total is the number of bytes that the engine holds: no sequence of allocations,
\* moves, refusals and failures makes the sum drift or wrap (pl_sandbox.c:84,
\* 102, 118-119, 138, 154).  It is never set to 0 again, also not when reset makes a new heap.
TotalIsLive == total_allocated_bytes = Cardinality(LiveBytes)

\* The engine never holds more than max_memory_bytes, although total + size may wrap
\* and pass the comparison (pl_sandbox.c:74, 108, 128).
WithinLimit == Limit > 0 => Cardinality(LiveBytes) <= Limit

\* The limit refuses only what would exceed it: what a realloc gives back counts, so
\* that a full VM can still shrink its blocks (pl_sandbox.c:108).
RefusedRightly ==
  last.answer = "refused" => Cardinality(LiveBytes) - last.old + last.size > Limit
=============================================================================
