------------------------------- MODULE KHeap -------------------------------
(***************************************************************************)
(* The kernel heap, src/kheap.c: a bump allocator over the physical range  *)
(* from HEAP_START, sized by kheap_init from the memory the boot loader    *)
(* reported.  Nothing is ever given back (kfree is empty), so "used" only  *)
(* grows and every block handed out stays live: "blocks" records them all. *)
(* Addresses are in units of one byte; the constants are scaled down.      *)
(***************************************************************************)
EXTENDS KHeapOps, Sequences

CONSTANTS
  HEAP_START,   \* first byte of the heap (16 MB)
  HEAP_MAX,     \* end of the largest heap (32 MB)
  Margin,       \* 0x100000: left free below the top of memory, and the least heap
  MemSizes,     \* amounts of memory, in bytes, the machine may have; 0: unknown
  Requests      \* sizes the callers ask for (no caller asks for 0)

ASSUME KHeapAssumption ==
  /\ HEAP_START \in Nat \ {0} /\ HEAP_MAX \in Nat /\ Margin \in Nat
  /\ HEAP_START <= HEAP_MAX
  /\ MemSizes \subseteq Nat /\ Requests \subseteq Nat \ {0}

VARIABLES
  mem,          \* total_mem_kb, in bytes
  total, used,
  blocks        \* every block handed out, in order: [addr, size, asked]

vars == <<mem, total, used, blocks>>

\* Mistaken forms of the definitions below, which no definition uses; they
\* show what the properties notice.  Without the comparison with the margin:
HeapTotal_unchecked(m) ==
  IF m = 0 \/ m > HEAP_MAX THEN HEAP_MAX - HEAP_START ELSE m - HEAP_START - Margin
\* always the largest heap:
HeapTotal_max(m) == HEAP_MAX - HEAP_START
\* the request is not rounded when "used" moves:
kmalloc_unrounded(n) ==
  /\ IF Fits(used, total, n)
     THEN /\ blocks' = Append(blocks, [addr  |-> HEAP_START + used,
                                       size  |-> AlignUp(n),
                                       asked |-> n])
          /\ used' = used + n
     ELSE UNCHANGED <<used, blocks>>
  /\ UNCHANGED <<mem, total>>

\* What kheap_init leaves in "total" for a machine with m bytes.
HeapTotal(m) ==
  IF m = 0 \/ m > HEAP_MAX         THEN HEAP_MAX - HEAP_START
  ELSE IF m > HEAP_START + Margin  THEN m - HEAP_START - Margin
  ELSE Margin

kheap_init ==
  /\ mem \in MemSizes
  /\ total = HeapTotal(mem)
  /\ used = 0
  /\ blocks = <<>>

\* kmalloc, and kzalloc, which allocates the same way and clears the block.
kmalloc(n) ==
  /\ IF Fits(used, total, n)
     THEN /\ blocks' = Append(blocks, [addr  |-> HEAP_START + used,
                                       size  |-> AlignUp(n),
                                       asked |-> n])
          /\ used' = used + AlignUp(n)
     ELSE UNCHANGED <<used, blocks>>
  /\ UNCHANGED <<mem, total>>

\* krealloc never grows in place: it allocates anew, and the old block stays.
krealloc(b, n) == b \in 1..Len(blocks) /\ kmalloc(n)

kfree(b) == b \in 1..Len(blocks) /\ UNCHANGED vars

Next ==
  \E n \in Requests : \/ kmalloc(n)
                      \/ \E b \in 1..Len(blocks) : krealloc(b, n) \/ kfree(b)

Spec == kheap_init /\ [][Next]_vars

-----------------------------------------------------------------------------
End(b) == b.addr + b.size

TypeOK ==
  /\ mem \in MemSizes
  /\ total \in Nat /\ used \in Nat
  /\ blocks \in Seq([addr : Nat, size : Nat, asked : Nat])

\* No two live blocks share a byte: what kmalloc hands out is never part of
\* an earlier block, although nothing records where those were.
Disjoint ==
  \A i, j \in 1..Len(blocks) :
    i < j => End(blocks[i]) <= blocks[j].addr

\* Every block holds what was asked for and ends inside the heap.
InHeap ==
  \A i \in 1..Len(blocks) :
    /\ blocks[i].asked <= blocks[i].size
    /\ HEAP_START <= blocks[i].addr
    /\ End(blocks[i]) <= HEAP_START + total

\* The heap kheap_init lays out is memory the machine has, whenever there is
\* room above HEAP_START for the least heap, and it never reaches HEAP_MAX.
HeapInRam ==
  /\ total <= HEAP_MAX - HEAP_START \/ total = Margin
  /\ mem >= HEAP_START + Margin
       => \A i \in 1..Len(blocks) : End(blocks[i]) <= mem
=============================================================================
